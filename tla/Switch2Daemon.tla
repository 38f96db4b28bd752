---------------------------- MODULE Switch2Daemon ----------------------------
(***************************************************************************)
(* async_main of switch2d.py and the modes it dispatches to: the reconnect *)
(* loop (--daemon), diagnose with one profile or with automatic profile    *)
(* detection (--diagnose), and a single session.  The sessions they run    *)
(* are those of Switch2Session.                                            *)
(***************************************************************************)
EXTENDS Switch2Session

CONSTANT MaxExponent    \* largest n for which the float 2.0 ** n exists (1023 in the code)

ASSUME ExponentAssumption == MaxExponent \in Nat

VARIABLES
    reconnectCount,     \* consecutive failed sessions of the reconnect loop
    autoIdx,            \* position in AUTO_PROFILE_ORDER
    attempted,          \* attempted_profiles, with what the session really passed
    winning             \* winning_profile

modeVars == <<reconnectCount, autoIdx, attempted, winning>>
vars == <<sessionVars, modeVars>>

AutoProfileOrder == <<"macos", "spro2win", "joycon2cpp">>
NoWinner == "none"

\* The mode async_main chooses: --diagnose wins over --daemon, and --daemon has
\* already turned profile auto into macos.
ArgProfile == IF "daemon" \in args.options /\ args.profile = "auto"
              THEN "macos" ELSE args.profile
Mode == IF "diagnose" \in args.options
        THEN IF ArgProfile = "auto" THEN "auto" ELSE "diagnose"
        ELSE IF "daemon" \in args.options THEN "daemon" ELSE "once"

\* PROTOCOL_PROFILES.get(args.profile, PROFILE_MACOS) of the single-session mode.
OnceProfile == IF ArgProfile = "auto" THEN "macos" ELSE ArgProfile

-----------------------------------------------------------------------------

Init ==
    /\ args \in ArgSets
    /\ pc = "preflight"
    /\ stage = 1 /\ iter = 1 /\ todo = {} /\ subCount = 0
    /\ result = "none" /\ exitCode = NoCode
    /\ flags = {} /\ profile = "macos" /\ inputHandle = NoHandle
    /\ reportCount = 0 /\ uinput = "none"
    /\ pairResponses = {} /\ pairFailureStep = "none"
    /\ link = "down" /\ gatt = {} /\ subscribed = {}
    /\ orphan = "none" /\ orphanSubs = {}
    /\ asked = {} /\ written = 0 /\ heard = {}
    /\ reconnectCount = 0 /\ autoIdx = 1 /\ attempted = <<>> /\ winning = NoWinner

-----------------------------------------------------------------------------
(* async_main *)

\* stage_preflight failed, or setup_uinput did in diagnose mode: exit before the try.
PreflightFail ==
    /\ pc = "preflight"
    /\ exitCode' = 10 /\ pc' = "exited"
    /\ UNCHANGED <<calm, subVars, uinput, stage, iter, result, inputHandle, flags, pairVars, linkVars>>
    /\ UNCHANGED modeVars

FirstProfile == CASE Mode = "auto"     -> AutoProfileOrder[1]
                  [] Mode = "diagnose" -> ArgProfile
                  [] Mode = "daemon"   -> "macos"
                  [] Mode = "once"     -> OnceProfile

\* What setup_uinput leaves behind where async_main goes on.
UinputOutcomes == IF "uinput" \notin args.options THEN {"none"}
                  ELSE IF "diagnose" \in args.options THEN {"open"} ELSE {"open", "none"}

\* The reconnect loop and auto_detect_mode test shutdown before the first session;
\* the other two modes start it regardless.
StopBeforeFirst == Shutdown /\ Mode \in {"daemon", "auto"}

PreflightOk ==
    /\ pc = "preflight" /\ ~StopBeforeFirst
    /\ uinput' \in UinputOutcomes
    /\ StartSession(FirstProfile)
    /\ UNCHANGED <<args, exitCode, modeVars>>

\* A signal came during preflight: both loops end before they begin.
PreflightShutdown ==
    /\ pc = "preflight" /\ StopBeforeFirst
    /\ \E u \in UinputOutcomes : uinput' = IF u = "open" THEN "closed" ELSE u
    /\ exitCode' = (IF Mode = "daemon" THEN 0 ELSE 16)
    /\ pc' = "cleanup"
    /\ UNCHANGED <<calm, subVars, stage, iter, result, inputHandle, flags, pairVars, linkVars>>
    /\ UNCHANGED modeVars

-----------------------------------------------------------------------------
(* reconnect_loop *)

\* run_session returned and shutdown is set: leave the loop.
DaemonStop ==
    /\ pc = "return" /\ Mode = "daemon" /\ Shutdown
    /\ Exit(0)
    /\ UNCHANGED <<calm, subVars, stage, iter, result, inputHandle, flags, pairVars, linkVars>>
    /\ UNCHANGED modeVars

\* A good session: wait up to 5 s for disconnect_event, which cleanup_client's own
\* disconnect() has usually set already.
DaemonSessionOk ==
    /\ pc = "return" /\ Mode = "daemon" /\ ~Shutdown /\ SessionOk
    /\ reconnectCount' = 0
    /\ pc' = "waitDisc"
    /\ UNCHANGED <<settled, stage, iter, result, inputHandle, flags, pairVars, linkVars>>
    /\ UNCHANGED <<autoIdx, attempted, winning>>

\* A failed one: sleep min(1.0 * 2.0 ** (reconnect_count - 1), 30.0) seconds.  The power
\* is computed in full before min() bounds it; past MaxExponent it raises OverflowError.
DaemonSessionFailed ==
    /\ pc = "return" /\ Mode = "daemon" /\ ~Shutdown /\ ~SessionOk
    /\ reconnectCount' = reconnectCount + 1
    /\ IF reconnectCount > MaxExponent
       THEN Exit(99)
       ELSE pc' = "backoff" /\ UNCHANGED exitVars
    /\ UNCHANGED <<calm, subVars, stage, iter, result, inputHandle, flags, pairVars, linkVars>>
    /\ UNCHANGED <<autoIdx, attempted, winning>>

\* Mutant: the wait for disconnect_event has no timeout.
DaemonNext_NoTimeout ==
    /\ pc = "backoff" \/ (pc = "waitDisc" /\ "disconnect_event" \in flags)
    /\ \/ /\ Shutdown /\ Exit(0)
          /\ UNCHANGED <<calm, subVars, stage, iter, result, inputHandle, flags, pairVars, linkVars>>
       \/ /\ ~Shutdown /\ StartSession("macos")
          /\ UNCHANGED <<args, exitVars>>
    /\ UNCHANGED modeVars

\* The wait or the sleep is over (sleep_breakable returns early on shutdown).  The
\* loop starts the next session without the profile the user asked for.
DaemonNext ==
    /\ pc \in {"waitDisc", "backoff"}
    /\ \/ /\ Shutdown /\ Exit(0)
          /\ UNCHANGED <<calm, subVars, stage, iter, result, inputHandle, flags, pairVars, linkVars>>
       \/ /\ ~Shutdown /\ StartSession("macos")
          /\ UNCHANGED <<args, exitVars>>
    /\ UNCHANGED modeVars

-----------------------------------------------------------------------------
(* _try_profile and auto_detect_mode *)

\* failure_reason is read from the stage flags, which no session resets.
FailureReason ==
    IF SessionOk \/ "subscribe_ok" \in flags THEN "subscribed but zero reports"
    ELSE IF "connect_ok" \in flags THEN "subscribe failed"
    ELSE IF "scan_ok" \in flags THEN "connect failed"
    ELSE "scan failed"

\* Mutant: a session that ended by shutdown counts as a success.
Success_NoCount == SessionOk

Success == SessionOk /\ reportCount > 0

\* The stages this session passed.
Passed == {Stages(profile)[i] : i \in 1..(stage - 1)}

\* Without a failure_reason the profile succeeded.
TryProfileResult ==
    [profile |-> profile, reason |-> IF Success THEN "none" ELSE FailureReason,
     passed |-> Passed]

\* The profile works, or was the last one: print the summary and leave.
AutoFinish ==
    /\ pc = "return" /\ Mode = "auto"
    /\ Success \/ autoIdx = Len(AutoProfileOrder)
    /\ attempted' = Append(attempted, TryProfileResult)
    /\ winning' = IF Success THEN profile ELSE winning
    /\ Exit(IF winning' # NoWinner THEN 0 ELSE 16)
    /\ UNCHANGED <<calm, subVars, stage, iter, result, inputHandle, flags, pairVars, linkVars>>
    /\ UNCHANGED <<reconnectCount, autoIdx>>

\* Try the next profile.
AutoNext ==
    /\ pc = "return" /\ Mode = "auto"
    /\ ~Success /\ autoIdx < Len(AutoProfileOrder) /\ ~Shutdown
    /\ attempted' = Append(attempted, TryProfileResult)
    /\ autoIdx' = autoIdx + 1
    /\ StartSession(AutoProfileOrder[autoIdx + 1])
    /\ UNCHANGED <<args, exitVars, reconnectCount, winning>>

\* reset_session() runs before the loop notices the shutdown: a client that the
\* session left set is forgotten while its link is up.
AutoShutdown ==
    /\ pc = "return" /\ Mode = "auto"
    /\ ~Success /\ autoIdx < Len(AutoProfileOrder) /\ Shutdown
    /\ attempted' = Append(attempted, TryProfileResult)
    /\ ResetSession
    /\ Exit(16)
    /\ UNCHANGED <<args, profile, subVars, stage, iter, result>>
    /\ UNCHANGED <<reconnectCount, autoIdx, winning>>

-----------------------------------------------------------------------------
(* diagnose_mode with an explicit profile, and the single session *)

DiagnoseReturn ==
    /\ pc = "return" /\ Mode = "diagnose"
    /\ Exit(IF Success THEN 0 ELSE IF SessionOk THEN 15 ELSE 16)
    /\ UNCHANGED <<calm, subVars, stage, iter, result, inputHandle, flags, pairVars, linkVars>>
    /\ UNCHANGED modeVars

OnceReturn ==
    /\ pc = "return" /\ Mode = "once"
    /\ Exit(IF Success THEN 0 ELSE 16)
    /\ UNCHANGED <<calm, subVars, stage, iter, result, inputHandle, flags, pairVars, linkVars>>
    /\ UNCHANGED modeVars

\* The process has ended.
Exited == pc = "exited" /\ UNCHANGED vars

-----------------------------------------------------------------------------

ModeStep ==
    \/ PreflightFail \/ PreflightOk \/ PreflightShutdown
    \/ DaemonStop \/ DaemonSessionOk \/ DaemonSessionFailed \/ DaemonNext
    \/ AutoFinish \/ AutoNext \/ AutoShutdown
    \/ DiagnoseReturn \/ OnceReturn

SessionStep == (StageStep \/ RunStep) /\ UNCHANGED modeVars

\* A step of the asyncio task, as opposed to a callback.
TaskStep == SessionStep \/ ModeStep

Next == TaskStep \/ (Callback /\ UNCHANGED modeVars) \/ Exited

Spec == Init /\ [][Next]_vars

\* Every await of the task ends: each has a timeout, or is a bleak call that answers
\* or raises.
FairSpec == Spec /\ WF_vars(TaskStep)

-----------------------------------------------------------------------------
(* Properties *)

Reasons == {"none", "subscribed but zero reports", "subscribe failed", "connect failed",
            "scan failed"}
StageLabels == {"scan", "connect", "discover", "pair", "init", "subscribe"}
AttemptRecords == [profile : ProfileNames, reason : Reasons, passed : SUBSET StageLabels]

ModeTypeOK ==
    /\ reconnectCount \in Nat
    /\ autoIdx \in 1..3
    /\ attempted \in Seq(AttemptRecords)
    /\ winning \in ProfileNames \cup {NoWinner}

\* Type correctness of DaemonState and of the modes' own state.
TypeOK == SessionTypeOK /\ ModeTypeOK

\* The daemon never forgets a connection that is still up, unless bleak's disconnect()
\* raised on one or a signal interrupted automatic detection (reset_session drops the client
\* before the loop sees the shutdown).
NoForgottenLink == orphan = "up" => LeftOpen \/ (Mode = "auto" /\ Shutdown)

\* Whatever way async_main ends, the finally block leaves no client and no open link
\* of the current session.
ReleasedAtExit == pc = "exited" => "client" \notin flags /\ link = "down"

\* The finally block closes the uinput device before it disconnects; no notification
\* can reach handle_report after that, so none is written to a closed device.
ClosedDeviceQuiet ==
    exitCode # NoCode /\ ~LeftOpen => Notifying = {} /\ orphanSubs = {}

\* The running loop is entered only on a client whose session did everything the profile
\* asks for on this very connection: the input characteristic exists, every init command
\* and every pair command was written, and while the link lasts it is subscribed.
StreamIsReady ==
    pc \in {"runLoop", "running"} =>
        /\ {"client", "scan_ok", "connect_ok", "discover_ok", "subscribe_ok"} \subseteq flags
        /\ inputHandle \in gatt
        /\ LinkUp => inputHandle \in subscribed
        /\ written = InitLen(profile)
        /\ IsPair(profile) => asked = 1..4 /\ "pair_sequence_ok" \in flags

\* Exit code 0 of --diagnose means what the documentation says: all stages passed and
\* reports were received.
DiagnosePassIsReal ==
    "diagnose" \in args.options /\ exitCode = 0 => StageFlags \subseteq flags /\ reportCount > 0

\* Automatic detection names a winner only if a report of the winner's own connection
\* was counted, and the winner is the last profile tried.
WinnerHeardItself ==
    winning # NoWinner =>
        /\ winning \in heard \/ LeftOpen
        /\ attempted[Len(attempted)].profile = winning
        /\ exitCode = 0

\* As long as no disconnect() has left a link open, what the session reads about its connection is its
\* own: disconnect_event, which ends the running loop and the wait after it, is set exactly
\* when the link of the client at hand is gone; counted reports came over that client's
\* link; and pair responses answer steps asked on it, or none.  (The callbacks of every
\* earlier client write to the same DaemonState.)
SessionIsItsOwn ==
    ~LeftOpen =>
        /\ "client" \in flags => (LinkUp <=> "disconnect_event" \notin flags)
        /\ reportCount > 0 => heard = {profile}
        /\ pairResponses \ {0} \subseteq asked

\* A signal ends the program, whatever stage, wait or backoff it interrupts.
ShutdownEnds == Shutdown ~> pc = "exited"

\* The reconnect loop always scans again after a session, unless the program ends.
Reconnects == (Mode = "daemon" /\ pc = "return") ~> (pc = "scan" \/ exitCode # NoCode)

\* Once max_reports is reached in the running loop the session ends, even when the
\* report that reached it came before the loop cleared notify_event.
MaxReportsEnds ==
    (pc = "running" /\ args.max_reports > 0 /\ reportCount >= args.max_reports)
        ~> pc = "cleanup"

-----------------------------------------------------------------------------
(* What the documentation says and the code does not do *)

\* README.md: --daemon runs forever; only a signal or a failed preflight ends it.
DaemonRunsForever ==
    pc = "exited" /\ Mode = "daemon" => Shutdown \/ exitCode = 10

\* README.md: a profile's failure_reason describes that profile's own attempt.
FailureReasonIsTrue ==
    ~Shutdown => \A i \in 1..Len(attempted) :
        attempted[i].reason = "subscribed but zero reports" => "subscribe" \in attempted[i].passed
=============================================================================
