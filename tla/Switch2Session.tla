--------------------------- MODULE Switch2Session ---------------------------
(***************************************************************************)
(* One connection session of switch2d.py: run_session, the stages it runs, *)
(* the callbacks that change DaemonState while a stage is suspended, and   *)
(* cleanup_client.                                                         *)
(*                                                                         *)
(* The daemon is one asyncio task.  Its code runs without interruption     *)
(* from one await to the next, and callbacks (signals, disconnects,        *)
(* notifications) run only while the task is suspended in an await.  pc    *)
(* names the point the task has reached; the points in AwaitPoints are     *)
(* awaits, and every callback has the guard Awaiting.  A point outside     *)
(* AwaitPoints only splits straight-line code into one action per idea.    *)
(*                                                                         *)
(* Abstracted: payload bytes, log output, the statistics lists             *)
(* (report_lengths, report_timestamps, total_reports) and the JSONL dump,  *)
(* none of which any branch of the code reads.                             *)
(***************************************************************************)
EXTENDS Naturals, Sequences

CONSTANTS
    ConnectRetries,     \* args.connect_retries
    GattRetries,        \* args.gatt_retries
    GattTables,         \* the characteristic tables a controller may expose
    Handle45,           \* the characteristic that has ATT handle 45
    ScannerMayFail,     \* may BleakScanner raise (adapter switched off or removed)?
    DisconnectMayFail,  \* may BleakClient.disconnect() raise and leave the link up?
    ReportCap,          \* report_count saturates here: it is only compared with 0 and max_reports
    ArgSets             \* the command lines considered

Chars == {"7492866c", "ab7de9be", "command", "response"}
NotifyChars == {"7492866c", "ab7de9be", "response"}

ASSUME SessionAssumption ==
    /\ ConnectRetries \in Nat \ {0}
    /\ GattRetries \in Nat \ {0}
    /\ GattTables \subseteq SUBSET Chars
    /\ Handle45 \in NotifyChars
    /\ ScannerMayFail \in BOOLEAN
    /\ DisconnectMayFail \in BOOLEAN
    /\ ReportCap \in Nat \ {0}

-----------------------------------------------------------------------------
(* Protocol profiles *)

ProfileNames == {"macos", "spro2win", "joycon2cpp", "joycon2cpp-pair"}

\* profile.name.endswith("-pair")
IsPair(p) == p = "joycon2cpp-pair"

\* profile.command_uuid is not None
HasCommand(p) == p \in {"joycon2cpp", "joycon2cpp-pair"}

\* len(profile.init_commands)
InitLen(p) == IF HasCommand(p) THEN 4 ELSE 0

Strategy(p) == IF p = "spro2win" THEN "all" ELSE "selected"

\* profile.input_uuids of the profiles with the "selected" strategy
InputUuid(p) == IF p = "macos" THEN "7492866c" ELSE "ab7de9be"

\* The stage list run_session builds
Stages(p) ==
    IF IsPair(p)
    THEN <<"scan", "connect", "discover", "pair", "init", "subscribe">>
    ELSE <<"scan", "connect", "discover", "init", "subscribe">>

PairSteps == <<"setmac", "key1", "key2", "finish">>

NoHandle == "none"
NoCode == 1000          \* async_main has not returned yet

ASSUME ArgsAssumption ==
    ArgSets \subseteq [options : SUBSET {"diagnose", "daemon", "loose_scan", "uinput"},
                       profile : ProfileNames \cup {"auto"},
                       max_reports : 0..ReportCap]

-----------------------------------------------------------------------------

VARIABLES
    args,               \* the parsed command line; never changes
    \* control
    pc, stage,          \* where the task is; index into Stages(profile)
    iter,               \* counter of the stage's own for loop
    todo, subCount,     \* _subscribe_all_notify: characteristics left; count
    result,             \* what run_session is about to return
    exitCode,           \* what async_main returns, NoCode until it is decided
    \* DaemonState
    flags,              \* its Boolean fields that are True, the events that are set, and
                        \* "client" if state.client is not None; and, as history,
                        \* "left_open" once a disconnect() has raised with the link up
    profile, inputHandle, reportCount, uinput, pairResponses, pairFailureStep,
    \* the connection behind state.client (kept by bleak and BlueZ)
    link, gatt, subscribed,
    \* connections the daemon has forgotten and not closed
    orphan, orphanSubs,
    \* history
    asked,              \* pair steps written on this link
    written,            \* init commands written on this link
    heard               \* {profile} once this session counted a report of its own link

subVars  == <<todo, subCount>>
pairVars == <<pairResponses, pairFailureStep, asked>>
linkVars == <<link, gatt, subscribed, written>>
exitVars == <<exitCode, uinput>>

\* What no step of a stage changes: only callbacks and the endings of a session do.
calm == <<args, profile, reportCount, heard, orphan, orphanSubs>>

\* ... and what most steps of a stage leave alone besides.
settled == <<calm, exitVars, subVars>>

sessionVars == <<calm, pc, stage, iter, subVars, result, exitVars, inputHandle, flags,
                 pairVars, linkVars>>

StageFlags == {"scan_ok", "connect_ok", "discover_ok", "subscribe_ok", "reports_ok"}
SessionFlags == {"client", "disconnect_event", "notify_event", "response_subscribed",
                 "pair_sequence_ok"}
Flags == StageFlags \cup SessionFlags \cup {"shutdown", "left_open"}
Shutdown == "shutdown" \in flags
LeftOpen == "left_open" \in flags

AwaitPoints == {"preflight", "scan", "connect", "getServices", "respSub", "pairWrite",
                "pairWait", "init", "subscribe", "subAll", "running", "disconnecting",
                "waitDisc", "backoff"}
SyncPoints == {"stage", "discover", "subAllEnd", "runLoop", "cleanup", "return", "exited"}

Awaiting == pc \in AwaitPoints
LinkUp == link = "up"

\* run_session's return value.  After the running loop it is report_count > 0, read
\* when cleanup_client has finished.
SessionOk == \/ result = "shutdown"
             \/ result = "count" /\ reportCount > 0

-----------------------------------------------------------------------------
(* Endings shared by the stages *)

\* A stage returned True: on to the next one.
StageOk == pc' = "stage" /\ stage' = stage + 1 /\ UNCHANGED result

\* Mutant: a failed stage returns without cleanup_client.
StageFail_NoCleanup == pc' = "return" /\ result' = "fail" /\ UNCHANGED stage

\* A stage returned False: run_session cleans up and returns False.
StageFail == pc' = "cleanup" /\ result' = "fail" /\ UNCHANGED stage

\* Mutant: the finally block does not disconnect.
Exit_NoCleanup(code) ==
    /\ exitCode' = code
    /\ uinput' = IF uinput = "open" THEN "closed" ELSE uinput
    /\ pc' = "exited"

\* async_main returns (or catches an exception): the finally block closes the
\* uinput device and then runs cleanup_client.
Exit(code) ==
    /\ exitCode' = code
    /\ uinput' = IF uinput = "open" THEN "closed" ELSE uinput
    /\ pc' = "cleanup"

\* The client object is dropped; a link that is still up stays up, and its closures
\* keep delivering to the same DaemonState.
ForgetLink ==
    /\ orphan' = IF LinkUp THEN "up" ELSE orphan
    /\ orphanSubs' = orphanSubs \cup subscribed
    /\ link' = "down" /\ subscribed' = {}

\* Mutant: reset_session does not clear disconnect_event.
ResetSession_KeepEvent ==
    /\ ForgetLink
    /\ flags' = flags \ (SessionFlags \ {"disconnect_event"})
    /\ inputHandle' = NoHandle /\ reportCount' = 0
    /\ pairResponses' = {} /\ pairFailureStep' = "none" /\ asked' = {}
    /\ written' = 0 /\ heard' = {} /\ UNCHANGED gatt

\* DaemonState.reset_session
ResetSession ==
    /\ ForgetLink
    /\ flags' = flags \ SessionFlags
    /\ inputHandle' = NoHandle /\ reportCount' = 0
    /\ pairResponses' = {} /\ pairFailureStep' = "none" /\ asked' = {}
    /\ written' = 0 /\ heard' = {} /\ UNCHANGED gatt

\* run_session(state, p) up to the stage loop.
StartSession(p) ==
    /\ profile' = p
    /\ ResetSession
    /\ stage' = 1 /\ iter' = 1 /\ todo' = {} /\ subCount' = 0
    /\ result' = "none"
    /\ pc' = "stage"

-----------------------------------------------------------------------------
(* The stage loop of run_session *)

\* `if state.shutdown: return True`: no cleanup, the client stays set.
StageShutdown ==
    /\ pc = "stage" /\ stage <= Len(Stages(profile)) /\ Shutdown
    /\ result' = "shutdown" /\ pc' = "return"
    /\ UNCHANGED <<settled, stage, iter, inputHandle, flags, pairVars, linkVars>>

EnterStage(name) ==
    /\ pc = "stage" /\ stage <= Len(Stages(profile)) /\ ~Shutdown
    /\ Stages(profile)[stage] = name

\* scan, connect, discover and the "selected" subscribe begin with their first attempt.
EnterSimpleStage ==
    /\ \E name \in {"scan", "connect", "discover", "subscribe"} :
          /\ EnterStage(name)
          /\ name = "subscribe" => Strategy(profile) = "selected"
          /\ pc' = name
    /\ iter' = 1
    /\ UNCHANGED <<settled, stage, result, inputHandle, flags, pairVars, linkVars>>

EnterSubscribeAll ==
    /\ EnterStage("subscribe") /\ Strategy(profile) = "all"
    /\ todo' = gatt \cap NotifyChars
    /\ subCount' = 0
    /\ pc' = IF todo' = {} THEN "subAllEnd" ELSE "subAll"
    /\ UNCHANGED <<calm, exitVars, stage, iter, result, inputHandle, flags, pairVars, linkVars>>

\* stage_pair up to its first write.  The host MAC comes from sysfs or hciconfig.
EnterPair ==
    /\ EnterStage("pair")
    /\ \/ /\ pairFailureStep' = "host_mac"
          /\ StageFail /\ UNCHANGED iter
       \/ /\ iter' = 1 /\ pc' = "pairWrite" /\ UNCHANGED <<stage, result, pairFailureStep>>
    /\ UNCHANGED <<settled, inputHandle, flags, pairResponses, asked, linkVars>>

\* stage_init: nothing to send, or on to the first write.
EnterInit ==
    /\ EnterStage("init")
    /\ iter' = 1
    /\ IF InitLen(profile) = 0 THEN StageOk
                               ELSE pc' = "init" /\ UNCHANGED <<stage, result>>
    /\ UNCHANGED <<settled, inputHandle, flags, pairVars, linkVars>>

\* All stages passed: the running loop begins, without another look at shutdown.
StagesDone ==
    /\ pc = "stage" /\ stage > Len(Stages(profile))
    /\ pc' = "runLoop"
    /\ UNCHANGED <<settled, stage, iter, result, inputHandle, flags, pairVars, linkVars>>

-----------------------------------------------------------------------------
(* stage_scan, stage_connect *)

ScanFound ==
    /\ pc = "scan"
    /\ flags' = flags \cup {"scan_ok"}
    /\ StageOk
    /\ UNCHANGED <<settled, iter, inputHandle, pairVars, linkVars>>

ScanTimeout ==
    /\ pc = "scan"
    /\ StageFail
    /\ UNCHANGED <<settled, iter, inputHandle, flags, pairVars, linkVars>>

\* BleakScanner raised on entry or exit; nothing in stage_scan or run_session catches it.
ScanError ==
    /\ pc = "scan" /\ ScannerMayFail
    /\ Exit(99)
    /\ UNCHANGED <<calm, subVars, stage, iter, result, inputHandle, flags, pairVars, linkVars>>

\* With --loose-scan a device whose manufacturer data is shorter than 16 bytes is
\* accepted with vendor_id and product_id None; formatting None with :04x raises
\* TypeError out of stage_scan and run_session.
ScanCrash ==
    /\ pc = "scan" /\ "loose_scan" \in args.options
    /\ flags' = flags \cup {"scan_ok"}
    /\ Exit(99)
    /\ UNCHANGED <<calm, subVars, stage, iter, result, inputHandle, pairVars, linkVars>>

\* connect() returned; the link may be gone again before the task resumes.
ConnectOk ==
    /\ pc = "connect"
    /\ \/ /\ link' = "up"
          /\ flags' = flags \cup {"client", "connect_ok"}
       \/ /\ link' = "down"
          /\ flags' = flags \cup {"client", "connect_ok", "disconnect_event"}
    /\ gatt' \in GattTables
    /\ StageOk
    /\ UNCHANGED <<settled, iter, inputHandle, pairVars, subscribed, written>>

\* connect() raised or took 20 s, and attempts are left.
ConnectRetry ==
    /\ pc = "connect" /\ iter < ConnectRetries
    /\ iter' = iter + 1
    /\ UNCHANGED <<settled, pc, stage, result, inputHandle, flags, pairVars, linkVars>>

ConnectExhausted ==
    /\ pc = "connect" /\ iter >= ConnectRetries
    /\ StageFail
    /\ UNCHANGED <<settled, iter, inputHandle, flags, pairVars, linkVars>>

-----------------------------------------------------------------------------
(* stage_discover *)

\* The characteristics are matched against the profile, in the table just read.
InputFound   == Strategy(profile) = "all" \/ InputUuid(profile) \in gatt
CommandFound == ~HasCommand(profile) \/ "command" \in gatt

MatchChars ==
    /\ inputHandle' = IF Strategy(profile) = "selected" /\ InputFound
                      THEN InputUuid(profile) ELSE NoHandle
    /\ \/ /\ ~(InputFound /\ CommandFound)
          /\ StageFail /\ UNCHANGED flags
       \/ /\ InputFound /\ CommandFound
          /\ IsPair(profile) /\ "response" \in gatt
          /\ pc' = "respSub" /\ UNCHANGED <<stage, result, flags>>
       \/ /\ InputFound /\ CommandFound
          /\ ~(IsPair(profile) /\ "response" \in gatt)
          /\ StageOk /\ flags' = flags \cup {"discover_ok"}
    /\ UNCHANGED <<settled, iter, pairVars, linkVars>>

\* client.services holds the table that connect() collected.
DiscoverCached == pc = "discover" /\ LinkUp /\ MatchChars

\* client.services raised or was empty: try get_services().
DiscoverMiss ==
    /\ pc = "discover"
    /\ pc' = "getServices"
    /\ UNCHANGED <<settled, stage, iter, result, inputHandle, flags, pairVars, linkVars>>

GetServicesOk == pc = "getServices" /\ LinkUp /\ MatchChars

\* get_services() raised; the task sleeps and starts the next attempt.
GetServicesRetry ==
    /\ pc = "getServices" /\ iter < GattRetries
    /\ iter' = iter + 1 /\ pc' = "discover"
    /\ UNCHANGED <<settled, stage, result, inputHandle, flags, pairVars, linkVars>>

GetServicesExhausted ==
    /\ pc = "getServices" /\ iter >= GattRetries
    /\ StageFail
    /\ UNCHANGED <<settled, iter, inputHandle, flags, pairVars, linkVars>>

\* _subscribe_command_response, called by the pair profile's stage_discover.
RespSubOk ==
    /\ pc = "respSub" /\ LinkUp
    /\ flags' = flags \cup {"response_subscribed", "discover_ok"}
    /\ StageOk
    /\ UNCHANGED <<settled, iter, inputHandle, pairVars, linkVars>>

RespSubFail ==
    /\ pc = "respSub"
    /\ StageFail
    /\ UNCHANGED <<settled, iter, inputHandle, flags, pairVars, linkVars>>

-----------------------------------------------------------------------------
(* stage_pair, stage_init *)

PairWriteOk ==
    /\ pc = "pairWrite" /\ LinkUp
    /\ asked' = asked \cup {iter}
    /\ pc' = "pairWait"
    /\ UNCHANGED <<settled, stage, iter, result, inputHandle, flags, linkVars>>
    /\ UNCHANGED <<pairResponses, pairFailureStep>>

PairWriteFail ==
    /\ pc = "pairWrite"
    /\ pairFailureStep' = PairSteps[iter]
    /\ StageFail
    /\ UNCHANGED <<settled, iter, inputHandle, flags, linkVars>>
    /\ UNCHANGED <<pairResponses, asked>>

\* Mutant: the pair loop runs one step too far.
PairNextStep_OffByOne ==
    /\ pc = "pairWait" /\ iter <= Len(PairSteps)
    /\ iter' = iter + 1 /\ pc' = "pairWrite"
    /\ UNCHANGED <<settled, stage, result, inputHandle, flags, pairVars, linkVars>>

\* The fixed sleep after a write is over; whatever arrived meanwhile is only logged.
PairNextStep ==
    /\ pc = "pairWait" /\ iter < Len(PairSteps)
    /\ iter' = iter + 1 /\ pc' = "pairWrite"
    /\ UNCHANGED <<settled, stage, result, inputHandle, flags, pairVars, linkVars>>

\* After the last step the stage succeeds whether responses arrived, none did, or
\* there was no response channel: the three branches differ in what they log.
PairFinish ==
    /\ pc = "pairWait" /\ iter = Len(PairSteps)
    /\ flags' = flags \cup {"pair_sequence_ok"}
    /\ StageOk
    /\ UNCHANGED <<settled, iter, inputHandle, pairVars, linkVars>>

\* Mutant: the last init command is not sent.
InitWriteOk_OffByOne ==
    /\ pc = "init" /\ LinkUp
    /\ written' = written + 1
    /\ IF iter + 1 < InitLen(profile)
       THEN iter' = iter + 1 /\ UNCHANGED <<pc, stage, result>>
       ELSE StageOk /\ UNCHANGED iter
    /\ UNCHANGED <<settled, inputHandle, flags, pairVars, link, gatt, subscribed>>

InitWriteOk ==
    /\ pc = "init" /\ LinkUp
    /\ written' = written + 1
    /\ IF iter < InitLen(profile)
       THEN iter' = iter + 1 /\ UNCHANGED <<pc, stage, result>>
       ELSE StageOk /\ UNCHANGED iter
    /\ UNCHANGED <<settled, inputHandle, flags, pairVars, link, gatt, subscribed>>

InitWriteFail ==
    /\ pc = "init"
    /\ StageFail
    /\ UNCHANGED <<settled, iter, inputHandle, flags, pairVars, linkVars>>

-----------------------------------------------------------------------------
(* stage_subscribe, _subscribe_all_notify *)

SubscribeOk ==
    /\ pc = "subscribe" /\ LinkUp
    /\ subscribed' = {inputHandle}
    /\ flags' = flags \cup {"subscribe_ok"}
    /\ StageOk
    /\ UNCHANGED <<settled, iter, inputHandle, pairVars, link, gatt, written>>

SubscribeRetry ==
    /\ pc = "subscribe" /\ iter < GattRetries
    /\ iter' = iter + 1
    /\ UNCHANGED <<settled, pc, stage, result, inputHandle, flags, pairVars, linkVars>>

SubscribeExhausted ==
    /\ pc = "subscribe" /\ iter >= GattRetries
    /\ StageFail
    /\ UNCHANGED <<settled, iter, inputHandle, flags, pairVars, linkVars>>

\* start_notify(c) ended; the order of the table is the controller's.
SubAllStep(c) ==
    /\ pc = "subAll" /\ c \in todo
    /\ todo' = todo \ {c}
    /\ pc' = IF todo' = {} THEN "subAllEnd" ELSE "subAll"
    /\ \/ /\ LinkUp
          /\ subscribed' = subscribed \cup {c}
          /\ subCount' = subCount + 1
          /\ inputHandle' = IF inputHandle = NoHandle THEN c ELSE inputHandle
       \/ UNCHANGED <<subscribed, subCount, inputHandle>>
    /\ UNCHANGED <<calm, exitVars, stage, iter, result, flags, pairVars, link, gatt, written>>

SubAllEnd ==
    /\ pc = "subAllEnd"
    /\ \/ subCount = 0 /\ StageFail /\ UNCHANGED flags
       \/ subCount > 0 /\ StageOk /\ flags' = flags \cup {"subscribe_ok"}
    /\ UNCHANGED <<settled, iter, inputHandle, pairVars, linkVars>>

-----------------------------------------------------------------------------
(* The running loop of run_session *)

\* Mutant: run_session returns from the running loop without cleanup_client.
EndRunning_NoCleanup == pc' = "return" /\ result' = "count"

EndRunning == pc' = "cleanup" /\ result' = "count"

\* Mutant: `while True`.
RunLoopHead_NoShutdown ==
    /\ pc = "runLoop"
    /\ flags' = flags \ {"notify_event"} /\ pc' = "running"
    /\ UNCHANGED <<settled, stage, iter, result, inputHandle, pairVars, linkVars>>

\* `while not state.shutdown`, then notify_event.clear() and the wait.
RunLoopHead ==
    /\ pc = "runLoop"
    /\ \/ Shutdown /\ EndRunning /\ UNCHANGED flags
       \/ /\ ~Shutdown
          /\ flags' = flags \ {"notify_event"}
          /\ pc' = "running" /\ UNCHANGED result
    /\ UNCHANGED <<settled, stage, iter, inputHandle, pairVars, linkVars>>

\* Mutant: max_reports is compared with ==.
RunWake_Equal ==
    /\ pc = "running" /\ "notify_event" \in flags
    /\ IF args.max_reports > 0 /\ reportCount = args.max_reports
       THEN EndRunning
       ELSE pc' = "runLoop" /\ UNCHANGED result
    /\ UNCHANGED <<settled, stage, iter, inputHandle, flags, pairVars, linkVars>>

RunWake ==
    /\ pc = "running" /\ "notify_event" \in flags
    /\ IF args.max_reports > 0 /\ reportCount >= args.max_reports
       THEN EndRunning
       ELSE pc' = "runLoop" /\ UNCHANGED result
    /\ UNCHANGED <<settled, stage, iter, inputHandle, flags, pairVars, linkVars>>

\* No report for args.notify_timeout seconds.
RunTimeout ==
    /\ pc = "running" /\ "notify_event" \notin flags
    /\ EndRunning
    /\ UNCHANGED <<settled, stage, iter, inputHandle, flags, pairVars, linkVars>>

-----------------------------------------------------------------------------
(* cleanup_client, called by run_session and by the finally block of async_main *)

AfterCleanup == pc' = IF exitCode = NoCode THEN "return" ELSE "exited"

\* `if state.client and state.client.is_connected`
Cleanup ==
    /\ pc = "cleanup"
    /\ IF "client" \in flags /\ LinkUp
       THEN pc' = "disconnecting" /\ UNCHANGED flags
       ELSE AfterCleanup /\ flags' = flags \ {"client"}
    /\ UNCHANGED <<settled, stage, iter, result, inputHandle, pairVars, linkVars>>

\* disconnect() returned; it runs the disconnected callback of a link it closes.
DisconnectOk ==
    /\ pc = "disconnecting"
    /\ link' = "down" /\ subscribed' = {}
    /\ flags' = (flags \ {"client"}) \cup {"disconnect_event"}
    /\ AfterCleanup
    /\ UNCHANGED <<settled, stage, iter, result, inputHandle, pairVars, gatt, written>>

\* disconnect() raised: the exception is swallowed and the client forgotten.
DisconnectRaise ==
    /\ pc = "disconnecting" /\ DisconnectMayFail
    /\ ForgetLink
    /\ flags' = (flags \ {"client"}) \cup (IF LinkUp THEN {"left_open"} ELSE {})
    /\ AfterCleanup
    /\ UNCHANGED <<args, profile, reportCount, heard, exitVars, subVars>>
    /\ UNCHANGED <<stage, iter, result, inputHandle, pairVars, gatt, written>>

-----------------------------------------------------------------------------
(* Callbacks *)

\* setup_signal_handlers: SIGINT or SIGTERM.
Signal ==
    /\ Awaiting /\ ~Shutdown
    /\ flags' = flags \cup {"shutdown"}
    /\ UNCHANGED <<settled, pc, stage, iter, result, inputHandle, pairVars, linkVars>>

\* on_disconnect for the current client.
LinkDrop ==
    /\ Awaiting /\ LinkUp
    /\ link' = "down" /\ subscribed' = {}
    /\ flags' = flags \cup {"disconnect_event"}
    /\ UNCHANGED <<settled, pc, stage, iter, result, inputHandle, pairVars, gatt, written>>

\* on_disconnect of a forgotten client: its closure sets the same disconnect_event.
OrphanDrop ==
    /\ Awaiting /\ orphan = "up"
    /\ orphan' = "none" /\ orphanSubs' = {}
    /\ flags' = flags \cup {"disconnect_event"}
    /\ UNCHANGED <<args, profile, reportCount, heard, exitVars, subVars>>
    /\ UNCHANGED <<pc, stage, iter, result, inputHandle, pairVars, linkVars>>

\* The characteristics whose notifications reach handle_report over the current link;
\* one may arrive before the start_notify that asked for it returns.
Notifying ==
    IF ~LinkUp THEN {}
    ELSE subscribed \cup (CASE pc = "subscribe" -> {inputHandle}
                            [] pc = "subAll"    -> todo
                            [] OTHER            -> {})

\* handle_report for a notification of characteristic c; own is {profile} if it came
\* over the current link and {} if not.
HandleReport(c, own) ==
    /\ ~(profile = "spro2win" /\ c # Handle45)
    /\ reportCount' = IF reportCount < ReportCap THEN reportCount + 1 ELSE reportCount
    /\ heard' = heard \cup own
    /\ flags' = flags \cup {"notify_event", "reports_ok"}
    /\ UNCHANGED <<args, profile, orphan, orphanSubs, exitVars, subVars>>
    /\ UNCHANGED <<pc, stage, iter, result, inputHandle, pairVars, linkVars>>

Report       == Awaiting /\ \E c \in Notifying  : HandleReport(c, {profile})
OrphanReport == Awaiting /\ \E c \in orphanSubs : HandleReport(c, {})

\* A notification on the response characteristic: the answer to a pair step already
\* written, however late, or (0) one that answers none of them.
PairResponse ==
    /\ Awaiting /\ LinkUp /\ ("response_subscribed" \in flags \/ pc = "respSub")
    /\ \E i \in (asked \cup {0}) \ pairResponses : pairResponses' = pairResponses \cup {i}
    /\ UNCHANGED <<settled, pc, stage, iter, result, inputHandle, flags, linkVars>>
    /\ UNCHANGED <<pairFailureStep, asked>>

-----------------------------------------------------------------------------

StageStep ==
    \/ StageShutdown \/ EnterSimpleStage \/ EnterSubscribeAll \/ EnterPair \/ EnterInit
    \/ StagesDone
    \/ ScanFound \/ ScanTimeout \/ ScanError \/ ScanCrash
    \/ ConnectOk \/ ConnectRetry \/ ConnectExhausted
    \/ DiscoverCached \/ DiscoverMiss
    \/ GetServicesOk \/ GetServicesRetry \/ GetServicesExhausted
    \/ RespSubOk \/ RespSubFail
    \/ PairWriteOk \/ PairWriteFail \/ PairNextStep \/ PairFinish
    \/ InitWriteOk \/ InitWriteFail
    \/ SubscribeOk \/ SubscribeRetry \/ SubscribeExhausted
    \/ (\E c \in NotifyChars : SubAllStep(c)) \/ SubAllEnd

RunStep == RunLoopHead \/ RunWake \/ RunTimeout \/ Cleanup \/ DisconnectOk \/ DisconnectRaise

Callback == Signal \/ LinkDrop \/ OrphanDrop \/ Report \/ OrphanReport \/ PairResponse

SessionTypeOK ==
    /\ args \in ArgSets
    /\ pc \in AwaitPoints \cup SyncPoints
    /\ stage \in 1..7
    /\ iter \in Nat \ {0}
    /\ todo \in SUBSET NotifyChars
    /\ subCount \in Nat
    /\ result \in {"none", "fail", "shutdown", "count"}
    /\ exitCode \in {NoCode, 0, 10, 15, 16, 99}
    /\ flags \in SUBSET Flags
    /\ profile \in ProfileNames
    /\ inputHandle \in NotifyChars \cup {NoHandle}
    /\ reportCount \in 0..ReportCap
    /\ uinput \in {"none", "open", "closed"}
    /\ pairResponses \in SUBSET (0..4)
    /\ pairFailureStep \in {"none", "host_mac", "setmac", "key1", "key2", "finish"}
    /\ link \in {"down", "up"}
    /\ gatt \in SUBSET Chars
    /\ subscribed \in SUBSET NotifyChars
    /\ orphan \in {"none", "up"}
    /\ orphanSubs \in SUBSET NotifyChars
    /\ asked \in SUBSET (1..4)
    /\ written \in Nat
    /\ heard \in SUBSET ProfileNames
=============================================================================
