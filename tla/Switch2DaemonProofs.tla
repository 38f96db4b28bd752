------------------------- MODULE Switch2DaemonProofs -------------------------
(***************************************************************************)
(* Safety of switch2d.py for every value of the constants: any command     *)
(* lines, retry counts, characteristic tables and exponent bound, and a    *)
(* disconnect() that may or may not raise.                                 *)
(***************************************************************************)
EXTENDS Switch2Daemon, TLAPS

USE DEF NoCode, NoHandle, NoWinner, LeftOpen

\* Where the task is fixes the stage it runs, and the stage's loop counter.
InitPos == IF IsPair(profile) THEN 5 ELSE 4

Position ==
    /\ stage \in 1..(InitPos + 2)
    /\ pc = "scan" => stage = 1
    /\ pc = "connect" => stage = 2
    /\ pc \in {"discover", "getServices", "respSub"} => stage = 3
    /\ pc \in {"pairWrite", "pairWait"} => IsPair(profile) /\ stage = 4 /\ iter \in 1..4
    /\ pc = "init" => HasCommand(profile) /\ stage = InitPos
    /\ pc \in {"subscribe", "subAll", "subAllEnd"} => stage = InitPos + 1
    /\ pc = "subscribe" => Strategy(profile) = "selected"
    /\ pc \in {"subAll", "subAllEnd"} => Strategy(profile) = "all"
    /\ pc \in {"runLoop", "running"} => stage = InitPos + 2

\* The handle that a "selected" profile matched is known before it is subscribed.
HandleKnown ==
    /\ pc = "subscribe" => inputHandle # NoHandle
    /\ pc = "stage" /\ stage > 3 /\ Strategy(profile) = "selected" => inputHandle # NoHandle
    /\ pc \in {"respSub", "pairWrite", "pairWait", "init"} => inputHandle # NoHandle

TInv == TypeOK /\ Position /\ HandleKnown

\* The stage lists, spelled out for the provers.
LEMMA StageList ==
    ASSUME NEW p \in ProfileNames
    PROVE  /\ Len(Stages(p)) = IF IsPair(p) THEN 6 ELSE 5
           /\ Stages(p)[1] = "scan" /\ Stages(p)[2] = "connect" /\ Stages(p)[3] = "discover"
           /\ IsPair(p) => /\ Stages(p)[4] = "pair" /\ Stages(p)[5] = "init"
                           /\ Stages(p)[6] = "subscribe"
           /\ ~IsPair(p) => Stages(p)[4] = "init" /\ Stages(p)[5] = "subscribe"
  BY DEF Stages, ProfileNames, IsPair

\* Setting a flag leaves a set of flags.
LEMMA FlagAdded ==
    ASSUME NEW S \in SUBSET Flags, NEW x \in Flags
    PROVE  S \cup {x} \in SUBSET Flags
  OBVIOUS

\* Two of the flags, by name.
LEMMA FlagNames == {"discover_ok", "subscribe_ok"} \subseteq Flags
  BY DEF Flags, StageFlags

\* The daemon starts in the invariant.
LEMMA TInvInit == Init => TInv
  <1> SUFFICES ASSUME Init PROVE TInv
    OBVIOUS
  <1>1. SessionTypeOK
    BY SessionAssumption
    DEF SessionAssumption, Init, SessionTypeOK, AwaitPoints, SyncPoints, ProfileNames, NotifyChars, Chars, Flags
  <1>2. ModeTypeOK
    BY DEF Init, ModeTypeOK
  <1>3. Position /\ HandleKnown
    BY DEF Init, Position, InitPos, HandleKnown
  <1> QED
    BY <1>1, <1>2, <1>3 DEF TInv, TypeOK

\* What is left of TInv when the modes' variables do not change.
TypeGoal == SessionTypeOK /\ Position /\ HandleKnown

\* The steps of the stages keep TInv.
LEMMA TInvStage ==
    ASSUME TypeGoal, StageStep
    PROVE  TypeGoal'
  <1> USE DEF settled, calm, subVars, exitVars, pairVars, linkVars, StageOk, StageFail,
              AwaitPoints, SyncPoints, TypeGoal, SessionTypeOK, Position, HandleKnown, InitPos
  <1>1. profile \in ProfileNames
    OBVIOUS
  <1>2. CASE StageShutdown
    BY <1>2 DEF StageShutdown
  <1>3. CASE EnterSimpleStage
    <2>1. PICK name \in {"scan", "connect", "discover", "subscribe"} :
             /\ EnterStage(name) /\ pc' = name
             /\ name = "subscribe" => Strategy(profile) = "selected"
      BY <1>3 DEF EnterSimpleStage
    <2>2. /\ name = "scan" => stage = 1
          /\ name = "connect" => stage = 2
          /\ name = "discover" => stage = 3
          /\ name = "subscribe" => stage = InitPos + 1
      BY <2>1, <1>1, StageList DEF EnterStage
    <2>3. name = "subscribe" => inputHandle # NoHandle
      BY <2>1, <2>2 DEF EnterStage
    <2> QED
      BY <1>3, <2>1, <2>2, <2>3 DEF EnterSimpleStage
  <1>4. CASE EnterInit
    <2>1. pc = "stage" /\ stage = InitPos
      BY <1>4, <1>1, StageList DEF EnterStage, EnterInit
    <2>2. HasCommand(profile) => Strategy(profile) = "selected"
      BY DEF HasCommand, Strategy
    <2>3. CASE InitLen(profile) = 0
      BY <1>4, <2>1, <2>3 DEF EnterInit
    <2>4. CASE InitLen(profile) # 0
      BY <1>4, <2>1, <2>2, <2>4 DEF EnterInit, InitLen
    <2> QED
      BY <2>3, <2>4
  <1>5. CASE StagesDone
    BY <1>5, <1>1, StageList DEF StagesDone
  <1>6. CASE ScanFound
    BY <1>6 DEF ScanFound, Flags, StageFlags, SessionFlags
  <1>7. CASE ScanTimeout
    BY <1>7 DEF ScanTimeout
  <1>8. CASE ScanError
    BY <1>8 DEF Exit, ScanError
  <1>9. CASE ScanCrash
    BY <1>9 DEF Exit, ScanCrash, Flags, StageFlags, SessionFlags
  <1>10. CASE ConnectRetry
    BY <1>10 DEF ConnectRetry
  <1>11. CASE ConnectExhausted
    BY <1>11 DEF ConnectExhausted
  <1>12. CASE DiscoverMiss
    BY <1>12 DEF DiscoverMiss
  <1>13. CASE GetServicesRetry
    BY <1>13 DEF GetServicesRetry
  <1>14. CASE GetServicesExhausted
    BY <1>14 DEF GetServicesExhausted
  <1>15. CASE RespSubOk
    BY <1>15 DEF RespSubOk, Flags, StageFlags, SessionFlags
  <1>16. CASE RespSubFail
    BY <1>16 DEF RespSubFail
  <1>17. CASE PairWriteOk
    BY <1>17 DEF PairWriteOk, IsPair
  <1>18. CASE PairWriteFail
    BY <1>18 DEF PairSteps, PairWriteFail
  <1>19. CASE PairNextStep
    BY <1>19 DEF PairSteps, PairNextStep
  <1>20. CASE PairFinish
    BY <1>20 DEF PairSteps, PairFinish, Flags, StageFlags, SessionFlags, IsPair, Strategy
  <1>21. CASE InitWriteOk
    BY <1>21 DEF InitLen, LinkUp, InitWriteOk, HasCommand, IsPair, Strategy
  <1>22. CASE InitWriteFail
    BY <1>22 DEF InitWriteFail
  <1>23. CASE SubscribeOk
    BY <1>23 DEF SubscribeOk, Flags, StageFlags, SessionFlags, NotifyChars
  <1>24. CASE SubscribeRetry
    BY <1>24 DEF SubscribeRetry
  <1>25. CASE SubscribeExhausted
    BY <1>25 DEF SubscribeExhausted
  <1>26. CASE EnterSubscribeAll
    <2>1. todo' \in SUBSET NotifyChars /\ pc' \in {"subAll", "subAllEnd"}
      BY <1>26 DEF EnterSubscribeAll
    <2>2. stage = InitPos + 1
      BY <1>26, <1>1, StageList DEF EnterSubscribeAll, EnterStage, IsPair
    <2> QED
      BY <1>26, <2>1, <2>2 DEF EnterSubscribeAll
  <1>27. CASE EnterPair
    <2>1. IsPair(profile) /\ stage = 4
      BY <1>27, <1>1, StageList DEF EnterPair, EnterStage, IsPair
    <2>2. CASE pairFailureStep' = "host_mac" /\ StageFail /\ UNCHANGED iter
      BY <1>27, <2>1, <2>2 DEF EnterPair
    <2>3. CASE iter' = 1 /\ pc' = "pairWrite" /\ UNCHANGED <<stage, result, pairFailureStep>>
      BY <1>27, <2>1, <2>3 DEF EnterPair, EnterStage, IsPair, Strategy
    <2> QED
      BY <1>27, <2>2, <2>3 DEF EnterPair
  <1>28. CASE ConnectOk
    <2>1. gatt' \in SUBSET Chars
      BY <1>28, SessionAssumption DEF ConnectOk, SessionAssumption
    <2>2. link' \in {"up", "down"} /\ flags' \in SUBSET Flags
      BY <1>28 DEF ConnectOk, Flags, SessionFlags, StageFlags
    <2> QED
      BY <1>28, <2>1, <2>2 DEF ConnectOk
  <1>29. ASSUME MatchChars, stage = 3 PROVE TypeGoal'
    <2>1. inputHandle' \in NotifyChars \cup {NoHandle}
      BY <1>29 DEF MatchChars, InputUuid, NotifyChars
    <2>2. flags' = flags \/ flags' = flags \cup {"discover_ok"}
      BY <1>29 DEF MatchChars
    <2>3. flags' \in SUBSET Flags
      BY <2>2, FlagAdded, FlagNames
    <2>4. CASE ~(InputFound /\ CommandFound)
      BY <1>29, <2>1, <2>4 DEF MatchChars
    <2>5. CASE InputFound /\ CommandFound
      <3>1. Strategy(profile) = "selected" => inputHandle' # NoHandle
        BY <1>29, <2>5 DEF MatchChars, InputUuid
      <3>2. IsPair(profile) => Strategy(profile) = "selected"
        BY DEF IsPair, Strategy
      <3> QED
        BY <1>29, <2>1, <2>3, <2>5, <3>1, <3>2 DEF MatchChars
    <2> QED
      BY <2>4, <2>5
  <1>30. CASE DiscoverCached
    BY <1>30, <1>29 DEF DiscoverCached
  <1>31. CASE GetServicesOk
    BY <1>31, <1>29 DEF GetServicesOk
  <1>32. ASSUME NEW c \in NotifyChars, SubAllStep(c) PROVE TypeGoal'
    <2>1. todo' \in SUBSET NotifyChars /\ pc' \in {"subAll", "subAllEnd"}
      BY <1>32 DEF SubAllStep
    <2>2. /\ subscribed' \in SUBSET NotifyChars /\ subCount' \in Nat
          /\ inputHandle' \in NotifyChars \cup {NoHandle}
      BY <1>32 DEF SubAllStep
    <2> QED
      BY <1>32, <2>1, <2>2 DEF SubAllStep
  <1>33. CASE SubAllEnd
    <2>1. flags' = flags \/ flags' = flags \cup {"subscribe_ok"}
      BY <1>33 DEF SubAllEnd
    <2>2. flags' \in SUBSET Flags
      BY <2>1, FlagAdded, FlagNames
    <2>3. CASE subCount = 0
      BY <1>33, <2>2, <2>3 DEF SubAllEnd
    <2>4. CASE subCount > 0
      BY <1>33, <2>2, <2>4 DEF SubAllEnd
    <2> QED
      BY <2>3, <2>4
  <1> QED
    BY <1>2, <1>3, <1>4, <1>5, <1>6, <1>7, <1>8, <1>9, <1>10, <1>11, <1>12, <1>13,
       <1>14, <1>15, <1>16, <1>17, <1>18, <1>19, <1>20, <1>21, <1>22, <1>23, <1>24, <1>25,
       <1>26, <1>27, <1>28, <1>30, <1>31, <1>32, <1>33
    DEF StageStep

\* The running loop and cleanup_client keep it.
LEMMA TInvRun ==
    ASSUME TypeGoal, RunStep
    PROVE  TypeGoal'
  <1> USE DEF settled, calm, subVars, exitVars, pairVars, linkVars, EndRunning, AfterCleanup,
              AwaitPoints, SyncPoints, TypeGoal, SessionTypeOK, Position, HandleKnown, InitPos
  <1>1. CASE RunLoopHead
    BY <1>1 DEF RunLoopHead
  <1>2. CASE RunWake
    BY <1>2 DEF RunWake
  <1>3. CASE RunTimeout
    BY <1>3 DEF RunTimeout
  <1>4. CASE Cleanup
    BY <1>4 DEF Cleanup
  <1>5. CASE DisconnectOk
    BY <1>5 DEF DisconnectOk, Flags, SessionFlags
  <1>6. CASE DisconnectRaise
    <2>1. orphan' \in {"none", "up"} /\ orphanSubs' \in SUBSET NotifyChars
      BY <1>6 DEF DisconnectRaise, ForgetLink
    <2>2. flags' \in SUBSET Flags
      BY <1>6 DEF DisconnectRaise, Flags
    <2> QED
      BY <1>6, <2>1, <2>2 DEF DisconnectRaise, ForgetLink
  <1> QED
    BY <1>1, <1>2, <1>3, <1>4, <1>5, <1>6 DEF RunStep

\* A report leaves everything but the count, heard and the flags alone.
LEMMA TInvReport ==
    ASSUME TypeGoal, NEW c, NEW own \in SUBSET ProfileNames, HandleReport(c, own)
    PROVE  TypeGoal'
  <1> USE DEF settled, calm, subVars, exitVars, pairVars, linkVars,
              TypeGoal, SessionTypeOK, Position, HandleKnown, InitPos
  <1>1. reportCount' \in 0..ReportCap
    BY SessionAssumption DEF SessionAssumption, HandleReport
  <1>2. flags' \in SUBSET Flags /\ heard' \in SUBSET ProfileNames
    BY DEF HandleReport, Flags, SessionFlags, StageFlags
  <1> QED
    BY <1>1, <1>2 DEF HandleReport

\* Callbacks keep it, whatever await they interrupt.
LEMMA TInvCallback ==
    ASSUME TypeGoal, Callback
    PROVE  TypeGoal'
  <1> USE DEF settled, calm, subVars, exitVars, pairVars, linkVars,
              TypeGoal, SessionTypeOK, Position, HandleKnown, InitPos
  <1>1. CASE Signal
    BY <1>1 DEF Signal, Flags
  <1>2. CASE LinkDrop
    BY <1>2 DEF LinkDrop, Flags, SessionFlags
  <1>3. CASE OrphanDrop
    BY <1>3 DEF OrphanDrop, Flags, SessionFlags
  <1>4. CASE Report
    BY <1>4, TInvReport DEF Report
  <1>5. CASE OrphanReport
    BY <1>5, TInvReport DEF OrphanReport
  <1>6. CASE PairResponse
    BY <1>6 DEF PairResponse
  <1> QED
    BY <1>1, <1>2, <1>3, <1>4, <1>5, <1>6 DEF Callback

\* A new session starts in a well-typed state.
LEMMA TInvStart ==
    ASSUME TypeGoal, NEW p \in ProfileNames, StartSession(p),
           UNCHANGED args, exitCode' \in {NoCode, 0, 10, 15, 16, 99},
           uinput' \in {"none", "open", "closed"}
    PROVE  TypeGoal'
  <1> USE DEF TypeGoal, SessionTypeOK, ResetSession, ForgetLink, StartSession
  <1>1. flags' \in SUBSET Flags /\ orphanSubs' \in SUBSET NotifyChars
    OBVIOUS
  <1>2. reportCount' \in 0..ReportCap
    BY SessionAssumption DEF SessionAssumption
  <1>3. SessionTypeOK'
    BY <1>1, <1>2 DEF AwaitPoints, SyncPoints
  <1>4. Position' /\ HandleKnown'
    BY DEF Position, HandleKnown, InitPos
  <1> QED
    BY <1>3, <1>4

\* The profile each mode asks for exists.
LEMMA ProfileChosen == ASSUME args \in ArgSets PROVE FirstProfile \in ProfileNames
  <1>1. args.profile \in ProfileNames \cup {"auto"}
    BY ArgsAssumption DEF ArgsAssumption
  <1>2. ArgProfile \in ProfileNames \cup {"auto"}
    BY <1>1 DEF ArgProfile, ProfileNames
  <1>3. Mode \in {"auto", "diagnose", "daemon", "once"} /\ (Mode = "diagnose" => ArgProfile # "auto")
    BY DEF Mode
  <1>4. AutoProfileOrder[1] \in ProfileNames /\ "macos" \in ProfileNames
    BY DEF AutoProfileOrder, ProfileNames
  <1> QED
    BY <1>2, <1>3, <1>4 DEF FirstProfile, OnceProfile

\* What _try_profile records is a record of the summary.
LEMMA AttemptTyped ==
    ASSUME TInv
    PROVE  Append(attempted, TryProfileResult) \in Seq(AttemptRecords)
  <1> USE DEF TInv, TypeOK, SessionTypeOK, ModeTypeOK
  <1>1. Passed \in SUBSET StageLabels
    <2> SUFFICES ASSUME NEW i \in 1..(stage - 1) PROVE Stages(profile)[i] \in StageLabels
      BY DEF Passed
    <2>1. i \in 1..(IF IsPair(profile) THEN 6 ELSE 5)
      BY DEF Position, InitPos
    <2> QED
      BY <2>1, StageList DEF StageLabels
  <1>2. FailureReason \in Reasons
    BY DEF FailureReason, Reasons
  <1>3. TryProfileResult \in AttemptRecords
    BY <1>1, <1>2 DEF TryProfileResult, AttemptRecords, Reasons
  <1> QED
    BY <1>3

\* The steps of async_main and its modes keep TInv.
LEMMA TInvMode ==
    ASSUME TInv, ModeStep
    PROVE  TInv'
  <1> USE DEF TInv, TypeOK, TypeGoal
  <1>1. ASSUME exitCode' \in {0, 10, 15, 16, 99}, pc' \in {"cleanup", "exited"},
               uinput' \in {"none", "open", "closed"},
               UNCHANGED <<calm, subVars, stage, iter, result, inputHandle, flags, pairVars, linkVars>>
        PROVE  TypeGoal'
    BY <1>1 DEF calm, subVars, pairVars, linkVars, AwaitPoints, SyncPoints, SessionTypeOK,
                Position, HandleKnown, InitPos
  <1>2. ASSUME UNCHANGED modeVars PROVE ModeTypeOK'
    BY <1>2 DEF modeVars, ModeTypeOK
  <1>3. uinput \in {"none", "open", "closed"} /\ exitCode \in {NoCode, 0, 10, 15, 16, 99}
    BY DEF SessionTypeOK
  <1>4. CASE PreflightFail
    BY <1>1, <1>2, <1>3, <1>4 DEF PreflightFail
  <1>5. CASE PreflightOk
    <2>1. uinput' \in {"none", "open", "closed"}
      BY <1>5 DEF PreflightOk, UinputOutcomes
    <2> QED
      BY <1>2, <1>3, <1>5, <2>1, ProfileChosen, TInvStart DEF PreflightOk, SessionTypeOK
  <1>6. CASE PreflightShutdown
    <2>1. uinput' \in {"none", "open", "closed"}
      BY <1>6 DEF PreflightShutdown, UinputOutcomes
    <2> QED
      BY <1>1, <1>2, <1>6, <2>1 DEF PreflightShutdown
  <1>7. CASE DaemonStop
    BY <1>1, <1>2, <1>3, <1>7 DEF DaemonStop, Exit
  <1>8. CASE DaemonSessionOk
    BY <1>8 DEF DaemonSessionOk, settled, exitVars, calm, subVars, pairVars, linkVars, AwaitPoints,
                SyncPoints, SessionTypeOK, ModeTypeOK, Position, HandleKnown, InitPos
  <1>9. CASE DaemonSessionFailed
    <2>1. ModeTypeOK'
      BY <1>9 DEF DaemonSessionFailed, ModeTypeOK
    <2>2. CASE reconnectCount > MaxExponent
      BY <1>1, <1>3, <1>9, <2>1, <2>2 DEF DaemonSessionFailed, Exit
    <2>3. CASE ~(reconnectCount > MaxExponent)
      BY <1>9, <2>1, <2>3
      DEF DaemonSessionFailed, exitVars, calm, subVars, pairVars, linkVars, AwaitPoints,
          SyncPoints, SessionTypeOK, Position, HandleKnown, InitPos
    <2> QED
      BY <2>2, <2>3
  <1>10. CASE DaemonNext
    <2>1. CASE Exit(0) /\ UNCHANGED <<calm, subVars, stage, iter, result, inputHandle, flags,
                                      pairVars, linkVars>>
      BY <1>1, <1>2, <1>3, <1>10, <2>1 DEF DaemonNext, Exit
    <2>2. CASE StartSession("macos") /\ UNCHANGED <<args, exitVars>>
      BY <1>2, <1>3, <1>10, <2>2, TInvStart DEF DaemonNext, exitVars, ProfileNames
    <2> QED
      BY <1>10, <2>1, <2>2 DEF DaemonNext
  <1>11. CASE AutoFinish
    <2>1. ModeTypeOK'
      BY <1>11, AttemptTyped DEF AutoFinish, ModeTypeOK, SessionTypeOK
    <2> QED
      BY <1>1, <1>3, <1>11, <2>1 DEF AutoFinish, Exit
  <1>12. CASE AutoNext
    <2>1. ModeTypeOK'
      BY <1>12, AttemptTyped DEF AutoNext, ModeTypeOK, AutoProfileOrder
    <2>2. AutoProfileOrder[autoIdx + 1] \in ProfileNames
      BY <1>12 DEF AutoNext, ModeTypeOK, AutoProfileOrder, ProfileNames
    <2> QED
      BY <1>3, <1>12, <2>1, <2>2, TInvStart DEF AutoNext, exitVars
  <1>13. CASE AutoShutdown
    <2>1. ModeTypeOK'
      BY <1>13, AttemptTyped DEF AutoShutdown, ModeTypeOK
    <2>2. /\ flags' \in SUBSET Flags /\ orphanSubs' \in SUBSET NotifyChars
          /\ reportCount' \in 0..ReportCap
      BY <1>13, SessionAssumption
      DEF AutoShutdown, ResetSession, ForgetLink, SessionTypeOK, SessionAssumption
    <2>3. SessionTypeOK' /\ Position' /\ HandleKnown'
      BY <1>13, <2>2
      DEF AutoShutdown, Exit, ResetSession, ForgetLink, subVars, SessionTypeOK, AwaitPoints,
          SyncPoints, Position, HandleKnown, InitPos
    <2> QED
      BY <2>1, <2>3
  <1>14. CASE DiagnoseReturn
    BY <1>1, <1>2, <1>3, <1>14 DEF DiagnoseReturn, Exit
  <1>15. CASE OnceReturn
    BY <1>1, <1>2, <1>3, <1>15 DEF OnceReturn, Exit
  <1> QED
    BY <1>4, <1>5, <1>6, <1>7, <1>8, <1>9, <1>10, <1>11, <1>12, <1>13, <1>14, <1>15
    DEF ModeStep

\* Every step of the daemon keeps TInv.
LEMMA TInvNext == TInv /\ [Next]_vars => TInv'
  <1> SUFFICES ASSUME TInv, [Next]_vars PROVE TInv'
    OBVIOUS
  <1>1. ASSUME TypeGoal', UNCHANGED modeVars PROVE TInv'
    BY <1>1 DEF TInv, TypeOK, TypeGoal, modeVars, ModeTypeOK
  <1>2. CASE SessionStep
    BY <1>1, <1>2, TInvStage, TInvRun DEF SessionStep, TInv, TypeOK, TypeGoal
  <1>3. CASE ModeStep
    BY <1>3, TInvMode
  <1>4. CASE Callback /\ UNCHANGED modeVars
    BY <1>1, <1>4, TInvCallback DEF TInv, TypeOK, TypeGoal
  <1>5. CASE UNCHANGED vars
    BY <1>5
    DEF vars, sessionVars, modeVars, calm, subVars, exitVars, pairVars, linkVars, TInv, TypeOK,
        SessionTypeOK, ModeTypeOK, Position, HandleKnown, InitPos
  <1> QED
    BY <1>2, <1>3, <1>4, <1>5 DEF Next, TaskStep, Exited

\* Type correctness: DaemonState and the modes' own variables keep their types in every
\* session of every mode, in particular the stage index, the pair step and the handle.
THEOREM TypeCorrect == Spec => []TypeOK
  <1>1. Init => TInv
    BY TInvInit
  <1>2. TInv /\ [Next]_vars => TInv'
    BY TInvNext
  <1>3. TInv => TypeOK
    BY DEF TInv
  <1> QED
    BY <1>1, <1>2, <1>3, PTL DEF Spec
=============================================================================
