------------------------- MODULE Switch2StreamProofs -------------------------
(***************************************************************************)
(* What a streaming session, a passed diagnosis and a detected profile of  *)
(* switch2d.py have behind them, for every value of the constants.         *)
(***************************************************************************)
EXTENDS Switch2LinkProofs

USE DEF NoCode, NoHandle, NoWinner, LeftOpen

\* The points of a session between a stage_connect that returned and cleanup_client.
Connected ==
    \/ pc \in {"discover", "getServices", "respSub", "pairWrite", "pairWait", "init",
               "subscribe", "subAll", "subAllEnd", "runLoop", "running"}
    \/ pc = "stage" /\ stage > 2

\* The stage flags are never taken back, so that a stage behind the task has its flag set.
StagesFlagged ==
    /\ stage > 1 => "scan_ok" \in flags
    /\ stage > 2 => "connect_ok" \in flags
    /\ stage > 3 => "discover_ok" \in flags
    /\ stage > InitPos + 1 => "subscribe_ok" \in flags
    /\ Connected => "client" \in flags

\* A session begins with what reset_session left.
Clean ==
    /\ flags \cap SessionFlags = {}
    /\ link = "down" /\ subscribed = {}
    /\ reportCount = 0 /\ pairResponses = {} /\ pairFailureStep = "none"

FreshStart ==
    /\ pc = "stage" /\ stage = 1 => Clean
    /\ pc = "respSub" => IsPair(profile)
    /\ pc \in {"scan", "connect"} \/ (pc = "stage" /\ stage <= 3)
       \/ (pc = "stage" /\ stage <= InitPos + 1 /\ Strategy(profile) = "all")
          => inputHandle = NoHandle

\* The handle is a characteristic of the table of this link, and it is the subscribed one.
HandleFits ==
    /\ inputHandle # NoHandle => inputHandle \in gatt
    /\ todo \subseteq gatt \/ pc # "subAll"
    /\ pc \in {"subAll", "subAllEnd"} =>
          /\ subCount > 0 => inputHandle # NoHandle
          /\ subCount = 0 => subscribed = {}
          /\ LinkUp /\ inputHandle # NoHandle => inputHandle \in subscribed
    /\ pc \in {"runLoop", "running"} \/ (pc = "stage" /\ stage > InitPos + 1) =>
          inputHandle # NoHandle /\ (LinkUp => inputHandle \in subscribed)

\* The init commands and pair steps written so far.
Commands ==
    /\ pc \in {"scan", "connect", "discover", "getServices", "respSub", "pairWrite", "pairWait"}
       \/ (pc = "stage" /\ stage <= InitPos) => written = 0
    /\ pc = "init" => written = iter - 1 /\ iter <= InitLen(profile)
    /\ pc \in {"subscribe", "subAll", "subAllEnd", "runLoop", "running"}
       \/ (pc = "stage" /\ stage > InitPos) => written = InitLen(profile)

PairCommands ==
    /\ pc \in {"scan", "connect", "discover", "getServices", "respSub"}
       \/ (pc = "stage" /\ stage <= 4) => asked = {}
    /\ pc = "pairWrite" => asked = 1 .. (iter - 1)
    /\ pc = "pairWait" => asked = 1 .. iter
    /\ IsPair(profile)
       /\ (pc \in {"init", "subscribe", "subAll", "subAllEnd", "runLoop", "running"}
           \/ (pc = "stage" /\ stage > 4))
       => asked = 1 .. 4 /\ "pair_sequence_ok" \in flags

AllStages == {"scan_ok", "connect_ok", "discover_ok", "subscribe_ok"}

\* What a subscription, here or on a forgotten link, and a counted report tell.
Counted ==
    /\ result = "fail" => pc \in {"cleanup", "disconnecting", "return", "waitDisc", "backoff", "exited"}
    /\ subscribed # {} => AllStages \subseteq flags \/ pc \in {"subAll", "subAllEnd"}
    /\ orphanSubs # {} => AllStages \subseteq flags
    /\ reportCount > 0 =>
          /\ "reports_ok" \in flags
          /\ AllStages \subseteq flags \/ pc \in {"subscribe", "subAll", "subAllEnd"}
             \/ result = "fail"
          /\ profile \in heard \/ LeftOpen

\* Where a session is followed by the next one, or by the end.
Between == {"preflight", "return", "waitDisc", "backoff"}

\* What the exit code and the winner tell; only the reconnect loop waits between sessions.
Verdict ==
    /\ DiagnosePassIsReal /\ WinnerHeardItself
    /\ pc \in {"waitDisc", "backoff"} => "diagnose" \notin args.options

SInv == StagesFlagged /\ FreshStart /\ HandleFits /\ Commands /\ PairCommands /\ Counted /\ Verdict

\* Up to its connect() a session has disconnect_event clear, and only its own client can set
\* it: a link is forgotten on the way out at most, where nothing is awaited any more.
OwnEvent ==
    /\ pc \in {"scan", "connect"} \/ (pc = "stage" /\ stage <= 2)
          => "disconnect_event" \notin flags
    /\ "client" \in flags => (LinkUp <=> "disconnect_event" \notin flags)
    /\ orphan = "up" =>
          exitCode # NoCode /\ pc \in {"cleanup", "exited"} /\ "client" \notin flags

OwnReports == heard \subseteq {profile} /\ pairResponses \ {0} \subseteq asked

OInv == ~LeftOpen => OwnEvent /\ OwnReports

-----------------------------------------------------------------------------
(* The stages *)

\* The daemon starts in the invariant.
LEMMA SInvInit == Init => SInv
  <1> SUFFICES ASSUME Init PROVE SInv
    OBVIOUS
  <1> USE DEF Init, InitPos
  <1>1. StagesFlagged /\ FreshStart /\ HandleFits
    BY DEF StagesFlagged, FreshStart, HandleFits, Connected
  <1>2. Commands /\ PairCommands
    BY DEF Commands, PairCommands
  <1>3. Counted /\ Verdict
    <2>1. exitCode # 0 /\ winning = NoWinner
      OBVIOUS
    <2> QED
      BY <2>1 DEF Counted, Verdict, DiagnosePassIsReal, WinnerHeardItself
  <1> QED
    BY <1>1, <1>2, <1>3 DEF SInv

\* Which stage is entered where.
LEMMA StageAt ==
    ASSUME TInv, NEW name, EnterStage(name)
    PROVE  /\ pc = "stage"
           /\ name = "scan" => stage = 1
           /\ name = "connect" => stage = 2
           /\ name = "discover" => stage = 3
           /\ name = "pair" => stage = 4 /\ IsPair(profile)
           /\ name = "init" => stage = InitPos
           /\ name = "subscribe" => stage = InitPos + 1
  <1>1. profile \in ProfileNames /\ stage \in 1 .. (InitPos + 2) /\ pc = "stage"
    BY DEF TInv, TypeOK, SessionTypeOK, Position, EnterStage
  <1>2. Stages(profile)[stage] = name /\ stage <= Len(Stages(profile))
    BY DEF EnterStage
  <1> QED
    BY <1>1, <1>2, StageList DEF InitPos

\* A stage sets its flag before the task goes on, and none is taken back.
LEMMA StagesFlaggedStage ==
    ASSUME TInv, LInv, SInv, StageStep, UNCHANGED modeVars
    PROVE  StagesFlagged'
  <1> USE DEF settled, calm, subVars, exitVars, pairVars, linkVars, LinkUp, Connected, InitPos,
              StageOk, StageFail, SInv, TInv, TypeOK, SessionTypeOK, Position, StagesFlagged
  <1>1. CASE ScanTimeout \/ ConnectExhausted \/ GetServicesExhausted \/ RespSubFail \/ PairWriteFail
             \/ InitWriteFail \/ SubscribeExhausted
    BY <1>1 DEF ScanTimeout, ConnectExhausted, GetServicesExhausted, RespSubFail, PairWriteFail,
       InitWriteFail, SubscribeExhausted
  <1>2. CASE ConnectRetry \/ GetServicesRetry \/ SubscribeRetry \/ DiscoverMiss
    BY <1>2 DEF ConnectRetry, GetServicesRetry, SubscribeRetry, DiscoverMiss
  <1>3. CASE ScanError \/ ScanCrash
    BY <1>3 DEF ScanError, ScanCrash, Exit
  <1>4. CASE StageShutdown
    BY <1>4, StageList DEF StageShutdown
  <1>5. CASE EnterSimpleStage
    BY <1>5, StageAt DEF EnterSimpleStage
  <1>6. CASE EnterSubscribeAll
    BY <1>6, StageAt DEF EnterSubscribeAll
  <1>7. CASE EnterPair
    BY <1>7, StageAt DEF EnterPair
  <1>8. CASE EnterInit
    BY <1>8, StageAt DEF EnterInit
  <1>9. CASE StagesDone
    BY <1>9, StageList DEF StagesDone
  <1>10. CASE ScanFound
    BY <1>10 DEF ScanFound
  <1>11. CASE ConnectOk
    BY <1>11 DEF ConnectOk
  <1>12. CASE DiscoverCached \/ GetServicesOk
    BY <1>12 DEF DiscoverCached, GetServicesOk, MatchChars, InputFound, InputUuid
  <1>13. CASE RespSubOk
    BY <1>13 DEF RespSubOk
  <1>14. CASE PairWriteOk \/ PairNextStep \/ PairFinish
    BY <1>14 DEF PairWriteOk, PairNextStep, PairFinish, PairSteps
  <1>15. CASE InitWriteOk
    BY <1>15 DEF InitWriteOk
  <1>16. CASE SubscribeOk
    BY <1>16 DEF SubscribeOk
  <1>17. CASE SubAllEnd
    BY <1>17 DEF SubAllEnd
  <1>18. ASSUME NEW c \in NotifyChars, SubAllStep(c) PROVE StagesFlagged'
    BY <1>18 DEF SubAllStep
  <1> QED
    BY <1>1, <1>2, <1>3, <1>4, <1>5, <1>6, <1>7, <1>8, <1>9, <1>10, <1>11,
       <1>12, <1>13, <1>14, <1>15, <1>16, <1>17, <1>18
    DEF StageStep

\* Only stage_discover and _subscribe_all_notify set the handle.
LEMMA FreshStartStage ==
    ASSUME TInv, LInv, SInv, StageStep, UNCHANGED modeVars
    PROVE  FreshStart'
  <1> USE DEF settled, calm, subVars, exitVars, pairVars, linkVars, LinkUp, Connected, InitPos,
              StageOk, StageFail, SInv, TInv, TypeOK, SessionTypeOK, Position, FreshStart, Clean
  <1>1. CASE ScanTimeout \/ ConnectExhausted \/ GetServicesExhausted \/ RespSubFail \/ PairWriteFail
             \/ InitWriteFail \/ SubscribeExhausted
    BY <1>1 DEF ScanTimeout, ConnectExhausted, GetServicesExhausted, RespSubFail, PairWriteFail,
       InitWriteFail, SubscribeExhausted
  <1>2. CASE ConnectRetry \/ GetServicesRetry \/ SubscribeRetry \/ DiscoverMiss
    BY <1>2 DEF ConnectRetry, GetServicesRetry, SubscribeRetry, DiscoverMiss
  <1>3. CASE ScanError \/ ScanCrash
    BY <1>3 DEF ScanError, ScanCrash, Exit
  <1>4. CASE StageShutdown
    BY <1>4, StageList DEF StageShutdown
  <1>5. CASE EnterSimpleStage
    BY <1>5, StageAt DEF EnterSimpleStage
  <1>6. CASE EnterSubscribeAll
    BY <1>6, StageAt DEF EnterSubscribeAll
  <1>7. CASE EnterPair
    BY <1>7, StageAt DEF EnterPair
  <1>8. CASE EnterInit
    BY <1>8, StageAt DEF EnterInit
  <1>9. CASE StagesDone
    BY <1>9, StageList DEF StagesDone
  <1>10. CASE ScanFound
    BY <1>10 DEF ScanFound
  <1>11. CASE ConnectOk
    BY <1>11 DEF ConnectOk
  <1>12. CASE DiscoverCached \/ GetServicesOk
    BY <1>12 DEF DiscoverCached, GetServicesOk, MatchChars, InputFound, InputUuid
  <1>13. CASE RespSubOk
    BY <1>13 DEF RespSubOk, IsPair, Strategy
  <1>14. CASE PairWriteOk \/ PairNextStep \/ PairFinish
    BY <1>14 DEF PairWriteOk, PairNextStep, PairFinish, PairSteps, IsPair, Strategy
  <1>15. CASE InitWriteOk
    BY <1>15 DEF InitWriteOk, HasCommand, Strategy
  <1>16. CASE SubscribeOk
    BY <1>16 DEF SubscribeOk
  <1>17. CASE SubAllEnd
    BY <1>17 DEF SubAllEnd
  <1>18. ASSUME NEW c \in NotifyChars, SubAllStep(c) PROVE FreshStart'
    BY <1>18 DEF SubAllStep
  <1> QED
    BY <1>1, <1>2, <1>3, <1>4, <1>5, <1>6, <1>7, <1>8, <1>9, <1>10, <1>11,
       <1>12, <1>13, <1>14, <1>15, <1>16, <1>17, <1>18
    DEF StageStep

\* The handle comes from the table of this link, and is subscribed while the link lasts.
LEMMA HandleFitsStage ==
    ASSUME TInv, LInv, SInv, StageStep, UNCHANGED modeVars
    PROVE  HandleFits'
  <1> USE DEF settled, calm, subVars, exitVars, pairVars, linkVars, LinkUp, Connected, InitPos,
              StageOk, StageFail, SInv, TInv, TypeOK, SessionTypeOK, Position, HandleFits
  <1>1. CASE ScanTimeout \/ ConnectExhausted \/ GetServicesExhausted \/ RespSubFail \/ PairWriteFail
             \/ InitWriteFail \/ SubscribeExhausted
    BY <1>1 DEF ScanTimeout, ConnectExhausted, GetServicesExhausted, RespSubFail, PairWriteFail,
       InitWriteFail, SubscribeExhausted
  <1>2. CASE ConnectRetry \/ GetServicesRetry \/ SubscribeRetry \/ DiscoverMiss
    BY <1>2 DEF ConnectRetry, GetServicesRetry, SubscribeRetry, DiscoverMiss
  <1>3. CASE ScanError \/ ScanCrash
    BY <1>3 DEF ScanError, ScanCrash, Exit
  <1>4. CASE StageShutdown
    BY <1>4, StageList DEF StageShutdown
  <1>5. CASE EnterSimpleStage
    BY <1>5, StageAt DEF EnterSimpleStage
  <1>6. CASE EnterSubscribeAll
    BY <1>6, StageAt DEF EnterSubscribeAll, LInv, Unsubscribed, FreshStart
  <1>7. CASE EnterPair
    BY <1>7, StageAt DEF EnterPair
  <1>8. CASE EnterInit
    BY <1>8, StageAt DEF EnterInit
  <1>9. CASE StagesDone
    BY <1>9, StageList DEF StagesDone
  <1>10. CASE ScanFound
    BY <1>10 DEF ScanFound
  <1>11. CASE ConnectOk
    BY <1>11 DEF ConnectOk, FreshStart
  <1>12. CASE DiscoverCached \/ GetServicesOk
    BY <1>12 DEF DiscoverCached, GetServicesOk, MatchChars, InputFound, InputUuid
  <1>13. CASE RespSubOk
    BY <1>13 DEF RespSubOk
  <1>14. CASE PairWriteOk \/ PairNextStep \/ PairFinish
    BY <1>14 DEF PairWriteOk, PairNextStep, PairFinish, PairSteps
  <1>15. CASE InitWriteOk
    BY <1>15 DEF InitWriteOk
  <1>16. CASE SubscribeOk
    BY <1>16 DEF SubscribeOk, HandleKnown
  <1>17. CASE SubAllEnd
    BY <1>17 DEF SubAllEnd
  <1>18. ASSUME NEW c \in NotifyChars, SubAllStep(c) PROVE HandleFits'
    <2>1. c \in gatt /\ c # NoHandle /\ todo' \subseteq gatt /\ gatt' = gatt /\ pc = "subAll"
      BY <1>18 DEF SubAllStep, NotifyChars
    <2>2. CASE /\ LinkUp /\ subscribed' = subscribed \cup {c} /\ subCount' = subCount + 1
               /\ inputHandle' = IF inputHandle = NoHandle THEN c ELSE inputHandle
      BY <1>18, <2>1, <2>2 DEF SubAllStep
    <2>3. CASE UNCHANGED <<subscribed, subCount, inputHandle>>
      BY <1>18, <2>1, <2>3 DEF SubAllStep
    <2> QED
      BY <1>18, <2>2, <2>3 DEF SubAllStep
  <1> QED
    BY <1>1, <1>2, <1>3, <1>4, <1>5, <1>6, <1>7, <1>8, <1>9, <1>10, <1>11,
       <1>12, <1>13, <1>14, <1>15, <1>16, <1>17, <1>18
    DEF StageStep

\* stage_init writes its commands one by one, and goes on after the last.
LEMMA CommandsStage ==
    ASSUME TInv, LInv, SInv, StageStep, UNCHANGED modeVars
    PROVE  Commands'
  <1> USE DEF settled, calm, subVars, exitVars, pairVars, linkVars, LinkUp, Connected, InitPos,
              StageOk, StageFail, SInv, TInv, TypeOK, SessionTypeOK, Position, Commands
  <1>1. CASE ScanTimeout \/ ConnectExhausted \/ GetServicesExhausted \/ RespSubFail \/ PairWriteFail
             \/ InitWriteFail \/ SubscribeExhausted
    BY <1>1 DEF ScanTimeout, ConnectExhausted, GetServicesExhausted, RespSubFail, PairWriteFail,
       InitWriteFail, SubscribeExhausted
  <1>2. CASE ConnectRetry \/ GetServicesRetry \/ SubscribeRetry \/ DiscoverMiss
    BY <1>2 DEF ConnectRetry, GetServicesRetry, SubscribeRetry, DiscoverMiss
  <1>3. CASE ScanError \/ ScanCrash
    BY <1>3 DEF ScanError, ScanCrash, Exit
  <1>4. CASE StageShutdown
    BY <1>4, StageList DEF StageShutdown
  <1>5. CASE EnterSimpleStage
    BY <1>5, StageAt DEF EnterSimpleStage
  <1>6. CASE EnterSubscribeAll
    BY <1>6, StageAt DEF EnterSubscribeAll
  <1>7. CASE EnterPair
    BY <1>7, StageAt DEF EnterPair
  <1>8. CASE EnterInit
    BY <1>8, StageAt DEF EnterInit, InitLen
  <1>9. CASE StagesDone
    BY <1>9, StageList DEF StagesDone
  <1>10. CASE ScanFound
    BY <1>10 DEF ScanFound
  <1>11. CASE ConnectOk
    BY <1>11 DEF ConnectOk
  <1>12. CASE DiscoverCached \/ GetServicesOk
    BY <1>12 DEF DiscoverCached, GetServicesOk, MatchChars, InputFound, InputUuid
  <1>13. CASE RespSubOk
    BY <1>13 DEF RespSubOk
  <1>14. CASE PairWriteOk \/ PairNextStep \/ PairFinish
    BY <1>14 DEF PairWriteOk, PairNextStep, PairFinish, PairSteps
  <1>15. CASE InitWriteOk
    BY <1>15 DEF InitWriteOk, InitLen
  <1>16. CASE SubscribeOk
    BY <1>16 DEF SubscribeOk
  <1>17. CASE SubAllEnd
    BY <1>17 DEF SubAllEnd
  <1>18. ASSUME NEW c \in NotifyChars, SubAllStep(c) PROVE Commands'
    BY <1>18 DEF SubAllStep
  <1> QED
    BY <1>1, <1>2, <1>3, <1>4, <1>5, <1>6, <1>7, <1>8, <1>9, <1>10, <1>11,
       <1>12, <1>13, <1>14, <1>15, <1>16, <1>17, <1>18
    DEF StageStep

\* stage_pair writes its four steps in order.
LEMMA PairCommandsStage ==
    ASSUME TInv, LInv, SInv, StageStep, UNCHANGED modeVars
    PROVE  PairCommands'
  <1> USE DEF settled, calm, subVars, exitVars, pairVars, linkVars, LinkUp, Connected, InitPos,
              StageOk, StageFail, SInv, TInv, TypeOK, SessionTypeOK, Position, PairCommands
  <1>1. CASE ScanTimeout \/ ConnectExhausted \/ GetServicesExhausted \/ RespSubFail \/ PairWriteFail
             \/ InitWriteFail \/ SubscribeExhausted
    BY <1>1 DEF ScanTimeout, ConnectExhausted, GetServicesExhausted, RespSubFail, PairWriteFail,
       InitWriteFail, SubscribeExhausted
  <1>2. CASE ConnectRetry \/ GetServicesRetry \/ SubscribeRetry \/ DiscoverMiss
    <2>1. UNCHANGED <<asked, stage, profile, flags>>
      BY <1>2 DEF ConnectRetry, GetServicesRetry, SubscribeRetry, DiscoverMiss
    <2>2. \/ pc = "subscribe" /\ pc' = "subscribe"
          \/ pc \in {"connect", "discover", "getServices"}
             /\ pc' \in {"connect", "discover", "getServices"}
      BY <1>2 DEF ConnectRetry, GetServicesRetry, SubscribeRetry, DiscoverMiss
    <2> QED
      BY <2>1, <2>2
  <1>3. CASE ScanError \/ ScanCrash
    BY <1>3 DEF ScanError, ScanCrash, Exit
  <1>4. CASE StageShutdown
    BY <1>4, StageList DEF StageShutdown
  <1>5. CASE EnterSimpleStage
    BY <1>5, StageAt DEF EnterSimpleStage
  <1>6. CASE EnterSubscribeAll
    BY <1>6, StageAt DEF EnterSubscribeAll
  <1>7. CASE EnterPair
    <2>1. stage = 4 /\ asked = {} /\ asked' = {}
      BY <1>7, StageAt DEF EnterPair
    <2>2. 1 .. (1 - 1) = {}
      OBVIOUS
    <2> QED
      BY <1>7, <2>1, <2>2 DEF EnterPair
  <1>8. CASE EnterInit
    BY <1>8, StageAt DEF EnterInit
  <1>9. CASE StagesDone
    BY <1>9, StageList DEF StagesDone
  <1>10. CASE ScanFound
    BY <1>10 DEF ScanFound
  <1>11. CASE ConnectOk
    BY <1>11 DEF ConnectOk
  <1>12. CASE DiscoverCached \/ GetServicesOk
    <2>1. asked = {} /\ asked' = {} /\ stage = 3 /\ profile' = profile
      BY <1>12 DEF DiscoverCached, GetServicesOk, MatchChars
    <2>2. pc' \in {"cleanup", "respSub"} \/ (pc' = "stage" /\ stage' = 4)
      BY <1>12, <2>1 DEF DiscoverCached, GetServicesOk, MatchChars
    <2> QED
      BY <2>1, <2>2
  <1>13. CASE RespSubOk
    BY <1>13 DEF RespSubOk
  <1>14. CASE PairWriteOk \/ PairNextStep \/ PairFinish
    <2>1. CASE PairWriteOk
      <3>1. iter \in 1 .. 4 /\ asked = 1 .. (iter - 1)
        BY <2>1 DEF PairWriteOk
      <3>2. asked' = 1 .. iter
        BY <2>1, <3>1 DEF PairWriteOk
      <3> QED
        BY <2>1, <3>2 DEF PairWriteOk
    <2>2. CASE PairNextStep
      <3>1. iter \in Nat /\ asked = 1 .. iter /\ iter' = iter + 1
        BY <2>2 DEF PairNextStep
      <3>2. asked' = 1 .. (iter' - 1)
        BY <2>2, <3>1 DEF PairNextStep
      <3> QED
        BY <2>2, <3>2 DEF PairNextStep
    <2>3. CASE PairFinish
      BY <2>3 DEF PairFinish, PairSteps
    <2> QED
      BY <1>14, <2>1, <2>2, <2>3
  <1>15. CASE InitWriteOk
    BY <1>15 DEF InitWriteOk
  <1>16. CASE SubscribeOk
    BY <1>16 DEF SubscribeOk
  <1>17. CASE SubAllEnd
    BY <1>17 DEF SubAllEnd
  <1>18. ASSUME NEW c \in NotifyChars, SubAllStep(c) PROVE PairCommands'
    BY <1>18 DEF SubAllStep
  <1> QED
    BY <1>1, <1>2, <1>3, <1>4, <1>5, <1>6, <1>7, <1>8, <1>9, <1>10, <1>11,
       <1>12, <1>13, <1>14, <1>15, <1>16, <1>17, <1>18
    DEF StageStep

\* Subscriptions come last, so that what can report has all its stages behind it.
LEMMA CountedStage ==
    ASSUME TInv, LInv, SInv, StageStep, UNCHANGED modeVars
    PROVE  Counted'
  <1> USE DEF settled, calm, subVars, exitVars, pairVars, linkVars, LinkUp, Connected, InitPos,
              StageOk, StageFail, SInv, TInv, TypeOK, SessionTypeOK, Position, Counted, AllStages
  <1>1. CASE ScanTimeout \/ ConnectExhausted \/ GetServicesExhausted \/ RespSubFail \/ PairWriteFail
             \/ InitWriteFail \/ SubscribeExhausted
    BY <1>1 DEF ScanTimeout, ConnectExhausted, GetServicesExhausted, RespSubFail, PairWriteFail,
       InitWriteFail, SubscribeExhausted
  <1>2. CASE ConnectRetry \/ GetServicesRetry \/ SubscribeRetry \/ DiscoverMiss
    BY <1>2 DEF ConnectRetry, GetServicesRetry, SubscribeRetry, DiscoverMiss
  <1>3. CASE ScanError \/ ScanCrash
    BY <1>3 DEF ScanError, ScanCrash, Exit
  <1>4. CASE StageShutdown
    BY <1>4, StageList DEF StageShutdown
  <1>5. CASE EnterSimpleStage
    BY <1>5, StageAt DEF EnterSimpleStage
  <1>6. CASE EnterSubscribeAll
    BY <1>6, StageAt DEF EnterSubscribeAll
  <1>7. CASE EnterPair
    BY <1>7, StageAt DEF EnterPair
  <1>8. CASE EnterInit
    BY <1>8, StageAt DEF EnterInit
  <1>9. CASE StagesDone
    BY <1>9, StageList DEF StagesDone
  <1>10. CASE ScanFound
    BY <1>10 DEF ScanFound
  <1>11. CASE ConnectOk
    BY <1>11 DEF ConnectOk
  <1>12. CASE DiscoverCached \/ GetServicesOk
    BY <1>12 DEF DiscoverCached, GetServicesOk, MatchChars, InputFound, InputUuid
  <1>13. CASE RespSubOk
    BY <1>13 DEF RespSubOk
  <1>14. CASE PairWriteOk \/ PairNextStep \/ PairFinish
    BY <1>14 DEF PairWriteOk, PairNextStep, PairFinish, PairSteps
  <1>15. CASE InitWriteOk
    BY <1>15 DEF InitWriteOk
  <1>16. CASE SubscribeOk
    BY <1>16 DEF SubscribeOk, StagesFlagged
  <1>17. CASE SubAllEnd
    BY <1>17 DEF SubAllEnd, StagesFlagged, HandleFits
  <1>18. ASSUME NEW c \in NotifyChars, SubAllStep(c) PROVE Counted'
    BY <1>18 DEF SubAllStep
  <1> QED
    BY <1>1, <1>2, <1>3, <1>4, <1>5, <1>6, <1>7, <1>8, <1>9, <1>10, <1>11,
       <1>12, <1>13, <1>14, <1>15, <1>16, <1>17, <1>18
    DEF StageStep

\* No stage decides the exit code, except that an exception makes it 99.
LEMMA VerdictStage ==
    ASSUME TInv, LInv, SInv, StageStep, UNCHANGED modeVars
    PROVE  Verdict'
  <1> USE DEF settled, calm, subVars, exitVars, pairVars, linkVars, LinkUp, Connected, InitPos,
              StageOk, StageFail, SInv, TInv, TypeOK, SessionTypeOK, Position, Verdict,
              DiagnosePassIsReal, WinnerHeardItself, modeVars
  <1>1. CASE ScanTimeout \/ ConnectExhausted \/ GetServicesExhausted \/ RespSubFail \/ PairWriteFail
             \/ InitWriteFail \/ SubscribeExhausted
    BY <1>1 DEF ScanTimeout, ConnectExhausted, GetServicesExhausted, RespSubFail, PairWriteFail,
       InitWriteFail, SubscribeExhausted
  <1>2. CASE ConnectRetry \/ GetServicesRetry \/ SubscribeRetry \/ DiscoverMiss
    BY <1>2 DEF ConnectRetry, GetServicesRetry, SubscribeRetry, DiscoverMiss
  <1>3. CASE ScanError \/ ScanCrash
    <2>1. exitCode = NoCode /\ exitCode' = 99
      BY <1>3 DEF ScanError, ScanCrash, Exit, LInv, Unsubscribed
    <2>2. winning = NoWinner
      BY <2>1
    <2> QED
      BY <1>3, <2>1, <2>2 DEF ScanError, ScanCrash, Exit
  <1>4. CASE StageShutdown
    BY <1>4, StageList DEF StageShutdown
  <1>5. CASE EnterSimpleStage
    BY <1>5, StageAt DEF EnterSimpleStage
  <1>6. CASE EnterSubscribeAll
    BY <1>6, StageAt DEF EnterSubscribeAll
  <1>7. CASE EnterPair
    BY <1>7, StageAt DEF EnterPair
  <1>8. CASE EnterInit
    BY <1>8, StageAt DEF EnterInit
  <1>9. CASE StagesDone
    BY <1>9, StageList DEF StagesDone
  <1>10. CASE ScanFound
    BY <1>10 DEF ScanFound
  <1>11. CASE ConnectOk
    BY <1>11 DEF ConnectOk
  <1>12. CASE DiscoverCached \/ GetServicesOk
    BY <1>12 DEF DiscoverCached, GetServicesOk, MatchChars, InputFound, InputUuid
  <1>13. CASE RespSubOk
    BY <1>13 DEF RespSubOk
  <1>14. CASE PairWriteOk \/ PairNextStep \/ PairFinish
    BY <1>14 DEF PairWriteOk, PairNextStep, PairFinish, PairSteps
  <1>15. CASE InitWriteOk
    BY <1>15 DEF InitWriteOk
  <1>16. CASE SubscribeOk
    BY <1>16 DEF SubscribeOk
  <1>17. CASE SubAllEnd
    BY <1>17 DEF SubAllEnd
  <1>18. ASSUME NEW c \in NotifyChars, SubAllStep(c) PROVE Verdict'
    BY <1>18 DEF SubAllStep
  <1> QED
    BY <1>1, <1>2, <1>3, <1>4, <1>5, <1>6, <1>7, <1>8, <1>9, <1>10, <1>11,
       <1>12, <1>13, <1>14, <1>15, <1>16, <1>17, <1>18
    DEF StageStep

\* The stages keep every part.
LEMMA SInvStage ==
    ASSUME TInv, LInv, SInv, StageStep, UNCHANGED modeVars
    PROVE  SInv'
  BY StagesFlaggedStage, FreshStartStage, HandleFitsStage, CommandsStage, PairCommandsStage,
     CountedStage, VerdictStage DEF SInv

-----------------------------------------------------------------------------
(* The running loop, cleanup_client and the callbacks *)

\* The stream loop and the cleanup keep it.
LEMMA SInvRun ==
    ASSUME TInv, LInv, SInv, RunStep, UNCHANGED modeVars
    PROVE  SInv'
  <1> USE DEF RunStep, RunLoopHead, RunWake, RunTimeout, Cleanup, DisconnectOk, DisconnectRaise,
              ForgetLink, EndRunning, AfterCleanup, settled, calm, subVars, exitVars, pairVars,
              linkVars, modeVars, LinkUp, InitPos, SInv, TInv, TypeOK, SessionTypeOK, Position
  <1>1. StagesFlagged'
    BY DEF StagesFlagged, Connected
  <1>2. FreshStart'
    BY DEF FreshStart
  <1>3. HandleFits'
    BY DEF HandleFits
  <1>4. Commands'
    BY DEF Commands
  <1>5. PairCommands'
    BY DEF PairCommands
  <1>6. Counted'
    BY DEF Counted, AllStages, StagesFlagged
  <1>7. Verdict'
    BY DEF Verdict, DiagnosePassIsReal, WinnerHeardItself, StageFlags
  <1> QED
    BY <1>1, <1>2, <1>3, <1>4, <1>5, <1>6, <1>7

\* A report is counted on a subscribed link, or while the subscription is asked for.
LEMMA SInvReport ==
    ASSUME TInv, LInv, SInv, Awaiting, UNCHANGED modeVars,
           NEW c, NEW own, HandleReport(c, own),
           \/ own = {profile} /\ c \in Notifying
           \/ own = {} /\ c \in orphanSubs
    PROVE  SInv'
  <1> USE DEF HandleReport, subVars, exitVars, pairVars, linkVars, modeVars, LinkUp, InitPos,
              SInv, TInv, TypeOK, SessionTypeOK, Position
  <1>1. StagesFlagged'
    BY DEF StagesFlagged, Connected
  <1>2. FreshStart'
    BY DEF FreshStart, Awaiting, AwaitPoints
  <1>3. HandleFits'
    BY DEF HandleFits
  <1>4. Commands'
    BY DEF Commands
  <1>5. PairCommands'
    BY DEF PairCommands
  <1>6. Counted'
    <2>1. profile \in own \/ LeftOpen
      BY DEF LInv, Forgotten
    <2>2. AllStages \subseteq flags \/ pc \in {"subscribe", "subAll"}
      BY DEF Counted, Notifying, Awaiting, AwaitPoints
    <2> QED
      BY <2>1, <2>2 DEF Counted, AllStages
  <1>7. Verdict'
    BY DEF Verdict, DiagnosePassIsReal, WinnerHeardItself, StageFlags
  <1> QED
    BY <1>1, <1>2, <1>3, <1>4, <1>5, <1>6, <1>7

\* The callbacks keep it.
LEMMA SInvCallback ==
    ASSUME TInv, LInv, SInv, Callback, UNCHANGED modeVars
    PROVE  SInv'
  <1>1. CASE Report
    BY <1>1, SInvReport DEF Report
  <1>2. CASE OrphanReport
    BY <1>2, SInvReport DEF OrphanReport
  <1>3. CASE Signal \/ LinkDrop \/ OrphanDrop \/ PairResponse
    <2> USE DEF Signal, LinkDrop, OrphanDrop, PairResponse, Awaiting, AwaitPoints, settled, calm,
                subVars, exitVars, pairVars, linkVars, modeVars, LinkUp, InitPos, SInv, TInv,
                TypeOK, SessionTypeOK, Position
    <2>1. StagesFlagged'
      BY <1>3 DEF StagesFlagged, Connected
    <2>2. FreshStart'
      BY <1>3 DEF FreshStart
    <2>3. HandleFits'
      BY <1>3 DEF HandleFits
    <2>4. Commands'
      BY <1>3 DEF Commands
    <2>5. PairCommands'
      <3>1. UNCHANGED <<pc, stage, iter, profile, asked>> /\ flags \subseteq flags'
        BY <1>3
      <3> QED
        BY ONLY SInv, <3>1 DEF SInv, PairCommands
    <2>6. Counted'
      BY <1>3 DEF Counted, AllStages
    <2>7. Verdict'
      BY <1>3 DEF Verdict, DiagnosePassIsReal, WinnerHeardItself, StageFlags
    <2> QED
      BY <2>1, <2>2, <2>3, <2>4, <2>5, <2>6, <2>7
  <1> QED
    BY <1>1, <1>2, <1>3 DEF Callback

-----------------------------------------------------------------------------
(* async_main and its modes *)

\* run_session begins.
LEMMA SInvStart ==
    ASSUME TInv, LInv, SInv, NEW p \in ProfileNames, StartSession(p), pc \in Between,
           exitCode = NoCode, UNCHANGED <<args, exitCode, winning>>
    PROVE  SInv'
  <1> USE DEF StartSession, ResetSession, ForgetLink, InitPos, SInv
  <1>1. StagesFlagged'
    BY DEF StagesFlagged, Connected
  <1>2. FreshStart'
    BY DEF FreshStart, Clean
  <1>3. HandleFits'
    BY DEF HandleFits
  <1>4. Commands'
    BY DEF Commands
  <1>5. PairCommands'
    BY DEF PairCommands
  <1>6. Counted'
    <2>1. subscribed = {}
      BY DEF LInv, Unsubscribed, BeforeSubscribe, Between
    <2> QED
      BY <2>1 DEF Counted, AllStages, SessionFlags
  <1>7. Verdict'
    <2>1. winning = NoWinner /\ exitCode' # 0
      BY DEF Verdict, WinnerHeardItself
    <2> QED
      BY <2>1 DEF Verdict, DiagnosePassIsReal, WinnerHeardItself
  <1> QED
    BY <1>1, <1>2, <1>3, <1>4, <1>5, <1>6, <1>7

\* A mode waits, or is over: only the verdict can change.
LEMMA SInvStop ==
    ASSUME TInv, LInv, SInv, Verdict', pc' \in {"cleanup", "exited", "waitDisc", "backoff"},
           UNCHANGED <<calm, subVars, stage, iter, result, inputHandle, flags, pairVars, linkVars>>,
           pc \in Between
    PROVE  SInv'
  <1> USE DEF calm, subVars, pairVars, linkVars, InitPos, SInv
  <1>1. StagesFlagged'
    BY DEF StagesFlagged, Connected
  <1>2. FreshStart' /\ HandleFits'
    BY DEF FreshStart, HandleFits
  <1>3. Commands' /\ PairCommands'
    BY DEF Commands, PairCommands
  <1>4. Counted'
    BY DEF Counted, AllStages, Between
  <1> QED
    BY <1>1, <1>2, <1>3, <1>4

\* A session that succeeded counted a report, of its own link unless a disconnect() has left one open,
\* behind all its stages.
LEMMA SuccessIsReal ==
    ASSUME TInv, SInv, Success, pc = "return"
    PROVE  /\ StageFlags \subseteq flags /\ reportCount > 0
           /\ profile \in heard \/ LeftOpen
  <1>1. result # "fail" /\ reportCount > 0
    BY DEF Success, SessionOk
  <1> QED
    BY <1>1 DEF SInv, Counted, AllStages, StageFlags

\* The modes keep it.
LEMMA SInvMode ==
    ASSUME TInv, LInv, SInv, ModeStep
    PROVE  SInv'
  <1>1. exitCode # NoCode => pc \in {"cleanup", "disconnecting", "exited"}
    BY DEF LInv, Unsubscribed
  <1>2. exitCode = NoCode => winning = NoWinner
    BY DEF SInv, Verdict, WinnerHeardItself
  <1>3. ASSUME exitCode = NoCode, exitCode' # 0, UNCHANGED winning, pc' \notin {"waitDisc", "backoff"}
        PROVE  Verdict'
    BY <1>2, <1>3 DEF Verdict, DiagnosePassIsReal, WinnerHeardItself
  <1>4. ASSUME exitCode = NoCode, "diagnose" \notin args.options, UNCHANGED <<args, winning>>
        PROVE  Verdict'
    BY <1>2, <1>4 DEF Verdict, DiagnosePassIsReal, WinnerHeardItself
  <1>5. Mode \in {"daemon", "once"} => "diagnose" \notin args.options
    BY DEF Mode
  <1> USE DEF Between
  <1>6. CASE PreflightFail
    BY <1>1, <1>3, <1>6, SInvStop DEF PreflightFail, modeVars
  <1>7. CASE PreflightOk
    BY <1>1, <1>7, ProfileChosen, SInvStart DEF PreflightOk, modeVars, TInv, TypeOK, SessionTypeOK
  <1>8. CASE PreflightShutdown
    <2>1. Verdict'
      BY <1>1, <1>3, <1>4, <1>5, <1>8 DEF PreflightShutdown, StopBeforeFirst, modeVars, calm
    <2> QED
      BY <1>8, <2>1, SInvStop DEF PreflightShutdown
  <1>9. CASE DaemonStop
    <2>1. Verdict'
      BY <1>1, <1>4, <1>5, <1>9 DEF DaemonStop, modeVars, calm
    <2> QED
      BY <1>9, <2>1, SInvStop DEF DaemonStop, Exit
  <1>10. CASE DaemonSessionOk
    <2>1. Verdict'
      BY <1>1, <1>4, <1>5, <1>10 DEF DaemonSessionOk, settled, calm
    <2> QED
      BY <1>10, <2>1, SInvStop DEF DaemonSessionOk, settled
  <1>11. CASE DaemonSessionFailed
    <2>1. Verdict'
      BY <1>1, <1>4, <1>5, <1>11 DEF DaemonSessionFailed, calm
    <2> QED
      BY <1>11, <2>1, SInvStop DEF DaemonSessionFailed, Exit
  <1>12. CASE DaemonNext
    <2>1. CASE StartSession("macos") /\ UNCHANGED <<args, exitVars>>
      BY <1>1, <1>12, <2>1, SInvStart DEF DaemonNext, exitVars, modeVars, ProfileNames
    <2>2. CASE Exit(0) /\ UNCHANGED <<calm, subVars, stage, iter, result, inputHandle, flags,
                                      pairVars, linkVars>>
      <3>1. Verdict'
        BY <1>1, <1>4, <1>12, <2>2 DEF DaemonNext, modeVars, calm, SInv, Verdict
      <3> QED
        BY <1>12, <2>2, <3>1, SInvStop DEF DaemonNext, Exit
    <2> QED
      BY <1>12, <2>1, <2>2 DEF DaemonNext
  <1>13. CASE AutoFinish
    <2>1. exitCode = NoCode /\ winning = NoWinner /\ pc = "return" /\ pc' = "cleanup"
      BY <1>1, <1>2, <1>13 DEF AutoFinish, Exit
    <2>2. ASSUME Success PROVE Verdict'
      <3>1. winning' = profile /\ exitCode' = 0
        BY <1>13, <2>2 DEF AutoFinish, Exit, TInv, TypeOK, SessionTypeOK, ProfileNames
      <3>2. attempted \in Seq(AttemptRecords) /\ attempted' = Append(attempted, TryProfileResult)
        BY <1>13 DEF AutoFinish, TInv, TypeOK, ModeTypeOK
      <3>3. attempted'[Len(attempted')] = TryProfileResult
        BY <3>2
      <3>4. attempted'[Len(attempted')].profile = profile
        BY <3>3 DEF TryProfileResult
      <3>5. UNCHANGED <<args, flags, reportCount, heard>>
        BY <1>13 DEF AutoFinish, calm
      <3>6. /\ StageFlags \subseteq flags /\ reportCount > 0
            /\ profile \in heard \/ LeftOpen
        BY <2>1, <2>2, SuccessIsReal
      <3>7. WinnerHeardItself'
        BY <3>1, <3>4, <3>5, <3>6, Zenon DEF WinnerHeardItself
      <3>8. DiagnosePassIsReal'
        BY <3>5, <3>6 DEF DiagnosePassIsReal
      <3> QED
        BY <2>1, <3>7, <3>8 DEF Verdict
    <2>3. ASSUME ~Success PROVE Verdict'
      <3>1. winning' = winning /\ exitCode' = 16
        BY <1>13, <2>1, <2>3 DEF AutoFinish, Exit
      <3> QED
        BY <1>3, <2>1, <3>1
    <2>4. Verdict'
      BY <2>2, <2>3
    <2> QED
      BY <1>13, <2>4, SInvStop DEF AutoFinish, Exit
  <1>14. CASE AutoNext
    <2>1. AutoProfileOrder[autoIdx + 1] \in ProfileNames
      BY <1>14 DEF AutoNext, TInv, TypeOK, ModeTypeOK, AutoProfileOrder, ProfileNames
    <2> QED
      BY <1>1, <1>14, <2>1, SInvStart DEF AutoNext, exitVars
  <1>15. CASE AutoShutdown
    <2>1. Verdict'
      BY <1>1, <1>3, <1>15 DEF AutoShutdown, Exit
    <2>2. subscribed = {}
      BY <1>15 DEF AutoShutdown, LInv, Unsubscribed, BeforeSubscribe
    <2> USE DEF AutoShutdown, Exit, ResetSession, ForgetLink, subVars, SInv, InitPos
    <2>3. StagesFlagged'
      BY <1>15 DEF StagesFlagged, Connected, SessionFlags
    <2>4. FreshStart' /\ HandleFits'
      BY <1>15 DEF FreshStart, HandleFits
    <2>5. Commands' /\ PairCommands'
      BY <1>15 DEF Commands, PairCommands
    <2>6. Counted'
      BY <1>15, <2>2 DEF Counted, AllStages, SessionFlags
    <2> QED
      BY <2>1, <2>3, <2>4, <2>5, <2>6
  <1>16. CASE DiagnoseReturn
    <2>1. Verdict'
      BY <1>1, <1>2, <1>16, SuccessIsReal
      DEF DiagnoseReturn, Exit, Verdict, DiagnosePassIsReal, WinnerHeardItself, modeVars, calm
    <2> QED
      BY <1>16, <2>1, SInvStop DEF DiagnoseReturn, Exit
  <1>17. CASE OnceReturn
    <2>1. Verdict'
      BY <1>1, <1>4, <1>5, <1>17 DEF OnceReturn, modeVars, calm
    <2> QED
      BY <1>17, <2>1, SInvStop DEF OnceReturn, Exit
  <1> QED
    BY <1>6, <1>7, <1>8, <1>9, <1>10, <1>11, <1>12, <1>13, <1>14, <1>15, <1>16, <1>17 DEF ModeStep

\* Every step keeps it.
LEMMA SInvNext == TInv /\ LInv /\ SInv /\ [Next]_vars => SInv'
  <1> SUFFICES ASSUME TInv, LInv, SInv, [Next]_vars PROVE SInv'
    OBVIOUS
  <1>1. CASE Next /\ ~Exited
    BY <1>1, SInvStage, SInvRun, SInvMode, SInvCallback DEF Next, TaskStep, SessionStep
  <1>2. CASE UNCHANGED vars
    <2> USE <1>2 DEF vars, sessionVars, modeVars, calm, subVars, exitVars, pairVars, linkVars,
                     SInv, LinkUp, InitPos
    <2>1. StagesFlagged' /\ FreshStart'
      BY DEF StagesFlagged, FreshStart, Clean, Connected
    <2>2. HandleFits' /\ Commands'
      BY DEF HandleFits, Commands
    <2>3. PairCommands'
      BY DEF PairCommands
    <2>4. Counted' /\ Verdict'
      BY DEF Counted, Verdict, DiagnosePassIsReal, WinnerHeardItself
    <2> QED
      BY <2>1, <2>2, <2>3, <2>4
  <1> QED
    BY <1>1, <1>2 DEF Exited

\* So it holds for ever.
LEMMA SInvAlways == Spec => [](TInv /\ LInv /\ SInv)
  <1>1. Init => TInv /\ LInv /\ SInv
    BY TInvInit, LInvInit, SInvInit
  <1>2. TInv /\ LInv /\ SInv /\ [Next]_vars => (TInv /\ LInv /\ SInv)'
    BY TInvNext, LInvNext, SInvNext
  <1> QED
    BY <1>1, <1>2, PTL DEF Spec

-----------------------------------------------------------------------------
(* One session's events, reports and answers *)

\* Only connect() opens a link, with the event clear; no stage counts a report.
LEMMA OInvStage ==
    ASSUME TInv, LInv, SInv, OInv, StageStep, ~LeftOpen'
    PROVE  (OwnEvent /\ OwnReports)'
  <1> USE DEF settled, calm, subVars, exitVars, pairVars, linkVars, LinkUp, InitPos, StageOk,
              StageFail, OInv, OwnEvent, OwnReports, Position, TInv
  <1>1. CASE ScanTimeout \/ ConnectExhausted \/ GetServicesExhausted \/ RespSubFail \/ PairWriteFail
             \/ InitWriteFail \/ SubscribeExhausted
    BY <1>1 DEF ScanTimeout, ConnectExhausted, GetServicesExhausted, RespSubFail, PairWriteFail,
       InitWriteFail, SubscribeExhausted
  <1>2. CASE ConnectRetry \/ GetServicesRetry \/ SubscribeRetry \/ DiscoverMiss
    BY <1>2 DEF ConnectRetry, GetServicesRetry, SubscribeRetry, DiscoverMiss
  <1>3. CASE ScanError \/ ScanCrash
    BY <1>3 DEF ScanError, ScanCrash, Exit
  <1>4. CASE StageShutdown
    BY <1>4, StageList DEF StageShutdown
  <1>5. CASE EnterSimpleStage
    BY <1>5, StageAt DEF EnterSimpleStage
  <1>6. CASE EnterSubscribeAll
    BY <1>6, StageAt DEF EnterSubscribeAll
  <1>7. CASE EnterPair
    BY <1>7, StageAt DEF EnterPair
  <1>8. CASE EnterInit
    BY <1>8, StageAt DEF EnterInit
  <1>9. CASE StagesDone
    BY <1>9, StageList DEF StagesDone
  <1>10. CASE ScanFound
    BY <1>10 DEF ScanFound
  <1>11. CASE ConnectOk
    BY <1>11 DEF ConnectOk, LInv, LinkHeld, ClientFree, NoClientPoints
  <1>12. CASE DiscoverCached \/ GetServicesOk
    BY <1>12 DEF DiscoverCached, GetServicesOk, MatchChars, InputFound, InputUuid
  <1>13. CASE RespSubOk
    BY <1>13 DEF RespSubOk
  <1>14. CASE PairWriteOk \/ PairNextStep \/ PairFinish
    BY <1>14 DEF PairWriteOk, PairNextStep, PairFinish, PairSteps
  <1>15. CASE InitWriteOk
    BY <1>15 DEF InitWriteOk
  <1>16. CASE SubscribeOk
    BY <1>16 DEF SubscribeOk
  <1>17. CASE SubAllEnd
    BY <1>17 DEF SubAllEnd
  <1>18. ASSUME NEW c \in NotifyChars, SubAllStep(c) PROVE (OwnEvent /\ OwnReports)'
    BY <1>18 DEF SubAllStep
  <1> QED
    BY <1>1, <1>2, <1>3, <1>4, <1>5, <1>6, <1>7, <1>8, <1>9, <1>10, <1>11,
       <1>12, <1>13, <1>14, <1>15, <1>16, <1>17, <1>18
    DEF StageStep

\* Neither does the running loop, and cleanup_client sets the event as it drops the client.
LEMMA OInvRun ==
    ASSUME TInv, LInv, SInv, OInv, RunStep, ~LeftOpen'
    PROVE  (OwnEvent /\ OwnReports)'
  <1> USE DEF settled, calm, subVars, exitVars, pairVars, linkVars, LinkUp, OInv, OwnEvent,
              OwnReports
  <1>1. CASE RunLoopHead \/ RunWake \/ RunTimeout
    BY <1>1 DEF RunLoopHead, RunWake, RunTimeout, EndRunning
  <1>2. CASE Cleanup
    BY <1>2 DEF Cleanup, AfterCleanup
  <1>3. CASE DisconnectOk
    BY <1>3 DEF DisconnectOk, AfterCleanup
  <1>4. CASE DisconnectRaise
    <2>1. link = "down"
      BY <1>4 DEF DisconnectRaise, TInv, TypeOK, SessionTypeOK
    <2> QED
      BY <1>4, <2>1 DEF DisconnectRaise, ForgetLink, AfterCleanup
  <1> QED
    BY <1>1, <1>2, <1>3, <1>4 DEF RunStep

\* A disconnect sets the event of the link that closed; reports and answers come over it.
LEMMA OInvCallback ==
    ASSUME TInv, LInv, SInv, OInv, Callback, ~LeftOpen'
    PROVE  (OwnEvent /\ OwnReports)'
  <1> USE DEF settled, calm, subVars, exitVars, pairVars, linkVars, LinkUp, OInv, OwnEvent,
              OwnReports, Awaiting, AwaitPoints
  <1>1. CASE Signal
    BY <1>1 DEF Signal
  <1>2. CASE LinkDrop
    BY <1>2 DEF LinkDrop, LInv, LinkHeld, ClientFree, NoClientPoints
  <1>3. CASE OrphanDrop
    BY <1>3 DEF OrphanDrop
  <1>4. CASE Report
    BY <1>4 DEF Report, HandleReport
  <1>5. CASE OrphanReport
    BY <1>5 DEF OrphanReport, HandleReport, LInv, Forgotten
  <1>6. CASE PairResponse
    BY <1>6 DEF PairResponse
  <1> QED
    BY <1>1, <1>2, <1>3, <1>4, <1>5, <1>6 DEF Callback

\* reset_session clears the rest: the next session never starts with the client still set,
\* and a client it forgets after a signal belongs to a session that has no next one.
LEMMA OInvMode ==
    ASSUME TInv, LInv, SInv, OInv, ModeStep, ~LeftOpen'
    PROVE  (OwnEvent /\ OwnReports)'
  <1> USE DEF settled, calm, subVars, exitVars, pairVars, linkVars, LinkUp, OInv, OwnEvent,
              OwnReports
  <1>1. ASSUME NEW p, StartSession(p), UNCHANGED exitCode,
               pc = "preflight" \/ (pc \in Between /\ ~Shutdown)
        PROVE  (OwnEvent /\ OwnReports)'
    <2>1. ~LeftOpen
      BY <1>1 DEF StartSession, ResetSession, SessionFlags
    <2>2. link = "down" /\ orphan # "up"
      BY <1>1, <2>1 DEF LInv, LinkHeld, ClientFree, NoClientPoints, Between
    <2> QED
      BY <1>1, <2>1, <2>2 DEF StartSession, ResetSession, ForgetLink, SessionFlags
  <1>2. ASSUME UNCHANGED <<profile, heard, orphan, flags, pairResponses, asked, link>>,
               pc \in Between, pc' \notin {"scan", "connect", "stage"}
        PROVE  (OwnEvent /\ OwnReports)'
    BY <1>2 DEF Between
  <1> USE DEF Between, Exit
  <1>3. CASE PreflightFail \/ PreflightShutdown
    BY <1>2, <1>3 DEF PreflightFail, PreflightShutdown
  <1>4. CASE PreflightOk
    BY <1>1, <1>4 DEF PreflightOk
  <1>5. CASE DaemonStop \/ DaemonSessionOk \/ DaemonSessionFailed
    BY <1>2, <1>5 DEF DaemonStop, DaemonSessionOk, DaemonSessionFailed
  <1>6. CASE DaemonNext
    BY <1>1, <1>2, <1>6 DEF DaemonNext
  <1>7. CASE AutoFinish \/ DiagnoseReturn \/ OnceReturn
    BY <1>2, <1>7 DEF AutoFinish, DiagnoseReturn, OnceReturn
  <1>8. CASE AutoNext
    BY <1>1, <1>8 DEF AutoNext
  <1>9. CASE AutoShutdown
    BY <1>9, SessionAssumption DEF AutoShutdown, ResetSession, ForgetLink, SessionFlags, NoCode
  <1> QED
    BY <1>3, <1>4, <1>5, <1>6, <1>7, <1>8, <1>9 DEF ModeStep

\* Every step keeps it.
LEMMA OInvNext == TInv /\ LInv /\ SInv /\ OInv /\ [Next]_vars => OInv'
  <1> SUFFICES ASSUME TInv, LInv, SInv, OInv, [Next]_vars, ~LeftOpen'
               PROVE  (OwnEvent /\ OwnReports)'
    BY DEF OInv
  <1>1. CASE Next /\ ~Exited
    BY <1>1, OInvStage, OInvRun, OInvMode, OInvCallback DEF Next, TaskStep, SessionStep
  <1>2. CASE UNCHANGED vars
    BY <1>2 DEF vars, sessionVars, modeVars, calm, subVars, exitVars, pairVars, linkVars, LinkUp,
                OInv, OwnEvent, OwnReports
  <1> QED
    BY <1>1, <1>2 DEF Exited

-----------------------------------------------------------------------------
(* Theorems *)

\* The running loop has a whole session behind it, on this very link: every flag, every init
\* and pair command, and the subscription of a characteristic of its table.
THEOREM StreamReady == Spec => []StreamIsReady
  <1>1. TInv /\ SInv => StreamIsReady
    <2> SUFFICES ASSUME TInv, SInv, pc \in {"runLoop", "running"} PROVE StreamIsReady
      BY DEF StreamIsReady
    <2>1. stage = InitPos + 2 /\ stage > InitPos + 1 /\ stage > 3
      BY DEF TInv, Position, InitPos
    <2>2. {"client", "scan_ok", "connect_ok", "discover_ok", "subscribe_ok"} \subseteq flags
      BY <2>1 DEF SInv, StagesFlagged, Connected
    <2>3. inputHandle \in gatt /\ (LinkUp => inputHandle \in subscribed)
      BY DEF SInv, HandleFits
    <2>4. written = InitLen(profile)
      BY DEF SInv, Commands
    <2>5. IsPair(profile) => asked = 1 .. 4 /\ "pair_sequence_ok" \in flags
      BY DEF SInv, PairCommands
    <2> QED
      BY <2>2, <2>3, <2>4, <2>5 DEF StreamIsReady
  <1> QED
    BY <1>1, SInvAlways, PTL

\* Exit code 0 of --diagnose: every stage passed and a report was counted, also when
\* disconnect() raises and a forgotten link keeps reporting.
THEOREM DiagnosePassReal == Spec => []DiagnosePassIsReal
  <1>1. SInv => DiagnosePassIsReal
    BY DEF SInv, Verdict
  <1> QED
    BY <1>1, SInvAlways, PTL

\* The detected profile is the last one tried and, unless a disconnect() left a link open, one whose
\* own connection was heard.
THEOREM WinnerHeard == Spec => []WinnerHeardItself
  <1>1. SInv => WinnerHeardItself
    BY DEF SInv, Verdict
  <1> QED
    BY <1>1, SInvAlways, PTL

\* What a session reads about its connection is its own, unless a disconnect() has left a link open.
THEOREM OwnSession == Spec => []SessionIsItsOwn
  <1>1. Init => OInv
    BY DEF Init, OInv, OwnEvent, OwnReports, LinkUp
  <1>2. TInv /\ LInv /\ SInv /\ OInv /\ [Next]_vars => OInv'
    BY OInvNext
  <1>3. SInv /\ OInv => SessionIsItsOwn
    BY DEF SInv, Counted, OInv, OwnEvent, OwnReports, SessionIsItsOwn
  <1> QED
    BY <1>1, <1>2, <1>3, SInvAlways, PTL DEF Spec
=============================================================================
