-------------------------- MODULE Switch2LinkProofs --------------------------
EXTENDS Switch2DaemonProofs

USE DEF LeftOpen

\* Points at which the daemon holds no client.
NoClientPoints == {"preflight", "scan", "connect", "waitDisc", "backoff", "exited"}

\* Points of a session at which nothing that reaches handle_report is subscribed yet.
BeforeSubscribe == {"preflight", "scan", "connect", "discover", "getServices", "respSub",
                    "pairWrite", "pairWait", "init", "subscribe", "return", "waitDisc",
                    "backoff", "exited"}

\* An open link has a client, and only an open link has subscriptions.
LinkHeld ==
    /\ "client" \notin flags => link = "down"
    /\ link = "down" => subscribed = {}

\* When there is no client.  Only the stage loop's shutdown exit returns with one.
ClientFree ==
    /\ pc \in NoClientPoints \/ (pc = "stage" /\ stage <= 2) => "client" \notin flags
    /\ pc = "return" /\ "client" \in flags => result = "shutdown" /\ Shutdown

\* When nothing is subscribed.
Unsubscribed ==
    /\ pc \in BeforeSubscribe \/ (pc = "stage" /\ stage <= InitPos + 1) => subscribed = {}
    /\ exitCode # NoCode => subscribed = {} /\ pc \in {"cleanup", "disconnecting", "exited"}

\* What a forgotten link can be.
Forgotten ==
    /\ NoForgottenLink
    /\ ~LeftOpen => orphanSubs = {}

LInv == LinkHeld /\ ClientFree /\ Unsubscribed /\ Forgotten

\* The daemon starts in the invariant.
LEMMA LInvInit == Init => LInv
  BY DEF Init, LInv, LinkHeld, ClientFree, Unsubscribed, Forgotten, NoForgottenLink,
         NoClientPoints, BeforeSubscribe, InitPos

\* Entering a stage, the session has subscribed nothing, and before discover it has no client.
LEMMA StageEntered ==
    ASSUME TInv, NEW name, EnterStage(name)
    PROVE  /\ pc = "stage" /\ stage <= InitPos + 1
           /\ name \in {"scan", "connect"} => stage <= 2
  <1>1. Len(Stages(profile)) = InitPos + 1
    BY StageList DEF TInv, TypeOK, SessionTypeOK, InitPos
  <1>2. pc = "stage" /\ stage \in 1..(InitPos + 1) /\ Stages(profile)[stage] = name
    BY <1>1 DEF EnterStage, TInv, Position
  <1>3. stage \notin 1..2 => name \notin {"scan", "connect"}
    <2>1. CASE IsPair(profile)
      BY <1>2, <2>1, StageList DEF InitPos, TInv, TypeOK, SessionTypeOK
    <2>2. CASE ~IsPair(profile)
      BY <1>2, <2>2, StageList DEF InitPos, TInv, TypeOK, SessionTypeOK
    <2> QED
      BY <2>1, <2>2
  <1> QED
    BY <1>2, <1>3 DEF TInv, TypeOK, SessionTypeOK

\* The stages open the link, subscribe last, and leave the rest to cleanup_client.
LEMMA LInvStage ==
    ASSUME TInv, LInv, StageStep
    PROVE  LInv'
  <1> USE DEF settled, calm, subVars, exitVars, pairVars, linkVars, Shutdown, LinkUp, Mode,
              ArgProfile, NoForgottenLink, LInv, LinkHeld, ClientFree, Unsubscribed, Forgotten,
              NoClientPoints, BeforeSubscribe, InitPos, Position, StageOk,
              StageFail, TInv
  <1>1. CASE StageShutdown
    <2>1. Len(Stages(profile)) = InitPos + 1
      BY StageList DEF TypeOK, SessionTypeOK
    <2>2. stage <= InitPos + 1
      BY <1>1, <2>1 DEF StageShutdown
    <2> QED
      BY <1>1, <2>2 DEF StageShutdown
  <1>2. CASE EnterSimpleStage
    <2>1. PICK name \in {"scan", "connect", "discover", "subscribe"} :
             EnterStage(name) /\ pc' = name
      BY <1>2 DEF EnterSimpleStage
    <2>2. pc = "stage" /\ stage <= InitPos + 1 /\ (name \in {"scan", "connect"} => stage <= 2)
      BY <2>1, StageEntered
    <2> QED
      BY <1>2, <2>1, <2>2 DEF EnterSimpleStage
  <1>3. CASE EnterSubscribeAll
    BY <1>3, StageEntered DEF EnterSubscribeAll
  <1>4. CASE EnterPair
    BY <1>4, StageEntered DEF EnterPair
  <1>5. CASE EnterInit
    BY <1>5, StageEntered DEF EnterInit
  <1>6. CASE StagesDone
    BY <1>6, StageList DEF TypeOK, SessionTypeOK, StagesDone
  <1>7. CASE ScanFound
    BY <1>7 DEF ScanFound
  <1>8. CASE ScanTimeout
    BY <1>8 DEF ScanTimeout
  <1>9. CASE ScanError
    BY <1>9 DEF Exit, ScanError
  <1>10. CASE ScanCrash
    BY <1>10 DEF Exit, ScanCrash
  <1>11. CASE ConnectOk
    BY <1>11 DEF ConnectOk
  <1>12. CASE ConnectRetry
    BY <1>12 DEF ConnectRetry
  <1>13. CASE ConnectExhausted
    BY <1>13 DEF ConnectExhausted
  <1>14. CASE DiscoverMiss
    BY <1>14 DEF DiscoverMiss
  <1>15. CASE GetServicesRetry
    BY <1>15 DEF GetServicesRetry
  <1>16. CASE GetServicesExhausted
    BY <1>16 DEF GetServicesExhausted
  <1>17. CASE RespSubOk
    BY <1>17 DEF RespSubOk
  <1>18. CASE RespSubFail
    BY <1>18 DEF RespSubFail
  <1>19. CASE PairWriteOk
    BY <1>19 DEF PairWriteOk
  <1>20. CASE PairWriteFail
    BY <1>20 DEF PairWriteFail
  <1>21. CASE PairNextStep
    BY <1>21 DEF PairNextStep
  <1>22. CASE PairFinish
    BY <1>22 DEF PairFinish
  <1>23. CASE InitWriteOk
    BY <1>23 DEF InitWriteOk
  <1>24. CASE InitWriteFail
    BY <1>24 DEF InitWriteFail
  <1>25. CASE SubscribeOk
    BY <1>25 DEF SubscribeOk
  <1>26. CASE SubscribeRetry
    BY <1>26 DEF SubscribeRetry
  <1>27. CASE SubscribeExhausted
    BY <1>27 DEF SubscribeExhausted
  <1>28. CASE SubAllEnd
    BY <1>28 DEF SubAllEnd
  <1>29. CASE DiscoverCached
    BY <1>29 DEF DiscoverCached, MatchChars
  <1>30. CASE GetServicesOk
    BY <1>30 DEF GetServicesOk, MatchChars
  <1>31. ASSUME NEW c \in NotifyChars, SubAllStep(c) PROVE LInv'
    BY <1>31 DEF SubAllStep
  <1> QED
    BY <1>1, <1>2, <1>3, <1>4, <1>5, <1>6, <1>7, <1>8, <1>9, <1>10, <1>11, <1>12,
       <1>13, <1>14, <1>15, <1>16, <1>17, <1>18, <1>19, <1>20, <1>21, <1>22, <1>23, <1>24,
       <1>25, <1>26, <1>27, <1>28, <1>29, <1>30, <1>31
    DEF StageStep

\* The running loop and cleanup_client: the link is closed, or disconnect() raised.
LEMMA LInvRun ==
    ASSUME TInv, LInv, RunStep
    PROVE  LInv'
  <1> USE DEF settled, calm, subVars, exitVars, pairVars, linkVars, Shutdown, LinkUp, Mode,
              ArgProfile, NoForgottenLink, LInv, LinkHeld, ClientFree, Unsubscribed, Forgotten,
              NoClientPoints, BeforeSubscribe, InitPos, Position,
              EndRunning, AfterCleanup, TInv
  <1>1. CASE RunLoopHead
    BY <1>1 DEF RunLoopHead
  <1>2. CASE RunWake
    BY <1>2 DEF RunWake
  <1>3. CASE RunTimeout
    BY <1>3 DEF RunTimeout
  <1>4. CASE Cleanup
    BY <1>4 DEF Cleanup, TypeOK, SessionTypeOK
  <1>5. CASE DisconnectOk
    BY <1>5 DEF DisconnectOk
  <1>6. CASE DisconnectRaise
    <2>1. CASE LinkUp
      BY <1>6, <2>1 DEF DisconnectRaise, ForgetLink
    <2>2. CASE ~LinkUp
      <3>1. link = "down" /\ subscribed = {} /\ flags' = flags \ {"client"}
        BY <1>6, <2>2 DEF DisconnectRaise, TypeOK, SessionTypeOK
      <3>2. UNCHANGED <<orphan, orphanSubs, args, exitCode>> /\ link' = "down" /\ subscribed' = {}
        BY <1>6, <2>2, <3>1 DEF DisconnectRaise, ForgetLink
      <3> QED
        BY <1>6, <3>1, <3>2 DEF DisconnectRaise
    <2> QED
      BY <2>1, <2>2
  <1> QED
    BY <1>1, <1>2, <1>3, <1>4, <1>5, <1>6 DEF RunStep

\* Callbacks: a drop clears the subscriptions, nothing else touches the link.
LEMMA LInvCallback ==
    ASSUME TInv, LInv, Callback
    PROVE  LInv'
  <1> USE DEF settled, calm, subVars, exitVars, pairVars, linkVars, Shutdown, LinkUp, Mode,
              ArgProfile, NoForgottenLink, LInv, LinkHeld, ClientFree, Unsubscribed, Forgotten,
              NoClientPoints, BeforeSubscribe, InitPos, Position, TInv
  <1>1. CASE Signal
    BY <1>1 DEF Signal
  <1>2. CASE LinkDrop
    BY <1>2 DEF LinkDrop
  <1>3. CASE OrphanDrop
    BY <1>3 DEF OrphanDrop
  <1>4. CASE Report
    BY <1>4 DEF HandleReport, Report
  <1>5. CASE OrphanReport
    BY <1>5 DEF HandleReport, OrphanReport
  <1>6. CASE PairResponse
    BY <1>6 DEF PairResponse
  <1> QED
    BY <1>1, <1>2, <1>3, <1>4, <1>5, <1>6 DEF Callback

\* A session starts where no client is held, or where shutdown lets a mode forget it.
LEMMA LInvMode ==
    ASSUME TInv, LInv, ModeStep
    PROVE  LInv'
  <1> USE DEF settled, calm, subVars, exitVars, pairVars, linkVars, Shutdown, LinkUp, Mode,
              ArgProfile, NoForgottenLink, LInv, LinkHeld, ClientFree, Unsubscribed, Forgotten,
              NoClientPoints, BeforeSubscribe, InitPos, Position, TInv
  <1>1. CASE PreflightFail
    BY <1>1 DEF PreflightFail
  <1>2. CASE PreflightOk
    BY <1>2 DEF StartSession, ResetSession, ForgetLink, StopBeforeFirst, SessionFlags, PreflightOk
  <1>3. CASE PreflightShutdown
    BY <1>3 DEF PreflightShutdown
  <1>4. CASE DaemonStop
    BY <1>4 DEF Exit, DaemonStop
  <1>5. CASE DaemonSessionOk
    BY <1>5 DEF DaemonSessionOk
  <1>6. CASE DaemonSessionFailed
    BY <1>6 DEF Exit, DaemonSessionFailed
  <1>7. CASE DaemonNext
    BY <1>7 DEF Exit, StartSession, ResetSession, ForgetLink, SessionFlags, DaemonNext
  <1>8. CASE AutoFinish
    BY <1>8 DEF Exit, AutoFinish
  <1>9. CASE AutoNext
    BY <1>9 DEF StartSession, ResetSession, ForgetLink, SessionFlags, AutoNext
  <1>10. CASE AutoShutdown
    BY <1>10 DEF Exit, ResetSession, ForgetLink, SessionFlags, AutoShutdown
  <1>11. CASE DiagnoseReturn
    BY <1>11 DEF Exit, DiagnoseReturn
  <1>12. CASE OnceReturn
    BY <1>12 DEF Exit, OnceReturn
  <1> QED
    BY <1>1, <1>2, <1>3, <1>4, <1>5, <1>6, <1>7, <1>8, <1>9, <1>10, <1>11, <1>12 DEF ModeStep

\* Every step keeps it.
LEMMA LInvNext == TInv /\ LInv /\ [Next]_vars => LInv'
  <1> SUFFICES ASSUME TInv, LInv, [Next]_vars PROVE LInv'
    OBVIOUS
  <1>1. CASE StageStep \/ RunStep \/ ModeStep \/ Callback
    BY <1>1, LInvStage, LInvRun, LInvMode, LInvCallback
  <1>2. CASE UNCHANGED vars
    BY <1>2
    DEF vars, sessionVars, calm, exitVars, linkVars, Shutdown, Mode, ArgProfile, NoForgottenLink,
        LInv, LinkHeld, ClientFree, Unsubscribed, Forgotten, InitPos
  <1> QED
    BY <1>1, <1>2 DEF Next, TaskStep, SessionStep, Exited

\* So it holds for ever.
LEMMA LInvAlways == Spec => [](TInv /\ LInv)
  <1>1. Init => TInv /\ LInv
    BY TInvInit, LInvInit
  <1>2. (TInv /\ LInv) /\ [Next]_vars => (TInv /\ LInv)'
    BY TInvNext, LInvNext
  <1> QED
    BY <1>1, <1>2, PTL DEF Spec

\* Whatever way async_main ends (a signal, an exhausted profile list, an exception), the
\* finally block leaves neither a client nor an open link of the current session.
THEOREM LinkReleased == Spec => []ReleasedAtExit
  <1>1. TInv /\ LInv => ReleasedAtExit
    BY DEF LInv, LinkHeld, ClientFree, NoClientPoints, ReleasedAtExit
  <1> QED
    BY <1>1, LInvAlways, PTL

\* A link is forgotten while it is up only if disconnect() raised, or a signal interrupted
\* automatic detection between the stages of a session.
THEOREM LinkKept == Spec => []NoForgottenLink
  <1>1. TInv /\ LInv => NoForgottenLink
    BY DEF LInv, Forgotten
  <1> QED
    BY <1>1, LInvAlways, PTL

\* Once the finally block has closed the uinput device no notification is delivered to
\* handle_report, unless a disconnect() has left a link open.
THEOREM DeviceQuiet == Spec => []ClosedDeviceQuiet
  <1>1. TInv /\ LInv => ClosedDeviceQuiet
    BY DEF LInv, Unsubscribed, Forgotten, ClosedDeviceQuiet, Notifying
  <1> QED
    BY <1>1, LInvAlways, PTL
=============================================================================
