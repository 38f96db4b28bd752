---------------------------- MODULE BtstackProofs ----------------------------
(***************************************************************************)
(* Safety of sw2d_btstack.c, whatever a controller offers and whatever the *)
(* status of a completed query; and the types of the two BTstack programs, *)
(* whichever runs.                                                         *)
(***************************************************************************)
EXTENDS MCBtstack, BtstackBridgeProofs

\* The state says whether the program scans, dials or has a link.
HostStage ==
    /\ up <=> state # "W4_WORKING"
    /\ scan <=> state = "W4_SCAN_RESULT"
    /\ dialing <=> state = "W4_CONNECT"
    /\ link <=> state \notin {"W4_WORKING", "W4_SCAN_RESULT", "W4_CONNECT"}

\* ... and which query it waits for.
HostQuery ==
    /\ state = "W4_SERVICE_RESULT" => query = "services"
    /\ state = "W4_CHARACTERISTIC_RESULT" => query = "findInput"
    /\ state = "W4_ENABLE_NOTIFICATIONS_COMPLETE" =>
           query = IF report.notifies THEN "ccc" ELSE "none"
    /\ state \in {"W4_WORKING", "W4_SCAN_RESULT", "W4_CONNECT", "READY"} => query = "none"

\* A characteristic that can notify is one that was found.
NotifiesIsFound == report.notifies => report.of # "none"

HInv == HostTypeOK /\ HostStage /\ HostQuery /\ NotifiesIsFound /\ HostReadyHasReport

\* The host starts in the invariant.
LEMMA HInvInit == HostInit => HInv
  BY Truth
  DEF HostInit, StackInit, HInv, HostTypeOK, StackTypeOK, HostStates, Slots, ReportSlots, Queries, HostStage,
      HostQuery, NotifiesIsFound, HostReadyHasReport

\* A write at the controller changes only its own state.
LEMMA HostTaking ==
    ASSUME HInv, PeerTakes \/ UNCHANGED peerVars
    PROVE  got' \in 0 .. 5 /\ subscribed' \in BOOLEAN
  <1>1. CASE PeerTakes
    <2>1. query \notin {"pair0", "pair1", "pair2", "pair3"}
      BY DEF HInv, HostQuery, HostTypeOK, HostStates
    <2>2. got' = got
      BY <1>1, <2>1 DEF PeerTakes
    <2>3. subscribed' \in BOOLEAN
      BY <1>1, Zenon DEF PeerTakes
    <2> QED
      BY <2>2, <2>3 DEF HInv, HostTypeOK, StackTypeOK
  <1>2. CASE UNCHANGED peerVars
    BY <1>2 DEF peerVars, HInv, HostTypeOK, StackTypeOK
  <1> QED
    BY <1>1, <1>2

\* Every step keeps HInv.
LEMMA HInvNext == HInv /\ [HostNext]_hostAll => HInv'
  <1> SUFFICES ASSUME HInv, [HostNext]_hostAll PROVE HInv'
    OBVIOUS
  <1> USE Truth DEF HInv, HostTypeOK, StackTypeOK, HostStates, Slots, ReportSlots, Queries, HostStage, HostQuery,
              NotifiesIsFound, HostReadyHasReport, start_scan, linkVars, gattVars, peerVars
  <1>1. CASE HostWorking
    BY <1>1 DEF HostWorking
  <1>2. CASE HostAdvert
    BY <1>2 DEF HostAdvert, EvAdvert
  <1>3. CASE HostConnectFailed
    BY <1>3 DEF HostConnectFailed, EvConnectFailed
  <1>4. CASE HostConnected
    BY <1>4 DEF HostConnected, EvConnected, AskNext, Aged
  <1>5. CASE HostDisconnected
    BY <1>5 DEF HostDisconnected, EvLost
  <1>6. CASE HostServiceResult \/ HostReportResult
    BY <1>6 DEF HostServiceResult, HostReportResult, EvResult
  <1>7. CASE HostServicesDone
    BY <1>7, HostTaking DEF HostServicesDone, HostComplete, AskNext
  <1>8. CASE HostCharsDone
    BY <1>8, HostTaking DEF HostCharsDone, HostComplete, AskNext
  <1>9. CASE HostEnabled
    BY <1>9, HostTaking DEF HostEnabled, HostComplete, AskNext
  <1>10. CASE UNCHANGED hostAll
    BY <1>10 DEF hostAll, hostVars, stackVars
  <1> QED
    BY <1>1, <1>2, <1>3, <1>4, <1>5, <1>6, <1>7, <1>8, <1>9, <1>10 DEF HostNext

\* The invariant holds for ever.
LEMMA HInvAlways == HostSpec => []HInv
  BY HInvInit, HInvNext, PTL DEF HostSpec

\* READY is reached only with a report characteristic, of this connection or of an earlier
\* one: no error and no empty answer, which the program never tests for, leads there.
THEOREM HostReady == HostSpec => []HostReadyHasReport
  <1>1. HInv => HostReadyHasReport
    BY DEF HInv
  <1> QED
    BY <1>1, HInvAlways, PTL

\* While the program discovers, a query is in progress; without one it waits only for a
\* subscription that was refused at once, for want of a characteristic.
THEOREM HostDriven == HostSpec => []HostWaitsForAnswer
  <1>1. HInv => HostWaitsForAnswer
    BY DEF HInv, HostQuery, HostWaitsForAnswer
  <1> QED
    BY <1>1, HInvAlways, PTL

\* Once the stack runs, the program scans whenever it neither dials nor has a link.
THEOREM HostNeverIdle == HostSpec => []NeverIdle
  <1>1. HInv => NeverIdle
    BY DEF HInv, HostTypeOK, StackTypeOK, HostStates, HostStage, NeverIdle
  <1> QED
    BY <1>1, HInvAlways, PTL

-----------------------------------------------------------------------------
(* The two programs, one of which runs *)

\* The one that runs keeps its invariant; the other's variables keep their types.
OneRuns ==
    \/ prog = "bridge" /\ BInv /\ state \in HostStates /\ service \in Slots /\ report \in ReportSlots
    \/ prog = "host" /\ HInv
       /\ direct \in BOOLEAN /\ app \in AppStates /\ inputChar \in Chars /\ cmdChar \in Chars
       /\ pairStep \in 0 .. 4

\* Either program can be the one.
LEMMA OneRunsInit == Init => OneRuns
  <1> SUFFICES ASSUME Init PROVE OneRuns
    OBVIOUS
  <1>1. BInv /\ HInv
    BY BInvInit, HInvInit DEF Init
  <1> QED
    BY <1>1 DEF Init, OneRuns, BInv, BridgeTypeOK, HInv, HostTypeOK

\* A step is one of the program that runs.
LEMMA OneRunsNext == OneRuns /\ [Next]_all => OneRuns'
  <1> SUFFICES ASSUME OneRuns, [Next]_all PROVE OneRuns'
    OBVIOUS
  <1>1. CASE prog = "bridge" /\ [BridgeNext]_bridgeVars /\ UNCHANGED <<prog, hostVars>>
    <2>1. BInv
      BY <1>1 DEF OneRuns
    <2>2. BInv'
      BY <1>1, <2>1, BInvNext
    <2> QED
      BY <1>1, <2>2 DEF OneRuns, hostVars
  <1>2. CASE prog = "host" /\ [HostNext]_hostAll /\ UNCHANGED <<prog, appVars>>
    <2>1. HInv
      BY <1>2 DEF OneRuns
    <2>2. HInv'
      BY <1>2, <2>1, HInvNext
    <2> QED
      BY <1>2, <2>2 DEF OneRuns, appVars
  <1>3. prog = "bridge" \/ prog = "host"
    BY DEF OneRuns
  <1> QED
    BY <1>1, <1>2, <1>3 DEF Next, all, bridgeVars, hostAll

\* Whichever program runs, its state, its characteristics and pair_step keep their types, and
\* so does the stack: got, too, which PeerTakes moves whatever query is in progress.
THEOREM BtstackTypeCorrect == Spec => []TypeOK
  <1>1. OneRuns => TypeOK
    BY DEF OneRuns, TypeOK, BInv, HInv, BridgeTypeOK, HostTypeOK
  <1> QED
    BY <1>1, OneRunsInit, OneRunsNext, PTL DEF Spec

=============================================================================
