------------------------- MODULE BtstackBridgeProofs -------------------------
(***************************************************************************)
(* Safety of switch2_btstack_bridge.c in both variants, for whatever a     *)
(* controller offers and whether or not it asks for pairing again: type    *)
(* correctness, the properties of BtstackBridge, and its refinement of     *)
(* GamepadHost.                                                            *)
(***************************************************************************)
EXTENDS BtstackBridge, TLAPS

Waits == {"CHAR_DISCOVERING", "PAIRING", "NOTIFYING"}

\* What the bridge is doing, the search, the dial or the link, is what app_state says.
Stage ==
    /\ scan <=> up /\ app = "SCANNING"
    /\ dialing <=> app = "CONNECTING"
    /\ link <=> app \notin {"SCANNING", "CONNECTING"}
    /\ ~up => app = "SCANNING"

\* Without a link there is no pairing and no query, and the next connection starts from 0.
NoLink == ~link => smp = "off" /\ query = "none" /\ got = 0

\* A discovery, a pair command or a subscription is under way only if it was asked for.
\* In CHAR_DISCOVERING and WAIT_ENCRYPTION it may be one of the sequence that was interrupted.
Driven ==
    /\ query # "services"
    /\ app = "CONNECTED" => query = "none"
    /\ app = "PAIRING" => pairStep < 4 /\ query \in {"none", PairQuery[pairStep + 1]}
    /\ app = "NOTIFYING" => query \in {"none", "ccc"}
    /\ app = "READY" => query = "none"

\* A pair command that is on its way is the one the controller is to take next.
InOrder ==
    /\ query = "pair1" => got = 1
    /\ query = "pair2" => got = 2
    /\ query = "pair3" => got = 3
    /\ got # 5

\* The last two states come after the fourth command.
Taken ==
    /\ app = "NOTIFYING" => got = 4
    /\ app = "READY" => got = 4 /\ subscribed

\* Both characteristics are found before the commands are written; a missing query is a
\* failed one, or the refused subscription of the wrong characteristic.
Progress ==
    /\ app \in {"PAIRING", "NOTIFYING"} => inputChar # "none"
    /\ app \in Waits /\ query = "none" /\ ~closing => app = "NOTIFYING" /\ inputChar = "cmd"

BInv == BridgeTypeOK /\ Stage /\ NoLink /\ Driven /\ InOrder /\ Taken /\ Progress

\* The SMT translation does not find this by itself.
LEMMA Truth == \A x : x = TRUE \/ x = FALSE => x \in BOOLEAN
  BY Zenon

\* The bridge starts in the invariant.
LEMMA BInvInit == BridgeInit => BInv
  BY BtstackAssumption, Truth
  DEF BtstackAssumption, BridgeInit, StackInit, BInv, BridgeTypeOK, StackTypeOK, AppStates, Chars,
      Queries, Stage, NoLink, Driven, InOrder, Taken, Progress, Waits

\* The pair commands, spelled out for the provers.
LEMMA PairCommands ==
    /\ PairQuery[1] = "pair0" /\ PairQuery[2] = "pair1"
    /\ PairQuery[3] = "pair2" /\ PairQuery[4] = "pair3"
  BY DEF PairQuery

\* Steps of packet_handler and of the security manager.
LEMMA BInvPacket ==
    ASSUME BInv,
           \/ Working \/ AdvertisingReport \/ LeConnectionFailed \/ LeConnectionComplete
           \/ LeConnectionDirect \/ EncryptionChange \/ DisconnectionComplete
           \/ JustWorksRequest \/ PairingComplete
           \/ PeerSecurityRequest /\ UNCHANGED appVars
    PROVE  BInv'
  <1> USE Truth DEF BInv, BridgeTypeOK, StackTypeOK, AppStates, Chars, Queries, Stage, NoLink, Driven,
              InOrder, Taken, Progress, Waits, appVars, charVars, linkVars, gattVars, peerVars
  <1>1. CASE Working
    BY <1>1 DEF Working
  <1>2. CASE AdvertisingReport
    BY <1>2 DEF AdvertisingReport, EvAdvert
  <1>3. CASE LeConnectionFailed
    BY <1>3 DEF LeConnectionFailed, EvConnectFailed
  <1>4. CASE LeConnectionComplete
    BY <1>4 DEF LeConnectionComplete, EvConnected
  <1>5. CASE LeConnectionDirect
    BY <1>5 DEF LeConnectionDirect, EvConnected, StartGatt, AskNext
  <1>6. CASE EncryptionChange
    BY <1>6 DEF EncryptionChange, EvEncryption, StartGatt, Ask
  <1>7. CASE DisconnectionComplete
    BY <1>7 DEF DisconnectionComplete, EvLost
  <1>8. CASE JustWorksRequest
    BY <1>8 DEF JustWorksRequest, EvJustWorks
  <1>9. CASE PairingComplete
    BY <1>9 DEF PairingComplete, EvPairingComplete, StartGatt, Ask
  <1>10. CASE PeerSecurityRequest /\ UNCHANGED appVars
    BY <1>10 DEF PeerSecurityRequest
  <1> QED
    BY <1>1, <1>2, <1>3, <1>4, <1>5, <1>6, <1>7, <1>8, <1>9, <1>10

\* What a completion does at the controller.
LEMMA Taking ==
    ASSUME BInv, PeerTakes
    PROVE  /\ query = "pair0" => got' = 1
           /\ query = "pair1" => got' = 2
           /\ query = "pair2" => got' = 3
           /\ query = "pair3" => got' = 4
           /\ query \notin {"pair0", "pair1", "pair2", "pair3"} => got' = got
           /\ subscribed' \in BOOLEAN
           /\ query = "ccc" => subscribed'
           /\ subscribed => subscribed'
  <1> USE DEF PeerTakes, BInv, InOrder, BridgeTypeOK, StackTypeOK
  <1>1. /\ query = "pair0" => got' = 1
        /\ query \notin {"pair0", "pair1", "pair2", "pair3"} => got' = got
    OBVIOUS
  <1>2. query = "pair1" => got' = 2
    BY PairCommands
  <1>3. query = "pair2" => got' = 3
    BY PairCommands
  <1>4. query = "pair3" => got' = 4
    BY PairCommands
  <1>5. subscribed' \in BOOLEAN /\ (query = "ccc" => subscribed') /\ (subscribed => subscribed')
    BY Zenon
  <1> QED
    BY <1>1, <1>2, <1>3, <1>4, <1>5

\* Which characteristic a query is after.
LEMMA SoughtOf ==
    /\ query = "findInput" => Sought = "input"
    /\ query = "findCmd" => Sought = "cmd"
    /\ query # "services" /\ query # "findInput" /\ query # "findCmd" => Sought = "none"
  BY DEF Sought

\* The characteristic a discovery of the bridge is for.
LEMMA SoughtChar ==
    ASSUME BInv, Sought \in offers
    PROVE  /\ (query = "findInput" /\ Sought = "input") \/ (query = "findCmd" /\ Sought = "cmd")
           /\ app \in {"CHAR_DISCOVERING", "WAIT_ENCRYPTION"}
  <1>1. Sought # "none"
    BY BtstackAssumption DEF BtstackAssumption, BInv, BridgeTypeOK, StackTypeOK
  <1>2. (query = "findInput" /\ Sought = "input") \/ (query = "findCmd" /\ Sought = "cmd")
    <2>1. query # "services"
      BY DEF BInv, Driven
    <2> QED
      BY <1>1, <2>1, SoughtOf
  <1> QED
    BY <1>2, PairCommands DEF BInv, Driven, BridgeTypeOK, StackTypeOK, AppStates, Stage, NoLink

\* Steps of gatt_client_handler.
LEMMA BInvGatt ==
    ASSUME BInv, BridgeGatt
    PROVE  BInv'
  <1> USE Truth DEF BInv, BridgeTypeOK, StackTypeOK, AppStates, Chars, Queries, Stage, NoLink, Driven,
              InOrder, Taken, Progress, Waits, appVars, charVars, linkVars, gattVars, peerVars
  <1>1. CASE CharacteristicResult
    BY <1>1, SoughtChar DEF CharacteristicResult, EvResult
  <1>2. CASE QueryFailed
    BY <1>2 DEF QueryFailed, AskNext
  <1>3. CASE Discovered
    <2>1. PeerTakes /\ UNCHANGED <<direct, up, scan, dialing, link, offers, closing, smp>>
      BY <1>3 DEF Discovered, Completes
    <2>2. CASE inputChar = "none"
      BY <1>3, <2>1, <2>2, Taking DEF Discovered, AskNext
    <2>3. CASE inputChar # "none" /\ cmdChar = "none"
      BY <1>3, <2>1, <2>3, Taking DEF Discovered, AskNext
    <2>4. CASE inputChar # "none" /\ cmdChar # "none"
      BY <1>3, <2>1, <2>4, Taking, PairCommands DEF Discovered, AskNext, WritePairStep
    <2> QED
      BY <2>2, <2>3, <2>4
  <1>4. CASE PairStepDone
    <2>1. /\ PeerTakes /\ UNCHANGED <<direct, up, scan, dialing, link, offers, closing, smp>>
          /\ query # "none" /\ app = "PAIRING"
      BY <1>4 DEF PairStepDone, Completes, EvQueryDone
    <2>2. pairStep \in 0 .. 3 /\ query = PairQuery[pairStep + 1]
      BY <2>1
    <2>3. got' = pairStep + 1 /\ subscribed' \in BOOLEAN
      BY <2>1, <2>2, Taking, PairCommands
    <2>4. CASE pairStep + 1 < 4
      BY <1>4, <2>1, <2>2, <2>3, <2>4, PairCommands DEF PairStepDone, AskNext, WritePairStep
    <2>5. CASE pairStep = 3
      BY <1>4, <2>1, <2>2, <2>3, <2>5 DEF PairStepDone, AskNext
    <2> QED
      BY <2>2, <2>4, <2>5
  <1>5. CASE Subscribed
    BY <1>5, Taking DEF Subscribed, Completes, EvQueryDone, AskNext
  <1>6. CASE CompletionIgnored
    BY <1>6, Taking DEF CompletionIgnored, Completes, EvQueryDone, AskNext
  <1> QED
    BY <1>1, <1>2, <1>3, <1>4, <1>5, <1>6 DEF BridgeGatt

\* Every step of the bridge keeps it.
LEMMA BInvNext == BInv /\ [BridgeNext]_bridgeVars => BInv'
  <1> SUFFICES ASSUME BInv, [BridgeNext]_bridgeVars PROVE BInv'
    OBVIOUS
  <1>1. CASE UNCHANGED bridgeVars
    BY <1>1
    DEF bridgeVars, appVars, stackVars, BInv, BridgeTypeOK, StackTypeOK, Stage, NoLink, Driven,
        InOrder, Taken, Progress
  <1> QED
    BY <1>1, BInvPacket, BInvGatt DEF BridgeNext

\* So it holds for ever.
LEMMA BInvAlways == BridgeSpec => []BInv
  BY BInvInit, BInvNext, PTL DEF BridgeSpec

\* Type correctness: every variable of the bridge and of the stack keeps its type; in
\* particular pair_step never passes the four commands.
THEOREM BridgeTypeCorrect == BridgeSpec => []BridgeTypeOK
  <1>1. BInv => BridgeTypeOK
    BY DEF BInv
  <1> QED
    BY <1>1, BInvAlways, PTL

\* Once the stack runs, the bridge scans whenever it neither dials nor has a link: no failed
\* dial and no lost connection, at whatever point of the sequence, leaves it idle.
THEOREM BridgeNeverIdle == BridgeSpec => []NeverIdle
  <1>1. BInv => NeverIdle
    BY DEF BInv, Stage, NeverIdle, BridgeTypeOK, StackTypeOK
  <1> QED
    BY <1>1, BInvAlways, PTL

\* The sequence that only completions drive is never left without a query, also where a new
\* pairing restarted it and its first query was refused.
THEOREM BridgeNeverStalls == BridgeSpec => []NeverStalls
  <1>1. BInv => NeverStalls
    BY DEF BInv, Progress, Waits, NeverStalls, BridgeTypeOK, StackTypeOK
  <1> QED
    BY <1>1, BInvAlways, PTL

\* READY is reached only when this connection's controller has taken the four commands in
\* order and then the subscription.
THEOREM ReadyPaired == BridgeSpec => []ReadyIsPaired
  <1>1. BInv => ReadyIsPaired
    BY DEF BInv, Stage, Taken, ReadyIsPaired
  <1> QED
    BY <1>1, BInvAlways, PTL

\* The controller never meets a pair command out of order.
THEOREM PairOrdered == BridgeSpec => []PairInOrder
  <1>1. BInv => PairInOrder
    BY DEF BInv, InOrder, PairInOrder
  <1> QED
    BY <1>1, BInvAlways, PTL

-----------------------------------------------------------------------------
(* The bridge implements GamepadHost *)

\* The abstract phase, as the refinement mapping of BtstackBridge computes it.
Phase == CASE link /\ app = "READY" -> "ready"
           [] link /\ app # "READY" -> "linked"
           [] ~link /\ dialing -> "dialing"
           [] ~link /\ ~dialing /\ scan -> "searching"
           [] OTHER -> "off"

\* It is a function of app_state.
PhaseIsApp ==
    /\ app = "SCANNING" => Phase = IF up THEN "searching" ELSE "off"
    /\ app = "CONNECTING" => Phase = "dialing"
    /\ app = "READY" => Phase = "ready"
    /\ app \notin {"SCANNING", "CONNECTING", "READY"} => Phase = "linked"

\* Phase, the refinement mapping, is told by app_state alone.
LEMMA PhaseOfApp == BInv => PhaseIsApp
  <1> SUFFICES ASSUME BInv PROVE PhaseIsApp
    OBVIOUS
  <1> USE DEF BInv, Stage, BridgeTypeOK, StackTypeOK, PhaseIsApp
  <1>1. CASE app = "SCANNING"
    BY <1>1 DEF Phase
  <1>2. CASE app = "CONNECTING"
    BY <1>2 DEF Phase
  <1>3. CASE app = "READY"
    BY <1>3 DEF Phase
  <1>4. CASE app \notin {"SCANNING", "CONNECTING", "READY"}
    BY <1>4 DEF Phase
  <1> QED
    BY <1>1, <1>2, <1>3, <1>4

\* The same in the next state.
LEMMA PhaseOfAppNext == BInv' => PhaseIsApp'
  BY PhaseOfApp, PTL

\* The initial states map to initial states.
LEMMA HostBegins == BridgeInit => Promise!HostInit
  <1>1. BridgeInit => Phase = "off"
    BY DEF BridgeInit, StackInit, Phase
  <1> QED
    BY <1>1 DEF BridgeInit, StackInit, Promise!HostInit, Phase

\* The steps of GamepadHost, as steps of Phase and got.
HostMoves ==
    \/ Phase = "off" /\ Phase' = "searching" /\ got' = got
    \/ Phase = "searching" /\ Phase' = "dialing" /\ got' = got
    \/ Phase = "dialing" /\ Phase' = "searching" /\ got' = got
    \/ Phase = "dialing" /\ Phase' = "linked" /\ got' = 0
    \/ Phase = "linked" /\ got < 4 /\ got' = got + 1 /\ Phase' = Phase
    \/ Phase = "linked" /\ got' = 1 /\ Phase' = Phase
    \/ Phase = "linked" /\ got = 4 /\ Phase' = "ready" /\ got' = got
    \/ Phase = "ready" /\ Phase' = "linked" /\ got' = got
    \/ Phase \in {"linked", "ready"} /\ Phase' = "searching" /\ got' = 0
    \/ Phase' = Phase /\ got' = got

\* Each of the moves is a step of GamepadHost or changes nothing in it.
LEMMA MovesAreSteps == HostMoves => [Promise!HostNext]_<<Phase, got>>
  BY DEF HostMoves, Phase, Promise!HostNext, Promise!PowerOn, Promise!Dial, Promise!DialFails, Promise!LinkUp,
         Promise!Advance, Promise!StartOver, Promise!Ready, Promise!Interrupt, Promise!LinkDown

\* Every step of the bridge moves the host or leaves it where it is.
LEMMA BridgeMoves ==
    ASSUME BInv, BInv', BridgeNext
    PROVE  HostMoves
  <1>1. PhaseIsApp /\ PhaseIsApp'
    BY PhaseOfApp, PhaseOfAppNext
  <1> HIDE DEF Phase
  <1>2. up \in BOOLEAN /\ got \in 0 .. 5 /\ app \in AppStates
    BY DEF BInv, BridgeTypeOK, StackTypeOK
  <1>3. ASSUME PeerTakes, query # "none", app' = app \/ (app \in Waits /\ app' \in Waits)
        PROVE  HostMoves
    <2>1. app \notin {"SCANNING", "CONNECTING", "READY"} /\ app' \notin {"SCANNING", "CONNECTING", "READY"}
      BY <1>3 DEF BInv, Stage, NoLink, Driven, Waits, BridgeTypeOK, StackTypeOK, AppStates
    <2>2. Phase = "linked" /\ Phase' = "linked"
      BY <1>1, <2>1 DEF PhaseIsApp
    <2>3. got' = got \/ got' = 1 \/ (got < 4 /\ got' = got + 1)
      BY <1>3, <1>2, Taking DEF BInv, InOrder
    <2> QED
      BY <2>2, <2>3 DEF HostMoves
  <1>4. CASE Working
    BY <1>1, <1>4, <1>2 DEF PhaseIsApp, HostMoves, Working, peerVars, BInv, Stage
  <1>5. CASE AdvertisingReport
    BY <1>1, <1>5, <1>2 DEF PhaseIsApp, HostMoves, AdvertisingReport, EvAdvert, peerVars
  <1>6. CASE LeConnectionFailed
    BY <1>1, <1>6, <1>2 DEF PhaseIsApp, HostMoves, LeConnectionFailed, EvConnectFailed, peerVars, BInv, Stage
  <1>7. CASE LeConnectionComplete
    BY <1>1, <1>7, <1>2 DEF PhaseIsApp, HostMoves, LeConnectionComplete, EvConnected, BInv, Stage
  <1>8. CASE LeConnectionDirect
    BY <1>1, <1>8, <1>2 DEF PhaseIsApp, HostMoves, LeConnectionDirect, EvConnected, StartGatt, BInv, Stage
  <1>9. CASE EncryptionChange
    BY <1>1, <1>9, <1>2 DEF PhaseIsApp, HostMoves, EncryptionChange, StartGatt, linkVars, peerVars
  <1>10. CASE DisconnectionComplete
    BY <1>1, <1>10, <1>2
    DEF PhaseIsApp, HostMoves, DisconnectionComplete, EvLost, BInv, Stage, AppStates
  <1>11. CASE JustWorksRequest
    BY <1>1, <1>11, <1>2
    DEF PhaseIsApp, HostMoves, JustWorksRequest, EvJustWorks, peerVars, BInv, Stage, AppStates
  <1>12. CASE PairingComplete
    BY <1>1, <1>12, <1>2 DEF PhaseIsApp, HostMoves, PairingComplete, StartGatt, linkVars, peerVars
  <1>13. CASE CharacteristicResult \/ QueryFailed \/ (PeerSecurityRequest /\ UNCHANGED appVars)
    BY <1>13
    DEF Phase, HostMoves, CharacteristicResult, QueryFailed, PeerSecurityRequest, appVars,
        linkVars, peerVars
  <1>14. CASE Discovered
    BY <1>3, <1>14 DEF Discovered, Completes, EvQueryDone, Waits
  <1>15. CASE PairStepDone
    BY <1>3, <1>15 DEF PairStepDone, Completes, EvQueryDone, Waits
  <1>16. CASE CompletionIgnored
    BY <1>3, <1>16 DEF CompletionIgnored, Completes, EvQueryDone
  <1>17. CASE Subscribed
    <2>1. got' = got /\ got = 4
      BY <1>17, Taking DEF Subscribed, Completes, EvQueryDone, BInv, Driven, Taken
    <2> QED
      BY <1>1, <1>17, <2>1 DEF PhaseIsApp, HostMoves, Subscribed
  <1> QED
    BY <1>4, <1>5, <1>6, <1>7, <1>8, <1>9, <1>10, <1>11, <1>12, <1>13, <1>14, <1>15, <1>16, <1>17
    DEF BridgeNext, BridgeGatt

\* The bridge implements GamepadHost: it hands over the four commands in order and is ready
\* only then, and every lost or failed connection leads back to the search, whatever pairing
\* events interrupt it and however completions of an interrupted sequence are counted.
THEOREM BridgeKeepsPromise == BridgeSpec => KeepsPromise
  <1>1. BridgeInit => Promise!HostInit
    BY HostBegins
  <1>2. BInv /\ BInv' /\ [BridgeNext]_bridgeVars => [Promise!HostNext]_<<Phase, got>>
    <2>1. CASE UNCHANGED bridgeVars
      BY <2>1 DEF bridgeVars, appVars, stackVars, Phase
    <2>2. BInv /\ BInv' /\ BridgeNext => [Promise!HostNext]_<<Phase, got>>
      BY BridgeMoves, MovesAreSteps
    <2> QED
      BY <2>1, <2>2
  <1> QED
    BY <1>1, <1>2, BInvAlways, PTL DEF BridgeSpec, KeepsPromise, Promise!HostSpec, Phase

=============================================================================
