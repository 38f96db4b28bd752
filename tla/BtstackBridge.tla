---------------------------- MODULE BtstackBridge ----------------------------
(***************************************************************************)
(* switch2_btstack_bridge.c: a callback-driven state machine that scans,   *)
(* connects, pairs (SMP Just Works), finds two characteristics by UUID,    *)
(* writes the four pair commands and subscribes to input reports.  The     *)
(* copy under btstack-upstream/example starts GATT without asking for SMP. *)
(* One action is one event, handled to the end by packet_handler,          *)
(* sm_packet_handler or gatt_client_handler.                               *)
(***************************************************************************)
EXTENDS Btstack, Sequences

VARIABLES
    direct,         \* the copy that skips sm_request_pairing
    app,            \* app_state
    inputChar,      \* what input_report_char holds: "none" (value_handle 0), "input" or "cmd"
    cmdChar,        \* what cmd_write_char holds
    pairStep        \* pair_step

appVars == <<direct, app, inputChar, cmdChar, pairStep>>
bridgeVars == <<appVars, stackVars>>

AppStates == {"SCANNING", "CONNECTING", "CONNECTED", "CHAR_DISCOVERING", "WAIT_ENCRYPTION",
              "PAIRING", "NOTIFYING", "READY"}
Chars == {"none", "input", "cmd"}

\* app_state is one of the states the handlers know, the characteristics are empty or one of
\* the two looked for, and pair_step stays within the four commands.
BridgeTypeOK ==
    /\ StackTypeOK
    /\ direct \in BOOLEAN /\ app \in AppStates
    /\ inputChar \in Chars /\ cmdChar \in Chars /\ pairStep \in 0 .. 4

BridgeInit ==
    /\ StackInit
    /\ direct \in BOOLEAN /\ app = "SCANNING"
    /\ inputChar = "none" /\ cmdChar = "none" /\ pairStep = 0

charVars == <<inputChar, cmdChar, pairStep>>

-----------------------------------------------------------------------------
(* packet_handler *)

\* BTSTACK_EVENT_STATE
Working ==
    /\ ~up /\ up' = TRUE
    /\ app' = "SCANNING" /\ scan' = TRUE
    /\ UNCHANGED <<direct, charVars, dialing, link, closing, smp, gattVars, offers, peerVars>>

\* GAP_EVENT_ADVERTISING_REPORT of a Nintendo device.
AdvertisingReport ==
    /\ EvAdvert /\ app = "SCANNING"
    /\ scan' = FALSE /\ dialing' = TRUE
    /\ app' = "CONNECTING"
    /\ UNCHANGED <<direct, charVars, up, link, closing, smp, gattVars, offers, peerVars>>

\* Mutant: the services are to be discovered first.
StartGatt_Services ==
    /\ app' = "SERVICE_DISCOVERING"
    /\ inputChar' = "none" /\ cmdChar' = "none"
    /\ UNCHANGED pairStep

\* app_state = STATE_CHAR_DISCOVERING, both characteristics cleared, phase 1 asked for.
StartGatt ==
    /\ app' = "CHAR_DISCOVERING"
    /\ inputChar' = "none" /\ cmdChar' = "none"
    /\ UNCHANGED pairStep

\* Mutant: the scan is not started again.
LeConnectionFailed_NoScan ==
    /\ EvConnectFailed
    /\ app' = "SCANNING"
    /\ UNCHANGED <<direct, charVars, scan>>

LeConnectionFailed ==
    /\ EvConnectFailed
    /\ app' = "SCANNING" /\ scan' = TRUE
    /\ UNCHANGED <<direct, charVars>>

\* With SMP: sm_request_pairing.
LeConnectionComplete ==
    /\ ~direct /\ EvConnected
    /\ app' = "CONNECTED" /\ smp' = "asked"
    /\ UNCHANGED <<direct, charVars, scan, gattVars>>

\* Without.
LeConnectionDirect ==
    /\ direct /\ EvConnected
    /\ StartGatt /\ AskNext("findInput") /\ smp' = "off"
    /\ UNCHANGED <<direct, scan>>

EncryptionChange ==
    /\ EvEncryption
    /\ IF app = "WAIT_ENCRYPTION"
       THEN StartGatt /\ Ask("findInput")
       ELSE UNCHANGED <<app, charVars, gattVars>>
    /\ UNCHANGED <<direct, linkVars, closing, peerVars>>

DisconnectionComplete ==
    /\ EvLost
    /\ inputChar' = "none" /\ cmdChar' = "none" /\ UNCHANGED pairStep
    /\ app' = "SCANNING" /\ scan' = TRUE
    /\ UNCHANGED direct

-----------------------------------------------------------------------------
(* sm_packet_handler *)

\* sm_just_works_confirm; whatever the state was.
JustWorksRequest ==
    /\ EvJustWorks
    /\ app' = "WAIT_ENCRYPTION"
    /\ UNCHANGED <<direct, charVars, linkVars, closing, gattVars, peerVars>>

\* Mutant: GATT is started only if the pairing succeeded.
PairingComplete_IfOk ==
    /\ EvPairingComplete
    /\ IF app = "WAIT_ENCRYPTION" /\ smp = "encOk"
       THEN StartGatt /\ Ask("findInput")
       ELSE UNCHANGED <<app, charVars, gattVars>>
    /\ UNCHANGED <<direct, linkVars, closing, peerVars>>

\* With either status.
PairingComplete ==
    /\ EvPairingComplete
    /\ IF app = "WAIT_ENCRYPTION"
       THEN StartGatt /\ Ask("findInput")
       ELSE UNCHANGED <<app, charVars, gattVars>>
    /\ UNCHANGED <<direct, linkVars, closing, peerVars>>

-----------------------------------------------------------------------------
(* gatt_client_handler *)

\* GATT_EVENT_CHARACTERISTIC_QUERY_RESULT: the first to arrive is taken for the input
\* report, the next for the command characteristic.
CharacteristicResult ==
    /\ EvResult
    /\ inputChar' = IF inputChar = "none" THEN Sought ELSE inputChar
    /\ cmdChar' = IF inputChar # "none" /\ cmdChar = "none" THEN Sought ELSE cmdChar
    /\ UNCHANGED <<direct, app, pairStep, linkVars, closing, smp, query, peerVars>>

\* GATT_EVENT_QUERY_COMPLETE with an ATT error: gap_disconnect.
QueryFailed ==
    /\ query # "none" /\ AskNext("none")
    /\ closing' = TRUE
    /\ UNCHANGED <<appVars, linkVars, smp, peerVars>>

\* GATT_EVENT_QUERY_COMPLETE, success; PeerTakes is what the query did at the controller.
Completes == EvQueryDone /\ PeerTakes /\ UNCHANGED <<direct, linkVars, closing, smp>>

\* Mutant: the keys are written before the address.
WritePairStep_KeysFirst(n) == AskNext(IF n < 4 THEN PairQuery[((n + 1) % 4) + 1] ELSE "none")

\* write_pair_step: step 4 and above write nothing.
WritePairStep(n) == AskNext(IF n < 4 THEN PairQuery[n + 1] ELSE "none")

\* Mutant: a discovery that found nothing is not repeated.
Discovered_Once ==
    /\ Completes /\ app = "CHAR_DISCOVERING"
    /\ CASE inputChar = "none" -> AskNext("none") /\ UNCHANGED <<app, pairStep>>
         [] inputChar # "none" /\ cmdChar = "none" -> AskNext("findCmd") /\ UNCHANGED <<app, pairStep>>
         [] OTHER -> app' = "PAIRING" /\ pairStep' = 0 /\ WritePairStep(0)
    /\ UNCHANGED <<inputChar, cmdChar>>

\* Mutant: pair_step is not reset.
Discovered_Resume ==
    /\ Completes /\ app = "CHAR_DISCOVERING"
    /\ CASE inputChar = "none" -> AskNext("findInput") /\ UNCHANGED <<app, pairStep>>
         [] inputChar # "none" /\ cmdChar = "none" -> AskNext("findCmd") /\ UNCHANGED <<app, pairStep>>
         [] OTHER -> app' = "PAIRING" /\ UNCHANGED pairStep /\ WritePairStep(pairStep)
    /\ UNCHANGED <<inputChar, cmdChar>>

Discovered ==
    /\ Completes /\ app = "CHAR_DISCOVERING"
    /\ CASE inputChar = "none" -> AskNext("findInput") /\ UNCHANGED <<app, pairStep>>
         [] inputChar # "none" /\ cmdChar = "none" -> AskNext("findCmd") /\ UNCHANGED <<app, pairStep>>
         [] OTHER -> app' = "PAIRING" /\ pairStep' = 0 /\ WritePairStep(0)
    /\ UNCHANGED <<inputChar, cmdChar>>

\* Mutant: the last pair command is not waited for.
PairStepDone_OneShort ==
    /\ Completes /\ app = "PAIRING"
    /\ pairStep' = pairStep + 1
    /\ IF pairStep + 1 < 3
       THEN WritePairStep(pairStep + 1) /\ UNCHANGED app
       ELSE app' = "NOTIFYING" /\ AskNext(IF inputChar = "input" THEN "ccc" ELSE "none")
    /\ UNCHANGED <<inputChar, cmdChar>>

\* write_pair_step for the next step, or the CCCD write.  BTstack refuses the latter for a
\* characteristic that cannot notify.
PairStepDone ==
    /\ Completes /\ app = "PAIRING"
    /\ pairStep' = pairStep + 1
    /\ IF pairStep + 1 < 4
       THEN WritePairStep(pairStep + 1) /\ UNCHANGED app
       ELSE app' = "NOTIFYING" /\ AskNext(IF inputChar = "input" THEN "ccc" ELSE "none")
    /\ UNCHANGED <<inputChar, cmdChar>>

Subscribed ==
    /\ Completes /\ app = "NOTIFYING"
    /\ app' = "READY" /\ AskNext("none")
    /\ UNCHANGED charVars

\* In any other state the completion is passed over.
CompletionIgnored ==
    /\ Completes /\ app \notin {"CHAR_DISCOVERING", "PAIRING", "NOTIFYING"}
    /\ AskNext("none")
    /\ UNCHANGED <<app, charVars>>

-----------------------------------------------------------------------------

BridgeGatt == \/ CharacteristicResult \/ QueryFailed \/ Discovered \/ PairStepDone
              \/ Subscribed \/ CompletionIgnored
BridgeNext ==
    \/ Working \/ AdvertisingReport \/ LeConnectionFailed \/ LeConnectionComplete
    \/ LeConnectionDirect \/ EncryptionChange \/ DisconnectionComplete
    \/ JustWorksRequest \/ PairingComplete \/ BridgeGatt
    \/ PeerSecurityRequest /\ UNCHANGED appVars

BridgeSpec == BridgeInit /\ [][BridgeNext]_bridgeVars

\* The security manager gives every pairing an end (its 30 s timer).
BridgeFairSpec == BridgeSpec /\ WF_bridgeVars(PairingComplete)

-----------------------------------------------------------------------------
(* Properties *)

\* The discovery, the pair commands and the subscription are driven by completions alone
\* (gatt_client_handler): while one of them is under way on an open connection a query is in
\* progress, also when a new pairing has interrupted and restarted them and the new query
\* was refused because the old one was still running.
NeverStalls ==
    /\ app \in {"CHAR_DISCOVERING", "PAIRING", "NOTIFYING"}
    /\ link /\ ~closing /\ inputChar # "cmd"
    => query # "none"

\* "READY": the controller has taken SetMAC, Key1, Key2 and Finish in that order on this
\* connection, and then the subscription, whatever pairing events interrupted the sequence.
ReadyIsPaired == app = "READY" => link /\ got = 4 /\ subscribed

\* Pair commands never reach the controller out of order (write_pair_step).
PairInOrder == got # 5

\* "Start GATT regardless" (sm_packet_handler): a pairing the user side has confirmed never
\* leaves the bridge waiting for encryption.
WaitEnds == app = "WAIT_ENCRYPTION" ~> app # "WAIT_ENCRYPTION"

\* The bridge keeps the promises of GamepadHost: ready only after the four commands in
\* order on this connection; every lost or failed connection leads back to the search.
Promise == INSTANCE GamepadHost WITH
    phase <- CASE link /\ app = "READY" -> "ready"
               [] link /\ app # "READY" -> "linked"
               [] ~link /\ dialing -> "dialing"
               [] ~link /\ ~dialing /\ scan -> "searching"
               [] OTHER -> "off",
    progress <- got
KeepsPromise == Promise!HostSpec

\* "First discovery: input report, second: command write" (gatt_client_handler): the input
\* report characteristic is the one found by the input report UUID.
CharsNotSwapped == inputChar # "cmd"

=============================================================================
