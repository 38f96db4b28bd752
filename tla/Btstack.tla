------------------------------- MODULE Btstack -------------------------------
(***************************************************************************)
(* BTstack as the two programs built on it see it: the scan, the one       *)
(* connection, the security manager, the GATT client with its single       *)
(* outstanding query, and the game controller behind them.  BTstack is a   *)
(* submodule and not part of the repository; it is modelled from the calls *)
(* switch2_btstack_bridge.c and sw2d_btstack.c make and the events they    *)
(* handle.  Handlers run one at a time, from the run loop.                 *)
(***************************************************************************)
EXTENDS Naturals

CONSTANTS
    OfferSets,      \* what a controller may have: the HID service, its input report, the
                    \* command characteristic, a report that cannot notify ("output")
    Repair          \* may the controller ask for pairing again after a failed one

ASSUME BtstackAssumption == /\ OfferSets \subseteq SUBSET {"service", "input", "cmd", "output"}
                            /\ Repair \in BOOLEAN

VARIABLES
    up,             \* HCI_STATE_WORKING was reported
    scan,           \* a scan runs
    dialing,        \* gap_connect was called and has not completed
    link,           \* a connection exists
    closing,        \* gap_disconnect was called
    smp,            \* pairing: "off", "asked", "confirmed", "encOk", "encFail", "secure", "failed"
    query,          \* the GATT query in progress
    found,          \* it has delivered its result
    offers,         \* what this controller has
    got,            \* pair commands it has taken in order on this connection; 5: out of order
    subscribed      \* its input CCCD is written

stackVars == <<up, scan, dialing, link, closing, smp, query, found, offers, got, subscribed>>

Queries == {"none", "services", "findInput", "findCmd", "pair0", "pair1", "pair2", "pair3", "ccc"}
PairQuery == <<"pair0", "pair1", "pair2", "pair3">>

StackTypeOK ==
    /\ up \in BOOLEAN /\ scan \in BOOLEAN /\ dialing \in BOOLEAN
    /\ link \in BOOLEAN /\ closing \in BOOLEAN
    /\ smp \in {"off", "asked", "confirmed", "encOk", "encFail", "secure", "failed"}
    /\ query \in Queries /\ found \in BOOLEAN
    /\ offers \in OfferSets /\ got \in 0 .. 5 /\ subscribed \in BOOLEAN

StackInit ==
    /\ up = FALSE /\ scan = FALSE /\ dialing = FALSE /\ link = FALSE /\ closing = FALSE
    /\ smp = "off" /\ query = "none" /\ found = FALSE
    /\ offers \in OfferSets /\ got = 0 /\ subscribed = FALSE

linkVars == <<up, scan, dialing, link, offers>>
gattVars == <<query, found>>
peerVars == <<got, subscribed>>

\* A query is accepted when none is in progress; otherwise the call returns an error, which
\* no caller looks at.
Ask(q) == /\ query' = IF query = "none" /\ link THEN q ELSE query
          /\ found' = IF query = "none" /\ link THEN FALSE ELSE found

\* The outstanding query ends and q takes its place; "none": nothing is asked.
AskNext(q) == query' = q /\ found' = FALSE

-----------------------------------------------------------------------------
(* Events: what the stack and the controller do before a handler runs *)

\* The scan sees the controller.
EvAdvert == up /\ scan

EvConnected ==
    /\ dialing /\ dialing' = FALSE /\ link' = TRUE /\ closing' = FALSE
    /\ got' = 0 /\ subscribed' = FALSE
    /\ UNCHANGED <<up, offers>>

EvConnectFailed ==
    /\ dialing /\ dialing' = FALSE
    /\ UNCHANGED <<up, link, closing, smp, gattVars, offers, peerVars>>

\* The controller leaves, or gap_disconnect has done its work.  An outstanding query is
\* completed with an error on the way.
EvLost ==
    /\ link /\ link' = FALSE /\ closing' = FALSE
    /\ smp' = "off" /\ query' = "none" /\ found' = FALSE /\ subscribed' = FALSE /\ got' = 0
    /\ UNCHANGED <<up, dialing, offers>>

\* The controller sends a Security Request; the stack answers by pairing.
PeerSecurityRequest ==
    /\ link /\ Repair /\ smp \in {"off", "failed"}
    /\ smp' = "asked"
    /\ UNCHANGED <<linkVars, closing, gattVars, peerVars>>

\* SM_EVENT_JUST_WORKS_REQUEST
EvJustWorks == link /\ smp = "asked" /\ smp' = "confirmed"

\* HCI_EVENT_ENCRYPTION_CHANGE, with either status
EvEncryption == link /\ smp = "confirmed" /\ smp' \in {"encOk", "encFail"}

\* SM_EVENT_PAIRING_COMPLETE: after encryption, or early, when the controller refuses, the
\* check values do not match or the pairing times out.
EvPairingComplete ==
    /\ link /\ smp \in {"asked", "confirmed", "encOk", "encFail"}
    /\ smp' = IF smp = "encOk" THEN "secure" ELSE "failed"

\* A discovery reports the service or characteristic it is for, if the controller has it.
Sought == CASE query = "services" -> "service" [] query = "findInput" -> "input"
            [] query = "findCmd" -> "cmd" [] OTHER -> "none"
EvResult == ~found /\ Sought \in offers /\ found' = TRUE

\* A discovery is complete when it has reported what there is.
EvQueryDone == query # "none" /\ (Sought \in offers => found)

\* The controller takes a pair command (SetMAC starts over) or the CCCD write.
PeerTakes ==
    /\ got' = CASE query = "pair0" -> 1
                [] query \in {"pair1", "pair2", "pair3"} ->
                     IF got < 4 /\ PairQuery[got + 1] = query THEN got + 1 ELSE 5
                [] OTHER -> got
    /\ subscribed' = (subscribed \/ query = "ccc")

-----------------------------------------------------------------------------

\* Once the stack runs, a program that has no connection and is not making one is looking
\* for the controller: no failed or lost connection leaves it idle.
NeverIdle == up /\ ~dialing /\ ~link => scan

=============================================================================
