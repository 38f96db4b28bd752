----------------------------- MODULE Sw2dBtstack -----------------------------
(***************************************************************************)
(* sw2d_btstack.c: the earlier BTstack program.  It looks for the standard *)
(* HID service and its Report characteristics, subscribes to the last one  *)
(* it was told of, and never looks at the status of a completed query.     *)
(* hid_service and hid_report_characteristic keep what an earlier          *)
(* connection left there.                                                  *)
(***************************************************************************)
EXTENDS Btstack

VARIABLES
    state,
    service,        \* hid_service: "none" (all zero), "this" or "old" connection's
    report          \* hid_report_characteristic: whose it is, likewise, and can it notify

hostVars == <<state, service, report>>
hostAll == <<hostVars, stackVars>>

Slots == {"none", "this", "old"}
ReportSlots == [of : Slots, notifies : BOOLEAN]
HostStates == {"W4_WORKING", "W4_SCAN_RESULT", "W4_CONNECT", "W4_SERVICE_RESULT",
               "W4_CHARACTERISTIC_RESULT", "W4_ENABLE_NOTIFICATIONS_COMPLETE", "READY"}

\* The state is one the handlers know; a handle is empty, of this connection or of an old one.
HostTypeOK == StackTypeOK /\ state \in HostStates /\ service \in Slots /\ report \in ReportSlots

HostInit ==
    /\ StackInit /\ state = "W4_WORKING"
    /\ service = "none" /\ report = [of |-> "none", notifies |-> FALSE]

-----------------------------------------------------------------------------
(* packet_handler *)

start_scan == state' = "W4_SCAN_RESULT" /\ scan' = TRUE

HostWorking ==
    /\ ~up /\ up' = TRUE /\ start_scan
    /\ UNCHANGED <<service, report, dialing, link, closing, smp, gattVars, offers, peerVars>>

\* A connectable advertisement with Nintendo's company id, vendor and product.
HostAdvert ==
    /\ EvAdvert /\ state = "W4_SCAN_RESULT"
    /\ state' = "W4_CONNECT" /\ scan' = FALSE /\ dialing' = TRUE
    /\ UNCHANGED <<service, report, up, link, closing, smp, gattVars, offers, peerVars>>

HostConnectFailed == EvConnectFailed /\ start_scan /\ UNCHANGED <<service, report>>

Aged(x) == IF x = "this" THEN "old" ELSE x

HostConnected ==
    /\ EvConnected
    /\ state' = "W4_SERVICE_RESULT" /\ AskNext("services")
    /\ service' = Aged(service) /\ report' = [report EXCEPT !.of = Aged(@)]
    /\ UNCHANGED <<scan, smp>>

HostDisconnected == EvLost /\ start_scan /\ UNCHANGED <<service, report>>

-----------------------------------------------------------------------------
(* handle_gatt_client_event *)

\* GATT_EVENT_SERVICE_QUERY_RESULT
HostServiceResult ==
    /\ query = "services" /\ EvResult /\ service' = "this"
    /\ UNCHANGED <<state, report, linkVars, closing, smp, query, peerVars>>

\* GATT_EVENT_CHARACTERISTIC_QUERY_RESULT, one for every 0x2A4D in the range of hid_service,
\* none in an empty one: each takes the place of the one before.
HostReportResult ==
    /\ query = "findInput" /\ service # "none"
    /\ \E r \in offers \cap {"input", "output"} :
           report' = [of |-> "this", notifies |-> r = "input"]
    /\ UNCHANGED <<state, service, linkVars, closing, smp, gattVars, peerVars>>

\* GATT_EVENT_QUERY_COMPLETE with any status; the controller has taken the write or not.
HostComplete ==
    /\ query # "none"
    /\ PeerTakes \/ UNCHANGED peerVars
    /\ UNCHANGED <<service, report, linkVars, closing, smp>>

\* Mutant: a query without a result is the end of it.
HostServicesDone_Checked ==
    /\ HostComplete /\ state = "W4_SERVICE_RESULT"
    /\ state' = "W4_CHARACTERISTIC_RESULT" /\ AskNext(IF found THEN "findInput" ELSE "none")

HostServicesDone ==
    /\ HostComplete /\ state = "W4_SERVICE_RESULT"
    /\ state' = "W4_CHARACTERISTIC_RESULT" /\ AskNext("findInput")

\* Mutant: notifications are taken as enabled when there was nothing to enable.
HostCharsDone_SkipEmpty ==
    /\ HostComplete /\ state = "W4_CHARACTERISTIC_RESULT"
    /\ state' = IF report.notifies THEN "W4_ENABLE_NOTIFICATIONS_COMPLETE" ELSE "READY"
    /\ AskNext(IF report.notifies THEN "ccc" ELSE "none")

\* BTstack refuses the CCCD write for a characteristic that cannot notify, an empty one too.
HostCharsDone ==
    /\ HostComplete /\ state = "W4_CHARACTERISTIC_RESULT"
    /\ state' = "W4_ENABLE_NOTIFICATIONS_COMPLETE"
    /\ AskNext(IF report.notifies THEN "ccc" ELSE "none")

HostEnabled ==
    /\ HostComplete /\ state = "W4_ENABLE_NOTIFICATIONS_COMPLETE"
    /\ state' = "READY" /\ AskNext("none")

HostNext ==
    \/ HostWorking \/ HostAdvert \/ HostConnectFailed \/ HostConnected \/ HostDisconnected
    \/ HostServiceResult \/ HostReportResult
    \/ HostServicesDone \/ HostCharsDone \/ HostEnabled

HostSpec == HostInit /\ [][HostNext]_hostAll

-----------------------------------------------------------------------------
(* Properties *)

\* READY is reached only on a connection and with a report characteristic, of this connection
\* or of an earlier one, that can notify: a discovery that ends with none, or with another
\* report as the last one, does not lead there.
HostReadyHasReport == state = "READY" => link /\ report.of # "none" /\ report.notifies

\* While it discovers, a query is in progress, so that an event will drive it on.  After the
\* discovery it waits for an answer, or for ever: when the report it kept last cannot notify or
\* there was none, BTstack refused the subscription at once and nothing follows.
HostWaitsForAnswer ==
    /\ state \in {"W4_SERVICE_RESULT", "W4_CHARACTERISTIC_RESULT"} => query # "none"
    /\ state = "W4_ENABLE_NOTIFICATIONS_COMPLETE" => query = "ccc" \/ ~report.notifies

=============================================================================
