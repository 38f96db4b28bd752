------------------------------ MODULE MCBtstack ------------------------------
(***************************************************************************)
(* The two BTstack programs, one of which runs, for TLC.                   *)
(***************************************************************************)
EXTENDS BtstackBridge, Sw2dBtstack

VARIABLE prog

MCOfferSets == {{"service", "input", "cmd", "output"}, {"input", "cmd"}, {"service", "input"},
                {"service", "output"}}
MCFull == {{"input", "cmd"}}

all == <<prog, hostVars, bridgeVars>>

Init ==
    /\ prog \in {"bridge", "host"}
    /\ BridgeInit /\ HostInit
    /\ prog = "host" => ~direct

Next ==
    \/ prog = "bridge" /\ BridgeNext /\ UNCHANGED <<prog, hostVars>>
    \/ prog = "host" /\ HostNext /\ UNCHANGED <<prog, appVars>>

Spec == Init /\ [][Next]_all

FairSpec == Spec /\ WF_all(prog = "bridge" /\ PairingComplete /\ UNCHANGED <<prog, hostVars>>)

\* Whichever program runs, app_state or state is one its handlers know, pair_step stays
\* within the four commands, and the stack keeps its types.
TypeOK == BridgeTypeOK /\ HostTypeOK

=============================================================================
