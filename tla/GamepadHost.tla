----------------------------- MODULE GamepadHost -----------------------------
(***************************************************************************)
(* What a host of the controller promises, however it is built: it looks   *)
(* for the controller, connects, hands it the four pair commands in order  *)
(* and treats it as ready only then; whenever the connection goes it looks *)
(* again.  New pairing may interrupt a ready host and start the commands   *)
(* over.                                                                   *)
(***************************************************************************)
EXTENDS Naturals

VARIABLES
    phase,          \* "off", "searching", "dialing", "linked", "ready"
    progress        \* pair commands the controller has taken on this connection

PowerOn == phase = "off" /\ phase' = "searching" /\ UNCHANGED progress

Dial == phase = "searching" /\ phase' = "dialing" /\ UNCHANGED progress

DialFails == phase = "dialing" /\ phase' = "searching" /\ UNCHANGED progress

LinkUp == phase = "dialing" /\ phase' = "linked" /\ progress' = 0

Advance == phase = "linked" /\ progress < 4 /\ progress' = progress + 1 /\ UNCHANGED phase

StartOver == phase = "linked" /\ progress' = 1 /\ UNCHANGED phase

Ready == phase = "linked" /\ progress = 4 /\ phase' = "ready" /\ UNCHANGED progress

Interrupt == phase = "ready" /\ phase' = "linked" /\ UNCHANGED progress

LinkDown == phase \in {"linked", "ready"} /\ phase' = "searching" /\ progress' = 0

HostInit == phase = "off" /\ progress = 0

HostNext == \/ PowerOn \/ Dial \/ DialFails \/ LinkUp \/ Advance \/ StartOver
            \/ Ready \/ Interrupt \/ LinkDown

HostSpec == HostInit /\ [][HostNext]_<<phase, progress>>

=============================================================================
