---------------------------- MODULE HciRawSocket ----------------------------
(***************************************************************************)
(* A raw HCI socket of the kernel and the Bluetooth controller behind it,  *)
(* as the first experiments (sw2d.c, two_socket_test.c, sw2d_lib.c,        *)
(* hciletest.c, acltest.c) use them.  The socket delivers frames: one read *)
(* returns the front of one frame, and what did not fit is gone.           *)
(***************************************************************************)
EXTENDS Integers, Sequences

CONSTANTS
    Handles,        \* connection handles the controller gives out
    MaxUnread       \* no unasked-for frame arrives while so many are unread

ASSUME SocketAssumption == Handles \subseteq 0 .. 239 /\ Handles # {} /\ MaxUnread \in Nat

VARIABLES
    filter,         \* of the open socket: "off" lets nothing through, "connect", "acl", "all"
    rx,             \* frames received and not read
    pending,        \* the controller is trying to connect
    link            \* it has a connection

socketVars == <<filter, rx, pending, link>>

HCI_ACL_PKT == 2
HCI_EVENT_PKT == 4
EVT_DISCONN_COMPLETE == 5
EVT_CMD_STATUS == 15
EVT_LE_META == 62
EVT_LE_CONN_COMPLETE == 1

Zeros(n) == [i \in 1 .. n |-> 0]

\* The frames, byte for byte as far as any program looks.
CmdStatus(st) == <<HCI_EVENT_PKT, EVT_CMD_STATUS, 4, st, 1, 13, 32>>
ConnComplete(st, h) == <<HCI_EVENT_PKT, EVT_LE_META, 19, EVT_LE_CONN_COMPLETE, st, h>> \o Zeros(16)
AdvReport == <<HCI_EVENT_PKT, EVT_LE_META, 12, 2>> \o Zeros(11)
Disconnected == <<HCI_EVENT_PKT, EVT_DISCONN_COMPLETE, 4, 0, 0, 0, 19>>
AclData(h) == <<HCI_ACL_PKT, h, 32, 7, 0, 3, 0, 4, 0, 3, 247, 0>>       \* an ATT answer

Frames == {CmdStatus(st) : st \in {0, 11, 12}} \cup {AdvReport, Disconnected}
          \cup {ConnComplete(st, h) : st \in {0, 62}, h \in Handles \cup {0}}
          \cup {AclData(h) : h \in Handles}

SocketTypeOK ==
    /\ filter \in {"off", "connect", "acl", "all"} /\ rx \in Seq(Frames)
    /\ pending \in BOOLEAN /\ link \in BOOLEAN

SocketInit == filter = "off" /\ rx = <<>> /\ pending = FALSE /\ link = FALSE

Passes(f) ==
    \/ filter = "all"
    \/ filter = "connect" /\ f # Disconnected
    \/ filter = "acl" /\ (f[1] = HCI_ACL_PKT \/ f[2] = EVT_LE_META)

Deliver(f) == rx' = IF Passes(f) THEN Append(rx, f) ELSE rx

\* LE Create Connection on a socket opened with filter f; the answer is a Command Status,
\* 0x0c while an attempt is pending and 0x0b while the peer is connected.
OpenAndCreate(f) ==
    /\ filter' = f
    /\ rx' = <<CmdStatus(CASE pending -> 12 [] ~pending /\ link -> 11 [] OTHER -> 0)>>
    /\ pending' = (pending \/ ~link)
    /\ UNCHANGED link

CloseSocket == filter' = "off" /\ rx' = <<>>

-----------------------------------------------------------------------------
(* What the controller does by itself *)

CtlConnected ==
    /\ pending /\ pending' = FALSE /\ link' = TRUE
    /\ \E h \in Handles : Deliver(ConnComplete(0, h))
    /\ UNCHANGED filter

CtlFails ==
    /\ pending /\ pending' = FALSE /\ Deliver(ConnComplete(62, 0))
    /\ UNCHANGED <<filter, link>>

CtlLost ==
    /\ link /\ Len(rx) < MaxUnread /\ link' = FALSE /\ Deliver(Disconnected)
    /\ UNCHANGED <<filter, pending>>

\* Someone else is scanning.
CtlAdvert ==
    /\ filter # "off" /\ Len(rx) < MaxUnread /\ Deliver(AdvReport)
    /\ UNCHANGED <<filter, pending, link>>

\* The peer sends ATT data, which a socket that asks for it receives too.
CtlAcl ==
    /\ link /\ filter = "acl" /\ Len(rx) < MaxUnread
    /\ \E h \in Handles : Deliver(AclData(h))
    /\ UNCHANGED <<filter, pending, link>>

CtlStep == CtlConnected \/ CtlFails \/ CtlLost \/ CtlAdvert \/ CtlAcl

=============================================================================
