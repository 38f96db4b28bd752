---------------------------- MODULE HciController ----------------------------
(***************************************************************************)
(* The world on the other side of the HCI user channel: the Bluetooth      *)
(* controller, which takes commands in order and reports events, and the   *)
(* game controller at the far end of the link.  Neither is code of this    *)
(* repository; both are modelled from what sw2d_final.c and                *)
(* hci_transport_user.c send to them and read from them.                   *)
(***************************************************************************)
EXTENDS Naturals, Sequences

CONSTANTS
    Handles,        \* connection handles the controller may assign; 0 is one of them
    MaxUnread       \* with this many frames unread the peer neither connects nor speaks up

ASSUME ControllerAssumption == /\ Handles \subseteq Nat /\ 0 \in Handles
                               /\ MaxUnread \in Nat \ {0}

VARIABLES
    transport,      \* "up", or "dead" once the adapter is gone: writes fail, nothing is read
    pending,        \* LE Create Connection in progress: "none", or the attempt it is of
    linkUp,         \* is there a connection
    linkHandle,     \* its handle
    enc,            \* its encryption: "off", "starting", "ltk" (key asked for), "keyed", "on"
    owed,           \* requests the peer has received and not answered
    sharedKey,      \* the daemon's STK is the one the peer has computed on this link
    notifying,      \* the CCCD is written
    cmds,           \* commands written and not yet taken by the controller
    events          \* frames queued on the socket and not yet read

ctlVars == <<transport, pending, linkUp, linkHandle, enc, sharedKey, owed, notifying, cmds, events>>

\* An attempt is "this" (the session running now) or "old" (an earlier one); so is a
\* Random, of the link that is up now or of an earlier one.
Ages == {"this", "old"}

SmpKinds == {"pres", "secReq", "pairFailed", "confirm", "randGood", "randBad"}
AttKinds == {"attRsp", "attErr", "attBig", "notify"}
EventKinds == {"cancelDone", "other", "connOk", "connFail", "disconn", "encOk", "encFail", "ltkReq"}
Frames == [kind : SmpKinds \cup AttKinds \cup EventKinds, h : Handles, age : Ages]
Commands == {"cancel", "create", "startEnc", "ltkReply"}
Requests == {"preq", "confirm", "random", "mtu", "services", "chars", "cccd"}

CtlTypeOK ==
    /\ transport \in {"up", "dead"}
    /\ pending \in Ages \cup {"none"}
    /\ linkUp \in BOOLEAN /\ linkHandle \in Handles
    /\ enc \in {"off", "starting", "ltk", "keyed", "on"}
    /\ owed \subseteq Requests
    /\ sharedKey \in BOOLEAN /\ notifying \in BOOLEAN
    /\ cmds \in Seq(Commands)
    /\ events \in Seq(Frames)

Frame(k) == [kind |-> k, h |-> 0, age |-> "this"]
LinkFrame(k) == [kind |-> k, h |-> linkHandle, age |-> "this"]
ConnFrame(k, h) == [kind |-> k, h |-> h, age |-> pending]

Raise(fs) == events' = events \o fs

CtlInit ==
    /\ transport = "up" /\ pending = "none"
    /\ linkUp = FALSE /\ linkHandle = 0 /\ enc = "off"
    /\ owed = {} /\ sharedKey = FALSE /\ notifying = FALSE
    /\ cmds = <<>> /\ events = <<>>

-----------------------------------------------------------------------------
(* Commands *)

\* A cancelled attempt is reported after the Command Complete of the cancel itself,
\* by an LE Connection Complete with status 0x02.
CtlCancel ==
    /\ cmds # <<>> /\ Head(cmds) = "cancel"
    /\ cmds' = Tail(cmds)
    /\ Raise(IF pending = "none" THEN <<Frame("cancelDone")>>
             ELSE <<Frame("cancelDone"), ConnFrame("connFail", 0)>>)
    /\ pending' = "none"
    /\ UNCHANGED <<transport, linkUp, linkHandle, enc, sharedKey, owed, notifying>>

\* Command Status 0x00; or 0x0c with an attempt pending, 0x0b with the peer connected.
CtlCreate ==
    /\ cmds # <<>> /\ Head(cmds) = "create"
    /\ cmds' = Tail(cmds)
    /\ Raise(<<Frame("other")>>)
    /\ pending' = IF pending = "none" /\ ~linkUp THEN "this" ELSE pending
    /\ UNCHANGED <<transport, linkUp, linkHandle, enc, sharedKey, owed, notifying>>

CtlStartEnc ==
    /\ cmds # <<>> /\ Head(cmds) = "startEnc"
    /\ cmds' = Tail(cmds)
    /\ Raise(<<Frame("other")>>)
    /\ enc' = IF linkUp /\ enc = "off" THEN "starting" ELSE enc
    /\ UNCHANGED <<transport, pending, linkUp, linkHandle, sharedKey, owed, notifying>>

CtlLtkReply ==
    /\ cmds # <<>> /\ Head(cmds) = "ltkReply"
    /\ cmds' = Tail(cmds)
    /\ Raise(<<Frame("other")>>)
    /\ enc' = IF enc = "ltk" THEN "keyed" ELSE enc
    /\ UNCHANGED <<transport, pending, linkUp, linkHandle, sharedKey, owed, notifying>>

CtlCommand == CtlCancel \/ CtlCreate \/ CtlStartEnc \/ CtlLtkReply

-----------------------------------------------------------------------------
(* Events and the peer *)

CtlConnected ==
    /\ pending # "none" /\ Len(events) < MaxUnread
    /\ \E h \in Handles :
         /\ linkUp' = TRUE /\ linkHandle' = h
         /\ Raise(<<ConnFrame("connOk", h)>>)
    /\ pending' = "none"
    /\ UNCHANGED <<transport, enc, sharedKey, owed, notifying, cmds>>

\* Connection establishment failed (0x3e).
CtlConnectFailed ==
    /\ pending # "none"
    /\ Raise(<<ConnFrame("connFail", 0)>>)
    /\ pending' = "none"
    /\ UNCHANGED <<transport, linkUp, linkHandle, enc, sharedKey, owed, notifying, cmds>>

\* A Random that is still queued is of no use on another link.
Outlived(e) == IF e.kind = "randGood" THEN [e EXCEPT !.age = "old"] ELSE e

\* The peer leaves, or the supervision timeout expires.
CtlLinkLost ==
    /\ linkUp
    /\ events' = Append([i \in DOMAIN events |-> Outlived(events[i])], LinkFrame("disconn"))
    /\ linkUp' = FALSE /\ linkHandle' = 0 /\ enc' = "off" /\ owed' = {}
    /\ sharedKey' = FALSE /\ notifying' = FALSE
    /\ UNCHANGED <<transport, pending, cmds>>

\* Encryption fails, the key is asked for first, or it starts: with one key on both sides.
CtlEncrypted ==
    /\ enc \in {"starting", "keyed"}
    /\ \/ sharedKey /\ enc' = "on" /\ Raise(<<LinkFrame("encOk")>>)
       \/ enc' = "off" /\ Raise(<<LinkFrame("encFail")>>)
       \/ enc = "starting" /\ enc' = "ltk" /\ Raise(<<LinkFrame("ltkReq")>>)
    /\ UNCHANGED <<transport, pending, linkUp, linkHandle, sharedKey, owed, notifying, cmds>>

\* What may come back for a request.  A characteristic list may be longer than the
\* caller's 64 bytes ("attBig"); a Random may or may not match the Confirm before it.
Answers(r) ==
    CASE r = "preq"    -> {"pres", "pairFailed"}
      [] r = "confirm" -> {"confirm", "pairFailed"}
      [] r = "random"  -> {"randGood", "randBad"}
      [] r = "chars"   -> {"attRsp", "attBig", "attErr"}
      [] OTHER         -> {"attRsp", "attErr"}

PeerAnswer ==
    \E r \in owed :
      /\ owed' = owed \ {r}
      /\ \E k \in Answers(r) :
           /\ Raise(<<LinkFrame(k)>>)
           /\ notifying' = (notifying \/ (r = "cccd" /\ k = "attRsp"))
      /\ UNCHANGED <<transport, pending, linkUp, linkHandle, enc, sharedKey, cmds>>

\* A Security Request before encryption, a notification after the CCCD is written; or an
\* event of the link the daemon has no use for (completed packets, a connection update).
PeerSpeaks ==
    /\ linkUp /\ Len(events) < MaxUnread
    /\ \/ enc = "off" /\ Raise(<<LinkFrame("secReq")>>)
       \/ notifying /\ Raise(<<LinkFrame("notify")>>)
       \/ Raise(<<Frame("other")>>)
    /\ UNCHANGED <<transport, pending, linkUp, linkHandle, enc, sharedKey, owed, notifying, cmds>>

\* The adapter is gone; frames already on the socket can still be read.
Unplug ==
    /\ transport = "up"
    /\ transport' = "dead"
    /\ pending' = "none" /\ linkUp' = FALSE /\ linkHandle' = 0 /\ enc' = "off"
    /\ owed' = {} /\ sharedKey' = FALSE /\ notifying' = FALSE /\ cmds' = <<>>
    /\ UNCHANGED events

CtlNext == CtlCommand \/ CtlConnected \/ CtlConnectFailed \/ CtlLinkLost
           \/ CtlEncrypted \/ PeerAnswer \/ PeerSpeaks \/ Unplug

=============================================================================
