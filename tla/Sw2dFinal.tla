------------------------------ MODULE Sw2dFinal ------------------------------
(***************************************************************************)
(* sw2d_final.c on hci_transport_user.c: a single-threaded daemon that     *)
(* owns the controller through an HCI user channel.  Its main loop cancels *)
(* a pending connection attempt, connects, pairs (SMP Just Works), starts  *)
(* encryption, runs the ATT/GATT exchange and reads input reports.  pc is  *)
(* the wait the daemon is in; an action is what it does with one frame, a  *)
(* deadline or a signal, up to the next wait, with the requests it sends   *)
(* on the way.  session_t.state is a function of pc and is not kept.       *)
(***************************************************************************)
EXTENDS HciController

CONSTANTS
    ArgSets,            \* sets of command-line options, subsets of ArgNames
    DrainMax,           \* frames hci_user_cancel_connect reads at most (5 in the code)
    SlowController      \* may the answer to a cancel take longer than the 200 ms read

ArgNames == {"preflight", "exclusive_hci", "host_bdaddr", "bdaddr", "auto_scan", "scan_only", "usb_init"}

ASSUME Sw2dAssumption == /\ ArgSets \subseteq SUBSET ArgNames
                         /\ DrainMax \in Nat \ {0}
                         /\ SlowController \in BOOLEAN

VARIABLES
    args,
    pc,
    running,            \* g_running
    didCancel,          \* session_t.did_cancel
    connHandle,         \* session_t.conn_handle
    drained             \* the loop counter of hci_user_cancel_connect

sessVars == <<args, pc, running, didCancel, connHandle, drained>>
vars == <<sessVars, ctlVars>>

PairingWaits == {"awaitPres", "awaitPres2", "awaitConf", "awaitRand", "awaitEnc"}
AttWaits == {"awaitMtu", "awaitSvc", "awaitChar", "awaitCccd"}
TimedWaits == {"awaitConn"} \cup PairingWaits \cup AttWaits
Points == {"start", "open", "init", "scan", "loop", "drain", "create", "report", "exit"} \cup TimedWaits

TypeOK ==
    /\ CtlTypeOK
    /\ args \in ArgSets
    /\ pc \in Points
    /\ running \in BOOLEAN /\ didCancel \in BOOLEAN
    /\ connHandle \in Handles
    /\ drained \in 0 .. DrainMax

Init ==
    /\ CtlInit
    /\ args \in ArgSets
    /\ pc = "start" /\ running = TRUE /\ didCancel = FALSE /\ connHandle = 0 /\ drained = 0

\* SIGINT or SIGTERM.
Signal ==
    /\ pc # "exit" /\ running
    /\ running' = FALSE
    /\ UNCHANGED <<args, pc, didCancel, connHandle, drained, ctlVars>>

-----------------------------------------------------------------------------
(* Sending and reading *)

Dead == transport = "dead"
quiet == <<args, running, didCancel, connHandle, drained>>
wire == <<transport, pending, linkUp, linkHandle, enc, notifying>>
chip == <<wire, sharedKey>>

\* hci_user_acl_send: the controller passes data on if it knows the handle and drops it
\* otherwise; only a dead transport makes the write fail.
SendAcl(h, r, next) ==
    /\ pc' = IF Dead THEN "loop" ELSE next
    /\ owed' = IF linkUp /\ linkHandle = h THEN owed \cup {r} ELSE owed

\* hci_user_send_cmd
SendCmd(c) == cmds' = IF Dead THEN cmds ELSE Append(cmds, c)

HeadIs(K) == events # <<>> /\ Head(events).kind \in K
\* An ACL frame for this connection.
Mine(K) == HeadIs(K) /\ Head(events).h = connHandle
Consume == events' = Tail(events)
Ignored == Consume /\ UNCHANGED <<quiet, pc, chip, owed, cmds>>

\* The deadline of the wait passes, or g_running went to 0: rc = -1.
Expired == Len(events) <= MaxUnread \/ ~running

\* goto reconnect, having read a frame
Abandon == /\ pc' = "loop"
           /\ Consume /\ UNCHANGED <<quiet, chip, owed, cmds>>

\* goto reconnect, at the deadline
GiveUp == pc' = "loop" /\ UNCHANGED <<quiet, ctlVars>>

-----------------------------------------------------------------------------
(* Start-up *)

Scans == args \cap {"auto_scan", "usb_init"} # {} /\ "bdaddr" \notin args

\* Leave main without having opened the socket, or closing it again.
Leave == pc' = "exit" /\ UNCHANGED <<quiet, ctlVars>>

RunPreflight == pc = "start" /\ "preflight" \in args /\ Leave
Starting == pc = "start" /\ "preflight" \notin args

\* Other Bluetooth clients run, and --kill-bluez-clients was not given or did not help.
GuardRefuses == Starting /\ "exclusive_hci" \in args /\ Leave

\* str2ba refuses an address of the command line.
BadAddress == Starting /\ args \cap {"bdaddr", "host_bdaddr"} # {} /\ Leave

UsbPrepFails == Starting /\ "usb_init" \in args /\ Leave

Prepared == Starting /\ pc' = "open" /\ UNCHANGED <<quiet, ctlVars>>

\* hci_user_open: hci_bring_down may fail and is passed over; the bind decides.
OpenFails == pc = "open" /\ Leave
OpenOk == pc = "open" /\ ~Dead /\ pc' = "init" /\ UNCHANGED <<quiet, ctlVars>>

\* hci_user_init: reset and event mask; only a failed write counts.  Without --bdaddr and
\* without a scan there is no peer to connect to.
InitFails == pc = "init" /\ Dead /\ Leave
InitOk ==
    /\ pc = "init" /\ ~Dead
    /\ pc' = CASE Scans -> "scan" [] "bdaddr" \in args -> "loop" [] OTHER -> "exit"
    /\ UNCHANGED <<quiet, ctlVars>>

StartUp == \/ RunPreflight \/ GuardRefuses \/ BadAddress \/ UsbPrepFails \/ Prepared
           \/ OpenFails \/ OpenOk \/ InitFails \/ InitOk

\* scan_for_peer_user saw the controller; the answer to its last command stays unread.
ScanFound ==
    /\ pc = "scan" /\ ~Dead
    /\ pc' = IF "scan_only" \in args THEN "exit" ELSE "loop"
    /\ Raise(<<Frame("other")>>)
    /\ UNCHANGED <<quiet, chip, owed, cmds>>

\* The scan timed out, a signal ended it, or a command could not be sent.
ScanFailed == pc = "scan" /\ Leave

-----------------------------------------------------------------------------
(* The reconnect loop *)

\* What belonged to the session just ended belongs to an old one from here on.
Aged(e) == IF e.kind \in {"connOk", "connFail"} THEN [e EXCEPT !.age = "old"] ELSE e
BeginSession ==
    /\ pending' = IF pending = "none" THEN "none" ELSE "old"
    /\ events' = [i \in DOMAIN events |-> Aged(events[i])]
    /\ connHandle' = 0
    /\ didCancel' = TRUE

\* Mutant: the cancel is skipped.
StartSession_NoCancel ==
    /\ pc = "loop" /\ running /\ cmds = <<>>
    /\ BeginSession
    /\ pc' = "create" /\ cmds' = cmds
    /\ drained' = 0
    /\ UNCHANGED <<args, running, transport, linkUp, linkHandle, enc, sharedKey, notifying, owed>>

\* The sleep is over (1 s at least: the controller has taken every command): start a
\* session, with hci_user_cancel_connect first if did_cancel is set.
\* last_disconnect_reason has just been cleared and never triggers the cancel.
StartSession ==
    /\ pc = "loop" /\ running /\ cmds = <<>>
    /\ BeginSession
    /\ IF didCancel /\ ~Dead
       THEN pc' = "drain" /\ cmds' = <<"cancel">>
       ELSE pc' = "create" /\ cmds' = cmds
    /\ drained' = 0
    /\ UNCHANGED <<args, running, transport, linkUp, linkHandle, enc, sharedKey, notifying, owed>>

\* g_running is 0: close the socket and return.
StopLoop ==
    /\ pc = "loop" /\ ~running
    /\ pc' = "exit"
    /\ UNCHANGED <<quiet, ctlVars>>

\* Mutant: one frame too many.
DrainRead_OneMore ==
    /\ pc = "drain" /\ events # <<>>
    /\ Consume
    /\ drained' = drained + 1
    /\ pc' = IF HeadIs({"cancelDone"}) \/ drained' > DrainMax THEN "create" ELSE "drain"
    /\ UNCHANGED <<args, running, didCancel, connHandle, chip, owed, cmds>>

\* One frame of the drain: whatever it is, it is gone.
DrainRead ==
    /\ pc = "drain" /\ events # <<>>
    /\ Consume
    /\ drained' = drained + 1
    /\ pc' = IF HeadIs({"cancelDone"}) \/ drained' = DrainMax THEN "create" ELSE "drain"
    /\ UNCHANGED <<args, running, didCancel, connHandle, chip, owed, cmds>>

DrainTimeout ==
    /\ pc = "drain" /\ events = <<>> /\ (Dead \/ SlowController)
    /\ pc' = "create"
    /\ UNCHANGED <<quiet, ctlVars>>

\* le_create_conn
CreateConn ==
    /\ pc = "create"
    /\ SendCmd("create")
    /\ pc' = IF Dead THEN "loop" ELSE "awaitConn"
    /\ UNCHANGED <<quiet, chip, owed, events>>

-----------------------------------------------------------------------------
(* Phase 1: rx_await for LE Connection Complete *)

\* Mutant: did_cancel is cleared as soon as there is a connection.
ConnComplete_Early ==
    /\ pc = "awaitConn" /\ HeadIs({"connOk"}) /\ cmds = <<>>
    /\ connHandle' = Head(events).h
    /\ didCancel' = FALSE
    /\ SendAcl(Head(events).h, "preq", "awaitPres")
    /\ Consume /\ UNCHANGED <<args, running, drained, chip, cmds>>

\* Connected: settle for 200 ms, in which the controller takes what was sent to it, then
\* the Pairing Request.
ConnComplete ==
    /\ pc = "awaitConn" /\ HeadIs({"connOk"}) /\ cmds = <<>>
    /\ connHandle' = Head(events).h
    /\ SendAcl(Head(events).h, "preq", "awaitPres")
    /\ Consume /\ UNCHANGED <<args, running, didCancel, drained, chip, cmds>>

ConnRefused == pc = "awaitConn" /\ HeadIs({"connFail", "disconn"}) /\ Abandon
ConnOther == pc = "awaitConn" /\ events # <<>> /\ ~HeadIs({"connOk", "connFail", "disconn"}) /\ Ignored
ConnTimeout == pc = "awaitConn" /\ cmds = <<>> /\ Expired /\ GiveUp

AwaitConn == ConnComplete \/ ConnRefused \/ ConnOther

-----------------------------------------------------------------------------
(* Phase 2: SMP *)

\* rx_await_acl leaves everything but a disconnect and an SMP frame of this handle.
SmpOther(p) == pc = p /\ events # <<>> /\ ~HeadIs({"disconn"}) /\ ~Mine(SmpKinds) /\ Ignored

\* The Pairing Response, then the Confirm.
PairingResponse ==
    /\ pc \in {"awaitPres", "awaitPres2"} /\ Mine({"pres"})
    /\ SendAcl(connHandle, "confirm", "awaitConf")
    /\ Consume /\ UNCHANGED <<quiet, chip, cmds>>

\* Mutant: every Security Request restarts the wait.
SecurityRequest_Again ==
    /\ pc \in {"awaitPres", "awaitPres2"} /\ Mine({"secReq"})
    /\ pc' = IF pc = "awaitPres" THEN "awaitPres2" ELSE "awaitPres"
    /\ Consume /\ UNCHANGED <<quiet, chip, owed, cmds>>

\* A Security Request instead: wait once more.
SecurityRequest ==
    /\ pc = "awaitPres" /\ Mine({"secReq"})
    /\ pc' = "awaitPres2"
    /\ Consume /\ UNCHANGED <<quiet, chip, owed, cmds>>

PairingRefused ==
    \/ pc = "awaitPres" /\ (HeadIs({"disconn"}) \/ Mine(SmpKinds \ {"pres", "secReq"})) /\ Abandon
    \/ pc = "awaitPres2" /\ (HeadIs({"disconn"}) \/ Mine(SmpKinds \ {"pres"})) /\ Abandon

\* At the first deadline buf was never written: buf[0] may read as a Security Request.
PresTimeout ==
    /\ pc = "awaitPres" /\ Expired
    /\ pc' \in {"loop", "awaitPres2"}
    /\ UNCHANGED <<quiet, ctlVars>>

Pres2Timeout == pc = "awaitPres2" /\ Expired /\ GiveUp

\* The slave's Confirm, then the Random.
SlaveConfirm ==
    /\ pc = "awaitConf" /\ Mine({"confirm"})
    /\ SendAcl(connHandle, "random", "awaitRand")
    /\ Consume /\ UNCHANGED <<quiet, chip, cmds>>

ConfirmRefused ==
    pc = "awaitConf" /\ (HeadIs({"disconn"}) \/ Mine(SmpKinds \ {"confirm"})) /\ Abandon

ConfTimeout == pc = "awaitConf" /\ Expired /\ GiveUp

\* smp_c1 of the slave's Random gives the Confirm it sent before.
Verified == Mine({"randGood"})

\* The slave's Random is verified: derive the STK, LE Start Encryption.  The peer has the
\* same key if it is the peer of the present link that sent this Random.
SlaveRandom ==
    /\ pc = "awaitRand" /\ Verified
    /\ sharedKey' = (Head(events).age = "this" /\ linkUp)
    /\ SendCmd("startEnc")
    /\ pc' = IF Dead THEN "loop" ELSE "awaitEnc"
    /\ Consume /\ UNCHANGED <<quiet, wire, owed>>

RandomRefused ==
    pc = "awaitRand" /\ (HeadIs({"disconn"}) \/ (Mine(SmpKinds) /\ ~Verified)) /\ Abandon

RandTimeout == pc = "awaitRand" /\ Expired /\ GiveUp

Pairing == \/ PairingResponse \/ SecurityRequest \/ PairingRefused
           \/ SlaveConfirm \/ ConfirmRefused \/ SlaveRandom \/ RandomRefused
           \/ \E p \in PairingWaits \ {"awaitEnc"} : SmpOther(p)

-----------------------------------------------------------------------------
(* Phase 3: encryption *)

\* Mutant: the status of the Encryption Change is not looked at.
EncryptionOn_AnyStatus ==
    /\ pc = "awaitEnc" /\ Mine({"encOk", "encFail"})
    /\ didCancel' = FALSE
    /\ SendAcl(connHandle, "mtu", "awaitMtu")
    /\ Consume /\ UNCHANGED <<args, running, connHandle, drained, chip, cmds>>

\* ENCRYPTED: no cancel next time; the MTU request.
EncryptionOn ==
    /\ pc = "awaitEnc" /\ Mine({"encOk"})
    /\ didCancel' = FALSE
    /\ SendAcl(connHandle, "mtu", "awaitMtu")
    /\ Consume /\ UNCHANGED <<args, running, connHandle, drained, chip, cmds>>

LtkRequest ==
    /\ pc = "awaitEnc" /\ HeadIs({"ltkReq"})
    /\ SendCmd("ltkReply")
    /\ Consume /\ UNCHANGED <<quiet, pc, chip, owed>>

\* Mutant: a disconnect during encryption is passed over.
EncryptionLost_Ignored == pc = "awaitEnc" /\ HeadIs({"disconn"}) /\ Ignored

EncryptionLost == pc = "awaitEnc" /\ HeadIs({"disconn"}) /\ Abandon

\* Everything else, a failed Encryption Change too: wait on.
EncryptionOther ==
    pc = "awaitEnc" /\ events # <<>> /\ ~Mine({"encOk"}) /\ ~HeadIs({"disconn", "ltkReq"}) /\ Ignored

EncTimeout == pc = "awaitEnc" /\ Expired /\ GiveUp

Encryption == EncryptionOn \/ LtkRequest \/ EncryptionLost \/ EncryptionOther

-----------------------------------------------------------------------------
(* Phase 4: ATT/GATT *)

AttOther(p) == pc = p /\ events # <<>> /\ ~HeadIs({"disconn"}) /\ ~Mine(AttKinds) /\ Ignored

\* Any ATT frame ends the wait, a late answer to an earlier request too, and so does a
\* disconnect: rc = -2 is treated like any other missing answer.
MtuDone ==
    /\ pc = "awaitMtu" /\ (HeadIs({"disconn"}) \/ Mine(AttKinds))
    /\ SendAcl(connHandle, "services", "awaitSvc")
    /\ Consume /\ UNCHANGED <<quiet, chip, cmds>>

MtuTimeout ==
    /\ pc = "awaitMtu" /\ Expired
    /\ SendAcl(connHandle, "services", "awaitSvc")
    /\ UNCHANGED <<quiet, chip, cmds, events>>

SvcDone ==
    /\ pc = "awaitSvc" /\ (HeadIs({"disconn"}) \/ Mine(AttKinds))
    /\ SendAcl(connHandle, "chars", "awaitChar")
    /\ Consume /\ UNCHANGED <<quiet, chip, cmds>>

SvcTimeout ==
    /\ pc = "awaitSvc" /\ Expired
    /\ SendAcl(connHandle, "chars", "awaitChar")
    /\ UNCHANGED <<quiet, chip, cmds, events>>

\* One frame of the characteristic loop.  An answer longer than buf is not copied: what
\* buf[0] then holds decides between going on and leaving.
CharFrame ==
    /\ pc = "awaitChar" /\ Mine(AttKinds \ {"attErr"})
    /\ Ignored

CharEnd ==
    /\ pc = "awaitChar" /\ Mine({"attErr", "attBig"})
    /\ SendAcl(connHandle, "cccd", "awaitCccd")
    /\ Consume /\ UNCHANGED <<quiet, chip, cmds>>

CharLost == pc = "awaitChar" /\ HeadIs({"disconn"}) /\ Abandon

CharTimeout ==
    /\ pc = "awaitChar" /\ Expired
    /\ SendAcl(connHandle, "cccd", "awaitCccd")
    /\ UNCHANGED <<quiet, chip, cmds, events>>

CccdDone ==
    /\ pc = "awaitCccd" /\ (HeadIs({"disconn"}) \/ Mine(AttKinds))
    /\ pc' = "report"
    /\ Consume /\ UNCHANGED <<quiet, chip, owed, cmds>>

CccdTimeout ==
    /\ pc = "awaitCccd" /\ Expired
    /\ pc' = "report"
    /\ UNCHANGED <<quiet, ctlVars>>

Att == MtuDone \/ SvcDone \/ CharFrame \/ CharEnd \/ CharLost \/ CccdDone
       \/ \E p \in AttWaits : AttOther(p)

-----------------------------------------------------------------------------
(* Phase 5: the report loop *)

ReportFrame == pc = "report" /\ running /\ events # <<>> /\ ~HeadIs({"disconn"}) /\ Ignored

\* Mutant: handle 0 is taken for "not connected".
ReportLost_NonZero ==
    /\ pc = "report" /\ HeadIs({"disconn"}) /\ running
    /\ IF Head(events).h = 0 THEN pc' = pc ELSE pc' = "loop"
    /\ didCancel' = FALSE
    /\ Consume /\ UNCHANGED <<args, running, connHandle, drained, chip, owed, cmds>>

ReportLost ==
    /\ pc = "report" /\ HeadIs({"disconn"}) /\ running
    /\ pc' = "loop"
    /\ didCancel' = FALSE
    /\ Consume /\ UNCHANGED <<args, running, connHandle, drained, chip, owed, cmds>>

\* Mutant: the loop does not test g_running.
ReportStop_Never ==
    /\ pc = "report" /\ ~running /\ Dead
    /\ pc' = "loop"
    /\ didCancel' = FALSE
    /\ UNCHANGED <<args, running, connHandle, drained, ctlVars>>

ReportStop ==
    /\ pc = "report" /\ ~running
    /\ pc' = "loop"
    /\ didCancel' = FALSE
    /\ UNCHANGED <<args, running, connHandle, drained, ctlVars>>

Report == ReportFrame \/ ReportLost \/ ReportStop

-----------------------------------------------------------------------------

\* What the daemon does without waiting for a deadline.
DaemonStep == \/ StartUp \/ ScanFound \/ ScanFailed
              \/ StartSession \/ StopLoop \/ DrainRead \/ DrainTimeout \/ CreateConn
              \/ AwaitConn \/ Pairing \/ Encryption \/ Att \/ Report

Timeout == \/ ConnTimeout \/ PresTimeout \/ Pres2Timeout \/ ConfTimeout \/ RandTimeout
           \/ EncTimeout \/ MtuTimeout \/ SvcTimeout \/ CharTimeout \/ CccdTimeout

Finished == pc = "exit" /\ UNCHANGED vars

Next == \/ Signal \/ DaemonStep \/ Timeout
        \/ pc # "exit" /\ CtlNext /\ UNCHANGED sessVars
        \/ Finished

Spec == Init /\ [][Next]_vars

\* The process runs, the controller takes its commands, and every wait has a deadline of
\* its own (now_ms() + timeout), which frames that keep arriving do not postpone.
FairSpec ==
    /\ Spec
    /\ WF_vars(DaemonStep)
    /\ WF_vars(CtlCommand /\ UNCHANGED sessVars)
    /\ \A p \in TimedWaits : WF_vars(pc = p /\ Timeout)

-----------------------------------------------------------------------------
(* Properties *)

Queued(k) == \E i \in DOMAIN events : events[i].kind = k

\* "Multiple connect/disconnect cycles without CMD_STATUS 0x0c" (sw2d_final.c): the
\* controller never meets an LE Create Connection while one is pending, although did_cancel
\* is cleared on the way and the drain may leave or lose frames.
NoCreateWhilePending ==
    cmds # <<>> /\ Head(cmds) = "create" => pending = "none"

\* "ATT/GATT only after ENCRYPTED state" (usage): whenever the ATT exchange or the report
\* loop runs and there is a link, that link is encrypted and is the one the daemon addresses.
AttOnEncrypted ==
    pc \in AttWaits \cup {"report"} /\ linkUp => enc = "on" /\ linkHandle = connHandle

\* While the daemon pairs, the connection it pairs on is there, or the event that tells it
\* otherwise is still to be read: neither the drain nor an earlier wait has taken it away.
PairingLinkKnown ==
    pc \in PairingWaits /\ ~Dead =>
        (linkUp /\ linkHandle = connHandle) \/ Queued("disconn")

\* A session without did_cancel finds a controller with nothing to cancel: no attempt is
\* pending and no link is left behind when it starts.
CleanWithoutCancel ==
    pc = "loop" /\ ~didCancel /\ running => pending = "none" /\ ~linkUp

\* Every attempt comes to the report loop or to the end of the session, whatever the peer
\* sends and however it delays.
AttemptEnds == pc = "create" ~> pc \in {"report", "loop", "exit"}

\* A signal ends the process, from every wait.
SignalEnds == ~running ~> pc = "exit"

\* A disconnect that is still queued when the report loop runs ends the session.
QueuedDisconnectEnds == (pc = "report" /\ Queued("disconn")) ~> pc # "report"

\* "handles disconnects gracefully" (RESEARCH.md), "Always handle disconnects" (rx_await):
\* a daemon whose link is gone leaves the report loop (unless the adapter goes too).
DisconnectNoticed == (pc = "report" /\ ~linkUp /\ ~Dead) ~> (pc # "report" \/ Dead)

\* "we MUST drain ... otherwise they'll be read as the response to our next command"
\* (hci_user_cancel_connect): the wait for a connection meets no answer to an older attempt.
RetryIsClean ==
    pc = "awaitConn" => \A i \in DOMAIN events : events[i].kind = "connFail" => events[i].age = "this"

=============================================================================
