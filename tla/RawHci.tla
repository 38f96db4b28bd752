-------------------------------- MODULE RawHci --------------------------------
(***************************************************************************)
(* The programs on a raw HCI socket, run one after the other:              *)
(*   sw2d   sw2d.c, which reads a packet in three reads                    *)
(*   two    two_socket_test.c, which reads a frame at a time               *)
(*   lib    sw2d_lib.c, on libbluetooth's hci_le_create_conn               *)
(*   test   hciletest.c, likewise, with a blocking read of the answer      *)
(*   acl    acltest.c, on hcitool lecc, with two reads per packet          *)
(* They share the controller: none of them cancels an attempt it gave up,  *)
(* and only hciletest disconnects.  An action is one call that can wait,   *)
(* with what follows it up to the next.                                    *)
(***************************************************************************)
EXTENDS HciRawSocket

CONSTANTS
    PollMax,        \* rounds of a wait: 120, 60, 20 and 30 in the code
    MaxBackoff      \* 16: the delay is doubled up to it

ASSUME RawAssumption == PollMax \in Nat \ {0} /\ MaxBackoff \in {1, 2, 4, 8, 16}

VARIABLES
    prog,           \* the running program or "none"
    pc,             \* the call it is in
    polls,          \* rounds of its wait so far
    need,           \* bytes hci_read_packet still wants
    buf,            \* the front of the packet it puts together
    running,        \* sw2d.c's and sw2d_lib.c's flag
    backoff,        \* sw2d.c's delay
    result,         \* of the last connection attempt: "none", "ok" or "failed"
    seen            \* history: a successful Connection Complete has come on this socket

procVars == <<prog, pc, polls, need, buf, running, backoff, result, seen>>
vars == <<procVars, socketVars>>

Looked == 6          \* no program looks further into a packet

TypeOK ==
    /\ SocketTypeOK
    /\ prog \in {"none", "sw2d", "two", "lib", "test", "acl"}
    /\ pc \in {"none", "usb", "open", "poll", "hdr", "payload", "connected", "sleep",
               "drain", "wait", "answer", "data", "att"}
    /\ polls \in 0 .. PollMax /\ need \in 0 .. 255
    /\ buf \in Seq(0 .. 255) /\ Len(buf) <= Looked
    /\ running \in BOOLEAN /\ backoff \in 1 .. MaxBackoff
    /\ result \in {"none", "ok", "failed"} /\ seen \in BOOLEAN

Init ==
    /\ SocketInit
    /\ prog = "none" /\ pc = "none" /\ polls = 0 /\ need = 0 /\ buf = <<>>
    /\ running = TRUE /\ backoff = 1 /\ result = "none" /\ seen = FALSE

ctlVars == <<pending, link>>
readVars == <<need, buf>>

-----------------------------------------------------------------------------
(* Common parts *)

\* The process ends; its sockets are closed.
ExitWith(r) ==
    /\ prog' = "none" /\ pc' = "none" /\ result' = r
    /\ polls' = 0 /\ need' = 0 /\ buf' = <<>> /\ running' = TRUE /\ backoff' = 1
    /\ CloseSocket /\ UNCHANGED <<seen, ctlVars>>

\* The program goes on at p, with n rounds of the wait there behind it.
At(p, n) == pc' = p /\ polls' = n

\* An LE Connection Complete, as le_create_conn and libbluetooth find it in a frame.
IsConnComplete(f) ==
    f[1] = HCI_EVENT_PKT /\ f[2] = EVT_LE_META /\ f[3] >= 19 /\ f[4] = EVT_LE_CONN_COMPLETE

\* Programs start one at a time, at a shell.
Start(p, at) ==
    /\ prog = "none" /\ prog' = p /\ At(at, 0)
    /\ UNCHANGED <<readVars, running, backoff>>

\* The socket is open and LE Create Connection is sent.
Created(f) == OpenAndCreate(f) /\ result' = "none" /\ seen' = FALSE

-----------------------------------------------------------------------------
(* sw2d.c *)

StartSw2d ==
    /\ \E at \in {"usb", "open"} : Start("sw2d", at)
    /\ UNCHANGED <<result, seen, socketVars>>

\* usb_init_controller, then sleep(8); without the device, exit 1.
UsbOk ==
    /\ pc = "usb" /\ pc' = "open"
    /\ UNCHANGED <<prog, polls, readVars, running, backoff, result, seen, socketVars>>

UsbFails == pc = "usb" /\ ExitWith("failed")

\* hci_open, set_exact_connect_filter, hci_send_cmd.
SessionOpens ==
    /\ prog = "sw2d" /\ pc = "open" /\ running
    /\ Created("connect") /\ At("poll", 0)
    /\ UNCHANGED <<prog, readVars, running, backoff>>

SessionFails ==
    /\ pc = "open" /\ running
    /\ At("sleep", 0) /\ result' = "failed" /\ CloseSocket
    /\ UNCHANGED <<prog, readVars, running, backoff, seen, ctlVars>>

\* Mutant: the wait goes on without end and without a look at running.
PollTimeout_Forever ==
    /\ pc = "poll" /\ prog = "sw2d" /\ rx = <<>>
    /\ polls' = (polls + 1) % PollMax
    /\ UNCHANGED <<prog, pc, readVars, running, backoff, result, seen, socketVars>>

\* poll() ends after 100 ms with nothing to read.
PollTimeout ==
    /\ pc = "poll" /\ prog = "sw2d" /\ running /\ polls < PollMax /\ rx = <<>>
    /\ polls' = polls + 1
    /\ UNCHANGED <<prog, pc, readVars, running, backoff, result, seen, socketVars>>

\* hci_connect_le looks at the packet: anything but a Connection Complete is passed over.
Packet(p) ==
    IF IsConnComplete(p)
    THEN /\ result' = IF p[5] = 0 THEN "ok" ELSE "failed"
         /\ At(IF p[5] = 0 THEN "connected" ELSE "sleep", 0)
    ELSE At("poll", polls + 1) /\ UNCHANGED result

Rest == <<prog, running, backoff, seen, filter, ctlVars>>

\* Mutant: a frame is read in one call.
ReadType_Frame ==
    /\ pc = "poll" /\ prog = "sw2d" /\ running /\ polls < PollMax /\ rx # <<>>
    /\ Packet(Head(rx)) /\ rx' = Tail(rx)
    /\ UNCHANGED <<readVars, Rest>>

\* read_full of the type byte takes a frame's first byte and drops the rest of it.
ReadType ==
    /\ pc = "poll" /\ prog = "sw2d" /\ running /\ polls < PollMax /\ rx # <<>>
    /\ buf' = SubSeq(Head(rx), 1, 1) /\ rx' = Tail(rx)
    /\ pc' = "hdr"
    /\ UNCHANGED <<polls, need, result, Rest>>

\* read_full of the two header bytes waits for another frame, a signal or not.
ReadHeader ==
    /\ pc = "hdr" /\ rx # <<>>
    /\ buf' = buf \o SubSeq(Head(rx), 1, 2) /\ need' = Head(rx)[2] /\ rx' = Tail(rx)
    /\ pc' = "payload"
    /\ UNCHANGED <<polls, result, Rest>>

\* read_full of the payload: as many frames as it takes.
ReadPayload ==
    LET f == Head(rx)
        got == IF Len(f) < need THEN Len(f) ELSE need
        pkt == SubSeq(buf \o SubSeq(f, 1, got), 1, IF Len(buf) + got < Looked THEN Len(buf) + got ELSE Looked)
    IN  /\ pc = "payload" /\ rx # <<>> /\ rx' = Tail(rx)
        /\ IF got < need
           THEN buf' = pkt /\ need' = need - got /\ UNCHANGED <<pc, polls, result>>
           ELSE Packet(pkt) /\ buf' = <<>> /\ need' = 0
        /\ UNCHANGED Rest

\* The wait is over, or a signal ended it: run_session returns -1, the socket is closed.
WaitOver ==
    /\ pc = "poll" /\ prog = "sw2d" /\ (polls = PollMax \/ ~running)
    /\ At("sleep", 0) /\ result' = "failed" /\ CloseSocket
    /\ UNCHANGED <<prog, readVars, running, backoff, seen, ctlVars>>

\* Mutant: the delay is doubled once too often.
Backoff_Late == IF backoff <= MaxBackoff THEN 2 * backoff ELSE backoff

Backoff == IF backoff < MaxBackoff THEN 2 * backoff ELSE backoff

Sleeps ==
    /\ pc = "sleep" /\ running /\ At("open", 0) /\ backoff' = Backoff
    /\ UNCHANGED <<prog, readVars, running, result, seen, socketVars>>

Stops == pc \in {"sleep", "open"} /\ ~running /\ ExitWith(result)

\* on_signal
Signal ==
    /\ prog \in {"sw2d", "lib"} /\ running /\ running' = FALSE
    /\ UNCHANGED <<prog, pc, polls, readVars, backoff, result, seen, socketVars>>

Sw2dStep ==
    \/ UsbOk \/ UsbFails \/ SessionOpens \/ SessionFails \/ PollTimeout
    \/ ReadType \/ ReadHeader \/ ReadPayload \/ WaitOver \/ Sleeps \/ Stops

-----------------------------------------------------------------------------
(* two_socket_test.c *)

StartTwo == Start("two", "poll") /\ Created("all")

\* read_evt ends with nothing.
TwoTimeout ==
    /\ prog = "two" /\ pc \in {"poll", "drain"} /\ polls < PollMax /\ rx = <<>>
    /\ polls' = polls + 1
    /\ UNCHANGED <<prog, pc, readVars, running, backoff, result, seen, socketVars>>

\* Mutant: only silence counts as a round.
TwoIgnores_Free ==
    /\ prog = "two" /\ pc = "poll" /\ polls < PollMax /\ rx # <<>> /\ ~IsConnComplete(Head(rx))
    /\ rx' = Tail(rx)
    /\ UNCHANGED <<pc, polls, readVars, result, Rest>>

\* le_create_conn passes over every other event.  Its own Command Status is one of them, with
\* an error too: get_le16(ev + 1) starts at the count of free commands, gives 0x0d01 and never
\* 0x200d, so that the status is not looked at.
TwoIgnores ==
    /\ prog = "two" /\ pc = "poll" /\ polls < PollMax /\ rx # <<>> /\ ~IsConnComplete(Head(rx))
    /\ polls' = polls + 1 /\ rx' = Tail(rx)
    /\ UNCHANGED <<pc, readVars, result, Rest>>

\* Mutant: the status byte is not looked at.
TwoConnected_AnyStatus ==
    /\ prog = "two" /\ pc = "poll" /\ polls < PollMax /\ rx # <<>>
    /\ IsConnComplete(Head(rx))
    /\ ExitWith("ok")

\* main: handle > 0 is success, so handle 0 is reported as a failure.
TwoConnected ==
    /\ prog = "two" /\ pc = "poll" /\ polls < PollMax /\ rx # <<>>
    /\ IsConnComplete(Head(rx)) /\ Head(rx)[5] = 0
    /\ ExitWith(IF Head(rx)[6] > 0 THEN "ok" ELSE "failed")

\* A failed connection: twenty more frames or rounds for its Disconnection Complete.
TwoFailed ==
    /\ prog = "two" /\ pc = "poll" /\ polls < PollMax /\ rx # <<>>
    /\ IsConnComplete(Head(rx)) /\ Head(rx)[5] # 0
    /\ At("drain", 0) /\ rx' = Tail(rx)
    /\ UNCHANGED <<readVars, result, Rest>>

TwoDrains ==
    /\ prog = "two" /\ pc = "drain" /\ polls < PollMax /\ rx # <<>>
    /\ IF Head(rx)[2] = EVT_DISCONN_COMPLETE
       THEN ExitWith("failed")
       ELSE polls' = polls + 1 /\ rx' = Tail(rx) /\ UNCHANGED <<pc, readVars, result, Rest>>

TwoOver == prog = "two" /\ polls = PollMax /\ ExitWith("failed")

TwoStep == TwoTimeout \/ TwoIgnores \/ TwoConnected \/ TwoFailed \/ TwoDrains \/ TwoOver

-----------------------------------------------------------------------------
(* sw2d_lib.c and hciletest.c; hcitool lecc, which acltest.c runs, waits in the same way *)

\* hci_open_dev and the first half of hci_le_create_conn, under a filter of its own.
StartLib == \E p \in {"lib", "test", "acl"} : Start(p, "wait") /\ Created("connect")

\* hci_le_create_conn returns the handle and puts the old filter back, which lets nothing
\* through; what is already queued stays.  The ATT request is written.
LibConnected ==
    /\ prog # "acl" /\ pc = "wait" /\ polls < PollMax
    /\ rx # <<>> /\ IsConnComplete(Head(rx)) /\ Head(rx)[5] = 0
    /\ rx' = Tail(rx) /\ filter' = "off" /\ result' = "ok" /\ At("answer", 0)
    /\ UNCHANGED <<prog, readVars, running, backoff, seen, ctlVars>>

\* At most ten frames are looked at.
LibIgnores ==
    /\ pc = "wait" /\ polls < PollMax /\ rx # <<>>
    /\ ~IsConnComplete(Head(rx)) /\ (Head(rx)[2] = EVT_CMD_STATUS => Head(rx)[4] = 0)
    /\ polls' = polls + 1 /\ rx' = Tail(rx)
    /\ UNCHANGED <<pc, readVars, result, Rest>>

\* An error status, ten frames, or six seconds.
LibFails == pc = "wait" /\ ExitWith("failed")

\* sw2d_lib.c: thirty rounds of poll and read.
LibRound ==
    /\ prog = "lib" /\ pc = "answer" /\ running /\ polls < PollMax
    /\ polls' = polls + 1 /\ rx' = IF rx = <<>> THEN rx ELSE Tail(rx)
    /\ UNCHANGED <<pc, readVars, result, Rest>>

LibOver == prog = "lib" /\ pc = "answer" /\ (polls = PollMax \/ ~running) /\ ExitWith(result)

\* hciletest.c: read() waits for a frame; hci_disconnect.
TestReads ==
    /\ prog = "test" /\ pc = "answer" /\ rx # <<>>
    /\ link' = FALSE /\ UNCHANGED pending
    /\ prog' = "none" /\ pc' = "none" /\ polls' = 0 /\ CloseSocket
    /\ UNCHANGED <<readVars, running, backoff, result, seen>>

LibStep == LibConnected \/ LibIgnores \/ LibFails \/ LibRound \/ LibOver \/ TestReads

-----------------------------------------------------------------------------
(* acltest.c *)

\* hcitool has printed the handle; a handle 0 is taken for none.  A socket of its own,
\* and an MTU request.
AclConnected ==
    /\ prog = "acl" /\ pc = "wait" /\ polls < PollMax /\ rx # <<>>
    /\ IsConnComplete(Head(rx)) /\ Head(rx)[5] = 0
    /\ IF Head(rx)[6] = 0
       THEN ExitWith("failed")
       ELSE /\ rx' = <<>> /\ filter' = "acl" /\ result' = "ok" /\ At("answer", 0)
            /\ UNCHANGED <<prog, readVars, running, backoff, seen, ctlVars>>

AclTimeout ==
    /\ prog = "acl" /\ pc = "answer" /\ polls < PollMax /\ rx = <<>>
    /\ polls' = polls + 1
    /\ UNCHANGED <<prog, pc, readVars, running, backoff, result, seen, socketVars>>

\* One byte of a frame; the rest of it is gone.
AclType ==
    /\ prog = "acl" /\ pc = "answer" /\ polls < PollMax /\ rx # <<>>
    /\ buf' = SubSeq(Head(rx), 1, 1) /\ rx' = Tail(rx)
    /\ pc' = "data"
    /\ UNCHANGED <<polls, need, result, Rest>>

\* The second read waits for the next frame, whose own type byte is where the packet should
\* begin.
AclRead ==
    /\ pc = "data" /\ rx # <<>> /\ rx' = Tail(rx) /\ buf' = <<>>
    /\ IF buf[1] = HCI_ACL_PKT /\ Head(rx)[3] = 4 /\ Head(rx)[4] = 0
       THEN At("att", 0)
       ELSE At("answer", polls + 1)
    /\ UNCHANGED <<need, result, Rest>>

AclOver ==
    /\ prog = "acl" /\ (pc = "att" \/ (pc = "answer" /\ polls = PollMax))
    /\ ExitWith(result)

AclStep == AclConnected \/ AclTimeout \/ AclType \/ AclRead \/ AclOver

-----------------------------------------------------------------------------

\* SIGINT ends the programs that have no handler.
Interrupt == prog \in {"two", "test", "acl"} /\ ExitWith(result)

Shell == StartSw2d \/ StartTwo \/ StartLib \/ Interrupt \/ Signal

ProgramStep == Sw2dStep \/ TwoStep \/ LibStep \/ AclStep

Controller ==
    /\ CtlStep
    /\ seen' = (seen \/ (pending /\ link' /\ ~link /\ filter # "off"))
    /\ UNCHANGED <<prog, pc, polls, need, buf, running, backoff, result>>

Next == Shell \/ ProgramStep \/ Controller

Spec == Init /\ [][Next]_vars

FairSpec == Spec /\ WF_vars(ProgramStep)

-----------------------------------------------------------------------------
(* Properties *)

\* sw2d.c reads the type, the header and the payload of a packet with three calls, acltest.c
\* with two, and each call takes another frame: whatever frames arrive, in whatever order,
\* hci_connect_le never sees a Connection Complete, so that nothing of run_session behind it
\* is reached, and acltest never recognises an ATT answer.  With one read per frame, as
\* two_socket_test.c has it, they do.
SplitReadIsBlind == pc \notin {"connected", "att"}

\* "SUCCESS: connection handle" and "connected handle=" are printed only when the controller
\* reported a connection on the socket of this run, also when a previous program left an
\* attempt pending or a connection up and two_socket_test, whose own LE Create Connection was
\* refused for it, waits on and reads what comes of the other one.
SuccessWasConnected == result = "ok" => seen

\* two_socket_test and sw2d_lib end, however many events of other activities arrive.
ProgramEnds == prog \in {"two", "lib"} ~> prog \notin {"two", "lib"}

\* on_signal: sw2d stops, or is stuck in a read that waits for a frame that never comes.
SignalEndsOrBlocks ==
    (prog = "sw2d" /\ ~running) ~> (prog # "sw2d" \/ (pc \in {"hdr", "payload"} /\ rx = <<>>))

=============================================================================
