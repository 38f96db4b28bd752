---------------------------- MODULE RawHciProofs ----------------------------
(***************************************************************************)
(* Safety of the raw-socket programs, for every set of connection handles, *)
(* every number of rounds of a wait and every number of unread frames.     *)
(***************************************************************************)
EXTENDS RawHci, SequenceTheorems, TLAPS

\* A successful Connection Complete.
Connects(f) == IsConnComplete(f) /\ f[5] = 0

\* What can be on the socket: with acltest's filter only ACL data and LE events, and no
\* Connection Complete that the controller has not sent on this socket.
Readable ==
    {f \in Frames : /\ filter = "acl" => f[1] = HCI_ACL_PKT \/ f[2] = EVT_LE_META
                    /\ Connects(f) => seen}

\* Which program is at which call.
Flow ==
    /\ pc = "none" <=> prog = "none"
    /\ pc \in {"usb", "open", "sleep", "hdr", "payload"} => prog = "sw2d"
    /\ pc = "poll" => prog \in {"sw2d", "two"}
    /\ pc = "drain" => prog = "two"
    /\ pc = "wait" => prog \in {"lib", "test", "acl"}
    /\ pc = "answer" => prog \in {"lib", "test", "acl"}
    /\ pc = "data" => prog = "acl"
    /\ pc = "data" \/ (pc = "answer" /\ prog = "acl") => filter = "acl"

\* A packet is begun only while a round is left, and the header's first byte, which came
\* from the front of a second frame, stands where an event's code is looked for.
Packets ==
    /\ pc \in {"hdr", "payload", "data"} => polls < PollMax
    /\ pc \in {"hdr", "data"} => Len(buf) = 1
    /\ pc = "payload" => Len(buf) >= 3 /\ buf[2] \in {HCI_ACL_PKT, HCI_EVENT_PKT}

RInv ==
    /\ TypeOK /\ backoff \in {1, 2, 4, 8, 16}
    /\ rx \in Seq(Readable)
    /\ Flow /\ Packets
    /\ SplitReadIsBlind /\ SuccessWasConnected
    /\ ~(pending /\ link)

-----------------------------------------------------------------------------
(* Frames *)

Byte == 0 .. 255

\* The kinds of frames, by the bytes the programs look at.
LEMMA StatusFrame ==
    ASSUME NEW st \in {0, 11, 12}
    PROVE  /\ CmdStatus(st) \in Seq(Byte) /\ Len(CmdStatus(st)) = 7
           /\ CmdStatus(st)[1] = 4 /\ CmdStatus(st)[2] = 15
  BY DEF CmdStatus, Byte, HCI_EVENT_PKT, EVT_CMD_STATUS

\* The bytes of a connection complete event.
LEMMA ConnFrame ==
    ASSUME NEW st \in {0, 62}, NEW h \in Handles \cup {0}
    PROVE  /\ ConnComplete(st, h) \in Seq(Byte) /\ Len(ConnComplete(st, h)) = 22
           /\ ConnComplete(st, h)[1] = 4 /\ ConnComplete(st, h)[2] = 62
           /\ ConnComplete(st, h)[3] = 19 /\ ConnComplete(st, h)[5] = st
  <1>1. h \in Byte /\ st \in Byte
    BY SocketAssumption DEF SocketAssumption, Byte
  <1> QED
    BY <1>1 DEF ConnComplete, Zeros, Byte, HCI_EVENT_PKT, EVT_LE_META, EVT_LE_CONN_COMPLETE

\* The bytes of an advertising report.
LEMMA AdvFrame ==
    /\ AdvReport \in Seq(Byte) /\ Len(AdvReport) = 15
    /\ AdvReport[1] = 4 /\ AdvReport[2] = 62 /\ AdvReport[3] = 12 /\ AdvReport[4] = 2
  BY DEF AdvReport, Zeros, Byte, HCI_EVENT_PKT, EVT_LE_META

\* The bytes of a disconnect and of ACL data.
LEMMA OtherFrames ==
    /\ Disconnected \in Seq(Byte) /\ Len(Disconnected) = 7
    /\ Disconnected[1] = 4 /\ Disconnected[2] = 5
    /\ \A h \in Handles : /\ AclData(h) \in Seq(Byte) /\ Len(AclData(h)) = 12
                          /\ AclData(h)[1] = 2 /\ AclData(h)[3] = 32
  <1>1. \A h \in Handles : h \in Byte
    BY SocketAssumption DEF SocketAssumption, Byte
  <1>2. /\ Disconnected \in Seq(Byte) /\ Len(Disconnected) = 7
        /\ Disconnected[1] = 4 /\ Disconnected[2] = 5
    BY DEF Disconnected, Byte, HCI_EVENT_PKT, EVT_DISCONN_COMPLETE
  <1> QED
    BY <1>1, <1>2 DEF AclData, Byte, HCI_ACL_PKT

\* What the proofs need of a frame: bytes, long enough for every access, a type byte that is
\* no event code, and no frame behind acltest's filter that it takes for ATT.
LEMMA FrameFacts ==
    ASSUME NEW f \in Frames
    PROVE  /\ f \in Seq(Byte) /\ Len(f) >= 4
           /\ f[1] \in {HCI_ACL_PKT, HCI_EVENT_PKT}
           /\ f[1] = HCI_ACL_PKT \/ f[2] = EVT_LE_META => f[3] # 4
  <1> USE DEF HCI_ACL_PKT, HCI_EVENT_PKT, EVT_LE_META
  <1>1. CASE \E st \in {0, 11, 12} : f = CmdStatus(st)
    <2>1. PICK st \in {0, 11, 12} : f = CmdStatus(st)
      BY <1>1
    <2> QED
      BY <2>1 DEF CmdStatus, Byte, EVT_CMD_STATUS
  <1>2. CASE f = AdvReport
    BY <1>2, AdvFrame
  <1>3. CASE f = Disconnected
    BY <1>3, OtherFrames
  <1>4. CASE \E st \in {0, 62}, h \in Handles \cup {0} : f = ConnComplete(st, h)
    <2>1. PICK st \in {0, 62}, h \in Handles \cup {0} : f = ConnComplete(st, h)
      BY <1>4
    <2> QED
      BY <2>1, ConnFrame
  <1>5. CASE \E h \in Handles : f = AclData(h)
    <2>1. PICK h \in Handles : f = AclData(h)
      BY <1>5
    <2>2. h \in Byte
      BY SocketAssumption DEF SocketAssumption, Byte
    <2> QED
      BY <2>1, <2>2 DEF AclData, Byte
  <1> QED
    BY <1>1, <1>2, <1>3, <1>4, <1>5 DEF Frames

\* Only the controller's own success report connects.
LEMMA ConnectsFacts ==
    /\ \A st \in {0, 11, 12} : ~Connects(CmdStatus(st))
    /\ ~Connects(AdvReport) /\ ~Connects(Disconnected)
    /\ \A h \in Handles : ~Connects(AclData(h))
    /\ ~Connects(ConnComplete(62, 0))
  <1> USE DEF Connects, IsConnComplete, HCI_EVENT_PKT, EVT_LE_META, EVT_LE_CONN_COMPLETE
  <1>1. \A st \in {0, 11, 12} : ~Connects(CmdStatus(st))
    BY StatusFrame
  <1>2. ~Connects(AdvReport)
    BY AdvFrame
  <1>3. ~Connects(Disconnected) /\ \A h \in Handles : ~Connects(AclData(h))
    BY OtherFrames
  <1>4. ~Connects(ConnComplete(62, 0))
    <2>1. ConnComplete(62, 0)[5] = 62
      BY ConnFrame
    <2> QED
      BY <2>1
  <1> QED
    BY <1>1, <1>2, <1>3, <1>4

-----------------------------------------------------------------------------
(* The socket's queue *)

\* A sequence over S is one over a larger set.
LEMMA SeqGrows ==
    ASSUME NEW S, NEW T, S \subseteq T, NEW q \in Seq(S)
    PROVE  q \in Seq(T)
  OBVIOUS

\* The frame that is read, and the rest.
LEMMA FirstFrame ==
    ASSUME RInv, rx # <<>>
    PROVE  /\ Head(rx) \in Readable /\ Head(rx) \in Frames
           /\ Tail(rx) \in Seq(Readable) /\ Tail(rx) \in Seq(Frames)
  <1>1. Head(rx) \in Readable /\ Tail(rx) \in Seq(Readable)
    BY DEF RInv
  <1>2. Readable \subseteq Frames
    BY DEF Readable
  <1> QED
    BY <1>1, <1>2, SeqGrows

\* With the filter and the history as they were, or less strict, what was readable still is.
LEMMA StaysReadable ==
    ASSUME NEW q \in Seq(Readable),
           seen => seen', filter' = "acl" => filter = "acl"
    PROVE  q \in Seq(Readable')
  <1>1. Readable \subseteq Readable'
    BY DEF Readable
  <1> QED
    BY <1>1, SeqGrows

\* The SMT translation does not find this by itself.
LEMMA Truth == \A x : x = TRUE \/ x = FALSE => x \in BOOLEAN
  BY Zenon

\* The programs start in the invariant.
LEMMA RInvInit == Init => RInv
  <1> SUFFICES ASSUME Init PROVE RInv
    OBVIOUS
  <1>1. TypeOK /\ backoff \in {1, 2, 4, 8, 16}
    BY RawAssumption, Truth
    DEF RawAssumption, Init, SocketInit, TypeOK, SocketTypeOK, Looked
  <1>2. rx \in Seq(Readable)
    BY DEF Init, SocketInit
  <1>3. Flow /\ Packets /\ SplitReadIsBlind /\ SuccessWasConnected /\ ~(pending /\ link)
    BY DEF Init, SocketInit, Flow, Packets, SplitReadIsBlind, SuccessWasConnected
  <1> QED
    BY <1>1, <1>2, <1>3 DEF RInv

\* The end of a program.
LEMMA RInvExit ==
    ASSUME RInv, NEW r \in {"none", "ok", "failed"}, r = "ok" => seen, ExitWith(r)
    PROVE  RInv'
  <1> USE DEF RInv, ExitWith, CloseSocket, ctlVars
  <1>1. TypeOK' /\ backoff' \in {1, 2, 4, 8, 16}
    BY RawAssumption, Truth DEF RawAssumption, TypeOK, SocketTypeOK, Looked
  <1>2. rx' \in Seq(Readable')
    OBVIOUS
  <1>3. Flow' /\ Packets' /\ SplitReadIsBlind' /\ SuccessWasConnected' /\ ~(pending' /\ link')
    BY DEF Flow, Packets, SplitReadIsBlind, SuccessWasConnected
  <1> QED
    BY <1>1, <1>2, <1>3

\* The start of an attempt.
LEMMA RInvCreate ==
    ASSUME RInv, NEW f \in {"connect", "all"}, Created(f),
           /\ \/ prog' = "sw2d" /\ pc' = "poll"
              \/ prog' = "two" /\ pc' = "poll"
              \/ prog' \in {"lib", "test", "acl"} /\ pc' = "wait"
           /\ polls' = 0,
           UNCHANGED <<readVars, running, backoff>>
    PROVE  RInv'
  <1> USE DEF RInv, Created, OpenAndCreate, readVars
  <1>1. PICK st \in {0, 11, 12} : rx' = <<CmdStatus(st)>>
    OBVIOUS
  <1>2. CmdStatus(st) \in Frames /\ ~Connects(CmdStatus(st))
    BY ConnectsFacts DEF Frames
  <1>3. rx' \in Seq(Frames) /\ rx' \in Seq(Readable')
    BY <1>1, <1>2 DEF Readable
  <1>4. pending' \in BOOLEAN /\ link' \in BOOLEAN /\ ~(pending' /\ link')
    BY Zenon DEF TypeOK, SocketTypeOK
  <1>5. TypeOK' /\ backoff' \in {1, 2, 4, 8, 16}
    BY <1>3, <1>4, RawAssumption, Truth DEF RawAssumption, TypeOK, SocketTypeOK
  <1>6. Flow' /\ Packets' /\ SplitReadIsBlind' /\ SuccessWasConnected'
    BY DEF Flow, Packets, SplitReadIsBlind, SuccessWasConnected
  <1> QED
    BY <1>3, <1>4, <1>5, <1>6

\* A step of a program that reads at most one frame.
LEMMA RInvRead ==
    ASSUME RInv, rx' = rx \/ (rx # <<>> /\ rx' = Tail(rx)),
           UNCHANGED <<filter, pending, link, seen>>
    PROVE  rx' \in Seq(Frames) /\ rx' \in Seq(Readable') /\ SocketTypeOK'
  <1>1. rx' \in Seq(Frames) /\ rx' \in Seq(Readable)
    BY FirstFrame DEF RInv, TypeOK, SocketTypeOK
  <1> QED
    BY <1>1, StaysReadable DEF RInv, TypeOK, SocketTypeOK

-----------------------------------------------------------------------------
(* sw2d.c *)

\* The packet put together from the fronts of three frames is no Connection Complete: the
\* byte where the event code is looked for is the type byte of the second frame.
LEMMA PacketPassedOver ==
    ASSUME NEW p, p[2] \in {HCI_ACL_PKT, HCI_EVENT_PKT}, Packet(p)
    PROVE  pc' = "poll" /\ polls' = polls + 1 /\ result' = result
  BY DEF Packet, At, IsConnComplete, HCI_ACL_PKT, HCI_EVENT_PKT, EVT_LE_META

\* What the reads put together, byte by byte.
LEMMA HeaderBytes ==
    ASSUME NEW b \in Seq(Byte), Len(b) = 1, NEW f \in Seq(Byte), Len(f) >= 4
    PROVE  /\ f[2] \in Byte
           /\ b \o SubSeq(f, 1, 2) \in Seq(Byte)
           /\ Len(b \o SubSeq(f, 1, 2)) = 3
           /\ (b \o SubSeq(f, 1, 2))[2] = f[1]
  <1>1. f[2] \in Byte
    OBVIOUS
  <1>2. /\ SubSeq(f, 1, 2) \in Seq(Byte) /\ Len(SubSeq(f, 1, 2)) = 2
        /\ SubSeq(f, 1, 2)[1] = f[1]
    OBVIOUS
  <1>3. ASSUME NEW t \in Seq(Byte), Len(t) = 2
        PROVE  b \o t \in Seq(Byte) /\ Len(b \o t) = 3 /\ (b \o t)[2] = t[1]
    <2>1. /\ b \o t \in Seq(Byte) /\ Len(b \o t) = Len(b) + Len(t)
          /\ \A i \in 1 .. Len(b) + Len(t) :
                (b \o t)[i] = IF i <= Len(b) THEN b[i] ELSE t[i - Len(b)]
      BY ConcatProperties
    <2>2. Len(b) + Len(t) = 3 /\ 2 \in 1 .. Len(b) + Len(t) /\ ~(2 <= Len(b)) /\ 2 - Len(b) = 1
      BY <1>3
    <2>3. (b \o t)[2] = t[2 - Len(b)]
      BY <2>1, <2>2, Zenon
    <2> QED
      BY <2>1, <2>2, <2>3, Zenon
  <1> QED
    BY <1>1, <1>2, <1>3

\* What two reads put together: as long as both, and with the first one's second byte.
LEMMA PayloadBytes ==
    ASSUME NEW b \in Seq(Byte), Len(b) \in 3 .. 6, NEW f \in Seq(Byte), NEW g \in 0 .. Len(f),
           NEW n \in 3 .. 6, n <= Len(b) + g
    PROVE  LET p == SubSeq(b \o SubSeq(f, 1, g), 1, n)
           IN  p \in Seq(Byte) /\ Len(p) = n /\ p[2] = b[2]
  <1>1. SubSeq(f, 1, g) \in Seq(Byte) /\ Len(SubSeq(f, 1, g)) = g
    OBVIOUS
  <1>2. \A t \in Seq(Byte) : Len(t) = g =>
           b \o t \in Seq(Byte) /\ Len(b \o t) = Len(b) + g /\ (b \o t)[2] = b[2]
    OBVIOUS
  <1>3. \A t \in Seq(Byte) : n <= Len(t) =>
           SubSeq(t, 1, n) \in Seq(Byte) /\ Len(SubSeq(t, 1, n)) = n /\ SubSeq(t, 1, n)[2] = t[2]
    OBVIOUS
  <1> QED
    BY <1>1, <1>2, <1>3

\* While the payload is read.
LEMMA PayloadState ==
    ASSUME RInv, pc = "payload"
    PROVE  /\ buf \in Seq(Byte) /\ Len(buf) \in 3 .. 6
           /\ buf[2] \in {HCI_ACL_PKT, HCI_EVENT_PKT} /\ need \in 0 .. 255
  <1>1. buf \in Seq(Byte) /\ Len(buf) <= 6 /\ need \in 0 .. 255
    BY DEF RInv, TypeOK, Looked, Byte
  <1>2. buf[2] \in {HCI_ACL_PKT, HCI_EVENT_PKT}
    BY DEF RInv, Packets
  <1>3. Len(buf) \in 3 .. 6
    <2>1. Len(buf) >= 3
      BY DEF RInv, Packets
    <2>2. Len(buf) \in Nat
      BY <1>1, LenProperties
    <2>3. \A m \in Nat : m >= 3 /\ m <= 6 => m \in 3 .. 6
      OBVIOUS
    <2> QED
      BY <1>1, <2>1, <2>2, <2>3, Zenon
  <1> QED
    BY <1>1, <1>2, <1>3, Zenon

\* The second read takes no more than is there and than was asked for.
LEMMA Shares ==
    ASSUME NEW l \in Nat, NEW m \in 0 .. 255, NEW b \in 3 .. 6
    PROVE  LET got == IF l < m THEN l ELSE m
               n == IF b + got < Looked THEN b + got ELSE Looked
           IN  got \in 0 .. l /\ got <= m /\ n \in 3 .. 6 /\ n <= b + got
  BY DEF Looked

\* The steps of sw2d.c keep it.
LEMMA RInvSw2d ==
    ASSUME RInv, Sw2dStep
    PROVE  RInv'
  <1> USE RawAssumption DEF RawAssumption, RInv, TypeOK, Flow, Packets, SplitReadIsBlind,
          SuccessWasConnected, At, readVars, ctlVars, Rest, Looked
  <1>1. CASE UsbOk
    BY <1>1, RInvRead DEF UsbOk, socketVars
  <1>2. CASE UsbFails
    BY <1>2, RInvExit DEF UsbFails
  <1>3. CASE SessionOpens
    BY <1>3, RInvCreate DEF SessionOpens
  <1>4. ASSUME At("sleep", 0), result' = "failed", CloseSocket, prog = "sw2d",
               UNCHANGED <<prog, readVars, running, backoff, seen, ctlVars>>
        PROVE  RInv'
    <2>1. SocketTypeOK' /\ rx' \in Seq(Readable')
      BY <1>4 DEF CloseSocket, SocketTypeOK
    <2> QED
      BY <1>4, <2>1 DEF CloseSocket
  <1>5. CASE PollTimeout
    BY <1>5, RInvRead DEF PollTimeout, socketVars
  <1>6. CASE ReadType
    <2>1. SocketTypeOK' /\ rx' \in Seq(Readable')
      BY <1>6, RInvRead DEF ReadType
    <2>2. Head(rx) \in Seq(Byte) /\ Len(Head(rx)) >= 4
      BY <1>6, FirstFrame, FrameFacts DEF ReadType
    <2>3. buf' \in Seq(Byte) /\ Len(buf') = 1
      BY <1>6, <2>2 DEF ReadType
    <2> QED
      BY <1>6, <2>1, <2>3 DEF ReadType, Byte
  <1>7. CASE ReadHeader
    <2>1. SocketTypeOK' /\ rx' \in Seq(Readable')
      BY <1>7, RInvRead DEF ReadHeader
    <2>2. /\ Head(rx) \in Seq(Byte) /\ Len(Head(rx)) >= 4
          /\ Head(rx)[1] \in {HCI_ACL_PKT, HCI_EVENT_PKT}
      BY <1>7, FirstFrame, FrameFacts DEF ReadHeader
    <2>3. buf \in Seq(Byte) /\ Len(buf) = 1
      BY <1>7 DEF ReadHeader, Byte
    <2>4. need' \in 0 .. 255 /\ buf' \in Seq(Byte) /\ Len(buf') = 3 /\ buf'[2] = Head(rx)[1]
      BY <1>7, <2>2, <2>3, HeaderBytes DEF ReadHeader, Byte
    <2> QED
      BY <1>7, <2>1, <2>2, <2>4 DEF ReadHeader, Byte
  <1>8. CASE ReadPayload
    <2> DEFINE f == Head(rx)
               got == IF Len(f) < need THEN Len(f) ELSE need
               n == IF Len(buf) + got < Looked THEN Len(buf) + got ELSE Looked
               pkt == SubSeq(buf \o SubSeq(f, 1, got), 1, n)
    <2>1. SocketTypeOK' /\ rx' \in Seq(Readable')
      BY <1>8, RInvRead DEF ReadPayload
    <2>2. f \in Seq(Byte) /\ Len(f) \in Nat
      BY <1>8, FirstFrame, FrameFacts DEF ReadPayload
    <2>3. pc = "payload"
      BY <1>8 DEF ReadPayload
    <2>4. /\ buf \in Seq(Byte) /\ Len(buf) \in 3 .. 6 /\ buf[2] \in {HCI_ACL_PKT, HCI_EVENT_PKT}
          /\ need \in 0 .. 255
      BY <2>3, PayloadState
    <2>5. got \in 0 .. Len(f) /\ got <= need /\ n \in 3 .. 6 /\ n <= Len(buf) + got
      BY <2>2, <2>4, Shares
    <2> HIDE DEF got, f, n
    <2>6. pkt \in Seq(Byte) /\ Len(pkt) = n /\ pkt[2] = buf[2]
      <3>1. Len(buf) \in 3 .. 6 /\ n <= Len(buf) + got /\ buf \in Seq(Byte) /\ f \in Seq(Byte)
            /\ got \in 0 .. Len(f) /\ n \in 3 .. 6
        BY <2>2, <2>4, <2>5
      <3> QED
        BY ONLY <3>1, PayloadBytes
    <2> HIDE DEF pkt
    <2>7. CASE got < need
      <3>1. buf' = pkt /\ need' = need - got /\ UNCHANGED <<pc, polls, result, Rest>>
        BY <1>8, <2>7 DEF ReadPayload, got, f, pkt, n
      <3> QED
        BY <2>1, <2>3, <2>4, <2>5, <2>6, <2>7, <3>1 DEF Byte
    <2>8. CASE ~(got < need)
      <3>1. Packet(pkt) /\ buf' = <<>> /\ need' = 0 /\ UNCHANGED Rest
        BY <1>8, <2>8 DEF ReadPayload, got, f, pkt, n
      <3>2. pc' = "poll" /\ polls' = polls + 1 /\ result' = result
        BY <2>4, <2>6, <3>1, PacketPassedOver
      <3> QED
        BY <2>1, <2>3, <2>4, <3>1, <3>2
    <2> QED
      BY <2>7, <2>8
  <1>9. CASE Sleeps
    <2>1. backoff' \in {1, 2, 4, 8, 16} /\ backoff' \in 1 .. MaxBackoff
      BY <1>9 DEF Sleeps, Backoff
    <2>2. SocketTypeOK' /\ rx' \in Seq(Readable')
      BY <1>9, RInvRead DEF Sleeps, socketVars
    <2> QED
      BY <1>9, <2>1, <2>2 DEF Sleeps, socketVars
  <1>10. CASE Stops
    BY <1>10, RInvExit DEF Stops
  <1>11. CASE SessionFails
    BY <1>4, <1>11 DEF SessionFails
  <1>12. CASE WaitOver
    BY <1>4, <1>12 DEF WaitOver
  <1> QED
    BY <1>1, <1>2, <1>3, <1>5, <1>6, <1>7, <1>8, <1>9, <1>10, <1>11, <1>12 DEF Sw2dStep

-----------------------------------------------------------------------------
(* two_socket_test.c *)

\* A successful Connection Complete that can be read was seen.
LEMMA ReadWasSeen ==
    ASSUME RInv, rx # <<>>, IsConnComplete(Head(rx)), Head(rx)[5] = 0
    PROVE  seen
  BY FirstFrame DEF Readable, Connects

\* The steps of two_socket_test.c keep it.
LEMMA RInvTwo ==
    ASSUME RInv, TwoStep
    PROVE  RInv'
  <1> USE RawAssumption DEF RawAssumption, RInv, TypeOK, Flow, Packets, SplitReadIsBlind,
          SuccessWasConnected, At, readVars, ctlVars, Rest
  <1>1. CASE TwoTimeout
    BY <1>1, RInvRead DEF TwoTimeout, socketVars
  <1>2. CASE TwoIgnores
    BY <1>2, RInvRead DEF TwoIgnores
  <1>3. CASE TwoOver
    BY <1>3, RInvExit DEF TwoOver
  <1>4. CASE TwoConnected
    BY <1>4, RInvExit, ReadWasSeen DEF TwoConnected
  <1>5. CASE TwoFailed
    BY <1>5, RInvRead DEF TwoFailed
  <1>6. CASE TwoDrains
    <2>1. CASE Head(rx)[2] = EVT_DISCONN_COMPLETE
      BY <1>6, <2>1, RInvExit DEF TwoDrains
    <2>2. CASE Head(rx)[2] # EVT_DISCONN_COMPLETE
      BY <1>6, <2>2, RInvRead DEF TwoDrains
    <2> QED
      BY <2>1, <2>2
  <1> QED
    BY <1>1, <1>2, <1>3, <1>4, <1>5, <1>6 DEF TwoStep

-----------------------------------------------------------------------------
(* sw2d_lib.c and hciletest.c *)

\* The steps of sw2d_lib.c and hciletest.c keep it.
LEMMA RInvLib ==
    ASSUME RInv, LibStep
    PROVE  RInv'
  <1> USE RawAssumption DEF RawAssumption, RInv, TypeOK, Flow, Packets, SplitReadIsBlind,
          SuccessWasConnected, At, readVars, ctlVars, Rest
  <1>1. CASE LibConnected
    <2>1. Tail(rx) \in Seq(Frames) /\ Tail(rx) \in Seq(Readable')
      BY <1>1, FirstFrame, StaysReadable DEF LibConnected
    <2>2. seen
      BY <1>1, ReadWasSeen DEF LibConnected
    <2> QED
      BY <1>1, <2>1, <2>2 DEF LibConnected, SocketTypeOK
  <1>2. CASE LibIgnores
    BY <1>2, RInvRead DEF LibIgnores
  <1>3. CASE LibFails
    BY <1>3, RInvExit DEF LibFails
  <1>4. CASE LibRound
    BY <1>4, RInvRead DEF LibRound
  <1>5. CASE LibOver
    BY <1>5, RInvExit DEF LibOver
  <1>6. CASE TestReads
    <2>1. rx' \in Seq(Frames) /\ rx' \in Seq(Readable')
      BY <1>6 DEF TestReads, CloseSocket
    <2>2. SocketTypeOK' /\ ~(pending' /\ link')
      BY <1>6, <2>1, Truth DEF TestReads, CloseSocket, SocketTypeOK
    <2> QED
      BY <1>6, <2>1, <2>2 DEF TestReads
  <1> QED
    BY <1>1, <1>2, <1>3, <1>4, <1>5, <1>6 DEF LibStep

-----------------------------------------------------------------------------
(* acltest.c *)

\* The steps of acltest.c keep it.
LEMMA RInvAcl ==
    ASSUME RInv, AclStep
    PROVE  RInv'
  <1> USE RawAssumption DEF RawAssumption, RInv, TypeOK, Flow, Packets, SplitReadIsBlind,
          SuccessWasConnected, At, readVars, ctlVars, Rest
  <1>1. CASE AclConnected
    <2>1. seen
      BY <1>1, ReadWasSeen DEF AclConnected
    <2>2. CASE Head(rx)[6] = 0
      BY <1>1, <2>2, RInvExit DEF AclConnected
    <2>3. CASE Head(rx)[6] # 0
      <3>1. rx' = <<>> /\ rx' \in Seq(Frames) /\ rx' \in Seq(Readable')
        BY <1>1, <2>3 DEF AclConnected
      <3> QED
        BY <1>1, <2>1, <2>3, <3>1 DEF AclConnected, SocketTypeOK
    <2> QED
      BY <2>2, <2>3
  <1>2. CASE AclTimeout
    BY <1>2, RInvRead DEF AclTimeout, socketVars
  <1>3. CASE AclType
    <2>1. SocketTypeOK' /\ rx' \in Seq(Readable')
      BY <1>3, RInvRead DEF AclType
    <2>2. Head(rx) \in Seq(Byte) /\ Len(Head(rx)) >= 4
      BY <1>3, FirstFrame, FrameFacts DEF AclType
    <2>3. buf' \in Seq(Byte) /\ Len(buf') = 1
      BY <1>3, <2>2 DEF AclType
    <2> QED
      BY <1>3, <2>1, <2>3 DEF AclType, Byte, Looked
  <1>4. CASE AclRead
    <2>1. SocketTypeOK' /\ rx' \in Seq(Readable')
      BY <1>4, RInvRead DEF AclRead
    <2>2. Head(rx)[3] # 4
      BY <1>4, FirstFrame, FrameFacts DEF AclRead, Readable
    <2> QED
      BY <1>4, <2>1, <2>2 DEF AclRead, Looked
  <1>5. CASE AclOver
    BY <1>5, RInvExit DEF AclOver
  <1> QED
    BY <1>1, <1>2, <1>3, <1>4, <1>5 DEF AclStep

-----------------------------------------------------------------------------
(* The shell and the controller *)

\* The start and the end of a program keep it.
LEMMA RInvShell ==
    ASSUME RInv, Shell
    PROVE  RInv'
  <1> USE RawAssumption DEF RawAssumption, RInv, TypeOK, Flow, Packets, SplitReadIsBlind,
          SuccessWasConnected, At, readVars, ctlVars
  <1>1. CASE StartSw2d
    BY <1>1, RInvRead DEF StartSw2d, Start, socketVars
  <1>2. CASE StartTwo
    BY <1>2, RInvCreate DEF StartTwo, Start
  <1>3. CASE StartLib
    BY <1>3, RInvCreate DEF StartLib, Start
  <1>4. CASE Interrupt
    BY <1>4, RInvExit DEF Interrupt
  <1>5. CASE Signal
    <2>1. SocketTypeOK' /\ rx' \in Seq(Readable')
      BY <1>5, RInvRead DEF Signal, socketVars
    <2>2. running' \in BOOLEAN
      BY <1>5, Truth DEF Signal
    <2> QED
      BY <1>5, <2>1, <2>2 DEF Signal, socketVars
  <1> QED
    BY <1>1, <1>2, <1>3, <1>4, <1>5 DEF Shell

\* What the controller sends is queued behind what is there, if the filter lets it through.
LEMMA Delivered ==
    ASSUME RInv, NEW f \in Frames, Deliver(f), filter' = filter, seen => seen',
           Connects(f) /\ filter # "off" => seen'
    PROVE  rx' \in Seq(Frames) /\ rx' \in Seq(Readable')
  <1>1. rx \in Seq(Frames) /\ rx \in Seq(Readable')
    BY StaysReadable DEF RInv, TypeOK, SocketTypeOK
  <1>2. CASE Passes(f)
    <2>1. f \in Readable'
      BY <1>2 DEF Passes, Readable
    <2> QED
      BY <1>1, <1>2, <2>1 DEF Deliver
  <1>3. CASE ~Passes(f)
    BY <1>1, <1>3 DEF Deliver
  <1> QED
    BY <1>2, <1>3

\* The controller's frames keep it.
LEMMA RInvController ==
    ASSUME RInv, Controller
    PROVE  RInv'
  <1>1. seen => seen'
    BY DEF Controller
  <1>2. seen' \in BOOLEAN
    BY Zenon DEF Controller
  <1>3. SUFFICES /\ rx' \in Seq(Frames) /\ rx' \in Seq(Readable') /\ filter' = filter
                 /\ pending' \in BOOLEAN /\ link' \in BOOLEAN /\ ~(pending' /\ link')
    BY <1>1, <1>2 DEF RInv, TypeOK, SocketTypeOK, Controller, Flow, Packets, SplitReadIsBlind,
                      SuccessWasConnected
  <1>4. pending \in BOOLEAN /\ link \in BOOLEAN /\ ~(pending /\ link)
    BY DEF RInv, TypeOK, SocketTypeOK
  <1>5. CASE CtlConnected
    <2>1. PICK h \in Handles : Deliver(ConnComplete(0, h))
      BY <1>5 DEF CtlConnected
    <2>2. ConnComplete(0, h) \in Frames
      BY DEF Frames
    <2>3. filter # "off" => seen'
      BY <1>4, <1>5 DEF CtlConnected, Controller
    <2>4. filter' = filter
      BY <1>5 DEF CtlConnected
    <2>5. rx' \in Seq(Frames) /\ rx' \in Seq(Readable')
      BY <1>1, <2>1, <2>2, <2>3, <2>4, Delivered
    <2> QED
      BY <1>5, <2>4, <2>5, Truth DEF CtlConnected
  <1>6. ASSUME NEW f \in Frames, ~Connects(f), Deliver(f), filter' = filter
        PROVE  rx' \in Seq(Frames) /\ rx' \in Seq(Readable')
    BY <1>1, <1>6, Delivered
  <1>7. CASE CtlFails
    <2>1. ConnComplete(62, 0) \in Frames
      BY DEF Frames
    <2>2. rx' \in Seq(Frames) /\ rx' \in Seq(Readable')
      BY <1>6, <1>7, <2>1, ConnectsFacts DEF CtlFails
    <2> QED
      BY <1>4, <1>7, <2>2, Truth DEF CtlFails
  <1>8. CASE CtlLost
    <2>1. Disconnected \in Frames
      BY DEF Frames
    <2>2. rx' \in Seq(Frames) /\ rx' \in Seq(Readable')
      BY <1>6, <1>8, <2>1, ConnectsFacts DEF CtlLost
    <2> QED
      BY <1>4, <1>8, <2>2, Truth DEF CtlLost
  <1>9. CASE CtlAdvert
    <2>1. AdvReport \in Frames
      BY DEF Frames
    <2>2. rx' \in Seq(Frames) /\ rx' \in Seq(Readable')
      BY <1>6, <1>9, <2>1, ConnectsFacts DEF CtlAdvert
    <2> QED
      BY <1>4, <1>9, <2>2 DEF CtlAdvert
  <1>10. CASE CtlAcl
    <2>1. PICK h \in Handles : Deliver(AclData(h))
      BY <1>10 DEF CtlAcl
    <2>2. AclData(h) \in Frames
      BY DEF Frames
    <2>3. rx' \in Seq(Frames) /\ rx' \in Seq(Readable')
      BY <1>6, <1>10, <2>1, <2>2, ConnectsFacts DEF CtlAcl
    <2> QED
      BY <1>4, <1>10, <2>3 DEF CtlAcl
  <1> QED
    BY <1>5, <1>7, <1>8, <1>9, <1>10 DEF Controller, CtlStep

\* A stuttering step keeps it.
LEMMA RInvStutter ==
    ASSUME RInv, UNCHANGED vars
    PROVE  RInv'
  <1>1. rx' \in Seq(Frames) /\ rx' \in Seq(Readable') /\ SocketTypeOK'
    BY RInvRead DEF vars, procVars, socketVars
  <1> QED
    BY <1>1 DEF RInv, TypeOK, Flow, Packets, SplitReadIsBlind, SuccessWasConnected, vars,
                procVars, socketVars

\* RInv is inductive.
LEMMA RInvAlways == Spec => []RInv
  <1>1. RInv /\ [Next]_vars => RInv'
    BY RInvSw2d, RInvTwo, RInvLib, RInvAcl, RInvShell, RInvController, RInvStutter
    DEF Next, ProgramStep
  <1> QED
    BY <1>1, RInvInit, PTL DEF Spec

-----------------------------------------------------------------------------
(* Theorems *)

\* The buffer a packet is put together in, the rounds of every wait and the doubled delay stay
\* in their bounds, whatever the programs are and whatever frames they read.
THEOREM RawTypeCorrect == Spec => []TypeOK
  <1>1. RInv => TypeOK
    BY DEF RInv
  <1> QED
    BY <1>1, RInvAlways, PTL

\* sw2d.c and acltest.c, with one call per part of a packet, never recognise what they wait
\* for: the byte taken for an event code is always a frame's type byte, and the byte taken for
\* the L2CAP channel is never 4 in a frame that acltest's filter lets through.
THEOREM SplitReadsAreBlind == Spec => []SplitReadIsBlind
  <1>1. RInv => SplitReadIsBlind
    BY DEF RInv
  <1> QED
    BY <1>1, RInvAlways, PTL

\* A reported success is a Connection Complete of this socket's life, whatever attempt or
\* connection an earlier program left behind, and although two_socket_test goes on waiting after
\* its own LE Create Connection was refused.
THEOREM SuccessesAreReal == Spec => []SuccessWasConnected
  <1>1. RInv => SuccessWasConnected
    BY DEF RInv
  <1> QED
    BY <1>1, RInvAlways, PTL

=============================================================================
