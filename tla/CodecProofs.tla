----------------------------- MODULE CodecProofs -----------------------------
(***************************************************************************)
(* What TLC checks of the conversions on chosen inputs, for all of them:   *)
(* every advertisement of up to 255 bytes, every command of up to 255      *)
(* bytes of data, every report.                                            *)
(***************************************************************************)
EXTENDS Codec, FiniteSetTheorems, SequenceTheorems, TLAPS

-----------------------------------------------------------------------------
(* adv_is_nintendo, for bytes d *)

\* IsStart, of the bytes d.
StartOf(d, p) ==
    \A S \in SUBSET (0 .. p) :
        0 \in S /\ (\A q \in S : d[q] # 0 /\ q + 1 + d[q] <= p => q + 1 + d[q] \in S) => p \in S

\* The structure at p is complete in n bytes and names Nintendo.
NamesAt(d, n, p) ==
    /\ d[p] >= 3 /\ p + d[p] < n
    /\ d[p + 1] = ManufacturerData /\ d[p + 2] = 83 /\ d[p + 3] = 5

\* V are the structures the walk has passed on its way to p.
Passed(d, n, p, V) ==
    /\ V \subseteq 0 .. p - 1 /\ 0 \in V \cup {p}
    /\ \A q \in V : d[q] # 0 /\ q + 1 + d[q] \in V \cup {p} /\ ~NamesAt(d, n, q)

\* A byte is a number.
LEMMA ByteInt == \A b \in Byte : b \in Nat /\ b <= 255
  BY DEF Byte

\* What is read within the data is a byte.
LEMMA ByteAt ==
    ASSUME NEW n \in Nat, NEW d \in [0 .. n - 1 -> Byte], NEW p \in 0 .. n - 1
    PROVE  d[p] \in Byte /\ d[p] \in Nat /\ d[p] <= 255 /\ p \in Nat
  <1>1. d[p] \in Byte
    OBVIOUS
  <1> QED
    BY <1>1, ByteInt

\* The end of a structure at a start is a start.
LEMMA StartNext ==
    ASSUME NEW n \in Nat, NEW d \in [0 .. n - 1 -> Byte], NEW p \in 0 .. n - 1,
           d[p] # 0, StartOf(d, p)
    PROVE  StartOf(d, p + 1 + d[p])
  <1> DEFINE e == p + 1 + d[p]
  <1>1. d[p] \in Nat /\ p \in Nat
    BY ByteAt
  <1>2. e \in Nat /\ p < e
    BY <1>1
  <1> SUFFICES ASSUME NEW S \in SUBSET (0 .. e), 0 \in S,
                      \A q \in S : d[q] # 0 /\ q + 1 + d[q] <= e => q + 1 + d[q] \in S
               PROVE  e \in S
    BY DEF StartOf
  <1> DEFINE T == S \cap (0 .. p)
  <1>3. T \in SUBSET (0 .. p) /\ 0 \in T
    OBVIOUS
  <1>4. ASSUME NEW q \in T, d[q] # 0, q + 1 + d[q] <= p
        PROVE  q + 1 + d[q] \in T
    <2>1. q \in S /\ q \in 0 .. n - 1 /\ d[q] \in Nat
      BY ByteAt
    <2>2. q + 1 + d[q] <= e
      BY <1>2, <1>4, <2>1
    <2>3. q + 1 + d[q] \in S
      BY <1>4, <2>1, <2>2
    <2> QED
      BY <1>4, <2>1, <2>3
  <1>5. p \in T
    BY <1>3, <1>4 DEF StartOf
  <1> QED
    BY <1>2, <1>5

\* The walk passes the structure at p and goes on behind it.
LEMMA PassedNext ==
    ASSUME NEW n \in Nat, NEW d \in [0 .. n - 1 -> Byte], NEW p \in 0 .. n - 1,
           d[p] # 0, ~NamesAt(d, n, p), NEW V, Passed(d, n, p, V)
    PROVE  Passed(d, n, p + 1 + d[p], V \cup {p})
  <1> DEFINE e == p + 1 + d[p]
  <1>1. d[p] \in Nat /\ p \in Nat
    BY ByteAt
  <1>2. e \in Nat /\ p < e
    BY <1>1
  <1>3. V \cup {p} \subseteq 0 .. e - 1
    BY <1>2 DEF Passed
  <1> QED
    BY <1>3 DEF Passed

\* Where the walk ends, no structure is complete, and no start is left out: none names Nintendo.
LEMMA NoneLeft ==
    ASSUME NEW n \in Nat, NEW d \in [0 .. n - 1 -> Byte], NEW p \in Nat, NEW V, Passed(d, n, p, V),
           p + 1 < n => d[p] = 0 \/ p + 1 + d[p] > n,
           NEW m \in 0 .. n - 4, StartOf(d, m), NamesAt(d, n, m)
    PROVE  FALSE
  <1> DEFINE S == (V \cup {p}) \cap (0 .. m)
  <1>1. S \in SUBSET (0 .. m) /\ 0 \in S
    BY DEF Passed
  <1>2. ASSUME NEW q \in S, d[q] # 0, q + 1 + d[q] <= m
        PROVE  q + 1 + d[q] \in S
    <2>1. q \in 0 .. n - 1 /\ d[q] \in Nat
      BY ByteAt
    <2>2. q # p
      BY <1>2, <2>1
    <2> QED
      BY <1>2, <2>1, <2>2 DEF Passed
  <1>3. m \in S
    BY <1>1, <1>2 DEF StartOf
  <1>4. m = p
    BY <1>3 DEF Passed
  <1>5. d[p] \in Nat /\ d[p] >= 3 /\ p + d[p] < n
    BY <1>4, ByteAt DEF NamesAt
  <1> QED
    BY <1>4, <1>5

\* An advertisement has 1 to 255 bytes.
LEMMA AdvSize ==
    ASSUME NEW d \in AdvData
    PROVE  /\ Size(d) \in 1 .. 255 /\ Size(d) \in Nat /\ Size(d) <= 255
           /\ d \in [0 .. Size(d) - 1 -> Byte]
  <1>1. AdvBytes \subseteq Byte /\ AdvMax \in 0 .. 255
    BY CodecAssumption DEF CodecAssumption
  <1>2. PICK n \in 1 .. AdvMax : d \in [0 .. n - 1 -> AdvBytes]
    BY DEF AdvData
  <1>3. DOMAIN d = 0 .. n - 1 /\ n \in 1 .. 255 /\ d \in [0 .. n - 1 -> Byte]
    BY <1>1, <1>2
  <1>4. Cardinality(0 .. n - 1) = n
    BY <1>3, FS_Interval
  <1>5. Size(d) = n
    BY <1>3, <1>4 DEF Size
  <1> QED
    BY <1>3, <1>5

-----------------------------------------------------------------------------
(* The inductive invariant *)

\* What the walk has done.
WalkInv ==
    LET n == Size(data) IN
    /\ pos \in 0 .. n /\ reads \subseteq 0 .. n - 1
    /\ out = None => StartOf(data, pos) /\ \E V : Passed(data, n, pos, V)
    /\ out # None =>
         (out.nintendo <=> \E p \in 0 .. n - 4 : StartOf(data, p) /\ NamesAt(data, n, p))

AdvInv ==
    prog = "adv" =>
        /\ data = None => out = None /\ pos = 0 /\ reads = {}
        /\ data # None => data \in AdvData /\ WalkInv

\* A command is built from the data of the call.
Built(p) == [library |-> switch2_build_command(p), bridge |-> build_cmd(p),
             nwcp |-> IF Len(p) <= NwcpMax THEN nwcp_send_cmd(p) ELSE None]
ProtocolInv == prog = "protocol" /\ out # None => data \in Payloads /\ out = Built(data)

\* adv_is_nintendo starts at a start, with nothing passed.
LEMMA WalkBegins ==
    ASSUME NEW d \in AdvData
    PROVE  StartOf(d, 0) /\ Passed(d, Size(d), 0, {})
  BY DEF StartOf, Passed

\* A step of the walk: bytes are read within the data.
LEMMA WalkReads ==
    ASSUME data \in AdvData, pos \in 0 .. Size(data), pos + 1 < Size(data)
    PROVE  /\ pos \in 0 .. Size(data) - 1 /\ pos + 1 \in 0 .. Size(data) - 1
           /\ ad(pos) = data[pos] /\ data[pos] \in Byte /\ Size(data) \in 1 .. 255
           /\ Fits(ad(pos)) => IdBytes \subseteq 0 .. Size(data) - 1
           /\ Fits(ad(pos)) => (Names <=> NamesAt(data, Size(data), pos))
  <1>1. Size(data) \in 1 .. 255 /\ data \in [0 .. Size(data) - 1 -> Byte]
    BY AdvSize
  <1>2. DOMAIN data = 0 .. Size(data) - 1
    BY <1>1
  <1>3. Size(data) \in Nat
    BY AdvSize
  <1>4. pos \in DOMAIN data /\ pos + 1 \in DOMAIN data
    BY <1>3, <1>2
  <1>5. ad(pos) = data[pos] /\ ad(pos + 1) = data[pos + 1] /\ data[pos] \in Byte
    BY <1>1, <1>4 DEF ad
  <1>6. data[pos] \in Nat /\ pos \in Nat
    BY <1>5, ByteInt
  <1>7. ASSUME Fits(ad(pos)), ad(pos) >= 3
        PROVE  pos + 2 \in DOMAIN data /\ pos + 3 \in DOMAIN data
    BY <1>3, <1>2, <1>5, <1>7, <1>6 DEF Fits
  <1>8. ASSUME Fits(ad(pos)) PROVE IdBytes \subseteq 0 .. Size(data) - 1
    BY <1>2, <1>7, <1>8 DEF IdBytes
  <1>9. ASSUME Fits(ad(pos)) PROVE Names <=> NamesAt(data, Size(data), pos)
    <2>1. pos + data[pos] < Size(data)
      BY <1>3, <1>5, <1>9, <1>6 DEF Fits
    <2>2. CASE data[pos] >= 3
      <3>1. /\ ad(pos + 2) = data[pos + 2] /\ ad(pos + 3) = data[pos + 3]
            /\ data[pos + 2] \in Byte /\ data[pos + 3] \in Byte
        BY <1>1, <1>2, <1>5, <1>7, <1>9, <2>2 DEF ad
      <3>2. data[pos + 2] + 256 * data[pos + 3] = 1363 <=> data[pos + 2] = 83 /\ data[pos + 3] = 5
        BY <3>1, ByteInt
      <3> QED
        BY <1>5, <2>1, <2>2, <3>1, <3>2 DEF Names, NamesAt, NINTENDO_MANUFACTURER
    <2>3. CASE ~(data[pos] >= 3)
      BY <1>5, <2>3 DEF Names, NamesAt
    <2> QED
      BY <2>2, <2>3
  <1> QED
    BY <1>1, <1>2, <1>4, <1>5, <1>8, <1>9

-----------------------------------------------------------------------------
(* The steps *)

CInv == prog \in Programs /\ AdvInv /\ ProtocolInv

\* Who calls: the other programs' handlers leave adv_is_nintendo and the builders alone.
Converts ==
    \E d \in ReportSet : PropertiesChanged(d) \/ Notification(d) \/ GattNotification(d) \/ handle_report(d)

\* A report is converted by another program than adv and protocol.
LEMMA ConvertsElse ==
    ASSUME Converts
    PROVE  prog' = prog /\ prog \notin {"adv", "protocol"}
  BY DEF Converts, PropertiesChanged, Notification, GattNotification, handle_report, Call

\* Every step of adv_is_nintendo keeps its invariant.
LEMMA AdvStep ==
    ASSUME CInv, [Next]_vars
    PROVE  AdvInv'
  <1> SUFFICES ASSUME prog' = "adv"
               PROVE  /\ data' = None => out' = None /\ pos' = 0 /\ reads' = {}
                      /\ data' # None => data' \in AdvData /\ WalkInv'
    BY DEF AdvInv
  <1>1. CASE Converts
    BY <1>1, ConvertsElse
  <1>2. CASE \E p \in Payloads : BuildCommand(p)
    BY <1>2 DEF BuildCommand, Call
  <1>3. CASE UNCHANGED vars
    BY <1>3 DEF vars, CInv, AdvInv, WalkInv
  <1>4. CASE Return
    BY <1>4 DEF Return
  <1>5. CASE \E d \in AdvData : AdvertisingReport(d)
    <2>1. PICK d \in AdvData : AdvertisingReport(d)
      BY <1>5
    <2>2. data' = d /\ out' = None /\ pos' = 0 /\ reads' = {}
      BY <2>1 DEF AdvertisingReport, Returned, CInv, AdvInv
    <2>3. WalkInv'
      BY <2>2, WalkBegins, AdvSize DEF WalkInv
    <2> QED
      BY <2>2, <2>3
  <1>6. CASE AdvSkip \/ AdvMatch \/ AdvEnd
    <2> DEFINE n == Size(data)
    <2>1. /\ prog = "adv" /\ data # None /\ out = None /\ data' = data
      BY <1>6 DEF AdvSkip, AdvMatch, AdvEnd, Walking, Returned
    <2>2. data \in AdvData /\ WalkInv
      BY <2>1 DEF CInv, AdvInv
    <2>3. n \in Nat /\ n <= 255 /\ data \in [0 .. n - 1 -> Byte]
      BY <2>2, AdvSize
    <2>4. /\ pos \in 0 .. n /\ reads \subseteq 0 .. n - 1 /\ StartOf(data, pos)
      BY <2>1, <2>2 DEF WalkInv
    <2>5. PICK V : Passed(data, n, pos, V)
      BY <2>1, <2>2 DEF WalkInv
    <2>6. pos + 1 < n =>
             /\ pos \in 0 .. n - 1 /\ pos + 1 \in 0 .. n - 1
             /\ ad(pos) = data[pos] /\ data[pos] \in Byte
             /\ Fits(ad(pos)) => IdBytes \subseteq 0 .. n - 1
             /\ Fits(ad(pos)) => (Names <=> NamesAt(data, n, pos))
      BY <2>2, <2>4, WalkReads
    <2> HIDE DEF n
    <2>7. CASE AdvSkip
      <3>1. /\ pos + 1 < n /\ Fits(ad(pos)) /\ ~Names /\ out' = out
            /\ reads' = reads \cup ({pos, pos + 1} \cup IdBytes)
            /\ pos' = (pos + 1 + ad(pos)) % 256
        BY <2>7 DEF AdvSkip, Read, n
      <3>2. data[pos] \in Nat /\ data[pos] # 0 /\ pos + 1 + data[pos] <= n
        BY <2>6, <3>1, ByteInt DEF Fits, n
      <3>3. pos' = pos + 1 + data[pos] /\ pos' \in 0 .. n
        BY <2>3, <2>4, <2>6, <3>1, <3>2
      <3>4. reads' \subseteq 0 .. n - 1
        BY <2>4, <2>6, <3>1
      <3>5. StartOf(data, pos')
        BY <2>3, <2>4, <2>6, <3>1, <3>2, <3>3, StartNext
      <3>6. Passed(data, n, pos', V \cup {pos})
        BY <2>3, <2>5, <2>6, <3>1, <3>2, <3>3, PassedNext
      <3> QED
        BY <2>1, <2>2, <3>1, <3>3, <3>4, <3>5, <3>6 DEF WalkInv, n
    <2>8. CASE AdvMatch
      <3>1. /\ pos + 1 < n /\ Fits(ad(pos)) /\ Names /\ out' = [nintendo |-> TRUE]
            /\ reads' = reads \cup ({pos, pos + 1} \cup IdBytes) /\ pos' = pos
        BY <2>8 DEF AdvMatch, Read, n
      <3>2. reads' \subseteq 0 .. n - 1 /\ NamesAt(data, n, pos)
        BY <2>4, <2>6, <3>1
      <3>3. pos \in 0 .. n - 4
        <4>1. data[pos] \in Nat /\ data[pos] >= 3 /\ pos + data[pos] < n
          BY <2>6, <3>1, <3>2, ByteInt DEF NamesAt
        <4> QED
          BY <2>3, <2>4, <4>1
      <3>4. out'.nintendo = TRUE /\ \E p \in 0 .. n - 4 : StartOf(data, p) /\ NamesAt(data, n, p)
        BY <2>4, <3>1, <3>2, <3>3
      <3>5. out' # None
        BY <3>1 DEF None
      <3> QED
        BY <2>1, <2>2, <2>4, <3>1, <3>2, <3>4, <3>5 DEF WalkInv, n
    <2>9. CASE AdvEnd
      <3>1. /\ out' = [nintendo |-> FALSE] /\ pos' = pos
            /\ pos + 1 < n => ~Fits(ad(pos)) /\ reads' = reads \cup {pos, pos + 1}
            /\ ~(pos + 1 < n) => reads' = reads
        BY <2>9 DEF AdvEnd, Read, n
      <3>2. reads' \subseteq 0 .. n - 1
        BY <2>4, <2>6, <3>1
      <3>3. pos + 1 < n => data[pos] = 0 \/ pos + 1 + data[pos] > n
        BY <2>3, <2>4, <2>6, <3>1, ByteInt DEF Fits, n
      <3>4. ~\E p \in 0 .. n - 4 : StartOf(data, p) /\ NamesAt(data, n, p)
        BY <2>3, <2>4, <2>5, <3>3, NoneLeft
      <3>5. out'.nintendo = FALSE /\ out' # None
        BY <3>1 DEF None
      <3> QED
        BY <2>1, <2>2, <2>4, <3>1, <3>2, <3>4, <3>5 DEF WalkInv, n
    <2> QED
      BY <1>6, <2>7, <2>8, <2>9
  <1> QED
    BY <1>1, <1>2, <1>3, <1>4, <1>5, <1>6 DEF Next, Converts

\* What the builders made is from the data of the call.
LEMMA ProtocolStep ==
    ASSUME CInv, [Next]_vars
    PROVE  ProtocolInv'
  <1>1. CASE Converts
    BY <1>1, ConvertsElse DEF ProtocolInv
  <1>2. CASE \E p \in Payloads : BuildCommand(p)
    BY <1>2 DEF BuildCommand, Call, ProtocolInv, Built
  <1>3. CASE UNCHANGED vars
    BY <1>3 DEF vars, CInv, ProtocolInv
  <1>4. CASE Return
    BY <1>4 DEF Return, ProtocolInv
  <1>5. CASE (\E d \in AdvData : prog = "adv" /\ AdvertisingReport(d)) \/ AdvSkip \/ AdvMatch \/ AdvEnd
    BY <1>5 DEF AdvertisingReport, AdvSkip, AdvMatch, AdvEnd, Walking, ProtocolInv
  <1> QED
    BY <1>1, <1>2, <1>3, <1>4, <1>5 DEF Next, Converts

\* The invariant is inductive.
LEMMA CStep == CInv /\ [Next]_vars => CInv'
  <1> SUFFICES ASSUME CInv, [Next]_vars PROVE CInv'
    OBVIOUS
  <1>1. prog' = prog
    BY DEF Next, vars, PropertiesChanged, Notification, GattNotification, handle_report, BuildCommand,
           Call, AdvertisingReport, AdvSkip, AdvMatch, AdvEnd, Return
  <1> QED
    BY <1>1, AdvStep, ProtocolStep DEF CInv

\* So it holds for ever.
LEMMA CAlways == Spec => []CInv
  <1>1. Init => CInv
    BY DEF Init, CInv, AdvInv, ProtocolInv
  <1> QED
    BY <1>1, CStep, PTL DEF Spec

-----------------------------------------------------------------------------
(* The theorems *)

\* For every advertisement of up to 255 bytes adv_is_nintendo reads no byte beyond its end,
\* its uint8_t position never wraps, and it answers yes exactly if a complete structure of
\* manufacturer data with Nintendo's number is there.
THEOREM AdvWalkCorrect == Spec => []AdvWalkSound
  <1>1. ASSUME CInv PROVE AdvWalkSound
    <2> SUFFICES ASSUME prog = "adv", data # None
                 PROVE  LET n == Size(data) IN
                        /\ \A i \in reads : i < n
                        /\ ~Walking =>
                             (out.nintendo <=> \E p \in 0 .. n - 4 : StartOf(data, p) /\ NamesAt(data, n, p))
      BY DEF AdvWalkSound, IsStart, End, StartOf, NamesAt, Returned
    <2>1. data \in AdvData /\ WalkInv
      BY <1>1 DEF CInv, AdvInv
    <2>2. Size(data) \in Nat
      BY <2>1, AdvSize
    <2>3. \A i \in reads : i < Size(data)
      BY <2>1, <2>2 DEF WalkInv
    <2>4. ~Walking => out # None
      BY DEF Walking, Returned
    <2> QED
      BY <2>1, <2>3, <2>4 DEF WalkInv
  <1> QED
    BY <1>1, CAlways, PTL

\* A frame is its header and the data.
LEMMA FrameShape ==
    ASSUME NEW p \in Payloads
    PROVE  LET frame == Header(Len(p)) \o p IN
           /\ Len(p) \in 0 .. 255 /\ Len(frame) = 8 + Len(p) /\ frame[6] = Len(p)
           /\ build_nwcp(Len(p)) = Header(Len(p))
  <1>1. p \in Seq(Byte) /\ Len(p) \in Nat /\ Len(p) <= 255
    BY CodecAssumption DEF CodecAssumption
  <1>2. Header(Len(p)) \in Seq(Nat) /\ Len(Header(Len(p))) = 8 /\ Header(Len(p))[6] = Len(p)
    BY <1>1 DEF Header, Cmd, Sub
  <1>3. p \in Seq(Nat)
    BY <1>1, ByteInt
  <1>4. /\ Len(Header(Len(p)) \o p) = 8 + Len(p)
        /\ (Header(Len(p)) \o p)[6] = Header(Len(p))[6]
    <2> DEFINE h == Header(Len(p))
    <2> HIDE DEF h
    <2>1. /\ Len(h \o p) = Len(h) + Len(p)
          /\ \A i \in 1 .. Len(h) + Len(p) : (h \o p)[i] = IF i <= Len(h) THEN h[i] ELSE p[i - Len(h)]
      BY <1>2, <1>3, ConcatProperties, Zenon DEF h
    <2>2. Len(h) = 8
      BY <1>2 DEF h
    <2> QED
      BY <1>1, <2>1, <2>2 DEF h
  <1>5. Len(p) % 256 = Len(p) /\ (Len(p) \div 256) % 256 = 0
    BY <1>1
  <1>6. build_nwcp(Len(p)) = Header(Len(p))
    BY <1>5 DEF build_nwcp, Header
  <1>7. Len(p) \in 0 .. 255
    <2>1. \A k \in Nat : k <= 255 => k \in 0 .. 255
      OBVIOUS
    <2> QED
      BY <1>1, <2>1, Zenon
  <1> QED
    BY <1>2, <1>4, <1>6, <1>7, Zenon

\* For every command of up to 255 bytes of data the three builders make the same frame, whose
\* length byte gives its end, and the library's uint8_t length is wrong exactly from 248 bytes on.
THEOREM FramesCorrect == Spec => []FramesAgree
  <1>1. ASSUME CInv PROVE FramesAgree
    <2> SUFFICES ASSUME prog = "protocol", out # None
                 PROVE  FramesAgree
      BY DEF FramesAgree
    <2>1. data \in Payloads /\ out = Built(data)
      BY <1>1 DEF CInv, ProtocolInv
    <2> DEFINE n == Len(data)
               frame == Header(n) \o data
    <2>2. /\ n \in 0 .. 255 /\ Len(frame) = 8 + n /\ frame[6] = n
          /\ build_nwcp(n) = Header(n)
      BY <2>1, FrameShape
    <2>3. /\ out.bridge.bytes = frame /\ out.bridge.len = 8 + n
          /\ out.library.bytes = frame /\ out.library.len = (8 + n) % 256
      BY <2>1 DEF Built, build_cmd, switch2_build_command
    <2>4. (8 + n) % 256 = 8 + n <=> n < 248
      BY <2>2
    <2>5. out.nwcp # None => out.nwcp = nwcp_send_cmd(data)
      BY <2>1 DEF Built
    <2>6. /\ nwcp_send_cmd(data).bytes = Prefix \o frame
          /\ nwcp_send_cmd(data).len = 33 + Len(frame)
      BY <2>2 DEF nwcp_send_cmd
    <2> HIDE DEF n, frame
    <2>7. Len(frame) = out.bridge.len /\ frame[6] = Len(frame) - 8
      BY <2>2, <2>3
    <2>8. out.library.len = Len(frame) <=> n < 248
      BY <2>2, <2>3, <2>4
    <2> QED
      BY <2>3, <2>5, <2>6, <2>7, <2>8 DEF FramesAgree, n
  <1> QED
    BY <1>1, CAlways, PTL
-----------------------------------------------------------------------------
(* Types: what the conversions return for every report *)

\* ctrl_t: 24 buttons, four axes in 16 bits, the hat.
Ctrl == [buttons : Uint(24), lx : Uint(16), ly : Uint(16), rx : Uint(16), ry : Uint(16), dpad : 0 .. 8]

\* 24 bits as a bound.
LEMMA U24 == \A n : n \in Uint(24) <=> n \in Nat /\ n < 16777216
  BY SMT DEF Uint

\* 16 bits as a bound.
LEMMA U16 == \A n : n \in Uint(16) <=> n \in Nat /\ n < 65536
  BY SMT DEF Uint

\* Within a report there are bytes.
LEMMA ReportBytes ==
    ASSUME NEW r \in ReportSet
    PROVE  /\ Size(r) \in Nat
           /\ \A i \in Nat : i < Size(r) => r[i] \in Nat /\ r[i] <= 255
  <1>1. Size(r) \in Nat /\ r \in [0 .. Size(r) - 1 -> Byte]
    BY CodecAssumption DEF CodecAssumption
  <1>2. ASSUME NEW i \in Nat, i < Size(r) PROVE r[i] \in Byte
    BY <1>1, <1>2
  <1> QED
    BY <1>1, <1>2, ByteInt

\* The hat is one of eight directions or the null state.
LEMMA HatType == \A dp \in 0 .. 15 : dpad_of(dp) \in 0 .. 8
  BY DEF dpad_of, Hat

\* A nibble has four bits.
LEMMA NibbleType == \A b \in Nat : b <= 255 => Hi(b) \in 0 .. 15 /\ Lo(b) \in 0 .. 15
  BY DEF Hi, Lo

\* parse_input keeps the types of ctrl_t.
LEMMA ParseType ==
    ASSUME NEW s \in Ctrl, NEW r \in ReportSet
    PROVE  parse_input(s, r) \in Ctrl
  <1>1. CASE Size(r) < 11
    BY <1>1 DEF parse_input
  <1>2. CASE ~(Size(r) < 11)
    <2>1. \A i \in 2 .. 10 : r[i] \in Nat /\ r[i] <= 255
      BY <1>2, ReportBytes
    <2>2. r[2] + 256 * r[3] + 65536 * r[4] \in Uint(24)
      BY <2>1, U24, SMT
    <2>3. \A i, j \in 2 .. 10 : /\ 16 * r[i] + Hi(r[j]) \in Uint(16)
                                /\ 16 * r[i] + Lo(r[j]) \in Uint(16)
      <3>1. \A a \in Nat, l \in 0 .. 15 : a <= 255 => 16 * a + l \in Uint(16)
        BY U16, SMT
      <3> QED
        BY <2>1, <3>1, NibbleType
    <2>4. dpad_of(Lo(r[3])) \in 0 .. 8
      BY <2>1, NibbleType, HatType
    <2> QED
      BY <1>2, <2>2, <2>3, <2>4, SMT DEF parse_input, Ctrl
  <1> QED
    BY <1>1, <1>2

\* Thirteen bytes are a HID report.
LEMMA HidBytes ==
    ASSUME NEW t, \A k \in 1 .. 13 : t[k] \in Byte
    PROVE  [i \in 0 .. HID_INPUT_REPORT_SIZE - 1 |-> t[i + 1]] \in HidReport
  BY DEF HidReport, HID_INPUT_REPORT_SIZE

\* build_hid_report makes thirteen bytes of any ctrl_t.
LEMMA BuildType ==
    ASSUME NEW s \in Ctrl
    PROVE  build_hid_report(s) \in HidReport
  <1> DEFINE b == HidButtons(s)
             t == <<1, b % 256, (b \div 256) % 256, b \div 65536,
                    s.lx % 256, s.lx \div 256, s.ly % 256, s.ly \div 256,
                    s.rx % 256, s.rx \div 256, s.ry % 256, s.ry \div 256, s.dpad>>
  <1>1. b \in Nat /\ b < 2097152
    <2>1. s.buttons \in Nat
      BY U24 DEF Ctrl
    <2> QED
      BY <2>1, SMT DEF HidButtons
  <1>2. b % 256 \in Byte /\ (b \div 256) % 256 \in Byte /\ b \div 65536 \in Byte /\ 1 \in Byte
    BY <1>1, SMT DEF Byte
  <1>3. \A v \in Uint(16) : v % 256 \in Byte /\ v \div 256 \in Byte
    BY U16, SMT DEF Byte
  <1>4. s.dpad \in Byte
    BY DEF Ctrl, Byte
  <1>5. /\ s.lx % 256 \in Byte /\ s.lx \div 256 \in Byte /\ s.ly % 256 \in Byte /\ s.ly \div 256 \in Byte
        /\ s.rx % 256 \in Byte /\ s.rx \div 256 \in Byte /\ s.ry % 256 \in Byte /\ s.ry \div 256 \in Byte
    BY <1>3 DEF Ctrl
  <1>6. build_hid_report(s) = [i \in 0 .. HID_INPUT_REPORT_SIZE - 1 |-> t[i + 1]]
    BY DEF build_hid_report
  <1> HIDE DEF b
  <1>7. \A k \in 1 .. 13 : t[k] \in Byte
    BY <1>2, <1>4, <1>5, SMT
  <1> HIDE DEF t
  <1> QED
    BY <1>6, <1>7, HidBytes

\* A bit is 0 or 1 (the two buttons that become triggers).
LEMMA BitType == \A n \in Nat : Bit(n, 6) \in 0 .. 1 /\ Bit(n, 7) \in 0 .. 1
  BY SMT DEF Bit

\* report09_to_uhid makes thirteen bytes of any report it accepts.
LEMMA UhidType ==
    ASSUME NEW r \in ReportSet, report09_to_uhid(r) # None
    PROVE  report09_to_uhid(r) \in HidReport
  <1> DEFINE b == le16(r, 1)
             lx == stick12_at(r, 3)
             ly == stick12_at(r, 5)
             rx == stick12_at(r, 7)
             ry == stick12_at(r, 9)
             t == <<1, b % 256, b \div 256, Bit(b, 6) + 2 * Bit(b, 7),
                    lx % 256, (lx \div 256) + 16 * (ly % 16), ly \div 16,
                    rx % 256, (rx \div 256) + 16 * (ry % 16), ry \div 16,
                    dpad_from_buttons(b), 255 * Bit(b, 6), 255 * Bit(b, 7)>>
  <1>1. ~(Size(r) < 11 \/ r[0] # 9)
    BY DEF report09_to_uhid, Rejected, None
  <1>2. /\ \A i \in 0 .. 10 : r[i] \in Nat /\ r[i] <= 255
        /\ Size(r) \in Nat
    BY <1>1, ReportBytes
  <1>3. b \in Nat /\ b < 65536
    BY <1>2, SMT DEF le16
  <1>4. \A i \in 0 .. 9 : stick12_at(r, i) \in Nat /\ stick12_at(r, i) < 4096
    <2>1. \A i \in 0 .. 9 : le16(r, i) \in Nat
      BY <1>2, SMT DEF le16
    <2>2. \A n \in Nat : n % 4096 \in Nat /\ n % 4096 < 4096
      BY SMT
    <2>3. 2048 \in Nat /\ 2048 < 4096
      BY SMT
    <2> QED
      BY <2>1, <2>2, <2>3, SMT DEF stick12_at
  <1>5. /\ 1 \in Byte /\ b % 256 \in Byte /\ b \div 256 \in Byte
        /\ Bit(b, 6) + 2 * Bit(b, 7) \in Byte /\ 255 * Bit(b, 6) \in Byte /\ 255 * Bit(b, 7) \in Byte
        /\ dpad_from_buttons(b) \in Byte
    BY <1>3, BitType, SMT DEF Byte, dpad_from_buttons, Centre
  <1>6. \A x, y \in Nat : x < 4096 /\ y < 4096 =>
           /\ x % 256 \in Byte /\ (x \div 256) + 16 * (y % 16) \in Byte /\ y \div 16 \in Byte
    BY SMT DEF Byte
  <1>7. /\ lx % 256 \in Byte /\ (lx \div 256) + 16 * (ly % 16) \in Byte /\ ly \div 16 \in Byte
        /\ rx % 256 \in Byte /\ (rx \div 256) + 16 * (ry % 16) \in Byte /\ ry \div 16 \in Byte
    BY <1>4, <1>6, SMT
  <1>8. report09_to_uhid(r) = [i \in 0 .. 12 |-> t[i + 1]]
    BY <1>1, SMT DEF report09_to_uhid
  <1> HIDE DEF b, lx, ly, rx, ry
  <1>9. \A k \in 1 .. 13 : t[k] \in Byte
    BY <1>5, <1>7, SMT
  <1> HIDE DEF t
  <1> QED
    BY <1>8, <1>9, HidBytes DEF HID_INPUT_REPORT_SIZE

\* The clamp keeps any number within 16 bits.
LEMMA ClampType == \A n \in Int : Max({-32768, Min({32767, n})}) \in Axis
  <1>1. \A n \in Int : Min({32767, n}) \in Int /\ Min({32767, n}) <= 32767
    BY SMT DEF Min
  <1>2. \A n \in Int : n <= 32767 => Max({-32768, n}) \in Axis
    BY SMT DEF Max, Axis
  <1> QED
    BY <1>1, <1>2, SMT

\* int() returns an integer.
LEMMA TruncType == \A n \in Int : Trunc(n * 32767, 1000) \in Int
  BY SMT DEF Trunc

\* So does rounding to thousandths.
LEMMA NormType == \A v \in Nat : Norm(v) \in Int
  BY SMT DEF Norm, Nearest

\* axis_val stays within 16 bits.
LEMMA AxisType == \A n \in Int : axis_val(n) \in Axis
  BY TruncType, ClampType, SMT DEF axis_val

\* Every axis update_uinput writes does.
LEMMA UinputType ==
    ASSUME NEW r \in ReportSet, ~(Size(r) < 11)
    PROVE  \A a \in {"x", "y", "rx", "ry", "z", "rz"} : update_uinput(decode_report(r))[a] \in Axis
  <1> DEFINE d == decode_report(r)
  <1>1. \A i \in 0 .. 10 : r[i] \in Nat /\ r[i] <= 255
    BY ReportBytes
  <1>2. \A o \in {5, 8} : decode_stick12(r, o).x \in Nat /\ decode_stick12(r, o).y \in Nat
    BY <1>1, NibbleType, SMT DEF decode_stick12
  <1>3. d.left = decode_stick12(r, 5) /\ d.right = decode_stick12(r, 8)
    BY DEF decode_report
  <1> HIDE DEF d
  <1>4. \A v \in Nat : axis_val(Norm(v)) \in Axis /\ axis_val(-Norm(v)) \in Axis
    BY NormType, AxisType, SMT
  <1>5. 0 \in Axis /\ 255 \in Axis
    BY SMT DEF Axis
  <1>6. /\ axis_val(Norm(d.left.x)) \in Axis /\ axis_val(-Norm(d.left.y)) \in Axis
        /\ axis_val(Norm(d.right.x)) \in Axis /\ axis_val(-Norm(d.right.y)) \in Axis
    BY <1>2, <1>3, <1>4, SMT
  <1>7. \A a \in {"x", "y", "rx", "ry", "z", "rz"} : update_uinput(d)[a] \in Axis
    BY <1>5, <1>6, SMT DEF update_uinput
  <1> QED
    BY <1>7 DEF d

OutType ==
    /\ prog \in {"switch2-bt", "sw2d"} /\ out # None => out \in HidReport
    /\ prog = "switch2d" /\ out # None =>
         \A a \in {"x", "y", "rx", "ry", "z", "rz"} : out[a] \in Axis

\* Only adv_is_nintendo has a position.
TInv == CInv /\ c \in Ctrl /\ OutType /\ (prog # "adv" => pos = 0 /\ reads = {})

\* Every step keeps the types of ctrl_t and of the results.
LEMMA OutStep ==
    ASSUME TInv, [Next]_vars
    PROVE  c' \in Ctrl /\ OutType'
  <1>1. c \in Ctrl /\ OutType
    BY DEF TInv
  <1>2. CASE \E d \in ReportSet : PropertiesChanged(d)
    <2>1. PICK d \in ReportSet : PropertiesChanged(d)
      BY <1>2
    <2>2. prog' = "switch2-bt" /\ c' = parse_input(c, d) /\ out' = build_hid_report(c')
      BY <2>1 DEF PropertiesChanged
    <2>3. c' \in Ctrl
      BY <1>1, <2>2, ParseType
    <2> QED
      BY <2>2, <2>3, BuildType DEF OutType
  <1>3. CASE \E d \in ReportSet : Notification(d)
    <2>1. PICK d \in ReportSet : Notification(d)
      BY <1>3
    <2>2. prog' = "sw2d" /\ c' = c /\ out' = report09_to_uhid(d)
      BY <2>1 DEF Notification, Call
    <2> QED
      BY <1>1, <2>2, UhidType DEF OutType
  <1>4. CASE \E d \in ReportSet : handle_report(d)
    <2>1. PICK d \in ReportSet : handle_report(d)
      BY <1>4
    <2>2. /\ prog' = "switch2d" /\ c' = c
          /\ out' = IF decode_report(d) = Rejected THEN None ELSE update_uinput(decode_report(d))
      BY <2>1 DEF handle_report, Call
    <2>3. decode_report(d) # Rejected => ~(Size(d) < 11)
      BY DEF decode_report
    <2>4. out' # None => out' = update_uinput(decode_report(d)) /\ ~(Size(d) < 11)
      BY <2>2, <2>3
    <2> QED
      BY <1>1, <2>2, <2>4, UinputType DEF OutType
  <1>5. CASE (\E d \in ReportSet : GattNotification(d)) \/ \E p \in Payloads : BuildCommand(p)
    BY <1>1, <1>5 DEF GattNotification, BuildCommand, Call, OutType
  <1>6. CASE (\E d \in AdvData : prog = "adv" /\ AdvertisingReport(d)) \/ AdvSkip \/ AdvMatch \/ AdvEnd
    BY <1>1, <1>6 DEF AdvertisingReport, AdvSkip, AdvMatch, AdvEnd, Walking, OutType
  <1>7. CASE Return
    BY <1>1, <1>7 DEF Return, OutType
  <1>8. CASE UNCHANGED vars
    BY <1>1, <1>8 DEF vars, OutType
  <1> QED
    BY <1>2, <1>3, <1>4, <1>5, <1>6, <1>7, <1>8 DEF Next

\* The types hold for ever.
LEMMA TAlways == Spec => []TInv
  <1>1. Init => TInv
    <2> SUFFICES ASSUME Init PROVE TInv
      OBVIOUS
    <2>1. CInv /\ OutType
      BY DEF Init, CInv, AdvInv, ProtocolInv, OutType
    <2>2. 0 \in Uint(24) /\ 2048 \in Uint(16)
      BY U24, U16, SMT
    <2>3. c \in Ctrl
      BY <2>2, SMT DEF Init, CtrlInit, Ctrl, Centre
    <2> QED
      BY <2>1, <2>3 DEF TInv, Init
  <1>2. TInv /\ [Next]_vars => TInv'
    <2> SUFFICES ASSUME TInv, [Next]_vars PROVE TInv'
      OBVIOUS
    <2>1. CInv'
      BY CStep DEF TInv
    <2>2. prog' # "adv" => pos' = 0 /\ reads' = {}
      BY DEF TInv, Next, vars, PropertiesChanged, Notification, GattNotification, handle_report,
             BuildCommand, Call, AdvertisingReport, AdvSkip, AdvMatch, AdvEnd, Return, Walking
    <2> QED
      BY <2>1, <2>2, OutStep DEF TInv
  <1> QED
    BY <1>1, <1>2, PTL DEF Spec

\* For every report: what switch2-bt.c and sw2d.c write is thirteen bytes, what switch2d.py
\* gives to uinput is within 16 bits, ctrl_t's fields and the uint8_t position within theirs.
THEOREM CodecTypeCorrect == Spec => []TypeOK
  <1>1. ASSUME TInv PROVE TypeOK
    <2>1. prog \in Programs /\ OutType /\ c \in Ctrl
      BY <1>1 DEF TInv, CInv
    <2>2. pos \in Byte /\ reads \subseteq Nat
      <3>1. CASE prog # "adv" \/ data = None
        BY <1>1, <3>1 DEF TInv, CInv, AdvInv, Byte
      <3>2. CASE prog = "adv" /\ data # None
        <4>1. data \in AdvData /\ WalkInv
          BY <1>1, <3>2 DEF TInv, CInv, AdvInv
        <4>2. Size(data) \in Nat /\ Size(data) <= 255
          BY <4>1, AdvSize
        <4> QED
          BY <4>1, <4>2 DEF WalkInv, Byte
      <3> QED
        BY <3>1, <3>2
    <2>3. /\ c.buttons \in Uint(24) /\ c.dpad \in 0 .. 8
          /\ \A a \in {"lx", "ly", "rx", "ry"} : c[a] \in Uint(16)
      BY <2>1 DEF Ctrl
    <2> QED
      BY <2>1, <2>2, <2>3 DEF TypeOK, OutType
  <1> QED
    BY <1>1, TAlways, PTL

-----------------------------------------------------------------------------
(* The fields of a report, as HID and the packed sticks have them *)

\* Three bytes are numbers; beyond the report they are 0.
Bytes(r) == \A i \in Nat : At(r, i) \in Nat /\ At(r, i) <= 255

\* At is the byte of the report, where there is one.
LEMMA ReportAt ==
    ASSUME NEW r \in ReportSet
    PROVE  Bytes(r) /\ \A i \in Nat : i < Size(r) => At(r, i) = r[i]
  <1>1. Size(r) \in Nat /\ r \in [0 .. Size(r) - 1 -> Byte]
    BY CodecAssumption DEF CodecAssumption
  <1>2. ASSUME NEW i \in Nat
        PROVE  /\ At(r, i) \in Nat /\ At(r, i) <= 255
               /\ i < Size(r) => At(r, i) = r[i]
    <2>1. DOMAIN r = 0 .. Size(r) - 1
      BY <1>1
    <2>2. i \in DOMAIN r => r[i] \in Byte
      BY <1>1, <2>1
    <2>3. At(r, i) \in Nat /\ At(r, i) <= 255
      BY <2>2, ByteInt DEF At
    <2>4. i < Size(r) => At(r, i) = r[i]
      BY <1>1, <2>1 DEF At
    <2> QED
      BY <2>3, <2>4
  <1> QED
    BY <1>2 DEF Bytes

\* The same for a HID report, of thirteen bytes.
LEMMA HidAt ==
    ASSUME NEW r \in HidReport
    PROVE  Bytes(r) /\ Size(r) = 13 /\ \A i \in 0 .. 12 : At(r, i) = r[i]
  <1>1. r \in [0 .. 12 -> Byte] /\ DOMAIN r = 0 .. 12
    BY DEF HidReport, HID_INPUT_REPORT_SIZE
  <1>2. Cardinality(0 .. 12) = 13
    <2>1. 0 \in Int /\ 12 \in Int /\ ~(0 > 12) /\ 12 - 0 + 1 = 13
      OBVIOUS
    <2> QED
      BY <2>1, FS_Interval, Zenon
  <1>3. \A i \in 0 .. 12 : At(r, i) = r[i]
    BY <1>1 DEF At
  <1>4. ASSUME NEW i \in Nat PROVE At(r, i) \in Nat /\ At(r, i) <= 255
    <2>1. i \in 0 .. 12 => r[i] \in Byte
      BY <1>1
    <2> QED
      BY <1>1, <2>1, ByteInt DEF At
  <1> QED
    BY <1>1, <1>2, <1>3, <1>4 DEF Bytes, Size

\* Two and three bytes as one number, and its parts.
Pair(a, b) == a + 256 * b
Num(a, b, e) == a + 256 * b + 65536 * e

Low(a, b, n) ==
    /\ (n \div 2^0) % 2^1 = a % 2
    /\ (n \div 2^0) % 2^4 = a % 16
    /\ (n \div 2^0) % 2^8 = a
    /\ (n \div 2^0) % 2^12 = a + 256 * (b % 16)
    /\ (n \div 2^0) % 2^16 = a + 256 * b
    /\ (n \div 2^0) % 2^24 = n

Mid(a, b, n) ==
    /\ (n \div 2^4) % 2^4 = a \div 16
    /\ (n \div 2^4) % 2^8 = (a \div 16) + 16 * (b % 16)
    /\ (n \div 2^4) % 2^12 = (a \div 16) + 16 * b
    /\ (n \div 2^1) % 2^1 = (a \div 2) % 2

High(b, e, n) == n \div 256 = Pair(b, e)

\* The low bits of three bytes.
LEMMA NumLow ==
    ASSUME NEW a \in Nat, NEW b \in Nat, NEW e \in Nat, a <= 255, b <= 255, e <= 255
    PROVE  Low(a, b, Num(a, b, e))
  <1> DEFINE n == Num(a, b, e)
  <1>1. n % 2 = a % 2
    BY SMT DEF Num
  <1>2. n % 16 = a % 16
    BY SMT DEF Num
  <1>3. n % 256 = a
    BY SMT DEF Num
  <1>4. n % 4096 = a + 256 * (b % 16)
    BY SMT DEF Num
  <1>5. n % 65536 = a + 256 * b
    BY SMT DEF Num
  <1>6. n % 16777216 = n
    BY SMT DEF Num
  <1>7. n \in Nat
    BY SMT DEF Num
  <1> HIDE DEF n
  <1>8. n \div 2^0 = n
    BY <1>7, SMT
  <1> QED
    BY <1>1, <1>2, <1>3, <1>4, <1>5, <1>6, <1>8, SMT DEF n, Low

\* Their bits from the middle of the first byte on.
LEMMA NumMid ==
    ASSUME NEW a \in Nat, NEW b \in Nat, NEW e \in Nat, a <= 255, b <= 255, e <= 255
    PROVE  Mid(a, b, Num(a, b, e))
  <1> DEFINE q == a \div 16
             m == q + 16 * b + 4096 * e
  <1>1. Num(a, b, e) \div 16 = m
    BY SMT DEF Num
  <1>2. (Num(a, b, e) \div 2) % 2 = (a \div 2) % 2
    <2>1. Num(a, b, e) \div 2 = (a \div 2) + 128 * b + 32768 * e
      BY SMT DEF Num
    <2>2. \A h \in Nat : (h + 128 * b + 32768 * e) % 2 = h % 2
      BY SMT
    <2>3. a \div 2 \in Nat
      BY SMT
    <2> QED
      BY <2>1, <2>2, <2>3
  <1>3. q \in Nat /\ q < 16
    BY SMT
  <1> HIDE DEF q
  <1>4. m % 16 = q
    BY <1>3, SMT
  <1>5. m % 256 = q + 16 * (b % 16)
    BY <1>3, SMT
  <1>6. m % 4096 = q + 16 * b
    BY <1>3, SMT
  <1> HIDE DEF m
  <1> QED
    BY <1>1, <1>2, <1>4, <1>5, <1>6, SMT DEF q, Mid

\* Fields that start with a byte.
AtByte(r, p) ==
    /\ Field(r, 8 * p, 1) = At(r, p) % 2
    /\ Field(r, 8 * p, 4) = At(r, p) % 16
    /\ Field(r, 8 * p, 8) = At(r, p)
    /\ Field(r, 8 * p, 12) = At(r, p) + 256 * (At(r, p + 1) % 16)
    /\ Field(r, 8 * p, 16) = At(r, p) + 256 * At(r, p + 1)
    /\ Field(r, 8 * p, 24) = Three(r, p)

\* In any byte string fields that start with a byte are as AtByte has them.
LEMMA FieldsAt ==
    ASSUME NEW r, Bytes(r), NEW p \in Nat
    PROVE  AtByte(r, p)
  <1>1. (8 * p) \div 8 = p /\ (8 * p) % 8 = 0
    BY SMT
  <1>2. Three(r, p) = Num(At(r, p), At(r, p + 1), At(r, p + 2))
    BY SMT DEF Three, Num
  <1>3. \A w : Field(r, 8 * p, w) = (Num(At(r, p), At(r, p + 1), At(r, p + 2)) \div 2^0) % 2^w
    BY <1>1, <1>2, Zenon DEF Field
  <1>4. /\ At(r, p) \in Nat /\ At(r, p) <= 255 /\ At(r, p + 1) \in Nat /\ At(r, p + 1) <= 255
        /\ At(r, p + 2) \in Nat /\ At(r, p + 2) <= 255
    BY DEF Bytes
  <1> DEFINE n == Num(At(r, p), At(r, p + 1), At(r, p + 2))
  <1>5. Low(At(r, p), At(r, p + 1), n)
    BY <1>4, NumLow
  <1> HIDE DEF n
  <1>6. /\ Field(r, 8 * p, 1) = (n \div 2^0) % 2^1 /\ Field(r, 8 * p, 4) = (n \div 2^0) % 2^4
        /\ Field(r, 8 * p, 8) = (n \div 2^0) % 2^8 /\ Field(r, 8 * p, 12) = (n \div 2^0) % 2^12
        /\ Field(r, 8 * p, 16) = (n \div 2^0) % 2^16 /\ Field(r, 8 * p, 24) = (n \div 2^0) % 2^24
        /\ Three(r, p) = n
    BY <1>2, <1>3, Zenon DEF n
  <1> QED
    BY <1>5, <1>6, Zenon DEF Low, AtByte

\* Fields that start in the middle of a byte.
InByte(r, p) ==
    /\ Field(r, 8 * p + 4, 4) = At(r, p) \div 16
    /\ Field(r, 8 * p + 4, 8) = (At(r, p) \div 16) + 16 * (At(r, p + 1) % 16)
    /\ Field(r, 8 * p + 4, 12) = (At(r, p) \div 16) + 16 * At(r, p + 1)
    /\ Field(r, 8 * p + 1, 1) = (At(r, p) \div 2) % 2

\* And those that start within a byte as InByte has them.
LEMMA FieldsMid ==
    ASSUME NEW r, Bytes(r), NEW p \in Nat
    PROVE  InByte(r, p)
  <1>1. /\ (8 * p + 4) \div 8 = p /\ (8 * p + 4) % 8 = 4
        /\ (8 * p + 1) \div 8 = p /\ (8 * p + 1) % 8 = 1
    BY SMT
  <1>2. Three(r, p) = Num(At(r, p), At(r, p + 1), At(r, p + 2))
    BY SMT DEF Three, Num
  <1>3. /\ \A w : Field(r, 8 * p + 4, w) = (Num(At(r, p), At(r, p + 1), At(r, p + 2)) \div 2^4) % 2^w
        /\ \A w : Field(r, 8 * p + 1, w) = (Num(At(r, p), At(r, p + 1), At(r, p + 2)) \div 2^1) % 2^w
    BY <1>1, <1>2, Zenon DEF Field
  <1>4. /\ At(r, p) \in Nat /\ At(r, p) <= 255 /\ At(r, p + 1) \in Nat /\ At(r, p + 1) <= 255
        /\ At(r, p + 2) \in Nat /\ At(r, p + 2) <= 255
    BY DEF Bytes
  <1> DEFINE n == Num(At(r, p), At(r, p + 1), At(r, p + 2))
  <1>5. Mid(At(r, p), At(r, p + 1), n)
    BY <1>4, NumMid
  <1> HIDE DEF n
  <1>6. /\ Field(r, 8 * p + 4, 4) = (n \div 2^4) % 2^4 /\ Field(r, 8 * p + 4, 8) = (n \div 2^4) % 2^8
        /\ Field(r, 8 * p + 4, 12) = (n \div 2^4) % 2^12 /\ Field(r, 8 * p + 1, 1) = (n \div 2^1) % 2^1
    BY <1>3, Zenon DEF n
  <1> QED
    BY <1>5, <1>6, Zenon DEF Mid, InByte

\* Where the items of hid_report_descriptor lie.
LEMMA HidItems ==
    \A r : /\ \A j \in 0 .. 3 : Item(r, hid_report_descriptor, 2, j) = Field(r, 8 * (4 + 2 * j), 16)
           /\ Item(r, hid_report_descriptor, 3, 0) = Field(r, 8 * 12, 4)
           /\ Buttons(r, hid_report_descriptor) = Field(r, 8 * 1, 24)
           /\ FillsDescriptor(r, hid_report_descriptor) <=> Size(r) = 13
  <1> DEFINE d == hid_report_descriptor
  <1>1. /\ Bits(d, 1) = 24 /\ Bits(d, 2) = 88 /\ Bits(d, Len(d)) = 96
        /\ d[1].count = 24 /\ d[2].size = 16 /\ d[3].size = 4
    BY SMT DEF Bits, hid_report_descriptor
  <1> HIDE DEF d
  <1>2. ASSUME NEW r, NEW j \in 0 .. 3 PROVE Item(r, d, 2, j) = Field(r, 8 * (4 + 2 * j), 16)
    <2>1. 8 + Bits(d, 2 - 1) + j * 16 = 8 * (4 + 2 * j)
      BY <1>1, SMT
    <2> QED
      BY <1>1, <2>1 DEF Item
  <1>3. ASSUME NEW r PROVE Item(r, d, 3, 0) = Field(r, 8 * 12, 4)
    <2>1. 8 + Bits(d, 3 - 1) + 0 * 4 = 8 * 12
      BY <1>1, SMT
    <2> QED
      BY <1>1, <2>1 DEF Item
  <1>4. \A r : Buttons(r, d) = Field(r, 8 * 1, 24)
    BY <1>1 DEF Buttons
  <1>5. \A r : FillsDescriptor(r, d) <=> Size(r) = 13
    BY <1>1, SMT DEF FillsDescriptor
  <1> QED
    BY <1>2, <1>3, <1>4, <1>5 DEF d

\* Where the items of gamepad_rdesc lie.
LEMMA UhidItems ==
    \A r : /\ Item(r, gamepad_rdesc, 2, 0) = Field(r, 8 * 4, 12)
           /\ Item(r, gamepad_rdesc, 2, 1) = Field(r, 8 * 5 + 4, 12)
           /\ Item(r, gamepad_rdesc, 2, 2) = Field(r, 8 * 7, 12)
           /\ Item(r, gamepad_rdesc, 2, 3) = Field(r, 8 * 8 + 4, 12)
           /\ Item(r, gamepad_rdesc, 1, 16) = Field(r, 8 * 3, 1)
           /\ Item(r, gamepad_rdesc, 1, 17) = Field(r, 8 * 3 + 1, 1)
           /\ Item(r, gamepad_rdesc, 3, 0) = Field(r, 8 * 10, 4)
           /\ Item(r, gamepad_rdesc, 4, 0) = Field(r, 8 * 10 + 4, 4)
           /\ \A j \in 0 .. 1 : Item(r, gamepad_rdesc, 5, j) = Field(r, 8 * (11 + j), 8)
           /\ Buttons(r, gamepad_rdesc) = Field(r, 8 * 1, 24)
           /\ FillsDescriptor(r, gamepad_rdesc) <=> Size(r) = 13
  <1> DEFINE d == gamepad_rdesc
  <1>1. /\ Bits(d, 1 - 1) = 0 /\ Bits(d, 2 - 1) = 24 /\ Bits(d, 3 - 1) = 72 /\ Bits(d, 4 - 1) = 76
        /\ Bits(d, 5 - 1) = 80 /\ Bits(d, Len(d)) = 96 /\ d[1].count = 24
        /\ d[1].size = 1 /\ d[2].size = 12 /\ d[3].size = 4 /\ d[4].size = 4 /\ d[5].size = 8
    BY SMT DEF Bits, gamepad_rdesc
  <1> HIDE DEF d
  <1>2. /\ 8 + 24 + 0 * 12 = 8 * 4 /\ 8 + 24 + 1 * 12 = 8 * 5 + 4
        /\ 8 + 24 + 2 * 12 = 8 * 7 /\ 8 + 24 + 3 * 12 = 8 * 8 + 4
        /\ 8 + 0 + 16 * 1 = 8 * 3 /\ 8 + 0 + 17 * 1 = 8 * 3 + 1
        /\ 8 + 72 + 0 * 4 = 8 * 10 /\ 8 + 76 + 0 * 4 = 8 * 10 + 4
        /\ \A j \in 0 .. 1 : 8 + 80 + j * 8 = 8 * (11 + j)
    BY SMT
  <1>3. \A r : /\ Item(r, d, 2, 0) = Field(r, 8 + 24 + 0 * 12, 12)
               /\ Item(r, d, 2, 1) = Field(r, 8 + 24 + 1 * 12, 12)
               /\ Item(r, d, 2, 2) = Field(r, 8 + 24 + 2 * 12, 12)
               /\ Item(r, d, 2, 3) = Field(r, 8 + 24 + 3 * 12, 12)
               /\ Item(r, d, 1, 16) = Field(r, 8 + 0 + 16 * 1, 1)
               /\ Item(r, d, 1, 17) = Field(r, 8 + 0 + 17 * 1, 1)
               /\ Item(r, d, 3, 0) = Field(r, 8 + 72 + 0 * 4, 4)
               /\ Item(r, d, 4, 0) = Field(r, 8 + 76 + 0 * 4, 4)
               /\ \A j \in 0 .. 1 : Item(r, d, 5, j) = Field(r, 8 + 80 + j * 8, 8)
               /\ Buttons(r, d) = Field(r, 8, 24)
    BY <1>1, Zenon DEF Item, Buttons
  <1>4. \A r : FillsDescriptor(r, d) <=> Size(r) = 13
    BY <1>1, SMT DEF FillsDescriptor
  <1> QED
    BY <1>2, <1>3, <1>4 DEF d

-----------------------------------------------------------------------------
(* What a program has made of the last report *)

Converted ==
    /\ prog = "switch2-bt" =>
         /\ out # None => out = build_hid_report(c)
         /\ c.dpad = dpad_of((c.buttons \div 256) % 16)
         /\ data = None => /\ c.lx = 2048 /\ c.ly = 2048 /\ c.rx = 2048 /\ c.ry = 2048
                           /\ c.buttons = 0
         /\ data # None => data \in ReportSet /\ ~(Size(data) < 11) /\ c = parse_input(c, data)
    /\ prog = "sw2d" /\ out # None => data \in ReportSet /\ out = report09_to_uhid(data)
    /\ prog = "sw2d_btstack" /\ out # None => data \in ReportSet /\ out = parse_switch_report(data)
    /\ prog = "switch2d" /\ out # None =>
         /\ data \in ReportSet /\ ~(Size(data) < 11)
         /\ out = update_uinput(decode_report(data))

\* Three bytes without the first.
LEMMA NumHigh ==
    ASSUME NEW a \in Nat, NEW b \in Nat, NEW e \in Nat, a <= 255
    PROVE  High(b, e, Num(a, b, e))
  BY SMT DEF Num, Pair, High

\* A number is its low byte and the rest.
LEMMA PairOf == \A v \in Nat : Pair(v % 256, v \div 256) = v
  BY SMT DEF Pair

\* The hat is that of the button bits of the same report.
LEMMA ParsedHat ==
    ASSUME NEW s, NEW r \in ReportSet, ~(Size(r) < 11)
    PROVE  parse_input(s, r).dpad = dpad_of((parse_input(s, r).buttons \div 256) % 16)
  <1>1. \A i \in 2 .. 10 : r[i] \in Nat /\ r[i] <= 255
    BY ReportBytes
  <1>2. PICK x \in Nat, y \in Nat, z \in Nat : x = r[2] /\ y = r[3] /\ z = r[4] /\ x <= 255 /\ y <= 255
    BY <1>1
  <1>3. High(y, z, Num(x, y, z))
    BY <1>2, NumHigh
  <1>4. Pair(y, z) % 16 = y % 16
    BY <1>2, SMT DEF Pair
  <1>5. /\ parse_input(s, r).dpad = dpad_of(Lo(y))
        /\ parse_input(s, r).buttons = Num(x, y, z)
    BY <1>2, SMT DEF parse_input, Num
  <1> QED
    BY <1>3, <1>4, <1>5 DEF High, Lo

\* A report of 11 bytes is not the empty one.
LEMMA LongReport ==
    ASSUME NEW r, ~(Size(r) < 11)
    PROVE  r # None
  <1>1. Size(None) = 0
    <2>1. DOMAIN None = {}
      BY DEF None
    <2> QED
      BY <2>1, FS_EmptySet DEF Size
  <1> QED
    BY <1>1

\* Every step keeps the relation of the result to the last report.
LEMMA ConvertedStep ==
    ASSUME Converted, [Next]_vars
    PROVE  Converted'
  <1>1. CASE \E d \in ReportSet : PropertiesChanged(d)
    <2>1. PICK d \in ReportSet : PropertiesChanged(d)
      BY <1>1
    <2>2. /\ prog = "switch2-bt" /\ prog' = "switch2-bt" /\ c' = parse_input(c, d)
          /\ out' = build_hid_report(c') /\ data' = IF Size(d) < 11 THEN data ELSE d
      BY <2>1 DEF PropertiesChanged
    <2>3. CASE Size(d) < 11
      <3>1. c' = c /\ data' = data
        BY <2>2, <2>3 DEF parse_input
      <3> QED
        BY <2>2, <3>1 DEF Converted
    <2>4. CASE ~(Size(d) < 11)
      <3>1. data' = d /\ data' # None
        BY <2>2, <2>4, LongReport
      <3>2. c'.dpad = dpad_of((c'.buttons \div 256) % 16)
        BY <2>2, <2>4, ParsedHat
      <3>3. parse_input(c, d) = parse_input(c', d)
        BY <2>4 DEF parse_input
      <3> QED
        BY <2>2, <2>4, <3>1, <3>2, <3>3 DEF Converted
    <2> QED
      BY <2>3, <2>4
  <1>2. CASE \E d \in ReportSet : Notification(d) \/ GattNotification(d)
    BY <1>2 DEF Notification, GattNotification, Call, Converted
  <1>3. CASE \E d \in ReportSet : handle_report(d)
    <2>1. PICK d \in ReportSet : handle_report(d)
      BY <1>3
    <2>2. /\ prog' = "switch2d" /\ data' = d
          /\ out' = IF decode_report(d) = Rejected THEN None ELSE update_uinput(decode_report(d))
      BY <2>1 DEF handle_report, Call
    <2>3. decode_report(d) # Rejected => ~(Size(d) < 11)
      BY DEF decode_report
    <2>4. out' # None => out' = update_uinput(decode_report(d)) /\ ~(Size(d) < 11)
      BY <2>2, <2>3
    <2> QED
      BY <2>2, <2>4 DEF Converted
  <1>4. CASE \E p \in Payloads : BuildCommand(p)
    BY <1>4 DEF BuildCommand, Call, Converted
  <1>5. CASE (\E d \in AdvData : prog = "adv" /\ AdvertisingReport(d)) \/ AdvSkip \/ AdvMatch \/ AdvEnd
    BY <1>5 DEF AdvertisingReport, AdvSkip, AdvMatch, AdvEnd, Walking, Converted
  <1>6. CASE Return
    BY <1>6 DEF Return, Converted
  <1>7. CASE UNCHANGED vars
    BY <1>7 DEF vars, Converted
  <1> QED
    BY <1>1, <1>2, <1>3, <1>4, <1>5, <1>6, <1>7 DEF Next

\* So it holds for ever.
LEMMA ConvertedAlways == Spec => []Converted
  <1>1. Init => Converted
    <2> SUFFICES ASSUME Init PROVE Converted
      OBVIOUS
    <2>1. (0 \div 256) % 16 = 0 /\ dpad_of(0) = 8
      BY SMT DEF dpad_of, Hat
    <2>2. /\ c.dpad = 8 /\ c.buttons = 0 /\ c.lx = 2048 /\ c.ly = 2048 /\ c.rx = 2048 /\ c.ry = 2048
          /\ data = None /\ out = None
      BY SMT DEF Init, CtrlInit, Centre
    <2> QED
      BY <2>1, <2>2, SMT DEF Converted
  <1> QED
    BY <1>1, ConvertedStep, PTL DEF Spec

-----------------------------------------------------------------------------
(* switch2-bt.c *)

\* Its HID report has the buttons, the axes and the hat where the descriptor says.
LEMMA HidFields ==
    ASSUME NEW s \in Ctrl
    PROVE  LET r == build_hid_report(s) IN
           /\ Buttons(r, hid_report_descriptor) = HidButtons(s)
           /\ Item(r, hid_report_descriptor, 2, 0) = s.lx /\ Item(r, hid_report_descriptor, 2, 1) = s.ly
           /\ Item(r, hid_report_descriptor, 2, 2) = s.rx /\ Item(r, hid_report_descriptor, 2, 3) = s.ry
           /\ Item(r, hid_report_descriptor, 3, 0) = s.dpad
           /\ FillsDescriptor(r, hid_report_descriptor)
  <1> DEFINE r == build_hid_report(s)
             b == HidButtons(s)
  <1>1. r \in HidReport
    BY BuildType
  <1>2. Bytes(r) /\ Size(r) = 13 /\ \A i \in 0 .. 12 : At(r, i) = r[i]
    BY <1>1, HidAt
  <1>3. /\ r[1] = b % 256 /\ r[2] = (b \div 256) % 256 /\ r[3] = b \div 65536
        /\ r[4] = s.lx % 256 /\ r[5] = s.lx \div 256 /\ r[6] = s.ly % 256 /\ r[7] = s.ly \div 256
        /\ r[8] = s.rx % 256 /\ r[9] = s.rx \div 256 /\ r[10] = s.ry % 256 /\ r[11] = s.ry \div 256
        /\ r[12] = s.dpad
    BY SMT DEF build_hid_report, HID_INPUT_REPORT_SIZE
  <1>4. b \in Nat
    <2>1. s.buttons \in Nat
      BY U24 DEF Ctrl
    <2> QED
      BY <2>1, SMT DEF HidButtons
  <1> HIDE DEF r, b
  <1>5. /\ Field(r, 8 * 4, 16) = Pair(At(r, 4), At(r, 5)) /\ Field(r, 8 * 6, 16) = Pair(At(r, 6), At(r, 7))
        /\ Field(r, 8 * 8, 16) = Pair(At(r, 8), At(r, 9)) /\ Field(r, 8 * 10, 16) = Pair(At(r, 10), At(r, 11))
        /\ Field(r, 8 * 12, 4) = At(r, 12) % 16 /\ Field(r, 8 * 1, 24) = Three(r, 1)
    <2>1. /\ 4 + 1 = 5 /\ 6 + 1 = 7 /\ 8 + 1 = 9 /\ 10 + 1 = 11
          /\ 1 \in Nat /\ 4 \in Nat /\ 6 \in Nat /\ 8 \in Nat /\ 10 \in Nat /\ 12 \in Nat
      OBVIOUS
    <2>2. \A p \in Nat : /\ Field(r, 8 * p, 16) = Pair(At(r, p), At(r, p + 1))
                         /\ Field(r, 8 * p, 4) = At(r, p) % 16 /\ Field(r, 8 * p, 24) = Three(r, p)
      BY <1>2, FieldsAt DEF Pair, AtByte
    <2> QED
      BY <2>1, <2>2, Zenon
  <1>6. s.lx \in Nat /\ s.ly \in Nat /\ s.rx \in Nat /\ s.ry \in Nat /\ s.dpad \in 0 .. 8
    BY U16 DEF Ctrl
  <1>7. /\ Pair(s.lx % 256, s.lx \div 256) = s.lx /\ Pair(s.ly % 256, s.ly \div 256) = s.ly
        /\ Pair(s.rx % 256, s.rx \div 256) = s.rx /\ Pair(s.ry % 256, s.ry \div 256) = s.ry
    BY <1>6, PairOf
  <1>8. /\ Field(r, 8 * 4, 16) = s.lx /\ Field(r, 8 * 6, 16) = s.ly
        /\ Field(r, 8 * 8, 16) = s.rx /\ Field(r, 8 * 10, 16) = s.ry
    <2>1. \A i \in 4 .. 11 : At(r, i) = r[i]
      BY <1>2
    <2>2. /\ At(r, 4) = r[4] /\ At(r, 5) = r[5] /\ At(r, 6) = r[6] /\ At(r, 7) = r[7]
          /\ At(r, 8) = r[8] /\ At(r, 9) = r[9] /\ At(r, 10) = r[10] /\ At(r, 11) = r[11]
      BY <2>1
    <2>3. /\ Pair(r[4], r[5]) = s.lx /\ Pair(r[6], r[7]) = s.ly
          /\ Pair(r[8], r[9]) = s.rx /\ Pair(r[10], r[11]) = s.ry
      BY <1>3, <1>7, SMT
    <2> QED
      BY <1>5, <2>2, <2>3, SMT
  <1>9. Field(r, 8 * 12, 4) = s.dpad
    BY <1>2, <1>3, <1>5, <1>6, SMT
  <1>10. Field(r, 8 * 1, 24) = b
    <2>1. \A v \in Nat : (v % 256) + 256 * ((v \div 256) % 256) + 65536 * (v \div 65536) = v
      BY SMT
    <2>2. Three(r, 1) = (b % 256) + 256 * ((b \div 256) % 256) + 65536 * (b \div 65536)
      BY <1>2, <1>3, SMT DEF Three
    <2> QED
      BY <1>4, <1>5, <2>1, <2>2
  <1>11. \A j \in 0 .. 3 : Item(r, hid_report_descriptor, 2, j) = Field(r, 8 * (4 + 2 * j), 16)
    BY HidItems
  <1>12. /\ Item(r, hid_report_descriptor, 2, 0) = s.lx /\ Item(r, hid_report_descriptor, 2, 1) = s.ly
         /\ Item(r, hid_report_descriptor, 2, 2) = s.rx /\ Item(r, hid_report_descriptor, 2, 3) = s.ry
    <2>1. 4 + 2 * 0 = 4 /\ 4 + 2 * 1 = 6 /\ 4 + 2 * 2 = 8 /\ 4 + 2 * 3 = 10
      OBVIOUS
    <2>2. 0 \in 0 .. 3 /\ 1 \in 0 .. 3 /\ 2 \in 0 .. 3 /\ 3 \in 0 .. 3
      OBVIOUS
    <2> QED
      BY <1>8, <1>11, <2>1, <2>2, Zenon
  <1> QED
    BY <1>2, <1>9, <1>10, <1>12, HidItems, Zenon DEF r, b

\* The axes are numbers of twelve bits, and t has the upper eight of y.
Packed(x, y, t) == t = y \div 16 /\ x <= 4095 /\ y <= 4095

\* So it is with what parse_input makes of three stick bytes.
LEMMA StickBytes ==
    ASSUME NEW p \in Nat, NEW q \in Nat, NEW t \in Nat, p <= 255, q <= 255, t <= 255,
           NEW x, NEW y, x = 16 * p + Hi(q), y = 16 * t + Lo(q)
    PROVE  Packed(x, y, t)
  <1>1. PICK h \in 0 .. 15, l \in 0 .. 15 : h = Hi(q) /\ l = Lo(q)
    BY SMT DEF Hi, Lo
  <1>2. (16 * t + l) \div 16 = t /\ 16 * p + h <= 4095 /\ 16 * t + l <= 4095
    BY SMT
  <1> QED
    BY <1>1, <1>2 DEF Packed

\* The three button bytes, as one number, are the field of 24 bits, and the last byte of a
\* stick is the field of its upper eight.
LEMMA ReportFields ==
    ASSUME NEW d \in ReportSet, ~(Size(d) < 11)
    PROVE  /\ d[2] + 256 * d[3] + 65536 * d[4] = Field(d, 16, 24)
           /\ d[7] = Field(d, 56, 8) /\ d[10] = Field(d, 80, 8)
  <1>1. Bytes(d) /\ \A i \in 0 .. 10 : At(d, i) = d[i]
    <2>1. Size(d) \in Nat
      BY CodecAssumption DEF CodecAssumption
    <2> QED
      BY <2>1, ReportAt
  <1>2. 16 = 8 * 2 /\ 56 = 8 * 7 /\ 80 = 8 * 10
    OBVIOUS
  <1>3. AtByte(d, 2) /\ AtByte(d, 7) /\ AtByte(d, 10)
    BY <1>1, FieldsAt
  <1>4. /\ Field(d, 16, 24) = Three(d, 2) /\ Field(d, 56, 8) = At(d, 7)
        /\ Field(d, 80, 8) = At(d, 10)
    BY <1>2, <1>3, Zenon DEF AtByte
  <1> QED
    BY <1>1, <1>4, SMT DEF Three

\* For every sequence of reports of any length and content: switch2-bt.c's HID report fills
\* its descriptor, its axes stay within 4095, and its buttons and the upper bits of its y axes
\* are those of the last complete report.
THEOREM LastReport == Spec => []LastReportKept
  <1>1. ASSUME TInv, Converted PROVE LastReportKept
    <2> SUFFICES ASSUME prog = "switch2-bt", out # None PROVE LastReportKept
      BY DEF LastReportKept
    <2> DEFINE axis(j) == Item(out, hid_report_descriptor, 2, j)
               pressed == Buttons(out, hid_report_descriptor)
    <2>1. /\ c \in Ctrl /\ out = build_hid_report(c)
          /\ data = None => /\ c.lx = 2048 /\ c.ly = 2048 /\ c.rx = 2048 /\ c.ry = 2048
                            /\ c.buttons = 0
          /\ data # None => data \in ReportSet /\ ~(Size(data) < 11) /\ c = parse_input(c, data)
      BY <1>1 DEF TInv, Converted
    <2>2. /\ axis(0) = c.lx /\ axis(1) = c.ly /\ axis(2) = c.rx /\ axis(3) = c.ry
          /\ FillsDescriptor(out, hid_report_descriptor) /\ pressed = HidButtons(c)
      BY <2>1, HidFields
    <2> HIDE DEF axis, pressed
    <2>3. CASE data = None
      <3>1. \A j \in 0 .. 3 : axis(j) = 2048 /\ axis(j) <= 4095
        BY <2>1, <2>2, <2>3, SMT
      <3>2. pressed = 0
        BY <2>1, <2>2, <2>3, SMT DEF HidButtons
      <3> QED
        BY <2>2, <2>3, <3>1, <3>2 DEF LastReportKept, axis, pressed
    <2>4. CASE data # None
      <3>1. /\ c.lx = 16 * data[5] + Hi(data[6]) /\ c.ly = 16 * data[7] + Lo(data[6])
            /\ c.rx = 16 * data[8] + Hi(data[9]) /\ c.ry = 16 * data[10] + Lo(data[9])
            /\ c.buttons = data[2] + 256 * data[3] + 65536 * data[4]
        BY <2>1, <2>4, SMT DEF parse_input
      <3>2. \A i \in 5 .. 10 : data[i] \in Nat /\ data[i] <= 255
        BY <2>1, <2>4, ReportBytes
      <3>3. /\ data[5] \in Nat /\ data[5] <= 255 /\ data[6] \in Nat /\ data[6] <= 255
            /\ data[7] \in Nat /\ data[7] <= 255 /\ data[8] \in Nat /\ data[8] <= 255
            /\ data[9] \in Nat /\ data[9] <= 255 /\ data[10] \in Nat /\ data[10] <= 255
        BY <3>2
      <3>4. Packed(axis(0), axis(1), data[7]) /\ Packed(axis(2), axis(3), data[10])
        BY <2>2, <3>1, <3>3, StickBytes
      <3>5. \A j \in 0 .. 3 : axis(j) <= 4095
        BY <3>4 DEF Packed
      <3>6. /\ c.buttons = Field(data, 16, 24)
            /\ axis(1) \div 16 = Field(data, 56, 8) /\ axis(3) \div 16 = Field(data, 80, 8)
        BY <2>1, <2>4, <3>1, <3>4, ReportFields DEF Packed
      <3>7. pressed = Field(data, 16, 24) % 2^21
        BY <2>2, <3>6 DEF HidButtons
      <3> QED
        BY <2>2, <2>4, <3>5, <3>6, <3>7 DEF LastReportKept, axis, pressed
    <2> QED
      BY <2>3, <2>4
  <1> QED
    BY <1>1, TAlways, ConvertedAlways, PTL

-----------------------------------------------------------------------------
(* The d-pad of switch2-bt.c *)

\* Sets of directions are told apart by their members.
Dirs == {"down", "right", "left", "up"}

\* So two sets that agree on the four are equal.
LEMMA SameDirs ==
    ASSUME NEW S \in SUBSET Dirs, NEW T \in SUBSET Dirs,
           "down" \in S <=> "down" \in T, "right" \in S <=> "right" \in T,
           "left" \in S <=> "left" \in T, "up" \in S <=> "up" \in T
    PROVE  S = T
  <1>1. \A x \in Dirs : x \in S <=> x \in T
    BY DEF Dirs
  <1> QED
    BY <1>1, SMT

\* The members of the eight directions.
LEMMA CompassMembers ==
    \A i \in 1 .. 8 : /\ Compass[i] \in SUBSET Dirs
                      /\ "down" \in Compass[i] <=> i \in {4, 5, 6}
                      /\ "right" \in Compass[i] <=> i \in {2, 3, 4}
                      /\ "left" \in Compass[i] <=> i \in {6, 7, 8}
                      /\ "up" \in Compass[i] <=> i \in {1, 2, 8}
  <1>1. /\ Compass[1] = {"up"} /\ Compass[2] = {"up", "right"}
        /\ Compass[3] = {"right"} /\ Compass[4] = {"right", "down"}
        /\ Compass[5] = {"down"} /\ Compass[6] = {"down", "left"}
        /\ Compass[7] = {"left"} /\ Compass[8] = {"left", "up"}
    BY SMT DEF Compass
  <1> QED
    BY <1>1, SMT DEF Dirs

\* The directions S are those of the d-pad bits dp.
DpadIs(S, dp) ==
    /\ S \in SUBSET Dirs /\ dp \in 0 .. 15
    /\ "down" \in S <=> dp % 2 = 1
    /\ "right" \in S <=> (dp \div 2) % 2 = 1
    /\ "left" \in S <=> (dp \div 4) % 2 = 1
    /\ "up" \in S <=> (dp \div 8) % 2 = 1

\* Buttons 9 to 12 are the four low bits of the second byte, and are not cut off.
LEMMA DpadBits ==
    ASSUME NEW n \in Nat
    PROVE  LET dp == (n \div 256) % 16 IN
           /\ dp \in 0 .. 15
           /\ Bit(n % 2^21, 8) = dp % 2 /\ Bit(n % 2^21, 9) = (dp \div 2) % 2
           /\ Bit(n % 2^21, 10) = (dp \div 4) % 2 /\ Bit(n % 2^21, 11) = (dp \div 8) % 2
  <1>1. (n \div 256) % 16 \in 0 .. 15
    BY SMT
  <1>2. Bit(n % 2^21, 8) = ((n \div 256) % 16) % 2
    BY SMT DEF Bit
  <1>3. Bit(n % 2^21, 9) = (((n \div 256) % 16) \div 2) % 2
    BY SMT DEF Bit
  <1>4. Bit(n % 2^21, 10) = (((n \div 256) % 16) \div 4) % 2
    BY SMT DEF Bit
  <1>5. Bit(n % 2^21, 11) = (((n \div 256) % 16) \div 8) % 2
    BY SMT DEF Bit
  <1> QED
    BY <1>1, <1>2, <1>3, <1>4, <1>5, SMT

\* So the pressed directions are those of that nibble.
LEMMA PressedMembers ==
    ASSUME NEW n \in Nat
    PROVE  DpadIs(Pressed(n % 2^21), (n \div 256) % 16)
  <1> DEFINE m == n % 2^21
             dp == (n \div 256) % 16
  <1>1. /\ dp \in 0 .. 15 /\ Bit(m, 8) = dp % 2 /\ Bit(m, 9) = (dp \div 2) % 2
        /\ Bit(m, 10) = (dp \div 4) % 2 /\ Bit(m, 11) = (dp \div 8) % 2
    BY DpadBits
  <1> HIDE DEF m, dp
  <1>2. /\ DOMAIN DpadBit = Dirs /\ DpadBit["down"] = 8 /\ DpadBit["right"] = 9
        /\ DpadBit["left"] = 10 /\ DpadBit["up"] = 11
    BY SMT DEF DpadBit, Dirs
  <1>3. \A x \in Dirs : x \in Pressed(m) <=> Bit(m, DpadBit[x]) = 1
    BY <1>2, Zenon DEF Pressed
  <1>4. Pressed(m) \in SUBSET Dirs
    BY <1>2, Zenon DEF Pressed
  <1>5. /\ "down" \in Pressed(m) <=> dp % 2 = 1
        /\ "right" \in Pressed(m) <=> (dp \div 2) % 2 = 1
        /\ "left" \in Pressed(m) <=> (dp \div 4) % 2 = 1
        /\ "up" \in Pressed(m) <=> (dp \div 8) % 2 = 1
    <2>1. "down" \in Dirs /\ "right" \in Dirs /\ "left" \in Dirs /\ "up" \in Dirs
      BY DEF Dirs
    <2> QED
      BY <1>1, <1>2, <1>3, <2>1
  <1>6. DpadIs(Pressed(m), dp)
    BY <1>1, <1>4, <1>5 DEF DpadIs
  <1> QED
    BY <1>6 DEF m, dp

\* Hat is right for every combination of the four bits.
LEMMA HatMatches ==
    ASSUME NEW S, NEW dp, DpadIs(S, dp)
    PROVE  IF S \in {Compass[i] : i \in 1 .. 8}
           THEN dpad_of(dp) \in 0 .. 7 /\ Compass[dpad_of(dp) + 1] = S
           ELSE dpad_of(dp) = 8
  <1>1. CASE dpad_of(dp) = 8
    <2>1. dp \in {0, 6, 7, 9, 11, 13, 14, 15}
      BY <1>1, SMT DEF dpad_of, Hat, DpadIs
    <2>2. ASSUME NEW i \in 1 .. 8, S = Compass[i] PROVE FALSE
      <3>1. /\ dp % 2 = 1 <=> i \in {4, 5, 6}
            /\ (dp \div 2) % 2 = 1 <=> i \in {2, 3, 4}
            /\ (dp \div 4) % 2 = 1 <=> i \in {6, 7, 8}
            /\ (dp \div 8) % 2 = 1 <=> i \in {1, 2, 8}
        BY <2>2, CompassMembers DEF DpadIs
      <3> QED
        BY <2>1, <3>1, SMT
    <2> QED
      BY <1>1, <2>2
  <1>2. CASE dpad_of(dp) # 8
    <2>1. dp \in {1, 2, 3, 4, 5, 8, 10, 12}
      BY <1>2, SMT DEF dpad_of, Hat, DpadIs
    <2> DEFINE i == dpad_of(dp) + 1
    <2>2. /\ i \in 1 .. 8
          /\ dp % 2 = 1 <=> i \in {4, 5, 6}
          /\ (dp \div 2) % 2 = 1 <=> i \in {2, 3, 4}
          /\ (dp \div 4) % 2 = 1 <=> i \in {6, 7, 8}
          /\ (dp \div 8) % 2 = 1 <=> i \in {1, 2, 8}
      BY <2>1, SMT DEF dpad_of, Hat
    <2>3. dpad_of(dp) \in 0 .. 7
      BY <2>1, SMT DEF dpad_of, Hat
    <2> HIDE DEF i
    <2>4. Compass[i] = S
      BY <2>2, CompassMembers, SameDirs DEF DpadIs
    <2> QED
      BY <2>2, <2>3, <2>4 DEF i
  <1> QED
    BY <1>1, <1>2

\* For every sequence of reports the hat switch in switch2-bt.c's HID report is the direction of
\* the d-pad buttons in the same report, and in its null state exactly if they are none.
THEOREM HatCorrect == Spec => []HatAgreesWithButtons
  <1>1. ASSUME TInv, Converted PROVE HatAgreesWithButtons
    <2> SUFFICES ASSUME prog = "switch2-bt", out # None PROVE HatAgreesWithButtons
      BY DEF HatAgreesWithButtons
    <2> DEFINE hat == Item(out, hid_report_descriptor, 3, 0)
               pressed == Pressed(Buttons(out, hid_report_descriptor))
    <2>1. c \in Ctrl /\ out = build_hid_report(c) /\ c.dpad = dpad_of((c.buttons \div 256) % 16)
      BY <1>1 DEF TInv, Converted
    <2>2. hat = c.dpad /\ Buttons(out, hid_report_descriptor) = c.buttons % 2^21
      BY <2>1, HidFields DEF HidButtons
    <2>3. c.buttons \in Nat
      BY <2>1, U24 DEF Ctrl
    <2>4. DpadIs(pressed, (c.buttons \div 256) % 16)
      BY <2>2, <2>3, PressedMembers
    <2> HIDE DEF hat, pressed
    <2>5. IF pressed \in {Compass[i] : i \in 1 .. 8}
          THEN hat \in 0 .. 7 /\ Compass[hat + 1] = pressed
          ELSE hat = Centre
      BY <2>1, <2>2, <2>4, HatMatches DEF Centre
    <2> QED
      BY <2>5 DEF HatAgreesWithButtons, hat, pressed
  <1> QED
    BY <1>1, TAlways, ConvertedAlways, PTL

-----------------------------------------------------------------------------
(* sw2d.c, sw2d_btstack.c and switch2d.py *)

\* Two axes are recovered from the three bytes sw2d.c packs them in.
Packs(x, y) ==
    LET lo == x % 256
        mid == (x \div 256) + 16 * (y % 16)
        hi == y \div 16
    IN  lo + 256 * (mid % 16) = x /\ (mid \div 16) + 16 * hi = y

\* The packing is lossless for two 12-bit axes.
LEMMA Packing ==
    ASSUME NEW x \in Nat, NEW y \in Nat, x < 4096, y < 4096
    PROVE  Packs(x, y)
  <1>1. PICK h \in 0 .. 15, l \in Nat : h = x \div 256 /\ l = x % 256 /\ x = 256 * h + l
    BY SMT
  <1>2. PICK k \in 0 .. 15, u \in Nat : k = y % 16 /\ u = y \div 16 /\ y = 16 * u + k
    BY SMT
  <1>3. (h + 16 * k) % 16 = h /\ (h + 16 * k) \div 16 = k
    BY SMT
  <1> QED
    BY <1>1, <1>2, <1>3 DEF Packs

\* A stick of the packed report is its 12-bit field, also where the report ends.
StickIs(r, p) == /\ stick12_at(r, p) = Field(r, 8 * p, 12)
                 /\ stick12_at(r, p) \in Nat /\ stick12_at(r, p) < 4096

\* The low twelve bits of two bytes.
LEMMA PairLow ==
    ASSUME NEW a \in Nat, NEW b \in Nat, a <= 255
    PROVE  /\ Pair(a, b) % 4096 = a + 256 * (b % 16)
           /\ Pair(a, b) % 4096 \in Nat /\ Pair(a, b) % 4096 < 4096
  <1>1. (a + 256 * b) % 4096 = a + 256 * (b % 16)
    BY SMT
  <1>2. \A n \in Nat : n % 4096 \in Nat /\ n % 4096 < 4096
    BY SMT
  <1> QED
    BY <1>1, <1>2 DEF Pair

\* stick12_at is the field as long as it lies within the report.
LEMMA StickField ==
    ASSUME NEW r \in ReportSet, NEW p \in Nat, p + 1 < Size(r)
    PROVE  StickIs(r, p)
  <1>1. Size(r) \in Nat /\ Bytes(r) /\ \A i \in Nat : i < Size(r) => At(r, i) = r[i]
    BY ReportAt, ReportBytes
  <1>2. PICK a \in Nat, b \in Nat : a = At(r, p) /\ b = At(r, p + 1) /\ a <= 255 /\ b <= 255
    BY <1>1 DEF Bytes
  <1>3. r[p] = a /\ r[p + 1] = b
    BY <1>1, <1>2
  <1>4. stick12_at(r, p) = Pair(a, b) % 4096
    BY <1>1, <1>3, SMT DEF stick12_at, le16, Pair
  <1>5. Pair(a, b) % 4096 = a + 256 * (b % 16) /\ Pair(a, b) % 4096 \in Nat /\ Pair(a, b) % 4096 < 4096
    BY <1>2, PairLow
  <1>6. Field(r, 8 * p, 12) = a + 256 * (b % 16)
    BY <1>1, <1>2, FieldsAt DEF AtByte
  <1> QED
    BY <1>4, <1>5, <1>6 DEF StickIs

\* For every report sw2d.c accepts, its UHID report has the size and the values of its
\* descriptor: the packing of four 12-bit axes in six bytes is the descriptor's.
THEOREM UhidCorrect == Spec => []UhidMatchesDescriptor
  <1>1. ASSUME TInv, Converted PROVE UhidMatchesDescriptor
    <2> SUFFICES ASSUME prog = "sw2d", out # None PROVE UhidMatchesDescriptor
      BY DEF UhidMatchesDescriptor
    <2> DEFINE b == le16(data, 1)
               lx == stick12_at(data, 3)
               ly == stick12_at(data, 5)
               rx == stick12_at(data, 7)
               ry == stick12_at(data, 9)
    <2>1. data \in ReportSet /\ out = report09_to_uhid(data) /\ out \in HidReport
      BY <1>1 DEF TInv, OutType, Converted
    <2>2. ~(Size(data) < 11) /\ Size(data) \in Nat
      BY <2>1, ReportBytes DEF report09_to_uhid, Rejected, None
    <2>3. /\ out[1] = b % 256 /\ out[2] = b \div 256 /\ out[3] = Bit(b, 6) + 2 * Bit(b, 7)
          /\ out[4] = lx % 256 /\ out[5] = (lx \div 256) + 16 * (ly % 16) /\ out[6] = ly \div 16
          /\ out[7] = rx % 256 /\ out[8] = (rx \div 256) + 16 * (ry % 16) /\ out[9] = ry \div 16
          /\ out[10] = 8 /\ out[11] = 255 * Bit(b, 6) /\ out[12] = 255 * Bit(b, 7)
      <3>1. \/ Size(data) < 11 \/ data[0] # 9
            \/ out = [i \in 0 .. 12 |->
                       <<1, b % 256, b \div 256, Bit(b, 6) + 2 * Bit(b, 7),
                         lx % 256, (lx \div 256) + 16 * (ly % 16), ly \div 16,
                         rx % 256, (rx \div 256) + 16 * (ry % 16), ry \div 16,
                         dpad_from_buttons(b), 255 * Bit(b, 6), 255 * Bit(b, 7)>>[i + 1]]
        BY <2>1 DEF report09_to_uhid
      <3>2. data[0] = 9
        BY <2>1 DEF report09_to_uhid, Rejected, None
      <3>3. dpad_from_buttons(b) = 8
        BY DEF dpad_from_buttons, Centre
      <3> HIDE DEF b, lx, ly, rx, ry
      <3> QED
        BY <2>2, <3>1, <3>2, <3>3, SMT
    <2>4. Bytes(out) /\ Size(out) = 13 /\ \A i \in 0 .. 12 : At(out, i) = out[i]
      BY <2>1, HidAt
    <2>5. /\ lx = Field(data, 8 * 3, 12) /\ lx \in Nat /\ lx < 4096
          /\ ly = Field(data, 8 * 5, 12) /\ ly \in Nat /\ ly < 4096
          /\ rx = Field(data, 8 * 7, 12) /\ rx \in Nat /\ rx < 4096
          /\ ry = Field(data, 8 * 9, 12) /\ ry \in Nat /\ ry < 4096
      <3>1. StickIs(data, 3) /\ StickIs(data, 5) /\ StickIs(data, 7) /\ StickIs(data, 9)
        BY <2>1, <2>2, StickField
      <3> QED
        BY <3>1, SMT DEF StickIs
    <2>6. b \in Nat /\ b < 65536 /\ b = Field(data, 8 * 1, 16)
      <3>1. Bytes(data) /\ \A i \in Nat : i < Size(data) => At(data, i) = data[i]
        BY <2>1, ReportAt
      <3>2. b = Pair(At(data, 1), At(data, 1 + 1))
        BY <2>2, <3>1 DEF le16, Pair
      <3>3. \A p \in Nat : Field(data, 8 * p, 16) = Pair(At(data, p), At(data, p + 1))
        BY <3>1, FieldsAt DEF Pair, AtByte
      <3>4. b = Field(data, 8 * 1, 16)
        BY <3>2, <3>3, 1 \in Nat, Zenon
      <3>5. At(data, 1) \in Nat /\ At(data, 1) <= 255 /\ At(data, 1 + 1) \in Nat /\ At(data, 1 + 1) <= 255
        BY <3>1 DEF Bytes
      <3>6. b \in Nat /\ b < 65536
        BY <3>2, <3>5, SMT DEF Pair
      <3> QED
        BY <3>4, <3>6
    <2> HIDE DEF b, lx, ly, rx, ry
    <2>7. /\ \A p \in Nat : AtByte(out, p)
          /\ \A p \in Nat : InByte(out, p)
      BY <2>4, FieldsAt, FieldsMid
    <2>8. /\ Field(out, 8 * 4, 12) = out[4] + 256 * (out[5] % 16)
          /\ Field(out, 8 * 5 + 4, 12) = (out[5] \div 16) + 16 * out[6]
          /\ Field(out, 8 * 7, 12) = out[7] + 256 * (out[8] % 16)
          /\ Field(out, 8 * 8 + 4, 12) = (out[8] \div 16) + 16 * out[9]
      <3>1. AtByte(out, 4) /\ InByte(out, 5) /\ AtByte(out, 7) /\ InByte(out, 8)
        BY <2>7
      <3> QED
        BY <2>4, <3>1, SMT DEF AtByte, InByte
    <2>9. /\ Field(out, 8 * 4, 12) = lx /\ Field(out, 8 * 5 + 4, 12) = ly
          /\ Field(out, 8 * 7, 12) = rx /\ Field(out, 8 * 8 + 4, 12) = ry
      <3>1. Packs(lx, ly) /\ Packs(rx, ry)
        BY <2>5, Packing
      <3> QED
        BY <2>3, <2>8, <3>1 DEF Packs
    <2>10. \A j \in 0 .. 3 : Item(out, gamepad_rdesc, 2, j) = Field(data, 8 * (3 + 2 * j), 12)
      <3>1. /\ Item(out, gamepad_rdesc, 2, 0) = lx /\ Item(out, gamepad_rdesc, 2, 1) = ly
            /\ Item(out, gamepad_rdesc, 2, 2) = rx /\ Item(out, gamepad_rdesc, 2, 3) = ry
        BY <2>9, UhidItems, Zenon
      <3> QED
        BY <2>5, <3>1, SMT
    <2>11. Buttons(out, gamepad_rdesc) % 2^16 = Field(data, 8, 16)
      <3>1. Buttons(out, gamepad_rdesc) = Field(out, 8 * 1, 24)
        BY UhidItems
      <3>2. Field(out, 8 * 1, 24) = Three(out, 1)
        BY <2>7, SMT DEF AtByte
      <3>3. Three(out, 1) = (b % 256) + 256 * (b \div 256) + 65536 * out[3]
        BY <2>3, <2>4, SMT DEF Three
      <3>4. out[3] \in Nat
        BY <2>4 DEF Bytes
      <3>5. ((b % 256) + 256 * (b \div 256) + 65536 * out[3]) % 2^16 = b
        <4>1. (b % 256) + 256 * (b \div 256) = b
          BY <2>6, SMT
        <4>2. \A v \in Nat, w \in Nat : v < 65536 => (v + 65536 * w) % 2^16 = v
          BY SMT
        <4> QED
          BY <2>6, <3>4, <4>1, <4>2
      <3> QED
        BY <2>6, <3>1, <3>2, <3>3, <3>5
    <2>12. Item(out, gamepad_rdesc, 3, 0) \in 0 .. 8 /\ Item(out, gamepad_rdesc, 4, 0) = 0
      <3>1. AtByte(out, 10) /\ InByte(out, 10)
        BY <2>7
      <3>2. Field(out, 8 * 10, 4) = 8 /\ Field(out, 8 * 10 + 4, 4) = 0
        BY <2>3, <2>4, <3>1, SMT DEF AtByte, InByte
      <3>3. Item(out, gamepad_rdesc, 3, 0) = 8 /\ Item(out, gamepad_rdesc, 4, 0) = 0
        BY <3>2, UhidItems, Zenon
      <3> QED
        BY <3>3
    <2>13. \A j \in 0 .. 1 : Item(out, gamepad_rdesc, 5, j) = 255 * Item(out, gamepad_rdesc, 1, 16 + j)
      <3>1. AtByte(out, 3) /\ InByte(out, 3) /\ AtByte(out, 11) /\ AtByte(out, 12)
        BY <2>7
      <3>2. Bit(b, 6) \in 0 .. 1 /\ Bit(b, 7) \in 0 .. 1
        BY <2>6, BitType
      <3>3. /\ Field(out, 8 * 3, 1) = Bit(b, 6) /\ Field(out, 8 * 3 + 1, 1) = Bit(b, 7)
        BY <2>3, <2>4, <3>1, <3>2, SMT DEF AtByte, InByte
      <3>4. Field(out, 8 * 11, 8) = 255 * Bit(b, 6) /\ Field(out, 8 * 12, 8) = 255 * Bit(b, 7)
        BY <2>3, <2>4, <3>1, SMT DEF AtByte
      <3>5. /\ Item(out, gamepad_rdesc, 1, 16) = Field(out, 8 * 3, 1)
            /\ Item(out, gamepad_rdesc, 1, 17) = Field(out, 8 * 3 + 1, 1)
            /\ \A j \in 0 .. 1 : Item(out, gamepad_rdesc, 5, j) = Field(out, 8 * (11 + j), 8)
        BY UhidItems
      <3> QED
        BY <3>3, <3>4, <3>5, SMT
    <2>14. FillsDescriptor(out, gamepad_rdesc)
      BY <2>4, UhidItems
    <2> QED
      BY <2>10, <2>11, <2>12, <2>13, <2>14 DEF UhidMatchesDescriptor
  <1> QED
    BY <1>1, TAlways, ConvertedAlways, PTL

-----------------------------------------------------------------------------
(* The axes of sw2d_btstack.c and of switch2d.py *)

\* Rounded to thousandths, an axis is off by half a thousandth.
LEMMA NormClose ==
    ASSUME NEW v \in Nat, v < 4096
    PROVE  /\ Norm(v) \in Int /\ -1000 <= Norm(v) /\ Norm(v) <= 1000
           /\ -1024 <= 2047 * Norm(v) - 1000 * (v - 2048)
           /\ 2047 * Norm(v) - 1000 * (v - 2048) <= 1024
  BY SMT DEF Norm, Nearest

\* int() takes off less than one, and the clamp nothing.
LEMMA AxisClose ==
    ASSUME NEW n \in Int, -1000 <= n, n <= 1000
    PROVE  /\ axis_val(n) \in Int /\ -32767 <= axis_val(n) /\ axis_val(n) <= 32767
           /\ -1000 <= 1000 * axis_val(n) - 32767 * n /\ 1000 * axis_val(n) - 32767 * n <= 1000
  <1> DEFINE a == Trunc(n * 32767, 1000)
  <1>1. /\ a \in Int /\ -32767 <= a /\ a <= 32767
        /\ -1000 <= 1000 * a - 32767 * n /\ 1000 * a - 32767 * n <= 1000
    BY SMT DEF Trunc
  <1> HIDE DEF a
  <1>2. Min({32767, a}) = a
    BY <1>1, SMT DEF Min
  <1>3. Max({-32768, a}) = a
    BY <1>1, SMT DEF Max
  <1>4. axis_val(n) = a
    BY <1>2, <1>3 DEF axis_val, a
  <1> QED
    BY <1>1, <1>4

\* The axis a is that of the 12-bit stick value v.
Near(a, v) ==
    /\ -32767 <= a /\ a <= 32767
    /\ -2047 * 18 <= 2047 * a - 32767 * (v - 2048) /\ 2047 * a - 32767 * (v - 2048) <= 2047 * 18

\* Both roundings together, for x and for the inverted y.
LEMMA AxisNear ==
    ASSUME NEW v \in Nat, v < 4096
    PROVE  Near(axis_val(Norm(v)), v) /\ Near(-axis_val(-Norm(v)), v)
  <1> DEFINE n == Norm(v)
  <1>1. /\ n \in Int /\ -1000 <= n /\ n <= 1000
        /\ -1024 <= 2047 * n - 1000 * (v - 2048) /\ 2047 * n - 1000 * (v - 2048) <= 1024
    BY NormClose
  <1> HIDE DEF n
  <1>2. PICK a \in Int : /\ a = axis_val(n) /\ -32767 <= a /\ a <= 32767
                         /\ -1000 <= 1000 * a - 32767 * n /\ 1000 * a - 32767 * n <= 1000
    BY <1>1, AxisClose
  <1>3. PICK m \in Int : m = -n /\ -1000 <= m /\ m <= 1000
    BY <1>1
  <1>4. PICK b \in Int : /\ b = axis_val(m) /\ -32767 <= b /\ b <= 32767
                         /\ -1000 <= 1000 * b - 32767 * m /\ 1000 * b - 32767 * m <= 1000
    BY <1>3, AxisClose
  <1>5. Near(a, v)
    BY <1>1, <1>2, SMT DEF Near
  <1>6. Near(-b, v)
    BY <1>1, <1>3, <1>4, SMT DEF Near
  <1> QED
    BY <1>2, <1>3, <1>4, <1>5, <1>6 DEF n

\* decode_stick12 is the two 12-bit fields of its three bytes.
DecodedIs(r, p) ==
    /\ decode_stick12(r, p).x = Field(r, 8 * p, 12)
    /\ decode_stick12(r, p).y = Field(r, 8 * (p + 1) + 4, 12)
    /\ Field(r, 8 * p, 12) \in Nat /\ Field(r, 8 * p, 12) < 4096
    /\ Field(r, 8 * (p + 1) + 4, 12) \in Nat /\ Field(r, 8 * (p + 1) + 4, 12) < 4096

\* This holds for every stick within the report.
LEMMA DecodedSticks ==
    ASSUME NEW r \in ReportSet, NEW p \in Nat, p + 2 < Size(r)
    PROVE  DecodedIs(r, p)
  <1>1. Bytes(r) /\ Size(r) \in Nat /\ \A i \in Nat : i < Size(r) => At(r, i) = r[i]
    BY ReportAt, ReportBytes
  <1>2. PICK a \in Nat, b \in Nat, e \in Nat :
           /\ a = At(r, p) /\ b = At(r, p + 1) /\ e = At(r, p + 2) /\ a <= 255 /\ b <= 255 /\ e <= 255
    BY <1>1 DEF Bytes
  <1>3. r[p] = a /\ r[p + 1] = b /\ r[p + 2] = e
    BY <1>1, <1>2
  <1>4. AtByte(r, p) /\ InByte(r, p + 1)
    BY <1>1, FieldsAt, FieldsMid
  <1>5. /\ Field(r, 8 * p, 12) = a + 256 * (b % 16)
        /\ Field(r, 8 * (p + 1) + 4, 12) = (b \div 16) + 16 * e
    BY <1>2, <1>4, SMT DEF AtByte, InByte
  <1>6. /\ decode_stick12(r, p).x = 256 * (b % 16) + a
        /\ decode_stick12(r, p).y = 16 * e + (b \div 16)
    BY <1>3, SMT DEF decode_stick12, Lo, Hi
  <1>7. /\ a + 256 * (b % 16) \in Nat /\ a + 256 * (b % 16) < 4096
        /\ (b \div 16) + 16 * e \in Nat /\ (b \div 16) + 16 * e < 4096
        /\ a + 256 * (b % 16) = 256 * (b % 16) + a /\ (b \div 16) + 16 * e = 16 * e + (b \div 16)
    BY <1>2, SMT
  <1> QED
    BY <1>5, <1>6, <1>7 DEF DecodedIs

\* The upper eight bits of a packed stick, as parse_switch_report has them.
UpperIs(r, p) ==
    /\ (r[p] + 256 * Lo(r[p + 1])) \div 16 = Field(r, 8 * p + 4, 8)
    /\ (Hi(r[p + 1]) + 16 * r[p + 2]) \div 16 = Field(r, 8 * (p + 2), 8)

\* This holds for every stick within the report.
LEMMA UpperEight ==
    ASSUME NEW r \in ReportSet, NEW p \in Nat, p + 2 < Size(r)
    PROVE  UpperIs(r, p)
  <1>1. Bytes(r) /\ Size(r) \in Nat /\ \A i \in Nat : i < Size(r) => At(r, i) = r[i]
    BY ReportAt, ReportBytes
  <1>2. PICK a \in Nat, b \in Nat, e \in Nat :
           /\ a = At(r, p) /\ b = At(r, p + 1) /\ e = At(r, p + 2) /\ a <= 255 /\ b <= 255 /\ e <= 255
    BY <1>1 DEF Bytes
  <1>3. r[p] = a /\ r[p + 1] = b /\ r[p + 2] = e
    BY <1>1, <1>2
  <1>4. InByte(r, p) /\ AtByte(r, p + 2)
    BY <1>1, FieldsAt, FieldsMid
  <1>5. Field(r, 8 * p + 4, 8) = (a \div 16) + 16 * (b % 16) /\ Field(r, 8 * (p + 2), 8) = e
    BY <1>2, <1>4, SMT DEF AtByte, InByte
  <1>6. (a + 256 * (b % 16)) \div 16 = (a \div 16) + 16 * (b % 16)
    <2>1. \A x, y \in Nat : (x + 256 * y) \div 16 = (x \div 16) + 16 * y
      BY SMT
    <2>2. b % 16 \in Nat
      BY SMT
    <2> QED
      BY <2>1, <2>2
  <1>7. ((b \div 16) + 16 * e) \div 16 = e
    <2>1. b \div 16 \in 0 .. 15
      BY <1>2, SMT
    <2>2. \A x \in 0 .. 15 : (x + 16 * e) \div 16 = e
      BY SMT
    <2> QED
      BY <2>1, <2>2
  <1> QED
    BY <1>3, <1>5, <1>6, <1>7 DEF UpperIs, Lo, Hi

\* For every report: the axes sw2d_btstack.c prints are the upper eight bits of the packed
\* sticks, and those switch2d.py gives to uinput are the sticks' within 18 of 32767, never
\* outside the device's range.
THEOREM AxesCorrect == Spec => []AxesFollowSticks
  <1>1. ASSUME TInv, Converted PROVE AxesFollowSticks
    <2>1. ASSUME prog = "sw2d_btstack", out # None
          PROVE  /\ out.lx = Field(data, 84, 8) /\ out.ly = Field(data, 96, 8)
                 /\ out.rx = Field(data, 108, 8) /\ out.ry = Field(data, 120, 8)
      <3>1. data \in ReportSet /\ out = parse_switch_report(data)
        BY <1>1, <2>1 DEF Converted
      <3>2. ~(Size(data) < 63) /\ Size(data) \in Nat
        BY <2>1, <3>1, ReportBytes DEF parse_switch_report, Rejected, None
      <3>3. /\ out.lx = (data[10] + 256 * Lo(data[11])) \div 16
            /\ out.ly = (Hi(data[11]) + 16 * data[12]) \div 16
            /\ out.rx = (data[13] + 256 * Lo(data[14])) \div 16
            /\ out.ry = (Hi(data[14]) + 16 * data[15]) \div 16
        BY <3>1, <3>2, SMT DEF parse_switch_report
      <3>4. UpperIs(data, 10) /\ UpperIs(data, 13)
        BY <3>1, <3>2, UpperEight
      <3> QED
        BY <3>3, <3>4, SMT DEF UpperIs
    <2>2. ASSUME prog = "switch2d", out # None
          PROVE  /\ Near(out.x, Field(data, 40, 12)) /\ Near(-out.y, Field(data, 52, 12))
                 /\ Near(out.rx, Field(data, 64, 12)) /\ Near(-out.ry, Field(data, 76, 12))
      <3>1. /\ data \in ReportSet /\ ~(Size(data) < 11)
            /\ out = update_uinput(decode_report(data))
        BY <1>1, <2>2 DEF Converted
      <3>2. /\ out.x = axis_val(Norm(decode_stick12(data, 5).x))
            /\ out.y = axis_val(-Norm(decode_stick12(data, 5).y))
            /\ out.rx = axis_val(Norm(decode_stick12(data, 8).x))
            /\ out.ry = axis_val(-Norm(decode_stick12(data, 8).y))
        BY <3>1, SMT DEF update_uinput, decode_report
      <3>3. /\ 5 + 2 < Size(data) /\ 8 + 2 < Size(data)
        BY <3>1, ReportBytes
      <3>4. DecodedIs(data, 5) /\ DecodedIs(data, 8)
        BY <3>1, <3>3, DecodedSticks
      <3>5. /\ decode_stick12(data, 5).x = Field(data, 40, 12)
            /\ decode_stick12(data, 5).y = Field(data, 52, 12)
            /\ decode_stick12(data, 8).x = Field(data, 64, 12)
            /\ decode_stick12(data, 8).y = Field(data, 76, 12)
            /\ \A w \in {40, 52, 64, 76} : Field(data, w, 12) \in Nat /\ Field(data, w, 12) < 4096
        BY <3>4, SMT DEF DecodedIs
      <3>6. \A w \in {40, 52, 64, 76} : /\ Near(axis_val(Norm(Field(data, w, 12))), Field(data, w, 12))
                                        /\ Near(-axis_val(-Norm(Field(data, w, 12))), Field(data, w, 12))
        BY <3>5, AxisNear
      <3> QED
        BY <3>2, <3>5, <3>6
    <2> QED
      BY <2>1, <2>2, SMT DEF AxesFollowSticks, Near
  <1> QED
    BY <1>1, TAlways, ConvertedAlways, PTL

=============================================================================
