--------------------------- MODULE Sw2dFinalProofs ---------------------------
(***************************************************************************)
(* The safety invariants of sw2d_final, for every queue bound, every set   *)
(* of handles and every length of the drain.  The argument is about what   *)
(* lies unread on the socket: frames of links that have ended are followed *)
(* by the Disconnection Complete of that link, and the daemon, which reads *)
(* in order, meets it before anything of a later link.                     *)
(***************************************************************************)
EXTENDS Sw2dFinal, SequenceTheorems, TLAPS

EncCommands == {"startEnc", "ltkReply"}
EarlyPoints == {"start", "open", "init", "scan"}
Attempting == {"drain", "create", "awaitConn"} \cup PairingWaits

\* Frames no part of the argument looks at.
PlainKinds == (SmpKinds \cup AttKinds \cup EventKinds) \ {"connOk", "disconn", "encOk", "randGood"}

-----------------------------------------------------------------------------
(* What a queue q may look like *)

\* Two connections are separated by the end of the first one.
Alternates(q) ==
    \A i, j \in 1 .. Len(q) :
        i < j /\ q[i].kind = "connOk" /\ q[j].kind \in {"connOk", "encOk"} =>
            \E k \in 1 .. Len(q) : i < k /\ k < j /\ q[k].kind = "disconn"

\* The end of every link there is a frame of is queued behind it.
Closed(q) ==
    \A i \in 1 .. Len(q) :
        q[i].kind \in {"connOk", "encOk"} =>
            \E k \in 1 .. Len(q) : i < k /\ q[k].kind = "disconn"

\* What no disconnect follows is of the link with handle h and encryption e.
Current(q, h, e) ==
    \A i \in 1 .. Len(q) :
        (\A k \in 1 .. Len(q) : i < k => q[k].kind # "disconn") =>
            /\ q[i].kind = "connOk" => q[i].h = h
            /\ q[i].kind = "encOk" => e = "on"

\* Nothing queued begins or ends a link.
OneLink(q) == \A i \in 1 .. Len(q) : q[i].kind \notin {"connOk", "disconn"}
NoEnd(q) == \A i \in 1 .. Len(q) : q[i].kind # "disconn"

\* A usable Random is of the present link.
RandomsFresh(q, up) ==
    \A i \in 1 .. Len(q) :
        q[i].kind = "randGood" /\ q[i].age = "this" =>
            up /\ \A k \in 1 .. Len(q) : i < k => q[k].kind \notin {"connOk", "disconn"}

\* Before a new connection comes the end of the one the daemon pairs on.
EndFirst(q) ==
    \A j \in 1 .. Len(q) :
        q[j].kind = "connOk" => \E k \in 1 .. Len(q) : k < j /\ q[k].kind = "disconn"

\* An Encryption Change the daemon will read before any disconnect.
EncNext(q) ==
    \E i \in 1 .. Len(q) : q[i].kind = "encOk" /\ \A k \in 1 .. Len(q) : k < i => q[k].kind # "disconn"

-----------------------------------------------------------------------------
(* The inductive invariant *)

\* A controller that is gone holds nothing; one with a link has no attempt pending.
DeviceInv ==
    /\ Dead => pending = "none" /\ ~linkUp /\ cmds = <<>>
    /\ linkUp => pending = "none"
    /\ ~linkUp => enc = "off" /\ owed = {} /\ ~sharedKey

\* What is on its way to the controller.
CommandsInv ==
    /\ \/ cmds \in Seq(EncCommands)
       \/ cmds = <<"cancel">>
       \/ cmds = <<"create">> /\ pending = "none"
       \/ cmds = <<"cancel", "create">>
    /\ pc \in {"drain", "create"} => cmds = <<"cancel">> \/ (cmds = <<>> /\ pending = "none")
    /\ pc \in PairingWaits \cup AttWaits \cup {"report"} => cmds \in Seq(EncCommands)

\* did_cancel and what it stands for.
CancelInv ==
    /\ pc \in EarlyPoints => cmds = <<>> /\ pending = "none" /\ ~linkUp
    /\ pc \in Attempting => didCancel
    /\ pc = "loop" /\ ~didCancel /\ running =>
         pending = "none" /\ ~linkUp /\ cmds \in Seq(EncCommands)
    /\ pc = "drain" => drained < DrainMax

QueueInv ==
    /\ Alternates(events)
    /\ ~linkUp /\ ~Dead => Closed(events)
    /\ linkUp => Current(events, linkHandle, enc)
    /\ ~Dead => RandomsFresh(events, linkUp)
    /\ sharedKey => OneLink(events)

PairingInv ==
    pc \in PairingWaits =>
        /\ EndFirst(events)
        /\ ~Dead => (linkUp /\ linkHandle = connHandle) \/ ~NoEnd(events)
        /\ EncNext(events) => pending = "none" /\ (linkUp => NoEnd(events))

AttInv ==
    pc \in AttWaits \cup {"report"} =>
        /\ pending = "none"
        /\ linkUp => enc = "on" /\ linkHandle = connHandle /\ NoEnd(events)

FInv == /\ TypeOK /\ DeviceInv /\ CommandsInv /\ CancelInv
        /\ QueueInv /\ PairingInv /\ AttInv

-----------------------------------------------------------------------------
(* How a queue changes *)

\* What a peer may add, with its link up or down.
Added(up) == IF up THEN PlainKinds \cup {"randGood"} ELSE PlainKinds

\* r is q without its first d frames and with such frames added; a Random keeps its age.
Follows(q, r, d, up) ==
    /\ d \in {0, 1} /\ d <= Len(q) /\ Len(q) - d <= Len(r)
    /\ \A i \in 1 .. Len(q) : d < i =>
         /\ r[i - d].kind = q[i].kind /\ r[i - d].h = q[i].h
         /\ q[i].kind = "randGood" => r[i - d].age = q[i].age
    /\ \A i \in 1 .. Len(r) : Len(q) - d < i => r[i].kind \in Added(up)

\* Where a frame of r that matters comes from, and where a frame of q goes.
LEMMA FollowsBack ==
    ASSUME NEW q \in Seq(Frames), NEW r \in Seq(Frames), NEW d, NEW up, Follows(q, r, d, up),
           NEW i \in 1 .. Len(r), r[i].kind \notin PlainKinds, r[i].kind # "randGood" \/ ~up
    PROVE  /\ i + d \in 1 .. Len(q) /\ d < i + d
           /\ q[i + d].kind = r[i].kind /\ q[i + d].h = r[i].h
           /\ r[i].kind = "randGood" => r[i].age = q[i + d].age
  <1>1. Len(q) \in Nat /\ Len(r) \in Nat /\ d \in {0, 1}
    BY LenProperties DEF Follows
  <1>2. i <= Len(q) - d
    BY <1>1 DEF Follows, Added
  <1>3. i + d \in 1 .. Len(q) /\ d < i + d /\ (i + d) - d = i
    BY <1>1, <1>2
  <1> QED
    BY <1>1, <1>3 DEF Follows

\* And where a frame of q that is not read goes to.
LEMMA FollowsOn ==
    ASSUME NEW q \in Seq(Frames), NEW r \in Seq(Frames), NEW d, NEW up, Follows(q, r, d, up),
           NEW k \in 1 .. Len(q), d < k
    PROVE  /\ k - d \in 1 .. Len(r) /\ d \in {0, 1}
           /\ r[k - d].kind = q[k].kind
  <1>1. Len(q) \in Nat /\ Len(r) \in Nat /\ d \in {0, 1}
    BY LenProperties DEF Follows
  <1>2. k - d \in 1 .. Len(r)
    BY <1>1 DEF Follows
  <1> QED
    BY <1>1, <1>2 DEF Follows

\* Links still alternate with their ends.
LEMMA FollowsAlternates ==
    ASSUME NEW q \in Seq(Frames), NEW r \in Seq(Frames), NEW d, NEW up, Follows(q, r, d, up), Alternates(q)
    PROVE  Alternates(r)
  <1> SUFFICES ASSUME NEW i \in 1 .. Len(r), NEW j \in 1 .. Len(r), i < j,
                      r[i].kind = "connOk", r[j].kind \in {"connOk", "encOk"}
               PROVE  \E k \in 1 .. Len(r) : i < k /\ k < j /\ r[k].kind = "disconn"
    BY DEF Alternates
  <1>1. Len(q) \in Nat /\ Len(r) \in Nat /\ d \in {0, 1}
    BY LenProperties DEF Follows
  <1>2. /\ i + d \in 1 .. Len(q) /\ q[i + d].kind = "connOk"
        /\ j + d \in 1 .. Len(q) /\ q[j + d].kind \in {"connOk", "encOk"}
    BY FollowsBack DEF PlainKinds
  <1>3. i + d < j + d
    BY <1>1
  <1>4. PICK k \in 1 .. Len(q) : i + d < k /\ k < j + d /\ q[k].kind = "disconn"
    BY <1>2, <1>3, Zenon DEF Alternates
  <1>5. d < k
    BY <1>1, <1>4
  <1>6. k - d \in 1 .. Len(r) /\ r[k - d].kind = "disconn"
    BY <1>4, <1>5, FollowsOn
  <1>7. i < k - d /\ k - d < j
    BY <1>1, <1>4
  <1> QED
    BY <1>6, <1>7

\* Every link is still ended.
LEMMA FollowsClosed ==
    ASSUME NEW q \in Seq(Frames), NEW r \in Seq(Frames), NEW d, NEW up, Follows(q, r, d, up), Closed(q)
    PROVE  Closed(r)
  <1> SUFFICES ASSUME NEW i \in 1 .. Len(r), r[i].kind \in {"connOk", "encOk"}
               PROVE  \E k \in 1 .. Len(r) : i < k /\ r[k].kind = "disconn"
    BY DEF Closed
  <1>1. Len(q) \in Nat /\ Len(r) \in Nat /\ d \in {0, 1}
    BY LenProperties DEF Follows
  <1>2. i + d \in 1 .. Len(q) /\ q[i + d].kind \in {"connOk", "encOk"}
    BY FollowsBack DEF PlainKinds
  <1>3. PICK k \in 1 .. Len(q) : i + d < k /\ q[k].kind = "disconn"
    BY <1>1, <1>2 DEF Closed
  <1>4. d < k
    BY <1>1, <1>3
  <1>5. k - d \in 1 .. Len(r) /\ r[k - d].kind = "disconn"
    BY <1>3, <1>4, FollowsOn
  <1>6. i < k - d
    BY <1>1, <1>3
  <1> QED
    BY <1>5, <1>6

\* What is not ended is still of the present link.
LEMMA FollowsCurrent ==
    ASSUME NEW q \in Seq(Frames), NEW r \in Seq(Frames), NEW d, NEW up, Follows(q, r, d, up),
           NEW h, NEW e, Current(q, h, e)
    PROVE  Current(r, h, e)
  <1> SUFFICES ASSUME NEW i \in 1 .. Len(r), r[i].kind \in {"connOk", "encOk"},
                      \A k \in 1 .. Len(r) : i < k => r[k].kind # "disconn"
               PROVE  /\ r[i].kind = "connOk" => r[i].h = h
                      /\ r[i].kind = "encOk" => e = "on"
    BY DEF Current
  <1>1. Len(q) \in Nat /\ Len(r) \in Nat /\ d \in {0, 1}
    BY LenProperties DEF Follows
  <1>2. i + d \in 1 .. Len(q) /\ q[i + d].kind = r[i].kind /\ q[i + d].h = r[i].h
    BY FollowsBack DEF PlainKinds
  <1>3. ASSUME NEW k \in 1 .. Len(q), i + d < k
        PROVE  q[k].kind # "disconn"
    <2>1. d < k /\ i < k - d
      BY <1>1, <1>3
    <2>2. k - d \in 1 .. Len(r) /\ r[k - d].kind = q[k].kind
      BY <2>1, FollowsOn
    <2> QED
      BY <2>1, <2>2
  <1> QED
    BY <1>2, <1>3 DEF Current

\* No begin and no end of a link appears.
LEMMA FollowsOneLink ==
    ASSUME NEW q \in Seq(Frames), NEW r \in Seq(Frames), NEW d, NEW up, Follows(q, r, d, up)
    PROVE  (OneLink(q) => OneLink(r)) /\ (NoEnd(q) => NoEnd(r))
  <1>1. ASSUME NEW i \in 1 .. Len(r), r[i].kind \in {"connOk", "disconn"}
        PROVE  i + d \in 1 .. Len(q) /\ q[i + d].kind = r[i].kind
    BY <1>1, FollowsBack DEF PlainKinds
  <1> QED
    BY <1>1 DEF OneLink, NoEnd

\* Usable Randoms are still of the present link.
LEMMA FollowsRandoms ==
    ASSUME NEW q \in Seq(Frames), NEW r \in Seq(Frames), NEW d, NEW up, Follows(q, r, d, up),
           RandomsFresh(q, up)
    PROVE  RandomsFresh(r, up)
  <1> SUFFICES ASSUME NEW i \in 1 .. Len(r), r[i].kind = "randGood", r[i].age = "this"
               PROVE  up /\ \A k \in 1 .. Len(r) : i < k => r[k].kind \notin {"connOk", "disconn"}
    BY DEF RandomsFresh
  <1>1. Len(q) \in Nat /\ Len(r) \in Nat /\ d \in {0, 1}
    BY LenProperties DEF Follows
  <1>2. CASE ~(i + d \in 1 .. Len(q))
    <2>1. Len(q) - d < i
      BY <1>1, <1>2
    <2>2. r[i].kind \in Added(up)
      BY <2>1 DEF Follows
    <2>3. up
      BY <2>2 DEF Added, PlainKinds
    <2>4. ASSUME NEW k \in 1 .. Len(r), i < k PROVE r[k].kind \in Added(up)
      BY <1>1, <2>1, <2>4 DEF Follows
    <2> QED
      BY <2>3, <2>4 DEF Added, PlainKinds
  <1> SUFFICES ASSUME i + d \in 1 .. Len(q)
               PROVE  up /\ \A k \in 1 .. Len(r) : i < k => r[k].kind \notin {"connOk", "disconn"}
    BY <1>2
  <1>3. q[i + d].kind = "randGood" /\ q[i + d].age = "this"
    <2>1. d < i + d /\ (i + d) - d = i
      BY <1>1
    <2> QED
      BY <2>1 DEF Follows
  <1>4. up /\ \A k \in 1 .. Len(q) : i + d < k => q[k].kind \notin {"connOk", "disconn"}
    BY <1>3 DEF RandomsFresh
  <1>5. ASSUME NEW k \in 1 .. Len(r), i < k, r[k].kind \in {"connOk", "disconn"}
        PROVE  FALSE
    <2>1. k + d \in 1 .. Len(q) /\ q[k + d].kind = r[k].kind
      BY <1>5, FollowsBack DEF PlainKinds
    <2>2. i + d < k + d
      BY <1>1, <1>5
    <2> QED
      BY <1>4, <1>5, <2>1, <2>2
  <1> QED
    BY <1>4, <1>5

\* As long as the frame read is not a disconnect, what is before the first one stays.
LEMMA FollowsPairing ==
    ASSUME NEW q \in Seq(Frames), NEW r \in Seq(Frames), NEW d, NEW up, Follows(q, r, d, up),
           d = 1 => q[1].kind # "disconn"
    PROVE  /\ EndFirst(q) => EndFirst(r)
           /\ ~NoEnd(q) => ~NoEnd(r)
           /\ EncNext(r) => EncNext(q)
  <1>1. Len(q) \in Nat /\ Len(r) \in Nat /\ d \in {0, 1}
    BY LenProperties DEF Follows
  <1>2. ASSUME NEW k \in 1 .. Len(q), q[k].kind = "disconn"
        PROVE  k - d \in 1 .. Len(r) /\ r[k - d].kind = "disconn"
    <2>1. d < k
      BY <1>1, <1>2
    <2> QED
      BY <1>2, <2>1, FollowsOn
  <1>3. ASSUME EndFirst(q) PROVE EndFirst(r)
    <2> SUFFICES ASSUME NEW j \in 1 .. Len(r), r[j].kind = "connOk"
                 PROVE  \E k \in 1 .. Len(r) : k < j /\ r[k].kind = "disconn"
      BY DEF EndFirst
    <2>1. j + d \in 1 .. Len(q) /\ q[j + d].kind = "connOk"
      BY FollowsBack DEF PlainKinds
    <2>2. PICK k \in 1 .. Len(q) : k < j + d /\ q[k].kind = "disconn"
      BY <1>3, <2>1 DEF EndFirst
    <2>3. k - d < j
      BY <1>1, <2>2
    <2> QED
      BY <1>2, <2>2, <2>3
  <1>4. ASSUME ~NoEnd(q) PROVE ~NoEnd(r)
    BY <1>2, <1>4 DEF NoEnd
  <1>5. ASSUME EncNext(r) PROVE EncNext(q)
    <2>1. PICK i \in 1 .. Len(r) : /\ r[i].kind = "encOk"
                                   /\ \A k \in 1 .. Len(r) : k < i => r[k].kind # "disconn"
      BY <1>5 DEF EncNext
    <2>2. i + d \in 1 .. Len(q) /\ q[i + d].kind = "encOk"
      BY <2>1, FollowsBack DEF PlainKinds
    <2>3. ASSUME NEW k \in 1 .. Len(q), k < i + d, q[k].kind = "disconn" PROVE FALSE
      <3>1. k - d \in 1 .. Len(r) /\ r[k - d].kind = "disconn"
        BY <1>2, <2>3
      <3>2. k - d < i
        BY <1>1, <2>3
      <3> QED
        BY <2>1, <3>1, <3>2
    <2> QED
      BY <2>2, <2>3 DEF EncNext
  <1> QED
    BY <1>3, <1>4, <1>5

-----------------------------------------------------------------------------
(* The ways the queue does change *)

\* The queue stays.
LEMMA FollowsSame ==
    ASSUME NEW q \in Seq(Frames), NEW up
    PROVE  Follows(q, q, 0, up)
  <1>1. Len(q) \in Nat
    BY LenProperties
  <1> QED
    BY <1>1 DEF Follows

\* Its first frame is read.
LEMMA FollowsRead ==
    ASSUME NEW q \in Seq(Frames), q # <<>>, NEW up
    PROVE  /\ Tail(q) \in Seq(Frames)
           /\ Follows(q, Tail(q), 1, up)
           /\ q[1] = Head(q) /\ Head(q) \in Frames /\ 1 \in 1 .. Len(q)
  <1>1. /\ Tail(q) \in Seq(Frames) /\ Len(Tail(q)) = Len(q) - 1 /\ Head(q) \in Frames
        /\ \A i \in 1 .. Len(Tail(q)) : Tail(q)[i] = q[i + 1]
    BY HeadTailProperties
  <1>2. Len(q) \in Nat \ {0}
    BY EmptySeq
  <1>3. ASSUME NEW i \in 1 .. Len(q), 1 < i PROVE Tail(q)[i - 1] = q[i]
    <2>1. i - 1 \in 1 .. Len(Tail(q)) /\ (i - 1) + 1 = i
      BY <1>1, <1>2, <1>3
    <2> QED
      BY <1>1, <2>1
  <1>4. Head(q) = q[1]
    OBVIOUS
  <1> QED
    BY <1>1, <1>2, <1>3, <1>4 DEF Follows

\* Frames a peer may send are added,
LEMMA FollowsAdd ==
    ASSUME NEW q \in Seq(Frames), NEW s \in Seq(Frames), NEW up,
           \A i \in 1 .. Len(s) : s[i].kind \in Added(up)
    PROVE  q \o s \in Seq(Frames) /\ Follows(q, q \o s, 0, up)
  <1>1. /\ q \o s \in Seq(Frames) /\ Len(q \o s) = Len(q) + Len(s)
        /\ \A i \in 1 .. Len(q) + Len(s) : (q \o s)[i] = IF i <= Len(q) THEN q[i] ELSE s[i - Len(q)]
    BY ConcatProperties
  <1>2. Len(q) \in Nat /\ Len(s) \in Nat
    BY LenProperties
  <1>3. ASSUME NEW i \in 1 .. Len(q) PROVE (q \o s)[i] = q[i]
    BY <1>1, <1>2
  <1>4. ASSUME NEW i \in 1 .. Len(q \o s), Len(q) < i PROVE (q \o s)[i].kind \in Added(up)
    <2>1. i - Len(q) \in 1 .. Len(s) /\ (q \o s)[i] = s[i - Len(q)]
      BY <1>1, <1>2, <1>4
    <2> QED
      BY <2>1
  <1> QED
    BY <1>1, <1>2, <1>3, <1>4 DEF Follows

\* The frames of one event.
LEMMA OneFrame ==
    ASSUME NEW f \in Frames
    PROVE  <<f>> \in Seq(Frames) /\ Len(<<f>>) = 1 /\ <<f>>[1] = f
  OBVIOUS

\* (two frames as a sequence)
LEMMA TwoFrames ==
    ASSUME NEW f \in Frames, NEW g \in Frames
    PROVE  <<f, g>> \in Seq(Frames) /\ Len(<<f, g>>) = 2 /\ <<f, g>>[1] = f /\ <<f, g>>[2] = g
  OBVIOUS

\* one
LEMMA FollowsAddOne ==
    ASSUME NEW q \in Seq(Frames), NEW up, NEW f \in Frames, f.kind \in Added(up)
    PROVE  q \o <<f>> \in Seq(Frames) /\ Follows(q, q \o <<f>>, 0, up)
  <1>1. \A i \in 1 .. Len(<<f>>) : <<f>>[i].kind \in Added(up)
    BY OneFrame
  <1> QED
    BY <1>1, OneFrame, FollowsAdd

\* or two.
LEMMA FollowsAddTwo ==
    ASSUME NEW q \in Seq(Frames), NEW up, NEW f \in Frames, f.kind \in Added(up),
           NEW g \in Frames, g.kind \in Added(up)
    PROVE  q \o <<f, g>> \in Seq(Frames) /\ Follows(q, q \o <<f, g>>, 0, up)
  <1>1. \A i \in 1 .. Len(<<f, g>>) : <<f, g>>[i].kind \in Added(up)
    BY TwoFrames
  <1> QED
    BY <1>1, TwoFrames, FollowsAdd

\* Marking frames old.
LEMMA FollowsAged ==
    ASSUME NEW q \in Seq(Frames), NEW up
    PROVE  /\ [i \in DOMAIN q |-> Aged(q[i])] \in Seq(Frames)
           /\ Follows(q, [i \in DOMAIN q |-> Aged(q[i])], 0, up)
  <1> DEFINE r == [i \in DOMAIN q |-> Aged(q[i])]
  <1>1. Len(q) \in Nat /\ DOMAIN q = 1 .. Len(q) /\ \A i \in 1 .. Len(q) : q[i] \in Frames
    BY LenProperties, ElementOfSeq
  <1>2. \A f \in Frames : /\ Aged(f) \in Frames /\ Aged(f).kind = f.kind /\ Aged(f).h = f.h
                          /\ f.kind = "randGood" => Aged(f).age = f.age
    BY DEF Aged, Frames, Ages
  <1>3. r \in [1 .. Len(q) -> Frames]
    BY <1>1, <1>2
  <1>4. r \in Seq(Frames) /\ Len(r) = Len(q)
    BY <1>1, <1>3
  <1> HIDE DEF r
  <1>5. \A i \in 1 .. Len(q) : r[i] = Aged(q[i])
    BY <1>1 DEF r
  <1>6. Follows(q, r, 0, up)
    BY <1>1, <1>2, <1>4, <1>5 DEF Follows
  <1> QED
    BY <1>4, <1>6 DEF r

\* When a link ends, the queue keeps its frames, and its Randoms become old.
LEMMA OutlivedSeq ==
    ASSUME NEW q \in Seq(Frames)
    PROVE  /\ [i \in DOMAIN q |-> Outlived(q[i])] \in Seq(Frames)
           /\ Len([i \in DOMAIN q |-> Outlived(q[i])]) = Len(q)
           /\ \A i \in 1 .. Len(q) :
                /\ [j \in DOMAIN q |-> Outlived(q[j])][i].kind = q[i].kind
                /\ q[i].kind = "randGood" => [j \in DOMAIN q |-> Outlived(q[j])][i].age = "old"
  <1> DEFINE r == [i \in DOMAIN q |-> Outlived(q[i])]
  <1>1. Len(q) \in Nat /\ DOMAIN q = 1 .. Len(q) /\ \A i \in 1 .. Len(q) : q[i] \in Frames
    BY LenProperties, ElementOfSeq
  <1>2. \A f \in Frames : /\ Outlived(f) \in Frames /\ Outlived(f).kind = f.kind
                          /\ f.kind = "randGood" => Outlived(f).age = "old"
    BY DEF Outlived, Frames, Ages
  <1>3. r \in [1 .. Len(q) -> Frames]
    BY <1>1, <1>2
  <1>4. r \in Seq(Frames) /\ Len(r) = Len(q)
    BY <1>1, <1>3
  <1>5. \A i \in 1 .. Len(q) : r[i] = Outlived(q[i])
    BY <1>1
  <1> HIDE DEF r
  <1>6. \A i \in 1 .. Len(q) : r[i].kind = q[i].kind /\ (q[i].kind = "randGood" => r[i].age = "old")
    BY <1>1, <1>2, <1>5
  <1> QED
    BY <1>4, <1>6 DEF r

\* A frame is added.
LEMMA AddedOne ==
    ASSUME NEW q \in Seq(Frames), NEW f \in Frames
    PROVE  /\ q \o <<f>> \in Seq(Frames) /\ Append(q, f) = q \o <<f>>
           /\ Len(q) \in Nat /\ Len(q \o <<f>>) = Len(q) + 1
           /\ \A i \in 1 .. Len(q) : (q \o <<f>>)[i] = q[i]
           /\ (q \o <<f>>)[Len(q) + 1] = f
  <1>1. /\ q \o <<f>> \in Seq(Frames) /\ Len(q \o <<f>>) = Len(q) + 1
        /\ \A i \in 1 .. Len(q) + 1 : (q \o <<f>>)[i] = IF i <= Len(q) THEN q[i] ELSE <<f>>[i - Len(q)]
    BY ConcatProperties, OneFrame
  <1>2. Len(q) \in Nat
    BY LenProperties
  <1>3. \A i \in 1 .. Len(q) : (q \o <<f>>)[i] = q[i]
    BY <1>1, <1>2
  <1>4. (q \o <<f>>)[Len(q) + 1] = f
    <2>1. Len(q) + 1 \in 1 .. Len(q) + 1 /\ ~(Len(q) + 1 <= Len(q)) /\ (Len(q) + 1) - Len(q) = 1
      BY <1>2
    <2> QED
      BY <1>1, <2>1, OneFrame
  <1> QED
    BY <1>1, <1>2, <1>3, <1>4

\* r is q, up to the age of its frames, with f at its end.
Longer(q, r, f) ==
    /\ Len(r) = Len(q) + 1
    /\ \A i \in 1 .. Len(q) : r[i].kind = q[i].kind
    /\ r[Len(q) + 1] = f

\* A new connection, behind a queue in which every earlier one has its end.
LEMMA ConnectionAdded ==
    ASSUME NEW q \in Seq(Frames), NEW r \in Seq(Frames), NEW f \in Frames, Longer(q, r, f),
           f.kind = "connOk", Closed(q), Alternates(q), RandomsFresh(q, FALSE),
           \A i \in 1 .. Len(q) : r[i] = q[i]
    PROVE  /\ Alternates(r)
           /\ \A e : Current(r, f.h, e)
           /\ RandomsFresh(r, TRUE)
           /\ EndFirst(q) /\ ~NoEnd(q) => EndFirst(r) /\ ~NoEnd(r)
           /\ EncNext(r) => EncNext(q)
  <1>1. Len(q) \in Nat /\ Len(r) \in Nat
    BY LenProperties
  <1>2. ASSUME NEW i \in 1 .. Len(r) PROVE i \in 1 .. Len(q) \/ i = Len(q) + 1
    BY <1>1, <1>2 DEF Longer
  <1>3. ASSUME NEW i \in 1 .. Len(q) PROVE i \in 1 .. Len(r) /\ i < Len(q) + 1
    BY <1>1, <1>3 DEF Longer
  <1>4. Len(q) + 1 \in 1 .. Len(r) /\ r[Len(q) + 1].kind = "connOk" /\ r[Len(q) + 1].h = f.h
    BY <1>1 DEF Longer
  <1>5. Alternates(r)
    <2> SUFFICES ASSUME NEW i \in 1 .. Len(r), NEW j \in 1 .. Len(r), i < j,
                        r[i].kind = "connOk", r[j].kind \in {"connOk", "encOk"}
                 PROVE  \E k \in 1 .. Len(r) : i < k /\ k < j /\ r[k].kind = "disconn"
      BY DEF Alternates
    <2>1. i \in 1 .. Len(q)
      BY <1>1 DEF Longer
    <2>2. CASE j \in 1 .. Len(q)
      <3>1. q[i].kind = "connOk" /\ q[j].kind \in {"connOk", "encOk"}
        BY <2>1, <2>2
      <3>2. PICK k \in 1 .. Len(q) : i < k /\ k < j /\ q[k].kind = "disconn"
        BY <2>1, <2>2, <3>1, Zenon DEF Alternates
      <3> QED
        BY <3>2, <1>3
    <2>3. CASE j = Len(q) + 1
      <3>1. PICK k \in 1 .. Len(q) : i < k /\ q[k].kind = "disconn"
        BY <2>1 DEF Closed
      <3> QED
        BY <3>1, <2>3, <1>3
    <2> QED
      BY <1>2, <2>2, <2>3
  <1>6. ASSUME NEW e PROVE Current(r, f.h, e)
    <2> SUFFICES ASSUME NEW i \in 1 .. Len(r), r[i].kind \in {"connOk", "encOk"},
                        \A k \in 1 .. Len(r) : i < k => r[k].kind # "disconn"
                 PROVE  i = Len(q) + 1
      BY <1>4 DEF Current
    <2>1. ASSUME i \in 1 .. Len(q) PROVE FALSE
      <3>1. PICK k \in 1 .. Len(q) : i < k /\ q[k].kind = "disconn"
        BY <2>1 DEF Closed
      <3> QED
        BY <3>1, <1>3
    <2> QED
      BY <1>2, <2>1
  <1>7. RandomsFresh(r, TRUE)
    BY <1>2, <1>4 DEF RandomsFresh
  <1>8. ASSUME EndFirst(q), ~NoEnd(q) PROVE EndFirst(r) /\ ~NoEnd(r)
    <2>1. PICK k \in 1 .. Len(q) : q[k].kind = "disconn"
      BY <1>8 DEF NoEnd
    <2>2. ASSUME NEW j \in 1 .. Len(q), r[j].kind = "connOk"
          PROVE  \E l \in 1 .. Len(r) : l < j /\ r[l].kind = "disconn"
      BY <1>3, <1>8, <2>2 DEF EndFirst
    <2> QED
      BY <1>2, <1>3, <2>1, <2>2 DEF EndFirst, NoEnd
  <1>9. ASSUME EncNext(r) PROVE EncNext(q)
    BY <1>2, <1>3, <1>4, <1>9 DEF EncNext
  <1> QED
    BY <1>5, <1>6, <1>7, <1>8, <1>9

\* An Encryption Change on the one link the queue is of.
LEMMA EncryptionAdded ==
    ASSUME NEW q \in Seq(Frames), NEW r \in Seq(Frames), NEW f \in Frames, Longer(q, r, f),
           f.kind = "encOk", OneLink(q), RandomsFresh(q, TRUE),
           \A i \in 1 .. Len(q) : r[i] = q[i]
    PROVE  /\ Alternates(r) /\ OneLink(r) /\ NoEnd(r) /\ EndFirst(r)
           /\ \A h : Current(r, h, "on")
           /\ RandomsFresh(r, TRUE)
  <1>1. Len(q) \in Nat /\ Len(r) \in Nat
    BY LenProperties
  <1>2. ASSUME NEW i \in 1 .. Len(r) PROVE i \in 1 .. Len(q) \/ i = Len(q) + 1
    BY <1>1, <1>2 DEF Longer
  <1>3. r[Len(q) + 1].kind = "encOk"
    BY DEF Longer
  <1>4. \A i \in 1 .. Len(r) : r[i].kind \notin {"connOk", "disconn"}
    BY <1>2, <1>3 DEF OneLink
  <1> QED
    BY <1>4 DEF OneLink, NoEnd, EndFirst, Alternates, Current, RandomsFresh

\* The end of the link closes what is queued.
LEMMA EndAdded ==
    ASSUME NEW q \in Seq(Frames), NEW r \in Seq(Frames), NEW f \in Frames, Longer(q, r, f),
           f.kind = "disconn", Alternates(q),
           \A i \in 1 .. Len(q) : q[i].kind = "randGood" => r[i].age = "old"
    PROVE  /\ Alternates(r) /\ Closed(r) /\ ~NoEnd(r)
           /\ \A up : RandomsFresh(r, up)
           /\ EndFirst(q) => EndFirst(r)
           /\ EncNext(r) => EncNext(q)
  <1>1. Len(q) \in Nat /\ Len(r) \in Nat
    BY LenProperties
  <1>2. ASSUME NEW i \in 1 .. Len(r) PROVE i \in 1 .. Len(q) \/ i = Len(q) + 1
    BY <1>1, <1>2 DEF Longer
  <1>3. ASSUME NEW i \in 1 .. Len(q) PROVE i \in 1 .. Len(r) /\ i < Len(q) + 1 /\ r[i].kind = q[i].kind
    BY <1>1, <1>3 DEF Longer
  <1>4. Len(q) + 1 \in 1 .. Len(r) /\ r[Len(q) + 1].kind = "disconn"
    BY <1>1 DEF Longer
  <1>5. Alternates(r)
    <2> SUFFICES ASSUME NEW i \in 1 .. Len(r), NEW j \in 1 .. Len(r), i < j,
                        r[i].kind = "connOk", r[j].kind \in {"connOk", "encOk"}
                 PROVE  \E k \in 1 .. Len(r) : i < k /\ k < j /\ r[k].kind = "disconn"
      BY DEF Alternates
    <2>1. i \in 1 .. Len(q) /\ j \in 1 .. Len(q)
      BY <1>2, <1>4
    <2>2. PICK k \in 1 .. Len(q) : i < k /\ k < j /\ q[k].kind = "disconn"
      BY <1>3, <2>1 DEF Alternates
    <2> QED
      BY <1>3, <2>2
  <1>6. Closed(r)
    BY <1>2, <1>3, <1>4 DEF Closed
  <1>7. ~NoEnd(r)
    BY <1>4 DEF NoEnd
  <1>8. \A up : RandomsFresh(r, up)
    BY <1>2, <1>3, <1>4 DEF RandomsFresh
  <1>9. ASSUME EndFirst(q) PROVE EndFirst(r)
    BY <1>2, <1>3, <1>4, <1>9 DEF EndFirst
  <1>10. ASSUME EncNext(r) PROVE EncNext(q)
    BY <1>2, <1>3, <1>4, <1>10 DEF EncNext
  <1> QED
    BY <1>5, <1>6, <1>7, <1>8, <1>9, <1>10

-----------------------------------------------------------------------------
(* Types *)

\* Two Boolean values.
LEMMA Truth == \A x : x = TRUE \/ x = FALSE => x \in BOOLEAN
  BY Zenon

\* Frames the controller and the peer send.
LEMMA FrameTypes ==
    ASSUME TypeOK
    PROVE  /\ \A k \in SmpKinds \cup AttKinds \cup EventKinds :
                /\ Frame(k) \in Frames /\ Frame(k).kind = k
                /\ LinkFrame(k) \in Frames /\ LinkFrame(k).kind = k /\ LinkFrame(k).h = linkHandle
                /\ pending # "none" => \A h \in Handles :
                     ConnFrame(k, h) \in Frames /\ ConnFrame(k, h).kind = k /\ ConnFrame(k, h).h = h
  BY ControllerAssumption
     DEF ControllerAssumption, TypeOK, CtlTypeOK, Frame, LinkFrame, ConnFrame, Frames, Ages

\* What may come back for a request is a frame of the peer's.
LEMMA AnswerKinds ==
    ASSUME NEW r \in Requests, NEW k \in Answers(r)
    PROVE  k \in PlainKinds \cup {"randGood"} /\ k \in SmpKinds \cup AttKinds
  <1> USE DEF SmpKinds, AttKinds, EventKinds, PlainKinds
  <1>1. CASE r = "preq"
    BY <1>1 DEF Answers
  <1>2. CASE r = "confirm"
    BY <1>2 DEF Answers
  <1>3. CASE r = "random"
    BY <1>3 DEF Answers
  <1>4. CASE r = "chars"
    BY <1>4 DEF Answers
  <1>5. CASE r \in {"mtu", "services", "cccd"}
    BY <1>5 DEF Answers
  <1> QED
    BY <1>1, <1>2, <1>3, <1>4, <1>5 DEF Requests

\* What an event adds to the queue.
LEMMA Raised ==
    ASSUME TypeOK, NEW k \in PlainKinds
    PROVE  /\ Raise(<<Frame(k)>>) =>
                events' \in Seq(Frames) /\ Follows(events, events', 0, linkUp)
           /\ Raise(<<LinkFrame(k)>>) =>
                events' \in Seq(Frames) /\ Follows(events, events', 0, linkUp)
           /\ pending # "none" /\ Raise(<<ConnFrame(k, 0)>>) =>
                events' \in Seq(Frames) /\ Follows(events, events', 0, linkUp)
  <1>1. events \in Seq(Frames) /\ 0 \in Handles /\ k \in Added(linkUp)
    BY ControllerAssumption DEF ControllerAssumption, TypeOK, CtlTypeOK, Added
  <1>2. Frame(k) \in Frames /\ Frame(k).kind = k /\ LinkFrame(k) \in Frames /\ LinkFrame(k).kind = k
    BY FrameTypes DEF PlainKinds
  <1>3. pending # "none" => ConnFrame(k, 0) \in Frames /\ ConnFrame(k, 0).kind = k
    BY <1>1, FrameTypes DEF PlainKinds
  <1> QED
    BY <1>1, <1>2, <1>3, FollowsAddOne DEF Raise

\* Reading the first frame, or marking frames old.
LEMMA QueueRead ==
    ASSUME TypeOK, events # <<>>, Consume
    PROVE  /\ events' \in Seq(Frames) /\ Follows(events, events', 1, linkUp)
           /\ events[1] = Head(events) /\ Head(events) \in Frames /\ 1 \in 1 .. Len(events)
  BY FollowsRead DEF TypeOK, CtlTypeOK, Consume

\* A step that leaves the queue alone.
LEMMA QueueKept ==
    ASSUME TypeOK, UNCHANGED events
    PROVE  events' \in Seq(Frames) /\ Follows(events, events', 0, linkUp)
  BY FollowsSame DEF TypeOK, CtlTypeOK

\* The cancel: one answer, or two.
LEMMA CancelRaises ==
    ASSUME TypeOK, CtlCancel
    PROVE  events' \in Seq(Frames) /\ Follows(events, events', 0, linkUp)
  <1>1. events \in Seq(Frames) /\ 0 \in Handles
    BY ControllerAssumption DEF ControllerAssumption, TypeOK, CtlTypeOK
  <1>2. {"cancelDone", "connFail"} \subseteq Added(linkUp) \cap EventKinds
    BY DEF Added, PlainKinds, EventKinds
  <1>3. CASE pending = "none"
    BY <1>3, Raised DEF CtlCancel, PlainKinds, EventKinds
  <1>4. CASE pending # "none"
    <2>1. Frame("cancelDone") \in Frames /\ Frame("cancelDone").kind = "cancelDone"
      BY <1>2, FrameTypes
    <2>2. ConnFrame("connFail", 0) \in Frames /\ ConnFrame("connFail", 0).kind = "connFail"
      BY <1>1, <1>2, <1>4, FrameTypes
    <2>3. events' = events \o <<Frame("cancelDone"), ConnFrame("connFail", 0)>>
      BY <1>4 DEF CtlCancel, Raise
    <2> QED
      BY <1>1, <1>2, <2>1, <2>2, <2>3, FollowsAddTwo
  <1> QED
    BY <1>3, <1>4

-----------------------------------------------------------------------------
(* The steps, by what they do to the queue *)

Reads == DrainRead \/ AwaitConn \/ Pairing \/ Encryption \/ Att \/ ReportFrame \/ ReportLost
Keeps == \/ Signal \/ StartUp \/ ScanFailed \/ StopLoop \/ DrainTimeout \/ CreateConn
         \/ Timeout \/ ReportStop \/ Finished
Device(A) == A /\ UNCHANGED sessVars

\* Every step is of one of these kinds.
LEMMA StepKinds ==
    ASSUME [Next]_vars
    PROVE  \/ Reads \/ Keeps \/ UNCHANGED vars \/ ScanFound \/ StartSession
           \/ Device(CtlCommand) \/ Device(CtlConnected) \/ Device(CtlConnectFailed)
           \/ Device(CtlLinkLost) \/ Device(CtlEncrypted) \/ Device(PeerAnswer)
           \/ Device(PeerSpeaks) \/ Device(Unplug)
  <1>1. Next => Signal \/ DaemonStep \/ Timeout \/ Device(CtlNext) \/ Finished
    BY DEF Next, Device
  <1>2. DaemonStep => Reads \/ Keeps \/ ScanFound \/ StartSession
    BY DEF DaemonStep, Reads, Keeps, Report
  <1> QED
    BY <1>1, <1>2 DEF CtlNext, Device, Keeps

\* A step that reads takes the first frame away.
LEMMA ReadStep ==
    ASSUME Reads
    PROVE  events # <<>> /\ Consume
  <1> USE DEF HeadIs, Mine, Ignored, Abandon
  <1>1. CASE DrainRead \/ AwaitConn
    BY <1>1 DEF DrainRead, AwaitConn, ConnComplete, ConnRefused, ConnOther
  <1>2. CASE Pairing
    BY <1>2 DEF Pairing, PairingResponse, SecurityRequest, PairingRefused, SlaveConfirm,
                ConfirmRefused, SlaveRandom, Verified, RandomRefused, SmpOther
  <1>3. CASE Encryption
    BY <1>3 DEF Encryption, EncryptionOn, LtkRequest, EncryptionLost, EncryptionOther
  <1>4. CASE Att
    BY <1>4 DEF Att, MtuDone, SvcDone, CharFrame, CharEnd, CharLost, CccdDone, AttOther
  <1>5. CASE ReportFrame \/ ReportLost
    BY <1>5 DEF ReportFrame, ReportLost
  <1> QED
    BY <1>1, <1>2, <1>3, <1>4, <1>5 DEF Reads

\* A step that keeps the queue leaves the controller alone, but for a command.
LEMMA KeepStep ==
    ASSUME Keeps
    PROVE  UNCHANGED <<events, chip>>
  <1> USE DEF Leave, GiveUp, ctlVars, chip, wire
  <1>1. CASE Signal \/ StartUp
    BY <1>1 DEF Signal, StartUp, RunPreflight, GuardRefuses, BadAddress, UsbPrepFails, Prepared,
                OpenFails, OpenOk, InitFails, InitOk
  <1>2. CASE ScanFailed \/ StopLoop \/ DrainTimeout \/ CreateConn \/ ReportStop \/ Finished
    BY <1>2 DEF ScanFailed, StopLoop, DrainTimeout, CreateConn, ReportStop, Finished, vars
  <1>3. CASE Timeout
    BY <1>3 DEF Timeout, ConnTimeout, PresTimeout, Pres2Timeout, ConfTimeout, RandTimeout,
                EncTimeout, MtuTimeout, SvcTimeout, CharTimeout, CccdTimeout
  <1> QED
    BY <1>1, <1>2, <1>3 DEF Keeps

\* A step that reads leaves the controller alone, but for the key.
LEMMA ReadWire ==
    ASSUME Reads
    PROVE  /\ UNCHANGED wire
           /\ UNCHANGED sharedKey \/ SlaveRandom
  <1> USE DEF HeadIs, Mine, Ignored, Abandon, chip
  <1>1. CASE DrainRead \/ AwaitConn
    BY <1>1 DEF DrainRead, AwaitConn, ConnComplete, ConnRefused, ConnOther
  <1>2. CASE Pairing
    BY <1>2 DEF Pairing, PairingResponse, SecurityRequest, PairingRefused, SlaveConfirm,
                ConfirmRefused, SlaveRandom, RandomRefused, SmpOther
  <1>3. CASE Encryption
    BY <1>3 DEF Encryption, EncryptionOn, LtkRequest, EncryptionLost, EncryptionOther
  <1>4. CASE Att
    BY <1>4 DEF Att, MtuDone, SvcDone, CharFrame, CharEnd, CharLost, CccdDone, AttOther
  <1>5. CASE ReportFrame \/ ReportLost
    BY <1>5 DEF ReportFrame, ReportLost
  <1> QED
    BY <1>1, <1>2, <1>3, <1>4, <1>5 DEF Reads

-----------------------------------------------------------------------------
(* TypeOK is inductive, with the bound on the drain *)

SessTypeOK ==
    /\ args \in ArgSets /\ pc \in Points
    /\ running \in BOOLEAN /\ didCancel \in BOOLEAN
    /\ connHandle \in Handles
    /\ drained \in 0 .. DrainMax

DrainInv == pc = "drain" => drained < DrainMax

\* Every step keeps the types of the daemon's variables.
LEMMA SessTypeStep ==
    ASSUME TypeOK, DrainInv, [Next]_vars
    PROVE  SessTypeOK' /\ DrainInv'
  <1>1. /\ SessTypeOK /\ DrainMax \in Nat \ {0} /\ 0 \in Handles
        /\ events # <<>> => Head(events) \in Frames
    BY Sw2dAssumption, ControllerAssumption, HeadTailProperties
       DEF Sw2dAssumption, ControllerAssumption, SessTypeOK, TypeOK, CtlTypeOK
  <1> USE <1>1 DEF SessTypeOK, DrainInv, Points, TimedWaits, PairingWaits, AttWaits, quiet
  <1> USE DEF HeadIs, Mine, Ignored, Abandon, GiveUp, Leave, SendAcl
  <1>2. CASE DrainRead
    BY <1>2 DEF DrainRead
  <1>3. CASE AwaitConn
    BY <1>3 DEF AwaitConn, ConnComplete, ConnRefused, ConnOther, Frames
  <1>4. CASE Pairing
    BY <1>4 DEF Pairing, PairingResponse, SecurityRequest, PairingRefused, SlaveConfirm,
                ConfirmRefused, SlaveRandom, RandomRefused, SmpOther
  <1>5. CASE Encryption
    BY <1>5 DEF Encryption, EncryptionOn, LtkRequest, EncryptionLost, EncryptionOther
  <1>6. CASE Att
    BY <1>6 DEF Att, MtuDone, SvcDone, CharFrame, CharEnd, CharLost, CccdDone, AttOther
  <1>7. CASE ReportFrame \/ ReportLost \/ ReportStop
    BY <1>7 DEF ReportFrame, ReportLost, ReportStop
  <1>8. CASE Signal \/ StartUp
    BY <1>8 DEF Signal, StartUp, RunPreflight, GuardRefuses, BadAddress, UsbPrepFails, Prepared,
                OpenFails, OpenOk, InitFails, InitOk
  <1>9. CASE ScanFound \/ ScanFailed \/ StopLoop \/ DrainTimeout \/ CreateConn \/ Finished
    BY <1>9 DEF ScanFound, ScanFailed, StopLoop, DrainTimeout, CreateConn, Finished, vars, sessVars
  <1>10. CASE Timeout
    BY <1>10 DEF Timeout, ConnTimeout, PresTimeout, Pres2Timeout, ConfTimeout, RandTimeout,
                EncTimeout, MtuTimeout, SvcTimeout, CharTimeout, CccdTimeout
  <1>11. CASE StartSession
    BY <1>11 DEF StartSession, BeginSession
  <1>12. CASE UNCHANGED sessVars
    BY <1>12 DEF sessVars
  <1> QED
    BY <1>2, <1>3, <1>4, <1>5, <1>6, <1>7, <1>8, <1>9, <1>10, <1>11, <1>12, StepKinds
    DEF Reads, Keeps, Device, vars

EncStarts == CtlEncrypted /\ sharedKey /\ enc' = "on" /\ Raise(<<LinkFrame("encOk")>>)

\* Every step but three moves the queue as Follows says.
LEMMA QueueMoves ==
    ASSUME TypeOK, DeviceInv, [Next]_vars
    PROVE  \/ Reads /\ Follows(events, events', 1, linkUp) /\ events' \in Seq(Frames)
           \/ Follows(events, events', 0, linkUp) /\ events' \in Seq(Frames)
           \/ Device(CtlConnected) \/ Device(CtlLinkLost) \/ Device(EncStarts)
  <1>1. CASE Reads
    BY <1>1, ReadStep, QueueRead
  <1>2. CASE Keeps \/ UNCHANGED vars \/ Device(Unplug)
    BY <1>2, KeepStep, QueueKept DEF Device, Unplug, vars, ctlVars
  <1>3. CASE ScanFound \/ Device(PeerSpeaks)
    BY <1>3, Raised DEF ScanFound, Device, PeerSpeaks, PlainKinds, SmpKinds, AttKinds, EventKinds
  <1>4. CASE StartSession
    BY <1>4, FollowsAged DEF StartSession, BeginSession, TypeOK, CtlTypeOK
  <1>5. CASE Device(CtlCommand)
    BY <1>5, CancelRaises, Raised
    DEF Device, CtlCommand, CtlCreate, CtlStartEnc, CtlLtkReply, PlainKinds, EventKinds
  <1>6. CASE Device(CtlConnectFailed)
    BY <1>6, Raised DEF Device, CtlConnectFailed, PlainKinds, EventKinds
  <1>7. CASE Device(CtlEncrypted)
    BY <1>7, Raised DEF Device, CtlEncrypted, EncStarts, PlainKinds, EventKinds
  <1>8. CASE Device(PeerAnswer)
    <2>1. PICK r \in owed : \E k \in Answers(r) : Raise(<<LinkFrame(k)>>)
      BY <1>8 DEF Device, PeerAnswer
    <2>2. PICK k \in Answers(r) : Raise(<<LinkFrame(k)>>)
      BY <2>1
    <2>3. linkUp /\ r \in Requests /\ events \in Seq(Frames)
      BY DEF DeviceInv, TypeOK, CtlTypeOK
    <2>4. k \in Added(linkUp) /\ k \in SmpKinds \cup AttKinds
      BY <2>3, AnswerKinds DEF Added
    <2>5. LinkFrame(k) \in Frames /\ LinkFrame(k).kind = k
      BY <2>4, FrameTypes
    <2> QED
      BY <2>2, <2>3, <2>4, <2>5, FollowsAddOne DEF Raise
  <1> QED
    BY <1>1, <1>2, <1>3, <1>4, <1>5, <1>6, <1>7, <1>8, StepKinds

\* The three others.
LEMMA QueueConnected ==
    ASSUME TypeOK, CtlConnected
    PROVE  \E f \in Frames : /\ f.kind = "connOk" /\ f.h = linkHandle' /\ linkHandle' \in Handles
                             /\ events' \in Seq(Frames) /\ Longer(events, events', f)
                             /\ \A i \in 1 .. Len(events) : events'[i] = events[i]
  <1>1. PICK h \in Handles : linkHandle' = h /\ Raise(<<ConnFrame("connOk", h)>>)
    BY DEF CtlConnected
  <1>2. /\ ConnFrame("connOk", h) \in Frames
        /\ ConnFrame("connOk", h).kind = "connOk" /\ ConnFrame("connOk", h).h = h
    BY FrameTypes DEF CtlConnected, EventKinds
  <1>3. events \in Seq(Frames) /\ events' = events \o <<ConnFrame("connOk", h)>>
    BY <1>1 DEF TypeOK, CtlTypeOK, Raise
  <1> QED
    BY <1>1, <1>2, <1>3, AddedOne DEF Longer

\* Encryption starts: one Encryption Change more.
LEMMA QueueEncrypted ==
    ASSUME TypeOK, EncStarts
    PROVE  \E f \in Frames : /\ f.kind = "encOk"
                             /\ events' \in Seq(Frames) /\ Longer(events, events', f)
                             /\ \A i \in 1 .. Len(events) : events'[i] = events[i]
  <1>1. LinkFrame("encOk") \in Frames /\ LinkFrame("encOk").kind = "encOk"
    BY FrameTypes DEF EventKinds
  <1>2. events \in Seq(Frames) /\ events' = events \o <<LinkFrame("encOk")>>
    BY DEF TypeOK, CtlTypeOK, EncStarts, Raise
  <1> QED
    BY <1>1, <1>2, AddedOne DEF Longer

\* A link is lost: one disconnect more, and no Random stays usable.
LEMMA QueueLost ==
    ASSUME TypeOK, CtlLinkLost
    PROVE  \E f \in Frames : /\ f.kind = "disconn"
                             /\ events' \in Seq(Frames) /\ Longer(events, events', f)
                             /\ \A i \in 1 .. Len(events) :
                                  events[i].kind = "randGood" => events'[i].age = "old"
  <1> DEFINE q == [i \in DOMAIN events |-> Outlived(events[i])]
             f == LinkFrame("disconn")
  <1>1. f \in Frames /\ f.kind = "disconn"
    BY FrameTypes DEF EventKinds
  <1>2. events \in Seq(Frames) /\ events' = Append(q, f)
    BY DEF TypeOK, CtlTypeOK, CtlLinkLost
  <1>3. /\ q \in Seq(Frames) /\ Len(q) = Len(events)
        /\ \A i \in 1 .. Len(events) : /\ q[i].kind = events[i].kind
                                       /\ events[i].kind = "randGood" => q[i].age = "old"
    BY <1>2, OutlivedSeq
  <1> HIDE DEF q, f
  <1>4. /\ events' \in Seq(Frames) /\ Len(events') = Len(q) + 1
        /\ \A i \in 1 .. Len(q) : events'[i] = q[i]
        /\ events'[Len(q) + 1] = f
    BY <1>1, <1>2, <1>3, AddedOne
  <1> QED
    BY <1>1, <1>3, <1>4 DEF Longer

\* The queue holds frames.
LEMMA EventsType ==
    ASSUME TypeOK, DeviceInv, [Next]_vars
    PROVE  events' \in Seq(Frames)
  BY QueueMoves, QueueConnected, QueueEncrypted, QueueLost DEF Device

\* What a daemon step may put on its way.
LEMMA DaemonSends ==
    ASSUME TypeOK, Reads \/ Keeps \/ ScanFound
    PROVE  /\ owed' \subseteq Requests /\ (~linkUp => owed' = owed)
           /\ \/ cmds' = cmds
              \/ ~Dead /\ \E c \in Commands : cmds' = Append(cmds, c)
  <1>1. owed \subseteq Requests
    BY DEF TypeOK, CtlTypeOK
  <1> USE <1>1 DEF HeadIs, Mine, Ignored, Abandon, GiveUp, Leave, SendAcl, SendCmd, Requests, Commands,
                   chip, ctlVars
  <1>2. CASE DrainRead \/ AwaitConn
    BY <1>2 DEF DrainRead, AwaitConn, ConnComplete, ConnRefused, ConnOther
  <1>3. CASE Pairing
    BY <1>3 DEF Pairing, PairingResponse, SecurityRequest, PairingRefused, SlaveConfirm,
                ConfirmRefused, SlaveRandom, RandomRefused, SmpOther
  <1>4. CASE Encryption
    BY <1>4 DEF Encryption, EncryptionOn, LtkRequest, EncryptionLost, EncryptionOther
  <1>5. CASE Att
    BY <1>5 DEF Att, MtuDone, SvcDone, CharFrame, CharEnd, CharLost, CccdDone, AttOther
  <1>6. CASE ReportFrame \/ ReportLost \/ ReportStop
    BY <1>6 DEF ReportFrame, ReportLost, ReportStop
  <1>7. CASE Signal \/ StartUp
    BY <1>7 DEF Signal, StartUp, RunPreflight, GuardRefuses, BadAddress, UsbPrepFails, Prepared,
                OpenFails, OpenOk, InitFails, InitOk
  <1>8. CASE ScanFound \/ ScanFailed \/ StopLoop \/ DrainTimeout \/ CreateConn \/ Finished
    BY <1>8 DEF ScanFound, ScanFailed, StopLoop, DrainTimeout, CreateConn, Finished, vars
  <1>9. CASE Timeout
    BY <1>9 DEF Timeout, ConnTimeout, PresTimeout, Pres2Timeout, ConfTimeout, RandTimeout,
                EncTimeout, MtuTimeout, SvcTimeout, CharTimeout, CccdTimeout
  <1> QED
    BY <1>2, <1>3, <1>4, <1>5, <1>6, <1>7, <1>8, <1>9 DEF Reads, Keeps

\* The controller's own variables, the queue apart.
LEMMA DeviceStep ==
    ASSUME TypeOK, DeviceInv, [Next]_vars
    PROVE  CtlTypeOK' /\ DeviceInv'
  <1>1. /\ events' \in Seq(Frames) /\ 0 \in Handles
        /\ cmds \in Seq(Commands) /\ linkHandle \in Handles /\ owed \subseteq Requests
        /\ linkUp \in BOOLEAN /\ notifying \in BOOLEAN /\ sharedKey \in BOOLEAN
        /\ transport \in {"up", "dead"} /\ pending \in {"this", "old", "none"}
        /\ enc \in {"off", "starting", "ltk", "keyed", "on"}
    BY EventsType, ControllerAssumption DEF ControllerAssumption, TypeOK, CtlTypeOK, Ages
  <1>2. /\ cmds # <<>> => Tail(cmds) \in Seq(Commands)
        /\ <<>> \in Seq(Commands) /\ <<"cancel">> \in Seq(Commands)
    <2>1. "cancel" \in Commands
      BY DEF Commands
    <2> QED
      BY <1>1, <2>1, HeadTailProperties, EmptySeq
  <1> USE <1>1, <1>2 DEF CtlTypeOK, DeviceInv, Dead, Ages
  <1>3. CASE Reads \/ Keeps \/ ScanFound
    <2>1. UNCHANGED wire
      BY <1>3, ReadWire, KeepStep DEF ScanFound, chip
    <2>2. sharedKey' \in BOOLEAN /\ (~linkUp => ~sharedKey')
      <3>1. UNCHANGED sharedKey \/ SlaveRandom
        BY <1>3, ReadWire, KeepStep DEF ScanFound, chip
      <3>2. CASE SlaveRandom
        BY <3>2, Truth, Zenon DEF SlaveRandom
      <3> QED
        BY <3>1, <3>2
    <2>3. cmds' \in Seq(Commands) /\ (Dead => cmds' = cmds)
      BY <1>3, DaemonSends
    <2>4. owed' \subseteq Requests /\ (~linkUp => owed' = owed)
      BY <1>3, DaemonSends
    <2> QED
      BY <2>1, <2>2, <2>3, <2>4 DEF wire
  <1>4. CASE UNCHANGED vars
    BY <1>4 DEF vars, ctlVars
  <1>5. CASE StartSession
    <2>1. cmds' \in Seq(Commands) /\ (Dead => cmds' = cmds)
      BY <1>5 DEF StartSession
    <2>2. pending' \in {"this", "old", "none"} /\ (pending = "none" => pending' = "none")
      BY <1>5 DEF StartSession, BeginSession
    <2>3. UNCHANGED <<transport, linkUp, linkHandle, enc, sharedKey, notifying, owed>>
      BY <1>5 DEF StartSession
    <2> QED
      BY <2>1, <2>2, <2>3
  <1>6. CASE Device(CtlCommand)
    <2>1. /\ ~Dead /\ cmds' \in Seq(Commands)
          /\ UNCHANGED <<transport, linkUp, linkHandle, sharedKey, notifying, owed>>
      BY <1>6 DEF Device, CtlCommand, CtlCancel, CtlCreate, CtlStartEnc, CtlLtkReply
    <2>2. pending' \in {"this", "old", "none"} /\ (linkUp => pending' = "none")
      BY <1>6 DEF Device, CtlCommand, CtlCancel, CtlCreate, CtlStartEnc, CtlLtkReply
    <2>3. enc' \in {"off", "starting", "ltk", "keyed", "on"} /\ (~linkUp => enc' = "off")
      BY <1>6 DEF Device, CtlCommand, CtlCancel, CtlCreate, CtlStartEnc, CtlLtkReply
    <2> QED
      BY <2>1, <2>2, <2>3
  <1>7. CASE Device(CtlConnected) \/ Device(CtlConnectFailed)
    <2>1. /\ ~Dead /\ ~linkUp /\ pending' = "none" /\ linkHandle' \in Handles
          /\ linkUp' = TRUE \/ linkUp' = linkUp
          /\ UNCHANGED <<transport, enc, sharedKey, owed, notifying, cmds>>
      BY <1>7 DEF Device, CtlConnected, CtlConnectFailed
    <2> QED
      BY <2>1
  <1>8. CASE Device(CtlLinkLost) \/ Device(Unplug)
    <2>1. /\ linkUp' = FALSE /\ linkHandle' = 0 /\ enc' = "off" /\ owed' = {}
          /\ sharedKey' = FALSE /\ notifying' = FALSE
          /\ pending' = "none"
          /\ \/ ~Dead /\ UNCHANGED <<transport, cmds>>
             \/ transport' = "dead" /\ cmds' = <<>>
      BY <1>8 DEF Device, CtlLinkLost, Unplug
    <2> QED
      BY <2>1
  <1>9. CASE Device(CtlEncrypted) \/ Device(PeerSpeaks)
    BY <1>9 DEF Device, CtlEncrypted, PeerSpeaks
  <1>10. CASE Device(PeerAnswer)
    <2>1. PICK r \in owed : owed' = owed \ {r} /\ \E k \in Answers(r) :
                              notifying' = (notifying \/ (r = "cccd" /\ k = "attRsp"))
      BY <1>10 DEF Device, PeerAnswer
    <2>2. notifying' \in BOOLEAN
      BY <2>1, Truth, Zenon
    <2>3. UNCHANGED <<transport, pending, linkUp, linkHandle, enc, sharedKey, cmds>>
      BY <1>10 DEF Device, PeerAnswer
    <2> QED
      BY <2>1, <2>2, <2>3
  <1> QED
    BY <1>3, <1>4, <1>5, <1>6, <1>7, <1>8, <1>9, <1>10, StepKinds

-----------------------------------------------------------------------------
(* Commands and did_cancel *)

\* Sequences of commands to encrypt.
LEMMA EncSeqs ==
    /\ <<>> \in Seq(EncCommands)
    /\ \A s \in Seq(EncCommands) : s # <<>> => Head(s) \in EncCommands /\ Tail(s) \in Seq(EncCommands)
    /\ \A s \in Seq(EncCommands) : \A c \in EncCommands : Append(s, c) \in Seq(EncCommands)
  BY HeadTailProperties, EmptySeq

\* The sequences with cancel and create.
LEMMA ShortSeqs ==
    /\ Head(<<"cancel">>) = "cancel" /\ Tail(<<"cancel">>) = <<>>
    /\ Head(<<"create">>) = "create" /\ Tail(<<"create">>) = <<>>
    /\ Head(<<"cancel", "create">>) = "cancel" /\ Tail(<<"cancel", "create">>) = <<"create">>
    /\ Append(<<>>, "create") = <<"create">> /\ Append(<<"cancel">>, "create") = <<"cancel", "create">>
    /\ <<"cancel">> # <<>> /\ <<"create">> # <<>> /\ <<"cancel", "create">> # <<>>
  <1>1. /\ Head(<<"cancel">>) = "cancel" /\ Head(<<"create">>) = "create"
        /\ Head(<<"cancel", "create">>) = "cancel"
    OBVIOUS
  <1>2. Tail(<<"cancel">>) = <<>> /\ Tail(<<"create">>) = <<>>
    OBVIOUS
  <1>3. Tail(<<"cancel", "create">>) = <<"create">>
    OBVIOUS
  <1>4. Append(<<>>, "create") = <<"create">>
    OBVIOUS
  <1>5. Append(<<"cancel">>, "create") = <<"cancel", "create">>
    <2> DEFINE s == Append(<<"cancel">>, "create")
               t == <<"cancel", "create">>
    <2>1. <<"cancel">> \in Seq(Commands) /\ "create" \in Commands /\ Len(<<"cancel">>) = 1
      BY DEF Commands
    <2>2. s \in Seq(Commands) /\ Len(s) = 2
      BY <2>1, AppendProperties
    <2>3. t \in Seq(Commands) /\ Len(t) = 2
      BY DEF Commands
    <2>4. s[1] = "cancel" /\ s[2] = "create" /\ t[1] = "cancel" /\ t[2] = "create"
      OBVIOUS
    <2> HIDE DEF s, t
    <2>5. s = t
      BY <2>2, <2>4, <2>3, SeqEqual
    <2> QED
      BY <2>5 DEF s, t
  <1>6. <<"cancel">> # <<>> /\ <<"create">> # <<>> /\ <<"cancel", "create">> # <<>>
    OBVIOUS
  <1> QED
    BY <1>1, <1>2, <1>3, <1>4, <1>5, <1>6

\* The parts of CommandsInv and CancelInv, as facts about any state.
CommandShape(c, p) ==
    \/ c \in Seq(EncCommands)
    \/ c = <<"cancel">>
    \/ c = <<"create">> /\ p = "none"
    \/ c = <<"cancel", "create">>

\* Taking a command from a queue of that shape.
LEMMA ShapeTaken ==
    ASSUME NEW c, NEW p, CommandShape(c, p), c # <<>>
    PROVE  /\ Head(c) = "cancel" => CommandShape(Tail(c), "none")
           /\ Head(c) = "create" => p = "none" /\ Tail(c) = <<>> /\ CommandShape(Tail(c), "this")
           /\ Head(c) \in EncCommands => Tail(c) \in Seq(EncCommands) /\ CommandShape(Tail(c), p)
           /\ c \in Seq(EncCommands) => Head(c) \in EncCommands /\ Tail(c) \in Seq(EncCommands)
           /\ c = <<"cancel">> => Head(c) = "cancel" /\ Tail(c) = <<>>
  BY EncSeqs, ShortSeqs DEF CommandShape, EncCommands

\* The controller takes commands and keeps CommandsInv.
LEMMA CommandsOfDevice ==
    ASSUME TypeOK, DeviceInv, CommandsInv, CancelInv,
           \/ Device(CtlCommand) \/ Device(CtlConnected) \/ Device(CtlConnectFailed)
           \/ Device(CtlLinkLost) \/ Device(CtlEncrypted) \/ Device(PeerAnswer)
           \/ Device(PeerSpeaks) \/ Device(Unplug)
    PROVE  CommandsInv'
  <1>1. UNCHANGED pc
    BY DEF Device, sessVars
  <1>2. CommandShape(cmds, pending)
    BY DEF CommandShape, CommandsInv
  <1>3. CASE Device(CtlCancel)
    <2>1. /\ cmds # <<>> /\ Head(cmds) = "cancel" /\ cmds' = Tail(cmds) /\ pending' = "none"
      BY <1>3 DEF Device, CtlCancel
    <2>2. CommandShape(cmds', pending') /\ (cmds = <<"cancel">> => cmds' = <<>>)
          /\ (cmds \in Seq(EncCommands) => cmds' \in Seq(EncCommands))
      BY <1>2, <2>1, ShapeTaken
    <2> QED
      BY <1>1, <2>1, <2>2 DEF CommandsInv, CommandShape
  <1>4. CASE Device(CtlCreate)
    <2>1. /\ cmds # <<>> /\ Head(cmds) = "create" /\ cmds' = Tail(cmds) /\ pending' \in {"this", "none"}
      <3>1. /\ cmds # <<>> /\ Head(cmds) = "create" /\ cmds' = Tail(cmds)
            /\ pending' = IF pending = "none" /\ ~linkUp THEN "this" ELSE pending
        BY <1>4 DEF Device, CtlCreate
      <3>2. pending = "none"
        BY <1>2, <3>1, ShapeTaken
      <3> QED
        BY <3>1, <3>2
    <2>2. /\ cmds' = <<>> /\ cmds # <<"cancel">>
          /\ ~(cmds \in Seq(EncCommands))
      BY <1>2, <2>1, ShapeTaken, ShortSeqs DEF EncCommands
    <2> QED
      BY <1>1, <2>1, <2>2, EncSeqs DEF CommandsInv
  <1>5. CASE Device(CtlStartEnc) \/ Device(CtlLtkReply)
    <2>1. /\ cmds # <<>> /\ Head(cmds) \in EncCommands /\ cmds' = Tail(cmds) /\ pending' = pending
      BY <1>5 DEF Device, CtlStartEnc, CtlLtkReply, EncCommands
    <2>2. /\ cmds' \in Seq(EncCommands) /\ cmds # <<"cancel">>
      BY <1>2, <2>1, ShapeTaken, ShortSeqs DEF EncCommands
    <2> QED
      BY <1>1, <2>1, <2>2 DEF CommandsInv
  <1>6. CASE Device(CtlConnected) \/ Device(CtlConnectFailed)
    <2>1. cmds' = cmds /\ pending' = "none"
      BY <1>6 DEF Device, CtlConnected, CtlConnectFailed
    <2> QED
      BY <1>1, <2>1 DEF CommandsInv
  <1>7. CASE Device(CtlLinkLost) \/ Device(CtlEncrypted) \/ Device(PeerAnswer) \/ Device(PeerSpeaks)
    <2>1. cmds' = cmds /\ pending' = pending
      BY <1>7 DEF Device, CtlLinkLost, CtlEncrypted, PeerAnswer, PeerSpeaks
    <2> QED
      BY <1>1, <2>1 DEF CommandsInv
  <1>8. CASE Device(Unplug)
    <2>1. cmds' = <<>> /\ pending' = "none"
      BY <1>8 DEF Device, Unplug
    <2> QED
      BY <1>1, <2>1, EncSeqs DEF CommandsInv
  <1> QED
    BY <1>3, <1>4, <1>5, <1>6, <1>7, <1>8 DEF Device, CtlCommand

\* The daemon moves from wait to wait with nothing new on its way, but for these steps.
Sends == CreateConn \/ SlaveRandom \/ LtkRequest

\* A step of the daemon that sends none.
LEMMA CommandsKept ==
    ASSUME TypeOK, CommandsInv, Reads \/ Keeps \/ ScanFound, ~Sends
    PROVE  /\ UNCHANGED <<cmds, pending>>
           /\ pc' \in {"drain", "create"} => pc = pc' \/ pc = "drain"
           /\ pc' \in PairingWaits \cup AttWaits \cup {"report"} =>
                pc \in PairingWaits \cup AttWaits \cup {"report"} \/ cmds = <<>>
  <1> USE DEF HeadIs, Mine, Ignored, Abandon, GiveUp, Leave, SendAcl, chip, wire, ctlVars, quiet,
              PairingWaits, AttWaits, Sends
  <1>1. CASE DrainRead \/ AwaitConn
    BY <1>1 DEF DrainRead, AwaitConn, ConnComplete, ConnRefused, ConnOther
  <1>2. CASE Pairing
    BY <1>2 DEF Pairing, PairingResponse, SecurityRequest, PairingRefused, SlaveConfirm,
                ConfirmRefused, RandomRefused, SmpOther
  <1>3. CASE Encryption
    BY <1>3 DEF Encryption, EncryptionOn, EncryptionLost, EncryptionOther
  <1>4. CASE Att
    BY <1>4 DEF Att, MtuDone, SvcDone, CharFrame, CharEnd, CharLost, CccdDone, AttOther
  <1>5. CASE ReportFrame \/ ReportLost \/ ReportStop
    BY <1>5 DEF ReportFrame, ReportLost, ReportStop
  <1>6. CASE Signal \/ StartUp
    BY <1>6 DEF Signal, StartUp, RunPreflight, GuardRefuses, BadAddress, UsbPrepFails, Prepared,
                OpenFails, OpenOk, InitFails, InitOk
  <1>7. CASE ScanFound \/ ScanFailed \/ StopLoop \/ DrainTimeout \/ Finished
    BY <1>7 DEF ScanFound, ScanFailed, StopLoop, DrainTimeout, Finished, vars, sessVars
  <1>8. CASE Timeout
    BY <1>8 DEF Timeout, ConnTimeout, PresTimeout, Pres2Timeout, ConfTimeout, RandTimeout,
                EncTimeout, MtuTimeout, SvcTimeout, CharTimeout, CccdTimeout
  <1> QED
    BY <1>1, <1>2, <1>3, <1>4, <1>5, <1>6, <1>7, <1>8 DEF Reads, Keeps

\* Every step keeps CommandsInv.
LEMMA CommandsStep ==
    ASSUME TypeOK, DeviceInv, CommandsInv, CancelInv, [Next]_vars
    PROVE  CommandsInv'
  <1>1. CASE (Reads \/ Keeps \/ ScanFound) /\ ~Sends
    <2>1. /\ UNCHANGED <<cmds, pending>>
          /\ pc' \in {"drain", "create"} => pc \in {"drain", "create"}
          /\ pc' \in PairingWaits \cup AttWaits \cup {"report"} =>
               pc \in PairingWaits \cup AttWaits \cup {"report"} \/ cmds = <<>>
      BY <1>1, CommandsKept
    <2> QED
      BY <2>1, EncSeqs DEF CommandsInv
  <1>2. CASE CreateConn
    <2>1. /\ pending' = pending /\ pc' \in {"loop", "awaitConn"}
          /\ cmds = <<"cancel">> \/ (cmds = <<>> /\ pending = "none")
          /\ cmds' = cmds \/ cmds' = Append(cmds, "create")
      BY <1>2 DEF CreateConn, SendCmd, chip, wire, CommandsInv
    <2> QED
      BY <2>1, ShortSeqs, EncSeqs DEF CommandsInv, PairingWaits, AttWaits
  <1>3. CASE SlaveRandom \/ LtkRequest
    <2>1. /\ pc' \in {"loop", "awaitEnc"} /\ cmds \in Seq(EncCommands)
          /\ cmds' = cmds \/ cmds' = Append(cmds, "startEnc") \/ cmds' = Append(cmds, "ltkReply")
      BY <1>3 DEF SlaveRandom, LtkRequest, SendCmd, CommandsInv, PairingWaits
    <2>2. cmds' \in Seq(EncCommands)
      BY <2>1, EncSeqs DEF EncCommands
    <2> QED
      BY <2>1, <2>2 DEF CommandsInv
  <1>4. CASE UNCHANGED vars
    BY <1>4 DEF vars, sessVars, ctlVars, CommandsInv
  <1>5. CASE StartSession
    <2>1. /\ pc = "loop" /\ running /\ cmds = <<>>
          /\ pending = "none" => pending' = "none"
          /\ \/ pc' = "drain" /\ cmds' = <<"cancel">>
             \/ pc' = "create" /\ cmds' = <<>> /\ (~didCancel \/ Dead)
      BY <1>5 DEF StartSession, BeginSession
    <2>2. ~didCancel \/ Dead => pending = "none"
      BY <2>1 DEF CancelInv, DeviceInv
    <2> QED
      BY <2>1, <2>2, EncSeqs DEF CommandsInv, PairingWaits, AttWaits
  <1> QED
    BY <1>1, <1>2, <1>3, <1>4, <1>5, CommandsOfDevice, StepKinds DEF Sends

\* How the daemon comes to a wait, and how it comes back to the loop.
LEMMA PointsReached ==
    ASSUME TypeOK, Reads \/ Keeps \/ ScanFound
    PROVE  /\ pc' \in EarlyPoints => pc \in EarlyPoints
           /\ pc' \in Attempting => pc \in Attempting /\ didCancel' = didCancel
           /\ pc' = "loop" =>
                \/ pc = "loop" /\ didCancel' = didCancel
                \/ pc \in EarlyPoints
                \/ pc \in Attempting /\ didCancel' = didCancel
                \/ pc \in {"awaitChar", "report"} /\ HeadIs({"disconn"})
                \/ pc \in {"awaitEnc"} \cup AttWaits /\ Dead
                \/ ~running
           /\ running' => running
  <1> USE DEF Ignored, Abandon, GiveUp, Leave, SendAcl, quiet,
              PairingWaits, AttWaits, EarlyPoints, Attempting
  <1>1. CASE DrainRead \/ AwaitConn
    BY <1>1 DEF DrainRead, AwaitConn, ConnComplete, ConnRefused, ConnOther
  <1>2. CASE Pairing
    BY <1>2 DEF Pairing, PairingResponse, SecurityRequest, PairingRefused, SlaveConfirm,
                ConfirmRefused, SlaveRandom, RandomRefused, SmpOther
  <1>3. CASE Encryption
    BY <1>3 DEF Encryption, EncryptionOn, LtkRequest, EncryptionLost, EncryptionOther
  <1>4. CASE Att
    BY <1>4 DEF Att, MtuDone, SvcDone, CharFrame, CharEnd, CharLost, CccdDone, AttOther
  <1>5. CASE ReportFrame \/ ReportLost \/ ReportStop
    BY <1>5 DEF ReportFrame, ReportLost, ReportStop
  <1>6. CASE StartUp /\ ~InitOk
    <2>1. pc \in {"start", "open", "init"} /\ pc' \in {"exit", "open", "init"} /\ UNCHANGED quiet
      BY <1>6 DEF StartUp, Starting, RunPreflight, GuardRefuses, BadAddress, UsbPrepFails, Prepared,
                  OpenFails, OpenOk, InitFails
    <2> QED
      BY <2>1
  <1>7. CASE Signal
    BY <1>7 DEF Signal
  <1>8. CASE ScanFound \/ ScanFailed \/ StopLoop \/ DrainTimeout \/ CreateConn \/ Finished
    BY <1>8 DEF ScanFound, ScanFailed, StopLoop, DrainTimeout, CreateConn, Finished, vars, sessVars
  <1>9. CASE Timeout
    BY <1>9 DEF Timeout, ConnTimeout, PresTimeout, Pres2Timeout, ConfTimeout, RandTimeout,
                EncTimeout, MtuTimeout, SvcTimeout, CharTimeout, CccdTimeout
  <1>10. CASE InitOk
    <2>1. pc = "init" /\ pc' \in {"scan", "loop", "exit"} /\ UNCHANGED quiet
      BY <1>10 DEF InitOk
    <2> QED
      BY <2>1
  <1> QED
    BY <1>1, <1>2, <1>3, <1>4, <1>5, <1>6, <1>8, <1>9, <1>10, <1>7 DEF Reads, Keeps

\* Steps that send a command leave Attempting only on a dead transport, and stay in it.
LEMMA SendsAttempting ==
    ASSUME Sends
    PROVE  pc \in Attempting
  BY DEF Sends, CreateConn, SlaveRandom, LtkRequest, Attempting, PairingWaits

\* A device with nothing to do and no link does nothing about it.
LEMMA IdleDevice ==
    ASSUME TypeOK, DeviceInv, pending = "none", ~linkUp, cmds \in Seq(EncCommands),
           \/ Device(CtlCommand) \/ Device(CtlConnected) \/ Device(CtlConnectFailed)
           \/ Device(CtlLinkLost) \/ Device(CtlEncrypted) \/ Device(PeerAnswer)
           \/ Device(PeerSpeaks) \/ Device(Unplug)
    PROVE  /\ pending' = "none" /\ ~linkUp' /\ cmds' \in Seq(EncCommands)
           /\ cmds = <<>> => cmds' = <<>>
  <1>1. CASE Device(CtlCommand)
    <2>1. /\ cmds # <<>> /\ cmds' = Tail(cmds) /\ linkUp' = linkUp
          /\ \/ Head(cmds) \in {"cancel", "create"}
             \/ Head(cmds) \in EncCommands /\ pending' = pending
      BY <1>1 DEF Device, CtlCommand, CtlCancel, CtlCreate, CtlStartEnc, CtlLtkReply, EncCommands
    <2> QED
      BY <2>1, EncSeqs DEF EncCommands
  <1>2. CASE Device(CtlConnected) \/ Device(CtlConnectFailed) \/ Device(CtlLinkLost)
    BY <1>2 DEF Device, CtlConnected, CtlConnectFailed, CtlLinkLost
  <1>3. CASE Device(CtlEncrypted) \/ Device(PeerAnswer) \/ Device(PeerSpeaks)
    BY <1>3 DEF Device, CtlEncrypted, PeerAnswer, PeerSpeaks
  <1>4. CASE Device(Unplug)
    BY <1>4, EncSeqs DEF Device, Unplug
  <1> QED
    BY <1>1, <1>2, <1>3, <1>4

\* Every step keeps CancelInv.
LEMMA CancelStep ==
    ASSUME TypeOK, DeviceInv, CommandsInv, CancelInv, AttInv, [Next]_vars
    PROVE  CancelInv'
  <1>1. pc' = "drain" => drained' < DrainMax'
    BY SessTypeStep DEF CancelInv, DrainInv
  <1>2. CASE Reads \/ Keeps \/ ScanFound
    <2>1. UNCHANGED <<pending, linkUp>>
      BY <1>2, ReadWire, KeepStep DEF ScanFound, chip, wire
    <2>2. pc' \in EarlyPoints => cmds' = <<>> /\ pending' = "none" /\ ~linkUp'
      <3>1. ASSUME pc' \in EarlyPoints PROVE pc \in EarlyPoints /\ ~Sends
        BY <1>2, <3>1, PointsReached, SendsAttempting DEF EarlyPoints, Attempting, PairingWaits
      <3>2. ASSUME pc' \in EarlyPoints PROVE cmds' = cmds
        BY <1>2, <3>1, <3>2, CommandsKept
      <3> QED
        BY <2>1, <3>1, <3>2 DEF CancelInv
    <2>3. pc' \in Attempting => didCancel'
      BY <1>2, PointsReached DEF CancelInv
    <2>4. ASSUME pc' = "loop", ~didCancel', running'
          PROVE  pending' = "none" /\ ~linkUp' /\ cmds' \in Seq(EncCommands)
      <3>1. running /\ ~(pc \in Attempting /\ didCancel' = didCancel)
        BY <1>2, <2>4, PointsReached DEF CancelInv
      <3>2. CASE Dead
        <4>1. pending = "none" /\ ~linkUp /\ cmds' = <<>>
          BY <1>2, <3>2, DaemonSends DEF DeviceInv
        <4> QED
          BY <2>1, <4>1, EncSeqs
      <3>3. CASE pc \in EarlyPoints
        <4>1. ~Sends
          BY <3>3, SendsAttempting DEF EarlyPoints, Attempting, PairingWaits
        <4>2. cmds' = cmds /\ cmds = <<>> /\ pending = "none" /\ ~linkUp
          BY <1>2, <3>3, <4>1, CommandsKept DEF CancelInv
        <4> QED
          BY <2>1, <4>2, EncSeqs
      <3>4. CASE pc = "loop" /\ didCancel' = didCancel
        <4>1. ~Sends
          BY <3>4, SendsAttempting DEF Attempting, PairingWaits
        <4>2. cmds' = cmds /\ cmds \in Seq(EncCommands) /\ pending = "none" /\ ~linkUp
          BY <1>2, <2>4, <3>1, <3>4, <4>1, CommandsKept DEF CancelInv
        <4> QED
          BY <2>1, <4>2
      <3>5. CASE pc \in {"awaitChar", "report"} /\ HeadIs({"disconn"})
        <4>1. ~Sends
          BY <3>5, SendsAttempting DEF Attempting, PairingWaits
        <4>2. cmds' = cmds /\ cmds \in Seq(EncCommands) /\ pending = "none"
          BY <1>2, <3>5, <4>1, CommandsKept DEF CommandsInv, AttInv, AttWaits
        <4>3. ~NoEnd(events)
          <5>1. events # <<>> /\ Head(events).kind = "disconn" /\ events \in Seq(Frames)
            BY <3>5 DEF HeadIs, TypeOK, CtlTypeOK
          <5>2. events[1] = Head(events) /\ 1 \in 1 .. Len(events)
            BY <5>1, FollowsRead
          <5> QED
            BY <5>1, <5>2 DEF NoEnd
        <4> QED
          BY <2>1, <3>5, <4>2, <4>3 DEF AttInv, AttWaits
      <3> QED
        BY <1>2, <2>4, <3>1, <3>2, <3>3, <3>5, <3>4, PointsReached
    <2> QED
      BY <1>1, <2>2, <2>3, <2>4 DEF CancelInv
  <1>3. CASE UNCHANGED vars
    BY <1>3 DEF vars, sessVars, ctlVars, CancelInv
  <1>4. CASE StartSession
    <2>1. didCancel' /\ pc' \in {"drain", "create"}
      BY <1>4 DEF StartSession, BeginSession
    <2> QED
      BY <1>1, <2>1 DEF CancelInv, EarlyPoints
  <1>5. CASE \/ Device(CtlCommand) \/ Device(CtlConnected) \/ Device(CtlConnectFailed)
             \/ Device(CtlLinkLost) \/ Device(CtlEncrypted) \/ Device(PeerAnswer)
             \/ Device(PeerSpeaks) \/ Device(Unplug)
    <2>1. UNCHANGED <<pc, didCancel, running>>
      BY <1>5 DEF Device, sessVars
    <2>2. pending = "none" /\ ~linkUp /\ cmds \in Seq(EncCommands) =>
            /\ pending' = "none" /\ ~linkUp' /\ cmds' \in Seq(EncCommands)
            /\ cmds = <<>> => cmds' = <<>>
      BY <1>5, IdleDevice
    <2> QED
      BY <1>1, <2>1, <2>2, EncSeqs DEF CancelInv
  <1> QED
    BY <1>2, <1>3, <1>4, <1>5, StepKinds

-----------------------------------------------------------------------------
(* The queue *)

\* With encryption off there is no Encryption Change to be of this link.
LEMMA CurrentAny ==
    ASSUME NEW q, NEW h, NEW e, NEW e2, Current(q, h, e), e = e2 \/ e # "on"
    PROVE  Current(q, h, e2)
  BY DEF Current

\* Behind a usable Random no link begins or ends.
LEMMA RandomRead ==
    ASSUME NEW q \in Seq(Frames), q # <<>>, NEW up, RandomsFresh(q, up),
           Head(q).kind = "randGood", Head(q).age = "this"
    PROVE  OneLink(Tail(q))
  <1>1. /\ Tail(q) \in Seq(Frames) /\ Len(Tail(q)) = Len(q) - 1 /\ Len(q) \in Nat
        /\ \A i \in 1 .. Len(Tail(q)) : Tail(q)[i] = q[i + 1]
    BY HeadTailProperties, LenProperties
  <1>2. q[1] = Head(q) /\ 1 \in 1 .. Len(q)
    BY FollowsRead
  <1>3. \A k \in 1 .. Len(q) : 1 < k => q[k].kind \notin {"connOk", "disconn"}
    BY <1>2 DEF RandomsFresh
  <1>4. ASSUME NEW i \in 1 .. Len(Tail(q)) PROVE Tail(q)[i].kind \notin {"connOk", "disconn"}
    <2>1. i + 1 \in 1 .. Len(q) /\ 1 < i + 1
      BY <1>1
    <2> QED
      BY <1>1, <1>3, <2>1
  <1> QED
    BY <1>4 DEF OneLink

\* What the other steps do to the link.
LEMMA LinkKept ==
    ASSUME TypeOK, DeviceInv, [Next]_vars,
           ~Device(CtlConnected), ~Device(CtlLinkLost), ~Device(EncStarts)
    PROVE  \/ /\ UNCHANGED <<transport, linkUp, linkHandle>>
              /\ enc' = enc \/ enc # "on"
              /\ UNCHANGED sharedKey \/ SlaveRandom
           \/ transport' = "dead" /\ ~linkUp' /\ ~sharedKey'
  <1>1. CASE Reads \/ Keeps \/ ScanFound
    BY <1>1, ReadWire, KeepStep DEF ScanFound, chip, wire
  <1>2. CASE UNCHANGED vars \/ StartSession
    BY <1>2 DEF vars, ctlVars, StartSession
  <1>3. CASE Device(CtlCommand)
    BY <1>3 DEF Device, CtlCommand, CtlCancel, CtlCreate, CtlStartEnc, CtlLtkReply
  <1>4. CASE Device(CtlConnectFailed) \/ Device(PeerAnswer) \/ Device(PeerSpeaks)
    BY <1>4 DEF Device, CtlConnectFailed, PeerAnswer, PeerSpeaks
  <1>5. CASE Device(CtlEncrypted)
    BY <1>5 DEF Device, CtlEncrypted
  <1>6. CASE Device(Unplug)
    BY <1>6 DEF Device, Unplug
  <1> QED
    BY <1>1, <1>2, <1>3, <1>4, <1>5, <1>6, StepKinds

\* Every step keeps QueueInv.
LEMMA QueueStep ==
    ASSUME TypeOK, DeviceInv, QueueInv, [Next]_vars
    PROVE  QueueInv'
  <1>1. events \in Seq(Frames) /\ transport \in {"up", "dead"}
    BY DEF TypeOK, CtlTypeOK
  <1>2. CASE Device(CtlConnected)
    <2>1. /\ ~linkUp /\ ~Dead /\ linkUp' /\ ~sharedKey' /\ transport' = transport
      <3>1. pending # "none" /\ linkUp' = TRUE /\ UNCHANGED <<transport, sharedKey>>
        BY <1>2 DEF Device, CtlConnected
      <3> QED
        BY <3>1 DEF DeviceInv
    <2>2. PICK f \in Frames : /\ f.kind = "connOk" /\ f.h = linkHandle'
                              /\ events' \in Seq(Frames) /\ Longer(events, events', f)
                              /\ \A i \in 1 .. Len(events) : events'[i] = events[i]
      BY <1>2, QueueConnected DEF Device
    <2>3. Closed(events) /\ Alternates(events) /\ RandomsFresh(events, FALSE)
      <3>1. RandomsFresh(events, linkUp)
        BY <2>1 DEF QueueInv
      <3> QED
        BY <2>1, <3>1 DEF QueueInv, RandomsFresh
    <2>4. Alternates(events') /\ Current(events', f.h, enc') /\ RandomsFresh(events', TRUE)
      BY <1>1, <2>2, <2>3, ConnectionAdded
    <2>5. RandomsFresh(events', linkUp')
      BY <2>1, <2>4 DEF RandomsFresh
    <2> QED
      BY <2>1, <2>2, <2>4, <2>5 DEF QueueInv
  <1>3. CASE Device(CtlLinkLost)
    <2>1. ~linkUp' /\ ~sharedKey'
      BY <1>3 DEF Device, CtlLinkLost
    <2>2. PICK f \in Frames : /\ f.kind = "disconn"
                              /\ events' \in Seq(Frames) /\ Longer(events, events', f)
                              /\ \A i \in 1 .. Len(events) :
                                   events[i].kind = "randGood" => events'[i].age = "old"
      BY <1>3, QueueLost DEF Device
    <2>3. Alternates(events') /\ Closed(events') /\ RandomsFresh(events', linkUp')
      BY <1>1, <2>2, EndAdded DEF QueueInv
    <2> QED
      BY <2>1, <2>3 DEF QueueInv
  <1>4. CASE Device(EncStarts)
    <2>1. sharedKey /\ linkUp /\ enc' = "on" /\ UNCHANGED <<transport, linkUp, linkHandle, sharedKey>>
      BY <1>4 DEF Device, EncStarts, CtlEncrypted, DeviceInv
    <2>2. PICK f \in Frames : /\ f.kind = "encOk"
                              /\ events' \in Seq(Frames) /\ Longer(events, events', f)
                              /\ \A i \in 1 .. Len(events) : events'[i] = events[i]
      BY <1>4, QueueEncrypted DEF Device
    <2>3. OneLink(events) /\ RandomsFresh(events, TRUE) /\ ~Dead
      <3>1. OneLink(events) /\ RandomsFresh(events, linkUp) /\ ~Dead
        BY <2>1 DEF QueueInv, DeviceInv
      <3> QED
        BY <2>1, <3>1 DEF RandomsFresh
    <2>4. Alternates(events') /\ OneLink(events') /\ Current(events', linkHandle', "on")
          /\ RandomsFresh(events', TRUE)
      BY <1>1, <2>2, <2>3, EncryptionAdded
    <2>5. RandomsFresh(events', linkUp')
      BY <2>1, <2>4 DEF RandomsFresh
    <2> QED
      BY <2>1, <2>4, <2>5 DEF QueueInv
  <1>5. CASE ~Device(CtlConnected) /\ ~Device(CtlLinkLost) /\ ~Device(EncStarts)
    <2>1. PICK d : Follows(events, events', d, linkUp) /\ events' \in Seq(Frames)
      BY <1>5, QueueMoves
    <2>2. Alternates(events')
      BY <1>1, <2>1, FollowsAlternates DEF QueueInv
    <2>3. CASE transport' = "dead" /\ ~linkUp' /\ ~sharedKey'
      BY <2>2, <2>3 DEF QueueInv, Dead
    <2>4. CASE /\ UNCHANGED <<transport, linkUp, linkHandle>>
               /\ enc' = enc \/ enc # "on"
               /\ UNCHANGED sharedKey \/ SlaveRandom
      <3>1. ~linkUp' /\ ~Dead' => Closed(events')
        BY <1>1, <2>1, <2>4, FollowsClosed DEF QueueInv, Dead
      <3>2. linkUp' => Current(events', linkHandle', enc')
        <4>1. linkUp => Current(events', linkHandle, enc)
          BY <1>1, <2>1, FollowsCurrent DEF QueueInv
        <4> QED
          BY <2>4, <4>1, CurrentAny
      <3>3. ~Dead' => RandomsFresh(events', linkUp')
        <4>1. ~Dead => RandomsFresh(events', linkUp)
          BY <1>1, <2>1, FollowsRandoms DEF QueueInv
        <4> QED
          BY <2>4, <4>1 DEF Dead
      <3>4. sharedKey' => OneLink(events')
        <4>1. CASE UNCHANGED sharedKey
          BY <1>1, <2>1, <4>1, FollowsOneLink DEF QueueInv
        <4>2. CASE SlaveRandom
          <5>1. /\ events # <<>> /\ Head(events).kind = "randGood" /\ events' = Tail(events)
                /\ sharedKey' => Head(events).age = "this" /\ linkUp
            BY <4>2 DEF SlaveRandom, Verified, Mine, HeadIs, Consume
          <5>2. linkUp => RandomsFresh(events, linkUp)
            BY DEF QueueInv, DeviceInv
          <5> QED
            BY <1>1, <5>1, <5>2, RandomRead
        <4> QED
          BY <2>4, <4>1, <4>2
      <3> QED
        BY <2>2, <3>1, <3>2, <3>3, <3>4 DEF QueueInv
    <2> QED
      BY <1>5, <2>3, <2>4, LinkKept
  <1> QED
    BY <1>2, <1>3, <1>4, <1>5

-----------------------------------------------------------------------------
(* Pairing and ATT *)

\* How the daemon comes to the pairing and to the ATT exchange by reading a frame.
LEMMA WaitsRead ==
    ASSUME Reads
    PROVE  /\ pc' \in PairingWaits =>
                \/ ConnComplete
                \/ pc \in PairingWaits /\ connHandle' = connHandle /\ ~HeadIs({"disconn"})
           /\ pc' \in AttWaits \cup {"report"} =>
                \/ EncryptionOn
                \/ pc \in AttWaits \cup {"report"} /\ connHandle' = connHandle
  <1> USE DEF Ignored, Abandon, SendAcl, quiet, HeadIs, Mine, PairingWaits, AttWaits, SmpKinds
  <1>1. CASE DrainRead \/ ConnRefused \/ ConnOther
    BY <1>1 DEF DrainRead, ConnRefused, ConnOther
  <1>2. CASE ConnComplete
    BY <1>2 DEF ConnComplete
  <1>3. CASE Pairing
    BY <1>3 DEF Pairing, PairingResponse, SecurityRequest, PairingRefused, SlaveConfirm,
                ConfirmRefused, SlaveRandom, Verified, RandomRefused, SmpOther
  <1>4. CASE LtkRequest \/ EncryptionLost \/ EncryptionOther
    BY <1>4 DEF LtkRequest, EncryptionLost, EncryptionOther
  <1>5. CASE EncryptionOn
    BY <1>5 DEF EncryptionOn
  <1>6. CASE Att
    BY <1>6 DEF Att, MtuDone, SvcDone, CharFrame, CharEnd, CharLost, CccdDone, AttOther
  <1>7. CASE ReportFrame \/ ReportLost
    BY <1>7 DEF ReportFrame, ReportLost
  <1> QED
    BY <1>1, <1>3, <1>4, <1>6, <1>7, <1>2, <1>5 DEF Reads, AwaitConn, Encryption

\* And without reading one.
LEMMA WaitsKept ==
    ASSUME Keeps \/ ScanFound
    PROVE  /\ pc' \in PairingWaits => pc \in PairingWaits /\ connHandle' = connHandle
           /\ pc' \in AttWaits \cup {"report"} =>
                pc \in AttWaits \cup {"report"} /\ connHandle' = connHandle
  <1> USE DEF GiveUp, Leave, SendAcl, quiet, PairingWaits, AttWaits
  <1>1. CASE Signal \/ ReportStop
    BY <1>1 DEF Signal, ReportStop
  <1>2. CASE StartUp
    <2>1. pc' \in {"exit", "open", "init", "scan", "loop"}
      BY <1>2 DEF StartUp, Starting, RunPreflight, GuardRefuses, BadAddress, UsbPrepFails, Prepared,
                  OpenFails, OpenOk, InitFails, InitOk
    <2> QED
      BY <2>1
  <1>3. CASE ScanFound \/ ScanFailed \/ StopLoop \/ DrainTimeout \/ CreateConn \/ Finished
    BY <1>3 DEF ScanFound, ScanFailed, StopLoop, DrainTimeout, CreateConn, Finished, vars, sessVars
  <1>4. CASE Timeout
    BY <1>4 DEF Timeout, ConnTimeout, PresTimeout, Pres2Timeout, ConfTimeout, RandTimeout,
                EncTimeout, MtuTimeout, SvcTimeout, CharTimeout, CccdTimeout
  <1> QED
    BY <1>1, <1>2, <1>3, <1>4 DEF Keeps

\* The connection the daemon takes up: what is queued behind its Connection Complete.
LEMMA ConnectionRead ==
    ASSUME NEW q \in Seq(Frames), q # <<>>, Head(q).kind = "connOk", Alternates(q)
    PROVE  EndFirst(Tail(q)) /\ ~EncNext(Tail(q)) /\ (NoEnd(Tail(q)) => NoEnd(q))
  <1>1. /\ Tail(q) \in Seq(Frames) /\ Len(Tail(q)) = Len(q) - 1 /\ Len(q) \in Nat
        /\ \A i \in 1 .. Len(Tail(q)) : Tail(q)[i] = q[i + 1]
    BY HeadTailProperties, LenProperties
  <1>2. q[1] = Head(q) /\ 1 \in 1 .. Len(q)
    BY FollowsRead
  <1>3. ASSUME NEW j \in 1 .. Len(Tail(q)), Tail(q)[j].kind \in {"connOk", "encOk"}
        PROVE  \E k \in 1 .. Len(Tail(q)) : k < j /\ Tail(q)[k].kind = "disconn"
    <2>1. j + 1 \in 1 .. Len(q) /\ 1 < j + 1
      BY <1>1
    <2>2. q[1].kind = "connOk" /\ q[j + 1].kind \in {"connOk", "encOk"}
      BY <1>1, <1>2, <1>3
    <2>3. PICK k \in 1 .. Len(q) : 1 < k /\ k < j + 1 /\ q[k].kind = "disconn"
      BY <1>2, <2>1, <2>2, Zenon DEF Alternates
    <2>4. k - 1 \in 1 .. Len(Tail(q)) /\ (k - 1) + 1 = k /\ k - 1 < j
      BY <1>1, <2>3
    <2> QED
      BY <1>1, <2>3, <2>4
  <1>4. ASSUME NEW k \in 1 .. Len(q), q[k].kind = "disconn" PROVE ~NoEnd(Tail(q))
    <2>1. k # 1
      BY <1>2, <1>4
    <2>2. k - 1 \in 1 .. Len(Tail(q)) /\ (k - 1) + 1 = k
      BY <1>1, <2>1
    <2> QED
      BY <1>1, <1>4, <2>2 DEF NoEnd
  <1> QED
    BY <1>3, <1>4 DEF EndFirst, EncNext, NoEnd

\* Commands of the encryption leave the attempt alone, and so does every event but these.
LEMMA PendingKept ==
    ASSUME TypeOK, pending = "none", cmds \in Seq(EncCommands), [Next]_vars
    PROVE  pending' = "none"
  <1>1. CASE Reads \/ Keeps \/ ScanFound
    BY <1>1, ReadWire, KeepStep DEF ScanFound, chip, wire
  <1>2. CASE UNCHANGED vars \/ StartSession
    BY <1>2 DEF vars, ctlVars, StartSession, BeginSession
  <1>3. CASE Device(CtlCommand)
    BY <1>3, EncSeqs DEF Device, CtlCommand, CtlCancel, CtlCreate, CtlStartEnc, CtlLtkReply, EncCommands
  <1>4. CASE Device(CtlConnected) \/ Device(CtlConnectFailed) \/ Device(CtlLinkLost)
             \/ Device(CtlEncrypted) \/ Device(PeerAnswer) \/ Device(PeerSpeaks) \/ Device(Unplug)
    BY <1>4 DEF Device, CtlConnected, CtlConnectFailed, CtlLinkLost, CtlEncrypted, PeerAnswer, PeerSpeaks,
                Unplug
  <1> QED
    BY <1>1, <1>2, <1>3, <1>4, StepKinds

\* Every step keeps PairingInv.
LEMMA PairingStep ==
    ASSUME FInv, [Next]_vars
    PROVE  PairingInv'
  <1> SUFFICES ASSUME pc' \in PairingWaits
               PROVE  /\ EndFirst(events')
                      /\ ~Dead' => (linkUp' /\ linkHandle' = connHandle') \/ ~NoEnd(events')
                      /\ EncNext(events') => pending' = "none" /\ (linkUp' => NoEnd(events'))
    BY DEF PairingInv
  <1>1. /\ TypeOK /\ DeviceInv /\ CommandsInv /\ QueueInv /\ PairingInv
        /\ events \in Seq(Frames) /\ transport \in {"up", "dead"}
    BY DEF FInv, TypeOK, CtlTypeOK
  <1>2. CASE ConnComplete
    <2>1. /\ events # <<>> /\ Head(events).kind = "connOk" /\ events' = Tail(events)
          /\ connHandle' = Head(events).h /\ UNCHANGED <<transport, linkUp, linkHandle>>
      BY <1>2 DEF ConnComplete, HeadIs, Consume, chip, wire
    <2>2. EndFirst(events') /\ ~EncNext(events') /\ (NoEnd(events') => NoEnd(events))
      BY <1>1, <2>1, ConnectionRead DEF QueueInv
    <2>3. events[1] = Head(events) /\ 1 \in 1 .. Len(events)
      BY <1>1, <2>1, FollowsRead
    <2>4. ASSUME ~Dead, NoEnd(events) PROVE linkUp /\ linkHandle = Head(events).h
      <3>1. linkUp
        BY <2>1, <2>3, <2>4, <1>1 DEF QueueInv, Closed, NoEnd
      <3>2. Current(events, linkHandle, enc)
        BY <1>1, <3>1 DEF QueueInv
      <3> QED
        BY <2>1, <2>3, <2>4, <3>1, <3>2 DEF Current, NoEnd
    <2> QED
      BY <2>1, <2>2, <2>4 DEF Dead
  <1>3. CASE ~ConnComplete /\ ~Device(CtlConnected) /\ ~Device(CtlLinkLost) /\ ~Device(EncStarts)
    <2>1. pc \in PairingWaits /\ connHandle' = connHandle /\ (Reads => ~HeadIs({"disconn"}))
      <3>1. CASE Reads
        BY <1>3, <3>1, WaitsRead
      <3>2. CASE ~Reads /\ (Keeps \/ ScanFound)
        BY <3>2, WaitsKept
      <3>3. CASE ~Reads /\ StartSession
        BY <3>3 DEF StartSession, PairingWaits
      <3>4. CASE ~Reads /\ UNCHANGED sessVars
        BY <3>4 DEF sessVars
      <3> QED
        BY <3>1, <3>2, <3>3, <3>4, StepKinds DEF Device, vars
    <2>2. /\ EndFirst(events) /\ cmds \in Seq(EncCommands)
          /\ ~Dead => (linkUp /\ linkHandle = connHandle) \/ ~NoEnd(events)
          /\ EncNext(events) => pending = "none" /\ (linkUp => NoEnd(events))
      BY <1>1, <2>1 DEF PairingInv, CommandsInv
    <2>3. /\ EndFirst(events') /\ (~NoEnd(events) => ~NoEnd(events'))
          /\ EncNext(events') => EncNext(events)
          /\ NoEnd(events) => NoEnd(events')
      <3>1. PICK d : /\ Follows(events, events', d, linkUp) /\ events' \in Seq(Frames)
                     /\ (d = 1 /\ Reads) \/ d = 0
        BY <1>1, <1>3, QueueMoves
      <3>2. d = 1 => events[1].kind # "disconn"
        BY <1>1, <2>1, <3>1, ReadStep, FollowsRead DEF HeadIs
      <3> QED
        BY <1>1, <2>2, <3>1, <3>2, FollowsPairing, FollowsOneLink
    <2>4. EncNext(events') => pending' = "none"
      BY <1>1, <2>2, <2>3, PendingKept
    <2>5. CASE transport' = "dead" /\ ~linkUp'
      BY <2>3, <2>4, <2>5 DEF Dead
    <2>6. CASE UNCHANGED <<transport, linkUp, linkHandle>>
      BY <2>1, <2>2, <2>3, <2>4, <2>6 DEF Dead
    <2> QED
      BY <1>1, <1>3, <2>5, <2>6, LinkKept
  <1>4. CASE Device(CtlConnected) \/ Device(CtlLinkLost) \/ Device(EncStarts)
    <2>1. /\ pc \in PairingWaits /\ connHandle' = connHandle
          /\ EndFirst(events) /\ cmds \in Seq(EncCommands)
          /\ ~Dead => (linkUp /\ linkHandle = connHandle) \/ ~NoEnd(events)
          /\ EncNext(events) => pending = "none" /\ (linkUp => NoEnd(events))
      BY <1>1, <1>4 DEF PairingInv, CommandsInv, Device, sessVars
    <2>2. CASE Device(CtlConnected)
      <3>1. pending # "none" /\ pending' = "none" /\ ~linkUp /\ ~Dead
        BY <1>1, <2>2 DEF Device, CtlConnected, DeviceInv
      <3>2. PICK f \in Frames : /\ f.kind = "connOk"
                                /\ events' \in Seq(Frames) /\ Longer(events, events', f)
                                /\ \A i \in 1 .. Len(events) : events'[i] = events[i]
        BY <1>1, <2>2, QueueConnected DEF Device
      <3>3. Closed(events) /\ Alternates(events) /\ RandomsFresh(events, FALSE)
        <4>1. RandomsFresh(events, linkUp)
          BY <1>1, <3>1 DEF QueueInv
        <4> QED
          BY <1>1, <3>1, <4>1 DEF QueueInv, RandomsFresh
      <3>4. EndFirst(events') /\ ~NoEnd(events') /\ ~EncNext(events')
        BY <1>1, <2>1, <3>1, <3>2, <3>3, ConnectionAdded
      <3> QED
        BY <3>4
    <2>3. CASE Device(CtlLinkLost)
      <3>1. linkUp /\ ~linkUp' /\ pending' = "none"
        BY <1>1, <2>3 DEF Device, CtlLinkLost, DeviceInv
      <3>2. PICK f \in Frames : /\ f.kind = "disconn"
                                /\ events' \in Seq(Frames) /\ Longer(events, events', f)
                                /\ \A i \in 1 .. Len(events) :
                                     events[i].kind = "randGood" => events'[i].age = "old"
        BY <1>1, <2>3, QueueLost DEF Device
      <3>3. EndFirst(events') /\ ~NoEnd(events')
        BY <1>1, <2>1, <3>2, EndAdded DEF QueueInv
      <3> QED
        BY <3>1, <3>3
    <2>4. CASE Device(EncStarts)
      <3>1. /\ sharedKey /\ linkUp /\ pending' = "none"
            /\ UNCHANGED <<transport, linkUp, linkHandle>>
        BY <1>1, <2>4 DEF Device, EncStarts, CtlEncrypted, DeviceInv
      <3>2. PICK f \in Frames : /\ f.kind = "encOk"
                                /\ events' \in Seq(Frames) /\ Longer(events, events', f)
                                /\ \A i \in 1 .. Len(events) : events'[i] = events[i]
        BY <1>1, <2>4, QueueEncrypted DEF Device
      <3>3. OneLink(events) /\ RandomsFresh(events, TRUE) /\ ~Dead
        <4>1. OneLink(events) /\ RandomsFresh(events, linkUp) /\ ~Dead
          BY <1>1, <3>1 DEF QueueInv, DeviceInv
        <4> QED
          BY <3>1, <4>1 DEF RandomsFresh
      <3>4. EndFirst(events') /\ NoEnd(events') /\ NoEnd(events)
        BY <1>1, <3>2, <3>3, EncryptionAdded DEF OneLink, NoEnd
      <3> QED
        BY <2>1, <3>1, <3>3, <3>4
    <2> QED
      BY <1>4, <2>2, <2>3, <2>4
  <1> QED
    BY <1>2, <1>3, <1>4

\* Every step keeps AttInv.
LEMMA AttStep ==
    ASSUME FInv, [Next]_vars
    PROVE  AttInv'
  <1> SUFFICES ASSUME pc' \in AttWaits \cup {"report"}
               PROVE  /\ pending' = "none"
                      /\ linkUp' => enc' = "on" /\ linkHandle' = connHandle' /\ NoEnd(events')
    BY DEF AttInv
  <1>1. /\ TypeOK /\ DeviceInv /\ CommandsInv /\ QueueInv /\ PairingInv /\ AttInv
        /\ events \in Seq(Frames)
    BY DEF FInv, TypeOK, CtlTypeOK
  <1>2. CASE EncryptionOn
    <2>1. /\ pc = "awaitEnc" /\ events # <<>> /\ Head(events).kind = "encOk" /\ events' = Tail(events)
          /\ connHandle' = connHandle /\ UNCHANGED <<transport, pending, linkUp, linkHandle, enc>>
      BY <1>2 DEF EncryptionOn, Mine, HeadIs, Consume, chip, wire
    <2>2. events[1] = Head(events) /\ 1 \in 1 .. Len(events) /\ Len(events) \in Nat
          /\ Follows(events, events', 1, linkUp) /\ events' \in Seq(Frames)
      BY <1>1, <2>1, FollowsRead, LenProperties
    <2>3. EncNext(events)
      BY <2>1, <2>2 DEF EncNext
    <2>4. /\ pending = "none" /\ (linkUp => NoEnd(events))
          /\ ~Dead => (linkUp /\ linkHandle = connHandle) \/ ~NoEnd(events)
      BY <1>1, <2>1, <2>3 DEF PairingInv, PairingWaits
    <2>5. ASSUME linkUp PROVE enc = "on" /\ linkHandle = connHandle /\ NoEnd(events')
      <3>1. Current(events, linkHandle, enc) /\ ~Dead /\ NoEnd(events)
        BY <1>1, <2>4, <2>5 DEF QueueInv, DeviceInv
      <3>2. enc = "on"
        BY <2>1, <2>2, <3>1 DEF Current, NoEnd
      <3> QED
        BY <1>1, <2>2, <2>4, <3>1, <3>2, FollowsOneLink
    <2> QED
      BY <2>1, <2>4, <2>5
  <1>3. CASE ~EncryptionOn
    <2>1. pc \in AttWaits \cup {"report"} /\ connHandle' = connHandle
      <3>1. CASE Reads
        BY <1>3, <3>1, WaitsRead
      <3>2. CASE Keeps \/ ScanFound
        BY <3>2, WaitsKept
      <3>3. CASE StartSession
        BY <3>3 DEF StartSession, AttWaits
      <3>4. CASE UNCHANGED sessVars
        BY <3>4 DEF sessVars
      <3> QED
        BY <3>1, <3>2, <3>3, <3>4, StepKinds DEF Device, vars
    <2>2. /\ pending = "none" /\ cmds \in Seq(EncCommands)
          /\ linkUp => enc = "on" /\ linkHandle = connHandle /\ NoEnd(events)
      BY <1>1, <2>1 DEF AttInv, CommandsInv
    <2>3. pending' = "none"
      BY <1>1, <2>2, PendingKept
    <2>4. CASE Device(CtlConnected) \/ Device(CtlLinkLost) \/ Device(EncStarts)
      <3>1. ~Device(CtlConnected)
        BY <2>2 DEF Device, CtlConnected
      <3>2. ~Device(EncStarts)
        BY <1>1, <2>2 DEF Device, EncStarts, CtlEncrypted, DeviceInv
      <3>3. ~linkUp'
        BY <2>4, <3>1, <3>2 DEF Device, CtlLinkLost
      <3> QED
        BY <2>3, <3>3
    <2>5. CASE ~Device(CtlConnected) /\ ~Device(CtlLinkLost) /\ ~Device(EncStarts)
      <3>1. \/ UNCHANGED <<linkUp, linkHandle>> /\ (enc' = enc \/ enc # "on")
            \/ ~linkUp'
        BY <1>1, <2>5, LinkKept
      <3>2. NoEnd(events) => NoEnd(events')
        BY <1>1, <2>5, QueueMoves, FollowsOneLink
      <3> QED
        BY <2>1, <2>2, <2>3, <3>1, <3>2
    <2> QED
      BY <2>4, <2>5
  <1> QED
    BY <1>2, <1>3

-----------------------------------------------------------------------------
(* The theorems *)

\* The daemon starts in the invariant.
LEMMA FInit == Init => FInv
  <1> SUFFICES ASSUME Init PROVE FInv
    OBVIOUS
  <1> USE DEF Init, CtlInit
  <1>1. /\ 0 \in Handles /\ DrainMax \in Nat /\ <<>> \in Seq(Commands) /\ <<>> \in Seq(Frames)
        /\ Len(events) = 0
    BY ControllerAssumption, Sw2dAssumption, EmptySeq DEF ControllerAssumption, Sw2dAssumption
  <1>2. TypeOK
    <2>1. CtlTypeOK
      BY <1>1 DEF CtlTypeOK
    <2>2. SessTypeOK
      <3>1. drained \in 0 .. DrainMax /\ connHandle \in Handles /\ args \in ArgSets
        BY <1>1
      <3>2. pc \in Points
        BY DEF Points
      <3>3. running \in BOOLEAN /\ didCancel \in BOOLEAN
        BY Zenon
      <3> QED
        BY <3>1, <3>2, <3>3 DEF SessTypeOK
    <2> QED
      BY <2>1, <2>2 DEF TypeOK, SessTypeOK
  <1>3. DeviceInv /\ CancelInv /\ PairingInv /\ AttInv
    BY DEF DeviceInv, CancelInv, PairingInv, AttInv, Attempting, PairingWaits, AttWaits, Dead
  <1>4. CommandsInv
    BY EncSeqs DEF CommandsInv, PairingWaits, AttWaits
  <1>5. QueueInv
    BY <1>1 DEF QueueInv, Alternates, Closed, RandomsFresh
  <1> QED
    BY <1>2, <1>3, <1>4, <1>5 DEF FInv

\* The invariant is inductive.
LEMMA FStep == FInv /\ [Next]_vars => FInv'
  <1> SUFFICES ASSUME FInv, [Next]_vars PROVE FInv'
    OBVIOUS
  <1>1. TypeOK /\ DeviceInv /\ CommandsInv /\ CancelInv /\ QueueInv /\ AttInv /\ DrainInv
    BY DEF FInv, CancelInv, DrainInv
  <1>2. SessTypeOK' /\ CtlTypeOK' /\ DeviceInv'
    BY <1>1, SessTypeStep, DeviceStep
  <1>3. TypeOK'
    BY <1>2 DEF TypeOK, SessTypeOK
  <1>4. CommandsInv' /\ CancelInv' /\ QueueInv'
    BY <1>1, CommandsStep, CancelStep, QueueStep
  <1>5. PairingInv' /\ AttInv'
    BY PairingStep, AttStep
  <1> QED
    BY <1>2, <1>3, <1>4, <1>5 DEF FInv

\* So it holds for ever.
LEMMA FAlways == Spec => []FInv
  BY FInit, FStep, PTL DEF Spec

\* Every variable of sw2d_final's model keeps its type; the drain of
\* hci_user_cancel_connect never reads more than its five frames.
THEOREM FinalTypeCorrect == Spec => []TypeOK
  <1>1. FInv => TypeOK
    BY DEF FInv
  <1> QED
    BY <1>1, FAlways, PTL

\* The controller never meets an LE Create Connection while one is pending, whatever the
\* drain leaves or loses and whenever did_cancel is cleared.
THEOREM NoPendingCreate == Spec => []NoCreateWhilePending
  <1>1. FInv => NoCreateWhilePending
    BY EncSeqs, ShortSeqs DEF FInv, CommandsInv, NoCreateWhilePending, EncCommands
  <1> QED
    BY <1>1, FAlways, PTL

\* ATT requests and the report loop run on the daemon's own encrypted link, however many
\* frames of earlier links with the same handle are queued.
THEOREM AttEncrypted == Spec => []AttOnEncrypted
  <1>1. FInv => AttOnEncrypted
    BY DEF FInv, AttInv, AttOnEncrypted
  <1> QED
    BY <1>1, FAlways, PTL

\* While the daemon pairs, the link is there or its end is queued.
THEOREM PairingKnown == Spec => []PairingLinkKnown
  <1>1. ASSUME FInv PROVE PairingLinkKnown
    <2>1. events \in Seq(Frames) /\ DOMAIN events = 1 .. Len(events)
      BY <1>1, LenProperties DEF FInv, TypeOK, CtlTypeOK
    <2> QED
      BY <1>1, <2>1 DEF FInv, PairingInv, PairingLinkKnown, NoEnd, Queued
  <1> QED
    BY <1>1, FAlways, PTL

\* A session that starts without a cancel has nothing to cancel.
THEOREM NothingToCancel == Spec => []CleanWithoutCancel
  <1>1. FInv => CleanWithoutCancel
    BY DEF FInv, CancelInv, CleanWithoutCancel
  <1> QED
    BY <1>1, FAlways, PTL

=============================================================================
