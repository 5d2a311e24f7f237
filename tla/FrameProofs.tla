---------------------------- MODULE FrameProofs ----------------------------
(***************************************************************************)
(* Frames reach the server in the order they were captured, for every      *)
(* number of interfaces, capacity and bound.  A frame passes through six   *)
(* stages, from the thread that captured it to the pipeline; the invariant *)
(* orders every stage before the ones a frame passes earlier.              *)
(***************************************************************************)
EXTENDS SensorProofs, SequenceTheorems

-----------------------------------------------------------------------------
(* Order.                                                                  *)

\* On each interface, every frame of S was captured before every one of T.
Less(S, T) == \A f \in S, g \in T : f.iface = g.iface => f.n < g.n

Ordered(s) == \A j, k \in DOMAIN s : j < k /\ s[j].iface = s[k].iface => s[j].n < s[k].n

\* S[1] is the stage furthest along.
Line(S) == \A j, k \in 1..6 : j < k => Less(S[j], S[k])

LEMMA LineShrinks ==
  ASSUME NEW S, NEW T, Line(S), \A m \in 1..6 : T[m] \subseteq S[m]
  PROVE  Line(T)
  BY DEF Line, Less

\* Frames of stage k overtake nothing when they move on to stage j over empty stages,
\* provided that they come before those that stay behind.
LEMMA LineFlows ==
  ASSUME NEW S, NEW T, Line(S), NEW j \in 1..6, NEW k \in 1..6, j < k,
         NEW M, M \subseteq S[k], Less(M, T[k]), T[j] \subseteq S[j] \cup M,
         \A m \in 1..6 : m # j => T[m] \subseteq S[m],
         \A m \in 1..6 : j < m /\ m < k => S[m] = {}
  PROVE  Line(T)
<1> SUFFICES ASSUME NEW a \in 1..6, NEW b \in 1..6, a < b, NEW f \in T[a], NEW g \in T[b],
                    f.iface = g.iface
             PROVE  f.n < g.n
  BY DEF Line, Less
<1>1. CASE a # j /\ b # j
  BY <1>1 DEF Line, Less
<1>2. CASE a = j
  <2>1. g \in S[b]
    BY <1>2
  <2>2. CASE f \in S[a]
    BY <2>1, <2>2 DEF Line, Less
  <2>3. CASE f \in M /\ b = k
    BY <2>3 DEF Less
  <2>4. CASE f \in M /\ k < b
    BY <2>1, <2>4 DEF Line, Less
  <2>5. ~(b < k)
    BY <1>2, <2>1
  <2>6. QED
    BY <1>2, <2>2, <2>3, <2>4, <2>5
<1>3. CASE b = j
  <2>1. f \in S[a] /\ (g \in S[b] \/ g \in S[k])
    BY <1>3
  <2>2. a < k
    BY <1>3
  <2>3. QED
    BY <2>1, <2>2 DEF Line, Less
<1>4. QED
  BY <1>1, <1>2, <1>3

\* A frame that is captured joins behind all others.
LEMMA LineGrows ==
  ASSUME NEW S, NEW T, Line(S), NEW j \in 1..6, NEW f,
         T[j] \subseteq S[j] \cup {f}, \A m \in 1..6 : m # j => T[m] \subseteq S[m],
         \A m \in 1..6 : m < j => Less(S[m], {f}),
         \A m \in 1..6 : j < m => Less({f}, S[m])
  PROVE  Line(T)
<1> SUFFICES ASSUME NEW a \in 1..6, NEW b \in 1..6, a < b, NEW u \in T[a], NEW v \in T[b],
                    u.iface = v.iface
             PROVE  u.n < v.n
  BY DEF Line, Less
<1>1. CASE u \in S[a] /\ v \in S[b]
  BY <1>1 DEF Line, Less
<1>2. CASE u \notin S[a]
  <2>1. a = j /\ u = f /\ v \in S[b]
    BY <1>2
  <2>2. QED
    BY <2>1 DEF Less
<1>3. CASE v \notin S[b]
  <2>1. b = j /\ v = f /\ u \in S[a]
    BY <1>3
  <2>2. QED
    BY <2>1 DEF Less
<1>4. QED
  BY <1>1, <1>2, <1>3

LEMMA RangeDef ==
  ASSUME NEW S, NEW q \in Seq(S)
  PROVE  /\ \A x : x \in Range(q) <=> \E k \in 1..Len(q) : x = q[k]
         /\ Len(q) \in Nat /\ DOMAIN q = 1..Len(q)
<1>1. Len(q) \in Nat /\ DOMAIN q = 1..Len(q)
  BY LenProperties
<1>2. QED
  BY <1>1 DEF Range

LEMMA OrderedTail ==
  ASSUME NEW q \in Seq(Frames), q # <<>>
  PROVE  /\ Head(q) \in Range(q) /\ Range(Tail(q)) \subseteq Range(q)
         /\ Ordered(q) => Ordered(Tail(q)) /\ Less({Head(q)}, Range(Tail(q)))
<1>1. /\ Tail(q) \in Seq(Frames) /\ Len(Tail(q)) = Len(q) - 1 /\ Len(q) \in Nat \ {0}
      /\ \A i \in 1..Len(Tail(q)) : Tail(q)[i] = q[i + 1]
      /\ Head(q) = q[1] /\ DOMAIN q = 1..Len(q) /\ DOMAIN Tail(q) = 1..Len(Tail(q))
  BY HeadTailProperties, EmptySeq, LenProperties
<1>2. Head(q) \in Range(q) /\ Range(Tail(q)) \subseteq Range(q)
  BY <1>1 DEF Range
<1>3. ASSUME Ordered(q) PROVE Ordered(Tail(q)) /\ Less({Head(q)}, Range(Tail(q)))
  <2>1. Ordered(Tail(q))
    BY <1>1, <1>3 DEF Ordered
  <2>2. Less({Head(q)}, Range(Tail(q)))
    BY <1>1, <1>3 DEF Ordered, Less, Range
  <2>3. QED
    BY <2>1, <2>2
<1>4. QED
  BY <1>2, <1>3

LEMMA OrderedConcat ==
  ASSUME NEW r \in Seq(Frames), NEW s \in Seq(Frames)
  PROVE  /\ r \o s \in Seq(Frames) /\ Range(r \o s) \subseteq Range(r) \cup Range(s)
         /\ Ordered(r) /\ Ordered(s) /\ Less(Range(r), Range(s)) => Ordered(r \o s)
<1> DEFINE t == r \o s
<1>1. /\ t \in Seq(Frames) /\ Len(t) = Len(r) + Len(s) /\ Len(r) \in Nat /\ Len(s) \in Nat
      /\ DOMAIN t = 1..Len(t) /\ DOMAIN r = 1..Len(r) /\ DOMAIN s = 1..Len(s)
      /\ \A i \in 1..Len(t) : t[i] = IF i <= Len(r) THEN r[i] ELSE s[i - Len(r)]
  BY ConcatProperties, LenProperties
<1> HIDE DEF t
<1>2. \A i \in 1..Len(t) : \/ i \in 1..Len(r) /\ t[i] = r[i]
                           \/ i - Len(r) \in 1..Len(s) /\ t[i] = s[i - Len(r)] /\ i > Len(r)
  BY <1>1
<1>3. Range(t) \subseteq Range(r) \cup Range(s)
  BY <1>1, <1>2 DEF Range
<1>4. ASSUME Ordered(r), Ordered(s), Less(Range(r), Range(s)) PROVE Ordered(t)
  <2>1. SUFFICES ASSUME NEW j \in 1..Len(t), NEW k \in 1..Len(t), j < k, t[j].iface = t[k].iface
                 PROVE  t[j].n < t[k].n
    BY <1>1 DEF Ordered
  <2>2. CASE j \in 1..Len(r) /\ t[j] = r[j] /\ k \in 1..Len(r) /\ t[k] = r[k]
    BY <1>1, <1>4, <2>1, <2>2 DEF Ordered
  <2>3. CASE j \in 1..Len(r) /\ t[j] = r[j] /\ k - Len(r) \in 1..Len(s) /\ t[k] = s[k - Len(r)]
    BY <1>1, <1>4, <2>1, <2>3 DEF Less, Range
  <2>4. CASE /\ j - Len(r) \in 1..Len(s) /\ t[j] = s[j - Len(r)]
             /\ k - Len(r) \in 1..Len(s) /\ t[k] = s[k - Len(r)]
    <3>1. j - Len(r) < k - Len(r) /\ j - Len(r) \in DOMAIN s /\ k - Len(r) \in DOMAIN s
      BY <1>1, <2>1, <2>4
    <3>2. QED
      BY <1>4, <2>1, <2>4, <3>1 DEF Ordered
  <2>5. /\ \/ j \in 1..Len(r) /\ t[j] = r[j]
           \/ j - Len(r) \in 1..Len(s) /\ t[j] = s[j - Len(r)] /\ j > Len(r)
        /\ \/ k \in 1..Len(r) /\ t[k] = r[k]
           \/ k - Len(r) \in 1..Len(s) /\ t[k] = s[k - Len(r)] /\ k > Len(r)
    BY <1>2, <2>1
  <2>6. ~(j > Len(r) /\ k \in 1..Len(r))
    BY <1>1, <2>1
  <2>7. QED
    BY <2>2, <2>3, <2>4, <2>5, <2>6
<1>5. QED
  BY <1>1, <1>3, <1>4 DEF t

LEMMA OrderedAppend ==
  ASSUME NEW q \in Seq(Frames), NEW f \in Frames
  PROVE  /\ Range(Append(q, f)) \subseteq Range(q) \cup {f}
         /\ Ordered(q) /\ Less(Range(q), {f}) => Ordered(Append(q, f))
<1>1. /\ Len(q) \in Nat /\ DOMAIN q = 1..Len(q) /\ DOMAIN Append(q, f) = 1..(Len(q) + 1)
      /\ \A i \in 1..Len(q) : Append(q, f)[i] = q[i]
      /\ Append(q, f)[Len(q) + 1] = f
  OBVIOUS
<1>2. Range(Append(q, f)) \subseteq Range(q) \cup {f}
  BY <1>1 DEF Range
<1>3. Ordered(q) /\ Less(Range(q), {f}) => Ordered(Append(q, f))
  BY <1>1 DEF Ordered, Less, Range
<1>4. QED
  BY <1>2, <1>3

\* The ring buffer drops the oldest frames and keeps the order of the others.
LEMMA OrderedPush ==
  ASSUME NEW r \in Seq(Frames), NEW s \in Seq(Frames)
  PROVE  /\ Range(PushAll(r, s)) \subseteq Range(r) \cup Range(s)
         /\ Ordered(r) /\ Ordered(s) /\ Less(Range(r), Range(s)) => Ordered(PushAll(r, s))
<1> DEFINE all == r \o s
           keep == SubSeq(all, Len(all) - RingCap + 1, Len(all))
<1>1. /\ all \in Seq(Frames) /\ Range(all) \subseteq Range(r) \cup Range(s)
      /\ Ordered(r) /\ Ordered(s) /\ Less(Range(r), Range(s)) => Ordered(all)
  BY OrderedConcat
<1>2. PushAll(r, s) = IF Len(all) <= RingCap THEN all ELSE keep
  BY DEF PushAll
<1> HIDE DEF all
<1>3. ASSUME ~(Len(all) <= RingCap)
      PROVE  Range(keep) \subseteq Range(all) /\ (Ordered(all) => Ordered(keep))
  <2>1. Len(all) \in Nat /\ DOMAIN all = 1..Len(all) /\ RingCap \in Nat
    BY <1>1, LenProperties, SensorAssumption
  <2> DEFINE m == Len(all) - RingCap + 1
  <2>2. m \in 1..Len(all) /\ m \in Int
    BY <1>3, <2>1, SensorAssumption
  <2>3. \A i \in m..Len(all) : all[i] \in Frames
    BY <1>1, <2>1, <2>2, ElementOfSeq
  <2>4. /\ keep \in Seq(Frames) /\ Len(keep) = Len(all) - m + 1
        /\ \A i \in 1..(Len(all) - m + 1) : keep[i] = all[m + i - 1]
    <3>1. SubSeq(all, m, Len(all)) \in Seq(Frames)
          /\ Len(SubSeq(all, m, Len(all))) = (IF m <= Len(all) THEN Len(all) - m + 1 ELSE 0)
          /\ \A i \in 1 .. Len(all) - m + 1 : SubSeq(all, m, Len(all))[i] = all[m + i - 1]
      <4> HIDE DEF m
      <4>1. QED
        BY <2>1, <2>2, <2>3, SubSeqProperties
    <3>2. QED
      BY <2>1, <2>2, <3>1
  <2>5. DOMAIN keep = 1..(Len(all) - m + 1)
    BY <2>4, LenProperties
  <2> HIDE DEF m, keep
  <2>6. /\ \A i \in DOMAIN keep : m + i - 1 \in DOMAIN all /\ keep[i] = all[m + i - 1]
        /\ \A i, k \in DOMAIN keep : i < k => m + i - 1 < m + k - 1
    <3>1. DOMAIN keep \subseteq Int /\ m \in Int
      BY <2>2, <2>5
    <3>2. ASSUME NEW i \in DOMAIN keep PROVE m + i - 1 \in DOMAIN all /\ keep[i] = all[m + i - 1]
      <4>1. i \in 1..(Len(all) - m + 1)
        BY <2>5
      <4>2. m + i - 1 \in 1..Len(all)
        BY <2>1, <2>2, <4>1
      <4>3. QED
        BY <2>1, <2>4, <4>1, <4>2
    <3>3. \A i, k \in DOMAIN keep : i < k => m + i - 1 < m + k - 1
      BY <3>1
    <3>4. QED
      BY <3>2, <3>3
  <2>7. Range(keep) \subseteq Range(all)
    BY <2>6 DEF Range
  <2>8. ASSUME Ordered(all) PROVE Ordered(keep)
    BY <2>6, <2>8 DEF Ordered
  <2>9. QED
    BY <2>7, <2>8
<1>4. QED
  BY <1>1, <1>2, <1>3

-----------------------------------------------------------------------------
(* The invariant.                                                          *)

Carries(c, k) == up[c][k].kind = "frame"
UpFrames == {f \in Frames : \E c \in Conns : \E k \in DOMAIN up[c] : Carries(c, k) /\ f = up[c][k].frame}
HeldFrames == {f \in Frames : \E i \in Ifaces : held[i] = f}

\* What the server has, the wire, the frames being resent, the ring, the channel and
\* the frames whose thread is blocked.
Stages == <<Range(got), UpFrames, Range(drain), Range(ring), Range(chan), HeldFrames>>

WireOrdered ==
    \A c \in Conns : \A j, k \in DOMAIN up[c] :
        j < k /\ Carries(c, j) /\ Carries(c, k) /\ up[c][j].frame.iface = up[c][k].frame.iface
        => up[c][j].frame.n < up[c][k].frame.n

SeqsOrdered == Ordered(got) /\ Ordered(drain) /\ Ordered(ring) /\ Ordered(chan)

\* Unless an operator has disconnected the sensor, and so left two handlers reading.
OrderInv == ~kicked => Line(Stages) /\ SeqsOrdered /\ WireOrdered

\* A frame captured next is numbered after all the others.
BoundInv == \A k \in 1..6 : \A f \in Stages[k] : f.n <= captured

HeldInv == \A i \in Ifaces : held[i] # None => held[i].iface = i

\* On a connection the channel is not followed by a ring.
RingInv == phase \in {"open", "stopping"} => ring = <<>>

\* Only a handler that runs has anything to read, and with OneSession it is the only one.
ServedInv ==
    \A c \in Conns : /\ up[c] # <<>> \/ link[c] = "up" => handler[c] = "running"
                     /\ link[c] = "none" => up[c] = <<>>

FrameInv == OrderInv /\ BoundInv /\ HeldInv /\ RingInv /\ ServedInv

LEMMA StagesAre ==
  /\ Stages[1] = Range(got) /\ Stages[2] = UpFrames /\ Stages[3] = Range(drain)
  /\ Stages[4] = Range(ring) /\ Stages[5] = Range(chan) /\ Stages[6] = HeldFrames
  BY DEF Stages
LEMMA StagesNext ==
  /\ Stages'[1] = Range(got') /\ Stages'[2] = UpFrames' /\ Stages'[3] = Range(drain')
  /\ Stages'[4] = Range(ring') /\ Stages'[5] = Range(chan') /\ Stages'[6] = HeldFrames'
  BY DEF Stages

LEMMA NoFrames == Range(<<>>) = {} /\ Ordered(<<>>)
  BY DEF Range, Ordered

\* A step that only loses frames.
LEMMA Loses ==
  ASSUME FrameInv, \A m \in 1..6 : Stages'[m] \subseteq Stages[m], captured' = captured, ~kicked' => ~kicked,
         OrderInv /\ ~kicked => SeqsOrdered' /\ WireOrdered'
  PROVE  OrderInv' /\ BoundInv'
<1>1. OrderInv'
  BY LineShrinks DEF FrameInv, OrderInv
<1>2. BoundInv'
  BY DEF FrameInv, BoundInv
<1>3. QED
  BY <1>1, <1>2

\* A step that moves the frames M from stage k to stage j.
LEMMA Flows ==
  ASSUME FrameInv, NEW j \in 1..6, NEW k \in 1..6, j < k, NEW M, M \subseteq Stages[k],
         ~kicked => Less(M, Stages'[k]), Stages'[j] \subseteq Stages[j] \cup M,
         \A m \in 1..6 : m # j => Stages'[m] \subseteq Stages[m],
         \A m \in 1..6 : j < m /\ m < k => Stages[m] = {},
         captured' = captured, ~kicked' => ~kicked,
         OrderInv /\ ~kicked => SeqsOrdered' /\ WireOrdered'
  PROVE  OrderInv' /\ BoundInv'
<1>1. ASSUME ~kicked' PROVE Line(Stages')
  <2>1. Line(Stages) /\ Less(M, Stages'[k])
    BY <1>1 DEF FrameInv, OrderInv
  <2>2. QED
    BY <2>1, LineFlows
<1>2. OrderInv'
  BY <1>1 DEF FrameInv, OrderInv
<1>3. BoundInv'
  BY DEF FrameInv, BoundInv
<1>4. QED
  BY <1>2, <1>3

\* Messages the server has read, or that are lost with the handler.
LEMMA UpShrinks ==
  ASSUME TypeOK, up' \in [Conns -> Seq(UpMsgs)],
         \A c \in Conns : \E s \in Nat : \A k \in DOMAIN up'[c] :
             up'[c][k].kind = "frame" => k + s \in DOMAIN up[c] /\ up'[c][k] = up[c][k + s]
  PROVE  UpFrames' \subseteq UpFrames /\ (WireOrdered => WireOrdered')
<1>1. UpFrames' \subseteq UpFrames
  BY DEF UpFrames, Carries
<1>2. ASSUME WireOrdered PROVE WireOrdered'
  <2>1. SUFFICES ASSUME NEW c \in Conns, NEW j \in DOMAIN up'[c], NEW k \in DOMAIN up'[c], j < k,
                        up'[c][j].kind = "frame", up'[c][k].kind = "frame",
                        up'[c][j].frame.iface = up'[c][k].frame.iface
                 PROVE  up'[c][j].frame.n < up'[c][k].frame.n
    BY DEF WireOrdered, Carries
  <2>2. PICK s \in Nat : \A h \in DOMAIN up'[c] :
             up'[c][h].kind = "frame" => h + s \in DOMAIN up[c] /\ up'[c][h] = up[c][h + s]
    OBVIOUS
  <2>3. DOMAIN up'[c] = 1..Len(up'[c]) /\ Len(up'[c]) \in Nat
    BY LenProperties
  <2>4. j + s < k + s
    BY <2>1, <2>2, <2>3
  <2>5. /\ j + s \in DOMAIN up[c] /\ up'[c][j] = up[c][j + s]
        /\ k + s \in DOMAIN up[c] /\ up'[c][k] = up[c][k + s]
    BY <2>1, <2>2
  <2>6. QED
    BY <1>2, <2>1, <2>4, <2>5 DEF WireOrdered, Carries
<1>3. QED
  BY <1>1, <1>2

\* A message of the sensor; only a frame adds to the frames on the wire.
LEMMA UpGrows ==
  ASSUME TypeOK, NEW c \in Conns, NEW m \in UpMsgs, up' = Delivered(up, c, <<m>>),
         NEW G, m.kind = "frame" => m.frame \in G
  PROVE  /\ UpFrames' \subseteq UpFrames \cup G
         /\ WireOrdered /\ Less(UpFrames, G) => WireOrdered'
         /\ \A d \in Conns : up'[d] = up[d] \/ (d = c /\ link[c] = "up")
<1>0. up \in [Conns -> Seq(UpMsgs)]
  BY DEF TypeOK
<1>1. CASE up' = up
  BY <1>1 DEF UpFrames, WireOrdered, Carries
<1>2. CASE up' = [up EXCEPT ![c] = @ \o <<m>>] /\ link[c] = "up"
  <2>1. up'[c] = up[c] \o <<m>> /\ \A d \in Conns : d # c => up'[d] = up[d]
    BY <1>0, <1>2
  <2>2. up[c] \in Seq(UpMsgs) /\ Len(up[c]) \in Nat /\ DOMAIN up[c] = 1..Len(up[c])
    BY <1>0, LenProperties
  <2>3. /\ DOMAIN up'[c] = 1..(Len(up[c]) + 1)
        /\ \A k \in 1..Len(up[c]) : up'[c][k] = up[c][k]
        /\ up'[c][Len(up[c]) + 1] = m
    BY <2>1, <2>2
  <2>4. \A k \in DOMAIN up'[c] : (k \in DOMAIN up[c] /\ up'[c][k] = up[c][k]) \/ up'[c][k] = m
    BY <2>2, <2>3
  <2>5. UpFrames' \subseteq UpFrames \cup G
    <3>1. SUFFICES ASSUME NEW f \in Frames, NEW d \in Conns, NEW k \in DOMAIN up'[d],
                          up'[d][k].kind = "frame", f = up'[d][k].frame
                   PROVE  f \in UpFrames \cup G
      BY DEF UpFrames, Carries
    <3>2. CASE k \in DOMAIN up[d] /\ up'[d][k] = up[d][k]
      BY <3>1, <3>2 DEF UpFrames, Carries
    <3>3. CASE up'[d][k] = m
      BY <3>1, <3>3
    <3>4. QED
      BY <2>1, <2>4, <3>2, <3>3
  <2>6. ASSUME WireOrdered, Less(UpFrames, G) PROVE WireOrdered'
    <3>1. SUFFICES ASSUME NEW d \in Conns, NEW j \in DOMAIN up'[d], NEW k \in DOMAIN up'[d], j < k,
                          up'[d][j].kind = "frame", up'[d][k].kind = "frame",
                          up'[d][j].frame.iface = up'[d][k].frame.iface
                   PROVE  up'[d][j].frame.n < up'[d][k].frame.n
      BY DEF WireOrdered, Carries
    <3>2. CASE d # c
      BY <2>1, <2>6, <3>1, <3>2 DEF WireOrdered, Carries
    <3>3. CASE d = c
      <4>1. j \in 1..Len(up[c]) /\ up'[c][j] = up[c][j]
        BY <2>2, <2>3, <3>1, <3>3
      <4>2. CASE k \in 1..Len(up[c])
        BY <2>2, <2>3, <2>6, <3>1, <3>3, <4>1, <4>2 DEF WireOrdered, Carries
      <4>3. CASE k = Len(up[c]) + 1
        <5>1. up'[c][k] = m /\ m.frame \in G
          BY <2>3, <3>1, <3>3, <4>3
        <5>2. up[c][j] \in UpMsgs /\ up[c][j].kind = "frame"
          BY <2>2, <3>1, <3>3, <4>1, ElementOfSeq
        <5>3. up[c][j].frame \in Frames
          BY <5>2 DEF UpMsgs
        <5>4. up[c][j].frame \in UpFrames
          BY <2>2, <4>1, <5>2, <5>3 DEF UpFrames, Carries
        <5>5. QED
          BY <2>6, <3>1, <3>3, <4>1, <5>1, <5>4 DEF Less
      <4>4. QED
        BY <2>2, <2>3, <3>1, <3>3, <4>2, <4>3
    <3>4. QED
      BY <3>2, <3>3
  <2>7. QED
    BY <1>2, <2>1, <2>5, <2>6
<1>3. QED
  BY <1>1, <1>2 DEF Delivered

-----------------------------------------------------------------------------
(* The parts about who reads and what is where.                            *)

\* The sensor's messages: frames and capture reports.
LEMMA SensorSends ==
  ASSUME TypeOK, ConnInv, Forward \/ StartCaptures \/ StopCaptures
  PROVE  /\ UNCHANGED <<mode, conn, ring, held, link, down, server, captured, got, kicked>>
         /\ conn \in Conns
         /\ \E m \in UpMsgs : /\ up' = Delivered(up, conn, <<m>>)
                              /\ m.kind = "frame" => Forward
<1>1. CASE Forward
  <2>1. drain \in Seq(Frames) /\ chan \in Seq(Frames)
    BY DEF TypeOK
  <2>2. (drain # <<>> => Head(drain) \in Frames) /\ (chan # <<>> => Head(chan) \in Frames)
    BY <2>1, HeadTailProperties
  <2>3. QED
    BY <1>1, <2>2, FrameMsg DEF Forward, ConnInv, past
<1>2. CASE StartCaptures
  <2>1. phase = "stopping" /\ task # None /\ conn \in Conns
    BY <1>2 DEF StartCaptures, Joined, ConnInv
  <2>2. task.list.sel \in SUBSET Ifaces
    BY <2>1, CommandList DEF TypeOK
  <2>3. PICK ok \in SUBSET task.list.sel : up' = Delivered(up, conn, <<[kind |-> "capturing", sel |-> ok]>>)
    BY <1>2 DEF StartCaptures, CaptureStatus
  <2>4. [kind |-> "capturing", sel |-> ok] \in UpMsgs
    BY <2>2, <2>3, StatusMsg
  <2>5. QED
    BY <1>2, <2>1, <2>3, <2>4 DEF StartCaptures
<1>3. CASE StopCaptures
  <2>1. conn \in Conns /\ up' = Delivered(up, conn, <<[kind |-> "idle", sel |-> {}]>>)
    BY <1>3 DEF StopCaptures, Joined, ConnInv, CaptureStatus
  <2>2. [kind |-> "idle", sel |-> {}] \in UpMsgs
    BY StatusMsg
  <2>3. QED
    BY <1>3, <2>1, <2>2 DEF StopCaptures
<1>4. QED
  BY <1>1, <1>2, <1>3

LEMMA SensorLeaves ==
  ASSUME ConnInv, Disconnect \/ SendFails \/ DirectSendFails \/ DirectDone
  PROVE  /\ UNCHANGED <<mode, alive, up, server, captured, got, failed, kicked>> /\ conn \in Conns
         /\ \E to \in {"off", "away"}, how \in {"clean", "error"} : Leave(to, how)
<1>1. conn \in Conns
  BY DEF Disconnect, SendFails, DirectSendFails, DirectDone, Joined, ConnInv
<1>2. UNCHANGED <<mode, alive, up, server, captured, got, failed, kicked>>
  BY DEF Disconnect, SendFails, DirectSendFails, DirectDone
<1>3. QED
  BY <1>1, <1>2 DEF Disconnect, SendFails, DirectSendFails, DirectDone

\* What a handler reads: the head of its queue, or nothing.
Reads(c) ==
    /\ handler[c] = "running" /\ UNCHANGED <<link, handler>>
    /\ up[c] # <<>> /\ up' = [up EXCEPT ![c] = Tail(@)]
    /\ \/ got' = got
       \/ Head(up[c]).kind = "frame" /\ got' = Append(got, Head(up[c]).frame)

LEMMA HandlerReads ==
  ASSUME NEW c \in Conns, Handler(c)
  PROVE  /\ Reads(c) \/ HandlerEnds(c) \/ UNCHANGED <<link, up, handler, got>>
         /\ kicked' = kicked
<1>1. CASE Receive(c)
  BY <1>1 DEF Receive, Reading, Reads
<1>2. CASE SetTogether(c)
  <2>1. \E other : Mixed(c, other)
    BY <1>2 DEF SetTogether
  <2>2. UNCHANGED <<link, handler, got, kicked>>
    BY <2>1 DEF Mixed, past
  <2>3. up' = up \/ (handler[c] = "running" /\ up[c] # <<>> /\ up' = [up EXCEPT ![c] = Tail(@)])
    BY <1>2 DEF SetTogether, Reading
  <2>4. QED
    BY <2>2, <2>3 DEF Reads
<1>3. QED
  BY <1>1, <1>2 DEF Handler, RestoreSend, RestoreShow, Resume, HandlerEnds, wire, past

LEMMA WebReads ==
  ASSUME Web
  PROVE  UNCHANGED <<link, up, handler, got>> /\ (~kicked' => ~kicked)
  BY DEF Web, WebStart, WebStop, WebBegin, WebSave, WebSend, WebDisconnect, wire, past

LEMMA ServedStep ==
  ASSUME TypeOK, ConnInv, ServedInv, [Next]_vars
  PROVE  ServedInv'
<1>0. /\ up \in [Conns -> Seq(UpMsgs)] /\ link \in [Conns -> {"none", "up", "cut"}]
      /\ handler \in [Conns -> {"none", "running", "ended"}] /\ registered \in Owners
  BY DEF TypeOK
<1>1. ASSUME UNCHANGED <<link, up, handler>> PROVE ServedInv'
  BY <1>1 DEF ServedInv
<1>2. CASE UNCHANGED vars \/ (\E i \in Ifaces : Thread(i)) \/ SensorStart \/ Web
           \/ ConnectFails \/ Command \/ ReadEnd
  BY <1>1, <1>2, WebReads DEF vars, Thread, Capture, StrayCapture, Unblock, CaptureError, ThreadStops,
                              SensorStart, ConnectFails, Command, ReadEnd, wire, server
<1>3. CASE Forward \/ StartCaptures \/ StopCaptures
  <2>1. UNCHANGED <<link, handler>> /\ conn \in Conns
    BY <1>3, SensorSends DEF server
  <2>2. PICK m \in UpMsgs : up' = Delivered(up, conn, <<m>>)
    BY <1>3, SensorSends
  <2>3. \A d \in Conns : up'[d] = up[d] \/ (d = conn /\ link[conn] = "up")
    BY <1>0, <2>1, <2>2 DEF Delivered
  <2>4. QED
    BY <2>1, <2>3 DEF ServedInv
<1>4. CASE Disconnect \/ SendFails \/ DirectSendFails \/ DirectDone
  <2>1. UNCHANGED <<up, handler>> /\ conn \in Conns /\ link' = [link EXCEPT ![conn] = "cut"]
    BY <1>4, SensorLeaves DEF server, Leave
  <2>2. QED
    BY <1>0, <2>1 DEF ServedInv
<1>5. CASE Connect
  <2>1. PICK c \in Conns : link[c] = "none" /\ Accept(c)
    BY <1>5 DEF Connect
  <2>2. up[c] = <<>>
    BY <2>1 DEF ServedInv
  <2>3. \/ /\ handler' = [handler EXCEPT ![c] = "running"] /\ link' = [link EXCEPT ![c] = "up"]
           /\ up' = [up EXCEPT ![c] = <<[kind |-> "discovery"]>>]
        \/ /\ handler' = [handler EXCEPT ![c] = "ended"] /\ link' = [link EXCEPT ![c] = "cut"]
           /\ up' = up
    BY <2>1 DEF Accept
  <2>4. /\ \A d \in Conns : d # c => up'[d] = up[d] /\ link'[d] = link[d] /\ handler'[d] = handler[d]
        /\ \/ handler'[c] = "running" /\ link'[c] = "up"
           \/ up'[c] = <<>> /\ link'[c] = "cut"
    BY <1>0, <2>2, <2>3
  <2>5. QED
    BY <2>4 DEF ServedInv
<1>6. CASE SensorCrash
  <2>1. /\ UNCHANGED <<up, handler>>
        /\ link' = [c \in Conns |-> IF link[c] = "up" THEN "cut" ELSE link[c]]
    BY <1>6 DEF SensorCrash, server
  <2>2. QED
    BY <1>0, <2>1 DEF ServedInv
<1>7. ASSUME NEW c \in Conns, Cut(c) PROVE ServedInv'
  <2>1. UNCHANGED <<up, handler>> /\ link' = [link EXCEPT ![c] = "cut"]
    BY <1>7 DEF Cut, server
  <2>2. QED
    BY <1>0, <2>1 DEF ServedInv
<1>8. ASSUME NEW c \in Conns, Reads(c) PROVE ServedInv'
  <2>1. /\ UNCHANGED <<link, handler>> /\ up[c] # <<>>
        /\ up' = [up EXCEPT ![c] = Tail(@)]
    BY <1>8 DEF Reads
  <2>2. QED
    BY <1>0, <2>1 DEF ServedInv
<1>9. ASSUME NEW c \in Conns, HandlerEnds(c) PROVE ServedInv'
  <2>1. /\ link' = link /\ link[c] = "cut" /\ handler' = [handler EXCEPT ![c] = "ended"]
        /\ up' = [up EXCEPT ![c] = <<>>]
    BY <1>9 DEF HandlerEnds
  <2>2. QED
    BY <1>0, <2>1 DEF ServedInv
<1>10. CASE ServerCrash
  <2>1. /\ up' = [c \in Conns |-> <<>>]
        /\ link' = [c \in Conns |-> IF link[c] = "up" THEN "cut" ELSE link[c]]
    BY <1>10 DEF ServerCrash
  <2>2. QED
    BY <1>0, <2>1 DEF ServedInv
<1>11. ASSUME NEW c \in Conns, Handler(c) PROVE ServedInv'
  BY <1>1, <1>8, <1>9, <1>11, HandlerReads
<1>12. QED
  BY <1>2, <1>3, <1>4, <1>5, <1>6, <1>7, <1>10, <1>11 DEF Next, SensorLoop

LEMMA HeldStep ==
  ASSUME TypeOK, HeldInv, [Next]_vars
  PROVE  HeldInv'
<1>0. held \in [Ifaces -> Frames \cup {None}]
  BY DEF TypeOK
<1>1. ASSUME held' = held \/ held' = Nothing PROVE HeldInv'
  BY <1>1 DEF HeldInv, Nothing
<1>2. ASSUME NEW i \in Ifaces, Thread(i) PROVE HeldInv'
  <2>1. CASE Capture(i)
    <3>1. held' = held \/ held' = [held EXCEPT ![i] = [iface |-> i, n |-> captured + 1]]
      BY <2>1 DEF Capture
    <3>2. QED
      BY <1>0, <3>1 DEF HeldInv
  <2>2. CASE Unblock(i)
    <3>1. held' = [held EXCEPT ![i] = None]
      BY <2>2 DEF Unblock
    <3>2. QED
      BY <1>0, <3>1 DEF HeldInv
  <2>3. CASE StrayCapture(i) \/ CaptureError(i) \/ ThreadStops(i)
    BY <1>1, <2>3 DEF StrayCapture, CaptureError, ThreadStops
  <2>4. QED
    BY <1>2, <2>1, <2>2, <2>3 DEF Thread
<1>3. CASE SensorLoop
  BY <1>1, <1>3 DEF SensorLoop, Connect, ConnectFails, Forward, Command, ReadEnd, StartCaptures,
                    StopCaptures, Disconnect, SendFails, DirectSendFails, DirectDone
<1>4. CASE \/ UNCHANGED vars \/ (\E c \in Conns : Handler(c) \/ Cut(c)) \/ Web \/ SensorCrash
           \/ SensorStart \/ ServerCrash
  BY <1>1, <1>4, ServerLeaves DEF vars, Cut, SensorCrash, SensorStart, ServerCrash, process
<1>5. QED
  BY <1>2, <1>3, <1>4 DEF Next

LEMMA RingStep ==
  ASSUME RingInv, [Next]_vars
  PROVE  RingInv'
<1>1. ASSUME ring' = ring, phase' = phase \/ phase \in {"open", "stopping"} PROVE RingInv'
  BY <1>1 DEF RingInv
<1>2. ASSUME phase' \in {"off", "away"} \/ ring' = <<>> PROVE RingInv'
  BY <1>2 DEF RingInv
<1>3. CASE Command \/ ReadEnd \/ StartCaptures \/ StopCaptures \/ Forward
  BY <1>1, <1>3 DEF Command, ReadEnd, StartCaptures, StopCaptures, Forward, Joined
<1>4. CASE Connect \/ ConnectFails \/ Disconnect \/ SendFails \/ DirectSendFails \/ DirectDone
           \/ SensorCrash \/ SensorStart
  BY <1>2, <1>4 DEF Connect, ConnectFails, Disconnect, SendFails, DirectSendFails, DirectDone, Leave,
                    SensorCrash, SensorStart
<1>5. CASE \/ UNCHANGED vars \/ (\E c \in Conns : Handler(c) \/ Cut(c)) \/ Web \/ ServerCrash
           \/ (\E i \in Ifaces : Thread(i))
  BY <1>1, <1>5, ServerLeaves DEF vars, Cut, ServerCrash, process, Thread, Capture, StrayCapture,
                                  Unblock, CaptureError, ThreadStops
<1>6. QED
  BY <1>3, <1>4, <1>5 DEF Next, SensorLoop

-----------------------------------------------------------------------------
(* The part about order.                                                   *)

LEMMA StageType == TypeOK => \A m \in 1..6 : Stages[m] \subseteq Frames
<1> SUFFICES ASSUME TypeOK PROVE \A m \in 1..6 : Stages[m] \subseteq Frames
  OBVIOUS
<1>1. \A q \in Seq(Frames) : Range(q) \subseteq Frames
  BY RangeDef, ElementOfSeq
<1>2. /\ Stages[1] \subseteq Frames /\ Stages[3] \subseteq Frames
      /\ Stages[4] \subseteq Frames /\ Stages[5] \subseteq Frames
  BY <1>1, StagesAre DEF TypeOK
<1>3. Stages[2] \subseteq Frames /\ Stages[6] \subseteq Frames
  BY StagesAre DEF UpFrames, HeldFrames
<1>4. QED
  BY <1>2, <1>3

LEMMA UpSame == up' = up => UpFrames' = UpFrames /\ (WireOrdered => WireOrdered')
  BY DEF UpFrames, WireOrdered, Carries
LEMMA HeldSame == held' = held => HeldFrames' = HeldFrames
  BY DEF HeldFrames
LEMMA SeqsType == TypeOK => got \in Seq(Frames) /\ drain \in Seq(Frames) /\ ring \in Seq(Frames)
                            /\ chan \in Seq(Frames)
  BY DEF TypeOK

\* One fact for each stage.
LEMMA SixStages ==
  ASSUME NEW j \in 0..6, NEW M,
         j # 1 => Range(got') \subseteq Range(got), j = 1 => Range(got') \subseteq Range(got) \cup M,
         j # 2 => UpFrames' \subseteq UpFrames, j = 2 => UpFrames' \subseteq UpFrames \cup M,
         j # 3 => Range(drain') \subseteq Range(drain), j = 3 => Range(drain') \subseteq Range(drain) \cup M,
         j # 4 => Range(ring') \subseteq Range(ring), j = 4 => Range(ring') \subseteq Range(ring) \cup M,
         j # 5 => Range(chan') \subseteq Range(chan), j = 5 => Range(chan') \subseteq Range(chan) \cup M,
         j # 6 => HeldFrames' \subseteq HeldFrames, j = 6 => HeldFrames' \subseteq HeldFrames \cup M
  PROVE  /\ \A m \in 1..6 : m # j => Stages'[m] \subseteq Stages[m]
         /\ j # 0 => Stages'[j] \subseteq Stages[j] \cup M
<1>1. \A m \in 1..6 : m = 1 \/ m = 2 \/ m = 3 \/ m = 4 \/ m = 5 \/ m = 6
  OBVIOUS
<1>2. \A m \in 1..6 : m # j => Stages'[m] \subseteq Stages[m]
  BY <1>1, StagesAre, StagesNext
<1>3. j # 0 => j \in 1..6
  OBVIOUS
<1>4. j # 0 => Stages'[j] \subseteq Stages[j] \cup M
  BY <1>1, <1>3, StagesAre, StagesNext
<1>5. QED
  BY <1>2, <1>4

\* A captured frame joins the channel, or waits for it.
LEMMA Grows ==
  ASSUME TypeOK, FrameInv, NEW j \in 1..6, NEW f \in Frames, f.n = captured + 1,
         captured' = captured + 1, kicked' = kicked, Stages'[j] \subseteq Stages[j] \cup {f},
         \A m \in 1..6 : m # j => Stages'[m] \subseteq Stages[m],
         \A m \in 1..6 : j < m => Less({f}, Stages[m]),
         OrderInv /\ ~kicked => SeqsOrdered' /\ WireOrdered'
  PROVE  OrderInv' /\ BoundInv'
<1>1. captured \in Nat /\ \A g \in Frames : g.n \in Nat
  BY SensorAssumption DEF TypeOK, Frames
<1>2. \A m \in 1..6 : \A g \in Stages[m] : g \in Frames /\ g.n <= captured
  BY StageType DEF FrameInv, BoundInv
<1>3. \A m \in 1..6 : Less(Stages[m], {f})
  BY <1>1, <1>2 DEF Less
<1>4. ASSUME ~kicked PROVE Line(Stages')
  BY <1>3, <1>4, LineGrows DEF FrameInv, OrderInv
<1>5. OrderInv'
  BY <1>4 DEF FrameInv, OrderInv
<1>6. BoundInv'
  <2>1. SUFFICES ASSUME NEW m \in 1..6, NEW g \in Stages'[m] PROVE g.n <= captured'
    BY DEF BoundInv
  <2>2. CASE g \in Stages[m]
    BY <1>1, <1>2, <2>2
  <2>3. CASE g = f
    BY <1>1, <2>3
  <2>4. QED
    BY <2>1, <2>2, <2>3
<1>7. QED
  BY <1>5, <1>6

\* A step that touches no frame.
LEMMA OrderSame ==
  ASSUME FrameInv, UNCHANGED <<got, up, drain, ring, chan, held, captured>>, ~kicked' => ~kicked
  PROVE  OrderInv' /\ BoundInv'
<1>1. \A m \in 1..6 : Stages'[m] \subseteq Stages[m]
  <2>1. UpFrames' = UpFrames /\ HeldFrames' = HeldFrames
    BY UpSame, HeldSame
  <2>2. QED
    BY <2>1 DEF Stages
<1>2. OrderInv /\ ~kicked => SeqsOrdered' /\ WireOrdered'
  BY UpSame DEF OrderInv, SeqsOrdered
<1>3. QED
  BY <1>1, <1>2, Loses

\* A captured frame that finds room goes to the end of the channel.
LEMMA ChanOrder ==
  ASSUME TypeOK, FrameInv, NEW f \in Frames, f.n = captured + 1, captured' = captured + 1,
         UNCHANGED <<got, up, drain, ring, kicked, held>>, chan' = Append(chan, f), Less({f}, HeldFrames)
  PROVE  OrderInv' /\ BoundInv'
<1>1. /\ Range(chan') \subseteq Range(chan) \cup {f}
      /\ Ordered(chan) /\ Less(Range(chan), {f}) => Ordered(chan')
  BY OrderedAppend, SeqsType
<1>2. UpFrames' = UpFrames /\ (WireOrdered => WireOrdered') /\ HeldFrames' = HeldFrames
  BY UpSame, HeldSame
<1>3. /\ \A m \in 1..6 : m # 5 => Stages'[m] \subseteq Stages[m]
      /\ Stages'[5] \subseteq Stages[5] \cup {f}
  <2>1. 5 \in 0..6 /\ 5 # 0
    OBVIOUS
  <2>2. QED
    BY <1>1, <1>2, <2>1, SixStages
<1>4. \A m \in 1..6 : 5 < m => Less({f}, Stages[m])
  <2>1. \A m \in 1..6 : 5 < m => m = 6
    OBVIOUS
  <2>2. QED
    BY <2>1, StagesAre
<1>5. Less(Range(chan), {f})
  <2>1. \A g \in Range(chan) : g \in Frames /\ g.n <= captured
    BY StageType, StagesAre DEF FrameInv, BoundInv
  <2>2. captured \in Nat /\ \A g \in Frames : g.n \in Nat
    BY SensorAssumption DEF TypeOK, Frames
  <2>3. QED
    BY <2>1, <2>2 DEF Less
<1>6. OrderInv /\ ~kicked => SeqsOrdered' /\ WireOrdered'
  BY <1>1, <1>2, <1>5 DEF OrderInv, SeqsOrdered
<1>7. 5 \in 1..6
  OBVIOUS
<1>8. QED
  BY <1>3, <1>4, <1>6, <1>7, Grows

LEMMA ThreadOrder ==
  ASSUME TypeOK, FrameInv, NEW i \in Ifaces, Thread(i)
  PROVE  OrderInv' /\ BoundInv'
<1>0. held \in [Ifaces -> Frames \cup {None}] /\ None \notin Frames
  BY SensorAssumption DEF TypeOK
<1>1. CASE Capture(i)
  <2> DEFINE f == [iface |-> i, n |-> captured + 1]
  <2>1. f \in Frames /\ f.n = captured + 1 /\ f.iface = i
    BY <1>1, SensorAssumption DEF Capture, Frames, TypeOK
  <2>2. UNCHANGED <<got, up, drain, ring, kicked>> /\ captured' = captured + 1 /\ held[i] = None
    BY <1>1 DEF Capture, wire
  <2>3. \/ chan' = Append(chan, f) /\ held' = held
        \/ chan' = chan /\ held' = [held EXCEPT ![i] = f]
    BY <1>1 DEF Capture
  <2> HIDE DEF f
  <2>4. UpFrames' = UpFrames /\ (WireOrdered => WireOrdered')
    BY <2>2, UpSame
  <2>5. CASE chan' = Append(chan, f) /\ held' = held
    <3>1. Less({f}, HeldFrames)
      BY <1>0, <2>1, <2>2 DEF Less, HeldFrames, HeldInv, FrameInv
    <3>2. QED
      BY <2>1, <2>2, <2>5, <3>1, ChanOrder
  <2>6. CASE chan' = chan /\ held' = [held EXCEPT ![i] = f]
    <3>1. HeldFrames' \subseteq HeldFrames \cup {f}
      BY <1>0, <2>6 DEF HeldFrames
    <3>2. /\ \A m \in 1..6 : m # 6 => Stages'[m] \subseteq Stages[m]
          /\ Stages'[6] \subseteq Stages[6] \cup {f}
      <4>1. 6 \in 0..6 /\ 6 # 0
        OBVIOUS
      <4>2. QED
        BY <2>2, <2>4, <2>6, <3>1, <4>1, SixStages
    <3>3. OrderInv /\ ~kicked => SeqsOrdered' /\ WireOrdered'
      BY <2>2, <2>4, <2>6 DEF OrderInv, SeqsOrdered
    <3>4. 6 \in 1..6 /\ \A m \in 1..6 : ~(6 < m)
      OBVIOUS
    <3>5. QED
      BY <2>1, <2>2, <3>2, <3>3, <3>4, Grows
  <2>7. QED
    BY <2>3, <2>5, <2>6
<1>2. CASE Unblock(i)
  <2>1. /\ UNCHANGED <<got, up, drain, ring, captured, kicked>> /\ held[i] # None
        /\ chan' = Append(chan, held[i]) /\ held' = [held EXCEPT ![i] = None]
    BY <1>2 DEF Unblock, wire, past
  <2> DEFINE f == held[i]
  <2>2. f \in Frames /\ f.iface = i /\ f \in HeldFrames
    BY <1>0, <2>1 DEF HeldFrames, FrameInv, HeldInv
  <2>3. /\ Range(chan') \subseteq Range(chan) \cup {f}
        /\ Ordered(chan) /\ Less(Range(chan), {f}) => Ordered(chan')
    BY <2>1, <2>2, OrderedAppend, SeqsType
  <2>4. \A k \in Ifaces : held'[k] = IF k = i THEN None ELSE held[k]
    BY <1>0, <2>1
  <2>5. HeldFrames' \subseteq HeldFrames /\ Less({f}, HeldFrames')
    BY <1>0, <2>2, <2>4 DEF HeldFrames, Less, FrameInv, HeldInv
  <2> HIDE DEF f
  <2>6. UpFrames' = UpFrames /\ (WireOrdered => WireOrdered')
    BY <2>1, UpSame
  <2>7. /\ \A m \in 1..6 : m # 5 => Stages'[m] \subseteq Stages[m]
        /\ Stages'[5] \subseteq Stages[5] \cup {f}
    <3>1. 5 \in 0..6 /\ 5 # 0
      OBVIOUS
    <3>2. QED
      BY <2>1, <2>3, <2>5, <2>6, <3>1, SixStages
  <2>8. ~kicked => Less(Range(chan), {f})
    <3>1. ~kicked => Less(Stages[5], Stages[6])
      BY DEF FrameInv, OrderInv, Line
    <3>2. QED
      BY <2>2, <3>1, StagesAre DEF Less
  <2>9. OrderInv /\ ~kicked => SeqsOrdered' /\ WireOrdered'
    BY <2>1, <2>3, <2>6, <2>8 DEF OrderInv, SeqsOrdered
  <2>10. /\ {f} \subseteq Stages[6] /\ Less({f}, Stages'[6])
         /\ 5 \in 1..6 /\ 6 \in 1..6 /\ 5 < 6 /\ \A m \in 1..6 : ~(5 < m /\ m < 6)
    BY <2>2, <2>5, StagesAre, StagesNext
  <2>11. QED
    BY <2>1, <2>7, <2>9, <2>10, Flows
<1>3. CASE CaptureError(i) \/ ThreadStops(i)
  BY <1>3, OrderSame DEF CaptureError, ThreadStops, wire, past
<1>4. CASE StrayCapture(i)
  <2> DEFINE f == [iface |-> Stray, n |-> captured + 1]
  <2>1. UNCHANGED <<got, up, drain, ring, kicked, held>>
    BY <1>4 DEF StrayCapture, wire
  <2>2. \/ captured < MaxFrames /\ captured' = captured + 1 /\ chan' = Append(chan, f)
        \/ UNCHANGED <<captured, chan>>
    BY <1>4 DEF StrayCapture
  <2>3. CASE captured < MaxFrames /\ captured' = captured + 1 /\ chan' = Append(chan, f)
    <3>1. f \in Frames /\ f.n = captured + 1 /\ f.iface = Stray
      BY <2>3, SensorAssumption DEF Frames, TypeOK
    <3> HIDE DEF f
    <3>2. Less({f}, HeldFrames)
      BY <1>0, <3>1, SensorAssumption DEF Less, HeldFrames, HeldInv, FrameInv
    <3>3. QED
      BY <2>1, <2>3, <3>1, <3>2, ChanOrder
  <2>4. QED
    BY <2>1, <2>2, <2>3, OrderSame
<1>5. QED
  BY <1>1, <1>2, <1>3, <1>4 DEF Thread

\* Frames the sensor moves on, stage by stage.
LEMMA LoopOrder ==
  ASSUME TypeOK, TypeOK', ConnInv, FrameInv, SensorLoop
  PROVE  OrderInv' /\ BoundInv'
<1> USE NoFrames
<1>0. SensorLoop => UNCHANGED <<got, captured, kicked>>
  BY DEF SensorLoop, Connect, ConnectFails, Forward, Command, ReadEnd, StartCaptures, StopCaptures,
         Disconnect, SendFails, DirectSendFails, DirectDone, past
<1>1. CASE Connect
  <2>1. PICK c \in Conns : link[c] = "none" /\ Accept(c)
    BY <1>1 DEF Connect
  <2>2. UNCHANGED <<chan, held>> /\ drain' = ring /\ ring' = <<>>
    BY <1>1 DEF Connect
  <2>3. up' = up \/ up' = [up EXCEPT ![c] = <<[kind |-> "discovery"]>>]
    BY <2>1 DEF Accept
  <2>4. \A d \in Conns : up'[d] = up[d] \/ up'[d] = <<[kind |-> "discovery"]>>
    BY <2>3 DEF TypeOK
  <2>5. \A k \in DOMAIN <<[kind |-> "discovery"]>> : <<[kind |-> "discovery"]>>[k].kind # "frame"
    OBVIOUS
  <2>6. \A d \in Conns : \A k \in DOMAIN up'[d] :
            up'[d][k].kind = "frame" => k + 0 \in DOMAIN up[d] /\ up'[d][k] = up[d][k + 0]
    <3>1. SUFFICES ASSUME NEW d \in Conns, up'[d] = up[d], NEW k \in DOMAIN up[d] PROVE k + 0 = k
      BY <2>4, <2>5
    <3>2. up[d] \in Seq(UpMsgs)
      BY DEF TypeOK
    <3>3. QED
      BY <3>1, <3>2
  <2>7. UpFrames' \subseteq UpFrames /\ (WireOrdered => WireOrdered')
    <3>1. 0 \in Nat /\ up' \in [Conns -> Seq(UpMsgs)]
      BY DEF TypeOK
    <3>2. QED
      BY <2>6, <3>1, UpShrinks
  <2>8. /\ \A m \in 1..6 : m # 3 => Stages'[m] \subseteq Stages[m]
        /\ Stages'[3] \subseteq Stages[3] \cup Range(ring)
    <3>1. 3 \in 0..6 /\ 3 # 0 /\ HeldFrames' = HeldFrames
      BY <2>2, HeldSame
    <3>2. QED
      BY <1>0, <1>1, <2>2, <2>7, <3>1, SixStages DEF SensorLoop
  <2>9. /\ Range(ring) \subseteq Stages[4] /\ Less(Range(ring), Stages'[4])
        /\ 3 \in 1..6 /\ 4 \in 1..6 /\ 3 < 4 /\ \A m \in 1..6 : ~(3 < m /\ m < 4)
    BY <2>2, StagesAre, StagesNext DEF Less
  <2>10. OrderInv /\ ~kicked => SeqsOrdered' /\ WireOrdered'
    BY <1>0, <1>1, <2>2, <2>7 DEF OrderInv, SeqsOrdered, SensorLoop
  <2>11. QED
    BY <1>0, <1>1, <2>8, <2>9, <2>10, Flows DEF SensorLoop
<1>2. ASSUME NEW s \in Seq(Frames), Range(s) \subseteq Range(chan), Ordered(chan) => Ordered(s),
             ring' = PushAll(ring, s), chan' = <<>>, UNCHANGED <<up, held, got, captured, kicked>>,
             drain' = drain \/ drain' = <<>>
      PROVE  OrderInv' /\ BoundInv'
  <2>1. /\ Range(ring') \subseteq Range(ring) \cup Range(s)
        /\ Ordered(ring) /\ Ordered(s) /\ Less(Range(ring), Range(s)) => Ordered(ring')
    BY <1>2, OrderedPush, SeqsType
  <2>2. ~kicked => Less(Range(ring), Range(s))
    <3>1. ~kicked => Less(Stages[4], Stages[5])
      BY DEF FrameInv, OrderInv, Line
    <3>2. QED
      BY <1>2, <3>1, StagesAre DEF Less
  <2>3. UpFrames' = UpFrames /\ (WireOrdered => WireOrdered') /\ HeldFrames' = HeldFrames
    BY <1>2, UpSame, HeldSame
  <2>4. /\ \A m \in 1..6 : m # 4 => Stages'[m] \subseteq Stages[m]
        /\ Stages'[4] \subseteq Stages[4] \cup Range(s)
    <3>1. 4 \in 0..6 /\ 4 # 0
      OBVIOUS
    <3>2. QED
      BY <1>2, <2>1, <2>3, <3>1, SixStages
  <2>5. /\ Range(s) \subseteq Stages[5] /\ Less(Range(s), Stages'[5])
        /\ 4 \in 1..6 /\ 5 \in 1..6 /\ 4 < 5 /\ \A m \in 1..6 : ~(4 < m /\ m < 5)
    BY <1>2, StagesAre, StagesNext DEF Less
  <2>6. OrderInv /\ ~kicked => SeqsOrdered' /\ WireOrdered'
    BY <1>2, <2>1, <2>2, <2>3 DEF OrderInv, SeqsOrdered
  <2>7. QED
    BY <1>2, <2>4, <2>5, <2>6, Flows
<1>3. CASE ConnectFails
  <2>1. /\ ring' = PushAll(ring, chan) /\ chan' = <<>> /\ drain' = drain
        /\ UNCHANGED <<up, held, got, captured, kicked>>
    BY <1>3 DEF ConnectFails, wire, past
  <2>2. QED
    BY <1>2, <2>1, SeqsType
<1>4. CASE DirectSendFails
  <2>1. /\ ring' = PushAll(ring, Left) /\ chan' = <<>> /\ drain' = <<>>
        /\ UNCHANGED <<up, held, got, captured, kicked>> /\ (drain # <<>> \/ chan # <<>>)
    BY <1>4 DEF DirectSendFails
  <2>2. Left = chan \/ (chan # <<>> /\ Left = Tail(chan))
    BY <2>1 DEF Left
  <2>3. /\ Left \in Seq(Frames) /\ Range(Left) \subseteq Range(chan) /\ (Ordered(chan) => Ordered(Left))
    BY <2>2, SeqsType, OrderedTail, HeadTailProperties
  <2>4. QED
    BY <1>2, <2>1, <2>3
<1>5. CASE Forward
  <2>1. phase = "open" /\ UNCHANGED <<ring, held>> /\ conn \in Conns
    BY <1>5 DEF Forward, ConnInv
  <2>2. ring = <<>>
    BY <2>1 DEF FrameInv, RingInv
  <2>3. ASSUME NEW k \in 3..5, NEW q \in Seq(Frames), q # <<>>, Stages[k] = Range(q),
               Stages'[k] = Range(Tail(q)), ~kicked => Ordered(q),
               up' = Delivered(up, conn, <<[kind |-> "frame", frame |-> Head(q)]>>),
               \A m \in 1..6 : 2 < m /\ m < k => Stages[m] = {},
               \A m \in 1..6 : m # 2 /\ m # k => Stages'[m] \subseteq Stages[m],
               OrderInv /\ ~kicked => SeqsOrdered'
        PROVE  OrderInv' /\ BoundInv'
    <3> DEFINE f == Head(q)
               m == [kind |-> "frame", frame |-> f]
    <3>1. /\ f \in Range(q) /\ f \in Frames /\ Range(Tail(q)) \subseteq Range(q)
          /\ ~kicked => Less({f}, Range(Tail(q)))
      BY <2>3, OrderedTail, HeadTailProperties
    <3>2. m \in UpMsgs /\ m.kind = "frame" /\ m.frame = f
      BY <3>1, FrameMsg
    <3> HIDE DEF f, m
    <3>3. up' = Delivered(up, conn, <<m>>)
      BY <2>3 DEF f, m
    <3>4. /\ UpFrames' \subseteq UpFrames \cup {f}
          /\ WireOrdered /\ Less(UpFrames, {f}) => WireOrdered'
      BY <2>1, <3>2, <3>3, UpGrows
    <3>5. k \in 1..6 /\ 2 \in 1..6 /\ 2 < k /\ 2 # k
      OBVIOUS
    <3>6. ~kicked => Less(UpFrames, {f})
      <4>1. ~kicked => Less(Stages[2], Stages[k])
        BY <3>5 DEF FrameInv, OrderInv, Line
      <4>2. QED
        BY <2>3, <3>1, <4>1, StagesAre DEF Less
    <3>7. OrderInv /\ ~kicked => SeqsOrdered' /\ WireOrdered'
      BY <2>3, <3>4, <3>6 DEF OrderInv
    <3> DEFINE M == {f}
    <3>8. /\ Stages'[2] \subseteq Stages[2] \cup M /\ M \subseteq Stages[k]
          /\ ~kicked => Less(M, Stages'[k])
          /\ \A h \in 1..6 : h # 2 => Stages'[h] \subseteq Stages[h]
      BY <2>3, <3>1, <3>4, StagesAre, StagesNext
    <3>9. captured' = captured /\ (~kicked' => ~kicked)
      BY <1>0, <1>5 DEF SensorLoop
    <3>10. \A h \in 1..6 : 2 < h /\ h < k => Stages[h] = {}
      BY <2>3
    <3> HIDE DEF M
    <3>11. QED
      BY <3>5, <3>7, <3>8, <3>9, <3>10, Flows
  <2>4. HeldFrames' = HeldFrames /\ Stages[4] = {} /\ \A m \in 1..6 : m \in {1, 2, 3, 4, 5, 6}
    BY <2>1, <2>2, HeldSame, StagesAre
  <2>5. CASE drain # <<>>
    <3>1. /\ up' = Delivered(up, conn, <<[kind |-> "frame", frame |-> Head(drain)]>>)
          /\ drain' = Tail(drain) /\ chan' = chan
      BY <1>5, <2>5 DEF Forward
    <3>2. Ordered(drain) => Ordered(Tail(drain))
      BY <2>5, SeqsType, OrderedTail
    <3>3. OrderInv /\ ~kicked => SeqsOrdered'
      BY <1>0, <1>5, <2>1, <3>1, <3>2 DEF OrderInv, SeqsOrdered, SensorLoop
    <3>4. /\ Stages[3] = Range(drain) /\ Stages'[3] = Range(Tail(drain))
          /\ ~kicked => Ordered(drain)
      BY <3>1, StagesAre, StagesNext DEF FrameInv, OrderInv, SeqsOrdered
    <3>5. \A m \in 1..6 : m # 2 /\ m # 3 => Stages'[m] \subseteq Stages[m]
      BY <1>0, <1>5, <2>1, <2>4, <3>1, StagesAre, StagesNext DEF SensorLoop
    <3>6. 3 \in 3..5 /\ \A m \in 1..6 : ~(2 < m /\ m < 3)
      OBVIOUS
    <3>7. QED
      BY <2>3, <2>5, <3>1, <3>3, <3>4, <3>5, <3>6, SeqsType
  <2>6. CASE drain = <<>>
    <3>1. /\ up' = Delivered(up, conn, <<[kind |-> "frame", frame |-> Head(chan)]>>)
          /\ chan' = Tail(chan) /\ drain' = drain /\ chan # <<>>
      BY <1>5, <2>6 DEF Forward
    <3>2. Ordered(chan) => Ordered(Tail(chan))
      BY <3>1, SeqsType, OrderedTail
    <3>3. OrderInv /\ ~kicked => SeqsOrdered'
      BY <1>0, <1>5, <2>1, <3>1, <3>2 DEF OrderInv, SeqsOrdered, SensorLoop
    <3>4. /\ Stages[5] = Range(chan) /\ Stages'[5] = Range(Tail(chan))
          /\ ~kicked => Ordered(chan)
      BY <3>1, StagesAre, StagesNext DEF FrameInv, OrderInv, SeqsOrdered
    <3>5. \A m \in 1..6 : m # 2 /\ m # 5 => Stages'[m] \subseteq Stages[m]
      BY <1>0, <1>5, <2>1, <2>4, <3>1, StagesAre, StagesNext DEF SensorLoop
    <3>6. Stages[3] = {}
      BY <2>6, StagesAre
    <3>7. 5 \in 3..5 /\ \A m \in 1..6 : 2 < m /\ m < 5 => m = 3 \/ m = 4
      OBVIOUS
    <3>8. \A m \in 1..6 : 2 < m /\ m < 5 => Stages[m] = {}
      BY <2>4, <3>6, <3>7
    <3>9. QED
      BY <2>3, <3>1, <3>3, <3>4, <3>5, <3>7, <3>8, SeqsType
  <2>7. QED
    BY <2>5, <2>6
<1>6. CASE StartCaptures \/ StopCaptures
  <2>1. UNCHANGED <<got, drain, ring, chan, held, captured, kicked>> /\ conn \in Conns
    BY <1>6 DEF StartCaptures, StopCaptures, Joined, ConnInv
  <2>2. PICK m \in UpMsgs : up' = Delivered(up, conn, <<m>>) /\ m.kind # "frame"
    <3>1. phase # "open"
      BY <1>6 DEF StartCaptures, StopCaptures, Joined
    <3>2. ~Forward
      BY <3>1 DEF Forward
    <3>3. QED
      BY <1>6, <3>2, SensorSends
  <2>3. UpFrames' \subseteq UpFrames \cup {} /\ (WireOrdered /\ Less(UpFrames, {}) => WireOrdered')
    BY <2>1, <2>2, UpGrows
  <2>4. Less(UpFrames, {}) /\ UpFrames' \subseteq UpFrames /\ HeldFrames' = HeldFrames
    BY <2>1, <2>3, HeldSame DEF Less
  <2>5. \A m1 \in 1..6 : Stages'[m1] \subseteq Stages[m1]
    <3>1. 0 \in 0..6 /\ \A m1 \in 1..6 : m1 # 0
      OBVIOUS
    <3>2. QED
      BY <2>1, <2>4, <3>1, SixStages
  <2>6. OrderInv /\ ~kicked => SeqsOrdered' /\ WireOrdered'
    BY <2>1, <2>3, <2>4 DEF OrderInv, SeqsOrdered
  <2>7. QED
    BY <2>1, <2>5, <2>6, Loses
<1>7. CASE Disconnect \/ SendFails
  <2>1. /\ UNCHANGED <<got, up, drain, ring, captured, kicked>> /\ chan' = <<>>
        /\ held' = held \/ held' = Nothing
    BY <1>7 DEF Disconnect, SendFails
  <2>2. HeldFrames' \subseteq HeldFrames
    BY <2>1, SensorAssumption DEF HeldFrames, Nothing
  <2>3. UpFrames' = UpFrames /\ (WireOrdered => WireOrdered')
    BY <2>1, UpSame
  <2>4. \A m \in 1..6 : Stages'[m] \subseteq Stages[m]
    <3>1. 0 \in 0..6 /\ \A m \in 1..6 : m # 0
      OBVIOUS
    <3>2. QED
      BY <2>1, <2>2, <2>3, <3>1, SixStages
  <2>5. OrderInv /\ ~kicked => SeqsOrdered' /\ WireOrdered'
    BY <2>1, <2>3 DEF OrderInv, SeqsOrdered
  <2>6. QED
    BY <2>1, <2>4, <2>5, Loses
<1>8. CASE Command \/ ReadEnd \/ DirectDone
  BY <1>8, OrderSame DEF Command, ReadEnd, DirectDone, wire, past
<1>9. QED
  BY <1>1, <1>3, <1>4, <1>5, <1>6, <1>7, <1>8 DEF SensorLoop

\* A handler reads its connection's messages in order, and no other handler reads.
LEMMA HandlerOrder ==
  ASSUME TypeOK, TypeOK', OneSession, FrameInv, NEW c \in Conns, Handler(c)
  PROVE  OrderInv' /\ BoundInv'
<1>0. up \in [Conns -> Seq(UpMsgs)] /\ up' \in [Conns -> Seq(UpMsgs)]
  BY DEF TypeOK
<1>1. UNCHANGED <<drain, ring, chan, held, captured, kicked>>
  BY ServerLeaves, HandlerReads DEF process
<1>2. CASE UNCHANGED <<link, up, handler, got>>
  BY <1>2, <1>1, OrderSame
<1>3. HeldFrames' = HeldFrames
  BY <1>1, HeldSame
<1>4. CASE HandlerEnds(c)
  <2>1. got' = got /\ up' = [up EXCEPT ![c] = <<>>]
    BY <1>4 DEF HandlerEnds, past
  <2>2. \A d \in Conns : up'[d] = up[d] \/ up'[d] = <<>>
    BY <1>0, <2>1
  <2>3. \A d \in Conns : \A k \in DOMAIN up'[d] : k + 0 \in DOMAIN up[d] /\ up'[d][k] = up[d][k + 0]
    <3>1. SUFFICES ASSUME NEW d \in Conns, up'[d] = up[d], NEW k \in DOMAIN up[d] PROVE k + 0 = k
      BY <2>2
    <3>2. QED
      BY <1>0, <3>1
  <2>4. UpFrames' \subseteq UpFrames /\ (WireOrdered => WireOrdered')
    BY <1>0, <2>3, 0 \in Nat, UpShrinks
  <2>5. \A m \in 1..6 : Stages'[m] \subseteq Stages[m]
    <3>1. 0 \in 0..6 /\ \A m \in 1..6 : m # 0
      OBVIOUS
    <3>2. QED
      BY <1>1, <1>3, <2>1, <2>4, <3>1, SixStages
  <2>6. OrderInv /\ ~kicked => SeqsOrdered' /\ WireOrdered'
    BY <1>1, <2>1, <2>4 DEF OrderInv, SeqsOrdered
  <2>7. QED
    BY <1>1, <2>5, <2>6, Loses
<1>5. CASE Reads(c)
  <2>1. /\ up[c] # <<>> /\ up' = [up EXCEPT ![c] = Tail(@)] /\ handler[c] = "running"
        /\ \/ got' = got
           \/ Head(up[c]).kind = "frame" /\ got' = Append(got, Head(up[c]).frame)
    BY <1>5 DEF Reads
  <2> DEFINE q == up[c]
  <2>2. q \in Seq(UpMsgs) /\ q # <<>> /\ up'[c] = Tail(q) /\ \A d \in Conns : d # c => up'[d] = up[d]
    BY <1>0, <2>1
  <2>3. /\ Head(q) \in UpMsgs /\ Head(q) = q[1] /\ Len(q) \in Nat /\ DOMAIN q = 1..Len(q)
        /\ 1 \in DOMAIN q
        /\ \A k \in DOMAIN Tail(q) : k \in Nat /\ k + 1 \in DOMAIN q /\ 1 < k + 1 /\ Tail(q)[k] = q[k + 1]
    <3> HIDE DEF q
    <3>1. QED
      BY <2>2
  <2>4. UpFrames' \subseteq UpFrames /\ (WireOrdered => WireOrdered')
    <3>1. \A d \in Conns : d # c => \A k \in DOMAIN up'[d] : k + 0 \in DOMAIN up[d] /\ up'[d][k] = up[d][k + 0]
      <4>1. SUFFICES ASSUME NEW d \in Conns, d # c, NEW k \in DOMAIN up[d] PROVE k + 0 = k
        BY <2>2
      <4>2. up[d] \in Seq(UpMsgs)
        BY <1>0
      <4>3. QED
        BY <4>1, <4>2
    <3>2. \A k \in DOMAIN up'[c] : k + 1 \in DOMAIN up[c] /\ up'[c][k] = up[c][k + 1]
      BY <2>2, <2>3
    <3>3. \A d \in Conns : \E h \in Nat : \A k \in DOMAIN up'[d] :
              k + h \in DOMAIN up[d] /\ up'[d][k] = up[d][k + h]
      BY <3>1, <3>2, 0 \in Nat, 1 \in Nat
    <3>4. QED
      BY <1>0, <3>3, UpShrinks
  <2>5. CASE got' = got
    <3>1. \A m \in 1..6 : Stages'[m] \subseteq Stages[m]
      <4>1. 0 \in 0..6 /\ \A m \in 1..6 : m # 0
        OBVIOUS
      <4>2. QED
        BY <1>1, <1>3, <2>4, <2>5, <4>1, SixStages
    <3>2. OrderInv /\ ~kicked => SeqsOrdered' /\ WireOrdered'
      BY <1>1, <2>4, <2>5 DEF OrderInv, SeqsOrdered
    <3>3. QED
      BY <1>1, <3>1, <3>2, Loses
  <2>6. CASE Head(q).kind = "frame" /\ got' = Append(got, Head(q).frame)
    <3> DEFINE f == Head(q).frame
    <3>1. f \in Frames
      BY <2>3, <2>6 DEF UpMsgs
    <3>2. f \in UpFrames
      BY <2>3, <2>6, <3>1 DEF UpFrames, Carries
    <3>3. ASSUME ~kicked PROVE Less({f}, UpFrames')
      <4>1. WireOrdered
        BY <3>3 DEF FrameInv, OrderInv
      <4>2. \A d \in Conns : d # c => up[d] = <<>>
        BY <2>1, <3>3 DEF OneSession, FrameInv, ServedInv
      <4>3. SUFFICES ASSUME NEW g \in Frames, NEW d \in Conns, NEW k \in DOMAIN up'[d],
                            up'[d][k].kind = "frame", g = up'[d][k].frame, f.iface = g.iface
                     PROVE  f.n < g.n
        BY DEF Less, UpFrames, Carries
      <4>4. d = c
        BY <2>2, <4>2, <4>3
      <4>5. k + 1 \in DOMAIN q /\ 1 < k + 1 /\ up'[c][k] = q[k + 1]
        BY <2>2, <2>3, <4>3, <4>4
      <4>6. QED
        BY <2>3, <2>6, <4>1, <4>3, <4>4, <4>5 DEF WireOrdered, Carries
    <3> HIDE DEF f
    <3>4. ~kicked => Less(Range(got), {f})
      <4>1. ~kicked => Less(Stages[1], Stages[2])
        BY DEF FrameInv, OrderInv, Line
      <4>2. QED
        BY <3>2, <4>1, StagesAre DEF Less
    <3>5. /\ Range(got') \subseteq Range(got) \cup {f}
          /\ Ordered(got) /\ Less(Range(got), {f}) => Ordered(got')
      <4>1. got' = Append(got, f)
        BY <2>6 DEF f
      <4>2. QED
        BY <3>1, <4>1, OrderedAppend, SeqsType
    <3>6. /\ \A m \in 1..6 : m # 1 => Stages'[m] \subseteq Stages[m]
          /\ Stages'[1] \subseteq Stages[1] \cup {f}
      <4>1. 1 \in 0..6 /\ 1 # 0
        OBVIOUS
      <4>2. QED
        BY <1>1, <1>3, <2>4, <3>5, <4>1, SixStages
    <3>7. OrderInv /\ ~kicked => SeqsOrdered' /\ WireOrdered'
      BY <1>1, <2>4, <3>4, <3>5 DEF OrderInv, SeqsOrdered
    <3>8. /\ {f} \subseteq Stages[2] /\ (~kicked => Less({f}, Stages'[2]))
          /\ 1 \in 1..6 /\ 2 \in 1..6 /\ 1 < 2 /\ \A m \in 1..6 : ~(1 < m /\ m < 2)
      BY <3>2, <3>3, StagesAre, StagesNext
    <3>9. QED
      BY <1>1, <3>6, <3>7, <3>8, Flows
  <2>7. QED
    BY <2>1, <2>5, <2>6
<1>6. QED
  BY <1>2, <1>4, <1>5, HandlerReads

LEMMA FaultOrder ==
  ASSUME TypeOK, TypeOK', FrameInv,
         UNCHANGED vars \/ Web \/ SensorCrash \/ SensorStart \/ ServerCrash \/ (\E c \in Conns : Cut(c))
  PROVE  OrderInv' /\ BoundInv'
<1> USE NoFrames
<1>1. CASE UNCHANGED vars \/ SensorStart \/ (\E c \in Conns : Cut(c))
  BY <1>1, OrderSame DEF vars, process, wire, past, SensorStart, Cut
<1>2. CASE Web
  <2>1. UNCHANGED <<got, up, drain, ring, chan, held, captured>>
    BY <1>2, WebReads, ServerLeaves DEF process
  <2>2. ~kicked' => ~kicked
    BY <1>2, WebReads
  <2>3. QED
    BY <2>1, <2>2, OrderSame
<1>3. ASSUME UNCHANGED <<got, captured, kicked>>, UpFrames' \subseteq UpFrames,
             WireOrdered => WireOrdered',
             drain' = drain \/ drain' = <<>>, ring' = ring \/ ring' = <<>>,
             chan' = chan \/ chan' = <<>>, held' = held \/ held' = Nothing
      PROVE  OrderInv' /\ BoundInv'
  <2>1. HeldFrames' \subseteq HeldFrames
    BY <1>3, SensorAssumption DEF HeldFrames, Nothing
  <2>2. \A m \in 1..6 : Stages'[m] \subseteq Stages[m]
    <3>1. 0 \in 0..6 /\ \A m \in 1..6 : m # 0
      OBVIOUS
    <3>2. QED
      BY <1>3, <2>1, <3>1, SixStages
  <2>3. OrderInv /\ ~kicked => SeqsOrdered' /\ WireOrdered'
    BY <1>3 DEF OrderInv, SeqsOrdered
  <2>4. QED
    BY <1>3, <2>2, <2>3, Loses
<1>4. CASE SensorCrash
  BY <1>3, <1>4, UpSame DEF SensorCrash
<1>5. CASE ServerCrash
  <2>1. /\ UNCHANGED <<got, captured, kicked, drain, ring, chan, held>> /\ up' = [c \in Conns |-> <<>>]
    BY <1>5 DEF ServerCrash, process, past
  <2>2. UpFrames' \subseteq UpFrames /\ WireOrdered'
    BY <2>1 DEF UpFrames, WireOrdered
  <2>3. QED
    BY <1>3, <2>1, <2>2
<1>6. QED
  BY <1>1, <1>2, <1>4, <1>5

LEMMA FrameStep ==
  ASSUME TypeOK, TypeOK', ThreadInv, OneSession, FrameInv, [Next]_vars
  PROVE  FrameInv'
<1>1. ServedInv' /\ HeldInv' /\ RingInv'
  BY ServedStep, HeldStep, RingStep DEF FrameInv, ThreadInv
<1>2. OrderInv' /\ BoundInv'
  BY ThreadOrder, LoopOrder, HandlerOrder, FaultOrder DEF Next, ThreadInv
<1>3. QED
  BY <1>1, <1>2 DEF FrameInv

LEMMA FrameInvariant == Spec => []FrameInv
<1>1. Init => FrameInv
  <2> SUFFICES ASSUME Init PROVE FrameInv
    OBVIOUS
  <2>1. /\ got = <<>> /\ drain = <<>> /\ ring = <<>> /\ chan = <<>> /\ \A i \in Ifaces : held[i] = None
        /\ \A c \in Conns : up[c] = <<>> /\ link[c] = "none"
    BY DEF Init, Nothing
  <2>2. UpFrames = {} /\ HeldFrames = {} /\ Range(<<>>) = {} /\ Ordered(<<>>)
    BY <2>1, NoFrames, SensorAssumption DEF UpFrames, HeldFrames
  <2>3. \A m \in 1..6 : Stages[m] = {}
    BY <2>1, <2>2, StagesAre
  <2>4. OrderInv /\ BoundInv
    BY <2>1, <2>2, <2>3 DEF OrderInv, BoundInv, Line, Less, SeqsOrdered, WireOrdered
  <2>5. QED
    BY <2>1, <2>4 DEF FrameInv, HeldInv, RingInv, ServedInv
<1>2. TypeOK /\ TypeOK' /\ ThreadInv /\ OneSession /\ FrameInv /\ [Next]_vars => FrameInv'
  BY FrameStep
<1>3. QED
  BY <1>1, <1>2, SensorTypeCorrect, ThreadInvariant, NameHasOneSession, PTL DEF Spec

\* Unless an operator disconnects the sensor, the server ingests the frames of an
\* interface in the order they were captured and none twice: through a full channel, a
\* ring buffer that overflows, a ring that is only half resent, cuts and crashes.
THEOREM FramesArriveInOrder == Spec => []FramesInOrder
<1>1. FrameInv => FramesInOrder
  BY DEF FrameInv, OrderInv, SeqsOrdered, Ordered, FramesInOrder
<1>2. QED
  BY <1>1, FrameInvariant, PTL
=============================================================================
