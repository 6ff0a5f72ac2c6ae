------------------------ MODULE VideoRtpReorderProofs -------------------------
(* Proofs about the reorder buffer, for any stream of frames, any numbers    *)
(* modulo any even number, and any limits: the numbers are unwrapped rightly *)
(* and the buffer is bounded, what leaves is in order and whole, and every   *)
(* gap is a frame that was given up for a packet that had not come.          *)
EXTENDS VideoRtpReorder, FiniteSetTheorems, SequenceTheorems, TLAPS

-----------------------------------------------------------------------------
(* Numbers and frames.                                                      *)

\* A set of numbers has a least one.
LEMMA Least ==
    ASSUME NEW S \in SUBSET Nat, S # {}
    PROVE  \E n \in S : \A m \in S : n <= m
<1> DEFINE R == OpToRel(<, Nat)
<1>1. IsWellFoundedOn(R, Nat)
  BY NatLessThanWellFounded
<1> HIDE DEF R
<1>2. PICK n \in S : \A m \in S : ~(<<m, n>> \in R)
  BY <1>1, WFMin
<1>3. \A m \in S : ~(m < n)
  BY <1>2 DEF R, OpToRel
<1> QED
  BY <1>3

\* A set of integers with a lower bound has a least one, and Min is it.
LEMMA LeastInteger ==
    ASSUME NEW S \in SUBSET Int, S # {}, NEW low \in Int, \A s \in S : low <= s
    PROVE  Min(S) \in S /\ \A s \in S : Min(S) <= s
<1> DEFINE T == {s - low : s \in S}
<1>1. T \in SUBSET Nat /\ T # {}
  <2>1. \A s \in S : s - low \in Nat
    OBVIOUS
  <2> QED
    BY <2>1
<1>2. PICK n \in T : \A m \in T : n <= m
  <2> HIDE DEF T
  <2> QED
    BY <1>1, Least
<1>3. PICK s \in S : n = s - low
  OBVIOUS
<1>4. \A r \in S : s <= r
  <2> TAKE r \in S
  <2>1. n <= r - low
    BY <1>2
  <2> QED
    BY <1>3, <2>1
<1> QED
  BY <1>4 DEF Min

\* A set of integers with an upper bound has a greatest one, and Max is it.
LEMMA GreatestInteger ==
    ASSUME NEW S \in SUBSET Int, S # {}, NEW high \in Int, \A s \in S : s <= high
    PROVE  Max(S) \in S /\ \A s \in S : s <= Max(S)
<1> DEFINE T == {high - s : s \in S}
<1>1. T \in SUBSET Nat /\ T # {}
  OBVIOUS
<1>2. PICK n \in T : \A m \in T : n <= m
  <2> HIDE DEF T
  <2> QED
    BY <1>1, Least
<1>3. PICK s \in S : n = high - s
  OBVIOUS
<1>4. \A r \in S : r <= s
  <2> TAKE r \in S
  <2>1. n <= high - r
    BY <1>2
  <2> QED
    BY <1>3, <2>1
<1> QED
  BY <1>4 DEF Max

\* The frames are numbered and end one after the other.
LEMMA EndsRise ==
    /\ Frames \in SUBSET Nat
    /\ \A f \in Frames : End[f] \in Nat /\ End[f] > 0
    /\ \A f, g \in Frames : f < g => End[f] < End[g]
    /\ \A f, g \in Frames : f <= g => End[f] <= End[g]
<1>1. End \in Seq(Nat \ {0}) /\ \A f, g \in DOMAIN End : f < g => End[f] < End[g]
  BY ReorderAssumption DEF ReorderAssumption
<1> QED
  BY <1>1 DEF Frames

\* A number up to the end of a frame is a packet of that frame or an earlier
\* one.
LEMMA PacketThere ==
    ASSUME NEW f \in Frames, NEW p \in 1 .. End[f]
    PROVE  \E g \in Frames : g <= f /\ p \in PacketsOf[g]
<1> DEFINE T == {g \in Frames : p <= End[g]}
<1>0. End[f] \in Nat /\ p \in Nat /\ 1 <= p /\ p <= End[f] /\ f \in Nat
  BY EndsRise
<1>1. T \in SUBSET Nat /\ f \in T
  BY <1>0, EndsRise
<1>2. PICK g \in T : \A h \in T : g <= h
  <2> HIDE DEF T
  <2> QED
    BY <1>1, Least
<1>3. g \in Frames /\ p \in 1 .. End[g] /\ g <= f
  BY <1>0, <1>1, <1>2, EndsRise
<1>4. ASSUME NEW h \in Frames, h < g PROVE End[h] < p
  <2>1. h \notin T
    BY <1>1, <1>2, <1>4, EndsRise
  <2> QED
    BY <1>0, <2>1, EndsRise
<1> QED
  BY <1>3, <1>4 DEF PacketsOf

\* Each packet is of one frame.
LEMMA PacketsOfFrame ==
    ASSUME NEW f \in Frames, NEW p \in PacketsOf[f]
    PROVE  /\ p \in Packets /\ FrameOf[p] = f
           /\ p \in Nat /\ 1 <= p /\ p <= End[f]
           /\ \A g \in Frames : g < f => End[g] < p
<1>1. /\ p \in 1 .. End[f]
      /\ \A g \in Frames : g < f => End[g] < p
  BY DEF PacketsOf
<1>2. p \in Packets
  BY DEF Packets
<1>3. ASSUME NEW g \in Frames, p \in PacketsOf[g] PROVE g = f
  <2>1. p <= End[g] /\ \A h \in Frames : h < g => End[h] < p
    BY <1>3 DEF PacketsOf
  <2>2. ~(f < g) /\ ~(g < f)
    BY <1>1, <2>1, EndsRise
  <2> QED
    BY <2>2, EndsRise
<1>4. FrameOf[p] = f
  BY <1>2, <1>3 DEF FrameOf
<1> QED
  BY <1>1, <1>2, <1>4, EndsRise

\* Packets are numbers, and their frames are in order as they are.
LEMMA PacketFacts ==
    /\ Packets \in SUBSET Nat
    /\ \A p \in Packets : 1 <= p /\ FrameOf[p] \in Frames /\ p \in PacketsOf[FrameOf[p]]
    /\ \A p \in Packets : p <= End[FrameOf[p]]
    /\ \A f \in Frames : End[f] \in Packets /\ End[f] \in PacketsOf[f] /\ FrameOf[End[f]] = f
    /\ \A p \in Packets, f \in Frames : f < FrameOf[p] => End[f] < p
    /\ \A p, q \in Packets : FrameOf[p] < FrameOf[q] => p < q
    /\ \A p, q \in Packets : p <= q => FrameOf[p] <= FrameOf[q]
    /\ \A p \in Packets, f \in Frames : p <= End[f] => FrameOf[p] <= f
<1>1. ASSUME NEW p \in Packets
      PROVE  /\ p \in Nat /\ 1 <= p /\ FrameOf[p] \in Frames /\ p \in PacketsOf[FrameOf[p]]
             /\ p <= End[FrameOf[p]] /\ \A f \in Frames : f < FrameOf[p] => End[f] < p
  <2>1. PICK f \in Frames : p \in PacketsOf[f]
    BY DEF Packets
  <2> QED
    BY <2>1, PacketsOfFrame
<1>2. ASSUME NEW f \in Frames
      PROVE  End[f] \in Packets /\ End[f] \in PacketsOf[f] /\ FrameOf[End[f]] = f
  <2>1. End[f] \in PacketsOf[f]
    BY EndsRise DEF PacketsOf
  <2> QED
    BY <2>1, PacketsOfFrame
<1>3. ASSUME NEW p \in Packets, NEW f \in Frames, p <= End[f] PROVE FrameOf[p] <= f
  <2>1. ~(f < FrameOf[p])
    BY <1>1, <1>3, EndsRise
  <2> QED
    BY <1>1, <2>1, EndsRise
<1>4. ASSUME NEW p \in Packets, NEW q \in Packets
      PROVE  /\ FrameOf[p] < FrameOf[q] => p < q
             /\ p <= q => FrameOf[p] <= FrameOf[q]
  <2> DEFINE f == FrameOf[p]
             g == FrameOf[q]
  <2>1. /\ p \in Nat /\ f \in Nat /\ End[f] \in Nat /\ p <= End[f]
        /\ q \in Nat /\ g \in Nat /\ End[g] \in Nat /\ q <= End[g]
        /\ (f < g => End[f] < q) /\ (g < f => End[g] < p)
    BY <1>1, EndsRise
  <2> QED
    BY <2>1
<1> QED
  BY <1>1, <1>2, <1>3, <1>4

LEMMA NumbersAre ==
    /\ \A p \in Packets : p \in Int
    /\ \A f \in Frames : f \in Int /\ End[f] \in Int
<1>1. \A p \in Packets : p \in Int
  <2>1. Packets \in SUBSET Nat
    BY PacketFacts, Zenon
  <2> QED
    BY <2>1
<1>2. \A f \in Frames : f \in Int /\ End[f] \in Int
  BY EndsRise
<1> QED
  BY <1>1, <1>2

\* What is between two packets is a packet.
LEMMA PacketsBefore ==
    ASSUME NEW p \in Packets, NEW q \in Int, 1 <= q, q <= p
    PROVE  q \in Packets
<1>1. /\ FrameOf[p] \in Frames /\ p \in Nat /\ p <= End[FrameOf[p]]
      /\ End[FrameOf[p]] \in Nat
  BY PacketFacts, EndsRise
<1>2. PICK g \in Frames : q \in PacketsOf[g]
  BY <1>1, PacketThere
<1> QED
  BY <1>2, PacketsOfFrame

-----------------------------------------------------------------------------
(* The inductive invariant.  Between two resets the number a packet was      *)
(* given when it came is the sender's and a shift, the same for all of them. *)

FrameRecords ==
    [min : Int, marker_sequence : Int, marker_received : BOOLEAN, age : 0 .. MaxWait,
     packets : UNION {[A -> Packets] : A \in SUBSET Int}]

\* A frame that is collected has packets that came and knows its first one and
\* whether its end has come.
GoodFrame(frame, f, shift, came) ==
    /\ frame \in FrameRecords
    /\ \A s \in DOMAIN frame.packets :
          frame.packets[s] = s - shift /\ s - shift \in PacketsOf[f] \cap came
    /\ frame.min \in DOMAIN frame.packets
    /\ \A s \in DOMAIN frame.packets : frame.min <= s
    /\ frame.marker_received <=> End[f] + shift \in DOMAIN frame.packets
    /\ frame.marker_received => frame.marker_sequence = End[f] + shift

GoodFrames(frames, shift, came) ==
    DOMAIN frames \subseteq Frames /\ \A f \in DOMAIN frames : GoodFrame(frames[f], f, shift, came)

Held(frames, shift, p) ==
    FrameOf[p] \in DOMAIN frames /\ p + shift \in DOMAIN frames[FrameOf[p]].packets

\* The packet may still leave.
Open(next, shift, p) == next = <<>> \/ p + shift >= next[1]

NextGood(next, shift) == next = <<>> \/ \E x \in Int : next = <<x>> /\ x > shift

\* What came and may still leave is collected, and nothing else.
Kept(frames, next, shift, came) ==
    /\ GoodFrames(frames, shift, came)
    /\ NextGood(next, shift)
    /\ \A p \in came : Held(frames, shift, p) <=> Open(next, shift, p)

\* What left and what was given up is all before what may still leave.  With a
\* packet the rest of its frame has left, and where packets are missing between
\* frames that left, or behind the last of them, a frame was given up.
Left(next, shift, came, out, lost) ==
    /\ \A p \in out : p \in came /\ ~Open(next, shift, p)
    /\ \A d \in lost : d \in Frames /\ ~Open(next, shift, End[d])
    /\ \A d \in lost : \A p \in out : FrameOf[p] # d
    /\ \A p \in out : \A q \in Packets : FrameOf[q] = FrameOf[p] /\ p <= q => q \in out
    /\ \A p, r \in out : \A q \in Packets \ out :
          p < q /\ q < r => \E d \in lost : FrameOf[p] < d /\ d < FrameOf[r]
    /\ \A p \in out : \A q \in Packets \ out :
          p < q /\ ~Open(next, shift, q) => \E d \in lost : FrameOf[p] < d

InOrder(out) == \A i, j \in DOMAIN out : i < j => out[i] < out[j]

Shift == IF received = {} THEN 0 ELSE m_highest_sequence - Max(received)

TypeInv ==
    /\ m_highest_sequence \in Nat /\ m_sequence_initialized \in BOOLEAN
    /\ since_notification \in 0 .. LossInterval
    /\ sent \in Nat /\ (sent = 0 \/ sent \in Packets)
    /\ wire \subseteq 1 .. sent /\ received \subseteq 1 .. sent
    /\ repeats \in Nat /\ resets \in Nat
    /\ passed \in Seq(Packets) /\ dropped \subseteq Frames

\* The highest number is that of the latest packet, and what is on its way is
\* less than half the numbers from it.
NumberInv ==
    /\ m_sequence_initialized <=> received # {}
    /\ received = {} => m_highest_sequence = 0 /\ m_next_sequence = <<>>
    /\ received # {} => m_highest_sequence % Modulus = OnWire(Max(received))
    /\ \A p, q \in wire \cup Latest : p - q < Modulus \div 2

KeptInv == Kept(m_frames, m_next_sequence, Shift, received)
LeftInv == Left(m_next_sequence, Shift, received, ToSet(passed), dropped) /\ InOrder(passed)

IInv == TypeInv /\ NumberInv /\ KeptInv /\ LeftInv /\ BufferBounded

-----------------------------------------------------------------------------
(* Frames that are collected.                                               *)

\* A packet of a frame that is collected has come and may still leave.
PacketKept(frames, next, shift, came, f, s) ==
    /\ f \in Frames /\ s \in Int /\ s - shift \in PacketsOf[f]
    /\ s - shift \in came /\ s - shift \in Packets /\ FrameOf[s - shift] = f
    /\ s - shift <= End[f] /\ frames[f].packets[s] = s - shift
    /\ Held(frames, shift, s - shift) /\ Open(next, shift, s - shift)

LEMMA HeldPacket ==
    ASSUME NEW shift \in Int, NEW came \in SUBSET Packets, NEW frames, NEW next,
           Kept(frames, next, shift, came),
           NEW f \in DOMAIN frames, NEW s \in DOMAIN frames[f].packets
    PROVE  PacketKept(frames, next, shift, came, f, s)
<1>1. f \in Frames /\ GoodFrame(frames[f], f, shift, came)
  BY DEF Kept, GoodFrames
<1>2. frames[f].packets \in UNION {[A -> Packets] : A \in SUBSET Int}
  BY <1>1 DEF GoodFrame, FrameRecords
<1>3. s \in Int
  BY <1>2
<1>4. /\ s - shift \in PacketsOf[f] /\ s - shift \in came
      /\ frames[f].packets[s] = s - shift
  BY <1>1 DEF GoodFrame
<1>5. s - shift \in Packets /\ FrameOf[s - shift] = f /\ s - shift <= End[f]
  BY <1>1, <1>4, PacketsOfFrame
<1>6. (s - shift) + shift = s
  BY <1>3
<1>7. Held(frames, shift, s - shift)
  BY <1>5, <1>6 DEF Held
<1> QED
  BY <1>1, <1>3, <1>4, <1>5, <1>7 DEF Kept, PacketKept

\* What may still leave is closed upwards.
LEMMA OpenAbove ==
    ASSUME NEW shift \in Int, NEW next, NextGood(next, shift), NEW p \in Int, NEW q \in Int,
           p <= q, Open(next, shift, p)
    PROVE  Open(next, shift, q)
  BY DEF Open, NextGood

\* The first packet of a frame that is collected is one of the frame, and the
\* frame's end may still leave.
FrameKept(frames, next, shift, came, f) ==
    /\ f \in Frames /\ End[f] \in Packets /\ End[f] \in Nat /\ End[f] > 0
    /\ frames[f].min \in Int
    /\ frames[f].min - shift \in PacketsOf[f]
    /\ frames[f].min - shift \in came /\ frames[f].min - shift \in Packets
    /\ frames[f].min - shift <= End[f]
    /\ FrameOf[frames[f].min - shift] = f
    /\ Open(next, shift, frames[f].min - shift) /\ Open(next, shift, End[f])
    /\ frames[f].min \in DOMAIN frames[f].packets
    /\ \A s \in DOMAIN frames[f].packets : frames[f].min <= s

LEMMA FrameCollected ==
    ASSUME NEW shift \in Int, NEW came \in SUBSET Packets, NEW frames, NEW next,
           Kept(frames, next, shift, came), NEW f \in DOMAIN frames
    PROVE  FrameKept(frames, next, shift, came, f)
<1> DEFINE m == frames[f].min
<1>1. m \in DOMAIN frames[f].packets /\ \A s \in DOMAIN frames[f].packets : m <= s
  BY DEF Kept, GoodFrames, GoodFrame
<1>2. PacketKept(frames, next, shift, came, f, m)
  BY <1>1, HeldPacket
<1> USE DEF PacketKept
<1>3. End[f] \in Packets /\ End[f] \in Nat /\ End[f] > 0 /\ m - shift \in Int
  BY <1>2, PacketFacts, EndsRise
<1>4. NextGood(next, shift)
  BY DEF Kept
<1> HIDE DEF m
<1>5. Open(next, shift, End[f])
  BY <1>2, <1>3, <1>4, OpenAbove
<1> QED
  BY <1>1, <1>2, <1>3, <1>5 DEF m, FrameKept

\* Frames are in order as their first packets are.
LEMMA FramesInLine ==
    ASSUME NEW shift \in Int, NEW came \in SUBSET Packets, NEW frames, NEW next,
           Kept(frames, next, shift, came), NEW f \in DOMAIN frames, NEW g \in DOMAIN frames,
           f # g, frames[f].min <= frames[g].min
    PROVE  f < g /\ End[f] + shift < frames[g].min /\ frames[f].min < frames[g].min
<1> DEFINE a == frames[f].min
           c == frames[g].min
<1>0. FrameKept(frames, next, shift, came, f) /\ FrameKept(frames, next, shift, came, g)
  BY FrameCollected
<1>1. /\ f \in Frames /\ g \in Frames /\ a \in Int /\ c \in Int /\ a <= c
      /\ a - shift \in Packets /\ FrameOf[a - shift] = f
      /\ c - shift \in Packets /\ FrameOf[c - shift] = g
      /\ a - shift <= End[f]
  BY <1>0 DEF FrameKept
<1> HIDE DEF a, c
<1>2. a - shift <= c - shift
  BY <1>1
<1>3. f <= g
  BY <1>1, <1>2, PacketFacts
<1>4. f < g
  BY <1>1, <1>3, EndsRise
<1>5. End[f] < c - shift
  BY <1>1, <1>4, PacketFacts
<1> QED
  BY <1>1, <1>4, <1>5, EndsRise DEF a, c

\* One of the frames collected is the oldest.
LEMMA OldestThere ==
    ASSUME NEW shift \in Int, NEW came \in SUBSET Packets, NEW frames, NEW next,
           Kept(frames, next, shift, came), DOMAIN frames # {}
    PROVE  /\ FindOldestFrame(frames) \in DOMAIN frames
           /\ \A g \in DOMAIN frames : frames[FindOldestFrame(frames)].min <= frames[g].min
<1> DEFINE T == {frames[g].min : g \in DOMAIN frames}
<1>1. ASSUME NEW g \in DOMAIN frames PROVE frames[g].min \in Int /\ shift <= frames[g].min
  <2>1. FrameKept(frames, next, shift, came, g)
    BY FrameCollected
  <2>2. 1 <= frames[g].min - shift
    BY <2>1, PacketFacts DEF FrameKept
  <2> QED
    BY <2>1, <2>2 DEF FrameKept
<1>2. T \in SUBSET Int /\ T # {} /\ \A t \in T : shift <= t
  BY <1>1
<1>3. Min(T) \in T /\ \A t \in T : Min(T) <= t
  <2> HIDE DEF T
  <2> QED
    BY <1>2, LeastInteger
<1>4. PICK g \in DOMAIN frames : Min(T) = frames[g].min
  BY <1>3
<1>5. \A h \in DOMAIN frames : frames[g].min <= frames[h].min
  BY <1>3, <1>4
<1> QED
  BY <1>5 DEF FindOldestFrame

\* Behind the end of the oldest frame is what is held of the others.
LEMMA BehindOldest ==
    ASSUME NEW shift \in Int, NEW came \in SUBSET Packets, NEW frames, NEW next,
           Kept(frames, next, shift, came), NEW f \in DOMAIN frames,
           \A g \in DOMAIN frames : frames[f].min <= frames[g].min, NEW p \in came
    PROVE  p + shift >= End[f] + shift + 1 <=> Held(frames, shift, p) /\ FrameOf[p] # f
<1>0. FrameKept(frames, next, shift, came, f)
  BY FrameCollected
<1>1. /\ f \in Frames /\ End[f] \in Int /\ Open(next, shift, End[f])
      /\ p \in Packets /\ p \in Int /\ FrameOf[p] \in Frames
      /\ NextGood(next, shift)
  BY <1>0, PacketFacts DEF Kept, FrameKept
<1>2. ASSUME p + shift >= End[f] + shift + 1 PROVE Held(frames, shift, p) /\ FrameOf[p] # f
  <2>1. End[f] <= p /\ ~(p <= End[f])
    BY <1>1, <1>2
  <2>2. Open(next, shift, p)
    BY <1>1, <2>1, OpenAbove
  <2>3. FrameOf[p] # f
    BY <1>1, <2>1, PacketFacts
  <2> QED
    BY <2>2, <2>3 DEF Kept
<1>3. ASSUME Held(frames, shift, p), FrameOf[p] # f PROVE p + shift >= End[f] + shift + 1
  <2> DEFINE g == FrameOf[p]
  <2>1. g \in DOMAIN frames /\ p + shift \in DOMAIN frames[g].packets
    BY <1>3 DEF Held
  <2>2. End[f] + shift < frames[g].min
    BY <1>3, <2>1, FramesInLine
  <2>3. FrameKept(frames, next, shift, came, g)
    BY <2>1, FrameCollected
  <2>4. frames[g].min <= p + shift /\ frames[g].min \in Int
    BY <2>1, <2>3 DEF FrameKept
  <2> QED
    BY <1>1, <2>2, <2>4
<1> QED
  BY <1>2, <1>3

\* A frame leaves the buffer, and the rest is kept, when what comes next is
\* exactly what is held of the others.
LEMMA KeptWithout ==
    ASSUME NEW shift \in Int, NEW came \in SUBSET Packets, NEW frames, NEW next,
           Kept(frames, next, shift, came), NEW f \in DOMAIN frames, NEW y \in Int,
           End[f] + shift < y,
           \A p \in came : p + shift >= y <=> Held(frames, shift, p) /\ FrameOf[p] # f
    PROVE  Kept(Without(frames, f), <<y>>, shift, came)
<1> DEFINE rest == Without(frames, f)
<1>1. DOMAIN rest = DOMAIN frames \ {f} /\ \A g \in DOMAIN rest : rest[g] = frames[g]
  BY DEF Without
<1>2. GoodFrames(rest, shift, came)
  BY <1>1 DEF Kept, GoodFrames
<1>3. y > shift
  <2>1. FrameKept(frames, next, shift, came, f)
    BY FrameCollected
  <2> QED
    BY <2>1 DEF FrameKept
<1>4. NextGood(<<y>>, shift)
  BY <1>3 DEF NextGood
<1>5. ASSUME NEW p \in came PROVE Held(rest, shift, p) <=> Open(<<y>>, shift, p)
  <2>1. Held(rest, shift, p) <=> Held(frames, shift, p) /\ FrameOf[p] # f
    BY <1>1 DEF Held
  <2>2. Open(<<y>>, shift, p) <=> p + shift >= y
    BY DEF Open
  <2> QED
    BY <2>1, <2>2
<1> QED
  BY <1>2, <1>4, <1>5 DEF Kept

-----------------------------------------------------------------------------
(* What left and what was given up.                                         *)

\* What may not leave any more is before what may.
LEMMA ClosedBelow ==
    ASSUME NEW shift \in Int, NEW next, NextGood(next, shift), NEW p \in Int, NEW q \in Int,
           ~Open(next, shift, p), Open(next, shift, q)
    PROVE  p < q
<1>1. ~(q <= p)
  BY OpenAbove
<1> QED
  BY <1>1

\* A packet is behind the end of just the frames before its own.
LEMMA BehindEnd ==
    ASSUME NEW p \in Packets, NEW d \in Frames
    PROVE  End[d] < p <=> d < FrameOf[p]
<1>1. /\ p \in Nat /\ FrameOf[p] \in Frames /\ p <= End[FrameOf[p]]
      /\ (d < FrameOf[p] => End[d] < p)
  BY PacketFacts
<1>2. FrameOf[p] \in Nat /\ d \in Nat /\ End[d] \in Nat /\ End[FrameOf[p]] \in Nat
  BY <1>1, EndsRise
<1>3. FrameOf[p] <= d => End[FrameOf[p]] <= End[d]
  BY <1>1, EndsRise
<1> QED
  BY <1>1, <1>2, <1>3

\* Of a frame whose end may still leave nothing has left, and it comes behind
\* all that has.
LEMMA NothingOut ==
    ASSUME NEW shift \in Int, NEW came \in SUBSET Packets, NEW next, NextGood(next, shift),
           NEW out, NEW lost, Left(next, shift, came, out, lost),
           NEW f \in Frames, Open(next, shift, End[f])
    PROVE  /\ \A p \in out : p \in Packets /\ p < End[f] /\ FrameOf[p] < f
           /\ \A d \in lost : d \in Frames /\ End[d] < End[f] /\ d < f
<1>1. End[f] \in Int /\ End[f] \in Packets /\ FrameOf[End[f]] = f /\ f \in Nat
  BY PacketFacts, EndsRise
<1>2. ASSUME NEW p \in out PROVE p \in Packets /\ p < End[f] /\ FrameOf[p] < f
  <2>1. p \in Packets /\ ~Open(next, shift, p)
    BY DEF Left
  <2>2. p \in Int /\ FrameOf[p] \in Frames
    BY <2>1, PacketFacts
  <2>3. p < End[f]
    BY <1>1, <2>1, <2>2, ClosedBelow
  <2>4. FrameOf[p] <= f
    BY <1>1, <2>1, <2>3, PacketFacts
  <2>5. FrameOf[p] # f
    <3>1. CASE FrameOf[p] = f
      <4>1. End[f] \in out
        BY <1>1, <2>2, <2>3, <3>1 DEF Left
      <4> QED
        BY <4>1 DEF Left
    <3> QED
      BY <3>1
  <2>6. FrameOf[p] \in Nat
    BY <2>2, EndsRise
  <2> QED
    BY <1>1, <2>1, <2>3, <2>4, <2>5, <2>6
<1>3. ASSUME NEW d \in lost PROVE d \in Frames /\ End[d] < End[f] /\ d < f
  <2>1. d \in Frames /\ ~Open(next, shift, End[d])
    BY DEF Left
  <2>2. End[d] \in Int
    BY <2>1, EndsRise
  <2>3. End[d] < End[f]
    BY <1>1, <2>1, <2>2, ClosedBelow
  <2>4. d < f
    BY <1>1, <2>1, <2>3, BehindEnd
  <2> QED
    BY <2>1, <2>3, <2>4
<1> QED
  BY <1>2, <1>3

\* A frame is given up.
LEMMA LeftAfterDrop ==
    ASSUME NEW shift \in Int, NEW came \in SUBSET Packets, NEW next, NextGood(next, shift),
           NEW out, NEW lost, Left(next, shift, came, out, lost),
           NEW f \in Frames, Open(next, shift, End[f]), NEW y \in Int, End[f] + shift < y
    PROVE  Left(<<y>>, shift, came, out, lost \cup {f})
<1>1. /\ \A p \in out : p \in Packets /\ p < End[f] /\ FrameOf[p] < f
      /\ \A d \in lost : d \in Frames /\ End[d] < End[f] /\ d < f
  BY NothingOut
<1>2. \A p : Open(<<y>>, shift, p) <=> p + shift >= y
  BY DEF Open
<1>3. End[f] \in Int /\ f \in Int
  BY NumbersAre
<1>4. \A p \in out : p \in came /\ ~Open(<<y>>, shift, p)
  <2> TAKE p \in out
  <2>1. p \in came /\ p \in Int /\ p < End[f]
    BY <1>1, NumbersAre DEF Left
  <2> QED
    BY <1>2, <1>3, <2>1
<1>5. \A d \in lost \cup {f} : d \in Frames /\ ~Open(<<y>>, shift, End[d])
  <2> TAKE d \in lost \cup {f}
  <2>1. d \in Frames /\ End[d] \in Int /\ End[d] <= End[f]
    <3>1. CASE d = f
      BY <1>3, <3>1
    <3>2. CASE d \in lost
      <4>1. d \in Frames /\ End[d] < End[f]
        BY <1>1, <3>2
      <4>2. End[d] \in Int
        BY <4>1, NumbersAre
      <4> QED
        BY <1>3, <4>1, <4>2
    <3> QED
      BY <3>1, <3>2
  <2> QED
    BY <1>2, <1>3, <2>1
<1>6. \A d \in lost \cup {f} : \A p \in out : FrameOf[p] # d
  <2>1. \A d \in lost : \A p \in out : FrameOf[p] # d
    BY DEF Left
  <2>2. \A p \in out : FrameOf[p] # f
    BY <1>1, <1>3
  <2> QED
    BY <2>1, <2>2
<1>7. \A p \in out : \A q \in Packets : FrameOf[q] = FrameOf[p] /\ p <= q => q \in out
  BY DEF Left
<1>8. \A p, r \in out : \A q \in Packets \ out :
          p < q /\ q < r => \E d \in lost \cup {f} : FrameOf[p] < d /\ d < FrameOf[r]
  BY DEF Left
<1>9. \A p \in out : \A q \in Packets \ out :
          p < q /\ ~Open(<<y>>, shift, q) => \E d \in lost \cup {f} : FrameOf[p] < d
  BY <1>1
<1> QED
  BY <1>4, <1>5, <1>6, <1>7, <1>8, <1>9 DEF Left

\* A frame is handed on from the packet a to its end.
LEMMA LeftAfterRelease ==
    ASSUME NEW shift \in Int, NEW came \in SUBSET Packets, NEW next, NextGood(next, shift),
           NEW out, NEW lost, Left(next, shift, came, out, lost),
           NEW f \in Frames, Open(next, shift, End[f]), NEW a \in Int,
           \A p \in a .. End[f] : p \in came /\ FrameOf[p] = f,
           \A p \in out : p < a /\ \A q \in Int : q < a => ~Open(next, shift, q),
           \A d \in lost : End[d] < a
    PROVE  Left(<<End[f] + shift + 1>>, shift, came, out \cup (a .. End[f]), lost)
<1> DEFINE y == End[f] + shift + 1
           run == a .. End[f]
           all == out \cup run
<1>1. /\ \A p \in out : p \in Packets /\ p < End[f] /\ FrameOf[p] < f
      /\ \A d \in lost : d \in Frames /\ End[d] < End[f] /\ d < f
  BY NothingOut
<1>2. \A p : Open(<<y>>, shift, p) <=> p + shift >= y
  BY DEF Open
<1>3. End[f] \in Int /\ f \in Int
  BY NumbersAre
<1>4. ASSUME NEW p \in run
      PROVE  p \in came /\ p \in Packets /\ FrameOf[p] = f /\ p \in Int /\ a <= p /\ p <= End[f]
  BY <1>3
<1>5. ASSUME NEW p \in Int, a <= p, p <= End[f] PROVE p \in run
  BY <1>3, <1>5
<1> HIDE DEF run
<1>6. \A p \in all : p \in came /\ ~Open(<<y>>, shift, p)
  <2> TAKE p \in all
  <2>1. p \in came /\ p \in Int /\ p <= End[f]
    BY <1>1, <1>3, <1>4, NumbersAre DEF Left
  <2> QED
    BY <1>2, <1>3, <2>1
<1>7. \A d \in lost : d \in Frames /\ ~Open(<<y>>, shift, End[d])
  <2> TAKE d \in lost
  <2>1. d \in Frames /\ End[d] \in Int /\ End[d] < End[f]
    BY <1>1, NumbersAre
  <2> QED
    BY <1>2, <1>3, <2>1
<1>8. \A d \in lost : \A p \in all : FrameOf[p] # d
  <2>1. \A d \in lost : \A p \in out : FrameOf[p] # d
    BY DEF Left
  <2>2. \A d \in lost : d # f
    BY <1>1, <1>3
  <2> QED
    BY <1>4, <2>1, <2>2
<1>9. \A p \in all : \A q \in Packets : FrameOf[q] = FrameOf[p] /\ p <= q => q \in all
  <2> TAKE p \in all
  <2> TAKE q \in Packets
  <2>1. CASE p \in out
    BY <2>1 DEF Left
  <2>2. CASE p \in run
    <3>1. q \in Int /\ (FrameOf[q] = f => q <= End[f])
      BY PacketFacts
    <3> QED
      BY <1>4, <1>5, <2>2, <3>1
  <2> QED
    BY <2>1, <2>2
<1>10. \A p, r \in all : \A q \in Packets \ all :
          p < q /\ q < r => \E d \in lost : FrameOf[p] < d /\ d < FrameOf[r]
  <2> SUFFICES ASSUME NEW p \in all, NEW r \in all, NEW q \in Packets \ all, p < q, q < r
               PROVE  \E d \in lost : FrameOf[p] < d /\ d < FrameOf[r]
    OBVIOUS
  <2>1. p \in Int /\ q \in Int /\ r \in Int
    BY <1>1, <1>4, NumbersAre
  <2>2. p \in out
    <3>1. CASE p \in run
      <4>1. r \in Int /\ r <= End[f]
        BY <1>1, <1>3, <1>4, <2>1
      <4> QED
        BY <1>3, <1>4, <1>5, <2>1, <3>1, <4>1
    <3> QED
      BY <3>1
  <2>3. CASE r \in out
    BY <2>2, <2>3 DEF Left
  <2>4. CASE r \in run
    <3>1. q < a
      BY <1>3, <1>4, <1>5, <2>1, <2>4
    <3>2. ~Open(next, shift, q)
      BY <2>1, <2>2, <3>1
    <3>3. PICK d \in lost : FrameOf[p] < d
      BY <2>2, <3>2 DEF Left
    <3>4. d < f
      BY <1>1
    <3> QED
      BY <1>4, <2>4, <3>3, <3>4
  <2> QED
    BY <2>3, <2>4
<1>11. \A p \in all : \A q \in Packets \ all :
          p < q /\ ~Open(<<y>>, shift, q) => \E d \in lost : FrameOf[p] < d
  <2> SUFFICES ASSUME NEW p \in all, NEW q \in Packets \ all, p < q, ~Open(<<y>>, shift, q)
               PROVE  \E d \in lost : FrameOf[p] < d
    OBVIOUS
  <2>1. p \in Int /\ q \in Int
    BY <1>1, <1>4, NumbersAre
  <2>2. q <= End[f]
    BY <1>2, <1>3, <2>1
  <2>3. q < a
    BY <1>3, <1>5, <2>1, <2>2
  <2>4. p \in out
    BY <1>4, <2>1, <2>3
  <2>5. ~Open(next, shift, q)
    BY <2>1, <2>3, <2>4
  <2> QED
    BY <2>4, <2>5 DEF Left
<1> QED
  BY <1>6, <1>7, <1>8, <1>9, <1>10, <1>11 DEF Left, run

\* A packet that may still leave and has not come excuses that its frame, or
\* one behind it, is given up.
Excused(f, came, out, lost) ==
    \E p \in Packets \ came :
        /\ p <= End[f]
        /\ \A q \in out : q < p
        /\ \A d \in lost : d < FrameOf[p]

LEMMA MissingExcuses ==
    ASSUME NEW shift \in Int, NEW came \in SUBSET Packets, NEW next, NextGood(next, shift),
           NEW out, NEW lost, Left(next, shift, came, out, lost),
           NEW before \in SUBSET out, NEW gone \in SUBSET lost,
           NEW f \in Frames, NEW p \in Packets \ came, p <= End[f], Open(next, shift, p)
    PROVE  Excused(f, came, before, gone)
<1>1. p \in Int
  BY PacketFacts
<1>2. \A q \in before : q < p
  <2> TAKE q \in before
  <2> q \in out
    OBVIOUS
  <2>1. q \in Int /\ ~Open(next, shift, q)
    BY NumbersAre DEF Left
  <2> QED
    BY <1>1, <2>1, ClosedBelow
<1>3. \A d \in gone : d < FrameOf[p]
  <2> TAKE d \in gone
  <2> d \in lost
    OBVIOUS
  <2>1. d \in Frames /\ End[d] \in Int /\ ~Open(next, shift, End[d])
    BY NumbersAre DEF Left
  <2>2. End[d] < p
    BY <1>1, <2>1, ClosedBelow
  <2> QED
    BY <2>1, <2>2, BehindEnd
<1> QED
  BY <1>2, <1>3 DEF Excused

-----------------------------------------------------------------------------
(* Sequences of packets.                                                    *)

LEMMA SetOfJoined ==
    ASSUME NEW s \in Seq(Packets), NEW t \in Seq(Packets)
    PROVE  s \o t \in Seq(Packets) /\ ToSet(s \o t) = ToSet(s) \cup ToSet(t)
<1>1. /\ s \o t \in Seq(Packets) /\ Len(s \o t) = Len(s) + Len(t)
      /\ \A i \in 1 .. Len(s) + Len(t) :
            (s \o t)[i] = IF i <= Len(s) THEN s[i] ELSE t[i - Len(s)]
  BY ConcatProperties
<1>2. Len(s) \in Nat /\ Len(t) \in Nat
  OBVIOUS
<1>3. ASSUME NEW p \in ToSet(s \o t) PROVE p \in ToSet(s) \cup ToSet(t)
  <2>1. PICK i \in 1 .. Len(s) + Len(t) : p = (s \o t)[i]
    BY <1>1 DEF ToSet
  <2>2. CASE i <= Len(s)
    <3>1. i \in 1 .. Len(s) /\ p = s[i]
      BY <1>1, <1>2, <2>1, <2>2
    <3> QED
      BY <3>1 DEF ToSet
  <2>3. CASE ~(i <= Len(s))
    <3>1. i - Len(s) \in 1 .. Len(t) /\ p = t[i - Len(s)]
      BY <1>1, <1>2, <2>1, <2>3
    <3> QED
      BY <3>1 DEF ToSet
  <2> QED
    BY <2>2, <2>3
<1>4. ASSUME NEW p \in ToSet(s) PROVE p \in ToSet(s \o t)
  <2>1. PICK i \in 1 .. Len(s) : p = s[i]
    BY DEF ToSet
  <2>2. i \in 1 .. Len(s) + Len(t) /\ (s \o t)[i] = p
    BY <1>1, <1>2, <2>1
  <2> QED
    BY <1>1, <2>2 DEF ToSet
<1>5. ASSUME NEW p \in ToSet(t) PROVE p \in ToSet(s \o t)
  <2>1. PICK i \in 1 .. Len(t) : p = t[i]
    BY DEF ToSet
  <2>2. /\ i + Len(s) \in 1 .. Len(s) + Len(t) /\ ~(i + Len(s) <= Len(s))
        /\ (i + Len(s)) - Len(s) = i
    BY <1>2
  <2>3. (s \o t)[i + Len(s)] = p
    BY <1>1, <2>1, <2>2
  <2> QED
    BY <1>1, <2>2, <2>3 DEF ToSet
<1> QED
  BY <1>1, <1>3, <1>4, <1>5

\* Packets in order with the packets of a run behind them are in order.
Count(a, e) == [i \in 1 .. e - a + 1 |-> a + i - 1]

LEMMA RunJoined ==
    ASSUME NEW out \in Seq(Packets), InOrder(out), NEW a \in Int, NEW e \in Int, a <= e,
           \A p \in a .. e : p \in Packets, \A p \in ToSet(out) : p < a
    PROVE  /\ Count(a, e) \in Seq(Packets)
           /\ ToSet(out \o Count(a, e)) = ToSet(out) \cup (a .. e)
           /\ InOrder(out \o Count(a, e))
<1> DEFINE run == Count(a, e)
<1>1. /\ run = [i \in 1 .. e - a + 1 |-> run[i]] /\ DOMAIN run = 1 .. e - a + 1
      /\ e - a + 1 \in Nat
      /\ \A i \in 1 .. e - a + 1 : run[i] = a + i - 1 /\ run[i] \in a .. e
  BY DEF Count
<1> HIDE DEF run
<1>2. run \in Seq(Packets) /\ Len(run) = e - a + 1
  <2>1. run \in [1 .. e - a + 1 -> Packets]
    BY <1>1
  <2>2. run \in Seq(Packets)
    BY <1>1, <2>1, SeqDef
  <2> QED
    BY <1>1, <2>2
<1>3. ToSet(run) = a .. e
  <2>1. ASSUME NEW p \in a .. e PROVE p \in ToSet(run)
    <3>1. p - a + 1 \in 1 .. e - a + 1 /\ a + (p - a + 1) - 1 = p
      OBVIOUS
    <3>2. run[p - a + 1] = p
      BY <1>1, <3>1
    <3> QED
      BY <1>1, <3>1, <3>2 DEF ToSet
  <2>2. ToSet(run) \subseteq a .. e
    BY <1>1 DEF ToSet
  <2> QED
    BY <2>1, <2>2
<1>4. out \o run \in Seq(Packets) /\ ToSet(out \o run) = ToSet(out) \cup (a .. e)
  BY <1>2, <1>3, SetOfJoined
<1>5. /\ Len(out) \in Nat /\ Len(run) \in Nat
      /\ Len(out \o run) = Len(out) + Len(run)
      /\ \A i \in 1 .. Len(out) + Len(run) :
            (out \o run)[i] = IF i <= Len(out) THEN out[i] ELSE run[i - Len(out)]
  <2>1. run \in Seq(Packets)
    BY <1>2
  <2>2. Len(out) \in Nat /\ Len(run) \in Nat
    BY <2>1, LenProperties
  <2> QED
    BY <2>1, <2>2, ConcatProperties
<1>6. InOrder(out \o run)
  <2> SUFFICES ASSUME NEW i \in DOMAIN (out \o run), NEW j \in DOMAIN (out \o run), i < j
               PROVE  (out \o run)[i] < (out \o run)[j]
    BY DEF InOrder
  <2>1. i \in 1 .. Len(out) + Len(run) /\ j \in 1 .. Len(out) + Len(run)
    BY <1>4, <1>5
  <2>2. CASE j <= Len(out)
    <3>1. /\ i \in DOMAIN out /\ j \in DOMAIN out
          /\ (out \o run)[i] = out[i] /\ (out \o run)[j] = out[j]
      BY <1>5, <2>1, <2>2
    <3> QED
      BY <3>1 DEF InOrder
  <2>3. CASE i <= Len(out) /\ ~(j <= Len(out))
    <3>1. i \in DOMAIN out /\ (out \o run)[i] = out[i]
      BY <1>5, <2>1, <2>3
    <3>2. /\ j - Len(out) \in 1 .. e - a + 1 /\ (out \o run)[j] = run[j - Len(out)]
      BY <1>2, <1>5, <2>1, <2>3
    <3>3. out[i] < a /\ out[i] \in Int
      <4>1. out[i] \in ToSet(out) /\ out[i] \in Packets
        BY <3>1 DEF ToSet
      <4> QED
        BY <4>1, NumbersAre
    <3> DEFINE l == j - Len(out)
    <3>4. a <= run[l] /\ run[l] \in Int
      <4>1. l \in 1 .. e - a + 1
        BY <3>2
      <4> HIDE DEF l
      <4>2. run[l] \in a .. e
        BY <1>1, <4>1
      <4> QED
        BY <4>2
    <3> QED
      BY <3>1, <3>2, <3>3, <3>4
  <2>4. CASE ~(i <= Len(out))
    <3>1. /\ i - Len(out) \in 1 .. e - a + 1 /\ (out \o run)[i] = run[i - Len(out)]
          /\ j - Len(out) \in 1 .. e - a + 1 /\ (out \o run)[j] = run[j - Len(out)]
          /\ i - Len(out) < j - Len(out)
      <4>1. /\ i - Len(out) \in 1 .. Len(run) /\ j - Len(out) \in 1 .. Len(run)
            /\ ~(j <= Len(out)) /\ i - Len(out) < j - Len(out)
        BY <1>5, <2>1, <2>4
      <4>2. (out \o run)[i] = run[i - Len(out)] /\ (out \o run)[j] = run[j - Len(out)]
        BY <1>5, <2>1, <2>4, <4>1
      <4> QED
        BY <1>2, <4>1, <4>2
    <3> DEFINE k == i - Len(out)
               l == j - Len(out)
    <3>2. k \in 1 .. e - a + 1 /\ l \in 1 .. e - a + 1 /\ k < l
      BY <3>1
    <3>3. (out \o run)[i] = run[k] /\ (out \o run)[j] = run[l]
      BY <3>1
    <3> HIDE DEF k, l
    <3>4. run[k] = a + k - 1 /\ run[l] = a + l - 1
      BY <1>1, <3>2
    <3> QED
      BY <3>2, <3>3, <3>4
  <2> QED
    BY <2>2, <2>3, <2>4
<1> QED
  BY <1>2, <1>4, <1>6 DEF run

-----------------------------------------------------------------------------
(* One turn of the loop, in a call before which out had left and lost had    *)
(* been given up.                                                           *)

Turn(b, shift, came, out, lost) ==
    /\ Kept(b.frames, b.next, shift, came)
    /\ Left(b.next, shift, came, ToSet(out \o b.output), lost \cup b.lost)
    /\ b.output \in Seq(Packets) /\ InOrder(out \o b.output)
    /\ \A f \in b.lost : Excused(f, came, ToSet(out), lost)

\* The oldest frame is given up for a packet that has not come.
LEMMA DropTurn ==
    ASSUME NEW shift \in Int, NEW came \in SUBSET Packets, NEW out \in Seq(Packets), NEW lost,
           NEW b, Turn(b, shift, came, out, lost),
           NEW f \in DOMAIN b.frames, NEW y \in Int, End[f] + shift < y,
           \A q \in came : q + shift >= y <=> Held(b.frames, shift, q) /\ FrameOf[q] # f,
           NEW p \in Packets \ came, p <= End[f], Open(b.next, shift, p)
    PROVE  Turn(Drop(b, f, y), shift, came, out, lost)
<1> DEFINE c == Drop(b, f, y)
           all == ToSet(out \o b.output)
<1>1. /\ c.frames = Without(b.frames, f) /\ c.next = <<y>> /\ c.output = b.output
      /\ c.lost = b.lost \cup {f}
  BY DEF Drop
<1>2. /\ Kept(b.frames, b.next, shift, came)
      /\ Left(b.next, shift, came, all, lost \cup b.lost)
      /\ b.output \in Seq(Packets) /\ InOrder(out \o b.output)
      /\ \A g \in b.lost : Excused(g, came, ToSet(out), lost)
  BY DEF Turn
<1>3. FrameKept(b.frames, b.next, shift, came, f)
  BY <1>2, FrameCollected
<1>4. f \in Frames /\ Open(b.next, shift, End[f]) /\ NextGood(b.next, shift)
  BY <1>2, <1>3 DEF FrameKept, Kept
<1>5. Kept(c.frames, c.next, shift, came)
  <2> HIDE DEF c, all
  <2>1. Kept(Without(b.frames, f), <<y>>, shift, came)
    BY <1>2, KeptWithout
  <2> QED
    BY <1>1, <2>1
<1>6. Left(c.next, shift, came, ToSet(out \o c.output), lost \cup c.lost)
  <2>1. Left(<<y>>, shift, came, all, (lost \cup b.lost) \cup {f})
    BY <1>2, <1>4, LeftAfterDrop
  <2>2. (lost \cup b.lost) \cup {f} = lost \cup c.lost
    BY <1>1
  <2> QED
    BY <1>1, <2>1, <2>2
<1>7. Excused(f, came, ToSet(out), lost)
  <2>1. ToSet(out) \in SUBSET all
    BY <1>2, SetOfJoined
  <2>2. lost \in SUBSET (lost \cup b.lost)
    OBVIOUS
  <2> HIDE DEF all
  <2> QED
    BY <1>2, <1>4, <2>1, <2>2, MissingExcuses
<1>8. \A g \in c.lost : Excused(g, came, ToSet(out), lost)
  BY <1>1, <1>2, <1>7
<1> QED
  BY <1>1, <1>2, <1>5, <1>6, <1>8 DEF Turn

\* The first packet of a frame that may leave: what is before it may not, and
\* what is behind it may.
Begins(b, shift, came, out, lost, f, first) ==
    /\ first \in Int /\ 1 <= first - shift /\ first - shift <= End[f]
    /\ \A p \in Int : first - shift <= p => Open(b.next, shift, p)
    /\ \A p \in out : p < first - shift
    /\ \A p \in out : \A q \in Int : q < first - shift => ~Open(b.next, shift, q)
    /\ \A d \in lost : End[d] < first - shift

LEMMA BeginningIs ==
    ASSUME NEW shift \in Int, NEW came \in SUBSET Packets, NEW b, NEW out, NEW lost,
           Kept(b.frames, b.next, shift, came), Left(b.next, shift, came, out, lost),
           NEW f \in DOMAIN b.frames
    PROVE  Begins(b, shift, came, out, lost, f, Beginning(b, b.frames[f]))
<1> DEFINE first == Beginning(b, b.frames[f])
<1>1. FrameKept(b.frames, b.next, shift, came, f) /\ NextGood(b.next, shift)
  BY FrameCollected DEF Kept
<1>2. \A p \in out : p \in Packets /\ p \in Int /\ ~Open(b.next, shift, p)
  BY NumbersAre DEF Left
<1>3. \A d \in lost : d \in Frames /\ End[d] \in Int /\ ~Open(b.next, shift, End[d])
  BY NumbersAre DEF Left
<1>4. CASE b.next = <<>>
  <2>1. first = b.frames[f].min
    BY <1>4 DEF Beginning
  <2>2. first \in Int /\ 1 <= first - shift /\ first - shift <= End[f]
    BY <1>1, <2>1, PacketFacts DEF FrameKept
  <2>3. \A p : Open(b.next, shift, p)
    BY <1>4 DEF Open
  <2>4. out = {} /\ lost = {}
    BY <1>2, <1>3, <2>3
  <2> HIDE DEF first
  <2>5. Begins(b, shift, came, out, lost, f, first)
    BY <2>2, <2>3, <2>4 DEF Begins
  <2> QED
    BY <2>5 DEF first
<1>5. CASE b.next # <<>>
  <2>1. PICK x \in Int : b.next = <<x>> /\ x > shift
    BY <1>1, <1>5 DEF NextGood
  <2>2. first = x
    BY <1>5, <2>1 DEF Beginning
  <2>3. \A p \in Int : Open(b.next, shift, p) <=> x - shift <= p
    BY <1>5, <2>1 DEF Open
  <2>4. first \in Int /\ 1 <= first - shift /\ first - shift <= End[f]
    BY <1>1, <2>1, <2>2, <2>3 DEF FrameKept
  <2> HIDE DEF first
  <2>5. \A p \in out : p < first - shift
    BY <1>2, <2>1, <2>2, <2>3
  <2>6. \A d \in lost : End[d] < first - shift
    BY <1>3, <2>1, <2>2, <2>3
  <2>7. Begins(b, shift, came, out, lost, f, first)
    BY <2>1, <2>2, <2>3, <2>4, <2>5, <2>6 DEF Begins
  <2> QED
    BY <2>7 DEF first
<1> QED
  BY <1>4, <1>5

\* The oldest frame is handed on.
LEMMA ReleaseTurn ==
    ASSUME NEW shift \in Int, NEW came \in SUBSET Packets, NEW out \in Seq(Packets), NEW lost,
           NEW b, Turn(b, shift, came, out, lost),
           NEW f \in DOMAIN b.frames, \A g \in DOMAIN b.frames : b.frames[f].min <= b.frames[g].min,
           b.frames[f].marker_sequence = End[f] + shift,
           Complete(b.frames[f], Beginning(b, b.frames[f]))
    PROVE  Turn(Release(b, f, Beginning(b, b.frames[f])), shift, came, out, lost)
<1> DEFINE frame == b.frames[f]
           first == Beginning(b, frame)
           c == Release(b, f, first)
           a == first - shift
           all == ToSet(out \o b.output)
           y == End[f] + shift + 1
<1>1. /\ c.frames = Without(b.frames, f) /\ c.next = <<y>>
      /\ c.output = b.output \o Span(frame, first) /\ c.lost = b.lost
  BY DEF Release
<1>2. /\ Kept(b.frames, b.next, shift, came)
      /\ Left(b.next, shift, came, all, lost \cup b.lost)
      /\ b.output \in Seq(Packets) /\ InOrder(out \o b.output)
      /\ \A g \in b.lost : Excused(g, came, ToSet(out), lost)
  BY DEF Turn
<1>3. FrameKept(b.frames, b.next, shift, came, f)
  BY <1>2, FrameCollected
<1>4. f \in Frames /\ Open(b.next, shift, End[f]) /\ NextGood(b.next, shift) /\ End[f] \in Int
  BY <1>2, <1>3, NumbersAre DEF FrameKept, Kept
<1>5. Begins(b, shift, came, all, lost \cup b.lost, f, first)
  BY <1>2, BeginningIs
<1> HIDE DEF first
<1>6. first \in Int /\ a \in Int /\ 1 <= a /\ a <= End[f]
  BY <1>5 DEF Begins
<1>7. ASSUME NEW p \in a .. End[f]
      PROVE  /\ p \in came /\ p \in Packets /\ FrameOf[p] = f
             /\ frame.packets[p + shift] = p
  <2>1. p + shift \in first .. End[f] + shift /\ (p + shift) - shift = p
    BY <1>4, <1>6
  <2>2. p + shift \in DOMAIN frame.packets
    BY <2>1 DEF Complete, first
  <2>3. PacketKept(b.frames, b.next, shift, came, f, p + shift)
    BY <1>2, <2>2, HeldPacket
  <2> QED
    BY <2>1, <2>3 DEF PacketKept
<1>8. Kept(c.frames, c.next, shift, came)
  <2>1. y \in Int /\ End[f] + shift < y
    BY <1>4
  <2>2. \A p \in came : p + shift >= y <=> Held(b.frames, shift, p) /\ FrameOf[p] # f
    BY <1>2, BehindOldest
  <2> HIDE DEF y
  <2> QED
    BY <1>1, <1>2, <2>1, <2>2, KeptWithout
<1>9. Left(<<y>>, shift, came, all \cup (a .. End[f]), lost \cup b.lost)
  <2>1. \A p \in a .. End[f] : p \in came /\ FrameOf[p] = f
    BY <1>7
  <2>2. \A p \in all : p < a /\ \A q \in Int : q < a => ~Open(b.next, shift, q)
    BY <1>5 DEF Begins
  <2>3. \A d \in lost \cup b.lost : End[d] < a
    BY <1>5 DEF Begins
  <2> HIDE DEF a, all
  <2> QED
    BY <1>2, <1>4, <1>6, <2>1, <2>2, <2>3, LeftAfterRelease
<1>10. Span(frame, first) = Count(a, End[f])
  <2>1. (End[f] + shift) - first + 1 = End[f] - a + 1
    BY <1>4, <1>6
  <2>2. ASSUME NEW i \in 1 .. End[f] - a + 1 PROVE frame.packets[first + i - 1] = a + i - 1
    <3>1. a + i - 1 \in a .. End[f] /\ (a + i - 1) + shift = first + i - 1
      BY <1>4, <1>6
    <3> HIDE DEF a, frame
    <3> QED
      BY <1>7, <3>1
  <2> HIDE DEF a
  <2> QED
    BY <2>1, <2>2 DEF Span, Count
<1>11. /\ Span(frame, first) \in Seq(Packets)
       /\ ToSet((out \o b.output) \o Span(frame, first)) = all \cup (a .. End[f])
       /\ InOrder((out \o b.output) \o Span(frame, first))
  <2>1. out \o b.output \in Seq(Packets)
    BY <1>2, SetOfJoined
  <2>2. \A p \in all : p < a
    BY <1>5 DEF Begins
  <2>3. \A p \in a .. End[f] : p \in Packets
    BY <1>7
  <2> DEFINE s == out \o b.output
  <2>4. s \in Seq(Packets) /\ InOrder(s) /\ \A p \in ToSet(s) : p < a
    BY <1>2, <2>1, <2>2
  <2> DEFINE e == End[f]
  <2>5. a \in Int /\ e \in Int /\ a <= e /\ \A p \in a .. e : p \in Packets
    BY <1>4, <1>6, <2>3
  <2> HIDE DEF s, a, all, c, y, frame, e
  <2>6. /\ Count(a, e) \in Seq(Packets)
        /\ ToSet(s \o Count(a, e)) = ToSet(s) \cup (a .. e)
        /\ InOrder(s \o Count(a, e))
    BY <2>4, <2>5, RunJoined
  <2> QED
    BY <1>10, <2>6 DEF s, e, all
<1>12. (out \o b.output) \o Span(frame, first) = out \o c.output /\ c.output \in Seq(Packets)
  <2> DEFINE run == Span(frame, first)
             o == b.output
  <2>1. run \in Seq(Packets) /\ o \in Seq(Packets)
    BY <1>2, <1>11
  <2> HIDE DEF run, o
  <2>2. (out \o o) \o run = out \o (o \o run)
    BY <2>1, ConcatAssociative
  <2>3. o \o run \in Seq(Packets)
    BY <2>1, SetOfJoined
  <2> QED
    BY <1>1, <2>2, <2>3 DEF run, o
<1> HIDE DEF c, all, a, y, frame
<1>13. /\ ToSet(out \o c.output) = all \cup (a .. End[f]) /\ InOrder(out \o c.output)
       /\ c.output \in Seq(Packets)
  BY <1>11, <1>12
<1>14. Turn(c, shift, came, out, lost)
  BY <1>1, <1>2, <1>8, <1>9, <1>13 DEF Turn
<1> QED
  BY <1>14 DEF c, first, frame

\* Behind an oldest frame without its end comes the first packet of the next.
LEMMA BehindUnmarked ==
    ASSUME NEW shift \in Int, NEW came \in SUBSET Packets, NEW frames, NEW next,
           Kept(frames, next, shift, came), NEW f \in DOMAIN frames,
           \A g \in DOMAIN frames : frames[f].min <= frames[g].min,
           LaterFrames(frames, f) # {}
    PROVE  /\ Min(LaterFrames(frames, f)) \in Int
           /\ End[f] + shift < Min(LaterFrames(frames, f))
           /\ \A p \in came : p + shift >= Min(LaterFrames(frames, f))
                              <=> Held(frames, shift, p) /\ FrameOf[p] # f
<1> DEFINE later == LaterFrames(frames, f)
           y == Min(later)
<1>1. ASSUME NEW g \in DOMAIN frames
      PROVE  FrameKept(frames, next, shift, came, g)
  BY FrameCollected
<1>2. ASSUME NEW g \in DOMAIN frames, g # f
      PROVE  frames[g].min \in later
  <2>1. frames[f].min < frames[g].min
    BY <1>2, FramesInLine
  <2>2. frames[g].min \in Int /\ frames[f].min \in Int
    BY <1>1 DEF FrameKept
  <2> QED
    BY <2>1, <2>2 DEF LaterFrames
<1>3. ASSUME NEW t \in later
      PROVE  \E g \in DOMAIN frames : t = frames[g].min /\ t > frames[f].min
  BY DEF LaterFrames
<1>4. later \in SUBSET Int /\ frames[f].min \in Int /\ \A t \in later : frames[f].min <= t
  <2>1. frames[f].min \in Int
    BY <1>1 DEF FrameKept
  <2>2. ASSUME NEW t \in later PROVE t \in Int /\ frames[f].min <= t
    <3>1. PICK g \in DOMAIN frames : t = frames[g].min /\ t > frames[f].min
      BY <1>3
    <3>2. t \in Int
      BY <1>1, <3>1 DEF FrameKept
    <3> QED
      BY <2>1, <3>1, <3>2
  <2> HIDE DEF later
  <2> QED
    BY <2>1, <2>2
<1>5. y \in later /\ \A t \in later : y <= t
  <2> DEFINE low == frames[f].min
  <2>1. low \in Int /\ later # {} /\ later \in SUBSET Int /\ \A t \in later : low <= t
    BY <1>4
  <2> HIDE DEF low, later
  <2> QED
    BY <2>1, LeastInteger
<1>6. PICK h \in DOMAIN frames : y = frames[h].min /\ y > frames[f].min
  BY <1>3, <1>5
<1> HIDE DEF later, y
<1>7. y \in Int /\ h # f /\ frames[f].min \in Int
  <2>1. y \in Int /\ frames[f].min \in Int
    BY <1>4, <1>5
  <2>2. h # f
    <3>1. SUFFICES ASSUME h = f PROVE FALSE
      OBVIOUS
    <3>2. y = frames[f].min /\ y > frames[f].min
      BY <1>6, <3>1, Zenon
    <3> QED
      BY <2>1, <3>2
  <2> QED
    BY <2>1, <2>2
<1>8. End[f] + shift < y /\ f < h
  <2>1. frames[f].min <= frames[h].min /\ f # h
    BY <1>7
  <2>2. f < h /\ End[f] + shift < frames[h].min
    BY <2>1, FramesInLine, Zenon
  <2> QED
    BY <1>6, <2>2
<1>9. ASSUME NEW p \in came
      PROVE  p + shift >= y <=> Held(frames, shift, p) /\ FrameOf[p] # f
  <2>1. p \in Packets /\ p \in Int
    BY NumbersAre
  <2>2. f \in Frames /\ End[f] \in Int
    BY <1>1, NumbersAre DEF FrameKept
  <2>3. ASSUME p + shift >= y PROVE Held(frames, shift, p) /\ FrameOf[p] # f
    <3>1. y - shift <= p /\ y - shift \in Int
      BY <1>7, <2>1, <2>3
    <3>2. Open(next, shift, y - shift) /\ NextGood(next, shift)
      BY <1>1, <1>6 DEF FrameKept, Kept
    <3>3. Open(next, shift, p)
      BY <2>1, <3>1, <3>2, OpenAbove
    <3>4. End[f] < p
      BY <1>7, <1>8, <2>1, <2>2, <2>3
    <3>5. FrameOf[p] # f
      BY <2>1, <2>2, <3>4, PacketFacts
    <3> QED
      BY <3>3, <3>5 DEF Kept
  <2>4. ASSUME Held(frames, shift, p), FrameOf[p] # f PROVE p + shift >= y
    <3> DEFINE g == FrameOf[p]
    <3>1. g \in DOMAIN frames /\ p + shift \in DOMAIN frames[g].packets
      BY <2>4 DEF Held
    <3>2. FrameKept(frames, next, shift, came, g)
      BY <1>1, <3>1
    <3>3. frames[g].min <= p + shift /\ frames[g].min \in Int
      BY <3>1, <3>2 DEF FrameKept
    <3>4. y <= frames[g].min
      BY <1>2, <1>5, <2>4, <3>1
    <3> QED
      BY <1>7, <2>1, <3>3, <3>4
  <2> QED
    BY <2>3, <2>4
<1> QED
  BY <1>7, <1>8, <1>9 DEF y, later

\* The packet has not come, if its frame does not hold it.
LEMMA NotHeld ==
    ASSUME NEW shift \in Int, NEW came \in SUBSET Packets, NEW frames, NEW next,
           Kept(frames, next, shift, came), NEW f \in DOMAIN frames,
           \A g \in DOMAIN frames : frames[f].min <= frames[g].min,
           NEW p \in Packets, p <= End[f], Open(next, shift, p),
           p + shift \notin DOMAIN frames[f].packets
    PROVE  p \notin came
<1> SUFFICES ASSUME p \in came PROVE FALSE
  OBVIOUS
<1>1. Held(frames, shift, p)
  BY DEF Kept
<1>2. FrameOf[p] # f
  BY <1>1 DEF Held
<1>3. p + shift >= End[f] + shift + 1
  BY <1>1, <1>2, BehindOldest
<1>4. p \in Int /\ End[f] \in Int
  <2>1. FrameKept(frames, next, shift, came, f)
    BY FrameCollected
  <2> QED
    BY <2>1, NumbersAre DEF FrameKept
<1> QED
  BY <1>3, <1>4

\* The oldest frame, if its end has not come, stays or is given up.
LEMMA UnmarkedTurn ==
    ASSUME NEW shift \in Int, NEW came \in SUBSET Packets, NEW out \in Seq(Packets), NEW lost,
           NEW b, Turn(b, shift, came, out, lost),
           NEW f \in DOMAIN b.frames, \A g \in DOMAIN b.frames : b.frames[f].min <= b.frames[g].min,
           ~b.frames[f].marker_received
    PROVE  \/ ReleaseUnmarked(b, f) = b /\ ~Forced(b)
           \/ \E y \in Int : /\ ReleaseUnmarked(b, f) = Drop(b, f, y)
                             /\ Turn(Drop(b, f, y), shift, came, out, lost)
<1> DEFINE later == LaterFrames(b.frames, f)
           y == Min(later)
<1>1. Kept(b.frames, b.next, shift, came)
  BY DEF Turn
<1>2. FrameKept(b.frames, b.next, shift, came, f)
  BY <1>1, FrameCollected
<1>3. CASE ~Forced(b) /\ (later = {} \/ b.frames[f].age < MaxWait)
  BY <1>3 DEF ReleaseUnmarked
<1>4. CASE ~(~Forced(b) /\ (later = {} \/ b.frames[f].age < MaxWait)) /\ later # {}
  <2>1. ReleaseUnmarked(b, f) = Drop(b, f, y)
    BY <1>4 DEF ReleaseUnmarked
  <2>2. /\ y \in Int /\ End[f] + shift < y
        /\ \A p \in came : p + shift >= y <=> Held(b.frames, shift, p) /\ FrameOf[p] # f
    BY <1>1, <1>4, BehindUnmarked
  <2>3. End[f] \in Packets /\ End[f] <= End[f] /\ Open(b.next, shift, End[f])
    BY <1>2 DEF FrameKept
  <2>4. End[f] + shift \notin DOMAIN b.frames[f].packets
    BY <1>1 DEF Kept, GoodFrames, GoodFrame
  <2>5. End[f] \notin came
    BY <1>1, <2>3, <2>4, NotHeld
  <2> HIDE DEF y, later
  <2>6. Turn(Drop(b, f, y), shift, came, out, lost)
    BY <2>2, <2>3, <2>5, DropTurn
  <2> QED
    BY <2>1, <2>2, <2>6
<1>5. CASE Forced(b) /\ later = {}
  <2>1. DOMAIN b.frames = {f}
    <3> SUFFICES ASSUME NEW g \in DOMAIN b.frames, g # f PROVE FALSE
      OBVIOUS
    <3>1. b.frames[f].min < b.frames[g].min
      BY <1>1, FramesInLine
    <3>2. FrameKept(b.frames, b.next, shift, came, g)
      BY <1>1, FrameCollected
    <3>3. b.frames[g].min \in later
      BY <1>2, <3>1, <3>2 DEF LaterFrames, FrameKept
    <3> QED
      BY <1>5, <3>3
  <2>2. Cardinality(DOMAIN b.frames) = 1
    BY <2>1, FS_Singleton
  <2> QED
    BY <1>5, <2>2, ReorderAssumption DEF Forced, ReorderAssumption
<1> QED
  BY <1>3, <1>4, <1>5

\* From a packet of a frame to its end it is not farther than a frame is long.
LEMMA FrameSpans ==
    ASSUME NEW shift \in Int, NEW came \in SUBSET Packets, NEW frames, NEW next,
           Kept(frames, next, shift, came), NEW f \in DOMAIN frames,
           NEW s \in DOMAIN frames[f].packets
    PROVE  End[f] + shift - s < MaxSpan
<1>1. /\ f \in Frames /\ s \in Int /\ s - shift \in PacketsOf[f]
  BY HeldPacket DEF PacketKept
<1>2. /\ Frames = 1 .. Len(End) /\ Len(End) \in Nat /\ MaxSpan \in Nat
      /\ \A g \in Frames : End[g] - (IF g = 1 THEN 0 ELSE End[g - 1]) <= MaxSpan
  BY ReorderAssumption DEF ReorderAssumption, Frames
<1>3. /\ 1 <= s - shift /\ \A g \in Frames : g < f => End[g] < s - shift
  BY <1>1, PacketsOfFrame
<1>4. End[f] \in Int /\ f \in Int
  BY <1>1, NumbersAre
<1>5. CASE f = 1
  BY <1>1, <1>2, <1>3, <1>4, <1>5
<1>6. CASE f # 1
  <2>1. f - 1 \in Frames /\ f - 1 < f
    BY <1>1, <1>2, <1>6
  <2>2. End[f - 1] \in Int /\ End[f - 1] < s - shift
    BY <1>3, <2>1, NumbersAre
  <2>3. End[f] - End[f - 1] <= MaxSpan
    BY <1>1, <1>2, <1>6
  <2> DEFINE last == End[f - 1]
             e == End[f]
  <2> HIDE DEF last, e
  <2>4. e + shift - s < MaxSpan
    BY <1>1, <1>2, <1>4, <2>2, <2>3 DEF last, e
  <2> QED
    BY <2>4 DEF e
<1> QED
  BY <1>5, <1>6

\* The oldest frame, if its end has come, stays, is given up or is handed on.
LEMMA MarkedTurn ==
    ASSUME NEW shift \in Int, NEW came \in SUBSET Packets, NEW out \in Seq(Packets), NEW lost,
           NEW b, Turn(b, shift, came, out, lost),
           NEW f \in DOMAIN b.frames, \A g \in DOMAIN b.frames : b.frames[f].min <= b.frames[g].min,
           b.frames[f].marker_received
    PROVE  \/ ReleaseMarked(b, f) = b /\ ~Forced(b)
           \/ \E y \in Int : /\ ReleaseMarked(b, f) = Drop(b, f, y)
                             /\ Turn(Drop(b, f, y), shift, came, out, lost)
           \/ \E first : /\ ReleaseMarked(b, f) = Release(b, f, first)
                         /\ Turn(Release(b, f, first), shift, came, out, lost)
<1> DEFINE frame == b.frames[f]
           first == Beginning(b, frame)
           y == frame.marker_sequence + 1
           all == ToSet(out \o b.output)
<1>1. /\ Kept(b.frames, b.next, shift, came)
      /\ Left(b.next, shift, came, all, lost \cup b.lost)
  BY DEF Turn
<1>2. FrameKept(b.frames, b.next, shift, came, f)
  BY <1>1, FrameCollected
<1>3. /\ frame.marker_sequence = End[f] + shift
      /\ f \in Frames /\ End[f] \in Packets /\ End[f] \in Int
      /\ End[f] + shift \in DOMAIN frame.packets
  BY <1>1, <1>2, NumbersAre DEF Kept, GoodFrames, GoodFrame, FrameKept
<1>4. Begins(b, shift, came, all, lost \cup b.lost, f, first)
  BY <1>1, BeginningIs
<1>5. ~(frame.marker_sequence < first)
  BY <1>3, <1>4 DEF Begins
<1>6. CASE b.next = <<>> /\ Waits(b, frame)
  BY <1>5, <1>6 DEF ReleaseMarked, Waits
<1>7. CASE ~(b.next = <<>> /\ Waits(b, frame)) /\ Complete(frame, first)
  <2>1. ReleaseMarked(b, f) = Release(b, f, first)
    BY <1>5, <1>7 DEF ReleaseMarked
  <2>2. Turn(Release(b, f, first), shift, came, out, lost)
    BY <1>3, <1>7, ReleaseTurn
  <2> QED
    BY <2>1, <2>2
<1>8. CASE ~(b.next = <<>> /\ Waits(b, frame)) /\ ~Complete(frame, first) /\ Waits(b, frame)
  BY <1>5, <1>8 DEF ReleaseMarked, Waits
<1>9. CASE ~Waits(b, frame) /\ ~Complete(frame, first)
  <2>1. ReleaseMarked(b, f) = Drop(b, f, y)
    BY <1>5, <1>9 DEF ReleaseMarked
  <2>2. PICK s \in first .. End[f] + shift : s \notin DOMAIN frame.packets
    <3>1. first \in Int /\ first - shift <= End[f]
      BY <1>4 DEF Begins
    <3>2. CASE first \in DOMAIN frame.packets
      <4>1. End[f] + shift - first < MaxSpan
        BY <1>1, <3>2, FrameSpans
      <4> HIDE DEF first, frame
      <4>2. frame.marker_sequence - first < MaxSpan
        BY <1>3, <3>1, <4>1, ReorderAssumption DEF ReorderAssumption
      <4>3. ~(first .. frame.marker_sequence \subseteq DOMAIN frame.packets)
        BY <1>9, <4>2 DEF Complete
      <4> QED
        BY <1>3, <4>3
    <3>3. CASE first \notin DOMAIN frame.packets
      <4>1. first \in first .. End[f] + shift
        BY <1>3, <3>1
      <4> HIDE DEF first, frame
      <4> QED
        BY <3>3, <4>1
    <3> QED
      BY <3>2, <3>3
  <2> DEFINE p == s - shift
  <2>3. /\ first \in Int /\ 1 <= first - shift
        /\ \A q \in Int : first - shift <= q => Open(b.next, shift, q)
    BY <1>4 DEF Begins
  <2> HIDE DEF first, frame
  <2>4. p \in Int /\ 1 <= p /\ p <= End[f] /\ first - shift <= p /\ p + shift = s
    BY <1>3, <2>2, <2>3
  <2> HIDE DEF p
  <2>5. p \in Packets /\ Open(b.next, shift, p)
    BY <1>3, <2>3, <2>4, PacketsBefore
  <2>6. p \notin came
    BY <1>1, <2>2, <2>4, <2>5, NotHeld DEF frame
  <2>7. y = End[f] + shift + 1
    BY <1>3
  <2>8. y \in Int /\ End[f] + shift < y
    BY <1>3, <2>7
  <2>9. \A q \in came : q + shift >= y <=> Held(b.frames, shift, q) /\ FrameOf[q] # f
    BY <1>1, <2>7, BehindOldest
  <2> HIDE DEF y
  <2>10. Turn(Drop(b, f, y), shift, came, out, lost)
    BY <2>4, <2>5, <2>6, <2>8, <2>9, DropTurn
  <2> QED
    BY <2>1, <2>8, <2>10
<1> QED
  BY <1>6, <1>7, <1>8, <1>9

\* A turn leaves all as it is, if there is room, or takes one frame off.
LEMMA TurnTurns ==
    ASSUME NEW shift \in Int, NEW came \in SUBSET Packets, NEW out \in Seq(Packets), NEW lost,
           NEW b, Turn(b, shift, came, out, lost)
    PROVE  \/ ReleaseOldest(b) = b /\ ~Forced(b)
           \/ /\ Turn(ReleaseOldest(b), shift, came, out, lost)
              /\ \E f \in DOMAIN b.frames :
                    DOMAIN ReleaseOldest(b).frames = DOMAIN b.frames \ {f}
<1>1. CASE DOMAIN b.frames = {}
  <2>1. ~Forced(b)
    BY <1>1, FS_EmptySet, ReorderAssumption DEF Forced, ReorderAssumption
  <2> QED
    BY <1>1, <2>1 DEF ReleaseOldest
<1>2. CASE DOMAIN b.frames # {}
  <2> DEFINE f == FindOldestFrame(b.frames)
  <2>1. Kept(b.frames, b.next, shift, came)
    BY DEF Turn
  <2>2. f \in DOMAIN b.frames /\ \A g \in DOMAIN b.frames : b.frames[f].min <= b.frames[g].min
    BY <1>2, <2>1, OldestThere
  <2>3. ReleaseOldest(b) = IF b.frames[f].marker_received THEN ReleaseMarked(b, f)
                           ELSE ReleaseUnmarked(b, f)
    BY <1>2 DEF ReleaseOldest
  <2> HIDE DEF f
  <2>4. \A y : DOMAIN Drop(b, f, y).frames = DOMAIN b.frames \ {f}
    BY DEF Drop, Without
  <2>5. \A first : DOMAIN Release(b, f, first).frames = DOMAIN b.frames \ {f}
    BY DEF Release, Without
  <2>6. CASE b.frames[f].marker_received
    <3>1. ReleaseOldest(b) = ReleaseMarked(b, f)
      BY <2>3, <2>6
    <3>2. \/ ReleaseMarked(b, f) = b /\ ~Forced(b)
          \/ \E y \in Int : /\ ReleaseMarked(b, f) = Drop(b, f, y)
                            /\ Turn(Drop(b, f, y), shift, came, out, lost)
          \/ \E first : /\ ReleaseMarked(b, f) = Release(b, f, first)
                        /\ Turn(Release(b, f, first), shift, came, out, lost)
      BY <2>2, <2>6, MarkedTurn
    <3> QED
      BY <2>2, <2>4, <2>5, <3>1, <3>2
  <2>7. CASE ~b.frames[f].marker_received
    <3>1. ReleaseOldest(b) = ReleaseUnmarked(b, f)
      BY <2>3, <2>7
    <3>2. \/ ReleaseUnmarked(b, f) = b /\ ~Forced(b)
          \/ \E y \in Int : /\ ReleaseUnmarked(b, f) = Drop(b, f, y)
                            /\ Turn(Drop(b, f, y), shift, came, out, lost)
      BY <2>2, <2>7, UnmarkedTurn
    <3> QED
      BY <2>2, <2>4, <3>1, <3>2
  <2> QED
    BY <2>6, <2>7
<1> QED
  BY <1>1, <1>2

-----------------------------------------------------------------------------
(* The loop of a call.                                                      *)

Turned(bs) == {ReleaseOldest(b) : b \in bs}

\* The first n turns from bs on.
Turns(g, n, bs) == g = [t \in 0 .. n |-> IF t = 0 THEN bs ELSE Turned(g[t - 1])]

LEMMA TurnsThere ==
    ASSUME NEW bs, NEW n \in Nat
    PROVE  \E g : Turns(g, n, bs)
<1> DEFINE Bad == {k \in Nat : ~\E g : Turns(g, k, bs)}
<1>1. ASSUME Bad # {} PROVE FALSE
  <2>1. Bad \in SUBSET Nat
    OBVIOUS
  <2>2. PICK k \in Bad : \A j \in Bad : k <= j
    <3> HIDE DEF Bad
    <3> QED
      BY <1>1, <2>1, Least
  <2>3. k \in Nat /\ ~\E g : Turns(g, k, bs)
    OBVIOUS
  <2>4. CASE k = 0
    <3> DEFINE g == [t \in 0 .. 0 |-> bs]
    <3>1. g = [t \in 0 .. 0 |-> IF t = 0 THEN bs ELSE Turned(g[t - 1])]
      OBVIOUS
    <3> HIDE DEF g
    <3> QED
      BY <2>3, <2>4, <3>1 DEF Turns
  <2>5. CASE k # 0
    <3>1. k - 1 \in Nat /\ k - 1 \notin Bad
      BY <2>2, <2>3, <2>5
    <3>2. PICK h : Turns(h, k - 1, bs)
      BY <3>1
    <3> HIDE DEF Bad
    <3> DEFINE g == [t \in 0 .. k |-> IF t = 0 THEN bs ELSE Turned(h[t - 1])]
    <3>3. ASSUME NEW t \in 0 .. k - 1 PROVE g[t] = h[t]
      <4>1. h[t] = IF t = 0 THEN bs ELSE Turned(h[t - 1])
        BY <3>2, <3>3 DEF Turns
      <4>2. t \in 0 .. k
        BY <2>3
      <4> QED
        BY <4>1, <4>2
    <3>4. ASSUME NEW t \in 0 .. k
          PROVE  g[t] = IF t = 0 THEN bs ELSE Turned(g[t - 1])
      <4>1. CASE t = 0
        BY <4>1
      <4>2. CASE t # 0
        <5>1. t - 1 \in 0 .. k - 1
          BY <2>3, <4>2
        <5>2. g[t - 1] = h[t - 1]
          BY <3>3, <5>1
        <5> QED
          BY <4>2, <5>2
      <4> QED
        BY <4>1, <4>2
    <3>5. g = [t \in 0 .. k |-> g[t]]
      OBVIOUS
    <3> HIDE DEF g
    <3>6. Turns(g, k, bs)
      BY <3>4, <3>5 DEF Turns
    <3> QED
      BY <2>3, <3>6
  <2> QED
    BY <2>4, <2>5
<1> QED
  BY <1>1

\* However far they go, turns agree.
LEMMA TurnsAgree ==
    ASSUME NEW bs, NEW n \in Nat, NEW m \in Nat, NEW g, NEW h,
           Turns(g, n, bs), Turns(h, m, bs), NEW t \in Nat, t <= n, t <= m
    PROVE  g[t] = h[t]
<1> DEFINE Bad == {k \in Nat : k <= n /\ k <= m /\ g[k] # h[k]}
<1>1. ASSUME NEW k \in Nat, k <= n, k <= m
      PROVE  /\ g[k] = IF k = 0 THEN bs ELSE Turned(g[k - 1])
             /\ h[k] = IF k = 0 THEN bs ELSE Turned(h[k - 1])
  <2>1. k \in 0 .. n /\ k \in 0 .. m
    BY <1>1
  <2> QED
    BY <2>1 DEF Turns
<1>2. ASSUME Bad # {} PROVE FALSE
  <2>1. Bad \in SUBSET Nat
    OBVIOUS
  <2>2. PICK k \in Bad : \A j \in Bad : k <= j
    <3> HIDE DEF Bad
    <3> QED
      BY <1>2, <2>1, Least
  <2>3. k \in Nat /\ k <= n /\ k <= m /\ g[k] # h[k]
    OBVIOUS
  <2>4. k # 0
    BY <1>1, <2>3
  <2>5. k - 1 \in Nat /\ k - 1 <= n /\ k - 1 <= m /\ k - 1 \notin Bad
    BY <2>2, <2>3, <2>4
  <2>6. g[k - 1] = h[k - 1]
    BY <2>5
  <2> QED
    BY <1>1, <2>3, <2>4, <2>6
<1> QED
  BY <1>2

\* What the loop ends in is what it started with after that many turns.
LEMMA LoopThere ==
    ASSUME NEW bs
    PROVE  \E g : g = [t \in Nat |-> IF t = 0 THEN bs ELSE Turned(g[t - 1])]
<1> DEFINE some(n) == CHOOSE g : Turns(g, n, bs)
           all == [t \in Nat |-> some(t)[t]]
<1>1. \A n \in Nat : Turns(some(n), n, bs)
  BY TurnsThere
<1> HIDE DEF some
<1>2. ASSUME NEW t \in Nat PROVE all[t] = IF t = 0 THEN bs ELSE Turned(all[t - 1])
  <2>1. Turns(some(t), t, bs) /\ t \in 0 .. t
    BY <1>1
  <2>2. some(t)[t] = IF t = 0 THEN bs ELSE Turned(some(t)[t - 1])
    BY <2>1 DEF Turns
  <2>3. CASE t = 0
    BY <2>2, <2>3
  <2>4. CASE t # 0
    <3>1. t - 1 \in Nat /\ t - 1 <= t - 1 /\ t - 1 <= t
      BY <2>4
    <3>2. Turns(some(t - 1), t - 1, bs)
      BY <1>1, <3>1
    <3>3. some(t)[t - 1] = some(t - 1)[t - 1]
      BY <2>1, <3>1, <3>2, TurnsAgree
    <3> QED
      BY <2>2, <2>4, <3>1, <3>3
  <2> QED
    BY <2>3, <2>4
<1>3. all = [t \in Nat |-> all[t]]
  OBVIOUS
<1> HIDE DEF all
<1> QED
  BY <1>2, <1>3

\* After a call, which finds one frame too many at most, the buffer has room
\* again and what was true of its packets is.
LEMMA LoopTurns ==
    ASSUME NEW shift \in Int, NEW came \in SUBSET Packets, NEW out \in Seq(Packets), NEW lost,
           NEW frames, IsFiniteSet(DOMAIN frames), Cardinality(DOMAIN frames) <= MaxFrames + 1,
           Turn([frames |-> frames, next |-> m_next_sequence, output |-> <<>>, lost |-> {}],
                shift, came, out, lost),
           NEW b \in ReleaseReadyFrames(frames)
    PROVE  Turn(b, shift, came, out, lost) /\ Cardinality(DOMAIN b.frames) <= MaxFrames
<1> DEFINE start == [frames |-> frames, next |-> m_next_sequence, output |-> <<>>, lost |-> {}]
           P(g) == g = [turn \in Nat |-> IF turn = 0 THEN {start}
                                         ELSE {ReleaseOldest(c) : c \in g[turn - 1]}]
           after == CHOOSE g : P(g)
           n == Cardinality(DOMAIN frames)
<1>1. ReleaseReadyFrames(frames) = after[n]
  BY DEF ReleaseReadyFrames
<1>2. P(after)
  <2>1. PICK g : g = [t \in Nat |-> IF t = 0 THEN {start} ELSE Turned(g[t - 1])]
    <3> HIDE DEF start
    <3> QED
      BY LoopThere
  <2>2. P(g)
    BY <2>1 DEF Turned
  <2> HIDE DEF P
  <2> QED
    BY <2>2
<1> HIDE DEF after, start
<1> DEFINE Good(c) ==
               /\ Turn(c, shift, came, out, lost) /\ IsFiniteSet(DOMAIN c.frames)
               /\ Cardinality(DOMAIN c.frames) <= MaxFrames + 1
           Small(c) == Cardinality(DOMAIN c.frames) <= MaxFrames
           Bad == {k \in Nat : \E c \in after[k] : ~(Good(c) /\ (k # 0 => Small(c)))}
<1>3. n \in Nat /\ MaxFrames \in Nat /\ MaxFrames >= 2
  BY FS_CardinalityType, ReorderAssumption DEF ReorderAssumption
<1>4. \A k \in Nat : after[k] = IF k = 0 THEN {start} ELSE {ReleaseOldest(c) : c \in after[k - 1]}
  BY <1>2
<1>5. start.frames = frames /\ Good(start)
  BY DEF start
<1>6. ASSUME NEW c, Good(c) PROVE Good(ReleaseOldest(c)) /\ Small(ReleaseOldest(c))
  <2>1. Cardinality(DOMAIN c.frames) \in Nat
    BY <1>6, FS_CardinalityType
  <2>2. CASE ReleaseOldest(c) = c /\ ~Forced(c)
    BY <1>3, <1>6, <2>1, <2>2 DEF Forced
  <2>3. CASE /\ Turn(ReleaseOldest(c), shift, came, out, lost)
             /\ \E f \in DOMAIN c.frames :
                   DOMAIN ReleaseOldest(c).frames = DOMAIN c.frames \ {f}
    <3>1. PICK f \in DOMAIN c.frames : DOMAIN ReleaseOldest(c).frames = DOMAIN c.frames \ {f}
      BY <2>3
    <3>2. /\ IsFiniteSet(DOMAIN c.frames \ {f})
          /\ Cardinality(DOMAIN c.frames \ {f}) = Cardinality(DOMAIN c.frames) - 1
      BY <1>6, FS_RemoveElement
    <3> DEFINE r == ReleaseOldest(c)
    <3>3. /\ IsFiniteSet(DOMAIN r.frames)
          /\ Cardinality(DOMAIN r.frames) = Cardinality(DOMAIN c.frames) - 1
      BY <3>1, <3>2
    <3>4. Cardinality(DOMAIN c.frames) <= MaxFrames + 1 /\ Turn(r, shift, came, out, lost)
      BY <1>6, <2>3
    <3> HIDE DEF r
    <3>5. Good(r) /\ Small(r)
      BY <1>3, <2>1, <3>3, <3>4
    <3> QED
      BY <3>5 DEF r
  <2> QED
    BY <1>6, <2>2, <2>3, TurnTurns
<1> HIDE DEF Good, Small
<1>7. ASSUME Bad # {} PROVE FALSE
  <2>1. Bad \in SUBSET Nat
    OBVIOUS
  <2>2. PICK k \in Bad : \A j \in Bad : k <= j
    <3> HIDE DEF Bad
    <3> QED
      BY <1>7, <2>1, Least
  <2>3. k \in Nat
    OBVIOUS
  <2>4. PICK c \in after[k] : ~(Good(c) /\ (k # 0 => Small(c)))
    OBVIOUS
  <2>5. k # 0
    BY <1>4, <1>5, <2>3, <2>4
  <2>6. PICK d \in after[k - 1] : c = ReleaseOldest(d)
    BY <1>4, <2>3, <2>4, <2>5
  <2>7. k - 1 \in Nat /\ k - 1 \notin Bad
    BY <2>2, <2>3, <2>5
  <2>8. Good(d)
    BY <2>6, <2>7
  <2> QED
    BY <1>6, <2>4, <2>6, <2>8
<1>8. b \in after[n]
  BY <1>1
<1>9. Good(b) /\ (n # 0 => Small(b))
  BY <1>3, <1>7, <1>8
<1>10. CASE n = 0
  <2>1. after[0] = {start}
    BY <1>4
  <2>2. b = start
    BY <1>8, <1>10, <2>1
  <2> QED
    BY <1>3, <1>5, <1>10, <2>2 DEF Good
<1>11. CASE n # 0
  BY <1>9, <1>11 DEF Good, Small
<1> QED
  BY <1>10, <1>11

-----------------------------------------------------------------------------
(* Numbers modulo Modulus.                                                  *)

LEMMA ModulusIs ==
    /\ Modulus \in Nat /\ Modulus > 0 /\ FirstSequence \in Nat
    /\ Modulus \div 2 \in Nat /\ Modulus = 2 * (Modulus \div 2)
  BY ReorderAssumption DEF ReorderAssumption

\* A multiple is none, one, two or more, on either side.
LEMMA Multiples ==
    ASSUME NEW m \in Nat, m > 0, NEW d \in Int
    PROVE  /\ m * d \in Int
           /\ d = 0 => m * d = 0
           /\ d = 1 => m * d = m
           /\ d = 0 - 1 => m * d = 0 - m
           /\ d >= 1 => m * d >= m
           /\ d <= 0 - 1 => m * d <= 0 - m
           /\ d >= 2 => m * d >= m + m
           /\ d <= 0 - 2 => m * d <= 0 - m - m
<1>1. m * d \in Int
  OBVIOUS
<1>2. d >= 1 => m * d >= m
  OBVIOUS
<1>3. d <= 0 - 1 => m * d <= 0 - m
  OBVIOUS
<1>4. d >= 2 => m * d >= m + m
  OBVIOUS
<1>5. d <= 0 - 2 => m * d <= 0 - m - m
  OBVIOUS
<1>6. (d = 0 => m * d = 0) /\ (d = 1 => m * d = m) /\ (d = 0 - 1 => m * d = 0 - m)
  OBVIOUS
<1> QED
  BY <1>1, <1>2, <1>3, <1>4, <1>5, <1>6

\* Every number is a multiple and its remainder, in one way only.
LEMMA Remainder ==
    ASSUME NEW m \in Nat, m > 0, NEW a \in Int
    PROVE  /\ a % m \in Int /\ 0 <= a % m /\ a % m < m
           /\ \E q \in Int : a = m * q + (a % m)
  OBVIOUS

LEMMA RemainderIs ==
    ASSUME NEW m \in Nat, m > 0, NEW a \in Int, NEW q \in Int, NEW r \in Int,
           0 <= r, r < m, a = m * q + r
    PROVE  a % m = r
<1>1. PICK k \in Int : a = m * k + (a % m)
  BY Remainder
<1>2. a % m \in Int /\ 0 <= a % m /\ a % m < m
  BY Remainder
<1> DEFINE d == q - k
<1>3. m * d = m * q - m * k
  OBVIOUS
<1>4. m * d = (a % m) - r /\ d \in Int
  BY <1>1, <1>2, <1>3
<1> HIDE DEF d
<1>5. ~(d >= 1) /\ ~(d <= 0 - 1)
  BY <1>2, <1>4, Multiples
<1>6. d = 0
  BY <1>4, <1>5
<1>7. m * d = 0
  BY <1>6
<1> QED
  BY <1>2, <1>4, <1>7

\* Numbers that agree on the wire are a multiple apart.
LEMMA Apart ==
    ASSUME NEW m \in Nat, m > 0, NEW a \in Int, NEW c \in Int, a % m = c % m
    PROVE  \E d \in Int : a = c + m * d
<1>1. PICK q \in Int : a = m * q + (a % m)
  BY Remainder
<1>2. PICK k \in Int : c = m * k + (c % m)
  BY Remainder
<1>3. m * (q - k) = m * q - m * k /\ q - k \in Int
  OBVIOUS
<1>4. a % m \in Int /\ m * q \in Int /\ m * k \in Int
  BY Remainder
<1>5. a = c + m * (q - k)
  BY <1>1, <1>2, <1>3, <1>4
<1> QED
  BY <1>3, <1>5

\* The number nearest to the highest one is the one that was sent.
Near(m, half, high, top, p, first, c) ==
    /\ c \in Int
    /\ c + half < high => c + m = high + (p - top)
    /\ c - half > high => c - m = high + (p - top)
    /\ ~(c + half < high) /\ ~(c - half > high) => c = high + (p - top)
    /\ (high + (p - top)) % m = (first + p - 1) % m

LEMMA Nearest ==
    ASSUME NEW m \in Nat, NEW half \in Nat, m = 2 * half, m > 0,
           NEW high \in Int, NEW top \in Int, NEW p \in Int, NEW first \in Int,
           p - top < half, top - p < half,
           high % m = (first + top - 1) % m,
           NEW c, c = (high - (high % m)) + ((first + p - 1) % m)
    PROVE  Near(m, half, high, top, p, first, c)
<1> DEFINE h == high % m
           w == (first + p - 1) % m
           t == high + (p - top)
<1>1. /\ h \in Int /\ 0 <= h /\ h < m
      /\ w \in Int /\ 0 <= w /\ w < m
  <2>1. first + p - 1 \in Int
    OBVIOUS
  <2> QED
    BY <2>1, Remainder
<1>2. PICK q \in Int : high = (first + top - 1) + m * q
  <2> DEFINE c0 == first + top - 1
  <2>1. c0 \in Int /\ high % m = c0 % m
    OBVIOUS
  <2> HIDE DEF c0
  <2>2. \E q \in Int : high = c0 + m * q
    BY <2>1, Apart, Zenon
  <2> QED
    BY <2>2 DEF c0
<1>3. t = (first + p - 1) + m * q
  BY <1>2
<1>4. PICK k \in Int : first + p - 1 = m * k + w
  <2>1. first + p - 1 \in Int
    OBVIOUS
  <2> QED
    BY <2>1, Remainder
<1>5. PICK j \in Int : high = m * j + h
  BY Remainder
<1> HIDE DEF h, w
<1>6. t = m * (k + q) + w /\ k + q \in Int /\ t \in Int
  <2>1. m * (k + q) = m * k + m * q
    OBVIOUS
  <2> QED
    BY <1>1, <1>3, <1>4, <2>1
<1>7. t % m = w
  <2> HIDE DEF t
  <2> QED
    BY <1>1, <1>6, RemainderIs
<1>8. c = m * j + w /\ c \in Int /\ c = high - h + w
  <2>1. c = high - h + w
    BY <1>1 DEF h, w
  <2>2. m * j \in Int
    OBVIOUS
  <2> QED
    BY <1>1, <1>5, <2>1, <2>2
<1> DEFINE d == (k + q) - j
<1>9. t - c = m * d /\ d \in Int
  <2>1. m * d = m * (k + q) - m * j
    OBVIOUS
  <2> QED
    BY <1>1, <1>6, <1>8, <2>1
<1>10. t - high < half /\ high - t < half
  OBVIOUS
<1>11. c - high < m /\ high - c < m
  BY <1>1, <1>8
<1> HIDE DEF d, t
<1>12. /\ m * d \in Int
       /\ d = 0 => m * d = 0
       /\ d = 1 => m * d = m
       /\ d = 0 - 1 => m * d = 0 - m
       /\ d >= 1 => m * d >= m
       /\ d <= 0 - 1 => m * d <= 0 - m
       /\ d >= 2 => m * d >= m + m
       /\ d <= 0 - 2 => m * d <= 0 - m - m
  BY <1>9, Multiples
<1> DEFINE e == m * d
<1>13. /\ e \in Int /\ t \in Int /\ c \in Int /\ t - c = e
       /\ d = 0 => e = 0
       /\ d = 1 => e = m
       /\ d = 0 - 1 => e = 0 - m
       /\ d >= 1 => e >= m
       /\ d <= 0 - 1 => e <= 0 - m
       /\ d >= 2 => e >= m + m
       /\ d <= 0 - 2 => e <= 0 - m - m
  BY <1>6, <1>8, <1>9, <1>12
<1> HIDE DEF e
<1>14. CASE c + half < high
  <2>1. ~(d >= 2) /\ ~(d <= 0)
    BY <1>9, <1>10, <1>11, <1>13, <1>14
  <2>2. d = 1
    BY <1>9, <2>1
  <2>3. c + m = t
    BY <1>13, <2>2
  <2>4. ~(c - half > high)
    BY <1>8, <1>14
  <2> QED
    BY <1>7, <1>8, <1>14, <2>3, <2>4 DEF t, w, Near
<1>15. CASE c - half > high
  <2>1. ~(d <= 0 - 2) /\ ~(d >= 0)
    BY <1>9, <1>10, <1>11, <1>13, <1>15
  <2>2. d = 0 - 1
    BY <1>9, <2>1
  <2>3. c - m = t
    BY <1>13, <2>2
  <2>4. ~(c + half < high)
    BY <1>8, <1>15
  <2> QED
    BY <1>7, <1>8, <1>15, <2>3, <2>4 DEF t, w, Near
<1>16. CASE ~(c + half < high) /\ ~(c - half > high)
  <2>1. ~(d <= 0 - 1) /\ ~(d >= 1)
    BY <1>9, <1>10, <1>11, <1>13, <1>16
  <2>2. d = 0
    BY <1>9, <2>1
  <2>3. c = t
    BY <1>13, <2>2
  <2> QED
    BY <1>7, <1>8, <1>16, <2>3 DEF t, w, Near
<1> QED
  BY <1>14, <1>15, <1>16

-----------------------------------------------------------------------------
(* A packet comes in.                                                       *)

LEMMA OnWireIs ==
    ASSUME NEW p \in Int
    PROVE  OnWire(p) = (FirstSequence + p - 1) % Modulus /\ OnWire(p) \in Nat
<1>1. FirstSequence + p - 1 \in Int
  BY ModulusIs
<1>2. /\ (FirstSequence + p - 1) % Modulus \in Int
      /\ 0 <= (FirstSequence + p - 1) % Modulus
  BY <1>1, ModulusIs, Remainder
<1> QED
  BY <1>2 DEF OnWire

\* What is on its way and what came are packets, and the latest is one of them.
LEMMA CameArePackets ==
    ASSUME TypeInv
    PROVE  /\ wire \subseteq Packets /\ received \subseteq Packets /\ sent \in Int
           /\ received # {} =>
                  /\ Max(received) \in received /\ Max(received) \in Packets
                  /\ \A q \in received : q <= Max(received)
<1>1. \A q \in 1 .. sent : q \in Packets
  <2> TAKE q \in 1 .. sent
  <2>1. sent \in Packets /\ q \in Int /\ 1 <= q /\ q <= sent
    BY DEF TypeInv
  <2> QED
    BY <2>1, PacketsBefore
<1>2. wire \subseteq Packets /\ received \subseteq Packets /\ sent \in Int
  BY <1>1 DEF TypeInv
<1>3. ASSUME received # {}
      PROVE  Max(received) \in received /\ \A q \in received : q <= Max(received)
  <2>1. received \in SUBSET Int /\ \A q \in received : q <= sent
    BY DEF TypeInv
  <2> QED
    BY <1>2, <1>3, <2>1, GreatestInteger
<1> QED
  BY <1>2, <1>3

\* A packet on its way gets its number.
LEMMA UnwrapIs ==
    ASSUME TypeInv, NumberInv, NEW p \in wire
    PROVE  /\ UnwrapSequence(OnWire(p)) \in Int
           /\ received # {} => UnwrapSequence(OnWire(p)) = m_highest_sequence + (p - Max(received))
           /\ received = {} => UnwrapSequence(OnWire(p)) = OnWire(p)
           /\ UnwrapSequence(OnWire(p)) % Modulus = OnWire(p)
<1> DEFINE w == OnWire(p)
           half == Modulus \div 2
           c == (m_highest_sequence - (m_highest_sequence % Modulus)) + w
           u == UnwrapSequence(w)
<1>1. p \in Packets /\ p \in Int
  BY CameArePackets, NumbersAre
<1>2. w = (FirstSequence + p - 1) % Modulus /\ w \in Nat
  BY <1>1, OnWireIs
<1>3. u = CASE ~m_sequence_initialized -> w
            [] m_sequence_initialized /\ c + half < m_highest_sequence -> c + Modulus
            [] m_sequence_initialized /\ c - half > m_highest_sequence -> c - Modulus
            [] OTHER -> c
  BY DEF UnwrapSequence
<1>4. CASE received = {}
  <2>1. ~m_sequence_initialized
    BY <1>4 DEF NumberInv
  <2>2. u = w
    <3> HIDE DEF c, half, w, u
    <3> QED
      BY <1>3, <2>1
  <2>3. w % Modulus = w
    <3>1. FirstSequence + p - 1 \in Int
      BY <1>1, ModulusIs
    <3>2. 0 <= w /\ w < Modulus /\ w \in Int
      BY <1>2, <3>1, ModulusIs, Remainder
    <3>3. w = Modulus * 0 + w
      BY <3>2, ModulusIs
    <3> HIDE DEF w
    <3> QED
      BY <3>2, <3>3, ModulusIs, RemainderIs
  <2> QED
    BY <1>2, <1>4, <2>2, <2>3
<1>5. CASE received # {}
  <2> DEFINE top == Max(received)
             high == m_highest_sequence
  <2>1. m_sequence_initialized /\ high % Modulus = OnWire(top)
    BY <1>5 DEF NumberInv
  <2>2. top \in Int /\ high \in Int
    BY <1>5, CameArePackets, NumbersAre DEF TypeInv
  <2>3. p - top < half /\ top - p < half
    <3>1. p \in wire \cup Latest /\ top \in wire \cup Latest
      BY <1>5 DEF Latest
    <3> QED
      BY <3>1 DEF NumberInv
  <2>4. high % Modulus = (FirstSequence + top - 1) % Modulus
    BY <2>1, <2>2, OnWireIs
  <2>5. c = (high - (high % Modulus)) + ((FirstSequence + p - 1) % Modulus)
    BY <1>2
  <2> DEFINE t == high + (p - top)
  <2>6. /\ c \in Int
        /\ c + half < high => c + Modulus = t
        /\ c - half > high => c - Modulus = t
        /\ ~(c + half < high) /\ ~(c - half > high) => c = t
        /\ t % Modulus = (FirstSequence + p - 1) % Modulus
    <3>1. /\ half \in Nat /\ Modulus = 2 * half /\ Modulus \in Nat /\ Modulus > 0
          /\ FirstSequence \in Int
      BY ModulusIs
    <3> HIDE DEF c, half, top, high, t
    <3>2. Near(Modulus, half, high, top, p, FirstSequence, c)
      BY <1>1, <2>2, <2>3, <2>4, <2>5, <3>1, Nearest
    <3> QED
      BY <3>2 DEF Near, t
  <2>7. u = t
    <3>1. u = CASE m_sequence_initialized /\ c + half < high -> c + Modulus
                [] m_sequence_initialized /\ c - half > high -> c - Modulus
                [] OTHER -> c
      <4> HIDE DEF c, half, w, u
      <4> QED
        BY <1>3, <2>1
    <3>2. t \in Int
      BY <1>1, <2>2
    <3> HIDE DEF c, half, w, u, t, high, top
    <3> QED
      BY <2>1, <2>6, <3>1, <3>2
  <2>8. t \in Int
    BY <1>1, <2>2
  <2> QED
    BY <1>2, <1>5, <2>6, <2>7, <2>8
<1> QED
  BY <1>4, <1>5

\* The latest packet with one more.
LEMMA LatestIs ==
    ASSUME TypeInv, NEW p \in wire
    PROVE  /\ received = {} => Max(received \cup {p}) = p
           /\ received # {} /\ p <= Max(received) => Max(received \cup {p}) = Max(received)
           /\ received # {} /\ Max(received) <= p => Max(received \cup {p}) = p
<1> DEFINE all == received \cup {p}
           m == Max(all)
<1>1. p \in wire /\ p \in Int /\ p <= sent /\ sent \in Int /\ received \in SUBSET Int
  BY DEF TypeInv
<1>2. all \in SUBSET Int /\ all # {} /\ \A q \in all : q <= sent
  BY <1>1 DEF TypeInv
<1>3. m \in all /\ \A q \in all : q <= m
  <2> HIDE DEF all
  <2> QED
    BY <1>1, <1>2, GreatestInteger
<1> HIDE DEF m
<1>4. m \in Int /\ p <= m
  BY <1>1, <1>3
<1>5. CASE received = {}
  BY <1>3, <1>5 DEF m
<1>6. CASE received # {}
  <2> DEFINE top == Max(received)
  <2>1. top \in received /\ \A q \in received : q <= top
    BY <1>6, CameArePackets
  <2> HIDE DEF top
  <2>2. top \in Int /\ top <= m
    BY <1>1, <1>3, <2>1
  <2>3. m = p \/ m <= top
    BY <1>3, <2>1
  <2>4. (p <= top => m = top) /\ (top <= p => m = p)
    BY <1>1, <1>4, <2>2, <2>3
  <2> QED
    BY <1>6, <2>4 DEF m, top
<1> QED
  BY <1>5, <1>6

\* The shift is the same with the packet that came, or it is the first.
LEMMA ShiftStays ==
    ASSUME TypeInv, NumberInv, NEW p \in wire,
           m_sequence_initialized' = TRUE,
           m_highest_sequence' = Highest(UnwrapSequence(OnWire(p))),
           received' = received \cup {p},
           wire' \subseteq wire
    PROVE  /\ Shift' \in Int /\ UnwrapSequence(OnWire(p)) = p + Shift'
           /\ received # {} => Shift' = Shift
           /\ m_highest_sequence' \in Nat
           /\ m_highest_sequence' % Modulus = OnWire(Max(received'))
           /\ \A q, r \in wire' \cup Latest' : q - r < Modulus \div 2
<1> DEFINE u == UnwrapSequence(OnWire(p))
           top == Max(received)
<1>1. p \in Int /\ OnWire(p) \in Nat
  <2>1. p \in Int
    BY CameArePackets, NumbersAre
  <2> QED
    BY <2>1, OnWireIs
<1>2. /\ u \in Int
      /\ received # {} => u = m_highest_sequence + (p - top)
      /\ received = {} => u = OnWire(p)
      /\ u % Modulus = OnWire(p)
  BY UnwrapIs
<1>3. received' # {} /\ Shift' = m_highest_sequence' - Max(received')
  BY DEF Shift
<1>4. m_highest_sequence \in Nat
  BY DEF TypeInv
<1> HIDE DEF u
<1>5. m_highest_sequence' = IF m_sequence_initialized /\ u < m_highest_sequence
                            THEN m_highest_sequence ELSE u
  BY DEF Highest, u
<1>6. CASE received = {}
  <2>1. ~m_sequence_initialized
    BY <1>6 DEF NumberInv
  <2>2. Max(received') = p
    BY <1>6, LatestIs
  <2>3. m_highest_sequence' = u
    BY <1>5, <2>1
  <2>4. \A q, r \in wire' \cup Latest' : q - r < Modulus \div 2
    <3>1. wire' \cup Latest' \subseteq wire \cup Latest
      BY <1>3, <2>2 DEF Latest
    <3> QED
      BY <3>1 DEF NumberInv
  <2> QED
    BY <1>1, <1>2, <1>3, <1>6, <2>2, <2>3, <2>4 DEF u
<1>7. CASE received # {}
  <2>1. m_sequence_initialized /\ m_highest_sequence % Modulus = OnWire(top)
    BY <1>7 DEF NumberInv
  <2>2. top \in Int /\ Shift = m_highest_sequence - top
    BY <1>7, CameArePackets, NumbersAre DEF Shift
  <2>3. u = m_highest_sequence + (p - top)
    BY <1>2, <1>7
  <2>4. \A q, r \in wire' \cup Latest' : q - r < Modulus \div 2
    <3>1. Max(received') \in {p, top}
      BY <1>1, <1>7, <2>2, LatestIs
    <3>2. wire' \cup Latest' \subseteq wire \cup Latest
      BY <1>3, <1>7, <3>1 DEF Latest
    <3> QED
      BY <3>2 DEF NumberInv
  <2>5. CASE p <= top
    <3>1. Max(received') = top
      BY <1>7, <2>5, LatestIs
    <3>2. m_highest_sequence' = m_highest_sequence
      BY <1>1, <1>2, <1>4, <1>5, <2>1, <2>2, <2>3, <2>5
    <3>3. u = p + Shift' /\ Shift' = Shift /\ Shift' \in Int
      BY <1>1, <1>3, <1>4, <2>2, <2>3, <3>1, <3>2
    <3>4. m_highest_sequence' % Modulus = OnWire(Max(received'))
      BY <2>1, <3>1, <3>2
    <3>5. m_highest_sequence' \in Nat
      BY <1>4, <3>2
    <3> QED
      BY <2>4, <3>3, <3>4, <3>5 DEF u
  <2>6. CASE ~(p <= top)
    <3>1. Max(received') = p
      BY <1>1, <1>7, <2>2, <2>6, LatestIs
    <3>2. m_highest_sequence' = u
      BY <1>1, <1>2, <1>4, <1>5, <2>1, <2>2, <2>3, <2>6
    <3>3. u = p + Shift' /\ Shift' = Shift /\ u \in Nat
      BY <1>1, <1>2, <1>3, <1>4, <2>2, <2>3, <2>6, <3>1, <3>2
    <3> QED
      BY <1>1, <1>2, <1>3, <2>2, <2>4, <3>1, <3>2, <3>3 DEF u
  <2> QED
    BY <2>5, <2>6
<1> QED
  BY <1>6, <1>7

\* A frame that a packet may be put into: one that is collected, or a new one
\* for the packet.
Fit(frame, f, shift, came, sequence) ==
    /\ frame \in FrameRecords
    /\ \A s \in DOMAIN frame.packets :
          frame.packets[s] = s - shift /\ s - shift \in PacketsOf[f] \cap came
    /\ frame.min = sequence \/ frame.min \in DOMAIN frame.packets
    /\ \A s \in DOMAIN frame.packets : frame.min <= s
    /\ frame.marker_received <=> End[f] + shift \in DOMAIN frame.packets
    /\ frame.marker_received => frame.marker_sequence = End[f] + shift

LEMMA NewFrameFits ==
    ASSUME NEW shift, NEW came, NEW f, NEW sequence \in Int
    PROVE  Fit(NewFrame(sequence), f, shift, came, sequence)
<1> DEFINE frame == NewFrame(sequence)
<1>1. frame = [min |-> sequence, marker_sequence |-> sequence, marker_received |-> FALSE,
               age |-> 0, packets |-> <<>>]
  BY DEF NewFrame
<1>2. <<>> \in [{} -> Packets] /\ DOMAIN <<>> = {}
  OBVIOUS
<1>3. <<>> \in UNION {[A -> Packets] : A \in SUBSET Int}
  <2>1. {} \in SUBSET Int
    OBVIOUS
  <2> QED
    BY <1>2, <2>1
<1>4. 0 \in 0 .. MaxWait
  BY ReorderAssumption DEF ReorderAssumption
<1>5. frame \in FrameRecords
  BY <1>1, <1>3, <1>4 DEF FrameRecords
<1>6. DOMAIN frame.packets = {} /\ frame.marker_received = FALSE /\ frame.min = sequence
  BY <1>1, <1>2
<1> HIDE DEF frame
<1>7. Fit(frame, f, shift, came, sequence)
  BY <1>5, <1>6 DEF Fit
<1> QED
  BY <1>7 DEF frame

IsPut(frame, f, p, shift, came, sequence) ==
    /\ GoodFrame(Put(frame, p, sequence), f, shift, came \cup {p})
    /\ DOMAIN Put(frame, p, sequence).packets = DOMAIN frame.packets \cup {sequence}

LEMMA PutGood ==
    ASSUME NEW shift \in Int, NEW came \in SUBSET Packets, NEW p \in Packets, NEW frame,
           NEW sequence, sequence = p + shift, Fit(frame, FrameOf[p], shift, came, sequence)
    PROVE  IsPut(frame, FrameOf[p], p, shift, came, sequence)
<1> DEFINE f == FrameOf[p]
           known == DOMAIN frame.packets
           ends == End[f] = p /\ sequence \notin known
           new == Put(frame, p, sequence)
           packets == [s \in known \cup {sequence} |->
                           IF s \in known THEN frame.packets[s] ELSE p]
<1>1. /\ new.min = IF sequence < frame.min THEN sequence ELSE frame.min
      /\ new.marker_sequence = IF ends THEN sequence ELSE frame.marker_sequence
      /\ new.marker_received = (frame.marker_received \/ ends)
      /\ new.age = frame.age /\ new.packets = packets
      /\ new = [min |-> new.min, marker_sequence |-> new.marker_sequence,
                marker_received |-> new.marker_received, age |-> new.age,
                packets |-> new.packets]
  BY DEF Put
<1>2. /\ p \in Int /\ f \in Frames /\ p \in PacketsOf[f] /\ End[f] \in Int /\ sequence \in Int
      /\ sequence - shift = p
  BY PacketFacts, NumbersAre
<1>3. /\ frame.min \in Int /\ frame.marker_sequence \in Int
      /\ frame.marker_received \in BOOLEAN /\ frame.age \in 0 .. MaxWait
      /\ frame.packets \in UNION {[A -> Packets] : A \in SUBSET Int}
  BY DEF Fit, FrameRecords
<1>4. known \in SUBSET Int /\ \A s \in known : frame.packets[s] \in Packets
  BY <1>3
<1>5. packets \in [known \cup {sequence} -> Packets] /\ known \cup {sequence} \in SUBSET Int
  BY <1>2, <1>4
<1>6. packets \in UNION {[A -> Packets] : A \in SUBSET Int}
  BY <1>5
<1>7. /\ DOMAIN packets = known \cup {sequence}
      /\ \A s \in known : packets[s] = frame.packets[s]
      /\ sequence \notin known => packets[sequence] = p
  OBVIOUS
<1>8. /\ \A s \in known : frame.packets[s] = s - shift /\ s - shift \in PacketsOf[f] \cap came
      /\ frame.min = sequence \/ frame.min \in known
      /\ \A s \in known : frame.min <= s
      /\ frame.marker_received <=> End[f] + shift \in known
      /\ frame.marker_received => frame.marker_sequence = End[f] + shift
  BY DEF Fit
<1> HIDE DEF packets, known, new, f
<1>9. new \in FrameRecords
  <2>1. /\ new.min \in Int /\ new.marker_sequence \in Int /\ new.marker_received \in BOOLEAN
        /\ new.age \in 0 .. MaxWait
        /\ new.packets \in UNION {[A -> Packets] : A \in SUBSET Int}
    BY <1>1, <1>2, <1>3, <1>6
  <2> HIDE DEF ends
  <2> QED
    BY <1>1, <2>1 DEF FrameRecords
<1>10. \A s \in known \cup {sequence} :
          new.packets[s] = s - shift /\ s - shift \in PacketsOf[f] \cap (came \cup {p})
  <2> TAKE s \in known \cup {sequence}
  <2>1. CASE s \in known
    BY <1>1, <1>7, <1>8, <2>1
  <2>2. CASE s \notin known
    BY <1>1, <1>2, <1>7, <2>2
  <2> QED
    BY <2>1, <2>2
<1>11. new.min \in known \cup {sequence} /\ \A s \in known \cup {sequence} : new.min <= s
  BY <1>1, <1>2, <1>3, <1>4, <1>8
<1>12. End[f] = p <=> End[f] + shift = sequence
  BY <1>2
<1>13. new.marker_received <=> End[f] + shift \in known \cup {sequence}
  BY <1>1, <1>8, <1>12
<1>14. new.marker_received => new.marker_sequence = End[f] + shift
  <2>1. CASE ends
    BY <1>1, <1>12, <2>1
  <2>2. CASE ~ends
    <3>1. /\ new.marker_received = frame.marker_received
          /\ new.marker_sequence = frame.marker_sequence
      BY <1>1, <1>3, <2>2
    <3> QED
      BY <1>8, <3>1
  <2> QED
    BY <2>1, <2>2
<1>15. DOMAIN new.packets = known \cup {sequence}
  BY <1>1, <1>7
<1>16. GoodFrame(new, f, shift, came \cup {p})
  BY <1>9, <1>10, <1>11, <1>13, <1>14, <1>15 DEF GoodFrame
<1> QED
  BY <1>15, <1>16 DEF new, f, known, IsPut

\* What is kept stays good when more has come.
LEMMA GoodFrameWithMore ==
    ASSUME NEW shift, NEW came, NEW more, NEW frame, NEW f, GoodFrame(frame, f, shift, came),
           came \subseteq more
    PROVE  GoodFrame(frame, f, shift, more)
  BY DEF GoodFrame

\* A packet that comes late changes nothing.
LEMMA KeptWithLate ==
    ASSUME NEW shift \in Int, NEW came \in SUBSET Packets, NEW frames, NEW next,
           Kept(frames, next, shift, came), NEW p \in Packets, ~Open(next, shift, p)
    PROVE  Kept(frames, next, shift, came \cup {p})
<1>1. GoodFrames(frames, shift, came \cup {p})
  BY GoodFrameWithMore DEF Kept, GoodFrames
<1>2. ASSUME NEW q \in came \cup {p}
      PROVE  Held(frames, shift, q) <=> Open(next, shift, q)
  <2>1. CASE q \in came
    BY <2>1 DEF Kept
  <2>2. CASE q = p /\ q \notin came
    <3>1. ASSUME Held(frames, shift, p) PROVE p \in came
      <4> DEFINE f == FrameOf[p]
                 s == p + shift
      <4>1. f \in DOMAIN frames /\ s \in DOMAIN frames[f].packets
        BY <3>1 DEF Held
      <4> HIDE DEF f, s
      <4>2. PacketKept(frames, next, shift, came, f, s)
        BY <4>1, HeldPacket
      <4>3. s - shift = p
        BY NumbersAre DEF s
      <4> QED
        BY <4>2, <4>3 DEF PacketKept
    <3> QED
      BY <2>2, <3>1
  <2> QED
    BY <1>2, <2>1, <2>2
<1> QED
  BY <1>1, <1>2 DEF Kept

\* A packet that comes in time is put into its frame.
LEMMA KeptWithPacket ==
    ASSUME NEW shift \in Int, NEW came \in SUBSET Packets, NEW next,
           Kept(m_frames, next, shift, came), NEW p \in Packets, Open(next, shift, p),
           NEW sequence, sequence = p + shift
    PROVE  /\ Kept(Buffered(p, sequence), next, shift, came \cup {p})
           /\ DOMAIN Buffered(p, sequence) = DOMAIN m_frames \cup {FrameOf[p]}
<1> DEFINE f == FrameOf[p]
           frame == IF f \in DOMAIN m_frames THEN m_frames[f] ELSE NewFrame(sequence)
           new == Put(frame, p, sequence)
           all == Buffered(p, sequence)
<1>1. /\ DOMAIN all = DOMAIN m_frames \cup {f}
      /\ all[f] = new
      /\ \A g \in DOMAIN m_frames : g # f => all[g] = m_frames[g]
  BY DEF Buffered
<1>2. p \in Int /\ f \in Frames /\ sequence \in Int
  BY PacketFacts, NumbersAre
<1>3. Fit(frame, f, shift, came, sequence)
  <2>1. CASE f \in DOMAIN m_frames
    BY <2>1 DEF Kept, GoodFrames, GoodFrame, Fit
  <2>2. CASE f \notin DOMAIN m_frames
    BY <1>2, <2>2, NewFrameFits
  <2> QED
    BY <2>1, <2>2
<1>4. \A s : f \in DOMAIN m_frames /\ s \in DOMAIN m_frames[f].packets
             <=> s \in DOMAIN frame.packets
  <2>1. CASE f \in DOMAIN m_frames
    BY <2>1
  <2>2. CASE f \notin DOMAIN m_frames
    <3>1. frame.packets = <<>>
      BY <2>2 DEF NewFrame
    <3>2. DOMAIN frame.packets = {}
      BY <3>1
    <3> QED
      BY <2>2, <3>2
  <2> QED
    BY <2>1, <2>2
<1>5. /\ GoodFrame(new, f, shift, came \cup {p})
      /\ DOMAIN new.packets = DOMAIN frame.packets \cup {sequence}
  <2> HIDE DEF frame
  <2>1. IsPut(frame, f, p, shift, came, sequence)
    BY <1>3, PutGood
  <2> QED
    BY <2>1 DEF IsPut
<1> HIDE DEF frame, new, all
<1>6. GoodFrames(all, shift, came \cup {p})
  <2>1. DOMAIN all \subseteq Frames
    BY <1>1, <1>2 DEF Kept, GoodFrames
  <2>2. ASSUME NEW g \in DOMAIN all PROVE GoodFrame(all[g], g, shift, came \cup {p})
    <3>1. CASE g = f
      BY <1>1, <1>5, <3>1
    <3>2. CASE g # f
      <4>1. g \in DOMAIN m_frames /\ all[g] = m_frames[g]
        BY <1>1, <3>2
      <4>2. GoodFrame(m_frames[g], g, shift, came)
        BY <4>1 DEF Kept, GoodFrames
      <4> QED
        BY <4>1, <4>2, GoodFrameWithMore
    <3> QED
      BY <3>1, <3>2
  <2> QED
    BY <2>1, <2>2 DEF GoodFrames
<1>7. ASSUME NEW q \in came \cup {p}
      PROVE  Held(all, shift, q) <=> Open(next, shift, q)
  <2>0. q \in Packets /\ q \in Int
    BY <1>7, NumbersAre
  <2>1. CASE q = p
    <3>1. Held(all, shift, p)
      BY <1>1, <1>5 DEF Held
    <3> QED
      BY <2>1, <3>1
  <2>2. CASE q # p
    <3>1. q \in came /\ q + shift # sequence
      BY <1>2, <1>7, <2>0, <2>2
    <3>2. Held(all, shift, q) <=> Held(m_frames, shift, q)
      <4>1. CASE FrameOf[q] = f
        BY <1>1, <1>4, <1>5, <3>1, <4>1 DEF Held
      <4>2. CASE FrameOf[q] # f
        BY <1>1, <4>2 DEF Held
      <4> QED
        BY <4>1, <4>2
    <3> QED
      BY <3>1, <3>2 DEF Kept
  <2> QED
    BY <2>1, <2>2
<1>8. Kept(all, next, shift, came \cup {p})
  BY <1>6, <1>7 DEF Kept
<1> QED
  BY <1>1, <1>8 DEF all

\* Before anything came nothing is kept, and any shift will do.
LEMMA AnyShift ==
    ASSUME NEW shift, NEW other \in Int, NEW frames, NEW out, NEW lost,
           Kept(frames, <<>>, shift, {}), Left(<<>>, shift, {}, out, lost)
    PROVE  /\ DOMAIN frames = {} /\ out = {} /\ lost = {}
           /\ Kept(frames, <<>>, other, {}) /\ Left(<<>>, other, {}, out, lost)
<1>1. DOMAIN frames = {}
  BY DEF Kept, GoodFrames, GoodFrame
<1>2. out = {}
  BY DEF Left
<1>3. lost = {}
  BY DEF Left, Open
<1>4. Kept(frames, <<>>, other, {})
  BY <1>1 DEF Kept, GoodFrames, NextGood
<1>5. Left(<<>>, other, {}, out, lost)
  BY <1>2, <1>3 DEF Left
<1> QED
  BY <1>1, <1>2, <1>3, <1>4, <1>5

-----------------------------------------------------------------------------
(* Calls.                                                                   *)

\* What a step gives up is reported and excused.
Accounted ==
    /\ dropped' \ dropped # {} => since_notification' < LossInterval
    /\ \A f \in dropped' \ dropped : Excused(f, received', ToSet(passed), dropped)

\* What a call leaves behind.
Handed(shift, came) ==
    /\ Kept(m_frames', m_next_sequence', shift, came)
    /\ Left(m_next_sequence', shift, came, ToSet(passed'), dropped')
    /\ InOrder(passed') /\ passed' \in Seq(Packets) /\ dropped' \subseteq Frames
    /\ since_notification' \in 0 .. LossInterval
    /\ Cardinality(DOMAIN m_frames') <= MaxFrames
    /\ dropped' \ dropped # {} => since_notification' < LossInterval
    /\ \A f \in dropped' \ dropped : Excused(f, came, ToSet(passed), dropped)

LEMMA HandKept ==
    ASSUME TypeInv, NEW shift \in Int, NEW came \in SUBSET Packets, NEW frames,
           Kept(frames, m_next_sequence, shift, came),
           Left(m_next_sequence, shift, came, ToSet(passed), dropped), InOrder(passed),
           IsFiniteSet(DOMAIN frames), Cardinality(DOMAIN frames) <= MaxFrames + 1,
           Hand(frames)
    PROVE  Handed(shift, came)
<1> DEFINE start == [frames |-> frames, next |-> m_next_sequence, output |-> <<>>, lost |-> {}]
<1>1. passed \in Seq(Packets) /\ since_notification \in 0 .. LossInterval
  BY DEF TypeInv
<1>2. passed \o <<>> = passed /\ <<>> \in Seq(Packets)
  BY <1>1
<1>3. /\ start.frames = frames /\ start.next = m_next_sequence /\ start.output = <<>>
      /\ start.lost = {} /\ dropped \cup {} = dropped
  OBVIOUS
<1>4. Turn(start, shift, came, passed, dropped)
  <2> HIDE DEF start
  <2> QED
    BY <1>2, <1>3 DEF Turn
<1>5. PICK b \in ReleaseReadyFrames(frames) :
          /\ m_frames' = b.frames
          /\ m_next_sequence' = b.next
          /\ since_notification' = Notify(b.lost)
          /\ passed' = passed \o b.output
          /\ dropped' = dropped \cup b.lost
  BY DEF Hand
<1>6. Turn(b, shift, came, passed, dropped) /\ Cardinality(DOMAIN b.frames) <= MaxFrames
  BY <1>1, <1>4, LoopTurns
<1>7. /\ Kept(m_frames', m_next_sequence', shift, came)
      /\ Left(m_next_sequence', shift, came, ToSet(passed'), dropped')
      /\ b.output \in Seq(Packets) /\ InOrder(passed')
      /\ \A f \in b.lost : Excused(f, came, ToSet(passed), dropped)
  BY <1>5, <1>6 DEF Turn
<1>8. passed' \in Seq(Packets)
  BY <1>1, <1>5, <1>7, SetOfJoined
<1>9. dropped' \subseteq Frames
  BY <1>7 DEF Left
<1>10. /\ since_notification' \in 0 .. LossInterval
       /\ b.lost # {} => since_notification' < LossInterval
  BY <1>1, <1>5, ReorderAssumption DEF Notify, ReorderAssumption
<1>11. \A f \in dropped' \ dropped : f \in b.lost
  BY <1>5
<1>12. Cardinality(DOMAIN m_frames') <= MaxFrames
  BY <1>5, <1>6
<1> QED
  BY <1>7, <1>8, <1>9, <1>10, <1>11, <1>12 DEF Handed

\* There are finitely many frames, and a call finds at most one more.
LEMMA FewFrames ==
    ASSUME KeptInv, BufferBounded, NEW f
    PROVE  /\ IsFiniteSet(DOMAIN m_frames) /\ IsFiniteSet(DOMAIN m_frames \cup {f})
           /\ Cardinality(DOMAIN m_frames) <= MaxFrames + 1
           /\ Cardinality(DOMAIN m_frames \cup {f}) <= MaxFrames + 1
<1>1. Len(End) \in Nat /\ Frames = 1 .. Len(End)
  BY ReorderAssumption DEF ReorderAssumption, Frames
<1>2. IsFiniteSet(Frames)
  BY <1>1, FS_Interval
<1>3. DOMAIN m_frames \subseteq Frames
  BY DEF KeptInv, Kept, GoodFrames
<1>4. IsFiniteSet(DOMAIN m_frames)
  BY <1>2, <1>3, FS_Subset
<1> DEFINE n == Cardinality(DOMAIN m_frames)
           m == Cardinality(DOMAIN m_frames \cup {f})
<1>5. n \in Nat /\ n <= MaxFrames /\ MaxFrames \in Nat
  BY <1>4, FS_CardinalityType, ReorderAssumption DEF BufferBounded, ReorderAssumption
<1>6. /\ IsFiniteSet(DOMAIN m_frames \cup {f})
      /\ m = n \/ m = n + 1
  BY <1>4, FS_AddElement
<1> HIDE DEF n, m
<1>7. n <= MaxFrames + 1 /\ m <= MaxFrames + 1
  BY <1>5, <1>6
<1> QED
  BY <1>4, <1>6, <1>7 DEF n, m

\* A packet comes in.
LEMMA IncomingKept ==
    ASSUME IInv, NEW p \in wire, Incoming(p), wire' \subseteq wire, UNCHANGED <<sent, resets>>,
           repeats' \in Nat
    PROVE  IInv' /\ Accounted
<1> DEFINE sequence == UnwrapSequence(OnWire(p))
           frames == IF Late(sequence) THEN m_frames ELSE Buffered(p, sequence)
           shift == Shift'
           came == received \cup {p}
<1>1. /\ TypeInv /\ NumberInv /\ KeptInv /\ LeftInv /\ BufferBounded
  BY DEF IInv
<1>2. /\ m_sequence_initialized' = TRUE /\ m_highest_sequence' = Highest(sequence)
      /\ received' = came /\ Hand(frames)
  BY DEF Incoming
<1>3. /\ shift \in Int /\ sequence = p + shift
      /\ received # {} => shift = Shift
      /\ m_highest_sequence' \in Nat
      /\ m_highest_sequence' % Modulus = OnWire(Max(received'))
      /\ \A q, r \in wire' \cup Latest' : q - r < Modulus \div 2
  BY <1>1, <1>2, ShiftStays
<1>4. p \in Packets /\ received \subseteq Packets /\ wire \subseteq 1 .. sent /\ p \in 1 .. sent
  BY <1>1, CameArePackets DEF TypeInv
<1>5. /\ Kept(m_frames, m_next_sequence, Shift, received)
      /\ Left(m_next_sequence, Shift, received, ToSet(passed), dropped) /\ InOrder(passed)
  BY <1>1 DEF KeptInv, LeftInv
<1> HIDE DEF shift, sequence
<1>6. /\ Kept(m_frames, m_next_sequence, shift, received)
      /\ Left(m_next_sequence, shift, received, ToSet(passed), dropped)
  <2>1. CASE received = {}
    <3>1. m_next_sequence = <<>>
      BY <1>1, <2>1 DEF NumberInv
    <3>2. /\ Kept(m_frames, <<>>, Shift, {})
          /\ Left(<<>>, Shift, {}, ToSet(passed), dropped)
      BY <1>5, <2>1, <3>1
    <3>3. /\ Kept(m_frames, <<>>, shift, {})
          /\ Left(<<>>, shift, {}, ToSet(passed), dropped)
      BY <1>3, <3>2, AnyShift
    <3> QED
      BY <2>1, <3>1, <3>3
  <2>2. CASE received # {}
    BY <1>3, <1>5, <2>2
  <2> QED
    BY <2>1, <2>2
<1>7. Late(sequence) <=> ~Open(m_next_sequence, shift, p)
  <2>1. NextGood(m_next_sequence, shift)
    BY <1>6 DEF Kept
  <2>2. p \in Int
    BY <1>4, NumbersAre
  <2> QED
    BY <1>3, <2>1, <2>2 DEF Late, Open, NextGood
<1>8. /\ Kept(frames, m_next_sequence, shift, came)
      /\ DOMAIN frames = DOMAIN m_frames \/ DOMAIN frames = DOMAIN m_frames \cup {FrameOf[p]}
  <2>1. CASE Late(sequence)
    <3>1. frames = m_frames
      BY <2>1
    <3>2. Kept(m_frames, m_next_sequence, shift, came)
      BY <1>3, <1>4, <1>6, <1>7, <2>1, KeptWithLate
    <3> QED
      BY <3>1, <3>2
  <2>2. CASE ~Late(sequence)
    <3>1. frames = Buffered(p, sequence)
      BY <2>2
    <3>2. /\ Kept(Buffered(p, sequence), m_next_sequence, shift, came)
          /\ DOMAIN Buffered(p, sequence) = DOMAIN m_frames \cup {FrameOf[p]}
      BY <1>3, <1>4, <1>6, <1>7, <2>2, KeptWithPacket
    <3> QED
      BY <3>1, <3>2
  <2> QED
    BY <2>1, <2>2
<1> HIDE DEF frames
<1>9. Left(m_next_sequence, shift, came, ToSet(passed), dropped)
  BY <1>6 DEF Left
<1>10. IsFiniteSet(DOMAIN frames) /\ Cardinality(DOMAIN frames) <= MaxFrames + 1
  BY <1>1, <1>8, FewFrames
<1>11. came \in SUBSET Packets
  BY <1>4
<1>12. Handed(shift, came)
  <2> HIDE DEF came
  <2> QED
    BY <1>1, <1>2, <1>3, <1>5, <1>8, <1>9, <1>10, <1>11, HandKept
<1> USE DEF Handed
<1>13. TypeInv'
  <2>1. /\ wire' \subseteq 1 .. sent' /\ received' \subseteq 1 .. sent'
        /\ sent' \in Nat /\ (sent' = 0 \/ sent' \in Packets)
    BY <1>1, <1>2, <1>4 DEF TypeInv
  <2>2. resets' \in Nat /\ repeats' \in Nat
    BY <1>1 DEF TypeInv
  <2> QED
    BY <1>2, <1>3, <1>12, <2>1, <2>2 DEF TypeInv
<1>14. NumberInv'
  <2>1. received' # {}
    BY <1>2
  <2> QED
    BY <1>2, <1>3, <2>1 DEF NumberInv
<1>15. KeptInv' /\ LeftInv' /\ BufferBounded'
  BY <1>2, <1>12 DEF KeptInv, LeftInv, BufferBounded, shift
<1>16. Accounted
  BY <1>2, <1>12 DEF Accounted
<1> QED
  BY <1>13, <1>14, <1>15, <1>16 DEF IInv

\* Time passes.
LEMMA TickKept ==
    ASSUME IInv, Tick
    PROVE  IInv' /\ Accounted
<1>1. TypeInv /\ NumberInv /\ KeptInv /\ LeftInv /\ BufferBounded
  BY DEF IInv
<1> DEFINE older(age) == IF age < MaxWait THEN age + 1 ELSE age
<1>2. /\ m_frames' = [f \in DOMAIN m_frames |-> [m_frames[f] EXCEPT !.age = older(@)]]
      /\ since_notification' = IF since_notification < LossInterval
                               THEN since_notification + 1 ELSE since_notification
      /\ UNCHANGED <<m_next_sequence, m_sequence_initialized, m_highest_sequence, sent, wire,
                     repeats, resets, received, passed, dropped>>
  BY DEF Tick, networkVars, historyVars
<1>3. DOMAIN m_frames' = DOMAIN m_frames
  BY <1>2
<1>4. \A age \in 0 .. MaxWait : older(age) \in 0 .. MaxWait
  BY ReorderAssumption DEF ReorderAssumption
<1> HIDE DEF older
<1>5. Shift' = Shift
  BY <1>2 DEF Shift
<1>6. ASSUME NEW f \in DOMAIN m_frames
      PROVE  /\ m_frames'[f].packets = m_frames[f].packets
             /\ GoodFrame(m_frames'[f], f, Shift, received)
  <2> DEFINE old == m_frames[f]
             new == m_frames'[f]
  <2>1. GoodFrame(old, f, Shift, received)
    BY <1>1 DEF KeptInv, Kept, GoodFrames
  <2>2. new = [old EXCEPT !.age = older(@)]
    BY <1>2
  <2> HIDE DEF old, new
  <2>3. old \in FrameRecords
    BY <2>1 DEF GoodFrame
  <2>4. /\ new.min = old.min /\ new.marker_sequence = old.marker_sequence
        /\ new.marker_received = old.marker_received /\ new.packets = old.packets
        /\ new \in FrameRecords
    <3>1. old.age \in 0 .. MaxWait
      BY <2>3 DEF FrameRecords
    <3>2. older(old.age) \in 0 .. MaxWait
      BY <1>4, <3>1
    <3> QED
      BY <2>2, <2>3, <3>2 DEF FrameRecords
  <2>5. GoodFrame(new, f, Shift, received)
    BY <2>1, <2>4 DEF GoodFrame
  <2> QED
    BY <2>4, <2>5 DEF old, new
<1>7. GoodFrames(m_frames', Shift, received)
  BY <1>1, <1>3, <1>6 DEF KeptInv, Kept, GoodFrames
<1>8. \A p : Held(m_frames', Shift, p) <=> Held(m_frames, Shift, p)
  BY <1>3, <1>6 DEF Held
<1>9. Kept(m_frames', m_next_sequence, Shift, received)
  BY <1>1, <1>7, <1>8 DEF KeptInv, Kept
<1>10. KeptInv'
  BY <1>2, <1>5, <1>9 DEF KeptInv
<1>11. LeftInv' /\ BufferBounded'
  BY <1>1, <1>2, <1>3, <1>5 DEF LeftInv, BufferBounded
<1>12. NumberInv'
  BY <1>1, <1>2 DEF NumberInv, Latest
<1>13. TypeInv'
  <2>1. LossInterval \in Nat /\ since_notification \in 0 .. LossInterval
    BY <1>1, ReorderAssumption DEF TypeInv, ReorderAssumption
  <2>2. since_notification' = IF since_notification < LossInterval
                              THEN since_notification + 1 ELSE since_notification
    BY <1>2
  <2>3. since_notification' \in 0 .. LossInterval
    BY <2>1, <2>2
  <2> QED
    BY <1>1, <1>2, <2>3 DEF TypeInv
<1>14. Accounted
  BY <1>2 DEF Accounted
<1> QED
  BY <1>10, <1>11, <1>12, <1>13, <1>14 DEF IInv

\* Without frames a call changes nothing.
LEMMA NothingTurns ==
    ASSUME NEW frames, DOMAIN frames = {}, NEW b \in ReleaseReadyFrames(frames)
    PROVE  b = [frames |-> frames, next |-> m_next_sequence, output |-> <<>>, lost |-> {}]
<1> DEFINE start == [frames |-> frames, next |-> m_next_sequence, output |-> <<>>, lost |-> {}]
           P(g) == g = [turn \in Nat |-> IF turn = 0 THEN {start}
                                         ELSE {ReleaseOldest(c) : c \in g[turn - 1]}]
           after == CHOOSE g : P(g)
<1>1. ReleaseReadyFrames(frames) = after[Cardinality(DOMAIN frames)]
  BY DEF ReleaseReadyFrames
<1>2. P(after)
  <2>1. PICK g : g = [t \in Nat |-> IF t = 0 THEN {start} ELSE Turned(g[t - 1])]
    <3> HIDE DEF start
    <3> QED
      BY LoopThere
  <2>2. P(g)
    BY <2>1 DEF Turned
  <2> HIDE DEF P
  <2> QED
    BY <2>2
<1> HIDE DEF after, start
<1>3. Cardinality(DOMAIN frames) = 0
  BY FS_EmptySet
<1>4. after[0] = {start}
  BY <1>2
<1> QED
  BY <1>1, <1>3, <1>4 DEF start

\* A message of another kind comes in.
LEMMA OtherKept ==
    ASSUME IInv, IncomingOther
    PROVE  IInv' /\ Accounted
<1>1. TypeInv /\ NumberInv /\ KeptInv /\ LeftInv /\ BufferBounded
  BY DEF IInv
<1>2. /\ Hand(m_frames)
      /\ UNCHANGED <<m_sequence_initialized, m_highest_sequence, sent, wire, repeats, resets,
                     received>>
  BY DEF IncomingOther, networkVars
<1>3. received \subseteq Packets
  BY <1>1, CameArePackets
<1>4. IsFiniteSet(DOMAIN m_frames) /\ Cardinality(DOMAIN m_frames) <= MaxFrames + 1
  BY <1>1, FewFrames
<1>5. Shift \in Int
  <2>1. m_highest_sequence \in Int
    BY <1>1 DEF TypeInv
  <2>2. received # {} => Max(received) \in Int
    BY <1>1, CameArePackets, NumbersAre
  <2> QED
    BY <2>1, <2>2 DEF Shift
<1>6. Handed(Shift, received)
  BY <1>1, <1>2, <1>3, <1>4, <1>5, HandKept DEF KeptInv, LeftInv
<1>7. Shift' = Shift
  BY <1>2 DEF Shift
<1> USE DEF Handed
<1>8. TypeInv'
  BY <1>1, <1>2, <1>6 DEF TypeInv
<1>9. NumberInv'
  <2>1. received = {} => m_next_sequence' = <<>>
    <3> SUFFICES ASSUME received = {} PROVE m_next_sequence' = <<>>
      OBVIOUS
    <3>1. m_next_sequence = <<>>
      BY <1>1 DEF NumberInv
    <3>2. DOMAIN m_frames = {}
      BY <1>1 DEF KeptInv, Kept, GoodFrames, GoodFrame
    <3>3. PICK b \in ReleaseReadyFrames(m_frames) : m_next_sequence' = b.next
      BY <1>2 DEF Hand
    <3>4. b = [frames |-> m_frames, next |-> m_next_sequence, output |-> <<>>, lost |-> {}]
      BY <3>2, <3>3, NothingTurns
    <3> QED
      BY <3>1, <3>3, <3>4
  <2> QED
    BY <1>1, <1>2, <2>1 DEF NumberInv, Latest
<1>10. KeptInv' /\ LeftInv' /\ BufferBounded'
  BY <1>2, <1>6, <1>7 DEF KeptInv, LeftInv, BufferBounded
<1>11. Accounted
  BY <1>2, <1>6 DEF Accounted
<1> QED
  BY <1>8, <1>9, <1>10, <1>11 DEF IInv

\* Nothing has come.
LEMMA EmptyGood ==
    /\ Kept(<<>>, <<>>, 0, {}) /\ Left(<<>>, 0, {}, ToSet(<<>>), {}) /\ InOrder(<<>>)
    /\ Cardinality(DOMAIN <<>>) <= MaxFrames /\ <<>> \in Seq(Packets)
<1>1. DOMAIN <<>> = {} /\ ToSet(<<>>) = {} /\ <<>> \in Seq(Packets)
  BY DEF ToSet
<1>2. Cardinality(DOMAIN <<>>) = 0 /\ MaxFrames \in Nat
  BY <1>1, FS_EmptySet, ReorderAssumption DEF ReorderAssumption
<1>3. Kept(<<>>, <<>>, 0, {})
  BY <1>1 DEF Kept, GoodFrames, NextGood
<1>4. Left(<<>>, 0, {}, ToSet(<<>>), {})
  BY <1>1 DEF Left
<1>5. InOrder(<<>>)
  BY <1>1 DEF InOrder
<1> QED
  BY <1>1, <1>2, <1>3, <1>4, <1>5

\* The stream is closed.
LEMMA ResetKept ==
    ASSUME IInv, Reset
    PROVE  IInv' /\ Accounted
<1>1. TypeInv /\ NumberInv
  BY DEF IInv
<1>2. /\ resets' = resets + 1 /\ m_frames' = <<>> /\ m_next_sequence' = <<>>
      /\ m_sequence_initialized' = FALSE /\ m_highest_sequence' = 0
      /\ since_notification' = LossInterval
      /\ received' = {} /\ passed' = <<>> /\ dropped' = {}
      /\ UNCHANGED <<sent, wire, repeats>>
  BY DEF Reset, networkVars
<1>3. Shift' = 0
  BY <1>2 DEF Shift
<1>4. KeptInv' /\ LeftInv' /\ BufferBounded'
  BY <1>2, <1>3, EmptyGood DEF KeptInv, LeftInv, BufferBounded
<1>5. LossInterval \in 0 .. LossInterval
  BY ReorderAssumption DEF ReorderAssumption
<1>6. TypeInv'
  <2>1. /\ sent' \in Nat /\ (sent' = 0 \/ sent' \in Packets) /\ wire' \subseteq 1 .. sent'
        /\ repeats' \in Nat /\ resets' \in Nat
    BY <1>1, <1>2 DEF TypeInv
  <2>2. /\ received' \subseteq 1 .. sent' /\ dropped' \subseteq Frames
        /\ m_highest_sequence' \in Nat /\ m_sequence_initialized' \in BOOLEAN
        /\ since_notification' \in 0 .. LossInterval
    BY <1>2, <1>5
  <2>3. passed' \in Seq(Packets)
    BY <1>2, EmptyGood
  <2> QED
    BY <2>1, <2>2, <2>3 DEF TypeInv
<1>7. NumberInv'
  <2>1. Latest' = {}
    BY <1>2 DEF Latest
  <2> QED
    BY <1>1, <1>2, <2>1 DEF NumberInv
<1>8. Accounted
  BY <1>2 DEF Accounted
<1> QED
  BY <1>4, <1>6, <1>7, <1>8 DEF IInv

-----------------------------------------------------------------------------
(* The sender and the network.                                              *)

\* A step that leaves the buffer alone.
LEMMA BufferStays ==
    ASSUME KeptInv, LeftInv, BufferBounded, UNCHANGED <<bufferVars, historyVars>>
    PROVE  /\ KeptInv' /\ LeftInv' /\ BufferBounded' /\ Accounted /\ Latest' = Latest
           /\ UNCHANGED <<m_next_sequence, m_sequence_initialized, m_highest_sequence,
                          since_notification, received, passed, dropped>>
<1>1. UNCHANGED <<m_frames, m_next_sequence, m_sequence_initialized, m_highest_sequence,
                  since_notification, received, passed, dropped>>
  BY DEF bufferVars, historyVars
<1>2. Shift' = Shift
  BY <1>1 DEF Shift
<1>3. KeptInv' /\ LeftInv' /\ BufferBounded'
  BY <1>1, <1>2 DEF KeptInv, LeftInv, BufferBounded
<1> QED
  BY <1>1, <1>3 DEF Accounted, Latest

LEMMA SendKept ==
    ASSUME IInv, Send
    PROVE  IInv' /\ Accounted
<1>1. TypeInv /\ NumberInv /\ KeptInv /\ LeftInv /\ BufferBounded
  BY DEF IInv
<1> DEFINE p == sent + 1
<1>2. /\ p \in Packets /\ \A q \in wire \cup Latest : p - q < Modulus \div 2
      /\ sent' = p /\ wire' = wire \cup {p}
      /\ UNCHANGED <<bufferVars, repeats, resets, historyVars>>
  BY DEF Send
<1>3. /\ KeptInv' /\ LeftInv' /\ BufferBounded' /\ Accounted /\ Latest' = Latest
      /\ UNCHANGED <<m_next_sequence, m_sequence_initialized, m_highest_sequence,
                     since_notification, received, passed, dropped>>
  BY <1>1, <1>2, BufferStays
<1>4. sent \in Nat /\ p \in Nat /\ \A q \in 1 .. sent : q \in 1 .. p
  BY <1>1 DEF TypeInv
<1>5. TypeInv'
  <2>1. wire' \subseteq 1 .. sent' /\ received' \subseteq 1 .. sent'
    <3>1. wire \subseteq 1 .. sent /\ received \subseteq 1 .. sent /\ p \in 1 .. p
      BY <1>1, <1>4 DEF TypeInv
    <3> HIDE DEF p
    <3> QED
      BY <1>2, <1>3, <1>4, <3>1
  <2> QED
    BY <1>1, <1>2, <1>3, <1>4, <2>1 DEF TypeInv
<1>6. NumberInv'
  <2>1. \A q \in wire \cup Latest : q \in 1 .. sent
    <3>1. \A q \in wire : q \in 1 .. sent
      BY <1>1 DEF TypeInv
    <3>2. \A q \in Latest : q \in received
      BY <1>1, CameArePackets DEF Latest
    <3> QED
      BY <1>1, <3>1, <3>2 DEF TypeInv
  <2>2. Modulus \div 2 \in Nat /\ Modulus \div 2 > 0
    BY ModulusIs
  <2> DEFINE half == Modulus \div 2
             near == wire \cup Latest
  <2>3. /\ \A q, r \in near : q - r < half
        /\ \A q \in near : p - q < half /\ q \in 1 .. sent
    BY <1>1, <1>2, <2>1 DEF NumberInv
  <2>4. wire' \cup Latest' = near \cup {p}
    BY <1>2, <1>3
  <2> HIDE DEF half, near
  <2>5. \A q, r \in near \cup {p} : q - r < half
    BY <1>4, <2>2, <2>3 DEF half
  <2>6. \A q, r \in wire' \cup Latest' : q - r < Modulus \div 2
    BY <2>4, <2>5 DEF half
  <2> QED
    BY <1>1, <1>3, <2>6 DEF NumberInv
<1> QED
  BY <1>3, <1>5, <1>6 DEF IInv

LEMMA LoseKept ==
    ASSUME IInv, NEW p \in Packets, Lose(p)
    PROVE  IInv' /\ Accounted
<1>1. TypeInv /\ NumberInv /\ KeptInv /\ LeftInv /\ BufferBounded
  BY DEF IInv
<1>2. /\ wire' = wire \ {p}
      /\ UNCHANGED <<bufferVars, sent, repeats, resets, historyVars>>
  BY DEF Lose
<1>3. /\ KeptInv' /\ LeftInv' /\ BufferBounded' /\ Accounted /\ Latest' = Latest
      /\ UNCHANGED <<m_next_sequence, m_sequence_initialized, m_highest_sequence,
                     since_notification, received, passed, dropped>>
  BY <1>1, <1>2, BufferStays
<1>4. TypeInv'
  BY <1>1, <1>2, <1>3 DEF TypeInv
<1>5. NumberInv'
  BY <1>1, <1>2, <1>3 DEF NumberInv
<1> QED
  BY <1>3, <1>4, <1>5 DEF IInv

LEMMA DeliverKept ==
    ASSUME IInv, NEW p \in Packets, Deliver(p)
    PROVE  IInv' /\ Accounted
<1>1. p \in wire /\ Incoming(p) /\ UNCHANGED <<sent, resets>>
  BY DEF Deliver
<1>2. repeats \in Nat
  BY DEF IInv, TypeInv
<1>3. wire' \subseteq wire /\ repeats' \in Nat
  BY <1>2 DEF Deliver
<1> QED
  BY <1>1, <1>3, IncomingKept

-----------------------------------------------------------------------------
(* The theorems.                                                            *)

LEMMA InitGood == Init => IInv
<1> SUFFICES ASSUME Init PROVE IInv
  OBVIOUS
<1>1. /\ m_frames = <<>> /\ m_next_sequence = <<>> /\ m_sequence_initialized = FALSE
      /\ m_highest_sequence = 0 /\ since_notification = LossInterval /\ sent = 0
      /\ wire = {} /\ repeats = 0 /\ resets = 0 /\ received = {} /\ passed = <<>>
      /\ dropped = {}
  BY DEF Init
<1>2. Shift = 0 /\ Latest = {}
  BY <1>1 DEF Shift, Latest
<1>3. KeptInv /\ LeftInv /\ BufferBounded
  BY <1>1, <1>2, EmptyGood DEF KeptInv, LeftInv, BufferBounded
<1>4. NumberInv
  BY <1>1, <1>2 DEF NumberInv
<1>5. LossInterval \in 0 .. LossInterval
  BY ReorderAssumption DEF ReorderAssumption
<1>6. TypeInv
  <2>1. passed \in Seq(Packets)
    BY <1>1, EmptyGood
  <2> QED
    BY <1>1, <1>5, <2>1 DEF TypeInv
<1> QED
  BY <1>3, <1>4, <1>6 DEF IInv

LEMMA NextGoodAgain == IInv /\ [Next]_vars => IInv' /\ Accounted
<1> SUFFICES ASSUME IInv, [Next]_vars PROVE IInv' /\ Accounted
  OBVIOUS
<1>1. CASE Send
  BY <1>1, SendKept
<1>2. ASSUME NEW p \in Packets, Deliver(p) PROVE IInv' /\ Accounted
  BY <1>2, DeliverKept
<1>3. ASSUME NEW p \in Packets, Lose(p) PROVE IInv' /\ Accounted
  BY <1>3, LoseKept
<1>4. CASE IncomingOther
  BY <1>4, OtherKept
<1>5. CASE Tick
  BY <1>5, TickKept
<1>6. CASE Reset
  BY <1>6, ResetKept
<1>7. CASE UNCHANGED vars
  <2>1. UNCHANGED <<bufferVars, networkVars, resets, historyVars>>
    BY <1>7 DEF vars
  <2>2. KeptInv' /\ LeftInv' /\ BufferBounded' /\ Accounted /\ Latest' = Latest
    BY <2>1, BufferStays DEF IInv
  <2>3. UNCHANGED <<m_next_sequence, m_sequence_initialized, m_highest_sequence,
                    since_notification, sent, wire, repeats, resets, received, passed, dropped>>
    BY <2>1 DEF bufferVars, networkVars, historyVars
  <2>4. TypeInv'
    BY <2>3 DEF IInv, TypeInv
  <2>5. NumberInv'
    BY <2>2, <2>3 DEF IInv, NumberInv
  <2> QED
    BY <2>2, <2>4, <2>5 DEF IInv
<1> QED
  BY <1>1, <1>2, <1>3, <1>4, <1>5, <1>6, <1>7 DEF Next

\* There are finitely many packets.
LEMMA FinitePackets == IsFiniteSet(Packets)
<1> DEFINE n == Len(End)
<1>1. n \in Nat /\ Frames = 1 .. n
  BY ReorderAssumption DEF ReorderAssumption, Frames
<1>2. CASE n = 0
  <2>1. Packets = {}
    BY <1>1, <1>2 DEF Packets
  <2> QED
    BY <2>1, FS_EmptySet
<1>3. CASE n # 0
  <2>1. n \in Frames /\ \A f \in Frames : f <= n
    BY <1>1, <1>3
  <2>2. ASSUME NEW p \in Packets PROVE p \in 1 .. End[n]
    <3>1. /\ FrameOf[p] \in Frames /\ p \in Nat /\ 1 <= p /\ p <= End[FrameOf[p]]
      BY PacketFacts
    <3>2. /\ End[FrameOf[p]] <= End[n] /\ End[FrameOf[p]] \in Nat /\ End[n] \in Nat
      BY <2>1, <3>1, EndsRise
    <3> QED
      BY <3>1, <3>2
  <2>3. IsFiniteSet(1 .. End[n])
    <3>1. 1 \in Int /\ End[n] \in Int
      BY <2>1, NumbersAre
    <3> DEFINE last == End[n]
    <3> HIDE DEF last
    <3>2. last \in Int => IsFiniteSet(1 .. last)
      BY FS_Interval
    <3> QED
      BY <3>1, <3>2 DEF last
  <2>4. Packets \subseteq 1 .. End[n]
    BY <2>2
  <2> QED
    BY <2>3, <2>4, FS_Subset
<1> QED
  BY <1>2, <1>3

LEMMA SentAreFew ==
    ASSUME TypeInv
    PROVE  sent \in 0 .. Cardinality(Packets)
<1>1. IsFiniteSet(Packets) /\ Cardinality(Packets) \in Nat /\ sent \in Nat
  BY FinitePackets, FS_CardinalityType DEF TypeInv
<1>2. CASE sent = 0
  BY <1>1, <1>2
<1>3. CASE sent \in Packets
  <2>1. \A q \in 1 .. sent : q \in Packets
    BY <1>1, <1>3, PacketsBefore
  <2>2. 1 .. sent \subseteq Packets
    BY <2>1
  <2>3. Cardinality(1 .. sent) <= Cardinality(Packets)
    BY <1>1, <2>2, FS_Subset
  <2>4. Cardinality(1 .. sent) = sent
    BY <1>1, FS_Interval
  <2> QED
    BY <1>1, <2>3, <2>4
<1> QED
  BY <1>2, <1>3 DEF TypeInv

LEMMA InvariantHolds == IInv => ReorderInvariant
<1> SUFFICES ASSUME IInv PROVE ReorderInvariant
  OBVIOUS
<1>1. TypeInv /\ KeptInv /\ LeftInv /\ BufferBounded
  BY DEF IInv
<1>2. /\ DOMAIN m_frames \subseteq Frames
      /\ \A f \in DOMAIN m_frames : GoodFrame(m_frames[f], f, Shift, received)
      /\ NextGood(m_next_sequence, Shift)
  BY <1>1 DEF KeptInv, Kept, GoodFrames
<1>3. \A f \in DOMAIN m_frames :
          /\ m_frames[f].min \in Int /\ m_frames[f].marker_sequence \in Int
          /\ m_frames[f].marker_received \in BOOLEAN
          /\ m_frames[f].age \in 0 .. MaxWait
          /\ \A s \in DOMAIN m_frames[f].packets : m_frames[f].packets[s] \in PacketsOf[f]
  BY <1>2 DEF GoodFrame, FrameRecords
<1>4. m_next_sequence = <<>> \/ m_next_sequence[1] \in Int
  BY <1>2 DEF NextGood
<1>5. ToSet(passed) \subseteq received
  BY <1>1 DEF LeftInv, Left
<1>6. TypeOK
  <2>1. sent \in 0 .. Cardinality(Packets)
    BY <1>1, SentAreFew
  <2> QED
    BY <1>1, <1>2, <1>3, <1>4, <1>5, <2>1 DEF TypeOK, TypeInv
<1>7. SequencesUnwrapped
  <2> SUFFICES ASSUME NEW f \in DOMAIN m_frames, NEW s \in DOMAIN m_frames[f].packets
               PROVE  m_highest_sequence - s = Max(received) - m_frames[f].packets[s]
    BY DEF SequencesUnwrapped
  <2>1. /\ m_frames[f].packets[s] = s - Shift /\ s - Shift \in received
        /\ m_frames[f].packets \in UNION {[A -> Packets] : A \in SUBSET Int}
    BY <1>2 DEF GoodFrame, FrameRecords
  <2>2. s \in Int
    BY <2>1
  <2>3. Shift = m_highest_sequence - Max(received)
    BY <2>1 DEF Shift
  <2>4. Max(received) \in Int /\ m_highest_sequence \in Int
    BY <1>1, <2>1, CameArePackets, NumbersAre DEF TypeInv
  <2> DEFINE top == Max(received)
             q == m_frames[f].packets[s]
  <2>5. q = s - (m_highest_sequence - top) /\ top \in Int
    BY <2>1, <2>3, <2>4
  <2> HIDE DEF top, q
  <2>6. m_highest_sequence - s = top - q
    BY <2>2, <2>4, <2>5
  <2> QED
    BY <2>6 DEF top, q
<1> QED
  BY <1>1, <1>6, <1>7 DEF ReorderInvariant

LEMMA OutputHolds == IInv => OutputUnbroken
<1> SUFFICES ASSUME IInv PROVE OutputUnbroken
  OBVIOUS
<1> DEFINE out == ToSet(passed)
<1>1. /\ passed \in Seq(Packets) /\ InOrder(passed)
      /\ Left(m_next_sequence, Shift, received, out, dropped)
  BY DEF IInv, TypeInv, LeftInv
<1>2. Len(passed) \in Nat /\ DOMAIN passed = 1 .. Len(passed)
  BY <1>1
<1>3. \A i \in 1 .. Len(passed) : passed[i] \in out /\ passed[i] \in Packets
  BY <1>1, <1>2 DEF ToSet
<1>4. \A p \in out : \E i \in 1 .. Len(passed) : p = passed[i]
  BY <1>2 DEF ToSet
<1>5. out \subseteq Packets
  BY <1>3, <1>4
<1> HIDE DEF out
<1>6. /\ \A p \in out : \A q \in Packets : FrameOf[q] = FrameOf[p] /\ p <= q => q \in out
      /\ \A p, r \in out : \A q \in Packets \ out :
            p < q /\ q < r => \E d \in dropped : FrameOf[p] < d /\ d < FrameOf[r]
      /\ \A d \in dropped : d \in Frames
  BY <1>1 DEF Left
<1>7. \A i, j \in 1 .. Len(passed) : i < j => passed[i] < passed[j]
  BY <1>1, <1>2 DEF InOrder
<1>8. OutputInOrder
  <2> SUFFICES ASSUME NEW i \in 1 .. Len(passed) - 1 PROVE passed[i] < passed[i + 1]
    BY DEF OutputInOrder
  <2>1. i \in 1 .. Len(passed) /\ i + 1 \in 1 .. Len(passed) /\ i < i + 1
    BY <1>2
  <2> QED
    BY <1>7, <2>1
<1>9. NoHoles /\ WholeUnlessGuessed
  <2> SUFFICES ASSUME NEW f \in Frames, Out(f) # {}
               PROVE  /\ Out(f) = Min(Out(f)) .. End[f]
                      /\ \/ Out(f) = PacketsOf[f]
                         \/ \A g \in Frames : g < f /\ Out(g) # {} =>
                                \E d \in dropped : g < d /\ d < f
    BY DEF NoHoles, WholeUnlessGuessed, BeginningGuessed
  <2>1. ASSUME NEW g \in Frames, NEW q \in Out(g)
        PROVE  q \in PacketsOf[g] /\ q \in out /\ q \in Packets /\ FrameOf[q] = g /\ q \in Int
               /\ 1 <= q /\ q <= End[g]
    <3>1. q \in PacketsOf[g] /\ q \in out
      BY <2>1 DEF Out, out
    <3> QED
      BY <3>1, PacketsOfFrame
  <2>2. ASSUME NEW q \in PacketsOf[f], q \in out PROVE q \in Out(f)
    BY <2>2 DEF Out, out
  <2> DEFINE m == Min(Out(f))
  <2>3. m \in Out(f) /\ \A q \in Out(f) : m <= q
    <3>1. Out(f) \in SUBSET Int /\ \A q \in Out(f) : 1 <= q
      BY <2>1
    <3> QED
      BY <3>1, LeastInteger
  <2> HIDE DEF m
  <2>4. /\ m \in out /\ m \in Packets /\ FrameOf[m] = f /\ m \in Int /\ 1 <= m
        /\ End[f] \in Int /\ End[f] \in Packets /\ f \in Int
    BY <2>1, <2>3, PacketFacts, NumbersAre
  <2>5. ASSUME NEW q \in m .. End[f] PROVE q \in Out(f)
    <3>1. q \in Int /\ m <= q /\ q <= End[f] /\ 1 <= q
      BY <2>4
    <3>2. q \in Packets
      BY <2>4, <3>1, PacketsBefore
    <3>3. f <= FrameOf[q] /\ FrameOf[q] <= f /\ FrameOf[q] \in Int
      BY <2>4, <3>1, <3>2, PacketFacts, NumbersAre
    <3>4. FrameOf[q] = f
      BY <2>4, <3>3
    <3>5. q \in PacketsOf[f]
      BY <3>2, <3>4, PacketFacts
    <3>6. q \in out
      BY <1>6, <2>4, <3>1, <3>2, <3>4
    <3> QED
      BY <2>2, <3>5, <3>6
  <2>6. Out(f) = m .. End[f]
    <3>1. ASSUME NEW q \in Out(f) PROVE q \in m .. End[f]
      BY <2>1, <2>3, <2>4
    <3> QED
      BY <2>5, <3>1
  <2>7. ASSUME Out(f) # PacketsOf[f], NEW g \in Frames, g < f, Out(g) # {}
        PROVE  \E d \in dropped : g < d /\ d < f
    <3>1. PICK q \in PacketsOf[f] : q \notin out
      BY <2>1, <2>2, <2>7
    <3>2. q \in Packets /\ FrameOf[q] = f /\ q \in Int
      BY <3>1, PacketsOfFrame
    <3>3. PICK r \in Out(g) : TRUE
      BY <2>7
    <3>4. r \in out /\ r \in Packets /\ FrameOf[r] = g /\ r \in Int
      BY <2>1, <3>3
    <3>5. r < q
      BY <2>7, <3>2, <3>4, PacketFacts
    <3>6. q < m
      BY <1>6, <2>4, <3>1, <3>2
    <3> QED
      BY <1>6, <2>4, <3>1, <3>2, <3>4, <3>5, <3>6
  <2> QED
    BY <2>6, <2>7 DEF m
<1>10. GapsAreDrops
  <2> SUFFICES ASSUME NEW i \in 1 .. Len(passed) - 1, passed[i] + 1 < passed[i + 1]
               PROVE  \E d \in dropped : /\ FrameOf[passed[i]] < d
                                         /\ d <= FrameOf[passed[i + 1]]
    BY DEF GapsAreDrops
  <2>1. i \in 1 .. Len(passed) /\ i + 1 \in 1 .. Len(passed) /\ i \in Int
    BY <1>2
  <2> DEFINE p == passed[i]
             r == passed[i + 1]
             q == p + 1
  <2>2. /\ p \in out /\ r \in out /\ p \in Packets /\ r \in Packets
        /\ p \in Int /\ r \in Int /\ 1 <= p
    BY <1>3, <2>1, PacketFacts, NumbersAre
  <2>3. q \in Packets
    <3>1. q \in Int /\ 1 <= q /\ q <= r
      BY <2>2
    <3> HIDE DEF q, r
    <3> QED
      BY <2>2, <3>1, PacketsBefore
  <2>4. q \notin out
    <3> SUFFICES ASSUME q \in out PROVE FALSE
      OBVIOUS
    <3>1. PICK j \in 1 .. Len(passed) : q = passed[j]
      BY <1>4
    <3>2. j \in Int
      OBVIOUS
    <3>3. CASE j <= i
      <4>1. passed[j] = p \/ passed[j] < p
        BY <1>7, <2>1, <3>2, <3>3
      <4> QED
        BY <2>2, <3>1, <4>1
    <3>4. CASE i + 1 <= j
      <4>1. passed[j] = r \/ r < passed[j]
        BY <1>7, <2>1, <3>2, <3>4
      <4> QED
        BY <2>2, <3>1, <4>1
    <3> QED
      BY <2>1, <3>2, <3>3, <3>4
  <2>5. p < q /\ q < r
    BY <2>2
  <2> HIDE DEF p, q, r
  <2>6. PICK d \in dropped : FrameOf[p] < d /\ d < FrameOf[r]
    BY <1>6, <2>2, <2>3, <2>4, <2>5
  <2>7. d \in Int /\ FrameOf[r] \in Int
    BY <1>6, <2>2, PacketFacts, NumbersAre
  <2> QED
    BY <2>6, <2>7 DEF p, r
<1> QED
  BY <1>8, <1>9, <1>10 DEF OutputUnbroken

LEMMA InvariantAlways == Spec => []IInv
<1>1. Init => IInv
  BY InitGood
<1>2. IInv /\ [Next]_vars => IInv'
  BY NextGoodAgain
<1> QED
  BY <1>1, <1>2, PTL DEF Spec

\* The variables keep their types; two packets in the buffer have numbers as
\* far apart as they were sent, whatever the wrap of the numbers on the wire
\* and the order in which packets come (UnwrapSequence); and no call leaves more
\* frames behind than m_max_buffered_frames (ReleaseReadyFrames).
THEOREM ReorderCorrect == Spec => []ReorderInvariant
<1>1. IInv => ReorderInvariant
  BY InvariantHolds
<1> QED
  BY <1>1, InvariantAlways, PTL

\* What the decoder is given is in the order it was sent, each packet once, and of
\* each frame its end without a hole.  The head of a frame may be missing only where
\* its beginning was guessed: in the first frame, and behind a frame that was given
\* up; and a gap between two packets is such a frame (ReleaseReadyFrames, whatever
\* is late, repeated or lost).  That only complete frames leave does not hold.
THEOREM OutputIsUnbroken == Spec => []OutputUnbroken
<1>1. IInv => OutputUnbroken
  BY OutputHolds
<1> QED
  BY <1>1, InvariantAlways, PTL

\* A frame is given up only for a packet that has not come, one up to the end of
\* the frame and behind all that was handed on or given up before; and with it a
\* loss is reported, at once or by the report before it in the same interval
\* (the drops of ReleaseReadyFrames and its m_loss_callback).
THEOREM DropsAreAccounted == Spec => DropsAccounted
<1>1. IInv /\ [Next]_vars => Accounted
  BY NextGoodAgain
<1>2. Accounted => (dropped' \ dropped # {} => since_notification' < LossInterval)
  BY DEF Accounted
<1>3. Accounted => \A f \in dropped' \ dropped : \E p \in Packets \ received' :
                       /\ p <= End[f]
                       /\ \A q \in ToSet(passed) : q < p
                       /\ \A d \in dropped : d < FrameOf[p]
  BY DEF Accounted, Excused
<1> QED
  BY <1>1, <1>2, <1>3, InvariantAlways, PTL
     DEF Spec, DropsAccounted, DropsReported, DropsMissSomething

=============================================================================
