-------------------------- MODULE PushTransportProofs --------------------------
(* Proofs about RtcPushTransport, for queues of any size, any range of the   *)
(* bitrate, and any number of frames and calls, and about the codecs it      *)
(* drives, for every block of sound, packet and picture.                     *)
EXTENDS PushTransport, PublishCodecs, SequenceTheorems, TLAPS

-----------------------------------------------------------------------------
(* Samples and microseconds.                                                 *)

LEMMA DivisionBounds ==
    ASSUME NEW a \in Nat, NEW b \in Nat \ {0}
    PROVE  /\ a \div b \in Nat /\ b * (a \div b) <= a /\ a < b * (a \div b) + b
           /\ a % b = a - b * (a \div b)
BY SMT

LEMMA ProductIn ==
    ASSUME NEW a \in Nat, NEW b \in Nat
    PROVE  a * b \in Nat
BY SMT

\* The quotient is the only one within a divisor of the number.
LEMMA OneQuotient ==
    ASSUME NEW a \in Nat, NEW b \in Nat \ {0}, NEW q \in Nat, b * q <= a, a < b * q + b
    PROVE  a \div b = q
BY DivisionBounds, SMT

\* Adding a multiple of the divisor adds that multiple to the quotient.
LEMMA QuotientShifts ==
    ASSUME NEW a \in Nat, NEW b \in Nat \ {0}, NEW k \in Nat
    PROVE  (a + b * k) \div b = a \div b + k
<1> DEFINE q == a \div b
<1>1. q \in Nat /\ b * q <= a /\ a < b * q + b
  BY DivisionBounds
<1> HIDE DEF q
<1>2. b * (q + k) = b * q + b * k /\ b * k \in Nat /\ q + k \in Nat
  BY <1>1, SMT
<1>3. (a + b * k) \div b = q + k
  BY <1>1, <1>2, OneQuotient
<1> QED
  BY <1>3 DEF q

LEMMA QuotientOfTwo ==
    ASSUME NEW a \in Nat, NEW c \in Nat, NEW b \in Nat \ {0}
    PROVE  /\ (a \div b) + (c \div b) <= (a + c) \div b
           /\ (a + c) \div b <= (a \div b) + (c \div b) + 1
BY DivisionBounds, SMT

LEMMA DurationType ==
    ASSUME NEW n \in Nat
    PROVE  Duration(n) \in Nat
<1>1. n * Microseconds \in Nat
  BY ProductIn, OpusAssumption DEF OpusAssumption
<1> QED
  BY <1>1, DivisionBounds, OpusAssumption DEF Duration, OpusAssumption

\* A packet lasts a whole number of microseconds.
LEMMA PacketExact ==
    FrameSamples * Microseconds = OpusSampleRate * Duration(FrameSamples)
<1>1. FrameSamples * Microseconds \in Nat
  BY ProductIn, OpusAssumption DEF OpusAssumption
<1> QED
  BY <1>1, DivisionBounds, OpusAssumption DEF Duration, OpusAssumption

\* Samples beyond some whole packets last as long after them as alone.
LEMMA PacketsSplit ==
    ASSUME NEW n \in Nat, NEW k \in Nat
    PROVE  Duration(n + k * FrameSamples) = Duration(n) + k * Duration(FrameSamples)
<1> DEFINE M == Microseconds  F == FrameSamples  R == OpusSampleRate  D == Duration(F)
<1>1. M \in Nat /\ F \in Nat /\ R \in Nat \ {0} /\ D \in Nat
  BY OpusAssumption, DurationType DEF OpusAssumption
<1>2. F * M = R * D
  BY PacketExact
<1>3. n * M \in Nat /\ k * D \in Nat
  BY <1>1, ProductIn
<1>4. (n + k * F) * M = n * M + R * (k * D)
  <2> HIDE DEF M, F, R, D
  <2>1. (n + k * F) * M = n * M + k * (F * M)
    BY <1>1, SMT
  <2>2. k * (R * D) = R * (k * D)
    BY <1>1, SMT
  <2> QED
    BY <1>2, <2>1, <2>2
<1>5. (n * M + R * (k * D)) \div R = (n * M) \div R + k * D
  BY <1>1, <1>3, QuotientShifts
<1> QED
  BY <1>4, <1>5 DEF Duration

LEMMA DurationsAdd ==
    ASSUME NEW m \in Nat, NEW n \in Nat
    PROVE  /\ Duration(m) + Duration(n) <= Duration(m + n)
           /\ Duration(m + n) <= Duration(m) + Duration(n) + 1
<1>1. /\ m * Microseconds \in Nat /\ n * Microseconds \in Nat
      /\ (m + n) * Microseconds = m * Microseconds + n * Microseconds
  BY ProductIn, OpusAssumption, SMT DEF OpusAssumption
<1> QED
  BY <1>1, QuotientOfTwo, OpusAssumption DEF Duration, OpusAssumption

-----------------------------------------------------------------------------
(* The encoder.                                                              *)

\* No more was read than is in the buffer, the queue keeps its limit, and
\* sound without a time is never buffered.
OpusInv(e) ==
    /\ e \in OpusEncoders
    /\ e.pcm_read_offset <= e.pcm_buffer
    /\ Len(e.output_queue) <= MaxQueuedFrames
    /\ e.has_timestamp \/ Buffered(e) = 0

LEMMA BufferedType ==
    ASSUME NEW e, OpusInv(e)
    PROVE  /\ Buffered(e) \in Nat /\ WholePackets(e) \in Nat
           /\ Duration(Buffered(e)) \in Nat /\ ExpectedTimestamp(e) \in Int
           /\ FrameSamples * WholePackets(e) <= Buffered(e)
           /\ Buffered(e) < FrameSamples * WholePackets(e) + FrameSamples
<1>1. Buffered(e) \in Nat
  BY DEF OpusInv, OpusEncoders, Buffered
<1>2. Duration(Buffered(e)) \in Nat /\ e.next_timestamp_us \in Int
  BY <1>1, DurationType DEF OpusInv, OpusEncoders
<1>3. FrameSamples \in Nat \ {0}
  BY OpusAssumption DEF OpusAssumption
<1>4. /\ WholePackets(e) \in Nat /\ FrameSamples * WholePackets(e) <= Buffered(e)
      /\ Buffered(e) < FrameSamples * WholePackets(e) + FrameSamples
  BY <1>1, <1>3, DivisionBounds DEF WholePackets
<1> QED
  BY <1>1, <1>2, <1>4 DEF ExpectedTimestamp

LEMMA EncoderFields ==
    ASSUME NEW e \in OpusEncoders, NEW size \in Nat, NEW offset \in Nat,
           NEW queue \in Seq(Int), NEW next \in Int
    PROVE  /\ [e EXCEPT !.pcm_read_offset = offset, !.output_queue = queue,
                        !.next_timestamp_us = next] \in OpusEncoders
           /\ [e EXCEPT !.pcm_buffer = size, !.pcm_read_offset = offset] \in OpusEncoders
           /\ [e EXCEPT !.pcm_buffer = size] \in OpusEncoders
           /\ [e EXCEPT !.pcm_buffer = size, !.pcm_read_offset = offset,
                        !.next_timestamp_us = next] \in OpusEncoders
           /\ [e EXCEPT !.next_timestamp_us = next, !.has_timestamp = TRUE] \in OpusEncoders
<1> USE DEF OpusEncoders
<1>1. [e EXCEPT !.pcm_read_offset = offset, !.output_queue = queue,
                !.next_timestamp_us = next] \in OpusEncoders
  OBVIOUS
<1>2. [e EXCEPT !.pcm_buffer = size, !.pcm_read_offset = offset] \in OpusEncoders
  OBVIOUS
<1>3. [e EXCEPT !.pcm_buffer = size] \in OpusEncoders
  OBVIOUS
<1>4. [e EXCEPT !.pcm_buffer = size, !.pcm_read_offset = offset,
                !.next_timestamp_us = next] \in OpusEncoders
  OBVIOUS
<1>5. [e EXCEPT !.next_timestamp_us = next, !.has_timestamp = TRUE] \in OpusEncoders
  OBVIOUS
<1> QED
  BY <1>1, <1>2, <1>3, <1>4, <1>5

LEMMA NewestKeepsLimit ==
    ASSUME NEW queue \in Seq(Int)
    PROVE  Newest(queue) \in Seq(Int) /\ Len(Newest(queue)) <= MaxQueuedFrames
<1>1. MaxQueuedFrames \in Nat \ {0} /\ Len(queue) \in Nat
  BY OpusAssumption DEF OpusAssumption
<1>2. CASE Len(queue) > MaxQueuedFrames
  <2>1. /\ SubSeq(queue, Len(queue) - MaxQueuedFrames + 1, Len(queue)) \in Seq(Int)
        /\ Len(SubSeq(queue, Len(queue) - MaxQueuedFrames + 1, Len(queue))) = MaxQueuedFrames
    BY <1>1, <1>2, SubSeqProperties
  <2> QED
    BY <1>1, <1>2, <2>1 DEF Newest
<1> QED
  BY <1>1, <1>2 DEF Newest

\* Packets leave the buffer; the sound that stays keeps its time.
LEMMA PacketsLeave ==
    ASSUME NEW e, OpusInv(e), NEW count \in Nat, count * FrameSamples <= Buffered(e)
    PROVE  /\ OpusInv(Encoded(e, count))
           /\ Buffered(Encoded(e, count)) = Buffered(e) - count * FrameSamples
           /\ ExpectedTimestamp(Encoded(e, count)) = ExpectedTimestamp(e)
<1> DEFINE F == FrameSamples  D == Duration(F)  new == Encoded(e, count)
           rest == Buffered(e) - count * F
<1>1. F \in Nat /\ D \in Nat /\ count * F \in Nat /\ count * D \in Nat
  BY OpusAssumption, DurationType, ProductIn DEF OpusAssumption
<1>2. Buffered(e) \in Nat /\ rest \in Nat
  BY <1>1, BufferedType
<1>3. Packets(e, count) \in Seq(Int)
  <2>1. \A i \in 1 .. count : e.next_timestamp_us + (i - 1) * D \in Int
    BY <1>1 DEF OpusInv, OpusEncoders
  <2> QED
    BY <2>1 DEF Packets
<1>4. e.output_queue \o Packets(e, count) \in Seq(Int)
  BY <1>3, ConcatProperties DEF OpusInv, OpusEncoders
<1>5. /\ Newest(e.output_queue \o Packets(e, count)) \in Seq(Int)
      /\ Len(Newest(e.output_queue \o Packets(e, count))) <= MaxQueuedFrames
  BY <1>4, NewestKeepsLimit
<1>6. /\ new.pcm_buffer = e.pcm_buffer
      /\ new.pcm_read_offset = e.pcm_read_offset + count * F
      /\ new.next_timestamp_us = e.next_timestamp_us + count * D
      /\ new.output_queue = Newest(e.output_queue \o Packets(e, count))
      /\ new.has_timestamp = e.has_timestamp /\ new.config = e.config
  BY DEF Encoded, OpusInv, OpusEncoders
<1>7. Buffered(new) = rest
  BY <1>1, <1>6 DEF Buffered, OpusInv, OpusEncoders
<1>8. OpusInv(new)
  <2>1. new \in OpusEncoders
    <3>1. /\ e.pcm_read_offset + count * F \in Nat
          /\ e.next_timestamp_us + count * D \in Int
      BY <1>1, SMTT(30) DEF OpusInv, OpusEncoders
    <3> QED
      BY <1>5, <3>1, EncoderFields DEF Encoded, OpusInv
  <2>2. new.pcm_read_offset <= new.pcm_buffer
    BY <1>1, <1>2, <1>6, SMTT(30) DEF Buffered, OpusInv, OpusEncoders
  <2>3. new.has_timestamp \/ Buffered(new) = 0
    BY <1>1, <1>2, <1>6, <1>7 DEF OpusInv
  <2> QED
    BY <1>5, <1>6, <2>1, <2>2, <2>3 DEF OpusInv
<1>9. Duration(Buffered(e)) = Duration(rest) + count * D
  <2>1. Buffered(e) = rest + count * F
    BY <1>1, <1>2
  <2> QED
    BY <1>2, <2>1, PacketsSplit
<1>10. ExpectedTimestamp(new) = ExpectedTimestamp(e)
  <2>1. Duration(rest) \in Nat /\ e.next_timestamp_us \in Int
    BY <1>2, DurationType DEF OpusInv, OpusEncoders
  <2> QED
    BY <1>1, <1>6, <1>7, <1>9, <2>1 DEF ExpectedTimestamp
<1> QED
  BY <1>7, <1>8, <1>10

LEMMA CompactionKeeps ==
    ASSUME NEW e, OpusInv(e)
    PROVE  /\ OpusInv(Compacted(e)) /\ Buffered(Compacted(e)) = Buffered(e)
           /\ ExpectedTimestamp(Compacted(e)) = ExpectedTimestamp(e)
           /\ Compacted(e).pcm_read_offset < 4 * FrameSamples
<1>1. Buffered(e) \in Nat /\ FrameSamples \in Nat \ {0}
  BY BufferedType, OpusAssumption DEF OpusAssumption
<1>2. Buffered(Compacted(e)) = Buffered(e) /\ OpusInv(Compacted(e))
  <2>1. CASE Compacted(e) = e
    BY <2>1
  <2>2. CASE Compacted(e) # e
    <3> DEFINE new == [e EXCEPT !.pcm_buffer = Buffered(e), !.pcm_read_offset = 0]
    <3>1. Compacted(e) = new
      BY <2>2 DEF Compacted
    <3>2. new \in OpusEncoders
      <4>1. e \in OpusEncoders /\ 0 \in Nat /\ e.output_queue \in Seq(Int) /\ 0 \in Int
        BY DEF OpusInv, OpusEncoders
      <4>2. [e EXCEPT !.pcm_buffer = Buffered(e), !.pcm_read_offset = 0] \in OpusEncoders
        BY <1>1, <4>1, EncoderFields
      <4> QED
        BY <4>2
    <3>3. /\ new.pcm_buffer = Buffered(e) /\ new.pcm_read_offset = 0
          /\ new.output_queue = e.output_queue /\ new.has_timestamp = e.has_timestamp
      BY DEF OpusInv, OpusEncoders
    <3> QED
      BY <1>1, <3>1, <3>2, <3>3 DEF Buffered, OpusInv
  <2> QED
    BY <2>1, <2>2
<1>3. Compacted(e).next_timestamp_us = e.next_timestamp_us
  BY DEF Compacted, OpusInv, OpusEncoders
<1>4. Compacted(e).pcm_read_offset < 4 * FrameSamples
  BY <1>1 DEF Compacted, OpusInv, OpusEncoders
<1> QED
  BY <1>2, <1>3, <1>4 DEF ExpectedTimestamp

\* The whole packets leave, or as many as libopus takes.
LEMMA WholePacketsEncoded ==
    ASSUME NEW e, OpusInv(e), NEW taken \in Nat
    PROVE  LET new == EncodeWhole(e, taken)
           IN  /\ OpusInv(new.encoder) /\ new.ok \in BOOLEAN
               /\ ExpectedTimestamp(new.encoder) = ExpectedTimestamp(e)
               /\ new.ok => Buffered(new.encoder) < FrameSamples /\ taken >= WholePackets(e)
<1> DEFINE W == WholePackets(e)
<1>1. /\ W \in Nat /\ Buffered(e) \in Nat /\ FrameSamples \in Nat \ {0}
      /\ FrameSamples * W <= Buffered(e) /\ Buffered(e) < FrameSamples * W + FrameSamples
  BY BufferedType, OpusAssumption DEF OpusAssumption
<1>2. W * FrameSamples = FrameSamples * W /\ FrameSamples * W \in Nat
  BY <1>1, ProductIn, SMT
<1>3. CASE taken < W
  <2>1. taken * FrameSamples <= W * FrameSamples /\ W * FrameSamples \in Nat
        /\ taken * FrameSamples \in Nat
    <3> HIDE DEF W
    <3>1. W - taken \in Nat /\ (W - taken) * FrameSamples \in Nat
      BY <1>1, <1>3, ProductIn
    <3>2. (W - taken) * FrameSamples = W * FrameSamples - taken * FrameSamples
      BY <1>1, SMT
    <3>3. W * FrameSamples \in Nat /\ taken * FrameSamples \in Nat
      BY <1>1, ProductIn
    <3> QED
      BY <3>1, <3>2, <3>3
  <2>2. taken * FrameSamples <= Buffered(e)
    BY <1>1, <1>2, <2>1
  <2>3. EncodeWhole(e, taken) = [ok |-> FALSE, encoder |-> Encoded(e, taken)]
    BY <1>3 DEF EncodeWhole
  <2> QED
    BY <2>2, <2>3, PacketsLeave
<1>4. CASE ~(taken < W)
  <2>1. EncodeWhole(e, taken) = [ok |-> TRUE, encoder |-> Encoded(e, W)]
    BY <1>4 DEF EncodeWhole
  <2>2. W * FrameSamples <= Buffered(e)
    BY <1>1, <1>2
  <2>3. /\ OpusInv(Encoded(e, W)) /\ Buffered(Encoded(e, W)) = Buffered(e) - W * FrameSamples
        /\ ExpectedTimestamp(Encoded(e, W)) = ExpectedTimestamp(e)
    BY <1>1, <2>2, PacketsLeave
  <2>4. Buffered(Encoded(e, W)) < FrameSamples
    BY <1>1, <1>2, <2>3
  <2> QED
    BY <1>1, <1>4, <2>1, <2>3, <2>4
<1> QED
  BY <1>3, <1>4

LEMMA PaddingKeeps ==
    ASSUME NEW e, OpusInv(e), Buffered(e) < FrameSamples
    PROVE  OpusInv(Padded(e)) /\ Buffered(Padded(e)) \in {0, FrameSamples}
<1> DEFINE new == [e EXCEPT !.pcm_buffer = FrameSamples, !.pcm_read_offset = 0]
<1>1. Buffered(e) \in Nat /\ FrameSamples \in Nat \ {0}
  BY BufferedType, OpusAssumption DEF OpusAssumption
<1>2. CASE Buffered(e) = 0
  BY <1>2 DEF Padded
<1>3. CASE Buffered(e) # 0
  <2>1. Padded(e) = new
    BY <1>3 DEF Padded
  <2>2. e \in OpusEncoders /\ 0 \in Nat /\ e.output_queue \in Seq(Int) /\ 0 \in Int
    BY DEF OpusInv, OpusEncoders
  <2>3. new \in OpusEncoders
    BY <1>1, <2>2, EncoderFields
  <2>4. /\ new.pcm_buffer = FrameSamples /\ new.pcm_read_offset = 0
        /\ new.output_queue = e.output_queue /\ new.has_timestamp = e.has_timestamp
    BY DEF OpusInv, OpusEncoders
  <2>5. Buffered(new) = FrameSamples
    BY <1>1, <2>4 DEF Buffered
  <2>6. OpusInv(new)
    BY <1>1, <1>3, <2>3, <2>4 DEF OpusInv
  <2> QED
    BY <2>1, <2>5, <2>6
<1> QED
  BY <1>2, <1>3

\* What one call encodes: the invariant holds after it, and a call that
\* succeeds leaves less than a packet, or nothing after a flush.
LEMMA CallEncodes ==
    ASSUME NEW e, OpusInv(e), NEW flush \in BOOLEAN, NEW taken \in Nat
    PROVE  LET new == EncodeBufferedFrames(e, flush, taken)
           IN  /\ OpusInv(new.encoder)
               /\ ~flush => ExpectedTimestamp(new.encoder) = ExpectedTimestamp(e)
               /\ new.ok => /\ Buffered(new.encoder) < FrameSamples
                            /\ new.encoder.pcm_read_offset < 4 * FrameSamples
                            /\ flush => Buffered(new.encoder) = 0
<1> DEFINE whole == EncodeWhole(e, taken)
           rest == EncodeWhole(Padded(whole.encoder), taken - WholePackets(e))
           last == IF flush /\ whole.ok THEN rest ELSE whole
           new == EncodeBufferedFrames(e, flush, taken)
<1>1. /\ OpusInv(whole.encoder) /\ whole.ok \in BOOLEAN
      /\ ExpectedTimestamp(whole.encoder) = ExpectedTimestamp(e)
      /\ whole.ok => Buffered(whole.encoder) < FrameSamples /\ taken >= WholePackets(e)
  BY WholePacketsEncoded
<1>2. FrameSamples \in Nat \ {0}
  BY OpusAssumption DEF OpusAssumption
<1>3. ASSUME whole.ok
      PROVE  /\ OpusInv(rest.encoder) /\ rest.ok \in BOOLEAN
             /\ rest.ok => Buffered(rest.encoder) = 0
  <2> DEFINE padded == Padded(whole.encoder)  left == taken - WholePackets(e)
  <2>1. OpusInv(padded) /\ Buffered(padded) \in {0, FrameSamples}
    BY <1>1, <1>3, PaddingKeeps
  <2>2. left \in Nat
    BY <1>1, <1>3, BufferedType
  <2> HIDE DEF padded, left
  <2>3. /\ OpusInv(EncodeWhole(padded, left).encoder) /\ EncodeWhole(padded, left).ok \in BOOLEAN
    BY <2>1, <2>2, WholePacketsEncoded
  <2>4. ASSUME EncodeWhole(padded, left).ok PROVE Buffered(EncodeWhole(padded, left).encoder) = 0
    <3> DEFINE W == WholePackets(padded)
    <3>1. /\ W \in Nat /\ FrameSamples * W <= Buffered(padded)
          /\ Buffered(padded) < FrameSamples * W + FrameSamples
      BY <2>1, BufferedType
    <3>2. W * FrameSamples = Buffered(padded)
      <4> HIDE DEF W
      <4>1. CASE Buffered(padded) = 0
        <5>1. W = 0
          BY <1>2, <3>1, <4>1, OneQuotient, SMT
        <5> QED
          BY <1>2, <4>1, <5>1
      <4>2. CASE Buffered(padded) = FrameSamples
        <5>1. W = 1
          BY <1>2, <3>1, <4>2, SMT
        <5> QED
          BY <1>2, <4>2, <5>1
      <4> QED
        BY <2>1, <4>1, <4>2
    <3>3. EncodeWhole(padded, left) = [ok |-> TRUE, encoder |-> Encoded(padded, W)]
      BY <2>4 DEF EncodeWhole
    <3>4. W * FrameSamples <= Buffered(padded) /\ Buffered(padded) \in Nat
      BY <1>2, <2>1, <3>2
    <3>5. Buffered(Encoded(padded, W)) = Buffered(padded) - W * FrameSamples
      <4> HIDE DEF W
      <4> QED
        BY <2>1, <3>1, <3>4, PacketsLeave
    <3> QED
      BY <3>2, <3>3, <3>4, <3>5
  <2> QED
    BY <2>3, <2>4 DEF padded, left
<1>4. /\ OpusInv(last.encoder) /\ last.ok \in BOOLEAN
      /\ ~flush => ExpectedTimestamp(last.encoder) = ExpectedTimestamp(e)
      /\ last.ok => Buffered(last.encoder) < FrameSamples /\ (flush => Buffered(last.encoder) = 0)
  <2> HIDE DEF whole, rest
  <2>1. CASE flush /\ whole.ok
    <3>1. last = rest
      BY <2>1
    <3> QED
      BY <1>2, <1>3, <2>1, <3>1
  <2>2. CASE ~(flush /\ whole.ok)
    <3>1. last = whole
      BY <2>2
    <3> QED
      BY <1>1, <2>2, <3>1
  <2> QED
    BY <2>1, <2>2
<1>5. new = IF last.ok THEN [last EXCEPT !.encoder = Compacted(@)] ELSE last
  BY DEF EncodeBufferedFrames
<1>6. last = [ok |-> last.ok, encoder |-> last.encoder]
  BY DEF EncodeWhole
<1> HIDE DEF last, new
<1>7. CASE last.ok
  <2>1. new.ok = last.ok /\ new.encoder = Compacted(last.encoder)
    BY <1>5, <1>6, <1>7
  <2>2. /\ OpusInv(Compacted(last.encoder))
        /\ Buffered(Compacted(last.encoder)) = Buffered(last.encoder)
        /\ ExpectedTimestamp(Compacted(last.encoder)) = ExpectedTimestamp(last.encoder)
        /\ Compacted(last.encoder).pcm_read_offset < 4 * FrameSamples
    BY <1>4, CompactionKeeps
  <2> QED
    BY <1>4, <1>7, <2>1, <2>2 DEF new
<1>8. CASE ~last.ok
  BY <1>4, <1>5, <1>8 DEF new
<1> QED
  BY <1>7, <1>8
(* A block of sound.                                                         *)

\* A block sets the time, continues it, or starts it anew.
LEMMA AlignmentKeeps ==
    ASSUME NEW e, OpusInv(e), NEW timestamp \in Int
    PROVE  LET new == Aligned(e, timestamp)
           IN  /\ OpusInv(new) /\ new.has_timestamp
               /\ ExpectedTimestamp(new) - timestamp <= ResetThreshold
               /\ timestamp - ExpectedTimestamp(new) <= ResetThreshold
<1>1. ResetThreshold \in Nat
  BY OpusAssumption DEF OpusAssumption
<1>2. /\ e \in OpusEncoders /\ 0 \in Nat /\ e.output_queue \in Seq(Int)
      /\ e.pcm_buffer \in Nat /\ e.pcm_read_offset \in Nat
  BY DEF OpusInv, OpusEncoders
<1>3. Duration(0) = 0
  BY OpusAssumption DEF Duration, OpusAssumption
<1>4. CASE ~e.has_timestamp
  <2> DEFINE new == [e EXCEPT !.next_timestamp_us = timestamp, !.has_timestamp = TRUE]
  <2>1. Aligned(e, timestamp) = new
    BY <1>4 DEF Aligned
  <2>2. new \in OpusEncoders
    BY <1>2, EncoderFields
  <2>3. /\ new.pcm_buffer = e.pcm_buffer /\ new.pcm_read_offset = e.pcm_read_offset
        /\ new.output_queue = e.output_queue /\ new.has_timestamp
        /\ new.next_timestamp_us = timestamp
    BY DEF OpusInv, OpusEncoders
  <2>4. OpusInv(new)
    BY <2>2, <2>3 DEF OpusInv
  <2>5. Buffered(new) = 0
    BY <1>4, <2>3 DEF OpusInv, Buffered
  <2>6. ExpectedTimestamp(new) = timestamp
    BY <1>3, <2>3, <2>5 DEF ExpectedTimestamp
  <2> QED
    BY <1>1, <2>1, <2>3, <2>4, <2>6
<1>5. CASE e.has_timestamp /\ ~Continues(e, timestamp)
  <2> DEFINE new == [e EXCEPT !.pcm_buffer = 0, !.pcm_read_offset = 0,
                              !.next_timestamp_us = timestamp]
  <2>1. Aligned(e, timestamp) = new
    BY <1>5 DEF Aligned
  <2>2. new \in OpusEncoders
    BY <1>2, EncoderFields
  <2>3. /\ new.pcm_buffer = 0 /\ new.pcm_read_offset = 0
        /\ new.output_queue = e.output_queue /\ new.has_timestamp = e.has_timestamp
        /\ new.next_timestamp_us = timestamp
    BY DEF OpusInv, OpusEncoders
  <2>4. Buffered(new) = 0
    BY <2>3 DEF Buffered
  <2>5. OpusInv(new)
    BY <2>2, <2>3, <2>4 DEF OpusInv
  <2>6. ExpectedTimestamp(new) = timestamp
    BY <1>3, <2>3, <2>4 DEF ExpectedTimestamp
  <2> QED
    BY <1>1, <1>5, <2>1, <2>3, <2>5, <2>6
<1>6. CASE e.has_timestamp /\ Continues(e, timestamp)
  <2>1. Aligned(e, timestamp) = e
    BY <1>6 DEF Aligned
  <2> QED
    BY <1>6, <2>1 DEF Continues
<1> QED
  BY <1>4, <1>5, <1>6

LEMMA AppendKeeps ==
    ASSUME NEW e, OpusInv(e), e.has_timestamp, NEW samples \in Nat
    PROVE  LET new == AppendInput(e, samples)
           IN  /\ OpusInv(new) /\ Buffered(new) = Buffered(e) + samples
               /\ ExpectedTimestamp(e) + Duration(samples) <= ExpectedTimestamp(new)
               /\ ExpectedTimestamp(new) <= ExpectedTimestamp(e) + Duration(samples) + 1
<1> DEFINE new == AppendInput(e, samples)
<1>1. /\ e \in OpusEncoders /\ 0 \in Nat /\ e.output_queue \in Seq(Int) /\ 0 \in Int
      /\ e.pcm_buffer + samples \in Nat /\ e.next_timestamp_us \in Int
      /\ e.pcm_buffer \in Nat /\ e.pcm_read_offset \in Nat
  BY DEF OpusInv, OpusEncoders
<1>2. new \in OpusEncoders
  <2>1. [e EXCEPT !.pcm_buffer = e.pcm_buffer + samples] \in OpusEncoders
    BY <1>1, EncoderFields
  <2> QED
    BY <2>1 DEF AppendInput
<1>3. /\ new.pcm_buffer = e.pcm_buffer + samples
      /\ new.pcm_read_offset = e.pcm_read_offset /\ new.output_queue = e.output_queue
      /\ new.has_timestamp = e.has_timestamp
      /\ new.next_timestamp_us = e.next_timestamp_us
  BY DEF AppendInput, OpusInv, OpusEncoders
<1>4. Buffered(new) = Buffered(e) + samples
  BY <1>1, <1>3 DEF Buffered
<1>5. OpusInv(new)
  BY <1>1, <1>2, <1>3 DEF OpusInv
<1>6. Buffered(e) \in Nat /\ Buffered(e) + samples \in Nat
  BY BufferedType
<1>7. /\ Duration(Buffered(e)) \in Nat /\ Duration(samples) \in Nat
      /\ Duration(Buffered(e) + samples) \in Nat
      /\ Duration(Buffered(e)) + Duration(samples) <= Duration(Buffered(e) + samples)
      /\ Duration(Buffered(e) + samples) <= Duration(Buffered(e)) + Duration(samples) + 1
  <2> DEFINE b == Buffered(e)
  <2> HIDE DEF b
  <2>1. b \in Nat /\ b + samples \in Nat
    BY <1>6 DEF b
  <2>2. /\ Duration(b) \in Nat /\ Duration(samples) \in Nat
        /\ Duration(b + samples) \in Nat
    BY <2>1, DurationType
  <2>3. /\ Duration(b) + Duration(samples) <= Duration(b + samples)
        /\ Duration(b + samples) <= Duration(b) + Duration(samples) + 1
    BY <2>1, DurationsAdd
  <2> QED
    BY <2>2, <2>3 DEF b
<1>8. /\ ExpectedTimestamp(new) = e.next_timestamp_us + Duration(Buffered(e) + samples)
      /\ ExpectedTimestamp(e) = e.next_timestamp_us + Duration(Buffered(e))
  BY <1>3, <1>4 DEF ExpectedTimestamp
<1> HIDE DEF new
<1> QED
  BY <1>1, <1>4, <1>5, <1>7, <1>8 DEF new

\* PushInput, for blocks of any length and with any capture time, whatever the
\* resampler makes of them and however many packets libopus takes: the queue
\* keeps its limit, less than a packet waits after a call that succeeds, and
\* what was read but not erased is less than four packets.
THEOREM EncoderStaysBounded ==
    ASSUME NEW e, OpusInv(e), NEW block, block.timestamp_us \in Int,
           NEW samples \in Nat \cup {-1}, NEW taken \in Nat
    PROVE  LET new == PushInput(e, block, samples, taken)
           IN  /\ OpusInv(new.encoder)
               /\ new.ok => /\ Buffered(new.encoder) < FrameSamples
                            /\ new.encoder.pcm_read_offset < 4 * FrameSamples
<1> DEFINE aligned == Aligned(e, block.timestamp_us)  all == AppendInput(aligned, samples)
<1>1. OpusInv(aligned) /\ aligned.has_timestamp
  BY AlignmentKeeps
<1> HIDE DEF aligned
<1>2. CASE ~block.fits
  BY <1>2 DEF PushInput
<1>3. CASE block.fits /\ samples = -1
  BY <1>1, <1>3 DEF PushInput, aligned
<1>4. CASE block.fits /\ samples # -1
  <2>1. samples \in Nat
    BY <1>4
  <2>2. OpusInv(all)
    BY <1>1, <2>1, AppendKeeps
  <2>3. PushInput(e, block, samples, taken) = EncodeBufferedFrames(all, FALSE, taken)
    BY <1>4 DEF PushInput, aligned
  <2> HIDE DEF all
  <2> QED
    BY <2>2, <2>3, CallEncodes
<1> QED
  BY <1>2, <1>3, <1>4

\* Sound keeps its capture time: what comes after a block will be stamped with
\* the time at which the block ends, up to kTimestampResetThresholdUs and the
\* rounding of one microsecond, whatever was buffered or lost before.
THEOREM SoundKeepsItsTime ==
    ASSUME NEW e, OpusInv(e), NEW block, block.timestamp_us \in Int, block.fits,
           NEW samples \in Nat, NEW taken \in Nat
    PROVE  LET new == PushInput(e, block, samples, taken).encoder
               end == block.timestamp_us + Duration(samples)
           IN  /\ ExpectedTimestamp(new) - end <= ResetThreshold + 1
               /\ end - ExpectedTimestamp(new) <= ResetThreshold
<1> DEFINE aligned == Aligned(e, block.timestamp_us)  all == AppendInput(aligned, samples)
           new == PushInput(e, block, samples, taken)
<1>1. /\ OpusInv(aligned) /\ aligned.has_timestamp
      /\ ExpectedTimestamp(aligned) - block.timestamp_us <= ResetThreshold
      /\ block.timestamp_us - ExpectedTimestamp(aligned) <= ResetThreshold
  BY AlignmentKeeps
<1>2. new = EncodeBufferedFrames(all, FALSE, taken)
  <2>1. samples # -1
    BY SMT
  <2> QED
    BY <2>1 DEF PushInput
<1> HIDE DEF aligned
<1>3. /\ OpusInv(all)
      /\ ExpectedTimestamp(aligned) + Duration(samples) <= ExpectedTimestamp(all)
      /\ ExpectedTimestamp(all) <= ExpectedTimestamp(aligned) + Duration(samples) + 1
  BY <1>1, AppendKeeps
<1> HIDE DEF all, new
<1>4. ExpectedTimestamp(new.encoder) = ExpectedTimestamp(all)
  BY <1>2, <1>3, CallEncodes
<1>5. /\ Duration(samples) \in Nat /\ ResetThreshold \in Nat
      /\ ExpectedTimestamp(all) \in Int /\ ExpectedTimestamp(aligned) \in Int
  BY <1>1, <1>3, BufferedType, DurationType, OpusAssumption DEF OpusAssumption
<1> QED
  BY <1>1, <1>3, <1>4, <1>5 DEF new

\* A flush that succeeds sends everything: the next sound begins a packet.
THEOREM FlushLeavesNothing ==
    ASSUME NEW e, OpusInv(e), NEW taken \in Nat
    PROVE  LET new == FlushEncoder(e, taken)
           IN  OpusInv(new.encoder) /\ (new.ok => Buffered(new.encoder) = 0)
BY CallEncodes DEF FlushEncoder

-----------------------------------------------------------------------------
(* The bitrate of the video.                                                 *)

\* The encoder works at the bitrate of the controller, which keeps to a range
\* inside the encoder's own.
BitrateInv(encoder, controller) ==
    /\ encoder \in H264Encoders /\ encoder.ready /\ controller \in Controllers
    /\ H264EncoderAccepts(encoder.config) /\ controller.m_initialized /\ controller.min > 0
    /\ encoder.config.min_bitrate_kbps <= controller.min
    /\ controller.max <= encoder.config.max_bitrate_kbps
    /\ controller.min <= controller.m_current_bitrate
    /\ controller.m_current_bitrate <= controller.max
    /\ encoder.config.target_bitrate_kbps = controller.m_current_bitrate

\* Every size a camera has, and every rate, gives a configuration the encoder
\* accepts and a controller that starts in step with it.
THEOREM PublishingStartsInStep ==
    ASSUME NEW info, NEW encoder,
           info.video_width \in Nat \ {0}, info.video_width % 2 = 0,
           info.video_height \in Nat \ {0}, info.video_height % 2 = 0,
           info.video_fps \in Nat \ {0}
    PROVE  LET config == VideoConfig(info)
           IN  BitrateInv(H264EncoderInitialize(encoder, config, TRUE),
                          VideoController(config))
<1> DEFINE config == VideoConfig(info)  target == TargetBitrateOf(info)
           pixels == info.video_width * info.video_height * info.video_fps
           least == Larger(LeastBitrate, target \div 2)
<1>1. /\ BitsPerPixel \in Nat \ {0} /\ LeastBitrate \in Nat \ {0}
      /\ MinTarget \in Nat /\ MaxTarget \in Nat
      /\ LeastBitrate <= MinTarget /\ MinTarget <= MaxTarget
      /\ (MaxTarget * 3) \div 2 <= MaxBitrateKbps /\ MaxBitrateKbps \in Nat
  BY PublishAssumption, H264Assumption DEF PublishAssumption, H264Assumption
<1>2. pixels \div BitsPerPixel \in Nat
  <2>1. info.video_width * info.video_height \in Nat
    BY ProductIn
  <2>2. pixels \in Nat
    BY <2>1, ProductIn
  <2> QED
    BY <1>1, <2>2, DivisionBounds
<1>3. target \in Nat /\ MinTarget <= target /\ target <= MaxTarget
  <2> HIDE DEF pixels
  <2> QED
    BY <1>1, <1>2 DEF TargetBitrateOf, Smaller, Larger, pixels
<1> HIDE DEF target
<1>4. /\ least \in Nat \ {0} /\ least <= target
      /\ (target * 3) \div 2 \in Nat /\ target <= (target * 3) \div 2
      /\ (target * 3) \div 2 <= MaxBitrateKbps
  BY <1>1, <1>3 DEF Larger
<1> HIDE DEF least
<1>5. /\ config = [width |-> info.video_width, height |-> info.video_height,
                   framerate |-> info.video_fps, target_bitrate_kbps |-> target,
                   min_bitrate_kbps |-> least, max_bitrate_kbps |-> (target * 3) \div 2]
  BY DEF VideoConfig, target, least
<1> HIDE DEF config
<1>6. H264EncoderAccepts(config) /\ config \in VideoCodecConfigs
  BY <1>3, <1>4, <1>5 DEF H264EncoderAccepts, VideoCodecConfigs
<1>7. H264EncoderInitialize(encoder, config, TRUE)
        = [ready |-> TRUE, config |-> config]
  BY <1>6 DEF H264EncoderInitialize
<1>8. VideoController(config)
        = [m_initialized |-> TRUE, min |-> least, initial |-> target, max |-> target,
           m_current_bitrate |-> target, m_stable_duration |-> 0, m_hold_remaining |-> 0]
  BY <1>3, <1>4, <1>5 DEF VideoController, ControllerInitialize
<1>9. VideoController(config) \in Controllers
  BY <1>3, <1>4, <1>8 DEF Controllers
<1> DEFINE made == [ready |-> TRUE, config |-> config]
           controller == VideoController(config)
<1>10. made \in H264Encoders
  <2>1. made \in [ready : {TRUE}, config : VideoCodecConfigs]
    BY <1>6
  <2> QED
    BY <2>1 DEF H264Encoders
<1>11. /\ made.ready /\ made.config = config
       /\ controller.m_initialized /\ controller.min = least /\ controller.max = target
       /\ controller.m_current_bitrate = target
       /\ config.min_bitrate_kbps = least /\ config.target_bitrate_kbps = target
       /\ config.max_bitrate_kbps = (target * 3) \div 2
  BY <1>5, <1>8
<1> HIDE DEF made, controller
<1>12. BitrateInv(made, controller)
  BY <1>3, <1>4, <1>6, <1>9, <1>10, <1>11 DEF BitrateInv, controller
<1> QED
  BY <1>7, <1>12 DEF made, controller, config

\* Pressure and recovery keep the controller in its range.
LEMMA UpdateKeepsRange ==
    ASSUME NEW c \in Controllers, c.m_initialized, c.min <= c.m_current_bitrate,
           c.m_current_bitrate <= c.max, NEW feedback \in Feedback
    PROVE  LET new == ControllerUpdate(c, feedback)
           IN  /\ new \in Controllers /\ new.m_initialized
               /\ new.min = c.min /\ new.max = c.max /\ new.initial = c.initial
               /\ c.min <= new.m_current_bitrate /\ new.m_current_bitrate <= c.max
<1>1. /\ c.min \in Nat /\ c.max \in Nat /\ c.m_current_bitrate \in Nat
      /\ c.m_stable_duration \in Nat /\ c.m_hold_remaining \in Nat
      /\ feedback.sample_duration \in Nat
  BY DEF Controllers, Feedback
<1>2. HoldTime \in Nat /\ IncreaseStep \in Nat \ {0} /\ DecreasePercent \in Nat
  BY BitrateAssumption DEF BitrateAssumption
<1>3. CalculateReducedBitrate(c) \in Nat /\ c.min <= CalculateReducedBitrate(c)
  <2>1. (c.m_current_bitrate * DecreasePercent) \div 100 \in Nat
    <3>1. c.m_current_bitrate * DecreasePercent \in Nat
      BY <1>1, <1>2, ProductIn
    <3> QED
      BY <3>1, DivisionBounds
  <2> QED
    BY <1>1, <2>1 DEF CalculateReducedBitrate, Larger
<1> DEFINE Good(new) == /\ new \in Controllers /\ new.m_initialized
                        /\ new.min = c.min /\ new.max = c.max /\ new.initial = c.initial
                        /\ c.min <= new.m_current_bitrate /\ new.m_current_bitrate <= c.max
<1>4. Good(c)
  OBVIOUS
<1>5. Good(Congested(c))
  <2> DEFINE bitrate == Smaller(c.m_current_bitrate, CalculateReducedBitrate(c))
             new == Congested(c)
  <2>1. bitrate \in Nat /\ c.min <= bitrate /\ bitrate <= c.max
    BY <1>1, <1>3 DEF Smaller
  <2> HIDE DEF bitrate
  <2>2. new = [c EXCEPT !.m_stable_duration = 0, !.m_hold_remaining = HoldTime,
                        !.m_current_bitrate = bitrate]
    BY DEF Congested, bitrate
  <2> HIDE DEF new
  <2>3. /\ new.m_current_bitrate = bitrate /\ new.min = c.min /\ new.max = c.max /\ new.initial = c.initial
        /\ new.m_initialized = c.m_initialized /\ new \in Controllers
    BY <1>2, <2>1, <2>2 DEF Controllers
  <2> QED
    BY <2>1, <2>3 DEF new
<1>6. Good(Held(c, feedback))
  <2> DEFINE left == Larger(0, c.m_hold_remaining - feedback.sample_duration)
             new == Held(c, feedback)
  <2>1. left \in Nat
    BY <1>1 DEF Larger
  <2> HIDE DEF left
  <2>2. new = [c EXCEPT !.m_stable_duration = 0, !.m_hold_remaining = left]
    BY DEF Held, left
  <2> HIDE DEF new
  <2>3. /\ new.m_current_bitrate = c.m_current_bitrate /\ new.min = c.min
        /\ new.max = c.max /\ new.initial = c.initial /\ new.m_initialized = c.m_initialized /\ new \in Controllers
    BY <2>1, <2>2 DEF Controllers
  <2> QED
    BY <2>3 DEF new
<1>7. Good(Unstable(c))
  BY <1>1 DEF Unstable, Controllers
<1>8. Good(Recovering(c, feedback))
  <2> DEFINE stable == c.m_stable_duration + feedback.sample_duration
             more == IF c.m_current_bitrate >= c.max THEN c.m_current_bitrate
                     ELSE Smaller(c.m_current_bitrate + IncreaseStep, c.max)
             new == Recovering(c, feedback)
  <2>1. stable \in Nat /\ more \in Nat /\ c.min <= more /\ more <= c.max
    BY <1>1, <1>2 DEF Smaller
  <2>2. new = IF stable < StableTime THEN [c EXCEPT !.m_stable_duration = stable]
              ELSE [c EXCEPT !.m_stable_duration = 0, !.m_current_bitrate = more]
    BY DEF Recovering
  <2> HIDE DEF stable, more, new
  <2>3. CASE stable < StableTime
    <3>1. /\ new.m_current_bitrate = c.m_current_bitrate /\ new.min = c.min
          /\ new.max = c.max /\ new.initial = c.initial /\ new.m_initialized = c.m_initialized /\ new \in Controllers
      BY <2>1, <2>2, <2>3 DEF Controllers
    <3> QED
      BY <3>1 DEF new
  <2>4. CASE ~(stable < StableTime)
    <3>1. /\ new.m_current_bitrate = more /\ new.min = c.min
          /\ new.max = c.max /\ new.initial = c.initial /\ new.m_initialized = c.m_initialized /\ new \in Controllers
      BY <2>1, <2>2, <2>4 DEF Controllers
    <3> QED
      BY <2>1, <3>1 DEF new
  <2> QED
    BY <2>3, <2>4
<1>9. ControllerUpdate(c, feedback) \in {c, Congested(c), Held(c, feedback), Unstable(c),
                                        Recovering(c, feedback)}
  BY <1>1 DEF ControllerUpdate
<1> QED
  BY <1>4, <1>5, <1>6, <1>7, <1>8, <1>9

\* Whatever the sender's pressure was and whatever OpenH264 takes: the bitrate
\* the controller asks for is one the encoder's own check lets through, and
\* afterwards both are in step again, also when OpenH264 has refused it.
THEOREM BitrateStaysInStep ==
    ASSUME NEW encoder, NEW controller, BitrateInv(encoder, controller),
           NEW feedback \in Feedback, NEW taken \in BOOLEAN
    PROVE  LET new == AdaptBitrate(encoder, controller, feedback, taken)
           IN  /\ TakesBitrate(encoder, ControllerUpdate(controller, feedback).m_current_bitrate)
               /\ BitrateInv(new.encoder, new.control)
<1> DEFINE updated == ControllerUpdate(controller, feedback)
           last == controller.m_current_bitrate  next == updated.m_current_bitrate
           new == AdaptBitrate(encoder, controller, feedback, taken)
<1>1. /\ updated \in Controllers /\ updated.m_initialized
      /\ updated.min = controller.min /\ updated.max = controller.max
      /\ controller.min <= next /\ next <= controller.max
  BY UpdateKeepsRange DEF BitrateInv
<1>2. /\ controller.min \in Nat /\ controller.max \in Nat /\ last \in Nat /\ next \in Nat
      /\ encoder \in [ready : {TRUE}, config : VideoCodecConfigs]
      /\ encoder.config \in VideoCodecConfigs
  <2>1. encoder # NoH264Encoder
    BY DEF BitrateInv, NoH264Encoder
  <2>2. encoder \in [ready : {TRUE}, config : VideoCodecConfigs]
    BY <2>1 DEF BitrateInv, H264Encoders
  <2> QED
    BY <1>1, <2>2 DEF BitrateInv, Controllers
<1>3. /\ encoder.config.min_bitrate_kbps \in Nat /\ encoder.config.max_bitrate_kbps \in Nat
      /\ encoder.config.target_bitrate_kbps \in Nat
  BY <1>2 DEF VideoCodecConfigs
<1>4. TakesBitrate(encoder, next)
  BY <1>1, <1>2, <1>3 DEF TakesBitrate, BitrateInv
<1> HIDE DEF updated
<1>5. CASE next = last
  <2>1. new = [encoder |-> encoder, control |-> updated]
    BY <1>5 DEF AdaptBitrate, updated
  <2> QED
    BY <1>1, <1>4, <1>5, <2>1 DEF BitrateInv, updated
<1>6. CASE next # last /\ taken
  <2> DEFINE set == [encoder EXCEPT !.config.target_bitrate_kbps = next]
  <2>1. new = [encoder |-> set, control |-> updated]
    BY <1>4, <1>6 DEF AdaptBitrate, SetBitrate, updated
  <2>2. /\ set.ready /\ set.config \in VideoCodecConfigs
        /\ set.config.target_bitrate_kbps = next
        /\ set.config.min_bitrate_kbps = encoder.config.min_bitrate_kbps
        /\ set.config.max_bitrate_kbps = encoder.config.max_bitrate_kbps
        /\ set.config.width = encoder.config.width
        /\ set.config.height = encoder.config.height
        /\ set.config.framerate = encoder.config.framerate
        /\ set \in [ready : {TRUE}, config : VideoCodecConfigs]
    BY <1>2 DEF VideoCodecConfigs
  <2> HIDE DEF set
  <2>3. H264EncoderAccepts(set.config)
    BY <1>1, <1>2, <1>3, <2>2 DEF BitrateInv, H264EncoderAccepts
  <2>4. BitrateInv(set, updated)
    BY <1>1, <2>2, <2>3 DEF BitrateInv, H264Encoders
  <2> QED
    BY <1>4, <2>1, <2>4 DEF updated
<1>7. CASE next # last /\ ~taken
  <2> DEFINE locked == ControllerInitialize(last, last, last)
  <2>1. new = [encoder |-> encoder, control |-> locked]
    BY <1>7 DEF AdaptBitrate, updated
  <2>2. locked = [m_initialized |-> TRUE, min |-> last, initial |-> last, max |-> last,
                  m_current_bitrate |-> last, m_stable_duration |-> 0,
                  m_hold_remaining |-> 0]
    BY <1>2 DEF ControllerInitialize, BitrateInv
  <2> HIDE DEF locked
  <2>3. locked \in Controllers
    BY <1>2, <2>2 DEF Controllers
  <2>4. BitrateInv(encoder, locked)
    BY <1>2, <1>3, <2>2, <2>3 DEF BitrateInv
  <2> QED
    BY <1>4, <2>1, <2>4 DEF updated
<1> QED
  BY <1>5, <1>6, <1>7

-----------------------------------------------------------------------------
(* The inductive invariant.                                                  *)

\* Each thread knows what it starts or stops, and whether it is closing.
CallInv ==
    /\ \A a \in Actors :
          /\ at[a] # "idle" <=> medium[a] \in Media
          /\ closing[a] => at[a] \in Stopping \ {"stopped"}
          /\ at[a] = "close" => closing[a]
    /\ at["signaling"] \in {"idle"} \cup (Stopping \ {"stopped"})
    /\ at["signaling"] # "idle" => closing["signaling"]

\* A controller that has a range is in it, and starts over in it.
ControlInv ==
    control.m_initialized =>
        /\ MinBitrate <= control.min /\ control.max <= TargetBitrate
        /\ control.m_current_bitrate \in control.min .. control.max
        /\ control.initial \in control.min .. control.max

\* What a medium is when nobody starts or stops it.
Off(m) == ~m_publishing[m] /\ ~m_worker[m] /\ loop[m] = "none"
Settled(m) ==
    \/ Off(m) /\ m_encoder[m] = 0
    \/ /\ m_publishing[m] /\ m_worker[m] /\ m_encoder[m] # 0
       /\ loop[m] \notin {"none", "flush", "ended"}

\* And while somebody does.
Stage(m, s) ==
    /\ s \in {"tracks", "clear", "flag"} => Off(m) /\ m_encoder[m] # 0
    /\ s = "thread" => m_publishing[m] /\ ~m_worker[m] /\ loop[m] = "none" /\ m_encoder[m] # 0
    /\ s = "exchange" => Settled(m)
    /\ s = "notify" => ~m_publishing[m] /\ (m_worker[m] <=> loop[m] # "none")
    /\ s = "join" => ~m_publishing[m] /\ m_worker[m] /\ loop[m] # "none"
    /\ s = "release" => Off(m)
    /\ s \in {"stopped", "close"} => Off(m) /\ m_encoder[m] = 0

\* As long as no two calls met: one thread starts or stops at a time, it finds
\* its medium as its stage says, and every other medium is settled.  A Close
\* leaves each medium behind it switched off.
MediaInv ==
    ~overlapped =>
        /\ ~crashed
        /\ \E a \in Actors : \A b \in Actors : b # a => at[b] = "idle"
        /\ \A m \in Media :
              \/ \A a \in Actors : medium[a] # m /\ Settled(m)
              \/ \E a \in Actors : medium[a] = m /\ Stage(m, at[a])
        /\ \A a \in Actors : closing[a] /\ (medium[a] = "audio" \/ at[a] = "close") =>
              \A m \in Media \ {medium[a]} : Off(m)

\* The encoder works at the bitrate of the controller already when its worker is
\* about to be started.
RateInv ==
    /\ "video" \in Media /\ ~overlapped
    /\ loop["video"] # "none" \/ (at["caller"] \in Starting /\ medium["caller"] = "video")
    => m_encoder["video"] = control.m_current_bitrate

\* The encoder has something to send only while its worker can send it.
DrainedInv ==
    ~overlapped /\ "audio" \in Media /\ ~Alive("audio") =>
        m_pcm = 0 \/ m_encoder["audio"] = 0

IInv ==
    /\ TypeOK
    /\ CallInv
    /\ ControlInv
    /\ MediaInv
    /\ RateInv
    /\ DrainedInv

-----------------------------------------------------------------------------
(* The controller of the bitrate.                                            *)

LEMMA InitializeInRange ==
    ASSUME NEW min \in Nat, NEW initial \in Nat, NEW max \in Nat
    PROVE  LET c == ControllerInitialize(min, initial, max)
           IN  /\ c \in Controllers
               /\ c.m_initialized => /\ c.min = min /\ c.max = max /\ c.initial = initial
                                     /\ c.m_current_bitrate = initial
                                     /\ initial \in min .. max
               /\ c.m_current_bitrate = IF min > 0 /\ initial \in min .. max
                                        THEN initial ELSE 0
BY DEF ControllerInitialize, Uninitialized, Controllers

LEMMA ResetInRange ==
    ASSUME NEW c \in Controllers
    PROVE  LET r == ControllerReset(c)
           IN  /\ r \in Controllers
               /\ r.m_initialized = c.m_initialized
               /\ r.min = c.min /\ r.max = c.max /\ r.initial = c.initial
               /\ c.m_initialized => r.m_current_bitrate = c.initial
BY DEF ControllerReset, Controllers

\* What one evaluation makes of the controller and of the encoder.
LEMMA EvaluationKeeps ==
    ASSUME TypeOK, ControlInv, "video" \in Media, NEW time \in SampleTimes,
           NEW refused \in BOOLEAN, EvaluateVideoBitrate(time, refused)
    PROVE  /\ TypeOK' /\ ControlInv'
           /\ \A m \in Media \ {"video"} : m_encoder'[m] = m_encoder[m]
           /\ m_encoder'["video"] = 0 <=> m_encoder["video"] = 0
           /\ m_encoder["video"] = control.m_current_bitrate =>
                 m_encoder'["video"] = control'.m_current_bitrate
<1> DEFINE encoder == m_encoder["video"]
           last == control.m_current_bitrate
           feedback == [sample_duration    |-> time,
                        queue_depth        |-> Len(m_queue["video"]),
                        queue_drop_count   |-> m_drop_count,
                        send_failure_count |-> m_send_failures]
           updated == ControllerUpdate(control, feedback)
           next == updated.m_current_bitrate
           applied == Applied(encoder, updated, refused)
<1>1. /\ control \in Controllers /\ encoder \in Nat /\ feedback \in Feedback
      /\ MinBitrate \in Nat \ {0} /\ TargetBitrate \in Nat
  BY PushAssumption DEF PushAssumption, TypeOK, Feedback
<1>2. /\ control' = applied.control
      /\ m_encoder' = [m_encoder EXCEPT !["video"] = applied.encoder]
      /\ encoder = 0 => refused
  BY DEF EvaluateVideoBitrate
<1>3. /\ control.m_initialized \in BOOLEAN /\ last \in Nat
      /\ control.min \in Nat /\ control.max \in Nat
  BY <1>1 DEF Controllers
<1>4. updated \in Controllers /\ next \in Nat
  <2>1. CASE ~control.m_initialized
    BY <1>1, <2>1 DEF ControllerUpdate, Controllers
  <2>2. CASE control.m_initialized
    <3>1. updated \in Controllers
      BY <1>1, <1>3, <2>2, UpdateKeepsRange DEF ControlInv
    <3> QED
      BY <3>1 DEF Controllers
  <2> QED
    BY <2>1, <2>2
<1>5. control.m_initialized =>
         /\ updated.m_initialized
         /\ updated.min = control.min /\ updated.max = control.max
         /\ updated.initial = control.initial
         /\ control.min <= next /\ next <= control.max
  BY <1>1, <1>3, UpdateKeepsRange DEF ControlInv
<1>6. ~control.m_initialized => updated = control
  BY DEF ControllerUpdate
<1>7. control.m_initialized => /\ MinBitrate <= control.min /\ control.max <= TargetBitrate
                               /\ control.min <= last /\ last <= control.max
                               /\ control.initial \in control.min .. control.max
  BY <1>1, <1>3 DEF ControlInv
<1> HIDE DEF updated, feedback
<1> DEFINE Good(c, e) ==
        /\ c \in Controllers /\ e \in Nat
        /\ c.m_initialized => /\ MinBitrate <= c.min /\ c.max <= TargetBitrate
                              /\ c.m_current_bitrate \in c.min .. c.max
                              /\ c.initial \in c.min .. c.max
        /\ e = 0 <=> encoder = 0
        /\ encoder = last => e = c.m_current_bitrate
<1>8. Good(applied.control, applied.encoder)
  <2>1. CASE next = last
    <3>1. applied.control = updated /\ applied.encoder = encoder
      BY <2>1 DEF Applied
    <3> QED
      BY <1>1, <1>3, <1>4, <1>5, <1>6, <1>7, <2>1, <3>1
  <2>2. CASE next # last /\ ~refused
    <3>1. applied.control = updated /\ applied.encoder = next
      BY <2>2 DEF Applied
    <3>2. control.m_initialized /\ encoder # 0
      BY <1>2, <1>6, <2>2
    <3>3. next # 0
      BY <1>1, <1>3, <1>4, <1>5, <1>7, <3>2
    <3> QED
      BY <1>1, <1>3, <1>4, <1>5, <1>7, <3>1, <3>2, <3>3
  <2>3. CASE next # last /\ refused
    <3>1. applied.control = ControllerInitialize(last, last, last) /\ applied.encoder = encoder
      BY <2>3 DEF Applied
    <3>2. control.m_initialized
      BY <1>6, <2>3
    <3>3. /\ applied.control \in Controllers
          /\ applied.control.m_initialized =>
                /\ applied.control.min = last /\ applied.control.max = last
                /\ applied.control.initial = last
          /\ applied.control.m_current_bitrate = last
      BY <1>3, <3>1, InitializeInRange
    <3> QED
      BY <1>1, <1>3, <1>7, <3>1, <3>2, <3>3
  <2> QED
    BY <2>1, <2>2, <2>3
<1> HIDE DEF applied
<1>9. ControlInv'
  BY <1>2, <1>8 DEF ControlInv
<1>10. TypeOK'
  BY <1>2, <1>8 DEF EvaluateVideoBitrate, LoopGoes, TypeOK, Actors, pusherVars,
     sessionVars,
                    callVars
<1> QED
  BY <1>2, <1>8, <1>9, <1>10 DEF TypeOK

-----------------------------------------------------------------------------
(* The media.                                                                *)

LEMMA FirstMediumIn ==
    FirstMedium \in Media /\ (FirstMedium = "audio" => Media \ {FirstMedium} = {})
BY PushAssumption DEF PushAssumption, FirstMedium

\* A step within the loop of a worker.
LEMMA LoopStep ==
    ASSUME TypeOK, CallInv, MediaInv, NEW m \in Media,
           NEW s \in {"test", "drowsy", "waiting", "evaluate", "encode", "send"},
           loop' = [loop EXCEPT ![m] = s],
           loop[m] \notin {"none", "flush", "ended"},
           \A n \in Media : m_encoder'[n] = 0 <=> m_encoder[n] = 0,
           UNCHANGED <<m_publishing, m_worker, callVars>>
    PROVE  MediaInv'
<1>1. \A n \in Media : (loop[n] = "none" <=> loop'[n] = "none")
                       /\ (loop[n] \notin {"none", "flush", "ended"}
                             => loop'[n] \notin {"none", "flush", "ended"})
  BY DEF TypeOK
<1>2. \A n \in Media : /\ Off(n) => Off(n)'
                       /\ Settled(n) => Settled(n)'
  BY <1>1 DEF Off, Settled
<1>3. \A n \in Media, t \in {"idle"} \cup Starting \cup Stopping : Stage(n, t) => Stage(n, t)'
  BY <1>1, <1>2 DEF Stage
<1>4. /\ at' = at /\ medium' = medium /\ closing' = closing
      /\ overlapped' = overlapped /\ crashed' = crashed
  BY DEF callVars
<1> SUFFICES ASSUME ~overlapped
             PROVE  MediaInv'
  BY <1>4 DEF MediaInv
<1>5. ~crashed' /\ \E a \in Actors : \A b \in Actors : b # a => at'[b] = "idle"
  BY <1>4 DEF MediaInv
<1>6. ASSUME NEW n \in Media
      PROVE  \/ \A a \in Actors : (medium[a] # n /\ Settled(n))'
             \/ \E a \in Actors : (medium[a] = n /\ Stage(n, at[a]))'
  <2>1. CASE \A a \in Actors : medium[a] # n /\ Settled(n)
    BY <1>2, <1>4, <2>1
  <2>2. CASE \E a \in Actors : medium[a] = n /\ Stage(n, at[a])
    <3>1. PICK a \in Actors : medium[a] = n /\ Stage(n, at[a])
      BY <2>2
    <3>2. at[a] \in {"idle"} \cup Starting \cup Stopping
      BY DEF TypeOK
    <3>3. Stage(n, at[a])'
      BY <1>3, <1>4, <3>1, <3>2
    <3> QED
      BY <1>4, <3>1, <3>3
  <2> QED
    BY <2>1, <2>2 DEF MediaInv
<1>7. ASSUME NEW a \in Actors, closing[a], medium[a] = "audio" \/ at[a] = "close",
             NEW n \in Media \ {medium[a]}
      PROVE  Off(n)'
  BY <1>2, <1>7 DEF MediaInv
<1> QED
  BY <1>4, <1>5, <1>6, <1>7 DEF MediaInv

-----------------------------------------------------------------------------
(* The steps, one lemma for each action: it keeps every part of IInv.        *)

LEMMA PushFrameInv ==
    ASSUME IInv, NEW m \in Media, PushFrame(m)
    PROVE  IInv'
<1> USE PushAssumption DEF PushAssumption, IInv, TypeOK, Actors, None, PushFrame,
        sendVars, workerVars, sessionVars, callVars
<1>1. TypeOK'
  BY DEF CallInv, Starting, Stopping
<1>2. CallInv'
  BY DEF CallInv, Starting, Stopping
<1>3. ControlInv'
  BY DEF ControlInv
<1>4. MediaInv'
  BY DEF MediaInv, Stage, Settled, Off, CallInv, Stopping, Starting
<1>5. RateInv'
  BY DEF RateInv
<1>6. DrainedInv'
  BY DEF DrainedInv, Alive
<1> QED
  BY <1>1, <1>2, <1>3, <1>4, <1>5, <1>6

LEMMA PushQueueInv ==
    ASSUME IInv, NEW m \in Media, PushQueue(m)
    PROVE  IInv'
<1> USE PushAssumption DEF PushAssumption, IInv, TypeOK, Actors, None, PushQueue,
        QueueFree, Woken, sessionVars, callVars
<1>1. TypeOK'
  <2>1. m_queue[m] \in Seq(Nat) /\ Capacity[m] \in Nat \ {0} /\ shot[m] \in Nat
    OBVIOUS
  <2>2. Len(m_queue[m]) >= Capacity[m] => Tail(m_queue[m]) \in Seq(Nat)
    BY <2>1
  <2>3. Append(IF Len(m_queue[m]) >= Capacity[m] THEN Tail(m_queue[m]) ELSE m_queue[m],
               shot[m]) \in Seq(Nat)
    BY <2>1, <2>2
  <2> QED
    BY <2>3
<1>2. CallInv'
  BY DEF CallInv, Starting, Stopping
<1>3. ControlInv'
  BY DEF ControlInv
<1>4. MediaInv'
  BY DEF MediaInv, Stage, Settled, Off, CallInv, Stopping, Starting
<1>5. RateInv'
  BY DEF RateInv, MediaInv, Stage, Settled, Off, CallInv, Starting
<1>6. DrainedInv'
  BY DEF DrainedInv, Alive, MediaInv, Stage, Settled, Off, CallInv
<1> QED
  BY <1>1, <1>2, <1>3, <1>4, <1>5, <1>6

LEMMA NothingToDoInv ==
    ASSUME IInv, NEW m \in Media, NothingToDo(m)
    PROVE  IInv'
<1> USE PushAssumption DEF PushAssumption, IInv, TypeOK, Actors, None, NothingToDo,
        LoopGoes, sendVars, pusherVars, sessionVars, callVars
<1>1. TypeOK'
  BY DEF CallInv, Starting, Stopping
<1>2. CallInv'
  BY DEF CallInv, Starting, Stopping
<1>3. ControlInv'
  BY DEF ControlInv
<1>4. MediaInv'
  BY LoopStep
<1>5. RateInv'
  BY DEF RateInv
<1>6. DrainedInv'
  BY DEF DrainedInv, Alive
<1> QED
  BY <1>1, <1>2, <1>3, <1>4, <1>5, <1>6

LEMMA FallAsleepInv ==
    ASSUME IInv, NEW m \in Media, FallAsleep(m)
    PROVE  IInv'
<1> USE PushAssumption DEF PushAssumption, IInv, TypeOK, Actors, None, FallAsleep,
        LoopGoes, sendVars, pusherVars, sessionVars, callVars
<1>1. TypeOK'
  BY DEF CallInv, Starting, Stopping
<1>2. CallInv'
  BY DEF CallInv, Starting, Stopping
<1>3. ControlInv'
  BY DEF ControlInv
<1>4. MediaInv'
  BY LoopStep
<1>5. RateInv'
  BY DEF RateInv
<1>6. DrainedInv'
  BY DEF DrainedInv, Alive
<1> QED
  BY <1>1, <1>2, <1>3, <1>4, <1>5, <1>6

LEMMA WakeForNothingInv ==
    ASSUME IInv, NEW m \in Media, WakeForNothing(m)
    PROVE  IInv'
<1> USE PushAssumption DEF PushAssumption, IInv, TypeOK, Actors, None, WakeForNothing,
        LoopGoes, sendVars, pusherVars, sessionVars, callVars
<1>1. TypeOK'
  BY DEF CallInv, Starting, Stopping
<1>2. CallInv'
  BY DEF CallInv, Starting, Stopping
<1>3. ControlInv'
  BY DEF ControlInv
<1>4. MediaInv'
  BY LoopStep
<1>5. RateInv'
  BY DEF RateInv
<1>6. DrainedInv'
  BY DEF DrainedInv, Alive
<1> QED
  BY <1>1, <1>2, <1>3, <1>4, <1>5, <1>6

LEMMA TakeFrameInv ==
    ASSUME IInv, NEW m \in Media, TakeFrame(m)
    PROVE  IInv'
<1> USE PushAssumption DEF PushAssumption, IInv, TypeOK, Actors, None, TakeFrame,
        LoopGoes, sendVars, pusherVars, sessionVars, callVars
<1>1. TypeOK'
  BY DEF CallInv, Starting, Stopping
<1>2. CallInv'
  BY DEF CallInv, Starting, Stopping
<1>3. ControlInv'
  BY DEF ControlInv
<1>4. MediaInv'
  BY LoopStep
<1>5. RateInv'
  BY DEF RateInv
<1>6. DrainedInv'
  BY DEF DrainedInv, Alive
<1> QED
  BY <1>1, <1>2, <1>3, <1>4, <1>5, <1>6

LEMMA LeaveLoopInv ==
    ASSUME IInv, NEW m \in Media, LeaveLoop(m)
    PROVE  IInv'
<1> USE PushAssumption DEF PushAssumption, IInv, TypeOK, Actors, None, LeaveLoop,
        LoopGoes, sendVars, pusherVars, sessionVars, callVars
<1>1. TypeOK'
  BY DEF CallInv, Starting, Stopping
<1>2. CallInv'
  BY DEF CallInv, Starting, Stopping
<1>3. ControlInv'
  BY DEF ControlInv
<1>4. MediaInv'
  BY DEF MediaInv, Stage, Settled, Off, CallInv, Stopping, Starting
<1>5. RateInv'
  BY DEF RateInv
<1>6. DrainedInv'
  BY DEF DrainedInv, Alive
<1> QED
  BY <1>1, <1>2, <1>3, <1>4, <1>5, <1>6

LEMMA SendFrameInv ==
    ASSUME IInv, NEW m \in Media, SendFrame(m)
    PROVE  IInv'
<1> USE PushAssumption DEF PushAssumption, IInv, TypeOK, Actors, None, SendFrame,
        LoopGoes, RelativeTo, pusherVars, callVars
<1>1. TypeOK'
  BY DEF CallInv, Starting, Stopping
<1>2. CallInv'
  BY DEF CallInv, Starting, Stopping
<1>3. ControlInv'
  BY DEF ControlInv
<1>4. MediaInv'
  BY LoopStep
<1>5. RateInv'
  BY DEF RateInv
<1>6. DrainedInv'
  BY DEF DrainedInv, Alive
<1> QED
  BY <1>1, <1>2, <1>3, <1>4, <1>5, <1>6

LEMMA NotYetTimeInv ==
    ASSUME IInv, "video" \in Media, NotYetTime
    PROVE  IInv'
<1> USE PushAssumption DEF PushAssumption, IInv, TypeOK, Actors, None, NotYetTime,
        LoopGoes, sendVars, pusherVars, sessionVars, callVars
<1>1. TypeOK'
  BY DEF CallInv, Starting, Stopping
<1>2. CallInv'
  BY DEF CallInv, Starting, Stopping
<1>3. ControlInv'
  BY DEF ControlInv
<1>4. MediaInv'
  BY LoopStep
<1>5. RateInv'
  BY DEF RateInv
<1>6. DrainedInv'
  BY DEF DrainedInv, Alive
<1> QED
  BY <1>1, <1>2, <1>3, <1>4, <1>5, <1>6

LEMMA EncodeVideoInv ==
    ASSUME IInv, "video" \in Media, EncodeVideo
    PROVE  IInv'
<1> USE PushAssumption DEF PushAssumption, IInv, TypeOK, Actors, None, EncodeVideo,
        LoopGoes, sendVars, pusherVars, sessionVars, callVars
<1>1. TypeOK'
  <2>1. in_hand' = in_hand \/ in_hand' = [in_hand EXCEPT !["video"] = 0]
    OBVIOUS
  <2>2. loop' = [loop EXCEPT !["video"] = "send"] \/ loop' = [loop EXCEPT !["video"] = "test"]
    OBVIOUS
  <2>3. UNCHANGED <<m_publishing, m_queue, sendVars, m_worker, pusherVars, sessionVars, callVars>>
    OBVIOUS
  <2>4. in_hand' \in [Media -> Nat]
    <3>1. CASE in_hand' = in_hand
      BY <3>1
    <3>2. CASE in_hand' = [in_hand EXCEPT !["video"] = 0]
      BY <3>2
    <3> QED
      BY <2>1, <3>1, <3>2
  <2>5. loop' \in [Media -> {"none", "test", "drowsy", "waiting", "evaluate", "encode",
                             "send", "flush", "ended"}]
    <3> HIDE DEF EncodeVideo
    <3> QED
      BY <2>2
  <2> QED
    BY <2>3, <2>4, <2>5
<1>2. CallInv'
  BY DEF CallInv, Starting, Stopping
<1>3. ControlInv'
  BY DEF ControlInv
<1>4. MediaInv'
  BY LoopStep
<1>5. RateInv'
  BY DEF RateInv
<1>6. DrainedInv'
  BY SMTT(30) DEF DrainedInv, Alive
<1> QED
  BY <1>1, <1>2, <1>3, <1>4, <1>5, <1>6

LEMMA EvaluateVideoBitrateInv ==
    ASSUME IInv, "video" \in Media, NEW time \in SampleTimes, NEW refused \in BOOLEAN,
           EvaluateVideoBitrate(time, refused)
    PROVE  IInv'
<1> USE PushAssumption DEF PushAssumption, IInv, TypeOK, Actors, None,
        EvaluateVideoBitrate, LoopGoes, pusherVars, sessionVars, callVars
<1>1. TypeOK'
  BY EvaluationKeeps
<1>2. CallInv'
  BY DEF CallInv, Starting, Stopping
<1>3. ControlInv'
  BY EvaluationKeeps
<1>4. MediaInv'
  BY EvaluationKeeps, LoopStep
<1>5. RateInv'
  BY EvaluationKeeps DEF RateInv, Starting
<1>6. DrainedInv'
  BY DEF DrainedInv, Alive, MediaInv, Stage, Settled, Off, CallInv
<1> QED
  BY <1>1, <1>2, <1>3, <1>4, <1>5, <1>6

LEMMA EncodeAudioInv ==
    ASSUME IInv, "audio" \in Media, EncodeAudio
    PROVE  IInv'
<1> USE PushAssumption DEF PushAssumption, IInv, TypeOK, Actors, None, EncodeAudio,
        LoopGoes, pusherVars, sessionVars, callVars
<1>1. TypeOK'
  <2>1. in_hand' \in [Media -> Nat] /\ m_pcm' \in Nat
    <3>1. \E n \in Nat : in_hand' = [in_hand EXCEPT !["audio"] = n]
      OBVIOUS
    <3>2. m_pcm' \in Nat
      OBVIOUS
    <3> QED
      BY <3>1, <3>2
  <2>2. \E s \in {"send", "test"} : loop' = [loop EXCEPT !["audio"] = s]
    OBVIOUS
  <2>3. UNCHANGED <<m_publishing, m_queue, m_encoder, m_drop_count, m_send_failures,
                    control, m_worker, pusherVars, sessionVars, callVars>>
    OBVIOUS
  <2> QED
    BY <2>1, <2>2, <2>3
<1>2. CallInv'
  BY DEF CallInv, Starting, Stopping
<1>3. ControlInv'
  BY DEF ControlInv
<1>4. MediaInv'
  BY LoopStep
<1>5. RateInv'
  BY DEF RateInv
<1>6. DrainedInv'
  BY DEF DrainedInv, Alive
<1> QED
  BY <1>1, <1>2, <1>3, <1>4, <1>5, <1>6

LEMMA FlushInv ==
    ASSUME IInv, "audio" \in Media, Flush
    PROVE  IInv'
<1> USE PushAssumption DEF PushAssumption, IInv, TypeOK, Actors, None, Flush,
        LoopGoes, RelativeTo, pusherVars, callVars
<1>1. TypeOK'
  BY DEF CallInv, Starting, Stopping
<1>2. CallInv'
  BY DEF CallInv, Starting, Stopping
<1>3. ControlInv'
  BY DEF ControlInv
<1>4. MediaInv'
  BY SMTT(30) DEF MediaInv, Stage, Settled, Off, CallInv, Stopping, Starting
<1>5. RateInv'
  BY DEF RateInv
<1>6. DrainedInv'
  BY DEF DrainedInv, Alive
<1> QED
  BY <1>1, <1>2, <1>3, <1>4, <1>5, <1>6

LEMMA StartPublishInv ==
    ASSUME IInv, NEW m \in Media, StartPublish(m)
    PROVE  IInv'
<1> USE PushAssumption DEF PushAssumption, IInv, TypeOK, Actors, None, StartPublish,
        Goes, Begin, NewCall, InitializeEncoder, workerVars, pusherVars, sessionVars
<1>1. TypeOK'
  <2>1. control' \in Controllers
    BY InitializeInRange
  <2> QED
    BY <2>1 DEF Starting
<1>2. CallInv'
  BY DEF CallInv, Starting, Stopping
<1>3. ControlInv'
  <2>1. MinBitrate \in Nat /\ TargetBitrate \in Nat /\ MinBitrate <= TargetBitrate
    OBVIOUS
  <2>2. CASE m = "video"
    <3>1. control' = ControllerInitialize(MinBitrate, TargetBitrate, TargetBitrate)
      BY <2>2
    <3>2. control'.m_initialized =>
             /\ control'.min = MinBitrate /\ control'.max = TargetBitrate
             /\ control'.initial = TargetBitrate /\ control'.m_current_bitrate = TargetBitrate
      <4> HIDE DEF StartPublish, IInv
      <4> QED
        BY <2>1, <3>1, InitializeInRange
    <3> QED
      BY <2>1, <3>2 DEF ControlInv
  <2>3. CASE m # "video"
    BY <2>3 DEF ControlInv
  <2> QED
    BY <2>2, <2>3
<1>4. MediaInv'
  BY DEF MediaInv, Stage, Settled, Off, CallInv, Stopping, Starting
<1>5. RateInv'
  <2>1. MinBitrate \in Nat \ {0} /\ TargetBitrate \in Nat /\ MinBitrate <= TargetBitrate
    OBVIOUS
  <2>2. CASE m = "video"
    <3>1. control' = ControllerInitialize(MinBitrate, TargetBitrate, TargetBitrate)
          /\ m_encoder'["video"] = TargetBitrate
      BY <2>2
    <3>2. control'.m_current_bitrate = TargetBitrate
      <4> HIDE DEF StartPublish, IInv
      <4> QED
        BY <2>1, <3>1, InitializeInRange
    <3> QED
      BY <3>1, <3>2 DEF RateInv
  <2>3. CASE m # "video"
    BY <2>3 DEF RateInv, Starting
  <2> QED
    BY <2>2, <2>3
<1>6. DrainedInv'
  BY DEF DrainedInv, Alive, MediaInv, Stage, Settled, Off, CallInv
<1> QED
  BY <1>1, <1>2, <1>3, <1>4, <1>5, <1>6

LEMMA SetupPublishTracksInv ==
    ASSUME IInv, SetupPublishTracks
    PROVE  IInv'
<1> USE PushAssumption DEF PushAssumption, IInv, TypeOK, Actors, None,
        SetupPublishTracks, Goes, StartReturns, Starts, DropEncoder, workerVars,
        pusherVars
<1>1. TypeOK'
  <2>1. medium["caller"] \in Media
    BY DEF CallInv
  <2>2. /\ at' \in [Actors -> {"idle"} \cup Starting \cup Stopping]
        /\ medium' \in [Actors -> Media \cup {None}]
    BY DEF Starting
  <2>3. m_encoder' \in [Media -> Nat] /\ m_pcm' \in Nat
    BY <2>1
  <2>4. whip' \in Nat /\ m_tracks_initialized' \in BOOLEAN
    <3>1. whip' \in Nat
      OBVIOUS
    <3>2. m_tracks_initialized' \in BOOLEAN
      OBVIOUS
    <3> QED
      BY <3>1, <3>2
  <2> QED
    BY <2>2, <2>3, <2>4
<1>2. CallInv'
  BY DEF CallInv, Starting, Stopping
<1>3. ControlInv'
  BY DEF ControlInv
<1>4. MediaInv'
  BY DEF MediaInv, Stage, Settled, Off, CallInv, Stopping, Starting
<1>5. RateInv'
  BY DEF RateInv, MediaInv, Stage, Settled, Off, CallInv, Starting
<1>6. DrainedInv'
  BY DEF DrainedInv, Alive, MediaInv, Stage, Settled, Off, CallInv
<1> QED
  BY <1>1, <1>2, <1>3, <1>4, <1>5, <1>6

LEMMA ClearQueueInv ==
    ASSUME IInv, ClearQueue
    PROVE  IInv'
<1> USE PushAssumption DEF PushAssumption, IInv, TypeOK, Actors, None, ClearQueue,
        QueueFree, Goes, Starts, ResetFeedback, workerVars, pusherVars, sessionVars
<1>1. TypeOK'
  BY DEF CallInv, Starting, Stopping
<1>2. CallInv'
  BY DEF CallInv, Starting, Stopping
<1>3. ControlInv'
  BY DEF ControlInv
<1>4. MediaInv'
  BY DEF MediaInv, Stage, Settled, Off, CallInv, Stopping, Starting
<1>5. RateInv'
  BY DEF RateInv, MediaInv, Stage, Settled, Off, CallInv, Starting
<1>6. DrainedInv'
  BY DEF DrainedInv, Alive, MediaInv, Stage, Settled, Off, CallInv
<1> QED
  BY <1>1, <1>2, <1>3, <1>4, <1>5, <1>6

LEMMA SetPublishingInv ==
    ASSUME IInv, SetPublishing
    PROVE  IInv'
<1> USE PushAssumption DEF PushAssumption, IInv, TypeOK, Actors, None, SetPublishing,
        Goes, Starts, sendVars, workerVars, pusherVars, sessionVars
<1>1. TypeOK'
  BY DEF CallInv, Starting, Stopping
<1>2. CallInv'
  BY DEF CallInv, Starting, Stopping
<1>3. ControlInv'
  BY DEF ControlInv
<1>4. MediaInv'
  BY DEF MediaInv, Stage, Settled, Off, CallInv, Stopping, Starting
<1>5. RateInv'
  BY DEF RateInv, MediaInv, Stage, Settled, Off, CallInv, Starting
<1>6. DrainedInv'
  BY DEF DrainedInv, Alive, MediaInv, Stage, Settled, Off, CallInv
<1> QED
  BY <1>1, <1>2, <1>3, <1>4, <1>5, <1>6

LEMMA StartWorkerInv ==
    ASSUME IInv, StartWorker
    PROVE  IInv'
<1> USE PushAssumption DEF PushAssumption, IInv, TypeOK, Actors, None, StartWorker,
        StartReturns, Starts, Goes, sendVars, pusherVars, sessionVars
<1>1. TypeOK'
  BY DEF CallInv, Starting, Stopping
<1>2. CallInv'
  BY DEF CallInv, Starting, Stopping
<1>3. ControlInv'
  BY DEF ControlInv
<1>4. MediaInv'
  <2> DEFINE m == medium["caller"]
  <2>1. m \in Media /\ at["caller"] = "thread"
    BY DEF CallInv
  <2>2. CASE overlapped
    BY <2>2 DEF MediaInv
  <2>3. CASE ~overlapped
    <3>1. /\ at["signaling"] = "idle" /\ medium["signaling"] \notin Media
          /\ ~closing["signaling"] /\ ~closing["caller"] /\ ~crashed
      BY <2>1, <2>3 DEF MediaInv, CallInv, Stopping
    <3>2. \A n \in Media : (\A b \in Actors : medium[b] # n /\ Settled(n))
                           \/ (\E b \in Actors : medium[b] = n /\ Stage(n, at[b]))
      BY <2>3 DEF MediaInv
    <3>3. Stage(m, "thread") /\ \A n \in Media \ {m} : Settled(n)
      <4> HIDE DEF StartWorker, IInv
      <4>1. PICK b \in Actors : medium[b] = m /\ Stage(m, at[b])
        BY <2>1, <3>2
      <4>2. b = "caller"
        BY <2>1, <3>1, <4>1
      <4>3. Stage(m, "thread")
        BY <2>1, <4>1, <4>2
      <4>4. \A n \in Media \ {m} : Settled(n)
        BY <3>1, <3>2
      <4> QED
        BY <4>3, <4>4
    <3>4. /\ m_worker' = [m_worker EXCEPT ![m] = TRUE] /\ loop' = [loop EXCEPT ![m] = "test"]
          /\ UNCHANGED <<crashed, m_publishing, m_encoder>>
      BY <3>3 DEF Stage
    <3>5. \A n \in Media : Settled(n)'
      BY <2>1, <3>3, <3>4 DEF Stage, Settled, Off
    <3>6. /\ \A b \in Actors : at'[b] = "idle" /\ medium'[b] \notin Media /\ ~closing'[b]
          /\ ~crashed'
      BY <3>1, <3>4
    <3> QED
      BY <3>5, <3>6 DEF MediaInv
  <2> QED
    BY <2>2, <2>3
<1>5. RateInv'
  <2>1. m_encoder' = m_encoder /\ control' = control /\ overlapped' = overlapped
        /\ at["caller"] = "thread" /\ at'["caller"] = "idle"
    OBVIOUS
  <2>2. loop' = loop \/ loop' = [loop EXCEPT ![medium["caller"]] = "test"]
    OBVIOUS
  <2>3. "video" \in Media => loop'["video"] = loop["video"] \/ medium["caller"] = "video"
    BY <2>2
  <2> QED
    BY <2>1, <2>3 DEF RateInv, Starting
<1>6. DrainedInv'
  BY DEF DrainedInv, Alive, MediaInv, Stage, Settled, Off, CallInv
<1> QED
  BY <1>1, <1>2, <1>3, <1>4, <1>5, <1>6

LEMMA StartWorkerFailsInv ==
    ASSUME IInv, StartWorkerFails
    PROVE  IInv'
<1> USE PushAssumption DEF PushAssumption, IInv, TypeOK, Actors, None,
        StartWorkerFails, StartReturns, Starts, DropEncoder, Goes, workerVars,
        pusherVars, sessionVars
<1>1. TypeOK'
  BY DEF CallInv, Starting, Stopping
<1>2. CallInv'
  BY DEF CallInv, Starting, Stopping
<1>3. ControlInv'
  BY DEF ControlInv
<1>4. MediaInv'
  BY DEF MediaInv, Stage, Settled, Off, CallInv, Stopping, Starting
<1>5. RateInv'
  BY DEF RateInv, MediaInv, Stage, Settled, Off, CallInv, Starting
<1>6. DrainedInv'
  BY DEF DrainedInv, Alive, MediaInv, Stage, Settled, Off, CallInv
<1> QED
  BY <1>1, <1>2, <1>3, <1>4, <1>5, <1>6

LEMMA StopPublishInv ==
    ASSUME IInv, NEW m \in Media, StopPublish(m)
    PROVE  IInv'
<1> USE PushAssumption DEF PushAssumption, IInv, TypeOK, Actors, None, StopPublish,
        Goes, Begin, NewCall, sendVars, workerVars, pusherVars, sessionVars
<1>1. TypeOK'
  BY DEF CallInv, Starting, Stopping
<1>2. CallInv'
  BY DEF CallInv, Starting, Stopping
<1>3. ControlInv'
  BY DEF ControlInv
<1>4. MediaInv'
  BY DEF MediaInv, Stage, Settled, Off, CallInv, Stopping, Starting
<1>5. RateInv'
  <2>1. at'["caller"] = "exchange" /\ (~overlapped' => ~overlapped)
    OBVIOUS
  <2>2. UNCHANGED <<m_encoder, control, loop>>
    OBVIOUS
  <2> SUFFICES ASSUME "video" \in Media, ~overlapped',
                      loop'["video"] # "none"
                      \/ (at'["caller"] \in Starting /\ medium'["caller"] = "video")
               PROVE  m_encoder'["video"] = control'.m_current_bitrate
    BY DEF RateInv
  <2>3. ~overlapped /\ loop["video"] # "none"
    BY <2>1, <2>2 DEF Starting
  <2> QED
    BY <2>2, <2>3 DEF RateInv
<1>6. DrainedInv'
  BY DEF DrainedInv, Alive, MediaInv, Stage, Settled, Off, CallInv
<1> QED
  BY <1>1, <1>2, <1>3, <1>4, <1>5, <1>6

LEMMA CloseInv ==
    ASSUME IInv, Close
    PROVE  IInv'
<1> USE PushAssumption DEF PushAssumption, IInv, TypeOK, Actors, None, Close, Begin,
        NewCall, CloseBegins, Goes, FirstMedium, sendVars, workerVars, pusherVars,
        sessionVars
<1>1. TypeOK'
  BY FirstMediumIn DEF Stopping
<1>2. CallInv'
  BY FirstMediumIn DEF CallInv, Stopping
<1>3. ControlInv'
  BY DEF ControlInv
<1>4. MediaInv'
  BY DEF MediaInv, Stage, Settled, Off, CallInv, Stopping, Starting
<1>5. RateInv'
  <2>1. at'["caller"] = "exchange" /\ (~overlapped' => ~overlapped)
    OBVIOUS
  <2>2. UNCHANGED <<m_encoder, control, loop>>
    OBVIOUS
  <2> SUFFICES ASSUME "video" \in Media, ~overlapped',
                      loop'["video"] # "none"
                      \/ (at'["caller"] \in Starting /\ medium'["caller"] = "video")
               PROVE  m_encoder'["video"] = control'.m_current_bitrate
    BY DEF RateInv
  <2>3. ~overlapped /\ loop["video"] # "none"
    BY <2>1, <2>2 DEF Starting
  <2> QED
    BY <2>2, <2>3 DEF RateInv
<1>6. DrainedInv'
  BY DEF DrainedInv, Alive, MediaInv, Stage, Settled, Off, CallInv
<1> QED
  BY <1>1, <1>2, <1>3, <1>4, <1>5, <1>6

LEMMA WhipFailsInv ==
    ASSUME IInv, WhipFails
    PROVE  IInv'
<1> USE PushAssumption DEF PushAssumption, IInv, TypeOK, Actors, None, WhipFails,
        Begin, CloseBegins, Goes, FirstMedium, sendVars, workerVars, pusherVars,
        sessionVars
<1>1. TypeOK'
  BY FirstMediumIn DEF Stopping
<1>2. CallInv'
  BY FirstMediumIn DEF CallInv, Stopping
<1>3. ControlInv'
  BY DEF ControlInv
<1>4. MediaInv'
  <2>1. CASE overlapped'
    BY <2>1 DEF MediaInv
  <2>2. CASE ~overlapped'
    <3>1. ~overlapped /\ at["caller"] = "idle" /\ at["signaling"] = "idle"
      BY <2>2
    <3>2. \A m \in Media : Settled(m)
      BY <3>1 DEF MediaInv, CallInv, Stage
    <3>3. /\ at' = [at EXCEPT !["signaling"] = "exchange"]
          /\ medium' = [medium EXCEPT !["signaling"] = FirstMedium]
          /\ closing' = [closing EXCEPT !["signaling"] = TRUE]
          /\ UNCHANGED <<m_publishing, m_worker, loop, m_encoder, crashed>>
      OBVIOUS
    <3>4. \A m \in Media : Settled(m)'
      BY <3>2, <3>3 DEF Settled, Off
    <3>5. ~crashed' /\ at'["caller"] = "idle" /\ medium'["caller"] \notin Media
          /\ at'["signaling"] = "exchange" /\ ~closing'["caller"]
      BY <3>1, <3>3 DEF MediaInv, CallInv, Stopping
    <3>6. \A m \in Media : Stage(m, "exchange")'
      BY <3>4 DEF Stage
    <3>7. FirstMedium \in Media /\ medium'["signaling"] = FirstMedium
          /\ (FirstMedium = "audio" => Media \ {FirstMedium} = {})
      BY <3>3, FirstMediumIn
    <3> QED
      BY <3>4, <3>5, <3>6, <3>7 DEF MediaInv
  <2> QED
    BY <2>1, <2>2
<1>5. RateInv'
  BY DEF RateInv, MediaInv, Stage, Settled, Off, CallInv, Starting
<1>6. DrainedInv'
  BY DEF DrainedInv, Alive, MediaInv, Stage, Settled, Off, CallInv
<1> QED
  BY <1>1, <1>2, <1>3, <1>4, <1>5, <1>6

LEMMA ClearPublishingInv ==
    ASSUME IInv, NEW a \in Actors, ClearPublishing(a)
    PROVE  IInv'
<1> USE PushAssumption DEF PushAssumption, IInv, TypeOK, Actors, None,
        ClearPublishing, Goes, sendVars, workerVars, pusherVars, sessionVars
<1>1. TypeOK'
  BY DEF CallInv, Starting, Stopping
<1>2. CallInv'
  BY DEF CallInv, Starting, Stopping
<1>3. ControlInv'
  BY DEF ControlInv
<1>4. MediaInv'
  BY DEF MediaInv, Stage, Settled, Off, CallInv, Stopping, Starting
<1>5. RateInv'
  BY DEF RateInv, MediaInv, Stage, Settled, Off, CallInv, Starting
<1>6. DrainedInv'
  BY DEF DrainedInv, Alive, MediaInv, Stage, Settled, Off, CallInv
<1> QED
  BY <1>1, <1>2, <1>3, <1>4, <1>5, <1>6

LEMMA NotifyWorkerInv ==
    ASSUME IInv, NEW a \in Actors, NotifyWorker(a)
    PROVE  IInv'
<1> USE PushAssumption DEF PushAssumption, IInv, TypeOK, Actors, None, NotifyWorker,
        Woken, Goes, sendVars, pusherVars, sessionVars
<1>1. TypeOK'
  BY DEF CallInv, Starting, Stopping
<1>2. CallInv'
  BY DEF CallInv, Starting, Stopping
<1>3. ControlInv'
  BY DEF ControlInv
<1>4. MediaInv'
  BY DEF MediaInv, Stage, Settled, Off, CallInv, Stopping, Starting
<1>5. RateInv'
  BY DEF RateInv, MediaInv, Stage, Settled, Off, CallInv, Starting
<1>6. DrainedInv'
  BY DEF DrainedInv, Alive, MediaInv, Stage, Settled, Off, CallInv
<1> QED
  BY <1>1, <1>2, <1>3, <1>4, <1>5, <1>6

LEMMA JoinWorkerInv ==
    ASSUME IInv, NEW a \in Actors, JoinWorker(a)
    PROVE  IInv'
<1> USE PushAssumption DEF PushAssumption, IInv, TypeOK, Actors, None, JoinWorker,
        Goes, sendVars, pusherVars, sessionVars
<1>1. TypeOK'
  BY DEF CallInv, Starting, Stopping
<1>2. CallInv'
  BY DEF CallInv, Starting, Stopping
<1>3. ControlInv'
  BY DEF ControlInv
<1>4. MediaInv'
  BY DEF MediaInv, Stage, Settled, Off, CallInv, Stopping, Starting
<1>5. RateInv'
  BY DEF RateInv, MediaInv, Stage, Settled, Off, CallInv, Starting
<1>6. DrainedInv'
  BY DEF DrainedInv, Alive, MediaInv, Stage, Settled, Off, CallInv
<1> QED
  BY <1>1, <1>2, <1>3, <1>4, <1>5, <1>6

LEMMA JoinTwiceInv ==
    ASSUME IInv, NEW a \in Actors, JoinTwice(a)
    PROVE  IInv'
<1> USE PushAssumption DEF PushAssumption, IInv, TypeOK, Actors, None, JoinTwice,
        Goes, sendVars, workerVars, pusherVars, sessionVars
<1>1. TypeOK'
  <2>1. \E s \in {"release", "idle"} : at' = [at EXCEPT ![a] = s]
    OBVIOUS
  <2>2. (medium' = medium \/ medium' = [medium EXCEPT ![a] = None])
        /\ (closing' = closing \/ closing' = [closing EXCEPT ![a] = FALSE])
    OBVIOUS
  <2>3. crashed' \in BOOLEAN
    OBVIOUS
  <2>4. /\ medium' \in [Actors -> Media \cup {None}] /\ closing' \in [Actors -> BOOLEAN]
    <3> HIDE DEF JoinTwice
    <3>1. medium' \in [Actors -> Media \cup {None}]
      BY <2>2
    <3>2. closing' \in [Actors -> BOOLEAN]
      <4>1. CASE closing' = closing
        BY <4>1
      <4>2. CASE closing' = [closing EXCEPT ![a] = FALSE]
        BY <4>2
      <4> QED
        BY <2>2, <4>1, <4>2
    <3> QED
      BY <3>1, <3>2
  <2>5. at' \in [Actors -> {"idle"} \cup Starting \cup Stopping]
    BY <2>1 DEF Stopping
  <2> QED
    BY <2>3, <2>4, <2>5
<1>2. CallInv'
  BY DEF CallInv, Starting, Stopping
<1>3. ControlInv'
  BY DEF ControlInv
<1>4. MediaInv'
  <2>1. CASE overlapped
    BY <2>1 DEF MediaInv
  <2>2. CASE ~overlapped
    <3>1. PICK m \in Media : medium[a] = m
      BY DEF CallInv
    <3>2. Stage(m, "join")
      BY <2>2, <3>1 DEF MediaInv, CallInv
    <3> QED
      BY <3>1, <3>2 DEF Stage
  <2> QED
    BY <2>1, <2>2
<1>5. RateInv'
  BY DEF RateInv, MediaInv, Stage, Settled, Off, CallInv, Starting
<1>6. DrainedInv'
  BY DEF DrainedInv, Alive, MediaInv, Stage, Settled, Off, CallInv
<1> QED
  BY <1>1, <1>2, <1>3, <1>4, <1>5, <1>6

LEMMA ReleaseMediumInv ==
    ASSUME IInv, NEW a \in Actors, ReleaseMedium(a)
    PROVE  IInv'
<1> USE PushAssumption DEF PushAssumption, IInv, TypeOK, Actors, None, ReleaseMedium,
        QueueFree, Goes, DropEncoder, ResetFeedback, workerVars, pusherVars,
        sessionVars
<1>1. TypeOK'
  <2>1. control' \in Controllers
    BY ResetInRange
  <2>2. /\ at' \in [Actors -> {"idle"} \cup Starting \cup Stopping]
        /\ medium' \in [Actors -> Media \cup {None}]
    BY DEF Stopping
  <2> QED
    BY <2>1, <2>2 DEF CallInv
<1>2. CallInv'
  BY DEF CallInv, Starting, Stopping
<1>3. ControlInv'
  BY ResetInRange DEF ControlInv
<1>4. MediaInv'
  <2>0. PICK m \in Media : m = medium[a] /\ at[a] = "release"
    BY DEF CallInv
  <2> DEFINE again == closing[a] /\ m = "video" /\ "audio" \in Media
             to == IF again THEN "exchange" ELSE IF closing[a] THEN "close" ELSE "stopped"
  <2>1. CASE overlapped
    BY <2>1 DEF MediaInv
  <2>2. CASE ~overlapped
    <3>1. at[a] = "release" /\ m \in Media
          /\ \A b \in Actors \ {a} : at[b] = "idle" /\ medium[b] = None /\ ~closing[b]
      BY <2>0, <2>2 DEF CallInv, MediaInv, Stopping
    <3>2. Off(m) /\ \A n \in Media \ {m} : Settled(n)
      <4>1. \A n \in Media : (\A b \in Actors : medium[b] # n /\ Settled(n))
                             \/ (\E b \in Actors : medium[b] = n /\ Stage(n, at[b]))
        BY <2>2 DEF MediaInv
      <4>2. Stage(m, "release")
        <5> HIDE DEF ReleaseMedium, IInv
        <5>1. PICK b \in Actors : medium[b] = m /\ Stage(m, at[b])
          BY <2>0, <4>1
        <5>2. b = a
          BY <3>1, <5>1
        <5> QED
          BY <3>1, <5>1, <5>2
      <4> QED
        <5>1. Off(m)
          BY <4>2 DEF Stage
        <5>2. ASSUME NEW n \in Media \ {m}
              PROVE  Settled(n)
          <6>1. \A b \in Actors : medium[b] # n
            BY <2>0, <3>1
          <6> QED
            BY <4>1, <6>1
        <5> QED
          BY <5>1, <5>2
    <3>3. /\ at' = [at EXCEPT ![a] = to]
          /\ m_encoder' = [m_encoder EXCEPT ![m] = 0]
          /\ medium' = IF again THEN [medium EXCEPT ![a] = "audio"] ELSE medium
          /\ UNCHANGED <<m_publishing, m_worker, loop, closing, overlapped, crashed>>
      BY <2>0
    <3>4. /\ Off(m)' /\ m_encoder'[m] = 0
          /\ \A n \in Media \ {m} : Settled(n)' /\ (Off(n) => Off(n)')
      <4>1. m_encoder'[m] = 0 /\ \A n \in Media \ {m} : m_encoder'[n] = m_encoder[n]
        BY <3>1, <3>3
      <4>2. Off(m)' /\ \A n \in Media : Off(n) => Off(n)'
        BY <3>2, <3>3 DEF Off
      <4>3. \A n \in Media \ {m} : Settled(n)'
        BY <3>2, <3>3, <4>1, <4>2 DEF Settled
      <4> QED
        BY <4>1, <4>2, <4>3
    <3>5. \A b \in Actors \ {a} : at'[b] = "idle" /\ medium'[b] = None /\ ~closing'[b]
      BY <3>1, <3>3
    <3>6. at'[a] = to /\ medium'[a] = (IF again THEN "audio" ELSE m) /\ closing'[a] = closing[a]
          /\ ~crashed' /\ at[a] = "release"
      BY <2>0, <2>2, <3>1, <3>3 DEF MediaInv
    <3>7. CASE again
      <4>1. Settled("video")' /\ Settled("audio")' /\ Off("video")'
        BY <3>4, <3>7 DEF Settled
      <4>2. at'[a] = "exchange" /\ medium'[a] = "audio" /\ "audio" \in Media
        BY <3>6, <3>7
      <4>3. \A n \in Media : Settled(n)' /\ (n # "audio" => Off(n)')
        BY <3>4, <3>7, <4>1
      <4>4. Stage("audio", at[a])'
        BY <4>1, <4>2 DEF Stage
      <4>5. /\ \A b \in Actors : b # a => at'[b] = "idle"
            /\ \A n \in Media \ {"audio"} : \A b \in Actors : medium'[b] # n
        BY <3>5, <4>2
      <4> QED
        BY SMTT(20), <3>5, <3>6, <4>2, <4>3, <4>4, <4>5 DEF MediaInv
    <3>8. CASE ~again
      <4>1. Stage(m, to)' /\ to # "idle"
        BY <3>4, <3>8 DEF Stage
      <4>2. closing[a] => \A n \in Media \ {m} : Off(n)
        <5>1. closing[a] /\ m = "audio" => \A n \in Media \ {m} : Off(n)
          BY ZenonT(20), <2>0, <2>2 DEF MediaInv
        <5>2. closing[a] /\ m # "audio" => Media \subseteq {m}
          BY <3>1, <3>8
        <5> QED
          BY <5>1, <5>2
      <4>3. closing'[a] => \A n \in Media \ {m} : Off(n)'
        BY <3>4, <3>6, <4>2
      <4> QED
        BY <3>1, <3>4, <3>5, <3>6, <3>8, <4>1, <4>3 DEF MediaInv
    <3> QED
      BY <3>7, <3>8
  <2> QED
    BY <2>1, <2>2
<1>5. RateInv'
  BY DEF RateInv, MediaInv, Stage, Settled, Off, CallInv, Starting
<1>6. DrainedInv'
  BY DEF DrainedInv, Alive, MediaInv, Stage, Settled, Off, CallInv
<1> QED
  BY <1>1, <1>2, <1>3, <1>4, <1>5, <1>6

LEMMA CloseTracksInv ==
    ASSUME IInv, NEW a \in Actors, CloseTracks(a)
    PROVE  IInv'
<1> USE PushAssumption DEF PushAssumption, IInv, TypeOK, Actors, None, CloseTracks,
        Goes, sendVars, workerVars, pusherVars
<1>1. TypeOK'
  BY DEF CallInv, Starting, Stopping
<1>2. CallInv'
  BY DEF CallInv, Starting, Stopping
<1>3. ControlInv'
  BY DEF ControlInv
<1>4. MediaInv'
  BY DEF MediaInv, Stage, Settled, Off, CallInv, Stopping, Starting
<1>5. RateInv'
  BY DEF RateInv, MediaInv, Stage, Settled, Off, CallInv, Starting
<1>6. DrainedInv'
  BY DEF DrainedInv, Alive, MediaInv, Stage, Settled, Off, CallInv
<1> QED
  BY <1>1, <1>2, <1>3, <1>4, <1>5, <1>6

LEMMA StopReturnsInv ==
    ASSUME IInv, StopReturns
    PROVE  IInv'
<1> USE PushAssumption DEF PushAssumption, IInv, TypeOK, Actors, None, StopReturns,
        Goes, sendVars, workerVars, pusherVars, sessionVars
<1>1. TypeOK'
  BY DEF CallInv, Starting, Stopping
<1>2. CallInv'
  BY DEF CallInv, Starting, Stopping
<1>3. ControlInv'
  BY DEF ControlInv
<1>4. MediaInv'
  BY DEF MediaInv, Stage, Settled, Off, CallInv, Stopping, Starting
<1>5. RateInv'
  BY DEF RateInv, MediaInv, Stage, Settled, Off, CallInv, Starting
<1>6. DrainedInv'
  BY DEF DrainedInv, Alive, MediaInv, Stage, Settled, Off, CallInv
<1> QED
  BY <1>1, <1>2, <1>3, <1>4, <1>5, <1>6

LEMMA CloseAfterStopInv ==
    ASSUME IInv, CloseAfterStop
    PROVE  IInv'
<1> USE PushAssumption DEF PushAssumption, IInv, TypeOK, Actors, None, CloseAfterStop,
        CloseBegins, Goes, FirstMedium, sendVars, workerVars, pusherVars, sessionVars
<1>1. TypeOK'
  BY DEF CallInv, Starting, Stopping
<1>2. CallInv'
  BY DEF CallInv, Starting, Stopping
<1>3. ControlInv'
  BY DEF ControlInv
<1>4. MediaInv'
  BY DEF MediaInv, Stage, Settled, Off, CallInv, Stopping, Starting
<1>5. RateInv'
  BY DEF RateInv, MediaInv, Stage, Settled, Off, CallInv, Starting
<1>6. DrainedInv'
  BY DEF DrainedInv, Alive, MediaInv, Stage, Settled, Off, CallInv
<1> QED
  BY <1>1, <1>2, <1>3, <1>4, <1>5, <1>6

LEMMA Initially ==
    Init => IInv
<1> SUFFICES ASSUME Init
             PROVE  IInv
  OBVIOUS
<1> USE PushAssumption DEF PushAssumption, Init, Actors, None
<1>1. TypeOK
  <2>1. control \in Controllers
    BY DEF Controllers, Uninitialized
  <2>2. m_queue \in [Media -> Seq(Nat)]
    OBVIOUS
  <2> QED
    BY <2>1, <2>2 DEF TypeOK
<1>2. CallInv
  BY DEF CallInv
<1>3. ControlInv
  BY DEF ControlInv, Uninitialized
<1>4. MediaInv
  BY DEF MediaInv, Settled, Off
<1>5. RateInv
  BY DEF RateInv, Starting
<1>6. DrainedInv
  BY DEF DrainedInv
<1> QED
  BY <1>1, <1>2, <1>3, <1>4, <1>5, <1>6 DEF IInv

LEMMA CallersInvariant ==
    ASSUME IInv, Calls \/ CallerContinues \/ WhipFails \/ Continue("signaling")
    PROVE  IInv'
<1>1. CASE Calls
  BY <1>1, CloseInv, StartPublishInv, StopPublishInv DEF Calls
<1>2. ASSUME NEW a \in Actors, Continue(a)
      PROVE  IInv'
  BY <1>2, ClearPublishingInv, NotifyWorkerInv, JoinWorkerInv, JoinTwiceInv,
     ReleaseMediumInv,
     CloseTracksInv DEF Continue
<1>3. CASE CallerContinues
  BY <1>2, <1>3, SetupPublishTracksInv, ClearQueueInv, SetPublishingInv, StartWorkerInv,
     StartWorkerFailsInv, StopReturnsInv, CloseAfterStopInv DEF CallerContinues, Actors
<1>4. CASE WhipFails
  BY <1>4, WhipFailsInv
<1>5. CASE Continue("signaling")
  BY <1>2, <1>5 DEF Actors
<1> QED
  BY <1>1, <1>3, <1>4, <1>5

LEMMA WorkersInvariant ==
    ASSUME IInv, NEW m \in Media, Capture(m) \/ Loop(m) \/ WakeForNothing(m)
    PROVE  IInv'
<1>1. CASE Capture(m)
  BY <1>1, PushFrameInv, PushQueueInv DEF Capture
<1>2. CASE Loop(m)
  BY <1>2, NothingToDoInv, FallAsleepInv, TakeFrameInv, LeaveLoopInv, SendFrameInv,
     NotYetTimeInv, EncodeVideoInv, EvaluateVideoBitrateInv, EncodeAudioInv, FlushInv DEF Loop
<1> QED
  BY <1>1, <1>2, WakeForNothingInv

LEMMA Stutters ==
    ASSUME IInv, UNCHANGED vars
    PROVE  IInv'
BY DEF IInv, TypeOK, CallInv, ControlInv, MediaInv, RateInv, DrainedInv, Stage,
   Settled, Off,
       Alive, vars, sendVars, workerVars, pusherVars, sessionVars, callVars

-----------------------------------------------------------------------------
(* The theorems.                                                             *)

LEMMA InductiveInvariant ==
    Spec => []IInv
<1>1. ASSUME IInv, [Next]_vars
      PROVE  IInv'
  <2>1. CASE Next
    BY <1>1, <2>1, CallersInvariant, WorkersInvariant DEF Next
  <2> QED
    BY <1>1, <2>1, Stutters
<1> QED
  BY Initially, <1>1, PTL DEF Spec

\* In every reachable state, with queues of any size and any number of frames and
\* calls: the variables keep their types; when nobody starts or stops a medium its
\* thread and its encoder are there exactly if it is published, unless a Close met a
\* call; no thread is overwritten or joined twice without that; the encoder works at
\* the controller's bitrate, and the bitrate stays in the range of the resolution.
THEOREM PushCorrect ==
    Spec => []PushInvariant
<1>1. IInv => PushInvariant
  <2> SUFFICES ASSUME IInv
               PROVE  PushInvariant
    OBVIOUS
  <2>1. WorkersMatchMedia
    <3> SUFFICES ASSUME Resting, ~overlapped, NEW m \in Media
                 PROVE  /\ m_publishing[m] => m_worker[m] /\ Alive(m) /\ m_encoder[m] # 0
                        /\ ~m_publishing[m] => /\ ~m_worker[m] /\ loop[m] = "none"
                                               /\ m_encoder[m] = 0
      BY DEF WorkersMatchMedia
    <3>1. \A a \in Actors : medium[a] # m
      BY DEF IInv, CallInv, Resting
    <3>2. Settled(m)
      BY <3>1 DEF IInv, MediaInv, Actors
    <3> QED
      BY <3>2 DEF Settled, Off, Alive
  <2>2. ThreadsJoinedOnce
    BY DEF IInv, MediaInv, ThreadsJoinedOnce
  <2>3. BitrateInStep
    BY DEF IInv, RateInv, BitrateInStep
  <2>4. BitrateInRange
    BY DEF IInv, ControlInv, BitrateInRange
  <2> QED
    BY <2>1, <2>2, <2>3, <2>4 DEF IInv, PushInvariant
<1> QED
  BY <1>1, InductiveInvariant, PTL

\* The medium a thread starts or stops is as its stage says.
LEMMA StageOf ==
    ASSUME IInv, ~overlapped, NEW a \in Actors, at[a] # "idle"
    PROVE  medium[a] \in Media /\ Stage(medium[a], at[a])
<1>1. medium[a] \in Media /\ \A b \in Actors : b # a => medium[b] \notin Media
  <2>1. \A b \in Actors : b # a => at[b] = "idle"
    BY DEF IInv, MediaInv
  <2> QED
    BY <2>1 DEF IInv, CallInv
<1>2. PICK b \in Actors : medium[b] = medium[a] /\ Stage(medium[a], at[b])
  BY <1>1 DEF IInv, MediaInv
<1> QED
  BY <1>1, <1>2

\* A step that takes the audio encoder away finds it empty, unless two calls met.
LEMMA DrainedStep ==
    ASSUME IInv, Next, ~overlapped', "audio" \in Media, m_encoder["audio"] # 0,
           m_encoder'["audio"] = 0
    PROVE  m_pcm = 0
<1>1. SUFFICES ~overlapped => ~Alive("audio")
  <2>1. ~overlapped
    <3>1. overlapped => overlapped'
      BY DEF Next, Calls, CallerContinues, Continue, Capture, Loop, sendVars,
         workerVars,
             pusherVars, sessionVars, callVars, Close, StartPublish, StopPublish, Begin,
             SetupPublishTracks, ClearQueue, SetPublishing, StartWorker, StartWorkerFails,
             StopReturns, CloseAfterStop, WhipFails, ClearPublishing, NotifyWorker, JoinWorker,
             JoinTwice, ReleaseMedium, CloseTracks, PushFrame, PushQueue, NothingToDo,
             FallAsleep, WakeForNothing, TakeFrame, LeaveLoop, SendFrame, NotYetTime,
             EncodeVideo, EvaluateVideoBitrate, EncodeAudio, Flush
    <3> QED
      BY <3>1
  <2> QED
    BY <2>1 DEF IInv, DrainedInv
<1> SUFFICES ASSUME ~overlapped
             PROVE  ~Alive("audio")
  OBVIOUS
<1>2. ASSUME NEW a \in Actors, at[a] \in {"tracks", "thread", "release"},
             medium[a] = "audio"
      PROVE  ~Alive("audio")
  BY <1>2, StageOf DEF Stage, Off, Alive
<1> USE PushAssumption DEF PushAssumption, IInv, TypeOK, Actors
<1>3. CASE Calls
  <2>1. CASE Close
    BY <2>1 DEF Close, sendVars
  <2>2. ASSUME NEW m \in Media, StartPublish(m)
        PROVE  FALSE
    BY <2>2 DEF StartPublish, InitializeEncoder
  <2>3. ASSUME NEW m \in Media, StopPublish(m)
        PROVE  FALSE
    BY <2>3 DEF StopPublish, sendVars
  <2> QED
    BY <1>3, <2>1, <2>2, <2>3 DEF Calls
<1>4. CASE SetupPublishTracks
  BY <1>2, <1>4 DEF SetupPublishTracks, DropEncoder, Starts, StartReturns, Goes
<1>5. CASE StartWorkerFails
  BY <1>2, <1>5 DEF StartWorkerFails, DropEncoder, Starts, StartReturns, Goes
<1>6. CASE ClearQueue \/ SetPublishing \/ StartWorker \/ StopReturns \/ CloseAfterStop
  BY <1>6 DEF ClearQueue, SetPublishing, StartWorker, StopReturns, CloseAfterStop,
     sendVars
<1>7. ASSUME NEW a \in Actors, Continue(a)
      PROVE  ~Alive("audio")
  <2>1. CASE ReleaseMedium(a)
    BY <1>2, <2>1 DEF ReleaseMedium, DropEncoder, Goes
  <2>2. CASE ~ReleaseMedium(a)
    BY <1>7, <2>2 DEF Continue, ClearPublishing, NotifyWorker, JoinWorker, JoinTwice,
                      CloseTracks, sendVars
  <2> QED
    BY <2>1, <2>2
<1>8. CASE WhipFails
  BY <1>8 DEF WhipFails, sendVars
<1>9. ASSUME NEW m \in Media, Capture(m) \/ Loop(m) \/ WakeForNothing(m)
      PROVE  FALSE
  <2>1. CASE \E time \in SampleTimes, refused \in BOOLEAN : EvaluateVideoBitrate(time, refused)
    BY <2>1 DEF EvaluateVideoBitrate
  <2>2. CASE ~\E time \in SampleTimes, refused \in BOOLEAN : EvaluateVideoBitrate(time, refused)
    BY <1>9, <2>2 DEF Capture, Loop, PushFrame, PushQueue, NothingToDo, FallAsleep,
                      WakeForNothing, TakeFrame, LeaveLoop, SendFrame, NotYetTime, EncodeVideo,
                      EncodeAudio, Flush, sendVars
  <2> QED
    BY <2>1, <2>2
<1> QED
  BY <1>3, <1>4, <1>5, <1>6, <1>7, <1>8, <1>9 DEF Next, CallerContinues

\* A step that moves the origin of the time stamps finds no worker, unless two calls met.
LEMMA OriginStep ==
    ASSUME IInv, Next, ~overlapped, m_session_start # 0, m_session_start' # m_session_start,
           NEW m \in Media
    PROVE  ~Alive(m)
<1>1. ASSUME NEW a \in Actors, CloseTracks(a)
      PROVE  ~Alive(m)
  <2>1. at[a] = "close" /\ closing[a]
    BY <1>1 DEF CloseTracks, Goes, IInv, CallInv
  <2>2. Off(medium[a]) /\ \A n \in Media \ {medium[a]} : Off(n)
    BY <2>1, StageOf DEF Stage, IInv, MediaInv
  <2> QED
    BY <2>2 DEF Off, Alive
<1>2. CASE Calls \/ WhipFails
  BY <1>2 DEF Calls, Close, StartPublish, StopPublish, WhipFails, sessionVars
<1>3. ASSUME NEW a \in Actors, Continue(a), ~CloseTracks(a)
      PROVE  FALSE
  BY <1>3 DEF Continue, ClearPublishing, NotifyWorker, JoinWorker, JoinTwice,
     ReleaseMedium,
              sessionVars
<1>4. CASE SetupPublishTracks \/ ClearQueue \/ SetPublishing \/ StartWorker
           \/ StartWorkerFails \/ StopReturns \/ CloseAfterStop
  BY <1>4 DEF SetupPublishTracks, ClearQueue, SetPublishing, StartWorker,
     StartWorkerFails,
              StopReturns, CloseAfterStop, sessionVars
<1>5. ASSUME NEW n \in Media, Capture(n) \/ Loop(n) \/ WakeForNothing(n)
      PROVE  FALSE
  BY <1>5 DEF Capture, Loop, PushFrame, PushQueue, NothingToDo, FallAsleep,
     WakeForNothing,
              TakeFrame, LeaveLoop, SendFrame, RelativeTo, NotYetTime, EncodeVideo,
              EvaluateVideoBitrate, EncodeAudio, Flush, sessionVars
<1> QED
  BY <1>1, <1>2, <1>3, <1>4, <1>5 DEF Next, CallerContinues, Actors

\* No stop takes the audio encoder away with sound in it that could have been sent, and
\* the origin of the time stamps moves only when no worker is left that may send: unless
\* the signaling thread closes the transport during a call.
THEOREM NothingIsTornAway ==
    Spec => NothingTornAway
<1>1. ASSUME IInv, [Next]_vars
      PROVE  /\ [~overlapped' /\ "audio" \in Media /\ m_encoder["audio"] # 0
                   /\ m_encoder'["audio"] = 0 => m_pcm = 0]_vars
             /\ [m_session_start # 0 /\ m_session_start' # m_session_start /\ ~overlapped
                   => \A m \in Media : ~Alive(m)]_vars
  BY <1>1, DrainedStep, OriginStep
<1> QED
  BY <1>1, InductiveInvariant, PTL DEF Spec, NothingTornAway, AudioDrained, OneOrigin

===============================================================================
