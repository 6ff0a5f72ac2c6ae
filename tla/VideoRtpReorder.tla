--------------------------- MODULE VideoRtpReorder ---------------------------
(* VideoRtpReorderBuffer: the packets of a video stream are put back in     *)
(* order and handed on one whole frame at a time.  A sender numbers them    *)
(* modulo Modulus, the network delays, reorders, repeats and loses them.    *)
EXTENDS Integers, FiniteSets, FiniteSetsExt, SequencesExt

CONSTANTS
    Modulus,         \* 2^16
    FirstSequence,   \* the number of the sender's first packet
    End,             \* the last packet of each frame the sender sends
    MaxWait,         \* m_max_wait, in ticks
    MaxFrames,       \* m_max_buffered_frames
    MaxSpan,         \* 4096; the sender's frames are no longer
    LossInterval,    \* m_loss_notify_interval, in ticks
    MaxRepeats,      \* bound: packets the network delivers twice
    MaxResets        \* bound: calls of Reset

ReorderAssumption ==
    /\ Modulus \in Nat \ {0} /\ Modulus % 2 = 0
    /\ FirstSequence \in 0 .. Modulus - 1
    /\ End \in Seq(Nat \ {0})
    /\ \A f, g \in DOMAIN End : f < g => End[f] < End[g]
    /\ MaxSpan \in Nat
    /\ \A f \in DOMAIN End : End[f] - (IF f = 1 THEN 0 ELSE End[f - 1]) <= MaxSpan
    /\ MaxWait \in Nat \ {0} /\ LossInterval \in Nat \ {0}
    /\ MaxFrames \in Nat \ {0, 1}
    /\ MaxRepeats \in Nat /\ MaxResets \in Nat
ASSUME ReorderAssumption

VARIABLES
    m_frames,              \* frames by RTP timestamp
    m_next_sequence,       \* <<>> when there is none
    m_sequence_initialized,
    m_highest_sequence,
    since_notification,    \* ticks since m_last_loss_notification
    sent,                  \* packets the sender has sent
    wire,                  \* packets on their way
    repeats, resets,
    received,              \* packets that came in since the last Reset
    passed,                \* packets handed on since then, in order
    dropped                \* frames given up since then

bufferVars  == <<m_frames, m_next_sequence, m_sequence_initialized, m_highest_sequence,
                 since_notification>>
networkVars == <<sent, wire, repeats>>
historyVars == <<received, passed, dropped>>
vars == <<bufferVars, networkVars, resets, historyVars>>

Frames == DOMAIN End
PacketsOf == [f \in Frames |-> {p \in 1 .. End[f] : \A g \in Frames : g < f => End[g] < p}]
Packets == UNION {PacketsOf[f] : f \in Frames}
FrameOf == [p \in Packets |-> CHOOSE f \in Frames : p \in PacketsOf[f]]
OnWire(p) == (FirstSequence + p - 1) % Modulus

Init ==
    /\ m_frames = <<>>
    /\ m_next_sequence = <<>>
    /\ m_sequence_initialized = FALSE /\ m_highest_sequence = 0
    /\ since_notification = LossInterval
    /\ sent = 0 /\ wire = {} /\ repeats = 0 /\ resets = 0
    /\ received = {} /\ passed = <<>> /\ dropped = {}

-----------------------------------------------------------------------------
(* Sequence numbers.                                                        *)

\* Mutant: a packet from before the wrap is taken for one after it.
Mutant_UnwrapSequence(sequence) ==
    LET candidate == (m_highest_sequence - (m_highest_sequence % Modulus)) + sequence IN
    IF m_sequence_initialized /\ candidate + Modulus \div 2 < m_highest_sequence
    THEN candidate + Modulus ELSE candidate

\* The number nearest to the highest one so far.
UnwrapSequence(sequence) ==
    LET candidate == (m_highest_sequence - (m_highest_sequence % Modulus)) + sequence
        half == Modulus \div 2
    IN  CASE ~m_sequence_initialized -> sequence
          [] m_sequence_initialized /\ candidate + half < m_highest_sequence ->
                candidate + Modulus
          [] m_sequence_initialized /\ candidate - half > m_highest_sequence ->
                candidate - Modulus
          [] OTHER -> candidate

Highest(sequence) ==
    IF m_sequence_initialized /\ sequence < m_highest_sequence
    THEN m_highest_sequence ELSE sequence

-----------------------------------------------------------------------------
(* The loop of ReleaseReadyFrames on [frames, next, output, lost].          *)

FindOldestFrame(frames) ==
    CHOOSE f \in DOMAIN frames : \A g \in DOMAIN frames : frames[f].min <= frames[g].min

LaterFrames(frames, f) ==
    {frames[g].min : g \in {h \in DOMAIN frames : frames[h].min > frames[f].min}}

Without(frames, f) == [g \in DOMAIN frames \ {f} |-> frames[g]]

\* A frame given up: the next one begins at next.
Drop(b, f, next) ==
    [frames |-> Without(b.frames, f), next |-> <<next>>, output |-> b.output,
     lost |-> b.lost \cup {f}]

Forget(b, f) == [b EXCEPT !.frames = Without(@, f)]

\* The packets from first to the end of a frame.
Span(frame, first) ==
    [i \in 1 .. frame.marker_sequence - first + 1 |-> frame.packets[first + i - 1]]

\* Mutant: the next frame is to begin with the end of this one.
Mutant_Release(b, f, first) ==
    LET frame == b.frames[f] IN
    [frames |-> Without(b.frames, f), next |-> <<frame.marker_sequence>>,
     output |-> b.output \o Span(frame, first), lost |-> b.lost]

Release(b, f, first) ==
    LET frame == b.frames[f] IN
    [frames |-> Without(b.frames, f), next |-> <<frame.marker_sequence + 1>>,
     output |-> b.output \o Span(frame, first), lost |-> b.lost]

Forced(b) == Cardinality(DOMAIN b.frames) > MaxFrames

\* Mutant: only the room in the buffer ends the wait.
Mutant_Waits(b, frame) == ~Forced(b)

Waits(b, frame) == ~Forced(b) /\ frame.age < MaxWait

\* The end of the oldest frame has not come: it is waited for until a later
\* frame has begun and the time is over.
ReleaseUnmarked(b, f) ==
    LET frame == b.frames[f]
        later == LaterFrames(b.frames, f)
    IN  IF ~Forced(b) /\ (later = {} \/ frame.age < MaxWait) THEN b
        ELSE Drop(b, f, IF later # {} THEN Min(later)
                        ELSE frame.min + Cardinality(DOMAIN frame.packets))

Complete(frame, first) ==
    /\ frame.marker_sequence - first < MaxSpan
    /\ first .. frame.marker_sequence \subseteq DOMAIN frame.packets

\* Mutant: every frame begins where its packets begin.
Mutant_Beginning(b, frame) == frame.min

\* The first frame begins where its packets begin, the others behind the
\* frame before.
Beginning(b, frame) == IF b.next = <<>> THEN frame.min ELSE b.next[1]

\* A frame whose end was passed is forgotten; one with a hole is waited for.
ReleaseMarked(b, f) ==
    LET frame == b.frames[f]
        first == Beginning(b, frame)
    IN  CASE b.next = <<>> /\ Waits(b, frame) -> b
          [] frame.marker_sequence < first -> Forget(b, f)
          [] OTHER -> IF Complete(frame, first) THEN Release(b, f, first)
                      ELSE IF Waits(b, frame) THEN b
                      ELSE Drop(b, f, frame.marker_sequence + 1)

ReleaseOldest(b) ==
    IF DOMAIN b.frames = {} THEN b
    ELSE LET f == FindOldestFrame(b.frames)
         IN  IF b.frames[f].marker_received THEN ReleaseMarked(b, f)
             ELSE ReleaseUnmarked(b, f)

\* The one state the loop ends in, for \E to bind.
ReleaseReadyFrames(frames) ==
    LET after[turn \in Nat] ==
            IF turn = 0
            THEN {[frames |-> frames, next |-> m_next_sequence, output |-> <<>>, lost |-> {}]}
            ELSE {ReleaseOldest(b) : b \in after[turn - 1]}
    IN  after[Cardinality(DOMAIN frames)]

-----------------------------------------------------------------------------
(* Calls.                                                                   *)

\* A loss is reported, not more than once in an interval.
Notify(lost) ==
    IF lost # {} /\ since_notification >= LossInterval THEN 0 ELSE since_notification

Hand(frames) ==
    \E b \in ReleaseReadyFrames(frames) :
    /\ m_frames' = b.frames
    /\ m_next_sequence' = b.next
    /\ since_notification' = Notify(b.lost)
    /\ passed' = passed \o b.output
    /\ dropped' = dropped \cup b.lost

Late(sequence) == m_next_sequence # <<>> /\ sequence < m_next_sequence[1]

NewFrame(sequence) ==
    [min |-> sequence, marker_sequence |-> sequence, marker_received |-> FALSE, age |-> 0,
     packets |-> <<>>]

\* A frame with a packet put into it; one that is there already changes no
\* marker.
Put(frame, p, sequence) ==
    LET known == DOMAIN frame.packets
        ends  == End[FrameOf[p]] = p /\ sequence \notin known
    IN  [min |-> IF sequence < frame.min THEN sequence ELSE frame.min,
         marker_sequence |-> IF ends THEN sequence ELSE frame.marker_sequence,
         marker_received |-> frame.marker_received \/ ends,
         age |-> frame.age,
         packets |-> [s \in known \cup {sequence} |->
                          IF s \in known THEN frame.packets[s] ELSE p]]

Buffered(p, sequence) ==
    LET f == FrameOf[p]
        frame == IF f \in DOMAIN m_frames THEN m_frames[f] ELSE NewFrame(sequence)
    IN  [g \in DOMAIN m_frames \cup {f} |->
            IF g = f THEN Put(frame, p, sequence) ELSE m_frames[g]]

\* A packet of the stream.
Incoming(p) ==
    LET sequence == UnwrapSequence(OnWire(p)) IN
    /\ m_sequence_initialized' = TRUE
    /\ m_highest_sequence' = Highest(sequence)
    /\ received' = received \cup {p}
    /\ Hand(IF Late(sequence) THEN m_frames ELSE Buffered(p, sequence))

\* A message that is not a packet of the stream passes through.
IncomingOther ==
    /\ Hand(m_frames)
    /\ UNCHANGED <<m_sequence_initialized, m_highest_sequence, networkVars, resets, received>>

\* The time of a frame, and since the last report, is not told beyond its limit.
Tick ==
    /\ m_frames' = [f \in DOMAIN m_frames |->
                        [m_frames[f] EXCEPT !.age = IF @ < MaxWait THEN @ + 1 ELSE @]]
    /\ since_notification' = IF since_notification < LossInterval
                             THEN since_notification + 1 ELSE since_notification
    /\ UNCHANGED <<m_next_sequence, m_sequence_initialized, m_highest_sequence,
                   networkVars, resets, historyVars>>

\* Close of the transport.
Reset ==
    /\ resets < MaxResets
    /\ resets' = resets + 1
    /\ m_frames' = <<>> /\ m_next_sequence' = <<>>
    /\ m_sequence_initialized' = FALSE /\ m_highest_sequence' = 0
    /\ since_notification' = LossInterval
    /\ received' = {} /\ passed' = <<>> /\ dropped' = {}
    /\ UNCHANGED networkVars

-----------------------------------------------------------------------------
(* The sender and the network.                                              *)

\* Packets on their way are less than half the numbers apart.
Latest == IF received = {} THEN {} ELSE {Max(received)}

Send ==
    LET p == sent + 1 IN
    /\ p \in Packets
    /\ \A q \in wire \cup Latest : p - q < Modulus \div 2
    /\ sent' = p
    /\ wire' = wire \cup {p}
    /\ UNCHANGED <<bufferVars, repeats, resets, historyVars>>

Deliver(p) ==
    /\ p \in wire
    /\ Incoming(p)
    /\ \/ wire' = wire \ {p} /\ UNCHANGED repeats
       \/ repeats < MaxRepeats /\ repeats' = repeats + 1 /\ UNCHANGED wire
    /\ UNCHANGED <<sent, resets>>

Lose(p) ==
    /\ p \in wire
    /\ wire' = wire \ {p}
    /\ UNCHANGED <<bufferVars, sent, repeats, resets, historyVars>>

-----------------------------------------------------------------------------
Next ==
    \/ Send
    \/ \E p \in Packets : Deliver(p) \/ Lose(p)
    \/ IncomingOther
    \/ Tick
    \/ Reset

Spec == Init /\ [][Next]_vars

\* Time goes on and messages keep coming.
FairSpec == Spec /\ WF_vars(Tick) /\ WF_vars(IncomingOther)

-----------------------------------------------------------------------------
TypeOK ==
    /\ DOMAIN m_frames \subseteq Frames
    /\ \A f \in DOMAIN m_frames :
          /\ m_frames[f].min \in Int /\ m_frames[f].marker_sequence \in Int
          /\ m_frames[f].marker_received \in BOOLEAN
          /\ m_frames[f].age \in 0 .. MaxWait
          /\ \A s \in DOMAIN m_frames[f].packets : m_frames[f].packets[s] \in PacketsOf[f]
    /\ m_next_sequence = <<>> \/ m_next_sequence[1] \in Int
    /\ m_sequence_initialized \in BOOLEAN /\ m_highest_sequence \in Nat
    /\ since_notification \in 0 .. LossInterval
    /\ sent \in 0 .. Cardinality(Packets) /\ wire \subseteq 1 .. sent
    /\ received \subseteq 1 .. sent /\ ToSet(passed) \subseteq received
    /\ dropped \subseteq Frames
    /\ repeats \in Nat /\ resets \in Nat

\* Numbers that wrap are told apart: two packets in the buffer are as far from
\* each other, and from the highest, as the sender sent them.
SequencesUnwrapped ==
    \A f \in DOMAIN m_frames : \A s \in DOMAIN m_frames[f].packets :
        m_highest_sequence - s = Max(received) - m_frames[f].packets[s]

\* Packets leave in the order they were sent, and each once.
OutputInOrder ==
    \A i \in 1 .. Len(passed) - 1 : passed[i] < passed[i + 1]

Out(f) == PacketsOf[f] \cap ToSet(passed)

\* What leaves of a frame has no hole and reaches its end.
NoHoles ==
    \A f \in Frames : Out(f) # {} => Out(f) = Min(Out(f)) .. End[f]

\* A frame is the first to leave, or one between it and those that left before
\* was given up: then where it begins is a guess.
BeginningGuessed(f) ==
    \A g \in Frames : g < f /\ Out(g) # {} => \E d \in dropped : g < d /\ d < f

\* A frame leaves whole, unless its beginning was guessed.
WholeUnlessGuessed ==
    \A f \in Frames : Out(f) \in {{}, PacketsOf[f]} \/ BeginningGuessed(f)

\* What the header of the class promises, of frames behind one that has left: only
\* complete frames are handed on.  The guess behind a frame that was given up
\* breaks it.
OnlyCompleteFrames ==
    \A f, g \in Frames : g < f /\ Out(g) # {} => Out(f) \in {{}, PacketsOf[f]}

\* Packets that are skipped belong to a frame that was given up, or to the
\* frame behind it.
GapsAreDrops ==
    \A i \in 1 .. Len(passed) - 1 : passed[i] + 1 < passed[i + 1] =>
        \E d \in dropped : FrameOf[passed[i]] < d /\ d <= FrameOf[passed[i + 1]]

\* A frame that is given up is reported, at once or by the report before it in
\* the same interval.
DropsReported ==
    [][dropped' \ dropped # {} => since_notification' < LossInterval]_vars

\* A frame is given up only if a packet that was to leave before its end has
\* not come.
DropsMissSomething ==
    [][\A f \in dropped' \ dropped : \E p \in Packets \ received' :
            /\ p <= End[f]
            /\ \A q \in ToSet(passed) : q < p
            /\ \A d \in dropped : d < FrameOf[p]]_vars

\* A call never leaves more frames behind than the limit.
BufferBounded == Cardinality(DOMAIN m_frames) <= MaxFrames

\* The variables keep their types, the sequence numbers are unwrapped rightly
\* across the wrap of 16 bits, and the buffer is never larger than it may be.
ReorderInvariant == TypeOK /\ SequencesUnwrapped /\ BufferBounded

\* What the decoder is given: packets in order and once, of each frame its end
\* without a hole, the whole of it unless its beginning was guessed, and each gap
\* between frames one that was reported as a drop.  This is less than the header
\* promises: see OnlyCompleteFrames.
OutputUnbroken == OutputInOrder /\ NoHoles /\ WholeUnlessGuessed /\ GapsAreDrops

\* A drop is reported when frames are skipped, and only then.
DropsAccounted == DropsReported /\ DropsMissSomething

\* As long as time goes on and messages come in, a frame whose end has come
\* leaves the buffer.
FramesLeave ==
    \A f \in Frames :
        f \in DOMAIN m_frames /\ m_frames[f].marker_received ~> f \notin DOMAIN m_frames

=============================================================================
