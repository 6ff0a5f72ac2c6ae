--------------------------- MODULE TimestampedAudio ---------------------------
(* TimestampedAudioBuffer: the sound of one user in a ring whose places      *)
(* belong to a media time line.  A sample is modelled by its media time, so  *)
(* that one can see what is played when; 0 is silence.                       *)
EXTENDS Integers, Sequences

CONSTANTS
    FrameUs,           \* length of a sample frame in microseconds
    CapacityFrames,    \* m_capacity_frames
    MaxGapFill,        \* m_max_gap_fill_frames
    Discontinuity      \* m_discontinuity_threshold_frames

TimestampedAssumption ==
    /\ FrameUs \in Nat \ {0} /\ CapacityFrames \in Nat \ {0}
    /\ MaxGapFill \in Nat /\ Discontinuity \in Nat
ASSUME TimestampedAssumption

Silence == 0
Used == -1             \* a place that holds nothing to be read

Places == 0 .. CapacityFrames - 1

AudioBuffers ==
    [m_timeline_initialized : BOOLEAN,
     m_timeline_anchor_us : Int,
     m_buffer : [Places -> Int],
     m_read_position_frames : Places, m_write_position_frames : Places,
     m_available_frames : 0 .. CapacityFrames,
     m_read_frame_offset : Nat, m_write_frame_offset : Nat]

EmptyAudio ==
    [m_timeline_initialized |-> FALSE,
     m_timeline_anchor_us |-> 0,
     m_buffer |-> [p \in Places |-> Used],
     m_read_position_frames |-> 0, m_write_position_frames |-> 0,
     m_available_frames |-> 0,
     m_read_frame_offset |-> 0, m_write_frame_offset |-> 0]

ResetTimeline(timestamp) ==
    [EmptyAudio EXCEPT !.m_timeline_initialized = TRUE, !.m_timeline_anchor_us = timestamp]

\* To the nearest frame, halves away from zero.
ToFrames(duration) ==
    IF duration >= 0 THEN (2 * duration + FrameUs) \div (2 * FrameUs)
                     ELSE -((2 * (-duration) + FrameUs) \div (2 * FrameUs))

TimestampForFrameOffset(b, offset) == b.m_timeline_anchor_us + offset * FrameUs

\* How far p lies behind a place in the ring.
Behind(p, place) == (p - place) % CapacityFrames

Least(m, n) == IF m <= n THEN m ELSE n

DiscardFrames(b, count) ==
    LET n    == Least(count, b.m_available_frames)
        gone == {p \in Places : Behind(p, b.m_read_position_frames) < n}
        left == b.m_available_frames - n
    IN  [b EXCEPT
            !.m_buffer = [p \in Places |-> IF p \in gone THEN Used ELSE @[p]],
            !.m_read_position_frames = IF left = 0 THEN b.m_write_position_frames
                                       ELSE (@ + n) % CapacityFrames,
            !.m_available_frames = left,
            !.m_read_frame_offset = @ + n]

\* Mutant: the room is counted one frame too large.
Mutant_MakeRoom(b, required) ==
    LET free == CapacityFrames - b.m_available_frames + 1
    IN  IF required > free THEN DiscardFrames(b, required - free) ELSE b

\* What is oldest makes room.
MakeRoom(b, required) ==
    LET free == CapacityFrames - b.m_available_frames
    IN  IF required > free THEN DiscardFrames(b, required - free) ELSE b

\* WriteFramesLocked and WriteSilenceLocked.  Of more than fits the newest part
\* stays, at its time.
WriteFrames(b, samples) ==
    LET n    == Len(samples)
        room == MakeRoom(b, n)
    IN  IF n >= CapacityFrames
        THEN [b EXCEPT
                !.m_buffer = [p \in Places |-> samples[n - CapacityFrames + p + 1]],
                !.m_read_position_frames = 0, !.m_write_position_frames = 0,
                !.m_available_frames = CapacityFrames,
                !.m_write_frame_offset = @ + n,
                !.m_read_frame_offset = b.m_write_frame_offset + n - CapacityFrames]
        ELSE [room EXCEPT
                !.m_buffer =
                    [p \in Places |->
                        LET i == Behind(p, room.m_write_position_frames)
                        IN  IF i < n THEN samples[i + 1] ELSE @[p]],
                !.m_write_position_frames = (@ + n) % CapacityFrames,
                !.m_available_frames = @ + n,
                !.m_write_frame_offset = @ + n]

Quiet(n) == [i \in 1 .. n |-> Silence]

\* The samples of a frame that starts at a time.
SoundOf(timestamp, n) == [i \in 1 .. n |-> timestamp + (i - 1) * FrameUs]

\* By how many frames an input lies behind the end of what is buffered.
GapBefore(b, timestamp) ==
    ToFrames(timestamp - TimestampForFrameOffset(b, b.m_write_frame_offset))

PushResult(b, timestamp, n) ==
    LET gap == GapBefore(b, timestamp) IN
    CASE ~b.m_timeline_initialized -> "kAccepted"
      [] b.m_timeline_initialized /\ (gap > Discontinuity \/ gap < -Discontinuity
                                      \/ gap > MaxGapFill) -> "kAcceptedAfterReset"
      [] b.m_timeline_initialized /\ gap \in 1 .. MaxGapFill /\ gap <= Discontinuity
            -> "kAcceptedWithSilence"
      [] b.m_timeline_initialized /\ gap <= 0 /\ gap >= -Discontinuity
            -> IF gap < 0 /\ -gap >= n THEN "kDroppedLate" ELSE "kAccepted"

NewPart(gap, samples) ==
    IF gap < 0 THEN SubSeq(samples, 1 - gap, Len(samples)) ELSE samples

Push(b, timestamp, n) ==
    LET gap     == GapBefore(b, timestamp)
        samples == SoundOf(timestamp, n)
        result  == PushResult(b, timestamp, n)
    IN  CASE result = "kAcceptedAfterReset" \/ ~b.m_timeline_initialized
               -> WriteFrames(ResetTimeline(timestamp), samples)
          [] result = "kAcceptedWithSilence"
               -> WriteFrames(WriteFrames(b, Quiet(gap)), samples)
          [] result = "kDroppedLate" -> b
          [] result = "kAccepted" /\ b.m_timeline_initialized
               -> WriteFrames(b, NewPart(gap, samples))

HasSound(b) == b.m_timeline_initialized /\ b.m_available_frames > 0
FirstTimestamp(b) == TimestampForFrameOffset(b, b.m_read_frame_offset)
EndTimestamp(b)   == TimestampForFrameOffset(b, b.m_write_frame_offset)

\* The i-th frame that can be read.
ReadFrame(b, i) == b.m_buffer[(b.m_read_position_frames + i - 1) % CapacityFrames]

\* What is older than the asked time goes.
DiscardOlder(b, start) ==
    LET old == ToFrames(start - FirstTimestamp(b))
    IN  IF HasSound(b) /\ old > 0 THEN DiscardFrames(b, old) ELSE b

\* ReadAt: n frames from a time on, with silence where nothing is buffered.
ReadAt(b, start, n) ==
    LET c       == DiscardOlder(b, start)
        missing == ToFrames(FirstTimestamp(c) - start)
        leading == IF missing > 0 THEN Least(missing, n) ELSE 0
        copied  == IF HasSound(c) THEN Least(n - leading, c.m_available_frames) ELSE 0
    IN  [buffer |-> IF copied > 0 THEN DiscardFrames(c, copied) ELSE c,
         output |-> [i \in 1 .. n |-> IF i > leading /\ i <= leading + copied
                                      THEN ReadFrame(c, i - leading) ELSE Silence],
         copied_frames |-> copied]

=============================================================================
