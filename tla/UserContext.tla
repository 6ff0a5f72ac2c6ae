----------------------------- MODULE UserContext ------------------------------
(* UserContext and its AVSyncController: the frames of one user wait in the  *)
(* order of their media time, and each drawing of the window decides against *)
(* the playback clock which of them is seen.  A frame is [ts, seq]: its time *)
(* and its place in the order of arrival, by which two of one time differ.   *)
EXTENDS Integers, FiniteSets, SequencesExt

CONSTANTS
    EarlyThreshold, LateThreshold,               \* AVSyncConfig
    DiscontinuityThreshold, BackwardThreshold,
    MaxBufferedVideoFrames                       \* kMaxBufferedVideoFrames

\* What IsConfigValid accepts.
SyncAssumption ==
    /\ EarlyThreshold \in Nat /\ LateThreshold \in Nat
    /\ DiscontinuityThreshold \in Nat \ {0} /\ BackwardThreshold \in Nat \ {0}
    /\ DiscontinuityThreshold > EarlyThreshold
    /\ DiscontinuityThreshold > LateThreshold
    /\ MaxBufferedVideoFrames \in Nat \ {0}
ASSUME SyncAssumption

-----------------------------------------------------------------------------
\* AVSyncController: the last difference of the two times is video - audio.
Syncs == [initialized : BOOLEAN, offset : Int, video : Nat, audio : Nat]
ResetSync == [initialized |-> FALSE, offset |-> 0, video |-> 0, audio |-> 0]

Distance(a, b) == IF a >= b THEN a - b ELSE b - a

AlignedAt(v, a) == [initialized |-> TRUE, offset |-> v - a, video |-> v, audio |-> a]

TimelineJumps(sync, v, a) ==
    \/ sync.video - v > BackwardThreshold
    \/ sync.audio - a > BackwardThreshold
    \/ Distance(v - a, sync.video - sync.audio) > DiscontinuityThreshold

EvaluateVideoFrame(sync, v, a) ==
    LET jump == sync.initialized /\ TimelineJumps(sync, v, a)
        base == IF jump \/ ~sync.initialized THEN AlignedAt(v, a) ELSE sync
        delta == v - a - base.offset
    IN [sync |-> [base EXCEPT !.video = v, !.audio = a], timeline_reset |-> jump,
        action |-> IF delta > EarlyThreshold THEN "wait"
                   ELSE IF delta < -LateThreshold THEN "drop" ELSE "render"]

-----------------------------------------------------------------------------
NoFrame == [ts |-> 0, seq |-> 0]

NewContext(is_local) ==
    [local |-> is_local, buffer |-> {}, last |-> NoFrame, clockWasValid |-> FALSE,
     sync |-> ResetSync]

\* begin() and rbegin() of the map.
Earliest(frames) == CHOOSE f \in frames : \A g \in frames : f.ts <= g.ts
Newest(frames)   == CHOOSE f \in frames : \A g \in frames : g.ts <= f.ts

PushFrame(c, f) ==
    LET all == {g \in c.buffer : g.ts # f.ts} \cup {f}
    IN [c EXCEPT !.buffer = IF Cardinality(all) > MaxBufferedVideoFrames
                            THEN all \ {Earliest(all)} ELSE all]

HandleAudioClockTransition(c, valid) ==
    IF c.local \/ valid = c.clockWasValid THEN c
    ELSE [c EXCEPT !.clockWasValid = valid, !.sync = ResetSync,
                   !.buffer = IF c.buffer = {} THEN {} ELSE {Newest(c.buffer)}]

\* Mutant: the frames the newest one overtakes stay.
Mutant_ShowNewest(c) == [c EXCEPT !.buffer = @ \ {Newest(@)}, !.last = Newest(c.buffer)]

ShowNewest(c) == [c EXCEPT !.buffer = {}, !.last = Newest(c.buffer)]

\* One round of the loop: f is the earliest frame left.
JudgeFrame(r, f, clock) ==
    LET d == EvaluateVideoFrame(r.c.sync, f.ts, clock)
        judged == [r.c EXCEPT !.sync = d.sync]
        taken == [judged EXCEPT !.buffer = @ \ {f}]
    IN CASE r.decided -> r
         [] ~r.decided /\ d.timeline_reset ->
               [decided |-> TRUE, c |-> [judged EXCEPT !.buffer = {}, !.last = f]]
         [] ~r.decided /\ ~d.timeline_reset /\ d.action = "wait" ->
               [decided |-> TRUE, c |-> judged]
         [] ~r.decided /\ ~d.timeline_reset /\ d.action = "drop" ->
               [decided |-> FALSE, c |-> taken]
         [] OTHER -> [decided |-> TRUE, c |-> [taken EXCEPT !.last = f]]

\* The frames that wait, from the earliest to the newest.
ShowInStep(c, clock) ==
    MapThenFoldSet(LAMBDA f, r : JudgeFrame(r, f, clock), [decided |-> FALSE, c |-> c],
                   LAMBDA f : f, LAMBDA frames : Newest(frames), c.buffer).c

\* Mutant: without a clock the frames of others wait for one.
Mutant_RenderFrame(context, clock) ==
    LET c == HandleAudioClockTransition(context, clock > 0)
    IN IF c.buffer = {} \/ (clock = 0 /\ ~c.local) THEN c
       ELSE IF c.local THEN ShowNewest(c) ELSE ShowInStep(c, clock)

\* A clock of 0 is none.  The frame that is seen is the last of the result.
RenderFrame(context, clock) ==
    LET c == HandleAudioClockTransition(context, clock > 0)
    IN IF c.buffer = {} THEN c
       ELSE IF c.local \/ clock = 0 THEN ShowNewest(c) ELSE ShowInStep(c, clock)
=============================================================================
