------------------------------ MODULE AudioMixer ------------------------------
(* AudioMixer: decode workers push the sound of their user, one thread mixes *)
(* what all users have for the same media time, the sound card takes it, and *)
(* users are removed.  A step is what a thread does under one lock.          *)
EXTENDS TimestampedAudio, AdaptiveJitter

CONSTANTS
    Users,
    m_mix_frame_count,         \* frames of a mixed chunk
    RebufferThreshold,         \* m_rebuffer_threshold_frames
    PreMixedChunkCount,        \* kPreMixedChunkCount
    PacketFrames,              \* frames a decoder gives at a time
    DeviceFrames,              \* the numbers of frames the sound card may ask for
    Times,                     \* media times of the packets
    JitterSamples,
    MaxPushes,                 \* bound: packets of all users
    MaxCalls                   \* bound: calls by the user interface

MixerAssumption ==
    /\ m_mix_frame_count \in Nat \ {0} /\ RebufferThreshold \in Nat \ {0}
    /\ PreMixedChunkCount \in Nat \ {0}
    /\ PacketFrames \in Nat \ {0} /\ DeviceFrames \subseteq Nat \ {0}
    /\ MinTarget >= m_mix_frame_count * FrameUs
    /\ Times \subseteq Nat \ {0} /\ JitterSamples \subseteq Nat
    /\ MaxPushes \in Nat /\ MaxCalls \in Nat
ASSUME MixerAssumption

VARIABLES
    m_initialized, m_mixing_thread_running,
    m_user_states,             \* user known -> [buffer, jitter]
    m_mix_cursor_us,
    m_mix_cursor_initialized,
    m_mixed_queue,             \* [start, heard: users that can be heard, late: the
                               \* clock was past its start when it was queued]
    m_front_chunk_frame_offset,
    m_consecutive_underrun_frames,
    m_playback_clock,          \* 0: not set
    m_mixing_thread,           \* the std::thread object holds a thread
    loop,                      \* where that thread stands
    chunk,                     \* the time it mixes for
    mixed,                     \* what it has mixed of each user
    pusher,                    \* where a user's decode worker stands
    pushes,
    at, calls                  \* where the user interface stands

cursorVars == <<m_mix_cursor_us, m_mix_cursor_initialized>>
playVars   == <<m_mixed_queue, m_front_chunk_frame_offset, m_consecutive_underrun_frames,
                m_playback_clock>>
loopVars   == <<loop, m_mixing_thread, chunk, mixed>>
pushVars   == <<pusher, pushes>>
callVars   == <<m_initialized, m_mixing_thread_running, at, calls>>
vars == <<loopVars, playVars, cursorVars, pushVars, callVars, m_user_states>>

NewState == [buffer |-> EmptyAudio, jitter |-> ResetJitter]
NoMix == [u \in Users |-> <<>>]
ChunkUs == m_mix_frame_count * FrameUs
Present == DOMAIN m_user_states
BufferOf(u) == m_user_states[u].buffer

\* After Initialize.
Init ==
    /\ m_initialized = TRUE /\ m_mixing_thread_running = TRUE
    /\ m_user_states = [u \in {} |-> NewState]
    /\ m_mix_cursor_us = 0 /\ m_mix_cursor_initialized = FALSE
    /\ m_mixed_queue = <<>> /\ m_front_chunk_frame_offset = 0
    /\ m_consecutive_underrun_frames = 0 /\ m_playback_clock = 0
    /\ m_mixing_thread = TRUE /\ loop = "test" /\ chunk = 0 /\ mixed = NoMix
    /\ pusher = [u \in Users |-> "idle"] /\ pushes = 0
    /\ at = "idle" /\ calls = 0

\* The mixing thread holds m_queue_mutex from its test until it sleeps or mixes.
QueueFree == loop \notin {"drowsy", "reserve"}

\* It looks again when it is woken up.
Woken == IF loop = "waiting" THEN "test" ELSE loop

\* EnterRebufferingLocked.
EnterRebuffering ==
    /\ m_mixed_queue' = <<>> /\ m_front_chunk_frame_offset' = 0
    /\ m_consecutive_underrun_frames' = 0 /\ m_playback_clock' = 0
    /\ m_mix_cursor_us' = 0 /\ m_mix_cursor_initialized' = FALSE

\* ClearMixedQueue: the clock stays, and a microsecond more keeps the chunk that
\* is being mixed out of the queue.
ClearMixedQueue ==
    /\ m_mixed_queue' = <<>> /\ m_front_chunk_frame_offset' = 0
    /\ m_consecutive_underrun_frames' = 0
    /\ m_mix_cursor_us' = IF m_playback_clock # 0 THEN m_playback_clock + 1 ELSE 0
    /\ m_mix_cursor_initialized' = (m_playback_clock # 0)
    /\ loop' = Woken
    /\ UNCHANGED m_playback_clock

-----------------------------------------------------------------------------
(* PushAudioData.                                                           *)

PushAudioData(u, timestamp, sample) ==
    LET state  == IF u \in Present THEN m_user_states[u] ELSE NewState
        result == PushResult(state.buffer, timestamp, PacketFrames)
        reset  == result = "kAcceptedAfterReset"
        jitter == ObserveArrival(IF reset THEN ResetJitter ELSE state.jitter,
                                 timestamp, sample)
    IN  /\ pusher[u] = "idle" /\ m_initialized
        /\ pushes < MaxPushes /\ pushes' = pushes + 1
        /\ m_user_states' = [v \in Present \cup {u} |->
               IF v = u THEN [buffer |-> Push(state.buffer, timestamp, PacketFrames),
                              jitter |-> jitter]
               ELSE m_user_states[v]]
        /\ pusher' = [pusher EXCEPT ![u] = IF reset THEN "clear" ELSE "idle"]
        /\ loop' = IF reset THEN loop ELSE Woken
        /\ UNCHANGED <<cursorVars, playVars, m_mixing_thread, chunk, mixed, callVars>>

\* What is mixed already has the time line of before.
PushClears(u) ==
    /\ pusher[u] = "clear" /\ QueueFree
    /\ ClearMixedQueue
    /\ pusher' = [pusher EXCEPT ![u] = "idle"]
    /\ UNCHANGED <<m_user_states, m_mixing_thread, chunk, mixed, pushes, callVars>>

-----------------------------------------------------------------------------
(* PopAudio, the callback of the sound card.                                *)

\* The media time behind the first n frames of the queue.
TimeAfter(n) ==
    LET i == (n - 1) \div m_mix_frame_count
    IN  m_mixed_queue[i + 1].start + (n - i * m_mix_frame_count) * FrameUs

Queued == Len(m_mixed_queue) * m_mix_frame_count - m_front_chunk_frame_offset

Consume(written) ==
    LET consumed == m_front_chunk_frame_offset + written
        chunks   == consumed \div m_mix_frame_count
    IN  /\ m_mixed_queue' = SubSeq(m_mixed_queue, chunks + 1, Len(m_mixed_queue))
        /\ m_front_chunk_frame_offset' = consumed % m_mix_frame_count

\* Mutant: a call that gets nothing counts no underrun.
Mutant_CountsUnderrun(written) == written > 0

\* Silence before anything has been played is none.
CountsUnderrun(written) == written > 0 \/ m_playback_clock # 0

\* The card plays silence: for a short time the clock goes on and takes the
\* cursor along, in the end the time line is given up.
Underrun(written, silent, end) ==
    LET missed == IF written > 0 THEN silent ELSE m_consecutive_underrun_frames + silent
        next   == IF written > 0 THEN end + silent * FrameUs
                  ELSE m_playback_clock + silent * FrameUs
    IN  IF missed >= RebufferThreshold
        THEN EnterRebuffering
        ELSE /\ Consume(written)
             /\ m_consecutive_underrun_frames' = missed
             /\ m_playback_clock' = next
             /\ m_mix_cursor_us' = IF m_mix_cursor_initialized THEN next + 1
                                   ELSE m_mix_cursor_us
             /\ UNCHANGED m_mix_cursor_initialized

PopAudio(frame_count) ==
    LET written == Least(frame_count, Queued)
        silent  == frame_count - written
        end     == IF written > 0
                   THEN TimeAfter(m_front_chunk_frame_offset + written) ELSE 0
    IN  /\ m_initialized /\ QueueFree
        /\ CASE silent = 0 ->
                  /\ Consume(written)
                  /\ m_consecutive_underrun_frames' = 0
                  /\ m_playback_clock' = end
                  /\ UNCHANGED cursorVars
             [] silent > 0 /\ CountsUnderrun(written) ->
                  Underrun(written, silent, end)
             [] silent > 0 /\ ~CountsUnderrun(written) ->
                  /\ m_consecutive_underrun_frames' = 0
                  /\ UNCHANGED <<cursorVars, m_mixed_queue, m_front_chunk_frame_offset,
                                 m_playback_clock>>
        /\ loop' = IF <<m_mixed_queue, cursorVars>>' # <<m_mixed_queue, cursorVars>>
                   THEN Woken ELSE loop
        /\ UNCHANGED <<m_user_states, m_mixing_thread, chunk, mixed, pushVars, callVars>>

-----------------------------------------------------------------------------
(* The mixing thread.                                                       *)

LoopGoes(from, to) == loop = from /\ loop' = to

\* The target is met and there is sound to begin with.
Ready ==
    {u \in Present :
        /\ HasSound(BufferOf(u))
        /\ BufferOf(u).m_available_frames * FrameUs >= m_user_states[u].jitter.target_buffer_us}

InitialMixTimes == {FirstTimestamp(BufferOf(u)) : u \in Ready}

\* A user has all of a chunk.
HasBufferedAudioForChunk(time) ==
    /\ time > 0
    /\ \E u \in Present :
           /\ HasSound(BufferOf(u))
           /\ FirstTimestamp(BufferOf(u)) <= time
           /\ EndTimestamp(BufferOf(u)) >= time + ChunkUs

\* The earliest of the times, or the one the time line stands at.
ChunkTimes ==
    IF m_mix_cursor_initialized THEN {m_mix_cursor_us}
    ELSE {t \in InitialMixTimes : \A s \in InitialMixTimes : t <= s}

CanProduceMixChunk ==
    IF m_mix_cursor_initialized THEN HasBufferedAudioForChunk(m_mix_cursor_us)
    ELSE InitialMixTimes # {}

\* The wait's predicate.
Waits == Len(m_mixed_queue) >= PreMixedChunkCount \/ ~CanProduceMixChunk

NothingToMix ==
    /\ LoopGoes("test", "drowsy")
    /\ m_mixing_thread_running /\ Waits
    /\ UNCHANGED <<m_user_states, cursorVars, playVars, m_mixing_thread, chunk, mixed,
                   pushVars, callVars>>

FallAsleep ==
    /\ LoopGoes("drowsy", "waiting")
    /\ UNCHANGED <<m_user_states, cursorVars, playVars, m_mixing_thread, chunk, mixed,
                   pushVars, callVars>>

LeaveLoop ==
    /\ LoopGoes("test", "ended")
    /\ ~m_mixing_thread_running
    /\ UNCHANGED <<m_user_states, cursorVars, playVars, m_mixing_thread, chunk, mixed,
                   pushVars, callVars>>

\* FindInitialMixTimestampUs: a time line is begun where a user has sound.
StartTimeline ==
    /\ LoopGoes("test", "reserve")
    /\ m_mixing_thread_running /\ ~Waits
    /\ m_mix_cursor_us' \in ChunkTimes /\ m_mix_cursor_initialized' = TRUE
    /\ UNCHANGED <<m_user_states, playVars, m_mixing_thread, chunk, mixed, pushVars, callVars>>

\* The buffers are looked at again: a push, which takes none of the mixer's locks,
\* may have thrown the beginning away.  The time of the chunk is taken before it is
\* mixed without the lock.
ReserveChunk ==
    /\ IF HasBufferedAudioForChunk(m_mix_cursor_us)
       THEN /\ LoopGoes("reserve", "mix")
            /\ chunk' = m_mix_cursor_us
            /\ m_mix_cursor_us' = m_mix_cursor_us + ChunkUs
       ELSE /\ LoopGoes("reserve", "test")
            /\ UNCHANGED <<chunk, m_mix_cursor_us>>
    /\ UNCHANGED <<m_user_states, playVars, m_mix_cursor_initialized, m_mixing_thread,
                   mixed, pushVars, callVars>>

\* Every user's sound of the same time; one has to have all of it.
MixChunk ==
    LET read == [u \in Present |-> ReadAt(BufferOf(u), chunk, m_mix_frame_count)]
        complete == \E u \in Present : read[u].copied_frames = m_mix_frame_count
    IN  /\ LoopGoes("mix", IF complete THEN "enqueue" ELSE "incomplete")
        /\ m_user_states' = [u \in Present |->
               [m_user_states[u] EXCEPT !.buffer = read[u].buffer]]
        /\ mixed' = IF complete
                    THEN [u \in Users |-> IF u \in Present THEN read[u].output ELSE <<>>]
                    ELSE NoMix
        /\ UNCHANGED <<cursorVars, playVars, m_mixing_thread, chunk, pushVars, callVars>>

\* Mutant: an old chunk is not thrown away.
Mutant_CursorKept == TRUE

\* Nobody has moved the cursor while the chunk was mixed.
CursorKept == m_mix_cursor_initialized /\ m_mix_cursor_us = chunk + ChunkUs

\* Who can be heard in what has been mixed.
Heard == {u \in Users : \E i \in DOMAIN mixed[u] : mixed[u][i] # Silence}

EnqueueChunk ==
    /\ QueueFree
    /\ LoopGoes("enqueue", IF m_mixing_thread_running THEN "test" ELSE "ended")
    /\ m_mixed_queue' =
          IF m_mixing_thread_running /\ CursorKept
             /\ Len(m_mixed_queue) < PreMixedChunkCount
          THEN Append(m_mixed_queue, [start |-> chunk, heard |-> Heard,
                                      late |-> chunk < m_playback_clock])
          ELSE m_mixed_queue
    /\ chunk' = 0 /\ mixed' = NoMix
    /\ UNCHANGED <<m_user_states, cursorVars, m_front_chunk_frame_offset,
                   m_consecutive_underrun_frames, m_playback_clock, m_mixing_thread,
                   pushVars, callVars>>

\* A reset has taken the sound away.
DropChunk ==
    /\ LoopGoes("incomplete", "test")
    /\ IF CursorKept THEN EnterRebuffering ELSE UNCHANGED <<cursorVars, playVars>>
    /\ chunk' = 0
    /\ UNCHANGED <<m_user_states, m_mixing_thread, mixed, pushVars, callVars>>

AroundMixing ==
    \/ NothingToMix
    \/ FallAsleep
    \/ LeaveLoop
    \/ StartTimeline
    \/ ReserveChunk
    \/ EnqueueChunk
    \/ DropChunk

Loop == MixChunk \/ AroundMixing

\* A step that takes the thread through the mixing; only MixChunk is one.
Mixes == loop = "mix" /\ loop' \in {"enqueue", "incomplete"}

-----------------------------------------------------------------------------
(* RemoveUserBuffer, ResetPlaybackTimeline and Uninitialize, which the       *)
(* render engine calls one at a time.                                        *)

Goes(from, to) == at = from /\ at' = to

Call == calls < MaxCalls /\ calls' = calls + 1

RemoveUserBuffer(u) ==
    /\ Goes("idle", "clear")
    /\ Call
    /\ u \in Present
    /\ m_user_states' = [v \in Present \ {u} |-> m_user_states[v]]
    /\ UNCHANGED <<cursorVars, playVars, loopVars, pushVars, m_initialized,
                   m_mixing_thread_running>>

RemovalClears ==
    /\ Goes("clear", "idle")
    /\ QueueFree
    /\ ClearMixedQueue
    /\ UNCHANGED <<m_user_states, m_mixing_thread, chunk, mixed, pushVars, m_initialized,
                   m_mixing_thread_running, calls>>

ResetPlaybackTimeline ==
    /\ Goes("idle", "reset")
    /\ Call
    /\ m_user_states' = [u \in Present |-> NewState]
    /\ UNCHANGED <<cursorVars, playVars, loopVars, pushVars, m_initialized,
                   m_mixing_thread_running>>

ResetQueue ==
    /\ Goes("reset", "idle")
    /\ QueueFree
    /\ EnterRebuffering
    /\ loop' = Woken
    /\ UNCHANGED <<m_user_states, m_mixing_thread, chunk, mixed, pushVars, m_initialized,
                   m_mixing_thread_running, calls>>

\* Neither the flags nor the notification are under the queue's mutex.
Uninitialize ==
    /\ Goes("idle", "notify")
    /\ Call
    /\ m_initialized
    /\ m_initialized' = FALSE /\ m_mixing_thread_running' = FALSE
    /\ UNCHANGED <<m_user_states, cursorVars, playVars, loopVars, pushVars>>

NotifyThread ==
    /\ Goes("notify", "join")
    /\ loop' = Woken
    /\ UNCHANGED <<m_user_states, cursorVars, playVars, m_mixing_thread, chunk, mixed,
                   pushVars, m_initialized, m_mixing_thread_running, calls>>

JoinThread ==
    /\ Goes("join", "release")
    /\ loop = "ended"
    /\ loop' = "none" /\ m_mixing_thread' = FALSE
    /\ UNCHANGED <<m_user_states, cursorVars, playVars, chunk, mixed, pushVars,
                   m_initialized, m_mixing_thread_running, calls>>

Release ==
    /\ Goes("release", "idle")
    /\ m_user_states' = [u \in {} |-> NewState]
    /\ EnterRebuffering
    /\ UNCHANGED <<loopVars, pushVars, m_initialized, m_mixing_thread_running, calls>>

CallContinues ==
    \/ RemovalClears
    \/ ResetQueue
    \/ NotifyThread
    \/ JoinThread
    \/ Release

-----------------------------------------------------------------------------
Next ==
    \/ \E u \in Users, t \in Times, s \in JitterSamples : PushAudioData(u, t, s)
    \/ \E u \in Users : PushClears(u) \/ RemoveUserBuffer(u)
    \/ \E n \in DeviceFrames : PopAudio(n)
    \/ Loop
    \/ ResetPlaybackTimeline
    \/ Uninitialize
    \/ CallContinues

Spec == Init /\ [][Next]_vars

\* The system runs its threads and the sound card keeps asking; nobody has to
\* speak or to call.
FairSpec ==
    /\ Spec
    /\ WF_vars(\E n \in DeviceFrames : PopAudio(n)) /\ WF_vars(CallContinues)
    /\ WF_loop(Mixes) /\ WF_vars(AroundMixing)
    /\ \A u \in Users : WF_vars(PushClears(u))

-----------------------------------------------------------------------------
(* Properties.                                                              *)

\* Every buffer and every jitter controller is one the classes can be in; the
\* target of a user stays between the two bounds of its configuration.
MixerTypeOK ==
    /\ m_initialized \in BOOLEAN /\ m_mixing_thread_running \in BOOLEAN
    /\ Present \subseteq Users
    /\ \A u \in Present : /\ BufferOf(u) \in AudioBuffers
                          /\ m_user_states[u].jitter \in JitterControllers
    /\ m_mix_cursor_us \in Int /\ m_mix_cursor_initialized \in BOOLEAN
    /\ m_mixed_queue \in Seq([start : Nat, heard : SUBSET Users, late : BOOLEAN])
    /\ m_front_chunk_frame_offset \in 0 .. m_mix_frame_count - 1
    /\ m_consecutive_underrun_frames \in 0 .. RebufferThreshold - 1
    /\ m_playback_clock \in Int /\ m_mixing_thread \in BOOLEAN
    /\ loop \in {"test", "drowsy", "waiting", "reserve", "mix", "enqueue", "incomplete",
                 "ended", "none"}
    /\ chunk \in Nat /\ mixed \in [Users -> Seq(Int)]
    /\ pusher \in [Users -> {"idle", "clear"}] /\ pushes \in 0 .. MaxPushes
    /\ at \in {"idle", "clear", "reset", "notify", "join", "release"}
    /\ calls \in 0 .. MaxCalls

\* However a ring wraps, overflows or is cut: its two positions are as far apart
\* as its two media offsets, and exactly the places between them hold sound.
RingAgreesWithTimeline ==
    \A u \in Present :
        LET b == BufferOf(u)
        IN  /\ b.m_write_frame_offset - b.m_read_frame_offset = b.m_available_frames
            /\ Behind(b.m_write_position_frames, b.m_read_position_frames)
               = b.m_available_frames % CapacityFrames
            /\ \A p \in Places :
                   (b.m_buffer[p] # Used)
                   <=> (Behind(p, b.m_read_position_frames) < b.m_available_frames)

\* The variables keep their types, and the ring of every user agrees with the
\* times it says it holds (RingAgreesWithTimeline).
MixerInvariant == MixerTypeOK /\ RingAgreesWithTimeline

\* Whatever was lost, came late, overlapped or was resynchronised: every sample
\* that is mixed lies less than a frame from the media time it is played for, and
\* so do the samples of all users that are mixed with it.
MixedInStep ==
    loop = "enqueue" =>
        \A u \in Users : \A i \in DOMAIN mixed[u] :
            LET time == chunk + (i - 1) * FrameUs
            IN  mixed[u][i] # Silence => mixed[u][i] - time \in (1 - FrameUs) .. (FrameUs - 1)

\* The media time of what is played next.
FrontTime == Head(m_mixed_queue).start + m_front_chunk_frame_offset * FrameUs

PlaysAgain == m_mixed_queue # <<>> /\ m_playback_clock # 0 /\ FrontTime < m_playback_clock

\* No chunk is played late: what waits begins at or behind the playback clock, so
\* that no stretch is played that silence has stood for.  The comments at
\* AudioMixer.cpp:361 and :369 promise it; a cursor that comes back breaks it.
QueueAheadOfClock == ~PlaysAgain

\* What the value of the cursor does give: what waits to be played is one stretch of
\* media time, silence has stood for less than a chunk of it, and what is late is
\* played before anything else is mixed in time.
QueueNearClock ==
    /\ \A i \in 1 .. Len(m_mixed_queue) - 1 :
           m_mixed_queue[i + 1].start = m_mixed_queue[i].start + ChunkUs
    /\ PlaysAgain => FrontTime > m_playback_clock - ChunkUs

\* Once RemoveUserBuffer has returned nothing of that user's sound is left to be
\* played, also when a chunk with it was being mixed (AudioMixer.cpp:429), unless
\* a push that came late has made the user known again, or the chunk is one that
\* QueueAheadOfClock would not have.
RemovedNotHeard ==
    at # "clear" =>
        \A i \in DOMAIN m_mixed_queue :
            m_mixed_queue[i].late \/ m_mixed_queue[i].heard \subseteq Present

\* What is played: users in step, chunks in the order of time and at most part of
\* one late, nobody who has been removed.
PlaybackCorrect == MixedInStep /\ QueueNearClock /\ RemovedNotHeard

\* The time line stands where nobody has sound.
Stalled ==
    /\ m_initialized /\ loop \in {"test", "drowsy", "waiting"}
    /\ m_mix_cursor_initialized /\ m_mixed_queue = <<>> /\ ~CanProduceMixChunk

PlayedAndStalled == Stalled /\ m_playback_clock # 0

\* Once something has been played, a time line that nobody has sound for is not
\* waited for: the mixer goes back to looking for a new beginning, and can be heard
\* again (AudioMixer.cpp:342).
PlaybackRecovers == PlayedAndStalled ~> ~PlayedAndStalled

\* The same of every time line, as AudioMixer.h:64 has it: after an underrun that
\* lasts the old clock is stopped and the start is buffered anew.
StallEnds == Stalled ~> ~Stalled

=============================================================================
