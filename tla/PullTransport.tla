---------------------------- MODULE PullTransport ----------------------------
(* RtcPullTransport: the network's callbacks give every received frame a    *)
(* local time and queue it, one worker per medium decodes and delivers it.  *)
(* The transport is subscribed and closed by the caller and, after a failed *)
(* WHEP request, closed by the signaling thread.  A step is what a thread   *)
(* does under one lock or with one atomic.                                  *)
EXTENDS Integers, Sequences, FiniteSets

CONSTANTS
    Capacity,        \* kMaxVideoQueueSize and kMaxAudioQueueSize
    MaxFrames,       \* bound: frames received of each medium
    MaxChanges,      \* bound: changes of the timebase
    MaxCalls         \* bound: calls by the caller

Media == {"video", "audio"}

PullAssumption ==
    /\ Capacity \in [Media -> Nat \ {0}]
    /\ MaxFrames \in [Media -> Nat] /\ MaxChanges \in Nat /\ MaxCalls \in Nat
ASSUME PullAssumption

VARIABLES
    m_subscribed, m_running,
    m_tracks,          \* the tracks are there
    m_decoder,         \* the decoders are there
    m_queue,
    m_video_queue_overflow,
    m_needs_keyframe,  \* the video decoder's
    m_worker,          \* the std::thread object holds a thread
    loop,              \* where that thread stands
    in_hand,           \* the frame it works on
    receiver,          \* where the network's callback stands
    brought,           \* the frame it brings
    count,             \* frames received so far
    m_timebase,        \* fallback bases, mappers with a report, switched to NTP
    epoch,             \* changes of the timebase so far
    at, closing_worker,\* where the caller and the signaling thread stand
    calls, whep, overlapped, crashed,
    dropped            \* video frames the queue lost, nobody asked since

decoderVars  == <<m_decoder, m_needs_keyframe>>
queueVars    == <<m_queue, m_video_queue_overflow, dropped>>
workerVars   == <<m_worker, loop, in_hand>>
receiverVars == <<receiver, brought, count>>
timeVars     == <<m_timebase, epoch>>
flagVars     == <<m_subscribed, m_running, m_tracks>>
callVars     == <<at, closing_worker, calls, whep, overlapped, crashed>>
vars == <<flagVars, decoderVars, queueVars, workerVars, receiverVars, timeVars, callVars>>

Actors == {"caller", "signaling"}
NoFrame == [number |-> 0, epoch |-> 0]
NoTimebase == [fallback |-> {}, ready |-> {}, m_rtcp_timebase_active |-> FALSE]

Init ==
    /\ m_subscribed = FALSE /\ m_running = FALSE
    /\ m_tracks = FALSE
    /\ m_decoder = FALSE /\ m_needs_keyframe = FALSE
    /\ m_queue = [m \in Media |-> <<>>]
    /\ m_video_queue_overflow = FALSE /\ dropped = {}
    /\ m_worker = [m \in Media |-> FALSE]
    /\ loop = [m \in Media |-> "none"]
    /\ in_hand = [m \in Media |-> NoFrame]
    /\ receiver = [m \in Media |-> "idle"]
    /\ brought = [m \in Media |-> NoFrame]
    /\ count = [m \in Media |-> 0]
    /\ m_timebase = NoTimebase /\ epoch = 0
    /\ at = [a \in Actors |-> "idle"]
    /\ closing_worker = "video"
    /\ calls = 0 /\ whep = 0 /\ overlapped = FALSE /\ crashed = FALSE

\* A worker holds its queue's mutex while it decides to sleep.
QueueFree(m) == loop[m] # "drowsy"

-----------------------------------------------------------------------------
(* The network.                                                             *)

\* The callback of a track.
OnFrame(m) ==
    /\ receiver[m] = "idle"
    /\ m_tracks /\ m_running
    /\ count[m] < MaxFrames[m]
    /\ count' = [count EXCEPT ![m] = @ + 1]
    /\ brought' = [brought EXCEPT ![m] = [number |-> count'[m], epoch |-> 0]]
    /\ receiver' = [receiver EXCEPT ![m] = "resolve"]
    /\ UNCHANGED <<flagVars, decoderVars, queueVars, workerVars, timeVars, callVars>>

\* Both media change over to the sender's clock together, once all is known.
Switches(base, reports) ==
    /\ ~base.m_rtcp_timebase_active
    /\ base.ready = Media /\ base.fallback = Media
    /\ "audio" \in reports

\* Mutant: only a sender that jumps clears the queues.
Mutant_Receiver(jumps, switches) == IF jumps THEN "clear" ELSE "enqueue"

Receiver(jumps, switches) == IF jumps \/ switches THEN "clear" ELSE "enqueue"

\* With the sender reports of some media; a report that does not fit the one
\* before makes its mapper start again.
Updated(base, m, reports, jumping) ==
    [fallback |-> base.fallback \cup {m},
     ready |-> base.ready \cup reports,
     m_rtcp_timebase_active |-> base.m_rtcp_timebase_active /\ jumping = {}]

\* MediaTimebase has the times; here is what a queue sees of them.
ResolveMediaTimestamp(m, reports, jumping) ==
    LET updated == Updated(m_timebase, m, reports, jumping)
        switches == Switches(updated, reports)
        changes  == switches \/ jumping # {}
    IN  /\ receiver[m] = "resolve"
        /\ jumping \subseteq reports \cap m_timebase.ready
        /\ changes => epoch < MaxChanges
        /\ m_timebase' = [updated EXCEPT !.m_rtcp_timebase_active = @ \/ switches]
        /\ epoch' = IF changes THEN epoch + 1 ELSE epoch
        /\ brought' = [brought EXCEPT ![m].epoch = epoch']
        /\ receiver' = [receiver EXCEPT ![m] = Receiver(jumping # {}, switches)]
        /\ UNCHANGED <<flagVars, decoderVars, queueVars, workerVars, count, callVars>>

Numbers(queue) == {queue[i].number : i \in DOMAIN queue}

\* Mutant: the worker is not told.
Mutant_ClearPendingFrames(m) ==
    /\ receiver[m] = "clear"
    /\ \A n \in Media : QueueFree(n)
    /\ m_queue' = [n \in Media |-> <<>>]
    /\ dropped' = dropped \cup Numbers(m_queue["video"])
    /\ receiver' = [receiver EXCEPT ![m] = "enqueue"]
    /\ UNCHANGED <<flagVars, decoderVars, m_video_queue_overflow, workerVars, brought,
                   count, timeVars, callVars>>

\* ClearPendingFramesForTimebaseSwitch: what waits has the old time.
ClearPendingFrames(m) ==
    /\ receiver[m] = "clear"
    /\ \A n \in Media : QueueFree(n)
    /\ m_queue' = [n \in Media |-> <<>>]
    /\ m_video_queue_overflow' = TRUE
    /\ dropped' = dropped \cup Numbers(m_queue["video"])
    /\ receiver' = [receiver EXCEPT ![m] = "enqueue"]
    /\ UNCHANGED <<flagVars, decoderVars, workerVars, brought, count,
                   timeVars, callVars>>

\* A worker that waits is woken up and looks at the queue again.
Woken(ms) == [m \in Media |-> IF m \in ms /\ loop[m] = "waiting" THEN "test" ELSE loop[m]]

ReceiverReturns(m) ==
    /\ receiver' = [receiver EXCEPT ![m] = "idle"]
    /\ brought' = [brought EXCEPT ![m] = NoFrame]

Accepts == m_running

Full(m) == Len(m_queue[m]) >= Capacity[m]

\* EnqueueVideoFrame and EnqueueAudioFrame: a full queue loses its oldest frame.
EnqueueFrame(m) ==
    LET lost == Full(m) /\ m = "video"
    IN  /\ receiver[m] = "enqueue"
        /\ QueueFree(m)
        /\ IF Accepts
           THEN /\ m_queue' = [m_queue EXCEPT ![m] =
                                  Append(IF Full(m) THEN Tail(@) ELSE @, brought[m])]
                /\ m_video_queue_overflow' = (m_video_queue_overflow \/ lost)
                /\ dropped' = IF lost THEN dropped \cup {Head(m_queue[m]).number} ELSE dropped
                /\ loop' = Woken({m})
           ELSE UNCHANGED <<m_queue, m_video_queue_overflow, dropped, loop>>
        /\ ReceiverReturns(m)
        /\ UNCHANGED <<flagVars, decoderVars, m_worker, in_hand,
                       count, timeVars, callVars>>

Receive(m) ==
    \/ \E reports, jumping \in SUBSET Media : ResolveMediaTimestamp(m, reports, jumping)
    \/ ClearPendingFrames(m)
    \/ EnqueueFrame(m)

-----------------------------------------------------------------------------
(* The workers.                                                             *)

LoopGoes(m, from, to) == loop[m] = from /\ loop' = [loop EXCEPT ![m] = to]

OthersUnchanged == UNCHANGED <<flagVars, receiverVars, timeVars, callVars>>

\* The predicate of the condition variable is false.
NothingToDo(m) ==
    /\ LoopGoes(m, "test", "drowsy")
    /\ m_running /\ m_queue[m] = <<>>
    /\ UNCHANGED <<decoderVars, queueVars, m_worker, in_hand>> /\ OthersUnchanged

FallAsleep(m) ==
    /\ LoopGoes(m, "drowsy", "waiting")
    /\ UNCHANGED <<decoderVars, queueVars, m_worker, in_hand>> /\ OthersUnchanged

LeaveLoop(m) ==
    /\ LoopGoes(m, "test", "ended")
    /\ ~m_running /\ m_queue[m] = <<>>
    /\ UNCHANGED <<decoderVars, queueVars, m_worker, in_hand>> /\ OthersUnchanged

\* The overflow of the queue is noticed with the frame behind it.
TakeFrame(m) ==
    LET asks == m = "video" /\ m_video_queue_overflow IN
    /\ LoopGoes(m, "test", IF asks THEN "request" ELSE "decode")
    /\ m_queue[m] # <<>>
    /\ in_hand' = [in_hand EXCEPT ![m] = Head(m_queue[m])]
    /\ m_queue' = [m_queue EXCEPT ![m] = Tail(@)]
    /\ m_video_queue_overflow' = IF m = "video" THEN FALSE ELSE m_video_queue_overflow
    /\ UNCHANGED <<decoderVars, dropped, m_worker>> /\ OthersUnchanged

\* request_keyframe: whatever becomes of the request, it was tried.
RequestForOverflow ==
    /\ LoopGoes("video", "request", "decode")
    /\ dropped' = {n \in dropped : n > in_hand["video"].number}
    /\ UNCHANGED <<m_decoder, m_needs_keyframe, m_queue, m_video_queue_overflow,
                   m_worker, in_hand>>
    /\ OthersUnchanged

\* A picture may come although the decoder has lost its reference; a key frame
\* without errors ends the wish for one.
Decodes(m) ==
    /\ LoopGoes(m, "decode", "test")
    /\ m_decoder
    /\ \/ UNCHANGED m_needs_keyframe
       \/ m = "video" /\ m_needs_keyframe' = ~m_needs_keyframe
    /\ in_hand' = [in_hand EXCEPT ![m] = NoFrame]
    /\ UNCHANGED <<m_decoder, queueVars, m_worker>> /\ OthersUnchanged

\* No picture: a key frame the decoder wants is asked for, and no longer wanted
\* if the track sent the request: there is no track, or it is closed or refuses,
\* and the wish stays.
DecodeFails(m) ==
    /\ LoopGoes(m, "decode", "test")
    /\ in_hand' = [in_hand EXCEPT ![m] = NoFrame]
    /\ \/ UNCHANGED m_needs_keyframe /\ ~(m = "video" /\ m_needs_keyframe)
       \/ m = "video" /\ m_needs_keyframe' \in IF m_tracks THEN BOOLEAN ELSE {TRUE}
    /\ UNCHANGED <<m_decoder, queueVars, m_worker>> /\ OthersUnchanged

Loop(m) ==
    \/ NothingToDo(m)
    \/ FallAsleep(m)
    \/ LeaveLoop(m)
    \/ TakeFrame(m)
    \/ m = "video" /\ RequestForOverflow
    \/ Decodes(m)
    \/ DecodeFails(m)

-----------------------------------------------------------------------------
(* SubscribeAudioVideo and Close.                                           *)

Goes(a, from, to) == at[a] = from /\ at' = [at EXCEPT ![a] = to]

Begin(a) == overlapped' = (overlapped \/ \E b \in Actors \ {a} : at[b] # "idle")

NewCall == calls < MaxCalls /\ calls' = calls + 1

\* Both decoders are made and the workers may run, or one cannot be made.
Subscribe ==
    /\ ~m_subscribed
    /\ NewCall
    /\ Begin("caller")
    /\ \/ /\ Goes("caller", "idle", "video")
          /\ m_decoder' = TRUE /\ m_needs_keyframe' = FALSE
          /\ m_running' = TRUE
       \/ Goes("caller", "idle", "close") /\ UNCHANGED <<decoderVars, m_running>>
    /\ UNCHANGED <<m_subscribed, m_tracks, queueVars, workerVars, receiverVars, timeVars,
                   closing_worker, whep, crashed>>

\* Assigning to a std::thread that still holds one terminates the process.
StartWorker(m) ==
    /\ \/ /\ ~m_worker[m]
          /\ Goes("caller", m, IF m = "video" THEN "audio" ELSE "setup")
          /\ m_worker' = [m_worker EXCEPT ![m] = TRUE]
          /\ loop' = [loop EXCEPT ![m] = "test"]
          /\ UNCHANGED crashed
       \/ /\ m_worker[m]
          /\ Goes("caller", m, "idle")
          /\ crashed' = TRUE
          /\ UNCHANGED <<m_worker, loop>>
       \/ Goes("caller", m, "close") /\ UNCHANGED <<m_worker, loop, crashed>>
    /\ UNCHANGED <<flagVars, decoderVars, queueVars, in_hand, receiverVars,
                   timeVars, closing_worker, calls, whep, overlapped>>

\* The tracks and the offer, which leads to a WHEP request.
SetupReceiveTracks ==
    /\ \/ /\ Goes("caller", "setup", "idle")
          /\ m_tracks' = TRUE /\ m_subscribed' = TRUE
          /\ whep' = IF m_tracks THEN whep ELSE whep + 1
       \/ /\ Goes("caller", "setup", "close")
          /\ UNCHANGED <<m_tracks, m_subscribed, whep>>
    /\ UNCHANGED <<m_running, decoderVars, queueVars, workerVars, receiverVars, timeVars,
                   closing_worker, calls, overlapped, crashed>>

\* StopPull and Uninit of the engine, and the destructor.
Close ==
    /\ Goes("caller", "idle", "close")
    /\ NewCall
    /\ Begin("caller")
    /\ UNCHANGED <<flagVars, decoderVars, queueVars, workerVars, receiverVars, timeVars,
                   closing_worker, whep, crashed>>

\* A WHEP request fails: the signaling thread closes the transport.
WhepFails ==
    /\ Goes("signaling", "idle", "close")
    /\ whep > 0
    /\ whep' = whep - 1
    /\ Begin("signaling")
    /\ UNCHANGED <<flagVars, decoderVars, queueVars, workerVars, receiverVars, timeVars,
                   closing_worker, calls, crashed>>

\* A callback that runs already goes on.
CloseTracks(a) ==
    /\ Goes(a, "close", "clear")
    /\ m_subscribed' = FALSE /\ m_running' = FALSE /\ m_tracks' = FALSE
    /\ UNCHANGED <<decoderVars, queueVars, workerVars, receiverVars, timeVars,
                   closing_worker, calls, whep, overlapped, crashed>>

\* Mutant: the queues are not locked.
Mutant_ClearQueues(a) ==
    /\ Goes(a, "clear", "notify")
    /\ m_queue' = [m \in Media |-> <<>>]
    /\ m_video_queue_overflow' = FALSE
    /\ dropped' = {}
    /\ UNCHANGED <<flagVars, decoderVars, workerVars, receiverVars, timeVars,
                   closing_worker, calls, whep, overlapped, crashed>>

ClearQueues(a) ==
    /\ Goes(a, "clear", "notify")
    /\ \A m \in Media : QueueFree(m)
    /\ m_queue' = [m \in Media |-> <<>>]
    /\ m_video_queue_overflow' = FALSE
    /\ dropped' = {}
    /\ UNCHANGED <<flagVars, decoderVars, workerVars, receiverVars, timeVars,
                   closing_worker, calls, whep, overlapped, crashed>>

NotifyWorkers(a) ==
    /\ Goes(a, "notify", "join")
    /\ loop' = Woken(Media)
    /\ closing_worker' = "video"
    /\ UNCHANGED <<flagVars, decoderVars, queueVars, m_worker, in_hand,
                   receiverVars, timeVars, calls, whep, overlapped, crashed>>

\* The video worker is joined first, if there is one.
Joined(a) ==
    IF closing_worker = "video"
    THEN closing_worker' = "audio" /\ at' = at
    ELSE at' = [at EXCEPT ![a] = "release"] /\ UNCHANGED closing_worker

JoinWorker(a) ==
    LET m == closing_worker IN
    /\ at[a] = "join"
    /\ m_worker[m] => loop[m] = "ended"
    /\ m_worker' = [m_worker EXCEPT ![m] = FALSE]
    /\ loop' = [loop EXCEPT ![m] = "none"]
    /\ Joined(a)
    /\ UNCHANGED <<flagVars, decoderVars, queueVars, in_hand, receiverVars,
                   timeVars, calls, whep, overlapped, crashed>>

\* The decoders, the timebase and the callbacks.
Release(a) ==
    /\ Goes(a, "release", "idle")
    /\ m_decoder' = FALSE /\ m_needs_keyframe' = FALSE
    /\ m_timebase' = NoTimebase
    /\ UNCHANGED <<flagVars, queueVars, workerVars, receiverVars, epoch,
                   closing_worker, calls, whep, overlapped, crashed>>

Continue(a) ==
    \/ CloseTracks(a)
    \/ ClearQueues(a)
    \/ NotifyWorkers(a)
    \/ JoinWorker(a)
    \/ Release(a)

CallerContinues ==
    \/ \E m \in Media : StartWorker(m)
    \/ SetupReceiveTracks
    \/ Continue("caller")

-----------------------------------------------------------------------------
\* Bound: the model stops where two threads meet on the transport; PushTransport
\* has what comes of it.
Running == ~crashed /\ ~overlapped

Next ==
    /\ Running
    /\ \/ Subscribe
       \/ Close
       \/ CallerContinues
       \/ WhepFails
       \/ Continue("signaling")
       \/ \E m \in Media : OnFrame(m) \/ Receive(m) \/ Loop(m)

Spec == Init /\ [][Next]_vars

\* The system runs its threads; nobody has to call and nothing has to arrive.
FairSpec ==
    /\ Spec
    /\ WF_vars(Running /\ CallerContinues)
    /\ WF_vars(Running /\ Continue("signaling"))
    /\ \A m \in Media : WF_vars(Running /\ Receive(m)) /\ WF_vars(Running /\ Loop(m))

-----------------------------------------------------------------------------
Frames == [number : Nat, epoch : Nat]

TypeOK ==
    /\ m_subscribed \in BOOLEAN /\ m_running \in BOOLEAN /\ m_tracks \in BOOLEAN
    /\ m_decoder \in BOOLEAN /\ m_needs_keyframe \in BOOLEAN
    /\ m_queue \in [Media -> Seq(Frames)]
    /\ \A m \in Media : Len(m_queue[m]) <= Capacity[m]
    /\ m_video_queue_overflow \in BOOLEAN
    /\ dropped \subseteq Nat
    /\ m_worker \in [Media -> BOOLEAN]
    /\ loop \in [Media -> {"none", "test", "drowsy", "waiting", "request", "decode",
                           "ended"}]
    /\ in_hand \in [Media -> Frames]
    /\ receiver \in [Media -> {"idle", "resolve", "clear", "enqueue"}]
    /\ brought \in [Media -> Frames]
    /\ count \in [Media -> Nat]
    /\ m_timebase \in [fallback : SUBSET Media, ready : SUBSET Media,
                        m_rtcp_timebase_active : BOOLEAN]
    /\ epoch \in 0 .. MaxChanges
    /\ at \in [Actors -> {"idle", "video", "audio", "setup",
                          "close", "clear", "notify", "join",
                          "release"}]
    /\ closing_worker \in Media
    /\ calls \in Nat /\ whep \in Nat
    /\ overlapped \in BOOLEAN /\ crashed \in BOOLEAN

Resting == \A a \in Actors : at[a] = "idle"

\* Whatever failed on the way, when nobody is subscribing or closing, a
\* subscription runs with its tracks, decoders and both workers, and without
\* one nothing is left: no thread, no decoder, no track and, however late the
\* last callback came, no frame in a queue.  This is lost when the signaling
\* thread closes the transport during a call.
SubscribedOrClosed ==
    Resting /\ ~overlapped => \A m \in Media :
        IF m_subscribed
        THEN m_running /\ m_tracks /\ m_decoder /\ m_worker[m]
             /\ loop[m] \notin {"none", "ended"}
        ELSE ~m_running /\ ~m_tracks /\ ~m_decoder /\ ~m_worker[m]
             /\ loop[m] = "none" /\ m_queue[m] = <<>>

\* A worker never loses its decoder and no thread object is overwritten, as
\* long as nothing closes the transport during a call.
WorkerKeepsDecoder ==
    /\ ~crashed
    /\ \A m \in Media : loop[m] = "decode" => m_decoder

\* Whoever lost a frame, a full queue or a change of the timebase: a key frame
\* is asked for before a frame that came after the lost one is decoded.
DropsAskForKeyframe ==
    loop["video"] = "decode" => \A n \in dropped : n > in_hand["video"].number

\* Which waiting frames have the time of an old timebase.
Stale(m, i) == m_queue[m][i].epoch < epoch

\* A change of the timebase takes both queues along: what waits after it has
\* the new time, but for one frame whose callback was overtaken by it.
FewStaleFrames ==
    (\A m \in Media : receiver[m] # "clear") =>
        \A m, n \in Media : \A i \in 1 .. Len(m_queue[m]), j \in 1 .. Len(m_queue[n]) :
            Stale(m, i) /\ Stale(n, j) => m = n /\ i = j

\* The variables keep their types; tracks and workers are there for a
\* subscription only, a worker that runs keeps its decoder, and no frame but the
\* one that was overtaken waits with the time of an old timebase.
PullInvariant == TypeOK /\ SubscribedOrClosed /\ WorkerKeepsDecoder /\ FewStaleFrames

\* A close returns: its locks on the queues, between the flag and the
\* notification, leave no worker asleep.
CloseReturns == (\E a \in Actors : at[a] = "close") ~> Resting \/ overlapped

=============================================================================
