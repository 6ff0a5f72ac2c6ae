---------------------------- MODULE PushTransport ----------------------------
(* RtcPushTransport: capture callbacks queue frames, one worker thread per  *)
(* medium encodes and sends them, and the media are started and stopped by  *)
(* the caller and, after a failed WHIP request, closed by the signaling     *)
(* thread.  A step is what a thread does under one lock or with one atomic. *)
EXTENDS VideoBitrate, Sequences, FiniteSets

CONSTANTS
    Media,           \* {"video", "audio"}
    Capacity,        \* kMaxVideoQueueSize and kMaxAudioQueueSize
    MinBitrate,      \* range of the bitrate for the resolution
    TargetBitrate,
    SampleTimes,     \* time between two evaluations
    MaxCaptures,     \* bound: captured frames
    MaxCalls         \* bound: calls by the caller

PushAssumption ==
    /\ Media \subseteq {"video", "audio"} /\ Media # {}
    /\ Capacity \in [Media -> Nat \ {0}]
    /\ MinBitrate \in Nat \ {0} /\ TargetBitrate \in Nat
    /\ MinBitrate <= TargetBitrate
    /\ SampleTimes \subseteq Nat \ {0}
    /\ MaxCaptures \in Nat /\ MaxCalls \in Nat
ASSUME PushAssumption

VARIABLES
    m_publishing,      \* m_video_publishing, m_audio_publishing
    m_encoder,         \* bitrate of the encoder, 0: there is none
    m_pcm,             \* oldest frame the audio encoder has not sent all of
    m_queue,           \* m_video_queue, m_audio_queue
    m_drop_count,
    m_send_failures,
    control,           \* m_video_bitrate_controller
    m_worker,          \* the std::thread object holds a thread
    loop,              \* where that thread stands
    in_hand,           \* the frame it works on
    pusher,            \* where the capture callback stands
    shot,              \* the frame it brings
    captured,          \* time: the number of frames captured so far
    m_tracks_initialized,
    m_session_start,   \* m_session_start_time_us
    at,                \* where the caller and the signaling thread stand
    medium,            \* what they are starting or stopping
    closing,           \* the stop is part of Close
    calls,
    whip,              \* WHIP requests not answered yet
    overlapped,        \* a Close of the signaling thread met a call
    crashed            \* the process was terminated

sendVars    == <<m_encoder, m_pcm, m_drop_count, m_send_failures, control>>
workerVars  == <<m_worker, loop, in_hand>>
pusherVars  == <<pusher, shot, captured>>
sessionVars == <<m_tracks_initialized, m_session_start>>
callVars    == <<at, medium, closing, calls, whip, overlapped, crashed>>
vars == <<m_publishing, m_queue, sendVars, workerVars, pusherVars, sessionVars, callVars>>

Actors == {"caller", "signaling"}
None == "none"
Frames == 1 .. MaxCaptures
Starting == {"tracks", "clear", "flag", "thread"}
Stopping == {"exchange", "notify", "join", "release", "stopped", "close"}

Init ==
    /\ m_publishing = [m \in Media |-> FALSE]
    /\ m_encoder = [m \in Media |-> 0]
    /\ m_pcm = 0
    /\ m_queue = [m \in Media |-> <<>>]
    /\ m_drop_count = 0 /\ m_send_failures = 0
    /\ control = Uninitialized
    /\ m_worker = [m \in Media |-> FALSE]
    /\ loop = [m \in Media |-> "none"]
    /\ in_hand = [m \in Media |-> 0]
    /\ pusher = [m \in Media |-> "idle"]
    /\ shot = [m \in Media |-> 0]
    /\ captured = 0
    /\ m_tracks_initialized = FALSE /\ m_session_start = 0
    /\ at = [a \in Actors |-> "idle"]
    /\ medium = [a \in Actors |-> None]
    /\ closing = [a \in Actors |-> FALSE]
    /\ calls = 0 /\ whip = 0
    /\ overlapped = FALSE /\ crashed = FALSE

-----------------------------------------------------------------------------
(* The capture callback.                                                    *)

\* The worker holds the queue's mutex while it decides to sleep.
QueueFree(m) == loop[m] # "drowsy"

\* A frame of a medium that is not published is ignored.
PushFrame(m) ==
    /\ pusher[m] = "idle"
    /\ m_publishing[m]
    /\ captured < MaxCaptures /\ ~overlapped
    /\ captured' = captured + 1
    /\ pusher' = [pusher EXCEPT ![m] = "push"]
    /\ shot' = [shot EXCEPT ![m] = captured']
    /\ UNCHANGED <<m_publishing, m_queue, sendVars, workerVars, sessionVars, callVars>>

\* A worker that waits is woken up and looks at the queue again.
Woken(m) == [loop EXCEPT ![m] = IF @ = "waiting" THEN "test" ELSE @]

\* A full queue loses its oldest frame.
PushQueue(m) ==
    LET full == Len(m_queue[m]) >= Capacity[m] IN
    /\ pusher[m] = "push"
    /\ QueueFree(m)
    /\ m_queue' = [m_queue EXCEPT ![m] = Append(IF full THEN Tail(@) ELSE @, shot[m])]
    /\ m_drop_count' = IF full /\ m = "video" THEN m_drop_count + 1 ELSE m_drop_count
    /\ loop' = Woken(m)
    /\ pusher' = [pusher EXCEPT ![m] = "idle"]
    /\ shot' = [shot EXCEPT ![m] = 0]
    /\ UNCHANGED <<m_publishing, m_encoder, m_pcm, m_send_failures, control, m_worker,
                   in_hand, captured, sessionVars, callVars>>

Capture(m) == PushFrame(m) \/ PushQueue(m)

-----------------------------------------------------------------------------
(* The worker thread.                                                       *)

LoopGoes(m, from, to) == loop[m] = from /\ loop' = [loop EXCEPT ![m] = to]

\* The predicate of the condition variable is false.
NothingToDo(m) ==
    /\ LoopGoes(m, "test", "drowsy")
    /\ m_publishing[m] /\ m_queue[m] = <<>>
    /\ UNCHANGED <<m_publishing, m_queue, sendVars, m_worker, in_hand, pusherVars,
                   sessionVars, callVars>>

\* The mutex is released and the thread sleeps, in one.
FallAsleep(m) ==
    /\ LoopGoes(m, "drowsy", "waiting")
    /\ UNCHANGED <<m_publishing, m_queue, sendVars, m_worker, in_hand, pusherVars,
                   sessionVars, callVars>>

WakeForNothing(m) ==
    /\ LoopGoes(m, "waiting", "test")
    /\ UNCHANGED <<m_publishing, m_queue, sendVars, m_worker, in_hand, pusherVars,
                   sessionVars, callVars>>

TakeFrame(m) ==
    /\ LoopGoes(m, "test", IF m = "video" THEN "evaluate" ELSE "encode")
    /\ m_queue[m] # <<>>
    /\ in_hand' = [in_hand EXCEPT ![m] = Head(m_queue[m])]
    /\ m_queue' = [m_queue EXCEPT ![m] = Tail(@)]
    /\ UNCHANGED <<m_publishing, sendVars, m_worker, pusherVars, sessionVars, callVars>>

\* The worker returns when it is told to and the queue is empty; the audio
\* worker flushes its encoder first.
LeaveLoop(m) ==
    /\ LoopGoes(m, "test", IF m = "video" THEN "ended" ELSE "flush")
    /\ ~m_publishing[m] /\ m_queue[m] = <<>>
    /\ UNCHANGED <<m_publishing, m_queue, sendVars, m_worker, in_hand, pusherVars,
                   sessionVars, callVars>>

NotYetTime ==
    /\ LoopGoes("video", "evaluate", "encode")
    /\ UNCHANGED <<m_publishing, m_queue, sendVars, m_worker, in_hand, pusherVars,
                   sessionVars, callVars>>

\* A bitrate the encoder refuses locks the controller at the one before.
Applied(encoder, updated, refused) ==
    CASE updated.m_current_bitrate = control.m_current_bitrate ->
            [control |-> updated, encoder |-> encoder]
      [] updated.m_current_bitrate # control.m_current_bitrate /\ ~refused ->
            [control |-> updated, encoder |-> updated.m_current_bitrate]
      [] updated.m_current_bitrate # control.m_current_bitrate /\ refused ->
            [control |-> LET last == control.m_current_bitrate
                         IN  ControllerInitialize(last, last, last),
             encoder |-> encoder]

\* The counters are read and cleared, whatever the controller makes of them.
EvaluateVideoBitrate(time, refused) ==
    LET updated == ControllerUpdate(control,
                        [sample_duration    |-> time,
                         queue_depth        |-> Len(m_queue["video"]),
                         queue_drop_count   |-> m_drop_count,
                         send_failure_count |-> m_send_failures])
        applied == Applied(m_encoder["video"], updated, refused)
    IN  /\ LoopGoes("video", "evaluate", "encode")
        /\ m_encoder["video"] = 0 => refused
        /\ m_drop_count' = 0 /\ m_send_failures' = 0
        /\ control' = applied.control
        /\ m_encoder' = [m_encoder EXCEPT !["video"] = applied.encoder]
        /\ UNCHANGED <<m_publishing, m_queue, m_pcm, m_worker, in_hand, pusherVars,
                       sessionVars, callVars>>

\* Encode makes a picture; it may fail, skip the frame or have no encoder.
EncodeVideo ==
    \/ /\ LoopGoes("video", "encode", "send")
       /\ m_encoder["video"] # 0
       /\ UNCHANGED <<m_publishing, m_queue, sendVars, m_worker, in_hand, pusherVars,
                      sessionVars, callVars>>
    \/ /\ LoopGoes("video", "encode", "test")
       /\ in_hand' = [in_hand EXCEPT !["video"] = 0]
       /\ UNCHANGED <<m_publishing, m_queue, sendVars, m_worker, pusherVars,
                      sessionVars, callVars>>

\* The encoder works on packets of 20 ms: a frame may leave a rest for the
\* next, and a gap in the capture times discards what was left.
EncodeAudio ==
    \/ /\ m_encoder["audio"] # 0
       /\ \E first \in {in_hand["audio"]} \cup ({m_pcm} \ {0}) :
             \/ /\ LoopGoes("audio", "encode", "test")
                /\ m_pcm' = first
                /\ in_hand' = [in_hand EXCEPT !["audio"] = 0]
             \/ /\ LoopGoes("audio", "encode", "send")
                /\ m_pcm' \in {0, in_hand["audio"]}
                /\ in_hand' = [in_hand EXCEPT !["audio"] = first]
       /\ UNCHANGED <<m_publishing, m_queue, m_encoder, m_drop_count, m_send_failures,
                      control, m_worker, pusherVars, sessionVars, callVars>>
    \/ /\ LoopGoes("audio", "encode", "test")       \* no encoder, or it failed
       /\ m_pcm' \in {0, m_pcm}
       /\ in_hand' = [in_hand EXCEPT !["audio"] = 0]
       /\ UNCHANGED <<m_publishing, m_queue, m_encoder, m_drop_count, m_send_failures,
                      control, m_worker, pusherVars, sessionVars, callVars>>

\* The first frame sent is the origin of the RTP timestamps of both media.
RelativeTo(frame) ==
    m_session_start' = IF m_session_start = 0 THEN frame ELSE m_session_start

\* Without an open track the frame is lost; sendFrame may throw.
SendFrame(m) ==
    /\ LoopGoes(m, "send", "test")
    /\ in_hand' = [in_hand EXCEPT ![m] = 0]
    /\ \/ UNCHANGED <<m_session_start, m_send_failures>>
       \/ /\ m_tracks_initialized
          /\ RelativeTo(in_hand[m])
          /\ \/ UNCHANGED m_send_failures
             \/ m = "video" /\ m_send_failures' = m_send_failures + 1
    /\ UNCHANGED <<m_publishing, m_queue, m_encoder, m_pcm, m_drop_count, control,
                   m_worker, pusherVars, m_tracks_initialized, callVars>>

\* Mutant: the worker forgets what the encoder holds.
Mutant_Flush ==
    /\ LoopGoes("audio", "flush", "ended")
    /\ UNCHANGED <<m_publishing, m_queue, sendVars, m_worker, in_hand, pusherVars,
                   sessionVars, callVars>>

\* The rest is filled up with silence and sent.
Flush ==
    /\ LoopGoes("audio", "flush", "ended")
    /\ m_pcm' = IF m_encoder["audio"] # 0 THEN 0 ELSE m_pcm
    /\ \/ UNCHANGED m_session_start
       \/ m_encoder["audio"] # 0 /\ m_pcm # 0 /\ m_tracks_initialized /\ RelativeTo(m_pcm)
    /\ UNCHANGED <<m_publishing, m_queue, m_encoder, m_drop_count, m_send_failures,
                   control, m_worker, in_hand, pusherVars, m_tracks_initialized, callVars>>

Loop(m) ==
    \/ NothingToDo(m)
    \/ FallAsleep(m)
    \/ TakeFrame(m)
    \/ LeaveLoop(m)
    \/ SendFrame(m)
    \/ m = "video" /\ (NotYetTime \/ EncodeVideo)
    \/ m = "video" /\ \E time \in SampleTimes, refused \in BOOLEAN :
                          EvaluateVideoBitrate(time, refused)
    \/ m = "audio" /\ (EncodeAudio \/ Flush)

-----------------------------------------------------------------------------
(* Start and Stop of a medium, and Close.                                   *)

Goes(a, from, to) == at[a] = from /\ at' = [at EXCEPT ![a] = to]

\* Two threads at work on the transport at once.
Begin(a) == overlapped' = (overlapped \/ \E b \in Actors \ {a} : at[b] # "idle")

\* Bound: nothing new is begun once the two threads met.
NewCall == ~overlapped /\ calls < MaxCalls /\ calls' = calls + 1

\* An encoder is there and, for video, the controller of its bitrate; when it
\* cannot be made the call returns.
InitializeEncoder(m) ==
    /\ m_encoder' = [m_encoder EXCEPT ![m] = IF m = "video" THEN TargetBitrate ELSE 1]
    /\ control' = IF m = "video"
                  THEN ControllerInitialize(MinBitrate, TargetBitrate, TargetBitrate)
                  ELSE control
    /\ m_pcm' = IF m = "audio" THEN 0 ELSE m_pcm

StartPublish(m) ==
    /\ Goes("caller", "idle", "tracks")
    /\ NewCall
    /\ ~m_publishing[m]
    /\ medium' = [medium EXCEPT !["caller"] = m]
    /\ Begin("caller")
    /\ InitializeEncoder(m)
    /\ UNCHANGED <<m_publishing, m_queue, m_drop_count, m_send_failures, workerVars,
                   pusherVars, sessionVars, closing, whip, crashed>>

StartReturns(from) ==
    /\ Goes("caller", from, "idle")
    /\ medium' = [medium EXCEPT !["caller"] = None]

Starts == medium["caller"]

\* DropEncoder: what is left in it goes with it.
DropEncoder(m) ==
    /\ m_encoder' = [m_encoder EXCEPT ![m] = 0]
    /\ m_pcm' = IF m = "audio" THEN 0 ELSE m_pcm

\* Making the tracks and the offer, which leads to a WHIP request.
SetupPublishTracks ==
    /\ \/ /\ Goes("caller", "tracks", "clear")
          /\ m_tracks_initialized' = TRUE
          /\ whip' = IF m_tracks_initialized THEN whip ELSE whip + 1
          /\ UNCHANGED <<m_encoder, m_pcm, medium>>
       \/ /\ StartReturns("tracks")
          /\ ~m_tracks_initialized
          /\ DropEncoder(Starts)
          /\ UNCHANGED <<m_tracks_initialized, whip>>
    /\ UNCHANGED <<m_publishing, m_queue, m_drop_count, m_send_failures, control,
                   workerVars, pusherVars, m_session_start, closing, calls, overlapped,
                   crashed>>

ResetFeedback(m) ==
    IF m = "video" THEN m_drop_count' = 0 /\ m_send_failures' = 0
    ELSE UNCHANGED <<m_drop_count, m_send_failures>>

ClearQueue ==
    /\ Goes("caller", "clear", "flag")
    /\ QueueFree(Starts)
    /\ m_queue' = [m_queue EXCEPT ![Starts] = <<>>]
    /\ ResetFeedback(Starts)
    /\ UNCHANGED <<m_publishing, m_encoder, m_pcm, control, workerVars, pusherVars,
                   sessionVars, medium, closing, calls, whip, overlapped, crashed>>

SetPublishing ==
    /\ Goes("caller", "flag", "thread")
    /\ m_publishing' = [m_publishing EXCEPT ![Starts] = TRUE]
    /\ UNCHANGED <<m_queue, sendVars, workerVars, pusherVars, sessionVars,
                   medium, closing, calls, whip, overlapped, crashed>>

\* Assigning to a std::thread that still holds one terminates the process.
StartWorker ==
    /\ StartReturns("thread")
    /\ IF m_worker[Starts]
       THEN crashed' = TRUE /\ UNCHANGED <<m_worker, loop>>
       ELSE /\ m_worker' = [m_worker EXCEPT ![Starts] = TRUE]
            /\ loop' = [loop EXCEPT ![Starts] = "test"]
            /\ UNCHANGED crashed
    /\ UNCHANGED <<m_publishing, m_queue, sendVars, in_hand, pusherVars, sessionVars,
                   closing, calls, whip, overlapped>>

\* The thread cannot be created.
StartWorkerFails ==
    /\ StartReturns("thread")
    /\ m_publishing' = [m_publishing EXCEPT ![Starts] = FALSE]
    /\ DropEncoder(Starts)
    /\ UNCHANGED <<m_queue, m_drop_count, m_send_failures, control, workerVars,
                   pusherVars, sessionVars, closing, calls, whip, overlapped, crashed>>

StopPublish(m) ==
    /\ Goes("caller", "idle", "exchange")
    /\ NewCall
    /\ medium' = [medium EXCEPT !["caller"] = m]
    /\ Begin("caller")
    /\ UNCHANGED <<m_publishing, m_queue, sendVars, workerVars, pusherVars, sessionVars,
                   closing, whip, crashed>>

\* Close stops video first.
FirstMedium == IF "video" \in Media THEN "video" ELSE "audio"

CloseBegins(a, from) ==
    /\ Goes(a, from, "exchange")
    /\ medium' = [medium EXCEPT ![a] = FirstMedium]
    /\ closing' = [closing EXCEPT ![a] = TRUE]

\* Uninit of the engine.
Close ==
    /\ CloseBegins("caller", "idle")
    /\ NewCall
    /\ Begin("caller")
    /\ UNCHANGED <<m_publishing, m_queue, sendVars, workerVars, pusherVars, sessionVars,
                   whip, crashed>>

\* A WHIP request fails: the signaling thread closes the transport.
WhipFails ==
    /\ CloseBegins("signaling", "idle")
    /\ whip > 0 /\ ~overlapped
    /\ whip' = whip - 1
    /\ Begin("signaling")
    /\ UNCHANGED <<m_publishing, m_queue, sendVars, workerVars, pusherVars, sessionVars,
                   calls, crashed>>

\* Neither the flag nor the notification is under the queue's mutex.
ClearPublishing(a) ==
    /\ Goes(a, "exchange", "notify")
    /\ m_publishing' = [m_publishing EXCEPT ![medium[a]] = FALSE]
    /\ UNCHANGED <<m_queue, sendVars, workerVars, pusherVars, sessionVars,
                   medium, closing, calls, whip, overlapped, crashed>>

\* Mutant: nobody is told.
Mutant_NotifyWorker(a) ==
    /\ Goes(a, "notify", IF m_worker[medium[a]] THEN "join" ELSE "release")
    /\ UNCHANGED <<m_publishing, m_queue, sendVars, workerVars, pusherVars,
                   sessionVars, medium, closing, calls, whip, overlapped, crashed>>

\* Only a joinable thread is joined.
NotifyWorker(a) ==
    /\ Goes(a, "notify", IF m_worker[medium[a]] THEN "join" ELSE "release")
    /\ loop' = Woken(medium[a])
    /\ UNCHANGED <<m_publishing, m_queue, sendVars, m_worker, in_hand, pusherVars,
                   sessionVars, medium, closing, calls, whip, overlapped, crashed>>

\* Mutant: the worker is not waited for.
Mutant_JoinWorker(a) ==
    /\ Goes(a, "join", "release")
    /\ m_worker[medium[a]]
    /\ m_worker' = [m_worker EXCEPT ![medium[a]] = FALSE]
    /\ UNCHANGED <<m_publishing, m_queue, sendVars, loop, in_hand, pusherVars,
                   sessionVars, medium, closing, calls, whip, overlapped, crashed>>

JoinWorker(a) ==
    /\ Goes(a, "join", "release")
    /\ m_worker[medium[a]] /\ loop[medium[a]] = "ended"
    /\ m_worker' = [m_worker EXCEPT ![medium[a]] = FALSE]
    /\ loop' = [loop EXCEPT ![medium[a]] = "none"]
    /\ UNCHANGED <<m_publishing, m_queue, sendVars, in_hand, pusherVars,
                   sessionVars, medium, closing, calls, whip, overlapped, crashed>>

\* Another thread has joined it meanwhile: join returns or throws.  The
\* signaling thread logs the exception and gives up the rest of its task;
\* nobody catches it above the caller.
JoinTwice(a) ==
    /\ at[a] = "join" /\ ~m_worker[medium[a]]
    /\ \/ Goes(a, "join", "release") /\ UNCHANGED <<medium, closing, crashed>>
       \/ /\ Goes(a, "join", "idle")
          /\ medium' = [medium EXCEPT ![a] = None]
          /\ closing' = [closing EXCEPT ![a] = FALSE]
          /\ crashed' = (a = "caller")
    /\ UNCHANGED <<m_publishing, m_queue, sendVars, workerVars, pusherVars,
                   sessionVars, calls, whip, overlapped>>

\* The end of StopPublishVideo and StopPublishAudio.
ReleaseMedium(a) ==
    LET m == medium[a]
        again == closing[a] /\ m = "video" /\ "audio" \in Media
    IN  /\ Goes(a, "release", IF again THEN "exchange"
                              ELSE IF closing[a] THEN "close" ELSE "stopped")
        /\ QueueFree(m)
        /\ m_queue' = [m_queue EXCEPT ![m] = <<>>]
        /\ DropEncoder(m)
        /\ control' = IF m = "video" THEN ControllerReset(control) ELSE control
        /\ ResetFeedback(m)
        /\ medium' = IF again THEN [medium EXCEPT ![a] = "audio"] ELSE medium
        /\ UNCHANGED <<m_publishing, workerVars, pusherVars, sessionVars,
                       closing, calls, whip, overlapped, crashed>>

\* The transport stays open while another medium is published.
StopReturns ==
    /\ Goes("caller", "stopped", "idle")
    /\ \E m \in Media : m_publishing[m]
    /\ medium' = [medium EXCEPT !["caller"] = None]
    /\ UNCHANGED <<m_publishing, m_queue, sendVars, workerVars, pusherVars, sessionVars,
                   closing, calls, whip, overlapped, crashed>>

CloseAfterStop ==
    /\ CloseBegins("caller", "stopped")
    /\ \A m \in Media : ~m_publishing[m]
    /\ UNCHANGED <<m_publishing, m_queue, sendVars, workerVars, pusherVars, sessionVars,
                   calls, whip, overlapped, crashed>>

CloseTracks(a) ==
    /\ Goes(a, "close", "idle")
    /\ m_tracks_initialized' = FALSE
    /\ m_session_start' = 0
    /\ medium' = [medium EXCEPT ![a] = None]
    /\ closing' = [closing EXCEPT ![a] = FALSE]
    /\ UNCHANGED <<m_publishing, m_queue, sendVars, workerVars, pusherVars,
                   calls, whip, overlapped, crashed>>

Continue(a) ==
    \/ ClearPublishing(a)
    \/ NotifyWorker(a)
    \/ JoinWorker(a)
    \/ JoinTwice(a)
    \/ ReleaseMedium(a)
    \/ CloseTracks(a)

CallerContinues ==
    \/ SetupPublishTracks
    \/ ClearQueue
    \/ SetPublishing
    \/ StartWorker
    \/ StartWorkerFails
    \/ StopReturns
    \/ CloseAfterStop
    \/ Continue("caller")

Calls == Close \/ \E m \in Media : StartPublish(m) \/ StopPublish(m)

-----------------------------------------------------------------------------
Next ==
    /\ ~crashed
    /\ \/ Calls
       \/ CallerContinues
       \/ WhipFails
       \/ Continue("signaling")
       \/ \E m \in Media : Capture(m) \/ Loop(m) \/ WakeForNothing(m)

Spec == Init /\ [][Next]_vars

\* The system runs its threads; nobody has to call, to capture or to wake up
\* without a reason.
FairSpec ==
    /\ Spec
    /\ WF_vars(~crashed /\ CallerContinues)
    /\ WF_vars(~crashed /\ Continue("signaling"))
    /\ \A m \in Media : /\ WF_vars(~crashed /\ PushQueue(m))
                        /\ WF_vars(~crashed /\ Loop(m))

-----------------------------------------------------------------------------
TypeOK ==
    /\ m_publishing \in [Media -> BOOLEAN]
    /\ m_encoder \in [Media -> Nat]
    /\ m_pcm \in Nat
    /\ m_queue \in [Media -> Seq(Nat)]
    /\ m_drop_count \in Nat /\ m_send_failures \in Nat
    /\ control \in Controllers
    /\ m_worker \in [Media -> BOOLEAN]
    /\ loop \in [Media -> {"none", "test", "drowsy", "waiting", "evaluate", "encode",
                           "send", "flush", "ended"}]
    /\ in_hand \in [Media -> Nat]
    /\ pusher \in [Media -> {"idle", "push"}]
    /\ shot \in [Media -> Nat]
    /\ captured \in Nat
    /\ m_tracks_initialized \in BOOLEAN /\ m_session_start \in Nat
    /\ at \in [Actors -> {"idle"} \cup Starting \cup Stopping]
    /\ medium \in [Actors -> Media \cup {None}]
    /\ closing \in [Actors -> BOOLEAN]
    /\ calls \in Nat /\ whip \in Nat
    /\ overlapped \in BOOLEAN /\ crashed \in BOOLEAN

Alive(m) == loop[m] \notin {"none", "ended"}
Resting == \A a \in Actors : at[a] = "idle"

\* Whatever was started and stopped before, when nobody is starting or
\* stopping, a published medium has its worker and its encoder, and a medium
\* that is not published has neither a thread nor an encoder.  This is lost
\* when the signaling thread closes the transport during a call.
WorkersMatchMedia ==
    Resting /\ ~overlapped => \A m \in Media :
        /\ m_publishing[m] => m_worker[m] /\ Alive(m) /\ m_encoder[m] # 0
        /\ ~m_publishing[m] => /\ ~m_worker[m] /\ loop[m] = "none"
                               /\ m_encoder[m] = 0

\* The process is never terminated by its threads: no thread object is
\* overwritten and none is joined twice, as long as the signaling thread does
\* not close the transport during a call.
ThreadsJoinedOnce == crashed => overlapped

\* The bitrate the controller reckons with is the one the encoder works at,
\* also after the encoder has refused one.
BitrateInStep ==
    "video" \in Media /\ ~overlapped /\ loop["video"] # "none" =>
        m_encoder["video"] = control.m_current_bitrate

\* Pressure on the sender and recovery from it never take the bitrate out of
\* the range of the resolution.
BitrateInRange ==
    control.m_initialized =>
        /\ control.m_current_bitrate \in control.min .. control.max
        /\ MinBitrate <= control.min /\ control.max <= TargetBitrate

\* The variables keep their types; the workers are those of the media that are
\* published, and no thread is joined twice unless two calls overlap; the controller
\* of the bitrate agrees with the encoder, and keeps to the range it was given.
PushInvariant ==
    TypeOK /\ WorkersMatchMedia /\ ThreadsJoinedOnce /\ BitrateInStep /\ BitrateInRange

\* The audio encoder is never taken away with sound in it that could have
\* been sent: the worker flushes it before it returns.
AudioDrained ==
    [][~overlapped' /\ "audio" \in Media /\ m_encoder["audio"] # 0
         /\ m_encoder'["audio"] = 0 => m_pcm = 0]_vars

\* Both media count from one origin: it never moves while a worker may send.
OneOrigin ==
    [][m_session_start # 0 /\ m_session_start' # m_session_start /\ ~overlapped
         => \A m \in Media : ~Alive(m)]_vars

\* A stop takes nothing away that was to be sent, and both media keep one origin
\* of their time lines.
NothingTornAway == AudioDrained /\ OneOrigin

\* The flag was cleared after the worker had looked at it and before it sleeps:
\* the notification may come before it sleeps and wake nobody.
Oversleeps(m) == loop[m] = "drowsy" /\ ~m_publishing[m]

StopWaits(a) == at[a] \in {"notify", "join"}

\* A stop gets past its worker, unless the worker oversleeps or a start under
\* way sets the flag again.
StopEnds ==
    \A a \in Actors : at[a] = "notify" ~>
        ~StopWaits(a) \/ overlapped \/ Oversleeps(medium[a])

\* What the header says of StopPublishVideo and StopPublishAudio: a stop releases
\* the worker thread and the encoder.  A worker that oversleeps breaks it.
StopReleases == \A a \in Actors : at[a] = "notify" ~> ~StopWaits(a) \/ overlapped

=============================================================================
