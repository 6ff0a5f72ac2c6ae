# Verification of multi-user-meeting

TLA+ models of the meeting system in `src/`, TLC runs that check them on small
instances, and TLAPS proofs of what holds for instances of every size. Paths below are
relative to `src/`; `PROJECT.json` gives for each definition the lines it stands for.

## 1. The system

A meeting is held by one **server** (`VideoConferenceServer/`), any number of **desktop
clients** (`VideoConferenceClient/` on top of the engine library
`VideoConferenceEngine/`), and a media server (SRS) that is not part of the repository.
A client talks gRPC to the meeting server and WHIP/WHEP (HTTP) plus RTP to the media
server.

| component | state | operations | modules |
|---|---|---|---|
| `InMemoryMeetingStore` with `MeetingServiceImpl`, `UserServiceImpl` | users, logins, meetings, index user -> meeting, subscriptions with an event queue each, a running handler per event stream; one mutex | register, login, create, join, leave, end, subscribe, unsubscribe; the stream handler loops over `WaitNext` / `IsClosed` / `Write`; the list of meetings, page by page | `MeetingStore`, `MeetingRoster`, `MeetingList` |
| `MeetingService`, `ServiceManager`, `UserService` (client) | gRPC stub, event thread, `m_event_running` | unary RPCs with a deadline; start, stop and run the event thread | `ConferenceClient` |
| `VceEngineImpl` | current meeting, subscribed users, media state of every remote user, camera/mic flags, observers | create, join, leave, end, open/close camera and mic, select a device, callbacks from service, transport and capture | `ConferenceClient`, `MediaCapture`, `RemoteMedia` |
| `TransportManager`, `TransportEngine` | publish generation and resource, one pull session per remote user, signaling task queue | start/stop publishing, subscribe/unsubscribe, WHIP/WHEP tasks on the signaling thread | `PublishSignaling`, `PullSignaling` |
| `RtcPushTransport` | tracks, encoders, bounded frame queues, worker threads, bitrate controller | start/stop, push a frame, encode and send | `PushTransport`, `VideoBitrate`, `PublishCodecs` |
| `RtcPullTransport` | tracks, decoders, bounded frame queues, worker threads, timebase | subscribe, receive, decode and deliver, switch the timebase, close | `PullTransport`, `MediaTimebase`, `RtpNtpTimeMapper` |
| `VideoRtpReorderBuffer` | frames being assembled | put a packet in, release, drop, reset | `VideoRtpReorder` |
| `OpusCodec`, `H264Codec` | PCM and packet buffers, timestamps, bitrate range | initialize, encode, flush, decode, conceal, set the bitrate | `OpusCodec`, `H264Codec`, `PublishCodecs` |
| `AudioMixer`, `TimestampedAudioBuffer`, `AdaptiveJitterController` | PCM ring and jitter target per user, mixed chunks, playback clock | push, mix, play, remove a user, reset the time line, stop | `AudioMixer`, `TimestampedAudio`, `AdaptiveJitter` |
| `AudioRender` | worker thread, one command, the output device | initialize, list, switch, shut down | `AudioOutput` |
| `RenderManager`, `RenderEngine`, `UserContext`, `AVSyncController`, `VideoRender` and the OpenGL framework | frames, AV sync state and GL objects per user | add/remove/draw/resize a user, push a frame | `RenderEngine`, `UserContext`, `VideoRender` |
| `CaptureManager`, `CaptureEngine` | libobs, sources, callbacks, selected devices | initialize, list, select, open, close, shut down | `CaptureManager`, `CaptureEngine`, `MediaCapture` |
| `MainWindow`, `MeetingEventBridge`, pages | current page, meeting id, tiles, Qt's queue of notices | UI handlers; events queued to the UI thread | `ConferenceClient`, `MediaCapture`, `RemoteMedia` |

Hard behaviours: store requests interleave with stream handlers that take their own
locks; the client's event thread races with the UI thread that joins, leaves and cleans
up; WHIP/WHEP requests run on a signaling thread while sessions are opened and closed;
worker threads are stopped with a flag and a condition variable; the mixer computes
outside its lock; libobs waits for a callback that comes back into the caller; an RPC may
time out after the server executed it; packets are lost, repeated and reordered. The
hazards of `PROJECT.json` stand each at its line, with the properties that cover it.

A run whose constants can be written in its `.cfg` names the module itself; where it needs
definitions (a function of the constants, assumptions that TLC evaluates) an `MC...` module has
them. Where a run asks for
an invariant with several parts, such as `PushInvariant`, the parts are named conjuncts
with a comment each. A `CHECK_DEADLOCK FALSE` is there wherever the modelled part may
stop: a client that has shut down, a transport that is closed, a stream that has ended, a
bound that is used up. Only the two runs of the server check deadlock: its handlers and
clients always can do something.

## 2. The meeting server (`MeetingStore`, `MeetingRoster`, `MeetingList`)

`MeetingStore` models `InMemoryMeetingStore.cpp` and the handlers of the two services. The
variables have the names of the members they stand for (`m_meetings`, `m_user_meetings`,
`m_subscriptions`, `m_events`, `m_closed`, ...). A store operation runs under `m_mutex` and
is one action (`AccountRequest` has those of `UserServiceImpl.cpp`, `UserRequest` those of
`MeetingServiceImpl.cpp`); a stream handler takes one step per lock it acquires
(`CheckCancelled`, `WaitNext`, `WaitNextEmpty`, `CheckClosed`, `WriteEvent`, `WriteFails`,
`UnsubscribeMeetingEvents`), so requests interleave with it between any two. A request that
the store rejects changes nothing; its outcome is an operator (`JoinError`, ...) and only
the successful outcome is an action. `view` replays what a stream has written and `in_hand`
is the event popped but not yet written.

`MeetingRoster` is the abstract specification: who is at which meeting and which meetings
are open. `MeetingStore` implements it under the mapping `at <- m_user_meetings`,
`status <- MeetingStatus`.

`MeetingList` has `GetMeetingList` of the store, of the service and of the client as
operators, because a request for the list changes nothing: the order, the pages, the errors and
what the client hands out. A page is what the list is at the moment of its request, and a reader
gets the next one later. `MCMeetingStore` states as assumptions that TLC evaluates that the list
is what sorting gives and that the pages make it up, for lists of up to 4 meetings, some with the
same start, whose ids 8 to 11 are in another order as strings than as numbers, with 1 to 3
meetings on a page; section 10 proves more about any list.

| run | question | bounds, and why they are enough |
|---|---|---|
| `StoreStreams` | Do the participant lists, the index, the active flags, the list of subscriptions and the handlers agree, does the store implement the roster, does an open stream show exactly the participants, and does the handler of a closed or cancelled stream return? | 2 users, 2 streams: both belong to one user (re-subscription) or to two (events cross). `MaxMeetings = 1`: a meeting is created, filled, emptied and ended. `MaxQueue = 2`: a queue holds two events that could be swapped. What more users and meetings would add is proved (section 10). |
| `StoreEndRace` | Does the event that ends a meeting reach a connected reader, as the comment of `WaitNext` says? It does not. | 2 users, 1 stream |

`StreamEnds` needs fairness of the handler steps of each stream only: gRPC gives a running
handler its own thread, `WaitNext` waits 500 ms at most, and `Write` to a client that is
gone fails. No fairness is assumed of clients. `MaxMeetings` bounds the meeting counter, and
`MaxQueue` bounds the queues by refusing store requests that would overflow one; the code
has no such limit. There is one password: a wrong one only makes a login fail.

## 3. One client with the server (`ConferenceClient`)

`ConferenceClient` extends `MeetingStore` with one desktop client, `Me`; the other users
act on the server directly (`OtherRequest`). Two threads are modelled:

* the **UI thread** (`ui`): a click runs `MainWindow`, `VceEngineImpl` and `MeetingService`
  synchronously. Its stages are the points between which the event thread can interfere:
  stop the old event thread, join it, start the new one, `SetRoomInfo`, and per participant
  the test under the lock (`CheckParticipant`) and the subscription after it
  (`SubscribeParticipant`); for an exit the request, stop, join, cleanup; for a failed join
  the undo.
* the **event thread** (`thread`): `Read`, the handling of an event by the engine - again
  with the test under the lock apart from what follows it - and the end of the stream with
  `Finish`.

`pulls` stands for a subscription with all its engine state, `tiles` for the windows of the
conference page, `ui_queue` for Qt's queued signals of `MeetingEventBridge`, `wire` for
events the server has written and the client has not read. Two points need an argument:

* A notice is delivered only between clicks, in posting order, and before the next click of
  a page that was posted to earlier: Qt delivers the posted events of a receiver in order
  when the thread returns to its event loop, and a click is such an event of its own.
* `CleanupMeetingMedia` is one step although it releases its lock between its parts: what
  another thread subscribes while it runs ends up as if it had been subscribed before or
  after the whole. (`RemoteMedia` has its parts as steps.)

`Faults` names what may fail in a run: `"answer"` (a deadline passes after the server has
executed a request), `"call"` (the event stream breaks or is refused), `"media"` (a
subscription fails), `"local"` (the thread or the engine fails on the client's machine).
`history` records what has disturbed the page, and the view properties except exactly that.

| run | question | bounds, and why they are enough |
|---|---|---|
| `ClientView` | With every kind of fault, do windows, pull sessions and server agree once everything is delivered, is nothing left after a confirmed exit, and does the UI thread always get back to its event loop? | 1 other user who may come and go any number of times, 1 stream, `MaxQueue = 2`, `MaxOnWay = 1`: a join, the leave and the next join are on their way together. |

`UiReturns` assumes weak fairness of the two threads and nothing of the server, because
every request has a deadline and a cancelled call returns.

## 4. Signaling

### Pulling remote users (`PullSignaling`)

`PullSignaling` models the pull side of `TransportEngine.cpp`: `SubscribeUserAV`,
`UnsubscribeUserAV`, `Uninit`, the callback that posts an offer and the WHEP task of the
signaling thread. Three actors:

* the **caller**. `TransportManager` holds its mutex for the whole of these three calls, so
  one at a time is running; its stages are the critical sections of `m_pull_mutex`, `Close`
  and the HTTP `DELETE`.
* **libdatachannel**, which reports once per session that gathering is complete
  (`HandleGatheringState`) and with it that the offer is ready (`HandlePullLocalDescription`).
  Either may come to nothing: the description is missing or taking it throws
  (`RtcTransportBase.cpp:342`, `:373`), or the SDP is empty or cannot be made
  (`TransportEngine.cpp:793`); no task is posted and the session is `"silent"`. `Close`
  resets the callbacks, so a closed session reports nothing. The test of `m_initialized`, the
  lookup and the posting are one step: a session can only leave the map in between, and then
  the task finds out itself.
* the **signaling thread**: take a task, check the session, send the request, check again,
  apply the answer, store the URL; and the ways out: failed request, refused answer,
  session gone. The request fails, or answers with or without a `Location` header.

A session is used once, so its name also stands for its offer, its WHEP resource and its
answer. `owed` holds the resources whose URL the client has been told and for which no
`DELETE` has been sent; resources the client never hears of, and a `DELETE` that fails, are
left to the media server.

| run | question | bounds, and why they are enough |
|---|---|---|
| `PullSessions` | Is every connection and every resource closed by exactly whoever has to, does an answer reach the session of its offer only, and does every subscription whose offer could be made get its answer or leave the map? | 2 users, 3 sessions: one user is subscribed three times over, or once while the other is subscribed twice, with the tasks of all in the queue. |

`EverySubscriptionSettles` assumes weak fairness of a caller within a call, of the signaling
thread (requests have a timeout of 15 s) and of the end of ICE gathering; nobody has to call.
It says nothing of a silent session: the code has no end for one but the unsubscription (see
section 11).

### Publishing (`PublishSignaling`)

`PublishSignaling` models the publish side of `TransportEngine.cpp` with
`RtcPushTransport::Start...`, `Stop...` and `Close` and `RtcTransportBase`. There is one
transport for audio and video (`publishing` is the set of the two flags that are set) and
one PeerConnection at a time; a new session gets the next `m_publish_generation`, and the
WHIP task carries the generation of its offer. What makes it hard is that `ClosePublish` is
run by the caller (a stop, `Uninit`) and by the signaling thread (a failed request, a
refused answer), while the caller may be starting a medium:

* `ClosePublish(a, from)` takes the generation and the URL in one critical section; the
  flags, the tracks, the PeerConnection pointer, its callbacks and the `DELETE` follow, each
  a step of actor `a` (`ContinueClose`). `CloseConnection` waits for a running callback, as
  `resetCallbacks` of libdatachannel does.
* `StartPublish` reads the flags under `m_state_mutex`; `OpenConnection`,
  `SetupPublishTracks`, `MakeOffer` and `Publishing` are the parts of the transport's
  `Start...`, none of them under that mutex. Every part but the last may fail; a
  `std::thread` that cannot be created is left out.
* The gathering report takes the description of whatever connection the transport has
  (`HandleGatheringState`) and then the generation of that moment
  (`HandlePublishLocalDescription`). A connection gathers once, at its first offer, so that a
  medium added later posts none. As on the pull side, either step may end without a task.

`owed` is as in `PullSignaling`. Two facts met on the way are checked by no run. A start that
overlaps the signaling thread's `Close` can end with a medium published and no connection;
the model reaches this, and no document promises otherwise. And `StartPublishAudio` copies
neither `whip_secret` nor the external address into the configuration, though
`VceTypes.h:185` says the WHIP address needs the secret: a session begun with the microphone
posts its offer without them. The model leaves the configuration out.

| run | question | bounds, and why they are enough |
|---|---|---|
| `PublishSessions` | Is every connection closed, and every resource deleted exactly once, by whichever thread, and does `Uninit` always end? | 3 connections, generation 5 when a call begins: a failure of the first session meets the second being closed and the third being started. |

`MaxGeneration` bounds the calls, not the steps of `ClosePublish`. `UninitCompletes` assumes
weak fairness of a caller within a call, of the signaling thread (a request has a timeout,
and the comment in `StopSignalingWorker` relies on it) and of the gathering report.

## 5. The media on their way out (`PushTransport` and what it drives)

`PushTransport` is `RtcPushTransport`: for each medium a capture callback that pushes
(`PushQueue`), a bounded queue, and a worker (`Loop`) that tests its flag, sleeps, takes a
frame, evaluates the bitrate, encodes, sends, and flushes at the end. The caller starts and
stops the media; the signaling thread closes both after a failed request (`at["signaling"]`).
A step is what a thread does under one lock or with one atomic, so the flag, the notification
and the wait are apart. `overlapped` remembers that the signaling thread closed the transport
during a call, and `crashed` that a thread object was overwritten or joined twice, which
terminates the process.

`VideoBitrate` is the controller of the bitrate, a record with its operations as operators;
`H264Codec` and `OpusCodec` are the codecs, in which every answer of OpenH264, libopus and
libsamplerate is a parameter and the state is a record; `PublishCodecs` derives the
configurations from the publish information. `OpusCodec` has the samples counted, not their
values: which become which packet, with which time, and what waits. The loop of the encoder
over a block is written in closed form (`EncodeBufferedFrames`), which the proofs need; the
assumption `LoopAgrees` of `MCPushTransport` compares it with the loop of the source for
buffers of up to 5 packets, and `ConfigsAccepted` checks the derived configurations with the
real constants (8000, 300, 6000, 200 kbit/s and `INT_MAX / 1000`).

| run | question | bounds, and why they are enough |
|---|---|---|
| `PushWorkers` | Do threads, encoders and bitrate match the media that are published (`PushInvariant`), is nothing torn away that was to be sent and do both media keep one origin (`NothingTornAway`), does a stop end (`StopEnds`)? | 2 frames captured, 3 calls, queues of one frame: a queue overflows, a medium is started again while the other goes on, and a close of the signaling thread meets each of them. Bitrate 3 to 4, so that a reduction by a quarter is rounded and clamped. |

`StopEnds` assumes weak fairness of a call under way and of each thread, and makes one
exception, `Oversleeps`: a worker that has tested the flag and not yet gone to sleep misses
the notification, because `RtcPushTransport.cpp:131` clears the flag and notifies without
the mutex of the queue, although the comment at `RtcPushTransport.h:58` says the worker is
released. The join then waits until another frame is pushed, and none is. `StopReleases` is the
same property without the exception. What `overlapped` excepts in `PushInvariant` is reached by
the model and not judged: two threads that stop one medium at once.

## 6. The media on their way in

### The reorder buffer (`VideoRtpReorder`)

A sender numbers its packets modulo `Modulus`, those of frame `f` up to `End[f]`; the network
loses, repeats and reorders them; the buffer collects them into frames, releases whole frames in
order, waits for what is missing and gives up when the wait or the number of frames is used up. A
frame of more than `MaxSpan` packets (4096 in the code) is never complete, so `ReorderAssumption`
has the sender send none. `Tick` is time, `IncomingOther` a message that is not media and still
makes the buffer look at its waits. `passed`, `received` and `dropped` record what left, came and
was given up.

The buffer does not know where the first frame begins, nor the one behind a frame it has given up:
the earliest packet it has then counts as the head (`VideoRtpReorderBuffer.cpp:190`). If the real
head is lost or still on its way, the rest leaves as a complete frame. `OnlyCompleteFrames` is what
the header promises, of frames behind one that has left, and the code violates it. `OutputUnbroken`
is what the code does give: what leaves is in order, each frame reaches its end without a hole
(`NoHoles`), a head is missing only where the beginning was guessed (`WholeUnlessGuessed`), and a
gap is a frame that was given up (`GapsAreDrops`).

| run | question | bounds, and why they are enough |
|---|---|---|
| `VideoReorder` | Are the numbers unwrapped and the buffer bounded, is what leaves in order, without holes and with every gap a reported drop, and does a frame whose end has come leave? | 4 frames of 1 or 2 packets, numbers modulo 8 from 6 on (they wrap at the second frame), `MaxSpan` 2, a limit of 2 frames, 1 repeated packet, 1 reset. |

`FramesLeave` assumes that time goes on and that messages keep coming (the sender's reports
do), and nothing of the packets that are missing.

### The pull transport (`PullTransport`, `MediaTimebase`, `RtpNtpTimeMapper`)

`PullTransport` is `RtcPullTransport`: the network's callbacks resolve the time of a frame,
clear the queues when the timebase changes and enqueue, each under its own lock; a worker per
medium takes frames, asks for a key frame and decodes; the caller subscribes and closes, the
signaling thread closes after a failed WHEP request. The time of a frame is its `epoch`, the
number of changes before it.

`RtpNtpTimeMapper` and `MediaTimebase` are the arithmetic of those times as operators: signed
differences of wrapping RTP timestamps, sender reports that are accepted or not, and the
switch of both media to the sender's clock. `MCPullTransport` checks for 164 timebases and
all reports over a small clock that `PullTransport` does what the arithmetic does
(`TimebaseAgrees`) and that a difference is the one of the counter (`DeltaIsSigned`).

| run | question | bounds, and why they are enough |
|---|---|---|
| `PullTransport` | Is nothing left after a close and everything there after a subscription, does no old time wait behind a change but in the one frame that was overtaken, is a key frame asked for before anything behind a loss is decoded, does a close return? | 3 video frames and 1 audio frame, queues of 2 and 1, 1 change of the timebase, 2 calls: the queue overflows, is cleared with a frame on its way, and is taken down meanwhile. |

Fairness: a call under way, the callbacks within their run and the workers. Two limits of
what is shown: after a discontinuity, a switch in the same call uses the fallback base of the
very first frame, so that the local time may jump when a sender restarts with other
timestamps (continuity, in section 10, is with the fallback time only); and of the decoders,
`ConcealLostPacket` is never called by the transport, so that concealment is in `OpusCodec`
and in no run.

## 7. What is heard and seen

### Mixing (`AudioMixer`, `TimestampedAudio`, `AdaptiveJitter`)

`TimestampedAudio` is the ring of one user. A sample is modelled by its media time, 0 is
silence, so that the model tells what is played when; gaps, overlaps, jumps and overflow are
those of the code. `AdaptiveJitter` is the controller of how much has to be buffered.
`AudioMixer` has the decode workers that push, the mixing thread that takes sound from every
ring under the lock, mixes it outside and queues it under the lock again, the sound card that
takes frames and counts underruns, and the calls that remove a user, reset the time line and
stop.

| run | question | bounds, and why they are enough |
|---|---|---|
| `AudioMixing` | Do ring and time line agree, is every sample mixed with those of its own time, is what is played in order but for a part of one late chunk, is nobody heard who was removed (`PlaybackCorrect`), and is a time line left that nobody has sound for (`PlaybackRecovers`)? | 2 users, 3 packets at the times 3, 12, 15, 22: adjacent, overlapping, with a gap and with a jump; a ring of 5 frames overflows; a packet and a chunk have 3 frames, the card asks for 2 or 3, so that chunks are taken in pieces; the threshold of underruns is 7 frames, more than two chunks, so that the cursor comes back to the value of a chunk being mixed; 1 call. |

`FindInitialMixTimestampUs` and the test of `HasBufferedAudioForChunk` each take the locks of the
users' rings, one after the other, and a push takes only those: `StartTimeline` and `ReserveChunk`
are two steps, and a push may come between them. `PlaybackRecovers` assumes that the
card keeps asking and that the mixing thread runs; nobody has to speak. The comments promise more
than it and `PlaybackCorrect` do: that no chunk is late (`QueueAheadOfClock`) and that every time
line nobody has sound for is left (`StallEnds`). The code breaks both (section 11).

### Drawing and the output device (`RenderEngine`, `UserContext`, `VideoRender`, `AudioOutput`)

`UserContext` decides, with its `AVSyncController`, which of the waiting frames is seen at a
drawing; a frame has a time and a number of arrival. `VideoRender` has every object of OpenGL
a window and the shared shader make, as a function from names to what is behind them; each
call that makes one may fail. `AudioOutput` is the worker of `AudioRender` with its one
command and two condition variables, and the retries of a switch: the target, the old device,
the default one. `RenderEngine` composes them with the playback clock.

| run | question | bounds, and why they are enough |
|---|---|---|
| `Rendering` | Does every object of the driver have an owner, is the picture that of the last frame, do device, worker and engine agree, does the picture never go back, does nothing wait for ever? | 1 user, 3 frames at 3 times, the second of another size, 2 speakers, 2 calls: a frame waits, is late, or belongs to a new stream while one of the old waits; each device of a switch fails. |

Fairness: the worker, the caller that waits for it, a device that plays, and for a user with
frames the drawing of his window (Qt repaints it by a timer). `WaitEnds` excepts a clock that
is set and stands still because no device plays (`RenderEngine.cpp:570`). `FramesInOrder`
says the picture never goes to a frame that both came earlier and is earlier: with two streams
in one buffer either order alone would be wrong. That `Uninitialize` deletes the objects of all
users takes for granted that some context of the sharing group is current.

### The camera and the microphone (`MediaCapture`, `CaptureManager`, `CaptureEngine`)

`CaptureEngine` is libobs with its sources and raw callbacks, `CaptureManager` the state
mutex and what is done under it, `MediaCapture` the pages, the engine and its managers
around it. The UI thread and the event thread have a list each of what is still to do; a step
runs its head and may put more before the rest. Frames come on threads of libobs, and removing
a callback waits for the one that runs.

| run | question | bounds, and why they are enough |
|---|---|---|
| `Capture` | Has every source an owner, is what the page shows what is open, captured and published, is everything off in the lobby, is no frame sent in a later meeting, does every call return? | 2 cameras, 1 microphone, 2 meetings: a device is changed between them, and a frame, a call or the notice of an end may be left over from the first. |

Fairness is strong for the work of a thread, because it competes for the mutex, and for the
delivery of the end of a meeting by Qt; weak for the frame callbacks. `LobbyIsOff` states the
comment at `MainWindow.cpp:824`. An open that crosses the cleanup of the event thread does
leave the camera on for a moment; the page's own `closeLocalMedia` then turns it off, which is
what `MediaEndsWithMeeting` and `LobbyIsOff` show.

### Remote users (`RemoteMedia`)

`RemoteMedia` composes what the client has of a remote user: membership, pull session, media
state, decode workers, user of the renderer and buffer of the mixer, window, and Qt's queue
between engine and page. Its steps are the locks of `VceEngineImpl`: a worker that brings a
first frame marks the user and tells the page later, while the event thread parts with him.

| run | question | bounds, and why they are enough |
|---|---|---|
| `Remote` | Are windows, users of the renderer and buffers made and removed together, is nothing left outside a meeting, does what is shown settle to what is received, and does it always? | 1 remote user who sends both media, 2 meetings, 2 entries: he is met, left and met again, in one meeting or in two. `MaxNotices = 1`: frames and new events start only while no notice waits; those already under way still post theirs. The two invariants were seen to hold with `MaxNotices = 2` too (596,108 states), which takes longer than a run should. |

Fairness: the two threads and the workers, strong for Qt's queue. Not in the bound: a join that
is undone after some of several users were subscribed. Not modelled: a context that cannot be
made current in `removeRenderUser`, and a page that fails to be entered. `unopened` are users
whose window was never made or drawn, and whose buffer in the mixer stays until the renderer
ends, which `NothingLeft` excepts (section 11); `strays` those subscribed behind a
cleanup. A click into the next meeting comes behind the notices already queued, so that of an old
meeting only what a worker tells late reaches the page of the next.

## 8. How long the runs take

On two workers: `PublishSessions` (122,000 states) a quarter of a minute, `PullSessions` and
`VideoReorder` (128,000) less than one, the others one to three and a half; the largest are
`AudioMixing` (735,000 states), `PullTransport` (725,000), `ClientView` (689,000), `PushWorkers`
(338,000) and `Remote` (294,000). What shows a violation ends within seconds.

## 9. Where properties come from

A property of this project relates two pieces of state or two moments, and most are wrong in a
state only two or three threads can reach together. For each there is a change of one
definition, the kind of mistake the code could contain (a lost reset, a missing lock, a
rollback that forgets one part), under which TLC finds the property violated in the same run;
they stand beside the definitions as `Mutant_...` and are listed in `PROJECT.json`.

## 10. What is proved

TLAPS proves, for any number of users, meetings, streams, sessions, packets and frames:

| theorem | property | argument |
|---|---|---|
| `ConferenceClientProofs!TypeCorrect` | `TypeOK` | inductive; handler steps by `HandlerType`, requests by `RequestType` |
| `ConferenceClientProofs!Membership` | `MembershipConsistent` | inductive together with `TypeOK`; the vector operations by `AppendParticipant`, `EraseParticipantSpec` |
| `ConferenceClientProofs!SubscriptionsCorrect` | `Subscribed` | inductive together with both; publishing and closing by `PublishEffect`, `CloseEffect` |
| `ConferenceClientProofs!ReadersKeepTrack` | `OpenStreamTracksMeeting` | inductive invariant `ReadInv` below, with the replay of a queue by `Replayed` |
| `ConferenceClientProofs!Refinement` | `ImplementsRoster` | every request maps to a step of the roster, every handler step to stuttering, using `Membership` |
| `ConferenceClientProofs!ClientCorrect` | `ClientInvariant` | `ServerInv`, `ClientTypes` and `LeaveInv` below, with every kind of fault; after a confirmed exit neither threads nor pull sessions nor windows are left |
| `ConferenceClientProofs!PageShowsMeeting` | `ViewSettles` | inductive invariant `ViewInv` below, on top of those of the store |
| `PullSignalingProofs!PullTypeCorrect` | `TypeOK` | conjunct of the inductive invariant `IInv` below |
| `PullSignalingProofs!NothingLeftOver` | `NothingLeft` | `OwedInv` and `PeerInv` of `IInv` when nobody holds anything |
| `PullSignalingProofs!AnswersMatch` | `OwnAnswer` | `AnswerInv`, kept by `OpenInv` and `TaskInv` |
| `PullSignalingProofs!SessionsServed` | `LiveSessionServed` | `AnswerInv` and `OwedInv` |
| `PublishSignalingProofs!PublishCorrect` | `PublishInvariant` | inductive invariant `IInv` below, for any connections and any number of starts and stops |
| `PushTransportProofs!PushCorrect` | `PushInvariant` | `MediaInv`, `ControlInv` and `RateInv` below |
| `PushTransportProofs!NothingIsTornAway` | `NothingTornAway` | a step property, by cases of the step from `MediaInv` and `DrainedInv` |
| `VideoRtpReorderProofs!ReorderCorrect` | `ReorderInvariant` | inductive invariant `IInv` below, for any frames, numbers and waits |
| `VideoRtpReorderProofs!OutputIsUnbroken` | `OutputUnbroken` | `KeptInv` and `LeftInv` of the same `IInv` |
| `VideoRtpReorderProofs!DropsAreAccounted` | `DropsAccounted` | a step property from `IInv`: the loop excuses each drop when it makes it (`Excused`) |
| `PullTransportProofs!PullCorrect` | `PullInvariant` | `StageInv`, `OrderInv` and `StaleInv` below |
| `PullTransportProofs!KeyframeIsAskedFor` | `DropsAskForKeyframe` | `DropInv` and `OrderInv` below |
| `MediaCaptureProofs!CaptureCorrect` | `CaptureInvariant` | `LifeInv`, `HoldInv`, `CallbackInv`, `SourceInv` and `PageInv` below, for any devices and any number of meetings |
| `MediaCaptureProofs!MediaShown` | `MediaAsShown` | inductive invariant `MediaInv` below, on top of that of `CaptureInvariant` |
| `MediaCaptureProofs!FramesStay` | `FrameStaysInMeeting` | `FrameInvariant` of the same `MediaInv` |
| `RenderEngineProofs!OutputHolds` | `OutputInvariant` | inductive invariant `OutputIInv` below, for any speakers, users and times |
| `RenderEngineProofs!RenderCorrect` | `RenderInvariant` | inductive invariant `RenderIInv` below, for any users, sizes and frames |
| `RenderEngineProofs!ShownInOrder` | `FramesInOrder` | a step property from `RenderIInv` and `OrderInv` below |

A reader's participants are the meeting's once the queue is replayed, so `ReadInv` compares them
after a fold, and every step that adds or takes an event has to say what the fold becomes:
`ReplayLast` for an event at the end, `ReplayFirst` for one at the head, `ReplayBehind` for a
queue that grows while its head is in the handler's hand (`HandInv`). The theorems of the library
on folds take operators as parameters, which no prover here can instantiate, so `FoldExists` shows
the fold itself: if its recursive definition failed for some length there would be a least one
(`Least`), and it has the values of the length below.

`ViewSettles` compares page, sessions and server when nothing is on its way, so its invariant
has to say what everything on its way amounts to. The client's proofs take over the store's
(`ServerInv`: a step of the client is a request, a cancelled call or nothing to it, by
`CancelsServer`, `RefusesServer` and `StoreServer`), add in which stage what may be held
(`ClientTypes`, `LeaveInv`) and that each call is used once (`CallInv`). `ViewInv` then says,
as long as no fault and no gap has come between: while a meeting is being prepared, no thread
is about, and the response is the server's list (`NothingYet`); from "room" on either the end
of the meeting is known or on its way (`Doomed`), or sessions and page *follow* the list
(`Follows`): the sessions, with those still to be made, are the participants once the events of
`PullWay` are replayed - the one the thread has at hand, those written, in the server's hand
and queued -, and the page is, once the notices (`Told`) and after them the events of `TileWay`
are. The two ways differ in the thread's stage "tell", when the session is made and the notice
not posted. That the steps of the two threads may come in any order rests on `Heeds`: nobody is
reported to have left before the page is open - a leave before that is what `history` records
as a gap -, so the UI thread's loop over the response and the event thread only add, in
whatever order. `WayGrows` gives what a request of another user adds to both ways,
`HandleView`, `MediaView` and `TellView` what the event thread takes off them, `OwnCall` that
the handler in between loses and doubles nothing.

`NothingLeft` speaks of moments when nobody is at work, so it cannot be inductive. `IInv`
says in every state who is responsible: each connection still open belongs to a session of
the map, to one the caller holds, or to the failed task about to close it (`PeerInv`); each
resource in `owed` is stored with a session of the map or one being closed, or is held by
the running task (`OwedInv`). That an answer never reaches another session rests on
`OpenInv`: while an offer can still come, its user's entry is the session itself, or the
session is being closed and the entry empty - callers close a session before they can make
the next one for the same user. `TaskInv` then gives that a task carries the offer of its
own session and that no two tasks are about the same one. Each action has a lemma
(`SubscribeUserAVInv`, ..., `DeleteUnclaimedInv`) that it keeps `IInv`, with one step per
conjunct; `Live...` and `Queued...` say what it does to the map and to the queue.

Publishing has one connection at a time and its own `IInv`. A connection gathers once, so every
task and every resource has a name that no other has (`TaskInv`, `JobInv`); `OwedInv` says in
whose hand each resource is, the kept URL, a close under way, or the running task, and that it
is one of these only; `ServedInv` says why a kept URL is of the connection that is open: who
closes the connection has taken the URL in the step in which the generation moved on, and a task
of the present generation finds nobody closing. `GenerationInv` is what makes that test enough:
no task is of a later generation than the present one.

`PushInvariant` holds between calls. `MediaInv` says what a medium is at each stage of a call
(`Stage`) and between calls (`Settled`), as long as the signaling thread's close met no call of
the application (`overlapped`); a published worker is never at its flush, which is why a stop is
the only thing it waits for. `ControlInv` keeps the initial bitrate in the range beside the
current one, because `Reset` goes back to it, and rests on `PushTransportProofs!UpdateKeepsRange`;
`RateInv` has to hold already before the worker starts; `DrainedInv` says that sound not yet sent
has a worker that can still send it.

The reorder buffer never sees the sender's numbers, only their remainders. `NumberInv` says that
since a reset one `Shift` lies between a packet's number at the sender and the one the buffer gave
it; a packet that comes is within half of `Modulus` of the latest, because the sender has not gone
further (the guard of `Send`), so the nearest number with its remainder is right (`Nearest`,
`UnwrapIs`, `ShiftStays`). `KeptInv` says that what is collected is exactly what has come and may
still leave, each packet under its own frame; `LeftInv` that all that has left or was given up lies
before that, and that between what has left only packets of dropped frames are missing. What makes
them inductive is that both are also true between any two turns of the loop of
`ReleaseReadyFrames`, for which each of its branches has a lemma (`DropTurn`, `ReleaseTurn`,
`UnmarkedTurn`, `MarkedTurn`) that the state stays good (`Turn`). The loop is a recursive function
over sets of states: `TurnsThere` and `TurnsAgree` show by a least counterexample that there is
one such function for every number of turns, and `LoopTurns` that a good state leaves it good.
`NotHeld` is why nothing is released with a hole: a packet that is not collected and could still
leave has not come.

In `PullTransportProofs`, `WorkerInv` and `StageInv` are the same for the two workers of a
subscription. A key frame is asked for because pictures are numbered as they come (`OrderInv`):
a lost one is older than everything left in the queue, and either the overflow is marked or the
worker is at its request, or the loss is behind the picture in hand already (`DropInv`).
`StaleInv` is why at most one old frame waits behind a change of the timebase: of the two network
callbacks, the one that made the latest change brings only new times, and the other has at most
one frame in hand, resolved before the change.

`OutputInvariant` likewise speaks of the time between two calls. `OutputIInv` says for each
call how far the worker of `AudioRender` is with it (`FreeInv`, `InitializeInv`,
`ShutdownInv`, `SwitchInv`, `ListInv`), that a device plays only in a context (`PlayingInv`)
and that the name kept is that of the open device (`NameInv`). The steps that only draw or
push frames leave the output alone and are one case.

`RenderInvariant` counts what the driver has, and a count alone is not inductive: it does not say
whose a name is. `RenderIInv` adds to `OutputIInv` that every name the driver has is the
program's or exactly one user's, who has three for the mesh, all different, and three or none for
the textures (`Owned`), that every context is good (`UsersInv`), and `PictureIsLast` itself.
What the calls into the driver do is said once for each of the objects (`Deletes`, `Generates`,
`TexturesMade`, `Uploads`) and then for whole operations, with every stage at which one may fail:
`ShaderMade`, `RenderMade`, `Drawn`. `OwnedCounts` gets the count back from the owners.

`ShownInOrder` rests on `OrderInv`: no frame that waits both came before the one seen and is
earlier than it (`Ahead`). Dropping keeps that, and so does the loop over the frames because it
judges them from the earliest: those behind the one it stops at are later (`Sorted`,
`ShownInStep`). That loop and the removal of all users in `Uninit` are folds over finite sets;
`RenderEngineProofs!FoldExists` shows them by the size of the subsets, and `Descends` - no finite
set is a least counterexample - stands in for induction.

`CaptureInvariant` says nothing of what a thread still has to do, but whether a step keeps it
depends on just that: a source is only made, a callback only removed, a manager only stopped when
the list of a thread says so. `LifeInv` gives the forms the list of the UI thread takes while the
client starts, runs, enters a meeting, closes and ends, with what is initialized in each; apart
from the fixed lists of the start, of an entry and of the end it is an ordinary list (`Ordinary`),
in which work that needs the mutex held is never behind other work and what ends the engine comes
last. `HoldInv` says that whoever is at such work holds the mutex and nobody else does;
`CallbackInv` what is true of sources and callbacks while it is held: of one kind, the other is as
it should be. `SourceInv` ties the sources of libobs to the ids kept, and `PageInv` says that in a
meeting the devices are not listed again and those of the lobby were handed over before. Most steps
take the head off a list and put calls before the rest, which `CallStep` shows once for all of
them; `Continues`, `WithoutBoth` and `NextHead` say what such a step does to the form of the list.

`MediaAsShown` compares page, sources and publication when no thread is at work, so `MediaInv`
says what the work that is left will do. It describes a list by what is still pending (`Pending`),
by what waits for what (`Awaits`) and by what comes last (`Final`, `LeavesLast`). `OpeningInv` gives
the forms of the list while a device is opened, `ClosingInv` that source and publication end before
the device counts as closed, and all that is open is closed before the page is left; `OwnInv` says
that whatever is captured or published is open or somebody is about to end it, `EventInv` that the
event thread tells the page last, `QuitInv` what is left when the window is closed. With these,
`TruthInv` is inductive: either the end of the meeting is on its way (`Doomed`), or the page shows
what is, but for the call under way. `FrameInvariant` is why no frame of one meeting reaches the
next: a frame in a callback belongs to a registered kind and to the present meeting, and a room is
entered only when there is no meeting and the event thread is idle. Steps change lists by a head
taken off and calls put in (`Joined`, `Begun`); `Joins` and `Peels` say once what that does to
`Pending` and `Awaits`, and a list with nothing for the media (`Calm`) changes none of it.

Theorems about the algorithms, for all constants that satisfy the named assumptions:

| theorem | what it says |
|---|---|
| `PullTransportProofs!DeltaSurvivesWrap` | The signed difference of two RTP timestamps is right across the wrap. |
| `PullTransportProofs!OrderKept` | A later timestamp has no earlier NTP time, whatever the rate and the rounding. |
| `PullTransportProofs!AcceptedReportMovesLittle` | An accepted report moves every time by the deviation allowed and one microsecond at most. |
| `PullTransportProofs!ResolveKeepsBothOrNone` | Both media use the sender's clock or neither. |
| `PullTransportProofs!AudioContinues` | The point of the audio report keeps its local time in a switch. |
| `PullTransportProofs!MediaKeepTheirDistance` | Picture and sound are as far apart locally as at the sender. |
| `ConferenceClientProofs!EachOnOnePage` | Every meeting is on exactly one page, and on one of those the answer counts. |
| `ConferenceClientProofs!NothingSkipped` | Who reads page after page skips no meeting although meetings are created and end in between; one may be seen twice. |
| `PushTransportProofs!EncoderStaysBounded` | After every block of sound the queue of packets keeps its limit and less than a packet waits, unless libopus failed. |
| `PushTransportProofs!SoundKeepsItsTime` | What comes after a block is stamped with the time at which the block ends, up to the threshold of a jump and a microsecond. |
| `PushTransportProofs!FlushLeavesNothing` | A flush that succeeds leaves no sound. |
| `PushTransportProofs!PublishingStartsInStep` | Every even size and every frame rate gives a configuration the encoder accepts and a controller that agrees with it. |
| `PushTransportProofs!BitrateStaysInStep` | Whatever the pressure and whatever OpenH264 refuses, controller and encoder agree and keep the range. |

They are invariants of a record under its operators: `OpusInv` adds that sound without a time
is never buffered, and `BitrateInv` ties the controller to the encoder. The time of a packet is
exact because `OpusAssumption` says a packet lasts a whole number of microseconds. The pages rest
on `ListAssumption`: the comparison of two ids is a strict total order. The index of a meeting is
the number of those before it, so what is added to the list only moves a meeting back.

Assumptions: the named `ASSUME` of each module on its constants (no name means two things, a
bound is a natural number, a limit is at least one, a threshold is above another); TLC evaluates
each in a run. Nothing is assumed of the behaviour.

Only model-checked: the properties of `AudioMixer` and `RemoteMedia`; and all liveness, which is
out of the prover's reach, as are `ENABLED`, RECURSIVE operators and the library's induction
theorems (the folds that are proved about are shown by a least counterexample, as above).

## 11. What TLC showed to be otherwise

Where the code breaks what one of its comments promises of a modelled state, the promise is a
property of its own beside the weaker one that holds, and a configuration shows the counterexample.
The first is a run of `PROJECT.json`; the others are for `tlc -config <name>.cfg <module>`.

| configuration | module | property | what it shows |
|---|---|---|---|
| `StoreEndRace` | `MCMeetingStore` | `EndReachesReader` | **The lost end of a meeting** (`MeetingServiceImpl.cpp:424`): section 2. |
| `PushOversleeps` | `MCPushTransport` | `StopReleases` | **A stop that hangs** (`RtcPushTransport.cpp:131`, header 58): section 5. `StopEnds` excepts it. |
| `ReorderHeadless` | `MCVideoRtpReorder` | `OnlyCompleteFrames` | **Frames without a head** (`VideoRtpReorderBuffer.cpp:190`, header 21 and 24): section 6. `OutputUnbroken` says where they may be. |
| `AudioStale` | `AudioMixer` | `QueueAheadOfClock` | **A stale chunk** (`AudioMixer.cpp:964`, comments at 361 and 370): a chunk mixed before an underrun is recognised by the value of the cursor, which may have come back. It is played although silence has stood for part of its time, and sets the playback clock back. `QueueNearClock` bounds how far. |
| `AudioStall` | `AudioMixer` | `StallEnds` | **A time line that stands** (`AudioMixer.cpp:847`, `:866`, `AudioMixer.h:64`): a push that overflows a ring between the two throws away the time just found. Nothing has been played, so `PopAudio` counts no underrun (320), and the mixer stays silent until something resets it. `PlaybackRecovers` excepts it. |
| `RemoteUnopened` | `MCRemoteMedia` | `SoundGoesWithWindow` | **The buffer of a user whose window was never drawn** (`VceEngineImpl.cpp:1135`, `VideoWidget.cpp:212`) stays in the mixer. `NothingLeft` excepts it. |

The following were found by TLC, or met while the code was read, and have no configuration of their
own; where a property makes an exception for one it is named there.

* **Join gap** (`MeetingService.cpp:260`): a user who enters or leaves between the answer to a
  join and the registration of the stream is not seen. A `MeetingEnded` or a leave between the
  start of the stream and `SetRoomInfo` is dropped.
* **Lost answer to a leave** (`MeetingService.cpp:308`): the server has executed it, the page
  stays open without a stream. The same after a stream breaks (`:644`).
* **Ghost pull** (`VceEngineImpl.cpp:1084`): an event that has passed its test subscribes behind
  the cleanup. `RemoteMedia` calls these users `strays`.
* **Answer after `Uninit`** (`TransportEngine.cpp:116`): a task past its check applies its answer
  although `m_initialized` is cleared, contrary to the comment; `Uninit` waits for it.
* **A silent session** (`TransportEngine.cpp:793`, `RtcTransportBase.cpp:342`, `:373`): when the offer
  of a pull session cannot be made no request is posted and nobody is told. The session stays in the
  map, and `SubscribeUserAV` answers for its user that he is subscribed, until he is unsubscribed;
  only a connection that fails is reported. `PullSignaling` has it, and `EverySubscriptionSettles`
  is about the others.
* **Old WHIP answer** (`TransportEngine.cpp:739`): the check of the generation and the call that
  applies the answer are not atomic, so it may reach the restarted connection.
* **Two threads join one worker** (`RtcPushTransport.cpp:133`): when the signaling thread closes
  the transport during a call; the `overlapped` of `PushTransport` and `PullTransport`.
* **The wish of a decoder for a key frame** (`RtcPullTransport.cpp:770`): a frame that is
  concealed leaves it unset. A missing plane returns false and asks for none either. The request
  after an overflow (`:758`) is not repeated when it fails; `DropsAskForKeyframe` says that it is made.
* **An old difference of picture and sound** (`UserContext.cpp:193`, `:199`) is used once after a
  reset.
* **An old notice** (`MainWindow.cpp:464`): when the undo of a join is refused, the event thread of
  the first meeting listens on; the end it posts closes the page of the next.
* **The order of windows and leaving** (`VceEngineImpl.cpp:386`): the comment "Qt has destroyed the
  widgets before `LeaveMeeting`" is not what `MainWindow` does.
* **`OnUserVideoEnable(false)`**: `IMeetingEventObserver.h` says it comes when the user stops
  sending; the code tells it only at the end of the subscription.
* **`m_accept_media_callbacks`**: an end of the meeting between room and acceptance leaves it set
  in the lobby.
* **`AudioRender.cpp:372`** does not set `m_initialized` again when a switch succeeds after one
  that failed: the device plays silence.
* **`CaptureEngine::Init`** returns without `CleanupObsState` when a plugin is missing, although
  its comment says cleanup runs; the destructor calls `UnInit` only if `m_initialized`, and libobs
  stays started (`obs = "acquired"`).
* **`OpusCodec`**: a concealed frame bypasses the decoder's queue; after `Flush` the next times run
  ahead by the padding; a libopus that keeps failing lets the PCM buffer grow. **`H264Codec`**
  accepts 1.5 times the target while the controller never exceeds the target.

## 12. Plan

Next, in this order:

1. Several remote users in `RemoteMedia`, with a join that is partly undone.
2. The properties of a capture source (resolution, filters) and the notices of the connection
   state, which end in a message of the page.
3. An abstract specification of one subscription that `PullSignaling` and `PullTransport` implement
   together, and of one publication for `PublishSignaling` and `PushTransport`.

## 13. What is not modelled

`PROJECT.json` lists every component with its status. Left out for good are the generated
protobuf and gRPC code (about 18,000 of the 49,800 lines of implementation), the manual test
programs (about 6,000), logging, configuration, the server's `main`, layout and wording of the
pages, and the conversion of frames and samples: they keep no state worth a property. The map
covers 31 % of all lines, most of those that are left when these are taken away.

libobs, libdatachannel, Qt, OpenGL, the codec libraries, the sound card, the media server and
gRPC are modelled by how the code uses them. Undefined behaviour of the C++ library - joining one
thread from two - is a state of its own in `PushTransport` and `PullTransport` (`crashed`) and is
given no outcomes in the two signaling modules.
