----------------------------- MODULE MediaCapture -----------------------------
(* The local camera and microphone from the start of the client to its end:  *)
(* the pages of MainWindow, VceEngineImpl with its managers, CaptureManager  *)
(* and the threads of libobs that bring the frames.  The UI thread and the   *)
(* event thread of MeetingService do what is in their lists.  Publishing is  *)
(* one flag for each kind (PublishSignaling has the rest), and the           *)
(* subscriptions are left to ConferenceClient.                               *)
EXTENDS CaptureManager

Managers == {"service", "render", "transport", "capture"}

VARIABLES
    up,                       \* managers that are initialized
    m_submodel_initialized,
    m_observers,              \* the page observes the engine
    m_current_meeting_id,     \* of the engine, 0: none
    m_accept_media_callbacks,
    m_open,                   \* m_camera_open and m_microphone_open of the engine
    publishing,
    user,                     \* m_current_user_name: somebody has logged in
    choice,                   \* the device the lobby shows as selected
    page,                     \* m_meeting_active of MainWindow
    shown,                    \* m_camera_open and m_microphone_open of MainWindow
    notice,                   \* the end of the meeting waits in the queue of Qt
    listening,                \* the event thread reads the stream
    joined                    \* meetings entered so far

lifeVars   == <<up, m_submodel_initialized, m_observers>>
mediaVars  == <<m_current_meeting_id, m_accept_media_callbacks, m_open, publishing>>
engineVars == <<lifeVars, mediaVars>>
lobbyVars  == <<user, choice>>
pageVars   == <<lobbyVars, page, shown, notice, listening, joined>>
vars == <<engineVars, captureVars, pageVars, todo>>

\* The window is made, and the engine is about to be initialized.
Init ==
    /\ CaptureManagerInit
    /\ up = {} /\ m_submodel_initialized = FALSE /\ m_observers = FALSE
    /\ m_current_meeting_id = 0 /\ m_accept_media_callbacks = FALSE
    /\ m_open = {} /\ publishing = {}
    /\ user = FALSE /\ choice = NoDevices
    /\ page = FALSE /\ shown = {} /\ notice = FALSE /\ listening = FALSE /\ joined = 0
    /\ todo = [t \in Threads |->
                 IF t = "event" THEN << >>
                 ELSE <<Do("start", "service"), Do("start", "render"),
                        Do("start", "transport"), Do("start", "capture"),
                        Do("wire", "engine"), Do("observe", "engine")>>]

-----------------------------------------------------------------------------
(* InitSubModel starts the managers one after the other; if one fails, those *)
(* before it are stopped and the client ends.                                *)

Start(m) ==
    /\ Has("ui", "start", m) /\ Then("ui", << >>)
    /\ up' = up \cup {m}
    /\ IF m = "capture" THEN StartCapture ELSE UNCHANGED captureVars
    /\ UNCHANGED <<m_submodel_initialized, m_observers, mediaVars, pageVars>>

Undo == (IF "transport" \in up THEN <<Do("stop", "transport")>> ELSE << >>)
        \o (IF "render" \in up THEN <<Do("stop", "render")>> ELSE << >>)
        \o (IF "service" \in up THEN <<Do("stop", "service")>> ELSE << >>)

StartFails(m) ==
    /\ Has("ui", "start", m) /\ Starts("ui", Undo)
    /\ IF m = "capture" THEN StartCaptureFails ELSE UNCHANGED captureVars
    /\ UNCHANGED <<engineVars, pageVars>>

\* The callbacks are set, and the engine takes calls.
Wire ==
    /\ Has("ui", "wire", "engine") /\ Then("ui", << >>)
    /\ m_capture_callback' = TRUE /\ m_submodel_initialized' = TRUE
    /\ UNCHANGED <<up, m_observers, mediaVars, m_state_mutex, m_source_id, device, m_selected,
                   engineStateVars, frame, pageVars>>

Observe ==
    /\ Has("ui", "observe", "engine") /\ Then("ui", << >>)
    /\ m_observers' = TRUE
    /\ UNCHANGED <<up, m_submodel_initialized, mediaVars, captureVars, pageVars>>

-----------------------------------------------------------------------------
(* The engine opens a camera or a microphone.                               *)

\* OpenCamera and OpenMic of the engine.
CheckOpen(t, k) ==
    /\ Has(t, "open", k)
    /\ Then(t, IF m_current_meeting_id = 0 THEN << >>
               ELSE IF k \in m_open THEN <<Do("show", k)>>
               ELSE <<Do("publish", k)>>)
    /\ UNCHANGED <<engineVars, captureVars, pageVars>>

Publish(t, k) ==
    /\ Has(t, "publish", k)
    /\ \/ publishing' = publishing \cup {k} /\ Then(t, <<Do("register", k)>>)
       \/ publishing' = publishing /\ Then(t, << >>)
    /\ UNCHANGED <<lifeVars, m_current_meeting_id, m_accept_media_callbacks, m_open,
                   captureVars, pageVars>>

Flag(t, k) ==
    /\ Has(t, "flag", k)
    /\ m_open' = m_open \cup {k} /\ Then(t, << >>)
    /\ UNCHANGED <<lifeVars, m_current_meeting_id, m_accept_media_callbacks, publishing,
                   captureVars, pageVars>>

-----------------------------------------------------------------------------
(* It closes it: for the page, for the end of a meeting.                    *)

\* CloseCamera and CloseMic of the engine.
CheckClose(t, k) ==
    /\ Has(t, "close", k)
    /\ Then(t, IF k \in m_open
               THEN <<Do("release", k), Do("unpublish", k), Do("unflag", k)>>
               ELSE << >>)
    /\ UNCHANGED <<engineVars, captureVars, pageVars>>

Unpublish(t, k) ==
    /\ Has(t, "unpublish", k)
    /\ publishing' = publishing \ {k} /\ Then(t, << >>)
    /\ UNCHANGED <<lifeVars, m_current_meeting_id, m_accept_media_callbacks, m_open,
                   captureVars, pageVars>>

Unflag(t, k) ==
    /\ Has(t, "unflag", k)
    /\ m_open' = m_open \ {k} /\ Then(t, << >>)
    /\ UNCHANGED <<lifeVars, m_current_meeting_id, m_accept_media_callbacks, publishing,
                   captureVars, pageVars>>

\* The start of CleanupMeetingMedia.
Refuse(t) ==
    /\ Has(t, "cleanup", "meeting")
    /\ m_accept_media_callbacks' = FALSE /\ Then(t, <<Do("snapshot", "meeting")>>)
    /\ UNCHANGED <<lifeVars, m_current_meeting_id, m_open, publishing, captureVars, pageVars>>

\* What is open when the meeting is forgotten is closed; nothing is published.
Snapshot(t) ==
    /\ Has(t, "snapshot", "meeting")
    /\ m_open' = {} /\ m_current_meeting_id' = 0
    /\ Then(t, (IF "camera" \in m_open THEN <<Do("release", "camera")>> ELSE << >>)
            \o (IF "mic" \in m_open THEN <<Do("release", "mic")>> ELSE << >>)
            \o <<Do("unpublish", "camera"), Do("unpublish", "mic")>>)
    /\ UNCHANGED <<lifeVars, m_accept_media_callbacks, publishing, captureVars, pageVars>>

-----------------------------------------------------------------------------
(* A frame reaches VceEngineImpl, which pushes it into the transport.        *)

Accept(k) ==
    /\ frame[k].at = "engine"
    /\ frame' = [frame EXCEPT ![k] = IF m_accept_media_callbacks THEN [@ EXCEPT !.at = "push"]
                                     ELSE NoFrame]
    /\ UNCHANGED <<managerVars, engineStateVars, todo>>

Push(k) ==
    /\ frame[k].at = "push"
    /\ frame' = [frame EXCEPT ![k] = NoFrame]
    /\ UNCHANGED <<managerVars, engineStateVars, todo>>

-----------------------------------------------------------------------------
(* The login page and the lobby.                                            *)

ListDevices == <<Do("list", "camera"), Do("list", "mic")>>

\* The server knows the user: the lobby is shown, and lists the devices.
Login ==
    /\ Idle("ui") /\ m_submodel_initialized /\ ~user
    /\ user' = TRUE /\ Starts("ui", ListDevices)
    /\ UNCHANGED <<engineVars, captureVars, choice, page, shown, notice, listening, joined>>

\* setCameraDevices and setMicrophoneDevices select the device in use, or else
\* the first of the list; a list that cannot be had is an empty one.
Preselected(k, listed) ==
    IF CurrentDevice(k) \in listed THEN {CurrentDevice(k)}
    ELSE IF listed = {} THEN {NoDevice} ELSE listed

List(k) ==
    /\ Has("ui", "list", k) /\ Then("ui", << >>)
    /\ \E listed \in SUBSET Devices[k] :
          /\ GetDevices(k, listed)
          /\ \E d \in Preselected(k, listed) : choice' = [choice EXCEPT ![k] = d]
    /\ UNCHANGED <<engineVars, user, page, shown, notice, listening, joined>>

\* The user selects another device of the list.
Pick(k, d) ==
    /\ Idle("ui") /\ m_submodel_initialized /\ user /\ ~page
    /\ choice[k] # NoDevice /\ choice' = [choice EXCEPT ![k] = d]
    /\ UNCHANGED <<engineVars, captureVars, user, page, shown, notice, listening, joined, todo>>

\* submitCreateMeeting and submitJoinMeeting: both devices have to be selected.
Submit ==
    /\ Idle("ui") /\ ~notice /\ m_submodel_initialized /\ user /\ ~page
    /\ \A k \in Kinds : choice[k] # NoDevice
    /\ joined < MaxMeetings
    /\ Starts("ui", <<Do("select", "camera"), Do("select", "mic"), Do("request", "meeting")>>)
    /\ UNCHANGED <<engineVars, captureVars, pageVars>>

\* Mutant: the device is only set when there is none yet.
Mutant_Select(k) ==
    /\ Has("ui", "select", k) /\ Then("ui", << >>)
    /\ UpdateDevice(k, IF m_selected[k] = NoDevice THEN choice[k] ELSE m_selected[k])
    /\ UNCHANGED <<engineVars, pageVars>>

\* applySelectedCaptureDevices.
Select(k) ==
    /\ Has("ui", "select", k) /\ Then("ui", << >>)
    /\ UpdateDevice(k, choice[k])
    /\ UNCHANGED <<engineVars, pageVars>>

\* CreateMeeting or JoinMeeting: the server admits us, the old event thread is
\* joined and a new one reads the stream before the room is set.
Join ==
    /\ Has("ui", "request", "meeting") /\ Idle("event") /\ m_current_meeting_id = 0
    /\ listening' = TRUE
    /\ Then("ui", <<Do("room", "meeting"), Do("accept", "meeting"), Do("enter", "meeting")>>)
    /\ UNCHANGED <<engineVars, captureVars, lobbyVars, page, shown, notice, joined>>

\* The engine is in a meeting still, or the server refuses.
JoinRefused ==
    /\ Has("ui", "request", "meeting") /\ Then("ui", << >>)
    /\ UNCHANGED <<engineVars, captureVars, pageVars>>

SetRoom ==
    /\ Has("ui", "room", "meeting")
    /\ joined' = joined + 1 /\ m_current_meeting_id' = joined' /\ Then("ui", << >>)
    /\ UNCHANGED <<lifeVars, m_accept_media_callbacks, m_open, publishing, captureVars,
                   lobbyVars, page, shown, notice, listening>>

AcceptMedia ==
    /\ Has("ui", "accept", "meeting")
    /\ m_accept_media_callbacks' = TRUE /\ Then("ui", << >>)
    /\ UNCHANGED <<lifeVars, m_current_meeting_id, m_open, publishing, captureVars, pageVars>>

Enter ==
    /\ Has("ui", "enter", "meeting")
    /\ page' = TRUE /\ shown' = {} /\ Then("ui", << >>)
    /\ UNCHANGED <<engineVars, captureVars, lobbyVars, notice, listening, joined>>

\* SetRoomInfo fails: the server is told, who may not answer.
SetRoomFails ==
    /\ Has("ui", "room", "meeting")
    /\ \E rest \in {<< >>, <<Do("join", "thread")>>} : Starts("ui", rest)
    /\ UNCHANGED <<engineVars, captureVars, pageVars>>

\* A participant cannot be subscribed: the engine cleans up first.
SubscribeFails ==
    /\ Has("ui", "enter", "meeting")
    /\ \E rest \in {<< >>, <<Do("join", "thread")>>} :
          Starts("ui", <<Do("cleanup", "meeting")>> \o rest)
    /\ UNCHANGED <<engineVars, captureVars, pageVars>>

-----------------------------------------------------------------------------
(* The conference page.                                                     *)

\* handleCameraToggleRequested and handleMicrophoneToggleRequested.
Toggle(k) ==
    /\ Idle("ui") /\ page
    /\ Starts("ui", IF k \in shown THEN <<Do("close", k), Do("hide", k)>>
                                   ELSE <<Do("open", k)>>)
    /\ UNCHANGED <<engineVars, captureVars, pageVars>>

Show(k) ==
    /\ Has("ui", "show", k)
    /\ shown' = shown \cup {k} /\ Then("ui", << >>)
    /\ UNCHANGED <<engineVars, captureVars, lobbyVars, page, notice, listening, joined>>

Hide(k) ==
    /\ Has("ui", "hide", k)
    /\ shown' = shown \ {k} /\ Then("ui", << >>)
    /\ UNCHANGED <<engineVars, captureVars, lobbyVars, page, notice, listening, joined>>

CloseLocalMedia ==
    (IF "camera" \in shown THEN <<Do("close", "camera"), Do("hide", "camera")>> ELSE << >>)
    \o (IF "mic" \in shown THEN <<Do("close", "mic"), Do("hide", "mic")>> ELSE << >>)

\* exitMeeting, for those who leave it and for those who end it.
Leave ==
    /\ Idle("ui") /\ page
    /\ Starts("ui", CloseLocalMedia \o <<Do("leave", "page"), Do("exit", "page")>>)
    /\ UNCHANGED <<engineVars, captureVars, pageVars>>

\* The engine knows no meeting or the server refuses: the page stays.
LeaveRefused(purpose) ==
    /\ Has("ui", "leave", purpose)
    /\ IF purpose = "page" THEN Starts("ui", << >>) ELSE Then("ui", << >>)
    /\ UNCHANGED <<engineVars, captureVars, pageVars>>

\* The server agrees; the event thread is stopped and joined.
LeaveAgreed(purpose) ==
    /\ Has("ui", "leave", purpose) /\ m_current_meeting_id # 0
    /\ Then("ui", <<Do("join", "thread"), Do("cleanup", "meeting")>>)
    /\ UNCHANGED <<engineVars, captureVars, pageVars>>

JoinThread ==
    /\ Has("ui", "join", "thread") /\ Idle("event")
    /\ listening' = FALSE /\ Then("ui", << >>)
    /\ UNCHANGED <<engineVars, captureVars, lobbyVars, page, shown, notice, joined>>

\* finishMeetingExit; the lobby lists the devices, a closing window does not.
Exit(purpose) ==
    /\ Has("ui", "exit", purpose)
    /\ page' = FALSE /\ shown' = {}
    /\ Then("ui", IF purpose = "page" THEN ListDevices ELSE << >>)
    /\ UNCHANGED <<engineVars, captureVars, lobbyVars, notice, listening, joined>>

\* OnMeetingEnded, by the event thread.
MeetingEnds ==
    /\ listening /\ Idle("event") /\ m_submodel_initialized
    /\ listening' = FALSE
    /\ Starts("event", IF m_current_meeting_id = 0 THEN << >>
                       ELSE <<Do("cleanup", "meeting"), Do("tell", "page")>>)
    /\ UNCHANGED <<engineVars, captureVars, lobbyVars, page, shown, notice, joined>>

\* The observers that are left are told; the page posts it to itself.
Tell ==
    /\ Has("event", "tell", "page")
    /\ notice' = (notice \/ m_observers) /\ Then("event", << >>)
    /\ UNCHANGED <<engineVars, captureVars, lobbyVars, page, shown, listening, joined>>

\* Mutant: the page is left without closing what it opened.
Mutant_HandleMeetingEnded ==
    /\ Idle("ui") /\ notice
    /\ notice' = FALSE
    /\ Starts("ui", IF page THEN <<Do("exit", "page")>> ELSE << >>)
    /\ UNCHANGED <<engineVars, captureVars, lobbyVars, page, shown, listening, joined>>

HandleMeetingEnded ==
    /\ Idle("ui") /\ notice
    /\ notice' = FALSE
    /\ Starts("ui", IF page THEN CloseLocalMedia \o <<Do("exit", "page")>> ELSE << >>)
    /\ UNCHANGED <<engineVars, captureVars, lobbyVars, page, shown, listening, joined>>

-----------------------------------------------------------------------------
(* The window is closed: MainWindow::shutdown, then UninitSubModel, which    *)
(* stops the managers.                                                       *)

Shutdown ==
    /\ Idle("ui") /\ m_submodel_initialized
    /\ m_observers' = FALSE
    /\ Starts("ui", CloseLocalMedia
                    \o (IF page THEN <<Do("leave", "quit")>> ELSE << >>)
                    \o <<Do("exit", "quit"), Do("uninit", "engine")>>)
    /\ UNCHANGED <<up, m_submodel_initialized, mediaVars, captureVars, pageVars>>

Uninit ==
    /\ Has("ui", "uninit", "engine")
    /\ m_submodel_initialized' = FALSE
    /\ Then("ui", <<Do("cleanup", "meeting"), Do("forget", "managers")>>)
    /\ UNCHANGED <<up, m_observers, mediaVars, captureVars, pageVars>>

\* The engine gives its managers away.
ForgetManagers ==
    /\ Has("ui", "forget", "managers")
    /\ m_open' = {} /\ m_current_meeting_id' = 0
    /\ Then("ui", <<Do("disconnect", "capture"), Do("detach", "camera"), Do("detach", "mic"),
                    Do("stop", "capture"), Do("stop", "transport"), Do("stop", "render"),
                    Do("stop", "service")>>)
    /\ UNCHANGED <<lifeVars, m_accept_media_callbacks, publishing, captureVars, pageVars>>

DisconnectCapture ==
    /\ Has("ui", "disconnect", "capture") /\ Then("ui", << >>)
    /\ Disconnect("ui")
    /\ UNCHANGED <<engineVars, pageVars>>

Stops(m) ==
    /\ Has("ui", "stop", m)
    /\ up' = up \ {m}
    /\ UNCHANGED <<m_submodel_initialized, m_observers, m_current_meeting_id,
                   m_accept_media_callbacks, m_open>>

StopsCapture ==
    /\ Stops("capture") /\ Then("ui", << >>) /\ StopCapture("ui")
    /\ UNCHANGED <<publishing, pageVars>>

\* Whatever is published ends with the transport.
StopTransport ==
    /\ Stops("transport") /\ Then("ui", << >>) /\ publishing' = {}
    /\ UNCHANGED <<captureVars, pageVars>>

StopRender ==
    /\ Stops("render") /\ Then("ui", << >>)
    /\ UNCHANGED <<publishing, captureVars, pageVars>>

\* MeetingService joins its event thread.
StopService ==
    /\ Stops("service") /\ Then("ui", <<Do("join", "thread")>>)
    /\ UNCHANGED <<publishing, captureVars, pageVars>>

-----------------------------------------------------------------------------
CaptureStep(t, k) ==
    Register(t, k) \/ Create(t, k) \/ CreateFails(t, k) \/ Release(t, k) \/ Unregister(t, k)

EngineStep(t, k) ==
    CheckOpen(t, k) \/ Publish(t, k) \/ Flag(t, k) \/ CheckClose(t, k) \/ Unpublish(t, k)
    \/ Unflag(t, k)

PageStep ==
    \/ \E m \in Managers : Start(m) \/ StartFails(m)
    \/ Wire \/ Observe
    \/ Join \/ JoinRefused \/ SetRoom \/ SetRoomFails \/ AcceptMedia \/ Enter
    \/ SubscribeFails \/ JoinThread
    \/ \E k \in Kinds : Show(k) \/ Hide(k) \/ List(k) \/ Select(k)
    \/ \E purpose \in {"page", "quit"} :
          LeaveRefused(purpose) \/ LeaveAgreed(purpose) \/ Exit(purpose)
    \/ Uninit \/ ForgetManagers \/ DisconnectCapture
    \/ StopsCapture \/ StopTransport \/ StopRender \/ StopService

Work(t) ==
    \/ Refuse(t) \/ Snapshot(t) \/ \E k \in Kinds : EngineStep(t, k)
    \/ \E k \in Kinds : (CaptureStep(t, k) \/ Detach(t, k)) /\ UNCHANGED <<engineVars, pageVars>>
    \/ t = "ui" /\ PageStep
    \/ t = "event" /\ Tell

Arrives(k) == Frame(k, joined) /\ UNCHANGED <<engineVars, pageVars>>
FrameStep(k) == (Deliver(k) \/ Accept(k) \/ Push(k)) /\ UNCHANGED <<engineVars, pageVars>>

User ==
    \/ Login \/ Submit \/ Leave \/ Shutdown
    \/ \E k \in Kinds : Toggle(k) \/ \E d \in Devices[k] : Pick(k, d)

Next ==
    \/ User \/ MeetingEnds \/ HandleMeetingEnded
    \/ \E t \in Threads : Work(t)
    \/ \E k \in Kinds : Arrives(k) \/ FrameStep(k)

Spec == Init /\ [][Next]_vars

\* The threads run.  A callback that waits to be removed is not passed over
\* by libobs, and Qt delivers what is in its queue.
Fairness ==
    /\ \A t \in Threads : SF_vars(Work(t))
    /\ \A k \in Kinds : WF_vars(FrameStep(k))
    /\ SF_vars(HandleMeetingEnded)

FairSpec == Spec /\ Fairness

-----------------------------------------------------------------------------
MediaTypeOK ==
    /\ up \subseteq Managers /\ obs \in {"off", "acquired", "ready"}
    /\ m_submodel_initialized \in BOOLEAN /\ m_observers \in BOOLEAN
    /\ m_current_meeting_id \in 0..MaxMeetings /\ m_accept_media_callbacks \in BOOLEAN
    /\ m_open \subseteq Kinds /\ publishing \subseteq Kinds
    /\ m_state_mutex \in Threads \cup {Nobody} /\ m_capture_callback \in BOOLEAN
    /\ m_source_id \subseteq Kinds /\ m_sources \in [Kinds -> 0..1]
    /\ \A k \in Kinds : {device[k], m_selected[k], choice[k]} \subseteq Devices[k] \cup {NoDevice}
    /\ user \in BOOLEAN
    /\ registered \subseteq Kinds
    /\ frame \in [Kinds -> [at : {"none", "manager", "engine", "push"}, of : 0..MaxMeetings]]
    /\ page \in BOOLEAN /\ shown \subseteq Kinds /\ notice \in BOOLEAN
    /\ listening \in BOOLEAN /\ joined \in 0..MaxMeetings

\* While nobody holds the mutex, the sources that live are those whose id is
\* kept, and exactly these have a callback: no failure and no race leaves one.
SourcesOwned ==
    m_state_mutex = Nobody =>
        \A k \in Kinds : /\ m_sources[k] = IF k \in m_source_id THEN 1 ELSE 0
                         /\ (k \in registered) = (k \in m_source_id)

\* An open source uses the device the lobby showed when the meeting was entered.
DeviceAsSelected ==
    m_state_mutex = Nobody =>
        \A k \in m_source_id : /\ device[k] = m_selected[k]
                               /\ page => m_selected[k] = choice[k]

AtRest == \A t \in Threads : Idle(t)

\* Whichever manager fails to start, and whenever the window is closed: between
\* two calls there are all managers or none, and libobs runs for CaptureManager
\* only, but for the plugin that was missing.
ManagersTogether ==
    AtRest => /\ up = IF m_submodel_initialized THEN Managers ELSE {}
              /\ (obs = "ready") = m_submodel_initialized
              /\ ~m_submodel_initialized => m_sources = NoSources /\ m_state_mutex = Nobody

\* The variables keep their types; every source has an owner and plays the
\* device that is selected; the managers start and end together.
CaptureInvariant == MediaTypeOK /\ SourcesOwned /\ DeviceAsSelected /\ ManagersTogether

\* Between two calls, and when no end of a meeting is on its way to the page,
\* what the page shows as open is open, captured and published, and no more.
PageTellsTruth == AtRest /\ ~notice =>
    shown = m_open /\ m_open = m_source_id /\ m_source_id = publishing

\* The devices are listed, and the window is closed, with everything off: a
\* meeting that ends while the camera is being opened does not leave it on.  (The
\* late news of an earlier meeting may close the page of the next one while the
\* event thread ends that one too; then it is that thread which is waited for.)
LobbyIsOff ==
    Idle("event") /\ (Has("ui", "list", "camera") \/ (~page /\ Idle("ui"))) =>
        m_source_id = {} /\ registered = {} /\ publishing = {}

\* What the page shows of the camera and the microphone is what they do, and
\* outside a meeting they are off.
MediaAsShown == PageTellsTruth /\ LobbyIsOff

\* A frame is never sent in a later meeting than the one it was taken in.
FrameStaysInMeeting ==
    \A k \in publishing : frame[k].at = "push" => frame[k].of = joined

\* When the meeting has ended, capture and publishing end, unless another one
\* is entered, although the end may overtake a call that opens them.
MediaEndsWithMeeting ==
    m_current_meeting_id = 0 ~>
        m_current_meeting_id # 0 \/ (m_source_id = {} /\ publishing = {})

\* Every call of the page and of the event thread returns.
CallsEnd == \A t \in Threads : ~Idle(t) ~> Idle(t)

\* The media go off when the meeting has ended, and every call comes to its end.
CaptureProgress == MediaEndsWithMeeting /\ CallsEnd
=============================================================================
