--------------------------- MODULE ConferenceClient ---------------------------
(***************************************************************************)
(* One desktop client in a meeting, composed with the meeting server.      *)
(* Two threads of the client are modelled: the UI thread, which runs       *)
(* MainWindow, VceEngineImpl and MeetingService synchronously, and the     *)
(* event thread of MeetingService, which reads the event stream and calls  *)
(* back into the engine.  The engine notifies the pages through Qt's event *)
(* queue.  The other users act on the server directly.                     *)
(*                                                                         *)
(* A pull session stands for all that a subscription to a remote user has  *)
(* (transport, media state).  CleanupMeetingMedia is one step: what another*)
(* thread subscribes while it runs ends up as if subscribed before or      *)
(* after it.  Capture, publishing and the local user's tile are left out.  *)
(***************************************************************************)
EXTENDS MeetingStore

CONSTANTS
    Me,         \* the user of the modelled client
    MaxOnWay,   \* bound: events on their way to the client
    Faults      \* what may fail: an answer of the server, a call, a
                \* pull session, something on the client's own machine

NoCall == "none"

ASSUME ConferenceClientAssumption ==
    /\ Me \in Users
    /\ NoCall \notin Subs
    /\ MaxOnWay \in Nat \ {0}
    /\ Faults \subseteq {"answer", "call", "media", "local"}

VARIABLES
    ui,                    \* where the UI thread stands
    ui_meeting,            \* meeting of the last request, and of the page
    m_is_meeting_creator,
    outcome,               \* of the last request, when it was to leave or end
    participants,          \* users of the join response
    todo,                  \* those of them still to be subscribed
    tiles,                 \* remote users with a video window
    ui_queue,              \* notifications posted by MeetingEventBridge
    m_current_meeting_id,  \* of the engine
    pulls,                 \* remote users with a pull session
    thread,                \* where the event thread stands
    call,                  \* the call of m_event_context
    m_event_running,
    event,                 \* the event being handled
    asked,                 \* meeting each call subscribes to
    wire,                  \* events written to a call and not read yet
    history                \* what has disturbed the page, see Disturbances

pageVars   == <<ui_meeting, m_is_meeting_creator, outcome, participants, todo, tiles>>
engineVars == <<m_current_meeting_id, pulls>>
callVars   == <<call, m_event_running, asked>>
threadVars == <<thread, event, callVars>>
clientVars == <<ui, pageVars, ui_queue, engineVars, threadVars, wire, history>>
allVars    == <<vars, clientVars>>

NoEvent == [kind |-> "none", trigger_user |-> NoUser]

\* "gap": the participants changed while the page could not hear of it yet.
\* "fault": a call broke, a subscription failed or an answer was lost.
Disturbances == {"gap", "fault"}

Idle    == {"lobby", "page"}
Joining == {"stop_old", "join_old", "start", "room", "check", "subscribe",
            "notify", "enter"}
Exiting == {"abandon", "stop", "join", "cleanup"}
Undoing == {"undo", "undo_leave", "undo_stop", "undo_join"}

ThreadStages == {"none", "loop", "read", "got", "check", "subscribe",
                 "unsubscribe", "cleanup", "tell", "last", "finish", "over"}

Notices == [kind : EventKinds, users : SUBSET Users]

-----------------------------------------------------------------------------

\* Everybody has registered and logged in; nobody is in a meeting.
ClientInit ==
    /\ \E password \in Passwords : m_users = [u \in Users |-> password]
    /\ m_logged_in_users = Users
    /\ m_meetings = <<>>
    /\ m_user_meetings = [u \in Users |-> NoMeeting]
    /\ m_next_meeting_number = 1
    /\ m_subscriptions = [mid \in MeetingIds |-> {}]
    /\ m_events = [s \in Subs |-> <<>>]
    /\ m_closed = [s \in Subs |-> FALSE]
    /\ sub_of = [s \in Subs |-> [meeting |-> NoMeeting, user |-> NoUser]]
    /\ stream = [s \in Subs |-> "free"]
    /\ in_hand = [s \in Subs |-> <<>>]
    /\ cancelled = [s \in Subs |-> FALSE]
    /\ view = [s \in Subs |-> {}]
    /\ ui = "lobby"
    /\ ui_meeting = NoMeeting
    /\ m_is_meeting_creator = FALSE
    /\ outcome = "none"
    /\ participants = {}
    /\ todo = {}
    /\ tiles = {}
    /\ ui_queue = <<>>
    /\ m_current_meeting_id = NoMeeting
    /\ pulls = {}
    /\ thread = "none"
    /\ call = NoCall
    /\ m_event_running = FALSE
    /\ event = NoEvent
    /\ asked = [s \in Subs |-> NoMeeting]
    /\ wire = [s \in Subs |-> <<>>]
    /\ history = {}

UiGoes(from, to) == ui = from /\ ui' = to

Post(kind, users) == ui_queue' = Append(ui_queue, [kind |-> kind, users |-> users])

\* CleanupMeetingMedia: the engine forgets the meeting and every pull session.
CleanupMeetingMedia == m_current_meeting_id' = NoMeeting /\ pulls' = {}

-----------------------------------------------------------------------------
(* UI thread: creating or joining a meeting.                                *)

\* The answer arrives, and MeetingService goes on to its event stream.  After
\* a failed exit, its thread and pull sessions may still be about.
AnswerArrives(mid, users, creator) ==
    /\ UiGoes("lobby", "stop_old")
    /\ ui_meeting' = mid
    /\ m_is_meeting_creator' = creator
    /\ outcome' = "none"
    /\ participants' = users
    /\ todo' = users \ {Me}
    /\ history' = IF thread \in {"none", "over"} /\ pulls = {}
                  THEN {} ELSE {"fault"}
    /\ UNCHANGED tiles

\* The deadline passes, or the answer names no usable media server: the
\* lobby reports an error although the server has done what was asked.
AnswerLost ==
    /\ "answer" \in Faults
    /\ outcome' = "none"
    /\ UNCHANGED <<ui, ui_meeting, m_is_meeting_creator, participants, todo, tiles, history>>

\* Notices for a page left behind were posted before the UI thread returned to
\* its event loop, which delivers them before the next click.
LobbyClick ==
    /\ ui = "lobby"
    /\ ui_queue = <<>>
    /\ m_current_meeting_id = NoMeeting
    /\ \E s \in Subs : asked[s] = NoMeeting  \* bound: a call is left
    /\ UNCHANGED <<ui_queue, engineVars, threadVars, wire>>

CreateRpc ==
    /\ LobbyClick
    /\ CreateMeeting(Me)
    /\ AnswerArrives(GenerateMeetingIdLocked, {}, TRUE) \/ AnswerLost

JoinRpc ==
    /\ LobbyClick
    /\ \E mid \in MeetingIds :
          /\ JoinMeeting(mid, Me)
          /\ \/ AnswerArrives(mid, ToSet(m_meetings[mid].participants) \cup {Me}, FALSE)
             \/ AnswerLost

\* Mutant: the call is not cancelled.
Mutant_StopThread(from, to) ==
    /\ UiGoes(from, to)
    /\ m_event_running' = FALSE
    /\ UNCHANGED <<vars, pageVars, ui_queue, engineVars, thread, event, call,
                   asked, wire, history>>

\* StopMeetingEventSubscriptionLocked, first half: the flag and TryCancel.
StopThread(from, to) ==
    /\ UiGoes(from, to)
    /\ m_event_running' = FALSE
    /\ cancelled' = [s \in Subs |-> cancelled[s] \/ s = call]
    /\ UNCHANGED <<userVars, meetingVars, hubVars, sub_of, stream, in_hand, view>>
    /\ UNCHANGED <<pageVars, ui_queue, engineVars, thread, event, call, asked,
                   wire, history>>

\* Second half: join the thread and let go of the call.
JoinThread(from, to) ==
    /\ UiGoes(from, to)
    /\ thread \in {"none", "over"}
    /\ thread' = "none"
    /\ call' = NoCall
    /\ UNCHANGED <<vars, pageVars, ui_queue, engineVars, event, m_event_running,
                   asked, wire, history>>

StartThread ==
    /\ \/ /\ UiGoes("start", "room")
          /\ \E s \in Subs :
                /\ asked[s] = NoMeeting
                /\ asked' = [asked EXCEPT ![s] = ui_meeting]
                /\ call' = s
          /\ m_event_running' = TRUE
          /\ thread' = "loop"
       \/ /\ UiGoes("start", "lobby")  \* std::thread threw
          /\ "local" \in Faults
          /\ UNCHANGED <<callVars, thread>>
    /\ UNCHANGED <<vars, pageVars, ui_queue, engineVars, event, wire, history>>

\* From here on the engine takes events for the meeting.
SetRoomInfo ==
    /\ \/ /\ UiGoes("room", IF todo = {} THEN "enter" ELSE "check")
          /\ m_current_meeting_id' = ui_meeting
       \/ /\ UiGoes("room", "undo_leave")
          /\ "local" \in Faults
          /\ UNCHANGED m_current_meeting_id
    /\ UNCHANGED <<vars, pageVars, ui_queue, pulls, threadVars, wire, history>>

\* SubscribeRemoteUserMedia first looks whether a meeting is on...
CheckParticipant ==
    /\ UiGoes("check", IF m_current_meeting_id = NoMeeting THEN "undo" ELSE "subscribe")
    /\ UNCHANGED <<vars, pageVars, ui_queue, engineVars, threadVars, wire, history>>

\* ...and subscribes later, outside the engine's lock.
SubscribeParticipant ==
    /\ \E u \in todo :
          \/ /\ UiGoes("subscribe", IF todo = {u} THEN "notify" ELSE "check")
             /\ pulls' = pulls \cup {u}
             /\ todo' = todo \ {u}
          \/ /\ UiGoes("subscribe", "undo")
             /\ "media" \in Faults
             /\ u \notin pulls
             /\ UNCHANGED <<pulls, todo>>
    /\ UNCHANGED <<vars, ui_meeting, m_is_meeting_creator, outcome, participants, tiles,
                   ui_queue, m_current_meeting_id, threadVars, wire, history>>

NotifyParticipants ==
    /\ UiGoes("notify", "enter")
    /\ Post("UserJoined", participants \ {Me})
    /\ UNCHANGED <<vars, pageVars, engineVars, threadVars, wire, history>>

\* The page opens with the users of the response, or cannot be opened.
EnterConference ==
    /\ \/ /\ UiGoes("enter", "page")
          /\ tiles' = participants \ {Me}
       \/ /\ UiGoes("enter", "abandon")
          /\ "local" \in Faults
          /\ tiles' = {}
    /\ participants' = {}
    /\ UNCHANGED <<vars, ui_meeting, m_is_meeting_creator, outcome, todo, ui_queue,
                   engineVars, threadVars, wire, history>>

-----------------------------------------------------------------------------
(* UI thread: a failed join is undone, whatever becomes of the undoing.     *)

UndoMedia ==
    /\ UiGoes("undo", "undo_leave")
    /\ CleanupMeetingMedia
    /\ UNCHANGED <<vars, pageVars, ui_queue, threadVars, wire, history>>

\* EndMeeting undoes a creation, LeaveMeeting a join.
ExitRequest == IF m_is_meeting_creator THEN EndMeeting(ui_meeting, Me)
                                       ELSE LeaveMeeting(ui_meeting, Me)

UndoLeave ==
    /\ \/ UiGoes("undo_leave", "undo_stop") /\ ExitRequest
       \/ UiGoes("undo_leave", "lobby") /\ ExitRequest /\ "answer" \in Faults
       \/ UiGoes("undo_leave", "lobby") /\ UNCHANGED vars  \* rejected, or never sent
    /\ UNCHANGED <<pageVars, ui_queue, engineVars, threadVars, wire, history>>

-----------------------------------------------------------------------------
(* UI thread: leaving or ending the meeting.                                *)

\* The engine refuses once it has forgotten the meeting; otherwise the server
\* is asked, and only a good answer stops the event stream.
ExitRpc(from, request) ==
    \/ /\ m_current_meeting_id = ui_meeting
       /\ request
       /\ UiGoes(from, "stop")
       /\ UNCHANGED <<outcome, history>>
    \/ /\ "answer" \in Faults
       /\ m_current_meeting_id = ui_meeting
       /\ request
       /\ UiGoes(from, IF from = "page" THEN "page" ELSE "lobby")
       /\ outcome' = "failed"
       /\ history' = history \cup {"fault"}
    \/ /\ UNCHANGED <<vars, history>>
       /\ UiGoes(from, IF from = "page" THEN "page" ELSE "lobby")
       /\ outcome' = "failed"

ExitClick ==
    /\ \/ ExitRpc("page", LeaveMeeting(ui_meeting, Me))
       \/ m_is_meeting_creator /\ ExitRpc("page", EndMeeting(ui_meeting, Me))
    /\ UNCHANGED <<ui_meeting, m_is_meeting_creator, participants, todo, tiles,
                   ui_queue, engineVars, threadVars, wire>>

\* The page could not be opened: the meeting is left or ended again.
AbandonMeeting ==
    /\ ExitRpc("abandon", ExitRequest)
    /\ UNCHANGED <<ui_meeting, m_is_meeting_creator, participants, todo, tiles,
                   ui_queue, engineVars, threadVars, wire>>

FinishExit(from, to) ==
    /\ UiGoes(from, to)
    /\ CleanupMeetingMedia
    /\ tiles' = {}
    /\ outcome' = "left"
    /\ UNCHANGED <<vars, ui_meeting, m_is_meeting_creator, participants, todo,
                   ui_queue, threadVars, wire, history>>

\* A posted notice reaches MainWindow, which drops it outside a meeting.
DeliverNotice ==
    /\ ui \in Idle
    /\ ui_queue # <<>>
    /\ ui_queue' = Tail(ui_queue)
    /\ LET notice == Head(ui_queue) IN
       /\ ui' = IF notice.kind = "MeetingEnded" THEN "lobby" ELSE ui
       /\ tiles' = IF ui = "lobby" THEN tiles
                   ELSE CASE notice.kind = "UserJoined"   -> tiles \cup (notice.users \ {Me})
                          [] notice.kind = "UserLeft"     -> tiles \ notice.users
                          [] notice.kind = "MeetingEnded" -> {}
    /\ UNCHANGED <<vars, ui_meeting, m_is_meeting_creator, outcome, participants, todo,
                   engineVars, threadVars, wire, history>>

UiEnter ==
    \/ StopThread("stop_old", "join_old") \/ JoinThread("join_old", "start")
    \/ StartThread \/ SetRoomInfo
    \/ CheckParticipant \/ SubscribeParticipant \/ NotifyParticipants
    \/ EnterConference \/ AbandonMeeting

UiUndo ==
    \/ UndoMedia \/ UndoLeave
    \/ StopThread("undo_stop", "undo_join") \/ JoinThread("undo_join", "lobby")

\* Mutant: the cleanup comes before the thread is stopped.
Mutant_UiExit ==
    \/ FinishExit("stop", "join")
    \/ StopThread("join", "cleanup")
    \/ JoinThread("cleanup", "lobby")

UiExit ==
    \/ StopThread("stop", "join")
    \/ JoinThread("join", "cleanup")
    \/ FinishExit("cleanup", "lobby")

UiWork == UiEnter \/ UiUndo \/ UiExit \/ DeliverNotice

UiClick == CreateRpc \/ JoinRpc \/ ExitClick

-----------------------------------------------------------------------------
(* The event thread.                                                        *)

ThreadGoes(from, to) ==
    /\ thread = from
    /\ thread' = to
    /\ event' = IF to \in {"loop", "finish"} THEN NoEvent ELSE event

\* MeetingEventLoop: test the flag, then block in Read.
LoopEvents ==
    /\ ThreadGoes("loop", IF m_event_running THEN "read" ELSE "finish")
    /\ UNCHANGED <<vars, ui, pageVars, ui_queue, engineVars, callVars, wire, history>>

ReadEvent ==
    /\ thread = "read"
    /\ thread' = "got"
    /\ wire[call] # <<>>
    /\ event' = Head(wire[call])
    /\ wire' = [wire EXCEPT ![call] = Tail(@)]
    /\ UNCHANGED <<vars, ui, pageVars, ui_queue, engineVars, callVars, history>>

\* Read returns false: cancelled or broken, or the handler has returned.
ReadFails ==
    /\ ThreadGoes("read", "finish")
    /\ cancelled[call] \/ (stream[call] = "done" /\ wire[call] = <<>>)
    /\ UNCHANGED <<vars, ui, pageVars, ui_queue, engineVars, callVars, wire, history>>

\* The flag is tested again, then the engine looks whether it is in a meeting.
HandleMeetingEvent ==
    /\ LET ignored == \/ m_current_meeting_id = NoMeeting
                      \/ event.kind # "MeetingEnded" /\ event.trigger_user = Me
       IN ThreadGoes("got",
            IF ~m_event_running THEN "finish"
            ELSE CASE event.kind = "MeetingEnded" -> IF ignored THEN "last" ELSE "cleanup"
                   [] event.kind = "UserJoined"   -> IF ignored THEN "loop" ELSE "check"
                   [] event.kind = "UserLeft"     -> IF ignored THEN "loop" ELSE "unsubscribe")
    /\ UNCHANGED <<vars, ui, pageVars, ui_queue, engineVars, callVars, wire, history>>

CheckJoined ==
    /\ ThreadGoes("check", IF m_current_meeting_id = NoMeeting THEN "loop" ELSE "subscribe")
    /\ UNCHANGED <<vars, ui, pageVars, ui_queue, engineVars, callVars, wire, history>>

\* Mutant: the page is not told of the user.
Mutant_SubscribeJoined ==
    /\ ThreadGoes("subscribe", "loop")
    /\ pulls' = pulls \cup {event.trigger_user}
    /\ UNCHANGED <<vars, ui, pageVars, ui_queue, m_current_meeting_id, callVars,
                   wire, history>>

SubscribeJoined ==
    /\ \/ /\ ThreadGoes("subscribe", "tell")
          /\ pulls' = pulls \cup {event.trigger_user}
          /\ UNCHANGED history
       \/ /\ "media" \in Faults
          /\ ThreadGoes("subscribe", "loop")
          /\ event.trigger_user \notin pulls
          /\ history' = history \cup {"fault"}
          /\ UNCHANGED pulls
    /\ UNCHANGED <<vars, ui, pageVars, ui_queue, m_current_meeting_id, callVars, wire>>

UnsubscribeLeft ==
    /\ ThreadGoes("unsubscribe", "tell")
    /\ pulls' = pulls \ {event.trigger_user}
    /\ UNCHANGED <<vars, ui, pageVars, ui_queue, m_current_meeting_id, callVars,
                   wire, history>>

CleanupEnded ==
    /\ ThreadGoes("cleanup", "tell")
    /\ CleanupMeetingMedia
    /\ UNCHANGED <<vars, ui, pageVars, ui_queue, callVars, wire, history>>

Notify ==
    /\ ThreadGoes("tell", IF event.kind = "MeetingEnded" THEN "last" ELSE "loop")
    /\ Post(event.kind, IF event.kind = "MeetingEnded" THEN {} ELSE {event.trigger_user})
    /\ UNCHANGED <<vars, ui, pageVars, engineVars, callVars, wire, history>>

\* After the end of the meeting the thread cancels its own call.
StopItself ==
    /\ ThreadGoes("last", "finish")
    /\ m_event_running' = FALSE
    /\ cancelled' = [cancelled EXCEPT ![call] = TRUE]
    /\ UNCHANGED <<userVars, meetingVars, hubVars, sub_of, stream, in_hand, view>>
    /\ UNCHANGED <<ui, pageVars, ui_queue, engineVars, call, asked, wire, history>>

\* Finish blocks until the call is over; nobody else learns that it is.
FinishCall ==
    /\ ThreadGoes("finish", "over")
    /\ cancelled[call] \/ stream[call] = "done"
    /\ m_event_running' = FALSE
    /\ wire' = [wire EXCEPT ![call] = <<>>]
    /\ UNCHANGED <<vars, ui, pageVars, ui_queue, engineVars, call, asked, history>>

EventThread ==
    \/ LoopEvents \/ ReadEvent \/ ReadFails \/ HandleMeetingEvent
    \/ CheckJoined \/ SubscribeJoined \/ UnsubscribeLeft \/ CleanupEnded
    \/ Notify \/ StopItself \/ FinishCall

-----------------------------------------------------------------------------
(* The server's side of the client's calls, and the other users.            *)

\* The store takes a call up at any time, even one the client has dropped.
AcceptCall(s) ==
    /\ asked[s] # NoMeeting
    /\ SubscribeMeetingEvents(s, asked[s], Me)
    /\ history' = IF s = call THEN history ELSE history \cup {"fault"}
    /\ UNCHANGED <<ui, pageVars, ui_queue, engineVars, threadVars, wire>>

\* The store turns the call down, or it never gets there.
RefuseCall(s) ==
    /\ stream[s] = "free"
    /\ asked[s] # NoMeeting
    /\ "call" \in Faults \/ ParticipantError(asked[s], Me) # "kSuccess"
    /\ stream' = [stream EXCEPT ![s] = "done"]
    /\ history' = IF ParticipantError(asked[s], Me) = "kSuccess"
                  THEN history \cup {"fault"} ELSE history
    /\ UNCHANGED <<userVars, meetingVars, hubVars, sub_of, in_hand, cancelled, view>>
    /\ UNCHANGED <<ui, pageVars, ui_queue, engineVars, threadVars, wire>>

BreakCall(s) ==
    /\ "call" \in Faults
    /\ CancelStream(s)
    /\ history' = history \cup {"fault"}
    /\ UNCHANGED <<ui, pageVars, ui_queue, engineVars, threadVars, wire>>

ServerHandler(s) ==
    \/ /\ WriteEvent(s)
       /\ wire' = [wire EXCEPT ![s] = @ \o in_hand[s]]
       /\ UNCHANGED <<ui, pageVars, ui_queue, engineVars, threadVars, history>>
    \/ /\ \/ CheckCancelled(s) \/ WaitNext(s) \/ WaitNextEmpty(s) \/ CheckClosed(s)
          \/ WriteFails(s) \/ UnsubscribeMeetingEvents(s)
       /\ UNCHANGED clientVars

Server(s) == AcceptCall(s) \/ RefuseCall(s) \/ BreakCall(s) \/ ServerHandler(s)

\* The page hears of a user who enters once its stream is registered and the
\* engine is in the meeting, and of one who goes once it is open.
Hears(mid) == mid = ui_meeting /\ call \in m_subscriptions[mid]

Gap(heard) == history' = IF m_meetings' = m_meetings \/ heard
                         THEN history ELSE history \cup {"gap"}

\* Bound: few events are on their way to the client.
OnItsWay == FoldFunctionOnSet(LAMBDA q, n : n + Len(q), Len(ui_queue), wire, Subs)
            + FoldFunctionOnSet(LAMBDA q, n : n + Len(q), 0, m_events, Subs)

OtherRequest(user) ==
    /\ OnItsWay < MaxOnWay
    /\ \/ CreateMeeting(user) /\ UNCHANGED history
       \/ \E mid \in MeetingIds :
             \/ JoinMeeting(mid, user)
                /\ Gap(mid # ui_meeting \/ (Hears(mid) /\ m_current_meeting_id = mid))
             \/ /\ LeaveMeeting(mid, user) \/ EndMeeting(mid, user)
                /\ Gap(mid # ui_meeting \/ (Hears(mid) /\ ui = "page"))
    /\ UNCHANGED <<ui, pageVars, ui_queue, engineVars, threadVars, wire>>

ClientNext ==
    \/ UiClick \/ UiWork \/ EventThread
    \/ \E s \in Subs : Server(s)
    \/ \E user \in Users \ {Me} : OtherRequest(user)

ClientSpec == ClientInit /\ [][ClientNext]_allVars

\* Both threads of the client run.  No answer from the server is needed: a
\* request has a deadline and a cancelled call returns.
ClientFairness == WF_allVars(UiWork) /\ WF_allVars(EventThread)

FairClientSpec == ClientSpec /\ ClientFairness

-----------------------------------------------------------------------------
(* Properties.                                                              *)

\* Every variable of the client has its type; only a thread that is over or
\* was never started has no call.
ClientTypeOK ==
    /\ ui \in Idle \cup Joining \cup Exiting \cup Undoing
    /\ {ui_meeting, m_current_meeting_id} \subseteq MeetingIds \cup {NoMeeting}
    /\ outcome \in {"none", "left", "failed"}
    /\ todo \subseteq participants \/ ui \notin Joining
    /\ tiles \cup pulls \subseteq Users \ {Me}
    /\ \A i \in DOMAIN ui_queue : ui_queue[i] \in Notices
    /\ thread \in ThreadStages
    /\ call \in Subs \/ (call = NoCall /\ thread = "none")
    /\ event \in Events \cup {NoEvent}
    /\ \A s \in Subs : wire[s] \in Seq(Events)
    /\ history \subseteq Disturbances

\* Nothing is on its way to the page, and its event thread is listening.
Quiet ==
    /\ ui = "page"
    /\ ui_queue = <<>>
    /\ thread = "read"
    /\ wire[call] \o in_hand[call] \o m_events[call] = <<>>

\* The page and the pull sessions show the participants the server lists.
ViewMatches ==
    /\ Contains(m_meetings[ui_meeting].participants, Me)
    /\ tiles = ToSet(m_meetings[ui_meeting].participants) \ {Me}
    /\ pulls = tiles

\* With no disturbance, whatever the order of requests, events, notices and
\* subscriptions by the two threads: once everything has been delivered, the
\* windows, the pull sessions and the server's list agree.
ViewSettles == Quiet /\ history = {} => ViewMatches

\* After a confirmed leave or end nothing of what is modelled of the meeting is
\* left: no thread that could subscribe again, no pull session, no window of
\* another user, no membership.
LeftMeansQuiet ==
    ui = "lobby" /\ outcome = "left" =>
        /\ thread = "none"
        /\ pulls = {}
        /\ tiles = {}
        /\ m_current_meeting_id = NoMeeting
        /\ m_user_meetings[Me] = NoMeeting

\* The variables keep their types, and a client that has left listens to nothing,
\* pulls nobody and shows nobody, whatever was under way (LeftMeansQuiet).
ClientInvariant == ClientTypeOK /\ LeftMeansQuiet

\* The UI thread joins the event thread from inside a click: it always gets
\* back to its event loop, whatever the event thread was doing.
UiReturns == ui \notin Idle ~> ui \in Idle

=============================================================================
