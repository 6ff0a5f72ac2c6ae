----------------------------- MODULE RemoteMedia ------------------------------
(* What the client receives, shows and plays of the other users: the pull    *)
(* sessions of the transport and the workers that bring their frames, the    *)
(* media states of VceEngineImpl, the users of RenderEngine and of its       *)
(* mixer, and the windows of ConferencePage, which hears of all that through *)
(* the queue of Qt.  The local user's window, publishing and what goes wrong *)
(* with the event stream are in MediaCapture and in ConferenceClient.        *)
EXTENDS Naturals, Sequences, SequencesExt, Functions

CONSTANTS
    Users,        \* the remote users
    Sends,        \* bound: what they send
    MaxMeetings,  \* bound: meetings entered
    MaxEntries,   \* bound: users met, in the answer to a join or later
    MaxNotices    \* bound: nothing new begins while that many wait for the page

Kinds   == {"video", "audio"}

RemoteAssumption ==
    /\ Sends \in [Users -> SUBSET Kinds]
    /\ {MaxMeetings, MaxEntries, MaxNotices} \subseteq Nat
ASSUME RemoteAssumption

Threads == {"ui", "event"}
Workers == {w \in Users \X Kinds : w[2] \in Sends[w[1]]}

VARIABLES
    members,                  \* the users in the meeting, as the events tell it
    listening,                \* the event thread reads the stream
    m_submodel_initialized,
    m_observers,              \* the page observes the engine
    m_current_meeting_id,     \* of the engine: TRUE in a meeting
    m_accept_media_callbacks,
    m_user_media_states,      \* what is received of each user
    m_pull_sessions,          \* "asked", or "live" once the answer is applied
    worker,                   \* where the frame of each worker is
    up,                       \* the managers that are initialized
    m_user_contexts,          \* users RenderEngine draws
    m_user_buffers,           \* users the mixer has a buffer for
    page,                     \* m_meeting_active of MainWindow and ConferencePage
    m_user_tiles,             \* the windows: what they show as on, and their widget
    queue,                    \* notices on their way to the page
    unopened,                 \* users whose window was never made, or never drawn
    strays,                   \* users subscribed after they or the room had gone
    met,                      \* <<meetings, users met>>, for the bounds
    todo                      \* what each thread still has to do

serverVars == <<members, listening, met>>
engineVars == <<m_submodel_initialized, m_observers, m_current_meeting_id,
                m_accept_media_callbacks>>
sessionVars == <<m_pull_sessions, strays>>
renderVars == <<m_user_contexts, m_user_buffers>>
pageVars   == <<page, m_user_tiles, unopened>>
vars == <<serverVars, engineVars, m_user_media_states, sessionVars, worker, up,
          renderVars, pageVars, queue, todo>>

Nothing == [u \in {} |-> {}]
Without(f, u) == Restrict(f, DOMAIN f \ {u})
With(f, u, value) == [v \in DOMAIN f \cup {u} |-> IF v = u THEN value ELSE f[v]]

\* InitSubModel has succeeded and the page has been added as an observer.
Init ==
    /\ members = {} /\ listening = FALSE /\ met = <<0, 0>>
    /\ m_submodel_initialized = TRUE /\ m_observers = TRUE
    /\ m_current_meeting_id = FALSE /\ m_accept_media_callbacks = FALSE
    /\ m_user_media_states = Nothing /\ m_pull_sessions = Nothing
    /\ worker = [w \in Workers |-> "idle"]
    /\ up = {"transport", "render"} /\ m_user_contexts = {} /\ m_user_buffers = {}
    /\ page = FALSE /\ m_user_tiles = Nothing /\ unopened = {} /\ strays = {}
    /\ queue = << >>
    /\ todo = [t \in Threads |-> << >>]

\* Each thread has a list of what it still has to do, and for whom.
Do(what, for) == [what |-> what, for |-> for]
Idle(t) == todo[t] = << >>
At(t, what) == ~Idle(t) /\ Head(todo[t]).what = what
For(t) == Head(todo[t]).for
Then(t, more) == todo' = [todo EXCEPT ![t] = more \o Tail(@)]
Starts(t, work) == todo' = [todo EXCEPT ![t] = work]

ForEach(users, what) == LET s == SetToSeq(users) IN [i \in DOMAIN s |-> Do(what, s[i])]

\* The observers are told; the page posts what it hears to its own thread.
Notices == [kind : Kinds \cup {"joined", "left", "ended"}, users : SUBSET Users, on : BOOLEAN]
News(kind, users, on) == [kind |-> kind, users |-> users, on |-> on]
Post(news) == queue' = IF m_observers THEN queue \o news ELSE queue

-----------------------------------------------------------------------------
(* VceEngineImpl subscribes a user, for the page or for the event thread.    *)

\* A join that cannot subscribe everybody is undone: those it has subscribed are
\* parted with, and the rest is cleaned up.
Pending(t) == {todo[t][i].for : i \in {j \in DOMAIN todo[t] : todo[t][j].what = "check"}}
Subscribed(t) == Last(todo[t]).for \ (Pending(t) \cup {For(t)})

\* UnsubscribeRemoteUserMedia and CleanupMeetingMedia.
Part(u) == <<Do("unsubscribe", u), Do("forget", u)>>
Cleanup == <<Do("refuse", {}), Do("close all", {}), Do("clear", {})>>

GiveUp(t) ==
    Starts(t, IF t = "event" THEN << >>
              ELSE FlattenSeq(SetToSeq({Part(u) : u \in Subscribed(t)})) \o Cleanup \o <<Do("join thread", {})>>)

\* SubscribeRemoteUserMedia looks whether a meeting is on...
Check(t) ==
    /\ At(t, "check")
    /\ IF m_current_meeting_id
       THEN Then(t, <<Do("subscribe", For(t)), Do("enlist", For(t))>>)
       ELSE GiveUp(t)
    /\ UNCHANGED <<serverVars, engineVars, m_user_media_states, sessionVars, worker, up,
                   renderVars, pageVars, queue>>

StraysFrom(t) == strays' = IF m_current_meeting_id THEN strays ELSE strays \cup {For(t)}

\* ...asks the transport for a session, unless there is one...
Subscribe(t) ==
    /\ At(t, "subscribe")
    /\ \/ /\ "transport" \in up /\ Then(t, << >>)
          /\ m_pull_sessions' = IF For(t) \in DOMAIN m_pull_sessions THEN m_pull_sessions
                                ELSE With(m_pull_sessions, For(t), "asked")
       \/ For(t) \notin DOMAIN m_pull_sessions /\ GiveUp(t) /\ UNCHANGED m_pull_sessions
    /\ StraysFrom(t)
    /\ UNCHANGED <<serverVars, engineVars, m_user_media_states, worker, up, renderVars,
                   pageVars, queue>>

\* ...and gives the user a media state, which a frame may have made already.
Enlist(t) ==
    /\ At(t, "enlist") /\ Then(t, << >>)
    /\ m_user_media_states' = IF For(t) \in DOMAIN m_user_media_states THEN m_user_media_states
                              ELSE With(m_user_media_states, For(t), {})
    /\ StraysFrom(t)
    /\ UNCHANGED <<serverVars, engineVars, m_pull_sessions, worker, up, renderVars, pageVars,
                   queue>>

\* The signaling thread applies the answer, or drops the session.
Answer(u) ==
    /\ u \in DOMAIN m_pull_sessions /\ m_pull_sessions[u] = "asked"
    /\ \/ m_pull_sessions' = With(m_pull_sessions, u, "live")
       \/ m_pull_sessions' = Without(m_pull_sessions, u)
    /\ UNCHANGED <<serverVars, engineVars, m_user_media_states, strays, worker, up, renderVars,
                   pageVars, queue, todo>>

-----------------------------------------------------------------------------
(* It parts with a user, or with all of them.                               *)

\* Mutant: the session is closed without joining its workers.
Mutant_Unsubscribe(t) ==
    /\ At(t, "unsubscribe") /\ Then(t, << >>)
    /\ m_pull_sessions' = Without(m_pull_sessions, For(t))
    /\ UNCHANGED <<serverVars, engineVars, m_user_media_states, strays, worker, up, renderVars,
                   pageVars, queue>>

\* A session that is closed joins its workers: the frame of each has been
\* delivered.  The manager's mutex is held until then.
Unsubscribe(t) ==
    /\ At(t, "unsubscribe") /\ Then(t, << >>)
    /\ For(t) \in DOMAIN m_pull_sessions => \A k \in Sends[For(t)] : worker[<<For(t), k>>] = "idle"
    /\ m_pull_sessions' = Without(m_pull_sessions, For(t))
    /\ UNCHANGED <<serverVars, engineVars, m_user_media_states, strays, worker, up, renderVars,
                   pageVars, queue>>

\* What was on goes off, first the picture and then the sound.
Offs(u) == SelectSeq(<<News("video", {u}, FALSE), News("audio", {u}, FALSE)>>,
                     LAMBDA n : n.kind \in m_user_media_states[u])

\* RemoveUserMediaState.
Forget(t) ==
    /\ At(t, "forget")
    /\ m_user_media_states' = Without(m_user_media_states, For(t))
    /\ Then(t, IF For(t) \in DOMAIN m_user_media_states THEN <<Do("tell", Offs(For(t)))>>
               ELSE << >>)
    /\ UNCHANGED <<serverVars, engineVars, sessionVars, worker, up, renderVars, pageVars,
                   queue>>

Tell(t) ==
    /\ At(t, "tell") /\ Then(t, << >>)
    /\ Post(For(t))
    /\ UNCHANGED <<serverVars, engineVars, m_user_media_states, sessionVars, worker, up,
                   renderVars, pageVars>>

\* CleanupMeetingMedia refuses frames and forgets the room...
Refuse(t) ==
    /\ At(t, "refuse") /\ Then(t, << >>)
    /\ m_accept_media_callbacks' = FALSE /\ m_current_meeting_id' = FALSE
    /\ UNCHANGED <<serverVars, m_submodel_initialized, m_observers, m_user_media_states,
                   sessionVars, worker, up, renderVars, pageVars, queue>>

\* ...closes the sessions there are...
CloseAll(t) ==
    /\ At(t, "close all")
    /\ Then(t, ForEach(DOMAIN m_pull_sessions, "unsubscribe"))
    /\ UNCHANGED <<serverVars, engineVars, m_user_media_states, sessionVars, worker, up,
                   renderVars, pageVars, queue>>

\* ...and clears the media states.
Clear(t) ==
    /\ At(t, "clear")
    /\ m_user_media_states' = Nothing
    /\ LET s == SetToSeq(DOMAIN m_user_media_states)
       IN Then(t, [i \in DOMAIN s |-> Do("tell", Offs(s[i]))])
    /\ UNCHANGED <<serverVars, engineVars, sessionVars, worker, up, renderVars, pageVars,
                   queue>>

-----------------------------------------------------------------------------
(* A worker of a pull session brings a frame.                               *)

WorkerGoes(w, from, to) == worker[w] = from /\ worker' = [worker EXCEPT ![w] = to]

Closing(u) == \E t \in Threads : At(t, "unsubscribe") /\ For(t) = u

\* OnTransportVideoFrame and OnTransportAudioFrame: frames are taken in a meeting,
\* until the session is told to stop.
Arrive(w) ==
    /\ w[1] \in DOMAIN m_pull_sessions /\ m_pull_sessions[w[1]] = "live" /\ ~Closing(w[1])
    /\ m_accept_media_callbacks /\ Len(queue) < MaxNotices
    /\ WorkerGoes(w, "idle", "push")
    /\ UNCHANGED <<serverVars, engineVars, m_user_media_states, sessionVars, up, renderVars,
                   pageVars, queue, todo>>

Received(u) == IF u \in DOMAIN m_user_media_states THEN m_user_media_states[u] ELSE {}

\* A picture needs the user's window; sound makes its own buffer.
Taken(w) == "render" \in up /\ (w[2] = "video" => w[1] \in m_user_contexts)
Buffer(w) == m_user_buffers' = IF w[2] = "audio" /\ Taken(w) THEN m_user_buffers \cup {w[1]}
                               ELSE m_user_buffers

\* Mutant: the page is told of the sound only when there is no picture.
Mutant_Push(w) ==
    /\ WorkerGoes(w, "push", IF Taken(w) /\ Received(w[1]) = {} THEN "tell" ELSE "idle")
    /\ Buffer(w)
    /\ m_user_media_states' = IF Taken(w)
                              THEN With(m_user_media_states, w[1], Received(w[1]) \cup {w[2]})
                              ELSE m_user_media_states
    /\ UNCHANGED <<serverVars, engineVars, sessionVars, up, m_user_contexts, pageVars, queue, todo>>

\* MarkUserVideoReceived and MarkUserAudioReceived follow: the first frame that is
\* taken switches on.  Nobody who comes between the two touches both.
Push(w) ==
    /\ WorkerGoes(w, "push", IF Taken(w) /\ w[2] \notin Received(w[1]) THEN "tell" ELSE "idle")
    /\ Buffer(w)
    /\ m_user_media_states' = IF Taken(w)
                              THEN With(m_user_media_states, w[1], Received(w[1]) \cup {w[2]})
                              ELSE m_user_media_states
    /\ UNCHANGED <<serverVars, engineVars, sessionVars, up, m_user_contexts, pageVars, queue, todo>>

TellOn(w) ==
    /\ WorkerGoes(w, "tell", "idle")
    /\ Post(<<News(w[2], {w[1]}, TRUE)>>)
    /\ UNCHANGED <<serverVars, engineVars, m_user_media_states, sessionVars, up, renderVars,
                   pageVars, todo>>

-----------------------------------------------------------------------------
(* The event thread.                                                        *)

\* An event that comes before the room is set is lost: ConferenceClient has that.
EventStep == listening /\ Idle("event") /\ ~At("ui", "room") /\ Len(queue) < MaxNotices

\* OnUserJoined.
UserJoined(u) ==
    /\ EventStep /\ u \notin members /\ met[2] < MaxEntries
    /\ members' = members \cup {u} /\ met' = <<met[1], met[2] + 1>>
    /\ Starts("event", IF m_submodel_initialized /\ m_current_meeting_id
                       THEN <<Do("check", u), Do("tell", <<News("joined", {u}, TRUE)>>)>>
                       ELSE << >>)
    /\ UNCHANGED <<listening, engineVars, m_user_media_states, sessionVars, worker, up,
                   renderVars, pageVars, queue>>

\* OnUserLeft.  Somebody who goes while he is being subscribed for the page is lost
\* in the gap that ConferenceClient describes.
Joining == ~Idle("ui") /\ Last(todo["ui"]).what = "enter"

UserLeft(u) ==
    /\ EventStep /\ u \in members
    /\ members' = members \ {u}
    /\ strays' = IF Joining THEN strays \cup {u} ELSE strays
    /\ Starts("event", IF m_current_meeting_id
                       THEN Part(u) \o <<Do("tell", <<News("left", {u}, FALSE)>>)>>
                       ELSE << >>)
    /\ UNCHANGED <<listening, met, engineVars, m_user_media_states, m_pull_sessions, worker, up,
                   renderVars, pageVars, queue>>

\* OnMeetingEnded; the thread reads no more.
MeetingEnded ==
    /\ EventStep
    /\ members' = {} /\ listening' = FALSE
    /\ Starts("event", IF m_current_meeting_id
                       THEN Cleanup \o <<Do("tell", <<News("ended", {}, FALSE)>>)>>
                       ELSE << >>)
    /\ UNCHANGED <<met, engineVars, m_user_media_states, sessionVars, worker, up,
                   renderVars, pageVars, queue>>

-----------------------------------------------------------------------------
(* The page.                                                                *)

NewTile(on) == [on |-> on, widget |-> "new"]

\* createUserTile, for users that have no window yet.
AddTiles(tiles, users, on) ==
    [u \in DOMAIN tiles \cup users |-> IF u \in DOMAIN tiles THEN tiles[u] ELSE NewTile(on)]

\* The lobby asks the server, which names those who are in the meeting.
Join ==
    /\ Idle("ui") /\ ~page /\ queue = << >> /\ m_submodel_initialized /\ ~m_current_meeting_id
    /\ Idle("event") /\ met[1] < MaxMeetings
    /\ listening' = TRUE
    /\ \E participants \in SUBSET Users :
          /\ met[2] + Cardinality(participants) <= MaxEntries
          /\ members' = participants
          /\ met' = <<met[1] + 1, met[2] + Cardinality(participants)>>
          /\ Starts("ui", <<Do("room", {}), Do("accept", {})>> \o ForEach(participants, "check")
                          \o (IF participants = {} THEN << >>
                              ELSE <<Do("tell", <<News("joined", participants, TRUE)>>)>>)
                          \o <<Do("enter", participants)>>)
    /\ UNCHANGED <<engineVars, m_user_media_states, sessionVars, worker, up, renderVars,
                   pageVars, queue>>

SetRoom ==
    /\ At("ui", "room") /\ Then("ui", << >>)
    /\ m_current_meeting_id' = TRUE
    /\ UNCHANGED <<serverVars, m_submodel_initialized, m_observers, m_accept_media_callbacks,
                   m_user_media_states, sessionVars, worker, up, renderVars, pageVars, queue>>

AcceptMedia ==
    /\ At("ui", "accept") /\ Then("ui", << >>)
    /\ m_accept_media_callbacks' = TRUE
    /\ UNCHANGED <<serverVars, m_submodel_initialized, m_observers, m_current_meeting_id,
                   m_user_media_states, sessionVars, worker, up, renderVars, pageVars, queue>>

\* enterConference, with a window for everybody in the answer.
Enter ==
    /\ At("ui", "enter") /\ Then("ui", << >>)
    /\ page' = TRUE /\ m_user_tiles' = AddTiles(Nothing, For("ui"), {})
    /\ UNCHANGED <<serverVars, engineVars, m_user_media_states, sessionVars, worker, up,
                   renderVars, unopened, queue>>

\* initializeGL, when the window is drawn for the first time.  If that fails the
\* window stays as one that was never drawn.
InitializeGL(u) ==
    /\ Idle("ui") /\ u \in DOMAIN m_user_tiles /\ m_user_tiles[u].widget = "new"
    /\ m_user_tiles' = [m_user_tiles EXCEPT ![u].widget = "added"]
    /\ m_user_contexts' = m_user_contexts \cup {u}
    /\ UNCHANGED <<serverVars, engineVars, m_user_media_states, sessionVars, worker, up,
                   m_user_buffers, page, unopened, queue, todo>>

\* Mutant: RemoveUser leaves the sound to the mixer.
Mutant_RemoveUser(u) ==
    /\ m_user_contexts' = m_user_contexts \ {u}
    /\ UNCHANGED m_user_buffers

\* RenderEngine::RemoveUser takes the picture and the sound.
RemoveUser(u) ==
    /\ m_user_contexts' = m_user_contexts \ {u}
    /\ m_user_buffers' = m_user_buffers \ {u}

\* A window is deleted; one that was never drawn has no render user to remove.
DeleteTile(u) ==
    /\ m_user_tiles' = Without(m_user_tiles, u)
    /\ IF m_user_tiles[u].widget = "added"
       THEN RemoveUser(u) /\ unopened' = unopened \ {u}
       ELSE UNCHANGED renderVars /\ unopened' = unopened \cup {u}

\* clearMeeting deletes the windows one after the other.
ClosePage ==
    /\ At("ui", "close page")
    /\ page' = FALSE
    /\ Then("ui", ForEach(DOMAIN m_user_tiles, "delete"))
    /\ UNCHANGED <<serverVars, engineVars, m_user_media_states, sessionVars, worker, up,
                   renderVars, m_user_tiles, unopened, queue>>

Delete ==
    /\ At("ui", "delete") /\ Then("ui", << >>)
    /\ DeleteTile(For("ui"))
    /\ UNCHANGED <<serverVars, engineVars, m_user_media_states, sessionVars, worker, up,
                   page, queue>>

\* Qt delivers a notice; outside a meeting it is dropped.
Deliver(kind) ==
    /\ Idle("ui") /\ m_submodel_initialized
    /\ queue # << >> /\ Head(queue).kind = kind /\ queue' = Tail(queue)
    /\ UNCHANGED <<serverVars, engineVars, m_user_media_states, sessionVars, worker, up>>

\* Without a page the window that a notice would make is never opened.
Unopened(on) == unopened' = IF page \/ ~on THEN unopened ELSE unopened \cup Head(queue).users

DeliverJoined ==
    /\ Deliver("joined") /\ Unopened(TRUE)
    /\ m_user_tiles' = IF page THEN AddTiles(m_user_tiles, Head(queue).users, {}) ELSE m_user_tiles
    /\ UNCHANGED <<renderVars, page, todo>>

DeliverLeft ==
    /\ Deliver("left")
    /\ \E u \in Head(queue).users :
          IF page /\ u \in DOMAIN m_user_tiles THEN DeleteTile(u)
          ELSE UNCHANGED <<renderVars, m_user_tiles, unopened>>
    /\ UNCHANGED <<page, todo>>

DeliverEnded ==
    /\ Deliver("ended")
    /\ IF page THEN Starts("ui", <<Do("close page", {})>>) ELSE UNCHANGED todo
    /\ UNCHANGED <<renderVars, pageVars>>

\* setUserVideoEnabled and setUserAudioEnabled: what comes on before its user
\* was announced makes the window.
Switched(tile, kind, on) == [tile EXCEPT !.on = IF on THEN @ \cup {kind} ELSE @ \ {kind}]

DeliverSwitch(kind) ==
    /\ Deliver(kind) /\ Unopened(Head(queue).on)
    /\ LET on == Head(queue).on
           tiles == IF on THEN AddTiles(m_user_tiles, Head(queue).users, {}) ELSE m_user_tiles
       IN m_user_tiles' = IF ~page THEN m_user_tiles
                          ELSE [u \in DOMAIN tiles |->
                                  IF u \in Head(queue).users THEN Switched(tiles[u], kind, on)
                                  ELSE tiles[u]]
    /\ UNCHANGED <<renderVars, page, todo>>

-----------------------------------------------------------------------------
(* Leaving, and the end of the client.                                      *)

\* exitCurrentMeeting: the server agrees, and the event thread is joined before
\* the engine cleans up; the page is closed last.
Leave ==
    /\ Idle("ui") /\ page /\ m_current_meeting_id
    /\ Starts("ui", <<Do("join thread", {})>> \o Cleanup \o <<Do("close page", {})>>)
    /\ UNCHANGED <<serverVars, engineVars, m_user_media_states, sessionVars, worker, up,
                   renderVars, pageVars, queue>>

JoinThread ==
    /\ At("ui", "join thread") /\ Idle("event") /\ Then("ui", << >>)
    /\ listening' = FALSE /\ members' = {}
    /\ UNCHANGED <<met, engineVars, m_user_media_states, sessionVars, worker, up,
                   renderVars, pageVars, queue>>

\* The window is closed, and what is queued is never delivered; the server may
\* refuse to let the user go.
Shutdown ==
    /\ Idle("ui") /\ m_submodel_initialized /\ m_observers
    /\ m_observers' = FALSE /\ queue' = << >>
    /\ \E agreed \in BOOLEAN :
          /\ agreed => page /\ m_current_meeting_id
          /\ Starts("ui", (IF agreed THEN <<Do("join thread", {})>> \o Cleanup ELSE << >>)
                          \o <<Do("close page", {}), Do("uninit", {})>>)
    /\ UNCHANGED <<serverVars, m_submodel_initialized, m_current_meeting_id,
                   m_accept_media_callbacks, m_user_media_states, sessionVars, worker, up,
                   renderVars, pageVars>>

\* UninitSubModel takes no more events, but one may be in the engine.
Uninit ==
    /\ At("ui", "uninit")
    /\ m_submodel_initialized' = FALSE /\ m_accept_media_callbacks' = FALSE
    /\ listening' = FALSE
    /\ Then("ui", Cleanup \o <<Do("stop transport", {}), Do("stop render", {}),
                               Do("join thread", {}), Do("clear", {})>>)
    /\ UNCHANGED <<members, met, m_observers, m_current_meeting_id, m_user_media_states,
                   sessionVars, worker, up, renderVars, pageVars, queue>>

\* Sessions that came up behind the cleanup are closed here.
StopTransport ==
    /\ At("ui", "stop transport") /\ Then("ui", << >>)
    /\ \A w \in Workers : worker[w] = "idle"
    /\ m_pull_sessions' = Nothing /\ up' = up \ {"transport"}
    /\ UNCHANGED <<serverVars, engineVars, m_user_media_states, strays, worker, renderVars, pageVars,
                   queue>>

StopRender ==
    /\ At("ui", "stop render") /\ Then("ui", << >>)
    /\ m_user_contexts' = {} /\ m_user_buffers' = {} /\ up' = up \ {"render"}
    /\ UNCHANGED <<serverVars, engineVars, m_user_media_states, sessionVars, worker,
                   pageVars, queue>>

-----------------------------------------------------------------------------
EngineStep(t) ==
    \/ Check(t) \/ Subscribe(t) \/ Enlist(t)
    \/ Unsubscribe(t) \/ Forget(t) \/ Tell(t)
    \/ Refuse(t) \/ CloseAll(t) \/ Clear(t)

PageStep ==
    \/ SetRoom \/ AcceptMedia \/ Enter \/ ClosePage \/ Delete \/ JoinThread
    \/ Uninit \/ StopTransport \/ StopRender

DeliverNotice ==
    \/ DeliverJoined \/ DeliverLeft \/ DeliverEnded
    \/ \E k \in Kinds : DeliverSwitch(k)

WorkerStep(w) == Push(w) \/ TellOn(w)

User == Join \/ Leave \/ Shutdown
Server == MeetingEnded \/ \E u \in Users : UserJoined(u) \/ UserLeft(u) \/ Answer(u)

Next ==
    \/ User \/ Server \/ DeliverNotice \/ PageStep
    \/ \E t \in Threads : EngineStep(t)
    \/ \E u \in Users : InitializeGL(u)
    \/ \E w \in Workers : Arrive(w) \/ WorkerStep(w)

Spec == Init /\ [][Next]_vars

\* The threads and workers run, and Qt delivers what is in its queue, however
\* often the user clicks in between.
Fairness ==
    /\ WF_vars(PageStep \/ EngineStep("ui")) /\ WF_vars(EngineStep("event"))
    /\ \A w \in Workers : WF_vars(WorkerStep(w))
    /\ SF_vars(DeliverNotice)

FairSpec == Spec /\ Fairness

-----------------------------------------------------------------------------
RemoteTypeOK ==
    /\ members \subseteq Users /\ listening \in BOOLEAN
    /\ {m_submodel_initialized, m_observers, m_current_meeting_id,
        m_accept_media_callbacks, page} \subseteq BOOLEAN
    /\ DOMAIN m_user_media_states \subseteq Users
    /\ \A u \in DOMAIN m_user_media_states : m_user_media_states[u] \subseteq Kinds
    /\ DOMAIN m_pull_sessions \subseteq Users
    /\ \A u \in DOMAIN m_pull_sessions : m_pull_sessions[u] \in {"asked", "live"}
    /\ worker \in [Workers -> {"idle", "push", "tell"}]
    /\ up \subseteq {"transport", "render"}
    /\ m_user_contexts \subseteq Users /\ m_user_buffers \subseteq Users
    /\ DOMAIN m_user_tiles \subseteq Users
    /\ \A u \in DOMAIN m_user_tiles :
          m_user_tiles[u] \in [on : SUBSET Kinds, widget : {"new", "added"}]
    /\ \A i \in DOMAIN queue : queue[i] \in Notices
    /\ unopened \subseteq Users

\* RenderEngine draws the users whose window was drawn, and no others.
WindowsOwnUsers ==
    "render" \in up =>
        m_user_contexts = {u \in DOMAIN m_user_tiles : m_user_tiles[u].widget = "added"}

AtRest == (\A t \in Threads : Idle(t)) /\ \A w \in Workers : worker[w] = "idle"

\* Outside a meeting nothing is received, and the mixer plays nobody but those
\* whose window went before it was drawn (these it keeps); after shutdown it
\* plays nobody, whatever an event was doing behind the cleanup.
NothingLeft ==
    /\ AtRest /\ ~page /\ ~m_current_meeting_id /\ queue = << >> =>
          /\ DOMAIN m_pull_sessions \cup DOMAIN m_user_media_states \subseteq strays
          /\ m_user_tiles = Nothing
          /\ m_user_buffers \subseteq unopened \cup strays
    /\ AtRest /\ ~m_submodel_initialized =>
          /\ m_pull_sessions = Nothing /\ m_user_media_states = Nothing
          /\ m_user_buffers = {}

\* The variables keep their types; windows, users of the renderer and buffers
\* of the mixer are made and removed together.
RemoteInvariant == RemoteTypeOK /\ WindowsOwnUsers /\ NothingLeft

\* Whatever the order of events, frames, notices and clicks: once everything has
\* been delivered, there is a window for every user with a media state, it shows
\* as on what is received, and nobody is shown or played who is not there.
StatusSettles ==
    AtRest /\ page /\ m_current_meeting_id /\ queue = << >> /\ strays = {} =>
        /\ DOMAIN m_user_tiles = DOMAIN m_user_media_states
        /\ DOMAIN m_pull_sessions \subseteq DOMAIN m_user_tiles
        /\ DOMAIN m_user_tiles \subseteq members
        /\ m_user_buffers \subseteq DOMAIN m_user_tiles \cup unopened
        /\ \A u \in DOMAIN m_user_tiles : m_user_tiles[u].on = m_user_media_states[u]

\* What the comments of UnsubscribeRemoteUserMedia say: a user's sound is taken out
\* of the mixer when his window is deleted.  A window never drawn leaves it there.
SoundGoesWithWindow ==
    AtRest /\ page /\ m_current_meeting_id /\ queue = << >> /\ strays = {}
        => m_user_buffers \subseteq DOMAIN m_user_tiles

Receives(u, k) == u \in DOMAIN m_user_media_states /\ k \in m_user_media_states[u]
Shows(u, k) == u \in DOMAIN m_user_tiles /\ k \in m_user_tiles[u].on

\* What is received is shown, unless it ends; and every call comes to its end.
RemoteProgress ==
    /\ \A u \in Users, k \in Kinds :
          Receives(u, k) ~> Shows(u, k) \/ ~Receives(u, k) \/ ~m_observers \/ u \in strays
    /\ \A t \in Threads : ~Idle(t) ~> Idle(t)
=============================================================================
