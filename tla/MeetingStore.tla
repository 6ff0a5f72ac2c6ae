---------------------------- MODULE MeetingStore ----------------------------
(***************************************************************************)
(* The meeting server: InMemoryMeetingStore, whose operations each run     *)
(* under one mutex, and the SubscribeMeetingEvents stream handlers of      *)
(* MeetingServiceImpl, which run in gRPC threads of their own and share    *)
(* only an event queue with the store.  Store operations are atomic here;  *)
(* a stream handler takes one step per lock it acquires.                   *)
(*                                                                         *)
(* Abstracted: names, titles, times and IP addresses of a meeting (no      *)
(* decision depends on them once a request is well formed), the order of   *)
(* the subscriptions of a meeting (all are pushed to under one lock), and  *)
(* the participant list an event carries (the client replays the trigger   *)
(* users and never reads it).                                              *)
(***************************************************************************)
EXTENDS Integers, FiniteSets, SequencesExt

CONSTANTS
    Users,        \* user names
    Passwords,    \* well-formed passwords
    Subs,         \* SubscribeMeetingEvents calls, each made at most once
    MaxMeetings,  \* bound: meetings ever created
    MaxQueue      \* bound: events waiting in one subscription

ASSUME MeetingStoreAssumption ==
    /\ MaxMeetings \in Nat \ {0}
    /\ MaxQueue \in Nat \ {0}

VARIABLES
    m_users,                \* registered password of every user
    m_logged_in_users,      \* there is no logout: it only grows
    m_meetings,             \* meeting number -> record
    m_user_meetings,        \* the meeting each user is in, or NoMeeting
    m_next_meeting_number,
    m_subscriptions,        \* meeting number -> listed subscriptions
    m_events,               \* queue of every subscription
    m_closed,               \* m_closed of every subscription
    sub_of,                 \* meeting and user a subscription is for
    stream,                 \* where the stream handler stands
    in_hand,                \* event popped by WaitNext, not yet written
    cancelled,              \* the client cancelled or lost the call
    view                    \* participants as replayed from what was written

userVars    == <<m_users, m_logged_in_users>>
meetingVars == <<m_meetings, m_user_meetings, m_next_meeting_number>>
hubVars     == <<m_subscriptions, m_events, m_closed>>
streamVars  == <<sub_of, stream, in_hand, cancelled, view>>
vars        == <<userVars, meetingVars, hubVars, streamVars>>

NoMeeting  == 0
NoPassword == "none"
NoUser     == "none"
MeetingIds == 1..MaxMeetings

EventKinds == {"UserJoined", "UserLeft", "MeetingEnded"}
Events     == [kind : EventKinds, trigger_user : Users]
Records    == [creator : Users, participants : Seq(Users), active : BOOLEAN]
Stages     == {"free", "loop", "wait", "check", "write", "exit", "done"}

Running == {"loop", "wait", "check", "write", "exit"}

-----------------------------------------------------------------------------
(* Helpers of the store.                                                    *)

\* Position of the user in the list, 0 for participants.end().
FindParticipant(participants, user) ==
    IF Contains(participants, user)
    THEN CHOOSE i \in 1..Len(participants) :
            /\ participants[i] = user
            /\ \A j \in 1..(i - 1) : participants[j] # user
    ELSE 0

Mutant_EraseParticipant(participants, user) ==
    RemoveAt(participants, Len(participants))

EraseParticipant(participants, user) ==
    RemoveAt(participants, FindParticipant(participants, user))

\* The first number from m_next_meeting_number on that names no meeting.
GenerateMeetingIdLocked ==
    CHOOSE n \in MeetingIds :
        /\ n >= m_next_meeting_number
        /\ n \notin DOMAIN m_meetings
        /\ \A k \in m_next_meeting_number..(n - 1) : k \in DOMAIN m_meetings

MeetingIdLeft ==
    \E n \in MeetingIds : n >= m_next_meeting_number /\ n \notin DOMAIN m_meetings

\* A weak_ptr to a subscription can be locked while its handler runs.
Alive(s) == stream[s] \in Running

\* The subscription side of the store as one value, so that an operation can
\* publish and then close in sequence.
Hub == [listed |-> m_subscriptions, events |-> m_events, closed |-> m_closed]

SetHub(hub) ==
    /\ m_subscriptions' = hub.listed
    /\ m_events' = hub.events
    /\ m_closed' = hub.closed

\* Push to every live subscription of the meeting (Push ignores closed ones),
\* dropping expired entries; with closeAll also close and drop all of them.
PublishEventLocked(hub, mid, event, closeAll) ==
    LET live == {s \in hub.listed[mid] : Alive(s)} IN
    [listed |-> [hub.listed EXCEPT ![mid] = IF closeAll THEN {} ELSE live],
     events |-> [s \in Subs |-> IF s \in live /\ ~hub.closed[s]
                                THEN Append(hub.events[s], event)
                                ELSE hub.events[s]],
     closed |-> [s \in Subs |-> hub.closed[s] \/ (closeAll /\ s \in live)]]

Mutant_CloseUserSubscriptions(hub, mid, user) == hub

\* Close and drop the user's subscriptions, and drop expired entries.
CloseUserSubscriptionsLocked(hub, mid, user) ==
    LET live == {s \in hub.listed[mid] : Alive(s)}
        own  == {s \in live : sub_of[s].user = user} IN
    [listed |-> [hub.listed EXCEPT ![mid] = live \ own],
     events |-> hub.events,
     closed |-> [s \in Subs |-> hub.closed[s] \/ s \in own]]

\* Bound: no subscription of the meeting has a full queue.
RoomInQueues(mid) ==
    \A s \in m_subscriptions[mid] : Len(m_events[s]) < MaxQueue

-----------------------------------------------------------------------------
(* Outcome of every request, in the order the checks are made.              *)

\* Mutant: a meeting that has ended is not told from one that is open.
Mutant_MeetingError(mid, user) ==
    IF user \notin m_logged_in_users THEN "kNotLoggedIn"
    ELSE IF mid \notin DOMAIN m_meetings THEN "kMeetingNotFound"
    ELSE "kSuccess"

MeetingError(mid, user) ==
    IF user \notin m_logged_in_users THEN "kNotLoggedIn"
    ELSE IF mid \notin DOMAIN m_meetings THEN "kMeetingNotFound"
    ELSE IF ~m_meetings[mid].active THEN "kMeetingEnded"
    ELSE "kSuccess"

CreateError(user) ==
    IF user \notin m_logged_in_users THEN "kNotLoggedIn"
    ELSE IF m_user_meetings[user] # NoMeeting THEN "kAlreadyInMeeting"
    ELSE "kSuccess"

JoinError(mid, user) ==
    IF MeetingError(mid, user) # "kSuccess" THEN MeetingError(mid, user)
    ELSE IF m_user_meetings[user] \notin {NoMeeting, mid} THEN "kAlreadyInMeeting"
    ELSE "kSuccess"

\* Leaving a meeting and subscribing to it are open to its participants only.
ParticipantError(mid, user) ==
    IF MeetingError(mid, user) # "kSuccess" THEN MeetingError(mid, user)
    ELSE IF ~Contains(m_meetings[mid].participants, user) THEN "kNotParticipant"
    ELSE "kSuccess"

EndError(mid, user) ==
    IF MeetingError(mid, user) # "kSuccess" THEN MeetingError(mid, user)
    ELSE IF m_meetings[mid].creator # user THEN "kPermissionDenied"
    ELSE "kSuccess"

-----------------------------------------------------------------------------
(* Requests.  A request that fails changes nothing, so only the successful *)
(* outcome is an action.                                                   *)

Init ==
    /\ m_users = [u \in Users |-> NoPassword]
    /\ m_logged_in_users = {}
    /\ m_meetings = <<>>
    /\ m_user_meetings = [u \in Users |-> NoMeeting]
    /\ m_next_meeting_number = 1
    /\ m_subscriptions = [mid \in MeetingIds |-> {}]
    /\ m_events = [s \in Subs |-> <<>>]
    /\ m_closed = [s \in Subs |-> FALSE]
    /\ sub_of = [s \in Subs |-> [meeting |-> NoMeeting, user |-> NoUser]]
    /\ stream = [s \in Subs |-> "free"]
    /\ in_hand = [s \in Subs |-> <<>>]
    /\ cancelled = [s \in Subs |-> FALSE]
    /\ view = [s \in Subs |-> {}]

RegisterUser(user, password) ==
    /\ m_users[user] = NoPassword
    /\ m_users' = [m_users EXCEPT ![user] = password]
    /\ UNCHANGED <<m_logged_in_users, meetingVars, hubVars, streamVars>>

LoginUser(user, password) ==
    /\ m_users[user] # NoPassword
    /\ m_users[user] = password
    /\ m_logged_in_users' = m_logged_in_users \cup {user}
    /\ UNCHANGED <<m_users, meetingVars, hubVars, streamVars>>

Mutant_CreateMeeting(user) ==
    /\ CreateError(user) = "kSuccess"
    /\ MeetingIdLeft
    /\ LET mid == GenerateMeetingIdLocked
           new == [creator |-> user, participants |-> <<user>>, active |-> TRUE]
       IN /\ m_meetings' = [m \in DOMAIN m_meetings \cup {mid} |->
                              IF m = mid THEN new ELSE m_meetings[m]]
          /\ m_user_meetings' = [m_user_meetings EXCEPT ![user] = mid]
    /\ UNCHANGED <<userVars, m_next_meeting_number, hubVars, streamVars>>

CreateMeeting(user) ==
    /\ CreateError(user) = "kSuccess"
    /\ MeetingIdLeft
    /\ LET mid == GenerateMeetingIdLocked
           new == [creator |-> user, participants |-> <<user>>, active |-> TRUE]
       IN /\ m_next_meeting_number' = mid + 1
          /\ m_meetings' = [m \in DOMAIN m_meetings \cup {mid} |->
                              IF m = mid THEN new ELSE m_meetings[m]]
          /\ m_user_meetings' = [m_user_meetings EXCEPT ![user] = mid]
    /\ UNCHANGED <<userVars, hubVars, streamVars>>

Mutant_JoinMeeting(mid, user) ==
    /\ JoinError(mid, user) = "kSuccess"
    /\ RoomInQueues(mid)
    /\ m_meetings' = [m_meetings EXCEPT ![mid].participants = Append(@, user)]
    /\ m_user_meetings' = [m_user_meetings EXCEPT ![user] = mid]
    /\ SetHub(PublishEventLocked(Hub, mid,
                [kind |-> "UserJoined", trigger_user |-> user], FALSE))
    /\ UNCHANGED <<userVars, m_next_meeting_number, streamVars>>

\* A retry by a participant refreshes his address and publishes nothing.
JoinMeeting(mid, user) ==
    /\ JoinError(mid, user) = "kSuccess"
    /\ RoomInQueues(mid)
    /\ m_user_meetings' = [m_user_meetings EXCEPT ![user] = mid]
    /\ IF Contains(m_meetings[mid].participants, user)
       THEN UNCHANGED <<m_meetings, hubVars>>
       ELSE /\ m_meetings' = [m_meetings EXCEPT ![mid].participants = Append(@, user)]
            /\ SetHub(PublishEventLocked(Hub, mid,
                        [kind |-> "UserJoined", trigger_user |-> user], FALSE))
    /\ UNCHANGED <<userVars, m_next_meeting_number, streamVars>>

\* The last participant to leave ends the meeting; otherwise the leaver's own
\* stream is closed, after the event has been pushed to it as to all others.
LeaveMeeting(mid, user) ==
    /\ ParticipantError(mid, user) = "kSuccess"
    /\ RoomInQueues(mid)
    /\ m_user_meetings' = [m_user_meetings EXCEPT ![user] = NoMeeting]
    /\ LET rest == EraseParticipant(m_meetings[mid].participants, user) IN
       /\ m_meetings' = [m_meetings EXCEPT ![mid].participants = rest,
                                           ![mid].active = rest # <<>>]
       /\ IF rest = <<>>
          THEN SetHub(PublishEventLocked(Hub, mid,
                        [kind |-> "MeetingEnded", trigger_user |-> user], TRUE))
          ELSE SetHub(CloseUserSubscriptionsLocked(
                        PublishEventLocked(Hub, mid,
                          [kind |-> "UserLeft", trigger_user |-> user], FALSE),
                        mid, user))
    /\ UNCHANGED <<userVars, m_next_meeting_number, streamVars>>

\* The creator may end his meeting even after having left it.
EndMeeting(mid, user) ==
    /\ EndError(mid, user) = "kSuccess"
    /\ RoomInQueues(mid)
    /\ m_user_meetings' = [u \in Users |->
                             IF Contains(m_meetings[mid].participants, u)
                             THEN NoMeeting ELSE m_user_meetings[u]]
    /\ m_meetings' = [m_meetings EXCEPT ![mid].participants = <<>>,
                                        ![mid].active = FALSE]
    /\ SetHub(PublishEventLocked(Hub, mid,
                [kind |-> "MeetingEnded", trigger_user |-> user], TRUE))
    /\ UNCHANGED <<userVars, m_next_meeting_number, streamVars>>

-----------------------------------------------------------------------------
(* The stream handler of one SubscribeMeetingEvents call.                   *)

\* A new stream of a user closes the one he had for the meeting.
SubscribeMeetingEvents(s, mid, user) ==
    /\ stream[s] = "free"
    /\ ParticipantError(mid, user) = "kSuccess"
    /\ LET hub  == CloseUserSubscriptionsLocked(Hub, mid, user)
           kept == {t \in hub.listed[mid] : Alive(t)}  \* RemoveExpiredSubscriptionsLocked
       IN SetHub([hub EXCEPT !.listed[mid] = kept \cup {s}])
    /\ sub_of' = [sub_of EXCEPT ![s] = [meeting |-> mid, user |-> user]]
    /\ stream' = [stream EXCEPT ![s] = "loop"]
    /\ view' = [view EXCEPT ![s] = ToSet(m_meetings[mid].participants)]
    /\ UNCHANGED <<userVars, meetingVars, in_hand, cancelled>>

\* The client gives up the call, or the connection breaks.
CancelStream(s) ==
    /\ Alive(s)
    /\ ~cancelled[s]
    /\ cancelled' = [cancelled EXCEPT ![s] = TRUE]
    /\ UNCHANGED <<userVars, meetingVars, hubVars, sub_of, stream, in_hand, view>>

StreamStep(s, from, to) ==
    /\ stream[s] = from
    /\ stream' = [stream EXCEPT ![s] = to]
    /\ UNCHANGED <<userVars, meetingVars, sub_of, cancelled>>

CheckCancelled(s) ==
    /\ StreamStep(s, "loop", IF cancelled[s] THEN "exit" ELSE "wait")
    /\ UNCHANGED <<hubVars, in_hand, view>>

\* WaitNext returns the oldest event, also after Close.
WaitNext(s) ==
    /\ m_events[s] # <<>>
    /\ StreamStep(s, "wait", "write")
    /\ in_hand' = [in_hand EXCEPT ![s] = <<Head(m_events[s])>>]
    /\ m_events' = [m_events EXCEPT ![s] = Tail(@)]
    /\ UNCHANGED <<m_subscriptions, m_closed, view>>

\* WaitNext returns false: the wait timed out, or the queue is closed and empty.
WaitNextEmpty(s) ==
    /\ m_events[s] = <<>>
    /\ StreamStep(s, "wait", "check")
    /\ UNCHANGED <<hubVars, in_hand, view>>

Mutant_CheckClosed(s) ==
    /\ StreamStep(s, "check", "loop")
    /\ UNCHANGED <<hubVars, in_hand, view>>

\* IsClosed takes the queue's lock anew: the queue may have changed since.
CheckClosed(s) ==
    /\ StreamStep(s, "check", IF m_closed[s] THEN "exit" ELSE "loop")
    /\ UNCHANGED <<hubVars, in_hand, view>>

\* What a client that replays the events takes the participants to be.
Replay(seen, event) ==
    CASE event.kind = "UserJoined"   -> seen \cup {event.trigger_user}
      [] event.kind = "UserLeft"     -> seen \ {event.trigger_user}
      [] event.kind = "MeetingEnded" -> {}

\* A handler that has written the end of the meeting stops.
WriteEvent(s) ==
    /\ in_hand[s] # <<>>
    /\ LET event == in_hand[s][1] IN
       /\ StreamStep(s, "write", IF event.kind = "MeetingEnded" THEN "exit" ELSE "loop")
       /\ view' = [view EXCEPT ![s] = Replay(@, event)]
    /\ in_hand' = [in_hand EXCEPT ![s] = <<>>]
    /\ UNCHANGED hubVars

\* writer->Write() returns false on a broken call.
WriteFails(s) ==
    /\ cancelled[s]
    /\ StreamStep(s, "write", "exit")
    /\ in_hand' = [in_hand EXCEPT ![s] = <<>>]
    /\ UNCHANGED <<hubVars, view>>

\* The handler drops its subscription from the store and lets go of it.
UnsubscribeMeetingEvents(s) ==
    /\ StreamStep(s, "exit", "done")
    /\ m_subscriptions' = [m_subscriptions EXCEPT ![sub_of[s].meeting] =
                             {t \in @ : Alive(t) /\ t # s}]
    /\ m_closed' = [m_closed EXCEPT ![s] = TRUE]
    /\ UNCHANGED <<m_events, in_hand, view>>

StreamHandler(s) ==
    \/ CheckCancelled(s)
    \/ WaitNext(s)
    \/ WaitNextEmpty(s)
    \/ CheckClosed(s)
    \/ WriteEvent(s)
    \/ WriteFails(s)
    \/ UnsubscribeMeetingEvents(s)

AccountRequest(user) ==
    \E password \in Passwords : RegisterUser(user, password) \/ LoginUser(user, password)

UserRequest(user) ==
    \/ AccountRequest(user)
    \/ CreateMeeting(user)
    \/ \E mid \in MeetingIds :
          \/ JoinMeeting(mid, user)
          \/ LeaveMeeting(mid, user)
          \/ EndMeeting(mid, user)
          \/ \E s \in Subs : SubscribeMeetingEvents(s, mid, user)

Next ==
    \/ \E user \in Users : UserRequest(user)
    \/ \E s \in Subs : CancelStream(s) \/ StreamHandler(s)

Spec == Init /\ [][Next]_vars

\* The handlers run in threads of their own and every wait has a timeout;
\* nothing makes a client send a request.
Fairness == \A s \in Subs : WF_vars(StreamHandler(s))

FairSpec == Spec /\ Fairness

-----------------------------------------------------------------------------
(* Properties.                                                              *)

\* Every variable has its type, part by part.
MeetingTypeOK ==
    /\ m_users \in [Users -> Passwords \cup {NoPassword}]
    /\ m_logged_in_users \in SUBSET Users
    /\ m_next_meeting_number \in 1..(MaxMeetings + 1)
    /\ m_meetings \in [1..(m_next_meeting_number - 1) -> Records]
    /\ m_user_meetings \in [Users -> MeetingIds \cup {NoMeeting}]

HubTypeOK ==
    /\ m_subscriptions \in [MeetingIds -> SUBSET Subs]
    /\ m_events \in [Subs -> Seq(Events)]
    /\ m_closed \in [Subs -> BOOLEAN]

StreamTypeOK ==
    /\ sub_of \in [Subs -> [meeting : MeetingIds \cup {NoMeeting},
                           user : Users \cup {NoUser}]]
    /\ stream \in [Subs -> Stages]
    /\ in_hand \in [Subs -> Seq(Events)]
    /\ cancelled \in [Subs -> BOOLEAN]
    /\ view \in [Subs -> SUBSET Users]

TypeOK == MeetingTypeOK /\ HubTypeOK /\ StreamTypeOK

\* m_user_meetings and the participant lists say the same: a user is listed in
\* a meeting exactly when the index names it, so in one meeting at most.
IndexMatchesLists ==
    \A u \in Users :
        /\ m_user_meetings[u] \in DOMAIN m_meetings \cup {NoMeeting}
        /\ \A mid \in DOMAIN m_meetings :
              m_user_meetings[u] = mid <=> Contains(m_meetings[mid].participants, u)

\* Retried joins never enter a user twice, so one leave removes him.
NoDuplicateParticipant ==
    \A mid \in DOMAIN m_meetings : IsInjective(m_meetings[mid].participants)

\* A meeting is active exactly while it has participants.
ActiveIffOccupied ==
    \A mid \in DOMAIN m_meetings :
        m_meetings[mid].active <=> m_meetings[mid].participants # <<>>

\* Joins, leaves and ends keep the two sides of the membership together.
MembershipConsistent ==
    /\ IndexMatchesLists
    /\ NoDuplicateParticipant
    /\ ActiveIffOccupied

\* The store lists exactly the open subscriptions of running handlers, under
\* the meeting they are for: nothing expired stays, nothing open is forgotten.
ListedIffOpen ==
    \A s \in Subs, mid \in MeetingIds :
        s \in m_subscriptions[mid]
            <=> Alive(s) /\ ~m_closed[s] /\ sub_of[s].meeting = mid

\* Only a current participant holds an open stream, and he holds one.
OneOpenStreamPerParticipant ==
    \A mid \in MeetingIds : \A s \in m_subscriptions[mid] :
        /\ sub_of[s].user \in Users
        /\ m_user_meetings[sub_of[s].user] = mid
        /\ \A t \in m_subscriptions[mid] : sub_of[t].user = sub_of[s].user => t = s

\* A call not made yet finds its queue open.
UnusedIsOpen == \A s \in Subs : stream[s] = "free" => ~m_closed[s]

\* The store's list of streams, the streams' own state and the membership
\* agree after any interleaving of requests and handlers.
Subscribed == ListedIffOpen /\ OneOpenStreamPerParticipant /\ UnusedIsOpen

\* The reader of an open stream misses nothing and sees nothing twice or out
\* of order: what he has replayed, with what is still under way, is the
\* participant list of the meeting (until a write to him fails).
OpenStreamTracksMeeting ==
    \A mid \in MeetingIds : \A s \in m_subscriptions[mid] :
        stream[s] # "exit" =>
            FoldLeft(Replay, view[s], in_hand[s] \o m_events[s])
                = ToSet(m_meetings[mid].participants)

\* "WaitNext() still returns the queued end event first" (the comment where
\* EndMeeting publishes): a handler whose client stays connected does not
\* return while the end of the meeting waits in its queue.
EndReachesReader ==
    \A s \in Subs : stream[s] = "done" /\ ~cancelled[s] =>
        \A i \in DOMAIN m_events[s] : m_events[s][i].kind # "MeetingEnded"

\* Once the store has closed a stream or its client is gone, the handler
\* returns and frees its gRPC thread, whatever was queued.
StreamEnds ==
    \A s \in Subs : (m_closed[s] \/ cancelled[s]) ~> stream[s] = "done"

MeetingStatus ==
    [mid \in MeetingIds |-> IF mid \notin DOMAIN m_meetings THEN "unused"
                            ELSE IF m_meetings[mid].active THEN "open" ELSE "over"]

Roster == INSTANCE MeetingRoster WITH at <- m_user_meetings, status <- MeetingStatus

\* The store keeps the membership promises of the abstract roster.
ImplementsRoster == Roster!Spec

=============================================================================
