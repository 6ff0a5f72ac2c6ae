----------------------- MODULE ConferenceClientProofs -----------------------
(* Proofs about the meeting server and the client in a meeting, for any      *)
(* users, calls, meetings and streams: the server's invariants, the abstract *)
(* roster it implements and its list of meetings; what is left when a client *)
(* has gone, and what its page shows while it is in.                         *)
EXTENDS ConferenceClient, MeetingList, SequenceTheorems, FiniteSetTheorems,
        WellFoundedInduction, TLAPS

-----------------------------------------------------------------------------
(* The participant vector.                                                  *)

\* Joining: the new user, and nobody else, is added, once.
LEMMA AppendParticipant ==
    ASSUME NEW S, NEW p \in Seq(S), NEW u \in S, IsInjective(p), ~Contains(p, u)
    PROVE  /\ Append(p, u) \in Seq(S)
           /\ IsInjective(Append(p, u))
           /\ Append(p, u) # <<>>
           /\ \A v : Contains(Append(p, u), v) <=> Contains(p, v) \/ v = u
  BY DEF IsInjective, Contains

\* Searching the vector: the position found holds the user.
LEMMA FindParticipantSpec ==
    ASSUME NEW S, NEW p \in Seq(S), NEW u \in S, IsInjective(p), Contains(p, u)
    PROVE  /\ FindParticipant(p, u) \in 1..Len(p)
           /\ p[FindParticipant(p, u)] = u
<1> DEFINE First(i) == /\ p[i] = u
                       /\ \A j \in 1..(i - 1) : p[j] # u
<1>1. PICK i \in 1..Len(p) : p[i] = u
  BY DEF Contains
<1>2. First(i)
  BY <1>1 DEF IsInjective
<1>3. \E k \in 1..Len(p) : First(k)
  BY <1>2
<1>4. /\ (CHOOSE k \in 1..Len(p) : First(k)) \in 1..Len(p)
      /\ First(CHOOSE k \in 1..Len(p) : First(k))
  BY <1>3, Zenon
<1>5. FindParticipant(p, u) = CHOOSE k \in 1..Len(p) : First(k)
  BY DEF FindParticipant
<1> QED
  BY <1>4, <1>5

\* Leaving: the user, and nobody else, is removed.
LEMMA EraseParticipantSpec ==
    ASSUME NEW S, NEW p \in Seq(S), NEW u \in S, IsInjective(p), Contains(p, u)
    PROVE  LET e == EraseParticipant(p, u) IN
           /\ e \in Seq(S)
           /\ IsInjective(e)
           /\ \A v : Contains(e, v) <=> Contains(p, v) /\ v # u
<1> DEFINE i == FindParticipant(p, u)
           e == EraseParticipant(p, u)
<1>1. i \in 1..Len(p) /\ p[i] = u
  BY FindParticipantSpec
<1>2. e = SubSeq(p, 1, i - 1) \o SubSeq(p, i + 1, Len(p))
  BY DEF EraseParticipant, RemoveAt
<1> HIDE DEF i, e
<1>3. /\ e \in Seq(S)
      /\ Len(e) = Len(p) - 1
      /\ \A j \in 1..(Len(p) - 1) : e[j] = IF j < i THEN p[j] ELSE p[j + 1]
  <2> DEFINE before == SubSeq(p, 1, i - 1)
             after  == SubSeq(p, i + 1, Len(p))
  <2>1. /\ before \in Seq(S)
        /\ Len(before) = i - 1
        /\ \A j \in 1..(i - 1) : before[j] = p[j]
    BY <1>1
  <2>2. /\ after \in Seq(S)
        /\ Len(after) = Len(p) - i
        /\ \A j \in 1..(Len(p) - i) : after[j] = p[j + i]
    BY <1>1
  <2> HIDE DEF before, after
  <2>3. e = before \o after
    BY <1>2 DEF before, after
  <2>4. /\ e \in Seq(S)
        /\ Len(e) = Len(before) + Len(after)
        /\ \A j \in 1..Len(e) :
              e[j] = IF j <= Len(before) THEN before[j] ELSE after[j - Len(before)]
    <3>1. /\ before \in Seq(S) /\ after \in Seq(S)
          /\ Len(before) \in Nat /\ Len(after) \in Nat
      BY <1>1, <2>1, <2>2
    <3>2. /\ before \o after \in Seq(S)
          /\ Len(before \o after) = Len(before) + Len(after)
          /\ \A j \in 1..(Len(before) + Len(after)) :
                (before \o after)[j] = IF j <= Len(before) THEN before[j]
                                       ELSE after[j - Len(before)]
      BY <3>1, ConcatProperties, ZenonT(30)
    <3> QED
      BY <2>3, <3>2, Zenon
  <2>5. Len(e) = Len(p) - 1
    BY <1>1, <2>1, <2>2, <2>4
  <2>6. ASSUME NEW j \in 1..(Len(p) - 1), j < i
        PROVE  e[j] = p[j]
    BY <1>1, <2>1, <2>4, <2>5, <2>6
  <2>7. ASSUME NEW j \in 1..(Len(p) - 1), ~(j < i)
        PROVE  e[j] = p[j + 1]
    <3>1. j \in 1..Len(e) /\ j > Len(before)
      BY <1>1, <2>1, <2>5, <2>7
    <3>2. e[j] = after[j - Len(before)]
      BY <2>1, <2>2, <2>4, <3>1
    <3>3. e[j] = after[j - (i - 1)]
      BY <2>1, <3>2
    <3>4. j - (i - 1) \in 1..(Len(p) - i) /\ (j - (i - 1)) + i = j + 1
      BY <1>1, <2>7
    <3> QED
      BY <2>2, <3>3, <3>4
  <2> QED
    BY <2>4, <2>5, <2>6, <2>7
<1>4. IsInjective(e)
  <2> SUFFICES ASSUME NEW a \in 1..Len(e), NEW b \in 1..Len(e), e[a] = e[b]
               PROVE  a = b
    BY <1>3 DEF IsInjective
  <2> DEFINE Old(j) == IF j < i THEN j ELSE j + 1
  <2>1. /\ Old(a) \in 1..Len(p) /\ Old(b) \in 1..Len(p)
        /\ p[Old(a)] = e[a] /\ p[Old(b)] = e[b]
    <3>1. ASSUME NEW j \in 1..Len(e) PROVE Old(j) \in 1..Len(p) /\ p[Old(j)] = e[j]
      <4>1. j \in 1..(Len(p) - 1)
        BY <1>3
      <4>2. CASE j < i
        <5>1. Old(j) = j
          BY <4>2
        <5>2. e[j] = p[j] /\ j \in 1..Len(p)
          BY <1>1, <1>3, <4>1, <4>2
        <5> HIDE DEF Old
        <5> QED
          BY <5>1, <5>2
      <4>3. CASE ~(j < i)
        <5>1. Old(j) = j + 1
          BY <4>3
        <5>2. e[j] = p[j + 1] /\ j + 1 \in 1..Len(p)
          BY <1>1, <1>3, <4>1, <4>3
        <5> HIDE DEF Old
        <5> QED
          BY <5>1, <5>2
      <4> QED
        BY <4>2, <4>3
    <3> QED
      BY <3>1
  <2>2. Old(a) = Old(b)
    <3> HIDE DEF Old
    <3> QED
      BY <2>1 DEF IsInjective
  <2> QED
    BY <1>1, <2>2
<1>5. ASSUME NEW v, Contains(e, v)
      PROVE  Contains(p, v) /\ v # u
  <2>1. PICK j \in 1..(Len(p) - 1) : e[j] = v
    BY <1>3, <1>5 DEF Contains
  <2> DEFINE k == IF j < i THEN j ELSE j + 1
  <2>2. k \in 1..Len(p) /\ k # i /\ p[k] = v
    BY <1>1, <1>3, <2>1
  <2> HIDE DEF k
  <2>3. p[k] # p[i]
    BY <1>1, <2>2 DEF IsInjective
  <2>4. Contains(p, v)
    BY <2>2 DEF Contains
  <2> QED
    BY <1>1, <2>2, <2>3, <2>4
<1>6. ASSUME NEW v, Contains(p, v), v # u
      PROVE  Contains(e, v)
  <2>1. PICK k \in 1..Len(p) : p[k] = v
    BY <1>6 DEF Contains
  <2>2. CASE k < i
    BY <1>1, <1>3, <2>1, <2>2 DEF Contains
  <2>3. CASE k > i
    <3>1. k - 1 \in 1..Len(e) /\ e[k - 1] = v
      BY <1>1, <1>3, <2>1, <2>3
    <3> QED
      BY <3>1 DEF Contains
  <2> QED
    BY <1>1, <1>6, <2>1, <2>2, <2>3
<1> QED
  BY <1>3, <1>4, <1>5, <1>6 DEF e

-----------------------------------------------------------------------------
(* Numbering.                                                               *)

\* The search for a free number stops at the counter itself.
LEMMA GenerateMeetingIdSpec ==
    ASSUME TypeOK, MeetingIdLeft
    PROVE  /\ GenerateMeetingIdLocked = m_next_meeting_number
           /\ m_next_meeting_number \in MeetingIds
<1> DEFINE n0 == m_next_meeting_number
           Free(n) == /\ n >= n0
                      /\ n \notin DOMAIN m_meetings
                      /\ \A k \in n0..(n - 1) : k \in DOMAIN m_meetings
<1>1. /\ n0 \in 1..(MaxMeetings + 1)
      /\ DOMAIN m_meetings = 1..(n0 - 1)
      /\ MaxMeetings \in Nat
  BY MeetingStoreAssumption DEF TypeOK, MeetingTypeOK
<1>2. n0 \in MeetingIds
  BY <1>1 DEF MeetingIdLeft, MeetingIds
<1>3. Free(n0)
  BY <1>1
<1>4. \A n \in MeetingIds : Free(n) => n = n0
  BY <1>1 DEF MeetingIds
<1>5. (CHOOSE n \in MeetingIds : Free(n)) = n0
  <2> HIDE DEF Free
  <2>1. /\ (CHOOSE n \in MeetingIds : Free(n)) \in MeetingIds
        /\ Free(CHOOSE n \in MeetingIds : Free(n))
    BY <1>2, <1>3, Zenon
  <2> QED
    BY <2>1, <1>4
<1> QED
  BY <1>2, <1>5 DEF GenerateMeetingIdLocked

-----------------------------------------------------------------------------
(* The subscription hub.                                                    *)

Hubs == [listed : [MeetingIds -> SUBSET Subs],
         events : [Subs -> Seq(Events)],
         closed : [Subs -> BOOLEAN]]

\* Publishing keeps the hub well typed.
LEMMA PublishType ==
    ASSUME NEW hub \in Hubs, NEW mid \in MeetingIds, NEW news \in Events,
           NEW closeAll \in BOOLEAN
    PROVE  PublishEventLocked(hub, mid, news, closeAll) \in Hubs
<1> DEFINE live == {s \in hub.listed[mid] : Alive(s)}
           h == PublishEventLocked(hub, mid, news, closeAll)
<1>1. live \in SUBSET Subs
  BY DEF Hubs
<1>2. /\ h.listed = [hub.listed EXCEPT ![mid] = IF closeAll THEN {} ELSE live]
      /\ h.events = [s \in Subs |-> IF s \in live /\ ~hub.closed[s]
                                     THEN Append(hub.events[s], news)
                                     ELSE hub.events[s]]
      /\ h.closed = [s \in Subs |-> hub.closed[s] \/ (closeAll /\ s \in live)]
      /\ h = [listed |-> h.listed, events |-> h.events, closed |-> h.closed]
  BY DEF PublishEventLocked
<1> HIDE DEF h, live
<1>3. h.listed \in [MeetingIds -> SUBSET Subs]
  BY <1>1, <1>2 DEF Hubs
<1>4. h.events \in [Subs -> Seq(Events)]
  <2> SUFFICES ASSUME NEW s \in Subs
               PROVE  (IF s \in live /\ ~hub.closed[s]
                       THEN Append(hub.events[s], news)
                       ELSE hub.events[s]) \in Seq(Events)
    BY <1>2
  <2>1. hub.events[s] \in Seq(Events)
    BY DEF Hubs
  <2> QED
    BY <2>1
<1>5. h.closed \in [Subs -> BOOLEAN]
  BY <1>2, Zenon
<1> QED
  BY <1>2, <1>3, <1>4, <1>5 DEF Hubs, h

\* Closing a user's streams keeps the hub well typed.
LEMMA CloseType ==
    ASSUME NEW hub \in Hubs, NEW mid \in MeetingIds, NEW user
    PROVE  CloseUserSubscriptionsLocked(hub, mid, user) \in Hubs
<1> DEFINE live == {s \in hub.listed[mid] : Alive(s)}
           own  == {s \in live : sub_of[s].user = user}
           h    == CloseUserSubscriptionsLocked(hub, mid, user)
<1>1. live \ own \in SUBSET Subs
  BY DEF Hubs
<1>2. /\ h.listed = [hub.listed EXCEPT ![mid] = live \ own]
      /\ h.events = hub.events
      /\ h.closed = [s \in Subs |-> hub.closed[s] \/ s \in own]
      /\ h = [listed |-> h.listed, events |-> h.events, closed |-> h.closed]
  BY DEF CloseUserSubscriptionsLocked
<1> HIDE DEF h, live, own
<1>3. h.closed \in [Subs -> BOOLEAN]
  BY <1>2, Zenon
<1>4. h.listed \in [MeetingIds -> SUBSET Subs]
  BY <1>1, <1>2 DEF Hubs
<1>5. h.events \in [Subs -> Seq(Events)]
  BY <1>2 DEF Hubs
<1> QED
  BY <1>2, <1>3, <1>4, <1>5 DEF Hubs, h

-----------------------------------------------------------------------------
(* Types.                                                                   *)

\* The hub is well typed exactly when its value is one of Hubs.
LEMMA HubInHubs == HubTypeOK <=> Hub \in Hubs
  BY DEF HubTypeOK, Hub, Hubs

\* A well-typed hub is stored back as one.
LEMMA SetHubType ==
    ASSUME NEW hub \in Hubs, SetHub(hub)
    PROVE  HubTypeOK'
  BY DEF SetHub, HubTypeOK, Hubs

\* An event is popped from the queue, and the handler's step changes no
\* meeting.
LEMMA WaitNextType ==
    ASSUME TypeOK, NEW s \in Subs, WaitNext(s)
    PROVE  TypeOK'
<1>1. m_events[s] \in Seq(Events) /\ m_events[s] # <<>>
  BY DEF WaitNext, TypeOK, HubTypeOK
<1>2. /\ <<Head(m_events[s])>> \in Seq(Events)
      /\ Tail(m_events[s]) \in Seq(Events)
  BY <1>1
<1>3. HubTypeOK'
  BY <1>2 DEF WaitNext, TypeOK, HubTypeOK
<1>4. MeetingTypeOK'
  BY DEF WaitNext, StreamStep, TypeOK, MeetingTypeOK, userVars, meetingVars
<1>5. StreamTypeOK'
  BY <1>2 DEF WaitNext, StreamStep, TypeOK, StreamTypeOK, Stages
<1> QED
  BY <1>3, <1>4, <1>5 DEF TypeOK

\* The client's replay stays a set of users.
LEMMA WriteEventType ==
    ASSUME TypeOK, NEW s \in Subs, WriteEvent(s)
    PROVE  TypeOK'
<1>1. in_hand[s] \in Seq(Events) /\ in_hand[s][1] \in Events
  BY DEF WriteEvent, TypeOK, StreamTypeOK
<1>2. view[s] \in SUBSET Users
  BY DEF TypeOK, StreamTypeOK
<1>3. Replay(view[s], in_hand[s][1]) \in SUBSET Users
  BY <1>1, <1>2 DEF Replay, Events, EventKinds
<1>4. StreamTypeOK'
  BY <1>3 DEF WriteEvent, StreamStep, TypeOK, StreamTypeOK, Stages
<1>5. MeetingTypeOK' /\ HubTypeOK'
  BY DEF WriteEvent, StreamStep, TypeOK, MeetingTypeOK, HubTypeOK,
         userVars, meetingVars, hubVars
<1> QED
  BY <1>4, <1>5 DEF TypeOK

\* The remaining steps of a handler only move it and close its queue.
LEMMA HandlerType ==
    ASSUME TypeOK, NEW s \in Subs, StreamHandler(s)
    PROVE  TypeOK'
<1> USE DEF StreamStep, TypeOK, MeetingTypeOK, HubTypeOK, StreamTypeOK, Stages,
            userVars, meetingVars, hubVars
<1>1. CASE CheckCancelled(s)
  BY <1>1 DEF CheckCancelled
<1>2. CASE WaitNext(s)
  BY <1>2, WaitNextType
<1>3. CASE WaitNextEmpty(s)
  BY <1>3 DEF WaitNextEmpty
<1>4. CASE CheckClosed(s)
  BY <1>4 DEF CheckClosed
<1>5. CASE WriteEvent(s)
  BY <1>5, WriteEventType
<1>6. CASE WriteFails(s)
  BY <1>6 DEF WriteFails
<1>7. CASE UnsubscribeMeetingEvents(s)
  BY <1>7 DEF UnsubscribeMeetingEvents
<1> QED
  BY <1>1, <1>2, <1>3, <1>4, <1>5, <1>6, <1>7 DEF StreamHandler

\* Every request that passes its checks is about a known meeting.
LEMMA SuccessFacts ==
    ASSUME NEW mid, NEW user
    PROVE  /\ JoinError(mid, user) = "kSuccess" =>
                /\ MeetingError(mid, user) = "kSuccess"
                /\ m_user_meetings[user] \in {NoMeeting, mid}
           /\ ParticipantError(mid, user) = "kSuccess" =>
                /\ MeetingError(mid, user) = "kSuccess"
                /\ Contains(m_meetings[mid].participants, user)
           /\ EndError(mid, user) = "kSuccess" =>
                MeetingError(mid, user) = "kSuccess"
           /\ MeetingError(mid, user) = "kSuccess" =>
                /\ mid \in DOMAIN m_meetings
                /\ m_meetings[mid].active
           /\ CreateError(user) = "kSuccess" => m_user_meetings[user] = NoMeeting
<1>1. MeetingError(mid, user) = "kSuccess" =>
        mid \in DOMAIN m_meetings /\ m_meetings[mid].active
  BY DEF MeetingError
<1>2. JoinError(mid, user) = "kSuccess" =>
        /\ MeetingError(mid, user) = "kSuccess"
        /\ m_user_meetings[user] \in {NoMeeting, mid}
  BY DEF JoinError
<1>3. ParticipantError(mid, user) = "kSuccess" =>
        /\ MeetingError(mid, user) = "kSuccess"
        /\ Contains(m_meetings[mid].participants, user)
  BY DEF ParticipantError
<1>4. EndError(mid, user) = "kSuccess" => MeetingError(mid, user) = "kSuccess"
  BY DEF EndError
<1>5. CreateError(user) = "kSuccess" => m_user_meetings[user] = NoMeeting
  BY DEF CreateError
<1> QED
  BY <1>1, <1>2, <1>3, <1>4, <1>5

\* The meeting a request is about has a well-typed record.
LEMMA KnownMeeting ==
    ASSUME TypeOK, NEW mid \in DOMAIN m_meetings
    PROVE  /\ mid \in MeetingIds
           /\ m_meetings[mid] \in Records
           /\ m_meetings[mid].participants \in Seq(Users)
           /\ m_meetings \in [DOMAIN m_meetings -> Records]
<1>1. DOMAIN m_meetings = 1..(m_next_meeting_number - 1)
  BY DEF TypeOK, MeetingTypeOK
<1>2. mid \in MeetingIds
  BY <1>1, MeetingStoreAssumption DEF TypeOK, MeetingTypeOK, MeetingIds
<1>3. m_meetings[mid] \in Records
  BY DEF TypeOK, MeetingTypeOK
<1> QED
  BY <1>2, <1>3 DEF TypeOK, MeetingTypeOK, Records

\* What each request does to the meetings, in terms of the record it changes.
LEMMA CreateMeetingFacts ==
    ASSUME TypeOK, NEW user \in Users, CreateMeeting(user)
    PROVE  LET mid == m_next_meeting_number IN
           /\ mid \in MeetingIds
           /\ mid \notin DOMAIN m_meetings
           /\ m_user_meetings[user] = NoMeeting
           /\ m_next_meeting_number' = mid + 1
           /\ DOMAIN m_meetings' = 1..mid
           /\ DOMAIN m_meetings = 1..(mid - 1)
           /\ m_meetings'[mid] = [creator |-> user, participants |-> <<user>>,
                                  active |-> TRUE]
           /\ \A m \in DOMAIN m_meetings : m_meetings'[m] = m_meetings[m]
           /\ m_meetings' \in [1..mid -> Records]
           /\ m_user_meetings' = [m_user_meetings EXCEPT ![user] = mid]
<1> DEFINE mid == m_next_meeting_number
           new == [creator |-> user, participants |-> <<user>>, active |-> TRUE]
<1>1. GenerateMeetingIdLocked = mid /\ mid \in MeetingIds
  BY GenerateMeetingIdSpec DEF CreateMeeting
<1>2. m_meetings' = [m \in DOMAIN m_meetings \cup {mid} |->
                       IF m = mid THEN new ELSE m_meetings[m]]
  BY <1>1 DEF CreateMeeting
<1>3. /\ DOMAIN m_meetings = 1..(mid - 1)
      /\ \A m \in DOMAIN m_meetings : m_meetings[m] \in Records
      /\ mid \in 1..(MaxMeetings + 1)
  BY DEF TypeOK, MeetingTypeOK
<1>4. new \in Records
  BY DEF Records
<1>5. DOMAIN m_meetings \cup {mid} = 1..mid /\ mid \notin DOMAIN m_meetings
  BY <1>1, <1>3, MeetingStoreAssumption
<1>6. m_user_meetings[user] = NoMeeting
  BY SuccessFacts DEF CreateMeeting
<1>7. /\ m_next_meeting_number' = mid + 1
      /\ m_user_meetings' = [m_user_meetings EXCEPT ![user] = mid]
  BY <1>1 DEF CreateMeeting
<1> HIDE DEF new
<1>8. /\ m_meetings' \in [1..mid -> Records]
      /\ m_meetings'[mid] = new
      /\ \A m \in DOMAIN m_meetings : m_meetings'[m] = m_meetings[m]
      /\ DOMAIN m_meetings' = 1..mid
  BY <1>2, <1>3, <1>4, <1>5
<1> QED
  BY <1>1, <1>3, <1>5, <1>6, <1>7, <1>8 DEF new

\* Joining adds the user to the record of that meeting, or only refreshes him.
LEMMA JoinMeetingFacts ==
    ASSUME TypeOK, MembershipConsistent,
           NEW mid \in MeetingIds, NEW user \in Users, JoinMeeting(mid, user),
           ~Contains(m_meetings[mid].participants, user)
    PROVE  /\ mid \in DOMAIN m_meetings
           /\ m_user_meetings[user] = NoMeeting
           /\ m_meetings' \in [DOMAIN m_meetings -> Records]
           /\ m_meetings'[mid].participants = Append(m_meetings[mid].participants, user)
           /\ m_meetings'[mid].active
           /\ m_meetings[mid].active
           /\ m_meetings'[mid].creator = m_meetings[mid].creator
           /\ \A m \in DOMAIN m_meetings \ {mid} : m_meetings'[m] = m_meetings[m]
<1>1. /\ mid \in DOMAIN m_meetings
      /\ m_meetings[mid].active
      /\ m_user_meetings[user] \in {NoMeeting, mid}
  BY SuccessFacts DEF JoinMeeting
<1>2. m_user_meetings[user] = NoMeeting
  BY <1>1 DEF MembershipConsistent, IndexMatchesLists
<1>3. /\ m_meetings[mid] \in Records
      /\ m_meetings \in [DOMAIN m_meetings -> Records]
      /\ m_meetings[mid].participants \in Seq(Users)
  BY <1>1, KnownMeeting
<1>4. m_meetings' = [m_meetings EXCEPT ![mid].participants = Append(@, user)]
  BY DEF JoinMeeting
<1> DEFINE list == Append(m_meetings[mid].participants, user)
<1>5. list \in Seq(Users)
  BY <1>3
<1>6. m_meetings' = [m_meetings EXCEPT ![mid].participants = list]
  BY <1>4
<1> HIDE DEF list
<1>7. /\ m_meetings' \in [DOMAIN m_meetings -> Records]
      /\ m_meetings'[mid].participants = list
      /\ m_meetings'[mid].active = m_meetings[mid].active
      /\ m_meetings'[mid].creator = m_meetings[mid].creator
      /\ \A m \in DOMAIN m_meetings \ {mid} : m_meetings'[m] = m_meetings[m]
  BY <1>1, <1>3, <1>5, <1>6 DEF Records
<1> QED
  BY <1>1, <1>2, <1>7 DEF list

\* Leaving takes the user out of the record, and ends it with the last one.
LEMMA LeaveMeetingFacts ==
    ASSUME TypeOK, MembershipConsistent,
           NEW mid \in MeetingIds, NEW user \in Users, LeaveMeeting(mid, user)
    PROVE  LET rest == EraseParticipant(m_meetings[mid].participants, user) IN
           /\ mid \in DOMAIN m_meetings
           /\ m_user_meetings[user] = mid
           /\ m_meetings[mid].active
           /\ rest \in Seq(Users)
           /\ IsInjective(rest)
           /\ \A v : Contains(rest, v)
                       <=> Contains(m_meetings[mid].participants, v) /\ v # user
           /\ m_meetings' \in [DOMAIN m_meetings -> Records]
           /\ m_meetings'[mid].participants = rest
           /\ m_meetings'[mid].active = (rest # <<>>)
           /\ m_meetings'[mid].creator = m_meetings[mid].creator
           /\ \A m \in DOMAIN m_meetings \ {mid} : m_meetings'[m] = m_meetings[m]
<1> DEFINE list == m_meetings[mid].participants
           rest == EraseParticipant(list, user)
<1>1. /\ mid \in DOMAIN m_meetings
      /\ m_meetings[mid].active
      /\ Contains(list, user)
  BY SuccessFacts DEF LeaveMeeting
<1>2. m_user_meetings[user] = mid
  BY <1>1 DEF MembershipConsistent, IndexMatchesLists
<1>3. /\ m_meetings \in [DOMAIN m_meetings -> Records]
      /\ list \in Seq(Users)
      /\ IsInjective(list)
  BY <1>1, KnownMeeting DEF MembershipConsistent, NoDuplicateParticipant
<1>4. /\ rest \in Seq(Users)
      /\ IsInjective(rest)
      /\ \A v : Contains(rest, v) <=> Contains(list, v) /\ v # user
  BY <1>1, <1>3, EraseParticipantSpec
<1>5. m_meetings' = [m_meetings EXCEPT ![mid].participants = rest,
                                       ![mid].active = rest # <<>>]
  BY DEF LeaveMeeting
<1> HIDE DEF rest
<1>6. (rest # <<>>) \in BOOLEAN
  OBVIOUS
<1>7. /\ m_meetings' \in [DOMAIN m_meetings -> Records]
      /\ m_meetings'[mid].participants = rest
      /\ m_meetings'[mid].active = (rest # <<>>)
      /\ m_meetings'[mid].creator = m_meetings[mid].creator
      /\ \A m \in DOMAIN m_meetings \ {mid} : m_meetings'[m] = m_meetings[m]
  BY <1>1, <1>3, <1>4, <1>5, <1>6 DEF Records
<1> QED
  BY <1>1, <1>2, <1>4, <1>7 DEF rest

\* Ending empties the record and frees everybody who was in it.
LEMMA EndMeetingFacts ==
    ASSUME TypeOK, NEW mid \in MeetingIds, NEW user \in Users, EndMeeting(mid, user)
    PROVE  /\ mid \in DOMAIN m_meetings
           /\ m_meetings[mid].active
           /\ m_meetings' \in [DOMAIN m_meetings -> Records]
           /\ m_meetings'[mid].participants = <<>>
           /\ ~m_meetings'[mid].active
           /\ m_meetings'[mid].creator = m_meetings[mid].creator
           /\ \A m \in DOMAIN m_meetings \ {mid} : m_meetings'[m] = m_meetings[m]
<1>1. mid \in DOMAIN m_meetings /\ m_meetings[mid].active
  BY SuccessFacts DEF EndMeeting
<1>2. m_meetings \in [DOMAIN m_meetings -> Records]
  BY <1>1, KnownMeeting
<1>3. m_meetings' = [m_meetings EXCEPT ![mid].participants = <<>>,
                                       ![mid].active = FALSE]
  BY DEF EndMeeting
<1>4. <<>> \in Seq(Users) /\ FALSE \in BOOLEAN
  OBVIOUS
<1>5. m_meetings[mid] \in Records
  BY <1>1, KnownMeeting
<1> QED
  BY <1>1, <1>2, <1>3, <1>4, <1>5 DEF Records

\* Requests keep the types, request by request.
LEMMA RequestType ==
    ASSUME TypeOK, MembershipConsistent, NEW user \in Users, UserRequest(user)
    PROVE  TypeOK'
<1> USE DEF TypeOK
<1>1. ASSUME NEW password \in Passwords,
             RegisterUser(user, password) \/ LoginUser(user, password)
      PROVE  TypeOK'
  BY <1>1 DEF RegisterUser, LoginUser, MeetingTypeOK, HubTypeOK, StreamTypeOK,
              meetingVars, hubVars, streamVars
<1>2. CASE CreateMeeting(user)
  <2>1. MeetingTypeOK'
    <3> DEFINE mid == m_next_meeting_number
    <3>1. /\ mid \in MeetingIds
          /\ m_next_meeting_number' = mid + 1
          /\ m_meetings' \in [1..mid -> Records]
          /\ m_user_meetings' = [m_user_meetings EXCEPT ![user] = mid]
      BY <1>2, CreateMeetingFacts
    <3>2. UNCHANGED <<m_users, m_logged_in_users>>
      BY <1>2 DEF CreateMeeting, userVars
    <3>3. mid + 1 \in 1..(MaxMeetings + 1) /\ 1..((mid + 1) - 1) = 1..mid
      BY <3>1, MeetingStoreAssumption DEF MeetingIds
    <3> QED
      BY <3>1, <3>2, <3>3 DEF MeetingTypeOK
  <2>2. HubTypeOK' /\ StreamTypeOK'
    BY <1>2 DEF CreateMeeting, HubTypeOK, StreamTypeOK, hubVars, streamVars
  <2> QED
    BY <2>1, <2>2
<1>3. ASSUME NEW mid \in MeetingIds, JoinMeeting(mid, user)
      PROVE  TypeOK'
  <2>1. StreamTypeOK'
    BY <1>3 DEF JoinMeeting, StreamTypeOK, streamVars
  <2>2. CASE Contains(m_meetings[mid].participants, user)
    BY <1>3, <2>1, <2>2
       DEF JoinMeeting, MeetingTypeOK, HubTypeOK, userVars, hubVars
  <2>3. CASE ~Contains(m_meetings[mid].participants, user)
    <3>1. MeetingTypeOK'
      BY <1>3, <2>3, JoinMeetingFacts DEF JoinMeeting, MeetingTypeOK, userVars
    <3>2. PublishEventLocked(Hub, mid,
            [kind |-> "UserJoined", trigger_user |-> user], FALSE) \in Hubs
      BY HubInHubs, PublishType DEF Events, EventKinds
    <3>3. HubTypeOK'
      BY <1>3, <2>3, <3>2, SetHubType DEF JoinMeeting
    <3> QED
      BY <2>1, <3>1, <3>3
  <2> QED
    BY <2>2, <2>3
<1>4. ASSUME NEW mid \in MeetingIds, LeaveMeeting(mid, user)
      PROVE  TypeOK'
  <2>1. StreamTypeOK'
    BY <1>4 DEF LeaveMeeting, StreamTypeOK, streamVars
  <2>2. MeetingTypeOK'
    BY <1>4, LeaveMeetingFacts DEF LeaveMeeting, MeetingTypeOK, userVars
  <2>3. PublishEventLocked(Hub, mid,
          [kind |-> "MeetingEnded", trigger_user |-> user], TRUE) \in Hubs
    BY HubInHubs, PublishType DEF Events, EventKinds
  <2>4. PublishEventLocked(Hub, mid,
          [kind |-> "UserLeft", trigger_user |-> user], FALSE) \in Hubs
    BY HubInHubs, PublishType DEF Events, EventKinds
  <2>5. CloseUserSubscriptionsLocked(PublishEventLocked(Hub, mid,
          [kind |-> "UserLeft", trigger_user |-> user], FALSE), mid, user) \in Hubs
    BY <2>4, CloseType
  <2>6. HubTypeOK'
    BY <1>4, <2>3, <2>5, SetHubType DEF LeaveMeeting
  <2> QED
    BY <2>1, <2>2, <2>6
<1>5. ASSUME NEW mid \in MeetingIds, EndMeeting(mid, user)
      PROVE  TypeOK'
  <2>1. StreamTypeOK'
    BY <1>5 DEF EndMeeting, StreamTypeOK, streamVars
  <2>2. MeetingTypeOK'
    BY <1>5, EndMeetingFacts DEF EndMeeting, MeetingTypeOK, userVars
  <2>3. PublishEventLocked(Hub, mid,
          [kind |-> "MeetingEnded", trigger_user |-> user], TRUE) \in Hubs
    BY HubInHubs, PublishType DEF Events, EventKinds
  <2>4. HubTypeOK'
    BY <1>5, <2>3, SetHubType DEF EndMeeting
  <2> QED
    BY <2>1, <2>2, <2>4
<1>6. ASSUME NEW mid \in MeetingIds, NEW s \in Subs,
             SubscribeMeetingEvents(s, mid, user)
      PROVE  TypeOK'
  <2> DEFINE hub == CloseUserSubscriptionsLocked(Hub, mid, user)
             kept == {t \in hub.listed[mid] : Alive(t)}
             after == [hub EXCEPT !.listed[mid] = kept \cup {s}]
  <2>1. hub \in Hubs
    BY HubInHubs, CloseType
  <2>2. kept \cup {s} \in SUBSET Subs
    BY <2>1 DEF Hubs
  <2>3. SetHub(after)
    BY <1>6 DEF SubscribeMeetingEvents
  <2> HIDE DEF hub, kept
  <2>4. after \in Hubs
    BY <2>1, <2>2 DEF Hubs
  <2>5. HubTypeOK'
    BY <2>3, <2>4, SetHubType
  <2>6. MeetingTypeOK'
    BY <1>6 DEF SubscribeMeetingEvents, MeetingTypeOK, userVars, meetingVars
  <2>7. ToSet(m_meetings[mid].participants) \in SUBSET Users
    BY <1>6, SuccessFacts, KnownMeeting DEF SubscribeMeetingEvents, ToSet
  <2>8. StreamTypeOK'
    BY <1>6, <2>7 DEF SubscribeMeetingEvents, StreamTypeOK, Stages
  <2> QED
    BY <2>5, <2>6, <2>8
<1> QED
  BY <1>1, <1>2, <1>3, <1>4, <1>5, <1>6 DEF UserRequest, AccountRequest

\* Types after any step.
LEMMA TypeStep ==
    ASSUME TypeOK, MembershipConsistent, [Next]_vars
    PROVE  TypeOK'
<1>1. ASSUME NEW user \in Users, UserRequest(user)
      PROVE  TypeOK'
  BY <1>1, RequestType
<1>2. ASSUME NEW s \in Subs, StreamHandler(s)
      PROVE  TypeOK'
  BY <1>2, HandlerType
<1>3. ASSUME NEW s \in Subs, CancelStream(s)
      PROVE  TypeOK'
  BY <1>3 DEF CancelStream, TypeOK, MeetingTypeOK, HubTypeOK, StreamTypeOK,
              userVars, meetingVars, hubVars
<1>4. CASE UNCHANGED vars
  BY <1>4 DEF vars, TypeOK, MeetingTypeOK, HubTypeOK, StreamTypeOK,
              userVars, meetingVars, hubVars, streamVars
<1> QED
  BY <1>1, <1>2, <1>3, <1>4 DEF Next

-----------------------------------------------------------------------------
(* Membership.                                                              *)

\* A vector is empty exactly when it contains nobody.
LEMMA EmptyVector ==
    ASSUME NEW p \in Seq(Users)
    PROVE  p = <<>> <=> \A v \in Users : ~Contains(p, v)
<1>1. CASE p = <<>>
  BY <1>1 DEF Contains
<1>2. CASE p # <<>>
  <2>1. 1 \in 1..Len(p) /\ p[1] \in Users
    BY <1>2
  <2> QED
    BY <1>2, <2>1 DEF Contains
<1> QED
  BY <1>1, <1>2

\* The creator is the only participant of a new meeting.
LEMMA CreateMembership ==
    ASSUME TypeOK, MembershipConsistent, NEW user \in Users, CreateMeeting(user)
    PROVE  MembershipConsistent'
<1> DEFINE mid == m_next_meeting_number
<1>1. /\ mid \in MeetingIds
      /\ mid \notin DOMAIN m_meetings
      /\ m_user_meetings[user] = NoMeeting
      /\ DOMAIN m_meetings' = 1..mid
      /\ DOMAIN m_meetings = 1..(mid - 1)
      /\ m_meetings'[mid] = [creator |-> user, participants |-> <<user>>, active |-> TRUE]
      /\ \A m \in DOMAIN m_meetings : m_meetings'[m] = m_meetings[m]
      /\ m_user_meetings' = [m_user_meetings EXCEPT ![user] = mid]
  BY CreateMeetingFacts
<1>2. /\ DOMAIN m_meetings' = DOMAIN m_meetings \cup {mid}
      /\ m_meetings'[mid].participants = <<user>>
      /\ m_meetings'[mid].active
  BY <1>1 DEF MeetingIds
<1>3. \A v : Contains(<<user>>, v) <=> v = user
  BY DEF Contains
<1>4. /\ m_user_meetings \in [Users -> MeetingIds \cup {NoMeeting}]
      /\ \A m \in MeetingIds : m # NoMeeting
  BY DEF TypeOK, MeetingTypeOK, MeetingIds, NoMeeting
<1> HIDE DEF mid
<1>5. ASSUME NEW u \in Users
      PROVE  /\ m_user_meetings'[u] \in DOMAIN m_meetings' \cup {NoMeeting}
             /\ \A m \in DOMAIN m_meetings' :
                  m_user_meetings'[u] = m <=> Contains(m_meetings'[m].participants, u)
  <2>1. /\ m_user_meetings[u] \in DOMAIN m_meetings \cup {NoMeeting}
        /\ \A m \in DOMAIN m_meetings :
             m_user_meetings[u] = m <=> Contains(m_meetings[m].participants, u)
    BY DEF MembershipConsistent, IndexMatchesLists
  <2>2. NoMeeting \notin DOMAIN m_meetings
    BY <1>1 DEF NoMeeting
  <2>3. \A m \in DOMAIN m_meetings :
          Contains(m_meetings'[m].participants, u) <=> m_user_meetings[u] = m
    BY <1>1, <2>1
  <2>4. Contains(m_meetings'[mid].participants, u) <=> u = user
    BY <1>2, <1>3
  <2>5. m_user_meetings'[u] = IF u = user THEN mid ELSE m_user_meetings[u]
    BY <1>1, <1>4
  <2>6. CASE u = user
    BY <1>1, <1>2, <2>2, <2>3, <2>4, <2>5, <2>6
  <2>7. CASE u # user
    <3>1. m_user_meetings[u] # mid
      BY <1>1, <1>4, <2>1
    <3> QED
      BY <1>2, <2>1, <2>3, <2>4, <2>5, <2>7, <3>1
  <2> QED
    BY <2>6, <2>7
<1>6. IsInjective(<<user>>) /\ <<user>> # <<>>
  BY DEF IsInjective
<1>7. NoDuplicateParticipant' /\ ActiveIffOccupied'
  BY <1>1, <1>2, <1>6
     DEF MembershipConsistent, NoDuplicateParticipant, ActiveIffOccupied
<1> QED
  BY <1>5, <1>7 DEF MembershipConsistent, IndexMatchesLists

\* A join, retried or not, keeps list and index together (JoinMeeting).
LEMMA JoinMembership ==
    ASSUME TypeOK, MembershipConsistent,
           NEW mid \in MeetingIds, NEW user \in Users, JoinMeeting(mid, user)
    PROVE  MembershipConsistent'
<1> DEFINE list == m_meetings[mid].participants
<1>1. mid \in DOMAIN m_meetings /\ m_user_meetings[user] \in {NoMeeting, mid}
  BY SuccessFacts DEF JoinMeeting
<1>2. m_user_meetings' = [m_user_meetings EXCEPT ![user] = mid]
  BY DEF JoinMeeting
<1>3. /\ m_user_meetings \in [Users -> MeetingIds \cup {NoMeeting}]
      /\ \A m \in MeetingIds : m # NoMeeting
      /\ DOMAIN m_meetings \subseteq MeetingIds
  BY MeetingStoreAssumption DEF TypeOK, MeetingTypeOK, MeetingIds, NoMeeting
<1>4. CASE Contains(list, user)
  <2>1. m_user_meetings[user] = mid /\ m_meetings' = m_meetings
    BY <1>1, <1>4 DEF JoinMeeting, MembershipConsistent, IndexMatchesLists
  <2>2. m_user_meetings' = m_user_meetings
    BY <1>2, <1>3, <2>1
  <2> QED
    BY <2>1, <2>2 DEF MembershipConsistent, IndexMatchesLists,
                      NoDuplicateParticipant, ActiveIffOccupied
<1>5. CASE ~Contains(list, user)
  <2>1. /\ m_user_meetings[user] = NoMeeting
        /\ DOMAIN m_meetings' = DOMAIN m_meetings
        /\ m_meetings'[mid].participants = Append(list, user)
        /\ m_meetings'[mid].active
        /\ \A m \in DOMAIN m_meetings \ {mid} : m_meetings'[m] = m_meetings[m]
    BY <1>5, JoinMeetingFacts
  <2>2. list \in Seq(Users) /\ IsInjective(list)
    BY <1>1, KnownMeeting DEF MembershipConsistent, NoDuplicateParticipant
  <2>3. /\ IsInjective(Append(list, user))
        /\ Append(list, user) # <<>>
        /\ \A v : Contains(Append(list, user), v) <=> Contains(list, v) \/ v = user
    BY <1>5, <2>2, AppendParticipant
  <2> HIDE DEF list
  <2>4. ASSUME NEW u \in Users
        PROVE  /\ m_user_meetings'[u] \in DOMAIN m_meetings' \cup {NoMeeting}
               /\ \A m \in DOMAIN m_meetings' :
                    m_user_meetings'[u] = m <=> Contains(m_meetings'[m].participants, u)
    <3>1. /\ m_user_meetings[u] \in DOMAIN m_meetings \cup {NoMeeting}
          /\ \A m \in DOMAIN m_meetings :
               m_user_meetings[u] = m <=> Contains(m_meetings[m].participants, u)
          /\ m_user_meetings[u] = mid <=> Contains(list, u)
      BY <1>1 DEF MembershipConsistent, IndexMatchesLists, list
    <3>2. CASE u = user
      <4>1. m_user_meetings'[u] = mid
        BY <1>2, <1>3, <3>2
      <4>2. Contains(m_meetings'[mid].participants, u)
        BY <2>1, <2>3, <3>2
      <4>3. \A m \in DOMAIN m_meetings \ {mid} :
               ~Contains(m_meetings'[m].participants, u)
        BY <1>3, <2>1, <3>1, <3>2
      <4> QED
        BY <1>1, <2>1, <4>1, <4>2, <4>3
    <3>3. CASE u # user
      <4>1. m_user_meetings'[u] = m_user_meetings[u]
        BY <1>2, <1>3, <3>3
      <4>2. Contains(m_meetings'[mid].participants, u) <=> Contains(list, u)
        BY <2>1, <2>3, <3>3
      <4> QED
        BY <1>1, <2>1, <3>1, <4>1, <4>2
    <3> QED
      BY <3>2, <3>3
  <2>5. NoDuplicateParticipant' /\ ActiveIffOccupied'
    BY <1>1, <2>1, <2>3
       DEF MembershipConsistent, NoDuplicateParticipant, ActiveIffOccupied
  <2> QED
    BY <2>4, <2>5 DEF MembershipConsistent, IndexMatchesLists
<1> QED
  BY <1>4, <1>5

\* A leave keeps list and index together (LeaveMeeting).
LEMMA LeaveMembership ==
    ASSUME TypeOK, MembershipConsistent,
           NEW mid \in MeetingIds, NEW user \in Users, LeaveMeeting(mid, user)
    PROVE  MembershipConsistent'
<1> DEFINE list == m_meetings[mid].participants
           rest == EraseParticipant(list, user)
<1>1. /\ mid \in DOMAIN m_meetings
      /\ m_user_meetings[user] = mid
      /\ IsInjective(rest)
      /\ \A v : Contains(rest, v) <=> Contains(list, v) /\ v # user
      /\ DOMAIN m_meetings' = DOMAIN m_meetings
      /\ m_meetings'[mid].participants = rest
      /\ m_meetings'[mid].active = (rest # <<>>)
      /\ \A m \in DOMAIN m_meetings \ {mid} : m_meetings'[m] = m_meetings[m]
  BY LeaveMeetingFacts
<1>2. m_user_meetings' = [m_user_meetings EXCEPT ![user] = NoMeeting]
  BY DEF LeaveMeeting
<1>3. /\ m_user_meetings \in [Users -> MeetingIds \cup {NoMeeting}]
      /\ \A m \in DOMAIN m_meetings : m # NoMeeting
  BY MeetingStoreAssumption DEF TypeOK, MeetingTypeOK, MeetingIds, NoMeeting
<1> HIDE DEF list, rest
<1>4. ASSUME NEW u \in Users
      PROVE  /\ m_user_meetings'[u] \in DOMAIN m_meetings' \cup {NoMeeting}
             /\ \A m \in DOMAIN m_meetings' :
                  m_user_meetings'[u] = m <=> Contains(m_meetings'[m].participants, u)
  <2>1. /\ m_user_meetings[u] \in DOMAIN m_meetings \cup {NoMeeting}
        /\ \A m \in DOMAIN m_meetings :
             m_user_meetings[u] = m <=> Contains(m_meetings[m].participants, u)
        /\ m_user_meetings[u] = mid <=> Contains(list, u)
    BY <1>1 DEF MembershipConsistent, IndexMatchesLists, list
  <2> QED
    BY <1>1, <1>2, <1>3, <2>1
<1>5. NoDuplicateParticipant' /\ ActiveIffOccupied'
  BY <1>1 DEF MembershipConsistent, NoDuplicateParticipant, ActiveIffOccupied
<1> QED
  BY <1>4, <1>5 DEF MembershipConsistent, IndexMatchesLists

\* The end of a meeting keeps list and index together (EndMeeting).
LEMMA EndMembership ==
    ASSUME TypeOK, MembershipConsistent,
           NEW mid \in MeetingIds, NEW user \in Users, EndMeeting(mid, user)
    PROVE  MembershipConsistent'
<1>1. /\ mid \in DOMAIN m_meetings
      /\ DOMAIN m_meetings' = DOMAIN m_meetings
      /\ m_meetings'[mid].participants = <<>>
      /\ ~m_meetings'[mid].active
      /\ \A m \in DOMAIN m_meetings \ {mid} : m_meetings'[m] = m_meetings[m]
  BY EndMeetingFacts
<1>2. m_user_meetings' = [u \in Users |->
                            IF Contains(m_meetings[mid].participants, u)
                            THEN NoMeeting ELSE m_user_meetings[u]]
  BY DEF EndMeeting
<1>3. /\ m_user_meetings \in [Users -> MeetingIds \cup {NoMeeting}]
      /\ \A m \in DOMAIN m_meetings : m # NoMeeting
  BY MeetingStoreAssumption DEF TypeOK, MeetingTypeOK, MeetingIds, NoMeeting
<1>4. IsInjective(<<>>) /\ \A v : ~Contains(<<>>, v)
  BY DEF IsInjective, Contains
<1>5. ASSUME NEW u \in Users
      PROVE  /\ m_user_meetings'[u] \in DOMAIN m_meetings' \cup {NoMeeting}
             /\ \A m \in DOMAIN m_meetings' :
                  m_user_meetings'[u] = m <=> Contains(m_meetings'[m].participants, u)
  <2>1. /\ m_user_meetings[u] \in DOMAIN m_meetings \cup {NoMeeting}
        /\ \A m \in DOMAIN m_meetings :
             m_user_meetings[u] = m <=> Contains(m_meetings[m].participants, u)
    BY DEF MembershipConsistent, IndexMatchesLists
  <2> QED
    BY <1>1, <1>2, <1>3, <1>4, <2>1
<1>6. NoDuplicateParticipant' /\ ActiveIffOccupied'
  BY <1>1, <1>4
     DEF MembershipConsistent, NoDuplicateParticipant, ActiveIffOccupied
<1> QED
  BY <1>5, <1>6 DEF MembershipConsistent, IndexMatchesLists

\* Membership after any step.
LEMMA MembershipStep ==
    ASSUME TypeOK, MembershipConsistent, [Next]_vars
    PROVE  MembershipConsistent'
<1>1. CASE UNCHANGED meetingVars
  BY <1>1 DEF meetingVars, MembershipConsistent, IndexMatchesLists,
              NoDuplicateParticipant, ActiveIffOccupied
<1>2. ASSUME NEW user \in Users, UserRequest(user)
      PROVE  MembershipConsistent'
  <2>1. ASSUME NEW mid \in MeetingIds, JoinMeeting(mid, user)
        PROVE  MembershipConsistent'
    BY <2>1, JoinMembership
  <2>2. ASSUME NEW mid \in MeetingIds, LeaveMeeting(mid, user)
        PROVE  MembershipConsistent'
    BY <2>2, LeaveMembership
  <2>3. ASSUME NEW mid \in MeetingIds, EndMeeting(mid, user)
        PROVE  MembershipConsistent'
    BY <2>3, EndMembership
  <2>4. CASE CreateMeeting(user)
    BY <2>4, CreateMembership
  <2>5. ASSUME NEW mid \in MeetingIds, NEW s \in Subs,
               SubscribeMeetingEvents(s, mid, user)
        PROVE  UNCHANGED meetingVars
    BY <2>5 DEF SubscribeMeetingEvents
  <2>6. ASSUME NEW password \in Passwords,
               RegisterUser(user, password) \/ LoginUser(user, password)
        PROVE  UNCHANGED meetingVars
    BY <2>6 DEF RegisterUser, LoginUser
  <2> QED
    BY <1>1, <1>2, <2>1, <2>2, <2>3, <2>4, <2>5, <2>6 DEF UserRequest, AccountRequest
<1>3. ASSUME NEW s \in Subs, CancelStream(s) \/ StreamHandler(s)
      PROVE  UNCHANGED meetingVars
  BY <1>3 DEF CancelStream, StreamHandler, StreamStep, CheckCancelled, WaitNext,
              WaitNextEmpty, CheckClosed, WriteEvent, WriteFails,
              UnsubscribeMeetingEvents
<1>4. UNCHANGED vars => UNCHANGED meetingVars
  BY DEF vars, meetingVars
<1> QED
  BY <1>1, <1>2, <1>3, <1>4 DEF Next

-----------------------------------------------------------------------------

\* The initial state has its types and is empty.
LEMMA InitInv == Init => TypeOK /\ MembershipConsistent
<1> SUFFICES ASSUME Init
             PROVE  TypeOK /\ MembershipConsistent
  OBVIOUS
<1>1. MeetingTypeOK
  <2>1. m_meetings \in [1..(m_next_meeting_number - 1) -> Records]
    <3>1. m_next_meeting_number - 1 = 0 /\ 1..0 = {}
      BY DEF Init
    <3>2. m_meetings = <<>> /\ <<>> \in [{} -> Records]
      BY DEF Init
    <3> QED
      BY <3>1, <3>2
  <2> QED
    BY <2>1, MeetingStoreAssumption DEF Init, MeetingTypeOK, MeetingIds
<1>2. HubTypeOK
  BY DEF Init, HubTypeOK
<1>3. StreamTypeOK
  BY DEF Init, StreamTypeOK, Stages
<1>4. MembershipConsistent
  <2>1. DOMAIN m_meetings = {}
    BY DEF Init
  <2> QED
    BY <2>1 DEF Init, MembershipConsistent, IndexMatchesLists,
                NoDuplicateParticipant, ActiveIffOccupied
<1> QED
  BY <1>1, <1>2, <1>3, <1>4 DEF TypeOK

-----------------------------------------------------------------------------
(* Subscriptions.                                                           *)

\* Publishing drops nothing but, with closeAll, every stream of the meeting.
LEMMA PublishEffect ==
    ASSUME TypeOK, ListedIffOpen, NEW mid \in MeetingIds, NEW news \in Events,
           NEW closeAll \in BOOLEAN
    PROVE  LET h == PublishEventLocked(Hub, mid, news, closeAll) IN
           /\ h \in Hubs
           /\ \A m \in MeetingIds, s \in Subs :
                s \in h.listed[m] <=> s \in m_subscriptions[m] /\ ~(closeAll /\ m = mid)
           /\ \A s \in Subs :
                h.closed[s] <=> m_closed[s] \/ (closeAll /\ s \in m_subscriptions[mid])
<1> DEFINE live == {s \in m_subscriptions[mid] : Alive(s)}
           h == PublishEventLocked(Hub, mid, news, closeAll)
<1>1. Hub \in Hubs
  BY HubInHubs DEF TypeOK
<1>2. h \in Hubs
  BY <1>1, PublishType
<1>3. live = m_subscriptions[mid]
  BY DEF ListedIffOpen, TypeOK, HubTypeOK
<1>4. /\ h.listed = [m_subscriptions EXCEPT ![mid] = IF closeAll THEN {} ELSE live]
      /\ h.closed = [s \in Subs |-> m_closed[s] \/ (closeAll /\ s \in live)]
  BY DEF PublishEventLocked, Hub
<1> HIDE DEF h, live
<1>5. m_subscriptions \in [MeetingIds -> SUBSET Subs]
  BY DEF TypeOK, HubTypeOK
<1>6. \A m \in MeetingIds, s \in Subs :
        s \in h.listed[m] <=> s \in m_subscriptions[m] /\ ~(closeAll /\ m = mid)
  BY <1>3, <1>4, <1>5
<1>7. \A s \in Subs :
        h.closed[s] <=> m_closed[s] \/ (closeAll /\ s \in m_subscriptions[mid])
  BY <1>3, <1>4, Zenon
<1> QED
  BY <1>2, <1>6, <1>7 DEF h

\* Closing a user's streams drops those and nothing else.
LEMMA CloseEffect ==
    ASSUME NEW hub \in Hubs, NEW mid \in MeetingIds, NEW user,
           \A s \in hub.listed[mid] : Alive(s)
    PROVE  LET h == CloseUserSubscriptionsLocked(hub, mid, user) IN
           /\ h \in Hubs
           /\ \A m \in MeetingIds, s \in Subs :
                s \in h.listed[m]
                  <=> s \in hub.listed[m] /\ ~(m = mid /\ sub_of[s].user = user)
           /\ \A s \in Subs :
                h.closed[s] <=>
                  hub.closed[s] \/ (s \in hub.listed[mid] /\ sub_of[s].user = user)
<1> DEFINE live == {s \in hub.listed[mid] : Alive(s)}
           own  == {s \in live : sub_of[s].user = user}
           h    == CloseUserSubscriptionsLocked(hub, mid, user)
<1>1. h \in Hubs
  BY CloseType
<1>2. \A s : s \in live <=> s \in hub.listed[mid]
  OBVIOUS
<1>3. \A s : s \in own <=> s \in hub.listed[mid] /\ sub_of[s].user = user
  BY <1>2
<1>4. /\ h.listed = [hub.listed EXCEPT ![mid] = live \ own]
      /\ h.closed = [s \in Subs |-> hub.closed[s] \/ s \in own]
  BY DEF CloseUserSubscriptionsLocked
<1> HIDE DEF h, live, own
<1>5. hub.listed \in [MeetingIds -> SUBSET Subs]
  BY DEF Hubs
<1>6. \A m \in MeetingIds, s \in Subs :
        s \in h.listed[m]
          <=> s \in hub.listed[m] /\ ~(m = mid /\ sub_of[s].user = user)
  BY <1>2, <1>3, <1>4, <1>5
<1>7. \A s \in Subs :
        h.closed[s] <=>
          hub.closed[s] \/ (s \in hub.listed[mid] /\ sub_of[s].user = user)
  BY <1>3, <1>4, Zenon
<1> QED
  BY <1>1, <1>6, <1>7 DEF h

\* A request that closes and drops the same listed streams, and leaves the
\* users of the others where they are, keeps everybody subscribed properly.
LEMMA DropStreams ==
    ASSUME TypeOK, Subscribed, UNCHANGED <<stream, sub_of>>,
           NEW D, \A s \in D : \E m \in MeetingIds : s \in m_subscriptions[m],
           \A m \in MeetingIds, s \in Subs :
              s \in m_subscriptions'[m] <=> s \in m_subscriptions[m] /\ s \notin D,
           \A s \in Subs : m_closed'[s] <=> m_closed[s] \/ s \in D,
           HubTypeOK',
           \A m \in MeetingIds, s \in Subs :
              s \in m_subscriptions[m] /\ s \notin D
                => m_user_meetings'[sub_of[s].user] = m
    PROVE  Subscribed'
<1>1. \A s : Alive(s)' <=> Alive(s)
  BY DEF Alive
<1>2. ListedIffOpen'
  BY <1>1 DEF Subscribed, ListedIffOpen
<1>3. OneOpenStreamPerParticipant'
  BY DEF Subscribed, OneOpenStreamPerParticipant, HubTypeOK
<1>4. UnusedIsOpen'
  BY DEF Subscribed, UnusedIsOpen, ListedIffOpen, Alive, Running
<1> QED
  BY <1>2, <1>3, <1>4 DEF Subscribed

\* The user of a listed stream, and the membership that goes with it.
LEMMA ListedUser ==
    ASSUME TypeOK, Subscribed, NEW m \in MeetingIds, NEW s \in m_subscriptions[m]
    PROVE  /\ s \in Subs
           /\ sub_of[s].user \in Users
           /\ m_user_meetings[sub_of[s].user] = m
           /\ m # NoMeeting
  BY DEF Subscribed, OneOpenStreamPerParticipant, TypeOK, HubTypeOK, MeetingIds, NoMeeting

\* A new meeting has no streams, so streams stay as they were (CreateMeeting).
LEMMA CreateSubscribed ==
    ASSUME TypeOK, Subscribed, NEW user \in Users, CreateMeeting(user), TypeOK'
    PROVE  Subscribed'
<1>1. /\ m_user_meetings[user] = NoMeeting
      /\ m_user_meetings' = [m_user_meetings EXCEPT ![user] = m_next_meeting_number]
      /\ m_user_meetings \in [Users -> MeetingIds \cup {NoMeeting}]
  BY CreateMeetingFacts DEF TypeOK, MeetingTypeOK
<1>2. UNCHANGED <<stream, sub_of, m_subscriptions, m_closed>>
  BY DEF CreateMeeting, hubVars, streamVars
<1>3. ASSUME NEW m \in MeetingIds, NEW s \in Subs, s \in m_subscriptions[m]
      PROVE  m_user_meetings'[sub_of[s].user] = m
  BY <1>1, <1>3, ListedUser
<1>4. HubTypeOK'
  BY DEF TypeOK
<1> DEFINE D == {}
<1>5. /\ \A m \in MeetingIds, s \in Subs :
            s \in m_subscriptions'[m] <=> s \in m_subscriptions[m] /\ s \notin D
      /\ \A s \in Subs : m_closed'[s] <=> m_closed[s] \/ s \in D
      /\ \A s \in D : \E m \in MeetingIds : s \in m_subscriptions[m]
  BY <1>2
<1> HIDE DEF D
<1> QED
  BY <1>2, <1>3, <1>4, <1>5, DropStreams

\* A join publishes and closes no stream (JoinMeeting).
LEMMA JoinSubscribed ==
    ASSUME TypeOK, Subscribed, NEW mid \in MeetingIds, NEW user \in Users,
           JoinMeeting(mid, user), TypeOK'
    PROVE  Subscribed'
<1>1. /\ m_user_meetings[user] \in {NoMeeting, mid}
      /\ m_user_meetings' = [m_user_meetings EXCEPT ![user] = mid]
      /\ m_user_meetings \in [Users -> MeetingIds \cup {NoMeeting}]
  BY SuccessFacts DEF JoinMeeting, TypeOK, MeetingTypeOK
<1>2. UNCHANGED <<stream, sub_of>>
  BY DEF JoinMeeting, streamVars
<1>3. ASSUME NEW m \in MeetingIds, NEW s \in Subs, s \in m_subscriptions[m]
      PROVE  m_user_meetings'[sub_of[s].user] = m
  BY <1>1, <1>3, ListedUser
<1>4. HubTypeOK'
  BY DEF TypeOK
<1> DEFINE D == {}
<1>5. /\ \A m \in MeetingIds, s \in Subs :
            s \in m_subscriptions'[m] <=> s \in m_subscriptions[m] /\ s \notin D
      /\ \A s \in Subs : m_closed'[s] <=> m_closed[s] \/ s \in D
      /\ \A s \in D : \E m \in MeetingIds : s \in m_subscriptions[m]
  <2>1. CASE Contains(m_meetings[mid].participants, user)
    BY <2>1 DEF JoinMeeting, hubVars
  <2>2. CASE ~Contains(m_meetings[mid].participants, user)
    <3> DEFINE news == [kind |-> "UserJoined", trigger_user |-> user]
               h == PublishEventLocked(Hub, mid, news, FALSE)
    <3>1. SetHub(h)
      BY <2>2 DEF JoinMeeting
    <3>2. news \in Events
      BY DEF Events, EventKinds
    <3> HIDE DEF news
    <3>3. /\ \A m \in MeetingIds, s \in Subs :
                s \in h.listed[m] <=> s \in m_subscriptions[m]
          /\ \A s \in Subs : h.closed[s] <=> m_closed[s]
      BY <3>2, PublishEffect DEF Subscribed
    <3> QED
      BY <3>1, <3>3 DEF SetHub
  <2> QED
    BY <2>1, <2>2
<1> HIDE DEF D
<1> QED
  BY <1>2, <1>3, <1>4, <1>5, DropStreams

\* The end of a meeting closes all its streams (EndMeeting).
LEMMA EndSubscribed ==
    ASSUME TypeOK, MembershipConsistent, Subscribed,
           NEW mid \in MeetingIds, NEW user \in Users,
           EndMeeting(mid, user), TypeOK'
    PROVE  Subscribed'
<1> DEFINE D == m_subscriptions[mid]
           news == [kind |-> "MeetingEnded", trigger_user |-> user]
           h == PublishEventLocked(Hub, mid, news, TRUE)
<1>1. /\ mid \in DOMAIN m_meetings
      /\ m_user_meetings' = [u \in Users |->
                               IF Contains(m_meetings[mid].participants, u)
                               THEN NoMeeting ELSE m_user_meetings[u]]
      /\ UNCHANGED <<stream, sub_of>>
      /\ SetHub(h)
      /\ HubTypeOK'
  BY EndMeetingFacts DEF EndMeeting, streamVars, TypeOK
<1>2. news \in Events
  BY DEF Events, EventKinds
<1> HIDE DEF news
<1>3. /\ \A m \in MeetingIds, s \in Subs :
            s \in h.listed[m] <=> s \in m_subscriptions[m] /\ m # mid
      /\ \A s \in Subs : h.closed[s] <=> m_closed[s] \/ s \in D
  BY <1>2, PublishEffect DEF Subscribed
<1>4. \A m \in MeetingIds, s \in Subs : s \in m_subscriptions[m] /\ s \in D => m = mid
  BY ListedUser
<1>5. /\ \A m \in MeetingIds, s \in Subs :
            s \in m_subscriptions'[m] <=> s \in m_subscriptions[m] /\ s \notin D
      /\ \A s \in Subs : m_closed'[s] <=> m_closed[s] \/ s \in D
      /\ \A s \in D : \E m \in MeetingIds : s \in m_subscriptions[m]
  BY <1>1, <1>3, <1>4 DEF SetHub
<1>6. ASSUME NEW m \in MeetingIds, NEW s \in Subs, s \in m_subscriptions[m], s \notin D
      PROVE  m_user_meetings'[sub_of[s].user] = m
  <2>1. m # mid /\ sub_of[s].user \in Users /\ m_user_meetings[sub_of[s].user] = m
    BY <1>6, ListedUser
  <2>2. ~Contains(m_meetings[mid].participants, sub_of[s].user)
    BY <1>1, <2>1 DEF MembershipConsistent, IndexMatchesLists
  <2> QED
    BY <1>1, <2>1, <2>2
<1> HIDE DEF D, h
<1> QED
  BY <1>1, <1>5, <1>6, DropStreams

\* A leave closes the leaver's stream, or with the last one all (LeaveMeeting).
LEMMA LeaveSubscribed ==
    ASSUME TypeOK, MembershipConsistent, Subscribed,
           NEW mid \in MeetingIds, NEW user \in Users,
           LeaveMeeting(mid, user), TypeOK'
    PROVE  Subscribed'
<1> DEFINE rest == EraseParticipant(m_meetings[mid].participants, user)
           ended == [kind |-> "MeetingEnded", trigger_user |-> user]
           left == [kind |-> "UserLeft", trigger_user |-> user]
           e == PublishEventLocked(Hub, mid, ended, TRUE)
           h == PublishEventLocked(Hub, mid, left, FALSE)
           k == CloseUserSubscriptionsLocked(h, mid, user)
           all == m_subscriptions[mid]
           own == {s \in all : sub_of[s].user = user}
<1>1. /\ m_user_meetings[user] = mid
      /\ m_user_meetings' = [m_user_meetings EXCEPT ![user] = NoMeeting]
      /\ m_user_meetings \in [Users -> MeetingIds \cup {NoMeeting}]
      /\ UNCHANGED <<stream, sub_of>>
      /\ HubTypeOK'
      /\ IF rest = <<>> THEN SetHub(e) ELSE SetHub(k)
  BY LeaveMeetingFacts DEF LeaveMeeting, streamVars, TypeOK, MeetingTypeOK
<1>2. ended \in Events /\ left \in Events
  BY DEF Events, EventKinds
<1>3. ASSUME NEW m \in MeetingIds, NEW s \in Subs, s \in m_subscriptions[m],
             s \notin own
      PROVE  m_user_meetings'[sub_of[s].user] = m
  <2>1. sub_of[s].user \in Users /\ m_user_meetings[sub_of[s].user] = m
    BY <1>3, ListedUser
  <2>2. sub_of[s].user # user
    BY <1>1, <1>3, <2>1
  <2> QED
    BY <1>1, <2>1, <2>2
<1>4. \A m \in MeetingIds, s \in Subs : s \in m_subscriptions[m] /\ s \in all => m = mid
  BY ListedUser
<1>5. CASE rest = <<>>
  <2> HIDE DEF ended
  <2>1. /\ \A m \in MeetingIds, s \in Subs :
              s \in e.listed[m] <=> s \in m_subscriptions[m] /\ m # mid
        /\ \A s \in Subs : e.closed[s] <=> m_closed[s] \/ s \in all
    BY <1>2, PublishEffect DEF Subscribed
  <2>2. SetHub(e)
    BY <1>1, <1>5
  <2>3. /\ \A m \in MeetingIds, s \in Subs :
              s \in m_subscriptions'[m] <=> s \in m_subscriptions[m] /\ s \notin all
        /\ \A s \in Subs : m_closed'[s] <=> m_closed[s] \/ s \in all
        /\ \A s \in all : \E m \in MeetingIds : s \in m_subscriptions[m]
    BY <1>4, <2>1, <2>2 DEF SetHub
  <2>4. \A m \in MeetingIds, s \in Subs :
           s \in m_subscriptions[m] /\ s \notin all
             => m_user_meetings'[sub_of[s].user] = m
    BY <1>3
  <2> HIDE DEF all
  <2> QED
    BY <1>1, <2>3, <2>4, DropStreams
<1>6. CASE rest # <<>>
  <2> HIDE DEF left
  <2>1. /\ h \in Hubs
        /\ \A m \in MeetingIds, s \in Subs :
              s \in h.listed[m] <=> s \in m_subscriptions[m]
        /\ \A s \in Subs : h.closed[s] <=> m_closed[s]
    BY <1>2, PublishEffect DEF Subscribed
  <2>2. \A s \in h.listed[mid] : Alive(s)
    BY <2>1 DEF Hubs, Subscribed, ListedIffOpen
  <2> HIDE DEF h
  <2>3. /\ \A m \in MeetingIds, s \in Subs :
              s \in k.listed[m]
                <=> s \in h.listed[m] /\ ~(m = mid /\ sub_of[s].user = user)
        /\ \A s \in Subs :
              k.closed[s] <=>
                h.closed[s] \/ (s \in h.listed[mid] /\ sub_of[s].user = user)
    BY <2>1, <2>2, CloseEffect
  <2>4. SetHub(k)
    BY <1>1, <1>6
  <2> HIDE DEF k
  <2>5. /\ \A m \in MeetingIds, s \in Subs :
              s \in m_subscriptions'[m] <=> s \in m_subscriptions[m] /\ s \notin own
        /\ \A s \in Subs : m_closed'[s] <=> m_closed[s] \/ s \in own
        /\ \A s \in own : \E m \in MeetingIds : s \in m_subscriptions[m]
    BY <1>4, <2>1, <2>3, <2>4 DEF SetHub
  <2> HIDE DEF own
  <2> QED
    BY <1>1, <1>3, <2>5, DropStreams
<1> QED
  BY <1>5, <1>6

\* A new stream replaces the user's old one.
LEMMA SubscribeSubscribed ==
    ASSUME TypeOK, MembershipConsistent, Subscribed,
           NEW mid \in MeetingIds, NEW user \in Users, NEW s \in Subs,
           SubscribeMeetingEvents(s, mid, user), TypeOK'
    PROVE  Subscribed'
<1> DEFINE hub == CloseUserSubscriptionsLocked(Hub, mid, user)
           kept == {t \in hub.listed[mid] : Alive(t)}
           own == {t \in m_subscriptions[mid] : sub_of[t].user = user}
<1>1. /\ stream[s] = "free"
      /\ SetHub([hub EXCEPT !.listed[mid] = kept \cup {s}])
      /\ sub_of' = [sub_of EXCEPT ![s] = [meeting |-> mid, user |-> user]]
      /\ stream' = [stream EXCEPT ![s] = "loop"]
      /\ UNCHANGED m_user_meetings
  BY DEF SubscribeMeetingEvents, meetingVars
<1>2. m_user_meetings[user] = mid
  BY SuccessFacts DEF SubscribeMeetingEvents, MembershipConsistent, IndexMatchesLists
<1>3. Hub \in Hubs /\ Hub.listed = m_subscriptions /\ Hub.closed = m_closed
  BY HubInHubs DEF TypeOK, Hub
<1>4. \A t \in Hub.listed[mid] : Alive(t)
  BY <1>3 DEF Hubs, Subscribed, ListedIffOpen
<1>5. /\ hub \in Hubs
      /\ \A m \in MeetingIds, t \in Subs :
            t \in hub.listed[m] <=> t \in m_subscriptions[m] /\ t \notin own
      /\ \A t \in Subs : hub.closed[t] <=> m_closed[t] \/ t \in own
  <2>1. /\ hub \in Hubs
        /\ \A m \in MeetingIds, t \in Subs :
              t \in hub.listed[m]
                <=> t \in Hub.listed[m] /\ ~(m = mid /\ sub_of[t].user = user)
        /\ \A t \in Subs :
              hub.closed[t] <=>
                Hub.closed[t] \/ (t \in Hub.listed[mid] /\ sub_of[t].user = user)
    BY <1>3, <1>4, CloseEffect
  <2>2. \A m \in MeetingIds, t \in Subs :
           t \in m_subscriptions[m] /\ t \in own => m = mid
    BY ListedUser
  <2> HIDE DEF hub
  <2> QED
    BY <1>3, <2>1, <2>2
<1>6. kept = hub.listed[mid]
  <2> HIDE DEF hub
  <2> QED
    BY <1>3, <1>4, <1>5 DEF Hubs
<1> HIDE DEF hub, kept
<1>7. /\ m_subscriptions' = [hub.listed EXCEPT ![mid] = kept \cup {s}]
      /\ m_closed' = hub.closed
  BY <1>1, <1>5 DEF SetHub, Hubs
<1>8. /\ \A m \in MeetingIds, t \in Subs :
            t \in m_subscriptions'[m]
              <=> (t \in m_subscriptions[m] /\ t \notin own) \/ (m = mid /\ t = s)
      /\ \A t \in Subs : m_closed'[t] <=> m_closed[t] \/ t \in own
  BY <1>5, <1>6, <1>7 DEF Hubs
<1>9. /\ stream \in [Subs -> Stages]
      /\ DOMAIN sub_of = Subs
      /\ HubTypeOK'
      /\ \A t \in Subs, m \in MeetingIds : t \in m_subscriptions[m] => t # s
      /\ ~m_closed[s]
      /\ s \notin own
  BY <1>1 DEF TypeOK, StreamTypeOK, Subscribed, ListedIffOpen, UnusedIsOpen, Alive, Running
<1>10. \A t \in Subs \ {s} : (Alive(t)' <=> Alive(t)) /\ sub_of'[t] = sub_of[t]
                             /\ stream'[t] = stream[t]
  BY <1>1, <1>9 DEF Alive
<1>11. /\ Alive(s)' /\ stream'[s] # "free"
       /\ sub_of'[s] = [meeting |-> mid, user |-> user]
  BY <1>1, <1>9 DEF Alive, Running
<1> HIDE DEF own
<1>12. ListedIffOpen'
  <2> SUFFICES ASSUME NEW t \in Subs, NEW m \in MeetingIds
               PROVE  t \in m_subscriptions'[m]
                        <=> Alive(t)' /\ ~m_closed'[t] /\ sub_of'[t].meeting = m
    BY DEF ListedIffOpen
  <2>1. CASE t = s
    BY <1>8, <1>9, <1>11, <2>1
  <2>2. CASE t # s
    <3>1. t \in m_subscriptions[m]
            <=> Alive(t) /\ ~m_closed[t] /\ sub_of[t].meeting = m
      BY DEF Subscribed, ListedIffOpen
    <3> QED
      BY <1>8, <1>10, <2>2, <3>1
  <2> QED
    BY <2>1, <2>2
<1>13. OneOpenStreamPerParticipant'
  <2> SUFFICES ASSUME NEW m \in MeetingIds, NEW t \in m_subscriptions'[m]
               PROVE  /\ sub_of'[t].user \in Users
                      /\ m_user_meetings'[sub_of'[t].user] = m
                      /\ \A r \in m_subscriptions'[m] :
                            sub_of'[r].user = sub_of'[t].user => r = t
    BY DEF OneOpenStreamPerParticipant
  <2>1. \A r \in m_subscriptions'[m] :
           /\ r \in Subs
           /\ r # s => /\ r \in m_subscriptions[m]
                       /\ r \notin own
                       /\ sub_of'[r] = sub_of[r]
                       /\ sub_of[r].user \in Users
                       /\ m_user_meetings[sub_of[r].user] = m
           /\ r = s => m = mid
    BY <1>8, <1>9, <1>10, ListedUser DEF HubTypeOK
  <2>2. CASE t = s
    <3>1. sub_of'[t].user = user /\ m = mid
      BY <1>11, <2>1, <2>2
    <3>2. \A r \in m_subscriptions'[m] : r # s => sub_of'[r].user # user
      BY <2>1, <3>1 DEF own
    <3> QED
      BY <1>1, <1>2, <2>2, <3>1, <3>2
  <2>3. CASE t # s
    <3>1. /\ sub_of'[t].user \in Users
          /\ m_user_meetings'[sub_of'[t].user] = m
      BY <1>1, <2>1, <2>3
    <3>2. ASSUME NEW r \in m_subscriptions'[m], sub_of'[r].user = sub_of'[t].user
          PROVE  r = t
      <4>1. CASE r = s
        <5>1. m = mid /\ sub_of'[t].user = user
          BY <1>11, <2>1, <3>2, <4>1
        <5>2. t \in own
          BY <2>1, <2>3, <5>1 DEF own
        <5> QED
          BY <2>1, <2>3, <5>2
      <4>2. CASE r # s
        BY <2>1, <2>3, <3>2, <4>2 DEF Subscribed, OneOpenStreamPerParticipant
      <4> QED
        BY <4>1, <4>2
    <3> QED
      BY <3>1, <3>2
  <2> QED
    BY <2>2, <2>3
<1>14. UnusedIsOpen'
  <2> SUFFICES ASSUME NEW t \in Subs, stream'[t] = "free"
               PROVE  ~m_closed'[t]
    BY DEF UnusedIsOpen
  <2>1. t # s /\ stream[t] = "free"
    BY <1>10, <1>11
  <2>2. t \notin own
    BY <2>1 DEF own, TypeOK, HubTypeOK, Subscribed, ListedIffOpen, Alive, Running
  <2> QED
    BY <1>8, <2>1, <2>2 DEF Subscribed, UnusedIsOpen
<1> QED
  BY <1>12, <1>13, <1>14 DEF Subscribed

\* A handler that keeps running, and does not touch the store, disturbs no
\* subscription.
LEMMA HandlerStays ==
    ASSUME TypeOK, Subscribed, NEW s \in Subs,
           UNCHANGED <<m_subscriptions, m_closed, sub_of, m_user_meetings>>,
           stream[s] \in Running, stream'[s] \in Running,
           \A t \in Subs \ {s} : stream'[t] = stream[t]
    PROVE  Subscribed'
<1>1. \A t \in Subs : Alive(t)' <=> Alive(t)
  BY DEF Alive
<1>2. \A t \in Subs : stream'[t] = "free" => stream[t] = "free"
  BY DEF Running
<1> QED
  BY <1>1, <1>2 DEF Subscribed, ListedIffOpen, OneOpenStreamPerParticipant,
                    UnusedIsOpen, TypeOK, HubTypeOK

\* A handler that returns has dropped and closed its subscription.
LEMMA HandlerReturns ==
    ASSUME TypeOK, Subscribed, NEW s \in Subs, UnsubscribeMeetingEvents(s), TypeOK'
    PROVE  Subscribed'
<1>1. /\ stream[s] = "exit"
      /\ stream' = [stream EXCEPT ![s] = "done"]
      /\ m_subscriptions' = [m_subscriptions EXCEPT ![sub_of[s].meeting] =
                               {t \in @ : Alive(t) /\ t # s}]
      /\ m_closed' = [m_closed EXCEPT ![s] = TRUE]
      /\ UNCHANGED <<sub_of, m_user_meetings>>
  BY DEF UnsubscribeMeetingEvents, StreamStep, meetingVars
<1>2. /\ stream \in [Subs -> Stages]
      /\ m_subscriptions \in [MeetingIds -> SUBSET Subs]
      /\ m_closed \in [Subs -> BOOLEAN]
  BY DEF TypeOK, StreamTypeOK, HubTypeOK
<1>3. \A m \in MeetingIds, t \in Subs :
         t \in m_subscriptions[m] => Alive(t) /\ sub_of[t].meeting = m
  BY DEF Subscribed, ListedIffOpen
<1>4. \A m \in MeetingIds, t \in Subs :
         t \in m_subscriptions'[m] <=> t \in m_subscriptions[m] /\ t # s
  BY <1>1, <1>2, <1>3
<1>5. /\ \A t \in Subs \ {s} : /\ stream'[t] = stream[t]
                               /\ m_closed'[t] = m_closed[t]
                               /\ Alive(t)' <=> Alive(t)
      /\ stream'[s] = "done"
      /\ ~Alive(s)'
  BY <1>1, <1>2 DEF Alive, Running
<1>6. ListedIffOpen'
  BY <1>1, <1>4, <1>5 DEF Subscribed, ListedIffOpen
<1>7. OneOpenStreamPerParticipant'
  BY <1>1, <1>4 DEF Subscribed, OneOpenStreamPerParticipant, TypeOK, HubTypeOK
<1>8. UnusedIsOpen'
  BY <1>5 DEF Subscribed, UnusedIsOpen
<1> QED
  BY <1>6, <1>7, <1>8 DEF Subscribed

\* Subscriptions after any step.
LEMMA SubscribedStep ==
    ASSUME TypeOK, MembershipConsistent, Subscribed, [Next]_vars, TypeOK'
    PROVE  Subscribed'
<1>1. CASE UNCHANGED <<m_subscriptions, m_closed, sub_of, stream, m_user_meetings>>
  BY <1>1 DEF Subscribed, ListedIffOpen, OneOpenStreamPerParticipant,
              UnusedIsOpen, Alive
<1>2. ASSUME NEW user \in Users, UserRequest(user)
      PROVE  Subscribed'
  <2>1. ASSUME NEW password \in Passwords,
               RegisterUser(user, password) \/ LoginUser(user, password)
        PROVE  Subscribed'
    BY <1>1, <2>1 DEF RegisterUser, LoginUser, meetingVars, hubVars, streamVars
  <2>2. CASE CreateMeeting(user)
    BY <2>2, CreateSubscribed
  <2>3. ASSUME NEW mid \in MeetingIds, JoinMeeting(mid, user)
        PROVE  Subscribed'
    BY <2>3, JoinSubscribed
  <2>4. ASSUME NEW mid \in MeetingIds, LeaveMeeting(mid, user)
        PROVE  Subscribed'
    BY <2>4, LeaveSubscribed
  <2>5. ASSUME NEW mid \in MeetingIds, EndMeeting(mid, user)
        PROVE  Subscribed'
    BY <2>5, EndSubscribed
  <2>6. ASSUME NEW mid \in MeetingIds, NEW s \in Subs,
               SubscribeMeetingEvents(s, mid, user)
        PROVE  Subscribed'
    BY <2>6, SubscribeSubscribed
  <2> QED
    BY <1>2, <2>1, <2>2, <2>3, <2>4, <2>5, <2>6 DEF UserRequest, AccountRequest
<1>3. ASSUME NEW s \in Subs, StreamHandler(s)
      PROVE  Subscribed'
  <2>1. CASE UnsubscribeMeetingEvents(s)
    BY <2>1, HandlerReturns
  <2>2. ASSUME NEW from \in {"loop", "wait", "check", "write"}, NEW to \in Running,
               StreamStep(s, from, to), UNCHANGED <<m_subscriptions, m_closed>>
        PROVE  Subscribed'
    <3>1. /\ stream[s] = from
          /\ stream' = [stream EXCEPT ![s] = to]
          /\ stream \in [Subs -> Stages]
          /\ UNCHANGED <<sub_of, m_user_meetings>>
      BY <2>2 DEF StreamStep, meetingVars, TypeOK, StreamTypeOK
    <3>2. stream[s] \in Running /\ stream'[s] \in Running
      BY <3>1 DEF Running
    <3> QED
      BY <2>2, <3>1, <3>2, HandlerStays
  <2>3. CASE CheckCancelled(s) \/ CheckClosed(s)
    BY <2>2, <2>3 DEF CheckCancelled, CheckClosed, hubVars, Running
  <2>4. CASE WaitNext(s) \/ WaitNextEmpty(s)
    BY <2>2, <2>4 DEF WaitNext, WaitNextEmpty, hubVars, Running
  <2>5. CASE WriteEvent(s) \/ WriteFails(s)
    BY <2>2, <2>5 DEF WriteEvent, WriteFails, hubVars, Running
  <2> QED
    BY <1>3, <2>1, <2>3, <2>4, <2>5 DEF StreamHandler
<1>4. ASSUME NEW s \in Subs, CancelStream(s)
      PROVE  Subscribed'
  BY <1>1, <1>4 DEF CancelStream, meetingVars, hubVars
<1>5. CASE UNCHANGED vars
  BY <1>1, <1>5 DEF vars, meetingVars, hubVars, streamVars
<1> QED
  BY <1>2, <1>3, <1>4, <1>5 DEF Next

\* The inductive invariant of the server.
Inv == TypeOK /\ MembershipConsistent /\ Subscribed

\* At the start no stream exists.
LEMMA InitSubscribed == Init => Subscribed
  BY DEF Init, Subscribed, ListedIffOpen, OneOpenStreamPerParticipant,
         UnusedIsOpen, Alive, Running

\* The inductive invariant holds in every reachable state.
LEMMA Invariant == Spec => []Inv
<1>1. Init => Inv
  BY InitInv, InitSubscribed DEF Inv
<1>2. Inv /\ [Next]_vars => Inv'
  BY TypeStep, MembershipStep, SubscribedStep DEF Inv
<1> QED
  BY <1>1, <1>2, PTL DEF Spec

\* Every reachable state of the server is well typed (all store operations and
\* stream handler steps).
THEOREM TypeCorrect == Spec => []TypeOK
<1>1. Inv => TypeOK
  BY DEF Inv
<1> QED
  BY Invariant, <1>1, PTL

\* m_user_meetings, the participant vectors and the active flag agree in every
\* reachable state (CreateMeeting, JoinMeeting, LeaveMeeting, EndMeeting).
THEOREM Membership == Spec => []MembershipConsistent
<1>1. Inv => MembershipConsistent
  BY DEF Inv
<1> QED
  BY Invariant, <1>1, PTL

\* Whatever requests and handlers interleave, the store lists exactly the open
\* streams of the current participants, one for each (PublishEventLocked,
\* CloseUserSubscriptionsLocked, UnsubscribeMeetingEvents).
THEOREM SubscriptionsCorrect == Spec => []Subscribed
<1>1. Inv => Subscribed
  BY DEF Inv
<1> QED
  BY Invariant, <1>1, PTL

-----------------------------------------------------------------------------
(* Replaying events one after the other: what FoldLeft computes.            *)

\* A set of numbers has a least one.
LEMMA Least ==
    ASSUME NEW S \in SUBSET Nat, S # {}
    PROVE  \E n \in S : \A m \in S : n <= m
<1> DEFINE R == OpToRel(<, Nat)
<1>1. IsWellFoundedOn(R, Nat)
  BY NatLessThanWellFounded
<1> HIDE DEF R
<1>2. PICK n \in S : \A m \in S : ~(<<m, n>> \in R)
  BY <1>1, WFMin
<1>3. \A m \in S : ~(m < n)
  BY <1>2 DEF R, OpToRel
<1> QED
  BY <1>3

\* The greatest position of a set of them.
LEMMA LastPosition ==
    ASSUME NEW k \in Nat, NEW S \in SUBSET (1 .. k), S # {}
    PROVE  /\ Max(S) \in S
           /\ \A i \in S : i <= Max(S)
<1> DEFINE Above == {n \in Nat : \A i \in S : i <= n}
<1>1. k \in Above
  OBVIOUS
<1>2. PICK n \in Above : \A m \in Above : n <= m
  BY <1>1, Least, Above \in SUBSET Nat
<1>3. n \in S
  <2>1. SUFFICES ASSUME n \notin S PROVE FALSE
    OBVIOUS
  <2>2. PICK i \in S : i <= n /\ i # n
    BY <1>2, <2>1
  <2>3. n - 1 \in Above
    BY <1>2, <2>1, <2>2
  <2> QED
    BY <1>2, <2>3
<1>4. \E x \in S : \A y \in S : x >= y
  BY <1>2, <1>3
<1>5. Max(S) \in S /\ \A y \in S : Max(S) >= y
  BY <1>4, Zenon DEF Max
<1> QED
  BY <1>5

LEMMA LastOfAll ==
    ASSUME NEW k \in Nat \ {0}
    PROVE  Max(1 .. k) = k /\ (1 .. k) \ {k} = 1 .. (k - 1)
<1> DEFINE S == 1 .. k
<1>1. S \in SUBSET (1 .. k) /\ S # {} /\ k \in S
  OBVIOUS
<1> HIDE DEF S
<1>2. Max(S) \in S /\ \A i \in S : i <= Max(S)
  BY <1>1, LastPosition
<1>3. PICK last \in 1 .. k : last = Max(S)
  BY <1>1, <1>2
<1>4. last = k
  BY <1>1, <1>2, <1>3
<1> QED
  BY <1>3, <1>4 DEF S

\* What FoldLeft computes of each set of positions.
Folded(f, seen, events, k) ==
    f = [s \in SUBSET (1 .. k) |->
            IF s = {} THEN seen ELSE Replay(f[s \ {Max(s)}], events[Max(s)])]

LEMMA FoldExists ==
    ASSUME NEW seen, NEW events, NEW k \in Nat
    PROVE  \E f : Folded(f, seen, events, k)
<1> DEFINE Missing == {n \in Nat : ~\E f : Folded(f, seen, events, n)}
<1> SUFFICES ASSUME Missing # {} PROVE FALSE
  OBVIOUS
<1>1. PICK n \in Missing : \A m \in Missing : n <= m
  BY Least, Missing \in SUBSET Nat
<1>2. CASE n = 0
  <2> DEFINE f == [s \in SUBSET (1 .. 0) |-> seen]
  <2>1. Folded(f, seen, events, 0)
    BY DEF Folded
  <2> QED
    BY <1>1, <1>2, <2>1
<1>3. CASE n # 0
  <2>1. n - 1 \in Nat /\ n - 1 \notin Missing
    BY <1>1, <1>3
  <2>2. PICK f : Folded(f, seen, events, n - 1)
    BY <2>1
  <2> DEFINE g == [s \in SUBSET (1 .. n) |->
                     IF s = {} THEN seen
                     ELSE Replay(f[s \ {Max(s)}], events[Max(s)])]
  <2>3. \A s \in SUBSET (1 .. n) : s # {} => s \ {Max(s)} \in SUBSET (1 .. (n - 1))
    <3> TAKE s \in SUBSET (1 .. n)
    <3> HAVE s # {}
    <3>1. Max(s) \in s /\ \A i \in s : i <= Max(s)
      BY LastPosition
    <3>2. PICK last \in 1 .. n : last = Max(s)
      BY <3>1
    <3>3. \A i \in s \ {last} : i \in 1 .. (n - 1)
      BY <3>1, <3>2
    <3> QED
      BY <3>2, <3>3
  <2>4. \A s \in SUBSET (1 .. (n - 1)) : s \in SUBSET (1 .. n) /\ f[s] = g[s]
    <3> TAKE s \in SUBSET (1 .. (n - 1))
    <3>1. s \in SUBSET (1 .. n)
      OBVIOUS
    <3>2. f[s] = IF s = {} THEN seen ELSE Replay(f[s \ {Max(s)}], events[Max(s)])
      BY <2>2, Zenon DEF Folded
    <3> QED
      BY <3>1, <3>2
  <2>5. \A s \in SUBSET (1 .. n) : s # {} => f[s \ {Max(s)}] = g[s \ {Max(s)}]
    BY <2>3, <2>4
  <2>6. Folded(g, seen, events, n)
    BY <2>5, Zenon DEF Folded
  <2> QED
    BY <1>1, <2>6
<1> QED
  BY <1>2, <1>3

Replayed(seen, events) == FoldLeft(Replay, seen, events)

\* What is seen after each event.
Views(seen, events, n) ==
    CHOOSE h : /\ h[0] = seen
               /\ \A k \in 1 .. n : h[k] = Replay(h[k - 1], events[k])
               /\ Replayed(seen, events) = h[n]

\* FoldLeft replays the events one after the other.
LEMMA FoldSteps ==
    ASSUME NEW seen, NEW events, NEW n \in Nat, DOMAIN events = 1 .. n
    PROVE  LET h == Views(seen, events, n)
           IN  /\ h[0] = seen
               /\ \A k \in 1 .. n : h[k] = Replay(h[k - 1], events[k])
               /\ Replayed(seen, events) = h[n]
<1>1. n \in Nat /\ DOMAIN events = 1 .. n
  OBVIOUS
<1>2. \E f : Folded(f, seen, events, n)
  BY <1>1, FoldExists
<1>3. PICK f : Folded(f, seen, events, n) /\ Replayed(seen, events) = f[1 .. n]
  BY <1>1, <1>2, ZenonT(30) DEF Folded, Replayed, FoldLeft, MapThenFoldSet
<1> DEFINE h == [k \in 0 .. n |-> f[1 .. k]]
<1>4. h[0] = seen
  <2>1. f[{}] = seen
    BY <1>3, Zenon DEF Folded
  <2> QED
    BY <1>1, <2>1
<1>5. ASSUME NEW k \in 1 .. n PROVE h[k] = Replay(h[k - 1], events[k])
  <2>1. 1 .. k \in SUBSET (1 .. n) /\ 1 .. k # {}
    <3>1. k \in 1 .. k
      BY <1>1
    <3>2. \A i \in 1 .. k : i \in 1 .. n
      BY <1>1
    <3> QED
      BY <3>1, <3>2
  <2>2. f[1 .. k] = Replay(f[(1 .. k) \ {Max(1 .. k)}], events[Max(1 .. k)])
    BY <1>3, <2>1, Zenon DEF Folded
  <2>3. Max(1 .. k) = k /\ (1 .. k) \ {k} = 1 .. (k - 1)
    BY <1>1, LastOfAll
  <2>4. f[1 .. k] = Replay(f[1 .. (k - 1)], events[k])
    BY <2>2, <2>3
  <2>5. h[k] = f[1 .. k] /\ h[k - 1] = f[1 .. (k - 1)]
    BY <1>1
  <2> QED
    BY <2>4, <2>5
<1>6. Replayed(seen, events) = h[n]
  BY <1>1, <1>3
<1> HIDE DEF h
<1> QED
  BY <1>4, <1>5, <1>6, Zenon DEF Views

\* And whatever satisfies the same steps ends with the same.
LEMMA ReplayedBy ==
    ASSUME NEW seen, NEW events, NEW n \in Nat, DOMAIN events = 1 .. n,
           NEW g, g[0] = seen, \A k \in 1 .. n : g[k] = Replay(g[k - 1], events[k])
    PROVE  Replayed(seen, events) = g[n]
<1> DEFINE h == Views(seen, events, n)
<1>1. /\ h[0] = seen
      /\ \A k \in 1 .. n : h[k] = Replay(h[k - 1], events[k])
      /\ Replayed(seen, events) = h[n]
  BY FoldSteps
<1> HIDE DEF h
<1> DEFINE Differ == {k \in 0 .. n : g[k] # h[k]}
<1> SUFFICES ASSUME Differ # {} PROVE FALSE
  BY <1>1
<1>2. PICK k \in Differ : \A m \in Differ : k <= m
  BY Least, Differ \in SUBSET Nat
<1>3. k # 0
  BY <1>1, <1>2
<1>4. k \in 1 .. n /\ k - 1 \in 0 .. n /\ k - 1 \notin Differ
  BY <1>2, <1>3
<1> QED
  BY <1>1, <1>2, <1>4

LEMMA ReplayNothing ==
    ASSUME NEW seen
    PROVE  Replayed(seen, << >>) = seen
<1> DEFINE h == Views(seen, << >>, 0)
<1>1. 0 \in Nat /\ DOMAIN << >> = 1 .. 0
  OBVIOUS
<1>2. h[0] = seen /\ Replayed(seen, << >>) = h[0]
  BY <1>1, FoldSteps
<1> QED
  BY <1>2

\* An event more is replayed last.
LEMMA ReplayLast ==
    ASSUME NEW seen, NEW T, NEW events \in Seq(T), NEW e \in T
    PROVE  Replayed(seen, Append(events, e)) = Replay(Replayed(seen, events), e)
<1> DEFINE n == Len(events)
           all == Append(events, e)
<1>1. PICK m \in Nat : m = n + 1
  OBVIOUS
<1>2. /\ n \in Nat /\ DOMAIN events = 1 .. n
      /\ DOMAIN all = 1 .. m
      /\ all[m] = e
      /\ \A k \in 1 .. n : all[k] = events[k]
  BY <1>1
<1> HIDE DEF n, all
<1> DEFINE h == Views(seen, all, m)
<1>3. /\ h[0] = seen
      /\ \A k \in 1 .. m : h[k] = Replay(h[k - 1], all[k])
      /\ Replayed(seen, all) = h[m]
  BY <1>2, FoldSteps
<1> HIDE DEF h
<1>4. \A k \in 1 .. n : h[k] = Replay(h[k - 1], events[k])
  BY <1>1, <1>2, <1>3
<1>5. Replayed(seen, events) = h[n]
  BY <1>2, <1>3, <1>4, ReplayedBy
<1>6. h[m] = Replay(h[n], e)
  BY <1>1, <1>2, <1>3
<1> QED
  BY <1>3, <1>5, <1>6 DEF all

\* The first event of all may be replayed before the others.
LEMMA ReplayFirst ==
    ASSUME NEW seen, NEW T, NEW events \in Seq(T), NEW e \in T
    PROVE  Replayed(seen, <<e>> \o events) = Replayed(Replay(seen, e), events)
<1> DEFINE n == Len(events)
           all == <<e>> \o events
<1>1. PICK m \in Nat : m = n + 1
  OBVIOUS
<1>2. n \in Nat /\ DOMAIN events = 1 .. n /\ DOMAIN all = 1 .. m /\ all[1] = e
  BY <1>1
<1>3. \A k \in 1 .. n : all[k + 1] = events[k]
  BY <1>1
<1> HIDE DEF n, all
<1> DEFINE f == Views(seen, all, m)
<1>4. /\ f[0] = seen
      /\ \A k \in 1 .. m : f[k] = Replay(f[k - 1], all[k])
      /\ Replayed(seen, all) = f[m]
  BY <1>2, FoldSteps
<1> HIDE DEF f
<1> DEFINE h == [k \in 0 .. n |-> f[k + 1]]
<1>5. h[0] = Replay(seen, e)
  <2>1. 1 \in 1 .. m /\ f[1] = Replay(f[0], all[1])
    BY <1>1, <1>2, <1>4
  <2> QED
    BY <1>2, <1>4, <2>1
<1>6. \A k \in 1 .. n : h[k] = Replay(h[k - 1], events[k])
  <2> TAKE k \in 1 .. n
  <2>1. k + 1 \in 1 .. m /\ k + 1 - 1 = k
    BY <1>1, <1>2
  <2>2. f[k + 1] = Replay(f[k], events[k])
    BY <1>3, <1>4, <2>1
  <2>3. h[k] = f[k + 1] /\ h[k - 1] = f[k]
    BY <1>2
  <2> QED
    BY <2>2, <2>3
<1>7. h[n] = f[m]
  BY <1>1, <1>2
<1> HIDE DEF h
<1>8. Replayed(Replay(seen, e), events) = h[n]
  BY <1>2, <1>5, <1>6, ReplayedBy
<1> QED
  BY <1>4, <1>7, <1>8 DEF all

-----------------------------------------------------------------------------
(* What readers have replayed.                                              *)

\* The participants of a meeting as a set.
LEMMA ListedParticipants ==
    ASSUME NEW S, NEW p \in Seq(S)
    PROVE  \A v : v \in ToSet(p) <=> Contains(p, v)
  BY DEF ToSet, Contains

\* A handler has an event in hand only while it writes, and one at most; a queue
\* that no call has taken is empty.
HandInv ==
    \A s \in Subs :
        /\ in_hand[s] = << >> \/ (stream[s] = "write" /\ in_hand[s] = <<in_hand[s][1]>>)
        /\ stream[s] = "free" => m_events[s] = << >>

\* What the reader of an open stream will have replayed.
Tracks(m, s) ==
    stream[s] # "exit" =>
        Replayed(view[s], in_hand[s] \o m_events[s]) = ToSet(m_meetings[m].participants)

ReadInv ==
    /\ HandInv
    /\ \A m \in MeetingIds : \A s \in m_subscriptions[m] : Tracks(m, s)

LEMMA ReadersTrack == ReadInv => OpenStreamTracksMeeting
  BY Zenon DEF ReadInv, Tracks, Replayed, OpenStreamTracksMeeting

\* The queues of a meeting after an event was published.
LEMMA PublishQueues ==
    ASSUME TypeOK, ListedIffOpen, NEW mid \in MeetingIds, NEW news \in Events,
           NEW closeAll \in BOOLEAN
    PROVE  \A s \in Subs : PublishEventLocked(Hub, mid, news, closeAll).events[s] =
               IF s \in m_subscriptions[mid] THEN Append(m_events[s], news)
               ELSE m_events[s]
<1> DEFINE live == {s \in m_subscriptions[mid] : Alive(s)}
<1>1. PublishEventLocked(Hub, mid, news, closeAll).events =
         [s \in Subs |-> IF s \in live /\ ~m_closed[s] THEN Append(m_events[s], news)
                         ELSE m_events[s]]
  BY DEF PublishEventLocked, Hub
<1>2. \A s \in Subs : s \in live /\ ~m_closed[s] <=> s \in m_subscriptions[mid]
  BY DEF ListedIffOpen
<1> QED
  BY <1>1, <1>2

\* An event behind a queue is behind the event in hand and the queue.
LEMMA ReplayBehind ==
    ASSUME NEW seen, NEW T, NEW hand \in Seq(T), NEW queue \in Seq(T), NEW e \in T
    PROVE  Replayed(seen, hand \o Append(queue, e))
             = Replay(Replayed(seen, hand \o queue), e)
<1>1. PICK all \in Seq(T) : all = hand \o queue
  BY ConcatProperties, Zenon
<1>2. /\ Append(queue, e) = queue \o <<e>> /\ Append(all, e) = all \o <<e>>
      /\ <<e>> \in Seq(T)
  BY AppendIsConcat
<1>3. hand \o Append(queue, e) = Append(all, e)
  BY <1>1, <1>2, ConcatAssociative
<1>4. Replayed(seen, Append(all, e)) = Replay(Replayed(seen, all), e)
  BY ReplayLast
<1> QED
  BY <1>1, <1>3, <1>4

\* Readers after a request that publishes one event to a meeting, and closes some
\* streams: those left have the event behind what they had.
LEMMA PublishTracks ==
    ASSUME TypeOK, Subscribed, ReadInv, UNCHANGED streamVars,
           NEW mid \in MeetingIds, NEW news \in Events,
           \A m \in MeetingIds, s \in Subs :
              s \in m_subscriptions'[m] => s \in m_subscriptions[m],
           HubTypeOK',
           \A s \in Subs : m_events'[s] =
              IF s \in m_subscriptions[mid] THEN Append(m_events[s], news) ELSE m_events[s],
           \A m \in MeetingIds \ {mid} : m_subscriptions[m] # {} =>
              m_meetings'[m].participants = m_meetings[m].participants,
           m_subscriptions'[mid] # {} =>
              ToSet(m_meetings'[mid].participants)
                = Replay(ToSet(m_meetings[mid].participants), news)
    PROVE  ReadInv'
<1>1. UNCHANGED <<stream, in_hand, view, sub_of>>
  BY DEF streamVars
<1>2. \A m \in MeetingIds, s \in Subs :
         s \in m_subscriptions[m] => Alive(s) /\ sub_of[s].meeting = m
  BY DEF Subscribed, ListedIffOpen
<1>3. HandInv'
  <2>1. \A s \in Subs : stream[s] = "free" => m_events'[s] = m_events[s]
    BY <1>2 DEF Alive, Running
  <2> QED
    BY <1>1, <2>1 DEF ReadInv, HandInv
<1>4. ASSUME NEW m \in MeetingIds, NEW s \in m_subscriptions'[m]
      PROVE  Tracks(m, s)'
  <2>1. s \in Subs /\ s \in m_subscriptions[m] /\ m_subscriptions[m] # {}
    BY <1>4 DEF HubTypeOK
  <2>2. stream[s] # "exit" =>
           Replayed(view[s], in_hand[s] \o m_events[s]) = ToSet(m_meetings[m].participants)
    BY <2>1 DEF ReadInv, Tracks
  <2>3. CASE m # mid
    <3>1. s \notin m_subscriptions[mid]
      BY <1>2, <2>1, <2>3
    <3>2. m_events'[s] = m_events[s]
      BY <2>1, <3>1
    <3>3. m_meetings'[m].participants = m_meetings[m].participants
      BY <2>1, <2>3
    <3> QED
      BY <1>1, <2>2, <3>2, <3>3 DEF Tracks
  <2>4. CASE m = mid
    <3>1. m_events'[s] = Append(m_events[s], news)
      BY <2>1, <2>4
    <3>2. in_hand[s] \in Seq(Events) /\ m_events[s] \in Seq(Events)
      BY <2>1 DEF TypeOK, HubTypeOK, StreamTypeOK
    <3>3. PICK hand \in Seq(Events), queue \in Seq(Events) :
             hand = in_hand[s] /\ queue = m_events[s]
      BY <3>2
    <3>4. Replayed(view[s], hand \o Append(queue, news))
            = Replay(Replayed(view[s], hand \o queue), news)
      BY ReplayBehind
    <3>5. ToSet(m_meetings'[m].participants)
            = Replay(ToSet(m_meetings[m].participants), news)
      BY <1>4, <2>4
    <3> QED
      BY <1>1, <2>2, <3>1, <3>3, <3>4, <3>5 DEF Tracks
  <2> QED
    BY <2>3, <2>4
<1> QED
  BY <1>3, <1>4 DEF ReadInv

\* Readers after a request that publishes nothing.
LEMMA SilentTracks ==
    ASSUME TypeOK, ReadInv, UNCHANGED <<streamVars, m_events>>,
           UNCHANGED m_subscriptions,
           \A m \in MeetingIds : m_subscriptions[m] # {} =>
              m_meetings'[m].participants = m_meetings[m].participants
    PROVE  ReadInv'
<1>1. UNCHANGED <<stream, in_hand, view, m_events>>
  BY DEF streamVars
<1>2. HandInv'
  BY <1>1 DEF ReadInv, HandInv
<1>3. ASSUME NEW m \in MeetingIds, NEW s \in m_subscriptions'[m]
      PROVE  Tracks(m, s)'
  <2>1. s \in m_subscriptions[m]
    BY <1>3
  <2>2. Tracks(m, s)
    BY <2>1 DEF ReadInv
  <2>3. m_meetings'[m].participants = m_meetings[m].participants
    BY <2>1
  <2> QED
    BY <1>1, <2>2, <2>3 DEF Tracks
<1> QED
  BY <1>2, <1>3 DEF ReadInv

\* A meeting with open streams exists.
LEMMA OccupiedMeeting ==
    ASSUME Inv, NEW m \in MeetingIds, m_subscriptions[m] # {}
    PROVE  m \in DOMAIN m_meetings
<1>1. PICK s \in m_subscriptions[m] : TRUE
  OBVIOUS
<1>2. sub_of[s].user \in Users /\ m_user_meetings[sub_of[s].user] = m /\ m # NoMeeting
  BY <1>1, ListedUser DEF Inv
<1> QED
  BY <1>2 DEF Inv, MembershipConsistent, IndexMatchesLists

LEMMA CreateReads ==
    ASSUME Inv, ReadInv, NEW user \in Users, CreateMeeting(user)
    PROVE  ReadInv'
<1>1. /\ \A m \in DOMAIN m_meetings : m_meetings'[m] = m_meetings[m]
      /\ UNCHANGED <<streamVars, m_events, m_subscriptions>>
  BY CreateMeetingFacts DEF CreateMeeting, hubVars, Inv
<1>2. \A m \in MeetingIds : m_subscriptions[m] # {} =>
         m_meetings'[m].participants = m_meetings[m].participants
  BY <1>1, OccupiedMeeting
<1> QED
  BY <1>1, <1>2, SilentTracks DEF Inv

LEMMA JoinReads ==
    ASSUME Inv, ReadInv, NEW mid \in MeetingIds, NEW user \in Users,
           JoinMeeting(mid, user), TypeOK'
    PROVE  ReadInv'
<1>1. UNCHANGED streamVars
  BY DEF JoinMeeting
<1>2. CASE Contains(m_meetings[mid].participants, user)
  <2>1. UNCHANGED <<m_meetings, m_events, m_subscriptions>>
    BY <1>2 DEF JoinMeeting, hubVars
  <2> QED
    BY <1>1, <2>1, SilentTracks DEF Inv
<1>3. CASE ~Contains(m_meetings[mid].participants, user)
  <2> DEFINE news == [kind |-> "UserJoined", trigger_user |-> user]
             h == PublishEventLocked(Hub, mid, news, FALSE)
  <2>1. SetHub(h)
    BY <1>3 DEF JoinMeeting
  <2>2. news \in Events
    BY DEF Events, EventKinds
  <2>3. news.kind = "UserJoined" /\ news.trigger_user = user
    OBVIOUS
  <2> HIDE DEF news
  <2>4. \A m \in MeetingIds, s \in Subs : s \in h.listed[m] <=> s \in m_subscriptions[m]
    BY <2>2, PublishEffect DEF Inv, Subscribed
  <2>5. \A s \in Subs : h.events[s] =
           IF s \in m_subscriptions[mid] THEN Append(m_events[s], news) ELSE m_events[s]
    BY <2>2, PublishQueues DEF Inv, Subscribed
  <2> HIDE DEF h
  <2>6. /\ mid \in DOMAIN m_meetings
        /\ m_meetings'[mid].participants = Append(m_meetings[mid].participants, user)
        /\ \A m \in DOMAIN m_meetings \ {mid} : m_meetings'[m] = m_meetings[m]
        /\ DOMAIN m_meetings' = DOMAIN m_meetings
    BY <1>3, JoinMeetingFacts DEF Inv
  <2>7. \A m \in MeetingIds \ {mid} : m_subscriptions[m] # {} =>
           m_meetings'[m].participants = m_meetings[m].participants
    BY <2>6, OccupiedMeeting
  <2>8. ToSet(m_meetings'[mid].participants)
           = Replay(ToSet(m_meetings[mid].participants), news)
    <3> DEFINE p == m_meetings[mid].participants
    <3>1. p \in Seq(Users)
      BY <2>6, KnownMeeting DEF Inv
    <3> HIDE DEF p
    <3>2. ToSet(Append(p, user)) = ToSet(p) \cup {user}
      <4>1. \A v : Contains(Append(p, user), v) <=> Contains(p, v) \/ v = user
        BY <3>1 DEF Contains
      <4>2. Append(p, user) \in Seq(Users)
        BY <3>1
      <4> QED
        BY <3>1, <4>1, <4>2, ListedParticipants
    <3>3. Replay(ToSet(p), news) = ToSet(p) \cup {user}
      BY <2>3 DEF Replay
    <3> QED
      BY <2>6, <3>2, <3>3 DEF p
  <2> QED
    BY <1>1, <2>1, <2>2, <2>4, <2>5, <2>7, <2>8, PublishTracks DEF Inv, SetHub, TypeOK
<1> QED
  BY <1>2, <1>3

LEMMA EndReads ==
    ASSUME Inv, ReadInv, NEW mid \in MeetingIds, NEW user \in Users,
           EndMeeting(mid, user), TypeOK'
    PROVE  ReadInv'
<1> DEFINE news == [kind |-> "MeetingEnded", trigger_user |-> user]
           h == PublishEventLocked(Hub, mid, news, TRUE)
<1>1. UNCHANGED streamVars /\ SetHub(h) /\ HubTypeOK'
  BY DEF EndMeeting, TypeOK
<1>2. news \in Events
  BY DEF Events, EventKinds
<1> HIDE DEF news
<1>3. \A m \in MeetingIds, s \in Subs :
         s \in h.listed[m] <=> s \in m_subscriptions[m] /\ m # mid
  BY <1>2, PublishEffect DEF Inv, Subscribed
<1>4. \A s \in Subs : h.events[s] =
         IF s \in m_subscriptions[mid] THEN Append(m_events[s], news) ELSE m_events[s]
  BY <1>2, PublishQueues DEF Inv, Subscribed
<1> HIDE DEF h
<1>5. \A m \in DOMAIN m_meetings \ {mid} : m_meetings'[m] = m_meetings[m]
  BY EndMeetingFacts DEF Inv
<1>6. \A m \in MeetingIds \ {mid} : m_subscriptions[m] # {} =>
         m_meetings'[m].participants = m_meetings[m].participants
  BY <1>5, OccupiedMeeting
<1>7. m_subscriptions'[mid] = {}
  BY <1>1, <1>3 DEF SetHub, HubTypeOK
<1>8. /\ \A m \in MeetingIds, s \in Subs :
            s \in m_subscriptions'[m] => s \in m_subscriptions[m]
      /\ \A s \in Subs : m_events'[s] =
            IF s \in m_subscriptions[mid] THEN Append(m_events[s], news) ELSE m_events[s]
  BY <1>1, <1>3, <1>4 DEF SetHub
<1> QED
  BY <1>1, <1>2, <1>6, <1>7, <1>8, PublishTracks DEF Inv

LEMMA LeaveReads ==
    ASSUME Inv, ReadInv, NEW mid \in MeetingIds, NEW user \in Users,
           LeaveMeeting(mid, user), TypeOK'
    PROVE  ReadInv'
<1> DEFINE p == m_meetings[mid].participants
           rest == EraseParticipant(p, user)
           ended == [kind |-> "MeetingEnded", trigger_user |-> user]
           left == [kind |-> "UserLeft", trigger_user |-> user]
           e == PublishEventLocked(Hub, mid, ended, TRUE)
           h == PublishEventLocked(Hub, mid, left, FALSE)
           k == CloseUserSubscriptionsLocked(h, mid, user)
<1>1. /\ UNCHANGED streamVars
      /\ HubTypeOK'
      /\ IF rest = << >> THEN SetHub(e) ELSE SetHub(k)
  BY DEF LeaveMeeting, TypeOK
<1>2. /\ ended \in Events /\ left \in Events
      /\ left.kind = "UserLeft" /\ left.trigger_user = user
  BY DEF Events, EventKinds
<1>3. /\ mid \in DOMAIN m_meetings
      /\ rest \in Seq(Users)
      /\ \A v : Contains(rest, v) <=> Contains(p, v) /\ v # user
      /\ m_meetings'[mid].participants = rest
      /\ \A m \in DOMAIN m_meetings \ {mid} : m_meetings'[m] = m_meetings[m]
  BY LeaveMeetingFacts DEF Inv
<1>4. p \in Seq(Users)
  BY <1>3, KnownMeeting DEF Inv
<1> HIDE DEF rest, ended, left
<1>5. \A m \in MeetingIds \ {mid} : m_subscriptions[m] # {} =>
         m_meetings'[m].participants = m_meetings[m].participants
  BY <1>3, OccupiedMeeting
<1>6. CASE rest = << >>
  <2>1. SetHub(e)
    BY <1>1, <1>6
  <2>2. \A m \in MeetingIds, s \in Subs :
           s \in e.listed[m] <=> s \in m_subscriptions[m] /\ m # mid
    BY <1>2, PublishEffect DEF Inv, Subscribed
  <2>3. \A s \in Subs : e.events[s] =
           IF s \in m_subscriptions[mid] THEN Append(m_events[s], ended) ELSE m_events[s]
    BY <1>2, PublishQueues DEF Inv, Subscribed
  <2> HIDE DEF e
  <2>4. m_subscriptions'[mid] = {}
    BY <1>1, <2>1, <2>2 DEF SetHub, HubTypeOK
  <2>5. /\ \A m \in MeetingIds, s \in Subs :
              s \in m_subscriptions'[m] => s \in m_subscriptions[m]
        /\ \A s \in Subs : m_events'[s] =
              IF s \in m_subscriptions[mid] THEN Append(m_events[s], ended) ELSE m_events[s]
    BY <2>1, <2>2, <2>3 DEF SetHub
  <2> QED
    BY <1>1, <1>2, <1>5, <2>4, <2>5, PublishTracks DEF Inv
<1>7. CASE rest # << >>
  <2>1. SetHub(k)
    BY <1>1, <1>7
  <2>2. /\ h \in Hubs
        /\ \A m \in MeetingIds, s \in Subs :
              s \in h.listed[m] <=> s \in m_subscriptions[m]
    BY <1>2, PublishEffect DEF Inv, Subscribed
  <2>3. \A s \in Subs : h.events[s] =
           IF s \in m_subscriptions[mid] THEN Append(m_events[s], left) ELSE m_events[s]
    BY <1>2, PublishQueues DEF Inv, Subscribed
  <2>4. \A s \in h.listed[mid] : Alive(s)
    BY <2>2 DEF Hubs, Inv, Subscribed, ListedIffOpen
  <2> HIDE DEF h
  <2>5. \A m \in MeetingIds, s \in Subs : s \in k.listed[m] => s \in h.listed[m]
    BY <2>2, <2>4, CloseEffect
  <2>6. k.events = h.events
    BY DEF CloseUserSubscriptionsLocked
  <2> HIDE DEF k
  <2>7. /\ \A m \in MeetingIds, s \in Subs :
              s \in m_subscriptions'[m] => s \in m_subscriptions[m]
        /\ \A s \in Subs : m_events'[s] =
              IF s \in m_subscriptions[mid] THEN Append(m_events[s], left) ELSE m_events[s]
    BY <2>1, <2>2, <2>3, <2>5, <2>6 DEF SetHub
  <2>8. ToSet(m_meetings'[mid].participants) = Replay(ToSet(p), left)
    <3>1. ToSet(rest) = ToSet(p) \ {user}
      BY <1>3, <1>4, ListedParticipants
    <3>2. Replay(ToSet(p), left) = ToSet(p) \ {user}
      BY <1>2 DEF Replay
    <3> QED
      BY <1>3, <3>1, <3>2
  <2> QED
    BY <1>1, <1>2, <1>5, <2>7, <2>8, PublishTracks DEF Inv
<1> QED
  BY <1>6, <1>7

\* A new stream starts from the present participants.
LEMMA SubscribeReads ==
    ASSUME Inv, ReadInv, NEW mid \in MeetingIds, NEW user \in Users, NEW s \in Subs,
           SubscribeMeetingEvents(s, mid, user), TypeOK'
    PROVE  ReadInv'
<1> DEFINE hub == CloseUserSubscriptionsLocked(Hub, mid, user)
           kept == {t \in hub.listed[mid] : Alive(t)}
<1>1. /\ stream[s] = "free"
      /\ SetHub([hub EXCEPT !.listed[mid] = kept \cup {s}])
      /\ stream' = [stream EXCEPT ![s] = "loop"]
      /\ view' = [view EXCEPT ![s] = ToSet(m_meetings[mid].participants)]
      /\ UNCHANGED <<m_meetings, in_hand>>
      /\ stream \in [Subs -> Stages] /\ view \in [Subs -> SUBSET Users]
      /\ HubTypeOK'
  BY DEF SubscribeMeetingEvents, meetingVars, Inv, TypeOK, StreamTypeOK
<1>2. /\ Hub \in Hubs /\ Hub.listed = m_subscriptions /\ Hub.events = m_events
  BY HubInHubs DEF Inv, TypeOK, Hub
<1>3. \A t \in Hub.listed[mid] : Alive(t)
  BY <1>2 DEF Hubs, Inv, Subscribed, ListedIffOpen
<1>4. /\ hub \in Hubs
      /\ \A m \in MeetingIds, t \in Subs : t \in hub.listed[m] => t \in m_subscriptions[m]
  BY <1>2, <1>3, CloseEffect
<1>5. hub.events = m_events
  BY <1>2 DEF CloseUserSubscriptionsLocked
<1> HIDE DEF hub
<1>6. /\ m_subscriptions' = [hub.listed EXCEPT ![mid] = kept \cup {s}]
      /\ m_events' = m_events
  BY <1>1, <1>4, <1>5 DEF SetHub, Hubs
<1>7. \A m \in MeetingIds, t \in Subs :
         t \in m_subscriptions'[m] => t \in m_subscriptions[m] \/ (t = s /\ m = mid)
  BY <1>4, <1>6 DEF Hubs
<1>8. in_hand[s] = << >> /\ m_events[s] = << >>
  BY <1>1 DEF ReadInv, HandInv
<1>9. HandInv'
  BY <1>1, <1>6, <1>8 DEF ReadInv, HandInv
<1>10. ASSUME NEW m \in MeetingIds, NEW t \in m_subscriptions'[m]
       PROVE  Tracks(m, t)'
  <2>1. t \in Subs
    BY <1>1, <1>10 DEF HubTypeOK
  <2>2. CASE t = s
    <3>1. m = mid
      BY <1>1, <1>7, <1>10, <2>1, <2>2 DEF Inv, Subscribed, ListedIffOpen, Alive, Running
    <3>2. view'[t] = ToSet(m_meetings[m].participants)
      BY <1>1, <2>2, <3>1
    <3>3. in_hand'[t] \o m_events'[t] = << >>
      BY <1>1, <1>6, <1>8, <2>2
    <3> QED
      BY <1>1, <3>2, <3>3, ReplayNothing DEF Tracks
  <2>3. CASE t # s
    <3>1. t \in m_subscriptions[m]
      BY <1>7, <1>10, <2>1, <2>3
    <3>2. Tracks(m, t)
      BY <3>1 DEF ReadInv
    <3> QED
      BY <1>1, <1>6, <2>1, <2>3, <3>2 DEF Tracks
  <2> QED
    BY <2>2, <2>3
<1> QED
  BY <1>9, <1>10 DEF ReadInv

\* A handler that pops, writes or only looks replays what it would have replayed.
LEMMA HandlerReads ==
    ASSUME Inv, ReadInv, NEW s \in Subs, StreamHandler(s), TypeOK'
    PROVE  ReadInv'
<1>1. /\ m_events \in [Subs -> Seq(Events)] /\ in_hand \in [Subs -> Seq(Events)]
      /\ stream \in [Subs -> Stages] /\ view \in [Subs -> SUBSET Users]
      /\ m_subscriptions \in [MeetingIds -> SUBSET Subs]
      /\ UNCHANGED m_meetings
  BY DEF Inv, TypeOK, HubTypeOK, StreamTypeOK, StreamHandler, CheckCancelled, WaitNext,
         WaitNextEmpty, CheckClosed, WriteEvent, WriteFails, UnsubscribeMeetingEvents,
         StreamStep, meetingVars
<1>2. \A t \in Subs \ {s} : /\ stream'[t] = stream[t] /\ in_hand'[t] = in_hand[t]
                            /\ m_events'[t] = m_events[t] /\ view'[t] = view[t]
  BY <1>1 DEF StreamHandler, CheckCancelled, WaitNext, WaitNextEmpty, CheckClosed,
              WriteEvent, WriteFails, UnsubscribeMeetingEvents, StreamStep, hubVars
<1>3. \A m \in MeetingIds, t \in Subs :
         t \in m_subscriptions'[m] => t \in m_subscriptions[m]
  <2>1. CASE UnsubscribeMeetingEvents(s)
    BY <1>1, <2>1 DEF UnsubscribeMeetingEvents
  <2>2. CASE UNCHANGED m_subscriptions
    BY <2>2
  <2> QED
    BY <2>1, <2>2 DEF StreamHandler, CheckCancelled, WaitNext, WaitNextEmpty, CheckClosed,
                      WriteEvent, WriteFails, hubVars
<1>4. /\ in_hand[s] = << >> \/ (stream[s] = "write" /\ in_hand[s] = <<in_hand[s][1]>>)
      /\ in_hand[s] \in Seq(Events) /\ m_events[s] \in Seq(Events)
  BY <1>1 DEF ReadInv, HandInv
<1> DEFINE Will == Replayed(view[s], in_hand[s] \o m_events[s])
           Holding == \/ in_hand'[s] = << >>
                      \/ stream'[s] = "write" /\ in_hand'[s] = <<in_hand'[s][1]>>
           Closed == \A m \in MeetingIds : s \notin m_subscriptions'[m]
           Same == \/ stream'[s] = "exit" \/ Closed
                   \/ stream[s] # "exit"
                      /\ Replayed(view'[s], in_hand'[s] \o m_events'[s]) = Will
<1>5. ASSUME CheckCancelled(s) \/ WaitNextEmpty(s) \/ CheckClosed(s)
      PROVE  Holding /\ stream'[s] # "free" /\ Same
  <2>1. /\ stream[s] \in {"loop", "wait", "check"}
        /\ stream'[s] \in {"wait", "check", "loop", "exit"}
        /\ UNCHANGED <<in_hand, m_events, view>>
    BY <1>1, <1>5 DEF CheckCancelled, WaitNextEmpty, CheckClosed, StreamStep, hubVars
  <2>2. Same
    BY <2>1
  <2>3. Holding /\ stream'[s] # "free"
    BY <1>4, <2>1
  <2> QED
    BY <2>2, <2>3
<1>6. ASSUME WaitNext(s)
      PROVE  Holding /\ stream'[s] # "free" /\ Same
  <2>1. /\ stream[s] = "wait" /\ stream'[s] = "write" /\ view'[s] = view[s]
        /\ m_events[s] # << >>
        /\ in_hand'[s] = <<Head(m_events[s])>> /\ m_events'[s] = Tail(m_events[s])
    BY <1>1, <1>6 DEF WaitNext, StreamStep
  <2>2. in_hand[s] = << >>
    BY <1>4, <2>1
  <2>3. in_hand[s] \o m_events[s] = in_hand'[s] \o m_events'[s]
    BY <1>4, <2>1, <2>2
  <2>4. Same
    BY <2>1, <2>3
  <2>5. Holding /\ stream'[s] # "free"
    BY <2>1
  <2> QED
    BY <2>4, <2>5
<1>7. ASSUME WriteEvent(s)
      PROVE  Holding /\ stream'[s] # "free" /\ Same
  <2> DEFINE news == in_hand[s][1]
  <2>1. /\ in_hand[s] # << >> /\ stream[s] = "write" /\ stream'[s] \in {"exit", "loop"}
        /\ view'[s] = Replay(view[s], news)
        /\ in_hand'[s] = << >> /\ m_events'[s] = m_events[s]
    BY <1>1, <1>7 DEF WriteEvent, StreamStep, hubVars
  <2>2. news \in Events /\ in_hand[s] = <<news>>
    BY <1>4, <2>1
  <2> HIDE DEF news
  <2>3. Will = Replayed(view'[s], m_events[s])
    BY <1>4, <2>1, <2>2, ReplayFirst
  <2>4. in_hand'[s] \o m_events'[s] = m_events[s]
    BY <1>4, <2>1
  <2>5. Same
    BY <2>1, <2>3, <2>4
  <2>6. Holding /\ stream'[s] # "free"
    BY <2>1
  <2> QED
    BY <2>5, <2>6
<1>8. ASSUME WriteFails(s)
      PROVE  Holding /\ stream'[s] # "free" /\ Same
  <2>1. stream'[s] = "exit" /\ in_hand'[s] = << >>
    BY <1>1, <1>8 DEF WriteFails, StreamStep
  <2> QED
    BY <2>1
<1>9. ASSUME UnsubscribeMeetingEvents(s)
      PROVE  Holding /\ stream'[s] # "free" /\ Same
  <2>1. /\ stream[s] = "exit" /\ stream'[s] = "done" /\ UNCHANGED in_hand
        /\ m_subscriptions' = [m_subscriptions EXCEPT ![sub_of[s].meeting] =
                                 {t \in @ : Alive(t) /\ t # s}]
    BY <1>1, <1>9 DEF UnsubscribeMeetingEvents, StreamStep
  <2>2. Closed
    <3> SUFFICES ASSUME NEW m \in MeetingIds PROVE s \notin m_subscriptions'[m]
      OBVIOUS
    <3>1. s \in m_subscriptions[m] => sub_of[s].meeting = m
      BY DEF Inv, Subscribed, ListedIffOpen
    <3> QED
      BY <1>1, <2>1, <3>1
  <2>3. Holding /\ stream'[s] # "free"
    BY <1>4, <2>1
  <2> QED
    BY <2>2, <2>3
<1>10. Holding /\ stream'[s] # "free" /\ Same
  <2> HIDE DEF Holding, Same
  <2> QED
    BY <1>5, <1>6, <1>7, <1>8, <1>9 DEF StreamHandler
<1>11. HandInv'
  BY <1>2, <1>10 DEF ReadInv, HandInv
<1>12. ASSUME NEW m \in MeetingIds, NEW t \in m_subscriptions'[m]
       PROVE  Tracks(m, t)'
  <2>1. t \in Subs /\ t \in m_subscriptions[m]
    BY <1>3, <1>12 DEF TypeOK, HubTypeOK
  <2>2. Tracks(m, t)
    BY <2>1 DEF ReadInv
  <2>3. CASE t = s
    BY <1>1, <1>10, <1>12, <2>2, <2>3 DEF Tracks
  <2>4. CASE t # s
    BY <1>1, <1>2, <2>1, <2>2, <2>4 DEF Tracks
  <2> QED
    BY <2>3, <2>4
<1> QED
  BY <1>11, <1>12 DEF ReadInv

LEMMA ReadStep ==
    ASSUME Inv, ReadInv, [Next]_vars, TypeOK'
    PROVE  ReadInv'
<1>1. CASE UNCHANGED <<m_meetings, m_events, m_subscriptions, stream, in_hand, view>>
  BY <1>1 DEF ReadInv, HandInv, Tracks
<1>2. ASSUME NEW user \in Users, UserRequest(user)
      PROVE  ReadInv'
  <2>1. ASSUME NEW password \in Passwords,
               RegisterUser(user, password) \/ LoginUser(user, password)
        PROVE  ReadInv'
    BY <1>1, <2>1 DEF RegisterUser, LoginUser, meetingVars, hubVars, streamVars
  <2>2. CASE CreateMeeting(user)
    BY <2>2, CreateReads
  <2>3. ASSUME NEW mid \in MeetingIds, JoinMeeting(mid, user)
        PROVE  ReadInv'
    BY <2>3, JoinReads
  <2>4. ASSUME NEW mid \in MeetingIds, LeaveMeeting(mid, user)
        PROVE  ReadInv'
    BY <2>4, LeaveReads
  <2>5. ASSUME NEW mid \in MeetingIds, EndMeeting(mid, user)
        PROVE  ReadInv'
    BY <2>5, EndReads
  <2>6. ASSUME NEW mid \in MeetingIds, NEW s \in Subs,
               SubscribeMeetingEvents(s, mid, user)
        PROVE  ReadInv'
    BY <2>6, SubscribeReads
  <2> QED
    BY <1>2, <2>1, <2>2, <2>3, <2>4, <2>5, <2>6 DEF UserRequest, AccountRequest
<1>3. ASSUME NEW s \in Subs, CancelStream(s)
      PROVE  ReadInv'
  BY <1>1, <1>3 DEF CancelStream, meetingVars, hubVars
<1>4. CASE UNCHANGED vars
  BY <1>1, <1>4 DEF vars, meetingVars, hubVars, streamVars
<1> QED
  BY <1>2, <1>3, <1>4, HandlerReads DEF Next

\* Whoever reads an open stream misses nothing, and sees nothing twice or out of
\* order, whatever requests and handlers interleave (PublishEventLocked, WaitNext,
\* and the loop of SubscribeMeetingEvents).
THEOREM ReadersKeepTrack == Spec => []OpenStreamTracksMeeting
<1>1. Init => ReadInv
  BY DEF Init, ReadInv, HandInv
<1>2. Inv /\ Inv' /\ ReadInv /\ [Next]_vars => ReadInv'
  BY ReadStep DEF Inv
<1> QED
  BY <1>1, <1>2, Invariant, ReadersTrack, PTL DEF Spec

-----------------------------------------------------------------------------
(* The meeting server implements the abstract roster, step by step.         *)

\* The empty store is the empty roster.
LEMMA InitMaps == Init => Roster!Init
  BY DEF Init, Roster!Init, MeetingStatus, MeetingIds, Roster!Meetings,
         NoMeeting, Roster!Nowhere

\* The status of a meeting changes only with its record.
LEMMA StatusOf ==
    ASSUME NEW mid \in MeetingIds
    PROVE  /\ MeetingStatus[mid] =
                IF mid \notin DOMAIN m_meetings THEN "unused"
                ELSE IF m_meetings[mid].active THEN "open" ELSE "over"
           /\ MeetingStatus'[mid] =
                IF mid \notin DOMAIN m_meetings' THEN "unused"
                ELSE IF m_meetings'[mid].active THEN "open" ELSE "over"
  BY DEF MeetingStatus

\* A step that changes one record changes the status of that meeting only.
LEMMA StatusExcept ==
    ASSUME NEW mid \in MeetingIds, NEW st,
           MeetingStatus'[mid] = st,
           \A m \in MeetingIds \ {mid} : MeetingStatus'[m] = MeetingStatus[m]
    PROVE  MeetingStatus' = [MeetingStatus EXCEPT ![mid] = st]
<1>1. MeetingStatus = [m \in MeetingIds |-> MeetingStatus[m]]
  BY DEF MeetingStatus
<1>2. MeetingStatus' = [m \in MeetingIds |-> MeetingStatus'[m]]
  BY DEF MeetingStatus
<1> QED
  BY <1>1, <1>2

\* CreateMeeting opens a meeting of the roster.
LEMMA CreateMaps ==
    ASSUME Inv, NEW user \in Users, CreateMeeting(user)
    PROVE  Roster!Open(user, m_next_meeting_number)
<1> DEFINE mid == m_next_meeting_number
<1>1. /\ mid \in MeetingIds
      /\ mid \notin DOMAIN m_meetings
      /\ m_user_meetings[user] = NoMeeting
      /\ DOMAIN m_meetings' = 1..mid
      /\ DOMAIN m_meetings = 1..(mid - 1)
      /\ m_meetings'[mid] = [creator |-> user, participants |-> <<user>>, active |-> TRUE]
      /\ \A m \in DOMAIN m_meetings : m_meetings'[m] = m_meetings[m]
      /\ m_user_meetings' = [m_user_meetings EXCEPT ![user] = mid]
  BY CreateMeetingFacts DEF Inv
<1>2. /\ DOMAIN m_meetings' = DOMAIN m_meetings \cup {mid}
      /\ m_meetings'[mid].active
  BY <1>1 DEF MeetingIds
<1> HIDE DEF mid
<1>3. /\ MeetingStatus[mid] = "unused"
      /\ MeetingStatus'[mid] = "open"
      /\ \A m \in MeetingIds \ {mid} : MeetingStatus'[m] = MeetingStatus[m]
  BY <1>1, <1>2, StatusOf
<1>4. MeetingStatus' = [MeetingStatus EXCEPT ![mid] = "open"]
  BY <1>1, <1>3, StatusExcept
<1> QED
  BY <1>1, <1>3, <1>4 DEF Roster!Open, Roster!Nowhere, NoMeeting, mid

\* JoinMeeting enters the user, or a retry leaves the roster alone.
LEMMA JoinMaps ==
    ASSUME Inv, NEW mid \in MeetingIds, NEW user \in Users, JoinMeeting(mid, user)
    PROVE  Roster!Enter(user, mid) \/ UNCHANGED Roster!rosterVars
<1>1. m_user_meetings' = [m_user_meetings EXCEPT ![user] = mid]
  BY DEF JoinMeeting
<1>2. CASE Contains(m_meetings[mid].participants, user)
  <2>1. m_meetings' = m_meetings /\ mid \in DOMAIN m_meetings
    BY <1>2, SuccessFacts DEF JoinMeeting
  <2>2. m_user_meetings[user] = mid
    BY <1>2, <2>1 DEF Inv, MembershipConsistent, IndexMatchesLists
  <2>3. m_user_meetings' = m_user_meetings
    BY <1>1, <2>2 DEF Inv, TypeOK, MeetingTypeOK
  <2> QED
    BY <2>1, <2>3 DEF MeetingStatus, Roster!rosterVars
<1>3. CASE ~Contains(m_meetings[mid].participants, user)
  <2>1. /\ mid \in DOMAIN m_meetings
        /\ m_user_meetings[user] = NoMeeting
        /\ DOMAIN m_meetings' = DOMAIN m_meetings
        /\ m_meetings[mid].active
        /\ m_meetings'[mid].active
        /\ \A m \in DOMAIN m_meetings \ {mid} : m_meetings'[m] = m_meetings[m]
    BY <1>3, JoinMeetingFacts DEF Inv
  <2>2. MeetingStatus[mid] = "open"
    BY <2>1, StatusOf
  <2>3. \A m \in MeetingIds : MeetingStatus'[m] = MeetingStatus[m]
    BY <2>1, StatusOf
  <2>4. MeetingStatus' = MeetingStatus
    BY <2>3 DEF MeetingStatus
  <2> QED
    BY <1>1, <2>1, <2>2, <2>4 DEF Roster!Enter, Roster!Nowhere, NoMeeting
<1> QED
  BY <1>2, <1>3

\* LeaveMeeting is a departure, the last one of which closes the meeting.
LEMMA LeaveMaps ==
    ASSUME Inv, NEW mid \in MeetingIds, NEW user \in Users, LeaveMeeting(mid, user)
    PROVE  Roster!Depart(user)
<1> DEFINE list == m_meetings[mid].participants
           rest == EraseParticipant(list, user)
<1>1. /\ mid \in DOMAIN m_meetings
      /\ m_user_meetings[user] = mid
      /\ m_meetings[mid].active
      /\ rest \in Seq(Users)
      /\ \A v : Contains(rest, v) <=> Contains(list, v) /\ v # user
      /\ DOMAIN m_meetings' = DOMAIN m_meetings
      /\ m_meetings'[mid].active = (rest # <<>>)
      /\ \A m \in DOMAIN m_meetings \ {mid} : m_meetings'[m] = m_meetings[m]
  BY LeaveMeetingFacts DEF Inv
<1>2. m_user_meetings' = [m_user_meetings EXCEPT ![user] = NoMeeting]
  BY DEF LeaveMeeting
<1>3. \A v \in Users : m_user_meetings[v] = mid <=> Contains(list, v)
  BY <1>1 DEF Inv, MembershipConsistent, IndexMatchesLists
<1> HIDE DEF list, rest
<1>4. rest = <<>> <=> ~ \E v \in Users \ {user} : m_user_meetings[v] = m_user_meetings[user]
  BY <1>1, <1>3, EmptyVector
<1>5. \A m \in MeetingIds \ {mid} : MeetingStatus'[m] = MeetingStatus[m]
  BY <1>1, StatusOf
<1>6. MeetingStatus[mid] = "open" /\ mid # Roster!Nowhere
  BY <1>1, StatusOf DEF MeetingIds, Roster!Nowhere
<1>7. CASE rest = <<>>
  <2>1. MeetingStatus'[mid] = "over"
    BY <1>1, <1>7, StatusOf
  <2>2. MeetingStatus' = [MeetingStatus EXCEPT ![mid] = "over"]
    BY <1>5, <2>1, StatusExcept
  <2> QED
    BY <1>1, <1>2, <1>4, <1>6, <1>7, <2>2
       DEF Roster!Depart, Roster!Nowhere, NoMeeting
<1>8. CASE rest # <<>>
  <2>1. MeetingStatus'[mid] = MeetingStatus[mid]
    BY <1>1, <1>6, <1>8, StatusOf
  <2>2. MeetingStatus' = MeetingStatus
    BY <1>5, <2>1 DEF MeetingStatus
  <2> QED
    BY <1>1, <1>2, <1>4, <1>6, <1>8, <2>2
       DEF Roster!Depart, Roster!Nowhere, NoMeeting
<1> QED
  BY <1>7, <1>8

\* EndMeeting dissolves the meeting.
LEMMA EndMaps ==
    ASSUME Inv, NEW mid \in MeetingIds, NEW user \in Users, EndMeeting(mid, user)
    PROVE  Roster!Dissolve(mid)
<1>1. /\ mid \in DOMAIN m_meetings
      /\ m_meetings[mid].active
      /\ DOMAIN m_meetings' = DOMAIN m_meetings
      /\ ~m_meetings'[mid].active
      /\ \A m \in DOMAIN m_meetings \ {mid} : m_meetings'[m] = m_meetings[m]
  BY EndMeetingFacts DEF Inv
<1>2. m_user_meetings' = [u \in Users |->
                            IF Contains(m_meetings[mid].participants, u)
                            THEN NoMeeting ELSE m_user_meetings[u]]
  BY DEF EndMeeting
<1>3. \A u \in Users : m_user_meetings[u] = mid
                         <=> Contains(m_meetings[mid].participants, u)
  BY <1>1 DEF Inv, MembershipConsistent, IndexMatchesLists
<1>4. m_user_meetings' = [u \in Users |-> IF m_user_meetings[u] = mid
                                          THEN NoMeeting ELSE m_user_meetings[u]]
  BY <1>2, <1>3
<1>5. /\ MeetingStatus[mid] = "open"
      /\ MeetingStatus'[mid] = "over"
      /\ \A m \in MeetingIds \ {mid} : MeetingStatus'[m] = MeetingStatus[m]
  BY <1>1, StatusOf
<1>6. MeetingStatus' = [MeetingStatus EXCEPT ![mid] = "over"]
  BY <1>5, StatusExcept
<1> QED
  BY <1>4, <1>5, <1>6 DEF Roster!Dissolve, Roster!Nowhere, NoMeeting

\* Every step of the server is a step of the roster or leaves it alone.
LEMMA StepMaps ==
    ASSUME Inv, [Next]_vars
    PROVE  [Roster!Next]_(Roster!rosterVars)
<1> USE DEF Roster!Meetings, MeetingIds
<1>1. ASSUME UNCHANGED <<m_meetings, m_user_meetings>>
      PROVE  UNCHANGED Roster!rosterVars
  BY <1>1 DEF Roster!rosterVars, MeetingStatus
<1>2. ASSUME NEW user \in Users, UserRequest(user)
      PROVE  Roster!Next \/ UNCHANGED Roster!rosterVars
  <2>1. CASE CreateMeeting(user)
    <3>1. m_next_meeting_number \in 1..MaxMeetings
      BY <2>1, CreateMeetingFacts DEF Inv
    <3> QED
      BY <2>1, <3>1, CreateMaps DEF Roster!Next
  <2>2. ASSUME NEW mid \in 1..MaxMeetings, JoinMeeting(mid, user)
        PROVE  Roster!Next \/ UNCHANGED Roster!rosterVars
    BY <2>2, JoinMaps DEF Roster!Next
  <2>3. ASSUME NEW mid \in 1..MaxMeetings, LeaveMeeting(mid, user)
        PROVE  Roster!Next
    BY <2>3, LeaveMaps DEF Roster!Next
  <2>4. ASSUME NEW mid \in 1..MaxMeetings, EndMeeting(mid, user)
        PROVE  Roster!Next
    BY <2>4, EndMaps DEF Roster!Next
  <2>5. ASSUME NEW mid \in 1..MaxMeetings, NEW s \in Subs,
               SubscribeMeetingEvents(s, mid, user)
        PROVE  UNCHANGED Roster!rosterVars
    BY <1>1, <2>5 DEF SubscribeMeetingEvents, meetingVars
  <2>6. ASSUME NEW password \in Passwords,
               RegisterUser(user, password) \/ LoginUser(user, password)
        PROVE  UNCHANGED Roster!rosterVars
    BY <1>1, <2>6 DEF RegisterUser, LoginUser, meetingVars
  <2> QED
    BY <1>2, <2>1, <2>2, <2>3, <2>4, <2>5, <2>6 DEF UserRequest, AccountRequest
<1>3. ASSUME NEW s \in Subs, CancelStream(s) \/ StreamHandler(s)
      PROVE  UNCHANGED Roster!rosterVars
  BY <1>1, <1>3 DEF CancelStream, StreamHandler, StreamStep, CheckCancelled,
                    WaitNext, WaitNextEmpty, CheckClosed, WriteEvent, WriteFails,
                    UnsubscribeMeetingEvents, meetingVars
<1>4. CASE UNCHANGED vars
  BY <1>1, <1>4 DEF vars, meetingVars
<1> QED
  BY <1>2, <1>3, <1>4 DEF Next

\* The server keeps the roster's promises: its store operations map to roster
\* steps, everything else to a stutter.
THEOREM Refinement == Spec => ImplementsRoster
<1>1. Init => Roster!Init
  BY InitMaps
<1>2. Inv /\ [Next]_vars => [Roster!Next]_(Roster!rosterVars)
  BY StepMaps
<1> QED
  BY Invariant, <1>1, <1>2, PTL DEF Spec, ImplementsRoster, Roster!Spec

-----------------------------------------------------------------------------
(* The order.                                                               *)

LEMMA BeforeIsAnOrder ==
    ASSUME NEW meetings, Lists(meetings),
           NEW a \in DOMAIN meetings, NEW b \in DOMAIN meetings,
           NEW c \in DOMAIN meetings
    PROVE  /\ ~Before(meetings, a, a)
           /\ a # b => Before(meetings, a, b) \/ Before(meetings, b, a)
           /\ Before(meetings, a, b) /\ Before(meetings, b, c) => Before(meetings, a, c)
<1> DEFINE t == [id \in DOMAIN meetings |-> meetings[id].start_time]
<1>1. {a, b, c} \subseteq ListedIds
  BY DEF Lists
<1>2. t[a] \in Nat /\ t[b] \in Nat /\ t[c] \in Nat
  BY DEF Lists, ListedRecords
<1>3. \A x, y \in {a, b, c} :
         Before(meetings, x, y) <=> IF t[x] # t[y] THEN t[x] > t[y] ELSE LaterId(x, y)
  BY DEF Before
<1> HIDE DEF t
<1>4. ~Before(meetings, a, a)
  BY <1>1, <1>3, ListAssumption DEF ListAssumption
<1>5. a # b => Before(meetings, a, b) \/ Before(meetings, b, a)
  BY <1>1, <1>2, <1>3, ListAssumption DEF ListAssumption
<1>6. Before(meetings, a, b) /\ Before(meetings, b, c) => Before(meetings, a, c)
  BY <1>1, <1>2, <1>3, ListAssumption DEF ListAssumption
<1> QED
  BY <1>4, <1>5, <1>6

LEMMA AheadIsFinite ==
    ASSUME NEW meetings, Lists(meetings), NEW id \in DOMAIN meetings
    PROVE  /\ IsFiniteSet(Ahead(meetings, id))
           /\ Index(meetings, id) \in Nat
           /\ TotalCount(meetings) \in Nat
           /\ Index(meetings, id) < TotalCount(meetings)
<1>1. Ahead(meetings, id) \in SUBSET DOMAIN meetings /\ IsFiniteSet(DOMAIN meetings)
  BY DEF Ahead, Lists
<1>2. id \notin Ahead(meetings, id)
  BY BeforeIsAnOrder DEF Ahead
<1>3. Ahead(meetings, id) # DOMAIN meetings
  BY <1>2
<1>4. IsFiniteSet(Ahead(meetings, id))
  BY <1>1, FS_Subset
<1>5. Cardinality(Ahead(meetings, id)) \in Nat /\ Cardinality(DOMAIN meetings) \in Nat
  BY <1>1, <1>4, FS_CardinalityType
<1>6. /\ Cardinality(Ahead(meetings, id)) <= Cardinality(DOMAIN meetings)
      /\ Cardinality(Ahead(meetings, id)) # Cardinality(DOMAIN meetings)
  BY <1>1, <1>3, FS_Subset
<1> QED
  BY <1>4, <1>5, <1>6 DEF Index, TotalCount

\* Who is before another meeting has a smaller index.
LEMMA IndexFollowsOrder ==
    ASSUME NEW meetings, Lists(meetings),
           NEW a \in DOMAIN meetings, NEW b \in DOMAIN meetings,
           Before(meetings, a, b)
    PROVE  Index(meetings, a) < Index(meetings, b)
<1>1. Ahead(meetings, a) \in SUBSET Ahead(meetings, b)
  BY BeforeIsAnOrder DEF Ahead
<1>2. a \in Ahead(meetings, b) /\ a \notin Ahead(meetings, a)
  BY BeforeIsAnOrder DEF Ahead
<1>3. /\ Index(meetings, a) <= Index(meetings, b)
      /\ Index(meetings, a) # Index(meetings, b)
  BY <1>1, <1>2, AheadIsFinite, FS_Subset DEF Index
<1> QED
  BY <1>3, AheadIsFinite

-----------------------------------------------------------------------------
(* The list.                                                                *)

\* Every index is that of exactly one meeting: the list shows each once.
LEMMA IndicesAreTaken ==
    ASSUME NEW meetings, Lists(meetings)
    PROVE  /\ \A a, b \in DOMAIN meetings :
                 Index(meetings, a) = Index(meetings, b) => a = b
           /\ \A i \in 0 .. TotalCount(meetings) - 1 :
                 \E id \in DOMAIN meetings : Index(meetings, id) = i
<1> DEFINE n == TotalCount(meetings)
           f == [id \in DOMAIN meetings |-> Index(meetings, id)]
<1>1. n \in Nat /\ IsFiniteSet(DOMAIN meetings)
  BY FS_CardinalityType DEF TotalCount, Lists
<1>2. ASSUME NEW a \in DOMAIN meetings, NEW b \in DOMAIN meetings,
             Index(meetings, a) = Index(meetings, b), a # b
      PROVE  FALSE
  <2>1. Before(meetings, a, b) \/ Before(meetings, b, a)
    BY <1>2, BeforeIsAnOrder
  <2> QED
    BY <1>2, <2>1, IndexFollowsOrder, AheadIsFinite
<1>3. f \in [DOMAIN meetings -> 0 .. n - 1]
  BY <1>1, AheadIsFinite
<1>4. f \in Injection(DOMAIN meetings, 0 .. n - 1)
  <2>1. ASSUME NEW a \in DOMAIN meetings, NEW b \in DOMAIN meetings, f[a] = f[b] PROVE a = b
    BY <1>2, <2>1
  <2> HIDE DEF f
  <2> QED
    BY <1>3, <2>1 DEF Injection, IsInjective
<1>5. IsFiniteSet(0 .. n - 1) /\ Cardinality(0 .. n - 1) = n
  BY <1>1, FS_Interval
<1>6. Cardinality(DOMAIN meetings) = Cardinality(0 .. n - 1)
  BY <1>5 DEF TotalCount
<1>7. f \in Surjection(DOMAIN meetings, 0 .. n - 1)
  BY <1>4, <1>5, <1>6, FS_Injection
<1>8. \A i \in 0 .. n - 1 : \E id \in DOMAIN meetings : f[id] = i
  BY <1>7 DEF Surjection
<1> QED
  BY <1>2, <1>8

LEMMA ListEntry ==
    ASSUME NEW meetings, Lists(meetings), NEW i \in 1 .. TotalCount(meetings)
    PROVE  /\ OrderedMeetings(meetings)[i] \in DOMAIN meetings
           /\ Index(meetings, OrderedMeetings(meetings)[i]) = i - 1
<1>1. TotalCount(meetings) \in Nat
  BY FS_CardinalityType DEF TotalCount, Lists
<1>2. \E id \in DOMAIN meetings : Index(meetings, id) = i - 1
  BY <1>1, IndicesAreTaken
<1> QED
  BY <1>2 DEF OrderedMeetings

-----------------------------------------------------------------------------
(* The pages.                                                               *)

LEMMA ProductOrdered ==
    ASSUME NEW a \in Int, NEW b \in Int, NEW size \in Nat \ {0}
    PROVE  /\ a <= b => a * size <= b * size
           /\ a < b => a * size + size <= b * size
           /\ (a - 1) * size = a * size - size
<1>1. a <= b => a * size <= b * size
  BY SMT
<1>2. a < b => (a + 1) * size <= b * size
  BY SMT
<1>3. (a + 1) * size = a * size + size /\ (a - 1) * size = a * size - size
  BY SMT
<1> QED
  BY <1>1, <1>2, <1>3

LEMMA PageQuotient ==
    ASSUME NEW a \in Nat, NEW b \in Nat \ {0}
    PROVE  /\ a \div b \in Nat
           /\ (a \div b) * b <= a
           /\ a < (a \div b) * b + b
BY SMT

\* A page shows the meetings whose index is on it, and no others.
LEMMA PageShows ==
    ASSUME NEW meetings, Lists(meetings), NEW size \in Nat \ {0},
           NEW number \in Nat \ {0}, NEW id \in DOMAIN meetings
    PROVE  id \in Range(Page(meetings, size, number)) <=>
               /\ FirstIndex(size, number) <= Index(meetings, id)
               /\ Index(meetings, id) < FirstIndex(size, number) + size
<1> DEFINE n == TotalCount(meetings)
           first == FirstIndex(size, number)
           last == LastIndex(meetings, size, number)
           x == Index(meetings, id)
           page == Page(meetings, size, number)
<1>1. n \in Nat /\ x \in Nat /\ x < n
  BY AheadIsFinite
<1>2. first \in Nat
  <2>1. number - 1 \in Nat
    OBVIOUS
  <2> QED
    BY <2>1, SMT DEF FirstIndex
<1>3. /\ last \in Nat
      /\ last = IF first + size <= n THEN first + size ELSE n
  BY <1>1, <1>2 DEF LastIndex
<1>4. CASE first >= n
  <2>1. Range(page) = {}
    BY <1>4 DEF Page, Range
  <2> QED
    BY <1>1, <1>2, <1>4, <2>1
<1>5. CASE first < n
  <2>1. page = [i \in 1 .. last - first |-> OrderedMeetings(meetings)[first + i]]
    BY <1>1, <1>2, <1>5 DEF Page
  <2>2. \A i \in 1 .. last - first : first + i \in 1 .. n
    BY <1>1, <1>2, <1>3
  <2> HIDE DEF n, first, last, x, page
  <2>3. ASSUME id \in Range(page)
        PROVE  first <= x /\ x < first + size
    <3>1. PICK i \in 1 .. last - first : id = OrderedMeetings(meetings)[first + i]
      BY <2>1, <2>3 DEF Range
    <3>2. first + i \in 1 .. n
      BY <2>2
    <3>3. x = (first + i) - 1
      BY <3>1, <3>2, ListEntry DEF n, x
    <3> QED
      BY <1>1, <1>2, <1>3, <3>3
  <2>4. ASSUME first <= x, x < first + size
        PROVE  id \in Range(page)
    <3>1. x + 1 - first \in 1 .. last - first
      BY <1>1, <1>2, <1>3, <2>4
    <3>2. page[x + 1 - first] = OrderedMeetings(meetings)[x + 1]
      <4>1. first + (x + 1 - first) = x + 1
        BY <1>1, <1>2
      <4> QED
        BY <2>1, <3>1, <4>1
    <3>3. x + 1 \in 1 .. n
      BY <1>1
    <3>4. OrderedMeetings(meetings)[x + 1] = id
      <4>1. Index(meetings, OrderedMeetings(meetings)[x + 1]) = x
        BY <1>1, <3>3, ListEntry DEF n
      <4> QED
        BY <3>3, <4>1, ListEntry, IndicesAreTaken DEF n, x
    <3> QED
      BY <2>1, <3>1, <3>2, <3>4 DEF Range
  <2> QED
    BY <2>3, <2>4 DEF first, x, page
<1> QED
  BY <1>1, <1>2, <1>4, <1>5

\* Every meeting is on exactly one page of those the answer counts, wherever the
\* last page begins and however many meetings start at the same time.
THEOREM EachOnOnePage ==
    ASSUME NEW meetings, Lists(meetings), NEW size \in Nat \ {0},
           NEW id \in DOMAIN meetings
    PROVE  \E number \in 1 .. TotalPages(meetings, size) :
               /\ id \in Range(Page(meetings, size, number))
               /\ \A other \in Nat \ {0} :
                     id \in Range(Page(meetings, size, other)) => other = number
<1> DEFINE n == TotalCount(meetings)
           x == Index(meetings, id)
           q == x \div size
           total == TotalPages(meetings, size)
<1>1. n \in Nat /\ x \in Nat /\ x < n
  BY AheadIsFinite
<1>2. q \in Nat /\ q * size <= x /\ x < q * size + size
  BY <1>1, PageQuotient
<1>3. total = (n + size - 1) \div size
  BY <1>1 DEF TotalPages
<1>4. total \in Nat /\ n + size - 1 < total * size + size
  <2> DEFINE a == n + size - 1
  <2>1. a \in Nat
    BY <1>1
  <2> HIDE DEF a
  <2>2. a \div size \in Nat /\ a < (a \div size) * size + size
    BY <2>1, PageQuotient
  <2>3. total = a \div size
    BY <1>3 DEF a
  <2>4. a < total * size + size
    BY <2>2, <2>3
  <2> QED
    BY <2>2, <2>3, <2>4 DEF a
<1> HIDE DEF n, x, q, total
<1>5. q < total
  <2>1. q * size < total * size
    BY <1>1, <1>2, <1>4
  <2> QED
    BY <1>2, <1>4, <2>1, ProductOrdered
<1>6. FirstIndex(size, q + 1) = q * size
  BY <1>2 DEF FirstIndex
<1>7. id \in Range(Page(meetings, size, q + 1))
  BY <1>2, <1>6, PageShows DEF x
<1>8. ASSUME NEW other \in Nat \ {0}, id \in Range(Page(meetings, size, other))
      PROVE  other = q + 1
  <2> DEFINE p == other - 1
  <2>1. p \in Nat /\ p * size <= x /\ x < p * size + size
    BY <1>8, PageShows DEF FirstIndex, x
  <2> HIDE DEF p
  <2>2. ~(p < q) /\ ~(q < p)
    BY <1>1, <1>2, <2>1, ProductOrdered
  <2> QED
    BY <1>2, <2>1, <2>2 DEF p
<1> QED
  BY <1>2, <1>4, <1>5, <1>7, <1>8 DEF total

\* A reader who goes from page to page skips no meeting: whatever is created and
\* ended between two requests, a meeting of the older list is on no earlier page
\* of the newer one.  It may only be seen twice.
THEOREM NothingSkipped ==
    ASSUME NEW before, Lists(before), NEW after, Lists(after), Grows(before, after),
           NEW size \in Nat \ {0}, NEW old \in Nat \ {0}, NEW new \in Nat \ {0},
           NEW id \in DOMAIN before,
           id \in Range(Page(before, size, old)), id \in Range(Page(after, size, new))
    PROVE  old <= new
<1> DEFINE x == Index(before, id)
           y == Index(after, id)
<1>1. id \in DOMAIN after
  BY DEF Grows
<1>2. Ahead(before, id) \in SUBSET Ahead(after, id)
  BY DEF Ahead, Before, Grows
<1>3. x \in Nat /\ y \in Nat /\ x <= y
  BY <1>1, <1>2, AheadIsFinite, FS_Subset DEF Index
<1>4. (old - 1) * size <= x
  BY PageShows DEF FirstIndex
<1>5. y < (new - 1) * size + size
  BY <1>1, PageShows DEF FirstIndex
<1> HIDE DEF x, y
<1>6. (old - 1) * size \in Int /\ (new - 1) * size \in Int
  BY SMT
<1>7. (old - 1) * size < (new - 1) * size + size
  BY <1>3, <1>4, <1>5, <1>6
<1>8. ~(new - 1 < old - 1)
  BY <1>6, <1>7, ProductOrdered
<1> QED
  BY <1>8

-----------------------------------------------------------------------------
(* The server under the steps of the client.                                *)

\* The server's invariants, and that everybody stays logged in.
ServerInv == Inv /\ ReadInv /\ m_logged_in_users = Users

\* A call is cancelled by the client.
Cancels ==
    /\ cancelled' \in [Subs -> BOOLEAN]
    /\ UNCHANGED <<userVars, meetingVars, hubVars, sub_of, stream, in_hand, view>>

\* A call never becomes a stream.
Refuses ==
    /\ \E s \in Subs : stream[s] = "free" /\ stream' = [stream EXCEPT ![s] = "done"]
    /\ UNCHANGED <<userVars, meetingVars, hubVars, sub_of, in_hand, cancelled, view>>

\* What the client does to its calls leaves the store alone.
LEMMA CancelsServer ==
    ASSUME ServerInv, Cancels
    PROVE  ServerInv'
<1> USE DEF Cancels, userVars, meetingVars, hubVars
<1>1. TypeOK'
  BY DEF ServerInv, Inv, TypeOK, MeetingTypeOK, HubTypeOK, StreamTypeOK
<1>2. MembershipConsistent'
  BY DEF ServerInv, Inv, MembershipConsistent, IndexMatchesLists,
         NoDuplicateParticipant, ActiveIffOccupied
<1>3. Subscribed'
  BY DEF ServerInv, Inv, Subscribed, ListedIffOpen, OneOpenStreamPerParticipant,
         UnusedIsOpen, Alive
<1>4. ReadInv'
  <2>1. HandInv'
    BY DEF ServerInv, ReadInv, HandInv
  <2>2. ASSUME NEW m \in MeetingIds, NEW s \in m_subscriptions[m]
        PROVE  Tracks(m, s)'
    BY DEF ServerInv, ReadInv, Tracks
  <2> QED
    BY <2>1, <2>2 DEF ReadInv
<1> QED
  BY <1>1, <1>2, <1>3, <1>4 DEF ServerInv, Inv

LEMMA RefusesServer ==
    ASSUME ServerInv, Refuses
    PROVE  ServerInv'
<1> USE DEF Refuses, userVars, meetingVars, hubVars
<1>1. PICK s \in Subs : stream[s] = "free" /\ stream' = [stream EXCEPT ![s] = "done"]
  BY DEF Refuses
<1>2. TypeOK'
  BY <1>1 DEF ServerInv, Inv, TypeOK, MeetingTypeOK, HubTypeOK, StreamTypeOK, Stages
<1>3. MembershipConsistent'
  BY DEF ServerInv, Inv, MembershipConsistent, IndexMatchesLists,
         NoDuplicateParticipant, ActiveIffOccupied
<1>4. \A t \in Subs : Alive(t)' <=> Alive(t)
  BY <1>1 DEF Alive, Running, ServerInv, Inv, TypeOK, StreamTypeOK
<1>5. Subscribed'
  <2>1. ListedIffOpen'
    BY <1>4 DEF ServerInv, Inv, Subscribed, ListedIffOpen
  <2>2. OneOpenStreamPerParticipant'
    BY DEF ServerInv, Inv, Subscribed, OneOpenStreamPerParticipant
  <2>3. UnusedIsOpen'
    BY <1>1 DEF ServerInv, Inv, Subscribed, UnusedIsOpen, TypeOK, StreamTypeOK
  <2> QED
    BY <2>1, <2>2, <2>3 DEF Subscribed
<1>6. ReadInv'
  <2>1. HandInv'
    BY <1>1 DEF ServerInv, Inv, ReadInv, HandInv, TypeOK, StreamTypeOK
  <2>2. ASSUME NEW m \in MeetingIds, NEW t \in m_subscriptions[m]
        PROVE  Tracks(m, t)'
    <3>1. t \in Subs /\ Alive(t)
      BY DEF ServerInv, Inv, Subscribed, ListedIffOpen, TypeOK, HubTypeOK
    <3>2. t # s
      BY <1>1, <3>1 DEF Alive, Running
    <3>3. stream'[t] = stream[t]
      BY <1>1, <3>1, <3>2 DEF ServerInv, Inv, TypeOK, StreamTypeOK
    <3> QED
      BY <3>3 DEF ServerInv, ReadInv, Tracks
  <2> QED
    BY <2>1, <2>2 DEF ReadInv
<1> QED
  BY <1>2, <1>3, <1>5, <1>6 DEF ServerInv, Inv

LEMMA StoreServer ==
    ASSUME ServerInv, [Next]_vars, m_logged_in_users' = m_logged_in_users
    PROVE  ServerInv'
<1>1. Inv'
  BY TypeStep, MembershipStep, SubscribedStep DEF ServerInv, Inv
<1>2. ReadInv'
  BY <1>1, ReadStep DEF ServerInv, Inv
<1> QED
  BY <1>1, <1>2 DEF ServerInv

\* A request is a step of the server.
LEMMA RequestIsNext ==
    ASSUME ServerInv, NEW mid, NEW user \in Users,
           \/ CreateMeeting(user)
           \/ mid \in MeetingIds /\ JoinMeeting(mid, user)
           \/ LeaveMeeting(mid, user)
           \/ EndMeeting(mid, user)
           \/ \E s \in Subs : SubscribeMeetingEvents(s, mid, user)
    PROVE  Next /\ m_logged_in_users' = m_logged_in_users
<1>1. ASSUME ParticipantError(mid, user) = "kSuccess" \/ EndError(mid, user) = "kSuccess"
      PROVE  mid \in MeetingIds
  <2>1. mid \in DOMAIN m_meetings
    BY <1>1, SuccessFacts
  <2> QED
    BY <2>1, KnownMeeting DEF ServerInv, Inv
<1>2. CASE CreateMeeting(user)
  BY <1>2 DEF Next, UserRequest, CreateMeeting, userVars
<1>3. CASE mid \in MeetingIds /\ JoinMeeting(mid, user)
  BY <1>3 DEF Next, UserRequest, JoinMeeting, userVars
<1>4. CASE LeaveMeeting(mid, user)
  <2>1. mid \in MeetingIds
    BY <1>1, <1>4 DEF LeaveMeeting
  <2> QED
    BY <1>4, <2>1 DEF Next, UserRequest, LeaveMeeting, userVars
<1>5. CASE EndMeeting(mid, user)
  <2>1. mid \in MeetingIds
    BY <1>1, <1>5 DEF EndMeeting
  <2> QED
    BY <1>5, <2>1 DEF Next, UserRequest, EndMeeting, userVars
<1>6. CASE \E s \in Subs : SubscribeMeetingEvents(s, mid, user)
  <2>1. PICK s \in Subs : SubscribeMeetingEvents(s, mid, user)
    BY <1>6
  <2>2. mid \in MeetingIds
    BY <1>1, <2>1 DEF SubscribeMeetingEvents
  <2>3. UserRequest(user)
    BY <2>1, <2>2 DEF UserRequest
  <2>4. m_logged_in_users' = m_logged_in_users
    BY <2>1 DEF SubscribeMeetingEvents, userVars
  <2> QED
    BY <2>3, <2>4 DEF Next
<1> QED
  BY <1>2, <1>3, <1>4, <1>5, <1>6


\* The steps of the client that leave the server alone.
LEMMA LocalUi ==
    ASSUME \/ SetRoomInfo \/ CheckParticipant \/ SubscribeParticipant
           \/ NotifyParticipants \/ EnterConference \/ UndoMedia \/ StartThread
           \/ DeliverNotice \/ FinishExit("cleanup", "lobby")
           \/ JoinThread("join_old", "start") \/ JoinThread("undo_join", "lobby")
           \/ JoinThread("join", "cleanup")
    PROVE  UNCHANGED vars
BY DEF SetRoomInfo, CheckParticipant, SubscribeParticipant, NotifyParticipants,
       EnterConference, UndoMedia, StartThread, DeliverNotice, FinishExit, JoinThread

LEMMA LocalThread ==
    ASSUME \/ LoopEvents \/ ReadEvent \/ ReadFails \/ HandleMeetingEvent
           \/ CheckJoined \/ SubscribeJoined \/ UnsubscribeLeft \/ CleanupEnded
           \/ Notify \/ FinishCall
    PROVE  UNCHANGED vars
BY DEF LoopEvents, ReadEvent, ReadFails, HandleMeetingEvent, CheckJoined,
   SubscribeJoined,
       UnsubscribeLeft, CleanupEnded, Notify, FinishCall

LEMMA StopCancels ==
    ASSUME ServerInv, NEW from, NEW to, StopThread(from, to)
    PROVE  Cancels
<1>1. cancelled' \in [Subs -> BOOLEAN]
  <2>1. cancelled' = [s \in Subs |-> cancelled[s] \/ s = call]
    BY DEF StopThread
  <2> QED
    BY <2>1, Zenon
<1> QED
  BY <1>1 DEF StopThread, Cancels

LEMMA RequestByMe ==
    ASSUME ServerInv, LeaveMeeting(ui_meeting, Me) \/ EndMeeting(ui_meeting, Me)
    PROVE  Next /\ m_logged_in_users' = m_logged_in_users
  BY RequestIsNext, ConferenceClientAssumption

\* Every step of the composition keeps the invariants of the store.
LEMMA ServerStep ==
    ASSUME ServerInv, [ClientNext]_allVars
    PROVE  ServerInv'
<1>1. ASSUME UNCHANGED vars PROVE ServerInv'
  <2>1. m_logged_in_users' = m_logged_in_users
    BY <1>1 DEF vars, userVars
  <2> QED
    BY <1>1, <2>1, StoreServer
<1>2. ASSUME Next /\ m_logged_in_users' = m_logged_in_users PROVE ServerInv'
  BY <1>2, StoreServer
<1> HIDE DEF ServerInv, vars, Next
<1>3. CASE CreateRpc
  <2>1. CreateMeeting(Me)
    BY <1>3 DEF CreateRpc
  <2> QED
    BY <1>2, <2>1, RequestIsNext, ConferenceClientAssumption
<1>4. CASE JoinRpc
  <2>1. PICK mid \in MeetingIds : JoinMeeting(mid, Me)
    BY <1>4 DEF JoinRpc
  <2> QED
    BY <1>2, <2>1, RequestIsNext, ConferenceClientAssumption
<1>5. CASE ExitClick \/ AbandonMeeting \/ UndoLeave
  <2>1. \/ LeaveMeeting(ui_meeting, Me) \/ EndMeeting(ui_meeting, Me)
        \/ UNCHANGED vars
    <3> HIDE DEF LeaveMeeting, EndMeeting
    <3> QED
      BY <1>5 DEF ExitClick, AbandonMeeting, UndoLeave, ExitRpc, ExitRequest
  <2> QED
    BY <1>1, <1>2, <2>1, RequestByMe
<1>6. CASE UiWork
  <2>1. CASE \/ StopThread("stop_old", "join_old") \/ StopThread("undo_stop", "undo_join")
             \/ StopThread("stop", "join")
    BY <2>1, StopCancels, CancelsServer
  <2> QED
    BY <1>1, <1>5, <1>6, <2>1, LocalUi DEF UiWork, UiEnter, UiUndo, UiExit
<1>7. CASE EventThread
  <2>1. CASE StopItself
    <3>1. cancelled' \in [Subs -> BOOLEAN]
      BY <2>1 DEF StopItself, ServerInv, Inv, TypeOK, StreamTypeOK
    <3>2. Cancels
      BY <2>1, <3>1 DEF StopItself, Cancels
    <3> QED
      BY <3>2, CancelsServer
  <2> QED
    BY <1>1, <1>7, <2>1, LocalThread DEF EventThread
<1>8. ASSUME NEW s \in Subs, Server(s) PROVE ServerInv'
  <2>1. CASE AcceptCall(s)
    <3>1. SubscribeMeetingEvents(s, asked[s], Me)
      BY <2>1 DEF AcceptCall
    <3> QED
      BY <1>2, <3>1, RequestIsNext, ConferenceClientAssumption
  <2>2. CASE RefuseCall(s)
    <3>1. Refuses
      BY <2>2 DEF RefuseCall, Refuses
    <3> QED
      BY <3>1, RefusesServer
  <2>3. CASE BreakCall(s)
    <3>1. CancelStream(s)
      BY <2>3 DEF BreakCall
    <3>2. m_logged_in_users' = m_logged_in_users
      BY <3>1 DEF CancelStream, userVars
    <3> QED
      BY <1>2, <3>1, <3>2 DEF Next
  <2>4. CASE ServerHandler(s)
    <3>1. StreamHandler(s)
      BY <2>4 DEF ServerHandler, StreamHandler
    <3>2. UNCHANGED userVars
      BY <3>1 DEF StreamHandler, StreamStep, CheckCancelled, WaitNext, WaitNextEmpty,
                  CheckClosed, WriteEvent, WriteFails, UnsubscribeMeetingEvents
    <3> QED
      BY <1>2, <3>1, <3>2 DEF Next, userVars
  <2> QED
    BY <1>8, <2>1, <2>2, <2>3, <2>4 DEF Server
<1>9. ASSUME NEW user \in Users \ {Me}, OtherRequest(user) PROVE ServerInv'
  <2>1. \/ CreateMeeting(user)
        \/ \E mid \in MeetingIds : \/ JoinMeeting(mid, user)
                                  \/ LeaveMeeting(mid, user)
                                  \/ EndMeeting(mid, user)
    BY <1>9 DEF OtherRequest
  <2> QED
    BY <1>2, <2>1, RequestIsNext
<1>10. CASE UNCHANGED allVars
  BY <1>1, <1>10 DEF allVars
<1> QED
  BY <1>3, <1>4, <1>5, <1>6, <1>7, <1>8, <1>9, <1>10 DEF ClientNext, UiClick

-----------------------------------------------------------------------------
(* Types, and what the event thread has in its hand at each stage.          *)

UiTypes ==
    /\ ui \in Idle \cup Joining \cup Exiting \cup Undoing
    /\ ui_meeting \in MeetingIds \cup {NoMeeting}
    /\ ui # "lobby" => ui_meeting # NoMeeting
    /\ m_current_meeting_id \in MeetingIds \cup {NoMeeting}
    /\ m_is_meeting_creator \in BOOLEAN
    /\ outcome \in {"none", "left", "failed"}
    /\ participants \in SUBSET Users
    /\ todo \in SUBSET (Users \ {Me})
    /\ todo \subseteq participants \/ ui \notin Joining
    /\ tiles \in SUBSET (Users \ {Me})
    /\ pulls \in SUBSET (Users \ {Me})
    /\ ui_queue \in Seq(Notices)

ThreadTypes ==
    /\ thread \in ThreadStages
    /\ call \in Subs \/ (call = NoCall /\ thread = "none")
    /\ event \in Events \cup {NoEvent}
    /\ m_event_running \in BOOLEAN
    /\ asked \in [Subs -> MeetingIds \cup {NoMeeting}]
    /\ wire \in [Subs -> Seq(Events)]
    /\ history \in SUBSET Disturbances

\* Users are unsubscribed and subscribed for an event about them, never the
\* client's own; only the end of the meeting ends the thread by itself.
StageInv ==
    /\ thread \in {"got", "check", "subscribe", "unsubscribe", "cleanup", "tell"} =>
          event \in Events
    /\ thread \in {"check", "subscribe"} =>
          event.kind = "UserJoined" /\ event.trigger_user # Me
    /\ thread = "unsubscribe" => event.kind = "UserLeft" /\ event.trigger_user # Me
    /\ thread = "cleanup" => event.kind = "MeetingEnded"

ClientTypes == UiTypes /\ ThreadTypes /\ StageInv

LEMMA TypesGiven == ClientTypes => ClientTypeOK
<1> SUFFICES ASSUME ClientTypes PROVE ClientTypeOK
  OBVIOUS
<1>1. \A i \in DOMAIN ui_queue : ui_queue[i] \in Notices
  BY DEF ClientTypes, UiTypes
<1>2. \A s \in Subs : wire[s] \in Seq(Events)
  BY DEF ClientTypes, ThreadTypes
<1> QED
  BY <1>1, <1>2 DEF ClientTypes, UiTypes, ThreadTypes, ClientTypeOK

\* A notice of the event in hand, or of the users who have joined.
LEMMA PostType ==
    ASSUME ui_queue \in Seq(Notices), NEW kind \in EventKinds, NEW users \in SUBSET Users,
           Post(kind, users)
    PROVE  ui_queue' \in Seq(Notices)
BY DEF Post, Notices

\* The UI thread.
LEMMA AnswerTypes ==
    ASSUME UiTypes, ThreadTypes, StageInv, NEW mid \in MeetingIds, NEW users \in SUBSET Users,
           NEW creator \in BOOLEAN,
           AnswerArrives(mid, users, creator), LobbyClick
    PROVE  ClientTypes'
<1>1. UiTypes'
  BY DEF UiTypes, AnswerArrives, LobbyClick, UiGoes, engineVars, Idle, Joining,
     MeetingIds,
         NoMeeting
<1>2. ThreadTypes'
  BY DEF ThreadTypes, AnswerArrives, LobbyClick, threadVars, callVars, Disturbances
<1>3. StageInv'
  BY DEF StageInv, LobbyClick, threadVars, callVars
<1> QED
  BY <1>1, <1>2, <1>3 DEF ClientTypes

LEMMA LostTypes ==
    ASSUME UiTypes, ThreadTypes, StageInv, AnswerLost, LobbyClick
    PROVE  ClientTypes'
<1>1. UiTypes'
  BY DEF UiTypes, AnswerLost, LobbyClick, engineVars
<1>2. ThreadTypes'
  BY DEF ThreadTypes, AnswerLost, LobbyClick, threadVars, callVars
<1>3. StageInv'
  BY DEF StageInv, LobbyClick, threadVars, callVars
<1> QED
  BY <1>1, <1>2, <1>3 DEF ClientTypes

LEMMA ClickTypes ==
    ASSUME UiTypes, ThreadTypes, StageInv, ServerInv, CreateRpc \/ JoinRpc
    PROVE  ClientTypes'
<1>1. CASE CreateRpc
  <2>1. GenerateMeetingIdLocked \in MeetingIds
    BY <1>1, GenerateMeetingIdSpec DEF CreateRpc, CreateMeeting, ServerInv, Inv
  <2>2. LobbyClick /\ (AnswerArrives(GenerateMeetingIdLocked, {}, TRUE) \/ AnswerLost)
    BY <1>1 DEF CreateRpc
  <2> QED
    BY <2>1, <2>2, AnswerTypes, LostTypes
<1>2. CASE JoinRpc
  <2>1. PICK mid \in MeetingIds :
           /\ JoinMeeting(mid, Me)
           /\ \/ AnswerArrives(mid, ToSet(m_meetings[mid].participants) \cup {Me}, FALSE)
              \/ AnswerLost
    BY <1>2 DEF JoinRpc
  <2>2. mid \in DOMAIN m_meetings
    BY <2>1, SuccessFacts DEF JoinMeeting
  <2>3. m_meetings[mid].participants \in Seq(Users)
    BY <2>2, KnownMeeting DEF ServerInv, Inv
  <2>4. ToSet(m_meetings[mid].participants) \cup {Me} \in SUBSET Users
    BY <2>3, ConferenceClientAssumption DEF ToSet
  <2>5. LobbyClick
    BY <1>2 DEF JoinRpc
  <2> QED
    BY <2>1, <2>4, <2>5, AnswerTypes, LostTypes
<1> QED
  BY <1>1, <1>2

LEMMA ThreadControlTypes ==
    ASSUME UiTypes, ThreadTypes, StageInv,
           \/ StopThread("stop_old", "join_old") \/ StopThread("undo_stop", "undo_join")
           \/ StopThread("stop", "join") \/ JoinThread("join_old", "start")
           \/ JoinThread("undo_join", "lobby") \/ JoinThread("join", "cleanup")
           \/ StartThread
    PROVE  ClientTypes'
<1> USE DEF StopThread, JoinThread, StartThread, UiGoes, pageVars, engineVars, callVars
<1>1. UiTypes'
  BY DEF UiTypes, Idle, Joining, Exiting, Undoing
<1>2. ThreadTypes'
  <2>1. CASE StartThread
    BY <2>1 DEF ThreadTypes, ThreadStages, UiTypes
  <2>2. CASE ~StartThread
    BY <2>2 DEF ThreadTypes, ThreadStages
  <2> QED
    BY <2>1, <2>2
<1>3. StageInv'
  BY DEF StageInv
<1> QED
  BY <1>1, <1>2, <1>3 DEF ClientTypes

LEMMA JoiningTypes ==
    ASSUME UiTypes, ThreadTypes, StageInv,
           \/ SetRoomInfo \/ CheckParticipant \/ SubscribeParticipant \/ EnterConference
           \/ UndoMedia \/ FinishExit("cleanup", "lobby")
    PROVE  ClientTypes'
<1> USE DEF UiGoes, pageVars, engineVars, threadVars, callVars, CleanupMeetingMedia
<1>1. UiTypes'
  <2> USE DEF UiTypes, Idle, Joining, Exiting, Undoing
  <2>1. CASE SetRoomInfo
    BY <2>1 DEF SetRoomInfo
  <2>2. CASE CheckParticipant
    BY <2>2 DEF CheckParticipant
  <2>3. CASE SubscribeParticipant
    BY <2>3 DEF SubscribeParticipant
  <2>4. CASE EnterConference
    BY <2>4 DEF EnterConference
  <2>5. CASE UndoMedia \/ FinishExit("cleanup", "lobby")
    BY <2>5 DEF UndoMedia, FinishExit
  <2> QED
    BY <2>1, <2>2, <2>3, <2>4, <2>5
<1>2. UNCHANGED <<thread, call, event, m_event_running, asked, wire, history>>
  BY DEF SetRoomInfo, CheckParticipant, SubscribeParticipant, EnterConference,
     UndoMedia,
         FinishExit
<1>3. ThreadTypes' /\ StageInv'
  BY <1>2 DEF ThreadTypes, StageInv
<1> QED
  BY <1>1, <1>3 DEF ClientTypes

LEMMA NoticeTypes ==
    ASSUME UiTypes, ThreadTypes, StageInv, NotifyParticipants \/ DeliverNotice
    PROVE  ClientTypes'
<1> USE DEF UiGoes, pageVars, engineVars, threadVars, callVars
<1>1. CASE NotifyParticipants
  <2>1. ui_queue' \in Seq(Notices)
    BY <1>1, PostType DEF NotifyParticipants, UiTypes, EventKinds
  <2>2. UiTypes'
    BY <1>1, <2>1 DEF UiTypes, NotifyParticipants, Idle, Joining
  <2>3. ThreadTypes' /\ StageInv'
    BY <1>1 DEF ThreadTypes, StageInv, NotifyParticipants
  <2> QED
    BY <2>2, <2>3 DEF ClientTypes
<1>2. CASE DeliverNotice
  <2> DEFINE notice == Head(ui_queue)
  <2>1. /\ ui_queue \in Seq(Notices) /\ ui_queue # <<>>
        /\ ui_queue' = Tail(ui_queue)
    BY <1>2 DEF DeliverNotice, UiTypes
  <2>2. ui_queue' \in Seq(Notices) /\ notice \in Notices
    BY <2>1
  <2>3. /\ ui' = IF notice.kind = "MeetingEnded" THEN "lobby" ELSE ui
        /\ tiles' = IF ui = "lobby" THEN tiles
                    ELSE CASE notice.kind = "UserJoined"   -> tiles \cup (notice.users \ {Me})
                           [] notice.kind = "UserLeft"     -> tiles \ notice.users
                           [] notice.kind = "MeetingEnded" -> {}
    BY <1>2 DEF DeliverNotice
  <2> HIDE DEF notice
  <2>4. tiles' \in SUBSET (Users \ {Me})
    BY <2>2, <2>3 DEF UiTypes, Notices, EventKinds
  <2>5. UiTypes'
    BY <1>2, <2>2, <2>3, <2>4 DEF UiTypes, DeliverNotice, Idle, Joining
  <2>6. ThreadTypes' /\ StageInv'
    BY <1>2 DEF ThreadTypes, StageInv, DeliverNotice
  <2> QED
    BY <2>5, <2>6 DEF ClientTypes
<1> QED
  BY <1>1, <1>2

LEMMA ExitTypes ==
    ASSUME UiTypes, ThreadTypes, StageInv, ExitClick \/ AbandonMeeting \/ UndoLeave
    PROVE  ClientTypes'
<1> USE DEF UiGoes, pageVars, engineVars, threadVars, callVars
<1> HIDE DEF LeaveMeeting, EndMeeting
<1>1. UiTypes'
  <2> USE DEF UiTypes, Idle, Joining, Exiting, Undoing
  <2>1. CASE ExitClick
    BY <2>1 DEF ExitClick, ExitRpc
  <2>2. CASE AbandonMeeting
    BY <2>2 DEF AbandonMeeting, ExitRpc
  <2>3. CASE UndoLeave
    BY <2>3 DEF UndoLeave
  <2> QED
    BY <2>1, <2>2, <2>3
<1>2. /\ UNCHANGED <<thread, call, event, m_event_running, asked, wire>>
      /\ history' \in {history, history \cup {"fault"}}
  BY DEF ExitClick, AbandonMeeting, UndoLeave, ExitRpc
<1>3. ThreadTypes' /\ StageInv'
  BY <1>2 DEF ThreadTypes, StageInv, Disturbances
<1> QED
  BY <1>1, <1>3 DEF ClientTypes

\* The event thread.
LEMMA EventTypes ==
    ASSUME UiTypes, ThreadTypes, StageInv, EventThread
    PROVE  ClientTypes'
<1> USE DEF ThreadGoes, pageVars, engineVars, threadVars, callVars
<1>1. CASE LoopEvents \/ ReadFails \/ HandleMeetingEvent \/ CheckJoined
  <2>1. UNCHANGED <<ui, pageVars, ui_queue, engineVars, callVars, wire, history>>
    BY <1>1 DEF LoopEvents, ReadFails, HandleMeetingEvent, CheckJoined
  <2>2. UiTypes'
    BY <2>1 DEF UiTypes
  <2>3. event \in Events => event.kind \in EventKinds
    BY DEF Events
  <2>4. /\ thread # "none"
        /\ thread' \in ThreadStages \ {"none"}
        /\ event' \in {event, NoEvent}
        /\ StageInv'
    <3>1. CASE LoopEvents
      BY <3>1 DEF LoopEvents, StageInv, ThreadStages
    <3>2. CASE ReadFails
      BY <3>2 DEF ReadFails, StageInv, ThreadStages
    <3>3. CASE HandleMeetingEvent
      BY <2>3, <3>3 DEF HandleMeetingEvent, StageInv, ThreadStages, EventKinds
    <3>4. CASE CheckJoined
      BY <3>4 DEF CheckJoined, StageInv, ThreadStages
    <3> QED
      BY <1>1, <3>1, <3>2, <3>3, <3>4
  <2>5. ThreadTypes'
    BY <2>1, <2>4 DEF ThreadTypes
  <2> QED
    BY <2>2, <2>4, <2>5 DEF ClientTypes
<1>2. CASE ReadEvent
  <2>1. wire[call] \in Seq(Events) /\ wire[call] # <<>> /\ call \in Subs
    BY <1>2 DEF ReadEvent, ThreadTypes
  <2>2. Head(wire[call]) \in Events /\ Tail(wire[call]) \in Seq(Events)
    BY <2>1
  <2>3. /\ UiTypes'
        /\ StageInv'
    BY <1>2, <2>2 DEF ReadEvent, UiTypes, StageInv
  <2>4. ThreadTypes'
    BY <1>2, <2>1, <2>2 DEF ReadEvent, ThreadTypes, ThreadStages
  <2> QED
    BY <2>3, <2>4 DEF ClientTypes
<1>3. CASE SubscribeJoined \/ UnsubscribeLeft \/ CleanupEnded
  <2>1. thread \in {"subscribe"} => event.trigger_user \in Users \ {Me}
    BY DEF StageInv, Events
  <2>2. UiTypes'
    BY <1>3, <2>1 DEF UiTypes, SubscribeJoined, UnsubscribeLeft, CleanupEnded,
                      CleanupMeetingMedia
  <2>3. ThreadTypes'
    BY <1>3 DEF ThreadTypes, SubscribeJoined, UnsubscribeLeft, CleanupEnded,
       ThreadStages,
                Disturbances
  <2>4. StageInv'
    BY <1>3 DEF StageInv, SubscribeJoined, UnsubscribeLeft, CleanupEnded
  <2> QED
    BY <2>2, <2>3, <2>4 DEF ClientTypes
<1>4. CASE Notify
  <2>1. event.kind \in EventKinds /\ event.trigger_user \in Users
    BY <1>4 DEF Notify, StageInv, Events
  <2>2. ui_queue' \in Seq(Notices)
    <3>1. Post(event.kind, IF event.kind = "MeetingEnded" THEN {} ELSE {event.trigger_user})
      BY <1>4 DEF Notify
    <3> QED
      BY <2>1, <3>1, PostType DEF UiTypes
  <2>3. UiTypes'
    BY <1>4, <2>2 DEF Notify, UiTypes
  <2>4. ThreadTypes' /\ StageInv'
    BY <1>4 DEF Notify, ThreadTypes, StageInv, ThreadStages
  <2> QED
    BY <2>3, <2>4 DEF ClientTypes
<1>5. CASE StopItself \/ FinishCall
  <2>1. UiTypes'
    BY <1>5 DEF UiTypes, StopItself, FinishCall
  <2>2. ThreadTypes'
    <3>1. CASE StopItself
      BY <3>1 DEF ThreadTypes, StopItself, ThreadStages
    <3>2. CASE FinishCall
      <4>1. wire' \in [Subs -> Seq(Events)]
        BY <3>2 DEF ThreadTypes, FinishCall
      <4> QED
        BY <3>2, <4>1 DEF ThreadTypes, FinishCall, ThreadStages
    <3> QED
      BY <1>5, <3>1, <3>2
  <2>3. StageInv'
    BY <1>5 DEF StageInv, StopItself, FinishCall
  <2> QED
    BY <2>1, <2>2, <2>3 DEF ClientTypes
<1> QED
  BY <1>1, <1>2, <1>3, <1>4, <1>5 DEF EventThread

\* The server and the other users: they only write to a call.
LEMMA OutsideTypes ==
    ASSUME UiTypes, ThreadTypes, StageInv, ServerInv,
           \/ \E s \in Subs : Server(s)
           \/ \E user \in Users \ {Me} : OtherRequest(user)
           \/ UNCHANGED allVars
    PROVE  ClientTypes'
<1> USE DEF pageVars, engineVars, threadVars, callVars
<1>1. /\ UNCHANGED <<ui, pageVars, ui_queue, engineVars, threadVars>>
      /\ history' \in {history, history \cup {"fault"}, history \cup {"gap"}}
      /\ wire' = wire \/ \E s \in Subs : wire' = [wire EXCEPT ![s] = @ \o in_hand[s]]
  <2>1. ASSUME NEW s \in Subs, Server(s)
        PROVE  <1>1!:
    BY <2>1 DEF Server, AcceptCall, RefuseCall, BreakCall, ServerHandler, clientVars
  <2>2. ASSUME NEW user \in Users \ {Me}, OtherRequest(user)
        PROVE  <1>1!:
    BY <2>2 DEF OtherRequest, Gap
  <2>3. CASE UNCHANGED allVars
    BY <2>3 DEF allVars, clientVars
  <2> QED
    BY <2>1, <2>2, <2>3
<1>2. wire' \in [Subs -> Seq(Events)]
  <2>1. ASSUME NEW s \in Subs, wire' = [wire EXCEPT ![s] = @ \o in_hand[s]]
        PROVE  wire' \in [Subs -> Seq(Events)]
    <3>1. wire[s] \in Seq(Events) /\ in_hand[s] \in Seq(Events)
      BY DEF ThreadTypes, ServerInv, Inv, TypeOK, StreamTypeOK
    <3>2. wire[s] \o in_hand[s] \in Seq(Events)
      BY <3>1, ConcatProperties, Zenon
    <3> QED
      BY <2>1, <3>2 DEF ThreadTypes
  <2> QED
    BY <1>1, <2>1 DEF ThreadTypes
<1>3. UiTypes' /\ StageInv'
  BY <1>1 DEF UiTypes, StageInv
<1>4. ThreadTypes'
  BY <1>1, <1>2 DEF ThreadTypes, Disturbances
<1> QED
  BY <1>3, <1>4 DEF ClientTypes

\* Types and stages, one lemma for each group of steps above.
LEMMA TypesStep ==
    ASSUME ServerInv, ClientTypes, [ClientNext]_allVars
    PROVE  ClientTypes'
<1>1. UiTypes /\ ThreadTypes /\ StageInv
  BY DEF ClientTypes
<1> HIDE DEF ServerInv, ClientTypes, UiTypes, ThreadTypes, StageInv
<1>2. CASE UiClick
  BY <1>1, <1>2, ClickTypes, ExitTypes DEF UiClick
<1>3. CASE UiWork
  BY <1>1, <1>3, ThreadControlTypes, JoiningTypes, NoticeTypes, ExitTypes
     DEF UiWork, UiEnter, UiUndo, UiExit
<1>4. CASE EventThread
  BY <1>1, <1>4, EventTypes
<1> QED
  BY <1>1, <1>2, <1>3, <1>4, OutsideTypes DEF ClientNext

-----------------------------------------------------------------------------
(* What is left after a meeting.                                            *)

\* The client is in the meeting of its last request or in none, in none as soon
\* as it stops the event stream to leave, and has no thread when it cleans up;
\* then nothing of the meeting comes back until the next request.
LeaveInv ==
    /\ ui # "lobby" => m_user_meetings[Me] \in {NoMeeting, ui_meeting}
    /\ ui \in {"stop", "join", "cleanup"} => m_user_meetings[Me] = NoMeeting
    /\ ui = "cleanup" => thread = "none"
    /\ outcome = "left" => /\ ui = "lobby"
                           /\ thread = "none"
                           /\ pulls = {}
                           /\ tiles = {}
                           /\ m_current_meeting_id = NoMeeting
                           /\ m_user_meetings[Me] = NoMeeting

\* Leaving the meeting, or ending it, takes the client out of it, also when the
\* creator had left before.
LEMMA MyExit ==
    ASSUME ServerInv, m_user_meetings[Me] \in {NoMeeting, ui_meeting},
           LeaveMeeting(ui_meeting, Me) \/ EndMeeting(ui_meeting, Me)
    PROVE  m_user_meetings'[Me] = NoMeeting
<1>1. m_user_meetings \in [Users -> MeetingIds \cup {NoMeeting}] /\ Me \in Users
  BY ConferenceClientAssumption DEF ServerInv, Inv, TypeOK, MeetingTypeOK
<1>2. CASE LeaveMeeting(ui_meeting, Me)
  BY <1>1, <1>2 DEF LeaveMeeting
<1>3. CASE EndMeeting(ui_meeting, Me)
  <2>1. m_user_meetings' = [u \in Users |->
                              IF Contains(m_meetings[ui_meeting].participants, u)
                              THEN NoMeeting ELSE m_user_meetings[u]]
    BY <1>3 DEF EndMeeting
  <2>2. ui_meeting \in DOMAIN m_meetings
    BY <1>3, SuccessFacts DEF EndMeeting
  <2>3. m_user_meetings[Me] = ui_meeting
           <=> Contains(m_meetings[ui_meeting].participants, Me)
    BY <1>1, <2>2 DEF ServerInv, Inv, MembershipConsistent, IndexMatchesLists
  <2> QED
    BY <1>1, <2>1, <2>3
<1> QED
  BY <1>2, <1>3

\* What the others do can only take the client out of its meeting.
LEMMA MineByOthers ==
    ASSUME ServerInv, NEW user \in Users \ {Me}, OtherRequest(user)
    PROVE  m_user_meetings'[Me] \in {m_user_meetings[Me], NoMeeting}
<1>1. m_user_meetings \in [Users -> MeetingIds \cup {NoMeeting}] /\ Me \in Users
  BY ConferenceClientAssumption DEF ServerInv, Inv, TypeOK, MeetingTypeOK
<1>2. CASE CreateMeeting(user)
  BY <1>1, <1>2 DEF CreateMeeting
<1>3. ASSUME NEW mid \in MeetingIds, JoinMeeting(mid, user)
      PROVE  m_user_meetings'[Me] = m_user_meetings[Me]
  BY <1>1, <1>3 DEF JoinMeeting
<1>4. ASSUME NEW mid \in MeetingIds, LeaveMeeting(mid, user)
      PROVE  m_user_meetings'[Me] = m_user_meetings[Me]
  BY <1>1, <1>4 DEF LeaveMeeting
<1>5. ASSUME NEW mid \in MeetingIds, EndMeeting(mid, user)
      PROVE  m_user_meetings'[Me] \in {m_user_meetings[Me], NoMeeting}
  BY <1>1, <1>5 DEF EndMeeting
<1> QED
  BY <1>2, <1>3, <1>4, <1>5 DEF OtherRequest

\* The handlers of the server leave the membership alone.
LEMMA MineByServer ==
    ASSUME NEW s \in Subs, Server(s)
    PROVE  /\ UNCHANGED meetingVars
           /\ UNCHANGED <<ui, pageVars, ui_queue, engineVars, threadVars>>
<1> USE DEF meetingVars, pageVars, engineVars, threadVars, callVars, clientVars
<1>1. CASE AcceptCall(s)
  BY <1>1 DEF AcceptCall, SubscribeMeetingEvents
<1>2. CASE RefuseCall(s) \/ BreakCall(s)
  BY <1>2 DEF RefuseCall, BreakCall, CancelStream
<1>3. CASE ServerHandler(s)
  BY <1>3 DEF ServerHandler, StreamStep, CheckCancelled, WaitNext, WaitNextEmpty,
              CheckClosed, WriteEvent, WriteFails, UnsubscribeMeetingEvents
<1> QED
  BY <1>1, <1>2, <1>3 DEF Server

LEMMA ClickLeave ==
    ASSUME ServerInv, LeaveInv, CreateRpc \/ JoinRpc
    PROVE  LeaveInv'
<1>1. m_user_meetings \in [Users -> MeetingIds \cup {NoMeeting}] /\ Me \in Users
  BY ConferenceClientAssumption DEF ServerInv, Inv, TypeOK, MeetingTypeOK
<1>2. PICK mid : \/ CreateRpc /\ mid = GenerateMeetingIdLocked
                 \/ JoinRpc /\ mid \in MeetingIds /\ JoinMeeting(mid, Me)
                    /\ (AnswerLost \/ ui_meeting' = mid)
  BY DEF JoinRpc, AnswerArrives
<1>3. m_user_meetings'[Me] = mid
  BY <1>1, <1>2 DEF CreateRpc, CreateMeeting, JoinMeeting
<1>4. /\ outcome' = "none"
      /\ ui' = "lobby" \/ (ui' = "stop_old" /\ ui_meeting' = mid)
  BY <1>2 DEF CreateRpc, JoinRpc, AnswerArrives, AnswerLost, LobbyClick, UiGoes
<1> QED
  BY <1>3, <1>4 DEF LeaveInv

LEMMA ExitLeave ==
    ASSUME ServerInv, LeaveInv, ExitClick \/ AbandonMeeting \/ UndoLeave
    PROVE  LeaveInv'
<1> HIDE DEF LeaveMeeting, EndMeeting
<1> USE DEF UiGoes, pageVars, engineVars, threadVars
<1>1. ui \in {"page", "abandon", "undo_leave"} /\ UNCHANGED ui_meeting
  BY DEF ExitClick, AbandonMeeting, UndoLeave, ExitRpc
<1>2. \/ LeaveMeeting(ui_meeting, Me) \/ EndMeeting(ui_meeting, Me)
      \/ UNCHANGED vars /\ ui' \in {"page", "lobby"}
  BY DEF ExitClick, AbandonMeeting, UndoLeave, ExitRpc, ExitRequest
<1>3. m_user_meetings'[Me] \in {NoMeeting, m_user_meetings[Me]}
  BY <1>1, <1>2, MyExit DEF LeaveInv, vars, meetingVars
<1>4. ui' = "stop" => m_user_meetings'[Me] = NoMeeting
  BY <1>1, <1>2, MyExit DEF LeaveInv
<1>5. outcome' # "left" /\ ui' \in {"stop", "page", "lobby", "undo_stop"}
  BY <1>1 DEF LeaveInv, ExitClick, AbandonMeeting, UndoLeave, ExitRpc
<1> QED
  BY <1>1, <1>3, <1>4, <1>5 DEF LeaveInv

LEMMA WorkLeave ==
    ASSUME LeaveInv, UiWork, ~AbandonMeeting, ~UndoLeave
    PROVE  LeaveInv'
<1> USE DEF UiGoes, pageVars, engineVars, threadVars, callVars, meetingVars, vars,
        LeaveInv
<1>1. CASE \/ StopThread("stop_old", "join_old") \/ StopThread("undo_stop", "undo_join")
           \/ StopThread("stop", "join")
  BY <1>1 DEF StopThread
<1>2. CASE \/ JoinThread("join_old", "start") \/ JoinThread("undo_join", "lobby")
           \/ JoinThread("join", "cleanup")
  BY <1>2 DEF JoinThread
<1>3. CASE StartThread
  BY <1>3 DEF StartThread
<1>4. CASE SetRoomInfo \/ CheckParticipant \/ SubscribeParticipant
  BY <1>4 DEF SetRoomInfo, CheckParticipant, SubscribeParticipant
<1>5. CASE NotifyParticipants \/ EnterConference \/ UndoMedia
  BY <1>5 DEF NotifyParticipants, EnterConference, UndoMedia
<1>6. CASE FinishExit("cleanup", "lobby")
  BY <1>6 DEF FinishExit, CleanupMeetingMedia
<1>7. CASE DeliverNotice
  BY <1>7 DEF DeliverNotice, Idle
<1> QED
  BY <1>1, <1>2, <1>3, <1>4, <1>5, <1>6, <1>7 DEF UiWork, UiEnter, UiUndo, UiExit

LEMMA EventLeave ==
    ASSUME LeaveInv, EventThread
    PROVE  LeaveInv'
<1>1. thread \notin {"none", "over"}
  BY DEF EventThread, LoopEvents, ReadEvent, ReadFails, HandleMeetingEvent, CheckJoined,
         SubscribeJoined, UnsubscribeLeft, CleanupEnded, Notify, StopItself, FinishCall,
         ThreadGoes
<1>2. UNCHANGED <<ui, ui_meeting, outcome, tiles, m_user_meetings>>
  <2> USE DEF pageVars, vars, meetingVars
  <2>1. CASE StopItself
    BY <2>1 DEF StopItself
  <2>2. CASE ~StopItself
    BY <2>2 DEF EventThread, LoopEvents, ReadEvent, ReadFails, HandleMeetingEvent,
           CheckJoined, SubscribeJoined, UnsubscribeLeft, CleanupEnded, Notify, FinishCall
  <2> QED
    BY <2>1, <2>2
<1> QED
  BY <1>1, <1>2 DEF LeaveInv

\* What is left after an exit, likewise.
LEMMA LeaveStep ==
    ASSUME ServerInv, LeaveInv, [ClientNext]_allVars
    PROVE  LeaveInv'
<1>1. ASSUME NEW s \in Subs, Server(s) PROVE LeaveInv'
  BY <1>1, MineByServer DEF LeaveInv, meetingVars, pageVars, engineVars, threadVars
<1>2. ASSUME NEW user \in Users \ {Me}, OtherRequest(user) PROVE LeaveInv'
  <2>1. UNCHANGED <<ui, pageVars, engineVars, threadVars>>
    BY <1>2 DEF OtherRequest
  <2> QED
    BY <1>2, <2>1, MineByOthers DEF LeaveInv, pageVars, engineVars, threadVars
<1>3. CASE UNCHANGED allVars
  BY <1>3 DEF LeaveInv, allVars, clientVars, pageVars, engineVars, threadVars, vars,
     meetingVars
<1> HIDE DEF LeaveInv, ServerInv
<1>4. CASE UiClick \/ UiWork
  <2>1. UiClick => CreateRpc \/ JoinRpc \/ ExitClick
    BY DEF UiClick
  <2> QED
    BY <1>4, <2>1, ClickLeave, ExitLeave, WorkLeave
<1> QED
  BY <1>1, <1>2, <1>3, <1>4, EventLeave DEF ClientNext

LEMMA ClientStarts == ClientInit => ServerInv /\ ClientTypes /\ LeaveInv
<1> SUFFICES ASSUME ClientInit PROVE ServerInv /\ ClientTypes /\ LeaveInv
  OBVIOUS
<1>1. TypeOK
  <2>1. MeetingTypeOK
    BY MeetingStoreAssumption
       DEF ClientInit, MeetingTypeOK, MeetingIds, NoMeeting
  <2>2. HubTypeOK /\ StreamTypeOK
    BY DEF ClientInit, HubTypeOK, StreamTypeOK, Stages, NoMeeting, NoUser
  <2> QED
    BY <2>1, <2>2 DEF TypeOK
<1>2. MembershipConsistent
  BY DEF ClientInit, MembershipConsistent, IndexMatchesLists, NoDuplicateParticipant,
         ActiveIffOccupied, NoMeeting
<1>3. Subscribed
  BY DEF ClientInit, Subscribed, ListedIffOpen, OneOpenStreamPerParticipant,
     UnusedIsOpen,
         Alive, Running
<1>4. ReadInv
  BY DEF ClientInit, ReadInv, HandInv
<1>5. ServerInv
  BY <1>1, <1>2, <1>3, <1>4 DEF ServerInv, Inv, ClientInit
<1>6. UiTypes /\ ThreadTypes /\ StageInv
  <2>1. UiTypes
    <3>1. ui = "lobby" /\ ui_queue \in Seq(Notices)
      BY DEF ClientInit
    <3>2. participants = {} /\ todo = {} /\ tiles = {} /\ pulls = {}
      BY DEF ClientInit
    <3> QED
      BY <3>1, <3>2 DEF ClientInit, UiTypes, Idle
  <2>2. wire \in [Subs -> Seq(Events)] /\ asked \in [Subs -> MeetingIds \cup {NoMeeting}]
    BY DEF ClientInit
  <2>3. ThreadTypes
    BY <2>2 DEF ClientInit, ThreadTypes, ThreadStages
  <2>4. StageInv
    BY DEF ClientInit, StageInv
  <2> QED
    BY <2>1, <2>3, <2>4
<1>7. LeaveInv
  BY DEF ClientInit, LeaveInv
<1> QED
  BY <1>5, <1>6, <1>7 DEF ClientTypes

LEMMA ClientStays == ClientSpec => [](ServerInv /\ ClientTypes /\ LeaveInv)
<1>1. ServerInv /\ ClientTypes /\ LeaveInv /\ [ClientNext]_allVars
        => (ServerInv /\ ClientTypes /\ LeaveInv)'
  BY ServerStep, TypesStep, LeaveStep
<1> QED
  BY <1>1, ClientStarts, PTL DEF ClientSpec

\* Whatever fails on the way into a meeting, in it or out of it, and whatever the
\* others do: after a confirmed leave or end no thread, no pull session, no window
\* and no membership is left (LeaveMeeting and EndMeeting of VceEngineImpl, which stop the
\* event stream before CleanupMeetingMedia).
THEOREM ClientCorrect == ClientSpec => []ClientInvariant
<1>1. ServerInv /\ ClientTypes /\ LeaveInv => ClientInvariant
  BY TypesGiven DEF ClientInvariant, LeaveInv, LeftMeansQuiet
<1> QED
  BY <1>1, ClientStays, PTL

-----------------------------------------------------------------------------
(* Calls.                                                                   *)

\* A call that was not made is none: no stream, not cancelled.  A call that has
\* no stream has brought no event.
CallInv ==
    /\ call \in Subs => asked[call] # NoMeeting
    /\ \A s \in Subs :
          /\ asked[s] = NoMeeting => stream[s] = "free" /\ ~cancelled[s]
          /\ stream[s] = "free" => wire[s] = <<>>

LEMMA CallFrame ==
    ASSUME CallInv, UNCHANGED <<call, asked, stream, cancelled, wire>>
    PROVE  CallInv'
BY DEF CallInv

LEMMA UiCalls ==
    ASSUME ServerInv, ClientTypes, CallInv, UiClick \/ UiWork
    PROVE  CallInv'
<1> USE DEF callVars, threadVars, vars, streamVars
<1>1. CASE UiClick \/ AbandonMeeting \/ UndoLeave
  <2>1. ASSUME NEW mid, NEW user,
               \/ CreateMeeting(user) \/ JoinMeeting(mid, user)
               \/ LeaveMeeting(mid, user) \/ EndMeeting(mid, user)
        PROVE  UNCHANGED streamVars
    BY <2>1 DEF CreateMeeting, JoinMeeting, LeaveMeeting, EndMeeting
  <2> HIDE DEF CreateMeeting, JoinMeeting, LeaveMeeting, EndMeeting, streamVars
  <2>2. UNCHANGED <<streamVars, threadVars, wire>>
    BY <1>1, <2>1 DEF UiClick, CreateRpc, JoinRpc, LobbyClick, ExitClick,
       AbandonMeeting,
       UndoLeave, ExitRpc, ExitRequest
  <2> QED
    BY <2>2, CallFrame DEF streamVars
<1>2. CASE \/ StopThread("stop_old", "join_old") \/ StopThread("undo_stop", "undo_join")
           \/ StopThread("stop", "join")
  <2>1. /\ cancelled' = [s \in Subs |-> cancelled[s] \/ s = call]
        /\ UNCHANGED <<call, asked, wire, stream>>
    BY <1>2 DEF StopThread
  <2> QED
    BY <2>1 DEF CallInv
<1>3. CASE \/ JoinThread("join_old", "start") \/ JoinThread("undo_join", "lobby")
           \/ JoinThread("join", "cleanup")
  <2>1. call' = NoCall /\ UNCHANGED <<asked, stream, cancelled, wire>>
    BY <1>3 DEF JoinThread
  <2> QED
    BY <2>1, ConferenceClientAssumption DEF CallInv
<1>4. CASE StartThread
  <2>1. \/ UNCHANGED <<call, asked, stream, cancelled, wire>>
        \/ \E s \in Subs :
              /\ ui = "start"
              /\ asked' = [asked EXCEPT ![s] = ui_meeting]
              /\ call' = s
              /\ UNCHANGED <<stream, cancelled, wire>>
    BY <1>4 DEF StartThread, UiGoes
  <2>2. ui = "start" => ui_meeting # NoMeeting
    BY DEF ClientTypes, UiTypes
  <2>3. asked \in [Subs -> MeetingIds \cup {NoMeeting}]
    BY DEF ClientTypes, ThreadTypes
  <2> QED
    BY <2>1, <2>2, <2>3 DEF CallInv
<1>5. CASE \/ SetRoomInfo \/ CheckParticipant \/ SubscribeParticipant
           \/ NotifyParticipants \/ EnterConference \/ UndoMedia
           \/ DeliverNotice \/ FinishExit("cleanup", "lobby")
  <2>1. UNCHANGED <<call, asked, stream, cancelled, wire>>
    BY <1>5 DEF SetRoomInfo, CheckParticipant, SubscribeParticipant, NotifyParticipants,
           EnterConference, UndoMedia, DeliverNotice, FinishExit
  <2> QED
    BY <2>1, CallFrame
<1> QED
  BY <1>1, <1>2, <1>3, <1>4, <1>5 DEF UiWork, UiEnter, UiUndo, UiExit

LEMMA EventCalls ==
    ASSUME ClientTypes, CallInv, EventThread
    PROVE  CallInv'
<1> USE DEF callVars, vars, streamVars
<1>1. call \in Subs
  BY DEF ClientTypes, ThreadTypes, EventThread, LoopEvents, ReadEvent, ReadFails,
         HandleMeetingEvent, CheckJoined, SubscribeJoined, UnsubscribeLeft, CleanupEnded,
         Notify, StopItself, FinishCall, ThreadGoes
<1>2. CASE ReadEvent
  <2>1. /\ wire[call] # <<>> /\ wire' = [wire EXCEPT ![call] = Tail(@)]
        /\ UNCHANGED <<call, asked, stream, cancelled>>
    BY <1>2 DEF ReadEvent
  <2>2. stream[call] # "free"
    BY <1>1, <2>1 DEF CallInv
  <2> QED
    BY <2>1, <2>2 DEF CallInv
<1>3. CASE FinishCall
  <2>1. /\ wire' = [wire EXCEPT ![call] = <<>>]
        /\ UNCHANGED <<call, asked, stream, cancelled>>
    BY <1>3 DEF FinishCall
  <2>2. wire \in [Subs -> Seq(Events)]
    BY DEF ClientTypes, ThreadTypes
  <2> QED
    BY <2>1, <2>2 DEF CallInv
<1>4. CASE StopItself
  <2>1. /\ cancelled' = [cancelled EXCEPT ![call] = TRUE]
        /\ UNCHANGED <<call, asked, stream, wire>>
    BY <1>4 DEF StopItself
  <2> QED
    BY <1>1, <2>1 DEF CallInv
<1>5. CASE ~ReadEvent /\ ~FinishCall /\ ~StopItself
  <2>1. UNCHANGED <<call, asked, stream, cancelled, wire>>
    BY <1>5 DEF EventThread, LoopEvents, ReadFails, HandleMeetingEvent, CheckJoined,
           SubscribeJoined, UnsubscribeLeft, CleanupEnded, Notify
  <2> QED
    BY <2>1, CallFrame
<1> QED
  BY <1>2, <1>3, <1>4, <1>5

\* What the server does to a call: it makes it a stream, or moves the stream on.
LEMMA ServerCalls ==
    ASSUME ServerInv, ClientTypes, CallInv, NEW s \in Subs, Server(s)
    PROVE  CallInv'
<1> USE DEF callVars, threadVars, clientVars
<1>1. stream \in [Subs -> Stages] /\ cancelled \in [Subs -> BOOLEAN]
  BY DEF ServerInv, Inv, TypeOK, StreamTypeOK
<1>2. CASE AcceptCall(s) \/ RefuseCall(s)
  <2>1. /\ asked[s] # NoMeeting
        /\ stream' \in {[stream EXCEPT ![s] = "loop"], [stream EXCEPT ![s] = "done"]}
        /\ UNCHANGED <<call, asked, cancelled, wire>>
    BY <1>2 DEF AcceptCall, RefuseCall, SubscribeMeetingEvents
  <2> QED
    BY <1>1, <2>1 DEF CallInv
<1>3. CASE BreakCall(s)
  <2>1. /\ stream[s] # "free"
        /\ cancelled' = [cancelled EXCEPT ![s] = TRUE]
        /\ UNCHANGED <<call, asked, stream, wire>>
    BY <1>3 DEF BreakCall, CancelStream, Alive, Running
  <2> QED
    BY <1>1, <2>1 DEF CallInv
<1>4. CASE ServerHandler(s)
  <2>1. /\ stream[s] # "free"
        /\ \E to \in Stages \ {"free"} : stream' = [stream EXCEPT ![s] = to]
        /\ UNCHANGED <<call, asked, cancelled>>
        /\ wire' = wire \/ wire' = [wire EXCEPT ![s] = @ \o in_hand[s]]
    BY <1>4 DEF ServerHandler, StreamStep, CheckCancelled, WaitNext, WaitNextEmpty,
           CheckClosed, WriteEvent, WriteFails, UnsubscribeMeetingEvents, Stages
  <2>2. wire \in [Subs -> Seq(Events)]
    BY DEF ClientTypes, ThreadTypes
  <2>3. /\ stream'[s] # "free"
        /\ \A t \in Subs \ {s} : stream'[t] = stream[t] /\ wire'[t] = wire[t]
    BY <1>1, <2>1, <2>2
  <2> QED
    BY <2>1, <2>3 DEF CallInv
<1> QED
  BY <1>2, <1>3, <1>4 DEF Server

\* One call after the other is used, by the UI thread only.
LEMMA CallStep ==
    ASSUME ServerInv, ClientTypes, CallInv, [ClientNext]_allVars
    PROVE  CallInv'
<1>1. ASSUME NEW user \in Users \ {Me}, OtherRequest(user) PROVE CallInv'
  <2>1. UNCHANGED <<threadVars, wire>> /\ UNCHANGED streamVars
    BY <1>1 DEF OtherRequest, CreateMeeting, JoinMeeting, LeaveMeeting, EndMeeting
  <2> QED
    BY <2>1, CallFrame DEF threadVars, callVars, streamVars
<1>2. CASE UNCHANGED allVars
  BY <1>2, CallFrame DEF allVars, clientVars, threadVars, callVars, vars, streamVars
<1> QED
  BY <1>1, <1>2, UiCalls, EventCalls, ServerCalls DEF ClientNext

-----------------------------------------------------------------------------
(* Events and notices on their way.                                         *)

\* The event of the thread, while it is at one of the stages.
AtHand(stages) == IF thread \in stages THEN <<event>> ELSE <<>>

\* What the call will still bring.
Coming == wire[call] \o in_hand[call] \o m_events[call]

\* The events the pull sessions, and the page, do not show yet.
PullStages == {"got", "check", "subscribe", "unsubscribe"}
TileStages == PullStages \cup {"tell"}
PullWay == AtHand(PullStages) \o Coming
TileWay == AtHand(TileStages) \o Coming

\* What the page will show after the notices: of each user the last word counts.
Told(base, queue) ==
    {u \in Users :
        \/ \E i \in DOMAIN queue :
              /\ queue[i].kind = "UserJoined"
              /\ u \in queue[i].users
              /\ \A j \in (i + 1) .. Len(queue) : u \notin queue[j].users
        \/ u \in base /\ \A j \in DOMAIN queue : u \notin queue[j].users}

\* What a notice tells.
Heard(users, notice) == IF notice.kind = "UserJoined" THEN users \cup notice.users
                                                      ELSE users \ notice.users

\* Members of a sequence.
LEMMA MembersLast ==
    ASSUME NEW T, NEW s \in Seq(T), NEW e \in T
    PROVE  ToSet(Append(s, e)) = ToSet(s) \cup {e}
<1>1. PICK n \in Nat : n = Len(s)
  OBVIOUS
<1>2. PICK t : t = Append(s, e)
  OBVIOUS
<1>3. /\ DOMAIN s = 1 .. n /\ DOMAIN t = 1 .. (n + 1)
      /\ \A i \in 1 .. n : t[i] = s[i]
      /\ t[n + 1] = e
  BY <1>1, <1>2
<1>4. ToSet(t) = {t[i] : i \in 1 .. (n + 1)} /\ ToSet(s) = {s[i] : i \in 1 .. n}
  BY <1>3 DEF ToSet
<1>5. 1 .. (n + 1) = (1 .. n) \cup {n + 1}
  OBVIOUS
<1> QED
  BY <1>2, <1>3, <1>4, <1>5

\* The members of a sequence are its head and those of its tail.
LEMMA MembersNext ==
    ASSUME NEW T, NEW t \in Seq(T), t # << >>
    PROVE  ToSet(t) = ToSet(Tail(t)) \cup {Head(t)}
<1>1. PICK e, s : e = Head(t) /\ s = Tail(t)
  OBVIOUS
<1>2. PICK n \in Nat : n = Len(t) - 1
  OBVIOUS
<1>3. /\ DOMAIN s = 1 .. n /\ DOMAIN t = 1 .. (n + 1)
      /\ \A i \in 1 .. n : t[i + 1] = s[i]
      /\ t[1] = e
  BY <1>1, <1>2
<1>4. ToSet(t) = {t[i] : i \in 1 .. (n + 1)} /\ ToSet(s) = {s[i] : i \in 1 .. n}
  BY <1>3 DEF ToSet
<1>5. ASSUME NEW x \in ToSet(t) PROVE x \in ToSet(s) \cup {e}
  <2>1. PICK i \in 1 .. (n + 1) : x = t[i]
    BY <1>4
  <2>2. CASE i = 1
    BY <1>3, <2>1, <2>2
  <2>3. CASE i # 1
    <3>1. i - 1 \in 1 .. n /\ (i - 1) + 1 = i
      BY <2>3
    <3> QED
      BY <1>3, <1>4, <2>1, <3>1
  <2> QED
    BY <2>2, <2>3
<1>6. ASSUME NEW x \in ToSet(s) \cup {e} PROVE x \in ToSet(t)
  <2>1. CASE x = e
    <3>1. 1 \in 1 .. (n + 1)
      OBVIOUS
    <3> QED
      BY <1>3, <1>4, <2>1, <3>1
  <2>2. CASE x # e
    <3>1. PICK i \in 1 .. n : x = s[i]
      BY <1>4, <2>2
    <3>2. i + 1 \in 1 .. (n + 1) /\ t[i + 1] = x
      BY <1>3, <3>1
    <3> QED
      BY <1>4, <3>2
  <2> QED
    BY <2>1, <2>2
<1> QED
  BY <1>1, <1>5, <1>6

\* The next event is taken from what the call has brought.
LEMMA TakeFirst ==
    ASSUME NEW w \in Seq(Events), NEW h \in Seq(Events), NEW q \in Seq(Events), w # <<>>
    PROVE  w \o h \o q = <<Head(w)>> \o (Tail(w) \o h \o q)
<1>1. PICK e \in Events, r \in Seq(Events) : e = Head(w) /\ r = Tail(w)
  <2>1. Head(w) \in Events /\ Tail(w) \in Seq(Events)
    OBVIOUS
  <2> QED
    BY <2>1, Zenon
<1>2. w = <<e>> \o r /\ <<e>> \in Seq(Events)
  BY <1>1
<1>3. PICK rest \in Seq(Events) : rest = r \o h
  BY ConcatProperties, Zenon
<1>4. w \o h = <<e>> \o rest
  BY <1>2, <1>3, ConcatAssociative
<1>5. (<<e>> \o rest) \o q = <<e>> \o (rest \o q)
  BY <1>2, ConcatAssociative
<1> QED
  BY <1>1, <1>3, <1>4, <1>5

\* The handler takes the next event, and writes it.
LEMMA PassOn ==
    ASSUME NEW w \in Seq(Events), NEW h \in Seq(Events), NEW q \in Seq(Events)
    PROVE  /\ q # <<>> => w \o <<Head(q)>> \o Tail(q) = w \o <<>> \o q
           /\ (w \o h) \o <<>> \o q = w \o h \o q
<1>1. ASSUME q # <<>> PROVE w \o <<Head(q)>> \o Tail(q) = w \o <<>> \o q
  <2>1. PICK e \in Events, r \in Seq(Events) : e = Head(q) /\ r = Tail(q)
    <3>1. Head(q) \in Events /\ Tail(q) \in Seq(Events)
      BY <1>1
    <3> QED
      BY <3>1, Zenon
  <2>2. q = <<e>> \o r /\ <<e>> \in Seq(Events)
    BY <1>1, <2>1
  <2>3. w \o <<>> = w
    BY ConcatEmptySeq
  <2>4. (w \o <<e>>) \o r = w \o (<<e>> \o r)
    BY <2>2, ConcatAssociative
  <2> QED
    BY <2>1, <2>2, <2>3, <2>4
<1>2. (w \o h) \o <<>> \o q = w \o h \o q
  <2>1. PICK a \in Seq(Events) : a = w \o h
    BY ConcatProperties, Zenon
  <2>2. a \o <<>> = a
    BY ConcatEmptySeq
  <2> QED
    BY <2>1, <2>2
<1> QED
  BY <1>1, <1>2

\* Events at hand, written, in the server's hand, and queued.
Line(a, w, h, q) == a \o (w \o h \o q)
OneMore(s, e) == Append(s, e)

\* In whichever order three queues are joined.
Join(s, t) == s \o t

LEMMA JoinThree ==
    ASSUME NEW s \in Seq(Events), NEW t \in Seq(Events), NEW u \in Seq(Events)
    PROVE  Join(s, t) \in Seq(Events) /\ Join(s, Join(t, u)) = Join(Join(s, t), u)
<1>1. Join(s, t) \in Seq(Events)
  BY DEF Join
<1>2. Join(s, Join(t, u)) = Join(Join(s, t), u)
  BY ConcatAssociative DEF Join
<1> QED
  BY <1>1, <1>2

\* An event more waits behind all others.
LEMMA QueueUp ==
    ASSUME NEW a \in Seq(Events), NEW w \in Seq(Events), NEW h \in Seq(Events),
           NEW q \in Seq(Events), NEW e \in Events
    PROVE  Line(a, w, h, OneMore(q, e)) = OneMore(Line(a, w, h, q), e)
<1>1. /\ Line(a, w, h, q) = Join(a, Join(Join(w, h), q))
      /\ Line(a, w, h, OneMore(q, e)) = Join(a, Join(Join(w, h), OneMore(q, e)))
  BY DEF Line, Join
<1>2. ASSUME NEW s \in Seq(Events) PROVE OneMore(s, e) = Join(s, <<e>>) /\ <<e>> \in Seq(Events)
  BY AppendIsConcat DEF OneMore, Join
<1> DEFINE x == <<e>>
           b == Join(w, h)
           c == Join(b, q)
<1>3. b \in Seq(Events) /\ c \in Seq(Events)
  BY JoinThree
<1> HIDE DEF x, b
<1>4. OneMore(q, e) = Join(q, x) /\ x \in Seq(Events)
  BY <1>2 DEF x
<1>5. Join(b, Join(q, x)) = Join(c, x)
  BY <1>3, <1>4, JoinThree
<1> HIDE DEF c
<1>6. Join(a, c) \in Seq(Events) /\ Join(a, Join(c, x)) = Join(Join(a, c), x)
  BY <1>3, <1>4, JoinThree
<1>7. OneMore(Join(a, c), e) = Join(Join(a, c), x)
  BY <1>2, <1>6 DEF x
<1> QED
  BY <1>1, <1>4, <1>5, <1>6, <1>7, Zenon DEF b, c

\* With one notice more, the page will show what that tells besides.
LEMMA ToldLast ==
    ASSUME NEW base, NEW queue \in Seq(Notices), NEW notice \in Notices
    PROVE  Told(base, Append(queue, notice)) = Heard(Told(base, queue), notice)
<1> DEFINE all == Append(queue, notice)
<1>1. PICK n \in Nat : n = Len(queue)
  OBVIOUS
<1>2. /\ DOMAIN queue = 1 .. n /\ Len(queue) = n
      /\ DOMAIN all = 1 .. (n + 1) /\ Len(all) = n + 1
      /\ \A i \in 1 .. n : all[i] = queue[i]
      /\ all[n + 1] = notice
  BY <1>1
<1>3. notice.users \subseteq Users /\ notice.kind \in EventKinds
  BY DEF Notices
<1> HIDE DEF all
<1> SUFFICES ASSUME NEW u \in Users
             PROVE  u \in Told(base, all) <=>
                       IF u \in notice.users THEN notice.kind = "UserJoined"
                                             ELSE u \in Told(base, queue)
  BY <1>3 DEF all, Told, Heard
<1>4. CASE u \in notice.users
  <2>1. u \in Told(base, all) => notice.kind = "UserJoined"
    <3> SUFFICES ASSUME u \in Told(base, all) PROVE notice.kind = "UserJoined"
      OBVIOUS
    <3>1. n + 1 \in DOMAIN all /\ u \in all[n + 1].users
      BY <1>2, <1>4
    <3>2. PICK i \in DOMAIN all : /\ all[i].kind = "UserJoined"
                                  /\ \A j \in (i + 1) .. Len(all) : u \notin all[j].users
      BY <3>1 DEF Told
    <3>3. ~(i < n + 1)
      BY <1>2, <3>1, <3>2
    <3>4. i = n + 1
      BY <1>2, <3>3
    <3> QED
      BY <1>2, <3>2, <3>4
  <2>2. notice.kind = "UserJoined" => u \in Told(base, all)
    <3> SUFFICES ASSUME notice.kind = "UserJoined" PROVE u \in Told(base, all)
      OBVIOUS
    <3>1. /\ n + 1 \in DOMAIN all
          /\ all[n + 1].kind = "UserJoined" /\ u \in all[n + 1].users
          /\ \A j \in ((n + 1) + 1) .. Len(all) : u \notin all[j].users
      BY <1>2, <1>4
    <3> QED
      BY <3>1 DEF Told
  <2> QED
    BY <1>4, <2>1, <2>2
<1>5. CASE u \notin notice.users
  <2>1. ASSUME NEW i \in 1 .. n
        PROVE  (\A j \in (i + 1) .. Len(all) : u \notin all[j].users)
                  <=> (\A j \in (i + 1) .. Len(queue) : u \notin queue[j].users)
    BY <1>2, <1>5
  <2>2. (\A j \in DOMAIN all : u \notin all[j].users)
           <=> (\A j \in DOMAIN queue : u \notin queue[j].users)
    BY <1>2, <1>5
  <2>3. ASSUME NEW i \in DOMAIN all, u \in all[i].users
        PROVE  i \in 1 .. n /\ all[i] = queue[i]
    BY <1>2, <1>5, <2>3
  <2>4. u \in Told(base, all) => u \in Told(base, queue)
    <3> SUFFICES ASSUME u \in Told(base, all) PROVE u \in Told(base, queue)
      OBVIOUS
    <3>1. CASE u \in base /\ \A j \in DOMAIN all : u \notin all[j].users
      BY <2>2, <3>1 DEF Told
    <3>2. CASE \E i \in DOMAIN all :
                  /\ all[i].kind = "UserJoined"
                  /\ u \in all[i].users
                  /\ \A j \in (i + 1) .. Len(all) : u \notin all[j].users
      <4>1. PICK i \in DOMAIN all :
                  /\ all[i].kind = "UserJoined"
                  /\ u \in all[i].users
                  /\ \A j \in (i + 1) .. Len(all) : u \notin all[j].users
        BY <3>2
      <4>2. i \in DOMAIN queue /\ all[i] = queue[i]
        BY <1>2, <2>3, <4>1
      <4>3. \A j \in (i + 1) .. Len(queue) : u \notin queue[j].users
        BY <1>2, <2>1, <4>1, <4>2
      <4> QED
        BY <4>1, <4>2, <4>3 DEF Told
    <3> QED
      BY <3>1, <3>2 DEF Told
  <2>5. u \in Told(base, queue) => u \in Told(base, all)
    <3> SUFFICES ASSUME u \in Told(base, queue) PROVE u \in Told(base, all)
      OBVIOUS
    <3>1. CASE u \in base /\ \A j \in DOMAIN queue : u \notin queue[j].users
      BY <2>2, <3>1 DEF Told
    <3>2. CASE \E i \in DOMAIN queue :
                  /\ queue[i].kind = "UserJoined"
                  /\ u \in queue[i].users
                  /\ \A j \in (i + 1) .. Len(queue) : u \notin queue[j].users
      <4>1. PICK i \in DOMAIN queue :
                  /\ queue[i].kind = "UserJoined"
                  /\ u \in queue[i].users
                  /\ \A j \in (i + 1) .. Len(queue) : u \notin queue[j].users
        BY <3>2
      <4>2. i \in DOMAIN all /\ all[i] = queue[i]
        BY <1>2
      <4>3. \A j \in (i + 1) .. Len(all) : u \notin all[j].users
        BY <1>2, <2>1, <4>1
      <4> QED
        BY <4>1, <4>2, <4>3 DEF Told
    <3> QED
      BY <3>1, <3>2 DEF Told
  <2> QED
    BY <1>5, <2>4, <2>5
<1> QED
  BY <1>4, <1>5

\* A notice shown is one told less.
LEMMA ToldFirst ==
    ASSUME NEW base \in SUBSET Users, NEW queue \in Seq(Notices), queue # <<>>
    PROVE  Told(base, queue) = Told(Heard(base, Head(queue)), Tail(queue))
<1> DEFINE rest == Tail(queue)
           notice == Head(queue)
<1>1. PICK n \in Nat : n = Len(queue) - 1
  OBVIOUS
<1>2. /\ DOMAIN queue = 1 .. (n + 1) /\ Len(queue) = n + 1
      /\ DOMAIN rest = 1 .. n /\ Len(rest) = n
      /\ \A i \in 1 .. n : rest[i] = queue[i + 1]
      /\ queue[1] = notice
  BY <1>1
<1>3. notice \in Notices
  OBVIOUS
<1> HIDE DEF rest, notice
<1> SUFFICES ASSUME NEW u \in Users
             PROVE  u \in Told(base, queue) <=> u \in Told(Heard(base, notice), rest)
  BY DEF Told, rest, notice
<1> DEFINE LastWord(s, i) == /\ s[i].kind = "UserJoined"
                         /\ u \in s[i].users
                         /\ \A j \in (i + 1) .. Len(s) : u \notin s[j].users
           NoWord(s) == \A j \in DOMAIN s : u \notin s[j].users
<1>4. ASSUME NEW i \in 1 .. n
      PROVE  LastWord(rest, i) <=> LastWord(queue, i + 1)
  <2>1. ASSUME \A j \in (i + 1) .. Len(rest) : u \notin rest[j].users,
               NEW j \in ((i + 1) + 1) .. Len(queue)
        PROVE  u \notin queue[j].users
    <3>1. j - 1 \in (i + 1) .. Len(rest) /\ j - 1 \in 1 .. n /\ (j - 1) + 1 = j
      BY <1>2
    <3> QED
      BY <1>2, <2>1, <3>1
  <2>2. ASSUME \A j \in ((i + 1) + 1) .. Len(queue) : u \notin queue[j].users,
               NEW j \in (i + 1) .. Len(rest)
        PROVE  u \notin rest[j].users
    <3>1. j + 1 \in ((i + 1) + 1) .. Len(queue) /\ j \in 1 .. n
      BY <1>2
    <3> QED
      BY <1>2, <2>2, <3>1
  <2>3. rest[i] = queue[i + 1]
    BY <1>2
  <2> QED
    BY <2>1, <2>2, <2>3
<1>5. LastWord(queue, 1) <=> /\ notice.kind = "UserJoined"
                         /\ u \in notice.users
                         /\ NoWord(rest)
  <2>1. ASSUME \A j \in 2 .. Len(queue) : u \notin queue[j].users, NEW j \in DOMAIN rest
        PROVE  u \notin rest[j].users
    <3>1. j + 1 \in 2 .. Len(queue) /\ j \in 1 .. n
      BY <1>2
    <3> QED
      BY <1>2, <2>1, <3>1
  <2>2. ASSUME NoWord(rest), NEW j \in 2 .. Len(queue)
        PROVE  u \notin queue[j].users
    <3>1. j - 1 \in DOMAIN rest /\ j - 1 \in 1 .. n /\ (j - 1) + 1 = j
      BY <1>2
    <3> QED
      BY <1>2, <2>2, <3>1
  <2>3. 1 + 1 = 2
    OBVIOUS
  <2> QED
    BY <1>2, <2>1, <2>2, <2>3
<1>6. NoWord(queue) <=> u \notin notice.users /\ NoWord(rest)
  <2>1. ASSUME NoWord(queue), NEW j \in DOMAIN rest
        PROVE  u \notin rest[j].users
    <3>1. j + 1 \in DOMAIN queue /\ j \in 1 .. n
      BY <1>2
    <3> QED
      BY <1>2, <2>1, <3>1
  <2>2. ASSUME NoWord(rest), u \notin notice.users, NEW j \in DOMAIN queue
        PROVE  u \notin queue[j].users
    <3>1. CASE j = 1
      BY <1>2, <2>2, <3>1
    <3>2. CASE j # 1
      <4>1. j - 1 \in DOMAIN rest /\ j - 1 \in 1 .. n /\ (j - 1) + 1 = j
        BY <1>2, <3>2
      <4> QED
        BY <1>2, <2>2, <4>1
    <3> QED
      BY <3>1, <3>2
  <2>3. 1 \in DOMAIN queue
    BY <1>2
  <2> QED
    BY <1>2, <2>1, <2>2, <2>3
<1>7. /\ u \in Told(base, queue)
            <=> (\E i \in DOMAIN queue : LastWord(queue, i)) \/ (u \in base /\ NoWord(queue))
      /\ u \in Told(Heard(base, notice), rest)
            <=> \/ \E i \in DOMAIN rest : LastWord(rest, i)
                \/ u \in Heard(base, notice) /\ NoWord(rest)
  BY DEF Told
<1>8. u \in Heard(base, notice)
         <=> IF u \in notice.users THEN notice.kind = "UserJoined" ELSE u \in base
  BY DEF Heard
<1> HIDE DEF LastWord, NoWord
<1>9. (\E i \in DOMAIN queue : LastWord(queue, i))
         <=> LastWord(queue, 1) \/ \E i \in DOMAIN rest : LastWord(rest, i)
  <2>1. ASSUME NEW i \in DOMAIN queue, LastWord(queue, i), i # 1
        PROVE  \E k \in DOMAIN rest : LastWord(rest, k)
    <3>1. i - 1 \in DOMAIN rest /\ i - 1 \in 1 .. n /\ (i - 1) + 1 = i
      BY <1>2, <2>1
    <3> QED
      BY <1>4, <2>1, <3>1
  <2>2. ASSUME NEW i \in DOMAIN rest, LastWord(rest, i)
        PROVE  \E k \in DOMAIN queue : LastWord(queue, k)
    <3>1. i + 1 \in DOMAIN queue /\ i \in 1 .. n
      BY <1>2
    <3> QED
      BY <1>4, <2>2, <3>1
  <2>3. 1 \in DOMAIN queue
    BY <1>2
  <2> QED
    BY <2>1, <2>2, <2>3
<1> QED
  BY <1>5, <1>6, <1>7, <1>8, <1>9

\* Nothing left to tell; and while nobody is told to have gone, nobody goes.
LEMMA ToldBase ==
    ASSUME NEW base \in SUBSET Users, NEW queue \in Seq(Notices)
    PROVE  /\ Told(base, <<>>) = base
           /\ (\A n \in ToSet(queue) : n.kind = "UserJoined")
                 => base \subseteq Told(base, queue)
<1>1. Told(base, <<>>) = base
  BY DEF Told
<1>2. ASSUME \A n \in ToSet(queue) : n.kind = "UserJoined", NEW u \in base
      PROVE  u \in Told(base, queue)
  <2> DEFINE About == {i \in DOMAIN queue : u \in queue[i].users}
  <2>1. CASE About = {}
    BY <2>1 DEF Told
  <2>2. CASE About # {}
    <3>1. DOMAIN queue = 1 .. Len(queue) /\ Len(queue) \in Nat
      OBVIOUS
    <3> DEFINE Back == {Len(queue) - i : i \in About}
    <3>2. Back \in SUBSET Nat /\ Back # {}
      BY <2>2, <3>1
    <3>3. PICK k \in Back : \A m \in Back : k <= m
      BY <3>2, Least
    <3>4. PICK i \in About : k = Len(queue) - i
      BY <3>3
    <3>5. ASSUME NEW j \in (i + 1) .. Len(queue) PROVE u \notin queue[j].users
      <4>1. j \in DOMAIN queue /\ Len(queue) - j < k
        BY <3>1, <3>4
      <4>2. ASSUME u \in queue[j].users PROVE FALSE
        <5>1. Len(queue) - j \in Back
          BY <4>1, <4>2
        <5>2. k <= Len(queue) - j
          BY <3>3, <5>1, Zenon
        <5>3. k \in Nat
          BY <3>2, <3>3, Zenon
        <5> QED
          BY <3>1, <4>1, <5>2, <5>3
      <4> QED
        BY <4>2
    <3>6. queue[i].kind = "UserJoined"
      BY <1>2, <3>4 DEF ToSet
    <3> QED
      BY <3>4, <3>5, <3>6 DEF Told
  <2> QED
    BY <2>1, <2>2
<1> QED
  BY <1>1, <1>2

\* Whether the client's own user counts among the others makes no difference to them.
LEMMA ToldOthers ==
    ASSUME NEW base, NEW other, NEW queue, base \cup {Me} = other \cup {Me}
    PROVE  Told(base, queue) \cup {Me} = Told(other, queue) \cup {Me}
<1>1. \A u : u # Me => (u \in base <=> u \in other)
  OBVIOUS
<1>2. \A u : u # Me => (u \in Told(base, queue) <=> u \in Told(other, queue))
  BY <1>1 DEF Told
<1> QED
  BY <1>2

-----------------------------------------------------------------------------
(* What the page will show.                                                 *)

Preparing == {"stop_old", "join_old", "start"}
Following == {"room", "check", "subscribe", "notify", "enter", "page"}

\* The participants of the client's meeting.
Listed == ToSet(m_meetings[ui_meeting].participants)

\* The response is in, its event stream is not asked for yet.
NothingYet ==
    /\ thread \in {"none", "over"}
    /\ pulls = {}
    /\ ui_queue = << >>
    /\ m_current_meeting_id = NoMeeting
    /\ m_user_meetings[Me] = ui_meeting
    /\ Listed = participants \cup {Me}
    /\ todo = participants \ {Me}

\* The meeting has ended: the thread knows, or will read of it.
Over ==
    \/ thread \in {"last", "finish", "over"}
    \/ thread \in {"cleanup", "tell"} /\ event.kind = "MeetingEnded"

Doomed == Over \/ \E e \in ToSet(TileWay) : e.kind = "MeetingEnded"

\* The engine is in the meeting from "room" on, its user all along.
Engaged ==
    /\ asked[call] = ui_meeting
    /\ m_current_meeting_id = IF ui = "room" THEN NoMeeting ELSE ui_meeting
    /\ ui \notin {"room", "check", "subscribe"} => todo = {}
    /\ m_user_meetings[Me] = ui_meeting

\* The call waits to be taken up, or is the user's stream of the meeting.
Open ==
    \/ stream[call] = "free" /\ thread \in {"loop", "read"}
    \/ /\ call \in m_subscriptions[ui_meeting]
       /\ stream[call] # "exit"
       /\ sub_of[call].user = Me

\* With no gap, users join only when the engine is in the meeting, and leave only
\* when the page is open.
Heeds ==
    /\ \A e \in ToSet(TileWay) :
          /\ e.trigger_user # Me
          /\ \/ e.kind = "UserJoined" /\ ui # "room"
             \/ e.kind = "UserLeft" /\ ui = "page"
    /\ \A n \in ToSet(ui_queue) : \/ n.kind = "UserJoined"
                                  \/ n.kind = "UserLeft" /\ ui = "page"

\* The page shows the users of the response once it opens.
Base == IF ui = "page" THEN tiles ELSE participants \ {Me}

\* With all that is on its way, sessions and page come to what the server lists.
PullsFollow == Replayed(pulls \cup todo \cup {Me}, PullWay) = Listed
TilesFollow == Replayed(Told(Base, ui_queue) \cup {Me}, TileWay) = Listed

Follows == Engaged /\ Open /\ Heeds /\ PullsFollow /\ TilesFollow

Followed ==
    /\ call \in Subs
    /\ cancelled[call] => thread \in {"finish", "over"}
    /\ Doomed \/ Follows

ViewInv ==
    history = {} => /\ ui \in Preparing => NothingYet
                    /\ ui \in Following => Followed

\* The way to the client is made of sequences of events.
LEMMA WayTypes ==
    ASSUME ServerInv, ClientTypes, call \in Subs
    PROVE  /\ wire[call] \in Seq(Events) /\ in_hand[call] \in Seq(Events)
           /\ m_events[call] \in Seq(Events)
           /\ Coming \in Seq(Events)
           /\ thread \in TileStages => event \in Events
           /\ PullWay \in Seq(Events) /\ TileWay \in Seq(Events)
           /\ ui_queue \in Seq(Notices)
           /\ Base \in SUBSET Users
           /\ ui_meeting # NoMeeting \/ ui = "lobby"
<1>1. /\ wire[call] \in Seq(Events) /\ in_hand[call] \in Seq(Events)
      /\ m_events[call] \in Seq(Events)
  BY DEF ClientTypes, ThreadTypes, ServerInv, Inv, TypeOK, HubTypeOK, StreamTypeOK
<1>2. Coming \in Seq(Events)
  BY <1>1, ConcatProperties DEF Coming
<1>3. thread \in TileStages => event \in Events
  BY DEF ClientTypes, StageInv, TileStages, PullStages
<1>4. /\ AtHand(PullStages) \in Seq(Events)
      /\ AtHand(TileStages) \in Seq(Events)
  BY <1>3 DEF AtHand, TileStages
<1>5. PullWay \in Seq(Events) /\ TileWay \in Seq(Events)
  BY <1>2, <1>4, ConcatProperties DEF PullWay, TileWay
<1>6. ui_queue \in Seq(Notices) /\ Base \in SUBSET Users /\ (ui_meeting # NoMeeting \/ ui = "lobby")
  BY DEF ClientTypes, UiTypes, Base
<1> QED
  BY <1>1, <1>2, <1>3, <1>5, <1>6

\* The way is the same if none of its parts has changed.
LEMMA WayFrame ==
    ASSUME UNCHANGED <<thread, event, call, wire, in_hand, m_events>>
    PROVE  /\ TileWay' = TileWay /\ PullWay' = PullWay
           /\ Doomed' <=> Doomed
BY DEF TileWay, PullWay, AtHand, Coming, Doomed, Over

\* Nothing on the way, nothing to come.
LEMMA AllShown ==
    ASSUME ServerInv, ClientTypes, ViewInv, Quiet, history = {}
    PROVE  ViewMatches
<1>1. /\ ui = "page" /\ ui_queue = << >> /\ thread = "read" /\ Coming = << >>
      /\ call \in Subs
  BY DEF Quiet, Coming, ClientTypes, ThreadTypes
<1>2. PullWay = << >> /\ TileWay = << >>
  BY <1>1 DEF PullWay, TileWay, AtHand, PullStages, TileStages
<1>3. ToSet(<< >>) = {}
  BY DEF ToSet
<1>4. Follows
  BY <1>1, <1>2, <1>3 DEF ViewInv, Following, Followed, Doomed, Over
<1>5. todo = {} /\ m_user_meetings[Me] = ui_meeting
  BY <1>1, <1>4 DEF Follows, Engaged
<1>6. Base = tiles /\ tiles \in SUBSET (Users \ {Me}) /\ pulls \in SUBSET (Users \ {Me})
  BY <1>1 DEF Base, ClientTypes, UiTypes
<1>7. pulls \cup {Me} = Listed
  BY <1>2, <1>4, <1>5, ReplayNothing DEF Follows, PullsFollow
<1>8. tiles \cup {Me} = Listed
  <2>1. Told(tiles, << >>) = tiles
    <3>1. tiles \in SUBSET Users /\ << >> \in Seq(Notices)
      BY <1>6
    <3> QED
      BY <3>1, ToldBase
  <2> QED
    BY <1>1, <1>2, <1>4, <1>6, <2>1, ReplayNothing DEF Follows, TilesFollow
<1>9. Contains(m_meetings[ui_meeting].participants, Me)
  <2>1. ui_meeting # NoMeeting
    BY <1>1, WayTypes
  <2>2. ui_meeting \in DOMAIN m_meetings
    BY <1>5, <2>1, ConferenceClientAssumption
       DEF ServerInv, Inv, MembershipConsistent, IndexMatchesLists
  <2> QED
    BY <1>5, <2>2, ConferenceClientAssumption
       DEF ServerInv, Inv, MembershipConsistent, IndexMatchesLists
<1> QED
  BY <1>6, <1>7, <1>8, <1>9 DEF ViewMatches, Listed

\* The UI thread on its way into the meeting, and in it.
LEMMA UiFrame ==
    ASSUME \/ SetRoomInfo \/ CheckParticipant \/ SubscribeParticipant
           \/ NotifyParticipants \/ EnterConference \/ DeliverNotice
    PROVE  /\ UNCHANGED <<thread, event, call, asked, wire, history>>
           /\ UNCHANGED <<stream, in_hand, m_events, cancelled, m_subscriptions, sub_of>>
           /\ UNCHANGED <<m_meetings, m_user_meetings, ui_meeting>>
BY DEF SetRoomInfo, CheckParticipant, SubscribeParticipant, NotifyParticipants,
   EnterConference,
       DeliverNotice, vars, meetingVars, hubVars, streamVars, threadVars, callVars, pageVars

\* What the server and the event thread have does not change with the UI thread.
LEMMA UiKeeps ==
    ASSUME Follows, UNCHANGED <<thread, event, call, asked, wire, stream, in_hand, m_events>>,
           UNCHANGED <<m_subscriptions, sub_of, m_meetings, m_user_meetings, ui_meeting>>
    PROVE  /\ Open' /\ Listed' = Listed
           /\ TileWay' = TileWay /\ PullWay' = PullWay
           /\ asked'[call'] = ui_meeting' /\ m_user_meetings'[Me] = ui_meeting'
BY WayFrame DEF Follows, Open, Listed, Engaged

\* The steps of the UI thread on the way into the meeting.
LEMMA RoomView ==
    ASSUME Follows, SetRoomInfo, ui' \in Following
    PROVE  Follows'
<1>1. /\ Open' /\ Listed' = Listed /\ TileWay' = TileWay /\ PullWay' = PullWay
      /\ asked'[call'] = ui_meeting' /\ m_user_meetings'[Me] = ui_meeting'
  BY UiFrame, UiKeeps
<1>2. /\ ui = "room" /\ ui' = (IF todo = {} THEN "enter" ELSE "check")
      /\ m_current_meeting_id' = ui_meeting
      /\ UNCHANGED <<ui_meeting, participants, todo, tiles, ui_queue, pulls>>
  BY DEF SetRoomInfo, UiGoes, Following, pageVars
<1>3. Engaged'
  BY <1>1, <1>2 DEF Engaged
<1>4. Heeds'
  BY <1>1, <1>2 DEF Follows, Heeds
<1>5. PullsFollow' /\ TilesFollow'
  <2>1. Base' = Base
    BY <1>2 DEF Base
  <2> QED
    BY <1>1, <1>2, <2>1 DEF Follows, PullsFollow, TilesFollow
<1> QED
  BY <1>1, <1>3, <1>4, <1>5 DEF Follows

LEMMA CheckView ==
    ASSUME Follows, CheckParticipant, ui' \in Following
    PROVE  Follows'
<1>1. /\ Open' /\ Listed' = Listed /\ TileWay' = TileWay /\ PullWay' = PullWay
      /\ asked'[call'] = ui_meeting' /\ m_user_meetings'[Me] = ui_meeting'
  BY UiFrame, UiKeeps
<1>2. /\ ui = "check" /\ ui' = "subscribe"
      /\ UNCHANGED <<ui_meeting, participants, todo, tiles, ui_queue, pulls>>
      /\ UNCHANGED m_current_meeting_id
  BY DEF CheckParticipant, UiGoes, Following, pageVars, engineVars
<1>3. Engaged'
  BY <1>1, <1>2 DEF Follows, Engaged
<1>4. Heeds'
  BY <1>1, <1>2 DEF Follows, Heeds
<1>5. PullsFollow' /\ TilesFollow'
  <2>1. Base' = Base
    BY <1>2 DEF Base
  <2> QED
    BY <1>1, <1>2, <2>1 DEF Follows, PullsFollow, TilesFollow
<1> QED
  BY <1>1, <1>3, <1>4, <1>5 DEF Follows

LEMMA SubscribeView ==
    ASSUME Follows, SubscribeParticipant, ui' \in Following
    PROVE  Follows'
<1>1. /\ Open' /\ Listed' = Listed /\ TileWay' = TileWay /\ PullWay' = PullWay
      /\ asked'[call'] = ui_meeting' /\ m_user_meetings'[Me] = ui_meeting'
  BY UiFrame, UiKeeps
<1>2. PICK u \in todo :
         /\ ui = "subscribe" /\ ui' = (IF todo = {u} THEN "notify" ELSE "check")
         /\ pulls' = pulls \cup {u}
         /\ todo' = todo \ {u}
  BY DEF SubscribeParticipant, UiGoes, Following
<1>3. /\ UNCHANGED <<ui_meeting, participants, tiles, ui_queue>>
      /\ UNCHANGED m_current_meeting_id
  BY DEF SubscribeParticipant
<1>4. Engaged'
  BY <1>1, <1>2, <1>3 DEF Follows, Engaged
<1>5. Heeds'
  BY <1>1, <1>2, <1>3 DEF Follows, Heeds
<1>6. PullsFollow' /\ TilesFollow'
  <2>1. Base' = Base
    BY <1>2, <1>3 DEF Base
  <2>2. pulls' \cup todo' \cup {Me} = pulls \cup todo \cup {Me}
    BY <1>2
  <2> QED
    BY <1>1, <1>3, <2>1, <2>2 DEF Follows, PullsFollow, TilesFollow
<1> QED
  BY <1>1, <1>4, <1>5, <1>6 DEF Follows

\* The users of the response are told of, and shown already: it makes no difference.
LEMMA NotifyView ==
    ASSUME ServerInv, ClientTypes, call \in Subs, Follows, NotifyParticipants
    PROVE  Follows'
<1> DEFINE n == [kind |-> "UserJoined", users |-> participants \ {Me}]
<1>1. /\ Open' /\ Listed' = Listed /\ TileWay' = TileWay /\ PullWay' = PullWay
      /\ asked'[call'] = ui_meeting' /\ m_user_meetings'[Me] = ui_meeting'
  BY UiFrame, UiKeeps
<1>2. /\ ui = "notify" /\ ui' = "enter" /\ ui_queue' = Append(ui_queue, n)
      /\ UNCHANGED <<ui_meeting, participants, todo, tiles, pulls>>
      /\ UNCHANGED m_current_meeting_id
  BY DEF NotifyParticipants, UiGoes, Post, pageVars, engineVars
<1>3. ui_queue \in Seq(Notices) /\ n \in Notices /\ Base \in SUBSET Users
  BY WayTypes DEF ClientTypes, UiTypes, Notices, EventKinds
<1>4. n.kind = "UserJoined" /\ n.users = Base
  BY <1>2 DEF Base
<1> HIDE DEF n
<1>5. Engaged'
  BY <1>1, <1>2 DEF Follows, Engaged
<1>6. Heeds'
  <2>1. ToSet(Append(ui_queue, n)) = ToSet(ui_queue) \cup {n}
    BY <1>3, MembersLast
  <2> QED
    BY <1>1, <1>2, <1>4, <2>1 DEF Follows, Heeds
<1>7. PullsFollow' /\ TilesFollow'
  <2>1. \A m \in ToSet(ui_queue) : m.kind = "UserJoined"
    BY <1>2 DEF Follows, Heeds
  <2>2. Base \subseteq Told(Base, ui_queue)
    BY <1>3, <2>1, ToldBase
  <2>3. Told(Base, Append(ui_queue, n)) = Told(Base, ui_queue)
    <3>1. Told(Base, Append(ui_queue, n)) = Heard(Told(Base, ui_queue), n)
      BY <1>3, ToldLast, Zenon
    <3> QED
      BY <1>4, <2>2, <3>1 DEF Heard
  <2>4. Base' = Base
    BY <1>2 DEF Base
  <2> QED
    BY <1>1, <1>2, <2>3, <2>4 DEF Follows, PullsFollow, TilesFollow
<1> QED
  BY <1>1, <1>5, <1>6, <1>7 DEF Follows

LEMMA EnterView ==
    ASSUME Follows, EnterConference, ui' \in Following
    PROVE  Follows'
<1>1. /\ Open' /\ Listed' = Listed /\ TileWay' = TileWay /\ PullWay' = PullWay
      /\ asked'[call'] = ui_meeting' /\ m_user_meetings'[Me] = ui_meeting'
  BY UiFrame, UiKeeps
<1>2. /\ ui = "enter" /\ ui' = "page" /\ tiles' = participants \ {Me}
      /\ UNCHANGED <<ui_meeting, todo, ui_queue, pulls>>
      /\ UNCHANGED m_current_meeting_id
  BY DEF EnterConference, UiGoes, Following, engineVars
<1>3. Engaged'
  BY <1>1, <1>2 DEF Follows, Engaged
<1>4. Heeds'
  BY <1>1, <1>2 DEF Follows, Heeds
<1>5. PullsFollow' /\ TilesFollow'
  <2>1. Base' = Base
    BY <1>2 DEF Base
  <2> QED
    BY <1>1, <1>2, <2>1 DEF Follows, PullsFollow, TilesFollow
<1> QED
  BY <1>1, <1>3, <1>4, <1>5 DEF Follows

\* A notice shown: the page is that much closer to what is told.
LEMMA DeliverView ==
    ASSUME ServerInv, ClientTypes, call \in Subs, Follows, DeliverNotice, ui' \in Following
    PROVE  Follows'
<1>1. /\ Open' /\ Listed' = Listed /\ TileWay' = TileWay /\ PullWay' = PullWay
      /\ asked'[call'] = ui_meeting' /\ m_user_meetings'[Me] = ui_meeting'
  BY UiFrame, UiKeeps
<1>2. ui_queue \in Seq(Notices) /\ ui_queue # << >>
  BY DEF ClientTypes, UiTypes, DeliverNotice
<1>3. PICK n \in Notices, rest \in Seq(Notices) : n = Head(ui_queue) /\ rest = Tail(ui_queue)
  <2>1. Head(ui_queue) \in Notices /\ Tail(ui_queue) \in Seq(Notices)
    BY <1>2
  <2> QED
    BY <2>1, Zenon
<1>4. ToSet(ui_queue) = ToSet(rest) \cup {n}
  BY <1>2, <1>3, MembersNext
<1>5. /\ ui_queue' = rest
      /\ UNCHANGED <<ui_meeting, todo, pulls, participants>>
      /\ UNCHANGED m_current_meeting_id
  BY <1>3 DEF DeliverNotice, engineVars
<1>6. ui = "page" /\ ui' = "page" /\ n.kind \in {"UserJoined", "UserLeft"}
  <2>1. ui \in Idle /\ (ui' = ui \/ ui' = "lobby")
    BY DEF DeliverNotice
  <2>2. ui = "page" /\ ui' = "page"
    BY <2>1 DEF Idle, Following
  <2> QED
    BY <1>4, <2>2 DEF Follows, Heeds
<1>7. tiles' \cup {Me} = Heard(tiles, n) \cup {Me}
  <2>1. tiles' = IF ui = "lobby" THEN tiles
                 ELSE CASE n.kind = "UserJoined"   -> tiles \cup (n.users \ {Me})
                        [] n.kind = "UserLeft"     -> tiles \ n.users
                        [] n.kind = "MeetingEnded" -> {}
    BY <1>3 DEF DeliverNotice
  <2>2. CASE n.kind = "UserJoined"
    <3>1. tiles' = tiles \cup (n.users \ {Me})
      BY <1>6, <2>1, <2>2
    <3> QED
      BY <2>2, <3>1 DEF Heard
  <2>3. CASE n.kind = "UserLeft"
    <3>1. tiles' = tiles \ n.users
      BY <1>6, <2>1, <2>3
    <3> QED
      BY <2>3, <3>1 DEF Heard
  <2> QED
    BY <1>6, <2>2, <2>3
<1>8. Engaged'
  BY <1>1, <1>5, <1>6 DEF Follows, Engaged
<1>9. Heeds'
  BY <1>1, <1>4, <1>5, <1>6 DEF Follows, Heeds
<1>10. PullsFollow' /\ TilesFollow'
  <2>1. Base = tiles /\ Base' = tiles' /\ tiles \in SUBSET Users
    BY <1>6 DEF Base, ClientTypes, UiTypes
  <2>2. Told(tiles, ui_queue) = Told(Heard(tiles, n), rest)
    BY <1>2, <1>3, <2>1, ToldFirst
  <2>3. Told(tiles', rest) \cup {Me} = Told(Heard(tiles, n), rest) \cup {Me}
    BY <1>7, ToldOthers
  <2> QED
    BY <1>1, <1>5, <2>1, <2>2, <2>3 DEF Follows, PullsFollow, TilesFollow
<1> QED
  BY <1>1, <1>8, <1>9, <1>10 DEF Follows

\* The event in hand is the first of the way, at the stages where it counts.
LEMMA InHand ==
    ASSUME ServerInv, ClientTypes, call \in Subs
    PROVE  /\ PullWay = IF thread \in PullStages THEN <<event>> \o Coming ELSE Coming
           /\ TileWay = IF thread \in TileStages THEN <<event>> \o Coming ELSE Coming
           /\ thread \in TileStages =>
                 /\ ToSet(TileWay) = ToSet(Coming) \cup {event}
                 /\ \A x : Replayed(x, <<event>> \o Coming) = Replayed(Replay(x, event), Coming)
<1>1. Coming \in Seq(Events) /\ (thread \in TileStages => event \in Events)
  BY WayTypes
<1>2. PICK way \in Seq(Events) : way = Coming
  BY <1>1
<1>3. << >> \o way = way
  OBVIOUS
<1>4. /\ PullWay = IF thread \in PullStages THEN <<event>> \o Coming ELSE Coming
      /\ TileWay = IF thread \in TileStages THEN <<event>> \o Coming ELSE Coming
  BY <1>2, <1>3 DEF PullWay, TileWay, AtHand
<1>5. ASSUME thread \in TileStages
      PROVE  /\ ToSet(TileWay) = ToSet(Coming) \cup {event}
             /\ \A x : Replayed(x, <<event>> \o Coming) = Replayed(Replay(x, event), Coming)
  <2>1. PICK e \in Events : e = event
    BY <1>1, <1>5
  <2>2. PICK all \in Seq(Events) : all = <<e>> \o way
    <3>1. <<e>> \o way \in Seq(Events)
      OBVIOUS
    <3> QED
      BY <3>1
  <2>3. all # << >> /\ Head(all) = e /\ Tail(all) = way
    BY <2>2
  <2>4. ToSet(all) = ToSet(way) \cup {e}
    BY <2>3, MembersNext
  <2>5. \A x : Replayed(x, <<e>> \o way) = Replayed(Replay(x, e), way)
    BY ReplayFirst
  <2> QED
    BY <1>2, <1>4, <1>5, <2>1, <2>2, <2>4, <2>5
<1> QED
  BY <1>4, <1>5

LEMMA InHandNext ==
    ASSUME ServerInv, ClientTypes, call \in Subs, Coming' = Coming
    PROVE  /\ PullWay' = IF thread' \in PullStages THEN <<event'>> \o Coming ELSE Coming
           /\ TileWay' = IF thread' \in TileStages THEN <<event'>> \o Coming ELSE Coming
<1>1. PICK way \in Seq(Events) : way = Coming
  BY WayTypes
<1>2. << >> \o way = way
  OBVIOUS
<1>3. AtHand(PullStages)' = IF thread' \in PullStages THEN <<event'>> ELSE << >>
  BY DEF AtHand, PullStages
<1>4. AtHand(TileStages)' = IF thread' \in TileStages THEN <<event'>> ELSE << >>
  BY DEF AtHand, TileStages, PullStages
<1> QED
  BY <1>1, <1>2, <1>3, <1>4 DEF PullWay, TileWay

\* What the event thread leaves alone.
LEMMA EventFrame ==
    ASSUME EventThread
    PROVE  /\ UNCHANGED <<ui, ui_meeting, participants, todo, tiles, call, asked>>
           /\ UNCHANGED <<m_meetings, m_user_meetings, m_subscriptions, m_events>>
           /\ UNCHANGED <<sub_of, stream, in_hand>>
<1> USE DEF vars, meetingVars, hubVars, streamVars, pageVars, callVars
<1>1. CASE StopItself
  BY <1>1 DEF StopItself
<1>2. CASE ~StopItself
  BY <1>2 DEF EventThread, LoopEvents, ReadEvent, ReadFails, HandleMeetingEvent,
     CheckJoined,
     SubscribeJoined, UnsubscribeLeft, CleanupEnded, Notify, FinishCall
<1> QED
  BY <1>1, <1>2

LEMMA ComingFrame ==
    ASSUME EventThread, ~ReadEvent, ~FinishCall
    PROVE  Coming' = Coming
<1>1. UNCHANGED wire
  BY DEF EventThread, LoopEvents, ReadFails, HandleMeetingEvent, CheckJoined,
     SubscribeJoined,
     UnsubscribeLeft, CleanupEnded, Notify, StopItself
<1> QED
  BY <1>1, EventFrame DEF Coming

\* Reading an event takes it in hand.
LEMMA ReadWay ==
    ASSUME ServerInv, ClientTypes, call \in Subs, ReadEvent
    PROVE  /\ TileWay' = TileWay /\ PullWay' = PullWay
<1>1. /\ thread = "read" /\ thread' = "got"
      /\ wire[call] # << >>
      /\ event' = Head(wire[call]) /\ wire'[call] = Tail(wire[call])
      /\ UNCHANGED <<call, in_hand, m_events>>
  BY DEF ReadEvent, callVars, vars, streamVars, hubVars, ClientTypes, ThreadTypes
<1>2. PICK w \in Seq(Events), h \in Seq(Events), q \in Seq(Events) :
         w = wire[call] /\ h = in_hand[call] /\ q = m_events[call]
  BY WayTypes
<1>3. w \o h \o q = <<Head(w)>> \o (Tail(w) \o h \o q)
  <2>1. w # << >>
    BY <1>1, <1>2
  <2> QED
    BY <2>1, TakeFirst
<1>4. /\ AtHand(PullStages)' = <<Head(w)>> /\ AtHand(TileStages)' = <<Head(w)>>
      /\ AtHand(PullStages) = << >> /\ AtHand(TileStages) = << >>
  BY <1>1, <1>2 DEF AtHand, PullStages, TileStages
<1>5. Coming' = Tail(w) \o h \o q /\ Coming = w \o h \o q
  BY <1>1, <1>2 DEF Coming
<1>6. << >> \o Coming = Coming
  <2>1. PICK way \in Seq(Events) : way = Coming
    BY WayTypes
  <2> QED
    BY <2>1
<1> QED
  BY <1>3, <1>4, <1>5, <1>6 DEF PullWay, TileWay

\* An end on its way arrives, and is acted upon.
LEMMA DoomedEvent ==
    ASSUME ServerInv, ClientTypes, call \in Subs, Doomed, EventThread, UNCHANGED history
    PROVE  Doomed'
<1> DEFINE Ended(way) == \E e \in ToSet(way) : e.kind = "MeetingEnded"
           Ends == Ended(TileWay)
<1>1. CASE Over
  <2>1. \/ thread \in {"last", "finish", "over"}
        \/ thread \in {"cleanup", "tell"} /\ event.kind = "MeetingEnded"
    BY <1>1 DEF Over
  <2>2. Over'
    <3> USE <2>1
    <3>1. CASE CleanupEnded
      BY <3>1 DEF CleanupEnded, ThreadGoes, Over
    <3>2. CASE Notify
      BY <3>2 DEF Notify, ThreadGoes, Over
    <3>3. CASE StopItself \/ FinishCall
      BY <3>3 DEF StopItself, FinishCall, ThreadGoes, Over
    <3> QED
      BY <3>1, <3>2, <3>3 DEF EventThread, LoopEvents, ReadEvent, ReadFails,
         HandleMeetingEvent, CheckJoined, SubscribeJoined, UnsubscribeLeft, ThreadGoes
  <2> QED
    BY <2>2 DEF Doomed
<1>2. CASE ReadEvent
  <2>1. Ends
    BY <1>2 DEF Doomed, Over, ReadEvent
  <2> QED
    BY <1>2, <2>1, ReadWay DEF Doomed
<1>3. CASE ReadFails \/ StopItself \/ FinishCall
  BY <1>3 DEF Doomed, Over, ReadFails, StopItself, FinishCall, ThreadGoes
<1>4. CASE Ends /\ ~Over /\ ~ReadEvent /\ ~ReadFails /\ ~StopItself /\ ~FinishCall
  <2>1. Coming' = Coming
    BY <1>4, ComingFrame
  <2>2. \/ Over'
        \/ /\ thread \in TileStages <=> thread' \in TileStages
           /\ thread \in TileStages => event' = event
        \/ thread \in TileStages /\ thread' \notin TileStages /\ event.kind # "MeetingEnded"
    <3> USE DEF ThreadGoes, TileStages, PullStages, Over
    <3>1. CASE LoopEvents
      BY <3>1 DEF LoopEvents
    <3>2. CASE HandleMeetingEvent
      <4>1. thread = "got" /\ event.kind \in EventKinds
        BY <3>2, WayTypes DEF HandleMeetingEvent, Events
      <4>2. CASE event.kind = "MeetingEnded"
        BY <3>2, <4>1, <4>2 DEF HandleMeetingEvent
      <4>3. CASE event.kind # "MeetingEnded"
        BY <3>2, <4>1, <4>3 DEF HandleMeetingEvent, EventKinds
      <4> QED
        BY <4>2, <4>3
    <3>3. CASE CheckJoined
      BY <3>3 DEF CheckJoined, ClientTypes, StageInv
    <3>4. CASE SubscribeJoined
      BY <3>4 DEF SubscribeJoined, ClientTypes, StageInv
    <3>5. CASE UnsubscribeLeft
      BY <3>5 DEF UnsubscribeLeft
    <3>6. CASE CleanupEnded
      BY <1>4, <3>6 DEF CleanupEnded, ClientTypes, StageInv
    <3>7. CASE Notify
      BY <1>4, <3>7 DEF Notify
    <3> QED
      BY <1>4, <3>1, <3>2, <3>3, <3>4, <3>5, <3>6, <3>7 DEF EventThread
  <2>3. /\ TileWay = IF thread \in TileStages THEN <<event>> \o Coming ELSE Coming
        /\ TileWay' = IF thread' \in TileStages THEN <<event'>> \o Coming ELSE Coming
        /\ thread \in TileStages => ToSet(TileWay) = ToSet(Coming) \cup {event}
    BY <2>1, InHand, InHandNext
  <2>4. CASE Over'
    BY <2>4 DEF Doomed
  <2>5. CASE /\ thread \in TileStages <=> thread' \in TileStages
             /\ thread \in TileStages => event' = event
    <3>1. TileWay' = TileWay
      BY <2>3, <2>5
    <3> QED
      BY <1>4, <3>1 DEF Doomed
  <2>6. CASE /\ thread \in TileStages /\ thread' \notin TileStages
             /\ event.kind # "MeetingEnded"
    <3>1. TileWay' = Coming /\ ToSet(TileWay) = ToSet(Coming) \cup {event}
      BY <2>3, <2>6
    <3> QED
      BY <1>4, <2>6, <3>1 DEF Doomed
  <2> QED
    BY <2>2, <2>4, <2>5, <2>6
<1> QED
  BY <1>1, <1>2, <1>3, <1>4 DEF Doomed

\* The client is in the meeting, and a call taken up is an open stream.
LEMMA InMeeting ==
    ASSUME ServerInv, ClientTypes, call \in Subs, ui \in Following, Follows
    PROVE  /\ ui_meeting \in MeetingIds /\ ui_meeting # NoMeeting
           /\ ui_meeting \in DOMAIN m_meetings
           /\ m_meetings[ui_meeting].participants \in Seq(Users)
           /\ Contains(m_meetings[ui_meeting].participants, Me)
           /\ ParticipantError(ui_meeting, Me) = "kSuccess"
           /\ call \in m_subscriptions[ui_meeting] =>
                 Alive(call) /\ stream[call] # "free" /\ ~m_closed[call]
           /\ stream[call] # "free" \/ thread \in {"loop", "read"}
<1>1. ui_meeting \in MeetingIds /\ ui_meeting # NoMeeting
  BY DEF ClientTypes, UiTypes, Following
<1>2. m_user_meetings[Me] = ui_meeting
  BY DEF Follows, Engaged
<1>3. ui_meeting \in DOMAIN m_meetings /\ Contains(m_meetings[ui_meeting].participants, Me)
  BY <1>1, <1>2, ConferenceClientAssumption
     DEF ServerInv, Inv, MembershipConsistent, IndexMatchesLists
<1>4. m_meetings[ui_meeting].participants \in Seq(Users)
  BY <1>3, KnownMeeting DEF ServerInv, Inv
<1>5. m_meetings[ui_meeting].active
  <2>1. m_meetings[ui_meeting].participants # << >>
    BY <1>3, <1>4 DEF Contains
  <2> QED
    BY <1>3, <2>1 DEF ServerInv, Inv, MembershipConsistent, ActiveIffOccupied
<1>6. ParticipantError(ui_meeting, Me) = "kSuccess"
  BY <1>3, <1>5, ConferenceClientAssumption DEF ParticipantError, MeetingError,
     ServerInv
<1>7. call \in m_subscriptions[ui_meeting] =>
         Alive(call) /\ stream[call] # "free" /\ ~m_closed[call]
  BY <1>1 DEF ServerInv, Inv, Subscribed, ListedIffOpen, Alive, Running
<1> QED
  BY <1>1, <1>3, <1>4, <1>6, <1>7 DEF Follows, Open

\* The event thread while nothing has ended.
LEMMA FollowsOn ==
    ASSUME Follows, EventThread, UNCHANGED <<pulls, ui_queue, m_current_meeting_id>>,
           TileWay' = TileWay, PullWay' = PullWay,
           stream[call] # "free" \/ thread' \in {"loop", "read"}
    PROVE  Follows'
<1>1. /\ UNCHANGED <<ui, ui_meeting, participants, todo, tiles, call, asked>>
      /\ UNCHANGED <<m_meetings, m_user_meetings, m_subscriptions, sub_of, stream>>
  BY EventFrame
<1>2. Engaged' /\ Open'
  BY <1>1 DEF Follows, Engaged, Open
<1>3. Heeds'
  BY <1>1 DEF Follows, Heeds
<1>4. PullsFollow' /\ TilesFollow'
  <2>1. Base' = Base /\ Listed' = Listed
    BY <1>1 DEF Base, Listed
  <2> QED
    BY <1>1, <2>1 DEF Follows, PullsFollow, TilesFollow
<1> QED
  BY <1>2, <1>3, <1>4 DEF Follows

\* The steps of the event thread, from one stage to the next.
LEMMA LoopView ==
    ASSUME ServerInv, ClientTypes, CallInv, call \in Subs, Follows,
           LoopEvents \/ ReadEvent \/ ReadFails \/ StopItself \/ FinishCall
    PROVE  Doomed' \/ Follows'
<1>1. CASE Over'
  BY <1>1 DEF Doomed
<1>2. CASE LoopEvents /\ ~Over'
  <2>1. /\ thread = "loop" /\ thread' = "read"
        /\ UNCHANGED <<pulls, ui_queue, m_current_meeting_id>>
    BY <1>2 DEF LoopEvents, ThreadGoes, Over, engineVars
  <2>2. EventThread /\ Coming' = Coming
    BY <1>2, <2>1, ComingFrame DEF EventThread, ReadEvent, FinishCall, ThreadGoes
  <2>3. TileWay' = TileWay /\ PullWay' = PullWay
    BY <2>1, <2>2, InHand, InHandNext DEF TileStages, PullStages
  <2> QED
    BY <2>1, <2>2, <2>3, FollowsOn
<1>3. CASE ReadEvent
  <2>1. UNCHANGED <<pulls, ui_queue, m_current_meeting_id>> /\ wire[call] # << >>
    BY <1>3 DEF ReadEvent, engineVars
  <2>2. stream[call] # "free"
    BY <2>1 DEF CallInv
  <2> QED
    BY <1>3, <2>1, <2>2, ReadWay, FollowsOn DEF EventThread
<1>4. CASE ReadFails \/ StopItself \/ FinishCall
  BY <1>1, <1>4 DEF ReadFails, StopItself, FinishCall, ThreadGoes, Over
<1> QED
  BY <1>1, <1>2, <1>3, <1>4

\* An event in hand is heeded: the engine is in the meeting, and it is another's.
LEMMA HandleView ==
    ASSUME ServerInv, ClientTypes, call \in Subs, ui \in Following, Follows,
           HandleMeetingEvent \/ CheckJoined
    PROVE  Doomed' \/ Follows'
<1>1. /\ thread \in {"got", "check"} /\ thread \in TileStages /\ thread \in PullStages
      /\ UNCHANGED <<pulls, ui_queue, m_current_meeting_id>>
  BY DEF HandleMeetingEvent, CheckJoined, ThreadGoes, TileStages, PullStages, engineVars
<1>2. event \in ToSet(TileWay)
  BY <1>1, InHand
<1>3. /\ event.kind \in {"UserJoined", "UserLeft"} /\ event.trigger_user # Me /\ ui # "room"
  BY <1>2 DEF Follows, Heeds
<1>4. m_current_meeting_id # NoMeeting
  BY <1>3, InMeeting DEF Follows, Engaged
<1>5. thread' = "finish" \/ (thread' \in {"check", "unsubscribe", "subscribe"} /\ event' = event)
  <2>1. CASE HandleMeetingEvent
    BY <1>3, <1>4, <2>1 DEF HandleMeetingEvent, ThreadGoes
  <2>2. CASE CheckJoined
    BY <1>4, <2>2 DEF CheckJoined, ThreadGoes
  <2> QED
    BY <2>1, <2>2
<1>6. CASE thread' = "finish"
  BY <1>6 DEF Doomed, Over
<1>7. CASE thread' \in {"check", "unsubscribe", "subscribe"} /\ event' = event
  <2>1. EventThread /\ Coming' = Coming
    BY ComingFrame DEF EventThread, HandleMeetingEvent, CheckJoined, ReadEvent,
       FinishCall,
                       ThreadGoes
  <2>2. TileWay' = TileWay /\ PullWay' = PullWay
    BY <1>1, <1>7, <2>1, InHand, InHandNext DEF TileStages, PullStages
  <2>3. stream[call] # "free"
    BY <1>1, InMeeting
  <2> QED
    BY <1>1, <2>1, <2>2, <2>3, FollowsOn
<1> QED
  BY <1>5, <1>6, <1>7

\* A session more, or less, is what the event says; the page is told next.
LEMMA MediaView ==
    ASSUME ServerInv, ClientTypes, call \in Subs, ui \in Following, Follows,
           SubscribeJoined \/ UnsubscribeLeft, history' = {}
    PROVE  Follows'
<1> DEFINE X == pulls \cup todo \cup {Me}
<1>1. /\ thread \in {"subscribe", "unsubscribe"}
      /\ thread \in TileStages /\ thread \in PullStages
      /\ thread' = "tell" /\ event' = event
      /\ UNCHANGED <<ui_queue, m_current_meeting_id>>
  BY DEF SubscribeJoined, UnsubscribeLeft, ThreadGoes, TileStages, PullStages
<1>2. EventThread /\ Coming' = Coming
  BY <1>1, ComingFrame DEF EventThread, ReadEvent, FinishCall, ThreadGoes
<1>3. event \in ToSet(TileWay)
  BY <1>1, InHand
<1>4. pulls' \cup todo \cup {Me} = Replay(X, event)
  <2>1. CASE SubscribeJoined
    <3>1. event.kind = "UserJoined"
      BY <2>1 DEF SubscribeJoined, ThreadGoes, ClientTypes, StageInv
    <3>2. pulls' = pulls \cup {event.trigger_user}
      BY <2>1 DEF SubscribeJoined
    <3> QED
      BY <3>1, <3>2 DEF Replay
  <2>2. CASE UnsubscribeLeft
    <3>1. event.kind = "UserLeft" /\ event.trigger_user # Me
      BY <2>2 DEF UnsubscribeLeft, ThreadGoes, ClientTypes, StageInv
    <3>2. pulls' = pulls \ {event.trigger_user}
      BY <2>2 DEF UnsubscribeLeft
    <3>3. todo = {}
      BY <1>3, <3>1 DEF Follows, Heeds, Engaged
    <3> QED
      BY <3>1, <3>2, <3>3 DEF Replay
  <2> QED
    BY <2>1, <2>2
<1>5. /\ PullWay = <<event>> \o Coming /\ PullWay' = Coming /\ TileWay' = TileWay
      /\ Replayed(X, <<event>> \o Coming) = Replayed(Replay(X, event), Coming)
  BY <1>1, <1>2, InHand, InHandNext DEF TileStages, PullStages
<1> HIDE DEF X
<1>6. /\ UNCHANGED <<ui, ui_meeting, participants, todo, tiles, call, asked>>
      /\ UNCHANGED <<m_meetings, m_user_meetings, m_subscriptions, sub_of, stream>>
  BY <1>2, EventFrame
<1>7. stream[call] # "free"
  BY <1>1, InMeeting
<1>8. Engaged' /\ Open' /\ Heeds'
  <2>1. Engaged' /\ Open'
    BY <1>1, <1>6, <1>7 DEF Follows, Engaged, Open
  <2>2. Heeds'
    BY <1>1, <1>5, <1>6 DEF Follows, Heeds
  <2> QED
    BY <2>1, <2>2
<1>9. Base' = Base /\ Listed' = Listed
  BY <1>6 DEF Base, Listed
<1>10. TilesFollow'
  BY <1>1, <1>5, <1>9 DEF Follows, TilesFollow
<1>11. PullsFollow'
  <2>1. Replayed(X, PullWay) = Listed
    BY DEF Follows, PullsFollow, X
  <2>2. Replayed(pulls' \cup todo \cup {Me}, Coming) = Listed
    BY <1>4, <1>5, <2>1
  <2> QED
    BY <1>5, <1>6, <1>9, <2>2 DEF PullsFollow
<1> QED
  BY <1>8, <1>10, <1>11 DEF Follows

\* What the page is told takes the place of the event.
LEMMA TellView ==
    ASSUME ServerInv, ClientTypes, call \in Subs, ui \in Following, Follows, Notify
    PROVE  Follows'
<1> DEFINE n == [kind |-> event.kind, users |-> {event.trigger_user}]
           X == Told(Base, ui_queue) \cup {Me}
<1>1. thread = "tell" /\ thread \in TileStages /\ thread \notin PullStages
  BY DEF Notify, ThreadGoes, TileStages, PullStages
<1>2. event \in Events /\ event \in ToSet(TileWay)
  BY <1>1, InHand, WayTypes
<1>3. /\ event.trigger_user # Me /\ event.trigger_user \in Users
      /\ \/ event.kind = "UserJoined" /\ ui # "room"
         \/ event.kind = "UserLeft" /\ ui = "page"
  BY <1>2 DEF Follows, Heeds, Events
<1>4. /\ thread' = "loop"
      /\ ui_queue' = Append(ui_queue, n)
      /\ UNCHANGED <<pulls, m_current_meeting_id>>
  BY <1>3 DEF Notify, ThreadGoes, Post, engineVars
<1>5. n \in Notices /\ ui_queue \in Seq(Notices) /\ Base \in SUBSET Users
  BY <1>3, WayTypes DEF Notices, EventKinds
<1>6. n.kind = event.kind /\ n.users = {event.trigger_user}
  OBVIOUS
<1> HIDE DEF n
<1>7. EventThread /\ Coming' = Coming
  BY <1>1, ComingFrame DEF EventThread, ReadEvent, FinishCall, ThreadGoes
<1>8. /\ TileWay = <<event>> \o Coming /\ TileWay' = Coming /\ PullWay' = PullWay
      /\ ToSet(TileWay) = ToSet(Coming) \cup {event}
      /\ Replayed(X, <<event>> \o Coming) = Replayed(Replay(X, event), Coming)
  BY <1>1, <1>4, <1>7, InHand, InHandNext DEF TileStages, PullStages
<1>9. Told(Base, ui_queue') \cup {Me} = Replay(X, event)
  <2>1. Told(Base, ui_queue') = Heard(Told(Base, ui_queue), n)
    BY <1>4, <1>5, ToldLast
  <2> QED
    BY <1>3, <1>6, <2>1 DEF Heard, Replay
<1> HIDE DEF X
<1>10. /\ UNCHANGED <<ui, ui_meeting, participants, todo, tiles, call, asked>>
       /\ UNCHANGED <<m_meetings, m_user_meetings, m_subscriptions, sub_of, stream>>
  BY <1>7, EventFrame
<1>11. Engaged' /\ Open'
  BY <1>4, <1>10 DEF Follows, Engaged, Open
<1>12. Heeds'
  <2>1. ToSet(Append(ui_queue, n)) = ToSet(ui_queue) \cup {n}
    BY <1>5, MembersLast
  <2> QED
    BY <1>3, <1>4, <1>6, <1>8, <1>10, <2>1 DEF Follows, Heeds
<1>13. Base' = Base /\ Listed' = Listed
  BY <1>10 DEF Base, Listed
<1>14. PullsFollow'
  BY <1>4, <1>8, <1>10, <1>13 DEF Follows, PullsFollow
<1>15. TilesFollow'
  <2>1. Replayed(X, TileWay) = Listed
    BY DEF Follows, TilesFollow, X
  <2>2. Replayed(Told(Base, ui_queue') \cup {Me}, Coming) = Listed
    BY <1>8, <1>9, <2>1
  <2> QED
    BY <1>8, <1>13, <2>2 DEF TilesFollow
<1> QED
  BY <1>11, <1>12, <1>14, <1>15 DEF Follows

\* All of them together.
LEMMA EventView ==
    ASSUME ServerInv, ClientTypes, CallInv, ui \in Following, Followed, EventThread,
           history' = history, history = {}
    PROVE  Followed'
<1>1. call \in Subs /\ UNCHANGED <<call, ui>>
  BY EventFrame DEF Followed
<1>2. cancelled'[call] => thread' \in {"finish", "over"}
  <2>1. CASE StopItself
    BY <2>1 DEF StopItself, ThreadGoes
  <2>2. CASE ~StopItself
    <3>1. UNCHANGED cancelled
      BY <2>2 DEF EventThread, LoopEvents, ReadEvent, ReadFails, HandleMeetingEvent,
         CheckJoined, SubscribeJoined, UnsubscribeLeft, CleanupEnded, Notify, FinishCall,
         vars, streamVars
    <3>2. cancelled[call] => thread \in {"finish", "over"}
      BY DEF Followed
    <3> QED
      BY <2>2, <3>1, <3>2 DEF EventThread, LoopEvents, ReadEvent, ReadFails,
         HandleMeetingEvent, CheckJoined, SubscribeJoined, UnsubscribeLeft, CleanupEnded,
         Notify, FinishCall, ThreadGoes
  <2> QED
    BY <2>1, <2>2
<1>3. Doomed' \/ Follows'
  <2>1. CASE Doomed
    BY <1>1, <2>1, DoomedEvent
  <2>2. CASE Follows /\ ~Doomed
    <3>1. ~CleanupEnded
      BY <2>2 DEF CleanupEnded, ThreadGoes, ClientTypes, StageInv, Doomed, Over
    <3> QED
      BY <1>1, <2>2, <3>1, LoopView, HandleView, MediaView, TellView DEF EventThread
  <2> QED
    BY <2>1, <2>2 DEF Followed
<1> QED
  BY <1>1, <1>2, <1>3 DEF Followed

\* The stream is asked for: nothing has come, and the response is what is listed.
LEMMA StartView ==
    ASSUME ServerInv, ClientTypes, CallInv, NothingYet, StartThread, ui' = "room"
    PROVE  Followed'
<1>1. PICK s \in Subs : /\ asked[s] = NoMeeting
                        /\ asked' = [asked EXCEPT ![s] = ui_meeting]
                        /\ call' = s
  BY DEF StartThread, UiGoes
<1>2. /\ thread' = "loop" /\ UNCHANGED <<ui_meeting, participants, todo, ui_queue, wire>>
      /\ UNCHANGED <<pulls, m_current_meeting_id, stream, cancelled, in_hand, m_events>>
      /\ UNCHANGED <<m_meetings, m_user_meetings>>
  BY DEF StartThread, UiGoes, pageVars, engineVars, vars, streamVars, hubVars,
     meetingVars
<1>3. /\ stream[s] = "free" /\ ~cancelled[s] /\ wire[s] = << >>
      /\ in_hand[s] = << >> /\ m_events[s] = << >>
  BY <1>1 DEF CallInv, ServerInv, ReadInv, HandInv
<1>4. asked \in [Subs -> MeetingIds \cup {NoMeeting}]
  BY DEF ClientTypes, ThreadTypes
<1>5. PullWay' = << >> /\ TileWay' = << >>
  BY <1>1, <1>2, <1>3 DEF PullWay, TileWay, AtHand, Coming, PullStages, TileStages
<1>6. Engaged' /\ Open'
  BY <1>1, <1>2, <1>3, <1>4 DEF Engaged, Open, NothingYet
<1>7. Heeds'
  <2>1. ToSet(<< >>) = {}
    BY DEF ToSet
  <2> QED
    BY <1>2, <1>5, <2>1 DEF Heeds, NothingYet
<1>8. Listed' = participants \cup {Me}
  BY <1>2 DEF NothingYet, Listed
<1>9. PullsFollow'
  <2>1. pulls' \cup todo' \cup {Me} = Listed'
    BY <1>2, <1>8 DEF NothingYet
  <2> QED
    BY <1>5, <2>1, ReplayNothing DEF PullsFollow
<1>10. TilesFollow'
  <2>1. Base' = participants \ {Me} /\ Base' \in SUBSET Users
    BY <1>2 DEF Base, ClientTypes, UiTypes
  <2>2. << >> \in Seq(Notices) /\ ui_queue' = << >>
    BY <1>2 DEF NothingYet
  <2>3. Told(Base', ui_queue') \cup {Me} = Listed'
    BY <1>8, <2>1, <2>2, ToldBase
  <2> QED
    BY <1>5, <2>3, ReplayNothing DEF TilesFollow
<1>11. Follows'
  BY <1>6, <1>7, <1>9, <1>10 DEF Follows
<1> QED
  BY <1>1, <1>2, <1>3, <1>11 DEF Followed

LEMMA WayInView ==
    ASSUME ServerInv, ClientTypes, ui \in Following, Followed, ui' \in Following,
           \/ SetRoomInfo \/ CheckParticipant \/ SubscribeParticipant
           \/ NotifyParticipants \/ EnterConference \/ DeliverNotice
    PROVE  Followed'
<1>1. /\ UNCHANGED <<thread, event, call, cancelled>>
      /\ UNCHANGED <<wire, in_hand, m_events>>
  BY UiFrame
<1>2. Doomed => Doomed'
  BY <1>1, WayFrame
<1>3. call \in Subs /\ (Follows => Follows')
  BY RoomView, CheckView, SubscribeView, NotifyView, EnterView, DeliverView DEF Followed
<1> QED
  BY <1>1, <1>2, <1>3 DEF Followed

\* The UI thread at work, and when it comes back to its event loop.
LEMMA WorkView ==
    ASSUME ServerInv, ClientTypes, CallInv, ViewInv, UiWork
    PROVE  ViewInv'
<1> SUFFICES ASSUME history' = {}
             PROVE  /\ ui' \in Preparing => NothingYet'
                    /\ ui' \in Following => Followed'
  BY DEF ViewInv
<1>1. CASE StopThread("stop_old", "join_old") \/ JoinThread("join_old", "start")
  <2>1. /\ ui \in Preparing /\ ui' \in Preparing /\ ui' \notin Following
        /\ UNCHANGED history
    BY <1>1 DEF StopThread, JoinThread, UiGoes, Preparing, Following
  <2>2. NothingYet
    BY <2>1 DEF ViewInv
  <2>3. /\ thread' \in {"none", "over"}
        /\ UNCHANGED <<pulls, ui_queue, m_current_meeting_id, m_user_meetings, ui_meeting>>
        /\ UNCHANGED <<m_meetings, participants, todo>>
    BY <1>1, <2>2 DEF StopThread, JoinThread, NothingYet, pageVars, engineVars, vars,
       meetingVars
  <2> QED
    BY <2>1, <2>2, <2>3 DEF NothingYet, Listed
<1>2. CASE StartThread
  <2>1. ui = "start" /\ ui' \in {"room", "lobby"} /\ UNCHANGED history
    BY <1>2 DEF StartThread, UiGoes
  <2> QED
    BY <1>2, <2>1, StartView DEF ViewInv, Preparing, Following
<1>3. CASE \/ SetRoomInfo \/ CheckParticipant \/ SubscribeParticipant
           \/ NotifyParticipants \/ EnterConference \/ DeliverNotice
  <2>1. UNCHANGED history
    BY <1>3, UiFrame
  <2>2. ui' \notin Preparing /\ (ui' \in Following => ui \in Following)
    BY <1>3 DEF SetRoomInfo, CheckParticipant, SubscribeParticipant, NotifyParticipants,
       EnterConference, DeliverNotice, UiGoes, Preparing, Following, Idle
  <2>3. ui \in Following => Followed
    BY <2>1 DEF ViewInv
  <2> QED
    BY <1>3, <2>2, <2>3, WayInView
<1>4. CASE AbandonMeeting \/ UiUndo \/ UiExit
  <2>1. ui' \in {"stop", "lobby", "undo_leave", "undo_stop", "undo_join", "join", "cleanup"}
    <3>1. CASE AbandonMeeting
      BY <3>1 DEF AbandonMeeting, ExitRpc, UiGoes
    <3>2. CASE UiUndo \/ UiExit
      BY <3>2 DEF UiUndo, UiExit, UndoMedia, UndoLeave, StopThread, JoinThread,
         FinishExit, UiGoes
    <3> QED
      BY <1>4, <3>1, <3>2
  <2> QED
    BY <2>1 DEF Preparing, Following
<1> QED
  BY <1>1, <1>2, <1>3, <1>4 DEF UiWork, UiEnter

\* A request that failed without the server having heard of it.
LEMMA ViewFrame ==
    ASSUME ViewInv, UNCHANGED vars, UNCHANGED <<ui, ui_meeting, participants, todo, tiles>>,
           UNCHANGED <<ui_queue, engineVars, threadVars, wire, history>>
    PROVE  ViewInv'
<1>1. UNCHANGED <<thread, event, call, asked, wire, in_hand, m_events, stream, cancelled>>
  BY DEF threadVars, callVars, vars, streamVars, hubVars
<1>2. /\ UNCHANGED <<m_subscriptions, sub_of, m_meetings, m_user_meetings>>
      /\ UNCHANGED <<pulls, m_current_meeting_id>>
  BY DEF vars, meetingVars, hubVars, streamVars, engineVars
<1>3. TileWay' = TileWay /\ PullWay' = PullWay /\ (Doomed' <=> Doomed)
  BY <1>1, WayFrame
<1>4. Listed' = Listed /\ Base' = Base
  BY <1>2 DEF Listed, Base
<1>5. NothingYet => NothingYet'
  BY <1>1, <1>2, <1>4 DEF NothingYet
<1>6. Follows => Follows'
  BY <1>1, <1>2, <1>3, <1>4 DEF Follows, Engaged, Open, Heeds, PullsFollow, TilesFollow
<1>7. Followed => Followed'
  BY <1>1, <1>3, <1>6 DEF Followed
<1> QED
  BY <1>5, <1>7 DEF ViewInv

\* A click starts a meeting or asks to leave one.
LEMMA ClickView ==
    ASSUME ServerInv, ClientTypes, ViewInv, UiClick
    PROVE  ViewInv'
<1>1. CASE ExitClick
  <2>1. CASE ui' = "page" /\ history' = {}
    <3>1. history' = history \/ history' = history \cup {"fault"}
      BY <1>1 DEF ExitClick, ExitRpc
    <3>2. /\ UNCHANGED vars /\ UNCHANGED <<ui, ui_meeting, participants, todo, tiles>>
          /\ UNCHANGED <<ui_queue, engineVars, threadVars, wire, history>>
      <4> HIDE DEF LeaveMeeting, EndMeeting
      <4> QED
        BY <1>1, <2>1, <3>1 DEF ExitClick, ExitRpc, UiGoes
    <3> QED
      BY <3>2, ViewFrame
  <2>2. ui' \in {"page", "stop"}
    <3> HIDE DEF LeaveMeeting, EndMeeting
    <3> QED
      BY <1>1 DEF ExitClick, ExitRpc, UiGoes
  <2> QED
    BY <2>1, <2>2 DEF ViewInv, Preparing, Following
<1>2. CASE (CreateRpc \/ JoinRpc) /\ AnswerLost
  BY <1>2 DEF CreateRpc, JoinRpc, LobbyClick, AnswerLost, ViewInv, Preparing, Following
<1>3. ASSUME NEW mid, NEW users, NEW creator, AnswerArrives(mid, users, creator), LobbyClick,
             m_user_meetings'[Me] = mid,
             ToSet(m_meetings'[mid].participants) = users \cup {Me}
      PROVE  ViewInv'
  <2>1. /\ ui' = "stop_old" /\ ui_meeting' = mid /\ participants' = users
        /\ todo' = users \ {Me}
        /\ history' = IF thread \in {"none", "over"} /\ pulls = {} THEN {} ELSE {"fault"}
        /\ ui_queue' = << >> /\ m_current_meeting_id' = NoMeeting
        /\ UNCHANGED <<pulls, thread>>
    BY <1>3 DEF AnswerArrives, LobbyClick, UiGoes, engineVars, threadVars
  <2>2. history' = {} => NothingYet'
    BY <1>3, <2>1 DEF NothingYet, Listed
  <2> QED
    BY <2>1, <2>2 DEF ViewInv, Preparing, Following
<1>4. m_user_meetings \in [Users -> MeetingIds \cup {NoMeeting}] /\ Me \in Users
  BY ConferenceClientAssumption DEF ServerInv, Inv, TypeOK, MeetingTypeOK
<1>5. CASE CreateRpc /\ ~AnswerLost
  <2>1. /\ CreateMeeting(Me) /\ LobbyClick
        /\ AnswerArrives(GenerateMeetingIdLocked, {}, TRUE)
    BY <1>5 DEF CreateRpc
  <2>2. GenerateMeetingIdLocked = m_next_meeting_number
    BY <2>1, GenerateMeetingIdSpec DEF CreateMeeting, ServerInv, Inv
  <2>3. /\ m_user_meetings'[Me] = m_next_meeting_number
        /\ m_meetings'[m_next_meeting_number].participants = <<Me>>
    <3>1. /\ m_user_meetings' = [m_user_meetings EXCEPT ![Me] = m_next_meeting_number]
          /\ m_meetings'[m_next_meeting_number] =
                [creator |-> Me, participants |-> <<Me>>, active |-> TRUE]
      <4>1. TypeOK
        BY DEF ServerInv, Inv
      <4> QED
        BY <1>4, <2>1, <4>1, CreateMeetingFacts
    <3> QED
      BY <1>4, <3>1
  <2>4. ToSet(<<Me>>) = {} \cup {Me}
    BY DEF ToSet
  <2> QED
    BY <1>3, <2>1, <2>2, <2>3, <2>4
<1>6. CASE JoinRpc /\ ~AnswerLost
  <2>1. PICK mid \in MeetingIds :
           /\ JoinMeeting(mid, Me)
           /\ AnswerArrives(mid, ToSet(m_meetings[mid].participants) \cup {Me}, FALSE)
    BY <1>6 DEF JoinRpc
  <2>2. LobbyClick
    BY <1>6 DEF JoinRpc
  <2>3. m_user_meetings'[Me] = mid
    BY <1>4, <2>1 DEF JoinMeeting
  <2>4. mid \in DOMAIN m_meetings
    BY <2>1, SuccessFacts DEF JoinMeeting
  <2>5. PICK list \in Seq(Users) : list = m_meetings[mid].participants
    BY <2>4, KnownMeeting DEF ServerInv, Inv
  <2>6. ToSet(m_meetings'[mid].participants)
           = (ToSet(m_meetings[mid].participants) \cup {Me}) \cup {Me}
    <3>1. CASE Contains(m_meetings[mid].participants, Me)
      <4>1. m_meetings' = m_meetings
        BY <2>1, <3>1 DEF JoinMeeting
      <4>2. Me \in ToSet(list)
        BY <2>5, <3>1, ListedParticipants
      <4> QED
        BY <2>5, <4>1, <4>2
    <3>2. CASE ~Contains(m_meetings[mid].participants, Me)
      <4>1. m_meetings'[mid].participants = Append(list, Me)
        BY <1>4, <2>1, <2>5, <3>2, JoinMeetingFacts DEF ServerInv, Inv
      <4>2. ToSet(Append(list, Me)) = ToSet(list) \cup {Me}
        BY <1>4, MembersLast
      <4> QED
        BY <2>5, <4>1, <4>2
    <3> QED
      BY <3>1, <3>2
  <2> QED
    BY <1>3, <2>1, <2>2, <2>3, <2>6
<1> QED
  BY <1>1, <1>2, <1>5, <1>6 DEF UiClick

\* The server moves an event on its way, and a call on in its life.
LEMMA ServerFrame ==
    ASSUME UNCHANGED meetingVars,
           UNCHANGED <<ui, pageVars, ui_queue, engineVars, threadVars>>, Coming' = Coming
    PROVE  /\ NothingYet => NothingYet'
           /\ Doomed' <=> Doomed
           /\ Follows /\ Open' => Follows'
<1> USE DEF meetingVars, pageVars, engineVars, threadVars, callVars
<1>1. TileWay' = TileWay /\ PullWay' = PullWay
  BY DEF TileWay, PullWay, AtHand
<1>2. Listed' = Listed /\ Base' = Base
  BY DEF Listed, Base
<1>3. NothingYet => NothingYet'
  BY <1>2 DEF NothingYet
<1>4. Doomed' <=> Doomed
  BY <1>1 DEF Doomed, Over
<1>5. Follows /\ Open' => Follows'
  BY <1>1, <1>2 DEF Follows, Engaged, Heeds, PullsFollow, TilesFollow
<1> QED
  BY <1>3, <1>4, <1>5

\* A call given up does not touch the one in use.
LEMMA OtherCall ==
    ASSUME ServerInv, ClientTypes, CallInv, NEW s \in Subs, Server(s), s # call,
           history' = {}, call \in Subs, ui_meeting \in MeetingIds
    PROVE  /\ Coming' = Coming /\ cancelled'[call] = cancelled[call]
           /\ Open => Open'
<1>1. UNCHANGED <<thread, call, ui_meeting>>
  BY MineByServer DEF pageVars, threadVars, callVars
<1>2. /\ stream \in [Subs -> Stages] /\ cancelled \in [Subs -> BOOLEAN]
      /\ wire \in [Subs -> Seq(Events)] /\ in_hand \in [Subs -> Seq(Events)]
      /\ m_events \in [Subs -> Seq(Events)]
      /\ m_subscriptions \in [MeetingIds -> SUBSET Subs]
  BY DEF ServerInv, Inv, TypeOK, HubTypeOK, StreamTypeOK, ClientTypes, ThreadTypes
<1>3. ~BreakCall(s) /\ ~AcceptCall(s)
  BY DEF BreakCall, AcceptCall
<1>4. /\ cancelled'[call] = cancelled[call] /\ stream'[call] = stream[call]
      /\ wire'[call] = wire[call] /\ in_hand'[call] = in_hand[call]
      /\ m_events'[call] = m_events[call] /\ UNCHANGED sub_of
  <2>1. CASE RefuseCall(s)
    BY <1>2, <2>1 DEF RefuseCall, hubVars
  <2>2. CASE ServerHandler(s)
    BY <1>2, <2>2 DEF ServerHandler, StreamStep, CheckCancelled, WaitNext,
       WaitNextEmpty,
       CheckClosed, WriteEvent, WriteFails, UnsubscribeMeetingEvents, hubVars, clientVars
  <2> QED
    BY <1>3, <2>1, <2>2 DEF Server
<1>5. Coming' = Coming
  BY <1>1, <1>4 DEF Coming
<1>6. call \in m_subscriptions[ui_meeting] => call \in m_subscriptions'[ui_meeting]
  <2>1. CASE UnsubscribeMeetingEvents(s)
    <3>1. m_subscriptions' = [m_subscriptions EXCEPT ![sub_of[s].meeting] =
                                {t \in @ : Alive(t) /\ t # s}]
      BY <2>1 DEF UnsubscribeMeetingEvents
    <3>2. call \in m_subscriptions[ui_meeting] => Alive(call)
      BY DEF ServerInv, Inv, Subscribed, ListedIffOpen
    <3> QED
      BY <1>2, <3>1, <3>2
  <2>2. CASE ~UnsubscribeMeetingEvents(s)
    <3>1. UNCHANGED m_subscriptions
      BY <1>3, <2>2 DEF Server, RefuseCall, ServerHandler, CheckCancelled, WaitNext,
         WaitNextEmpty, CheckClosed, WriteEvent, WriteFails, hubVars
    <3> QED
      BY <3>1
  <2> QED
    BY <2>1, <2>2
<1>7. Open => Open'
  BY <1>1, <1>4, <1>6 DEF Open
<1> QED
  BY <1>4, <1>5, <1>7

\* The event that is being written is on its way.
LEMMA BeingWritten ==
    ASSUME NEW w \in Seq(Events), NEW q \in Seq(Events), NEW e \in Events
    PROVE  e \in ToSet(w \o <<e>> \o q)
<1>1. PICK all : all = w \o <<e>> \o q
  OBVIOUS
<1>2. Len(w) + 1 \in DOMAIN all /\ all[Len(w) + 1] = e
  BY <1>1
<1>3. e \in ToSet(all)
  BY <1>2 DEF ToSet
<1> QED
  BY <1>1, <1>3

\* The handler of the call in use passes events on and loses none.
LEMMA OwnCall ==
    ASSUME ServerInv, ClientTypes, CallInv, Server(call), history' = {}, history = {},
           ui \in Following, Followed
    PROVE  Followed'
<1>1. /\ call \in Subs /\ ui_meeting \in MeetingIds
      /\ cancelled[call] => thread \in {"finish", "over"}
  BY DEF Followed, ClientTypes, UiTypes, Following
<1>2. /\ UNCHANGED <<thread, event, call, ui_meeting, asked>> /\ UNCHANGED meetingVars
      /\ UNCHANGED <<ui, pageVars, ui_queue, engineVars, threadVars>>
  BY <1>1, MineByServer DEF pageVars, threadVars, callVars
<1>3. /\ stream \in [Subs -> Stages] /\ cancelled \in [Subs -> BOOLEAN]
      /\ wire \in [Subs -> Seq(Events)] /\ in_hand \in [Subs -> Seq(Events)]
      /\ m_events \in [Subs -> Seq(Events)]
      /\ m_subscriptions \in [MeetingIds -> SUBSET Subs]
  BY DEF ServerInv, Inv, TypeOK, HubTypeOK, StreamTypeOK, ClientTypes, ThreadTypes
<1>4. ~BreakCall(call)
  BY DEF BreakCall
<1>5. UNCHANGED cancelled
  BY <1>4 DEF Server, AcceptCall, SubscribeMeetingEvents, RefuseCall, ServerHandler,
     StreamStep,
     CheckCancelled, WaitNext, WaitNextEmpty, CheckClosed, WriteEvent, WriteFails,
     UnsubscribeMeetingEvents
<1>6. CASE cancelled[call]
  <2>1. Over'
    BY <1>1, <1>2, <1>6 DEF Over
  <2> QED
    BY <1>1, <1>2, <1>5, <2>1 DEF Followed, Doomed
<1>7. CASE ~cancelled[call]
  <2> SUFFICES Coming' = Coming /\ (Follows /\ ~Doomed => Open')
    BY <1>1, <1>2, <1>5, <1>7, ServerFrame DEF Followed
  <2>1. CASE AcceptCall(call)
    <3>1. SubscribeMeetingEvents(call, asked[call], Me) /\ UNCHANGED wire
      BY <2>1 DEF AcceptCall
    <3>2. Coming' = Coming
      BY <1>2, <3>1 DEF SubscribeMeetingEvents, CloseUserSubscriptionsLocked, SetHub,
         Hub, Coming
    <3>3. ASSUME Follows PROVE Open'
      <4>1. asked[call] = ui_meeting
        BY <3>3 DEF Follows, Engaged
      <4>2. stream'[call] = "loop" /\ sub_of'[call].user = Me
        BY <1>1, <1>3, <3>1
           DEF SubscribeMeetingEvents, ServerInv, Inv, TypeOK, StreamTypeOK
      <4>3. call \in m_subscriptions'[ui_meeting]
        BY <1>1, <1>3, <3>1, <4>1
           DEF SubscribeMeetingEvents, CloseUserSubscriptionsLocked, SetHub, Hub
      <4> QED
        BY <1>2, <4>2, <4>3 DEF Open
    <3> QED
      BY <3>2, <3>3
  <2>2. CASE RefuseCall(call)
    <3>1. UNCHANGED <<wire, in_hand, m_events>> /\ ParticipantError(asked[call], Me) # "kSuccess"
      BY <2>2 DEF RefuseCall, hubVars
    <3>2. Coming' = Coming
      BY <1>2, <3>1 DEF Coming
    <3>3. ~Follows
      BY <1>1, <3>1, InMeeting DEF Follows, Engaged
    <3> QED
      BY <3>2, <3>3
  <2>3. CASE ServerHandler(call)
    <3>1. PICK w \in Seq(Events), h \in Seq(Events), q \in Seq(Events) :
             w = wire[call] /\ h = in_hand[call] /\ q = m_events[call]
      BY <1>1, <1>3
    <3>2. Coming = w \o h \o q
      BY <3>1 DEF Coming
    <3>3. h = << >> \/ (stream[call] = "write" /\ h = <<h[1]>> /\ h[1] \in Events)
      BY <1>1, <3>1 DEF ServerInv, ReadInv, HandInv
    <3>4. /\ stream[call] \notin {"free", "done"}
          /\ Follows => /\ call \in m_subscriptions[ui_meeting]
                        /\ stream[call] # "exit" /\ ~m_closed[call]
                        /\ sub_of[call].user = Me
      <4>1. stream[call] \notin {"free", "done"}
        BY <2>3 DEF ServerHandler, StreamStep, CheckCancelled, WaitNext, WaitNextEmpty,
           CheckClosed, WriteEvent, WriteFails, UnsubscribeMeetingEvents
      <4> QED
        BY <1>1, <4>1, InMeeting DEF Follows, Open
    <3>5. UNCHANGED sub_of
      BY <2>3 DEF ServerHandler, StreamStep, CheckCancelled, WaitNext, WaitNextEmpty,
         CheckClosed, WriteEvent, WriteFails, UnsubscribeMeetingEvents
    <3>6. ASSUME UNCHANGED m_subscriptions, stream'[call] # "exit"
          PROVE  Follows => Open'
      BY <1>2, <3>4, <3>5, <3>6 DEF Open
    <3>7. CASE CheckCancelled(call) \/ WaitNextEmpty(call) \/ CheckClosed(call)
      <4>1. UNCHANGED <<wire, in_hand, m_events, m_subscriptions>>
        <5>1. ~WriteEvent(call)
          BY <3>7 DEF CheckCancelled, WaitNextEmpty, CheckClosed, WriteEvent, StreamStep
        <5> QED
          BY <2>3, <3>7, <5>1 DEF ServerHandler, CheckCancelled, WaitNextEmpty,
             CheckClosed,
             hubVars, clientVars
      <4>2. stream'[call] = "exit" => CheckClosed(call) /\ m_closed[call]
        BY <1>1, <1>3, <1>7, <3>7 DEF CheckCancelled, WaitNextEmpty, CheckClosed,
           StreamStep
      <4> QED
        BY <1>2, <3>4, <3>6, <4>1, <4>2 DEF Coming
    <3>8. CASE WaitNext(call)
      <4>1. /\ stream[call] = "wait" /\ stream'[call] = "write" /\ q # << >>
            /\ in_hand'[call] = <<Head(q)>> /\ m_events'[call] = Tail(q)
            /\ UNCHANGED m_subscriptions
        BY <1>1, <1>3, <3>1, <3>8 DEF WaitNext, StreamStep
      <4>2. UNCHANGED wire
        BY <2>3, <4>1 DEF ServerHandler, WriteEvent, StreamStep, clientVars
      <4>3. Coming' = w \o <<Head(q)>> \o Tail(q)
        BY <1>2, <3>1, <4>1, <4>2 DEF Coming
      <4>4. Coming' = Coming
        BY <3>2, <3>3, <4>1, <4>3, PassOn
      <4> QED
        BY <3>6, <4>1, <4>4
    <3>9. CASE WriteEvent(call)
      <4>1. /\ stream[call] = "write" /\ h # << >>
            /\ stream'[call] = IF h[1].kind = "MeetingEnded" THEN "exit" ELSE "loop"
            /\ in_hand'[call] = << >> /\ m_events'[call] = q
            /\ UNCHANGED m_subscriptions
        BY <1>1, <1>3, <3>1, <3>9 DEF WriteEvent, StreamStep, hubVars
      <4>2. wire'[call] = w \o h
        <5>1. wire' = [wire EXCEPT ![call] = @ \o in_hand[call]]
          BY <1>7, <2>3, <4>1 DEF ServerHandler, CheckCancelled, WaitNext,
             WaitNextEmpty,
             CheckClosed, WriteFails, UnsubscribeMeetingEvents, StreamStep
        <5> QED
          BY <1>1, <1>3, <3>1, <5>1
      <4>3. Coming' = (w \o h) \o << >> \o q
        BY <1>2, <4>1, <4>2 DEF Coming
      <4>4. Coming' = Coming
        BY <3>2, <4>3, PassOn
      <4>5. h[1].kind = "MeetingEnded" => Doomed
        <5>1. h[1] \in ToSet(Coming)
          <6>1. PICK e \in Events : e = h[1]
            BY <3>3, <4>1
          <6>2. e \in ToSet(w \o <<e>> \o q)
            BY BeingWritten
          <6> QED
            BY <3>2, <3>3, <4>1, <6>1, <6>2
        <5>2. h[1] \in ToSet(TileWay)
          BY <1>1, <5>1, InHand
        <5> QED
          BY <5>2 DEF Doomed
      <4> QED
        BY <3>6, <4>1, <4>4, <4>5
    <3>10. CASE UnsubscribeMeetingEvents(call)
      <4>1. stream[call] = "exit" /\ UNCHANGED <<in_hand, m_events>>
        BY <3>10 DEF UnsubscribeMeetingEvents, StreamStep
      <4>2. UNCHANGED wire
        BY <2>3, <4>1 DEF ServerHandler, WriteEvent, StreamStep, clientVars
      <4> QED
        BY <1>2, <3>4, <4>1, <4>2 DEF Coming
    <3>11. ~WriteFails(call)
      BY <1>7 DEF WriteFails
    <3> QED
      BY <2>3, <3>7, <3>8, <3>9, <3>10, <3>11 DEF ServerHandler
  <2> QED
    BY <1>4, <2>1, <2>2, <2>3 DEF Server
<1> QED
  BY <1>6, <1>7

LEMMA ServerView ==
    ASSUME ServerInv, ClientTypes, CallInv, ViewInv, NEW s \in Subs, Server(s)
    PROVE  ViewInv'
<1> SUFFICES ASSUME history' = {}
             PROVE  /\ ui' \in Preparing => NothingYet'
                    /\ ui' \in Following => Followed'
  BY DEF ViewInv
<1>1. /\ UNCHANGED meetingVars
      /\ UNCHANGED <<ui, pageVars, ui_queue, engineVars, threadVars>>
  BY MineByServer
<1>2. history = {}
  BY DEF Server, AcceptCall, RefuseCall, BreakCall, ServerHandler, clientVars
<1>3. ui' \in Preparing => NothingYet'
  BY <1>1, <1>2 DEF ViewInv, NothingYet, Listed, meetingVars, pageVars, engineVars,
     threadVars
<1>4. ASSUME ui \in Following PROVE Followed'
  <2>1. Followed
    BY <1>2, <1>4 DEF ViewInv
  <2>2. CASE s = call
    BY <1>2, <1>4, <2>1, <2>2, OwnCall
  <2>3. CASE s # call
    <3>1. call \in Subs /\ ui_meeting \in MeetingIds
      BY <1>4, <2>1 DEF Followed, ClientTypes, UiTypes, Following
    <3>2. /\ Coming' = Coming /\ cancelled'[call] = cancelled[call]
          /\ Open => Open'
      BY <2>3, <3>1, OtherCall
    <3>3. Doomed \/ Follows => Doomed' \/ Follows'
      BY <1>1, <3>2, ServerFrame DEF Follows
    <3> QED
      BY <1>1, <2>1, <3>2, <3>3 DEF Followed, threadVars, callVars
  <2> QED
    BY <2>2, <2>3
<1> QED
  BY <1>1, <1>3, <1>4

\* What a request that changes a meeting does: it publishes an event, and the
\* event says what has changed unless it is the end.
Published(mid, user, e) ==
    /\ e \in Events /\ e.trigger_user = user
    /\ \A s \in Subs : m_events'[s] =
          IF s \in m_subscriptions[mid] THEN Append(m_events[s], e) ELSE m_events[s]
    /\ \A m \in MeetingIds, s \in Subs :
          s \in m_subscriptions[m] =>
             \/ s \in m_subscriptions'[m]
             \/ m = mid /\ (e.kind = "MeetingEnded" \/ sub_of[s].user = user)
    /\ \A m \in DOMAIN m_meetings \ {mid} : m_meetings'[m] = m_meetings[m]
    /\ m_meetings' # m_meetings
    /\ e.kind # "MeetingEnded" =>
          ToSet(m_meetings'[mid].participants) = Replay(ToSet(m_meetings[mid].participants), e)
    /\ \A u \in Users \ {user} :
          e.kind # "MeetingEnded" \/ m_user_meetings[u] # mid =>
             m_user_meetings'[u] = m_user_meetings[u]
    /\ UNCHANGED streamVars

\* The three requests that change a meeting publish what they do.
LEMMA JoinPublishes ==
    ASSUME Inv, NEW mid \in MeetingIds, NEW user \in Users, JoinMeeting(mid, user),
           ~Contains(m_meetings[mid].participants, user)
    PROVE  \E e : Published(mid, user, e) /\ e.kind = "UserJoined"
<1> DEFINE news == [kind |-> "UserJoined", trigger_user |-> user]
           h == PublishEventLocked(Hub, mid, news, FALSE)
<1>1. SetHub(h) /\ UNCHANGED streamVars
  BY DEF JoinMeeting
<1>2. news \in Events /\ news.kind = "UserJoined" /\ news.trigger_user = user
  BY DEF Events, EventKinds
<1> HIDE DEF news
<1>3. \A m \in MeetingIds, s \in Subs : s \in h.listed[m] <=> s \in m_subscriptions[m]
  BY <1>2, PublishEffect DEF Inv, Subscribed
<1>4. \A s \in Subs : h.events[s] =
         IF s \in m_subscriptions[mid] THEN Append(m_events[s], news) ELSE m_events[s]
  BY <1>2, PublishQueues DEF Inv, Subscribed
<1> HIDE DEF h
<1>5. /\ mid \in DOMAIN m_meetings
      /\ m_meetings'[mid].participants = Append(m_meetings[mid].participants, user)
      /\ \A m \in DOMAIN m_meetings \ {mid} : m_meetings'[m] = m_meetings[m]
  BY JoinMeetingFacts DEF Inv
<1>6. PICK list \in Seq(Users) : list = m_meetings[mid].participants
  BY <1>5, KnownMeeting DEF Inv
<1>7. ToSet(m_meetings'[mid].participants) = Replay(ToSet(m_meetings[mid].participants), news)
  <2>1. ToSet(Append(list, user)) = ToSet(list) \cup {user}
    BY MembersLast
  <2> QED
    BY <1>2, <1>5, <1>6, <2>1 DEF Replay
<1>8. m_meetings' # m_meetings
  BY <1>5, <1>6
<1>9. \A u \in Users \ {user} : m_user_meetings'[u] = m_user_meetings[u]
  BY DEF JoinMeeting, Inv, TypeOK, MeetingTypeOK
<1>10. /\ \A s \in Subs : m_events'[s] =
             IF s \in m_subscriptions[mid] THEN Append(m_events[s], news) ELSE m_events[s]
       /\ \A m \in MeetingIds, s \in Subs :
             s \in m_subscriptions[m] => s \in m_subscriptions'[m]
  BY <1>1, <1>3, <1>4 DEF SetHub
<1>11. Published(mid, user, news)
  BY <1>1, <1>2, <1>5, <1>7, <1>8, <1>9, <1>10 DEF Published
<1> QED
  BY <1>2, <1>11

LEMMA EndPublishes ==
    ASSUME Inv, NEW mid \in MeetingIds, NEW user \in Users, EndMeeting(mid, user)
    PROVE  \E e : Published(mid, user, e) /\ e.kind = "MeetingEnded"
<1> DEFINE news == [kind |-> "MeetingEnded", trigger_user |-> user]
           h == PublishEventLocked(Hub, mid, news, TRUE)
<1>1. SetHub(h) /\ UNCHANGED streamVars
  BY DEF EndMeeting
<1>2. news \in Events /\ news.kind = "MeetingEnded" /\ news.trigger_user = user
  BY DEF Events, EventKinds
<1> HIDE DEF news
<1>3. \A m \in MeetingIds, s \in Subs :
         s \in h.listed[m] <=> s \in m_subscriptions[m] /\ m # mid
  BY <1>2, PublishEffect DEF Inv, Subscribed
<1>4. \A s \in Subs : h.events[s] =
         IF s \in m_subscriptions[mid] THEN Append(m_events[s], news) ELSE m_events[s]
  BY <1>2, PublishQueues DEF Inv, Subscribed
<1> HIDE DEF h
<1>5. /\ mid \in DOMAIN m_meetings
      /\ m_meetings[mid].active /\ ~m_meetings'[mid].active
      /\ \A m \in DOMAIN m_meetings \ {mid} : m_meetings'[m] = m_meetings[m]
  BY EndMeetingFacts DEF Inv
<1>6. \A u \in Users : m_user_meetings[u] # mid => m_user_meetings'[u] = m_user_meetings[u]
  <2>1. \A u \in Users : m_user_meetings'[u] =
           IF Contains(m_meetings[mid].participants, u) THEN NoMeeting ELSE m_user_meetings[u]
    BY DEF EndMeeting
  <2>2. \A u \in Users : m_user_meetings[u] # mid =>
           ~Contains(m_meetings[mid].participants, u)
    BY <1>5 DEF Inv, MembershipConsistent, IndexMatchesLists
  <2> QED
    BY <2>1, <2>2
<1>7. /\ \A s \in Subs : m_events'[s] =
            IF s \in m_subscriptions[mid] THEN Append(m_events[s], news) ELSE m_events[s]
      /\ \A m \in MeetingIds, s \in Subs :
            s \in m_subscriptions[m] /\ m # mid => s \in m_subscriptions'[m]
  BY <1>1, <1>3, <1>4 DEF SetHub
<1>8. m_meetings' # m_meetings
  BY <1>5
<1>9. Published(mid, user, news)
  BY <1>1, <1>2, <1>5, <1>6, <1>7, <1>8 DEF Published
<1> QED
  BY <1>2, <1>9

LEMMA LeavePublishes ==
    ASSUME Inv, NEW mid \in MeetingIds, NEW user \in Users, LeaveMeeting(mid, user)
    PROVE  \E e : Published(mid, user, e) /\ e.kind \in {"UserLeft", "MeetingEnded"}
<1> DEFINE p == m_meetings[mid].participants
           rest == EraseParticipant(p, user)
           ended == [kind |-> "MeetingEnded", trigger_user |-> user]
           left == [kind |-> "UserLeft", trigger_user |-> user]
           x == PublishEventLocked(Hub, mid, ended, TRUE)
           h == PublishEventLocked(Hub, mid, left, FALSE)
           k == CloseUserSubscriptionsLocked(h, mid, user)
<1>1. /\ UNCHANGED streamVars
      /\ IF rest = << >> THEN SetHub(x) ELSE SetHub(k)
  BY DEF LeaveMeeting
<1>2. /\ ended \in Events /\ left \in Events
      /\ left.kind = "UserLeft" /\ left.trigger_user = user
      /\ ended.kind = "MeetingEnded" /\ ended.trigger_user = user
  BY DEF Events, EventKinds
<1>3. /\ mid \in DOMAIN m_meetings
      /\ rest \in Seq(Users)
      /\ \A v : Contains(rest, v) <=> Contains(p, v) /\ v # user
      /\ m_meetings'[mid].participants = rest
      /\ \A m \in DOMAIN m_meetings \ {mid} : m_meetings'[m] = m_meetings[m]
  BY LeaveMeetingFacts DEF Inv
<1>4. p \in Seq(Users) /\ Contains(p, user)
  BY <1>3, KnownMeeting, SuccessFacts DEF Inv, LeaveMeeting
<1> HIDE DEF rest, ended, left
<1>5. m_meetings' # m_meetings
  BY <1>3, <1>4
<1>6. \A u \in Users \ {user} : m_user_meetings'[u] = m_user_meetings[u]
  BY DEF LeaveMeeting, Inv, TypeOK, MeetingTypeOK
<1>7. CASE rest = << >>
  <2>1. SetHub(x)
    BY <1>1, <1>7
  <2>2. \A m \in MeetingIds, s \in Subs :
           s \in x.listed[m] <=> s \in m_subscriptions[m] /\ m # mid
    BY <1>2, PublishEffect DEF Inv, Subscribed
  <2>3. \A s \in Subs : x.events[s] =
           IF s \in m_subscriptions[mid] THEN Append(m_events[s], ended) ELSE m_events[s]
    BY <1>2, PublishQueues DEF Inv, Subscribed
  <2> HIDE DEF x
  <2>4. /\ \A s \in Subs : m_events'[s] =
              IF s \in m_subscriptions[mid] THEN Append(m_events[s], ended) ELSE m_events[s]
        /\ \A m \in MeetingIds, s \in Subs :
              s \in m_subscriptions[m] /\ m # mid => s \in m_subscriptions'[m]
    BY <2>1, <2>2, <2>3 DEF SetHub
  <2>5. Published(mid, user, ended)
    BY <1>1, <1>2, <1>3, <1>5, <1>6, <2>4 DEF Published
  <2> QED
    BY <1>2, <2>5
<1>8. CASE rest # << >>
  <2>1. SetHub(k)
    BY <1>1, <1>8
  <2>2. /\ h \in Hubs
        /\ \A m \in MeetingIds, s \in Subs : s \in h.listed[m] <=> s \in m_subscriptions[m]
    BY <1>2, PublishEffect DEF Inv, Subscribed
  <2>3. \A s \in Subs : h.events[s] =
           IF s \in m_subscriptions[mid] THEN Append(m_events[s], left) ELSE m_events[s]
    BY <1>2, PublishQueues DEF Inv, Subscribed
  <2>4. \A s \in h.listed[mid] : Alive(s)
    BY <2>2 DEF Hubs, Inv, Subscribed, ListedIffOpen
  <2> HIDE DEF h
  <2>5. \A m \in MeetingIds, s \in Subs :
           s \in k.listed[m] <=> s \in h.listed[m] /\ ~(m = mid /\ sub_of[s].user = user)
    BY <2>2, <2>4, CloseEffect
  <2>6. k.events = h.events
    BY DEF CloseUserSubscriptionsLocked
  <2> HIDE DEF k
  <2>7. /\ \A s \in Subs : m_events'[s] =
              IF s \in m_subscriptions[mid] THEN Append(m_events[s], left) ELSE m_events[s]
        /\ \A m \in MeetingIds, s \in Subs :
              s \in m_subscriptions[m] /\ ~(m = mid /\ sub_of[s].user = user)
                 => s \in m_subscriptions'[m]
    BY <2>1, <2>2, <2>3, <2>5, <2>6 DEF SetHub
  <2>8. ToSet(m_meetings'[mid].participants) = Replay(ToSet(p), left)
    <3>1. ToSet(rest) = ToSet(p) \ {user}
      BY <1>3, <1>4, ListedParticipants
    <3>2. Replay(ToSet(p), left) = ToSet(p) \ {user}
      BY <1>2 DEF Replay
    <3> QED
      BY <1>3, <3>1, <3>2
  <2>9. Published(mid, user, left)
    BY <1>1, <1>2, <1>3, <1>5, <1>6, <2>7, <2>8 DEF Published
  <2> QED
    BY <1>2, <2>9
<1> QED
  BY <1>7, <1>8

\* What the others do reaches the client through its stream, or not at all.
LEMMA OthersFrame ==
    ASSUME NEW user \in Users \ {Me}, OtherRequest(user)
    PROVE  /\ UNCHANGED <<ui, pageVars, ui_queue, engineVars, threadVars, wire>>
           /\ UNCHANGED streamVars
           /\ UNCHANGED <<ui, ui_meeting, participants, todo, tiles, ui_queue, pulls>>
           /\ UNCHANGED <<m_current_meeting_id, thread, event, call, asked, wire>>
           /\ UNCHANGED <<stream, in_hand, cancelled, sub_of>>
           /\ history' = {} => history = {}
<1>1. /\ UNCHANGED <<ui, pageVars, ui_queue, engineVars, threadVars, wire>>
      /\ UNCHANGED streamVars
  BY DEF OtherRequest, CreateMeeting, JoinMeeting, LeaveMeeting, EndMeeting
<1>2. history' = {} => history = {}
  BY DEF OtherRequest, Gap
<1> QED
  BY <1>1, <1>2 DEF pageVars, engineVars, threadVars, callVars, streamVars

\* A request that does not reach the meeting changes nothing for the page.
LEMMA SilentView ==
    ASSUME NEW user \in Users \ {Me}, OtherRequest(user),
           Listed' = Listed, m_user_meetings'[Me] = m_user_meetings[Me]
    PROVE  /\ NothingYet => NothingYet'
           /\ /\ m_events'[call] = m_events[call]
              /\ call \in m_subscriptions[ui_meeting] => call \in m_subscriptions'[ui_meeting]
              /\ Follows
              => Follows'
<1>1. /\ UNCHANGED <<ui, ui_meeting, participants, todo, tiles, ui_queue, pulls>>
      /\ UNCHANGED <<m_current_meeting_id, thread, event, call, asked, wire>>
      /\ UNCHANGED <<stream, in_hand, sub_of>>
  BY OthersFrame
<1>2. NothingYet => NothingYet'
  BY <1>1 DEF NothingYet
<1>3. ASSUME m_events'[call] = m_events[call],
             call \in m_subscriptions[ui_meeting] => call \in m_subscriptions'[ui_meeting],
             Follows
      PROVE  Follows'
  <2>1. TileWay' = TileWay /\ PullWay' = PullWay
    BY <1>1, <1>3 DEF TileWay, PullWay, AtHand, Coming
  <2>2. Base' = Base
    BY <1>1 DEF Base
  <2> QED
    BY <1>1, <1>3, <2>1, <2>2 DEF Follows, Engaged, Open, Heeds, PullsFollow,
       TilesFollow
<1> QED
  BY <1>2, <1>3

\* What is published in a meeting is the last on the way of its streams.
LEMMA WayGrows ==
    ASSUME ServerInv, ClientTypes, call \in Subs, NEW mid, NEW user \in Users \ {Me},
           OtherRequest(user), NEW e, Published(mid, user, e)
    PROVE  IF call \in m_subscriptions[mid]
           THEN TileWay' = Append(TileWay, e) /\ PullWay' = Append(PullWay, e)
           ELSE TileWay' = TileWay /\ PullWay' = PullWay
<1>1. UNCHANGED <<thread, event, call, wire, in_hand>>
  BY OthersFrame
<1>2. PICK w \in Seq(Events), h \in Seq(Events), q \in Seq(Events) :
         w = wire[call] /\ h = in_hand[call] /\ q = m_events[call]
  BY WayTypes
<1>3. PICK a \in Seq(Events), b \in Seq(Events) :
         a = AtHand(TileStages) /\ b = AtHand(PullStages)
  <2>1. AtHand(TileStages) \in Seq(Events) /\ AtHand(PullStages) \in Seq(Events)
    BY WayTypes DEF AtHand, TileStages
  <2> QED
    BY <2>1
<1>4. AtHand(TileStages)' = a /\ AtHand(PullStages)' = b
  BY <1>1, <1>3 DEF AtHand, TileStages, PullStages
<1>5. TileWay = Line(a, w, h, q) /\ PullWay = Line(b, w, h, q)
  BY <1>2, <1>3 DEF TileWay, PullWay, Coming, Line
<1>6. Coming' = w \o h \o m_events'[call]
  BY <1>1, <1>2 DEF Coming
<1>7. CASE call \in m_subscriptions[mid]
  <2>1. e \in Events /\ m_events'[call] = Append(q, e)
    BY <1>2, <1>7 DEF Published
  <2>2. e \in Events /\ a \in Seq(Events) /\ b \in Seq(Events) /\ w \in Seq(Events)
         /\ h \in Seq(Events) /\ q \in Seq(Events)
    BY <2>1
  <2>3. Line(a, w, h, OneMore(q, e)) = OneMore(Line(a, w, h, q), e)
    BY ONLY <2>2, QueueUp, SMT
  <2>4. Line(b, w, h, OneMore(q, e)) = OneMore(Line(b, w, h, q), e)
    BY ONLY <2>2, QueueUp, SMT
  <2> QED
    BY <1>4, <1>5, <1>6, <1>7, <2>1, <2>3, <2>4 DEF TileWay, PullWay, Line, OneMore
<1>8. CASE call \notin m_subscriptions[mid]
  <2>1. m_events'[call] = q
    BY <1>2, <1>8 DEF Published
  <2> QED
    BY <1>4, <1>5, <1>6, <1>8, <2>1 DEF TileWay, PullWay, Line, OneMore
<1> QED
  BY <1>7, <1>8

\* The end of a meeting stays on its way, and no other event takes it back.
LEMMA DoomedStays ==
    ASSUME ServerInv, ClientTypes, call \in Subs, NEW mid, NEW user \in Users \ {Me},
           OtherRequest(user), NEW e, Published(mid, user, e)
    PROVE  /\ Doomed => Doomed'
           /\ call \in m_subscriptions[mid] /\ e.kind = "MeetingEnded" => Doomed'
<1>1. Over => Over'
  BY OthersFrame DEF Over
<1>2. CASE call \in m_subscriptions[mid]
  <2>1. TileWay \in Seq(Events) /\ e \in Events
    BY WayTypes DEF Published
  <2>2. ToSet(Append(TileWay, e)) = ToSet(TileWay) \cup {e}
    BY <2>1, MembersLast
  <2>3. ToSet(TileWay') = ToSet(TileWay) \cup {e}
    BY <1>2, <2>2, WayGrows
  <2> QED
    BY <1>1, <2>3 DEF Doomed
<1>3. CASE call \notin m_subscriptions[mid]
  <2>1. TileWay' = TileWay
    BY <1>3, WayGrows
  <2> QED
    BY <1>1, <1>3, <2>1 DEF Doomed
<1> QED
  BY <1>2, <1>3

\* An event the page can hear of is one more on its way.
LEMMA HeardView ==
    ASSUME ServerInv, ClientTypes, call \in Subs, ui \in Following, Follows,
           NEW user \in Users \ {Me}, OtherRequest(user),
           NEW e, Published(ui_meeting, user, e), call \in m_subscriptions[ui_meeting],
           \/ e.kind = "UserJoined" /\ ui # "room"
           \/ e.kind = "UserLeft" /\ ui = "page"
    PROVE  Follows'
<1>1. /\ UNCHANGED <<ui, ui_meeting, participants, todo, tiles, ui_queue, pulls>>
      /\ UNCHANGED <<m_current_meeting_id, thread, event, call, asked, wire>>
      /\ UNCHANGED <<stream, in_hand, sub_of>>
  BY OthersFrame
<1>2. TileWay' = Append(TileWay, e) /\ PullWay' = Append(PullWay, e)
  BY WayGrows
<1>3. PICK tw \in Seq(Events), pw \in Seq(Events) : tw = TileWay /\ pw = PullWay
  BY WayTypes
<1>4. e \in Events /\ e.trigger_user = user
  BY DEF Published
<1>5. ui_meeting \in MeetingIds /\ Me \in Users
  BY InMeeting, ConferenceClientAssumption
<1>6. Listed' = Replay(Listed, e)
  BY <1>1 DEF Published, Listed
<1>7. Engaged'
  <2>1. m_user_meetings'[Me] = m_user_meetings[Me]
    BY <1>5 DEF Published
  <2> QED
    BY <1>1, <2>1 DEF Follows, Engaged
<1>8. Open'
  <2>1. sub_of[call].user = Me /\ stream[call] # "exit"
    BY InMeeting DEF Follows, Open
  <2>2. call \in m_subscriptions'[ui_meeting]
    BY <1>5, <2>1 DEF Published
  <2> QED
    BY <1>1, <2>1, <2>2 DEF Open
<1>9. Heeds'
  <2>1. ToSet(Append(tw, e)) = ToSet(tw) \cup {e}
    BY <1>4, MembersLast
  <2> QED
    BY <1>1, <1>2, <1>3, <1>4, <2>1 DEF Follows, Heeds
<1>10. PullsFollow'
  <2>1. Replayed(pulls \cup todo \cup {Me}, Append(pw, e))
          = Replay(Replayed(pulls \cup todo \cup {Me}, pw), e)
    BY <1>4, ReplayLast
  <2> QED
    BY <1>1, <1>2, <1>3, <1>6, <2>1 DEF Follows, PullsFollow
<1>11. TilesFollow'
  <2>1. Replayed(Told(Base, ui_queue) \cup {Me}, Append(tw, e))
          = Replay(Replayed(Told(Base, ui_queue) \cup {Me}, tw), e)
    BY <1>4, ReplayLast
  <2>2. Base' = Base
    BY <1>1 DEF Base
  <2> QED
    BY <1>1, <1>2, <1>3, <1>6, <2>1, <2>2 DEF Follows, TilesFollow
<1> QED
  BY <1>7, <1>8, <1>9, <1>10, <1>11 DEF Follows

\* What a request of another user does to the client's meeting, if anything.
LEMMA OtherKinds ==
    ASSUME ServerInv, NEW user \in Users \ {Me}, OtherRequest(user)
    PROVE  \/ /\ UNCHANGED hubVars
              /\ \A m \in DOMAIN m_meetings : m_meetings'[m] = m_meetings[m]
              /\ m_user_meetings'[Me] = m_user_meetings[Me]
           \/ \E mid \in MeetingIds : \E e :
                 /\ Published(mid, user, e)
                 /\ history' = {} =>
                       \/ mid # ui_meeting
                       \/ /\ Hears(mid)
                          /\ \/ e.kind = "UserJoined" /\ m_current_meeting_id = mid
                             \/ e.kind \in {"UserLeft", "MeetingEnded"} /\ ui = "page"
<1>0. Inv /\ Me \in Users /\ TypeOK
  BY ConferenceClientAssumption DEF ServerInv, Inv
<1>1. CASE CreateMeeting(user)
  <2>1. \A m \in DOMAIN m_meetings : m_meetings'[m] = m_meetings[m]
    BY <1>0, <1>1, CreateMeetingFacts
  <2>2. m_user_meetings'[Me] = m_user_meetings[Me]
    BY <1>0, <1>1 DEF CreateMeeting, TypeOK, MeetingTypeOK
  <2> QED
    BY <1>1, <2>1, <2>2 DEF CreateMeeting
<1>2. ASSUME NEW mid \in MeetingIds, JoinMeeting(mid, user),
             Gap(mid # ui_meeting \/ (Hears(mid) /\ m_current_meeting_id = mid)),
             Contains(m_meetings[mid].participants, user)
      PROVE  /\ UNCHANGED hubVars
             /\ \A m \in DOMAIN m_meetings : m_meetings'[m] = m_meetings[m]
             /\ m_user_meetings'[Me] = m_user_meetings[Me]
  BY <1>0, <1>2 DEF JoinMeeting, TypeOK, MeetingTypeOK
<1>3. ASSUME NEW mid \in MeetingIds, JoinMeeting(mid, user),
             Gap(mid # ui_meeting \/ (Hears(mid) /\ m_current_meeting_id = mid)),
             ~Contains(m_meetings[mid].participants, user)
      PROVE  \E e :
                 /\ Published(mid, user, e)
                 /\ history' = {} =>
                       \/ mid # ui_meeting
                       \/ /\ Hears(mid)
                          /\ \/ e.kind = "UserJoined" /\ m_current_meeting_id = mid
                             \/ e.kind \in {"UserLeft", "MeetingEnded"} /\ ui = "page"
  <2>1. PICK e : Published(mid, user, e) /\ e.kind = "UserJoined"
    BY <1>0, <1>3, JoinPublishes
  <2>2. m_meetings' # m_meetings
    BY <2>1 DEF Published
  <2>3. history' = {} => mid # ui_meeting \/ (Hears(mid) /\ m_current_meeting_id = mid)
    BY <1>3, <2>2 DEF Gap
  <2> QED
    BY <2>1, <2>3
<1>4. ASSUME NEW mid \in MeetingIds, LeaveMeeting(mid, user) \/ EndMeeting(mid, user),
             Gap(mid # ui_meeting \/ (Hears(mid) /\ ui = "page"))
      PROVE  \E e :
                 /\ Published(mid, user, e)
                 /\ history' = {} =>
                       \/ mid # ui_meeting
                       \/ /\ Hears(mid)
                          /\ \/ e.kind = "UserJoined" /\ m_current_meeting_id = mid
                             \/ e.kind \in {"UserLeft", "MeetingEnded"} /\ ui = "page"
  <2>1. PICK e : Published(mid, user, e) /\ e.kind \in {"UserLeft", "MeetingEnded"}
    BY <1>0, <1>4, LeavePublishes, EndPublishes
  <2>2. m_meetings' # m_meetings
    BY <2>1 DEF Published
  <2>3. history' = {} => mid # ui_meeting \/ (Hears(mid) /\ ui = "page")
    BY <1>4, <2>2 DEF Gap
  <2> QED
    BY <2>1, <2>3
<1> HIDE DEF CreateMeeting, JoinMeeting, LeaveMeeting, EndMeeting, Gap, Published, Hears
<1> QED
  BY <1>1, <1>2, <1>3, <1>4 DEF OtherRequest

\* What goes on in another meeting does not concern the client.
LEMMA ElsewhereView ==
    ASSUME ServerInv, ClientTypes, ui \in Following, call \in Subs, Follows,
           NEW user \in Users \ {Me}, OtherRequest(user),
           NEW mid \in MeetingIds, NEW e, Published(mid, user, e), mid # ui_meeting
    PROVE  Follows'
<1>1. /\ ui_meeting \in MeetingIds /\ ui_meeting \in DOMAIN m_meetings
      /\ m_user_meetings[Me] = ui_meeting /\ Me \in Users
      /\ call \in m_subscriptions[ui_meeting] => Alive(call)
      /\ call \in m_subscriptions[ui_meeting] \/ stream[call] = "free"
  BY InMeeting, ConferenceClientAssumption DEF Follows, Engaged, Open
<1>2. call \notin m_subscriptions[mid]
  BY <1>1 DEF ServerInv, Inv, Subscribed, ListedIffOpen, Alive, Running
<1>3. m_events'[call] = m_events[call]
  BY <1>2 DEF Published
<1>4. call \in m_subscriptions[ui_meeting] => call \in m_subscriptions'[ui_meeting]
  BY <1>1 DEF Published
<1>5. m_meetings'[ui_meeting] = m_meetings[ui_meeting]
  BY <1>1 DEF Published
<1>6. Listed' = Listed
  BY <1>5, OthersFrame DEF Listed
<1>7. m_user_meetings'[Me] = m_user_meetings[Me]
  BY <1>1 DEF Published
<1> QED
  BY <1>3, <1>4, <1>6, <1>7, SilentView

\* What the other users do.
LEMMA OtherView ==
    ASSUME ServerInv, ClientTypes, CallInv, ViewInv, NEW user \in Users \ {Me},
           OtherRequest(user)
    PROVE  ViewInv'
<1> SUFFICES ASSUME history' = {}
             PROVE  /\ ui' \in Preparing => NothingYet'
                    /\ ui' \in Following => Followed'
  BY DEF ViewInv
<1>1. /\ UNCHANGED <<ui, ui_meeting, m_current_meeting_id, thread, event, call, wire>>
      /\ UNCHANGED <<in_hand, cancelled>>
      /\ history = {}
  BY OthersFrame
<1>2. ASSUME m_user_meetings[Me] = ui_meeting, ui \in Preparing \cup Following
      PROVE  ui_meeting \in MeetingIds /\ ui_meeting \in DOMAIN m_meetings
  <2>1. ui_meeting \in MeetingIds /\ ui_meeting # NoMeeting
    BY <1>2 DEF ClientTypes, UiTypes, Preparing, Following
  <2> QED
    BY <1>2, <2>1, ConferenceClientAssumption
       DEF ServerInv, Inv, MembershipConsistent, IndexMatchesLists
<1>3. CASE /\ UNCHANGED hubVars
           /\ \A m \in DOMAIN m_meetings : m_meetings'[m] = m_meetings[m]
           /\ m_user_meetings'[Me] = m_user_meetings[Me]
  <2>1. ASSUME m_user_meetings[Me] = ui_meeting, ui \in Preparing \cup Following
        PROVE  Listed' = Listed
    BY <1>1, <1>2, <1>3, <2>1 DEF Listed
  <2>2. ASSUME ui \in Preparing PROVE NothingYet'
    <3>1. NothingYet /\ m_user_meetings[Me] = ui_meeting
      BY <1>1, <2>2 DEF ViewInv, NothingYet
    <3> QED
      BY <1>3, <2>1, <2>2, <3>1, SilentView
  <2>3. ASSUME ui \in Following PROVE Followed'
    <3>1. Followed
      BY <1>1, <2>3 DEF ViewInv
    <3>2. Doomed' <=> Doomed
      BY <1>1, <1>3, WayFrame DEF hubVars
    <3>3. ASSUME Follows PROVE Follows'
      <4>1. m_user_meetings[Me] = ui_meeting
        BY <3>3 DEF Follows, Engaged
      <4> QED
        BY <1>3, <2>1, <2>3, <3>3, <4>1, SilentView DEF hubVars
    <3> QED
      BY <1>1, <3>1, <3>2, <3>3 DEF Followed
  <2> QED
    BY <1>1, <2>2, <2>3
<1>4. ASSUME NEW mid \in MeetingIds, NEW e, Published(mid, user, e),
             \/ mid # ui_meeting
             \/ /\ Hears(mid)
                /\ \/ e.kind = "UserJoined" /\ m_current_meeting_id = mid
                   \/ e.kind \in {"UserLeft", "MeetingEnded"} /\ ui = "page"
      PROVE  /\ ui \in Preparing => NothingYet'
             /\ ui \in Following => Followed'
  <2>1. ASSUME ui \in Preparing PROVE NothingYet'
    <3>1. NothingYet /\ m_user_meetings[Me] = ui_meeting
      BY <1>1, <2>1 DEF ViewInv, NothingYet
    <3>2. ui_meeting \in MeetingIds /\ ui_meeting \in DOMAIN m_meetings /\ ui_meeting # NoMeeting
      BY <1>2, <2>1, <3>1 DEF ClientTypes, UiTypes, Preparing
    <3>3. mid # ui_meeting
      BY <1>4, <2>1, <3>1, <3>2 DEF NothingYet, Preparing, Hears
    <3>4. /\ m_meetings'[ui_meeting] = m_meetings[ui_meeting]
          /\ m_user_meetings'[Me] = m_user_meetings[Me]
      BY <1>4, <3>1, <3>2, <3>3, ConferenceClientAssumption DEF Published
    <3>5. Listed' = Listed
      BY <1>1, <3>4 DEF Listed
    <3> QED
      BY <3>1, <3>4, <3>5, SilentView
  <2>2. ASSUME ui \in Following PROVE Followed'
    <3>1. Followed
      BY <1>1, <2>2 DEF ViewInv
    <3>2. call \in Subs
      BY <3>1 DEF Followed
    <3>3. Doomed => Doomed'
      BY <1>4, <3>2, DoomedStays
    <3>4. ASSUME Follows PROVE Doomed' \/ Follows'
      <4>1. CASE mid # ui_meeting
        BY <1>4, <2>2, <3>2, <3>4, <4>1, ElsewhereView
      <4>2. CASE mid = ui_meeting
        <5>1. call \in m_subscriptions[mid]
          BY <1>4, <4>2 DEF Hears
        <5>2. CASE e.kind = "MeetingEnded"
          BY <1>4, <3>2, <5>1, <5>2, DoomedStays
        <5>3. CASE e.kind = "UserJoined"
          <6>1. ui # "room"
            <7>1. m_current_meeting_id = ui_meeting /\ ui_meeting # NoMeeting
              BY <1>4, <2>2, <3>2, <3>4, <4>2, <5>3, InMeeting
            <7> QED
              BY <3>4, <7>1 DEF Follows, Engaged
          <6> QED
            BY <1>4, <2>2, <3>2, <3>4, <4>2, <5>1, <5>3, <6>1, HeardView
        <5>4. CASE e.kind = "UserLeft"
          BY <1>4, <2>2, <3>2, <3>4, <4>2, <5>1, <5>4, HeardView
        <5> QED
          BY <1>4, <4>2, <5>2, <5>3, <5>4
      <4> QED
        BY <4>1, <4>2
    <3> QED
      BY <1>1, <3>1, <3>2, <3>3, <3>4 DEF Followed
  <2> QED
    BY <2>1, <2>2
<1> HIDE DEF Published, Hears
<1>5. ASSUME NEW mid \in MeetingIds, NEW e, Published(mid, user, e),
             history' = {} =>
                 \/ mid # ui_meeting
                 \/ /\ Hears(mid)
                    /\ \/ e.kind = "UserJoined" /\ m_current_meeting_id = mid
                       \/ e.kind \in {"UserLeft", "MeetingEnded"} /\ ui = "page"
      PROVE  /\ ui' \in Preparing => NothingYet'
             /\ ui' \in Following => Followed'
  BY <1>1, <1>4, <1>5
<1> QED
  BY <1>3, <1>5, OtherKinds

\* Every step keeps what the page will show.
LEMMA ViewStep ==
    ASSUME ServerInv, ClientTypes, CallInv, ViewInv, [ClientNext]_allVars
    PROVE  ViewInv'
<1>1. ASSUME EventThread PROVE ViewInv'
  <2>1. history' = {} => history' = history
    BY <1>1 DEF EventThread, LoopEvents, ReadEvent, ReadFails, HandleMeetingEvent,
       CheckJoined,
       SubscribeJoined, UnsubscribeLeft, CleanupEnded, Notify, StopItself, FinishCall
  <2>2. UNCHANGED ui
    BY <1>1, EventFrame
  <2>3. ~NothingYet
    BY <1>1 DEF NothingYet, EventThread, LoopEvents, ReadEvent, ReadFails,
       HandleMeetingEvent,
       CheckJoined, SubscribeJoined, UnsubscribeLeft, CleanupEnded, Notify, StopItself,
       FinishCall, ThreadGoes
  <2>4. ASSUME history' = {}, ui \in Following PROVE Followed'
    <3>1. Followed /\ history = {} /\ history' = history
      BY <2>1, <2>4 DEF ViewInv
    <3> QED
      BY <1>1, <2>4, <3>1, EventView
  <2> QED
    BY <2>1, <2>2, <2>3, <2>4 DEF ViewInv
<1>2. CASE UNCHANGED allVars
  <2>1. UNCHANGED vars /\ UNCHANGED <<ui, ui_meeting, participants, todo, tiles>>
    BY <1>2 DEF allVars, clientVars, pageVars
  <2>2. UNCHANGED <<ui_queue, engineVars, threadVars, wire, history>>
    BY <1>2 DEF allVars, clientVars
  <2> QED
    BY <2>1, <2>2, ViewFrame
<1> HIDE DEF ViewInv
<1> QED
  BY <1>1, <1>2, ClickView, WorkView, ServerView, OtherView DEF ClientNext

LEMMA ViewStarts == ClientInit => CallInv /\ ViewInv
<1> SUFFICES ASSUME ClientInit PROVE CallInv /\ ViewInv
  OBVIOUS
<1>1. CallInv
  <2>1. call \notin Subs
    BY ConferenceClientAssumption DEF ClientInit
  <2>2. \A s \in Subs : stream[s] = "free" /\ ~cancelled[s] /\ wire[s] = << >>
    BY DEF ClientInit
  <2> QED
    BY <2>1, <2>2 DEF CallInv
<1>2. ViewInv
  BY DEF ClientInit, ViewInv, Preparing, Following
<1> QED
  BY <1>1, <1>2

\* Whatever the order of requests, events, notices and subscriptions by the two
\* threads of the client, and whatever the other users do: with no disturbance,
\* once everything has been delivered, the windows of ConferencePage, the pull
\* sessions of VceEngineImpl and the participants the server lists are the same.
THEOREM PageShowsMeeting == ClientSpec => []ViewSettles
<1>1. ServerInv /\ ClientTypes /\ CallInv /\ ViewInv /\ [ClientNext]_allVars
        => (CallInv /\ ViewInv)'
  BY CallStep, ViewStep
<1>2. ServerInv /\ ClientTypes /\ CallInv /\ ViewInv => ViewSettles
  BY AllShown DEF ViewSettles
<1> QED
  BY <1>1, <1>2, ClientStays, ViewStarts, PTL DEF ClientSpec

=============================================================================
