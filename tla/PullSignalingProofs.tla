-------------------------- MODULE PullSignalingProofs --------------------------
(* Proofs about the pull side of TransportEngine, for any users and         *)
(* sessions.                                                                *)
EXTENDS PullSignaling, SequenceTheorems, TLAPS

-----------------------------------------------------------------------------
(* The inductive invariant.                                                 *)

\* Sessions the caller has taken off the map and not finished with.
Held == hand \cup (IF caller = "delete" THEN {target} ELSE {})

\* Sessions with a task queued or running.
Queued == {m_signaling_tasks[i].session : i \in 1..Len(m_signaling_tasks)}

\* A session of the map is that of the user it was made for, and is not closed.
MapInv ==
    \A u \in Users :
        m_pull_sessions[u] # None =>
            /\ user_of[m_pull_sessions[u]] = u
            /\ peer[m_pull_sessions[u]] \in {"created", "open", "silent", "offered"}

\* Nothing is known of a session whose offer is not ready.
FreshInv ==
    \A s \in Sessions :
        /\ peer[s] # "unused" => user_of[s] \in Users
        /\ peer[s] \in {"unused", "created", "open", "silent"} =>
              /\ answer[s] = None
              /\ s \notin resource_url \cup Queued
              /\ s # job.session
        /\ peer[s] = "unused" => s \notin Held
        /\ peer[s] = "created" => caller = "subscribe" /\ target = s

\* A session whose offer may still come is its user's, or is being closed and
\* its user has none: this is what makes looking it up by name safe.
OpenInv ==
    \A s \in Sessions :
        peer[s] \in {"created", "open"} =>
            \/ m_pull_sessions[user_of[s]] = s
            \/ s \in hand /\ m_pull_sessions[user_of[s]] = None

\* A task is about one session, whose offer it carries; no two are about the same.
TaskInv ==
    /\ \A i \in 1..Len(m_signaling_tasks) :
          m_signaling_tasks[i].offer = m_signaling_tasks[i].session
    /\ \A i, j \in 1..Len(m_signaling_tasks) :
          m_signaling_tasks[i].session = m_signaling_tasks[j].session => i = j
    /\ job.offer = job.session
    /\ job.session \notin Queued
    /\ Queued \cap resource_url = {}
    /\ \A s \in Queued : answer[s] = None

\* The running task's session has no URL yet, and the stage says what is done.
WorkerInv ==
    /\ worker \in {"wait", "stopped"} <=> job = NoJob
    /\ job.session \notin resource_url
    /\ worker = "close" => job.session \notin Live
    /\ worker = "store" => answer[job.session] = job.session

CallerInv ==
    /\ caller \notin {"close", "delete"} => hand = {}
    /\ caller \in {"subscribe", "delete"} => target \in Sessions
    /\ caller = "subscribe" =>
          peer[target] = "created" /\ m_pull_sessions[user_of[target]] = target
    /\ caller = "delete" => peer[target] = "closed" /\ target \notin hand
    /\ Held \cap Live = {}

\* The URLs the media server has given: stored with a session of the map, with
\* one being closed, or in the hands of the running task.
OwedInv ==
    owed = ((Live \cup Held) \cap resource_url)
           \cup (IF told /\ worker \in Holding THEN {job.offer} ELSE {})

\* Connections still open.
PeerInv ==
    \A s \in Sessions :
        peer[s] \in {"created", "open", "silent", "offered"} =>
            \/ s \in Live \cup hand
            \/ worker = "close" /\ s = job.session

AnswerInv ==
    /\ OwnAnswer
    /\ \A s \in Live \cap resource_url : peer[s] = "offered" /\ answer[s] = s

IInv ==
    /\ TypeOK
    /\ MapInv
    /\ FreshInv
    /\ OpenInv
    /\ TaskInv
    /\ WorkerInv
    /\ CallerInv
    /\ OwedInv
    /\ PeerInv
    /\ AnswerInv

-----------------------------------------------------------------------------
(* The map of sessions.                                                     *)

\* A session is in the map exactly when it is that of its user.
LEMMA LiveMember ==
    ASSUME TypeOK, MapInv
    PROVE  \A s \in Sessions :
              s \in Live <=> user_of[s] \in Users /\ m_pull_sessions[user_of[s]] = s
  BY PullAssumption DEF TypeOK, MapInv, Live

\* Entering a session.
LEMMA LiveAdd ==
    ASSUME TypeOK, NEW u \in Users, NEW s \in Sessions, m_pull_sessions[u] = None,
           m_pull_sessions' = [m_pull_sessions EXCEPT ![u] = s]
    PROVE  Live' = Live \cup {s}
  BY PullAssumption DEF TypeOK, Live

\* Taking a session off, whoever's it is.
LEMMA LiveErase ==
    ASSUME TypeOK, MapInv, NEW u \in Users,
           m_pull_sessions' = [m_pull_sessions EXCEPT ![u] = None]
    PROVE  Live' = Live \ {m_pull_sessions[u]}
  BY PullAssumption DEF TypeOK, MapInv, Live

\* Closing all of them.
LEMMA LiveClear ==
    ASSUME m_pull_sessions' = [u \in Users |-> None]
    PROVE  Live' = {}
  BY DEF Live

LEMMA LiveSame ==
    ASSUME UNCHANGED m_pull_sessions
    PROVE  Live' = Live
  BY DEF Live

-----------------------------------------------------------------------------
(* The queue of the signaling thread.                                       *)

LEMMA QueuedAppend ==
    ASSUME TypeOK, NEW task \in Tasks,
           m_signaling_tasks' = Append(m_signaling_tasks, task)
    PROVE  /\ Queued' = Queued \cup {task.session}
           /\ Len(m_signaling_tasks') = Len(m_signaling_tasks) + 1
           /\ m_signaling_tasks'[Len(m_signaling_tasks) + 1] = task
           /\ \A i \in 1..Len(m_signaling_tasks) :
                 m_signaling_tasks'[i] = m_signaling_tasks[i]
<1> DEFINE q == m_signaling_tasks
           n == Len(q)
<1>1. q \in Seq(Tasks) /\ n \in Nat
  BY DEF TypeOK
<1>2. /\ Len(q') = n + 1
      /\ q'[n + 1] = task
      /\ \A i \in 1..n : q'[i] = q[i]
  BY <1>1
<1>3. ASSUME NEW i \in 1..Len(q')
      PROVE  q'[i].session \in Queued \cup {task.session}
  <2>1. i = n + 1 \/ i \in 1..n
    BY <1>1, <1>2
  <2> QED
    BY <1>2, <2>1 DEF Queued
<1>4. ASSUME NEW s \in Queued \cup {task.session}
      PROVE  \E i \in 1..Len(q') : q'[i].session = s
  <2>1. CASE s = task.session
    <3>1. n + 1 \in 1..Len(q')
      BY <1>1, <1>2
    <3> QED
      BY <1>2, <2>1, <3>1
  <2>2. CASE s \in Queued
    <3>1. PICK i \in 1..n : q[i].session = s
      BY <2>2 DEF Queued
    <3>2. i \in 1..Len(q')
      BY <1>1, <1>2
    <3> QED
      BY <1>2, <3>1, <3>2
  <2> QED
    BY <2>1, <2>2
<1> QED
  BY <1>2, <1>3, <1>4 DEF Queued

LEMMA QueuedTail ==
    ASSUME TypeOK, TaskInv, m_signaling_tasks # <<>>,
           m_signaling_tasks' = Tail(m_signaling_tasks)
    PROVE  /\ Head(m_signaling_tasks) = m_signaling_tasks[1]
           /\ 1 \in 1..Len(m_signaling_tasks)
           /\ Head(m_signaling_tasks).session \in Queued
           /\ Queued' = Queued \ {Head(m_signaling_tasks).session}
           /\ \A i \in 1..Len(m_signaling_tasks') :
                 /\ i + 1 \in 1..Len(m_signaling_tasks)
                 /\ m_signaling_tasks'[i] = m_signaling_tasks[i + 1]
<1> DEFINE q == m_signaling_tasks
           n == Len(q)
<1>1. q \in Seq(Tasks) /\ n \in Nat /\ 1 \in 1..n /\ Head(q) = q[1]
  BY DEF TypeOK
<1>2. /\ Len(q') = n - 1
      /\ \A i \in 1..(n - 1) : q'[i] = q[i + 1]
  BY <1>1
<1>3. \A i \in 1..Len(q') : i + 1 \in 1..n /\ i + 1 # 1 /\ q'[i] = q[i + 1]
  BY <1>1, <1>2
<1>4. ASSUME NEW s \in Queued, s # Head(q).session
      PROVE  \E i \in 1..Len(q') : q'[i].session = s
  <2>1. PICK j \in 1..n : q[j].session = s
    BY DEF Queued
  <2>2. j - 1 \in 1..Len(q') /\ q'[j - 1] = q[j]
    BY <1>1, <1>2, <1>4, <2>1
  <2> QED
    BY <2>1, <2>2
<1>5. ASSUME NEW i \in 1..Len(q')
      PROVE  q'[i].session \in Queued /\ q'[i].session # Head(q).session
  BY <1>1, <1>3 DEF Queued, TaskInv
<1>6. Queued' = Queued \ {Head(q).session}
  <2>1. \A s : s \in Queued' <=> \E i \in 1..Len(q') : q'[i].session = s
    BY DEF Queued
  <2>2. \A s : s \in Queued' => s \in Queued /\ s # Head(q).session
    BY <1>5, <2>1
  <2>3. \A s : s \in Queued /\ s # Head(q).session => s \in Queued'
    BY <1>4, <2>1
  <2> QED
    BY <2>2, <2>3
<1> QED
  BY <1>1, <1>3, <1>6 DEF Queued

LEMMA QueuedSame ==
    ASSUME UNCHANGED m_signaling_tasks
    PROVE  Queued' = Queued
  BY DEF Queued

\* Only sessions are queued, and only sessions are in the map.
LEMMA QueuedSessions == TypeOK => Queued \subseteq Sessions
<1> SUFFICES ASSUME TypeOK, NEW i \in 1..Len(m_signaling_tasks)
             PROVE  m_signaling_tasks[i].session \in Sessions
  BY DEF Queued
<1>1. m_signaling_tasks[i] \in Tasks
  BY DEF TypeOK
<1> QED
  BY <1>1 DEF Tasks

LEMMA LiveSessions == TypeOK => Live \subseteq Sessions
  BY DEF TypeOK, Live

LEMMA TaskTypes ==
    ASSUME NEW q \in Seq(Tasks)
    PROVE  /\ \A task \in Tasks : Append(q, task) \in Seq(Tasks)
           /\ q # <<>> => Head(q) \in Tasks /\ Tail(q) \in Seq(Tasks)
  OBVIOUS

-----------------------------------------------------------------------------
(* The caller.                                                              *)

LEMMA SubscribeUserAVInv ==
    ASSUME IInv, NEW u \in Users, NEW s \in Sessions, SubscribeUserAV(u, s)
    PROVE  IInv'
<1>1. Live' = Live \cup {s}
  BY LiveAdd DEF IInv, SubscribeUserAV
<1>2. Queued' = Queued
  BY QueuedSame DEF SubscribeUserAV, workerVars
<1>3. TypeOK'
  BY DEF IInv, TypeOK, SubscribeUserAV, CallerStages, workerVars, CallerGoes
<1>4. MapInv'
  BY DEF IInv, MapInv, SubscribeUserAV, TypeOK
<1>5. FreshInv'
  BY <1>2
     DEF IInv, FreshInv, SubscribeUserAV, workerVars, CallerGoes, TypeOK, Held
<1>6. OpenInv'
  BY PullAssumption
     DEF IInv, OpenInv, SubscribeUserAV, TypeOK, CallerInv, CallerGoes
<1>7. TaskInv'
  BY <1>2 DEF IInv, TaskInv, SubscribeUserAV, workerVars
<1>8. WorkerInv'
  BY <1>1 DEF IInv, WorkerInv, SubscribeUserAV, FreshInv, workerVars
<1>9. CallerInv'
  BY DEF IInv, CallerInv, SubscribeUserAV, CallerGoes, TypeOK, Held
<1>10. OwedInv'
  BY <1>1
     DEF IInv, OwedInv, SubscribeUserAV, FreshInv, Held, workerVars, CallerGoes
<1>11. PeerInv'
  BY <1>1 DEF IInv, PeerInv, SubscribeUserAV, workerVars
<1>12. AnswerInv'
  BY <1>1 DEF IInv, AnswerInv, SubscribeUserAV, FreshInv, OwnAnswer
<1> QED
  BY <1>3, <1>4, <1>5, <1>6, <1>7, <1>8, <1>9, <1>10, <1>11, <1>12 DEF IInv

LEMMA SubscribeAudioVideoInv ==
    ASSUME IInv, SubscribeAudioVideo
    PROVE  IInv'
<1>1. Live' = Live
  BY LiveSame DEF SubscribeAudioVideo, mapVars
<1>2. Queued' = Queued
  BY QueuedSame DEF SubscribeAudioVideo, workerVars
<1>3. TypeOK'
  BY DEF IInv, TypeOK, SubscribeAudioVideo, mapVars, workerVars, CallerGoes,
         CallerInv, CallerStages
<1>4. MapInv'
  BY DEF IInv, MapInv, SubscribeAudioVideo, mapVars
<1>5. FreshInv'
  BY <1>2
     DEF IInv, FreshInv, SubscribeAudioVideo, mapVars, workerVars, CallerGoes,
         TypeOK, CallerInv, Held
<1>6. OpenInv'
  BY DEF IInv, OpenInv, SubscribeAudioVideo, mapVars, CallerGoes, CallerInv
<1>7. TaskInv'
  BY <1>2 DEF IInv, TaskInv, SubscribeAudioVideo, mapVars, workerVars
<1>8. WorkerInv'
  BY <1>1 DEF IInv, WorkerInv, SubscribeAudioVideo, mapVars, workerVars
<1>9. CallerInv'
  BY DEF IInv, CallerInv, SubscribeAudioVideo, CallerGoes, Held
<1>10. OwedInv'
  BY <1>1
     DEF IInv, OwedInv, SubscribeAudioVideo, mapVars, workerVars, CallerGoes,
         Held
<1>11. PeerInv'
  BY <1>1
     DEF IInv, PeerInv, SubscribeAudioVideo, workerVars, CallerGoes, CallerInv
<1>12. AnswerInv'
  BY <1>1
     DEF IInv, AnswerInv, SubscribeAudioVideo, mapVars, CallerGoes, CallerInv,
         OwnAnswer
<1> QED
  BY <1>3, <1>4, <1>5, <1>6, <1>7, <1>8, <1>9, <1>10, <1>11, <1>12 DEF IInv

LEMMA SubscribeFailsInv ==
    ASSUME IInv, SubscribeFails
    PROVE  IInv'
<1>1. Live' = Live \ {target}
  <2>1. /\ target \in Sessions /\ user_of[target] \in Users
        /\ m_pull_sessions[user_of[target]] = target
    BY DEF IInv, SubscribeFails, CallerGoes, CallerInv, FreshInv
  <2>2. Live' = Live \ {m_pull_sessions[user_of[target]]}
    BY <2>1, LiveErase DEF IInv, SubscribeFails
  <2> QED
    BY <2>1, <2>2
<1>2. Queued' = Queued
  BY QueuedSame DEF SubscribeFails, workerVars
<1>3. TypeOK'
  BY DEF IInv, TypeOK, SubscribeFails, workerVars, CallerGoes, FreshInv,
         CallerInv, CallerStages
<1>4. MapInv'
  BY DEF IInv, MapInv, SubscribeFails, TypeOK
<1>5. FreshInv'
  BY <1>2
     DEF IInv, FreshInv, SubscribeFails, workerVars, CallerGoes, TypeOK,
         CallerInv, Held
<1>6. OpenInv'
  BY DEF IInv, OpenInv, SubscribeFails, CallerGoes, TypeOK, CallerInv
<1>7. TaskInv'
  BY <1>2 DEF IInv, TaskInv, SubscribeFails, workerVars
<1>8. WorkerInv'
  BY <1>1 DEF IInv, WorkerInv, SubscribeFails, workerVars
<1>9. CallerInv'
  BY DEF IInv, CallerInv, SubscribeFails, CallerGoes, Held
<1>10. OwedInv'
  BY <1>1
     DEF IInv, OwedInv, SubscribeFails, workerVars, CallerGoes, FreshInv,
         CallerInv, Held
<1>11. PeerInv'
  BY <1>1 DEF IInv, PeerInv, SubscribeFails, workerVars, TypeOK
<1>12. AnswerInv'
  BY <1>1 DEF IInv, AnswerInv, SubscribeFails, OwnAnswer
<1> QED
  BY <1>3, <1>4, <1>5, <1>6, <1>7, <1>8, <1>9, <1>10, <1>11, <1>12 DEF IInv

LEMMA UnsubscribeUserAVInv ==
    ASSUME IInv, NEW u \in Users, UnsubscribeUserAV(u)
    PROVE  IInv'
<1>1. Live' = Live \ {m_pull_sessions[u]}
  BY LiveErase DEF IInv, UnsubscribeUserAV
<1>2. Queued' = Queued
  BY QueuedSame DEF UnsubscribeUserAV, workerVars
<1>3. TypeOK'
  BY DEF IInv, TypeOK, UnsubscribeUserAV, workerVars, CallerGoes, CallerStages
<1>4. MapInv'
  BY DEF IInv, MapInv, UnsubscribeUserAV
<1>5. FreshInv'
  BY <1>2
     DEF IInv, FreshInv, UnsubscribeUserAV, MapInv, Held, workerVars, CallerGoes
<1>6. OpenInv'
  BY DEF IInv, OpenInv, UnsubscribeUserAV, CallerGoes, CallerInv
<1>7. TaskInv'
  BY <1>2 DEF IInv, TaskInv, UnsubscribeUserAV, workerVars
<1>8. WorkerInv'
  BY <1>1 DEF IInv, WorkerInv, UnsubscribeUserAV, workerVars
<1>9. CallerInv'
  BY <1>1 DEF IInv, CallerInv, UnsubscribeUserAV, CallerGoes, Held
<1>10. OwedInv'
  BY <1>1
     DEF IInv, OwedInv, UnsubscribeUserAV, TypeOK, MapInv, WorkerInv, CallerInv,
         PeerInv, Held, workerVars, CallerGoes
<1>11. PeerInv'
  BY <1>1
     DEF IInv, PeerInv, UnsubscribeUserAV, workerVars, CallerGoes, CallerInv
<1>12. AnswerInv'
  BY <1>1 DEF IInv, AnswerInv, UnsubscribeUserAV, OwnAnswer
<1> QED
  BY <1>3, <1>4, <1>5, <1>6, <1>7, <1>8, <1>9, <1>10, <1>11, <1>12 DEF IInv

LEMMA UninitInv ==
    ASSUME IInv, Uninit
    PROVE  IInv'
<1>1. Live' = Live
  BY LiveSame DEF Uninit, mapVars
<1>2. Queued' = Queued
  BY QueuedSame DEF Uninit, workerVars
<1>3. TypeOK'
  <2>1. m_initialized' \in BOOLEAN
    BY DEF Uninit
  <2> QED
    BY <2>1 DEF IInv, TypeOK, Uninit, CallerGoes, CallerStages, mapVars, workerVars
<1>4. MapInv'
  BY DEF IInv, MapInv, Uninit, mapVars
<1>5. FreshInv'
  BY <1>2 DEF IInv, FreshInv, Uninit, mapVars, workerVars, CallerGoes, Held
<1>6. OpenInv'
  BY DEF IInv, OpenInv, Uninit, mapVars
<1>7. TaskInv'
  BY <1>2 DEF IInv, TaskInv, Uninit, mapVars, workerVars
<1>8. WorkerInv'
  BY <1>1 DEF IInv, WorkerInv, Uninit, mapVars, workerVars
<1>9. CallerInv'
  BY DEF IInv, CallerInv, Uninit, CallerGoes, Held
<1>10. OwedInv'
  BY <1>1 DEF IInv, OwedInv, Uninit, mapVars, workerVars, CallerGoes, Held
<1>11. PeerInv'
  BY <1>1 DEF IInv, PeerInv, Uninit, workerVars
<1>12. AnswerInv'
  BY <1>1 DEF IInv, AnswerInv, Uninit, mapVars, OwnAnswer
<1> QED
  BY <1>3, <1>4, <1>5, <1>6, <1>7, <1>8, <1>9, <1>10, <1>11, <1>12 DEF IInv

LEMMA StopSignalingWorkerInv ==
    ASSUME IInv, StopSignalingWorker
    PROVE  IInv'
<1>1. Live' = Live
  BY LiveSame DEF StopSignalingWorker, mapVars
<1>2. Queued' = {}
  BY DEF StopSignalingWorker, Queued
<1>3. TypeOK'
  <2>1. <<>> \in Seq(Tasks)
    OBVIOUS
  <2>2. m_signaling_running' \in BOOLEAN
    BY DEF StopSignalingWorker
  <2> QED
    BY <2>1, <2>2 DEF IInv, TypeOK, StopSignalingWorker, CallerGoes, CallerStages, mapVars
<1>4. MapInv'
  BY DEF IInv, MapInv, StopSignalingWorker, mapVars
<1>5. FreshInv'
  BY <1>2 DEF IInv, FreshInv, StopSignalingWorker, mapVars, CallerGoes, Held
<1>6. OpenInv'
  BY DEF IInv, OpenInv, StopSignalingWorker, mapVars
<1>7. TaskInv'
  BY <1>2 DEF IInv, TaskInv, StopSignalingWorker
<1>8. WorkerInv'
  BY <1>1 DEF IInv, WorkerInv, StopSignalingWorker, mapVars
<1>9. CallerInv'
  BY DEF IInv, CallerInv, StopSignalingWorker, CallerGoes, Held
<1>10. OwedInv'
  BY <1>1 DEF IInv, OwedInv, StopSignalingWorker, mapVars, CallerGoes, Held
<1>11. PeerInv'
  BY <1>1 DEF IInv, PeerInv, StopSignalingWorker
<1>12. AnswerInv'
  BY <1>1 DEF IInv, AnswerInv, StopSignalingWorker, mapVars, OwnAnswer
<1> QED
  BY <1>3, <1>4, <1>5, <1>6, <1>7, <1>8, <1>9, <1>10, <1>11, <1>12 DEF IInv

LEMMA CloseAllPullInv ==
    ASSUME IInv, CloseAllPull
    PROVE  IInv'
<1>1. Live' = {}
  BY LiveClear DEF CloseAllPull
<1>2. Queued' = Queued
  BY QueuedSame DEF CloseAllPull, workerVars
<1>3. TypeOK'
  BY LiveSessions
     DEF IInv, TypeOK, CloseAllPull, workerVars, CallerGoes, CallerStages
<1>4. MapInv'
  BY DEF IInv, MapInv, CloseAllPull
<1>5. FreshInv'
  BY <1>2, LiveMember, PullAssumption
     DEF IInv, FreshInv, CloseAllPull, MapInv, Held, workerVars, CallerGoes
<1>6. OpenInv'
  BY LiveMember DEF IInv, OpenInv, CloseAllPull, CallerGoes, FreshInv, CallerInv
<1>7. TaskInv'
  BY <1>2 DEF IInv, TaskInv, CloseAllPull, workerVars
<1>8. WorkerInv'
  BY DEF IInv, WorkerInv, CloseAllPull, workerVars
<1>9. CallerInv'
  BY <1>1 DEF IInv, CallerInv, CloseAllPull, CallerGoes
<1>10. OwedInv'
  BY <1>1
     DEF IInv, OwedInv, CloseAllPull, workerVars, CallerGoes, CallerInv, Held
<1>11. PeerInv'
  BY DEF IInv, PeerInv, CloseAllPull, CallerGoes, CallerInv
<1>12. AnswerInv'
  BY <1>1 DEF IInv, AnswerInv, CloseAllPull, OwnAnswer
<1> QED
  BY <1>3, <1>4, <1>5, <1>6, <1>7, <1>8, <1>9, <1>10, <1>11, <1>12 DEF IInv

LEMMA CloseHeldInv ==
    ASSUME IInv, NEW s \in Sessions, CloseHeld(s)
    PROVE  IInv'
<1>1. Live' = Live
  BY LiveSame DEF CloseHeld, mapVars
<1>2. Queued' = Queued
  BY QueuedSame DEF CloseHeld, workerVars
<1>3. TypeOK'
  BY DEF IInv, TypeOK, CloseHeld, mapVars, workerVars, CallerGoes, CallerStages
<1>4. MapInv'
  BY LiveMember DEF IInv, MapInv, CloseHeld, mapVars, CallerInv, Held
<1>5. FreshInv'
  BY <1>2 DEF IInv, FreshInv, CloseHeld, mapVars, workerVars, CallerGoes, Held
<1>6. OpenInv'
  BY DEF IInv, OpenInv, CloseHeld, mapVars, TypeOK
<1>7. TaskInv'
  BY <1>2 DEF IInv, TaskInv, CloseHeld, mapVars, workerVars
<1>8. WorkerInv'
  BY <1>1 DEF IInv, WorkerInv, CloseHeld, mapVars, workerVars
<1>9. CallerInv'
  BY <1>1 DEF IInv, CallerInv, CloseHeld, CallerGoes, TypeOK, Held
<1>10. OwedInv'
  BY <1>1 DEF IInv, OwedInv, CloseHeld, mapVars, workerVars, CallerGoes, Held
<1>11. PeerInv'
  BY <1>1 DEF IInv, PeerInv, CloseHeld, workerVars, TypeOK
<1>12. AnswerInv'
  BY <1>1 DEF IInv, AnswerInv, CloseHeld, mapVars, CallerInv, Held, OwnAnswer
<1> QED
  BY <1>3, <1>4, <1>5, <1>6, <1>7, <1>8, <1>9, <1>10, <1>11, <1>12 DEF IInv

LEMMA DeleteHeldInv ==
    ASSUME IInv, DeleteHeld
    PROVE  IInv'
<1>1. Live' = Live
  BY LiveSame DEF DeleteHeld, mapVars
<1>2. Queued' = Queued
  BY QueuedSame DEF DeleteHeld, workerVars
<1>3. TypeOK'
  BY DEF IInv, TypeOK, DeleteHeld, mapVars, workerVars, CallerGoes, CallerStages
<1>4. MapInv'
  BY DEF IInv, MapInv, DeleteHeld, mapVars
<1>5. FreshInv'
  BY <1>2 DEF IInv, FreshInv, DeleteHeld, mapVars, workerVars, CallerGoes, Held
<1>6. OpenInv'
  BY DEF IInv, OpenInv, DeleteHeld, mapVars
<1>7. TaskInv'
  BY <1>2 DEF IInv, TaskInv, DeleteHeld, mapVars, workerVars
<1>8. WorkerInv'
  BY <1>1 DEF IInv, WorkerInv, DeleteHeld, mapVars, workerVars
<1>9. CallerInv'
  BY <1>1 DEF IInv, CallerInv, DeleteHeld, CallerGoes, Held
<1>10. OwedInv'
  BY <1>1
     DEF IInv, OwedInv, DeleteHeld, mapVars, workerVars, CallerGoes, TaskInv,
         WorkerInv, CallerInv, Held
<1>11. PeerInv'
  BY <1>1 DEF IInv, PeerInv, DeleteHeld, workerVars
<1>12. AnswerInv'
  BY <1>1 DEF IInv, AnswerInv, DeleteHeld, mapVars, OwnAnswer
<1> QED
  BY <1>3, <1>4, <1>5, <1>6, <1>7, <1>8, <1>9, <1>10, <1>11, <1>12 DEF IInv

-----------------------------------------------------------------------------
(* The callback of the offer.                                               *)

LEMMA ReportInv ==
    ASSUME IInv, NEW s \in Sessions, HandleGatheringState(s) \/ HandlePullLocalDescription(s)
    PROVE  IInv'
<1> DEFINE task == [offer |-> s, session |-> s]
<1>0. /\ task \in Tasks
      /\ Reports(s)
      /\ \/ /\ peer' = [peer EXCEPT ![s] = "offered"]
            /\ m_signaling_tasks' \in {m_signaling_tasks, Append(m_signaling_tasks, task)}
         \/ /\ peer' = [peer EXCEPT ![s] = "silent"]
            /\ m_signaling_tasks' = m_signaling_tasks
  <2>1. Reports(s)
    BY DEF HandleGatheringState, HandlePullLocalDescription
  <2>2. user_of[s] \in Users /\ m_pull_sessions[user_of[s]] \in {s, None}
    BY <2>1 DEF IInv, FreshInv, OpenInv, Reports
  <2> QED
    BY <2>1, <2>2 DEF HandleGatheringState, HandlePullLocalDescription, StaysSilent, Tasks
<1>1. Live' = Live
  BY <1>0, LiveSame DEF Reports, mapVars
<1>2. \/ Queued' = Queued
      \/ Queued' = Queued \cup {s} /\ peer' = [peer EXCEPT ![s] = "offered"]
  BY <1>0, QueuedSame, QueuedAppend DEF IInv
<1>3. TypeOK'
  <2>1. m_signaling_tasks' \in Seq(Tasks)
    <3>1. m_signaling_tasks \in Seq(Tasks) /\ task \in Tasks
      BY <1>0 DEF IInv, TypeOK
    <3>2. Append(m_signaling_tasks, task) \in Seq(Tasks)
      BY <3>1, TaskTypes
    <3> QED
      BY <1>0, <3>1, <3>2
  <2>2. peer' \in [Sessions -> {"unused", "created", "open", "silent", "offered", "closed"}]
    BY <1>0 DEF IInv, TypeOK
  <2> QED
    BY <1>0, <2>1, <2>2 DEF IInv, TypeOK, Reports, callerVars, mapVars
<1>4. MapInv'
  BY <1>0 DEF IInv, MapInv, Reports, mapVars, TypeOK
<1>5. FreshInv'
  BY <1>0, <1>2
     DEF IInv, FreshInv, Reports, mapVars, callerVars,
         TypeOK, Held
<1>6. OpenInv'
  BY <1>0 DEF IInv, OpenInv, Reports, mapVars, callerVars, TypeOK
<1>7. TaskInv'
  <2>1. s \notin Queued \cup resource_url /\ s # job.session /\ answer[s] = None
    BY <1>0 DEF IInv, FreshInv, Reports
  <2>2. CASE m_signaling_tasks' = m_signaling_tasks
    <3>1. Queued' = Queued
      BY <2>2, QueuedSame
    <3>2. UNCHANGED <<answer, job, resource_url>>
      BY <1>0 DEF Reports, mapVars
    <3> QED
      BY <2>2, <3>1, <3>2 DEF IInv, TaskInv
  <2>3. CASE m_signaling_tasks' = Append(m_signaling_tasks, task)
    <3> DEFINE n == Len(m_signaling_tasks)
    <3>1. /\ Queued' = Queued \cup {s}
          /\ Len(m_signaling_tasks') = n + 1
          /\ m_signaling_tasks'[n + 1] = task
          /\ \A i \in 1..n : m_signaling_tasks'[i] = m_signaling_tasks[i]
      BY <1>0, <2>3, QueuedAppend DEF IInv
    <3>2. n \in Nat /\ \A i \in 1..(n + 1) : i \in 1..n \/ i = n + 1
      BY DEF IInv, TypeOK
    <3>3. \A i \in 1..n : m_signaling_tasks[i].session # s
      BY <2>1 DEF Queued
    <3>4. \A i \in 1..(n + 1) : m_signaling_tasks'[i].offer = m_signaling_tasks'[i].session
      BY <3>1, <3>2 DEF IInv, TaskInv
    <3>5. \A i, j \in 1..(n + 1) :
             m_signaling_tasks'[i].session = m_signaling_tasks'[j].session => i = j
      BY <3>1, <3>2, <3>3 DEF IInv, TaskInv
    <3> QED
      <4>1. UNCHANGED <<answer, job, resource_url>>
        BY <1>0 DEF Reports, mapVars
      <4>2. /\ job.session \notin Queued'
            /\ Queued' \cap resource_url = {}
            /\ \A t \in Queued' : answer[t] = None
        BY <2>1, <3>1 DEF IInv, TaskInv
      <4> QED
        BY <3>1, <3>4, <3>5, <4>1, <4>2 DEF IInv, TaskInv
  <2> QED
    BY <1>0, <2>2, <2>3
<1>8. WorkerInv'
  BY <1>0, <1>1 DEF IInv, WorkerInv, Reports, mapVars
<1>9. CallerInv'
  BY <1>0, <1>1
     DEF IInv, CallerInv, Reports, mapVars, callerVars, Held, TypeOK
<1>10. OwedInv'
  BY <1>0, <1>1
     DEF IInv, OwedInv, Reports, mapVars, callerVars, Held
<1>11. PeerInv'
  BY <1>0, <1>1 DEF IInv, PeerInv, Reports, callerVars, TypeOK
<1>12. AnswerInv'
  BY <1>0, <1>1
     DEF IInv, AnswerInv, FreshInv, Reports, mapVars, TypeOK, OwnAnswer
<1> QED
  BY <1>3, <1>4, <1>5, <1>6, <1>7, <1>8, <1>9, <1>10, <1>11, <1>12 DEF IInv

-----------------------------------------------------------------------------
(* The signaling thread.                                                    *)

LEMMA TakeTaskInv ==
    ASSUME IInv, TakeTask
    PROVE  IInv'
<1>1. Live' = Live
  BY LiveSame DEF TakeTask, mapVars
<1>2. Queued' = Queued \ {job'.session}
  BY QueuedTail DEF IInv, TakeTask
<1>3. /\ job' \in Tasks /\ job'.session \in Queued /\ job'.offer = job'.session
      /\ m_signaling_tasks' \in Seq(Tasks)
  <2>1. m_signaling_tasks \in Seq(Tasks)
    BY DEF IInv, TypeOK
  <2> QED
    BY <2>1, TaskTypes, QueuedTail DEF IInv, TakeTask, TaskInv
<1>4. TypeOK'
  BY <1>3 DEF IInv, TypeOK, TakeTask, WorkerGoes, WorkerStages, callerVars, mapVars
<1>5. MapInv'
  BY DEF IInv, MapInv, TakeTask, mapVars
<1>6. FreshInv'
  BY <1>2, <1>3 DEF IInv, FreshInv, TakeTask, callerVars, mapVars, Held
<1>7. OpenInv'
  BY DEF IInv, OpenInv, TakeTask, mapVars, callerVars
<1>8. TaskInv'
  BY <1>2 DEF IInv, TaskInv, TakeTask, mapVars
<1>9. WorkerInv'
  <2>1. job' # NoJob
    BY <1>3, PullAssumption DEF Tasks, NoJob
  <2>2. job'.session \notin resource_url
    BY <1>3 DEF IInv, TaskInv
  <2> QED
    BY <2>1, <2>2 DEF TakeTask, WorkerGoes, WorkerInv, mapVars
<1>10. CallerInv'
  BY <1>1 DEF IInv, CallerInv, TakeTask, mapVars, callerVars, Held
<1>11. OwedInv'
  BY <1>1
     DEF IInv, OwedInv, TakeTask, mapVars, callerVars, WorkerGoes, Holding, Held
<1>12. PeerInv'
  BY <1>1 DEF IInv, PeerInv, TakeTask, callerVars, WorkerGoes
<1>13. AnswerInv'
  BY <1>1 DEF IInv, AnswerInv, TakeTask, mapVars, OwnAnswer
<1> QED
  BY <1>4, <1>5, <1>6, <1>7, <1>8, <1>9, <1>10, <1>11, <1>12, <1>13 DEF IInv

LEMMA LeaveLoopInv ==
    ASSUME IInv, LeaveLoop
    PROVE  IInv'
<1>1. Live' = Live
  BY LiveSame DEF LeaveLoop, mapVars
<1>2. Queued' = Queued
  BY QueuedSame DEF LeaveLoop
<1>3. TypeOK'
  BY DEF IInv, TypeOK, LeaveLoop, mapVars, callerVars, WorkerGoes, WorkerStages
<1>4. MapInv'
  BY DEF IInv, MapInv, LeaveLoop, mapVars
<1>5. FreshInv'
  BY <1>2 DEF IInv, FreshInv, LeaveLoop, mapVars, callerVars, Held
<1>6. OpenInv'
  BY DEF IInv, OpenInv, LeaveLoop, mapVars, callerVars
<1>7. TaskInv'
  BY <1>2 DEF IInv, TaskInv, LeaveLoop, mapVars
<1>8. WorkerInv'
  BY DEF IInv, WorkerInv, LeaveLoop, mapVars, WorkerGoes
<1>9. CallerInv'
  BY <1>1 DEF IInv, CallerInv, LeaveLoop, mapVars, callerVars, Held
<1>10. OwedInv'
  BY <1>1
     DEF IInv, OwedInv, LeaveLoop, mapVars, callerVars, WorkerGoes, Holding,
         Held
<1>11. PeerInv'
  BY <1>1 DEF IInv, PeerInv, LeaveLoop, callerVars, WorkerGoes
<1>12. AnswerInv'
  BY <1>1 DEF IInv, AnswerInv, LeaveLoop, mapVars, OwnAnswer
<1> QED
  BY <1>3, <1>4, <1>5, <1>6, <1>7, <1>8, <1>9, <1>10, <1>11, <1>12 DEF IInv

LEMMA CheckTaskInv ==
    ASSUME IInv, CheckTask
    PROVE  IInv'
<1>1. Live' = Live
  BY LiveSame DEF CheckTask, mapVars
<1>2. Queued' = Queued
  BY QueuedSame DEF CheckTask
<1>3. TypeOK'
  <2>1. NoJob \in Tasks \cup {NoJob} /\ FALSE \in BOOLEAN
    OBVIOUS
  <2>2. job' \in Tasks \cup {NoJob} /\ told' \in BOOLEAN /\ worker' \in WorkerStages
    BY <2>1 DEF IInv, TypeOK, CheckTask, WorkerGoes, TaskDone, WorkerStages
  <2> QED
    BY <2>2 DEF IInv, TypeOK, CheckTask, mapVars, callerVars
<1>4. MapInv'
  BY DEF IInv, MapInv, CheckTask, mapVars
<1>5. FreshInv'
  BY <1>2, PullAssumption
     DEF IInv, FreshInv, CheckTask, mapVars, callerVars, TaskDone, NoJob, Held
<1>6. OpenInv'
  BY DEF IInv, OpenInv, CheckTask, mapVars, callerVars
<1>7. TaskInv'
  BY <1>2, QueuedSessions, PullAssumption
     DEF IInv, TaskInv, CheckTask, mapVars, TaskDone, NoJob
<1>8. WorkerInv'
  BY PullAssumption
     DEF IInv, WorkerInv, CheckTask, mapVars, WorkerGoes, TaskDone, TypeOK,
         NoJob
<1>9. CallerInv'
  BY <1>1 DEF IInv, CallerInv, CheckTask, mapVars, callerVars, Held
<1>10. OwedInv'
  BY <1>1
     DEF IInv, OwedInv, CheckTask, mapVars, callerVars, WorkerGoes, Holding,
         Held
<1>11. PeerInv'
  BY <1>1 DEF IInv, PeerInv, CheckTask, callerVars, WorkerGoes
<1>12. AnswerInv'
  BY <1>1 DEF IInv, AnswerInv, CheckTask, mapVars, OwnAnswer
<1> QED
  BY <1>3, <1>4, <1>5, <1>6, <1>7, <1>8, <1>9, <1>10, <1>11, <1>12 DEF IInv

LEMMA PostOfferInv ==
    ASSUME IInv, PostOffer
    PROVE  IInv'
<1>1. Live' = Live
  BY LiveSame DEF PostOffer, mapVars
<1>2. Queued' = Queued
  BY QueuedSame DEF PostOffer
<1>3. TypeOK'
  BY DEF IInv, TypeOK, PostOffer, mapVars, callerVars, WorkerGoes, WorkerInv,
         Tasks, Holding, WorkerStages
<1>4. MapInv'
  BY DEF IInv, MapInv, PostOffer, mapVars
<1>5. FreshInv'
  BY <1>2 DEF IInv, FreshInv, PostOffer, mapVars, callerVars, Held
<1>6. OpenInv'
  BY DEF IInv, OpenInv, PostOffer, mapVars, callerVars
<1>7. TaskInv'
  BY <1>2 DEF IInv, TaskInv, PostOffer, mapVars
<1>8. WorkerInv'
  BY DEF IInv, WorkerInv, PostOffer, mapVars, WorkerGoes
<1>9. CallerInv'
  BY <1>1 DEF IInv, CallerInv, PostOffer, mapVars, callerVars, Held
<1>10. OwedInv'
  BY <1>1
     DEF IInv, OwedInv, PostOffer, mapVars, callerVars, WorkerGoes, Holding,
         Held
<1>11. PeerInv'
  BY <1>1 DEF IInv, PeerInv, PostOffer, callerVars, WorkerGoes
<1>12. AnswerInv'
  BY <1>1 DEF IInv, AnswerInv, PostOffer, mapVars, OwnAnswer
<1> QED
  BY <1>3, <1>4, <1>5, <1>6, <1>7, <1>8, <1>9, <1>10, <1>11, <1>12 DEF IInv

LEMMA RecheckSessionInv ==
    ASSUME IInv, RecheckSession
    PROVE  IInv'
<1>1. Live' = Live
  BY LiveSame DEF RecheckSession, mapVars
<1>2. Queued' = Queued
  BY QueuedSame DEF RecheckSession
<1>3. TypeOK'
  BY DEF IInv, TypeOK, RecheckSession, mapVars, callerVars, WorkerGoes, Holding,
         WorkerStages
<1>4. MapInv'
  BY DEF IInv, MapInv, RecheckSession, mapVars
<1>5. FreshInv'
  BY <1>2 DEF IInv, FreshInv, RecheckSession, mapVars, callerVars, Held
<1>6. OpenInv'
  BY DEF IInv, OpenInv, RecheckSession, mapVars, callerVars
<1>7. TaskInv'
  BY <1>2 DEF IInv, TaskInv, RecheckSession, mapVars
<1>8. WorkerInv'
  BY DEF IInv, WorkerInv, RecheckSession, mapVars, WorkerGoes
<1>9. CallerInv'
  BY <1>1 DEF IInv, CallerInv, RecheckSession, mapVars, callerVars, Held
<1>10. OwedInv'
  BY <1>1
     DEF IInv, OwedInv, RecheckSession, mapVars, callerVars, WorkerGoes,
         Holding, Held
<1>11. PeerInv'
  BY <1>1 DEF IInv, PeerInv, RecheckSession, callerVars, WorkerGoes
<1>12. AnswerInv'
  BY <1>1 DEF IInv, AnswerInv, RecheckSession, mapVars, OwnAnswer
<1> QED
  BY <1>3, <1>4, <1>5, <1>6, <1>7, <1>8, <1>9, <1>10, <1>11, <1>12 DEF IInv

LEMMA SetRemoteDescriptionInv ==
    ASSUME IInv, SetRemoteDescription
    PROVE  IInv'
<1>1. Live' = Live
  BY LiveSame DEF SetRemoteDescription, mapVars
<1>2. Queued' = Queued
  BY QueuedSame DEF SetRemoteDescription
<1>3. TypeOK'
  <2>1. job \in Tasks /\ worker' \in WorkerStages
    BY DEF IInv, TypeOK, WorkerInv, SetRemoteDescription, WorkerGoes, WorkerStages, Holding
  <2>2. answer' \in [Sessions -> Sessions \cup {None}]
    BY <2>1 DEF IInv, TypeOK, SetRemoteDescription, Tasks
  <2> QED
    BY <2>1, <2>2 DEF IInv, TypeOK, SetRemoteDescription, mapVars, callerVars
<1>4. MapInv'
  BY DEF IInv, MapInv, SetRemoteDescription, mapVars
<1>5. FreshInv'
  BY <1>2
     DEF IInv, FreshInv, SetRemoteDescription, mapVars, callerVars, TypeOK, Held
<1>6. OpenInv'
  BY DEF IInv, OpenInv, SetRemoteDescription, mapVars, callerVars
<1>7. TaskInv'
  BY <1>2, QueuedSessions
     DEF IInv, TaskInv, SetRemoteDescription, mapVars, TypeOK
<1>8. WorkerInv'
  BY DEF IInv, WorkerInv, SetRemoteDescription, mapVars, WorkerGoes, TypeOK,
         TaskInv, Tasks
<1>9. CallerInv'
  BY <1>1 DEF IInv, CallerInv, SetRemoteDescription, mapVars, callerVars, Held
<1>10. OwedInv'
  BY <1>1
     DEF IInv, OwedInv, SetRemoteDescription, mapVars, callerVars, WorkerGoes,
         Holding, Held
<1>11. PeerInv'
  BY <1>1 DEF IInv, PeerInv, SetRemoteDescription, callerVars, WorkerGoes
<1>12. AnswerInv'
  BY <1>1
     DEF IInv, AnswerInv, SetRemoteDescription, mapVars, TypeOK, TaskInv,
         OwnAnswer
<1> QED
  BY <1>3, <1>4, <1>5, <1>6, <1>7, <1>8, <1>9, <1>10, <1>11, <1>12 DEF IInv

LEMMA DeleteRefusedInv ==
    ASSUME IInv, DeleteRefused
    PROVE  IInv'
<1>1. Live' = Live
  BY LiveSame DEF DeleteRefused, mapVars
<1>2. Queued' = Queued
  BY QueuedSame DEF DeleteRefused
<1>3. TypeOK'
  BY DEF IInv, TypeOK, DeleteRefused, mapVars, callerVars, WorkerGoes,
         WorkerStages
<1>4. MapInv'
  BY DEF IInv, MapInv, DeleteRefused, mapVars
<1>5. FreshInv'
  BY <1>2 DEF IInv, FreshInv, DeleteRefused, mapVars, callerVars, Held
<1>6. OpenInv'
  BY DEF IInv, OpenInv, DeleteRefused, mapVars, callerVars
<1>7. TaskInv'
  BY <1>2 DEF IInv, TaskInv, DeleteRefused, mapVars
<1>8. WorkerInv'
  BY DEF IInv, WorkerInv, DeleteRefused, mapVars, WorkerGoes
<1>9. CallerInv'
  BY <1>1 DEF IInv, CallerInv, DeleteRefused, mapVars, callerVars, Held
<1>10. OwedInv'
  BY <1>1
     DEF IInv, OwedInv, DeleteRefused, mapVars, callerVars, WorkerGoes, TaskInv,
         WorkerInv, Holding, Held
<1>11. PeerInv'
  BY <1>1 DEF IInv, PeerInv, DeleteRefused, callerVars, WorkerGoes
<1>12. AnswerInv'
  BY <1>1 DEF IInv, AnswerInv, DeleteRefused, mapVars, OwnAnswer
<1> QED
  BY <1>3, <1>4, <1>5, <1>6, <1>7, <1>8, <1>9, <1>10, <1>11, <1>12 DEF IInv

LEMMA EraseFailedInv ==
    ASSUME IInv, EraseFailed
    PROVE  IInv'
<1>1. Live' = IF JobCurrent THEN Live \ {job.session} ELSE Live
  <2>1. job.session \in Sessions /\ job.offer = job.session /\ user_of[job.offer] \in Users
    BY DEF IInv, TypeOK, EraseFailed, WorkerGoes, WorkerInv, TaskInv, FreshInv, Tasks
  <2>2. CASE JobCurrent
    BY <2>1, <2>2, LiveErase DEF IInv, EraseFailed, JobCurrent
  <2>3. CASE ~JobCurrent
    BY <2>3, LiveSame DEF EraseFailed
  <2> QED
    BY <2>2, <2>3
<1>2. Queued' = Queued
  BY QueuedSame DEF EraseFailed
<1>3. TypeOK'
  BY DEF IInv, TypeOK, EraseFailed, callerVars, WorkerGoes, FreshInv, TaskInv,
         WorkerInv, Tasks, WorkerStages
<1>4. MapInv'
  BY DEF IInv, MapInv, EraseFailed
<1>5. FreshInv'
  BY <1>2 DEF IInv, FreshInv, EraseFailed, callerVars, Held
<1>6. OpenInv'
  BY DEF IInv, OpenInv, EraseFailed, callerVars, JobCurrent, FreshInv
<1>7. TaskInv'
  BY <1>2 DEF IInv, TaskInv, EraseFailed
<1>8. WorkerInv'
  BY <1>1, LiveMember, LiveSessions
     DEF IInv, WorkerInv, EraseFailed, WorkerGoes, JobCurrent, TaskInv
<1>9. CallerInv'
  BY <1>1
     DEF IInv, CallerInv, EraseFailed, callerVars, JobCurrent, FreshInv, Held
<1>10. OwedInv'
  BY <1>1
     DEF IInv, OwedInv, EraseFailed, callerVars, WorkerGoes, WorkerInv, Holding,
         Held
<1>11. PeerInv'
  BY <1>1 DEF IInv, PeerInv, EraseFailed, callerVars, WorkerGoes
<1>12. AnswerInv'
  BY <1>1 DEF IInv, AnswerInv, EraseFailed, OwnAnswer
<1> QED
  BY <1>3, <1>4, <1>5, <1>6, <1>7, <1>8, <1>9, <1>10, <1>11, <1>12 DEF IInv

LEMMA CloseFailedInv ==
    ASSUME IInv, CloseFailed
    PROVE  IInv'
<1>1. Live' = Live
  BY LiveSame DEF CloseFailed, mapVars
<1>2. Queued' = Queued
  BY QueuedSame DEF CloseFailed
<1>3. TypeOK'
  <2>1. NoJob \in Tasks \cup {NoJob} /\ FALSE \in BOOLEAN
    OBVIOUS
  <2>2. job' \in Tasks \cup {NoJob} /\ told' \in BOOLEAN /\ worker' \in WorkerStages
    BY <2>1 DEF CloseFailed, WorkerGoes, TaskDone, WorkerStages
  <2>3. /\ owed' \subseteq Sessions
        /\ peer' \in [Sessions -> {"unused", "created", "open", "silent", "offered", "closed"}]
    BY DEF IInv, TypeOK, CloseFailed
  <2> QED
    BY <2>2, <2>3 DEF IInv, TypeOK, CloseFailed, callerVars, mapVars
<1>4. MapInv'
  BY LiveMember
     DEF IInv, MapInv, CloseFailed, mapVars, WorkerGoes, TypeOK, WorkerInv
<1>5. FreshInv'
  BY <1>2, PullAssumption
     DEF IInv, FreshInv, CloseFailed, mapVars, callerVars, TaskDone, NoJob, Held
<1>6. OpenInv'
  BY DEF IInv, OpenInv, CloseFailed, mapVars, callerVars
<1>7. TaskInv'
  BY <1>2, QueuedSessions, PullAssumption
     DEF IInv, TaskInv, CloseFailed, mapVars, TaskDone, NoJob
<1>8. WorkerInv'
  BY PullAssumption
     DEF IInv, WorkerInv, CloseFailed, mapVars, WorkerGoes, TaskDone, TypeOK,
         NoJob
<1>9. CallerInv'
  BY <1>1 DEF IInv, CallerInv, CloseFailed, mapVars, callerVars, FreshInv, Held
<1>10. OwedInv'
  BY <1>1
     DEF IInv, OwedInv, CloseFailed, mapVars, callerVars, WorkerGoes, Holding,
         Held
<1>11. PeerInv'
  BY <1>1 DEF IInv, PeerInv, CloseFailed, callerVars, TypeOK
<1>12. AnswerInv'
  BY <1>1 DEF IInv, AnswerInv, CloseFailed, mapVars, WorkerInv, OwnAnswer
<1> QED
  BY <1>3, <1>4, <1>5, <1>6, <1>7, <1>8, <1>9, <1>10, <1>11, <1>12 DEF IInv

LEMMA StoreResourceInv ==
    ASSUME IInv, StoreResource
    PROVE  IInv'
<1>1. Live' = Live
  BY LiveSame DEF StoreResource
<1>2. Queued' = Queued
  BY QueuedSame DEF StoreResource
<1>3. TypeOK'
  <2>1. NoJob \in Tasks \cup {NoJob} /\ FALSE \in BOOLEAN
    OBVIOUS
  <2>2. job' \in Tasks \cup {NoJob} /\ told' \in BOOLEAN /\ worker' \in WorkerStages
    BY <2>1 DEF IInv, TypeOK, StoreResource, WorkerGoes, TaskDone, WorkerStages, Holding
  <2>3. resource_url' \subseteq Sessions
    BY DEF IInv, TypeOK, StoreResource, WorkerInv, WorkerGoes, Tasks
  <2> QED
    BY <2>2, <2>3 DEF IInv, TypeOK, StoreResource, callerVars
<1>4. MapInv'
  BY DEF IInv, MapInv, StoreResource
<1>5. FreshInv'
  BY <1>2, PullAssumption
     DEF IInv, FreshInv, StoreResource, callerVars, TaskDone, NoJob, Held
<1>6. OpenInv'
  BY DEF IInv, OpenInv, StoreResource, callerVars
<1>7. TaskInv'
  BY <1>2, QueuedSessions, PullAssumption
     DEF IInv, TaskInv, StoreResource, TaskDone, NoJob
<1>8. WorkerInv'
  BY PullAssumption
     DEF IInv, WorkerInv, StoreResource, WorkerGoes, TaskDone, TypeOK, NoJob,
         Tasks
<1>9. CallerInv'
  BY <1>1 DEF IInv, CallerInv, StoreResource, callerVars, Held
<1>10. OwedInv'
  BY <1>1, LiveMember
     DEF IInv, OwedInv, StoreResource, callerVars, WorkerGoes, JobCurrent,
         TypeOK, FreshInv, TaskInv, Holding, Held
<1>11. PeerInv'
  BY <1>1 DEF IInv, PeerInv, StoreResource, callerVars, WorkerGoes
<1>12. AnswerInv'
  BY <1>1, LiveSessions, PullAssumption
     DEF IInv, AnswerInv, StoreResource, MapInv, FreshInv, TaskInv, WorkerInv,
         OwnAnswer, WorkerGoes, JobCurrent
<1> QED
  BY <1>3, <1>4, <1>5, <1>6, <1>7, <1>8, <1>9, <1>10, <1>11, <1>12 DEF IInv

LEMMA DeleteUnclaimedInv ==
    ASSUME IInv, DeleteUnclaimed
    PROVE  IInv'
<1>1. Live' = Live
  BY LiveSame DEF DeleteUnclaimed, mapVars
<1>2. Queued' = Queued
  BY QueuedSame DEF DeleteUnclaimed
<1>3. TypeOK'
  <2>1. NoJob \in Tasks \cup {NoJob} /\ FALSE \in BOOLEAN
    OBVIOUS
  <2>2. job' \in Tasks \cup {NoJob} /\ told' \in BOOLEAN /\ worker' \in WorkerStages
    BY <2>1 DEF DeleteUnclaimed, WorkerGoes, TaskDone, WorkerStages
  <2>3. /\ owed' \subseteq Sessions
        /\ peer' \in [Sessions -> {"unused", "created", "open", "silent", "offered", "closed"}]
    BY DEF IInv, TypeOK, DeleteUnclaimed
  <2> QED
    BY <2>2, <2>3 DEF IInv, TypeOK, DeleteUnclaimed, callerVars, mapVars
<1>4. MapInv'
  BY DEF IInv, MapInv, DeleteUnclaimed, mapVars
<1>5. FreshInv'
  BY <1>2, PullAssumption
     DEF IInv, FreshInv, DeleteUnclaimed, mapVars, callerVars, TaskDone, NoJob,
         Held
<1>6. OpenInv'
  BY DEF IInv, OpenInv, DeleteUnclaimed, mapVars, callerVars
<1>7. TaskInv'
  BY <1>2, QueuedSessions, PullAssumption
     DEF IInv, TaskInv, DeleteUnclaimed, mapVars, TaskDone, NoJob
<1>8. WorkerInv'
  BY PullAssumption
     DEF IInv, WorkerInv, DeleteUnclaimed, mapVars, WorkerGoes, TaskDone,
         TypeOK, NoJob
<1>9. CallerInv'
  BY <1>1 DEF IInv, CallerInv, DeleteUnclaimed, mapVars, callerVars, Held
<1>10. OwedInv'
  BY <1>1
     DEF IInv, OwedInv, DeleteUnclaimed, mapVars, callerVars, TaskDone, TaskInv,
         WorkerInv, Held
<1>11. PeerInv'
  BY <1>1 DEF IInv, PeerInv, DeleteUnclaimed, callerVars, WorkerGoes
<1>12. AnswerInv'
  BY <1>1 DEF IInv, AnswerInv, DeleteUnclaimed, mapVars, OwnAnswer
<1> QED
  BY <1>3, <1>4, <1>5, <1>6, <1>7, <1>8, <1>9, <1>10, <1>11, <1>12 DEF IInv

-----------------------------------------------------------------------------
(* The invariant.                                                           *)

LEMMA InitInv == Init => IInv
<1> SUFFICES ASSUME Init PROVE IInv
  OBVIOUS
<1>1. Live = {} /\ Queued = {} /\ Held = {}
  BY DEF Init, Live, Queued, Held
<1>2. TypeOK
  <2>1. <<>> \in Seq(Tasks) /\ TRUE \in BOOLEAN /\ FALSE \in BOOLEAN
    OBVIOUS
  <2> QED
    BY <2>1 DEF Init, TypeOK, WorkerStages, CallerStages
<1>3. MapInv /\ FreshInv /\ OpenInv /\ PeerInv
  BY <1>1, PullAssumption DEF Init, MapInv, FreshInv, OpenInv, PeerInv, NoJob
<1>4. TaskInv /\ WorkerInv
  BY <1>1, PullAssumption DEF Init, TaskInv, WorkerInv, NoJob
<1>5. CallerInv /\ OwedInv /\ AnswerInv
  BY <1>1 DEF Init, CallerInv, OwedInv, AnswerInv, OwnAnswer, Holding
<1> QED
  BY <1>2, <1>3, <1>4, <1>5 DEF IInv

LEMMA StutterInv ==
    ASSUME IInv, UNCHANGED vars
    PROVE  IInv'
<1>1. Live' = Live /\ Queued' = Queued /\ Held' = Held
  BY DEF vars, mapVars, workerVars, callerVars, Live, Queued, Held
<1> USE DEF vars, mapVars, workerVars, callerVars
<1>2. TypeOK' /\ MapInv' /\ FreshInv' /\ OpenInv'
  BY <1>1 DEF IInv, TypeOK, MapInv, FreshInv, OpenInv
<1>3. TaskInv' /\ WorkerInv' /\ CallerInv'
  BY <1>1 DEF IInv, TaskInv, WorkerInv, CallerInv
<1>4. OwedInv' /\ PeerInv' /\ AnswerInv'
  BY <1>1 DEF IInv, OwedInv, PeerInv, AnswerInv, OwnAnswer
<1> QED
  BY <1>2, <1>3, <1>4 DEF IInv

LEMMA NextInv == IInv /\ [Next]_vars => IInv'
<1> SUFFICES ASSUME IInv, [Next]_vars PROVE IInv'
  OBVIOUS
<1>1. CASE Caller
  <2>1. CASE \E u \in Users, s \in Sessions : SubscribeUserAV(u, s)
    BY <2>1, SubscribeUserAVInv
  <2>2. CASE \E u \in Users : UnsubscribeUserAV(u)
    BY <2>2, UnsubscribeUserAVInv
  <2>3. CASE Uninit
    BY <2>3, UninitInv
  <2>4. CASE CallerContinues
    BY <2>4, SubscribeAudioVideoInv, SubscribeFailsInv, StopSignalingWorkerInv,
       CloseAllPullInv, CloseHeldInv, DeleteHeldInv
       DEF CallerContinues
  <2> QED
    BY <1>1, <2>1, <2>2, <2>3, <2>4 DEF Caller
<1>2. CASE \E s \in Sessions : HandleGatheringState(s) \/ HandlePullLocalDescription(s)
  BY <1>2, ReportInv
<1>3. CASE SignalingWorker
  BY <1>3, TakeTaskInv, LeaveLoopInv, CheckTaskInv, PostOfferInv,
     RecheckSessionInv, SetRemoteDescriptionInv, DeleteRefusedInv,
     EraseFailedInv, CloseFailedInv, StoreResourceInv,
     DeleteUnclaimedInv
     DEF SignalingWorker
<1>4. CASE UNCHANGED vars
  BY <1>4, StutterInv
<1> QED
  BY <1>1, <1>2, <1>3, <1>4 DEF Next

\* The inductive invariant holds for any users and sessions.
LEMMA PullInvariant == Spec => []IInv
  BY InitInv, NextInv, PTL DEF Spec

-----------------------------------------------------------------------------
(* What follows.                                                            *)

\* Every variable keeps its type.
THEOREM PullTypeCorrect == Spec => []TypeOK
<1>1. IInv => TypeOK
  BY DEF IInv
<1> QED
  BY <1>1, PullInvariant, PTL

\* When nobody is at work, no connection and no resource is left over.
THEOREM NothingLeftOver == Spec => []NothingLeft
<1>1. IInv => NothingLeft
  <2> SUFFICES ASSUME IInv, AtRest
               PROVE  /\ \A s \in Sessions : peer[s] \in {"unused", "closed"} \/ s \in Live
                      /\ owed = Live \cap resource_url
    BY DEF NothingLeft
  <2>1. Held = {} /\ hand = {}
    BY DEF IInv, AtRest, CallerInv, Held
  <2>2. worker \notin Holding \cup {"close"}
    BY DEF AtRest, Holding
  <2>3. owed = Live \cap resource_url
    BY <2>1, <2>2 DEF IInv, OwedInv
  <2>4. \A s \in Sessions : peer[s] \in {"unused", "closed"} \/ s \in Live
    BY <2>1, <2>2 DEF IInv, PeerInv, TypeOK
  <2> QED
    BY <2>3, <2>4
<1> QED
  BY <1>1, PullInvariant, PTL

\* An answer is applied only to the session whose offer it answers.
THEOREM AnswersMatch == Spec => []OwnAnswer
<1>1. IInv => OwnAnswer
  BY DEF IInv, AnswerInv
<1> QED
  BY <1>1, PullInvariant, PTL

\* A session of the map whose URL is stored is connected and not deleted.
THEOREM SessionsServed == Spec => []LiveSessionServed
<1>1. IInv => LiveSessionServed
  BY DEF IInv, AnswerInv, OwedInv, LiveSessionServed
<1> QED
  BY <1>1, PullInvariant, PTL

=============================================================================
