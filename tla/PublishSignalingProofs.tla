------------------------ MODULE PublishSignalingProofs ------------------------
(* Proofs about the publish side of TransportEngine, for any number of       *)
(* connections and any number of starts and stops.                           *)
EXTENDS PublishSignaling, TLAPS

-----------------------------------------------------------------------------
(* The inductive invariant.                                                  *)

\* Connections that have gathered: their report has been heard.
Spent(c) == c \in Connections /\ connection[c] \in {"gathered", "closed"}

\* The call under way knows what it starts, and a report what it carries.
CallInv ==
    /\ at["caller"] \in {"open", "setup", "offer", "publish"} => medium \in Media
    /\ at["caller"] = "offer" => fresh \in Connections
    /\ \A c \in Connections : connection[c] = "reporting" => described[c] \in Connections

\* A connection gathers once, so each task is by a connection of its own, and
\* its resource is not made before the task has run.
TaskInv ==
    /\ \A i \in 1..Len(m_signaling_tasks) :
          /\ Spent(m_signaling_tasks[i].by)
          /\ m_signaling_tasks[i].by \notin owed
    /\ \A i, j \in 1..Len(m_signaling_tasks) :
          m_signaling_tasks[i].by = m_signaling_tasks[j].by => i = j
    /\ \A u \in owed : Spent(u)

\* The same of the task that runs.
JobInv ==
    /\ at["worker"] \notin {"wait", "ended"} =>
          /\ job \in Tasks /\ Spent(job.by)
          /\ \A i \in 1..Len(m_signaling_tasks) : m_signaling_tasks[i].by # job.by
    /\ at["worker"] \in {"check", "post"} => job.by \notin owed

\* An open connection is the transport's, or about to be closed.
OpenInv ==
    /\ \A a \in Actors : leaving[a] # None => at[a] = "callbacks"
    /\ \A c \in Connections :
          connection[c] \in {"unused", "closed"} \/ c = m_peer_connection
          \/ \E a \in Actors : leaving[a] = c

\* The running task has a resource that nobody else knows of.
Claims == told /\ at["worker"] \in {"recheck", "answer", "refused", "store", "unclaimed"}

\* Each resource is kept, in somebody's hand, or claimed by the running task:
\* one of these, and only once.
OwedInv ==
    /\ DeletedOnce
    /\ \A a \in Actors : hand[a] # None => at[a] \in Closing
    /\ Claims => job.by \in owed /\ job.by # m_publish_resource_url
                 /\ \A a \in Actors : job.by # hand[a]
    /\ \A u \in owed : u = m_publish_resource_url \/ (Claims /\ u = job.by)
                       \/ \E a \in Actors : u = hand[a]

\* No task is of a later generation than the present one.
GenerationInv ==
    /\ \A i \in 1..Len(m_signaling_tasks) :
          m_signaling_tasks[i].generation <= m_publish_generation
    /\ job.generation <= m_publish_generation

\* Something is published, or the caller is about to close the connection.
Published == publishing # {} \/ at["caller"] = "stopped"

\* Whoever closes the connection has taken the URL; one that is kept, or that the
\* running task will store, belongs to the connection and to what is published.
ServedInv ==
    /\ at["caller"] \in Closing => publishing = {} \/ at["worker"] = "ended"
    /\ \A a \in Actors : at[a] \in Closing => m_publish_resource_url = None
    /\ m_publish_resource_url # None =>
          /\ Published
          /\ m_peer_connection # None /\ answer[m_peer_connection] # None
    /\ at["worker"] \in {"answer", "store"} /\ JobCurrent =>
          Published /\ at["caller"] \notin Closing
    /\ at["worker"] = "store" /\ JobCurrent =>
          /\ m_publish_resource_url = None
          /\ m_peer_connection # None /\ answer[m_peer_connection] # None

IInv ==
    /\ TypeOK
    /\ CallInv
    /\ TaskInv
    /\ JobInv
    /\ OpenInv
    /\ OwedInv
    /\ GenerationInv
    /\ ServedInv

-----------------------------------------------------------------------------
(* The steps, one lemma for each action: it keeps every part of IInv.        *)

LEMMA GenerationTypes ==
    TypeOK => /\ \A i \in 1..Len(m_signaling_tasks) :
                     m_signaling_tasks[i].generation \in Nat
              /\ job.generation \in Nat
<1> SUFFICES ASSUME TypeOK
             PROVE  /\ \A i \in 1..Len(m_signaling_tasks) :
                           m_signaling_tasks[i].generation \in Nat
                    /\ job.generation \in Nat
  OBVIOUS
<1>1. \A i \in 1..Len(m_signaling_tasks) : m_signaling_tasks[i] \in Tasks
  BY DEF TypeOK
<1>2. job \in Tasks \cup {NoJob}
  BY DEF TypeOK
<1> QED
  BY <1>1, <1>2 DEF Tasks, NoJob

LEMMA ClosePublishInv ==
    ASSUME IInv, NEW a \in Actors, NEW from \in {"stopped", "join", "failed"}, ClosePublish(a, from),
           a = "worker" \/ publishing = {} \/ at["worker"] = "ended"
    PROVE  IInv'
<1> USE PublishAssumption DEF IInv, TypeOK, Actors, ClosePublish, Goes, transportVars,
        connectionVars, queueVars, callVars, taskVars
<1>1. TypeOK'
  BY DEF CallerStages, WorkerStages, Closing
<1>2. CallInv'
  BY DEF CallInv
<1>3. TaskInv'
  BY DEF TaskInv, Spent
<1>4. JobInv'
  BY DEF JobInv, Spent
<1>5. OpenInv'
  BY DEF OpenInv, CallerStages, Closing
<1>6. OwedInv'
  BY DEF OwedInv, Claims, DeletedOnce, Closing, ServedInv
<1>7. GenerationInv'
  BY GenerationTypes DEF GenerationInv
<1>8. ServedInv'
  BY DEF ServedInv, Published, JobCurrent, Closing, GenerationInv, Tasks, NoJob
<1> QED
  BY <1>1, <1>2, <1>3, <1>4, <1>5, <1>6, <1>7, <1>8

LEMMA CloseFlagsInv ==
    ASSUME IInv, NEW a \in Actors, CloseFlags(a)
    PROVE  IInv'
<1> USE PublishAssumption DEF IInv, TypeOK, Actors, CloseFlags, Goes, engineVars,
        connectionVars, queueVars, callVars, taskVars, closeVars
<1>1. TypeOK'
  BY DEF CallerStages, WorkerStages, Closing
<1>2. CallInv'
  BY DEF CallInv
<1>3. TaskInv'
  BY DEF TaskInv, Spent
<1>4. JobInv'
  BY DEF JobInv, Spent
<1>5. OpenInv'
  BY DEF OpenInv
<1>6. OwedInv'
  BY DEF OwedInv, Claims, DeletedOnce, Closing
<1>7. GenerationInv'
  BY DEF GenerationInv, Tasks, NoJob
<1>8. ServedInv'
  BY DEF ServedInv, Published, JobCurrent, Closing, GenerationInv, Tasks, NoJob
<1> QED
  BY <1>1, <1>2, <1>3, <1>4, <1>5, <1>6, <1>7, <1>8

LEMMA CloseTracksInv ==
    ASSUME IInv, NEW a \in Actors, CloseTracks(a)
    PROVE  IInv'
<1> USE PublishAssumption DEF IInv, TypeOK, Actors, CloseTracks, Goes, engineVars,
        connectionVars, queueVars, callVars, taskVars, closeVars
<1>1. TypeOK'
  BY ZenonT(60) DEF CallerStages, WorkerStages, Closing
<1>2. CallInv'
  BY DEF CallInv
<1>3. TaskInv'
  BY DEF TaskInv, Spent
<1>4. JobInv'
  BY DEF JobInv, Spent
<1>5. OpenInv'
  BY DEF OpenInv
<1>6. OwedInv'
  BY DEF OwedInv, Claims, DeletedOnce, Closing
<1>7. GenerationInv'
  BY DEF GenerationInv, Tasks, NoJob
<1>8. ServedInv'
  BY DEF ServedInv, Published, JobCurrent, Closing, GenerationInv, Tasks, NoJob
<1> QED
  BY <1>1, <1>2, <1>3, <1>4, <1>5, <1>6, <1>7, <1>8

LEMMA DetachConnectionInv ==
    ASSUME IInv, NEW a \in Actors, DetachConnection(a)
    PROVE  IInv'
<1> USE PublishAssumption DEF IInv, TypeOK, Actors, DetachConnection, Goes,
        engineVars, connectionVars, queueVars, callVars, taskVars
<1>1. TypeOK'
  BY DEF CallerStages, WorkerStages, Closing
<1>2. CallInv'
  BY DEF CallInv
<1>3. TaskInv'
  BY DEF TaskInv, Spent
<1>4. JobInv'
  BY DEF JobInv, Spent
<1>5. OpenInv'
  BY DEF OpenInv
<1>6. OwedInv'
  BY DEF OwedInv, Claims, DeletedOnce, Closing
<1>7. GenerationInv'
  BY DEF GenerationInv, Tasks, NoJob
<1>8. ServedInv'
  BY DEF ServedInv, Published, JobCurrent, Closing, GenerationInv, Tasks, NoJob
<1> QED
  BY <1>1, <1>2, <1>3, <1>4, <1>5, <1>6, <1>7, <1>8

LEMMA CloseConnectionInv ==
    ASSUME IInv, NEW a \in Actors, CloseConnection(a)
    PROVE  IInv'
<1> USE PublishAssumption DEF IInv, TypeOK, Actors, CloseConnection, Goes, engineVars,
        transportVars, queueVars, callVars, taskVars
<1>1. TypeOK'
  BY DEF CallerStages, WorkerStages, Closing
<1>2. CallInv'
  BY DEF CallInv
<1>3. TaskInv'
  BY DEF TaskInv, Spent
<1>4. JobInv'
  BY DEF JobInv, Spent
<1>5. OpenInv'
  BY DEF OpenInv
<1>6. OwedInv'
  BY DEF OwedInv, Claims, DeletedOnce, Closing
<1>7. GenerationInv'
  BY DEF GenerationInv, Tasks, NoJob
<1>8. ServedInv'
  BY DEF ServedInv, Published, JobCurrent, Closing, GenerationInv, Tasks, NoJob
<1> QED
  BY <1>1, <1>2, <1>3, <1>4, <1>5, <1>6, <1>7, <1>8

LEMMA UnpublishInv ==
    ASSUME IInv, NEW a \in Actors, Unpublish(a)
    PROVE  IInv'
<1> USE PublishAssumption DEF IInv, TypeOK, Actors, Unpublish, Goes, engineVars,
        transportVars, connectionVars, queueVars, callVars, taskVars
<1>1. TypeOK'
  BY ZenonT(60) DEF CallerStages, WorkerStages, Closing
<1>2. CallInv'
  BY DEF CallInv
<1>3. TaskInv'
  BY DEF TaskInv, Spent
<1>4. JobInv'
  BY DEF JobInv, Spent
<1>5. OpenInv'
  BY DEF OpenInv
<1>6. OwedInv'
  BY DEF OwedInv, Claims, DeletedOnce, Closing
<1>7. GenerationInv'
  BY DEF GenerationInv, Tasks, NoJob
<1>8. ServedInv'
  BY DEF ServedInv, Published, JobCurrent, Closing, GenerationInv, Tasks, NoJob
<1> QED
  BY <1>1, <1>2, <1>3, <1>4, <1>5, <1>6, <1>7, <1>8

LEMMA StartPublishInv ==
    ASSUME IInv, NEW m \in Media, StartPublish(m)
    PROVE  IInv'
<1> USE PublishAssumption DEF IInv, TypeOK, Actors, StartPublish, CallerGoes, Goes,
        engineVars, transportVars, connectionVars, queueVars, taskVars, closeVars
<1>1. TypeOK'
  BY DEF CallerStages, WorkerStages, Closing
<1>2. CallInv'
  BY DEF CallInv
<1>3. TaskInv'
  BY DEF TaskInv, Spent
<1>4. JobInv'
  BY DEF JobInv, Spent
<1>5. OpenInv'
  BY DEF OpenInv
<1>6. OwedInv'
  BY DEF OwedInv, Claims, DeletedOnce, Closing, ServedInv, Published, engineVars
<1>7. GenerationInv'
  <2>1. m_publish_generation' \in {m_publish_generation, m_publish_generation + 1}
    BY DEF engineVars
  <2>2. UNCHANGED <<m_signaling_tasks, job>>
    OBVIOUS
  <2> QED
    BY <2>1, <2>2, GenerationTypes DEF GenerationInv
<1>8. ServedInv'
  BY DEF ServedInv, Published, JobCurrent, Closing, GenerationInv, Tasks, NoJob
<1> QED
  BY <1>1, <1>2, <1>3, <1>4, <1>5, <1>6, <1>7, <1>8

LEMMA AlreadyPublishingInv ==
    ASSUME IInv, AlreadyPublishing
    PROVE  IInv'
<1> USE PublishAssumption DEF IInv, TypeOK, Actors, AlreadyPublishing, CallerGoes,
        Goes, engineVars, transportVars, connectionVars, queueVars, taskVars,
        closeVars
<1>1. TypeOK'
  BY DEF CallerStages, WorkerStages, Closing
<1>2. CallInv'
  BY DEF CallInv
<1>3. TaskInv'
  BY DEF TaskInv, Spent
<1>4. JobInv'
  BY DEF JobInv, Spent
<1>5. OpenInv'
  BY DEF OpenInv
<1>6. OwedInv'
  BY DEF OwedInv, Claims, DeletedOnce, Closing
<1>7. GenerationInv'
  BY DEF GenerationInv, Tasks, NoJob
<1>8. ServedInv'
  BY DEF ServedInv, Published, JobCurrent, Closing, GenerationInv, Tasks, NoJob
<1> QED
  BY <1>1, <1>2, <1>3, <1>4, <1>5, <1>6, <1>7, <1>8

LEMMA OpenConnectionInv ==
    ASSUME IInv, OpenConnection
    PROVE  IInv'
<1> USE PublishAssumption DEF IInv, TypeOK, Actors, OpenConnection, CallerGoes,
        Unused, Goes, engineVars, queueVars, callVars, taskVars, closeVars
<1>1. TypeOK'
  BY DEF CallerStages, WorkerStages, Closing
<1>2. CallInv'
  BY DEF CallInv
<1>3. TaskInv'
  BY DEF TaskInv, Spent
<1>4. JobInv'
  BY DEF JobInv, Spent
<1>5. OpenInv'
  BY DEF OpenInv
<1>6. OwedInv'
  BY DEF OwedInv, Claims, DeletedOnce, Closing
<1>7. GenerationInv'
  BY DEF GenerationInv, Tasks, NoJob
<1>8. ServedInv'
  BY DEF ServedInv, Published, JobCurrent, Closing, GenerationInv, Tasks, NoJob
<1> QED
  BY <1>1, <1>2, <1>3, <1>4, <1>5, <1>6, <1>7, <1>8

LEMMA SetupPublishTracksInv ==
    ASSUME IInv, SetupPublishTracks
    PROVE  IInv'
<1> USE PublishAssumption DEF IInv, TypeOK, Actors, SetupPublishTracks, CallerGoes,
        Goes, engineVars, connectionVars, queueVars, taskVars, closeVars
<1>1. TypeOK'
  <2>1. at' \in [Actors -> CallerStages \cup WorkerStages]
        /\ at'["caller"] \in CallerStages /\ at'["worker"] \in WorkerStages
    BY DEF WorkerStages, CallerStages, Closing
  <2>2. m_tracks_initialized' \in BOOLEAN /\ fresh' \in Connections \cup {None}
    OBVIOUS
  <2> QED
    BY <2>1, <2>2
<1>2. CallInv'
  BY DEF CallInv
<1>3. TaskInv'
  BY DEF TaskInv, Spent
<1>4. JobInv'
  BY DEF JobInv, Spent
<1>5. OpenInv'
  BY DEF OpenInv
<1>6. OwedInv'
  BY DEF OwedInv, Claims, DeletedOnce, Closing
<1>7. GenerationInv'
  BY DEF GenerationInv, Tasks, NoJob
<1>8. ServedInv'
  BY DEF ServedInv, Published, JobCurrent, Closing, GenerationInv, Tasks, NoJob
<1> QED
  BY <1>1, <1>2, <1>3, <1>4, <1>5, <1>6, <1>7, <1>8

LEMMA MakeOfferInv ==
    ASSUME IInv, MakeOffer
    PROVE  IInv'
<1> USE PublishAssumption DEF IInv, TypeOK, Actors, MakeOffer, CallerGoes, Goes,
        engineVars, transportVars, queueVars, taskVars, closeVars
<1>1. TypeOK'
  BY DEF CallerStages, WorkerStages, Closing
<1>2. CallInv'
  BY DEF CallInv
<1>3. TaskInv'
  BY DEF TaskInv, Spent
<1>4. JobInv'
  BY DEF JobInv, Spent
<1>5. OpenInv'
  BY DEF OpenInv
<1>6. OwedInv'
  BY DEF OwedInv, Claims, DeletedOnce, Closing
<1>7. GenerationInv'
  BY DEF GenerationInv, Tasks, NoJob
<1>8. ServedInv'
  BY DEF ServedInv, Published, JobCurrent, Closing, GenerationInv, Tasks, NoJob
<1> QED
  BY <1>1, <1>2, <1>3, <1>4, <1>5, <1>6, <1>7, <1>8

LEMMA OfferFailsInv ==
    ASSUME IInv, OfferFails
    PROVE  IInv'
<1> USE PublishAssumption DEF IInv, TypeOK, Actors, OfferFails, CallerGoes, Goes,
        engineVars, connectionVars, queueVars, taskVars, closeVars
<1>1. TypeOK'
  BY DEF CallerStages, WorkerStages, Closing
<1>2. CallInv'
  BY DEF CallInv
<1>3. TaskInv'
  BY DEF TaskInv, Spent
<1>4. JobInv'
  BY DEF JobInv, Spent
<1>5. OpenInv'
  BY DEF OpenInv
<1>6. OwedInv'
  BY DEF OwedInv, Claims, DeletedOnce, Closing
<1>7. GenerationInv'
  BY DEF GenerationInv, Tasks, NoJob
<1>8. ServedInv'
  BY DEF ServedInv, Published, JobCurrent, Closing, GenerationInv, Tasks, NoJob
<1> QED
  BY <1>1, <1>2, <1>3, <1>4, <1>5, <1>6, <1>7, <1>8

LEMMA StartFailsInv ==
    ASSUME IInv, StartFails
    PROVE  IInv'
<1> USE PublishAssumption DEF IInv, TypeOK, Actors, StartFails, engineVars,
        transportVars, connectionVars, queueVars, taskVars, closeVars
<1>1. TypeOK'
  BY DEF CallerStages, WorkerStages, Closing
<1>2. CallInv'
  BY DEF CallInv
<1>3. TaskInv'
  BY DEF TaskInv, Spent
<1>4. JobInv'
  BY DEF JobInv, Spent
<1>5. OpenInv'
  BY DEF OpenInv
<1>6. OwedInv'
  BY DEF OwedInv, Claims, DeletedOnce, Closing
<1>7. GenerationInv'
  BY DEF GenerationInv, Tasks, NoJob
<1>8. ServedInv'
  BY DEF ServedInv, Published, JobCurrent, Closing, GenerationInv, Tasks, NoJob
<1> QED
  BY <1>1, <1>2, <1>3, <1>4, <1>5, <1>6, <1>7, <1>8

LEMMA PublishingInv ==
    ASSUME IInv, Publishing
    PROVE  IInv'
<1> USE PublishAssumption DEF IInv, TypeOK, Actors, Publishing, CallerGoes, Goes,
        engineVars, connectionVars, queueVars, taskVars, closeVars
<1>1. TypeOK'
  BY DEF CallInv, WorkerStages, CallerStages, Closing
<1>2. CallInv'
  BY DEF CallInv
<1>3. TaskInv'
  BY DEF TaskInv, Spent
<1>4. JobInv'
  BY DEF JobInv, Spent
<1>5. OpenInv'
  BY DEF OpenInv
<1>6. OwedInv'
  BY DEF OwedInv, Claims, DeletedOnce, Closing
<1>7. GenerationInv'
  BY DEF GenerationInv, Tasks, NoJob
<1>8. ServedInv'
  BY DEF ServedInv, Published, JobCurrent, Closing, GenerationInv, Tasks, NoJob
<1> QED
  BY <1>1, <1>2, <1>3, <1>4, <1>5, <1>6, <1>7, <1>8

LEMMA StopPublishInv ==
    ASSUME IInv, NEW m \in Media, StopPublish(m)
    PROVE  IInv'
<1> USE PublishAssumption DEF IInv, TypeOK, Actors, StopPublish, CallerGoes, Goes,
        engineVars, connectionVars, queueVars, callVars, taskVars, closeVars
<1>1. TypeOK'
  BY DEF CallerStages, WorkerStages, Closing
<1>2. CallInv'
  BY DEF CallInv
<1>3. TaskInv'
  BY DEF TaskInv, Spent
<1>4. JobInv'
  BY DEF JobInv, Spent
<1>5. OpenInv'
  BY DEF OpenInv
<1>6. OwedInv'
  BY DEF OwedInv, Claims, DeletedOnce, Closing
<1>7. GenerationInv'
  BY DEF GenerationInv, Tasks, NoJob
<1>8. ServedInv'
  BY DEF ServedInv, Published, JobCurrent, Closing, GenerationInv, Tasks, NoJob
<1> QED
  BY <1>1, <1>2, <1>3, <1>4, <1>5, <1>6, <1>7, <1>8

LEMMA KeepConnectionInv ==
    ASSUME IInv, KeepConnection
    PROVE  IInv'
<1> USE PublishAssumption DEF IInv, TypeOK, Actors, KeepConnection, CallerGoes, Goes,
        engineVars, transportVars, connectionVars, queueVars, callVars, taskVars,
        closeVars
<1>1. TypeOK'
  BY DEF CallerStages, WorkerStages, Closing
<1>2. CallInv'
  BY DEF CallInv
<1>3. TaskInv'
  BY DEF TaskInv, Spent
<1>4. JobInv'
  BY DEF JobInv, Spent
<1>5. OpenInv'
  BY DEF OpenInv
<1>6. OwedInv'
  BY DEF OwedInv, Claims, DeletedOnce, Closing
<1>7. GenerationInv'
  BY DEF GenerationInv, Tasks, NoJob
<1>8. ServedInv'
  BY DEF ServedInv, Published, JobCurrent, Closing, GenerationInv, Tasks, NoJob
<1> QED
  BY <1>1, <1>2, <1>3, <1>4, <1>5, <1>6, <1>7, <1>8

LEMMA UninitInv ==
    ASSUME IInv, Uninit
    PROVE  IInv'
<1> USE PublishAssumption DEF IInv, TypeOK, Actors, Uninit, CallerGoes, Goes,
        engineVars, transportVars, connectionVars, queueVars, taskVars, closeVars
<1>1. TypeOK'
  BY DEF CallerStages, WorkerStages, Closing
<1>2. CallInv'
  BY DEF CallInv
<1>3. TaskInv'
  BY DEF TaskInv, Spent
<1>4. JobInv'
  BY DEF JobInv, Spent
<1>5. OpenInv'
  BY DEF OpenInv
<1>6. OwedInv'
  BY DEF OwedInv, Claims, DeletedOnce, Closing
<1>7. GenerationInv'
  BY DEF GenerationInv, Tasks, NoJob
<1>8. ServedInv'
  BY DEF ServedInv, Published, JobCurrent, Closing, GenerationInv, Tasks, NoJob
<1> QED
  BY <1>1, <1>2, <1>3, <1>4, <1>5, <1>6, <1>7, <1>8

LEMMA StopSignalingWorkerInv ==
    ASSUME IInv, StopSignalingWorker
    PROVE  IInv'
<1> USE PublishAssumption DEF IInv, TypeOK, Actors, StopSignalingWorker, CallerGoes,
        Goes, engineVars, transportVars, connectionVars, callVars, taskVars, closeVars
<1>1. TypeOK'
  <2>1. m_signaling_tasks' \in Seq(Tasks)
    OBVIOUS
  <2> QED
    BY <2>1 DEF CallerStages, WorkerStages, Closing
<1>2. CallInv'
  BY DEF CallInv
<1>3. TaskInv'
  BY DEF TaskInv, Spent
<1>4. JobInv'
  BY DEF JobInv, Spent
<1>5. OpenInv'
  BY DEF OpenInv
<1>6. OwedInv'
  BY DEF OwedInv, Claims, DeletedOnce, Closing
<1>7. GenerationInv'
  BY DEF GenerationInv, Tasks, NoJob
<1>8. ServedInv'
  BY DEF ServedInv, Published, JobCurrent, Closing, GenerationInv, Tasks, NoJob
<1> QED
  BY <1>1, <1>2, <1>3, <1>4, <1>5, <1>6, <1>7, <1>8

LEMMA HandleGatheringStateInv ==
    ASSUME IInv, NEW c \in Connections, HandleGatheringState(c)
    PROVE  IInv'
<1> USE PublishAssumption DEF IInv, TypeOK, Actors, HandleGatheringState, engineVars,
        transportVars, queueVars, callVars, taskVars, closeVars
<1>1. TypeOK'
  BY DEF CallerStages, WorkerStages, Closing
<1>2. CallInv'
  BY DEF CallInv, Offered
<1>3. TaskInv'
  BY DEF TaskInv, Spent
<1>4. JobInv'
  BY DEF JobInv, Spent
<1>5. OpenInv'
  BY DEF OpenInv
<1>6. OwedInv'
  BY DEF OwedInv, Claims, DeletedOnce, Closing
<1>7. GenerationInv'
  BY DEF GenerationInv, Tasks, NoJob
<1>8. ServedInv'
  BY DEF ServedInv, Published, JobCurrent, Closing, GenerationInv, Tasks, NoJob
<1> QED
  BY <1>1, <1>2, <1>3, <1>4, <1>5, <1>6, <1>7, <1>8

LEMMA HandlePublishLocalDescriptionInv ==
    ASSUME IInv, NEW c \in Connections, HandlePublishLocalDescription(c)
    PROVE  IInv'
<1> DEFINE task == [by |-> c, offer |-> described[c], generation |-> m_publish_generation]
           n == Len(m_signaling_tasks)
<1> USE PublishAssumption DEF IInv, TypeOK, Actors, HandlePublishLocalDescription,
        engineVars, transportVars, callVars, taskVars, closeVars
<1>0. /\ m_signaling_tasks' \in Seq(Tasks)
      /\ \A i \in 1..Len(m_signaling_tasks') :
            \/ i \in 1..n /\ m_signaling_tasks'[i] = m_signaling_tasks[i]
            \/ i = n + 1 /\ m_signaling_tasks'[i] = task
  <2>1. task \in Tasks /\ n \in Nat
    BY DEF CallInv, Tasks
  <2>2. CASE UNCHANGED m_signaling_tasks
    BY <2>2
  <2>3. CASE m_signaling_tasks' = Append(m_signaling_tasks, task)
    BY <2>1, <2>3
  <2> QED
    BY <2>2, <2>3
<1>1. TypeOK'
  BY <1>0
<1>2. CallInv'
  BY DEF CallInv
<1>3. TaskInv'
  <2>1. c \notin owed /\ \A i \in 1..n : m_signaling_tasks[i].by # c
    BY DEF TaskInv, Spent
  <2>2. Spent(c)' /\ \A d \in Connections : Spent(d) => Spent(d)'
    BY DEF Spent
  <2>3. \A i \in 1..Len(m_signaling_tasks') :
           (Spent(m_signaling_tasks[i].by) /\ m_signaling_tasks[i].by \notin owed)'
    <3> SUFFICES ASSUME NEW i \in 1..Len(m_signaling_tasks')
                 PROVE  (Spent(m_signaling_tasks[i].by) /\ m_signaling_tasks[i].by \notin owed)'
      OBVIOUS
    <3>1. CASE i \in 1..n /\ m_signaling_tasks'[i] = m_signaling_tasks[i]
      <4>1. Spent(m_signaling_tasks[i].by) /\ m_signaling_tasks[i].by \notin owed
        BY <3>1 DEF TaskInv
      <4> QED
        BY <2>2, <3>1, <4>1 DEF Spent
    <3>2. CASE m_signaling_tasks'[i] = task
      BY <2>1, <2>2, <3>2
    <3> QED
      BY <1>0, <3>1, <3>2
  <2>4. \A i, j \in 1..Len(m_signaling_tasks') :
           m_signaling_tasks'[i].by = m_signaling_tasks'[j].by => i = j
    BY <1>0, <2>1 DEF TaskInv
  <2>5. \A u \in owed' : Spent(u)'
    <3>1. \A u \in owed : u \in Connections /\ Spent(u)
      BY DEF TaskInv
    <3> QED
      BY <2>2, <3>1
  <2> QED
    BY <2>3, <2>4, <2>5 DEF TaskInv
<1>4. JobInv'
  BY <1>0 DEF JobInv, Spent
<1>5. OpenInv'
  BY DEF OpenInv
<1>6. OwedInv'
  BY DEF OwedInv, Claims, DeletedOnce, Closing
<1>7. GenerationInv'
  BY <1>0 DEF GenerationInv, Tasks, NoJob
<1>8. ServedInv'
  BY DEF ServedInv, Published, JobCurrent, Closing, GenerationInv, Tasks, NoJob
<1> QED
  BY <1>1, <1>2, <1>3, <1>4, <1>5, <1>6, <1>7, <1>8

LEMMA TakeTaskInv ==
    ASSUME IInv, TakeTask
    PROVE  IInv'
<1> USE PublishAssumption DEF IInv, TypeOK, Actors, TakeTask, WorkerGoes, Goes,
        engineVars, transportVars, connectionVars, callVars, closeVars
<1>1. TypeOK'
  BY DEF CallerStages, WorkerStages, Closing
<1>2. CallInv'
  BY DEF CallInv
<1>3. TaskInv'
  BY DEF TaskInv, Spent
<1>4. JobInv'
  <2>1. /\ job' = m_signaling_tasks[1] /\ 1 \in 1..Len(m_signaling_tasks)
        /\ job' \in Tasks
        /\ \A i \in 1..Len(m_signaling_tasks') :
              i + 1 \in 1..Len(m_signaling_tasks) /\ i + 1 # 1
              /\ m_signaling_tasks'[i] = m_signaling_tasks[i + 1]
    OBVIOUS
  <2> QED
    BY <2>1 DEF JobInv, TaskInv, Spent
<1>5. OpenInv'
  BY DEF OpenInv
<1>6. OwedInv'
  BY DEF OwedInv, Claims, DeletedOnce, Closing
<1>7. GenerationInv'
  BY DEF GenerationInv, Tasks, NoJob
<1>8. ServedInv'
  BY DEF ServedInv, Published, JobCurrent, Closing, GenerationInv, Tasks, NoJob
<1> QED
  BY <1>1, <1>2, <1>3, <1>4, <1>5, <1>6, <1>7, <1>8

LEMMA LeaveLoopInv ==
    ASSUME IInv, LeaveLoop
    PROVE  IInv'
<1> USE PublishAssumption DEF IInv, TypeOK, Actors, LeaveLoop, WorkerGoes, Goes,
        engineVars, transportVars, connectionVars, queueVars, callVars, taskVars,
        closeVars
<1>1. TypeOK'
  BY DEF CallerStages, WorkerStages, Closing
<1>2. CallInv'
  BY DEF CallInv
<1>3. TaskInv'
  BY DEF TaskInv, Spent
<1>4. JobInv'
  BY DEF JobInv, Spent
<1>5. OpenInv'
  BY DEF OpenInv
<1>6. OwedInv'
  BY DEF OwedInv, Claims, DeletedOnce, Closing
<1>7. GenerationInv'
  BY DEF GenerationInv, Tasks, NoJob
<1>8. ServedInv'
  BY DEF ServedInv, Published, JobCurrent, Closing, GenerationInv, Tasks, NoJob
<1> QED
  BY <1>1, <1>2, <1>3, <1>4, <1>5, <1>6, <1>7, <1>8

LEMMA CheckTaskInv ==
    ASSUME IInv, CheckTask
    PROVE  IInv'
<1> USE PublishAssumption DEF IInv, TypeOK, Actors, CheckTask, WorkerGoes, TaskDone,
        JobCurrent, Goes, engineVars, transportVars, connectionVars, queueVars,
        callVars, taskVars, closeVars
<1>1. TypeOK'
  <2>1. at' \in [Actors -> CallerStages \cup WorkerStages]
        /\ at'["caller"] \in CallerStages /\ at'["worker"] \in WorkerStages
    BY DEF WorkerStages, CallerStages, Closing
  <2>2. job' \in {job, NoJob} /\ told' \in BOOLEAN
    OBVIOUS
  <2> QED
    BY <2>1, <2>2
<1>2. CallInv'
  BY DEF CallInv
<1>3. TaskInv'
  BY DEF TaskInv, Spent
<1>4. JobInv'
  BY DEF JobInv, Spent
<1>5. OpenInv'
  BY DEF OpenInv
<1>6. OwedInv'
  BY DEF OwedInv, Claims, DeletedOnce, Closing
<1>7. GenerationInv'
  BY DEF GenerationInv, Tasks, NoJob
<1>8. ServedInv'
  BY DEF ServedInv, Published, Closing, GenerationInv, Tasks, NoJob
<1> QED
  BY <1>1, <1>2, <1>3, <1>4, <1>5, <1>6, <1>7, <1>8

LEMMA PostOfferInv ==
    ASSUME IInv, PostOffer
    PROVE  IInv'
<1> USE PublishAssumption DEF IInv, TypeOK, Actors, PostOffer, WorkerGoes, Goes,
        engineVars, transportVars, connectionVars, queueVars, callVars, closeVars
<1>1. TypeOK'
  BY DEF JobInv, Tasks, NoJob, WorkerStages, CallerStages, Closing
<1>2. CallInv'
  BY DEF CallInv
<1>3. TaskInv'
  BY DEF TaskInv, JobInv, Spent, Tasks
<1>4. JobInv'
  BY DEF JobInv, Spent
<1>5. OpenInv'
  BY DEF OpenInv
<1>6. OwedInv'
  BY DEF OwedInv, Claims, DeletedOnce, Closing, JobInv, Tasks
<1>7. GenerationInv'
  BY DEF GenerationInv, Tasks, NoJob
<1>8. ServedInv'
  BY DEF ServedInv, Published, JobCurrent, Closing, GenerationInv, Tasks, NoJob
<1> QED
  BY <1>1, <1>2, <1>3, <1>4, <1>5, <1>6, <1>7, <1>8

LEMMA RecheckSessionInv ==
    ASSUME IInv, RecheckSession
    PROVE  IInv'
<1> USE PublishAssumption DEF IInv, TypeOK, Actors, RecheckSession, WorkerGoes,
        JobCurrent, Goes, engineVars, transportVars, connectionVars, queueVars,
        callVars, taskVars, closeVars
<1>1. TypeOK'
  BY DEF CallerStages, WorkerStages, Closing
<1>2. CallInv'
  BY DEF CallInv
<1>3. TaskInv'
  BY DEF TaskInv, Spent
<1>4. JobInv'
  BY DEF JobInv, Spent
<1>5. OpenInv'
  BY DEF OpenInv
<1>6. OwedInv'
  BY DEF OwedInv, Claims, DeletedOnce, Closing
<1>7. GenerationInv'
  BY DEF GenerationInv, Tasks, NoJob
<1>8. ServedInv'
  BY DEF ServedInv, Published, Closing, GenerationInv, Tasks, NoJob
<1> QED
  BY <1>1, <1>2, <1>3, <1>4, <1>5, <1>6, <1>7, <1>8

LEMMA SetRemoteDescriptionInv ==
    ASSUME IInv, SetRemoteDescription
    PROVE  IInv'
<1> USE PublishAssumption DEF IInv, TypeOK, Actors, SetRemoteDescription, WorkerGoes,
        Goes, engineVars, transportVars, queueVars, callVars, taskVars, closeVars
<1>1. TypeOK'
  BY DEF JobInv, Tasks, NoJob, WorkerStages, CallerStages, Closing
<1>2. CallInv'
  BY DEF CallInv
<1>3. TaskInv'
  BY DEF TaskInv, Spent
<1>4. JobInv'
  BY DEF JobInv, Spent
<1>5. OpenInv'
  BY DEF OpenInv
<1>6. OwedInv'
  BY DEF OwedInv, Claims, DeletedOnce, Closing
<1>7. GenerationInv'
  BY DEF GenerationInv, Tasks, NoJob
<1>8. ServedInv'
  <2>1. CASE WorkerGoes("answer", "store")
    <3>1. answer'[m_peer_connection] # None
      BY <2>1 DEF JobInv, Tasks, Offered, WorkerGoes, Goes
    <3> QED
      BY <2>1, <3>1 DEF ServedInv, Published, JobCurrent, Closing, Offered
  <2>2. CASE WorkerGoes("answer", "refused") /\ UNCHANGED answer
    BY <2>2 DEF ServedInv, Published, JobCurrent, Closing
  <2> QED
    BY <2>1, <2>2
<1> QED
  BY <1>1, <1>2, <1>3, <1>4, <1>5, <1>6, <1>7, <1>8

LEMMA UnpublishRefusedInv ==
    ASSUME IInv, UnpublishRefused
    PROVE  IInv'
<1> USE PublishAssumption DEF IInv, TypeOK, Actors, UnpublishRefused, WorkerGoes,
        Unclaim, Goes, engineVars, transportVars, connectionVars, queueVars, callVars,
        taskVars, closeVars
<1>1. TypeOK'
  BY DEF CallerStages, WorkerStages, Closing
<1>2. CallInv'
  BY DEF CallInv
<1>3. TaskInv'
  BY DEF TaskInv, Spent
<1>4. JobInv'
  BY DEF JobInv, Spent
<1>5. OpenInv'
  BY DEF OpenInv
<1>6. OwedInv'
  BY DEF OwedInv, Claims, DeletedOnce, Closing
<1>7. GenerationInv'
  BY DEF GenerationInv, Tasks, NoJob
<1>8. ServedInv'
  BY DEF ServedInv, Published, JobCurrent, Closing, GenerationInv, Tasks, NoJob
<1> QED
  BY <1>1, <1>2, <1>3, <1>4, <1>5, <1>6, <1>7, <1>8

LEMMA StoreResourceInv ==
    ASSUME IInv, StoreResource
    PROVE  IInv'
<1> USE PublishAssumption DEF IInv, TypeOK, Actors, StoreResource, WorkerGoes,
        TaskDone, JobCurrent, Goes, transportVars, connectionVars, queueVars,
        callVars, taskVars, closeVars
<1>1. TypeOK'
  <2>1. at' \in [Actors -> CallerStages \cup WorkerStages]
        /\ at'["caller"] \in CallerStages /\ at'["worker"] \in WorkerStages
    BY DEF WorkerStages, CallerStages, Closing
  <2>2. job' \in {job, NoJob} /\ told' \in BOOLEAN
    OBVIOUS
  <2>3. m_publish_resource_url' \in Connections \cup {None}
    BY DEF JobInv, Tasks
  <2> QED
    BY <2>1, <2>2, <2>3
<1>2. CallInv'
  BY DEF CallInv
<1>3. TaskInv'
  BY DEF TaskInv, Spent
<1>4. JobInv'
  BY DEF JobInv, Spent
<1>5. OpenInv'
  BY DEF OpenInv
<1>6. OwedInv'
  BY DEF OwedInv, Claims, DeletedOnce, Closing, ServedInv
<1>7. GenerationInv'
  BY DEF GenerationInv, Tasks, NoJob
<1>8. ServedInv'
  BY DEF ServedInv, Published, Closing, GenerationInv, Tasks, NoJob
<1> QED
  BY <1>1, <1>2, <1>3, <1>4, <1>5, <1>6, <1>7, <1>8

LEMMA UnpublishUnclaimedInv ==
    ASSUME IInv, UnpublishUnclaimed
    PROVE  IInv'
<1> USE PublishAssumption DEF IInv, TypeOK, Actors, UnpublishUnclaimed, WorkerGoes,
        TaskDone, Unclaim, Goes, engineVars, transportVars, connectionVars, queueVars,
        callVars, closeVars
<1>1. TypeOK'
  BY DEF CallerStages, WorkerStages, Closing
<1>2. CallInv'
  BY DEF CallInv
<1>3. TaskInv'
  BY DEF TaskInv, Spent
<1>4. JobInv'
  BY DEF JobInv, Spent
<1>5. OpenInv'
  BY DEF OpenInv
<1>6. OwedInv'
  BY DEF OwedInv, Claims, DeletedOnce, Closing
<1>7. GenerationInv'
  BY DEF GenerationInv, Tasks, NoJob
<1>8. ServedInv'
  BY DEF ServedInv, Published, JobCurrent, Closing, GenerationInv, Tasks, NoJob
<1> QED
  BY <1>1, <1>2, <1>3, <1>4, <1>5, <1>6, <1>7, <1>8

-----------------------------------------------------------------------------
(* The theorem.                                                              *)

LEMMA Initially == Init => IInv
<1> SUFFICES ASSUME Init PROVE IInv
  OBVIOUS
<1> USE PublishAssumption DEF Init, Actors
<1>1. TypeOK
  <2>1. /\ at \in [Actors -> CallerStages \cup WorkerStages]
        /\ at["caller"] \in CallerStages /\ at["worker"] \in WorkerStages
    BY DEF CallerStages, WorkerStages
  <2>2. m_signaling_tasks \in Seq(Tasks)
    OBVIOUS
  <2> QED
    BY <2>1, <2>2 DEF TypeOK
<1>2. CallInv /\ TaskInv /\ JobInv /\ OpenInv
  BY DEF CallInv, TaskInv, JobInv, OpenInv
<1>3. OwedInv
  BY DEF OwedInv, DeletedOnce, Claims
<1>4. GenerationInv /\ ServedInv
  BY DEF GenerationInv, ServedInv, NoJob, Closing
<1> QED
  BY <1>1, <1>2, <1>3, <1>4 DEF IInv

LEMMA CallerInvariant == IInv /\ Caller => IInv'
<1> SUFFICES ASSUME IInv, Caller PROVE IInv'
  OBVIOUS
<1>1. CASE \E m \in Media : StartPublish(m) \/ StopPublish(m)
  BY <1>1, StartPublishInv, StopPublishInv
<1>2. CASE Uninit
  BY <1>2, UninitInv
<1>3. CASE CallerContinues
  <2>1. CASE StopLast
    BY <2>1, ClosePublishInv DEF StopLast, Actors, CallerStages
  <2>2. CASE JoinSignalingWorker
    BY <2>2, ClosePublishInv DEF JoinSignalingWorker, Actors, CallerStages
  <2>3. CASE ContinueClose("caller")
    BY <2>3, CloseFlagsInv, CloseTracksInv, DetachConnectionInv, CloseConnectionInv,
       UnpublishInv DEF ContinueClose, Actors
  <2>4. CASE AlreadyPublishing \/ OpenConnection \/ SetupPublishTracks \/ MakeOffer
    BY <2>4, AlreadyPublishingInv, OpenConnectionInv, SetupPublishTracksInv,
       MakeOfferInv
  <2>5. CASE OfferFails \/ StartFails \/ Publishing \/ KeepConnection \/ StopSignalingWorker
    BY <2>5, OfferFailsInv, StartFailsInv, PublishingInv, KeepConnectionInv,
       StopSignalingWorkerInv
  <2> QED
    BY <1>3, <2>1, <2>2, <2>3, <2>4, <2>5 DEF CallerContinues
<1> QED
  BY <1>1, <1>2, <1>3 DEF Caller

LEMMA WorkerInvariant == IInv /\ SignalingWorker => IInv'
<1> SUFFICES ASSUME IInv, SignalingWorker PROVE IInv'
  OBVIOUS
<1>1. CASE CloseFailed
  BY <1>1, ClosePublishInv DEF CloseFailed, Actors, WorkerStages
<1>2. CASE ContinueClose("worker")
  BY <1>2, CloseFlagsInv, CloseTracksInv, DetachConnectionInv, CloseConnectionInv,
     UnpublishInv DEF ContinueClose, Actors
<1>3. CASE TakeTask \/ LeaveLoop \/ CheckTask \/ PostOffer \/ RecheckSession
  BY <1>3, TakeTaskInv, LeaveLoopInv, CheckTaskInv, PostOfferInv, RecheckSessionInv
<1>4. CASE SetRemoteDescription \/ UnpublishRefused \/ StoreResource \/ UnpublishUnclaimed
  BY <1>4, SetRemoteDescriptionInv, UnpublishRefusedInv, StoreResourceInv,
     UnpublishUnclaimedInv
<1> QED
  BY <1>1, <1>2, <1>3, <1>4 DEF SignalingWorker

LEMMA Stutters == IInv /\ UNCHANGED vars => IInv'
<1> SUFFICES ASSUME IInv, UNCHANGED vars PROVE IInv'
  OBVIOUS
<1> USE DEF IInv, vars, engineVars, transportVars, connectionVars, queueVars, callVars,
            taskVars, closeVars
<1>1. TypeOK' /\ CallInv'
  BY DEF TypeOK, CallInv
<1>2. TaskInv' /\ JobInv' /\ OpenInv'
  BY DEF TaskInv, JobInv, OpenInv, Spent
<1>3. OwedInv'
  BY DEF OwedInv, DeletedOnce, Claims
<1>4. GenerationInv' /\ ServedInv'
  BY DEF GenerationInv, ServedInv, Published, JobCurrent
<1> QED
  BY <1>1, <1>2, <1>3, <1>4

LEMMA InductiveInvariant == Spec => []IInv
<1>1. IInv /\ [Next]_vars => IInv'
  BY CallerInvariant, WorkerInvariant, HandleGatheringStateInv,
     HandlePublishLocalDescriptionInv, Stutters DEF Next
<1> QED
  BY <1>1, Initially, PTL DEF Spec

\* What the invariant says of a moment when nobody is at work.
LEMMA AtRestNothingLeft == IInv => NothingLeft /\ KeptResourceServed
<1> SUFFICES ASSUME IInv PROVE NothingLeft /\ KeptResourceServed
  OBVIOUS
<1>1. KeptResourceServed
  BY DEF IInv, ServedInv, KeptResourceServed
<1>2. ASSUME AtRest PROVE ~Claims /\ \A a \in Actors : leaving[a] = None /\ hand[a] = None
  BY <1>2 DEF IInv, OpenInv, OwedInv, AtRest, Claims, Actors, Closing
<1>3. ASSUME AtRest, NEW c \in Connections
      PROVE  connection[c] \in {"unused", "closed"} \/ c = m_peer_connection
  BY <1>2, <1>3, PublishAssumption DEF IInv, OpenInv
<1>4. ASSUME AtRest PROVE owed = {m_publish_resource_url} \ {None}
  <2>1. \A u \in owed : u \in Connections /\ u = m_publish_resource_url
    BY <1>2, <1>4, PublishAssumption DEF IInv, TypeOK, OwedInv
  <2>2. m_publish_resource_url = None \/ m_publish_resource_url \in owed
    BY DEF IInv, OwedInv, DeletedOnce
  <2> QED
    BY <2>1, <2>2, PublishAssumption
<1> QED
  BY <1>1, <1>3, <1>4 DEF NothingLeft

\* However starts, stops, failing requests and the end of the engine fall together,
\* for any number of connections and starts: no WHIP resource and no connection is
\* left behind when nobody is at work, the one kept belongs to the connection that was
\* given its answer, and each is deleted once.
THEOREM PublishCorrect == Spec => []PublishInvariant
<1>1. IInv => PublishInvariant
  BY AtRestNothingLeft DEF IInv, OwedInv, PublishInvariant
<1> QED
  BY <1>1, InductiveInvariant, PTL

===============================================================================
