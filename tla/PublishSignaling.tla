--------------------------- MODULE PublishSignaling ---------------------------
(***************************************************************************)
(* The publish side of TransportEngine: one RtcPushTransport, shared by    *)
(* audio and video, whose PeerConnection is opened by a caller and closed  *)
(* by the caller or by the signaling thread, which exchanges the WHIP      *)
(* offer and answer with the media server.                                 *)
(*                                                                         *)
(* Actors: the caller (TransportManager holds its m_state_mutex during the *)
(* Start and Stop calls and Uninit, so there is one at a time),            *)
(* libdatachannel, which reports that gathering is complete, and the       *)
(* signaling thread.  Each step is one critical section, one access to the *)
(* atomic flags, one call of libdatachannel or one HTTP request.           *)
(*                                                                         *)
(* A PeerConnection gathers once, for its first offer.  The connection     *)
(* whose gathering report posted a task also names the WHIP resource made  *)
(* by it.  Frames, encoders and the threads of RtcPushTransport are left   *)
(* out.                                                                    *)
(***************************************************************************)
EXTENDS Naturals, Sequences

CONSTANTS
    Connections,     \* PeerConnections; each is created at most once
    MaxGeneration    \* bound on m_publish_generation when a call begins

None == "none"

ASSUME PublishAssumption == None \notin Connections /\ MaxGeneration \in Nat

Media == {"audio", "video"}

VARIABLES
    m_initialized,
    publishing,               \* m_video_publishing and m_audio_publishing
    m_peer_connection,
    m_tracks_initialized,
    connection,               \* the state of each PeerConnection
    described,                \* whose description its gathering report carries
    answer,                   \* the offer whose answer each connection was given
    m_publish_generation,
    m_publish_resource_url,
    m_signaling_running,
    m_signaling_tasks,
    at,                       \* where the caller and the signaling thread stand
    medium,                   \* what the caller is starting
    fresh,                    \* the connection it makes an offer for
    job,                      \* the task the signaling thread runs
    told,                     \* the response to the offer named its resource
    hand,                     \* URL each of the two took, to delete it
    leaving,                  \* connection each of the two took, to close it
    owed                      \* resources named by a response, no DELETE sent yet

engineVars     == <<m_publish_generation, m_publish_resource_url>>
transportVars  == <<publishing, m_peer_connection, m_tracks_initialized>>
connectionVars == <<connection, described, answer>>
queueVars      == <<m_signaling_running, m_signaling_tasks>>
callVars       == <<m_initialized, medium, fresh>>
taskVars       == <<job, told>>
closeVars      == <<hand, leaving>>
vars == <<engineVars, transportVars, connectionVars, queueVars, at, callVars,
          taskVars, closeVars, owed>>

Actors == {"caller", "worker"}

Tasks == [by : Connections, offer : Connections, generation : Nat]
NoJob == [by |-> None, offer |-> None, generation |-> 0]

\* Stages of ClosePublish, run by either of the two.
Closing == {"flags", "tracks", "detach", "callbacks", "unpublish"}
CallerStages == Closing \cup {"idle", "open", "setup", "offer", "publish", "stopped",
                              "stop", "join", "over"}
WorkerStages == Closing \cup {"wait", "check", "post", "recheck", "answer", "refused",
                              "failed", "store", "unclaimed", "ended"}

\* Connections with a local description.
Offered == {c \in Connections : connection[c] \in {"gathering", "reporting", "gathered"}}

Init ==
    /\ m_initialized = TRUE
    /\ publishing = {}
    /\ m_peer_connection = None
    /\ m_tracks_initialized = FALSE
    /\ connection = [c \in Connections |-> "unused"]
    /\ described = [c \in Connections |-> None]
    /\ answer = [c \in Connections |-> None]
    /\ m_publish_generation = 0
    /\ m_publish_resource_url = None
    /\ m_signaling_running = TRUE
    /\ m_signaling_tasks = <<>>
    /\ at = [caller |-> "idle", worker |-> "wait"]
    /\ medium = None
    /\ fresh = None
    /\ job = NoJob
    /\ told = FALSE
    /\ hand = [a \in Actors |-> None]
    /\ leaving = [a \in Actors |-> None]
    /\ owed = {}

Goes(a, from, to) == at[a] = from /\ at' = [at EXCEPT ![a] = to]
CallerGoes(from, to) == Goes("caller", from, to)
WorkerGoes(from, to) == Goes("worker", from, to)

-----------------------------------------------------------------------------
(* ClosePublish, by the caller or by the signaling thread.                  *)

\* Mutant: the URL is copied, not taken.
Mutant_ClosePublish(a, from) ==
    /\ Goes(a, from, "flags")
    /\ m_publish_generation' = m_publish_generation + 1
    /\ hand' = [hand EXCEPT ![a] = m_publish_resource_url]
    /\ UNCHANGED <<m_publish_resource_url, transportVars, connectionVars, queueVars, callVars,
                   taskVars, leaving, owed>>

\* What is published becomes an old generation, and its URL is taken.
ClosePublish(a, from) ==
    /\ Goes(a, from, "flags")
    /\ m_publish_generation' = m_publish_generation + 1
    /\ hand' = [hand EXCEPT ![a] = m_publish_resource_url]
    /\ m_publish_resource_url' = None
    /\ UNCHANGED <<transportVars, connectionVars, queueVars, callVars,
                   taskVars, leaving, owed>>

CloseFlags(a) ==
    /\ Goes(a, "flags", "tracks")
    /\ publishing' = {}
    /\ UNCHANGED <<engineVars, m_peer_connection, m_tracks_initialized, connectionVars,
                   queueVars, callVars, taskVars, closeVars, owed>>

CloseTracks(a) ==
    /\ Goes(a, "tracks", "detach")
    /\ m_tracks_initialized' = FALSE
    /\ UNCHANGED <<engineVars, publishing, m_peer_connection, connectionVars,
                   queueVars, callVars, taskVars, closeVars, owed>>

DetachConnection(a) ==
    /\ Goes(a, "detach", "callbacks")
    /\ m_peer_connection' = None
    /\ leaving' = [leaving EXCEPT ![a] = m_peer_connection]
    /\ UNCHANGED <<engineVars, publishing, m_tracks_initialized, connectionVars,
                   queueVars, callVars, taskVars, hand, owed>>

\* Removing the callbacks waits for one that is running.
CloseConnection(a) ==
    /\ Goes(a, "callbacks", "unpublish")
    /\ leaving[a] # None => connection[leaving[a]] # "reporting"
    /\ connection' = [c \in Connections |->
                         IF c = leaving[a] THEN "closed" ELSE connection[c]]
    /\ leaving' = [leaving EXCEPT ![a] = None]
    /\ UNCHANGED <<engineVars, transportVars, described, answer, queueVars, callVars,
                   taskVars, hand, owed>>

\* The end of ClosePublish.
Unpublish(a) ==
    /\ Goes(a, "unpublish", IF a = "worker" THEN "wait"
                            ELSE IF m_initialized THEN "idle" ELSE "over")
    /\ owed' = owed \ {hand[a]}
    /\ hand' = [hand EXCEPT ![a] = None]
    /\ IF a = "worker" THEN job' = NoJob /\ told' = FALSE ELSE UNCHANGED taskVars
    /\ UNCHANGED <<engineVars, transportVars, connectionVars, queueVars, callVars,
                   leaving>>

ContinueClose(a) ==
    \/ CloseFlags(a)
    \/ CloseTracks(a)
    \/ DetachConnection(a)
    \/ CloseConnection(a)
    \/ Unpublish(a)

-----------------------------------------------------------------------------
(* The caller: starting.                                                    *)

\* With neither medium published this is a new WHIP session.
StartPublish(m) ==
    /\ CallerGoes("idle", "open")
    /\ m_initialized
    /\ m_publish_generation < MaxGeneration
    /\ medium' = m
    /\ IF publishing = {}
       THEN /\ m_publish_generation' = m_publish_generation + 1
            /\ m_publish_resource_url' = None
       ELSE UNCHANGED engineVars
    /\ UNCHANGED <<m_initialized, fresh, transportVars, connectionVars, queueVars,
                   taskVars, closeVars, owed>>

AlreadyPublishing ==
    /\ CallerGoes("open", "idle")
    /\ medium \in publishing
    /\ medium' = None
    /\ UNCHANGED <<m_initialized, fresh, engineVars, transportVars, connectionVars,
                   queueVars, taskVars, closeVars, owed>>

\* Open reuses the PeerConnection there is.  Which name a new one gets does
\* not matter.
Unused == {c \in Connections : connection[c] = "unused"}

OpenConnection ==
    /\ CallerGoes("open", "setup")
    /\ medium \notin publishing
    /\ IF m_peer_connection # None THEN UNCHANGED <<m_peer_connection, connection>>
       ELSE /\ Unused # {}
            /\ m_peer_connection' = CHOOSE c \in Unused : TRUE
            /\ connection' = [connection EXCEPT ![m_peer_connection'] = "new"]
    /\ UNCHANGED <<engineVars, publishing, m_tracks_initialized, described, answer,
                   queueVars, callVars, taskVars, closeVars, owed>>

SetupPublishTracks ==
    /\ \/ /\ CallerGoes("setup", "publish")
          /\ m_tracks_initialized
          /\ UNCHANGED <<m_tracks_initialized, fresh>>
       \/ /\ CallerGoes("setup", "offer")
          /\ ~m_tracks_initialized
          /\ m_peer_connection # None
          /\ m_tracks_initialized' = TRUE
          /\ fresh' = m_peer_connection
    /\ UNCHANGED <<m_initialized, medium, engineVars, publishing, m_peer_connection,
                   connectionVars, queueVars, taskVars, closeVars, owed>>

\* setLocalDescription: candidates are gathered for the first offer of a
\* connection, once.  Nothing is heard of a connection closed meanwhile.
MakeOffer ==
    /\ CallerGoes("offer", "publish")
    /\ connection' = [connection EXCEPT ![fresh] = IF @ = "new" THEN "gathering" ELSE @]
    /\ fresh' = None
    /\ UNCHANGED <<m_initialized, medium, engineVars, transportVars, described, answer,
                   queueVars, taskVars, closeVars, owed>>

OfferFails ==
    /\ CallerGoes("offer", "idle")
    /\ m_tracks_initialized' = FALSE
    /\ fresh' = None
    /\ medium' = None
    /\ UNCHANGED <<m_initialized, engineVars, publishing, m_peer_connection,
                   connectionVars, queueVars, taskVars, closeVars, owed>>

\* No connection, no encoder or no tracks could be made.
StartFails ==
    /\ at["caller"] \in {"open", "setup"}
    /\ ~(at["caller"] = "setup" /\ m_tracks_initialized)
    /\ at' = [at EXCEPT !["caller"] = "idle"]
    /\ medium' = None
    /\ UNCHANGED <<m_initialized, fresh, engineVars, transportVars, connectionVars,
                   queueVars, taskVars, closeVars, owed>>

Publishing ==
    /\ CallerGoes("publish", "idle")
    /\ publishing' = publishing \cup {medium}
    /\ medium' = None
    /\ UNCHANGED <<m_initialized, fresh, engineVars, m_peer_connection,
                   m_tracks_initialized, connectionVars, queueVars, taskVars,
                   closeVars, owed>>

-----------------------------------------------------------------------------
(* The caller: stopping.                                                    *)

StopPublish(m) ==
    /\ CallerGoes("idle", "stopped")
    /\ m_initialized
    /\ m_publish_generation < MaxGeneration
    /\ publishing' = publishing \ {m}
    /\ UNCHANGED <<engineVars, m_peer_connection, m_tracks_initialized,
                   connectionVars, queueVars, callVars, taskVars, closeVars, owed>>

\* The connection stays while the other medium is published.
KeepConnection ==
    /\ CallerGoes("stopped", "idle")
    /\ publishing # {}
    /\ UNCHANGED <<engineVars, transportVars, connectionVars, queueVars, callVars,
                   taskVars, closeVars, owed>>

StopLast == publishing = {} /\ ClosePublish("caller", "stopped")

Uninit ==
    /\ CallerGoes("idle", "stop")
    /\ m_initialized
    /\ m_initialized' = FALSE
    /\ UNCHANGED <<medium, fresh, engineVars, transportVars, connectionVars, queueVars,
                   taskVars, closeVars, owed>>

\* Mutant: the thread is not told to stop.
Mutant_StopSignalingWorker ==
    /\ CallerGoes("stop", "join")
    /\ m_signaling_tasks' = <<>>
    /\ UNCHANGED <<m_signaling_running, engineVars, transportVars, connectionVars, callVars, taskVars,
                   closeVars, owed>>


\* Tasks that have not started are dropped; the running one is waited for.
StopSignalingWorker ==
    /\ CallerGoes("stop", "join")
    /\ m_signaling_running' = FALSE
    /\ m_signaling_tasks' = <<>>
    /\ UNCHANGED <<engineVars, transportVars, connectionVars, callVars, taskVars,
                   closeVars, owed>>

JoinSignalingWorker ==
    /\ at["worker"] = "ended"
    /\ ClosePublish("caller", "join")

CallerContinues ==
    \/ AlreadyPublishing
    \/ OpenConnection
    \/ SetupPublishTracks
    \/ MakeOffer
    \/ OfferFails
    \/ StartFails
    \/ Publishing
    \/ KeepConnection
    \/ StopLast
    \/ StopSignalingWorker
    \/ JoinSignalingWorker
    \/ ContinueClose("caller")

Caller ==
    \/ \E m \in Media : StartPublish(m) \/ StopPublish(m)
    \/ Uninit
    \/ CallerContinues

-----------------------------------------------------------------------------
(* libdatachannel: gathering is complete.                                   *)

\* The report takes the description of the connection the transport has now;
\* there may be none, and taking it may throw.
HandleGatheringState(c) ==
    /\ connection[c] = "gathering"
    /\ \/ /\ m_peer_connection \in Offered
          /\ connection' = [connection EXCEPT ![c] = "reporting"]
          /\ described' = [described EXCEPT ![c] = m_peer_connection]
       \/ /\ connection' = [connection EXCEPT ![c] = "gathered"]
          /\ UNCHANGED described
    /\ UNCHANGED <<engineVars, transportVars, answer, queueVars, at, callVars,
                   taskVars, closeVars, owed>>

\* The task gets the configuration and the generation of this moment.  Making
\* the SDP of the description may throw or give nothing: then there is no task.
HandlePublishLocalDescription(c) ==
    /\ connection[c] = "reporting"
    /\ connection' = [connection EXCEPT ![c] = "gathered"]
    /\ described' = [described EXCEPT ![c] = None]
    /\ \/ UNCHANGED m_signaling_tasks
       \/ /\ m_initialized /\ m_signaling_running
          /\ m_signaling_tasks' =
                Append(m_signaling_tasks,
                       [by |-> c, offer |-> described[c], generation |-> m_publish_generation])
    /\ UNCHANGED <<engineVars, transportVars, answer, m_signaling_running, at, callVars,
                   taskVars, closeVars, owed>>

-----------------------------------------------------------------------------
(* The signaling thread.                                                    *)

JobCurrent == job.generation = m_publish_generation

TaskDone == job' = NoJob /\ told' = FALSE

TakeTask ==
    /\ WorkerGoes("wait", "check")
    /\ m_signaling_running
    /\ m_signaling_tasks # <<>>
    /\ job' = Head(m_signaling_tasks)
    /\ m_signaling_tasks' = Tail(m_signaling_tasks)
    /\ UNCHANGED <<engineVars, transportVars, connectionVars, m_signaling_running,
                   callVars, told, closeVars, owed>>

LeaveLoop ==
    /\ WorkerGoes("wait", "ended")
    /\ ~m_signaling_running
    /\ UNCHANGED <<engineVars, transportVars, connectionVars, queueVars, callVars,
                   taskVars, closeVars, owed>>

CheckTask ==
    /\ IF m_initialized /\ JobCurrent
       THEN WorkerGoes("check", "post") /\ UNCHANGED taskVars
       ELSE WorkerGoes("check", "wait") /\ TaskDone
    /\ UNCHANGED <<engineVars, transportVars, connectionVars, queueVars, callVars,
                   closeVars, owed>>

\* The POST returns: no usable response, or an answer with or without the
\* Location of the resource.
PostOffer ==
    /\ \/ WorkerGoes("post", "failed") /\ UNCHANGED <<told, owed>>
       \/ /\ WorkerGoes("post", "recheck")
          /\ told' \in BOOLEAN
          /\ owed' = IF told' THEN owed \cup {job.by} ELSE owed
    /\ UNCHANGED <<engineVars, transportVars, connectionVars, queueVars, callVars,
                   job, closeVars>>

RecheckSession ==
    /\ WorkerGoes("recheck", IF m_initialized /\ JobCurrent /\ publishing # {}
                             THEN "answer" ELSE "unclaimed")
    /\ UNCHANGED <<engineVars, transportVars, connectionVars, queueVars, callVars,
                   taskVars, closeVars, owed>>


\* The answer goes to the connection the transport has now, which may refuse
\* it, and must if it has made no offer or has an answer.
SetRemoteDescription ==
    /\ \/ /\ WorkerGoes("answer", "store")
          /\ m_peer_connection \in Offered
          /\ answer[m_peer_connection] = None
          /\ answer' = [answer EXCEPT ![m_peer_connection] = job.offer]
       \/ WorkerGoes("answer", "refused") /\ UNCHANGED answer
    /\ UNCHANGED <<engineVars, transportVars, connection, described, queueVars,
                   callVars, taskVars, closeVars, owed>>

Unclaim == owed' = IF told THEN owed \ {job.by} ELSE owed

UnpublishRefused ==
    /\ WorkerGoes("refused", "failed")
    /\ Unclaim
    /\ UNCHANGED <<engineVars, transportVars, connectionVars, queueVars, callVars,
                   taskVars, closeVars>>

\* Whatever is published now is closed, of this generation or not.
CloseFailed == ClosePublish("worker", "failed")

StoreResource ==
    /\ IF JobCurrent
       THEN /\ WorkerGoes("store", "wait")
            /\ m_publish_resource_url' = IF told THEN job.by ELSE None
            /\ TaskDone
       ELSE /\ WorkerGoes("store", "unclaimed")
            /\ UNCHANGED <<m_publish_resource_url, taskVars>>
    /\ UNCHANGED <<m_publish_generation, transportVars, connectionVars,
                   queueVars, callVars, closeVars, owed>>

UnpublishUnclaimed ==
    /\ WorkerGoes("unclaimed", "wait")
    /\ Unclaim
    /\ TaskDone
    /\ UNCHANGED <<engineVars, transportVars, connectionVars, queueVars, callVars,
                   closeVars>>

SignalingWorker ==
    \/ TakeTask
    \/ LeaveLoop
    \/ CheckTask
    \/ PostOffer
    \/ RecheckSession
    \/ SetRemoteDescription
    \/ UnpublishRefused
    \/ CloseFailed
    \/ StoreResource
    \/ UnpublishUnclaimed
    \/ ContinueClose("worker")

-----------------------------------------------------------------------------

Next ==
    \/ Caller
    \/ \E c \in Connections : HandleGatheringState(c) \/ HandlePublishLocalDescription(c)
    \/ SignalingWorker

Spec == Init /\ [][Next]_vars

\* Threads run on; gathering always completes; HTTP requests end at their
\* timeout.  Nobody has to publish or shut down.
Fairness ==
    /\ WF_vars(CallerContinues)
    /\ WF_vars(SignalingWorker)
    /\ \A c \in Connections :
          WF_vars(HandleGatheringState(c) \/ HandlePublishLocalDescription(c))

FairSpec == Spec /\ Fairness

-----------------------------------------------------------------------------
(* Properties.                                                              *)

\* Every variable has the kind of value its C++ counterpart has.
TypeOK ==
    /\ m_initialized \in BOOLEAN
    /\ publishing \subseteq Media
    /\ m_peer_connection \in Connections \cup {None}
    /\ m_tracks_initialized \in BOOLEAN
    /\ connection \in [Connections -> {"unused", "new", "gathering", "reporting",
                                       "gathered", "closed"}]
    /\ described \in [Connections -> Connections \cup {None}]
    /\ answer \in [Connections -> Connections \cup {None}]
    /\ m_publish_generation \in Nat
    /\ m_publish_resource_url \in Connections \cup {None}
    /\ m_signaling_running \in BOOLEAN
    /\ m_signaling_tasks \in Seq(Tasks)
    /\ at \in [Actors -> CallerStages \cup WorkerStages]
    /\ at["caller"] \in CallerStages /\ at["worker"] \in WorkerStages
    /\ medium \in Media \cup {None}
    /\ fresh \in Connections \cup {None}
    /\ job \in Tasks \cup {NoJob}
    /\ told \in BOOLEAN
    /\ hand \in [Actors -> Connections \cup {None}]
    /\ leaving \in [Actors -> Connections \cup {None}]
    /\ owed \subseteq Connections

AtRest == at["caller"] \in {"idle", "over"} /\ at["worker"] \in {"wait", "ended"}

\* When nobody is at work, the only connection open is the transport's, and
\* the only resource left on the media server is the one whose URL is kept
\* for the next ClosePublish.
NothingLeft ==
    AtRest =>
        /\ \A c \in Connections : connection[c] \in {"unused", "closed"} \/ c = m_peer_connection
        /\ owed = {m_publish_resource_url} \ {None}

\* A resource whose URL is kept belongs to a session: there is a connection,
\* and it has been given an answer.
KeptResourceServed ==
    m_publish_resource_url # None /\ AtRest =>
        m_peer_connection # None /\ answer[m_peer_connection] # None

\* A resource is deleted once: a URL is either kept or in the hands of one
\* actor, and stands for a resource not deleted yet.
DeletedOnce ==
    LET Kept(u) == u = None \/ u \in owed IN
    /\ Kept(m_publish_resource_url)
    /\ \A a \in Actors :
          /\ Kept(hand[a])
          /\ hand[a] # None => \A b \in Actors \ {a} :
                hand[a] \notin {hand[b], m_publish_resource_url}

\* The variables keep their types; no resource is left behind (NothingLeft), the
\* one that is kept is served (KeptResourceServed), and each is deleted once.
PublishInvariant == TypeOK /\ NothingLeft /\ KeptResourceServed /\ DeletedOnce

\* Uninit always gets through: the signaling thread it joins, the callback
\* ClosePublish waits for and ClosePublish itself never wait for one another.
UninitCompletes == ~m_initialized ~> at["caller"] = "over"

=============================================================================
