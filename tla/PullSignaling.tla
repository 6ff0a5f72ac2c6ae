----------------------------- MODULE PullSignaling -----------------------------
(***************************************************************************)
(* The pull side of TransportEngine: one session per remote user, opened   *)
(* and closed by a caller while the signaling thread exchanges WHEP offers *)
(* and answers with the media server.                                      *)
(*                                                                         *)
(* Actors: the caller (TransportManager holds its m_state_mutex during     *)
(* SubscribeUserAV, UnsubscribeUserAV and Uninit, so there is one at a     *)
(* time), libdatachannel, which reports that an offer is ready, and the    *)
(* signaling thread.  Each step is one critical section of m_pull_mutex or *)
(* m_signaling_mutex, one HTTP request or one Close.                       *)
(*                                                                         *)
(* A session is a PullSession and its RtcPullTransport.  A transport       *)
(* gathers candidates once, so a session also names its offer, the WHEP    *)
(* resource made for that offer and its answer.  Publishing, which shares  *)
(* the thread and only delays it, and media are left out.                  *)
(***************************************************************************)
EXTENDS FiniteSets, Sequences

CONSTANTS
    Users,     \* remote users
    Sessions   \* pull sessions; each is opened at most once

None == "none"

ASSUME PullAssumption == None \notin Users /\ None \notin Sessions

VARIABLES
    m_initialized,
    m_pull_sessions,      \* the session of each user
    resource_url,         \* sessions whose resource URL has been stored
    user_of,              \* the user a session's callbacks were made for
    peer,                 \* the PeerConnection of each session
    answer,               \* the offer whose answer each session has been given
    m_signaling_running,
    m_signaling_tasks,
    worker,               \* where the signaling thread stands
    job,                  \* the task it runs: an offer, sent for a session
    told,                 \* the response to the offer named its resource
    owed,                 \* resources named by a response, no DELETE sent yet
    caller,               \* where the caller stands
    target,               \* the session it is working on
    hand                  \* sessions taken off the map, still to be closed

mapVars    == <<m_pull_sessions, resource_url, user_of>>
workerVars == <<m_signaling_running, m_signaling_tasks, worker, job, told>>
callerVars == <<m_initialized, caller, target, hand>>
vars       == <<callerVars, mapVars, peer, answer, workerVars, owed>>

Tasks == [offer : Sessions, session : Sessions]
NoJob == [offer |-> None, session |-> None]

\* Stages of a task that holds the URL of a resource if the response had one.
Holding == {"recheck", "answer", "refused", "store", "delete"}
WorkerStages == {"wait", "check", "post", "failed", "close", "stopped"} \cup Holding
CallerStages == {"idle", "subscribe", "close", "delete", "stop", "join", "over"}

Live == {m_pull_sessions[u] : u \in Users} \ {None}

Init ==
    /\ m_initialized = TRUE
    /\ m_pull_sessions = [u \in Users |-> None]
    /\ resource_url = {}
    /\ user_of = [s \in Sessions |-> None]
    /\ peer = [s \in Sessions |-> "unused"]
    /\ answer = [s \in Sessions |-> None]
    /\ m_signaling_running = TRUE
    /\ m_signaling_tasks = <<>>
    /\ worker = "wait"
    /\ job = NoJob
    /\ told = FALSE
    /\ owed = {}
    /\ caller = "idle"
    /\ target = None
    /\ hand = {}

CallerGoes(from, to) == caller = from /\ caller' = to
WorkerGoes(from, to) == worker = from /\ worker' = to

-----------------------------------------------------------------------------
(* The caller.                                                              *)

\* The session enters the map before its offer is made, because the offer's
\* callback looks it up there.
SubscribeUserAV(u, s) ==
    /\ CallerGoes("idle", "subscribe")
    /\ m_initialized
    /\ m_pull_sessions[u] = None
    /\ peer[s] = "unused"
    /\ m_pull_sessions' = [m_pull_sessions EXCEPT ![u] = s]
    /\ user_of' = [user_of EXCEPT ![s] = u]
    /\ peer' = [peer EXCEPT ![s] = "created"]
    /\ target' = s
    /\ UNCHANGED <<m_initialized, resource_url, hand, answer, workerVars, owed>>

\* The connection is open and gathers candidates for the offer.
SubscribeAudioVideo ==
    /\ CallerGoes("subscribe", "idle")
    /\ peer' = [peer EXCEPT ![target] = "open"]
    /\ target' = None
    /\ UNCHANGED <<m_initialized, hand, mapVars, answer, workerVars, owed>>

\* No connection, decoder, track or offer could be made.
SubscribeFails ==
    /\ CallerGoes("subscribe", "idle")
    /\ m_pull_sessions' = [m_pull_sessions EXCEPT ![user_of[target]] = None]
    /\ peer' = [peer EXCEPT ![target] = "closed"]
    /\ target' = None
    /\ UNCHANGED <<m_initialized, hand, resource_url, user_of, answer, workerVars, owed>>

UnsubscribeUserAV(u) ==
    /\ CallerGoes("idle", "close")
    /\ m_initialized
    /\ m_pull_sessions[u] # None
    /\ hand' = {m_pull_sessions[u]}
    /\ m_pull_sessions' = [m_pull_sessions EXCEPT ![u] = None]
    /\ UNCHANGED <<m_initialized, target, resource_url, user_of, peer, answer, workerVars, owed>>

Uninit ==
    /\ CallerGoes("idle", "stop")
    /\ m_initialized
    /\ m_initialized' = FALSE
    /\ UNCHANGED <<target, hand, mapVars, peer, answer, workerVars, owed>>

\* Tasks that have not started are dropped; the running one is waited for.
StopSignalingWorker ==
    /\ CallerGoes("stop", "join")
    /\ m_signaling_running' = FALSE
    /\ m_signaling_tasks' = <<>>
    /\ UNCHANGED <<m_initialized, target, hand, mapVars, peer, answer, worker, job, told, owed>>

CloseAllPull ==
    /\ CallerGoes("join", IF Live = {} THEN "over" ELSE "close")
    /\ worker = "stopped"
    /\ hand' = Live
    /\ m_pull_sessions' = [u \in Users |-> None]
    /\ UNCHANGED <<m_initialized, target, resource_url, user_of, peer, answer, workerVars, owed>>

\* Mutant: closing keeps the connection's callbacks.
Mutant_CloseHeld(s) ==
    /\ CallerGoes("close", "delete")
    /\ s \in hand
    /\ hand' = hand \ {s}
    /\ target' = s
    /\ UNCHANGED <<m_initialized, mapVars, peer, answer, workerVars, owed>>

\* A session off the map is closed first, which ends its callbacks; then its
\* resource, if the map knew it, is deleted.
CloseHeld(s) ==
    /\ CallerGoes("close", "delete")
    /\ s \in hand
    /\ hand' = hand \ {s}
    /\ target' = s
    /\ peer' = [peer EXCEPT ![s] = "closed"]
    /\ UNCHANGED <<m_initialized, mapVars, answer, workerVars, owed>>

DeleteHeld ==
    /\ CallerGoes("delete", IF hand # {} THEN "close"
                            ELSE IF m_initialized THEN "idle" ELSE "over")
    /\ owed' = IF target \in resource_url THEN owed \ {target} ELSE owed
    /\ target' = None
    /\ UNCHANGED <<m_initialized, hand, mapVars, peer, answer, workerVars>>

CallerContinues ==
    \/ SubscribeAudioVideo
    \/ SubscribeFails
    \/ StopSignalingWorker
    \/ CloseAllPull
    \/ \E s \in Sessions : CloseHeld(s)
    \/ DeleteHeld

Caller ==
    \/ \E u \in Users, s \in Sessions : SubscribeUserAV(u, s)
    \/ \E u \in Users : UnsubscribeUserAV(u)
    \/ Uninit
    \/ CallerContinues

-----------------------------------------------------------------------------
(* libdatachannel: gathering is complete and the callback runs.  It posts   *)
(* the offer for the session its user has now.                              *)

Reports(s) ==
    /\ peer[s] = "open"
    /\ UNCHANGED <<callerVars, mapVars, answer, m_signaling_running, worker, job, told, owed>>

\* Nothing comes of the report: the session stays as it is, without an offer.
StaysSilent(s) ==
    /\ peer' = [peer EXCEPT ![s] = "silent"]
    /\ UNCHANGED m_signaling_tasks

\* There is no local description, or taking it throws.
HandleGatheringState(s) == Reports(s) /\ StaysSilent(s)

\* Mutant: a task is posted even when the user has no session any more.
Mutant_HandlePullLocalDescription(s) ==
    /\ Reports(s)
    /\ peer' = [peer EXCEPT ![s] = "offered"]
    /\ m_signaling_tasks' =
          IF m_initialized /\ m_signaling_running
          THEN Append(m_signaling_tasks,
                      [offer |-> s, session |-> m_pull_sessions[user_of[s]]])
          ELSE m_signaling_tasks

\* Making the SDP of the description may throw or give nothing.
HandlePullLocalDescription(s) ==
    LET session == m_pull_sessions[user_of[s]]
        posted  == m_initialized /\ session # None /\ m_signaling_running
    IN
    /\ Reports(s)
    /\ \/ /\ peer' = [peer EXCEPT ![s] = "offered"]
          /\ m_signaling_tasks' =
                IF posted
                THEN Append(m_signaling_tasks, [offer |-> s, session |-> session])
                ELSE m_signaling_tasks
       \/ m_initialized /\ StaysSilent(s)

-----------------------------------------------------------------------------
(* The signaling thread.                                                    *)

\* The session the task was posted for is still the one of its user.
JobCurrent == m_pull_sessions[user_of[job.offer]] = job.session

TaskDone == job' = NoJob /\ told' = FALSE

TakeTask ==
    /\ WorkerGoes("wait", "check")
    /\ m_signaling_running
    /\ m_signaling_tasks # <<>>
    /\ job' = Head(m_signaling_tasks)
    /\ m_signaling_tasks' = Tail(m_signaling_tasks)
    /\ UNCHANGED <<callerVars, mapVars, peer, answer, m_signaling_running, told, owed>>

LeaveLoop ==
    /\ WorkerGoes("wait", "stopped")
    /\ ~m_signaling_running
    /\ UNCHANGED <<callerVars, mapVars, peer, answer, m_signaling_running,
                   m_signaling_tasks, job, told, owed>>

\* Nothing is sent for a session closed since its task was posted.
CheckTask ==
    /\ \/ WorkerGoes("check", "post") /\ JobCurrent /\ UNCHANGED <<job, told>>
       \/ WorkerGoes("check", "wait") /\ ~JobCurrent /\ TaskDone
    /\ UNCHANGED <<callerVars, mapVars, peer, answer, m_signaling_running,
                   m_signaling_tasks, owed>>

\* The POST returns: no usable response, or an answer with or without the
\* Location of the resource.
PostOffer ==
    /\ \/ WorkerGoes("post", "failed") /\ UNCHANGED <<told, owed>>
       \/ /\ WorkerGoes("post", "recheck")
          /\ told' \in BOOLEAN
          /\ owed' = IF told' THEN owed \cup {job.offer} ELSE owed
    /\ UNCHANGED <<callerVars, mapVars, peer, answer, m_signaling_running,
                   m_signaling_tasks, job>>

RecheckSession ==
    /\ WorkerGoes("recheck", IF JobCurrent THEN "answer" ELSE "delete")
    /\ UNCHANGED <<callerVars, mapVars, peer, answer, m_signaling_running,
                   m_signaling_tasks, job, told, owed>>

\* Mutant: the result of SetRemoteDescription is ignored.
Mutant_SetRemoteDescription ==
    /\ WorkerGoes("answer", "store")
    /\ \/ /\ peer[job.session] # "closed"
          /\ answer' = [answer EXCEPT ![job.session] = job.offer]
       \/ UNCHANGED answer
    /\ UNCHANGED <<callerVars, mapVars, peer, m_signaling_running,
                   m_signaling_tasks, job, told, owed>>

\* A closed connection takes no answer, an open one may refuse it.
SetRemoteDescription ==
    /\ \/ /\ WorkerGoes("answer", "store")
          /\ peer[job.session] # "closed"
          /\ answer' = [answer EXCEPT ![job.session] = job.offer]
       \/ WorkerGoes("answer", "refused") /\ UNCHANGED answer
    /\ UNCHANGED <<callerVars, mapVars, peer, m_signaling_running,
                   m_signaling_tasks, job, told, owed>>

DeleteRefused ==
    /\ WorkerGoes("refused", "failed")
    /\ owed' = IF told THEN owed \ {job.offer} ELSE owed
    /\ UNCHANGED <<callerVars, mapVars, peer, answer, m_signaling_running,
                   m_signaling_tasks, job, told>>

\* Mutant: a session that got no answer is closed but stays in the map.
Mutant_EraseFailed ==
    /\ WorkerGoes("failed", "close")
    /\ UNCHANGED <<callerVars, mapVars, peer, answer, m_signaling_running,
                   m_signaling_tasks, job, told, owed>>

\* The session is given up, unless its user has another by now.
EraseFailed ==
    /\ WorkerGoes("failed", "close")
    /\ m_pull_sessions' =
          IF JobCurrent THEN [m_pull_sessions EXCEPT ![user_of[job.offer]] = None]
          ELSE m_pull_sessions
    /\ UNCHANGED <<callerVars, resource_url, user_of, peer, answer, m_signaling_running,
                   m_signaling_tasks, job, told, owed>>

CloseFailed ==
    /\ WorkerGoes("close", "wait")
    /\ peer' = [peer EXCEPT ![job.session] = "closed"]
    /\ TaskDone
    /\ UNCHANGED <<callerVars, mapVars, answer, m_signaling_running,
                   m_signaling_tasks, owed>>

\* Mutant: the URL is stored without looking whether the session is still
\* the one of the map.
Mutant_StoreResource ==
    /\ WorkerGoes("store", "wait")
    /\ resource_url' = IF told THEN resource_url \cup {job.session} ELSE resource_url
    /\ TaskDone
    /\ UNCHANGED <<callerVars, m_pull_sessions, user_of, peer, answer, m_signaling_running,
                   m_signaling_tasks, owed>>

\* Whoever closes the session from now on deletes the resource.
StoreResource ==
    /\ \/ /\ WorkerGoes("store", "wait")
          /\ JobCurrent
          /\ resource_url' = IF told THEN resource_url \cup {job.session} ELSE resource_url
          /\ TaskDone
       \/ /\ WorkerGoes("store", "delete")
          /\ ~JobCurrent
          /\ UNCHANGED <<resource_url, job, told>>
    /\ UNCHANGED <<callerVars, m_pull_sessions, user_of, peer, answer, m_signaling_running,
                   m_signaling_tasks, owed>>

DeleteUnclaimed ==
    /\ WorkerGoes("delete", "wait")
    /\ owed' = IF told THEN owed \ {job.offer} ELSE owed
    /\ TaskDone
    /\ UNCHANGED <<callerVars, mapVars, peer, answer, m_signaling_running,
                   m_signaling_tasks>>

SignalingWorker ==
    \/ TakeTask
    \/ LeaveLoop
    \/ CheckTask
    \/ PostOffer
    \/ RecheckSession
    \/ SetRemoteDescription
    \/ DeleteRefused
    \/ EraseFailed
    \/ CloseFailed
    \/ StoreResource
    \/ DeleteUnclaimed

-----------------------------------------------------------------------------

Next ==
    \/ Caller
    \/ \E s \in Sessions : HandleGatheringState(s) \/ HandlePullLocalDescription(s)
    \/ SignalingWorker

Spec == Init /\ [][Next]_vars

\* Threads run on; gathering always completes (libdatachannel gives up on a
\* silent STUN server); HTTP requests end at their timeout.  Nobody has to
\* subscribe, unsubscribe or shut down.
Fairness ==
    /\ WF_vars(CallerContinues)
    /\ WF_vars(SignalingWorker)
    /\ \A s \in Sessions : WF_vars(HandleGatheringState(s) \/ HandlePullLocalDescription(s))

FairSpec == Spec /\ Fairness

-----------------------------------------------------------------------------
(* Properties.                                                              *)

\* Every variable has the kind of value its C++ counterpart has.
TypeOK ==
    /\ m_initialized \in BOOLEAN
    /\ m_pull_sessions \in [Users -> Sessions \cup {None}]
    /\ resource_url \subseteq Sessions
    /\ user_of \in [Sessions -> Users \cup {None}]
    /\ peer \in [Sessions -> {"unused", "created", "open", "silent", "offered", "closed"}]
    /\ answer \in [Sessions -> Sessions \cup {None}]
    /\ m_signaling_running \in BOOLEAN
    /\ m_signaling_tasks \in Seq(Tasks)
    /\ worker \in WorkerStages
    /\ job \in Tasks \cup {NoJob}
    /\ told \in BOOLEAN
    /\ owed \subseteq Sessions
    /\ caller \in CallerStages
    /\ target \in Sessions \cup {None}
    /\ hand \subseteq Sessions

AtRest == caller \in {"idle", "over"} /\ worker \in {"wait", "stopped"}

\* Whatever order sessions are opened, closed, answered and refused in, when
\* nobody is at work every connection still open belongs to a session of the
\* map, and every resource the media server has named is either that of such
\* a session, which will delete it, or has been deleted.
NothingLeft ==
    AtRest =>
        /\ \A s \in Sessions : peer[s] \in {"unused", "closed"} \/ s \in Live
        /\ owed = Live \cap resource_url

\* A session never gets the answer to another session's offer, although the
\* callback and the task find their session by the user's name.
OwnAnswer == \A s \in Sessions : answer[s] \in {None, s}

\* A session of the map that has its URL is connected: its connection is not
\* closed, it has its answer, and nobody has deleted its resource.
LiveSessionServed ==
    \A s \in Live \cap resource_url :
        peer[s] = "offered" /\ answer[s] = s /\ s \in owed

\* Every session of the map that is able to make its offer gets its answer or
\* leaves the map, whatever becomes of the request and of the answer.  One that is
\* silent stays in the map until it is unsubscribed: the code has no other end for it.
EverySubscriptionSettles ==
    \A s \in Sessions :
        s \in Live ~> (answer[s] # None \/ s \notin Live \/ peer[s] = "silent")

=============================================================================
