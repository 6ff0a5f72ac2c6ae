---------------------------- MODULE MeetingRoster ----------------------------
(***************************************************************************)
(* What the meeting server promises about membership, without requests,    *)
(* records or event streams: a user is at one meeting at most, a meeting   *)
(* is open exactly while somebody is at it, and a meeting that is over     *)
(* stays over.  MeetingStore implements this specification.                *)
(***************************************************************************)
EXTENDS Naturals

CONSTANTS Users, MaxMeetings

VARIABLES at,      \* the meeting each user is at, Nowhere for none
          status   \* "unused", "open" or "over" for every meeting number

rosterVars == <<at, status>>

Nowhere  == 0
Meetings == 1..MaxMeetings

Init ==
    /\ at = [u \in Users |-> Nowhere]
    /\ status = [m \in Meetings |-> "unused"]

Open(u, m) ==
    /\ at[u] = Nowhere
    /\ status[m] = "unused"
    /\ at' = [at EXCEPT ![u] = m]
    /\ status' = [status EXCEPT ![m] = "open"]

Enter(u, m) ==
    /\ at[u] = Nowhere
    /\ status[m] = "open"
    /\ at' = [at EXCEPT ![u] = m]
    /\ UNCHANGED status

\* The last user to depart closes the meeting behind him.
Depart(u) ==
    /\ at[u] # Nowhere
    /\ at' = [at EXCEPT ![u] = Nowhere]
    /\ status' = IF \E v \in Users \ {u} : at[v] = at[u]
                 THEN status
                 ELSE [status EXCEPT ![at[u]] = "over"]

Dissolve(m) ==
    /\ status[m] = "open"
    /\ at' = [u \in Users |-> IF at[u] = m THEN Nowhere ELSE at[u]]
    /\ status' = [status EXCEPT ![m] = "over"]

Next ==
    \/ \E u \in Users, m \in Meetings : Open(u, m) \/ Enter(u, m)
    \/ \E u \in Users : Depart(u)
    \/ \E m \in Meetings : Dissolve(m)

Spec == Init /\ [][Next]_rosterVars

=============================================================================
