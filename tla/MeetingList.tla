----------------------------- MODULE MeetingList ------------------------------
(* GetMeetingList: the meetings of the store, the latest first, one page at  *)
(* a time.  Nothing is changed; a client that reads page after page sees     *)
(* each page of the list as it is at the moment of the request.              *)
EXTENDS Integers, FiniteSets, Sequences, Functions

CONSTANTS
    ListedIds,         \* meeting ids
    LaterId(_, _),     \* operator> of the strings
    MaxPageSize        \* 100

ListAssumption ==
    /\ MaxPageSize \in Nat \ {0}
    /\ \A a, b \in ListedIds : LaterId(a, b) \in BOOLEAN
    /\ \A a \in ListedIds : ~LaterId(a, a)
    /\ \A a, b \in ListedIds : a # b => LaterId(a, b) \/ LaterId(b, a)
    /\ \A a, b, c \in ListedIds : LaterId(a, b) /\ LaterId(b, c) => LaterId(a, c)
ASSUME ListAssumption

\* What the list needs of MeetingRecord.
ListedRecords == [start_time : Nat, end_time : Nat, active : BOOLEAN]

\* What m_meetings may hold.
Lists(meetings) ==
    /\ IsFiniteSet(DOMAIN meetings) /\ DOMAIN meetings \subseteq ListedIds
    /\ meetings \in [DOMAIN meetings -> ListedRecords]

-----------------------------------------------------------------------------
(* The store.                                                               *)

\* The comparison std::sort is called with.
Before(meetings, left, right) ==
    IF meetings[left].start_time # meetings[right].start_time
    THEN meetings[left].start_time > meetings[right].start_time
    ELSE LaterId(left, right)

Ahead(meetings, id) == {o \in DOMAIN meetings : Before(meetings, o, id)}

\* The index a meeting is sorted to.
Index(meetings, id) == Cardinality(Ahead(meetings, id))

TotalCount(meetings) == Cardinality(DOMAIN meetings)

OrderedMeetings(meetings) ==
    [i \in 1 .. TotalCount(meetings) |->
        CHOOSE id \in DOMAIN meetings : Index(meetings, id) = i - 1]

TotalPages(meetings, size) ==
    IF TotalCount(meetings) > 0 THEN (TotalCount(meetings) + size - 1) \div size ELSE 1

FirstIndex(size, number) == (number - 1) * size

LastIndex(meetings, size, number) ==
    LET full == FirstIndex(size, number) + size
    IN  IF full <= TotalCount(meetings) THEN full ELSE TotalCount(meetings)

\* The meetings of a page; behind the last page there are none.
Page(meetings, size, number) ==
    IF FirstIndex(size, number) >= TotalCount(meetings)
    THEN << >>
    ELSE [i \in 1 .. LastIndex(meetings, size, number) - FirstIndex(size, number) |->
             OrderedMeetings(meetings)[FirstIndex(size, number) + i]]

ListError(logged_in, size, number) ==
    IF size <= 0 \/ size > MaxPageSize \/ number <= 0 THEN "kInvalidArgument"
    ELSE IF ~logged_in THEN "kNotLoggedIn"
    ELSE "kSuccess"

-----------------------------------------------------------------------------
(* The service, and the client that asks it.                                *)

\* A meeting that starts in the future has lasted no time yet.
Duration(meeting, now) ==
    LET finish_time == IF meeting.active THEN now ELSE meeting.end_time
    IN  IF finish_time > meeting.start_time THEN finish_time - meeting.start_time ELSE 0

MeetingInfo(meetings, id, now) ==
    [meeting_id |-> id, start_time |-> meetings[id].start_time,
     duration |-> Duration(meetings[id], now), is_active |-> meetings[id].active]

NoList == [meetings |-> << >>, total_count |-> 0, total_pages |-> 1]

\* A rejected request leaves the counters of the answer out.
ListResponse(meetings, logged_in, size, number, now) ==
    LET error == ListError(logged_in, size, number)
        page  == Page(meetings, size, number)
    IN  [error |-> error,
         list  |-> IF error # "kSuccess" THEN NoList
                   ELSE [meetings    |-> [i \in DOMAIN page |->
                                             MeetingInfo(meetings, page[i], now)],
                         total_count |-> TotalCount(meetings),
                         total_pages |-> TotalPages(meetings, size)]]

\* GetMeetingList of the client: the result and the list that is handed out.
\* call says how far it comes: "no_stub", "no_ip" (the configured address is no
\* IPv4 address), "failed" (or its deadline has passed) or "answered".
GetMeetingList(size, number, call, response) ==
    LET Fails(result) == [result |-> result, list |-> NoList]
    IN  IF size <= 0 \/ number <= 0 THEN Fails("kRet_InvalidParam")
        ELSE IF call \in {"no_stub", "failed"} THEN Fails("kRet_Invalid_Status")
        ELSE IF call = "no_ip" THEN Fails("kRet_NoClientIp")
        ELSE IF response.error # "kSuccess" THEN Fails("kRet_Error_Response")
        ELSE [result |-> "kRet_SUCCESS", list |-> response.list]

\* What happens to the list between two requests: meetings are created, with a
\* start time of their own, and end; none is removed and none is moved.
Grows(before, after) ==
    /\ DOMAIN before \subseteq DOMAIN after
    /\ \A id \in DOMAIN before : after[id].start_time = before[id].start_time

=============================================================================
