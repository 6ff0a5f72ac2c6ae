--------------------------- MODULE MCMeetingStore ---------------------------
(* Instances of MeetingStore and MeetingList for TLC.                       *)
EXTENDS MeetingStore, MeetingList

\* Users and streams are interchangeable (not used with a liveness property).
Symmetry == Permutations(Users) \cup Permutations(Subs)

-----------------------------------------------------------------------------
(* The meeting list: ids are numbers written with at least one digit, so     *)
(* that the strings stop being in the order of the numbers at 10.            *)

SomeIds == {8, 9, 10, 11}

Digits(n) == IF n < 10 THEN <<n>> ELSE <<n \div 10, n % 10>>

LaterString(a, b) ==
    LET x == Digits(a)
        y == Digits(b)
    IN  \/ \E i \in DOMAIN x \cap DOMAIN y :
              x[i] > y[i] /\ \A j \in 1 .. i - 1 : x[j] = y[j]
        \/ Len(x) > Len(y) /\ \A j \in DOMAIN y : x[j] = y[j]

SomeLists ==
    UNION {[ids -> [start_time : {1, 2}, end_time : {3}, active : {TRUE}]] :
              ids \in SUBSET SomeIds}

\* The pages one after the other.
RECURSIVE PagesTo(_, _, _)
PagesTo(meetings, size, number) ==
    IF number = 0 THEN << >>
    ELSE PagesTo(meetings, size, number - 1) \o Page(meetings, size, number)

\* The list is what std::sort makes of the meetings, and its pages, put
\* together, are the list.
ASSUME PagesMakeTheList ==
    \A meetings \in SomeLists :
        LET ordered == SetToSortSeq(DOMAIN meetings,
                                    LAMBDA a, b : Before(meetings, a, b))
        IN  /\ OrderedMeetings(meetings) = ordered
            /\ \A size \in 1 .. MaxPageSize :
                  PagesTo(meetings, size, TotalPages(meetings, size)) = ordered

\* A page of an older list is never behind that of a newer one that shows the
\* same meeting: a reader who goes from page to page skips none.
ASSUME NewMeetingsPushBack ==
    \A new \in SomeLists : \A ids \in SUBSET DOMAIN new : \A size \in 1 .. MaxPageSize :
        LET old == [id \in ids |-> new[id]]
        IN  \A id \in ids : \A n, o \in 1 .. TotalPages(new, size) :
               /\ id \in Range(Page(old, size, o))
               /\ id \in Range(Page(new, size, n))
               => o <= n

=============================================================================
