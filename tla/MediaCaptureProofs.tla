-------------------------- MODULE MediaCaptureProofs ---------------------------
(* Proofs about the camera and the microphone, for any devices and any       *)
(* number of meetings: sources, callbacks, devices and managers first, then  *)
(* what the page shows of them and the meeting a frame is sent in.           *)
EXTENDS MediaCapture, SequenceTheorems, TLAPS

-----------------------------------------------------------------------------
(* What a thread may have to do.                                            *)

\* Work that can be done, or turns out to be done already, in any state.
PlainWork ==
    ({"open", "publish", "register", "flag", "show", "release", "unpublish", "unflag",
      "close", "hide", "list"} \X Kinds)
    \cup {Do("cleanup", "meeting"), Do("snapshot", "meeting"), Do("tell", "page"),
          Do("join", "thread")}
    \cup ({"leave", "exit"} \X {"page", "quit"})

\* Work that is done with the mutex held, and that ends the life of the engine.
LockedWork == {"create", "unregister"} \X Kinds
Uninits == {Do("uninit", "engine")}
Forgets == {Do("forget", "managers")}

\* Only the first piece of work may hold the mutex, and what ends comes last.
Ordinary(list, end) ==
    /\ list \in Seq(PlainWork \cup LockedWork \cup end)
    /\ \A i \in DOMAIN list : /\ i > 1 => list[i] \notin LockedWork
                              /\ i < Len(list) => list[i] \notin end
    /\ end # {} => list # << >> /\ list[Len(list)] \in end

Without(list, works) == \A i \in DOMAIN list : list[i] \notin works
Lists  == {"list"} \X Kinds
Leaves == {Do("leave", "page")}

\* The client starts.
Observing == <<Do("observe", "engine")>>
Wiring    == <<Do("wire", "engine"), Do("observe", "engine")>>
Starting1 == <<Do("start", "capture"), Do("wire", "engine"), Do("observe", "engine")>>
Starting2 == <<Do("start", "transport"), Do("start", "capture"), Do("wire", "engine"),
               Do("observe", "engine")>>
Starting3 == <<Do("start", "render"), Do("start", "transport"), Do("start", "capture"),
               Do("wire", "engine"), Do("observe", "engine")>>
Starting4 == <<Do("start", "service"), Do("start", "render"), Do("start", "transport"),
               Do("start", "capture"), Do("wire", "engine"), Do("observe", "engine")>>
Starting(list, managers) ==
    \/ managers = {"service", "render", "transport"} /\ list = Starting1
    \/ managers = {"service", "render"} /\ list = Starting2
    \/ managers = {"service"} /\ list = Starting3
    \/ managers = {} /\ list = Starting4

\* A meeting is entered: what is done by then.
Selecting == <<Do("select", "camera"), Do("select", "mic"), Do("request", "meeting")>>
Selecting2 == <<Do("select", "mic"), Do("request", "meeting")>>
Selected(k) == m_selected[k] = choice[k]
Entering(list) ==
    /\ ~page /\ user
    /\ \/ list = Selecting /\ joined < MaxMeetings
       \/ list = Selecting2 /\ joined < MaxMeetings /\ Selected("camera")
       \/ /\ \A k \in Kinds : Selected(k)
          /\ \/ list = <<Do("request", "meeting")>> /\ joined < MaxMeetings
             \/ /\ list = <<Do("room", "meeting"), Do("accept", "meeting"),
                            Do("enter", "meeting")>>
                /\ joined < MaxMeetings
             \/ list = <<Do("accept", "meeting"), Do("enter", "meeting")>>
             \/ list = <<Do("enter", "meeting")>>

\* The client ends: the managers are stopped one after the other.
Stops3 == <<Do("stop", "transport"), Do("stop", "render"), Do("stop", "service")>>
Stops2 == <<Do("stop", "render"), Do("stop", "service")>>
Stops1 == <<Do("stop", "service")>>
Emptying == <<Do("stop", "capture"), Do("stop", "transport"), Do("stop", "render"),
              Do("stop", "service")>>
Detaching1 == <<Do("detach", "mic"), Do("stop", "capture"), Do("stop", "transport"),
                Do("stop", "render"), Do("stop", "service")>>
Detaching2 == <<Do("detach", "camera"), Do("detach", "mic"), Do("stop", "capture"),
                Do("stop", "transport"), Do("stop", "render"), Do("stop", "service")>>
Disconnecting ==
    <<Do("disconnect", "capture"), Do("detach", "camera"), Do("detach", "mic"),
      Do("stop", "capture"), Do("stop", "transport"), Do("stop", "render"),
      Do("stop", "service")>>

Detached == todo["ui"] \in {Detaching2, Detaching1, Emptying}

-----------------------------------------------------------------------------
(* The invariant.                                                           *)

\* Where the life of the client stands.
IsStarting ==
    /\ ~m_submodel_initialized /\ obs # "ready" /\ Starting(todo["ui"], up)
    /\ todo["event"] = << >> /\ registered = {} /\ m_source_id = {}
IsWiring ==
    /\ ~m_submodel_initialized /\ obs = "ready" /\ up = Managers /\ todo["ui"] = Wiring
IsRunning ==
    /\ m_submodel_initialized /\ obs = "ready" /\ up = Managers
    /\ \/ Ordinary(todo["ui"], {}) \/ Ordinary(todo["ui"], Uninits)
       \/ Entering(todo["ui"]) \/ todo["ui"] = Observing
IsClosing ==
    /\ ~m_submodel_initialized /\ obs = "ready" /\ up = Managers
    /\ \/ Ordinary(todo["ui"], Forgets) /\ Without(todo["ui"], Leaves)
       \/ todo["ui"] = Disconnecting \/ Detached
IsEnding ==
    /\ ~m_submodel_initialized /\ obs # "ready"
    /\ \/ todo["ui"] = Stops3 /\ up = {"service", "render", "transport"}
       \/ todo["ui"] = Stops2 /\ up = {"service", "render"}
       \/ todo["ui"] = Stops1 /\ up = {"service"}
       \/ Ordinary(todo["ui"], {}) /\ up = {}

LifeInv ==
    /\ IsStarting \/ IsWiring \/ IsRunning \/ IsClosing \/ IsEnding
    /\ Ordinary(todo["event"], {})

\* Who holds the mutex.
HoldInv ==
    /\ \A t \in Threads : \A k \in Kinds :
          Has(t, "create", k) \/ Has(t, "unregister", k) => m_state_mutex = t
    /\ Detached => m_state_mutex = "ui"
    /\ \A t \in Threads : m_state_mutex = t =>
          \/ \E k \in Kinds : Has(t, "create", k) \/ Has(t, "unregister", k)
          \/ t = "ui" /\ Detached

\* Sources and callbacks, also while the mutex is held.
Called(k) == (k \in registered) = (k \in m_source_id)
CallbackInv ==
    /\ m_state_mutex = Nobody => \A k \in Kinds : Called(k)
    /\ \A t \in Threads : \A k \in Kinds :
          /\ Has(t, "create", k) \/ Has(t, "unregister", k) =>
                \A j \in Kinds \ {k} : Called(j)
          /\ Has(t, "create", k) => k \notin m_source_id /\ (obs = "ready" => k \in registered)
    /\ todo["ui"] = Detaching1 => "camera" \notin registered
    /\ todo["ui"] = Emptying => registered = {}

SourceInv ==
    /\ obs # "ready" => m_source_id = {}
    /\ \A k \in Kinds : m_sources[k] = IF k \in m_source_id THEN 1 ELSE 0
    /\ \A k \in m_source_id : device[k] = m_selected[k]

\* In a meeting the devices are those of the lobby, which is not listed again.
PageInv == page => user /\ Without(todo["ui"], Lists) /\ \A k \in Kinds : Selected(k)

TypeInv ==
    /\ MediaTypeOK
    /\ todo = [t \in Threads |-> todo[t]]
    /\ {device, m_selected, choice} \subseteq [Kinds -> Cameras \cup Mics \cup {NoDevice}]

CaptureIInv == TypeInv /\ LifeInv /\ HoldInv /\ CallbackInv /\ SourceInv /\ PageInv

-----------------------------------------------------------------------------
(* Lists of work.                                                           *)

\* The thread is at something that is done with the mutex held.
LockedHead(list) == list # << >> /\ Head(list) \in LockedWork

\* No work is of two of these sorts.
LEMMA SortsOfWork ==
    /\ PlainWork \cap LockedWork = {}
    /\ (PlainWork \cup LockedWork) \cap (Uninits \cup Forgets) = {}
    /\ Uninits \cap Forgets = {}
BY SMT DEF PlainWork, LockedWork, Uninits, Forgets, Kinds, Do

LEMMA EmptyIsOrdinary == Ordinary(<< >>, {}) /\ \A works : Without(<< >>, works)
BY DEF Ordinary, Without

\* A list that is put before the rest of another one.
LEMMA LinesUp ==
    ASSUME NEW S, NEW more \in Seq(S), NEW list \in Seq(S), list # << >>
    PROVE  /\ more \o Tail(list) \in Seq(S)
           /\ Len(more \o Tail(list)) = Len(more) + Len(list) - 1
           /\ \A i \in 1..Len(more) : (more \o Tail(list))[i] = more[i]
           /\ \A i \in (Len(more) + 1)..(Len(more) + Len(list) - 1) :
                 (more \o Tail(list))[i] = list[i - Len(more) + 1]
<1> DEFINE rest == Tail(list)
<1>1. /\ rest \in Seq(S) /\ Len(rest) = Len(list) - 1
      /\ \A i \in 1..Len(rest) : rest[i] = list[i + 1]
  BY HeadTailProperties
<1> HIDE DEF rest
<1>2. /\ more \o rest \in Seq(S) /\ Len(more \o rest) = Len(more) + Len(rest)
      /\ \A i \in 1..(Len(more) + Len(rest)) :
            (more \o rest)[i] = IF i <= Len(more) THEN more[i] ELSE rest[i - Len(more)]
  BY <1>1, ConcatProperties
<1>3. Len(more) \in Nat /\ Len(list) \in Nat /\ Len(list) > 0
  BY EmptySeq, LenProperties
<1>4. \A i \in 1..Len(more) : (more \o rest)[i] = more[i]
  BY <1>1, <1>2, <1>3
<1>5. ASSUME NEW i \in (Len(more) + 1)..(Len(more) + Len(list) - 1)
      PROVE  (more \o rest)[i] = list[i - Len(more) + 1]
  <2>1. i \in 1..(Len(more) + Len(rest)) /\ ~(i <= Len(more)) /\ i - Len(more) \in 1..Len(rest)
    BY <1>1, <1>3
  <2>2. (more \o rest)[i] = rest[i - Len(more)]
    BY <2>1, <1>2
  <2>3. rest[i - Len(more)] = list[(i - Len(more)) + 1]
    BY <2>1, <1>1
  <2> QED
    BY <2>2, <2>3
<1> QED
  BY <1>1, <1>2, <1>3, <1>4, <1>5 DEF rest

Ends == {{}, Uninits, Forgets}

\* The first piece of an ordinary list may be replaced by others.
LEMMA Continues ==
    ASSUME NEW end \in Ends, NEW list, Ordinary(list, end), list # << >>, Head(list) \notin end,
           NEW more, Ordinary(more, {})
    PROVE  Ordinary(more \o Tail(list), end)
<1> DEFINE S == PlainWork \cup LockedWork \cup end
           new == more \o Tail(list)
<1>1. list \in Seq(S) /\ more \in Seq(S) /\ end \cap (PlainWork \cup LockedWork) = {}
  <2>1. more \in Seq(PlainWork \cup LockedWork)
    BY DEF Ordinary
  <2>2. more \in Seq(S)
    BY <2>1, SeqMonotonic, PlainWork \cup LockedWork \subseteq S, Zenon
  <2> QED
    BY <2>2, SortsOfWork DEF Ordinary, Ends
<1>2. /\ Len(more) \in Nat /\ DOMAIN more = 1..Len(more)
      /\ Len(list) \in Nat /\ DOMAIN list = 1..Len(list) /\ Len(list) > 0 /\ Head(list) = list[1]
  BY <1>1, EmptySeq, LenProperties
<1>3. /\ new \in Seq(S) /\ Len(new) = Len(more) + Len(list) - 1
      /\ \A i \in 1..Len(more) : new[i] = more[i]
      /\ \A i \in (Len(more) + 1)..(Len(more) + Len(list) - 1) :
            new[i] = list[i - Len(more) + 1]
  BY <1>1, LinesUp
<1>4. DOMAIN new = 1..Len(new)
  BY <1>3, LenProperties
<1>5. \A i \in 1..Len(more) : more[i] \in PlainWork \cup LockedWork
                              /\ (i > 1 => more[i] \notin LockedWork)
  BY <1>2, ElementOfSeq DEF Ordinary
<1>6. \A i \in 1..Len(list) : /\ i > 1 => list[i] \notin LockedWork
                              /\ i < Len(list) => list[i] \notin end
  BY <1>2 DEF Ordinary
<1> HIDE DEF new
<1>7. ASSUME NEW i \in 1..Len(new)
      PROVE  (i > 1 => new[i] \notin LockedWork) /\ (i < Len(new) => new[i] \notin end)
  <2>1. ASSUME i <= Len(more)
        PROVE  (i > 1 => new[i] \notin LockedWork) /\ (i < Len(new) => new[i] \notin end)
    <3>1. i \in 1..Len(more)
      BY <2>1, <1>2, <1>3
    <3> QED
      BY <3>1, <1>1, <1>3, <1>5
  <2>2. ASSUME i > Len(more)
        PROVE  (i > 1 => new[i] \notin LockedWork) /\ (i < Len(new) => new[i] \notin end)
    <3>1. /\ i \in (Len(more) + 1)..(Len(more) + Len(list) - 1)
          /\ i - Len(more) + 1 \in 1..Len(list) /\ i - Len(more) + 1 > 1
          /\ i < Len(new) => i - Len(more) + 1 < Len(list)
      BY <2>2, <1>2, <1>3
    <3> QED
      BY <3>1, <1>3, <1>6
  <2> QED
    BY <2>1, <2>2, <1>2, <1>3
<1>8. ASSUME end # {} PROVE new # << >> /\ new[Len(new)] \in end
  <2>1. list[Len(list)] \in end /\ Len(list) # 1
    BY <1>8, <1>2 DEF Ordinary
  <2>2. Len(new) \in (Len(more) + 1)..(Len(more) + Len(list) - 1)
        /\ Len(new) - Len(more) + 1 = Len(list) /\ Len(new) > 0
    BY <2>1, <1>2, <1>3
  <2>3. new # << >>
    BY <2>2, EmptySeq
  <2> QED
    BY <2>1, <2>2, <2>3, <1>3
<1> QED
  <2>1. Ordinary(new, end)
    BY <1>3, <1>4, <1>7, <1>8 DEF Ordinary
  <2> QED
    BY <2>1 DEF new

\* What is last is done when nothing is left.
LEMMA LastOne ==
    ASSUME NEW end \in Ends, NEW list, Ordinary(list, end), list # << >>, Head(list) \in end
    PROVE  Tail(list) = << >>
<1>1. list \in Seq(PlainWork \cup LockedWork \cup end)
  BY DEF Ordinary
<1>2. Len(list) \in Nat /\ DOMAIN list = 1..Len(list) /\ Len(list) > 0 /\ Head(list) = list[1]
  BY <1>1, EmptySeq, LenProperties
<1>3. Len(list) = 1
  BY <1>2 DEF Ordinary
<1>4. Len(Tail(list)) = 0 /\ Tail(list) \in Seq(PlainWork \cup LockedWork \cup end)
  BY <1>1, <1>2, <1>3, HeadTailProperties
<1> QED
  BY <1>4, EmptySeq

\* What is nowhere in two lists is nowhere in the list made of them.
LEMMA WithoutBoth ==
    ASSUME NEW S, NEW list \in Seq(S), list # << >>, NEW more \in Seq(S),
           NEW works, Without(list, works), Without(more, works)
    PROVE  Without(more \o Tail(list), works)
<1> DEFINE new == more \o Tail(list)
<1>1. /\ Len(more) \in Nat /\ DOMAIN more = 1..Len(more)
      /\ Len(list) \in Nat /\ DOMAIN list = 1..Len(list) /\ Len(list) > 0
  BY EmptySeq, LenProperties
<1>2. /\ new \in Seq(S) /\ Len(new) = Len(more) + Len(list) - 1
      /\ \A i \in 1..Len(more) : new[i] = more[i]
      /\ \A i \in (Len(more) + 1)..(Len(more) + Len(list) - 1) :
            new[i] = list[i - Len(more) + 1]
  BY LinesUp
<1>3. DOMAIN new = 1..Len(new)
  BY <1>2, LenProperties
<1> HIDE DEF new
<1>4. ASSUME NEW i \in 1..Len(new) PROVE new[i] \notin works
  <2>1. ASSUME i > Len(more) PROVE new[i] \notin works
    <3>1. /\ i \in (Len(more) + 1)..(Len(more) + Len(list) - 1)
          /\ i - Len(more) + 1 \in 1..Len(list)
      BY <2>1, <1>1, <1>2
    <3> QED
      BY <3>1, <1>1, <1>2 DEF Without
  <2>2. ASSUME i <= Len(more) PROVE new[i] \notin works
    <3>1. i \in 1..Len(more)
      BY <2>2, <1>1, <1>2
    <3> QED
      BY <3>1, <1>1, <1>2 DEF Without
  <2> QED
    BY <2>1, <2>2, <1>1, <1>2
<1> QED
  <2>1. Without(new, works)
    BY <1>3, <1>4 DEF Without
  <2> QED
    BY <2>1 DEF new

\* After a step the mutex is needed only if the step put such work first.
LEMMA NextHead ==
    ASSUME NEW end \in Ends, NEW list, Ordinary(list, end), list # << >>,
           NEW more, Ordinary(more, {}), ~LockedHead(more)
    PROVE  ~LockedHead(more \o Tail(list))
<1> DEFINE S == PlainWork \cup LockedWork \cup end
           new == more \o Tail(list)
<1>1. list \in Seq(S) /\ more \in Seq(S)
  <2>1. more \in Seq(PlainWork \cup LockedWork)
    BY DEF Ordinary
  <2> QED
    BY <2>1, SeqMonotonic, PlainWork \cup LockedWork \subseteq S, Zenon DEF Ordinary
<1>2. /\ Len(more) \in Nat /\ (more # << >> => Len(more) > 0 /\ Head(more) = more[1])
      /\ (more = << >> => Len(more) = 0)
      /\ Len(list) \in Nat /\ Len(list) > 0 /\ DOMAIN list = 1..Len(list)
  BY <1>1, EmptySeq, LenProperties
<1>3. /\ new \in Seq(S) /\ Len(new) = Len(more) + Len(list) - 1
      /\ \A i \in 1..Len(more) : new[i] = more[i]
      /\ \A i \in (Len(more) + 1)..(Len(more) + Len(list) - 1) :
            new[i] = list[i - Len(more) + 1]
  BY <1>1, LinesUp
<1> HIDE DEF new
<1>4. ASSUME new # << >> PROVE Head(new) \notin LockedWork
  <2>1. Head(new) = new[1] /\ Len(new) > 0
    BY <1>3, <1>4, EmptySeq, LenProperties
  <2>2. CASE more # << >>
    <3>1. new[1] = more[1]
      BY <2>2, <1>2, <1>3
    <3> QED
      BY <2>1, <2>2, <3>1, <1>2 DEF LockedHead
  <2>3. CASE more = << >>
    <3>1. new[1] = list[2] /\ 2 \in DOMAIN list
      BY <2>1, <2>3, <1>2, <1>3
    <3> QED
      BY <2>1, <3>1 DEF Ordinary
  <2> QED
    BY <2>2, <2>3
<1> QED
  BY <1>4 DEF LockedHead, new

\* What is put before the rest comes first.
LEMMA FirstOfNew ==
    ASSUME NEW S, NEW list \in Seq(S), list # << >>, NEW more \in Seq(S), more # << >>
    PROVE  more \o Tail(list) # << >> /\ Head(more \o Tail(list)) = Head(more)
<1> DEFINE new == more \o Tail(list)
<1>1. /\ Len(more) \in Nat /\ Len(more) > 0 /\ Head(more) = more[1]
      /\ Len(list) \in Nat /\ Len(list) > 0
  BY EmptySeq, LenProperties
<1>2. new \in Seq(S) /\ Len(new) = Len(more) + Len(list) - 1 /\ new[1] = more[1]
  BY <1>1, LinesUp
<1> HIDE DEF new
<1>3. new # << >> /\ Head(new) = new[1]
  BY <1>1, <1>2, EmptySeq, LenProperties
<1> QED
  BY <1>1, <1>2, <1>3 DEF new

-----------------------------------------------------------------------------
(* Where the client is, by what the UI thread is at.                        *)

\* The first piece of work of a list of a known form.
FixedWork == {"start", "wire", "observe", "select", "request", "room", "accept", "enter",
              "disconnect", "detach", "stop"}

LEMMA HeadsOfStart ==
    /\ Head(Starting4) = Do("start", "service") /\ Tail(Starting4) = Starting3 /\ Starting4 # << >>
    /\ Head(Starting3) = Do("start", "render") /\ Tail(Starting3) = Starting2 /\ Starting3 # << >>
    /\ Head(Starting2) = Do("start", "transport") /\ Tail(Starting2) = Starting1
    /\ Starting2 # << >>
    /\ Head(Starting1) = Do("start", "capture") /\ Tail(Starting1) = Wiring /\ Starting1 # << >>
BY DEF Starting1, Starting2, Starting3, Starting4, Wiring

\* Nothing is put before the rest, and none of them lists devices.
LEMMA NothingMore ==
    \A list \in {Starting4, Starting3, Starting2, Starting1, Wiring, Observing, << >>, Selecting2,
                 <<Do("request", "meeting")>>, <<Do("accept", "meeting"), Do("enter", "meeting")>>,
                 <<Do("enter", "meeting")>>, Disconnecting, Detaching2, Detaching1, Emptying,
                 Stops3, Stops2, Stops1} : << >> \o list = list /\ Without(list, Lists)
<1> DEFINE S == {Do("start", "service"), Do("start", "render"), Do("start", "transport"),
                 Do("start", "capture"), Do("wire", "engine"), Do("observe", "engine"),
                 Do("select", "mic"), Do("request", "meeting"), Do("accept", "meeting"),
                 Do("enter", "meeting"), Do("disconnect", "capture"), Do("detach", "camera"),
                 Do("detach", "mic"), Do("stop", "capture"), Do("stop", "transport"),
                 Do("stop", "render"), Do("stop", "service")}
<1>1. ASSUME NEW list \in Seq(S) PROVE << >> \o list = list /\ Without(list, Lists)
  <2>1. S \cap Lists = {}
    BY SMT DEF Lists, Do
  <2> HIDE DEF S
  <2>2. \A i \in DOMAIN list : list[i] \in S
    BY LenProperties, ElementOfSeq
  <2> QED
    BY <2>1, <2>2, ConcatEmptySeq DEF Without
<1>2. /\ Starting4 \in Seq(S) /\ Starting3 \in Seq(S)
      /\ Starting2 \in Seq(S) /\ Starting1 \in Seq(S)
  BY DEF Starting4, Starting3, Starting2, Starting1
<1>3. Wiring \in Seq(S) /\ Observing \in Seq(S) /\ << >> \in Seq(S) /\ Selecting2 \in Seq(S)
  BY DEF Wiring, Observing, Selecting2
<1>4. /\ <<Do("request", "meeting")>> \in Seq(S)
      /\ <<Do("accept", "meeting"), Do("enter", "meeting")>> \in Seq(S)
      /\ <<Do("enter", "meeting")>> \in Seq(S)
  OBVIOUS
<1>5. /\ Disconnecting \in Seq(S)
      /\ Detaching2 \in Seq(S) /\ Detaching1 \in Seq(S) /\ Emptying \in Seq(S)
  BY DEF Disconnecting, Detaching2, Detaching1, Emptying
<1>6. Stops3 \in Seq(S) /\ Stops2 \in Seq(S) /\ Stops1 \in Seq(S)
  BY DEF Stops3, Stops2, Stops1
<1> HIDE DEF S
<1> QED
  BY <1>1, <1>2, <1>3, <1>4, <1>5, <1>6

\* Lists of one piece each, put together.
LEMMA TwoTogether ==
    ASSUME NEW a, NEW b PROVE <<a>> \o <<b>> = <<a, b>>
<1>1. <<a, b>> = Append(<<a>>, b) /\ <<a>> \in Seq({a, b}) /\ b \in {a, b}
  OBVIOUS
<1> QED
  BY <1>1, AppendIsConcat

LEMMA ThreeTogether ==
    ASSUME NEW a, NEW b, NEW c PROVE <<a>> \o <<b>> \o <<c>> = <<a, b, c>>
<1> DEFINE S == {a, b, c}
           two == <<a, b>>
<1>1. <<a>> \o <<b>> = two
  BY TwoTogether
<1>2. <<a, b, c>> = Append(two, c) /\ two \in Seq(S) /\ c \in S
  OBVIOUS
<1> HIDE DEF S, two
<1>3. <<a, b, c>> = two \o <<c>>
  BY <1>2, AppendIsConcat
<1> QED
  BY <1>1, <1>3

LEMMA HeadsOfLists ==
    /\ Head(Wiring) = Do("wire", "engine") /\ Tail(Wiring) = Observing /\ Wiring # << >>
    /\ Head(Observing) = Do("observe", "engine") /\ Tail(Observing) = << >> /\ Observing # << >>
    /\ Head(Selecting) = Do("select", "camera") /\ Tail(Selecting) = Selecting2
    /\ Selecting # << >>
    /\ Head(Selecting2) = Do("select", "mic") /\ Tail(Selecting2) = <<Do("request", "meeting")>>
    /\ Selecting2 # << >>
    /\ Head(Disconnecting) = Do("disconnect", "capture") /\ Tail(Disconnecting) = Detaching2
    /\ Disconnecting # << >>
    /\ Head(Detaching2) = Do("detach", "camera") /\ Tail(Detaching2) = Detaching1
    /\ Detaching2 # << >>
    /\ Head(Detaching1) = Do("detach", "mic") /\ Tail(Detaching1) = Emptying
    /\ Detaching1 # << >>
    /\ Head(Emptying) = Do("stop", "capture") /\ Tail(Emptying) = Stops3 /\ Emptying # << >>
    /\ Head(Stops3) = Do("stop", "transport") /\ Tail(Stops3) = Stops2 /\ Stops3 # << >>
    /\ Head(Stops2) = Do("stop", "render") /\ Tail(Stops2) = Stops1 /\ Stops2 # << >>
    /\ Head(Stops1) = Do("stop", "service") /\ Tail(Stops1) = << >> /\ Stops1 # << >>
BY DEF Wiring, Observing, Selecting, Selecting2, Disconnecting, Detaching2, Detaching1, Emptying,
       Stops3, Stops2, Stops1

LEMMA NotFixed ==
    ASSUME NEW end \in Ends, NEW list, Ordinary(list, end), list # << >>
    PROVE  /\ Head(list) \in PlainWork \cup LockedWork \cup end
           /\ \A w \in FixedWork : \A x : Head(list) # Do(w, x)
<1>1. list \in Seq(PlainWork \cup LockedWork \cup end)
  BY DEF Ordinary
<1>2. Head(list) \in PlainWork \cup LockedWork \cup end
  BY <1>1, EmptySeq, LenProperties, ElementOfSeq
<1> HIDE DEF Ordinary
<1>3. ASSUME NEW w \in FixedWork, NEW x, NEW y \in PlainWork \cup LockedWork \cup end
      PROVE  y # Do(w, x)
  BY <1>3 DEF PlainWork, LockedWork, Ends, Uninits, Forgets, FixedWork, Do
<1> QED
  BY <1>2, <1>3

\* The heads of the lists of the client's start, and of a meeting's.
LEMMA StartingHead ==
    ASSUME NEW list, NEW managers, Starting(list, managers)
    PROVE  list # << >> /\ \E m \in Managers : Head(list) = Do("start", m)
BY HeadsOfStart DEF Starting, Managers

LEMMA EnteringHead ==
    ASSUME NEW list, Entering(list)
    PROVE  list # << >> /\ \E w \in {"select", "request", "room", "accept", "enter"} :
                              \E x : Head(list) = Do(w, x)
<1>1. CASE list \in {Selecting, Selecting2}
  BY <1>1, HeadsOfLists
<1>2. CASE list \notin {Selecting, Selecting2}
  BY <1>2 DEF Entering
<1> QED
  BY <1>1, <1>2

LEMMA FixedHeads ==
    /\ \A list, managers : Starting(list, managers) =>
          list # << >> /\ \E w \in FixedWork : \E x : Head(list) = Do(w, x)
    /\ \A list : Entering(list) =>
          list # << >> /\ \E w \in FixedWork : \E x : Head(list) = Do(w, x)
    /\ \A list \in {Wiring, Observing, Disconnecting, Detaching2, Detaching1, Emptying, Stops3,
                    Stops2, Stops1} :
          list # << >> /\ \E w \in FixedWork : \E x : Head(list) = Do(w, x)
<1>1. \A list, managers : Starting(list, managers) =>
          list # << >> /\ \E w \in FixedWork : \E x : Head(list) = Do(w, x)
  BY StartingHead, "start" \in FixedWork, Zenon DEF FixedWork
<1>2. \A list : Entering(list) =>
          list # << >> /\ \E w \in FixedWork : \E x : Head(list) = Do(w, x)
  <2>1. {"select", "request", "room", "accept", "enter"} \subseteq FixedWork
    BY DEF FixedWork
  <2> QED
    BY <2>1, EnteringHead, Zenon
<1>3. {"wire", "observe", "disconnect", "detach", "stop"} \subseteq FixedWork
  BY DEF FixedWork
<1> QED
  BY <1>1, <1>2, <1>3, HeadsOfLists, SMTT(30)

\* Neither is one of them work that may come at any time.
LEMMA FixedIsNotPlain ==
    \A w \in FixedWork : \A x : Do(w, x) \notin PlainWork \cup LockedWork \cup Uninits \cup Forgets
BY DEF PlainWork, LockedWork, Uninits, Forgets, FixedWork, Do

\* Between two calls, and while nothing of a known form is done.
Usually ==
    /\ \/ todo["ui"] = << >>
       \/ Head(todo["ui"]) \in PlainWork \cup LockedWork \cup Uninits \cup Forgets
    /\ \/ /\ m_submodel_initialized /\ obs = "ready" /\ up = Managers
          /\ Ordinary(todo["ui"], {}) \/ Ordinary(todo["ui"], Uninits)
       \/ /\ ~m_submodel_initialized /\ obs = "ready" /\ up = Managers
          /\ Ordinary(todo["ui"], Forgets) /\ Without(todo["ui"], Leaves)
       \/ ~m_submodel_initialized /\ obs # "ready" /\ Ordinary(todo["ui"], {}) /\ up = {}

LEMMA UsualLife ==
    ASSUME LifeInv,
           todo["ui"] = << >>
              \/ Head(todo["ui"]) \in PlainWork \cup LockedWork \cup Uninits \cup Forgets
    PROVE  Usually
<1> DEFINE list == todo["ui"]
<1>1. list = << >> \/ \A w \in FixedWork : \A x : Head(list) # Do(w, x)
  BY FixedIsNotPlain
<1>2. /\ ~Starting(list, up) /\ ~Entering(list)
      /\ list \notin {Wiring, Observing, Disconnecting, Detaching2, Detaching1, Emptying, Stops3,
                      Stops2, Stops1}
  <2>1. list # << >> => \A w \in FixedWork : \A x : Head(list) # Do(w, x)
    BY <1>1, Zenon
  <2> HIDE DEF list
  <2>2. ~Starting(list, up)
    BY <2>1, FixedHeads
  <2>3. ~Entering(list)
    BY <2>1, FixedHeads
  <2>4. list \notin {Wiring, Observing, Disconnecting, Detaching2, Detaching1, Emptying, Stops3,
                     Stops2, Stops1}
    BY <2>1, FixedHeads, ZenonT(30)
  <2> QED
    BY <2>2, <2>3, <2>4
<1> QED
  BY <1>2 DEF LifeInv, IsStarting, IsWiring, IsRunning, IsClosing, IsEnding, Usually, Detached

\* And the client is again where it may be when the list is an ordinary one.
LEMMA UsualIsLife ==
    ASSUME \/ /\ m_submodel_initialized /\ obs = "ready" /\ up = Managers
              /\ Ordinary(todo["ui"], {}) \/ Ordinary(todo["ui"], Uninits)
           \/ /\ ~m_submodel_initialized /\ obs = "ready" /\ up = Managers
              /\ Ordinary(todo["ui"], Forgets) /\ Without(todo["ui"], Leaves)
           \/ ~m_submodel_initialized /\ obs # "ready" /\ Ordinary(todo["ui"], {}) /\ up = {},
           Ordinary(todo["event"], {})
    PROVE  LifeInv
BY DEF LifeInv, IsStarting, IsWiring, IsRunning, IsClosing, IsEnding

-----------------------------------------------------------------------------
(* Steps that leave the manager alone.                                      *)

LEMMA WhoHolds ==
    ASSUME NEW t \in Threads
    PROVE  /\ LockedHead(todo[t]) <=>
                 \E k \in Kinds : Has(t, "create", k) \/ Has(t, "unregister", k)
           /\ ~LockedHead(todo[t]) =>
                 \A k \in Kinds : ~Has(t, "create", k) /\ ~Has(t, "unregister", k)
<1>1. \A x : x \in LockedWork <=>
                \E k \in Kinds : x = Do("create", k) \/ x = Do("unregister", k)
  BY SMT DEF LockedWork, Do
<1> QED
  BY <1>1 DEF LockedHead, Has, Idle

\* A list of a thread changes.
LEMMA ListChanges ==
    ASSUME TypeInv, NEW t \in Threads, NEW new, todo' = [todo EXCEPT ![t] = new]
    PROVE  /\ todo'[t] = new
           /\ \A s \in Threads \ {t} : todo'[s] = todo[s]
           /\ todo' = [s \in Threads |-> todo'[s]]
BY DEF TypeInv

LEMMA OthersHold ==
    ASSUME TypeInv, NEW t \in Threads, NEW new, todo' = [todo EXCEPT ![t] = new]
    PROVE  /\ \A s \in Threads \ {t} : \A k \in Kinds :
                 /\ Has(s, "create", k)' = Has(s, "create", k)
                 /\ Has(s, "unregister", k)' = Has(s, "unregister", k)
           /\ LockedHead(new) = \E k \in Kinds : Has(t, "create", k)' \/ Has(t, "unregister", k)'
           /\ \A k \in Kinds : /\ Has(t, "create", k)'
                                     = (new # << >> /\ Head(new) = Do("create", k))
                               /\ Has(t, "unregister", k)'
                                     = (new # << >> /\ Head(new) = Do("unregister", k))
           /\ t # "ui" => Detached' = Detached
<1>1. /\ todo'[t] = new
      /\ \A s \in Threads \ {t} : todo'[s] = todo[s]
  BY ListChanges
<1>2. \A x : x \in LockedWork <=>
                \E k \in Kinds : x = Do("create", k) \/ x = Do("unregister", k)
  BY SMT DEF LockedWork, Do
<1>3. \A s \in Threads \ {t} : \A k \in Kinds :
                 /\ Has(s, "create", k)' = Has(s, "create", k)
                 /\ Has(s, "unregister", k)' = Has(s, "unregister", k)
  BY <1>1 DEF Has, Idle
<1>4. \A k \in Kinds : /\ Has(t, "create", k)' = (new # << >> /\ Head(new) = Do("create", k))
                       /\ Has(t, "unregister", k)'
                             = (new # << >> /\ Head(new) = Do("unregister", k))
  BY <1>1 DEF Has, Idle
<1>5. t # "ui" => Detached' = Detached
  BY <1>1 DEF Detached, Threads
<1> QED
  BY <1>2, <1>3, <1>4, <1>5 DEF LockedHead

LEMMA QuietStep ==
    ASSUME TypeInv, HoldInv, CallbackInv, SourceInv,
           NEW t \in Threads, NEW new, todo' = [todo EXCEPT ![t] = new],
           ~LockedHead(todo[t]), ~LockedHead(new), t = "ui" => ~Detached /\ ~Detached',
           UNCHANGED <<m_state_mutex, m_source_id, device, m_selected, engineStateVars>>
    PROVE  HoldInv' /\ CallbackInv' /\ SourceInv'
<1>1. \A s \in Threads \ {t} : \A k \in Kinds :
         /\ Has(s, "create", k)' = Has(s, "create", k)
         /\ Has(s, "unregister", k)' = Has(s, "unregister", k)
  BY OthersHold
<1>2. \A k \in Kinds : ~Has(t, "create", k) /\ ~Has(t, "unregister", k)
  BY WhoHolds
<1>3. \A k \in Kinds : ~Has(t, "create", k)' /\ ~Has(t, "unregister", k)'
  BY OthersHold
<1>4. Detached' <=> Detached
  <2>1. CASE t = "ui"
    BY <2>1
  <2>2. CASE t # "ui"
    BY <2>2, OthersHold
  <2> QED
    BY <2>1, <2>2
<1>5. UNCHANGED <<m_state_mutex, m_source_id, device, m_selected, obs, m_sources, registered>>
  BY DEF engineStateVars
<1>6. todo'["ui"] = todo["ui"] \/ (~Detached /\ ~Detached')
  BY ListChanges DEF Threads
<1>7. HoldInv'
  BY <1>1, <1>2, <1>3, <1>4, <1>5, Zenon DEF HoldInv
<1>8. \A k \in Kinds : Called(k)' = Called(k)
  BY <1>5 DEF Called
<1>9. CallbackInv'
  <2>1. (todo["ui"] = Detaching1 => "camera" \notin registered)'
        /\ (todo["ui"] = Emptying => registered = {})'
    BY <1>5, <1>6 DEF CallbackInv, Detached
  <2>2. (m_state_mutex = Nobody => \A k \in Kinds : Called(k))'
    BY <1>5, <1>8 DEF CallbackInv
  <2>3. ASSUME NEW s \in Threads, NEW k \in Kinds
        PROVE  /\ Has(s, "create", k)' \/ Has(s, "unregister", k)' =>
                     \A j \in Kinds \ {k} : Called(j)'
               /\ Has(s, "create", k)' =>
                     k \notin m_source_id' /\ (obs' = "ready" => k \in registered')
    <3>1. CASE s = t
      BY <3>1, <1>3
    <3>2. CASE s # t
      <4>1. /\ Has(s, "create", k) \/ Has(s, "unregister", k) =>
                  \A j \in Kinds \ {k} : Called(j)
            /\ Has(s, "create", k) => k \notin m_source_id /\ (obs = "ready" => k \in registered)
        BY DEF CallbackInv
      <4>2. /\ Has(s, "create", k)' = Has(s, "create", k)
            /\ Has(s, "unregister", k)' = Has(s, "unregister", k)
        BY <3>2, <1>1
      <4> QED
        BY <4>1, <4>2, <1>5, <1>8
    <3> QED
      BY <3>1, <3>2
  <2> QED
    BY <2>1, <2>2, <2>3 DEF CallbackInv
<1>10. SourceInv'
  BY <1>5 DEF SourceInv
<1> QED
  BY <1>7, <1>9, <1>10

\* A step of the UI thread at work that may come at any time.
LEMMA UsualStep ==
    ASSUME LifeInv, todo["ui"] # << >>, Head(todo["ui"]) \in PlainWork \cup LockedWork,
           NEW more, Ordinary(more, {}), Without(more, Leaves),
           todo'["ui"] = more \o Tail(todo["ui"]), todo'["event"] = todo["event"],
           UNCHANGED <<up, m_submodel_initialized, obs>>
    PROVE  LifeInv'
<1> DEFINE list == todo["ui"]
           new == more \o Tail(list)
<1>1. Usually
  BY UsualLife, Zenon
<1>2. \A end \in Ends : Ordinary(list, end) => Ordinary(new, end)
  <2>1. \A end \in Ends : Head(list) \notin end
    BY SortsOfWork DEF Ends
  <2> QED
    BY <2>1, Continues
<1>3. ASSUME Ordinary(list, Forgets), Without(list, Leaves) PROVE Without(new, Leaves)
  <2>1. list \in Seq(PlainWork \cup LockedWork \cup Forgets)
    BY <1>3 DEF Ordinary
  <2>2. more \in Seq(PlainWork \cup LockedWork \cup Forgets)
    <3>1. more \in Seq(PlainWork \cup LockedWork)
      BY DEF Ordinary
    <3> QED
      BY <3>1, SeqMonotonic,
         PlainWork \cup LockedWork \subseteq PlainWork \cup LockedWork \cup Forgets, Zenon
  <2> QED
    BY <2>1, <2>2, <1>3, WithoutBoth
<1>4. todo'["ui"] = new /\ Ordinary(todo'["event"], {})
  BY DEF LifeInv
<1> HIDE DEF new, list
<1>5. {{}, Uninits, Forgets} = Ends
  BY DEF Ends
<1> QED
  <2>1. \/ /\ m_submodel_initialized' /\ obs' = "ready" /\ up' = Managers
           /\ Ordinary(todo'["ui"], {}) \/ Ordinary(todo'["ui"], Uninits)
        \/ /\ ~m_submodel_initialized' /\ obs' = "ready" /\ up' = Managers
           /\ Ordinary(todo'["ui"], Forgets) /\ Without(todo'["ui"], Leaves)
        \/ ~m_submodel_initialized' /\ obs' # "ready" /\ Ordinary(todo'["ui"], {}) /\ up' = {}
    BY <1>1, <1>2, <1>3, <1>4, <1>5 DEF Usually, list
  <2> QED
    BY <2>1, <1>4 DEF LifeInv, IsStarting, IsWiring, IsRunning, IsClosing, IsEnding

\* A step of the event thread.
LEMMA EventStep ==
    ASSUME LifeInv, todo'["ui"] = todo["ui"], Ordinary(todo'["event"], {}),
           todo["event"] # << >> \/ m_submodel_initialized,
           UNCHANGED <<up, m_submodel_initialized, obs, m_selected, user, choice, page, joined>>
    PROVE  LifeInv'
<1>1. Entering(todo["ui"])' = Entering(todo["ui"])
  BY DEF Entering, Selected
<1>2. ~IsStarting
  BY DEF IsStarting
<1>3. (IsWiring' <=> IsWiring) /\ (IsEnding' <=> IsEnding)
  BY DEF IsWiring, IsEnding
<1>4. (IsClosing' <=> IsClosing)
  BY DEF IsClosing, Detached
<1>5. (IsRunning' <=> IsRunning)
  BY <1>1 DEF IsRunning
<1> QED
  BY <1>2, <1>3, <1>4, <1>5 DEF LifeInv

\* What the event thread has to do goes on in the same way.
LEMMA EventContinues ==
    ASSUME LifeInv, todo["event"] # << >>, NEW more, Ordinary(more, {})
    PROVE  Ordinary(more \o Tail(todo["event"]), {})
BY Continues, {} \in Ends DEF LifeInv, Ends

LEMMA UiWithout ==
    ASSUME LifeInv, todo["ui"] # << >>, Head(todo["ui"]) \in PlainWork \cup LockedWork,
           NEW more, Ordinary(more, {}),
           NEW works, Without(todo["ui"], works), Without(more, works)
    PROVE  Without(more \o Tail(todo["ui"]), works)
<1> DEFINE list == todo["ui"]
<1>1. PICK end \in Ends : Ordinary(list, end)
  <2>1. Usually
    BY UsualLife, Zenon
  <2> QED
    BY <2>1 DEF Usually, Ends
<1> DEFINE S == PlainWork \cup LockedWork \cup end
<1>2. list \in Seq(S)
  BY <1>1 DEF Ordinary
<1>3. more \in Seq(S)
  <2>1. more \in Seq(PlainWork \cup LockedWork)
    BY DEF Ordinary
  <2> QED
    BY <2>1, SeqMonotonic, PlainWork \cup LockedWork \subseteq S, Zenon
<1> HIDE DEF S
<1> QED
  BY <1>2, <1>3, WithoutBoth

\* A UI thread that is at such work is not in the middle of the managers' end.
LEMMA NotDetached ==
    \A list :
       list = << >> \/ Head(list) \in PlainWork \cup LockedWork \cup Uninits \cup Forgets
          => list \notin {Detaching2, Detaching1, Emptying}
<1> SUFFICES ASSUME NEW list,
                    list = << >>
                       \/ Head(list) \in PlainWork \cup LockedWork \cup Uninits \cup Forgets
             PROVE  list \notin {Detaching2, Detaching1, Emptying}
  OBVIOUS
<1>1. {"detach", "stop"} \subseteq FixedWork
  BY DEF FixedWork
<1> QED
  BY <1>1, HeadsOfLists, FixedIsNotPlain

\* So does a list that is ordinary.
LEMMA OrdinaryHead ==
    ASSUME NEW end \in Ends, NEW list, Ordinary(list, end)
    PROVE  list = << >> \/ Head(list) \in PlainWork \cup LockedWork \cup Uninits \cup Forgets
<1>1. end \subseteq Uninits \cup Forgets
  BY DEF Ends
<1> QED
  BY <1>1, NotFixed

\* A step of the camera's or the microphone's work, whoever does it.
LEMMA WorkStep ==
    ASSUME CaptureIInv, NEW t \in Threads,
           todo[t] # << >>, Head(todo[t]) \in PlainWork \cup LockedWork,
           NEW more, Ordinary(more, {}), Without(more, Lists), Without(more, Leaves),
           todo' = [todo EXCEPT ![t] = more \o Tail(todo[t])],
           UNCHANGED <<up, m_submodel_initialized, obs, m_selected, user, choice, page>>,
           t = "event" => UNCHANGED joined
    PROVE  /\ LifeInv' /\ PageInv'
           /\ t = "ui" => ~Detached /\ ~Detached'
           /\ ~LockedHead(more) => ~LockedHead(more \o Tail(todo[t]))
           /\ more # << >> => /\ more \o Tail(todo[t]) # << >>
                              /\ Head(more \o Tail(todo[t])) = Head(more)
<1> DEFINE new == more \o Tail(todo[t])
<1>1. TypeInv /\ LifeInv /\ PageInv
  BY DEF CaptureIInv
<1>2. todo'[t] = new /\ \A s \in Threads \ {t} : todo'[s] = todo[s]
  BY <1>1, ListChanges
<1>3. PICK end \in Ends : Ordinary(todo[t], end) /\ (t = "event" => end = {})
  <2>1. CASE t = "ui"
    <3>1. Usually
      BY <1>1, <2>1, UsualLife
    <3> QED
      BY <2>1, <3>1 DEF Usually, Ends
  <2>2. CASE t = "event"
    BY <1>1, <2>2 DEF LifeInv, Ends
  <2> QED
    BY <2>1, <2>2 DEF Threads
<1>4. Ordinary(new, end) /\ (~LockedHead(more) => ~LockedHead(new))
  <2>1. Head(todo[t]) \notin end
    BY SortsOfWork DEF Ends
  <2> QED
    BY <1>3, <2>1, Continues, NextHead
<1>5. more # << >> => new # << >> /\ Head(new) = Head(more)
  <2>1. todo[t] \in Seq(PlainWork \cup LockedWork \cup end)
    BY <1>3 DEF Ordinary
  <2>2. more \in Seq(PlainWork \cup LockedWork \cup end)
    <3>1. more \in Seq(PlainWork \cup LockedWork)
      BY DEF Ordinary
    <3> QED
      BY <3>1, SeqMonotonic, PlainWork \cup LockedWork \subseteq PlainWork \cup LockedWork \cup end,
         Zenon
  <2> QED
    BY <2>1, <2>2, FirstOfNew
<1>6. CASE t = "ui"
  <2>1. LifeInv'
    BY <1>1, <1>2, <1>6, UsualStep DEF Threads
  <2>2. Without(todo["ui"], Lists) => Without(new, Lists)
    BY <1>1, <1>6, UiWithout
  <2> HIDE DEF new
  <2>3. ~Detached /\ ~Detached'
    <3>1. new \notin {Detaching2, Detaching1, Emptying}
      BY <1>4, OrdinaryHead, NotDetached, Zenon
    <3>2. todo["ui"] \notin {Detaching2, Detaching1, Emptying}
      BY <1>3, <1>6, OrdinaryHead, NotDetached, Zenon
    <3> QED
      BY <1>2, <1>6, <3>1, <3>2 DEF Detached
  <2>4. PageInv'
    <3>1. todo'["ui"] = new
      BY <1>2, <1>6
    <3>2. \A k \in Kinds : Selected(k)' <=> Selected(k)
      BY DEF Selected
    <3>3. Without(todo["ui"], Lists)' <=> Without(new, Lists)
      BY <3>1 DEF Without
    <3> QED
      BY <1>1, <2>2, <3>2, <3>3 DEF PageInv
  <2> QED
    BY <1>4, <1>5, <2>1, <2>3, <2>4 DEF new
<1>7. CASE t = "event"
  <2>1. todo'["ui"] = todo["ui"] /\ todo'["event"] = new
    BY <1>2, <1>7 DEF Threads
  <2>2. Ordinary(new, {})
    BY <1>1, <1>7, EventContinues
  <2> HIDE DEF new
  <2>3. LifeInv'
    BY <1>1, <1>7, <2>1, <2>2, EventStep
  <2>4. PageInv'
    BY <1>1, <2>1 DEF PageInv, Selected
  <2> QED
    BY <1>4, <1>5, <1>7, <2>3, <2>4 DEF new
<1> QED
  BY <1>6, <1>7 DEF Threads

\* A step of work that may come at any time, and that leaves the manager alone.
LEMMA PlainStep ==
    ASSUME CaptureIInv, MediaTypeOK', NEW t \in Threads,
           todo[t] # << >>, Head(todo[t]) \in PlainWork,
           NEW more, Ordinary(more, {}), ~LockedHead(more),
           Without(more, Lists), Without(more, Leaves),
           todo' = [todo EXCEPT ![t] = more \o Tail(todo[t])],
           UNCHANGED <<up, m_submodel_initialized, m_state_mutex, m_source_id, device, m_selected,
                       engineStateVars, user, choice, page>>,
           t = "event" => UNCHANGED joined
    PROVE  CaptureIInv'
<1> DEFINE new == more \o Tail(todo[t])
<1>1. TypeInv /\ HoldInv /\ CallbackInv /\ SourceInv
  BY DEF CaptureIInv
<1>2. LifeInv' /\ PageInv' /\ (t = "ui" => ~Detached /\ ~Detached') /\ ~LockedHead(new)
  <2>1. Head(todo[t]) \in PlainWork \cup LockedWork
    OBVIOUS
  <2>2. UNCHANGED <<up, m_submodel_initialized, obs, m_selected, user, choice, page>>
    BY DEF engineStateVars
  <2> QED
    BY <2>1, <2>2, WorkStep
<1>3. TypeInv'
  BY <1>1, ListChanges DEF TypeInv
<1>4. ~LockedHead(todo[t])
  BY SortsOfWork DEF LockedHead
<1>5. todo' = [todo EXCEPT ![t] = new]
  OBVIOUS
<1> HIDE DEF new
<1>6. HoldInv' /\ CallbackInv' /\ SourceInv'
  <2>1. UNCHANGED <<m_state_mutex, m_source_id, device, m_selected, engineStateVars>>
    OBVIOUS
  <2> QED
    BY <1>1, <1>2, <1>4, <1>5, <2>1, QuietStep
<1> QED
  BY <1>2, <1>3, <1>6 DEF CaptureIInv

-----------------------------------------------------------------------------
(* The calls of the pages and of the event thread.                          *)

\* What does not list the devices and does not leave for the page.
CallWork == PlainWork \ (Lists \cup Leaves)

LEMMA PlainLists ==
    ASSUME NEW list \in Seq(PlainWork)
    PROVE  Ordinary(list, {}) /\ ~LockedHead(list)
<1>1. list \in Seq(PlainWork \cup LockedWork \cup {})
  BY SeqMonotonic, PlainWork \subseteq PlainWork \cup LockedWork \cup {}, Zenon
<1>2. \A i \in DOMAIN list : list[i] \in PlainWork
  BY ElementOfSeq, LenProperties
<1>3. \A i \in DOMAIN list : list[i] \notin LockedWork
  BY <1>2, SortsOfWork
<1>4. list # << >> => Head(list) \in PlainWork
  BY EmptySeq, LenProperties, ElementOfSeq
<1> QED
  BY <1>1, <1>3, <1>4, SortsOfWork DEF Ordinary, LockedHead

LEMMA CallLists ==
    ASSUME NEW list \in Seq(CallWork)
    PROVE  /\ list \in Seq(PlainWork) /\ Ordinary(list, {}) /\ ~LockedHead(list)
           /\ Without(list, Lists) /\ Without(list, Leaves)
<1>1. list \in Seq(PlainWork)
  BY SeqMonotonic, CallWork \subseteq PlainWork, Zenon DEF CallWork
<1>2. \A i \in DOMAIN list : list[i] \in CallWork
  BY ElementOfSeq, LenProperties
<1> QED
  BY <1>1, <1>2, PlainLists DEF Without, CallWork

LEMMA Calls ==
    /\ \A k \in Kinds : {Do("open", k), Do("publish", k), Do("register", k), Do("flag", k),
                         Do("show", k), Do("release", k), Do("unpublish", k), Do("unflag", k),
                         Do("close", k), Do("hide", k)} \subseteq CallWork
    /\ {Do("cleanup", "meeting"), Do("snapshot", "meeting"), Do("tell", "page"),
        Do("join", "thread"), Do("exit", "page"), Do("exit", "quit"), Do("leave", "quit")}
          \subseteq CallWork
    /\ Lists \cup Leaves \subseteq PlainWork
<1>1. \A k \in Kinds : {Do("open", k), Do("publish", k), Do("register", k), Do("flag", k),
                        Do("show", k), Do("release", k), Do("unpublish", k), Do("unflag", k),
                        Do("close", k), Do("hide", k)} \subseteq PlainWork \ (Lists \cup Leaves)
  BY SMT DEF PlainWork, Lists, Leaves, Do
<1>2. {Do("cleanup", "meeting"), Do("snapshot", "meeting"), Do("tell", "page"),
       Do("join", "thread"), Do("exit", "page"), Do("exit", "quit"), Do("leave", "quit")}
         \subseteq PlainWork \ (Lists \cup Leaves)
  BY SMT DEF PlainWork, Lists, Leaves, Do, Kinds
<1>3. Lists \cup Leaves \subseteq PlainWork
  BY SMT DEF PlainWork, Lists, Leaves, Do
<1> QED
  BY <1>1, <1>2, <1>3 DEF CallWork

\* A step at the head of a list.
LEMMA CallStep ==
    ASSUME CaptureIInv, MediaTypeOK', NEW t \in Threads, NEW what, NEW for,
           Has(t, what, for), Do(what, for) \in PlainWork,
           NEW more \in Seq(CallWork), Then(t, more),
           UNCHANGED <<up, m_submodel_initialized, m_state_mutex, m_source_id, device, m_selected,
                       engineStateVars, user, choice, page>>,
           t = "event" => UNCHANGED joined
    PROVE  CaptureIInv'
<1>1. todo[t] # << >> /\ Head(todo[t]) \in PlainWork
  BY DEF Has, Idle
<1>2. todo' = [todo EXCEPT ![t] = more \o Tail(todo[t])]
  BY DEF Then, CaptureIInv, TypeInv
<1>3. Ordinary(more, {}) /\ ~LockedHead(more) /\ Without(more, Lists) /\ Without(more, Leaves)
  BY CallLists
<1> QED
  BY <1>1, <1>2, <1>3, PlainStep

LEMMA EngineStepInv ==
    ASSUME CaptureIInv, NEW t \in Threads, NEW k \in Kinds, EngineStep(t, k)
    PROVE  CaptureIInv'
<1> USE DEF engineVars, lifeVars, mediaVars, pageVars, lobbyVars, captureVars, managerVars
<1>1. MediaTypeOK
  BY DEF CaptureIInv, TypeInv
<1>2. {Do("open", k), Do("publish", k), Do("register", k), Do("flag", k),
       Do("show", k), Do("release", k), Do("unpublish", k), Do("unflag", k),
       Do("close", k), Do("hide", k)} \subseteq CallWork /\ CallWork \subseteq PlainWork
  BY Calls DEF CallWork
<1>3. << >> \in Seq(CallWork)
  OBVIOUS
<1>4. CASE CheckOpen(t, k)
  <2> DEFINE more == IF m_current_meeting_id = 0 THEN << >>
                     ELSE IF k \in m_open THEN <<Do("show", k)>> ELSE <<Do("publish", k)>>
  <2>1. more \in Seq(CallWork)
    BY <1>2
  <2>2. Then(t, more)
    BY <1>4 DEF CheckOpen
  <2>3. Has(t, "open", k) /\ UNCHANGED <<engineVars, captureVars, pageVars>>
    BY <1>4 DEF CheckOpen
  <2>4. MediaTypeOK'
    BY <1>1, <2>3 DEF MediaTypeOK, engineStateVars
  <2> HIDE DEF more
  <2> QED
    BY <1>2, <2>1, <2>2, <2>3, <2>4, CallStep
<1>5. CASE Publish(t, k)
  <2>1. PICK more \in {<< >>, <<Do("register", k)>>} :
           Then(t, more) /\ (publishing' = publishing \/ publishing' = publishing \cup {k})
    BY <1>5 DEF Publish
  <2>2. more \in Seq(CallWork)
    <3>1. <<Do("register", k)>> \in Seq(CallWork)
      BY <1>2
    <3> QED
      BY <1>3, <3>1
  <2>3. /\ Has(t, "publish", k)
        /\ UNCHANGED <<lifeVars, m_current_meeting_id, m_accept_media_callbacks, m_open,
                       captureVars, pageVars>>
    BY <1>5 DEF Publish
  <2>4. MediaTypeOK'
    BY <1>1, <2>1, <2>3 DEF MediaTypeOK, engineStateVars
  <2> QED
    BY <1>2, <2>1, <2>2, <2>3, <2>4, CallStep
<1>6. CASE Flag(t, k)
  <2>1. /\ Has(t, "flag", k) /\ m_open' = m_open \cup {k} /\ Then(t, << >>)
        /\ UNCHANGED <<lifeVars, m_current_meeting_id, m_accept_media_callbacks, publishing,
                       captureVars, pageVars>>
    BY <1>6 DEF Flag
  <2>2. MediaTypeOK'
    BY <1>1, <2>1 DEF MediaTypeOK, engineStateVars
  <2> QED
    BY <1>2, <1>3, <2>1, <2>2, CallStep
<1>7. CASE CheckClose(t, k)
  <2> DEFINE more == IF k \in m_open
                     THEN <<Do("release", k), Do("unpublish", k), Do("unflag", k)>> ELSE << >>
  <2>1. more \in Seq(CallWork)
    BY <1>2
  <2>2. Then(t, more)
    BY <1>7 DEF CheckClose
  <2>3. Has(t, "close", k) /\ UNCHANGED <<engineVars, captureVars, pageVars>>
    BY <1>7 DEF CheckClose
  <2>4. MediaTypeOK'
    BY <1>1, <2>3 DEF MediaTypeOK, engineStateVars
  <2> HIDE DEF more
  <2> QED
    BY <1>2, <2>1, <2>2, <2>3, <2>4, CallStep
<1>8. CASE Unpublish(t, k)
  <2>1. /\ Has(t, "unpublish", k) /\ publishing' = publishing \ {k} /\ Then(t, << >>)
        /\ UNCHANGED <<lifeVars, m_current_meeting_id, m_accept_media_callbacks, m_open,
                       captureVars, pageVars>>
    BY <1>8 DEF Unpublish
  <2>2. MediaTypeOK'
    BY <1>1, <2>1 DEF MediaTypeOK, engineStateVars
  <2> QED
    BY <1>2, <1>3, <2>1, <2>2, CallStep
<1>9. CASE Unflag(t, k)
  <2>1. /\ Has(t, "unflag", k) /\ m_open' = m_open \ {k} /\ Then(t, << >>)
        /\ UNCHANGED <<lifeVars, m_current_meeting_id, m_accept_media_callbacks, publishing,
                       captureVars, pageVars>>
    BY <1>9 DEF Unflag
  <2>2. MediaTypeOK'
    BY <1>1, <2>1 DEF MediaTypeOK, engineStateVars
  <2> QED
    BY <1>2, <1>3, <2>1, <2>2, CallStep
<1> QED
  BY <1>4, <1>5, <1>6, <1>7, <1>8, <1>9 DEF EngineStep

\* The end of a meeting cleans up, whoever does it.
LEMMA CleanupInv ==
    ASSUME CaptureIInv, NEW t \in Threads, Refuse(t) \/ Snapshot(t)
    PROVE  CaptureIInv'
<1> USE DEF engineVars, lifeVars, mediaVars, pageVars, lobbyVars, captureVars, managerVars
<1>1. MediaTypeOK
  BY DEF CaptureIInv, TypeInv
<1>2. {Do("cleanup", "meeting"), Do("snapshot", "meeting")} \subseteq CallWork
      /\ CallWork \subseteq PlainWork
  BY Calls, Zenon DEF CallWork
<1>3. CASE Refuse(t)
  <2>1. /\ Has(t, "cleanup", "meeting") /\ Then(t, <<Do("snapshot", "meeting")>>)
        /\ m_accept_media_callbacks' = FALSE
        /\ UNCHANGED <<lifeVars, m_current_meeting_id, m_open, publishing, captureVars, pageVars>>
    BY <1>3 DEF Refuse
  <2>2. MediaTypeOK'
    BY <1>1, <2>1 DEF MediaTypeOK, engineStateVars
  <2>3. <<Do("snapshot", "meeting")>> \in Seq(CallWork)
    BY <1>2
  <2> QED
    BY <1>2, <2>1, <2>2, <2>3, CallStep
<1>4. CASE Snapshot(t)
  <2> DEFINE more == (IF "camera" \in m_open THEN <<Do("release", "camera")>> ELSE << >>)
                     \o (IF "mic" \in m_open THEN <<Do("release", "mic")>> ELSE << >>)
                     \o <<Do("unpublish", "camera"), Do("unpublish", "mic")>>
  <2>1. /\ Has(t, "snapshot", "meeting") /\ m_open' = {} /\ m_current_meeting_id' = 0
        /\ UNCHANGED <<lifeVars, m_accept_media_callbacks, publishing, captureVars, pageVars>>
    BY <1>4 DEF Snapshot
  <2>2. Then(t, more)
    BY <1>4 DEF Snapshot
  <2>3. MediaTypeOK'
    BY <1>1, <2>1, CaptureAssumption DEF MediaTypeOK, engineStateVars, CaptureAssumption
  <2>4. more \in Seq(CallWork)
    <3>1. \A k \in Kinds : {Do("release", k), Do("unpublish", k)} \subseteq CallWork
      BY Calls
    <3>2. {Do("release", "camera"), Do("release", "mic"), Do("unpublish", "camera"),
           Do("unpublish", "mic")} \subseteq CallWork
      BY <3>1 DEF Kinds
    <3> QED
      BY <3>2
  <2> HIDE DEF more
  <2> QED
    BY <1>2, <2>1, <2>2, <2>3, <2>4, CallStep
<1> QED
  BY <1>3, <1>4

-----------------------------------------------------------------------------
(* Sources: steps with the mutex.                                           *)

\* Nobody is at such work while the mutex is free, and one thread at a time is.
LEMMA OneHolds ==
    ASSUME HoldInv
    PROVE  /\ \A s \in Threads : LockedHead(todo[s]) => m_state_mutex = s
           /\ Nobody \notin Threads
           /\ m_state_mutex = Nobody => ~Detached
           /\ m_state_mutex = "event" => ~Detached
BY WhoHolds DEF HoldInv, Threads, Nobody

\* A thread comes to work that needs the mutex, and has it.
LEMMA TakesHold ==
    ASSUME TypeInv, HoldInv, NEW t \in Threads, NEW new, todo' = [todo EXCEPT ![t] = new],
           m_state_mutex = Nobody \/ (m_state_mutex = t /\ LockedHead(todo[t])),
           m_state_mutex' = t, LockedHead(new), ~Detached'
    PROVE  HoldInv'
<1>1. \A s \in Threads \ {t} : m_state_mutex # s
  BY OneHolds
<1>2. \A s \in Threads \ {t} : \A k \in Kinds :
         ~Has(s, "create", k)' /\ ~Has(s, "unregister", k)'
  <2>1. \A s \in Threads \ {t} : \A k \in Kinds :
           ~Has(s, "create", k) /\ ~Has(s, "unregister", k)
    BY <1>1 DEF HoldInv
  <2>2. \A s \in Threads \ {t} : \A k \in Kinds :
           /\ Has(s, "create", k)' = Has(s, "create", k)
           /\ Has(s, "unregister", k)' = Has(s, "unregister", k)
    BY OthersHold
  <2> QED
    BY <2>1, <2>2
<1>3. \E k \in Kinds : Has(t, "create", k)' \/ Has(t, "unregister", k)'
  BY OthersHold
<1> QED
  BY <1>2, <1>3 DEF HoldInv

\* It gives the mutex back.
LEMMA LetsGo ==
    ASSUME TypeInv, HoldInv, NEW t \in Threads, NEW new, todo' = [todo EXCEPT ![t] = new],
           m_state_mutex = t, m_state_mutex' = Nobody, ~LockedHead(new), ~Detached'
    PROVE  /\ HoldInv'
           /\ \A s \in Threads : \A k \in Kinds : ~Has(s, "create", k)' /\ ~Has(s, "unregister", k)'
<1>1. \A s \in Threads \ {t} : \A k \in Kinds :
         ~Has(s, "create", k)' /\ ~Has(s, "unregister", k)'
  <2>1. \A s \in Threads \ {t} : \A k \in Kinds :
           ~Has(s, "create", k) /\ ~Has(s, "unregister", k)
    BY DEF HoldInv
  <2> QED
    BY <2>1, OthersHold
<1>2. \A k \in Kinds : ~Has(t, "create", k)' /\ ~Has(t, "unregister", k)'
  BY OthersHold
<1> QED
  BY <1>1, <1>2, OneHolds DEF HoldInv

LEMMA AtWork ==
    ASSUME TypeInv, NEW t \in Threads, NEW new, todo' = [todo EXCEPT ![t] = new], new # << >>,
           NEW k \in Kinds, NEW w \in {"create", "unregister"}, Head(new) = Do(w, k)
    PROVE  /\ LockedHead(new)
           /\ \A j \in Kinds : /\ Has(t, "create", j)' <=> (w = "create" /\ j = k)
                               /\ Has(t, "unregister", j)' <=> (w = "unregister" /\ j = k)
<1>1. Do(w, k) \in LockedWork
  BY SMT DEF LockedWork, Do
<1>2. \A j \in Kinds : /\ Do(w, k) = Do("create", j) <=> (w = "create" /\ j = k)
                       /\ Do(w, k) = Do("unregister", j) <=> (w = "unregister" /\ j = k)
  BY SMT DEF Do
<1>3. todo'[t] = new
  BY ListChanges
<1> QED
  BY <1>1, <1>2, <1>3 DEF LockedHead, Has, Idle

LEMMA RegisterInv ==
    ASSUME CaptureIInv, NEW t \in Threads, NEW k \in Kinds, Register(t, k),
           UNCHANGED <<engineVars, pageVars>>
    PROVE  CaptureIInv'
<1> USE DEF engineVars, lifeVars, mediaVars, pageVars, lobbyVars
<1>1. /\ TypeInv /\ HoldInv /\ CallbackInv /\ SourceInv
      /\ MediaTypeOK
  BY DEF CaptureIInv, TypeInv
<1>2. /\ Has(t, "register", k) /\ m_state_mutex = Nobody
      /\ UNCHANGED <<m_capture_callback, m_source_id, device, m_selected, obs, m_sources, frame>>
  BY DEF Register, Locks, Unlocked
<1>3. Do("register", k) \in PlainWork /\ Do("flag", k) \in CallWork /\ Do("show", k) \in CallWork
  BY Calls DEF CallWork
<1>4. CASE k \in m_source_id
  <2>1. <<Do("flag", k), Do("show", k)>> \in Seq(CallWork)
    BY <1>3
  <2>2. Then(t, <<Do("flag", k), Do("show", k)>>) /\ UNCHANGED <<m_state_mutex, registered>>
    BY <1>4 DEF Register, Unlocked
  <2>3. MediaTypeOK'
    BY <1>1, <1>2, <2>2 DEF MediaTypeOK
  <2>4. UNCHANGED <<up, m_submodel_initialized, m_state_mutex, m_source_id, device, m_selected,
                    engineStateVars, user, choice, page, joined>>
    BY <1>2, <2>2 DEF engineStateVars
  <2> QED
    BY <1>2, <1>3, <2>1, <2>2, <2>3, <2>4, CallStep
<1>5. CASE k \notin m_source_id
  <2> DEFINE more == <<Do("create", k)>>
             new == more \o Tail(todo[t])
  <2>1. /\ m_state_mutex' = t /\ todo' = [todo EXCEPT ![t] = new]
        /\ registered' = registered \cup (IF obs = "ready" THEN {k} ELSE {})
    BY <1>1, <1>5 DEF Register, Locks, AddCallback, Then, TypeInv
  <2>2. Do("create", k) \in LockedWork /\ Do("create", k) \notin Lists \cup Leaves
    BY SMT DEF LockedWork, Lists, Leaves, Do
  <2>3. Ordinary(more, {}) /\ Without(more, Lists) /\ Without(more, Leaves)
    BY <2>2 DEF Ordinary, Without
  <2>4. /\ LifeInv' /\ PageInv' /\ (t = "ui" => ~Detached /\ ~Detached')
        /\ new # << >> /\ Head(new) = Do("create", k)
    <3>1. todo[t] # << >> /\ Head(todo[t]) \in PlainWork \cup LockedWork
      BY <1>2, <1>3 DEF Has, Idle
    <3>2. UNCHANGED <<up, m_submodel_initialized, obs, m_selected, user, choice, page, joined>>
      BY <1>2
    <3>3. more # << >> /\ Head(more) = Do("create", k)
      OBVIOUS
    <3>4. todo' = [todo EXCEPT ![t] = more \o Tail(todo[t])]
      BY <2>1
    <3> HIDE DEF more
    <3> QED
      BY <2>3, <3>1, <3>2, <3>3, <3>4, WorkStep
  <2> HIDE DEF new
  <2>5. ~Detached'
    <3>1. t = "event" => ~Detached
      BY <1>1, <1>2, OneHolds
    <3> QED
      BY <1>1, <2>1, <2>4, <3>1, OthersHold DEF Threads
  <2>6. HoldInv'
    <3>1. LockedHead(new)
      BY <2>2, <2>4 DEF LockedHead
    <3> QED
      BY <1>1, <1>2, <2>1, <2>5, <3>1, TakesHold
  <2>7. TypeInv'
    <3>1. MediaTypeOK'
      BY <1>1, <1>2, <2>1 DEF MediaTypeOK
    <3> QED
      BY <1>1, <1>2, <2>1, <3>1, ListChanges DEF TypeInv
  <2>8. CallbackInv'
    <3>1. \A j \in Kinds \ {k} : Called(j)'
      BY <1>1, <1>2, <2>1 DEF CallbackInv, Called
    <3>2. \A s \in Threads : \A j \in Kinds :
             Has(s, "create", j)' \/ Has(s, "unregister", j)' => s = t
      BY <1>1, <2>1, <2>6 DEF HoldInv
    <3>3. \A j \in Kinds : Has(t, "create", j)' \/ Has(t, "unregister", j)' => j = k
      BY <1>1, <2>1, <2>4, AtWork
    <3>4. m_state_mutex' # Nobody
      BY <2>1, <1>1, OneHolds
    <3>5. obs' = "ready" => k \in registered'
      BY <1>2, <2>1
    <3>6. todo'["ui"] \notin {Detaching1, Emptying}
      BY <2>5 DEF Detached
    <3> QED
      BY <1>2, <1>5, <3>1, <3>2, <3>3, <3>4, <3>5, <3>6 DEF CallbackInv
  <2>9. SourceInv'
    BY <1>1, <1>2 DEF SourceInv
  <2> QED
    BY <2>4, <2>6, <2>7, <2>8, <2>9 DEF CaptureIInv
<1> QED
  BY <1>4, <1>5

LEMMA ReleaseInv ==
    ASSUME CaptureIInv, NEW t \in Threads, NEW k \in Kinds, Release(t, k),
           UNCHANGED <<engineVars, pageVars>>
    PROVE  CaptureIInv'
<1> USE DEF engineVars, lifeVars, mediaVars, pageVars, lobbyVars
<1>1. /\ TypeInv /\ HoldInv /\ CallbackInv /\ SourceInv
      /\ MediaTypeOK
  BY DEF CaptureIInv, TypeInv
<1>2. /\ Has(t, "release", k) /\ m_state_mutex = Nobody
      /\ UNCHANGED <<m_capture_callback, m_source_id, device, m_selected, obs, m_sources,
                     registered, frame>>
  BY DEF Release, Locks, Unlocked, engineStateVars
<1>3. Do("release", k) \in PlainWork
  BY Calls DEF CallWork
<1>4. CASE k \notin m_source_id
  <2>1. << >> \in Seq(CallWork) /\ Then(t, << >>) /\ UNCHANGED m_state_mutex
    BY <1>4 DEF Release, Unlocked
  <2>2. MediaTypeOK'
    BY <1>1, <1>2, <2>1 DEF MediaTypeOK
  <2>3. UNCHANGED <<up, m_submodel_initialized, m_state_mutex, m_source_id, device, m_selected,
                    engineStateVars, user, choice, page, joined>>
    BY <1>2, <2>1 DEF engineStateVars
  <2> QED
    BY <1>2, <1>3, <2>1, <2>2, <2>3, CallStep
<1>5. CASE k \in m_source_id
  <2> DEFINE more == <<Do("unregister", k)>>
             new == more \o Tail(todo[t])
  <2>1. m_state_mutex' = t /\ todo' = [todo EXCEPT ![t] = new]
    BY <1>1, <1>5 DEF Release, Locks, Then, TypeInv
  <2>2. Do("unregister", k) \in LockedWork /\ Do("unregister", k) \notin Lists \cup Leaves
    BY SMT DEF LockedWork, Lists, Leaves, Do
  <2>3. Ordinary(more, {}) /\ Without(more, Lists) /\ Without(more, Leaves)
    BY <2>2 DEF Ordinary, Without
  <2>4. /\ LifeInv' /\ PageInv' /\ (t = "ui" => ~Detached /\ ~Detached')
        /\ new # << >> /\ Head(new) = Do("unregister", k)
    <3>1. todo[t] # << >> /\ Head(todo[t]) \in PlainWork \cup LockedWork
      BY <1>2, <1>3 DEF Has, Idle
    <3>2. UNCHANGED <<up, m_submodel_initialized, obs, m_selected, user, choice, page, joined>>
      BY <1>2
    <3>3. more # << >> /\ Head(more) = Do("unregister", k)
      OBVIOUS
    <3>4. todo' = [todo EXCEPT ![t] = more \o Tail(todo[t])]
      BY <2>1
    <3> HIDE DEF more
    <3> QED
      BY <2>3, <3>1, <3>2, <3>3, <3>4, WorkStep
  <2> HIDE DEF new
  <2>5. ~Detached'
    <3>1. t = "event" => ~Detached
      BY <1>1, <1>2, OneHolds
    <3> QED
      BY <1>1, <2>1, <2>4, <3>1, OthersHold DEF Threads
  <2>6. HoldInv'
    <3>1. LockedHead(new)
      BY <1>1, <2>1, <2>4, AtWork
    <3> QED
      BY <1>1, <1>2, <2>1, <2>5, <3>1, TakesHold
  <2>7. TypeInv'
    <3>1. MediaTypeOK'
      BY <1>1, <1>2, <2>1 DEF MediaTypeOK
    <3> QED
      BY <1>1, <1>2, <2>1, <3>1, ListChanges DEF TypeInv
  <2>8. CallbackInv'
    <3>1. \A j \in Kinds : Called(j)'
      BY <1>1, <1>2, <2>1 DEF CallbackInv, Called
    <3>2. \A s \in Threads : \A j \in Kinds : Has(s, "create", j)' => s = t
      BY <1>1, <2>1, <2>6 DEF HoldInv
    <3>3. \A j \in Kinds : ~Has(t, "create", j)'
      BY <1>1, <2>1, <2>4, AtWork
    <3>4. m_state_mutex' # Nobody
      BY <2>1, <1>1, OneHolds
    <3>5. todo'["ui"] \notin {Detaching1, Emptying}
      BY <2>5 DEF Detached
    <3> QED
      BY <3>1, <3>2, <3>3, <3>4, <3>5 DEF CallbackInv
  <2>9. SourceInv'
    BY <1>1, <1>2 DEF SourceInv
  <2> QED
    BY <2>4, <2>6, <2>7, <2>8, <2>9 DEF CaptureIInv
<1> QED
  BY <1>4, <1>5

\* The thread that is at such work holds the mutex, and nobody is detaching.
LEMMA HolderKnows ==
    ASSUME CaptureIInv, NEW t \in Threads, NEW k \in Kinds, NEW w \in {"create", "unregister"},
           Has(t, w, k)
    PROVE  /\ m_state_mutex = t /\ LockedHead(todo[t]) /\ ~Detached
           /\ todo[t] # << >> /\ Head(todo[t]) \in LockedWork
           /\ \A j \in Kinds \ {k} : Called(j)
           /\ w = "create" => k \notin m_source_id /\ (obs = "ready" => k \in registered)
<1>1. HoldInv /\ CallbackInv
  BY DEF CaptureIInv
<1>2. m_state_mutex = t
  BY <1>1 DEF HoldInv
<1>3. /\ \A j \in Kinds \ {k} : Called(j)
      /\ w = "create" => k \notin m_source_id /\ (obs = "ready" => k \in registered)
  BY <1>1 DEF CallbackInv
<1>4. todo[t] # << >> /\ Head(todo[t]) = Do(w, k) /\ Do(w, k) \in LockedWork
  <2>1. Do(w, k) \in LockedWork
    BY SMT DEF LockedWork, Do
  <2> QED
    BY <2>1 DEF Has, Idle
<1>5. ~Detached
  <2>1. CASE t = "ui"
    <3>1. Head(todo["ui"]) \in PlainWork \cup LockedWork \cup Uninits \cup Forgets
      BY <2>1, <1>4
    <3> QED
      BY <3>1, NotDetached, Zenon DEF Detached
  <2>2. CASE t = "event"
    BY <1>1, <1>2, <2>2, OneHolds
  <2> QED
    BY <2>1, <2>2 DEF Threads
<1> QED
  BY <1>2, <1>3, <1>4, <1>5 DEF LockedHead

LEMMA CreateInv ==
    ASSUME CaptureIInv, NEW t \in Threads, NEW k \in Kinds, Create(t, k),
           UNCHANGED <<engineVars, pageVars>>
    PROVE  CaptureIInv'
<1> USE DEF engineVars, lifeVars, mediaVars, pageVars, lobbyVars
<1> DEFINE more == <<Do("flag", k), Do("show", k)>>
           new == more \o Tail(todo[t])
<1>1. /\ TypeInv /\ HoldInv /\ CallbackInv /\ SourceInv
      /\ MediaTypeOK
  BY DEF CaptureIInv, TypeInv
<1>2. /\ Has(t, "create", k) /\ obs = "ready"
      /\ m_state_mutex = t /\ m_state_mutex' = Nobody
      /\ m_sources' = [m_sources EXCEPT ![k] = @ + 1] /\ m_source_id' = m_source_id \cup {k}
      /\ device' = [device EXCEPT ![k] = m_selected[k]]
      /\ UNCHANGED <<m_capture_callback, m_selected, obs, registered, frame>>
  BY DEF Create, Unlocks, CreateSource, WithSource, SetDevice
<1>3. todo' = [todo EXCEPT ![t] = new]
  BY <1>1 DEF Create, Then, TypeInv
<1>4. /\ LockedHead(todo[t]) /\ ~Detached /\ todo[t] # << >> /\ Head(todo[t]) \in LockedWork
      /\ \A j \in Kinds \ {k} : Called(j)
      /\ k \notin m_source_id /\ k \in registered
  BY <1>2, HolderKnows
<1>5. Ordinary(more, {}) /\ ~LockedHead(more) /\ Without(more, Lists) /\ Without(more, Leaves)
  <2>1. Do("flag", k) \in CallWork /\ Do("show", k) \in CallWork
    BY Calls
  <2>2. more \in Seq(CallWork)
    BY <2>1
  <2> HIDE DEF more
  <2> QED
    BY <2>2, CallLists
<1> HIDE DEF more
<1>6. LifeInv' /\ PageInv' /\ (t = "ui" => ~Detached') /\ ~LockedHead(new)
  <2>1. UNCHANGED <<up, m_submodel_initialized, obs, m_selected, user, choice, page, joined>>
    BY <1>2
  <2> QED
    BY <1>3, <1>4, <1>5, <2>1, WorkStep
<1> HIDE DEF new
<1>7. ~Detached'
  BY <1>1, <1>3, <1>4, <1>6, OthersHold DEF Threads
<1>8. /\ HoldInv'
      /\ \A s \in Threads : \A j \in Kinds : ~Has(s, "create", j)' /\ ~Has(s, "unregister", j)'
  BY <1>1, <1>2, <1>3, <1>6, <1>7, LetsGo
<1>9. m_sources[k] = 0
  BY <1>1, <1>4 DEF SourceInv
<1>10. TypeInv'
  <2>1. MediaTypeOK'
    BY <1>1, <1>2, <1>9 DEF MediaTypeOK
  <2>2. device' \in [Kinds -> Cameras \cup Mics \cup {NoDevice}]
    BY <1>1, <1>2 DEF TypeInv
  <2> QED
    BY <1>1, <1>2, <1>3, <2>1, <2>2, ListChanges DEF TypeInv
<1>11. CallbackInv'
  <2>1. \A j \in Kinds : Called(j)'
    BY <1>2, <1>4 DEF Called
  <2>2. todo'["ui"] \notin {Detaching1, Emptying}
    BY <1>7 DEF Detached
  <2> QED
    BY <1>8, <2>1, <2>2 DEF CallbackInv
<1>12. SourceInv'
  <2>1. \A j \in Kinds : m_sources'[j] = IF j \in m_source_id' THEN 1 ELSE 0
    BY <1>1, <1>2, <1>4, <1>9 DEF SourceInv, MediaTypeOK
  <2>2. \A j \in m_source_id' : device'[j] = m_selected'[j]
    BY <1>1, <1>2, <1>4 DEF SourceInv, MediaTypeOK, TypeInv
  <2> QED
    BY <1>2, <2>1, <2>2 DEF SourceInv
<1> QED
  BY <1>6, <1>8, <1>10, <1>11, <1>12 DEF CaptureIInv

LEMMA CreateFailsInv ==
    ASSUME CaptureIInv, NEW t \in Threads, NEW k \in Kinds, CreateFails(t, k),
           UNCHANGED <<engineVars, pageVars>>
    PROVE  CaptureIInv'
<1> USE DEF engineVars, lifeVars, mediaVars, pageVars, lobbyVars
<1> DEFINE more == <<Do("unregister", k), Do("unpublish", k)>>
           new == more \o Tail(todo[t])
<1>1. /\ TypeInv /\ HoldInv /\ CallbackInv /\ SourceInv
      /\ MediaTypeOK
  BY DEF CaptureIInv, TypeInv
<1>2. /\ Has(t, "create", k)
      /\ UNCHANGED <<m_state_mutex, m_capture_callback, m_source_id, device, m_selected, obs,
                     m_sources, registered, frame>>
  BY DEF CreateFails, captureVars, managerVars, engineStateVars
<1>3. todo' = [todo EXCEPT ![t] = new]
  BY <1>1 DEF CreateFails, Then, TypeInv
<1>4. /\ m_state_mutex = t /\ LockedHead(todo[t]) /\ ~Detached
      /\ todo[t] # << >> /\ Head(todo[t]) \in LockedWork
      /\ \A j \in Kinds \ {k} : Called(j)
  BY <1>2, HolderKnows
<1>5. Ordinary(more, {}) /\ Without(more, Lists) /\ Without(more, Leaves)
  <2>1. /\ Do("unregister", k) \in LockedWork /\ Do("unregister", k) \notin Lists \cup Leaves
        /\ Do("unpublish", k) \notin Lists \cup Leaves
    BY SMT DEF LockedWork, Lists, Leaves, Do
  <2>2. Do("unpublish", k) \in PlainWork /\ Do("unpublish", k) \notin LockedWork
    BY Calls, SortsOfWork DEF CallWork
  <2> QED
    BY <2>1, <2>2 DEF Ordinary, Without
<1>6. more # << >> /\ Head(more) = Do("unregister", k)
  OBVIOUS
<1> HIDE DEF more
<1>7. LifeInv' /\ PageInv' /\ (t = "ui" => ~Detached') /\ new # << >>
      /\ Head(new) = Do("unregister", k)
  <2>1. UNCHANGED <<up, m_submodel_initialized, obs, m_selected, user, choice, page, joined>>
    BY <1>2
  <2> QED
    BY <1>3, <1>4, <1>5, <1>6, <2>1, WorkStep
<1> HIDE DEF new
<1>8. ~Detached'
  BY <1>1, <1>3, <1>4, <1>7, OthersHold DEF Threads
<1>9. HoldInv'
  <2>1. LockedHead(new)
    BY <1>1, <1>3, <1>7, AtWork
  <2> QED
    BY <1>1, <1>2, <1>3, <1>4, <1>8, <2>1, TakesHold
<1>10. TypeInv'
  <2>1. MediaTypeOK'
    BY <1>1, <1>2 DEF MediaTypeOK
  <2> QED
    BY <1>1, <1>2, <1>3, <2>1, ListChanges DEF TypeInv
<1>11. CallbackInv'
  <2>1. \A j \in Kinds \ {k} : Called(j)'
    BY <1>2, <1>4 DEF Called
  <2>2. \A s \in Threads : \A j \in Kinds :
           Has(s, "create", j)' \/ Has(s, "unregister", j)' => s = t
    BY <1>2, <1>4, <1>9 DEF HoldInv
  <2>3. \A j \in Kinds : ~Has(t, "create", j)' /\ (Has(t, "unregister", j)' => j = k)
    BY <1>1, <1>3, <1>7, AtWork
  <2>4. m_state_mutex' # Nobody
    BY <1>1, <1>2, <1>4, OneHolds
  <2>5. todo'["ui"] \notin {Detaching1, Emptying}
    BY <1>8 DEF Detached
  <2> QED
    BY <2>1, <2>2, <2>3, <2>4, <2>5 DEF CallbackInv
<1>12. SourceInv'
  BY <1>1, <1>2 DEF SourceInv
<1> QED
  BY <1>7, <1>9, <1>10, <1>11, <1>12 DEF CaptureIInv

LEMMA UnregisterInv ==
    ASSUME CaptureIInv, NEW t \in Threads, NEW k \in Kinds, Unregister(t, k),
           UNCHANGED <<engineVars, pageVars>>
    PROVE  CaptureIInv'
<1> USE DEF engineVars, lifeVars, mediaVars, pageVars, lobbyVars
<1> DEFINE new == << >> \o Tail(todo[t])
<1>1. /\ TypeInv /\ HoldInv /\ CallbackInv /\ SourceInv
      /\ MediaTypeOK
  BY DEF CaptureIInv, TypeInv
<1>2. /\ Has(t, "unregister", k) /\ m_state_mutex = t /\ m_state_mutex' = Nobody
      /\ registered' = registered \ {k} /\ m_source_id' = m_source_id \ {k}
      /\ device' = [device EXCEPT ![k] = NoDevice]
      /\ IF k \in m_source_id THEN m_sources' = [m_sources EXCEPT ![k] = @ - 1]
                              ELSE m_sources' = m_sources
      /\ UNCHANGED <<m_capture_callback, m_selected, obs, frame>>
  BY DEF Unregister, Unlocks, RemoveCallback, Destroy, RemoveSource, WithoutSource
<1>3. todo' = [todo EXCEPT ![t] = new]
  BY <1>1 DEF Unregister, Then, TypeInv
<1>4. /\ LockedHead(todo[t]) /\ ~Detached /\ todo[t] # << >> /\ Head(todo[t]) \in LockedWork
      /\ \A j \in Kinds \ {k} : Called(j)
  BY <1>2, HolderKnows
<1>5. LifeInv' /\ PageInv' /\ (t = "ui" => ~Detached') /\ ~LockedHead(new)
  <2>1. UNCHANGED <<up, m_submodel_initialized, obs, m_selected, user, choice, page, joined>>
    BY <1>2
  <2>2. /\ Ordinary(<< >>, {}) /\ ~LockedHead(<< >>)
        /\ Without(<< >>, Lists) /\ Without(<< >>, Leaves)
    BY EmptyIsOrdinary DEF LockedHead
  <2> QED
    BY <1>3, <1>4, <2>1, <2>2, WorkStep
<1> HIDE DEF new
<1>6. ~Detached'
  BY <1>1, <1>3, <1>4, <1>5, OthersHold DEF Threads
<1>7. /\ HoldInv'
      /\ \A s \in Threads : \A j \in Kinds : ~Has(s, "create", j)' /\ ~Has(s, "unregister", j)'
  BY <1>1, <1>2, <1>3, <1>5, <1>6, LetsGo
<1>8. m_sources[k] = IF k \in m_source_id THEN 1 ELSE 0
  BY <1>1 DEF SourceInv
<1>9. TypeInv'
  <2>1. MediaTypeOK'
    BY <1>1, <1>2, <1>8 DEF MediaTypeOK
  <2>2. device' \in [Kinds -> Cameras \cup Mics \cup {NoDevice}]
    BY <1>1, <1>2 DEF TypeInv
  <2> QED
    BY <1>1, <1>2, <1>3, <2>1, <2>2, ListChanges DEF TypeInv
<1>10. CallbackInv'
  <2>1. \A j \in Kinds : Called(j)'
    BY <1>2, <1>4 DEF Called
  <2>2. todo'["ui"] \notin {Detaching1, Emptying}
    BY <1>6 DEF Detached
  <2> QED
    BY <1>7, <2>1, <2>2 DEF CallbackInv
<1>11. SourceInv'
  <2>1. \A j \in Kinds : m_sources'[j] = IF j \in m_source_id' THEN 1 ELSE 0
    BY <1>1, <1>2, <1>8 DEF SourceInv, MediaTypeOK
  <2>2. \A j \in m_source_id' : device'[j] = m_selected'[j]
    BY <1>1, <1>2 DEF SourceInv, MediaTypeOK, TypeInv
  <2>3. obs' # "ready" => m_source_id' = {}
    BY <1>1, <1>2 DEF SourceInv
  <2> QED
    BY <2>1, <2>2, <2>3 DEF SourceInv
<1> QED
  BY <1>5, <1>7, <1>9, <1>10, <1>11 DEF CaptureIInv

-----------------------------------------------------------------------------
(* The steps of the pages and of the client's life.                         *)

\* The mutex is not needed, nor the managers taken apart.
Quiet(list) == ~LockedHead(list) /\ list \notin {Detaching2, Detaching1, Emptying}

LEMMA QuietHead ==
    ASSUME NEW list,
           list = << >> \/ \E w, x : /\ Head(list) = Do(w, x)
                                     /\ \/ Do(w, x) \in PlainWork \cup Uninits \cup Forgets
                                        \/ w \in FixedWork \ {"detach", "stop"}
                                        \/ w = "stop" /\ x # "capture"
    PROVE  Quiet(list)
<1>1. CASE list = << >>
  BY <1>1, HeadsOfLists DEF Quiet, LockedHead
<1>2. ASSUME NEW w, NEW x, Head(list) = Do(w, x),
             \/ Do(w, x) \in PlainWork \cup Uninits \cup Forgets
             \/ w \in FixedWork \ {"detach", "stop"}
             \/ w = "stop" /\ x # "capture"
      PROVE  Quiet(list)
  <2>1. Head(list) \notin LockedWork
    <3>1. w \in FixedWork => Do(w, x) \notin LockedWork
      BY FixedIsNotPlain
    <3>2. "stop" \in FixedWork
      BY DEF FixedWork
    <3> QED
      BY <1>2, <3>1, <3>2, SortsOfWork
  <2>2. Do(w, x) \notin {Do("detach", "camera"), Do("detach", "mic"), Do("stop", "capture")}
    <3>1. {Do("detach", "camera"), Do("detach", "mic"), Do("stop", "capture")}
             \cap (PlainWork \cup Uninits \cup Forgets) = {}
      BY FixedIsNotPlain DEF FixedWork
    <3>2. w \in FixedWork \ {"detach", "stop"} =>
             Do(w, x) \notin {Do("detach", "camera"), Do("detach", "mic"), Do("stop", "capture")}
      BY SMT DEF Do
    <3>3. w = "stop" /\ x # "capture" =>
             Do(w, x) \notin {Do("detach", "camera"), Do("detach", "mic"), Do("stop", "capture")}
      BY SMT DEF Do
    <3> QED
      BY <1>2, <3>1, <3>2, <3>3
  <2>3. list \notin {Detaching2, Detaching1, Emptying}
    BY <1>2, <2>2, HeadsOfLists
  <2> QED
    BY <2>1, <2>3 DEF Quiet, LockedHead
<1> QED
  BY <1>1, <1>2

LEMMA QuietLists ==
    /\ \A list \in Seq(PlainWork) : Quiet(list)
    /\ Quiet(Wiring) /\ Quiet(Observing) /\ Quiet(Selecting) /\ Quiet(Selecting2)
    /\ Quiet(Stops3) /\ Quiet(Stops2) /\ Quiet(Stops1) /\ Quiet(Disconnecting)
<1>1. ASSUME NEW list \in Seq(PlainWork) PROVE Quiet(list)
  <2>1. list = << >> \/ Head(list) \in PlainWork
    BY EmptySeq, LenProperties, ElementOfSeq
  <2>2. list = << >> \/ Head(list) \in PlainWork \cup LockedWork \cup Uninits \cup Forgets
    BY <2>1
  <2> QED
    BY <2>2, PlainLists, NotDetached, Zenon DEF Quiet
<1>2. \A w \in {"wire", "observe", "select", "disconnect"} : w \in FixedWork \ {"detach", "stop"}
  BY DEF FixedWork
<1>3. Quiet(Wiring) /\ Quiet(Observing)
  BY <1>2, QuietHead, HeadsOfLists
<1>4. Quiet(Selecting) /\ Quiet(Selecting2)
  BY <1>2, QuietHead, HeadsOfLists
<1>5. Quiet(Disconnecting)
  BY <1>2, QuietHead, HeadsOfLists
<1>6. Quiet(Stops3) /\ Quiet(Stops2) /\ Quiet(Stops1)
  <2>1. \A list : \A x : Head(list) = Do("stop", x) /\ x # "capture" => Quiet(list)
    BY QuietHead
  <2>2. "transport" # "capture" /\ "render" # "capture" /\ "service" # "capture"
    OBVIOUS
  <2> QED
    BY <2>1, <2>2, HeadsOfLists, Zenon
<1> QED
  BY <1>1, <1>3, <1>4, <1>5, <1>6

\* A step of the UI thread that leaves the manager alone.
LEMMA QuietUi ==
    ASSUME CaptureIInv, MediaTypeOK', choice' \in [Kinds -> Cameras \cup Mics \cup {NoDevice}],
           NEW new, todo' = [todo EXCEPT !["ui"] = new], Quiet(todo["ui"]), Quiet(new),
           UNCHANGED <<m_state_mutex, m_source_id, device, m_selected, engineStateVars>>,
           LifeInv', PageInv'
    PROVE  CaptureIInv'
<1>1. TypeInv /\ HoldInv /\ CallbackInv /\ SourceInv /\ "ui" \in Threads
  BY DEF CaptureIInv, Threads
<1>2. TypeInv'
  BY <1>1, ListChanges DEF TypeInv
<1>3. ~LockedHead(todo["ui"]) /\ ~LockedHead(new) /\ ~Detached /\ ~Detached'
  <2>1. todo'["ui"] = new
    BY <1>1, ListChanges
  <2> QED
    BY <2>1 DEF Quiet, Detached
<1>4. HoldInv' /\ CallbackInv' /\ SourceInv'
  BY <1>1, <1>3, QuietStep
<1> QED
  BY <1>2, <1>4 DEF CaptureIInv

\* A step of the UI thread while nobody has the mutex.
LEMMA FreeStep ==
    ASSUME TypeInv, HoldInv, CallbackInv, SourceInv,
           NEW new, todo' = [todo EXCEPT !["ui"] = new], Quiet(new),
           m_state_mutex = Nobody, UNCHANGED <<m_state_mutex, m_source_id, m_sources, registered>>,
           obs' # "ready" => m_source_id = {},
           \A k \in m_source_id : device'[k] = m_selected'[k]
    PROVE  HoldInv' /\ CallbackInv' /\ SourceInv'
<1>1. \A s \in Threads : \A k \in Kinds : ~Has(s, "create", k) /\ ~Has(s, "unregister", k)
  BY OneHolds DEF HoldInv
<1>2. \A s \in Threads : \A k \in Kinds : ~Has(s, "create", k)' /\ ~Has(s, "unregister", k)'
  <2>1. \A s \in Threads \ {"ui"} : \A k \in Kinds :
           /\ Has(s, "create", k)' = Has(s, "create", k)
           /\ Has(s, "unregister", k)' = Has(s, "unregister", k)
    BY OthersHold DEF Threads
  <2>2. \A k \in Kinds : ~Has("ui", "create", k)' /\ ~Has("ui", "unregister", k)'
    BY OthersHold DEF Threads, Quiet
  <2> QED
    BY <1>1, <2>1, <2>2
<1>3. todo'["ui"] = new /\ new \notin {Detaching2, Detaching1, Emptying}
  BY ListChanges DEF Threads, Quiet
<1>4. HoldInv'
  BY <1>2, <1>3, OneHolds DEF HoldInv, Detached
<1>5. CallbackInv'
  <2>1. \A k \in Kinds : Called(k)'
    BY DEF CallbackInv, Called
  <2> QED
    BY <1>2, <1>3, <2>1 DEF CallbackInv
<1>6. SourceInv'
  BY DEF SourceInv
<1> QED
  BY <1>4, <1>5, <1>6

\* The managers start one after the other.
LEMMA Beginning ==
    ASSUME CaptureIInv, NEW w \in {"start", "wire"}, NEW x, Has("ui", w, x)
    PROVE  IF w = "start" THEN IsStarting ELSE IsWiring
<1>1. LifeInv
  BY DEF CaptureIInv
<1>2. todo["ui"] # << >> /\ Head(todo["ui"]) = Do(w, x)
  BY DEF Has, Idle
<1>3. w \in FixedWork
  BY DEF FixedWork
<1>4. ~Ordinary(todo["ui"], {}) /\ ~Ordinary(todo["ui"], Uninits) /\ ~Ordinary(todo["ui"], Forgets)
  BY <1>2, <1>3, NotFixed DEF Ends
<1>5. ~Entering(todo["ui"])
  <2>1. \A v \in {"select", "request", "room", "accept", "enter"} : \A y : Do(v, y) # Do(w, x)
    BY SMT DEF Do
  <2> QED
    BY <1>2, <2>1, EnteringHead, Zenon
<1>6. \A v \in {"observe", "disconnect", "detach", "stop"} : \A y : Do(v, y) # Do(w, x)
  BY SMT DEF Do
<1>7. todo["ui"] \notin {Observing, Disconnecting, Detaching2, Detaching1, Emptying, Stops3, Stops2,
                         Stops1}
  BY <1>2, <1>6, HeadsOfLists, SMTT(30)
<1>8. IsStarting \/ IsWiring
  BY <1>1, <1>4, <1>5, <1>7 DEF LifeInv, IsRunning, IsClosing, IsEnding, Detached
<1>9. w = "start" => todo["ui"] # Wiring
  <2>1. Do("wire", "engine") # Do("start", x)
    BY SMT DEF Do
  <2> QED
    BY <1>2, <2>1, HeadsOfLists
<1>10. w = "wire" => ~Starting(todo["ui"], up)
  <2>1. \A m : Do("start", m) # Do("wire", x)
    BY SMT DEF Do
  <2> QED
    BY <1>2, <2>1, StartingHead, Zenon
<1> QED
  BY <1>8, <1>9, <1>10 DEF IsStarting, IsWiring

LEMMA StartingLists ==
    ASSUME NEW list, NEW managers, Starting(list, managers), NEW m, Head(list) = Do("start", m)
    PROVE  \/ /\ m = "capture" /\ managers = {"service", "render", "transport"}
              /\ << >> \o Tail(list) = Wiring
           \/ m # "capture" /\ Starting(<< >> \o Tail(list), managers \cup {m})
<1>1. "transport" # "capture" /\ "render" # "capture" /\ "service" # "capture"
  OBVIOUS
<1>2. \A x, y : Do("start", x) = Do("start", y) <=> x = y
  BY SMT DEF Do
<1>3. {"service", "render"} \cup {"transport"} = {"service", "render", "transport"}
      /\ {"service"} \cup {"render"} = {"service", "render"} /\ {} \cup {"service"} = {"service"}
  OBVIOUS
<1>4. CASE managers = {"service", "render", "transport"} /\ list = Starting1
  BY <1>2, <1>4, HeadsOfStart, NothingMore
<1>5. CASE managers = {"service", "render"} /\ list = Starting2
  BY <1>1, <1>2, <1>3, <1>5, HeadsOfStart, NothingMore DEF Starting
<1>6. CASE managers = {"service"} /\ list = Starting3
  BY <1>1, <1>2, <1>3, <1>6, HeadsOfStart, NothingMore DEF Starting
<1>7. CASE managers = {} /\ list = Starting4
  BY <1>1, <1>2, <1>3, <1>7, HeadsOfStart, NothingMore DEF Starting
<1> QED
  BY <1>4, <1>5, <1>6, <1>7 DEF Starting

\* The mutex is free when neither thread is at such work.
LEMMA NobodyHolds ==
    ASSUME CaptureIInv, Quiet(todo["ui"]), ~LockedHead(todo["event"])
    PROVE  m_state_mutex = Nobody
<1>1. HoldInv /\ m_state_mutex \in Threads \cup {Nobody}
  BY DEF CaptureIInv, TypeInv, MediaTypeOK
<1>2. ~Detached
  BY DEF Quiet, Detached
<1>3. \A t \in Threads : ~LockedHead(todo[t])
  BY DEF Quiet, Threads
<1>4. \A t \in Threads : \A k \in Kinds : ~Has(t, "create", k) /\ ~Has(t, "unregister", k)
  BY <1>3, WhoHolds
<1> QED
  BY <1>1, <1>2, <1>4, Zenon DEF HoldInv

LEMMA StartInv ==
    ASSUME CaptureIInv, NEW m \in Managers, Start(m) \/ StartFails(m)
    PROVE  CaptureIInv'
<1> USE DEF mediaVars, pageVars, lobbyVars
<1>1. /\ TypeInv /\ LifeInv /\ HoldInv /\ CallbackInv /\ SourceInv /\ PageInv
      /\ MediaTypeOK
  BY DEF CaptureIInv, TypeInv
<1>2. Has("ui", "start", m)
  BY DEF Start, StartFails
<1>3. /\ ~m_submodel_initialized /\ obs # "ready" /\ Starting(todo["ui"], up)
      /\ todo["event"] = << >> /\ registered = {} /\ m_source_id = {}
  BY <1>2, Beginning DEF IsStarting
<1>4. todo["ui"] # << >> /\ Head(todo["ui"]) = Do("start", m)
  BY <1>2 DEF Has, Idle
<1>5. Quiet(todo["ui"]) /\ m_state_mutex = Nobody
  <2>1. "start" \in FixedWork \ {"detach", "stop"}
    BY DEF FixedWork
  <2>2. Quiet(todo["ui"])
    BY <1>4, <2>1, QuietHead
  <2> QED
    BY <1>3, <2>2, NobodyHolds DEF LockedHead
<1>6. ~m_submodel_initialized' /\ todo'["event"] = << >>
      /\ UNCHANGED <<m_state_mutex, m_capture_callback, m_source_id, device, m_selected, m_sources,
                     registered, frame, m_submodel_initialized, m_observers, mediaVars, pageVars>>
  <2>1. todo'["event"] = << >>
    BY <1>1, <1>3 DEF Start, StartFails, Then, Starts, TypeInv, Threads
  <2>2. CASE Start(m)
    BY <1>3, <2>1, <2>2 DEF Start, StartCapture, captureVars, managerVars, engineStateVars
  <2>3. CASE StartFails(m)
    BY <1>3, <2>1, <2>3 DEF StartFails, StartCaptureFails, captureVars, managerVars,
                            engineStateVars, engineVars, lifeVars
  <2> QED
    BY <2>2, <2>3
<1>7. PICK new : /\ todo' = [todo EXCEPT !["ui"] = new] /\ Quiet(new) /\ up' \subseteq Managers
                 /\ obs' \in {"off", "acquired", "ready"}
                 /\ \/ /\ up' = Managers /\ obs' = "ready" /\ new = Wiring
                    \/ obs' # "ready" /\ Starting(new, up')
                    \/ /\ obs' # "ready"
                       /\ \/ new = Stops3 /\ up' = {"service", "render", "transport"}
                          \/ new = Stops2 /\ up' = {"service", "render"}
                          \/ new = Stops1 /\ up' = {"service"}
                          \/ new = << >> /\ up' = {}
  <2>1. CASE Start(m)
    <3> DEFINE new == << >> \o Tail(todo["ui"])
    <3>1. todo' = [todo EXCEPT !["ui"] = new] /\ up' = up \cup {m}
      BY <1>1, <2>1 DEF Start, Then, TypeInv
    <3>2. \/ m = "capture" /\ up = {"service", "render", "transport"} /\ new = Wiring
          \/ m # "capture" /\ Starting(new, up \cup {m})
      BY <1>3, <1>4, StartingLists
    <3> HIDE DEF new
    <3>3. CASE m = "capture" /\ up = {"service", "render", "transport"} /\ new = Wiring
      <4>1. obs' = "ready"
        BY <2>1, <3>3 DEF Start, StartCapture, EngineStarts
      <4>2. up' = Managers
        BY <3>1, <3>3 DEF Managers
      <4> QED
        BY <3>1, <3>3, <4>1, <4>2, QuietLists
    <3>4. CASE m # "capture" /\ Starting(new, up \cup {m})
      <4>1. obs' = obs /\ up' \subseteq Managers
        BY <1>1, <2>1, <3>1, <3>4
           DEF Start, captureVars, engineStateVars, MediaTypeOK
      <4>2. Quiet(new)
        <5>1. "start" \in FixedWork \ {"detach", "stop"}
          BY DEF FixedWork
        <5> QED
          BY <3>4, <5>1, StartingHead, QuietHead
      <4> QED
        BY <1>1, <1>3, <3>1, <3>4, <4>1, <4>2 DEF MediaTypeOK
    <3> QED
      BY <3>2, <3>3, <3>4
  <2>2. CASE StartFails(m)
    <3>1. todo' = [todo EXCEPT !["ui"] = Undo] /\ up' = up
      BY <2>2 DEF StartFails, Starts, engineVars, lifeVars
    <3>2. obs' \in {"off", "acquired"}
      BY <1>1, <1>3, <2>2 DEF StartFails, StartCaptureFails, EngineInitFails, ObsRefuses,
            PluginMissing, SetupFails, captureVars, engineStateVars, MediaTypeOK
    <3>3. \/ Undo = Stops3 /\ up = {"service", "render", "transport"}
          \/ Undo = Stops2 /\ up = {"service", "render"}
          \/ Undo = Stops1 /\ up = {"service"}
          \/ Undo = << >> /\ up = {}
      <4>1. CASE up = {"service", "render", "transport"}
        <5>1. Undo = <<Do("stop", "transport")>> \o <<Do("stop", "render")>>
                     \o <<Do("stop", "service")>>
          BY <4>1 DEF Undo
        <5> QED
          BY <4>1, <5>1, ThreeTogether DEF Stops3
      <4>2. CASE up = {"service", "render"}
        <5>1. Undo = << >> \o <<Do("stop", "render")>> \o <<Do("stop", "service")>>
          BY <4>2 DEF Undo
        <5>2. <<Do("stop", "render")>> \o <<Do("stop", "service")>> = Stops2
          BY TwoTogether DEF Stops2
        <5>3. << >> \o <<Do("stop", "render")>> = <<Do("stop", "render")>>
          OBVIOUS
        <5> QED
          BY <4>2, <5>1, <5>2, <5>3
      <4>3. CASE up = {"service"}
        <5>1. Undo = << >> \o << >> \o <<Do("stop", "service")>>
          BY <4>3 DEF Undo
        <5> QED
          BY <4>3, <5>1 DEF Stops1
      <4>4. CASE up = {}
        <5>1. Undo = << >> \o << >> \o << >>
          BY <4>4 DEF Undo
        <5> QED
          BY <4>4, <5>1
      <4> QED
        BY <1>3, <4>1, <4>2, <4>3, <4>4 DEF Starting
    <3> DEFINE new == Undo
    <3>4. Quiet(new)
      <4>1. << >> \in Seq(PlainWork)
        OBVIOUS
      <4> QED
        BY <3>3, <4>1, QuietLists
    <3>5. up \subseteq Managers
      BY <1>1 DEF MediaTypeOK
    <3> HIDE DEF new
    <3> QED
      BY <3>1, <3>2, <3>3, <3>4, <3>5 DEF new
  <2> QED
    BY <2>1, <2>2
<1>8. LifeInv'
  <2>1. todo'["ui"] = new
    BY <1>1, <1>7, ListChanges DEF Threads
  <2>2. Ordinary(todo'["event"], {}) /\ Ordinary(<< >>, {})
    BY <1>6, EmptyIsOrdinary
  <2>3. CASE up' = Managers /\ obs' = "ready" /\ new = Wiring
    BY <1>6, <2>1, <2>2, <2>3 DEF LifeInv, IsWiring
  <2>4. CASE obs' # "ready" /\ Starting(new, up')
    <3>1. IsStarting'
      BY <1>3, <1>6, <2>1, <2>4 DEF IsStarting
    <3> QED
      BY <2>2, <3>1 DEF LifeInv
  <2>5. CASE /\ obs' # "ready"
             /\ \/ new = Stops3 /\ up' = {"service", "render", "transport"}
                \/ new = Stops2 /\ up' = {"service", "render"}
                \/ new = Stops1 /\ up' = {"service"}
                \/ new = << >> /\ up' = {}
    <3>1. IsEnding'
      BY <1>6, <2>1, <2>2, <2>5 DEF IsEnding
    <3> QED
      BY <2>2, <3>1 DEF LifeInv
  <2> QED
    BY <1>7, <2>3, <2>4, <2>5
<1>9. PageInv'
  <2>1. new \in {Starting4, Starting3, Starting2, Starting1, Wiring, Stops3, Stops2, Stops1, << >>}
    BY <1>7 DEF Starting
  <2>2. Without(new, Lists)
    BY <2>1, NothingMore
  <2>3. todo'["ui"] = new
    BY <1>1, <1>7, ListChanges DEF Threads
  <2> QED
    BY <1>1, <1>6, <2>2, <2>3 DEF PageInv, Selected
<1>10. HoldInv' /\ CallbackInv' /\ SourceInv'
  BY <1>1, <1>3, <1>5, <1>6, <1>7, FreeStep
<1>11. TypeInv'
  <2>1. MediaTypeOK'
    BY <1>1, <1>6, <1>7 DEF MediaTypeOK
  <2>2. todo' = [s \in Threads |-> todo'[s]]
    BY <1>1, <1>7, ListChanges DEF Threads
  <2> QED
    BY <1>1, <1>6, <2>1, <2>2 DEF TypeInv
<1> QED
  BY <1>8, <1>9, <1>10, <1>11 DEF CaptureIInv

\* Where the client is when the UI thread is at work of a known form.
LEMMA WhereFixed ==
    ASSUME CaptureIInv, NEW w \in FixedWork, NEW x, Has("ui", w, x)
    PROVE  /\ todo["ui"] # << >> /\ Head(todo["ui"]) = Do(w, x)
           /\ IF w \in {"start", "wire"} THEN IsStarting \/ IsWiring
              ELSE \/ /\ m_submodel_initialized /\ obs = "ready" /\ up = Managers
                      /\ Entering(todo["ui"]) \/ todo["ui"] = Observing
                   \/ /\ ~m_submodel_initialized /\ obs = "ready" /\ up = Managers
                      /\ todo["ui"] = Disconnecting \/ Detached
                   \/ /\ ~m_submodel_initialized /\ obs # "ready"
                      /\ \/ todo["ui"] = Stops3 /\ up = {"service", "render", "transport"}
                         \/ todo["ui"] = Stops2 /\ up = {"service", "render"}
                         \/ todo["ui"] = Stops1 /\ up = {"service"}
<1>1. LifeInv
  BY DEF CaptureIInv
<1>2. todo["ui"] # << >> /\ Head(todo["ui"]) = Do(w, x)
  BY DEF Has, Idle
<1>3. ~Ordinary(todo["ui"], {}) /\ ~Ordinary(todo["ui"], Uninits) /\ ~Ordinary(todo["ui"], Forgets)
  BY <1>2, NotFixed DEF Ends
<1>4. CASE w \in {"start", "wire"}
  BY <1>2, <1>4, Beginning
<1>5. CASE w \notin {"start", "wire"}
  <2>1. \A m : Do(w, x) # Do("start", m) /\ Do(w, x) # Do("wire", m)
    BY <1>5, SMT DEF Do
  <2>2. ~IsStarting /\ ~IsWiring
    BY <1>2, <2>1, StartingHead, HeadsOfLists DEF IsStarting, IsWiring
  <2>3. IsRunning \/ IsClosing \/ IsEnding
    BY <1>1, <2>2 DEF LifeInv
  <2> QED
    BY <1>2, <1>3, <1>5, <2>3 DEF IsRunning, IsClosing, IsEnding
<1> QED
  BY <1>4, <1>5

LEMMA WhereEntering ==
    ASSUME CaptureIInv, NEW w \in {"select", "request", "room", "accept", "enter"}, NEW x,
           Has("ui", w, x)
    PROVE  /\ m_submodel_initialized /\ obs = "ready" /\ up = Managers
           /\ Entering(todo["ui"]) /\ Quiet(todo["ui"])
           /\ todo["ui"] # << >> /\ Head(todo["ui"]) = Do(w, x)
<1>1. w \in FixedWork \ {"detach", "stop"} /\ w \notin {"start", "wire"}
  BY DEF FixedWork
<1>2. todo["ui"] # << >> /\ Head(todo["ui"]) = Do(w, x)
  BY <1>1, WhereFixed
<1>3. \A v \in {"observe", "disconnect", "detach", "stop"} : \A y : Do(v, y) # Do(w, x)
  BY SMT DEF Do
<1>4. todo["ui"] \notin {Observing, Disconnecting, Detaching2, Detaching1, Emptying, Stops3, Stops2,
                         Stops1}
  BY <1>2, <1>3, HeadsOfLists
<1>5. Quiet(todo["ui"])
  BY <1>1, <1>2, QuietHead
<1> QED
  BY <1>1, <1>2, <1>4, <1>5, WhereFixed DEF Detached

LEMMA WireInv ==
    ASSUME CaptureIInv, Wire \/ Observe
    PROVE  CaptureIInv'
<1> USE DEF mediaVars, pageVars, lobbyVars, captureVars, managerVars
<1>1. /\ TypeInv /\ LifeInv /\ PageInv
      /\ MediaTypeOK
  BY DEF CaptureIInv, TypeInv
<1>2. CASE Wire
  <2>1. /\ Has("ui", "wire", "engine")
        /\ m_capture_callback' = TRUE /\ m_submodel_initialized' = TRUE
        /\ UNCHANGED <<up, m_observers, mediaVars, m_state_mutex, m_source_id, device, m_selected,
                       engineStateVars, frame, pageVars>>
    BY <1>2 DEF Wire
  <2>2. obs = "ready" /\ up = Managers /\ todo["ui"] = Wiring
    BY <2>1, Beginning DEF IsWiring
  <2>3. todo' = [todo EXCEPT !["ui"] = Observing]
    <3>1. << >> \o Tail(todo["ui"]) = Observing
      BY <2>2, HeadsOfLists, NothingMore
    <3>2. todo' = [todo EXCEPT !["ui"] = << >> \o Tail(todo["ui"])]
      BY <1>1, <1>2 DEF Wire, Then, TypeInv
    <3> QED
      BY <3>1, <3>2
  <2>4. todo'["ui"] = Observing /\ todo'["event"] = todo["event"]
    BY <1>1, <2>3, ListChanges DEF Threads
  <2>5. LifeInv'
    BY <1>1, <2>1, <2>2, <2>4 DEF LifeInv, IsRunning, engineStateVars
  <2>6. PageInv'
    BY <1>1, <2>1, <2>4, NothingMore DEF PageInv, Selected
  <2>7. MediaTypeOK'
    BY <1>1, <2>1 DEF MediaTypeOK, engineStateVars
  <2>8. choice' \in [Kinds -> Cameras \cup Mics \cup {NoDevice}]
    BY <1>1, <2>1 DEF TypeInv
  <2> QED
    BY <2>1, <2>2, <2>3, <2>5, <2>6, <2>7, <2>8, QuietUi, QuietLists
<1>3. CASE Observe
  <2>1. /\ Has("ui", "observe", "engine") /\ m_observers' = TRUE
        /\ UNCHANGED <<up, m_submodel_initialized, mediaVars, captureVars, pageVars>>
    BY <1>3 DEF Observe
  <2>2. m_submodel_initialized /\ obs = "ready" /\ up = Managers /\ todo["ui"] = Observing
    <3>1. "observe" \in FixedWork /\ "observe" \notin {"start", "wire"}
      BY DEF FixedWork
    <3>2. Head(todo["ui"]) = Do("observe", "engine")
      BY <2>1 DEF Has, Idle
    <3>3. ~Entering(todo["ui"])
      <4>1. \A v \in {"select", "request", "room", "accept", "enter"} :
               \A y : Do(v, y) # Do("observe", "engine")
        BY SMT DEF Do
      <4> QED
        BY <3>2, <4>1, EnteringHead
    <3>4. \A v \in {"disconnect", "detach", "stop"} : \A y : Do(v, y) # Do("observe", "engine")
      BY SMT DEF Do
    <3>5. todo["ui"] \notin {Disconnecting, Detaching2, Detaching1, Emptying, Stops3, Stops2,
                             Stops1}
      BY <3>2, <3>4, HeadsOfLists, SMTT(30)
    <3> QED
      BY <2>1, <3>1, <3>3, <3>5, WhereFixed DEF Detached
  <2>3. todo' = [todo EXCEPT !["ui"] = << >>]
    <3>1. << >> \o Tail(todo["ui"]) = << >>
      BY <2>2, HeadsOfLists, NothingMore
    <3>2. todo' = [todo EXCEPT !["ui"] = << >> \o Tail(todo["ui"])]
      BY <1>1, <1>3 DEF Observe, Then, TypeInv
    <3> QED
      BY <3>1, <3>2
  <2>4. todo'["ui"] = << >> /\ todo'["event"] = todo["event"]
    BY <1>1, <2>3, ListChanges DEF Threads
  <2>5. LifeInv'
    BY <1>1, <2>1, <2>2, <2>4, EmptyIsOrdinary DEF LifeInv, IsRunning, engineStateVars
  <2>6. PageInv'
    BY <1>1, <2>1, <2>4, EmptyIsOrdinary DEF PageInv, Selected
  <2>7. MediaTypeOK'
    BY <1>1, <2>1 DEF MediaTypeOK, engineStateVars
  <2>8. choice' \in [Kinds -> Cameras \cup Mics \cup {NoDevice}]
    BY <1>1, <2>1 DEF TypeInv
  <2>9. Quiet(<< >>) /\ Quiet(todo["ui"])
    <3>1. << >> \in Seq(PlainWork)
      OBVIOUS
    <3> QED
      BY <2>2, <3>1, QuietLists
  <2>10. UNCHANGED <<m_state_mutex, m_source_id, device, m_selected, engineStateVars>>
    BY <2>1
  <2> QED
    BY <2>3, <2>5, <2>6, <2>7, <2>8, <2>9, <2>10, QuietUi
<1> QED
  BY <1>2, <1>3

-----------------------------------------------------------------------------
(* A meeting is entered.                                                    *)

LEMMA HeadsOfEntering ==
    /\ Head(<<Do("request", "meeting")>>) = Do("request", "meeting")
    /\ Tail(<<Do("request", "meeting")>>) = << >>
    /\ Head(<<Do("room", "meeting"), Do("accept", "meeting"), Do("enter", "meeting")>>)
          = Do("room", "meeting")
    /\ Tail(<<Do("room", "meeting"), Do("accept", "meeting"), Do("enter", "meeting")>>)
          = <<Do("accept", "meeting"), Do("enter", "meeting")>>
    /\ Head(<<Do("accept", "meeting"), Do("enter", "meeting")>>) = Do("accept", "meeting")
    /\ Tail(<<Do("accept", "meeting"), Do("enter", "meeting")>>) = <<Do("enter", "meeting")>>
    /\ Head(<<Do("enter", "meeting")>>) = Do("enter", "meeting")
    /\ Tail(<<Do("enter", "meeting")>>) = << >>
OBVIOUS

\* What the head says of the list.
LEMMA EnteringLists ==
    ASSUME NEW list, Entering(list), NEW w, NEW x, Head(list) = Do(w, x)
    PROVE  /\ ~page /\ user
           /\ w = "select" => \/ x = "camera" /\ list = Selecting /\ joined < MaxMeetings
                              \/ /\ x = "mic" /\ list = Selecting2 /\ joined < MaxMeetings
                                 /\ Selected("camera")
           /\ w \in {"request", "room", "accept", "enter"} => \A k \in Kinds : Selected(k)
           /\ w = "request" => list = <<Do("request", "meeting")>> /\ joined < MaxMeetings
           /\ w = "room" => /\ joined < MaxMeetings
                            /\ list = <<Do("room", "meeting"), Do("accept", "meeting"),
                                        Do("enter", "meeting")>>
           /\ w = "accept" => list = <<Do("accept", "meeting"), Do("enter", "meeting")>>
           /\ w = "enter" => list = <<Do("enter", "meeting")>>
<1>1. \A v, y : Do(v, y) = Do(w, x) <=> v = w /\ y = x
  BY SMT DEF Do
<1>2. CASE list = Selecting
  BY <1>1, <1>2, HeadsOfLists, SMTT(30) DEF Entering
<1>3. CASE list = Selecting2 /\ Selected("camera")
  BY <1>1, <1>3, HeadsOfLists, SMTT(30) DEF Entering
<1>4. CASE list = <<Do("request", "meeting")>>
  BY <1>1, <1>4, HeadsOfEntering, HeadsOfLists, SMTT(30) DEF Entering
<1>5. CASE list = <<Do("room", "meeting"), Do("accept", "meeting"), Do("enter", "meeting")>>
  BY <1>1, <1>5, HeadsOfEntering, HeadsOfLists, SMTT(30) DEF Entering
<1>6. CASE list = <<Do("accept", "meeting"), Do("enter", "meeting")>>
  BY <1>1, <1>6, HeadsOfEntering, HeadsOfLists, SMTT(30) DEF Entering
<1>7. CASE list = <<Do("enter", "meeting")>>
  BY <1>1, <1>7, HeadsOfEntering, HeadsOfLists DEF Entering
<1> QED
  BY <1>2, <1>3, <1>4, <1>5, <1>6, <1>7 DEF Entering

\* A step of the UI thread after which the client runs.
LEMMA RunningStep ==
    ASSUME CaptureIInv, MediaTypeOK', choice' \in [Kinds -> Cameras \cup Mics \cup {NoDevice}],
           NEW new, todo' = [todo EXCEPT !["ui"] = new], Quiet(todo["ui"]),
           m_submodel_initialized', up' = Managers, obs' = "ready",
           UNCHANGED <<m_state_mutex, m_source_id, device, m_selected, engineStateVars>>,
           new \in Seq(PlainWork) \/ Entering(new)',
           page' => user' /\ Without(new, Lists) /\ \A k \in Kinds : Selected(k)'
    PROVE  CaptureIInv'
<1>1. TypeInv /\ LifeInv
  BY DEF CaptureIInv
<1>2. todo'["ui"] = new /\ todo'["event"] = todo["event"]
  BY <1>1, ListChanges DEF Threads
<1>3. Quiet(new)
  <2>1. ASSUME Entering(new)' PROVE Quiet(new)
    <3>1. \E w \in {"select", "request", "room", "accept", "enter"} : \E x : Head(new) = Do(w, x)
      <4>1. new \in {Selecting, Selecting2} \/ new \in
               {<<Do("request", "meeting")>>, <<Do("enter", "meeting")>>,
                <<Do("accept", "meeting"), Do("enter", "meeting")>>,
                <<Do("room", "meeting"), Do("accept", "meeting"), Do("enter", "meeting")>>}
        BY <2>1 DEF Entering
      <4> QED
        BY <4>1, HeadsOfEntering, HeadsOfLists
    <3>2. {"select", "request", "room", "accept", "enter"} \subseteq FixedWork \ {"detach", "stop"}
      BY DEF FixedWork
    <3> QED
      BY <3>1, <3>2, QuietHead
  <2> QED
    BY <2>1, QuietLists
<1>4. LifeInv'
  <2>1. new \in Seq(PlainWork) => Ordinary(new, {})
    BY PlainLists
  <2>2. Ordinary(todo'["ui"], {}) \/ Entering(todo["ui"])'
    BY <1>2, <2>1 DEF Entering, Selected
  <2>3. IsRunning'
    BY <2>2 DEF IsRunning
  <2> QED
    BY <1>1, <1>2, <2>3 DEF LifeInv
<1>5. PageInv'
  BY <1>2 DEF PageInv
<1> QED
  BY <1>3, <1>4, <1>5, QuietUi

LEMMA SelectInv ==
    ASSUME CaptureIInv, NEW k \in Kinds, Select(k)
    PROVE  CaptureIInv'
<1> USE DEF engineVars, lifeVars, mediaVars, pageVars, lobbyVars
<1>1. /\ TypeInv /\ LifeInv /\ HoldInv /\ CallbackInv /\ SourceInv
      /\ MediaTypeOK
  BY DEF CaptureIInv, TypeInv
<1>2. /\ Has("ui", "select", k) /\ m_state_mutex = Nobody
      /\ m_selected' = [m_selected EXCEPT ![k] = choice[k]]
      /\ device' = IF k \in m_source_id THEN [device EXCEPT ![k] = choice[k]] ELSE device
      /\ UNCHANGED <<m_state_mutex, m_capture_callback, m_source_id, obs, m_sources, registered,
                     frame, engineVars, pageVars>>
  BY DEF Select, UpdateDevice, Unlocked, SetDevice, engineStateVars
<1>3. /\ m_submodel_initialized /\ obs = "ready" /\ up = Managers
      /\ Entering(todo["ui"]) /\ Head(todo["ui"]) = Do("select", k)
  BY <1>2, WhereEntering
<1>4. /\ ~page /\ user /\ joined < MaxMeetings
      /\ \/ k = "camera" /\ todo["ui"] = Selecting
         \/ k = "mic" /\ todo["ui"] = Selecting2 /\ Selected("camera")
  BY <1>3, EnteringLists
<1>5. Selected(k)' /\ \A j \in Kinds \ {k} : Selected(j) => Selected(j)'
  BY <1>1, <1>2 DEF Selected, TypeInv
<1>6. PICK new : /\ todo' = [todo EXCEPT !["ui"] = new] /\ Quiet(new) /\ Entering(new)'
  <2>1. todo' = [todo EXCEPT !["ui"] = << >> \o Tail(todo["ui"])]
    BY <1>1 DEF Select, Then, TypeInv
  <2>2. CASE k = "camera" /\ todo["ui"] = Selecting
    <3>1. << >> \o Tail(todo["ui"]) = Selecting2
      BY <2>2, HeadsOfLists, NothingMore
    <3>2. Entering(Selecting2)'
      BY <1>2, <1>4, <1>5, <2>2 DEF Entering
    <3> QED
      BY <2>1, <3>1, <3>2, QuietLists
  <2>3. CASE k = "mic" /\ todo["ui"] = Selecting2 /\ Selected("camera")
    <3>1. << >> \o Tail(todo["ui"]) = <<Do("request", "meeting")>>
      BY <2>3, HeadsOfLists, NothingMore
    <3>2. \A j \in Kinds : Selected(j)'
      BY <1>5, <2>3 DEF Kinds
    <3>3. Entering(<<Do("request", "meeting")>>)'
      BY <1>2, <1>4, <3>2 DEF Entering
    <3>4. Quiet(<<Do("request", "meeting")>>)
      <4>1. "request" \in FixedWork \ {"detach", "stop"}
        BY DEF FixedWork
      <4> QED
        BY <4>1, QuietHead, HeadsOfEntering
    <3> QED
      BY <2>1, <3>1, <3>3, <3>4
  <2> QED
    BY <1>4, <2>2, <2>3
<1>7. todo'["ui"] = new /\ todo'["event"] = todo["event"]
      /\ todo' = [s \in Threads |-> todo'[s]]
  BY <1>1, <1>6, ListChanges DEF Threads
<1>8. HoldInv' /\ CallbackInv' /\ SourceInv'
  <2>1. obs' # "ready" => m_source_id = {}
    BY <1>2, <1>3
  <2>2. \A j \in m_source_id : device'[j] = m_selected'[j]
    BY <1>1, <1>2 DEF SourceInv, TypeInv, MediaTypeOK
  <2> QED
    BY <1>1, <1>2, <1>6, <2>1, <2>2, FreeStep
<1>9. TypeInv'
  <2>1. choice[k] \in Devices[k] \cup {NoDevice} /\ choice[k] \in Cameras \cup Mics \cup {NoDevice}
    BY <1>1 DEF MediaTypeOK, TypeInv
  <2>2. MediaTypeOK'
    BY <1>1, <1>2, <2>1 DEF MediaTypeOK, TypeInv
  <2>3. {device, m_selected, choice}' \subseteq [Kinds -> Cameras \cup Mics \cup {NoDevice}]
    BY <1>1, <1>2, <2>1 DEF TypeInv
  <2> QED
    BY <1>7, <2>2, <2>3 DEF TypeInv
<1>10. LifeInv'
  <2>1. IsRunning'
    BY <1>2, <1>3, <1>6, <1>7 DEF IsRunning, Entering, Selected
  <2> QED
    BY <1>1, <1>7, <2>1 DEF LifeInv
<1>11. PageInv'
  BY <1>2, <1>4 DEF PageInv
<1> QED
  BY <1>8, <1>9, <1>10, <1>11 DEF CaptureIInv

LEMMA JoinInv ==
    ASSUME CaptureIInv, Join \/ JoinRefused
    PROVE  CaptureIInv'
<1> USE DEF engineVars, lifeVars, mediaVars, pageVars, lobbyVars, captureVars, managerVars
<1>1. TypeInv /\ MediaTypeOK
  BY DEF CaptureIInv, TypeInv
<1>2. /\ Has("ui", "request", "meeting") /\ listening' \in BOOLEAN
      /\ UNCHANGED <<engineVars, captureVars, lobbyVars, page, shown, notice, joined>>
  BY <1>1 DEF Join, JoinRefused, MediaTypeOK
<1>3. /\ m_submodel_initialized /\ obs = "ready" /\ up = Managers /\ Quiet(todo["ui"])
      /\ Entering(todo["ui"]) /\ Head(todo["ui"]) = Do("request", "meeting")
  BY <1>2, WhereEntering
<1>4. /\ ~page /\ user /\ joined < MaxMeetings /\ todo["ui"] = <<Do("request", "meeting")>>
      /\ \A k \in Kinds : Selected(k)
  BY <1>3, EnteringLists
<1>5. PICK new : /\ todo' = [todo EXCEPT !["ui"] = new]
                 /\ new \in Seq(PlainWork) \/ Entering(new)'
  <2>1. CASE Join
    <3> DEFINE new == <<Do("room", "meeting"), Do("accept", "meeting"), Do("enter", "meeting")>>
    <3>1. todo' = [todo EXCEPT !["ui"] = new \o Tail(todo["ui"])]
      BY <1>1, <2>1 DEF Join, Then, TypeInv
    <3>2. new \o Tail(todo["ui"]) = new
      BY <1>4
    <3>3. Entering(new)'
      BY <1>2, <1>4 DEF Entering, Selected
    <3> HIDE DEF new
    <3> QED
      BY <3>1, <3>2, <3>3
  <2>2. CASE JoinRefused
    <3>1. todo' = [todo EXCEPT !["ui"] = << >> \o Tail(todo["ui"])]
      BY <1>1, <2>2 DEF JoinRefused, Then, TypeInv
    <3>2. << >> \o Tail(todo["ui"]) = << >>
      BY <1>4, HeadsOfEntering, NothingMore
    <3>3. << >> \in Seq(PlainWork)
      OBVIOUS
    <3> QED
      BY <3>1, <3>2, <3>3
  <2> QED
    BY <2>1, <2>2 DEF Join, JoinRefused
<1>6. MediaTypeOK'
  BY <1>1, <1>2 DEF MediaTypeOK, engineStateVars
<1>7. choice' \in [Kinds -> Cameras \cup Mics \cup {NoDevice}] /\ ~page'
  BY <1>1, <1>2, <1>4 DEF TypeInv
<1>8. /\ m_submodel_initialized' /\ up' = Managers /\ obs' = "ready"
      /\ UNCHANGED <<m_state_mutex, m_source_id, device, m_selected, engineStateVars>>
  BY <1>2, <1>3 DEF engineStateVars
<1> QED
  BY <1>3, <1>5, <1>6, <1>7, <1>8, RunningStep

LEMMA RoomInv ==
    ASSUME CaptureIInv, SetRoom \/ SetRoomFails
    PROVE  CaptureIInv'
<1> USE DEF engineVars, lifeVars, mediaVars, pageVars, lobbyVars, captureVars, managerVars
<1>1. TypeInv /\ MediaTypeOK
  BY DEF CaptureIInv, TypeInv
<1>2. /\ Has("ui", "room", "meeting")
      /\ joined' = joined \/ (joined' = joined + 1 /\ m_current_meeting_id' = joined')
      /\ joined' = joined => m_current_meeting_id' = m_current_meeting_id
      /\ UNCHANGED <<lifeVars, m_accept_media_callbacks, m_open, publishing, captureVars,
                     lobbyVars, page, shown, notice, listening>>
  BY <1>1 DEF SetRoom, SetRoomFails, MediaTypeOK
<1>3. /\ m_submodel_initialized /\ obs = "ready" /\ up = Managers /\ Quiet(todo["ui"])
      /\ Entering(todo["ui"]) /\ Head(todo["ui"]) = Do("room", "meeting")
  BY <1>2, WhereEntering
<1>4. /\ ~page /\ user /\ joined < MaxMeetings /\ \A k \in Kinds : Selected(k)
      /\ todo["ui"] = <<Do("room", "meeting"), Do("accept", "meeting"), Do("enter", "meeting")>>
  BY <1>3, EnteringLists
<1>5. PICK new : /\ todo' = [todo EXCEPT !["ui"] = new]
                 /\ new \in Seq(PlainWork) \/ Entering(new)'
  <2>1. CASE SetRoom
    <3>1. todo' = [todo EXCEPT !["ui"] = << >> \o Tail(todo["ui"])]
      BY <1>1, <2>1 DEF SetRoom, Then, TypeInv
    <3>2. << >> \o Tail(todo["ui"]) = <<Do("accept", "meeting"), Do("enter", "meeting")>>
      BY <1>4, HeadsOfEntering, NothingMore
    <3>3. Entering(<<Do("accept", "meeting"), Do("enter", "meeting")>>)'
      BY <1>2, <1>4 DEF Entering, Selected
    <3> QED
      BY <3>1, <3>2, <3>3
  <2>2. CASE SetRoomFails
    <3>1. PICK new \in {<< >>, <<Do("join", "thread")>>} : todo' = [todo EXCEPT !["ui"] = new]
      BY <2>2 DEF SetRoomFails, Starts
    <3>2. << >> \in Seq(PlainWork) /\ <<Do("join", "thread")>> \in Seq(PlainWork)
      BY Calls DEF CallWork
    <3> QED
      BY <3>1, <3>2
  <2> QED
    BY <2>1, <2>2
<1>6. MediaTypeOK'
  BY <1>1, <1>2, <1>4, CaptureAssumption DEF MediaTypeOK, engineStateVars, CaptureAssumption
<1>7. choice' \in [Kinds -> Cameras \cup Mics \cup {NoDevice}] /\ ~page'
  BY <1>1, <1>2, <1>4 DEF TypeInv
<1>8. /\ m_submodel_initialized' /\ up' = Managers /\ obs' = "ready"
      /\ UNCHANGED <<m_state_mutex, m_source_id, device, m_selected, engineStateVars>>
  BY <1>2, <1>3 DEF engineStateVars
<1> QED
  BY <1>3, <1>5, <1>6, <1>7, <1>8, RunningStep

LEMMA AcceptMediaInv ==
    ASSUME CaptureIInv, AcceptMedia
    PROVE  CaptureIInv'
<1> USE DEF engineVars, lifeVars, mediaVars, pageVars, lobbyVars, captureVars, managerVars
<1>1. TypeInv /\ MediaTypeOK
  BY DEF CaptureIInv, TypeInv
<1>2. /\ Has("ui", "accept", "meeting") /\ m_accept_media_callbacks' = TRUE
      /\ UNCHANGED <<lifeVars, m_current_meeting_id, m_open, publishing, captureVars, pageVars>>
  BY DEF AcceptMedia
<1>3. /\ m_submodel_initialized /\ obs = "ready" /\ up = Managers /\ Quiet(todo["ui"])
      /\ Entering(todo["ui"]) /\ Head(todo["ui"]) = Do("accept", "meeting")
  BY <1>2, WhereEntering
<1>4. /\ ~page /\ user /\ \A k \in Kinds : Selected(k)
      /\ todo["ui"] = <<Do("accept", "meeting"), Do("enter", "meeting")>>
  BY <1>3, EnteringLists
<1>5. todo' = [todo EXCEPT !["ui"] = <<Do("enter", "meeting")>>]
  <2>1. todo' = [todo EXCEPT !["ui"] = << >> \o Tail(todo["ui"])]
    BY <1>1 DEF AcceptMedia, Then, TypeInv
  <2>2. << >> \o Tail(todo["ui"]) = <<Do("enter", "meeting")>>
    BY <1>4, HeadsOfEntering, NothingMore
  <2> QED
    BY <2>1, <2>2
<1>6. Entering(<<Do("enter", "meeting")>>)'
  BY <1>2, <1>4 DEF Entering, Selected
<1>7. MediaTypeOK'
  BY <1>1, <1>2 DEF MediaTypeOK, engineStateVars
<1>8. choice' \in [Kinds -> Cameras \cup Mics \cup {NoDevice}] /\ ~page'
  BY <1>1, <1>2, <1>4 DEF TypeInv
<1>9. /\ m_submodel_initialized' /\ up' = Managers /\ obs' = "ready"
      /\ UNCHANGED <<m_state_mutex, m_source_id, device, m_selected, engineStateVars>>
  BY <1>2, <1>3 DEF engineStateVars
<1> QED
  BY <1>3, <1>5, <1>6, <1>7, <1>8, <1>9, RunningStep

LEMMA EnterInv ==
    ASSUME CaptureIInv, Enter \/ SubscribeFails
    PROVE  CaptureIInv'
<1> USE DEF engineVars, lifeVars, mediaVars, pageVars, lobbyVars, captureVars, managerVars
<1>1. TypeInv /\ MediaTypeOK
  BY DEF CaptureIInv, TypeInv
<1>2. /\ Has("ui", "enter", "meeting") /\ page' \in BOOLEAN /\ shown' \subseteq Kinds
      /\ UNCHANGED <<engineVars, captureVars, lobbyVars, notice, listening, joined>>
  BY <1>1 DEF Enter, SubscribeFails, MediaTypeOK
<1>3. /\ m_submodel_initialized /\ obs = "ready" /\ up = Managers /\ Quiet(todo["ui"])
      /\ Entering(todo["ui"]) /\ Head(todo["ui"]) = Do("enter", "meeting")
  BY <1>2, WhereEntering
<1>4. /\ ~page /\ user /\ \A k \in Kinds : Selected(k)
      /\ todo["ui"] = <<Do("enter", "meeting")>>
  BY <1>3, EnteringLists
<1>5. << >> \in Seq(CallWork) /\ <<Do("cleanup", "meeting")>> \o << >> \in Seq(CallWork)
      /\ <<Do("cleanup", "meeting")>> \o <<Do("join", "thread")>> \in Seq(CallWork)
  <2>1. Do("cleanup", "meeting") \in CallWork /\ Do("join", "thread") \in CallWork
    BY Calls
  <2> QED
    BY <2>1
<1>6. PICK new \in Seq(CallWork) : todo' = [todo EXCEPT !["ui"] = new]
  <2>1. CASE Enter
    <3>1. todo' = [todo EXCEPT !["ui"] = << >> \o Tail(todo["ui"])]
      BY <1>1, <2>1 DEF Enter, Then, TypeInv
    <3>2. << >> \o Tail(todo["ui"]) = << >>
      BY <1>4, HeadsOfEntering, NothingMore
    <3> QED
      BY <1>5, <3>1, <3>2
  <2>2. CASE SubscribeFails
    <3>1. PICK rest \in {<< >>, <<Do("join", "thread")>>} :
             todo' = [todo EXCEPT !["ui"] = <<Do("cleanup", "meeting")>> \o rest]
      BY <2>2 DEF SubscribeFails, Starts
    <3> QED
      BY <1>5, <3>1
  <2> QED
    BY <2>1, <2>2
<1>7. MediaTypeOK'
  BY <1>1, <1>2 DEF MediaTypeOK, engineStateVars
<1>8. choice' \in [Kinds -> Cameras \cup Mics \cup {NoDevice}]
      /\ user' /\ \A k \in Kinds : Selected(k)'
  BY <1>1, <1>2, <1>4 DEF TypeInv, Selected
<1>9. /\ m_submodel_initialized' /\ up' = Managers /\ obs' = "ready"
      /\ UNCHANGED <<m_state_mutex, m_source_id, device, m_selected, engineStateVars>>
  BY <1>2, <1>3 DEF engineStateVars
<1>10. new \in Seq(PlainWork) /\ Without(new, Lists)
  BY CallLists
<1> QED
  BY <1>3, <1>6, <1>7, <1>8, <1>9, <1>10, RunningStep

-----------------------------------------------------------------------------
(* The user, and the end of a meeting.                                      *)

\* Between two calls the client runs, or has not started or ended.
LEMMA IdleUi ==
    ASSUME CaptureIInv, Idle("ui")
    PROVE  /\ todo["ui"] = << >> /\ Quiet(todo["ui"])
           /\ \/ m_submodel_initialized /\ obs = "ready" /\ up = Managers
              \/ ~m_submodel_initialized /\ obs # "ready" /\ up = {}
<1>1. todo["ui"] = << >> /\ LifeInv
  BY DEF Idle, CaptureIInv
<1>2. << >> \in Seq(PlainWork)
  OBVIOUS
<1>3. Quiet(todo["ui"])
  BY <1>1, <1>2, QuietLists
<1>4. ~Ordinary(todo["ui"], Forgets) /\ ~Ordinary(todo["ui"], Uninits)
  BY <1>1 DEF Ordinary, Forgets, Uninits
<1>5. Usually
  BY <1>1, UsualLife
<1> QED
  BY <1>1, <1>3, <1>4, <1>5 DEF Usually

\* A call begins, or one is over.
LEMMA IdleStep ==
    ASSUME CaptureIInv, MediaTypeOK',
           \/ m_submodel_initialized /\ obs = "ready" /\ up = Managers
           \/ ~m_submodel_initialized /\ obs # "ready" /\ up = {},
           NEW new \in Seq(PlainWork), todo' = [todo EXCEPT !["ui"] = new], Quiet(todo["ui"]),
           UNCHANGED <<up, m_submodel_initialized, choice, m_state_mutex, m_source_id, device,
                       m_selected, engineStateVars>>,
           page' => page /\ user' /\ Without(new, Lists)
    PROVE  CaptureIInv'
<1>1. TypeInv /\ LifeInv /\ PageInv
  BY DEF CaptureIInv
<1>2. todo'["ui"] = new /\ todo'["event"] = todo["event"]
  BY <1>1, ListChanges DEF Threads
<1>3. Ordinary(new, {}) /\ Quiet(new)
  BY PlainLists, QuietLists
<1>4. LifeInv'
  <2>1. Ordinary(todo'["event"], {})
    BY <1>1, <1>2 DEF LifeInv
  <2>2. UNCHANGED <<up, m_submodel_initialized, obs>>
    BY DEF engineStateVars
  <2> QED
    BY <1>2, <1>3, <2>1, <2>2 DEF LifeInv, IsRunning, IsEnding
<1>5. PageInv'
  <2>1. \A k \in Kinds : Selected(k)' <=> Selected(k)
    BY DEF Selected
  <2> QED
    BY <1>1, <1>2, <2>1 DEF PageInv
<1>6. choice' \in [Kinds -> Cameras \cup Mics \cup {NoDevice}]
  BY <1>1 DEF TypeInv
<1> QED
  BY <1>3, <1>4, <1>5, <1>6, QuietUi

LEMMA PageLists ==
    /\ CloseLocalMedia \in Seq(CallWork)
    /\ ListDevices \in Seq(PlainWork)
    /\ \A list \in Seq(PlainWork \ Lists) : list \in Seq(PlainWork) /\ Without(list, Lists)
    /\ \A list \in Seq(CallWork) : list \in Seq(PlainWork \ Lists)
    /\ <<Do("leave", "page"), Do("exit", "page")>> \in Seq(PlainWork \ Lists)
<1>1. \A k \in Kinds : <<Do("close", k), Do("hide", k)>> \in Seq(CallWork)
  <2> SUFFICES ASSUME NEW k \in Kinds PROVE <<Do("close", k), Do("hide", k)>> \in Seq(CallWork)
    OBVIOUS
  <2>1. Do("close", k) \in CallWork /\ Do("hide", k) \in CallWork
    BY Calls
  <2> QED
    BY <2>1
<1>2. <<Do("close", "camera"), Do("hide", "camera")>> \in Seq(CallWork)
      /\ <<Do("close", "mic"), Do("hide", "mic")>> \in Seq(CallWork)
  BY <1>1 DEF Kinds
<1>3. CloseLocalMedia \in Seq(CallWork)
  <2> DEFINE A == IF "camera" \in shown THEN <<Do("close", "camera"), Do("hide", "camera")>>
                  ELSE << >>
             B == IF "mic" \in shown THEN <<Do("close", "mic"), Do("hide", "mic")>> ELSE << >>
  <2>1. A \in Seq(CallWork) /\ B \in Seq(CallWork)
    BY <1>2
  <2>2. CloseLocalMedia = A \o B
    BY DEF CloseLocalMedia
  <2> HIDE DEF A, B
  <2> QED
    BY <2>1, <2>2, ConcatProperties
<1>4. ListDevices \in Seq(PlainWork)
  <2>1. Do("list", "camera") \in Lists /\ Do("list", "mic") \in Lists /\ Lists \subseteq PlainWork
    <3>1. Lists \subseteq PlainWork
      BY Calls
    <3> QED
      BY <3>1, SMT DEF Lists, Kinds, Do
  <2> QED
    BY <2>1 DEF ListDevices
<1>5. \A list \in Seq(PlainWork \ Lists) : list \in Seq(PlainWork) /\ Without(list, Lists)
  <2> SUFFICES ASSUME NEW list \in Seq(PlainWork \ Lists)
               PROVE  list \in Seq(PlainWork) /\ Without(list, Lists)
    OBVIOUS
  <2>1. list \in Seq(PlainWork)
    BY SeqMonotonic, PlainWork \ Lists \subseteq PlainWork, Zenon
  <2>2. \A i \in DOMAIN list : list[i] \in PlainWork \ Lists
    BY ElementOfSeq, LenProperties
  <2> QED
    BY <2>1, <2>2 DEF Without
<1>6. \A list \in Seq(CallWork) : list \in Seq(PlainWork \ Lists)
  <2>1. CallWork \subseteq PlainWork \ Lists
    BY DEF CallWork
  <2> QED
    BY <2>1, SeqMonotonic, Zenon
<1>7. <<Do("leave", "page"), Do("exit", "page")>> \in Seq(PlainWork \ Lists)
  <2>1. Do("leave", "page") \in PlainWork \ Lists /\ Do("exit", "page") \in PlainWork \ Lists
    BY SMT DEF PlainWork, Lists, Do
  <2> QED
    BY <2>1
<1> QED
  BY <1>3, <1>4, <1>5, <1>6, <1>7

\* A list that ends with what ends the engine's life.
LEMMA Finishing ==
    ASSUME NEW s \in Seq(PlainWork), NEW a \in PlainWork, NEW e, {e} \in Ends
    PROVE  /\ Ordinary(s \o <<a, e>>, {e}) /\ Quiet(s \o <<a, e>>)
           /\ \A works : Without(s, works) /\ a \notin works /\ e \notin works =>
                 Without(s \o <<a, e>>, works)
<1> DEFINE S == PlainWork \cup LockedWork \cup {e}
           two == <<a, e>>
           new == s \o two
<1>1. /\ s \in Seq(S) /\ two \in Seq(S) /\ Len(two) = 2 /\ two[1] = a /\ two[2] = e
      /\ Len(s) \in Nat /\ DOMAIN s = 1..Len(s)
      /\ \A i \in 1..Len(s) : s[i] \in PlainWork
  <2>1. s \in Seq(S)
    BY SeqMonotonic, PlainWork \subseteq S, Zenon
  <2>2. \A i \in 1..Len(s) : s[i] \in PlainWork
    BY ElementOfSeq
  <2> QED
    BY <2>1, <2>2, LenProperties
<1>2. e \notin PlainWork \cup LockedWork /\ e \in Uninits \cup Forgets
  BY SortsOfWork DEF Ends
<1> HIDE DEF two
<1>3. /\ new \in Seq(S) /\ Len(new) = Len(s) + 2
      /\ \A i \in 1..(Len(s) + 2) : new[i] = IF i <= Len(s) THEN s[i] ELSE two[i - Len(s)]
  <2>1. /\ new \in Seq(S) /\ Len(new) = Len(s) + Len(two)
        /\ \A i \in 1..(Len(s) + Len(two)) :
              new[i] = IF i <= Len(s) THEN s[i] ELSE two[i - Len(s)]
    BY <1>1, ConcatProperties, Zenon
  <2> QED
    BY <1>1, <2>1
<1> HIDE DEF new
<1>4. DOMAIN new = 1..Len(new) /\ new # << >> /\ Head(new) = new[1]
  BY <1>1, <1>3, LenProperties, EmptySeq
<1>5. /\ \A i \in 1..Len(s) : new[i] = s[i]
      /\ new[Len(s) + 1] = a /\ new[Len(s) + 2] = e
  BY <1>1, <1>3
<1>6. \A i \in 1..Len(new) : i \in 1..Len(s) \/ i = Len(s) + 1 \/ i = Len(s) + 2
  BY <1>1, <1>3
<1>7. Ordinary(new, {e})
  <2>1. \A i \in 1..Len(new) : /\ i > 1 => new[i] \notin LockedWork
                               /\ i < Len(new) => new[i] \notin {e}
    BY <1>1, <1>2, <1>3, <1>5, <1>6, SortsOfWork
  <2> QED
    BY <1>3, <1>4, <1>5, <2>1 DEF Ordinary
<1>8. Quiet(new)
  <2>1. Head(new) \in PlainWork
    BY <1>1, <1>3, <1>4, <1>5, <1>6
  <2>2. Head(new) \in PlainWork \cup LockedWork \cup Uninits \cup Forgets
    BY <2>1
  <2>3. ~LockedHead(new)
    BY <2>1, SortsOfWork DEF LockedHead
  <2>4. new \notin {Detaching2, Detaching1, Emptying}
    BY <2>2, NotDetached
  <2> QED
    BY <2>3, <2>4 DEF Quiet
<1>9. ASSUME NEW works, Without(s, works), a \notin works, e \notin works
      PROVE  Without(new, works)
  BY <1>1, <1>4, <1>5, <1>6, <1>9 DEF Without
<1> QED
  BY <1>7, <1>8, <1>9 DEF new, two

LEMMA UserInv ==
    ASSUME CaptureIInv, Login \/ Leave \/ HandleMeetingEnded \/ \E k \in Kinds : Toggle(k)
    PROVE  CaptureIInv'
<1> USE DEF engineVars, lifeVars, mediaVars, pageVars, lobbyVars, captureVars, managerVars
<1>1. TypeInv /\ PageInv /\ MediaTypeOK
  BY DEF CaptureIInv, TypeInv
<1>2. Idle("ui") /\ UNCHANGED <<engineVars, captureVars, choice, page, shown, listening, joined>>
      /\ user' \in BOOLEAN /\ notice' \in BOOLEAN /\ (user => user')
  BY <1>1 DEF Login, Leave, HandleMeetingEnded, Toggle, MediaTypeOK
<1>3. PICK new \in Seq(PlainWork) : /\ todo' = [todo EXCEPT !["ui"] = new]
                                    /\ page' => page /\ user' /\ Without(new, Lists)
  <2>1. CASE Login
    <3>1. ~page'
      BY <1>1, <1>2, <2>1 DEF Login, PageInv
    <3> QED
      BY <2>1, <3>1, PageLists DEF Login, Starts
  <2>2. page' = page /\ (page => user')
    BY <1>1, <1>2 DEF PageInv
  <2>3. \A list \in Seq(PlainWork \ Lists) : list \in Seq(PlainWork) /\ Without(list, Lists)
    BY PageLists
  <2>4. ASSUME NEW k \in Kinds, Toggle(k)
        PROVE  \E new \in Seq(PlainWork \ Lists) : todo' = [todo EXCEPT !["ui"] = new]
    <3>1. <<Do("close", k), Do("hide", k)>> \in Seq(CallWork) /\ <<Do("open", k)>> \in Seq(CallWork)
      <4>1. Do("close", k) \in CallWork /\ Do("hide", k) \in CallWork /\ Do("open", k) \in CallWork
        BY Calls
      <4> QED
        BY <4>1
    <3>2. PICK new \in Seq(CallWork) : todo' = [todo EXCEPT !["ui"] = new]
      BY <2>4, <3>1 DEF Toggle, Starts
    <3>3. new \in Seq(PlainWork \ Lists)
      BY PageLists
    <3> QED
      BY <3>2, <3>3
  <2>5. ASSUME Leave
        PROVE  \E new \in Seq(PlainWork \ Lists) : todo' = [todo EXCEPT !["ui"] = new]
    <3> DEFINE more == <<Do("leave", "page"), Do("exit", "page")>>
    <3>1. CloseLocalMedia \in Seq(PlainWork \ Lists) /\ more \in Seq(PlainWork \ Lists)
      BY PageLists
    <3>2. todo' = [todo EXCEPT !["ui"] = CloseLocalMedia \o more]
      BY <2>5 DEF Leave, Starts
    <3> HIDE DEF more
    <3>3. CloseLocalMedia \o more \in Seq(PlainWork \ Lists)
      BY <3>1, ConcatProperties
    <3> QED
      BY <3>2, <3>3
  <2>6. ASSUME HandleMeetingEnded
        PROVE  \E new \in Seq(PlainWork \ Lists) : todo' = [todo EXCEPT !["ui"] = new]
    <3> DEFINE more == <<Do("exit", "page")>>
    <3>1. CloseLocalMedia \in Seq(PlainWork \ Lists) /\ more \in Seq(PlainWork \ Lists)
      <4>1. more \in Seq(CallWork)
        BY Calls
      <4> QED
        BY <4>1, PageLists
    <3>2. \/ todo' = [todo EXCEPT !["ui"] = CloseLocalMedia \o more]
          \/ todo' = [todo EXCEPT !["ui"] = << >>]
      BY <2>6 DEF HandleMeetingEnded, Starts
    <3> HIDE DEF more
    <3>3. CloseLocalMedia \o more \in Seq(PlainWork \ Lists) /\ << >> \in Seq(PlainWork \ Lists)
      BY <3>1, ConcatProperties
    <3> QED
      BY <3>2, <3>3
  <2>7. ASSUME \E list \in Seq(PlainWork \ Lists) : todo' = [todo EXCEPT !["ui"] = list]
        PROVE  \E new \in Seq(PlainWork) : /\ todo' = [todo EXCEPT !["ui"] = new]
                                           /\ page' => page /\ user' /\ Without(new, Lists)
    <3>1. PICK list \in Seq(PlainWork \ Lists) : todo' = [todo EXCEPT !["ui"] = list]
      BY <2>7
    <3> QED
      BY <3>1, <2>2, <2>3
  <2> QED
    BY <2>1, <2>4, <2>5, <2>6, <2>7
<1>4. MediaTypeOK'
  BY <1>1, <1>2 DEF MediaTypeOK, engineStateVars
<1>5. UNCHANGED <<up, m_submodel_initialized, choice, m_state_mutex, m_source_id, device,
                  m_selected, engineStateVars>>
  BY <1>2
<1>6. /\ Quiet(todo["ui"])
      /\ \/ m_submodel_initialized /\ obs = "ready" /\ up = Managers
         \/ ~m_submodel_initialized /\ obs # "ready" /\ up = {}
  BY <1>2, IdleUi
<1> QED
  BY <1>3, <1>4, <1>5, <1>6, IdleStep

LEMMA SubmitInv ==
    ASSUME CaptureIInv, Submit
    PROVE  CaptureIInv'
<1> USE DEF engineVars, lifeVars, mediaVars, pageVars, lobbyVars, captureVars, managerVars
<1>1. TypeInv /\ MediaTypeOK
  BY DEF CaptureIInv, TypeInv
<1>2. /\ Idle("ui") /\ m_submodel_initialized /\ user /\ ~page /\ joined < MaxMeetings
      /\ todo' = [todo EXCEPT !["ui"] = Selecting]
      /\ UNCHANGED <<engineVars, captureVars, pageVars>>
  BY DEF Submit, Starts, Selecting
<1>3. Entering(Selecting)'
  BY <1>2 DEF Entering
<1>4. /\ Quiet(todo["ui"]) /\ m_submodel_initialized' /\ up' = Managers /\ obs' = "ready"
      /\ UNCHANGED <<m_state_mutex, m_source_id, device, m_selected, engineStateVars>>
      /\ ~page'
  BY <1>2, IdleUi DEF engineStateVars
<1>5. MediaTypeOK'
  BY <1>1, <1>2 DEF MediaTypeOK, engineStateVars
<1>6. choice' \in [Kinds -> Cameras \cup Mics \cup {NoDevice}]
  BY <1>1, <1>2 DEF TypeInv
<1> QED
  BY <1>2, <1>3, <1>4, <1>5, <1>6, RunningStep

LEMMA PickInv ==
    ASSUME CaptureIInv, NEW k \in Kinds, NEW d \in Devices[k], Pick(k, d)
    PROVE  CaptureIInv'
<1> USE DEF engineVars, lifeVars, mediaVars, pageVars, lobbyVars, captureVars, managerVars
<1>1. /\ TypeInv /\ LifeInv /\ HoldInv /\ CallbackInv /\ SourceInv
      /\ MediaTypeOK
  BY DEF CaptureIInv, TypeInv
<1>2. /\ Idle("ui") /\ m_submodel_initialized /\ ~page /\ choice' = [choice EXCEPT ![k] = d]
      /\ UNCHANGED <<engineVars, captureVars, user, page, shown, notice, listening, joined, todo>>
  BY DEF Pick
<1>3. TypeInv'
  <2>1. d \in Cameras \cup Mics
    BY DEF Devices, Kinds
  <2>2. MediaTypeOK'
    BY <1>1, <1>2 DEF MediaTypeOK, TypeInv, engineStateVars
  <2>3. {device, m_selected, choice}' \subseteq [Kinds -> Cameras \cup Mics \cup {NoDevice}]
    BY <1>1, <1>2, <2>1 DEF TypeInv
  <2> QED
    BY <1>1, <1>2, <2>2, <2>3 DEF TypeInv
<1>4. LifeInv'
  <2>1. todo["ui"] = << >> /\ obs = "ready" /\ up = Managers
    BY <1>2, IdleUi
  <2> QED
    BY <1>1, <1>2, <2>1, EmptyIsOrdinary DEF LifeInv, IsRunning, engineStateVars
<1>5. HoldInv'
  BY <1>1, <1>2 DEF HoldInv, Has, Idle, Detached
<1>6. CallbackInv'
  BY <1>1, <1>2 DEF CallbackInv, Called, Has, Idle, engineStateVars
<1>7. SourceInv' /\ PageInv'
  BY <1>1, <1>2 DEF SourceInv, PageInv, engineStateVars
<1> QED
  BY <1>3, <1>4, <1>5, <1>6, <1>7 DEF CaptureIInv

LEMMA ShutdownInv ==
    ASSUME CaptureIInv, Shutdown
    PROVE  CaptureIInv'
<1> USE DEF engineVars, lifeVars, mediaVars, pageVars, lobbyVars, captureVars, managerVars
<1> DEFINE more == CloseLocalMedia \o (IF page THEN <<Do("leave", "quit")>> ELSE << >>)
           new == more \o <<Do("exit", "quit"), Do("uninit", "engine")>>
<1>1. TypeInv /\ LifeInv /\ PageInv /\ MediaTypeOK
  BY DEF CaptureIInv, TypeInv
<1>2. /\ Idle("ui") /\ m_submodel_initialized /\ m_observers' = FALSE
      /\ UNCHANGED <<up, m_submodel_initialized, mediaVars, captureVars, pageVars>>
  BY DEF Shutdown
<1>3. todo' = [todo EXCEPT !["ui"] = new]
  BY DEF Shutdown, Starts
<1>4. more \in Seq(CallWork)
  <2> DEFINE B == IF page THEN <<Do("leave", "quit")>> ELSE << >>
  <2>1. CloseLocalMedia \in Seq(CallWork) /\ B \in Seq(CallWork)
    BY PageLists, Calls
  <2> HIDE DEF B
  <2>2. CloseLocalMedia \o B \in Seq(CallWork)
    BY <2>1, ConcatProperties
  <2> QED
    BY <2>2 DEF B
<1> HIDE DEF more
<1>5. /\ Ordinary(new, Uninits) /\ Quiet(new) /\ Without(new, Lists)
  <2>1. {Do("uninit", "engine")} = Uninits /\ Uninits \in Ends
    BY DEF Uninits, Ends
  <2>2. Do("exit", "quit") \in CallWork /\ Do("uninit", "engine") \notin Lists
    <3>1. Do("uninit", "engine") \notin Lists
      BY SMT DEF Lists, Do
    <3> QED
      BY <3>1, Calls
  <2>3. Do("exit", "quit") \in PlainWork /\ Do("exit", "quit") \notin Lists
    BY <2>2 DEF CallWork
  <2>4. more \in Seq(PlainWork) /\ Without(more, Lists)
    BY <1>4, CallLists
  <2> QED
    BY <2>1, <2>2, <2>3, <2>4, Finishing
<1> HIDE DEF new
<1>6. todo'["ui"] = new /\ todo'["event"] = todo["event"]
  BY <1>1, <1>3, ListChanges DEF Threads
<1>7. Quiet(todo["ui"]) /\ obs = "ready" /\ up = Managers
  BY <1>2, IdleUi
<1>8. LifeInv'
  <2>1. IsRunning'
    BY <1>2, <1>5, <1>6, <1>7 DEF IsRunning, engineStateVars
  <2> QED
    BY <1>1, <1>6, <2>1 DEF LifeInv
<1>9. PageInv'
  BY <1>1, <1>2, <1>5, <1>6 DEF PageInv, Selected
<1>10. MediaTypeOK'
  BY <1>1, <1>2 DEF MediaTypeOK, engineStateVars
<1>11. choice' \in [Kinds -> Cameras \cup Mics \cup {NoDevice}]
       /\ UNCHANGED <<m_state_mutex, m_source_id, device, m_selected, engineStateVars>>
  BY <1>1, <1>2 DEF TypeInv
<1> QED
  BY <1>3, <1>5, <1>7, <1>8, <1>9, <1>10, <1>11, QuietUi

\* The event thread hears that the meeting has ended.
LEMMA MeetingEndsInv ==
    ASSUME CaptureIInv, MeetingEnds
    PROVE  CaptureIInv'
<1> USE DEF engineVars, lifeVars, mediaVars, pageVars, lobbyVars, captureVars, managerVars
<1> DEFINE new == IF m_current_meeting_id = 0 THEN << >>
                  ELSE <<Do("cleanup", "meeting"), Do("tell", "page")>>
<1>1. /\ TypeInv /\ LifeInv /\ HoldInv /\ CallbackInv /\ SourceInv /\ PageInv
      /\ MediaTypeOK
  BY DEF CaptureIInv, TypeInv
<1>2. /\ todo["event"] = << >> /\ m_submodel_initialized /\ listening' = FALSE
      /\ todo' = [todo EXCEPT !["event"] = new]
      /\ UNCHANGED <<engineVars, captureVars, lobbyVars, page, shown, notice, joined>>
  BY DEF MeetingEnds, Idle, Starts
<1>3. Ordinary(new, {}) /\ ~LockedHead(new)
  <2>1. new \in Seq(CallWork)
    BY Calls
  <2> HIDE DEF new
  <2> QED
    BY <2>1, CallLists
<1> HIDE DEF new
<1>4. "event" \in Threads /\ todo'["ui"] = todo["ui"] /\ todo'["event"] = new
      /\ todo' = [s \in Threads |-> todo'[s]]
  <2>1. "event" \in Threads /\ "ui" \in Threads \ {"event"}
    BY DEF Threads
  <2> QED
    BY <1>1, <1>2, <2>1, ListChanges
<1>5. LifeInv'
  BY <1>1, <1>2, <1>3, <1>4, EventStep DEF engineStateVars
<1>6. HoldInv' /\ CallbackInv' /\ SourceInv'
  <2>1. ~LockedHead(todo["event"])
    BY <1>2 DEF LockedHead
  <2>2. UNCHANGED <<m_state_mutex, m_source_id, device, m_selected, engineStateVars>>
    BY <1>2
  <2> QED
    BY <1>1, <1>2, <1>3, <1>4, <2>1, <2>2, QuietStep
<1>7. PageInv'
  BY <1>1, <1>2, <1>4 DEF PageInv, Selected
<1>8. TypeInv'
  <2>1. MediaTypeOK'
    BY <1>1, <1>2 DEF MediaTypeOK, engineStateVars
  <2> QED
    BY <1>1, <1>2, <1>4, <2>1 DEF TypeInv
<1> QED
  BY <1>5, <1>6, <1>7, <1>8 DEF CaptureIInv

LEMMA TellInv ==
    ASSUME CaptureIInv, Tell
    PROVE  CaptureIInv'
<1> USE DEF engineVars, lifeVars, mediaVars, pageVars, lobbyVars, captureVars, managerVars
<1>1. MediaTypeOK
  BY DEF CaptureIInv, TypeInv
<1>2. /\ Has("event", "tell", "page") /\ Then("event", << >>)
      /\ notice' = (notice \/ m_observers)
      /\ UNCHANGED <<engineVars, captureVars, lobbyVars, page, shown, listening, joined>>
  BY DEF Tell
<1>3. MediaTypeOK'
  BY <1>1, <1>2 DEF MediaTypeOK, engineStateVars
<1>4. Do("tell", "page") \in PlainWork /\ << >> \in Seq(CallWork) /\ "event" \in Threads
  BY Calls DEF CallWork, Threads
<1> QED
  BY <1>2, <1>3, <1>4, CallStep

LEMMA ShowInv ==
    ASSUME CaptureIInv, JoinThread \/ \E k \in Kinds : Show(k) \/ Hide(k)
    PROVE  CaptureIInv'
<1> USE DEF engineVars, lifeVars, mediaVars, pageVars, lobbyVars, captureVars, managerVars
<1>1. MediaTypeOK
  BY DEF CaptureIInv, TypeInv
<1>2. PICK w, x : Has("ui", w, x) /\ Do(w, x) \in PlainWork
  <2>1. Do("join", "thread") \in PlainWork
        /\ \A k \in Kinds : Do("show", k) \in PlainWork /\ Do("hide", k) \in PlainWork
    BY Calls DEF CallWork
  <2> QED
    BY <2>1 DEF JoinThread, Show, Hide
<1>3. /\ Then("ui", << >>) /\ shown' \subseteq Kinds /\ listening' \in BOOLEAN
      /\ UNCHANGED <<engineVars, captureVars, lobbyVars, page, notice, joined>>
  BY <1>1 DEF JoinThread, Show, Hide, MediaTypeOK
<1>4. MediaTypeOK'
  BY <1>1, <1>3 DEF MediaTypeOK, engineStateVars
<1>5. << >> \in Seq(CallWork) /\ "ui" \in Threads
  BY DEF Threads
<1> QED
  BY <1>2, <1>3, <1>4, <1>5, CallStep

\* The meeting is left, or it is not.
LEMMA LeaveInv ==
    ASSUME CaptureIInv, NEW purpose \in {"page", "quit"},
           LeaveRefused(purpose) \/ LeaveAgreed(purpose)
    PROVE  CaptureIInv'
<1> USE DEF engineVars, lifeVars, mediaVars, pageVars, lobbyVars, captureVars, managerVars
<1>1. TypeInv /\ LifeInv /\ PageInv /\ MediaTypeOK
  BY DEF CaptureIInv, TypeInv
<1>2. Has("ui", "leave", purpose) /\ UNCHANGED <<engineVars, captureVars, pageVars>>
  BY DEF LeaveRefused, LeaveAgreed
<1>3. MediaTypeOK'
  BY <1>1, <1>2 DEF MediaTypeOK, engineStateVars
<1>4. Do("leave", purpose) \in PlainWork /\ "ui" \in Threads
  <2>1. Do("leave", "page") \in Leaves
    BY DEF Leaves
  <2> QED
    BY <2>1, Calls DEF CallWork, Threads
<1>5. CASE LeaveAgreed(purpose) \/ purpose = "quit"
  <2>1. PICK more \in {<< >>, <<Do("join", "thread"), Do("cleanup", "meeting")>>} :
           Then("ui", more)
    BY <1>5 DEF LeaveAgreed, LeaveRefused
  <2>2. more \in Seq(CallWork)
    <3>1. << >> \in Seq(CallWork)
          /\ <<Do("join", "thread"), Do("cleanup", "meeting")>> \in Seq(CallWork)
      BY Calls
    <3> QED
      BY <3>1
  <2> QED
    BY <1>2, <1>3, <1>4, <2>1, <2>2, CallStep
<1>6. CASE LeaveRefused(purpose) /\ purpose = "page"
  <2>1. todo' = [todo EXCEPT !["ui"] = << >>] /\ << >> \in Seq(PlainWork)
    BY <1>6 DEF LeaveRefused, Starts
  <2>2. todo["ui"] # << >> /\ Head(todo["ui"]) = Do("leave", "page")
    BY <1>2, <1>6 DEF Has, Idle
  <2>3. Quiet(todo["ui"])
    BY <1>4, <1>6, <2>2, QuietHead
  <2>4. \/ m_submodel_initialized /\ obs = "ready" /\ up = Managers
        \/ ~m_submodel_initialized /\ obs # "ready" /\ up = {}
    <3>1. Usually
      BY <1>1, <1>4, <1>6, <2>2, UsualLife
    <3>2. ASSUME Ordinary(todo["ui"], Forgets) PROVE ~Without(todo["ui"], Leaves)
      <4>1. todo["ui"] \in Seq(PlainWork \cup LockedWork \cup Forgets)
        BY <3>2 DEF Ordinary
      <4>2. 1 \in DOMAIN todo["ui"] /\ Head(todo["ui"]) = todo["ui"][1]
        BY <2>2, <4>1, EmptySeq, LenProperties
      <4> QED
        BY <2>2, <4>2 DEF Without, Leaves
    <3> QED
      BY <3>1, <3>2 DEF Usually
  <2>5. page' => page /\ user' /\ Without(<< >>, Lists)
    BY <1>1, <1>2, EmptyIsOrdinary DEF PageInv
  <2>6. UNCHANGED <<up, m_submodel_initialized, choice, m_state_mutex, m_source_id, device,
                    m_selected, engineStateVars>>
    BY <1>2
  <2> QED
    BY <1>3, <2>1, <2>3, <2>4, <2>5, <2>6, IdleStep
<1> QED
  BY <1>5, <1>6

\* A step of a call of the UI thread outside a meeting, or one that closes the page.
LEMMA OutsideStep ==
    ASSUME CaptureIInv, MediaTypeOK', NEW w, NEW x, Has("ui", w, x), Do(w, x) \in PlainWork,
           NEW more \in Seq(PlainWork), Without(more, Leaves), Then("ui", more),
           UNCHANGED <<up, m_submodel_initialized, m_state_mutex, m_source_id, device, m_selected,
                       engineStateVars>>,
           choice' \in [Kinds -> Cameras \cup Mics \cup {NoDevice}], ~page'
    PROVE  CaptureIInv'
<1> DEFINE new == more \o Tail(todo["ui"])
<1>1. TypeInv /\ LifeInv /\ "ui" \in Threads
  BY DEF CaptureIInv, Threads
<1>2. todo' = [todo EXCEPT !["ui"] = new]
  BY <1>1 DEF Then, TypeInv
<1>3. todo["ui"] # << >> /\ Head(todo["ui"]) = Do(w, x)
  BY DEF Has, Idle
<1>4. Ordinary(more, {}) /\ ~LockedHead(more)
  BY PlainLists
<1>5. todo'["ui"] = new /\ todo'["event"] = todo["event"]
  BY <1>1, <1>2, ListChanges DEF Threads
<1>6. LifeInv'
  <2>1. UNCHANGED <<up, m_submodel_initialized, obs>>
    BY DEF engineStateVars
  <2> QED
    BY <1>1, <1>3, <1>4, <1>5, <2>1, UsualStep
<1>7. Quiet(todo["ui"])
  BY <1>3, QuietHead
<1>8. Quiet(new)
  <2>1. PICK end \in Ends : Ordinary(todo["ui"], end)
    <3>1. Usually
      BY <1>1, <1>3, UsualLife
    <3> QED
      BY <3>1 DEF Usually, Ends
  <2>2. Head(todo["ui"]) \notin end
    BY <1>3, SortsOfWork DEF Ends
  <2>3. Ordinary(new, end) /\ ~LockedHead(new)
    BY <1>3, <1>4, <2>1, <2>2, Continues, NextHead
  <2> HIDE DEF new
  <2>4. new \notin {Detaching2, Detaching1, Emptying}
    BY <2>3, OrdinaryHead, NotDetached, Zenon
  <2> QED
    BY <2>3, <2>4 DEF Quiet
<1> HIDE DEF new
<1>9. PageInv'
  BY DEF PageInv
<1>10. UNCHANGED <<m_state_mutex, m_source_id, device, m_selected, engineStateVars>>
  OBVIOUS
<1> QED
  BY <1>2, <1>6, <1>7, <1>8, <1>9, <1>10, QuietUi

LEMMA ListInv ==
    ASSUME CaptureIInv, NEW k \in Kinds, List(k)
    PROVE  CaptureIInv'
<1> USE DEF engineVars, lifeVars, mediaVars, pageVars, lobbyVars
<1>1. TypeInv /\ LifeInv /\ PageInv /\ MediaTypeOK
  BY DEF CaptureIInv, TypeInv
<1>2. PICK listed \in SUBSET Devices[k] :
         /\ GetDevices(k, listed)
         /\ \E d \in Preselected(k, listed) : choice' = [choice EXCEPT ![k] = d]
  BY DEF List
<1> PICK d \in Preselected(k, listed) : choice' = [choice EXCEPT ![k] = d]
  BY <1>2
<1>3. /\ Has("ui", "list", k) /\ Then("ui", << >>)
      /\ UNCHANGED <<engineVars, user, page, shown, notice, listening, joined>>
      /\ UNCHANGED <<m_state_mutex, m_capture_callback, m_source_id, device, m_selected, obs,
                     m_sources, registered, frame>>
  BY <1>2 DEF List, GetDevices, Unlocked, engineStateVars
<1>4. todo["ui"] # << >> /\ Head(todo["ui"]) = Do("list", k)
      /\ Do("list", k) \in Lists /\ Do("list", k) \in PlainWork
  <2>1. Do("list", k) \in Lists
    BY SMT DEF Lists, Do
  <2> QED
    BY <1>3, <2>1, Calls DEF Has, Idle
<1>5. ~page
  <2>1. ASSUME Without(todo["ui"], Lists) PROVE FALSE
    <3>1. PICK end \in Ends : Ordinary(todo["ui"], end)
      <4>1. Usually
        BY <1>1, <1>4, UsualLife
      <4> QED
        BY <4>1 DEF Usually, Ends
    <3>2. todo["ui"] \in Seq(PlainWork \cup LockedWork \cup end)
      BY <3>1 DEF Ordinary
    <3>3. 1 \in DOMAIN todo["ui"] /\ Head(todo["ui"]) = todo["ui"][1]
      BY <1>4, <3>2, EmptySeq, LenProperties
    <3> QED
      BY <1>4, <2>1, <3>3 DEF Without
  <2> QED
    BY <1>1, <2>1 DEF PageInv
<1>6. d \in Devices[k] \cup {NoDevice} /\ d \in Cameras \cup Mics \cup {NoDevice}
  <2>1. Devices[k] \subseteq Cameras \cup Mics
    BY DEF Devices, Kinds
  <2> QED
    BY <1>2, <2>1 DEF Preselected
<1>7. MediaTypeOK' /\ choice' \in [Kinds -> Cameras \cup Mics \cup {NoDevice}]
  <2>1. choice' \in [Kinds -> Cameras \cup Mics \cup {NoDevice}]
    BY <1>1, <1>2, <1>6 DEF TypeInv
  <2>2. \A j \in Kinds : choice'[j] = IF j = k THEN d ELSE choice[j]
    BY <1>1, <1>2 DEF TypeInv
  <2> QED
    BY <1>1, <1>3, <1>6, <2>1, <2>2 DEF MediaTypeOK
<1>8. << >> \in Seq(PlainWork) /\ Without(<< >>, Leaves)
  BY EmptyIsOrdinary
<1>9. UNCHANGED <<up, m_submodel_initialized, m_state_mutex, m_source_id, device, m_selected,
                  engineStateVars>> /\ ~page'
  BY <1>3, <1>5 DEF engineStateVars
<1> QED
  BY <1>3, <1>4, <1>7, <1>8, <1>9, OutsideStep

LEMMA ExitInv ==
    ASSUME CaptureIInv, NEW purpose \in {"page", "quit"}, Exit(purpose)
    PROVE  CaptureIInv'
<1> USE DEF engineVars, lifeVars, mediaVars, pageVars, lobbyVars, captureVars, managerVars
<1>1. TypeInv /\ MediaTypeOK
  BY DEF CaptureIInv, TypeInv
<1>2. /\ Has("ui", "exit", purpose) /\ ~page' /\ page' \in BOOLEAN /\ shown' = {}
      /\ UNCHANGED <<engineVars, captureVars, lobbyVars, notice, listening, joined>>
  BY DEF Exit
<1>3. PICK more \in {<< >>, ListDevices} : Then("ui", more)
  BY DEF Exit
<1>4. more \in Seq(PlainWork) /\ Without(more, Leaves)
  <2>1. << >> \in Seq(PlainWork) /\ Without(<< >>, Leaves)
    BY EmptyIsOrdinary
  <2>2. ListDevices \in Seq(PlainWork) /\ Without(ListDevices, Leaves)
    <3>1. Do("list", "camera") \notin Leaves /\ Do("list", "mic") \notin Leaves
      BY SMT DEF Leaves, Do
    <3> QED
      BY <3>1, PageLists DEF Without, ListDevices
  <2> QED
    BY <2>1, <2>2
<1>5. MediaTypeOK' /\ choice' \in [Kinds -> Cameras \cup Mics \cup {NoDevice}]
  BY <1>1, <1>2 DEF MediaTypeOK, TypeInv, engineStateVars
<1>6. Do("exit", purpose) \in PlainWork
  BY Calls DEF CallWork
<1>7. UNCHANGED <<up, m_submodel_initialized, m_state_mutex, m_source_id, device, m_selected,
                  engineStateVars>>
  BY <1>2
<1> QED
  BY <1>2, <1>3, <1>4, <1>5, <1>6, <1>7, OutsideStep

-----------------------------------------------------------------------------
(* The client ends.                                                         *)

LEMMA UninitInv ==
    ASSUME CaptureIInv, Uninit
    PROVE  CaptureIInv'
<1> USE DEF engineVars, lifeVars, mediaVars, pageVars, lobbyVars, captureVars, managerVars
<1> DEFINE new == <<Do("cleanup", "meeting"), Do("forget", "managers")>>
<1>1. TypeInv /\ LifeInv /\ PageInv /\ MediaTypeOK
  BY DEF CaptureIInv, TypeInv
<1>2. /\ Has("ui", "uninit", "engine") /\ m_submodel_initialized' = FALSE
      /\ Then("ui", <<Do("cleanup", "meeting"), Do("forget", "managers")>>)
      /\ UNCHANGED <<up, m_observers, mediaVars, captureVars, pageVars>>
  BY DEF Uninit
<1>3. todo["ui"] # << >> /\ Head(todo["ui"]) = Do("uninit", "engine")
      /\ Do("uninit", "engine") \in Uninits
  BY <1>2 DEF Has, Idle, Uninits
<1>4. obs = "ready" /\ up = Managers /\ Ordinary(todo["ui"], Uninits)
  <2>1. Usually
    BY <1>1, <1>3, UsualLife
  <2>2. ~Ordinary(todo["ui"], {}) /\ ~Ordinary(todo["ui"], Forgets)
    BY <1>3, NotFixed, SortsOfWork DEF Ends
  <2> QED
    BY <2>1, <2>2 DEF Usually
<1>5. todo' = [todo EXCEPT !["ui"] = new]
  <2>1. Tail(todo["ui"]) = << >>
    BY <1>3, <1>4, LastOne DEF Ends
  <2>2. todo' = [todo EXCEPT !["ui"] = new \o Tail(todo["ui"])]
    BY <1>1, <1>2 DEF Then, TypeInv
  <2>3. new \o << >> = new
    OBVIOUS
  <2> HIDE DEF new
  <2> QED
    BY <2>1, <2>2, <2>3
<1>6. Ordinary(new, Forgets) /\ Quiet(new) /\ Without(new, Lists) /\ Without(new, Leaves)
  <2>1. << >> \in Seq(PlainWork) /\ << >> \o new = new
    OBVIOUS
  <2>2. {Do("forget", "managers")} = Forgets /\ Forgets \in Ends
    BY DEF Forgets, Ends
  <2>3. Do("cleanup", "meeting") \in CallWork
    BY Calls
  <2>4. Do("forget", "managers") \notin Lists /\ Do("forget", "managers") \notin Leaves
    BY SMT DEF Lists, Leaves, Do
  <2>5. Ordinary(<< >> \o new, Forgets) /\ Quiet(<< >> \o new)
    BY <2>1, <2>2, <2>3, Finishing DEF CallWork
  <2>6. Without(new, Lists) /\ Without(new, Leaves)
    BY <2>3, <2>4 DEF Without, CallWork
  <2> HIDE DEF new
  <2> QED
    BY <2>1, <2>5, <2>6
<1> HIDE DEF new
<1>7. todo'["ui"] = new /\ todo'["event"] = todo["event"]
  BY <1>1, <1>5, ListChanges DEF Threads
<1>8. Quiet(todo["ui"])
  BY <1>3, QuietHead
<1>9. LifeInv'
  <2>1. IsClosing'
    BY <1>2, <1>4, <1>6, <1>7 DEF IsClosing, engineStateVars
  <2> QED
    BY <1>1, <1>7, <2>1 DEF LifeInv
<1>10. PageInv'
  BY <1>1, <1>2, <1>6, <1>7 DEF PageInv, Selected
<1>11. MediaTypeOK' /\ choice' \in [Kinds -> Cameras \cup Mics \cup {NoDevice}]
  BY <1>1, <1>2 DEF MediaTypeOK, TypeInv, engineStateVars
<1>12. UNCHANGED <<m_state_mutex, m_source_id, device, m_selected, engineStateVars>>
  BY <1>2
<1> QED
  BY <1>5, <1>6, <1>8, <1>9, <1>10, <1>11, <1>12, QuietUi

LEMMA ForgetInv ==
    ASSUME CaptureIInv, ForgetManagers
    PROVE  CaptureIInv'
<1> USE DEF engineVars, lifeVars, mediaVars, pageVars, lobbyVars, captureVars, managerVars
<1>1. TypeInv /\ LifeInv /\ PageInv /\ MediaTypeOK
  BY DEF CaptureIInv, TypeInv
<1>2. /\ Has("ui", "forget", "managers") /\ m_open' = {} /\ m_current_meeting_id' = 0
      /\ Then("ui", Disconnecting)
      /\ UNCHANGED <<lifeVars, m_accept_media_callbacks, publishing, captureVars, pageVars>>
  BY DEF ForgetManagers, Disconnecting
<1>3. todo["ui"] # << >> /\ Head(todo["ui"]) = Do("forget", "managers")
      /\ Do("forget", "managers") \in Forgets
  BY <1>2 DEF Has, Idle, Forgets
<1>4. /\ ~m_submodel_initialized /\ obs = "ready" /\ up = Managers
      /\ Ordinary(todo["ui"], Forgets)
  <2>1. Usually
    BY <1>1, <1>3, UsualLife
  <2>2. ~Ordinary(todo["ui"], {}) /\ ~Ordinary(todo["ui"], Uninits)
    BY <1>3, NotFixed, SortsOfWork DEF Ends
  <2> QED
    BY <2>1, <2>2 DEF Usually
<1>5. todo' = [todo EXCEPT !["ui"] = Disconnecting]
  <2>1. Tail(todo["ui"]) = << >>
    BY <1>3, <1>4, LastOne DEF Ends
  <2>2. todo' = [todo EXCEPT !["ui"] = Disconnecting \o Tail(todo["ui"])]
    BY <1>1, <1>2 DEF Then, TypeInv
  <2>3. Disconnecting \o << >> = Disconnecting
    BY DEF Disconnecting
  <2> QED
    BY <2>1, <2>2, <2>3
<1>6. todo'["ui"] = Disconnecting /\ todo'["event"] = todo["event"]
  BY <1>1, <1>5, ListChanges DEF Threads
<1>7. Quiet(todo["ui"]) /\ Quiet(Disconnecting)
  BY <1>3, QuietHead, QuietLists
<1>8. LifeInv'
  <2>1. IsClosing'
    BY <1>2, <1>4, <1>6 DEF IsClosing, engineStateVars
  <2> QED
    BY <1>1, <1>6, <2>1 DEF LifeInv
<1>9. PageInv'
  BY <1>1, <1>2, <1>6, NothingMore DEF PageInv, Selected
<1>10. MediaTypeOK' /\ choice' \in [Kinds -> Cameras \cup Mics \cup {NoDevice}]
  BY <1>1, <1>2, CaptureAssumption DEF MediaTypeOK, TypeInv, engineStateVars, CaptureAssumption
<1>11. UNCHANGED <<m_state_mutex, m_source_id, device, m_selected, engineStateVars>>
  BY <1>2
<1> QED
  BY <1>5, <1>7, <1>8, <1>9, <1>10, <1>11, QuietUi

\* Only the UI thread takes the managers apart.
LEMMA OnlyUi ==
    ASSUME CaptureIInv, NEW t \in Threads, NEW w \in FixedWork, NEW x, Has(t, w, x)
    PROVE  t = "ui"
<1>1. todo[t] # << >> /\ Head(todo[t]) = Do(w, x) /\ Ordinary(todo["event"], {})
  BY DEF CaptureIInv, LifeInv, Has, Idle
<1>2. {} \in Ends
  BY DEF Ends
<1>3. t # "event"
  BY <1>1, <1>2, NotFixed
<1> QED
  BY <1>3 DEF Threads

\* What the UI thread has left when it takes them apart.
LEMMA WhereEnding ==
    ASSUME CaptureIInv, NEW w \in {"disconnect", "detach", "stop"}, NEW x, Has("ui", w, x)
    PROVE  /\ ~m_submodel_initialized
           /\ w = "disconnect" => todo["ui"] = Disconnecting /\ obs = "ready" /\ up = Managers
           /\ w = "detach" => /\ obs = "ready" /\ up = Managers
                              /\ \/ x = "camera" /\ todo["ui"] = Detaching2
                                 \/ x = "mic" /\ todo["ui"] = Detaching1
           /\ w = "stop" =>
                 \/ x = "capture" /\ todo["ui"] = Emptying /\ up = Managers
                 \/ /\ x = "transport" /\ todo["ui"] = Stops3 /\ obs # "ready"
                    /\ up = {"service", "render", "transport"}
                 \/ /\ x = "render" /\ todo["ui"] = Stops2 /\ obs # "ready"
                    /\ up = {"service", "render"}
                 \/ x = "service" /\ todo["ui"] = Stops1 /\ obs # "ready" /\ up = {"service"}
<1>1. w \in FixedWork /\ w \notin {"start", "wire"}
  BY DEF FixedWork
<1>2. Head(todo["ui"]) = Do(w, x)
  BY <1>1, WhereFixed
<1>3. \A v, y : Do(v, y) = Do(w, x) <=> v = w /\ y = x
  BY SMT DEF Do
<1>4. ~Entering(todo["ui"]) /\ todo["ui"] # Observing
  <2>1. w \notin {"select", "request", "room", "accept", "enter", "observe"}
    OBVIOUS
  <2>2. todo["ui"] # Observing
    BY <1>2, <1>3, <2>1, HeadsOfLists
  <2>3. ~Entering(todo["ui"])
    BY <1>2, <1>3, <2>1, EnteringHead
  <2> QED
    BY <2>2, <2>3
<1>5. \/ /\ ~m_submodel_initialized /\ obs = "ready" /\ up = Managers
         /\ todo["ui"] = Disconnecting \/ Detached
      \/ /\ ~m_submodel_initialized /\ obs # "ready"
         /\ \/ todo["ui"] = Stops3 /\ up = {"service", "render", "transport"}
            \/ todo["ui"] = Stops2 /\ up = {"service", "render"}
            \/ todo["ui"] = Stops1 /\ up = {"service"}
  BY <1>1, <1>4, WhereFixed
<1>6. CASE todo["ui"] = Disconnecting
  BY <1>2, <1>3, <1>5, <1>6, HeadsOfLists, SMTT(30) DEF Detached
<1>7. CASE todo["ui"] = Detaching2
  BY <1>2, <1>3, <1>5, <1>7, HeadsOfLists, SMTT(30) DEF Detached
<1>8. CASE todo["ui"] = Detaching1
  BY <1>2, <1>3, <1>5, <1>8, HeadsOfLists, SMTT(30) DEF Detached
<1>9. CASE todo["ui"] = Emptying
  BY <1>2, <1>3, <1>5, <1>9, HeadsOfLists, SMTT(30) DEF Detached
<1>10. CASE todo["ui"] = Stops3
  BY <1>2, <1>3, <1>5, <1>10, HeadsOfLists, SMTT(30) DEF Detached
<1>11. CASE todo["ui"] = Stops2
  BY <1>2, <1>3, <1>5, <1>11, HeadsOfLists, SMTT(30) DEF Detached
<1>12. CASE todo["ui"] = Stops1
  BY <1>2, <1>3, <1>5, <1>12, HeadsOfLists, SMTT(30) DEF Detached
<1> QED
  BY <1>5, <1>6, <1>7, <1>8, <1>9, <1>10, <1>11, <1>12 DEF Detached

\* The managers are taken apart with the mutex held.
LEMMA DetachedStep ==
    ASSUME CaptureIInv, MediaTypeOK', NEW new, todo' = [todo EXCEPT !["ui"] = new],
           m_state_mutex = Nobody \/ (m_state_mutex = "ui" /\ Detached), m_state_mutex' = "ui",
           new \in {Detaching2, Detaching1, Emptying},
           obs = "ready", up = Managers, ~m_submodel_initialized,
           new = Detaching1 => "camera" \notin registered', new = Emptying => registered' = {},
           UNCHANGED <<up, m_submodel_initialized, m_source_id, device, m_selected, obs, m_sources,
                       user, choice, page>>
    PROVE  CaptureIInv'
<1>1. TypeInv /\ LifeInv /\ HoldInv /\ CallbackInv /\ SourceInv /\ PageInv /\ "ui" \in Threads
  BY DEF CaptureIInv, Threads
<1>2. todo'["ui"] = new /\ todo'["event"] = todo["event"] /\ todo' = [s \in Threads |-> todo'[s]]
  BY <1>1, ListChanges DEF Threads
<1>3. \A s \in Threads : \A k \in Kinds : ~Has(s, "create", k) /\ ~Has(s, "unregister", k)
  <2>1. CASE m_state_mutex = Nobody
    BY <1>1, <2>1, OneHolds DEF HoldInv
  <2>2. CASE m_state_mutex = "ui" /\ Detached
    <3>1. \A s \in Threads \ {"ui"} : \A k \in Kinds :
             ~Has(s, "create", k) /\ ~Has(s, "unregister", k)
      BY <1>1, <2>2 DEF HoldInv
    <3>2. ~LockedHead(todo["ui"])
      <4>1. {"detach", "stop"} \subseteq FixedWork
        BY DEF FixedWork
      <4> QED
        BY <2>2, <4>1, HeadsOfLists, FixedIsNotPlain DEF Detached, LockedHead
    <3> QED
      BY <1>1, <3>1, <3>2, WhoHolds
  <2> QED
    BY <2>1, <2>2
<1>4. ~LockedHead(new)
  <2>1. {"detach", "stop"} \subseteq FixedWork
    BY DEF FixedWork
  <2> QED
    BY <2>1, HeadsOfLists, FixedIsNotPlain DEF LockedHead
<1>5. \A s \in Threads : \A k \in Kinds : ~Has(s, "create", k)' /\ ~Has(s, "unregister", k)'
  <2>1. \A s \in Threads \ {"ui"} : \A k \in Kinds :
           /\ Has(s, "create", k)' = Has(s, "create", k)
           /\ Has(s, "unregister", k)' = Has(s, "unregister", k)
    BY <1>1, OthersHold
  <2>2. \A k \in Kinds : ~Has("ui", "create", k)' /\ ~Has("ui", "unregister", k)'
    BY <1>1, <1>4, OthersHold
  <2> QED
    BY <1>3, <2>1, <2>2
<1>6. TypeInv'
  BY <1>1, <1>2 DEF TypeInv
<1>7. LifeInv'
  <2>1. Detached'
    BY <1>2 DEF Detached
  <2>2. IsClosing'
    BY <2>1 DEF IsClosing
  <2> QED
    BY <1>1, <1>2, <2>2 DEF LifeInv
<1>8. HoldInv'
  <2>1. Detached'
    BY <1>2 DEF Detached
  <2> QED
    BY <1>5, <2>1 DEF HoldInv
<1>9. CallbackInv'
  <2>1. m_state_mutex' # Nobody
    BY DEF Nobody
  <2> QED
    BY <1>2, <1>5, <2>1 DEF CallbackInv
<1>10. SourceInv'
  BY <1>1 DEF SourceInv
<1>11. PageInv'
  BY <1>1, <1>2, NothingMore DEF PageInv, Selected
<1> QED
  BY <1>6, <1>7, <1>8, <1>9, <1>10, <1>11 DEF CaptureIInv

\* The lists of the managers' end are different ones.
LEMMA DetachingDiffers ==
    Detaching2 # Detaching1 /\ Detaching2 # Emptying /\ Detaching1 # Emptying
<1>1. Do("detach", "camera") # Do("detach", "mic") /\ Do("detach", "camera") # Do("stop", "capture")
      /\ Do("detach", "mic") # Do("stop", "capture")
  BY SMT DEF Do
<1> QED
  BY <1>1, HeadsOfLists

LEMMA DisconnectInv ==
    ASSUME CaptureIInv, DisconnectCapture
    PROVE  CaptureIInv'
<1> USE DEF engineVars, lifeVars, mediaVars, pageVars, lobbyVars
<1>1. TypeInv /\ MediaTypeOK
  BY DEF CaptureIInv, TypeInv
<1>2. /\ Has("ui", "disconnect", "capture") /\ Then("ui", << >>) /\ m_capture_callback' = FALSE
      /\ m_state_mutex = Nobody /\ m_state_mutex' = "ui"
      /\ UNCHANGED <<m_source_id, device, m_selected, obs, m_sources, registered, frame, engineVars,
                     pageVars>>
  BY DEF DisconnectCapture, Disconnect, Locks, engineStateVars
<1>3. /\ ~m_submodel_initialized /\ obs = "ready" /\ up = Managers
      /\ todo["ui"] = Disconnecting
  BY <1>2, WhereEnding
<1>4. todo' = [todo EXCEPT !["ui"] = Detaching2]
  <2>1. << >> \o Tail(todo["ui"]) = Detaching2
    BY <1>3, HeadsOfLists, NothingMore
  <2>2. todo' = [todo EXCEPT !["ui"] = << >> \o Tail(todo["ui"])]
    BY <1>1, <1>2 DEF Then, TypeInv
  <2> QED
    BY <2>1, <2>2
<1>5. MediaTypeOK'
  BY <1>1, <1>2 DEF MediaTypeOK, Threads
<1> QED
  BY <1>2, <1>3, <1>4, <1>5, DetachedStep, DetachingDiffers

LEMMA DetachInv ==
    ASSUME CaptureIInv, NEW t \in Threads, NEW k \in Kinds, Detach(t, k),
           UNCHANGED <<engineVars, pageVars>>
    PROVE  CaptureIInv'
<1> USE DEF engineVars, lifeVars, mediaVars, pageVars, lobbyVars
<1>1. TypeInv /\ HoldInv /\ CallbackInv /\ MediaTypeOK
  BY DEF CaptureIInv, TypeInv
<1>2. /\ Has(t, "detach", k) /\ Then(t, << >>) /\ registered' = registered \ {k}
      /\ UNCHANGED <<m_state_mutex, m_capture_callback, m_source_id, device, m_selected, obs,
                     m_sources, frame>>
  BY DEF Detach, RemoveCallback, managerVars
<1>3. t = "ui"
  <2>1. "detach" \in FixedWork
    BY DEF FixedWork
  <2> QED
    BY <1>2, <2>1, OnlyUi
<1>4. /\ ~m_submodel_initialized /\ obs = "ready" /\ up = Managers
      /\ \/ k = "camera" /\ todo["ui"] = Detaching2
         \/ k = "mic" /\ todo["ui"] = Detaching1
  BY <1>2, <1>3, WhereEnding
<1>5. Detached /\ m_state_mutex = "ui"
  BY <1>1, <1>4 DEF Detached, HoldInv
<1>6. PICK new \in {Detaching1, Emptying} :
         /\ todo' = [todo EXCEPT !["ui"] = new]
         /\ new = Detaching1 => "camera" \notin registered'
         /\ new = Emptying => registered' = {}
  <2>1. todo' = [todo EXCEPT !["ui"] = << >> \o Tail(todo["ui"])]
    BY <1>1, <1>2, <1>3 DEF Then, TypeInv
  <2>2. CASE k = "camera" /\ todo["ui"] = Detaching2
    <3>1. << >> \o Tail(todo["ui"]) = Detaching1
      BY <2>2, HeadsOfLists, NothingMore
    <3> QED
      BY <1>2, <2>1, <2>2, <3>1, DetachingDiffers
  <2>3. CASE k = "mic" /\ todo["ui"] = Detaching1
    <3>1. << >> \o Tail(todo["ui"]) = Emptying
      BY <2>3, HeadsOfLists, NothingMore
    <3>2. registered' = {}
      BY <1>1, <1>2, <2>3 DEF CallbackInv, MediaTypeOK, Kinds
    <3> QED
      BY <2>1, <3>1, <3>2, DetachingDiffers
  <2> QED
    BY <1>4, <2>2, <2>3
<1>7. MediaTypeOK'
  BY <1>1, <1>2 DEF MediaTypeOK
<1> QED
  BY <1>2, <1>4, <1>5, <1>6, <1>7, DetachedStep

\* What is left of the managers when one has been stopped.
LEMMA FewerManagers ==
    /\ Managers \ {"capture"} = {"service", "render", "transport"}
    /\ {"service", "render", "transport"} \ {"transport"} = {"service", "render"}
    /\ {"service", "render"} \ {"render"} = {"service"}
    /\ {"service"} \ {"service"} = {}
BY DEF Managers

LEMMA StopsCaptureInv ==
    ASSUME CaptureIInv, StopsCapture
    PROVE  CaptureIInv'
<1> USE DEF pageVars, lobbyVars
<1>1. /\ TypeInv /\ LifeInv /\ HoldInv /\ CallbackInv /\ PageInv /\ MediaTypeOK
      /\ "ui" \in Threads
  BY DEF CaptureIInv, TypeInv, Threads
<1>2. /\ Has("ui", "stop", "capture") /\ up' = up \ {"capture"} /\ Then("ui", << >>)
      /\ m_state_mutex = "ui" /\ m_state_mutex' = Nobody /\ obs' = "off"
      /\ m_sources' = NoSources /\ m_source_id' = {} /\ device' = NoDevices
      /\ UNCHANGED <<m_submodel_initialized, m_observers, m_current_meeting_id,
                     m_accept_media_callbacks, m_open, publishing, m_capture_callback, m_selected,
                     registered, frame, pageVars>>
  BY DEF StopsCapture, Stops, StopCapture, Unlocks, CleanupObsState
<1>3. ~m_submodel_initialized /\ todo["ui"] = Emptying /\ up = Managers
  <2>1. "capture" \notin {"transport", "render", "service"}
    OBVIOUS
  <2> QED
    BY <1>2, <2>1, WhereEnding
<1>4. todo' = [todo EXCEPT !["ui"] = Stops3]
  <2>1. << >> \o Tail(todo["ui"]) = Stops3
    BY <1>3, HeadsOfLists, NothingMore
  <2>2. todo' = [todo EXCEPT !["ui"] = << >> \o Tail(todo["ui"])]
    BY <1>1, <1>2 DEF Then, TypeInv
  <2> QED
    BY <2>1, <2>2
<1>5. /\ todo'["ui"] = Stops3 /\ todo'["event"] = todo["event"]
      /\ todo' = [s \in Threads |-> todo'[s]]
  BY <1>1, <1>4, ListChanges DEF Threads
<1>6. ~LockedHead(Stops3) /\ Stops3 \notin {Detaching2, Detaching1, Emptying}
  BY QuietLists DEF Quiet
<1>7. HoldInv' /\ \A s \in Threads : \A k \in Kinds :
                     ~Has(s, "create", k)' /\ ~Has(s, "unregister", k)'
  <2>1. ~Detached'
    BY <1>5, <1>6 DEF Detached
  <2> QED
    BY <1>1, <1>2, <1>4, <1>6, <2>1, LetsGo
<1>8. CallbackInv'
  <2>1. registered' = {}
    BY <1>1, <1>2, <1>3 DEF CallbackInv
  <2>2. \A k \in Kinds : Called(k)'
    BY <1>2, <2>1 DEF Called
  <2> QED
    BY <1>5, <1>6, <1>7, <2>1, <2>2 DEF CallbackInv
<1>9. LifeInv'
  <2>1. IsEnding'
    BY <1>2, <1>3, <1>5, FewerManagers DEF IsEnding
  <2> QED
    BY <1>1, <1>5, <2>1 DEF LifeInv
<1>10. SourceInv'
  BY <1>2 DEF SourceInv, NoSources
<1>11. PageInv'
  BY <1>1, <1>2, <1>5, NothingMore DEF PageInv, Selected
<1>12. TypeInv'
  <2>1. NoSources \in [Kinds -> 0..1] /\ NoDevices \in [Kinds -> Cameras \cup Mics \cup {NoDevice}]
        /\ \A k \in Kinds : NoDevices[k] = NoDevice
    BY DEF NoSources, NoDevices
  <2>2. MediaTypeOK'
    BY <1>1, <1>2, <1>3, <2>1, FewerManagers DEF MediaTypeOK, Threads, Managers
  <2> QED
    BY <1>1, <1>2, <1>5, <2>1, <2>2 DEF TypeInv
<1> QED
  BY <1>7, <1>8, <1>9, <1>10, <1>11, <1>12 DEF CaptureIInv

LEMMA StopInv ==
    ASSUME CaptureIInv, StopTransport \/ StopRender \/ StopService
    PROVE  CaptureIInv'
<1> USE DEF pageVars, lobbyVars, captureVars, managerVars
<1>1. TypeInv /\ LifeInv /\ PageInv /\ MediaTypeOK
  BY DEF CaptureIInv, TypeInv
<1>2. PICK m \in {"transport", "render", "service"} :
         /\ Has("ui", "stop", m) /\ up' = up \ {m}
         /\ Then("ui", IF m = "service" THEN <<Do("join", "thread")>> ELSE << >>)
  BY DEF StopTransport, StopRender, StopService, Stops
<1>3. /\ publishing' \in {publishing, {}}
      /\ UNCHANGED <<m_submodel_initialized, m_observers, m_current_meeting_id,
                     m_accept_media_callbacks, m_open, captureVars, pageVars>>
  BY DEF StopTransport, StopRender, StopService, Stops
<1>4. /\ ~m_submodel_initialized /\ obs # "ready"
      /\ \/ m = "transport" /\ todo["ui"] = Stops3 /\ up = {"service", "render", "transport"}
         \/ m = "render" /\ todo["ui"] = Stops2 /\ up = {"service", "render"}
         \/ m = "service" /\ todo["ui"] = Stops1 /\ up = {"service"}
  BY <1>2, WhereEnding
<1>5. <<Do("join", "thread")>> \in Seq(CallWork)
  BY Calls
<1>6. PICK new : /\ todo' = [todo EXCEPT !["ui"] = new] /\ Quiet(new) /\ Without(new, Lists)
                 /\ \/ new = Stops2 /\ up' = {"service", "render"}
                    \/ new = Stops1 /\ up' = {"service"}
                    \/ Ordinary(new, {}) /\ up' = {}
  <2>1. todo' = [todo EXCEPT !["ui"] =
                    (IF m = "service" THEN <<Do("join", "thread")>> ELSE << >>) \o Tail(todo["ui"])]
    BY <1>1, <1>2 DEF Then, TypeInv
  <2>2. CASE m = "transport"
    <3>1. << >> \o Tail(todo["ui"]) = Stops2
      BY <1>4, <2>2, HeadsOfLists, NothingMore
    <3>2. up' = {"service", "render"}
      BY <1>2, <1>4, <2>2, FewerManagers
    <3>3. todo' = [todo EXCEPT !["ui"] = Stops2]
      BY <2>1, <2>2, <3>1
    <3> QED
      BY <3>2, <3>3, QuietLists, NothingMore
  <2>3. CASE m = "render"
    <3>1. << >> \o Tail(todo["ui"]) = Stops1
      BY <1>4, <2>3, HeadsOfLists, NothingMore
    <3>2. up' = {"service"}
      BY <1>2, <1>4, <2>3, FewerManagers
    <3>3. todo' = [todo EXCEPT !["ui"] = Stops1]
      BY <2>1, <2>3, <3>1
    <3> QED
      BY <3>2, <3>3, QuietLists, NothingMore
  <2>4. CASE m = "service"
    <3> DEFINE last == <<Do("join", "thread")>>
    <3>1. last \o << >> = last
      OBVIOUS
    <3> HIDE DEF last
    <3>2. last \o Tail(todo["ui"]) = last
      BY <1>4, <2>4, <3>1, HeadsOfLists
    <3>3. todo' = [todo EXCEPT !["ui"] = last]
      BY <2>1, <2>4, <3>2 DEF last
    <3>4. up' = {}
      BY <1>2, <1>4, <2>4, FewerManagers
    <3>5. last \in Seq(PlainWork) /\ Ordinary(last, {}) /\ Without(last, Lists)
      BY <1>5, CallLists DEF last
    <3>6. Quiet(last)
      BY <3>5, QuietLists
    <3> QED
      BY <3>3, <3>4, <3>5, <3>6
  <2> QED
    BY <2>2, <2>3, <2>4
<1>7. todo'["ui"] = new /\ todo'["event"] = todo["event"]
  BY <1>1, <1>6, ListChanges DEF Threads
<1>8. Quiet(todo["ui"])
  BY <1>4, QuietLists
<1>9. LifeInv'
  <2>1. IsEnding'
    BY <1>3, <1>4, <1>6, <1>7 DEF IsEnding, engineStateVars
  <2> QED
    BY <1>1, <1>7, <2>1 DEF LifeInv
<1>10. PageInv'
  BY <1>1, <1>3, <1>6, <1>7 DEF PageInv, Selected
<1>11. MediaTypeOK' /\ choice' \in [Kinds -> Cameras \cup Mics \cup {NoDevice}]
  <2>1. up' \subseteq Managers
    BY <1>1, <1>2 DEF MediaTypeOK
  <2> QED
    BY <1>1, <1>3, <2>1 DEF MediaTypeOK, TypeInv, engineStateVars
<1>12. UNCHANGED <<m_state_mutex, m_source_id, device, m_selected, engineStateVars>>
  BY <1>3
<1> QED
  BY <1>6, <1>8, <1>9, <1>10, <1>11, <1>12, QuietUi

\* A frame is on its way, or nothing happens.
LEMMA FrameInv ==
    ASSUME CaptureIInv,
           (\E k \in Kinds : Arrives(k) \/ FrameStep(k)) \/ UNCHANGED vars
    PROVE  CaptureIInv'
<1> USE DEF engineVars, lifeVars, mediaVars, pageVars, lobbyVars
<1>1. TypeInv /\ MediaTypeOK
  BY DEF CaptureIInv, TypeInv
<1>2. UNCHANGED <<managerVars, engineStateVars, todo, engineVars, pageVars>>
  BY DEF Arrives, FrameStep, Frame, Deliver, Accept, Push, vars, captureVars
<1>3. frame' \in [Kinds -> [at : {"none", "manager", "engine", "push"}, of : 0..MaxMeetings]]
  <2> DEFINE Frames == [at : {"none", "manager", "engine", "push"}, of : 0..MaxMeetings]
  <2>1. frame \in [Kinds -> Frames] /\ joined \in 0..MaxMeetings
    BY <1>1 DEF MediaTypeOK
  <2>2. NoFrame \in Frames
    BY CaptureAssumption DEF NoFrame, CaptureAssumption
  <2>3. ASSUME NEW k \in Kinds, Arrives(k) \/ FrameStep(k)
        PROVE  \E f \in Frames : frame' = [frame EXCEPT ![k] = f]
    <3>1. frame[k] \in Frames
      BY <2>1
    <3>2. \A a \in {"engine", "push"} : [frame[k] EXCEPT !.at = a] \in Frames
      BY <3>1
    <3>3. [at |-> "manager", of |-> joined] \in Frames
      BY <2>1
    <3> HIDE DEF Frames
    <3> QED
      BY <2>2, <2>3, <3>2, <3>3 DEF Arrives, FrameStep, Frame, Deliver, Accept, Push
  <2> HIDE DEF Frames
  <2>4. CASE UNCHANGED vars
    BY <2>1, <2>4 DEF vars, captureVars, Frames
  <2>5. CASE \E k \in Kinds : Arrives(k) \/ FrameStep(k)
    BY <2>1, <2>3, <2>5 DEF Frames
  <2> QED
    BY <2>4, <2>5
<1>4. TypeInv'
  BY <1>1, <1>2, <1>3 DEF TypeInv, MediaTypeOK, managerVars, engineStateVars
<1>5. LifeInv'
  BY <1>2 DEF CaptureIInv, LifeInv, IsStarting, IsWiring, IsRunning, IsClosing, IsEnding, Detached,
              Entering, Selected, managerVars, engineStateVars
<1>6. HoldInv' /\ CallbackInv'
  BY <1>2 DEF CaptureIInv, HoldInv, CallbackInv, Called, Detached, Has, Idle, managerVars,
              engineStateVars
<1>7. SourceInv' /\ PageInv'
  BY <1>2 DEF CaptureIInv, SourceInv, PageInv, Selected, managerVars, engineStateVars
<1> QED
  BY <1>4, <1>5, <1>6, <1>7 DEF CaptureIInv

-----------------------------------------------------------------------------
(* The camera and the microphone are owned by who knows them.               *)

LEMMA CaptureInit == Init => CaptureIInv
<1> SUFFICES ASSUME Init PROVE CaptureIInv
  OBVIOUS
<1> USE DEF Init, CaptureManagerInit, CaptureEngineInit
<1>1. todo["ui"] = Starting4 /\ todo["event"] = << >>
  BY DEF Threads, Starting4
<1>2. todo = [t \in Threads |-> todo[t]]
  OBVIOUS
<1>3. \A k \in Kinds : m_sources[k] = 0 /\ NoDevices[k] = NoDevice
  BY DEF NoSources, NoDevices
<1>4. NoFrame \in [at : {"none", "manager", "engine", "push"}, of : 0..MaxMeetings]
      /\ 0 \in 0..MaxMeetings
  BY CaptureAssumption DEF NoFrame, CaptureAssumption
<1>5. m_sources \in [Kinds -> 0..1]
      /\ NoDevices \in [Kinds -> Cameras \cup Mics \cup {NoDevice}]
  BY DEF NoSources, NoDevices
<1>6. MediaTypeOK
  BY <1>3, <1>4, <1>5 DEF MediaTypeOK
<1>7. TypeInv
  BY <1>2, <1>5, <1>6 DEF TypeInv
<1>8. LifeInv
  <2>1. Starting(todo["ui"], up)
    BY <1>1 DEF Starting
  <2> QED
    BY <1>1, <2>1, EmptyIsOrdinary DEF LifeInv, IsStarting
<1>9. Head(todo["ui"]) = Do("start", "service")
  BY <1>1, HeadsOfStart
<1>10. Quiet(todo["ui"])
  <2>1. "start" \in FixedWork \ {"detach", "stop"}
    BY DEF FixedWork
  <2> QED
    BY <1>9, <2>1, QuietHead
<1>11. \A t \in Threads : \A k \in Kinds : ~Has(t, "create", k) /\ ~Has(t, "unregister", k)
  <2>1. \A t \in Threads : ~LockedHead(todo[t])
    BY <1>1, <1>10 DEF Threads, Quiet, LockedHead
  <2> QED
    BY <2>1, WhoHolds
<1>12. HoldInv
  BY <1>10, <1>11 DEF HoldInv, Quiet, Detached, Threads, Nobody
<1>13. CallbackInv
  BY <1>10, <1>11 DEF CallbackInv, Called, Quiet
<1>14. SourceInv
  BY <1>3 DEF SourceInv
<1>15. PageInv
  BY DEF PageInv
<1> QED
  BY <1>7, <1>8, <1>12, <1>13, <1>14, <1>15 DEF CaptureIInv

LEMMA PageStepInv ==
    ASSUME CaptureIInv, PageStep
    PROVE  CaptureIInv'
<1>1. CASE \E m \in Managers : Start(m) \/ StartFails(m)
  BY <1>1, StartInv
<1>2. CASE Wire \/ Observe
  BY <1>2, WireInv
<1>3. CASE Join \/ JoinRefused
  BY <1>3, JoinInv
<1>4. CASE SetRoom \/ SetRoomFails
  BY <1>4, RoomInv
<1>5. CASE AcceptMedia
  BY <1>5, AcceptMediaInv
<1>6. CASE Enter \/ SubscribeFails
  BY <1>6, EnterInv
<1>7. CASE JoinThread \/ \E k \in Kinds : Show(k) \/ Hide(k)
  BY <1>7, ShowInv
<1>8. CASE \E k \in Kinds : List(k)
  BY <1>8, ListInv
<1>9. CASE \E k \in Kinds : Select(k)
  BY <1>9, SelectInv
<1>10. CASE \E purpose \in {"page", "quit"} : LeaveRefused(purpose) \/ LeaveAgreed(purpose)
  BY <1>10, LeaveInv
<1>11. CASE \E purpose \in {"page", "quit"} : Exit(purpose)
  BY <1>11, ExitInv
<1>12. CASE Uninit
  BY <1>12, UninitInv
<1>13. CASE ForgetManagers
  BY <1>13, ForgetInv
<1>14. CASE DisconnectCapture
  BY <1>14, DisconnectInv
<1>15. CASE StopsCapture
  BY <1>15, StopsCaptureInv
<1>16. CASE StopTransport \/ StopRender \/ StopService
  BY <1>16, StopInv
<1> QED
  BY <1>1, <1>2, <1>3, <1>4, <1>5, <1>6, <1>7, <1>8, <1>9, <1>10, <1>11, <1>12, <1>13, <1>14,
     <1>15, <1>16 DEF PageStep

LEMMA WorkInv ==
    ASSUME CaptureIInv, NEW t \in Threads, Work(t)
    PROVE  CaptureIInv'
<1>1. CASE Refuse(t) \/ Snapshot(t)
  BY <1>1, CleanupInv
<1>2. CASE \E k \in Kinds : EngineStep(t, k)
  BY <1>2, EngineStepInv
<1>3. CASE \E k \in Kinds : CaptureStep(t, k) /\ UNCHANGED <<engineVars, pageVars>>
  <2>1. PICK k \in Kinds : CaptureStep(t, k) /\ UNCHANGED <<engineVars, pageVars>>
    BY <1>3
  <2>2. CASE Register(t, k)
    BY <2>1, <2>2, RegisterInv
  <2>3. CASE Create(t, k)
    BY <2>1, <2>3, CreateInv
  <2>4. CASE CreateFails(t, k)
    BY <2>1, <2>4, CreateFailsInv
  <2>5. CASE Release(t, k)
    BY <2>1, <2>5, ReleaseInv
  <2>6. CASE Unregister(t, k)
    BY <2>1, <2>6, UnregisterInv
  <2> QED
    BY <2>1, <2>2, <2>3, <2>4, <2>5, <2>6 DEF CaptureStep
<1>4. CASE \E k \in Kinds : Detach(t, k) /\ UNCHANGED <<engineVars, pageVars>>
  BY <1>4, DetachInv
<1>5. CASE PageStep
  BY <1>5, PageStepInv
<1>6. CASE Tell
  BY <1>6, TellInv
<1> QED
  BY <1>1, <1>2, <1>3, <1>4, <1>5, <1>6 DEF Work

LEMMA CaptureNext ==
    ASSUME CaptureIInv, [Next]_vars
    PROVE  CaptureIInv'
<1>1. CASE Login \/ Leave \/ HandleMeetingEnded \/ \E k \in Kinds : Toggle(k)
  BY <1>1, UserInv
<1>2. CASE Submit
  BY <1>2, SubmitInv
<1>3. CASE Shutdown
  BY <1>3, ShutdownInv
<1>4. CASE \E k \in Kinds : \E d \in Devices[k] : Pick(k, d)
  BY <1>4, PickInv
<1>5. CASE MeetingEnds
  BY <1>5, MeetingEndsInv
<1>6. CASE \E t \in Threads : Work(t)
  BY <1>6, WorkInv
<1>7. CASE (\E k \in Kinds : Arrives(k) \/ FrameStep(k)) \/ UNCHANGED vars
  BY <1>7, FrameInv
<1> QED
  BY <1>1, <1>2, <1>3, <1>4, <1>5, <1>6, <1>7 DEF Next, User

LEMMA CaptureInvariantHolds == CaptureIInv => CaptureInvariant
<1> SUFFICES ASSUME CaptureIInv PROVE CaptureInvariant
  OBVIOUS
<1>1. MediaTypeOK /\ SourceInv /\ CallbackInv /\ PageInv
  BY DEF CaptureIInv, TypeInv
<1>2. SourcesOwned
  BY <1>1 DEF SourcesOwned, SourceInv, CallbackInv, Called
<1>3. DeviceAsSelected
  <2>1. m_source_id \subseteq Kinds
    BY <1>1 DEF MediaTypeOK
  <2> QED
    BY <1>1, <2>1 DEF DeviceAsSelected, SourceInv, PageInv, Selected
<1>4. ASSUME AtRest
      PROVE  /\ up = IF m_submodel_initialized THEN Managers ELSE {}
             /\ (obs = "ready") = m_submodel_initialized
             /\ ~m_submodel_initialized => m_sources = NoSources /\ m_state_mutex = Nobody
  <2>1. todo["ui"] = << >> /\ todo["event"] = << >> /\ Idle("ui")
    BY <1>4 DEF AtRest, Idle, Threads
  <2>2. /\ Quiet(todo["ui"])
        /\ \/ m_submodel_initialized /\ obs = "ready" /\ up = Managers
           \/ ~m_submodel_initialized /\ obs # "ready" /\ up = {}
    BY <2>1, IdleUi
  <2>3. m_state_mutex = Nobody
    BY <2>1, <2>2, NobodyHolds DEF LockedHead
  <2>4. ASSUME obs # "ready" PROVE m_sources = NoSources
    <3>1. \A k \in Kinds : m_sources[k] = 0
      BY <1>1, <2>4 DEF SourceInv
    <3>2. m_sources \in [Kinds -> 0..1]
      BY <1>1 DEF MediaTypeOK
    <3> QED
      BY <3>1, <3>2 DEF NoSources
  <2>5. m_submodel_initialized \in BOOLEAN
    BY <1>1 DEF MediaTypeOK
  <2> QED
    BY <2>2, <2>3, <2>4, <2>5
<1> QED
  BY <1>1, <1>2, <1>3, <1>4 DEF CaptureInvariant, ManagersTogether

\* Whatever the devices and however many meetings are entered: the sources that
\* CaptureEngine has are those CaptureManager knows, each with its callback and
\* with the device the lobby showed, although the end of a meeting closes them
\* on another thread than the page and opening them may fail half way; and the
\* managers of VceEngineImpl are all initialized, or none is and nothing is left.
THEOREM CaptureCorrect == Spec => []CaptureInvariant
<1>1. Init => CaptureIInv
  BY CaptureInit
<1>2. CaptureIInv /\ [Next]_vars => CaptureIInv'
  BY CaptureNext
<1>3. CaptureIInv => CaptureInvariant
  BY CaptureInvariantHolds
<1> QED
  BY <1>1, <1>2, <1>3, PTL DEF Spec

-----------------------------------------------------------------------------
(* What the page shows is what the devices do: what the two threads have     *)
(* still to do with the camera and the microphone, and in which order.       *)

Works(words, for) == {Do(w, for) : w \in words}

\* Some of the works is still to do.
Pending(list, words, for) == \E i \in DOMAIN list : list[i] \in Works(words, for)

\* One work is not done before one of the others has been.
Awaits(list, word, for, words, whom) ==
    \A i \in DOMAIN list :
        list[i] = Do(word, for) => \E j \in 1..(i - 1) : list[j] \in Works(words, whom)

\* The work is the last of the list.
Final(list, word, for) == \A i \in DOMAIN list : list[i] = Do(word, for) => i = Len(list)

\* The page is left last, and closed then.
LeavesLast(list) ==
    \A i \in DOMAIN list : list[i] = Do("leave", "page") =>
        i + 1 = Len(list) /\ list[Len(list)] = Do("exit", "page")

LEMMA WorksAre ==
    \A w, j, words, k : Do(w, j) \in Works(words, k) <=> w \in words /\ j = k
BY DEF Works, Do

LEMMA WorksDiffer ==
    \A w, j, v, k : Do(w, j) = Do(v, k) <=> w = v /\ j = k
BY DEF Do

LEMMA OneWork ==
    ASSUME NEW S, NEW list \in Seq(S), Len(list) = 1
    PROVE  list = <<list[1]>>
<1>1. list[1] \in S
  BY ElementOfSeq
<1>2. <<list[1]>> \in Seq(S) /\ Len(<<list[1]>>) = 1 /\ <<list[1]>>[1] = list[1]
  BY <1>1
<1>3. \A i \in 1..Len(list) : list[i] = <<list[1]>>[i]
  BY <1>2
<1> HIDE DEF Do
<1> QED
  BY <1>2, <1>3, SeqEqual

\* A list and what it begins with.
LEMMA Joined ==
    ASSUME NEW S, NEW a \in Seq(S), NEW b \in Seq(S)
    PROVE  /\ \A words, for :
                 Pending(a \o b, words, for) <=> Pending(a, words, for) \/ Pending(b, words, for)
           /\ \A word, for, words, whom :
                 Awaits(a \o b, word, for, words, whom) <=>
                     /\ Awaits(a, word, for, words, whom)
                     /\ Pending(a, words, whom) \/ Awaits(b, word, for, words, whom)
           /\ \A word, for :
                 Final(b, word, for) /\ ~Pending(a, {word}, for) => Final(a \o b, word, for)
           /\ LeavesLast(b) /\ ~Pending(a, {"leave"}, "page") => LeavesLast(a \o b)
<1> DEFINE c == a \o b
<1>1. /\ Len(a) \in Nat /\ Len(b) \in Nat /\ DOMAIN a = 1..Len(a) /\ DOMAIN b = 1..Len(b)
      /\ c \in Seq(S) /\ Len(c) = Len(a) + Len(b) /\ DOMAIN c = 1..(Len(a) + Len(b))
  BY LenProperties, ConcatProperties
<1>2. /\ \A i \in 1..Len(a) : c[i] = a[i]
      /\ \A i \in 1..Len(b) : c[i + Len(a)] = b[i]
  BY <1>1, ConcatProperties
<1> HIDE DEF c
<1>3. \A i \in (Len(a) + 1)..(Len(a) + Len(b)) : i - Len(a) \in 1..Len(b) /\ c[i] = b[i - Len(a)]
  BY <1>1, <1>2, SMTT(30)
<1>4. ASSUME NEW words, NEW for
      PROVE  Pending(c, words, for) <=> Pending(a, words, for) \/ Pending(b, words, for)
  <2>1. ASSUME Pending(a, words, for) PROVE Pending(c, words, for)
    BY <2>1, <1>1, <1>2 DEF Pending
  <2>2. ASSUME Pending(b, words, for) PROVE Pending(c, words, for)
    <3>1. PICK i \in 1..Len(b) : b[i] \in Works(words, for)
      BY <2>2, <1>1 DEF Pending
    <3>2. i + Len(a) \in DOMAIN c /\ c[i + Len(a)] \in Works(words, for)
      BY <3>1, <1>1, <1>2
    <3> QED
      BY <3>2 DEF Pending
  <2>3. ASSUME Pending(c, words, for) PROVE Pending(a, words, for) \/ Pending(b, words, for)
    <3>1. PICK i \in DOMAIN c : c[i] \in Works(words, for)
      BY <2>3 DEF Pending
    <3>2. CASE i \in 1..Len(a)
      BY <3>1, <3>2, <1>1, <1>2 DEF Pending
    <3>3. CASE i \in (Len(a) + 1)..(Len(a) + Len(b))
      <4>1. i - Len(a) \in DOMAIN b /\ b[i - Len(a)] \in Works(words, for)
        BY <3>1, <3>3, <1>1, <1>3
      <4> QED
        BY <4>1 DEF Pending
    <3> QED
      BY <3>2, <3>3, <1>1
  <2> QED
    BY <2>1, <2>2, <2>3
<1>5. ASSUME NEW word, NEW for, NEW words, NEW whom
      PROVE  Awaits(c, word, for, words, whom) <=>
                     /\ Awaits(a, word, for, words, whom)
                     /\ Pending(a, words, whom) \/ Awaits(b, word, for, words, whom)
  <2>1. ASSUME Awaits(c, word, for, words, whom) PROVE Awaits(a, word, for, words, whom)
    BY <2>1, <1>1, <1>2 DEF Awaits
  <2>2. ASSUME Awaits(c, word, for, words, whom), ~Pending(a, words, whom)
        PROVE  Awaits(b, word, for, words, whom)
    <3> SUFFICES ASSUME NEW i \in DOMAIN b, b[i] = Do(word, for)
                 PROVE  \E j \in 1..(i - 1) : b[j] \in Works(words, whom)
      BY DEF Awaits
    <3>1. i + Len(a) \in DOMAIN c /\ c[i + Len(a)] = Do(word, for) /\ i \in 1..Len(b)
      BY <1>1, <1>2
    <3>2. PICK j \in 1..(i + Len(a) - 1) : c[j] \in Works(words, whom)
      BY <3>1, <2>2 DEF Awaits
    <3>3. j \notin 1..Len(a)
      BY <3>2, <2>2, <1>1, <1>2 DEF Pending
    <3>4. j - Len(a) \in 1..(i - 1) /\ j \in (Len(a) + 1)..(Len(a) + Len(b))
      BY <3>1, <3>3, <1>1
    <3>5. b[j - Len(a)] \in Works(words, whom)
      BY <3>2, <3>4, <1>3
    <3> QED
      BY <3>4, <3>5
  <2>3. ASSUME Awaits(a, word, for, words, whom),
               Pending(a, words, whom) \/ Awaits(b, word, for, words, whom)
        PROVE  Awaits(c, word, for, words, whom)
    <3> SUFFICES ASSUME NEW i \in DOMAIN c, c[i] = Do(word, for)
                 PROVE  \E j \in 1..(i - 1) : c[j] \in Works(words, whom)
      BY DEF Awaits
    <3>1. CASE i \in 1..Len(a)
      <4>1. PICK j \in 1..(i - 1) : a[j] \in Works(words, whom)
        BY <3>1, <2>3, <1>1, <1>2 DEF Awaits
      <4> QED
        BY <3>1, <4>1, <1>1, <1>2
    <3>2. CASE i \in (Len(a) + 1)..(Len(a) + Len(b)) /\ Pending(a, words, whom)
      <4>1. PICK j \in 1..Len(a) : a[j] \in Works(words, whom)
        BY <3>2, <1>1 DEF Pending
      <4> QED
        BY <3>2, <4>1, <1>1, <1>2
    <3>3. CASE i \in (Len(a) + 1)..(Len(a) + Len(b)) /\ Awaits(b, word, for, words, whom)
      <4>1. i - Len(a) \in DOMAIN b /\ b[i - Len(a)] = Do(word, for)
        BY <3>3, <1>1, <1>3
      <4>2. PICK j \in 1..(i - Len(a) - 1) : b[j] \in Works(words, whom)
        BY <3>3, <4>1 DEF Awaits
      <4>3. j + Len(a) \in 1..(i - 1) /\ j \in 1..Len(b)
        BY <3>3, <4>2, <1>1
      <4> QED
        BY <4>2, <4>3, <1>2
    <3> QED
      BY <3>1, <3>2, <3>3, <2>3, <1>1
  <2> QED
    BY <2>1, <2>2, <2>3
<1>6. ASSUME NEW word, NEW for, Final(b, word, for), ~Pending(a, {word}, for)
      PROVE  Final(c, word, for)
  <2> SUFFICES ASSUME NEW i \in DOMAIN c, c[i] = Do(word, for) PROVE i = Len(c)
    BY DEF Final
  <2>1. i \notin 1..Len(a)
    BY <1>1, <1>2, <1>6, WorksAre DEF Pending
  <2>2. i \in (Len(a) + 1)..(Len(a) + Len(b))
    BY <2>1, <1>1
  <2>3. i - Len(a) \in DOMAIN b /\ b[i - Len(a)] = Do(word, for)
    BY <2>2, <1>1, <1>3
  <2>4. i - Len(a) = Len(b)
    BY <2>3, <1>6 DEF Final
  <2> QED
    BY <2>2, <2>4, <1>1
<1>7. ASSUME LeavesLast(b), ~Pending(a, {"leave"}, "page") PROVE LeavesLast(c)
  <2> SUFFICES ASSUME NEW i \in DOMAIN c, c[i] = Do("leave", "page")
               PROVE  i + 1 = Len(c) /\ c[Len(c)] = Do("exit", "page")
    BY DEF LeavesLast
  <2>1. i \notin 1..Len(a)
    BY <1>1, <1>2, <1>7, WorksAre DEF Pending
  <2>2. i \in (Len(a) + 1)..(Len(a) + Len(b))
    BY <2>1, <1>1
  <2>3. i - Len(a) \in DOMAIN b /\ b[i - Len(a)] = Do("leave", "page")
    BY <2>2, <1>1, <1>3
  <2>4. (i - Len(a)) + 1 = Len(b) /\ b[Len(b)] = Do("exit", "page")
    BY <2>3, <1>7 DEF LeavesLast
  <2>5. Len(b) \in 1..Len(b) /\ Len(b) + Len(a) = Len(c)
    BY <2>2, <1>1
  <2>6. c[Len(c)] = b[Len(b)]
    BY <2>5, <1>2
  <2>7. i + 1 = Len(c)
    <3>1. i \in Int /\ Len(a) \in Nat /\ Len(b) \in Nat
      BY <2>2, <1>1
    <3>2. i + 1 = Len(a) + Len(b)
      BY <2>4, <3>1
    <3> QED
      BY <3>2, <1>1
  <2> QED
    BY <2>4, <2>6, <2>7
<1> QED
  BY <1>4, <1>5, <1>6, <1>7 DEF c

\* A list with its first work.
LEMMA Begun ==
    ASSUME NEW S, NEW list \in Seq(S), list # << >>
    PROVE  /\ \A words, for :
                 Pending(list, words, for) <=>
                     Head(list) \in Works(words, for) \/ Pending(Tail(list), words, for)
           /\ \A word, for, words, whom :
                 Awaits(list, word, for, words, whom) <=>
                     /\ Head(list) # Do(word, for)
                     /\ \/ Head(list) \in Works(words, whom)
                        \/ Awaits(Tail(list), word, for, words, whom)
           /\ \A word, for : Final(list, word, for) =>
                 /\ Final(Tail(list), word, for)
                 /\ Head(list) = Do(word, for) => Tail(list) = << >>
           /\ LeavesLast(list) =>
                 /\ LeavesLast(Tail(list))
                 /\ Head(list) = Do("leave", "page") => Tail(list) = <<Do("exit", "page")>>
<1> DEFINE a == <<Head(list)>>
           b == Tail(list)
<1>1. /\ Len(list) \in Nat /\ Len(list) > 0 /\ DOMAIN list = 1..Len(list)
      /\ Head(list) = list[1] /\ Head(list) \in S
      /\ b \in Seq(S) /\ Len(b) = Len(list) - 1 /\ DOMAIN b = 1..Len(b)
      /\ \A i \in 1..Len(b) : b[i] = list[i + 1]
  BY EmptySeq, LenProperties, HeadTailProperties
<1>2. list = a \o b /\ a \in Seq(S) /\ Len(a) = 1 /\ a[1] = Head(list)
  BY <1>1
<1>3. \A words, for : Pending(a, words, for) <=> Head(list) \in Works(words, for)
  BY <1>2 DEF Pending
<1>4. \A word, for, words, whom : Awaits(a, word, for, words, whom) <=> Head(list) # Do(word, for)
  BY <1>2 DEF Awaits
<1>5. ASSUME NEW word, NEW for, Final(list, word, for)
      PROVE  /\ Final(b, word, for)
             /\ Head(list) = Do(word, for) => b = << >>
  <2>1. Final(b, word, for)
    BY <1>1, <1>5 DEF Final
  <2>2. ASSUME Head(list) = Do(word, for) PROVE b = << >>
    <3>1. Len(list) = 1
      BY <1>1, <1>5, <2>2 DEF Final
    <3>2. Len(b) = 0 /\ b \in Seq(S)
      BY <3>1, <1>1
    <3> HIDE DEF b
    <3>3. b = << >>
      BY <3>2, EmptySeq
    <3> QED
      BY <3>3
  <2> QED
    BY <2>1, <2>2
<1>6. ASSUME LeavesLast(list)
      PROVE  /\ LeavesLast(b)
             /\ Head(list) = Do("leave", "page") => b = <<Do("exit", "page")>>
  <2>1. ASSUME NEW i \in DOMAIN b, b[i] = Do("leave", "page")
        PROVE  i + 1 = Len(b) /\ b[Len(b)] = Do("exit", "page")
    <3>1. i + 1 \in DOMAIN list /\ list[i + 1] = Do("leave", "page")
      BY <2>1, <1>1
    <3>2. i + 2 = Len(list) /\ list[Len(list)] = Do("exit", "page")
      BY <3>1, <1>6, <1>1 DEF LeavesLast
    <3> QED
      BY <3>2, <2>1, <1>1
  <2>2. ASSUME Head(list) = Do("leave", "page") PROVE b = <<Do("exit", "page")>>
    <3>1. 2 = Len(list) /\ list[2] = Do("exit", "page")
      BY <1>1, <1>6, <2>2 DEF LeavesLast
    <3>2. b \in Seq(S) /\ Len(b) = 1 /\ b[1] = Do("exit", "page")
      BY <3>1, <1>1
    <3> HIDE DEF b
    <3>3. b = <<b[1]>>
      BY <3>2, OneWork
    <3> QED
      BY <3>2, <3>3
  <2> QED
    BY <2>1, <2>2 DEF LeavesLast
<1> HIDE DEF a, b
<1>7. /\ \A words, for : Pending(list, words, for) <=>
                 Pending(a, words, for) \/ Pending(b, words, for)
      /\ \A word, for, words, whom :
                 Awaits(list, word, for, words, whom) <=>
                     /\ Awaits(a, word, for, words, whom)
                     /\ Pending(a, words, whom) \/ Awaits(b, word, for, words, whom)
  BY <1>1, <1>2, Joined
<1> QED
  BY <1>3, <1>4, <1>5, <1>6, <1>7 DEF b


\* What holds of a list by its first work and the rest of it.
Peels(list, w, j, rest) ==
    /\ \A words, for : Pending(list, words, for) <=>
          (w \in words /\ j = for) \/ Pending(rest, words, for)
    /\ \A word, for, words, whom : Awaits(list, word, for, words, whom) <=>
          /\ ~(w = word /\ j = for)
          /\ (w \in words /\ j = whom) \/ Awaits(rest, word, for, words, whom)
    /\ \A word, for : Final(list, word, for) =>
          Final(rest, word, for) /\ (w = word /\ j = for => rest = << >>)
    /\ LeavesLast(list) =>
          /\ LeavesLast(rest)
          /\ w = "leave" /\ j = "page" => rest = <<Do("exit", "page")>>

\* What holds of a list by its two parts.
Joins(list, more, rest) ==
    /\ \A words, for : Pending(list, words, for) <=>
          Pending(more, words, for) \/ Pending(rest, words, for)
    /\ \A word, for, words, whom : Awaits(list, word, for, words, whom) <=>
          /\ Awaits(more, word, for, words, whom)
          /\ Pending(more, words, whom) \/ Awaits(rest, word, for, words, whom)
    /\ \A word, for : Final(rest, word, for) /\ ~Pending(more, {word}, for) =>
          Final(list, word, for)
    /\ LeavesLast(rest) /\ ~Pending(more, {"leave"}, "page") => LeavesLast(list)

LEMMA PartsOf ==
    ASSUME NEW S, NEW more \in Seq(S), NEW rest \in Seq(S)
    PROVE  Joins(more \o rest, more, rest)
BY Joined DEF Joins

\* The lists that a step may begin with.
LEMMA Nothing ==
    /\ \A words, for : ~Pending(<< >>, words, for)
    /\ \A word, for, words, whom : Awaits(<< >>, word, for, words, whom)
    /\ \A word, for : Final(<< >>, word, for)
    /\ LeavesLast(<< >>)
BY DEF Pending, Awaits, Final, LeavesLast

One(list, a, i) ==
    /\ \A words, for : Pending(list, words, for) <=> a \in words /\ i = for
    /\ \A word, for, words, whom : Awaits(list, word, for, words, whom) <=> ~(a = word /\ i = for)
    /\ \A word, for : Final(list, word, for)
    /\ LeavesLast(list) <=> ~(a = "leave" /\ i = "page")

LEMMA OneIs == \A a, i : One(<<Do(a, i)>>, a, i)
<1> SUFFICES ASSUME NEW a, NEW i PROVE One(<<Do(a, i)>>, a, i)
  OBVIOUS
<1> DEFINE x == Do(a, i)
           list == <<x>>
<1>1. DOMAIN list = 1..1 /\ list[1] = x /\ Len(list) = 1
  OBVIOUS
<1>2. \A words, for : x \in Works(words, for) <=> a \in words /\ i = for
  BY WorksAre
<1>3. \A word, for : x = Do(word, for) <=> a = word /\ i = for
  BY WorksDiffer
<1> HIDE DEF x, list
<1>4. \A words, for : Pending(list, words, for) <=> a \in words /\ i = for
  BY <1>1, <1>2 DEF Pending
<1>5. ASSUME NEW word, NEW for, NEW words, NEW whom
      PROVE  Awaits(list, word, for, words, whom) <=> ~(a = word /\ i = for)
  BY <1>1, <1>3 DEF Awaits
<1>6. \A word, for : Final(list, word, for)
  BY <1>1 DEF Final
<1>7. LeavesLast(list) <=> ~(a = "leave" /\ i = "page")
  BY <1>1, <1>3 DEF LeavesLast
<1>8. One(list, a, i)
  BY <1>4, <1>5, <1>6, <1>7 DEF One
<1> QED
  BY <1>8 DEF list, x

Two(list, a, i, b, j) ==
    /\ \A words, for : Pending(list, words, for) <=>
          (a \in words /\ i = for) \/ (b \in words /\ j = for)
    /\ \A word, for, words, whom : Awaits(list, word, for, words, whom) <=>
          ~(a = word /\ i = for) /\ (b = word /\ j = for => a \in words /\ i = whom)
    /\ \A word, for : Final(list, word, for) <=> ~(a = word /\ i = for)
    /\ ~(a = "leave" /\ i = "page") /\ ~(b = "leave" /\ j = "page") => LeavesLast(list)

LEMMA TwoIs == \A a, i, b, j : Do(a, i) # Do(b, j) => Two(<<Do(a, i), Do(b, j)>>, a, i, b, j)
<1> SUFFICES ASSUME NEW a, NEW i, NEW b, NEW j, Do(a, i) # Do(b, j)
             PROVE  Two(<<Do(a, i), Do(b, j)>>, a, i, b, j)
  OBVIOUS
<1> DEFINE x == Do(a, i)
           y == Do(b, j)
           list == <<x, y>>
<1>1. DOMAIN list = 1..2 /\ list[1] = x /\ list[2] = y /\ Len(list) = 2
  OBVIOUS
<1>2. \A words, for : /\ x \in Works(words, for) <=> a \in words /\ i = for
                      /\ y \in Works(words, for) <=> b \in words /\ j = for
  BY WorksAre
<1>3. \A word, for : /\ x = Do(word, for) <=> a = word /\ i = for
                     /\ y = Do(word, for) <=> b = word /\ j = for
  BY WorksDiffer
<1>4. x # y
  OBVIOUS
<1> HIDE DEF x, y, list
<1>5. \A words, for : Pending(list, words, for) <=>
          (a \in words /\ i = for) \/ (b \in words /\ j = for)
  BY <1>1, <1>2 DEF Pending
<1>6. ASSUME NEW word, NEW for, NEW words, NEW whom
      PROVE  Awaits(list, word, for, words, whom) <=>
          ~(a = word /\ i = for) /\ (b = word /\ j = for => a \in words /\ i = whom)
  BY <1>1, <1>2, <1>3 DEF Awaits
<1>7. \A word, for : Final(list, word, for) <=> ~(a = word /\ i = for)
  BY <1>1, <1>3 DEF Final
<1>8. ~(a = "leave" /\ i = "page") /\ ~(b = "leave" /\ j = "page") => LeavesLast(list)
  BY <1>1, <1>3 DEF LeavesLast
<1>9. Two(list, a, i, b, j)
  BY <1>5, <1>6, <1>7, <1>8 DEF Two
<1> QED
  BY <1>9 DEF list, x, y

Managed == Managers \cup Kinds \cup {"engine", "meeting"}
AnyWork == PlainWork \cup LockedWork \cup Uninits \cup Forgets \cup (FixedWork \X Managed)

\* The first work of a list is done, and may leave more to do.
LEMMA Goes ==
    ASSUME NEW list \in Seq(AnyWork), list # << >>, NEW w, NEW j, Head(list) = Do(w, j),
           NEW more \in Seq(AnyWork)
    PROVE  /\ Peels(list, w, j, Tail(list))
           /\ Joins(more \o Tail(list), more, Tail(list))
           /\ Tail(list) \in Seq(AnyWork)
<1>1. Tail(list) \in Seq(AnyWork)
  BY HeadTailProperties
<1>2. Joins(more \o Tail(list), more, Tail(list))
  BY <1>1, PartsOf
<1>3. /\ \A words, for :
                 Pending(list, words, for) <=>
                     Head(list) \in Works(words, for) \/ Pending(Tail(list), words, for)
      /\ \A word, for, words, whom :
                 Awaits(list, word, for, words, whom) <=>
                     /\ Head(list) # Do(word, for)
                     /\ \/ Head(list) \in Works(words, whom)
                        \/ Awaits(Tail(list), word, for, words, whom)
      /\ \A word, for : Final(list, word, for) =>
                 /\ Final(Tail(list), word, for)
                 /\ Head(list) = Do(word, for) => Tail(list) = << >>
      /\ LeavesLast(list) =>
                 /\ LeavesLast(Tail(list))
                 /\ Head(list) = Do("leave", "page") => Tail(list) = <<Do("exit", "page")>>
  BY Begun
<1>4. \A words, for : Head(list) \in Works(words, for) <=> w \in words /\ j = for
  BY WorksAre
<1>5. \A word, for : Head(list) = Do(word, for) <=> w = word /\ j = for
  BY WorksDiffer
<1> DEFINE rest == Tail(list)
           first == Head(list)
<1> HIDE DEF rest, first
<1>6. Peels(list, w, j, Tail(list))
  BY <1>3, <1>4, <1>5 DEF Peels
<1> QED
  BY <1>1, <1>2, <1>6

-----------------------------------------------------------------------------
(* The camera and the microphone of the page.                               *)

Ui == todo["ui"]
Event == todo["event"]

\* A device is being opened: by now this is left of it.
OpenWork == {"open", "publish", "register", "create", "flag", "show"}
OpenLists(k) ==
    {<<Do("open", k)>>, <<Do("publish", k)>>, <<Do("register", k)>>, <<Do("create", k)>>,
     <<Do("flag", k), Do("show", k)>>, <<Do("show", k)>>}
Opening(k) ==
    /\ Pending(Ui, OpenWork, k) => Ui \in OpenLists(k) /\ page
    /\ Pending(Ui, {"publish", "register", "create", "flag"}, k) => k \notin m_open

\* The event thread ends a meeting, and tells the page last.
EventWork ==
    {Do("cleanup", "meeting"), Do("snapshot", "meeting"), Do("tell", "page")}
    \cup ({"release", "unregister", "unpublish"} \X Kinds)
EventInv ==
    /\ Event \in Seq(EventWork)
    /\ Event # << >> => Pending(Event, {"tell"}, "page")
    /\ Final(Event, "tell", "page")

\* What is open is closed before the page is left and before it shows so; the
\* source and what is published end before the device counts as closed.
Closing(k) ==
    /\ k \in m_open =>
          /\ Awaits(Ui, "exit", "page", {"close", "unflag"}, k)
          /\ Awaits(Ui, "exit", "quit", {"close", "unflag"}, k)
          /\ Awaits(Ui, "hide", k, {"close", "unflag"}, k)
          /\ Awaits(Ui, "forget", "managers", {"cleanup", "snapshot"}, "meeting")
          /\ Pending(Ui, {"release", "unregister", "unpublish"}, k) => Pending(Ui, {"unflag"}, k)
    /\ k \in m_source_id \cup registered => Awaits(Ui, "unflag", k, {"release", "unregister"}, k)
    /\ k \in publishing => Awaits(Ui, "unflag", k, {"unpublish"}, k)

\* The page is left last of all, and the lobby then lists the devices.
LastInv ==
    /\ LeavesLast(Ui) /\ Final(Ui, "exit", "page")
    /\ (\E k \in Kinds : Pending(Ui, {"list"}, k)) => Ui \in {ListDevices, <<Do("list", "mic")>>}

\* Whatever is captured or published is open, or somebody is about to end it.
Owned(k) ==
    /\ k \in m_source_id \cup registered =>
          \/ k \in m_open \/ Pending(Ui, {"create", "flag"}, k)
          \/ Pending(Ui, {"release", "unregister"}, k)
          \/ Pending(Event, {"release", "unregister"}, k)
    /\ k \in publishing =>
          \/ k \in m_open \/ Pending(Ui, {"register", "create", "flag"}, k)
          \/ Pending(Ui, {"unpublish"}, k) \/ Pending(Event, {"unpublish"}, k)
    /\ k \in m_open => k \in shown \/ Pending(Ui, {"show"}, k)
    /\ k \in shown => page

\* The page is being left, and the server does not have to agree any more.
Exiting == Pending(Ui, {"exit"}, "page") \/ Pending(Ui, {"exit"}, "quit")
Leaving == Pending(Ui, {"leave"}, "page")
Gone == Exiting /\ ~Leaving

\* When the client ends it does not observe the engine; who ends the meeting for
\* the page will leave it.
QuitInv ==
    /\ m_observers => m_submodel_initialized
    /\ m_submodel_initialized /\ ~m_observers => Pending(Ui, {"uninit", "observe"}, "engine")
    /\ ~m_observers => ~page \/ Exiting
    /\ Leaving => m_observers
    /\ \/ Pending(Ui, {"leave", "exit"}, "quit") \/ Pending(Ui, {"uninit"}, "engine")
       \/ Pending(Ui, {"forget"}, "managers")
       => ~m_observers
    /\ Pending(Ui, {"cleanup", "snapshot"}, "meeting") => ~page \/ ~m_observers \/ Gone

\* The end of the meeting is on its way to the page, or the page is at its end.
Doomed == notice \/ Event # << >> \/ ~m_observers \/ Gone

\* Until then the page shows what is, but for the call that is under way.
Truth(k) ==
    /\ k \in shown => \/ k \in m_open /\ ~Pending(Ui, {"close", "unflag"}, k)
                      \/ Pending(Ui, {"hide"}, k)
    /\ k \in m_open => Pending(Ui, {"unflag"}, k) \/ (k \in m_source_id /\ k \in publishing)
    /\ Pending(Ui, {"register", "create", "flag"}, k) => k \in publishing
    /\ Pending(Ui, {"flag"}, k) => k \in m_source_id
    /\ Pending(Ui, {"show"}, k) => k \in m_open \/ Pending(Ui, {"flag"}, k)

\* A frame is of the meeting, which is entered with nothing captured.
FrameFits == \A k \in Kinds : frame[k] # NoFrame => k \in registered /\ frame[k].of = joined
FrameInvariant ==
    /\ FrameFits
    /\ Pending(Ui, {"room"}, "meeting") => m_current_meeting_id = 0 /\ Event = << >>

OpeningInv == \A k \in Kinds : Opening(k)
ClosingInv == \A k \in Kinds : Closing(k)
OwnInv     == \A k \in Kinds : Owned(k)
TruthInv   == Doomed \/ \A k \in Kinds : Truth(k)

MediaInv ==
    /\ OpeningInv /\ EventInv /\ ClosingInv /\ LastInv /\ OwnInv /\ QuitInv /\ TruthInv
    /\ FrameInvariant

-----------------------------------------------------------------------------
(* Steps of a thread.                                                       *)

LEMMA WorkIsAny ==
    /\ PlainWork \cup LockedWork \cup Uninits \cup Forgets \subseteq AnyWork
    /\ EventWork \subseteq AnyWork
    /\ \A a \in FixedWork, i \in Managed : Do(a, i) \in AnyWork
<1>1. EventWork \subseteq PlainWork \cup LockedWork
  <2>1. {"unregister"} \X Kinds \subseteq LockedWork
    BY DEF LockedWork
  <2>2. {"release", "unpublish"} \X Kinds \subseteq PlainWork
    BY DEF PlainWork
  <2>3. {"release", "unregister", "unpublish"} \X Kinds \subseteq PlainWork \cup LockedWork
    BY <2>1, <2>2
  <2>4. {Do("cleanup", "meeting"), Do("snapshot", "meeting"), Do("tell", "page")}
           \subseteq PlainWork
    BY DEF PlainWork
  <2> QED
    BY <2>3, <2>4 DEF EventWork
<1>2. \A a \in FixedWork, i \in Managed : Do(a, i) \in FixedWork \X Managed
  BY DEF Do
<1> QED
  BY <1>1, <1>2 DEF AnyWork

LEMMA OrdinaryIsAny ==
    ASSUME NEW end \in Ends, NEW list, Ordinary(list, end)
    PROVE  list \in Seq(AnyWork)
<1>1. list \in Seq(PlainWork \cup LockedWork \cup end)
  BY DEF Ordinary
<1>2. PlainWork \cup LockedWork \cup end \subseteq AnyWork
  BY WorkIsAny DEF Ends
<1> QED
  BY <1>1, <1>2, SeqMonotonic, Zenon

LEMMA FixedIsAny ==
    /\ {Starting1, Starting2, Starting3, Starting4, Wiring, Observing, Selecting, Selecting2,
        <<Do("request", "meeting")>>, <<Do("accept", "meeting"), Do("enter", "meeting")>>,
        <<Do("room", "meeting"), Do("accept", "meeting"), Do("enter", "meeting")>>,
        <<Do("enter", "meeting")>>} \subseteq Seq(AnyWork)
    /\ {Stops1, Stops2, Stops3, Emptying, Detaching1, Detaching2, Disconnecting}
          \subseteq Seq(AnyWork)
<1>1. /\ {"start", "wire", "observe", "select", "request", "room", "accept", "enter", "disconnect",
          "detach", "stop"} \subseteq FixedWork
      /\ {"camera", "mic", "engine", "meeting", "capture", "transport", "render", "service"}
            \subseteq Managed
  BY DEF FixedWork, Managed, Managers, Kinds
<1>2. \A a \in FixedWork, i \in Managed : Do(a, i) \in AnyWork
  BY WorkIsAny
<1>3. {Starting1, Starting2, Starting3, Starting4} \subseteq Seq(AnyWork)
  BY <1>1, <1>2 DEF Starting1, Starting2, Starting3, Starting4
<1>4. {Wiring, Observing, Selecting, Selecting2} \subseteq Seq(AnyWork)
  BY <1>1, <1>2 DEF Wiring, Observing, Selecting, Selecting2
<1>5. {<<Do("request", "meeting")>>, <<Do("accept", "meeting"), Do("enter", "meeting")>>,
       <<Do("room", "meeting"), Do("accept", "meeting"), Do("enter", "meeting")>>,
       <<Do("enter", "meeting")>>} \subseteq Seq(AnyWork)
  BY <1>1, <1>2
<1>6. {Stops1, Stops2, Stops3, Emptying} \subseteq Seq(AnyWork)
  BY <1>1, <1>2 DEF Stops1, Stops2, Stops3, Emptying
<1>7. Detaching1 \in Seq(AnyWork) /\ Detaching2 \in Seq(AnyWork)
  BY <1>1, <1>2 DEF Detaching1, Detaching2
<1>8. Disconnecting \in Seq(AnyWork)
  BY <1>1, <1>2 DEF Disconnecting
<1> QED
  BY <1>3, <1>4, <1>5, <1>6, <1>7, <1>8

LEMMA UiIsAny == CaptureIInv => Ui \in Seq(AnyWork)
<1> SUFFICES ASSUME CaptureIInv PROVE todo["ui"] \in Seq(AnyWork)
  BY DEF Ui
<1>1. {{}, Uninits, Forgets} \subseteq Ends
  BY DEF Ends
<1>2. IsStarting \/ IsWiring \/ IsRunning \/ IsClosing \/ IsEnding
  BY DEF CaptureIInv, LifeInv
<1> QED
  BY <1>1, <1>2, OrdinaryIsAny, FixedIsAny
     DEF IsStarting, IsWiring, IsRunning, IsClosing, IsEnding, Starting, Entering, Detached

\* A step of the UI thread: what its list is then.
UiGoes(w, j, more, rest) ==
    /\ Peels(Ui, w, j, rest) /\ Joins(Ui', more, rest) /\ rest \in Seq(AnyWork)
    /\ Event' = Event /\ Ui' = more \o rest /\ (more = << >> => Ui' = rest) /\ rest = Tail(Ui)

LEMMA UiThen ==
    ASSUME CaptureIInv, NEW w, NEW j, Has("ui", w, j), NEW more \in Seq(AnyWork),
           Then("ui", more)
    PROVE  UiGoes(w, j, more, Tail(Ui))
<1>1. Ui \in Seq(AnyWork) /\ Ui # << >> /\ Head(Ui) = Do(w, j)
  BY UiIsAny DEF Has, Idle, Ui
<1>2. /\ Peels(Ui, w, j, Tail(Ui)) /\ Joins(more \o Tail(Ui), more, Tail(Ui))
      /\ Tail(Ui) \in Seq(AnyWork)
  BY <1>1, Goes
<1>3. todo' = [todo EXCEPT !["ui"] = more \o Tail(Ui)] /\ TypeInv
  BY DEF Then, Ui, CaptureIInv, TypeInv
<1>4. Ui' = more \o Tail(Ui) /\ Event' = Event
  BY <1>3, ListChanges DEF Threads, Ui, Event
<1>5. more = << >> => more \o Tail(Ui) = Tail(Ui)
  BY <1>2
<1> QED
  BY <1>2, <1>4, <1>5 DEF UiGoes

LEMMA UiStarts ==
    ASSUME CaptureIInv, NEW list, Starts("ui", list)
    PROVE  Ui' = list /\ Event' = Event
<1>1. todo' = [todo EXCEPT !["ui"] = list] /\ TypeInv
  BY DEF Starts, CaptureIInv
<1> QED
  BY <1>1, ListChanges DEF Threads, Ui, Event

\* A step of the event thread.
EventGoes(w, j, more, rest) ==
    /\ Peels(Event, w, j, rest) /\ Joins(Event', more, rest)
    /\ Ui' = Ui /\ Event' = more \o rest /\ Event # << >>
    /\ Event' \in Seq(EventWork) /\ (more = << >> => Event' = rest)
    /\ Do(w, j) \in EventWork

LEMMA EventThen ==
    ASSUME CaptureIInv, EventInv, NEW w, NEW j, Has("event", w, j), NEW more \in Seq(EventWork),
           Then("event", more)
    PROVE  EventGoes(w, j, more, Tail(Event))
<1>1. Event \in Seq(EventWork) /\ Event # << >> /\ Head(Event) = Do(w, j)
  BY DEF Has, Idle, Event, EventInv
<1>2. Event \in Seq(AnyWork) /\ more \in Seq(AnyWork)
  BY <1>1, WorkIsAny, SeqMonotonic, Zenon
<1>3. /\ Peels(Event, w, j, Tail(Event)) /\ Joins(more \o Tail(Event), more, Tail(Event))
  BY <1>1, <1>2, Goes
<1>4. todo' = [todo EXCEPT !["event"] = more \o Tail(Event)] /\ TypeInv
  BY DEF Then, Event, CaptureIInv, TypeInv
<1>5. Event' = more \o Tail(Event) /\ Ui' = Ui
  BY <1>4, ListChanges DEF Threads, Ui, Event
<1>6. Tail(Event) \in Seq(EventWork) /\ more \o Tail(Event) \in Seq(EventWork)
      /\ Head(Event) \in EventWork
  BY <1>1, HeadTailProperties, ConcatProperties
<1>7. more = << >> => more \o Tail(Event) = Tail(Event)
  BY <1>6
<1> QED
  BY <1>1, <1>3, <1>5, <1>6, <1>7 DEF EventGoes

\* What the event thread has to do.
LEMMA EventHeads ==
    ASSUME EventInv, NEW w, NEW j, Has("event", w, j)
    PROVE  /\ w \in {"cleanup", "snapshot", "tell", "release", "unregister", "unpublish"}
           /\ Event # << >>
<1>1. Event \in Seq(EventWork) /\ Event # << >> /\ Head(Event) = Do(w, j)
  BY DEF Has, Idle, Event, EventInv
<1>2. Do(w, j) \in EventWork
  BY <1>1, HeadTailProperties
<1> QED
  BY <1>1, <1>2 DEF EventWork, Do

LEMMA UiDoes ==
    ASSUME EventInv, NEW t \in Threads, NEW w, NEW j, Has(t, w, j),
           w \notin {"cleanup", "snapshot", "tell", "release", "unregister", "unpublish"}
    PROVE  t = "ui"
BY EventHeads DEF Threads

\* Nothing is being opened.
Opens(list, k) ==
    \/ Pending(list, OpenWork, k) \/ Pending(list, {"publish", "register", "create", "flag"}, k)
    \/ Pending(list, {"register", "create", "flag"}, k) \/ Pending(list, {"create", "flag"}, k)
    \/ Pending(list, {"flag"}, k) \/ Pending(list, {"show"}, k)

LEMMA OpensWorks == \A list, k : Opens(list, k) <=> Pending(list, OpenWork, k)
<1> SUFFICES ASSUME NEW list, NEW k PROVE Opens(list, k) <=> Pending(list, OpenWork, k)
  OBVIOUS
<1>1. ASSUME NEW words, words \subseteq OpenWork, Pending(list, words, k)
      PROVE  Pending(list, OpenWork, k)
  <2>1. Works(words, k) \subseteq Works(OpenWork, k)
    BY <1>1 DEF Works
  <2> QED
    BY <1>1, <2>1 DEF Pending
<1>2. /\ {"publish", "register", "create", "flag"} \subseteq OpenWork
      /\ {"register", "create", "flag"} \subseteq OpenWork /\ {"create", "flag"} \subseteq OpenWork
      /\ {"flag"} \subseteq OpenWork /\ {"show"} \subseteq OpenWork
  BY DEF OpenWork
<1> QED
  BY <1>1, <1>2 DEF Opens

LEMMA NotOpening ==
    ASSUME OpeningInv, NEW w, NEW j, Has("ui", w, j), w \notin OpenWork
    PROVE  \A k \in Kinds : ~Opens(Ui, k)
<1> SUFFICES ASSUME NEW k \in Kinds, Opens(Ui, k) PROVE FALSE
  OBVIOUS
<1>1. Ui \in OpenLists(k) /\ Head(Ui) = Do(w, j)
  BY OpensWorks DEF OpeningInv, Opening, Has, Ui
<1>2. PICK x \in OpenWork : Head(Ui) = Do(x, k)
  BY <1>1 DEF OpenLists, OpenWork
<1> QED
  BY <1>1, <1>2, WorksDiffer

\* A step that opens nothing.
LEMMA StillClosed ==
    ASSUME OpeningInv, NEW w, NEW j, NEW more, NEW rest, Has("ui", w, j), w \notin OpenWork,
           UiGoes(w, j, more, rest), \A k \in Kinds : ~Opens(more, k)
    PROVE  /\ \A k \in Kinds : ~Opens(Ui, k) /\ ~Opens(Ui', k) /\ ~Opens(rest, k)
           /\ OpeningInv'
<1>1. \A k \in Kinds : ~Pending(Ui, OpenWork, k) /\ ~Pending(more, OpenWork, k)
  BY NotOpening, OpensWorks
<1>2. \A k \in Kinds : ~Pending(rest, OpenWork, k) /\ ~Pending(Ui', OpenWork, k)
  BY <1>1 DEF UiGoes, Peels, Joins
<1>3. \A k \in Kinds : ~Opens(Ui, k) /\ ~Opens(Ui', k) /\ ~Opens(rest, k)
  BY <1>1, <1>2, OpensWorks
<1>4. ASSUME NEW k \in Kinds PROVE Opening(k)'
  BY <1>3 DEF Opening, Opens
<1> QED
  BY <1>3, <1>4 DEF OpeningInv

LEMMA StillLast ==
    ASSUME LastInv, NEW w, NEW j, NEW more, NEW rest, Has("ui", w, j), UiGoes(w, j, more, rest),
           w # "list" \/ more = << >>,
           \A k \in Kinds : ~Pending(more, {"list"}, k),
           ~Pending(more, {"leave"}, "page"), ~Pending(more, {"exit"}, "page")
    PROVE  LastInv'
<1>1. LeavesLast(Ui') /\ Final(Ui', "exit", "page")
  BY DEF UiGoes, Peels, Joins, LastInv
<1>2. ASSUME NEW k \in Kinds, Pending(Ui', {"list"}, k)
      PROVE  Ui' \in {ListDevices, <<Do("list", "mic")>>}
  <2>1. Pending(rest, {"list"}, k)
    BY <1>2 DEF UiGoes, Joins
  <2>2. Pending(Ui, {"list"}, k)
    BY <2>1 DEF UiGoes, Peels
  <2>3. Ui \in {ListDevices, <<Do("list", "mic")>>} /\ Head(Ui) = Do(w, j)
    BY <2>2 DEF LastInv, Has, Ui
  <2>4. Do("list", "camera") # Do("list", "mic")
    BY WorksDiffer
  <2>5. CASE Ui = ListDevices
    <3> DEFINE x == Do("list", "camera")
               y == Do("list", "mic")
    <3>1. Head(<<x, y>>) = x /\ Tail(<<x, y>>) = <<y>>
      OBVIOUS
    <3>2. w = "list" /\ j = "camera"
      BY <2>3, <2>5, <3>1, WorksDiffer DEF ListDevices
    <3>3. Ui' = rest
      BY <3>2 DEF UiGoes
    <3> QED
      BY <2>5, <3>1, <3>3 DEF UiGoes, ListDevices
  <2>6. CASE Ui = <<Do("list", "mic")>>
    <3> DEFINE y == Do("list", "mic")
    <3>1. Head(<<y>>) = y /\ Tail(<<y>>) = << >>
      OBVIOUS
    <3>2. w = "list" /\ rest = << >>
      BY <2>3, <2>6, <3>1, WorksDiffer DEF UiGoes
    <3>3. Ui' = << >>
      BY <3>2 DEF UiGoes
    <3> QED
      BY <1>2, <3>3, Nothing
  <2> QED
    BY <2>3, <2>5, <2>6
<1> QED
  BY <1>1, <1>2 DEF LastInv

\* A step that only takes the first work off the list, and what it may end.
Reduces(w, j) ==
    /\ UNCHANGED <<page, notice, m_observers>>
    /\ m_open' = IF w = "unflag" THEN m_open \ {j} ELSE m_open
    /\ shown' = IF w = "hide" THEN shown \ {j} ELSE shown
    /\ w = "close" => j \notin m_open
    /\ w = "release" => j \notin m_source_id /\ j \notin registered
    /\ m_source_id' \subseteq m_source_id /\ registered' \subseteq registered
    /\ publishing' \subseteq publishing
    /\ w = "unregister" => j \notin m_source_id' /\ j \notin registered'
    /\ w = "unpublish" => j \notin publishing'
    /\ m_observers => \A k \in Kinds :
          /\ k \in m_source_id => k \in m_source_id' \/ (w = "unregister" /\ j = k)
          /\ k \in publishing => k \in publishing' \/ (w = "unpublish" /\ j = k)

LEMMA TakesOff ==
    ASSUME MediaInv, NEW w, NEW j, NEW rest, Has("ui", w, j), UiGoes(w, j, << >>, rest),
           w \notin OpenWork, w \notin {"exit", "cleanup", "snapshot"}, Reduces(w, j)
    PROVE  OpeningInv' /\ EventInv' /\ ClosingInv' /\ LastInv' /\ OwnInv' /\ TruthInv'
<1>1. /\ \A k \in Kinds : ~Opens(Ui, k) /\ ~Opens(Ui', k) /\ ~Opens(rest, k)
      /\ OpeningInv'
  BY Nothing, StillClosed DEF Opens, MediaInv
<1>2. LastInv'
  BY Nothing, StillLast DEF MediaInv
<1>3. EventInv' /\ Event' = Event
  BY DEF UiGoes, EventInv, MediaInv
<1>4. /\ \A words, for : Pending(Ui, words, for) <=>
            (w \in words /\ j = for) \/ Pending(Ui', words, for)
      /\ \A word, for, words, whom : Awaits(Ui, word, for, words, whom) <=>
            /\ ~(w = word /\ j = for)
            /\ (w \in words /\ j = whom) \/ Awaits(Ui', word, for, words, whom)
  BY DEF UiGoes, Peels
<1>5. ASSUME NEW k \in Kinds PROVE Closing(k)'
  <2>1. Closing(k)
    BY DEF MediaInv, ClosingInv
  <2>2. k \in m_open' => k \in m_open /\ ~(w \in {"close", "unflag"} /\ j = k)
    BY DEF Reduces
  <2>3. ASSUME k \in m_open'
        PROVE  /\ Awaits(Ui', "exit", "page", {"close", "unflag"}, k)
               /\ Awaits(Ui', "exit", "quit", {"close", "unflag"}, k)
               /\ Awaits(Ui', "hide", k, {"close", "unflag"}, k)
    BY <1>4, <2>1, <2>3, <2>2 DEF Closing
  <2>4. ASSUME k \in m_open'
        PROVE  Awaits(Ui', "forget", "managers", {"cleanup", "snapshot"}, "meeting")
    <3>1. w \notin {"cleanup", "snapshot"}
      OBVIOUS
    <3> QED
      BY <1>4, <2>1, <2>4, <2>2, <3>1 DEF Closing
  <2>5. ASSUME k \in m_open', Pending(Ui', {"release", "unregister", "unpublish"}, k)
        PROVE  Pending(Ui', {"unflag"}, k)
    <3>1. k \in m_open /\ ~(w = "unflag" /\ j = k)
      BY <2>5 DEF Reduces
    <3>2. Pending(Ui, {"unflag"}, k)
      BY <1>4, <2>1, <2>5, <3>1 DEF Closing
    <3> QED
      BY <1>4, <3>1, <3>2
  <2>6. ASSUME k \in m_source_id' \/ k \in registered'
        PROVE  Awaits(Ui', "unflag", k, {"release", "unregister"}, k)
    <3>1. (k \in m_source_id \/ k \in registered) /\ ~(w \in {"release", "unregister"} /\ j = k)
      BY <2>6 DEF Reduces
    <3> QED
      BY <1>4, <2>1, <3>1 DEF Closing
  <2>7. ASSUME k \in publishing' PROVE Awaits(Ui', "unflag", k, {"unpublish"}, k)
    <3>1. k \in publishing /\ ~(w = "unpublish" /\ j = k)
      BY <2>7 DEF Reduces
    <3> QED
      BY <1>4, <2>1, <3>1 DEF Closing
  <2> QED
    BY <2>3, <2>4, <2>5, <2>6, <2>7 DEF Closing
<1>6. ASSUME NEW k \in Kinds PROVE Owned(k)'
  <2>1. Owned(k) /\ Closing(k) /\ ~Opens(Ui, k)
    BY <1>1 DEF MediaInv, ClosingInv, OwnInv
  <2>2. ASSUME k \in m_source_id' \/ k \in registered'
        PROVE  \/ k \in m_open' \/ Pending(Ui', {"release", "unregister"}, k)
               \/ Pending(Event', {"release", "unregister"}, k)
    <3>1. (k \in m_source_id \/ k \in registered) /\ ~(w \in {"release", "unregister"} /\ j = k)
      BY <2>2 DEF Reduces
    <3>2. ~(w = "unflag" /\ j = k) \/ Pending(Ui', {"release", "unregister"}, k)
      BY <1>4, <2>1, <3>1 DEF Closing
    <3>3. k \in m_open => k \in m_open' \/ (w = "unflag" /\ j = k)
      BY DEF Reduces
    <3> QED
      BY <1>3, <1>4, <2>1, <3>1, <3>2, <3>3 DEF Owned, Opens
  <2>3. ASSUME k \in publishing'
        PROVE  \/ k \in m_open' \/ Pending(Ui', {"unpublish"}, k)
               \/ Pending(Event', {"unpublish"}, k)
    <3>1. k \in publishing /\ ~(w = "unpublish" /\ j = k)
      BY <2>3 DEF Reduces
    <3>2. ~(w = "unflag" /\ j = k) \/ Pending(Ui', {"unpublish"}, k)
      BY <1>4, <2>1, <3>1 DEF Closing
    <3>3. k \in m_open => k \in m_open' \/ (w = "unflag" /\ j = k)
      BY DEF Reduces
    <3> QED
      BY <1>3, <1>4, <2>1, <3>1, <3>2, <3>3 DEF Owned, Opens
  <2>4. k \in m_open' => k \in shown'
    <3>1. k \in m_open' => k \in m_open
      BY DEF Reduces
    <3>2. k \in m_open => ~(w = "hide" /\ j = k)
      BY <1>4, <2>1 DEF Closing
    <3>3. k \in shown /\ ~(w = "hide" /\ j = k) => k \in shown'
      BY DEF Reduces
    <3> QED
      BY <2>1, <3>1, <3>2, <3>3 DEF Owned, Opens
  <2>5. k \in shown' => page'
    BY <2>1 DEF Owned, Reduces
  <2> QED
    BY <2>2, <2>3, <2>4, <2>5 DEF Owned
<1>7. TruthInv'
  <2>1. Doomed => Doomed'
    BY <1>3, <1>4 DEF Doomed, Gone, Exiting, Leaving, Reduces
  <2>2. ASSUME \A k \in Kinds : Truth(k), m_observers, NEW k \in Kinds PROVE Truth(k)'
    <3>1. Truth(k) /\ Closing(k) /\ ~Opens(Ui', k)
      BY <1>1, <2>2 DEF MediaInv, ClosingInv
    <3>2. ASSUME k \in shown'
          PROVE  \/ k \in m_open' /\ ~Pending(Ui', {"close", "unflag"}, k)
                 \/ Pending(Ui', {"hide"}, k)
      <4>1. k \in shown /\ ~(w = "hide" /\ j = k)
        BY <3>2 DEF Reduces
      <4>2. CASE Pending(Ui, {"hide"}, k)
        BY <1>4, <4>1, <4>2
      <4>3. CASE k \in m_open /\ ~Pending(Ui, {"close", "unflag"}, k)
        <5>1. ~Pending(Ui', {"close", "unflag"}, k) /\ ~(w = "unflag" /\ j = k)
          BY <1>4, <4>3
        <5>2. k \in m_open'
          BY <4>3, <5>1 DEF Reduces
        <5> QED
          BY <5>1, <5>2
      <4> QED
        BY <3>1, <4>1, <4>2, <4>3 DEF Truth
    <3>3. ASSUME k \in m_open'
          PROVE  Pending(Ui', {"unflag"}, k) \/ (k \in m_source_id' /\ k \in publishing')
      <4>1. k \in m_open /\ ~(w = "unflag" /\ j = k)
        BY <3>3 DEF Reduces
      <4>2. CASE Pending(Ui, {"unflag"}, k)
        BY <1>4, <4>1, <4>2
      <4>3. CASE k \in m_source_id /\ k \in publishing
        <5>1. CASE w \in {"unregister", "unpublish"} /\ j = k
          BY <1>4, <3>1, <4>1, <5>1 DEF Closing
        <5>2. CASE ~(w \in {"unregister", "unpublish"} /\ j = k)
          BY <2>2, <4>3, <5>2 DEF Reduces
        <5> QED
          BY <5>1, <5>2
      <4> QED
        BY <3>1, <4>1, <4>2, <4>3 DEF Truth
    <3> QED
      BY <3>1, <3>2, <3>3 DEF Truth, Opens
  <2>3. ~Doomed => m_observers
    BY DEF Doomed
  <2> QED
    BY <2>1, <2>2, <2>3 DEF TruthInv, MediaInv
<1> QED
  BY <1>1, <1>2, <1>3, <1>5, <1>6, <1>7 DEF ClosingInv, OwnInv

\* A step that turns the first work into another one of its kind.
LEMMA Turns ==
    ASSUME MediaInv, NEW w, NEW v, NEW j, NEW rest, Has("ui", w, j),
           UiGoes(w, j, <<Do(v, j)>>, rest),
           (w = "release" /\ v = "unregister") \/ (w = "cleanup" /\ v = "snapshot"),
           UNCHANGED <<page, notice, m_observers, m_open, shown, m_source_id, registered,
                       publishing>>
    PROVE  OpeningInv' /\ EventInv' /\ ClosingInv' /\ LastInv' /\ OwnInv' /\ TruthInv'
<1> DEFINE more == <<Do(v, j)>>
<1>1. One(more, v, j)
  BY OneIs
<1> HIDE DEF more
<1>2. UiGoes(w, j, more, rest)
  BY DEF more
<1>3. /\ \A k \in Kinds : ~Opens(Ui, k) /\ ~Opens(Ui', k) /\ ~Opens(rest, k)
      /\ OpeningInv'
  <2>1. \A k \in Kinds : ~Opens(more, k)
    BY <1>1 DEF Opens, OpenWork, One
  <2>2. w \notin OpenWork
    BY DEF OpenWork
  <2> QED
    BY <1>2, <2>1, <2>2, StillClosed DEF MediaInv
<1>4. LastInv'
  <2>1. /\ \A k \in Kinds : ~Pending(more, {"list"}, k)
        /\ ~Pending(more, {"leave"}, "page") /\ ~Pending(more, {"exit"}, "page")
    BY <1>1 DEF One
  <2>2. w # "list"
    OBVIOUS
  <2> QED
    BY <1>2, <2>1, <2>2, StillLast DEF MediaInv
<1>5. EventInv' /\ Event' = Event
  BY DEF UiGoes, EventInv, MediaInv
<1>6. /\ \A words, for : (w \in words <=> v \in words) =>
            (Pending(Ui', words, for) <=> Pending(Ui, words, for))
      /\ \A word, for, words, whom :
            w # word /\ v # word /\ (w \in words <=> v \in words) =>
               (Awaits(Ui', word, for, words, whom) <=> Awaits(Ui, word, for, words, whom))
  BY <1>1, <1>2 DEF UiGoes, Peels, Joins, One
<1>7. ASSUME NEW k \in Kinds PROVE Closing(k)'
  <2>1. Closing(k)
    BY DEF MediaInv, ClosingInv
  <2> QED
    BY <1>6, <2>1 DEF Closing
<1>8. ASSUME NEW k \in Kinds PROVE Owned(k)'
  <2>1. Owned(k) /\ ~Opens(Ui, k) /\ ~Opens(Ui', k)
    BY <1>3 DEF MediaInv, OwnInv
  <2> QED
    BY <1>5, <1>6, <2>1 DEF Owned, Opens
<1>9. TruthInv'
  <2>1. Doomed => Doomed'
    BY <1>5, <1>6 DEF Doomed, Gone, Exiting, Leaving
  <2>2. ASSUME NEW k \in Kinds, Truth(k) PROVE Truth(k)'
    <3>1. ~Opens(Ui, k) /\ ~Opens(Ui', k)
      BY <1>3
    <3> QED
      BY <1>6, <2>2, <3>1 DEF Truth, Opens
  <2> QED
    BY <2>1, <2>2 DEF TruthInv, MediaInv
<1> QED
  BY <1>3, <1>4, <1>5, <1>7, <1>8, <1>9 DEF ClosingInv, OwnInv

\* A frame stays one of the meeting.
LEMMA StillFits ==
    ASSUME FrameInvariant, UNCHANGED <<frame, joined>>,
           \A k \in Kinds : frame[k] # NoFrame /\ k \in registered => k \in registered',
           Pending(Ui', {"room"}, "meeting") =>
              /\ Pending(Ui, {"room"}, "meeting") /\ (Event = << >> => Event' = << >>)
              /\ m_current_meeting_id' \in {m_current_meeting_id, 0}
    PROVE  FrameInvariant'
BY DEF FrameInvariant, FrameFits

LEMMA StillQuits ==
    ASSUME QuitInv, NEW w, NEW j, NEW more, NEW rest, UiGoes(w, j, more, rest),
           w \notin {"exit", "leave", "uninit", "observe"},
           UNCHANGED <<page, m_observers, m_submodel_initialized>>,
           ~Pending(more, {"leave"}, "page"), ~Pending(more, {"leave", "exit"}, "quit"),
           ~Pending(more, {"uninit"}, "engine"), ~Pending(more, {"forget"}, "managers"),
           Pending(more, {"cleanup", "snapshot"}, "meeting") =>
              w \in {"cleanup", "snapshot"} /\ j = "meeting"
    PROVE  QuitInv'
<1>1. \A words, for : Pending(Ui, words, for) <=>
            (w \in words /\ j = for) \/ Pending(rest, words, for)
  BY DEF UiGoes, Peels
<1>2. \A words, for : Pending(Ui', words, for) <=>
            Pending(more, words, for) \/ Pending(rest, words, for)
  BY DEF UiGoes, Joins
<1>3. /\ Pending(Ui, {"uninit", "observe"}, "engine") =>
            Pending(Ui', {"uninit", "observe"}, "engine")
      /\ Pending(Ui', {"leave"}, "page") <=> Pending(Ui, {"leave"}, "page")
      /\ Pending(Ui, {"exit"}, "page") => Pending(Ui', {"exit"}, "page")
      /\ Pending(Ui, {"exit"}, "quit") => Pending(Ui', {"exit"}, "quit")
  BY <1>1, <1>2
<1>4. /\ Pending(Ui', {"leave", "exit"}, "quit") => Pending(Ui, {"leave", "exit"}, "quit")
      /\ Pending(Ui', {"uninit"}, "engine") => Pending(Ui, {"uninit"}, "engine")
      /\ Pending(Ui', {"forget"}, "managers") => Pending(Ui, {"forget"}, "managers")
      /\ Pending(Ui', {"cleanup", "snapshot"}, "meeting") =>
            Pending(Ui, {"cleanup", "snapshot"}, "meeting")
  BY <1>1, <1>2
<1> QED
  BY <1>3, <1>4 DEF QuitInv, Exiting, Leaving, Gone

\* A step of the UI thread that only takes the first work off its list.
LEMMA TakesOffMedia ==
    ASSUME CaptureIInv, MediaInv, NEW w, NEW j, Has("ui", w, j), Then("ui", << >>),
           w \notin OpenWork,
           w \notin {"exit", "leave", "cleanup", "snapshot", "uninit", "observe", "room"},
           Reduces(w, j), UNCHANGED <<m_submodel_initialized, frame, joined>>,
           m_current_meeting_id' = m_current_meeting_id,
           \A k \in Kinds : frame[k] # NoFrame /\ k \in registered => k \in registered'
    PROVE  MediaInv'
<1> DEFINE rest == Tail(Ui)
<1>1. UiGoes(w, j, << >>, rest)
  <2>1. << >> \in Seq(AnyWork)
    OBVIOUS
  <2> QED
    BY <2>1, UiThen
<1> HIDE DEF rest
<1>2. OpeningInv' /\ EventInv' /\ ClosingInv' /\ LastInv' /\ OwnInv' /\ TruthInv'
  BY <1>1, TakesOff
<1>3. QuitInv'
  <2>1. UNCHANGED <<page, m_observers, m_submodel_initialized>>
    BY DEF Reduces
  <2> QED
    BY <1>1, <2>1, Nothing, StillQuits DEF MediaInv
<1>4. FrameInvariant'
  <2>1. /\ Pending(Ui', {"room"}, "meeting") => Pending(Ui, {"room"}, "meeting")
        /\ Event' = Event
    BY <1>1 DEF UiGoes, Peels
  <2> QED
    BY <2>1, StillFits DEF MediaInv
<1> QED
  BY <1>2, <1>3, <1>4 DEF MediaInv

-----------------------------------------------------------------------------
(* Lists with nothing for the media in them.                                *)

MediaWork ==
    OpenWork \cup {"close", "release", "unregister", "unpublish", "unflag", "hide", "list",
                   "leave", "exit", "uninit", "forget", "cleanup", "snapshot", "tell"}
CalmWork == FixedWork \cup {"join"}
Calm(list) == \A words, for : words \subseteq MediaWork => ~Pending(list, words, for)

\* With a list of this kind nothing is waited for.
LEMMA CalmIs ==
    ASSUME NEW list, Calm(list)
    PROVE  /\ \A word, for, words, whom : word \in MediaWork => Awaits(list, word, for, words, whom)
           /\ \A word, for : word \in MediaWork => Final(list, word, for)
           /\ LeavesLast(list)
           /\ \A k : ~Opens(list, k)
<1>1. ASSUME NEW word \in MediaWork, NEW for, NEW i \in DOMAIN list
      PROVE  list[i] # Do(word, for)
  <2>1. ~Pending(list, {word}, for)
    BY DEF Calm
  <2> QED
    BY <2>1, WorksAre DEF Pending
<1>2. \A word, for, words, whom : word \in MediaWork => Awaits(list, word, for, words, whom)
  BY <1>1 DEF Awaits
<1>3. \A word, for : word \in MediaWork => Final(list, word, for)
  BY <1>1 DEF Final
<1>4. LeavesLast(list)
  <2>1. "leave" \in MediaWork
    BY DEF MediaWork
  <2> QED
    BY <1>1, <2>1 DEF LeavesLast
<1>5. \A k : ~Opens(list, k)
  <2>1. OpenWork \subseteq MediaWork
    BY DEF MediaWork
  <2> QED
    BY <2>1, OpensWorks DEF Calm
<1> QED
  BY <1>2, <1>3, <1>4, <1>5

LEMMA NotAmong ==
    ASSUME NEW A, NEW S, NEW list \in Seq(A \X S), NEW words, NEW for, A \cap words = {}
    PROVE  ~Pending(list, words, for)
<1> SUFFICES ASSUME NEW i \in DOMAIN list, list[i] \in Works(words, for) PROVE FALSE
  BY DEF Pending
<1>1. list[i] \in A \X S
  BY ElementOfSeq, LenProperties
<1>2. PICK w \in words : list[i] = Do(w, for)
  BY DEF Works
<1>3. w \in A
  BY <1>1, <1>2 DEF Do
<1> QED
  BY <1>2, <1>3

LEMMA CalmLists ==
    ASSUME NEW S, NEW list \in Seq(CalmWork \X S)
    PROVE  Calm(list)
<1>1. CalmWork \cap MediaWork = {}
  BY DEF CalmWork, FixedWork, MediaWork, OpenWork
<1> SUFFICES ASSUME NEW words, NEW for, words \subseteq MediaWork
             PROVE  ~Pending(list, words, for)
  BY DEF Calm
<1>2. CalmWork \cap words = {}
  BY <1>1
<1> QED
  BY <1>2, NotAmong

LEMMA FixedIsCalm ==
    /\ \A list \in {Starting1, Starting2, Starting3, Starting4, Wiring, Observing, Selecting,
                    Selecting2, Stops1, Stops2, Stops3, Emptying, Detaching1, Detaching2,
                    Disconnecting, << >>, <<Do("request", "meeting")>>, <<Do("join", "thread")>>,
                    <<Do("room", "meeting"), Do("accept", "meeting"), Do("enter", "meeting")>>,
                    <<Do("accept", "meeting"), Do("enter", "meeting")>>,
                    <<Do("enter", "meeting")>>} : Calm(list)
<1> DEFINE Objects == Managed \cup {"thread"}
           S == CalmWork \X Objects
<1>1. /\ {"start", "wire", "observe", "select", "request", "room", "accept", "enter", "disconnect",
          "detach", "stop", "join"} \subseteq CalmWork
      /\ {"camera", "mic", "engine", "meeting", "capture", "transport", "render", "service",
          "thread"} \subseteq Objects
  BY DEF CalmWork, FixedWork, Managed, Managers, Kinds
<1>2. \A a \in CalmWork, i \in Objects : Do(a, i) \in S
  BY DEF Do
<1> HIDE DEF S, Objects
<1>3. {Starting1, Starting2, Starting3, Starting4} \subseteq Seq(S)
  BY <1>1, <1>2 DEF Starting1, Starting2, Starting3, Starting4
<1>4. {Wiring, Observing, Selecting, Selecting2} \subseteq Seq(S)
  BY <1>1, <1>2 DEF Wiring, Observing, Selecting, Selecting2
<1>5. {<< >>, <<Do("request", "meeting")>>, <<Do("accept", "meeting"), Do("enter", "meeting")>>,
       <<Do("room", "meeting"), Do("accept", "meeting"), Do("enter", "meeting")>>,
       <<Do("enter", "meeting")>>, <<Do("join", "thread")>>} \subseteq Seq(S)
  BY <1>1, <1>2
<1>6. {Stops1, Stops2, Stops3, Emptying} \subseteq Seq(S)
  BY <1>1, <1>2 DEF Stops1, Stops2, Stops3, Emptying
<1>7. Detaching1 \in Seq(S) /\ Detaching2 \in Seq(S)
  BY <1>1, <1>2 DEF Detaching1, Detaching2
<1>8. Disconnecting \in Seq(S)
  BY <1>1, <1>2 DEF Disconnecting
<1>9. \A list \in Seq(S) : Calm(list)
  BY CalmLists DEF S
<1> QED
  BY <1>3, <1>4, <1>5, <1>6, <1>7, <1>8, <1>9

\* A step from one such list to another.
LEMMA CalmStep ==
    ASSUME MediaInv, Calm(Ui), Calm(Ui'), Event' = Event,
           UNCHANGED <<page, shown, m_open, m_source_id, registered, publishing, notice>>,
           m_observers' => m_observers \/ ~page
    PROVE  OpeningInv' /\ EventInv' /\ ClosingInv' /\ LastInv' /\ OwnInv' /\ TruthInv'
<1>1. \A k : ~Opens(Ui, k) /\ ~Opens(Ui', k)
  BY CalmIs
<1>2. OpeningInv'
  BY <1>1 DEF OpeningInv, Opening, Opens
<1>3. EventInv'
  BY DEF EventInv, MediaInv
<1>4. /\ {"exit", "hide", "forget", "unflag", "leave", "list"} \subseteq MediaWork
      /\ {"release", "unregister", "unpublish"} \subseteq MediaWork
      /\ {"release", "unregister"} \subseteq MediaWork /\ {"unpublish"} \subseteq MediaWork
      /\ {"list"} \subseteq MediaWork /\ {"exit"} \subseteq MediaWork
      /\ {"leave"} \subseteq MediaWork
      /\ {"close", "unflag"} \subseteq MediaWork /\ {"unflag"} \subseteq MediaWork
      /\ {"hide"} \subseteq MediaWork
  BY DEF MediaWork
<1>5. \A k \in Kinds : Closing(k)'
  <2>1. \A word, for, words, whom : word \in MediaWork => Awaits(Ui', word, for, words, whom)
    BY CalmIs
  <2>2. \A k \in Kinds : ~Pending(Ui', {"release", "unregister", "unpublish"}, k)
    BY <1>4 DEF Calm
  <2> QED
    BY <1>4, <2>1, <2>2 DEF Closing
<1>6. LastInv'
  <2>1. LeavesLast(Ui') /\ Final(Ui', "exit", "page")
    BY <1>4, CalmIs
  <2>2. \A k \in Kinds : ~Pending(Ui', {"list"}, k)
    BY <1>4 DEF Calm
  <2> QED
    BY <2>1, <2>2 DEF LastInv
<1>7. ASSUME NEW k \in Kinds
      PROVE  /\ Owned(k) /\ Owned(k)'
             /\ k \in m_open => k \in shown
             /\ k \in shown => page
  <2>1. Owned(k)
    BY DEF MediaInv, OwnInv
  <2>2. /\ ~Pending(Ui, {"release", "unregister"}, k) /\ ~Pending(Ui, {"unpublish"}, k)
    BY <1>4 DEF Calm
  <2> QED
    BY <1>1, <2>1, <2>2 DEF Owned, Opens
<1>8. TruthInv'
  <2>1. ~Gone /\ ~Gone'
    BY <1>4 DEF Calm, Gone, Exiting
  <2>2. ASSUME NEW k \in Kinds, ~page PROVE Truth(k)'
    BY <1>1, <1>7, <2>2 DEF Truth, Opens
  <2>3. ASSUME NEW k \in Kinds, Truth(k) PROVE Truth(k)'
    <3>1. /\ ~Pending(Ui, {"unflag"}, k) /\ ~Pending(Ui', {"close", "unflag"}, k)
          /\ ~Pending(Ui, {"hide"}, k)
      BY <1>4 DEF Calm
    <3> QED
      BY <1>1, <2>3, <3>1 DEF Truth, Opens
  <2>4. Doomed => Doomed' \/ ~page
    BY <2>1 DEF Doomed
  <2> QED
    BY <2>2, <2>3, <2>4 DEF TruthInv, MediaInv
<1> QED
  BY <1>2, <1>3, <1>5, <1>6, <1>7, <1>8 DEF ClosingInv, OwnInv

-----------------------------------------------------------------------------
(* Steps that take work off the list of the UI thread.                      *)

\* The managers start, the devices are selected and listed, media are accepted.
LEMMA StartMedia ==
    ASSUME CaptureIInv, MediaInv,
           \/ \E m \in Managers : Start(m)
           \/ \E k \in Kinds : Select(k) \/ List(k)
           \/ AcceptMedia \/ JoinRefused \/ JoinThread
    PROVE  MediaInv'
<1> USE DEF engineVars, lifeVars, mediaVars, captureVars, managerVars, engineStateVars, pageVars,
            lobbyVars
<1>1. PICK w, j : /\ w \in {"start", "select", "list", "accept", "request", "join"}
                  /\ Has("ui", w, j) /\ Then("ui", << >>)
  BY DEF Start, Select, List, AcceptMedia, JoinRefused, JoinThread
<1>2. /\ UNCHANGED <<page, shown, notice, joined, m_observers, m_submodel_initialized,
                     m_current_meeting_id, m_open, publishing>>
      /\ UNCHANGED <<m_source_id, registered, frame>>
  <2>1. CASE \E m \in Managers : Start(m)
    BY <2>1 DEF Start, StartCapture
  <2>2. CASE \E k \in Kinds : Select(k)
    BY <2>2 DEF Select, UpdateDevice
  <2>3. CASE \E k \in Kinds : List(k)
    BY <2>3 DEF List, GetDevices
  <2>4. CASE AcceptMedia \/ JoinRefused \/ JoinThread
    BY <2>4 DEF AcceptMedia, JoinRefused, JoinThread
  <2> QED
    BY <2>1, <2>2, <2>3, <2>4
<1>3. w \notin OpenWork
  BY <1>1 DEF OpenWork
<1>4. Reduces(w, j)
  BY <1>1, <1>2 DEF Reduces
<1> QED
  BY <1>1, <1>2, <1>3, <1>4, TakesOffMedia

\* The managers stop.
LEMMA StopMedia ==
    ASSUME CaptureIInv, MediaInv,
           \/ DisconnectCapture \/ StopsCapture \/ StopTransport \/ StopRender
           \/ \E t \in Threads, k \in Kinds : Detach(t, k) /\ UNCHANGED <<engineVars, pageVars>>
    PROVE  MediaInv'
<1> USE DEF engineVars, lifeVars, mediaVars, captureVars, managerVars, engineStateVars, pageVars,
            lobbyVars
<1>1. PICK w, j : /\ w \in {"disconnect", "detach", "stop"}
                  /\ Has("ui", w, j) /\ Then("ui", << >>)
  <2>1. ASSUME NEW t \in Threads, NEW k \in Kinds, Detach(t, k) PROVE t = "ui"
    BY <2>1, UiDoes DEF Detach, MediaInv
  <2> QED
    BY <2>1 DEF DisconnectCapture, StopsCapture, StopTransport, StopRender, Stops, Detach
<1>2. ~m_observers
  BY <1>1, WhereEnding DEF MediaInv, QuitInv
<1>3. /\ UNCHANGED <<page, shown, notice, joined, m_observers, m_submodel_initialized,
                     m_current_meeting_id, m_open>>
      /\ frame' = frame /\ m_source_id' \subseteq m_source_id
      /\ publishing' \subseteq publishing /\ registered' \subseteq registered
      /\ \A k \in Kinds : frame[k] # NoFrame /\ k \in registered => k \in registered'
  <2>1. CASE DisconnectCapture
    BY <2>1 DEF DisconnectCapture, Disconnect
  <2>2. CASE StopsCapture
    BY <2>2 DEF StopsCapture, Stops, StopCapture
  <2>3. CASE StopTransport \/ StopRender
    BY <2>3 DEF StopTransport, StopRender, Stops
  <2>4. CASE \E t \in Threads, k \in Kinds :
                Detach(t, k) /\ UNCHANGED <<engineVars, pageVars>>
    BY <2>4 DEF Detach, RemoveCallback
  <2> QED
    BY <2>1, <2>2, <2>3, <2>4
<1>4. w \notin OpenWork
  BY <1>1 DEF OpenWork
<1>5. Reduces(w, j)
  BY <1>1, <1>2, <1>3 DEF Reduces
<1> QED
  BY <1>1, <1>3, <1>4, <1>5, TakesOffMedia

\* A device is closed, step by step, by the page.
LEMMA CloseMedia ==
    ASSUME CaptureIInv, MediaInv, NEW k \in Kinds,
           \/ k \notin m_open /\ CheckClose("ui", k)
           \/ Release("ui", k) /\ k \notin m_source_id /\ UNCHANGED <<engineVars, pageVars>>
           \/ Unregister("ui", k) /\ UNCHANGED <<engineVars, pageVars>>
           \/ Unpublish("ui", k) \/ Unflag("ui", k) \/ Hide(k)
    PROVE  MediaInv'
<1> USE DEF engineVars, lifeVars, mediaVars, captureVars, managerVars, engineStateVars, pageVars,
            lobbyVars
<1>1. CASE k \notin m_open /\ CheckClose("ui", k)
  <2>1. /\ Has("ui", "close", k) /\ Then("ui", << >>)
        /\ UNCHANGED <<engineVars, captureVars, pageVars>>
    BY <1>1 DEF CheckClose
  <2>2. Reduces("close", k) /\ "close" \notin OpenWork
    BY <1>1, <2>1 DEF Reduces, OpenWork
  <2> QED
    BY <2>1, <2>2, TakesOffMedia
<1>2. CASE Release("ui", k) /\ k \notin m_source_id /\ UNCHANGED <<engineVars, pageVars>>
  <2>1. /\ Has("ui", "release", k) /\ Then("ui", << >>) /\ m_state_mutex = Nobody
        /\ UNCHANGED <<engineVars, m_source_id, engineStateVars, frame, pageVars>>
    BY <1>2 DEF Release, Unlocked
  <2>2. k \notin registered
    BY <1>2, <2>1 DEF CaptureIInv, CallbackInv, Called
  <2>3. Reduces("release", k) /\ "release" \notin OpenWork
    BY <1>2, <2>1, <2>2 DEF Reduces, OpenWork
  <2> QED
    BY <2>1, <2>3, TakesOffMedia
<1>3. CASE Unregister("ui", k) /\ UNCHANGED <<engineVars, pageVars>>
  <2>1. /\ Has("ui", "unregister", k) /\ Then("ui", << >>) /\ frame[k] = NoFrame
        /\ m_source_id' = m_source_id \ {k} /\ registered' = registered \ {k}
        /\ UNCHANGED <<engineVars, frame, pageVars>>
    BY <1>3 DEF Unregister, Destroy, RemoveCallback
  <2>2. Reduces("unregister", k) /\ "unregister" \notin OpenWork
    BY <2>1 DEF Reduces, OpenWork
  <2> QED
    BY <2>1, <2>2, TakesOffMedia
<1>4. CASE Unpublish("ui", k)
  <2>1. /\ Has("ui", "unpublish", k) /\ Then("ui", << >>) /\ publishing' = publishing \ {k}
        /\ UNCHANGED <<lifeVars, m_current_meeting_id, m_open, captureVars, pageVars>>
    BY <1>4 DEF Unpublish
  <2>2. Reduces("unpublish", k) /\ "unpublish" \notin OpenWork
    BY <2>1 DEF Reduces, OpenWork
  <2> QED
    BY <2>1, <2>2, TakesOffMedia
<1>5. CASE Unflag("ui", k)
  <2>1. /\ Has("ui", "unflag", k) /\ Then("ui", << >>) /\ m_open' = m_open \ {k}
        /\ UNCHANGED <<lifeVars, m_current_meeting_id, publishing, captureVars, pageVars>>
    BY <1>5 DEF Unflag
  <2>2. Reduces("unflag", k) /\ "unflag" \notin OpenWork
    BY <2>1 DEF Reduces, OpenWork
  <2> QED
    BY <2>1, <2>2, TakesOffMedia
<1>6. CASE Hide(k)
  <2>1. /\ Has("ui", "hide", k) /\ Then("ui", << >>) /\ shown' = shown \ {k}
        /\ UNCHANGED <<engineVars, captureVars, page, notice, joined>>
    BY <1>6 DEF Hide
  <2>2. Reduces("hide", k) /\ "hide" \notin OpenWork
    BY <2>1 DEF Reduces, OpenWork
  <2> QED
    BY <2>1, <2>2, TakesOffMedia
<1> QED
  BY <1>1, <1>2, <1>3, <1>4, <1>5, <1>6

\* The mutex is taken to close a source, and the media of a meeting are refused.
LEMMA TurnMedia ==
    ASSUME CaptureIInv, MediaInv,
           \/ \E k \in Kinds : Release("ui", k) /\ k \in m_source_id
                               /\ UNCHANGED <<engineVars, pageVars>>
           \/ Refuse("ui")
    PROVE  MediaInv'
<1> USE DEF engineVars, lifeVars, mediaVars, captureVars, managerVars, engineStateVars, pageVars,
            lobbyVars
<1>1. PICK w, v, j : /\ Has("ui", w, j) /\ Then("ui", <<Do(v, j)>>) /\ Do(v, j) \in AnyWork
                     /\ \/ w = "release" /\ v = "unregister"
                        \/ w = "cleanup" /\ v = "snapshot" /\ j = "meeting"
  <2>1. \A k \in Kinds : Do("unregister", k) \in LockedWork
    BY DEF LockedWork, Do
  <2>2. /\ \A k \in Kinds : Do("unregister", k) \in AnyWork
        /\ Do("snapshot", "meeting") \in AnyWork
    BY <2>1, Calls DEF AnyWork, CallWork
  <2>3. CASE Refuse("ui")
    BY <2>2, <2>3 DEF Refuse
  <2>4. CASE \E k \in Kinds : Release("ui", k) /\ k \in m_source_id
    BY <2>2, <2>4 DEF Release
  <2> QED
    BY <2>3, <2>4
<1>2. UNCHANGED <<page, shown, notice, joined, m_observers, m_submodel_initialized,
                  m_current_meeting_id, m_open, publishing, m_source_id, registered, frame>>
  BY DEF Release, Refuse
<1> DEFINE rest == Tail(Ui)
           more == <<Do(v, j)>>
<1>3. UiGoes(w, j, more, rest)
  <2>1. more \in Seq(AnyWork)
    BY <1>1
  <2> HIDE DEF more
  <2>2. Then("ui", more)
    BY <1>1 DEF more
  <2> QED
    BY <1>1, <2>1, <2>2, UiThen
<1>4. One(more, v, j)
  BY OneIs
<1> HIDE DEF rest
<1>5. OpeningInv' /\ EventInv' /\ ClosingInv' /\ LastInv' /\ OwnInv' /\ TruthInv'
  BY <1>1, <1>2, <1>3, Turns
<1> HIDE DEF more
<1>6. QuitInv'
  <2>1. /\ ~Pending(more, {"leave"}, "page") /\ ~Pending(more, {"leave", "exit"}, "quit")
        /\ ~Pending(more, {"uninit"}, "engine") /\ ~Pending(more, {"forget"}, "managers")
        /\ Pending(more, {"cleanup", "snapshot"}, "meeting") =>
              w \in {"cleanup", "snapshot"} /\ j = "meeting"
    BY <1>1, <1>4 DEF One
  <2>2. w \notin {"exit", "leave", "uninit", "observe"}
    BY <1>1
  <2> QED
    BY <1>2, <1>3, <2>1, <2>2, StillQuits DEF MediaInv
<1>7. FrameInvariant'
  <2>1. /\ Pending(Ui', {"room"}, "meeting") => Pending(Ui, {"room"}, "meeting")
        /\ Event' = Event
    BY <1>1, <1>3, <1>4 DEF UiGoes, Peels, Joins, One
  <2> QED
    BY <1>2, <2>1, StillFits DEF MediaInv
<1> QED
  BY <1>5, <1>6, <1>7 DEF MediaInv

-----------------------------------------------------------------------------
(* The start of the client, and the way into a meeting.                     *)

\* The other parts of the invariant when there is nothing for the media to do.
LEMMA CalmQuits ==
    ASSUME Calm(Ui), QuitInv
    PROVE  /\ m_observers => m_submodel_initialized
           /\ ~m_observers => ~page
           /\ m_submodel_initialized /\ ~m_observers => Pending(Ui, {"uninit", "observe"}, "engine")
<1>1. {"exit"} \subseteq MediaWork
  BY DEF MediaWork
<1> QED
  BY <1>1 DEF QuitInv, Calm, Exiting

LEMMA QuitsCalm ==
    ASSUME Calm(Ui'), m_observers' => m_submodel_initialized', ~m_observers' => ~page',
           m_submodel_initialized' /\ ~m_observers' =>
              Pending(Ui', {"uninit", "observe"}, "engine")
    PROVE  QuitInv'
<1>1. /\ {"exit"} \subseteq MediaWork /\ {"leave"} \subseteq MediaWork
      /\ {"leave", "exit"} \subseteq MediaWork /\ {"uninit"} \subseteq MediaWork
      /\ {"forget"} \subseteq MediaWork /\ {"cleanup", "snapshot"} \subseteq MediaWork
  BY DEF MediaWork
<1>2. /\ ~Pending(Ui', {"leave"}, "page") /\ ~Pending(Ui', {"leave", "exit"}, "quit")
      /\ ~Pending(Ui', {"uninit"}, "engine") /\ ~Pending(Ui', {"forget"}, "managers")
      /\ ~Pending(Ui', {"cleanup", "snapshot"}, "meeting")
  BY <1>1 DEF Calm
<1> QED
  BY <1>2 DEF QuitInv, Leaving

\* When nothing is open, nothing is captured but by the event thread.
LEMMA CalmOwns ==
    ASSUME MediaInv, TypeInv, Calm(Ui), ~page
    PROVE  /\ m_open = {} /\ shown = {}
           /\ Event = << >> => m_source_id = {} /\ registered = {} /\ publishing = {}
<1>1. /\ {"release", "unregister"} \subseteq MediaWork /\ {"unpublish"} \subseteq MediaWork
  BY DEF MediaWork
<1>2. ASSUME NEW k \in Kinds
      PROVE  /\ k \notin m_open /\ k \notin shown
             /\ Event = << >> => k \notin m_source_id /\ k \notin registered
                                 /\ k \notin publishing
  <2>1. Owned(k) /\ ~Opens(Ui, k) /\ ~Pending(Ui, {"release", "unregister"}, k)
        /\ ~Pending(Ui, {"unpublish"}, k)
    BY <1>1, CalmIs DEF MediaInv, OwnInv, Calm
  <2>2. Event = << >> => /\ ~Pending(Event, {"release", "unregister"}, k)
                         /\ ~Pending(Event, {"unpublish"}, k)
    BY Nothing
  <2> QED
    BY <2>1, <2>2 DEF Owned, Opens
<1>3. m_open \subseteq Kinds /\ shown \subseteq Kinds /\ m_source_id \subseteq Kinds
      /\ registered \subseteq Kinds /\ publishing \subseteq Kinds
  BY DEF TypeInv, MediaTypeOK
<1> QED
  BY <1>2, <1>3

\* The lists of the start, of the way into a meeting and of the end.
LEMMA CalmHeads ==
    ASSUME CaptureIInv, NEW w \in FixedWork, NEW x, Has("ui", w, x)
    PROVE  Calm(Ui)
<1>1. CASE w \in {"start", "wire"}
  <2>1. Ui = Wiring \/ \E managers : Starting(Ui, managers)
    BY <1>1, WhereFixed DEF IsStarting, IsWiring, Ui
  <2> QED
    BY <2>1, FixedIsCalm DEF Starting
<1>2. CASE w \notin {"start", "wire"}
  <2>1. \/ Entering(Ui)
        \/ Ui \in {Observing, Disconnecting, Detaching2, Detaching1, Emptying, Stops3, Stops2,
                   Stops1}
    BY <1>2, WhereFixed DEF Ui, Detached
  <2> QED
    BY <2>1, FixedIsCalm DEF Entering
<1> QED
  BY <1>1, <1>2

\* A manager does not start, and those before it are stopped.
LEMMA UndoIsCalm == Calm(Undo) /\ ~Pending(Undo, {"room"}, "meeting")
<1> DEFINE S == {"stop"} \X Managed
           a == IF "transport" \in up THEN <<Do("stop", "transport")>> ELSE << >>
           b == IF "render" \in up THEN <<Do("stop", "render")>> ELSE << >>
           c == IF "service" \in up THEN <<Do("stop", "service")>> ELSE << >>
<1>1. \A m \in Managers : Do("stop", m) \in S
  BY DEF Managed, Do
<1> HIDE DEF S
<1>2. a \in Seq(S) /\ b \in Seq(S) /\ c \in Seq(S)
  BY <1>1 DEF Managers
<1> HIDE DEF a, b, c
<1>3. a \o b \in Seq(S)
  BY <1>2, ConcatProperties
<1>4. a \o b \o c \in Seq(S)
  BY <1>2, <1>3, ConcatProperties
<1>5. Calm(a \o b \o c)
  <2>1. S \subseteq CalmWork \X Managed
    BY DEF S, CalmWork, FixedWork
  <2>2. a \o b \o c \in Seq(CalmWork \X Managed)
    BY <1>4, <2>1, SeqMonotonic, Zenon
  <2> QED
    BY <2>2, CalmLists
<1>6. ~Pending(a \o b \o c, {"room"}, "meeting")
  <2>1. {"stop"} \cap {"room"} = {}
    OBVIOUS
  <2> QED
    BY <1>4, <2>1, NotAmong DEF S
<1> QED
  BY <1>5, <1>6 DEF Undo, a, b, c

LEMMA RoomlessLists ==
    \A list \in {<< >>, Observing, Selecting, <<Do("accept", "meeting"), Do("enter", "meeting")>>,
                 <<Do("join", "thread")>>} : ~Pending(list, {"room"}, "meeting")
<1>1. \A a, i : a # "room" => ~Pending(<<Do(a, i)>>, {"room"}, "meeting")
  BY OneIs DEF One
<1>2. ~Pending(<<Do("accept", "meeting"), Do("enter", "meeting")>>, {"room"}, "meeting")
  <2>1. Do("accept", "meeting") # Do("enter", "meeting")
    BY WorksDiffer
  <2>2. Two(<<Do("accept", "meeting"), Do("enter", "meeting")>>, "accept", "meeting", "enter",
            "meeting")
    BY <2>1, TwoIs
  <2> QED
    BY <2>2 DEF Two
<1>3. ~Pending(Selecting, {"room"}, "meeting")
  <2> DEFINE A == {"select", "request"}
             S == A \X {"camera", "mic", "meeting"}
  <2>1. {Do("select", "camera"), Do("select", "mic"), Do("request", "meeting")} \subseteq S
    BY DEF Do
  <2>2. A \cap {"room"} = {}
    OBVIOUS
  <2> HIDE DEF S
  <2>3. Selecting \in Seq(S)
    BY <2>1 DEF Selecting
  <2> HIDE DEF A
  <2> QED
    BY <2>2, <2>3, NotAmong DEF S
<1> QED
  BY <1>1, <1>2, <1>3, Nothing DEF Observing

\* A step to a state in which nothing is open.
LEMMA NothingOpen ==
    ASSUME MediaInv, m_open = {}, m_open' = {}, Event' = Event,
           shown' = {} \/ (~m_observers' /\ UNCHANGED <<shown, page>>),
           UNCHANGED <<m_source_id, registered, publishing>>,
           \A k \in Kinds :
              /\ ~Opens(Ui, k) /\ ~Opens(Ui', k)
              /\ Pending(Ui, {"release", "unregister"}, k) =>
                    Pending(Ui', {"release", "unregister"}, k)
              /\ Pending(Ui, {"unpublish"}, k) => Pending(Ui', {"unpublish"}, k)
              /\ Awaits(Ui, "unflag", k, {"release", "unregister"}, k) =>
                    Awaits(Ui', "unflag", k, {"release", "unregister"}, k)
              /\ Awaits(Ui, "unflag", k, {"unpublish"}, k) =>
                    Awaits(Ui', "unflag", k, {"unpublish"}, k)
    PROVE  OpeningInv' /\ EventInv' /\ ClosingInv' /\ OwnInv' /\ TruthInv'
<1>1. EventInv'
  BY DEF EventInv, MediaInv
<1>2. ASSUME NEW k \in Kinds PROVE Opening(k)'
  BY DEF Opening, Opens
<1>3. ASSUME NEW k \in Kinds PROVE Closing(k)'
  BY DEF MediaInv, ClosingInv, Closing
<1>4. ASSUME NEW k \in Kinds PROVE Owned(k)'
  <2>1. Owned(k) /\ ~Opens(Ui, k)
    BY DEF MediaInv, OwnInv
  <2> QED
    BY <2>1 DEF Owned, Opens
<1>5. TruthInv'
  <2>1. CASE shown' = {}
    <3>1. ASSUME NEW k \in Kinds PROVE Truth(k)'
      BY <2>1 DEF Truth, Opens
    <3> QED
      BY <3>1 DEF TruthInv
  <2>2. CASE ~m_observers'
    BY <2>2 DEF TruthInv, Doomed
  <2> QED
    BY <2>1, <2>2
<1> QED
  BY <1>1, <1>2, <1>3, <1>4, <1>5 DEF OpeningInv, ClosingInv, OwnInv

\* A manager does not start; the engine is wired and observed; the last manager
\* stops.
LEMMA BeginMedia ==
    ASSUME CaptureIInv, MediaInv,
           (\E m \in Managers : StartFails(m)) \/ Wire \/ Observe \/ StopService
    PROVE  MediaInv'
<1> USE DEF engineVars, lifeVars, mediaVars, captureVars, managerVars, engineStateVars, pageVars,
            lobbyVars
<1>1. PICK w, x : w \in {"start", "wire", "observe", "stop"} /\ Has("ui", w, x)
  BY DEF StartFails, Wire, Observe, StopService, Stops
<1>2. Calm(Ui)
  <2>1. w \in FixedWork
    BY <1>1 DEF FixedWork
  <2> QED
    BY <1>1, <2>1, CalmHeads
<1>3. UNCHANGED <<page, shown, notice, joined, m_current_meeting_id, m_open, publishing,
                  m_source_id, registered, frame>>
  BY DEF StartFails, StartCaptureFails, Wire, Observe, StopService, Stops
<1>4. /\ m_observers => m_submodel_initialized
      /\ ~m_observers => ~page
      /\ m_submodel_initialized /\ ~m_observers => Pending(Ui, {"uninit", "observe"}, "engine")
  BY <1>2, CalmQuits DEF MediaInv
<1>5. PICK new \in {Undo, Observing, << >>, <<Do("join", "thread")>>} :
         /\ Ui' = new /\ Event' = Event
         /\ m_observers' => m_submodel_initialized' /\ (m_observers \/ ~page)
         /\ ~m_observers' => ~page
         /\ m_submodel_initialized' /\ ~m_observers' =>
               Pending(new, {"uninit", "observe"}, "engine")
  <2>1. CASE \E m \in Managers : StartFails(m)
    <3>1. PICK m \in Managers : StartFails(m)
      BY <2>1
    <3>2. Has("ui", "start", m) /\ Starts("ui", Undo)
          /\ UNCHANGED <<m_observers, m_submodel_initialized>>
      BY <3>1 DEF StartFails
    <3>3. ~m_submodel_initialized
      BY <3>2, Beginning DEF IsStarting
    <3> QED
      BY <1>4, <3>2, <3>3, UiStarts
  <2>2. CASE Wire
    <3>1. Has("ui", "wire", "engine") /\ Then("ui", << >>) /\ m_observers' = m_observers
          /\ m_submodel_initialized' = TRUE
      BY <2>2 DEF Wire
    <3>2. Ui = Wiring
      BY <3>1, Beginning DEF IsWiring, Ui
    <3>3. UiGoes("wire", "engine", << >>, Tail(Ui))
      <4>1. << >> \in Seq(AnyWork)
        OBVIOUS
      <4> QED
        BY <3>1, <4>1, UiThen
    <3>4. Ui' = Observing /\ Event' = Event
      BY <3>2, <3>3, HeadsOfLists DEF UiGoes
    <3>5. Pending(Observing, {"uninit", "observe"}, "engine")
      BY OneIs DEF Observing, One
    <3> QED
      BY <1>4, <3>1, <3>4, <3>5
  <2>3. CASE Observe
    <3>1. Has("ui", "observe", "engine") /\ Then("ui", << >>) /\ m_observers' = TRUE
          /\ m_submodel_initialized' = m_submodel_initialized
      BY <2>3 DEF Observe
    <3>2. Ui = Observing /\ m_submodel_initialized
      <4>1. "observe" \in FixedWork /\ "observe" \notin {"start", "wire"}
        BY DEF FixedWork
      <4>2. Ui # << >> /\ Head(Ui) = Do("observe", "engine")
        BY <3>1 DEF Has, Idle, Ui
      <4>3. ~Entering(Ui)
        BY <4>2, EnteringHead, WorksDiffer
      <4>4. Ui \notin {Disconnecting, Detaching2, Detaching1, Emptying, Stops3, Stops2, Stops1}
        BY <4>2, HeadsOfLists, WorksDiffer, SMTT(30)
      <4> QED
        BY <3>1, <4>1, <4>3, <4>4, WhereFixed DEF Ui, Detached
    <3>3. UiGoes("observe", "engine", << >>, Tail(Ui))
      <4>1. << >> \in Seq(AnyWork)
        OBVIOUS
      <4> QED
        BY <3>1, <4>1, UiThen
    <3>4. Ui' = << >> /\ Event' = Event
      BY <3>2, <3>3, HeadsOfLists DEF UiGoes
    <3> QED
      BY <1>4, <3>1, <3>2, <3>4
  <2>4. CASE StopService
    <3> DEFINE more == <<Do("join", "thread")>>
    <3>1. Has("ui", "stop", "service") /\ Then("ui", more)
          /\ UNCHANGED <<m_observers, m_submodel_initialized>>
      BY <2>4 DEF StopService, Stops
    <3>2. Ui = Stops1 /\ ~m_submodel_initialized
      BY <3>1, WhereEnding DEF Ui
    <3>3. more \in Seq(AnyWork)
      BY Calls DEF AnyWork, CallWork
    <3>4. \A s : <<s>> \o << >> = <<s>>
      OBVIOUS
    <3>5. more \o << >> = more
      BY <3>4
    <3> HIDE DEF more
    <3>6. UiGoes("stop", "service", more, Tail(Ui))
      BY <3>1, <3>3, UiThen
    <3>7. Ui' = more /\ Event' = Event
      BY <3>2, <3>5, <3>6, HeadsOfLists DEF UiGoes
    <3> QED
      BY <1>4, <3>1, <3>2, <3>7 DEF more
  <2> QED
    BY <2>1, <2>2, <2>3, <2>4
<1>6. Calm(new) /\ ~Pending(new, {"room"}, "meeting")
  BY UndoIsCalm, FixedIsCalm, RoomlessLists
<1>7. OpeningInv' /\ EventInv' /\ ClosingInv' /\ LastInv' /\ OwnInv' /\ TruthInv'
  BY <1>2, <1>3, <1>4, <1>5, <1>6, CalmStep
<1>8. QuitInv'
  BY <1>3, <1>5, <1>6, QuitsCalm
<1>9. FrameInvariant'
  BY <1>3, <1>5, <1>6, StillFits DEF MediaInv
<1> QED
  BY <1>7, <1>8, <1>9 DEF MediaInv

\* A meeting is entered: its room, and what comes before.
LEMMA JoinMedia ==
    ASSUME CaptureIInv, MediaInv, Submit \/ Join \/ SetRoom \/ SetRoomFails
    PROVE  MediaInv'
<1> USE DEF engineVars, lifeVars, mediaVars, captureVars, managerVars, engineStateVars, pageVars,
            lobbyVars
<1> DEFINE Asking == <<Do("request", "meeting")>>
           Room == <<Do("room", "meeting"), Do("accept", "meeting"), Do("enter", "meeting")>>
           Accepting == <<Do("accept", "meeting"), Do("enter", "meeting")>>
           Joining == <<Do("join", "thread")>>
<1>1. /\ Has("ui", "request", "meeting") => Ui = Asking
      /\ Has("ui", "room", "meeting") => Ui = Room /\ ~page
  BY WhereEntering, EnteringLists DEF Ui
<1>2. UNCHANGED <<page, shown, notice, m_open, publishing, m_source_id, registered, frame,
                  m_observers, m_submodel_initialized>>
  BY DEF Submit, Join, SetRoom, SetRoomFails
<1>3. /\ Ui \in {<< >>, Asking, Room} /\ Event' = Event
      /\ Ui = << >> => Ui' = Selecting
      /\ Ui = Asking => Ui' = Room /\ Event = << >> /\ m_current_meeting_id = 0
      /\ Ui = Room => Ui' \in {Accepting, << >>, Joining}
      /\ Ui # Room => UNCHANGED <<joined, m_current_meeting_id>>
  <2>1. Asking # << >> /\ Room # << >> /\ Asking # Room
    <3>1. Head(Asking) = Do("request", "meeting") /\ Head(Room) = Do("room", "meeting")
      BY HeadsOfEntering
    <3> QED
      BY <3>1, WorksDiffer
  <2> HIDE DEF Asking, Room, Accepting, Joining
  <2>2. CASE Submit
    <3>1. Ui = << >> /\ Starts("ui", Selecting)
      BY <2>2 DEF Submit, Idle, Ui, Selecting
    <3> QED
      BY <2>1, <2>2, <3>1, UiStarts DEF Submit
  <2>3. CASE Join
    <3>1. Has("ui", "request", "meeting") /\ Then("ui", Room) /\ Event = << >>
          /\ m_current_meeting_id = 0
      BY <2>3 DEF Join, Idle, Event, Room
    <3>2. Room \in Seq(AnyWork) /\ Tail(Asking) = << >> /\ Room \o << >> = Room
      <4>1. Room \in Seq(AnyWork)
        BY FixedIsAny DEF Room
      <4> QED
        BY <4>1, HeadsOfEntering DEF Asking
    <3>3. UiGoes("request", "meeting", Room, Tail(Ui))
      BY <3>1, <3>2, UiThen
    <3>4. Ui = Asking /\ Ui' = Room /\ Event' = Event
      BY <1>1, <3>1, <3>2, <3>3 DEF UiGoes
    <3> QED
      BY <2>1, <2>3, <3>1, <3>4 DEF Join
  <2>4. CASE SetRoom
    <3>1. Has("ui", "room", "meeting") /\ Then("ui", << >>)
      BY <2>4 DEF SetRoom
    <3>2. UiGoes("room", "meeting", << >>, Tail(Ui))
      <4>1. << >> \in Seq(AnyWork)
        OBVIOUS
      <4> QED
        BY <3>1, <4>1, UiThen
    <3>3. Ui = Room /\ Ui' = Accepting /\ Event' = Event
      BY <1>1, <3>1, <3>2, HeadsOfEntering DEF UiGoes, Room, Accepting
    <3> QED
      BY <2>1, <3>3
  <2>5. CASE SetRoomFails
    <3>1. PICK list \in {<< >>, Joining} : Has("ui", "room", "meeting") /\ Starts("ui", list)
      BY <2>5 DEF SetRoomFails, Joining
    <3>2. Ui = Room /\ Ui' = list /\ Event' = Event
      BY <1>1, <3>1, UiStarts
    <3> QED
      BY <2>1, <2>5, <3>1, <3>2 DEF SetRoomFails
  <2> QED
    BY <2>2, <2>3, <2>4, <2>5
<1>4. Calm(Ui) /\ Calm(Ui')
  BY <1>3, FixedIsCalm
<1>5. /\ m_observers => m_submodel_initialized
      /\ ~m_observers => ~page
      /\ m_submodel_initialized /\ ~m_observers => Pending(Ui, {"uninit", "observe"}, "engine")
  BY <1>4, CalmQuits DEF MediaInv
<1>6. ~Pending(Ui, {"uninit", "observe"}, "engine")
  <2> DEFINE A == {"request", "room", "accept", "enter"}
             S == A \X {"meeting"}
  <2>1. {Do("request", "meeting"), Do("room", "meeting"), Do("accept", "meeting"),
         Do("enter", "meeting")} \subseteq S
    BY DEF Do
  <2>2. A \cap {"uninit", "observe"} = {}
    OBVIOUS
  <2> HIDE DEF S
  <2>3. {<< >>, Asking, Room} \subseteq Seq(S)
    BY <2>1
  <2> HIDE DEF A, Asking, Room
  <2>4. Ui \in Seq(S)
    BY <1>3, <2>3
  <2> QED
    BY <2>2, <2>4, NotAmong DEF S
<1> HIDE DEF Asking, Room, Accepting, Joining
<1>7. OpeningInv' /\ EventInv' /\ ClosingInv' /\ LastInv' /\ OwnInv' /\ TruthInv'
  BY <1>2, <1>3, <1>4, CalmStep
<1>8. QuitInv'
  BY <1>2, <1>4, <1>5, <1>6, QuitsCalm
<1>9. FrameInvariant'
  <2>1. CASE Ui = << >>
    <3>1. ~Pending(Ui', {"room"}, "meeting")
      BY <1>3, <2>1, RoomlessLists
    <3>2. UNCHANGED joined
      <4>1. Ui # Room
        BY <2>1 DEF Room
      <4> QED
        BY <1>3, <4>1
    <3> QED
      BY <1>2, <3>1, <3>2, StillFits DEF MediaInv
  <2>2. CASE Ui = Asking
    <3>1. Event' = << >> /\ m_current_meeting_id' = 0 /\ UNCHANGED <<joined, frame, registered>>
      <4>1. Ui # Room
        BY <2>2 DEF Room, Asking, Do
      <4> QED
        BY <1>2, <1>3, <2>2, <4>1
    <3> QED
      BY <3>1 DEF FrameInvariant, FrameFits, MediaInv
  <2>3. CASE Ui = Room
    <3>1. ~Pending(Ui', {"room"}, "meeting")
      BY <1>3, <2>3, RoomlessLists DEF Accepting, Joining
    <3>2. ~page /\ Event = << >>
      <4>1. Has("ui", "room", "meeting") /\ Pending(Ui, {"room"}, "meeting")
        <5>1. Room # << >> /\ Head(Room) = Do("room", "meeting") /\ Room \in Seq(AnyWork)
          BY HeadsOfEntering, FixedIsAny DEF Room
        <5>2. Do("room", "meeting") \in Works({"room"}, "meeting")
          BY WorksAre
        <5> QED
          BY <2>3, <5>1, <5>2, Begun DEF Has, Idle, Ui
      <4> QED
        BY <1>1, <4>1 DEF FrameInvariant, MediaInv
    <3>3. registered = {}
      BY <1>4, <3>2, CalmOwns DEF CaptureIInv
    <3> QED
      BY <1>2, <3>1, <3>3 DEF FrameInvariant, FrameFits, MediaInv
  <2> QED
    BY <1>3, <2>1, <2>2, <2>3
<1> QED
  BY <1>7, <1>8, <1>9 DEF MediaInv

\* The page of the meeting is shown, or it is left before that.
LEMMA EnterMedia ==
    ASSUME CaptureIInv, MediaInv, Enter \/ SubscribeFails
    PROVE  MediaInv'
<1> USE DEF engineVars, lifeVars, mediaVars, captureVars, managerVars, engineStateVars, pageVars,
            lobbyVars
<1> DEFINE Entered == <<Do("enter", "meeting")>>
<1>1. Has("ui", "enter", "meeting") /\ Ui = Entered /\ ~page
  <2>1. Has("ui", "enter", "meeting")
    BY DEF Enter, SubscribeFails
  <2> QED
    BY <2>1, WhereEntering, EnteringLists DEF Ui
<1>2. One(Ui, "enter", "meeting") /\ Calm(Ui)
  BY <1>1, OneIs, FixedIsCalm
<1> HIDE DEF Entered
<1>3. UNCHANGED <<notice, m_open, publishing, m_source_id, registered, frame, joined,
                  m_observers, m_submodel_initialized, m_current_meeting_id>>
      /\ (Enter => shown' = {} /\ page' = TRUE) /\ (SubscribeFails => UNCHANGED <<shown, page>>)
  BY DEF Enter, SubscribeFails
<1>4. m_open = {} /\ shown = {} /\ shown' = {} /\ m_open' = {}
  <2>1. m_open = {} /\ shown = {}
    BY <1>1, <1>2, CalmOwns DEF CaptureIInv
  <2> QED
    BY <1>3, <2>1
<1>5. /\ m_observers => m_submodel_initialized
      /\ m_submodel_initialized => m_observers
  <2>1. ~Pending(Ui, {"uninit", "observe"}, "engine")
    BY <1>2 DEF One
  <2> QED
    BY <1>2, <2>1, CalmQuits DEF MediaInv
<1>6. m_submodel_initialized
  BY <1>1, WhereEntering
<1>7. Event' = Event /\ ~Pending(Ui', {"room"}, "meeting")
      /\ \/ Enter /\ Ui' = << >>
         \/ /\ SubscribeFails /\ LeavesLast(Ui') /\ Final(Ui', "exit", "page")
            /\ \A words, for : "cleanup" \notin words /\ "join" \notin words =>
                                  ~Pending(Ui', words, for)
            /\ \A k, words : Awaits(Ui', "unflag", k, words, k)
  <2>1. CASE Enter
    <3>1. UiGoes("enter", "meeting", << >>, Tail(Ui))
      <4>1. << >> \in Seq(AnyWork)
        OBVIOUS
      <4> QED
        BY <1>1, <2>1, <4>1, UiThen DEF Enter
    <3>2. Ui' = << >> /\ Event' = Event
      BY <1>1, <3>1, HeadsOfEntering DEF UiGoes, Entered
    <3> QED
      BY <2>1, <3>2, Nothing
  <2>2. CASE SubscribeFails
    <3> DEFINE Clean == <<Do("cleanup", "meeting")>>
               Joining == <<Do("join", "thread")>>
    <3>1. PICK list \in {<< >>, Joining} : Starts("ui", Clean \o list)
      BY <2>2 DEF SubscribeFails
    <3>2. Ui' = Clean \o list /\ Event' = Event
      BY <3>1, UiStarts
    <3>3. One(Clean, "cleanup", "meeting") /\ One(Joining, "join", "thread")
          /\ Clean \in Seq(AnyWork) /\ list \in Seq(AnyWork)
      <4>1. Do("cleanup", "meeting") \in AnyWork /\ Do("join", "thread") \in AnyWork
        BY Calls DEF AnyWork, CallWork
      <4>2. One(Clean, "cleanup", "meeting") /\ One(Joining, "join", "thread")
        BY OneIs
      <4>3. Clean \in Seq(AnyWork) /\ Joining \in Seq(AnyWork) /\ << >> \in Seq(AnyWork)
        BY <4>1
      <4> HIDE DEF Clean, Joining
      <4>4. list \in Seq(AnyWork)
        BY <3>1, <4>3
      <4> QED
        BY <4>2, <4>3, <4>4
    <3> HIDE DEF Clean, Joining
    <3>4. Joins(Ui', Clean, list)
      BY <3>2, <3>3, PartsOf
    <3>5. LeavesLast(list) /\ (\A word, for : Final(list, word, for))
          /\ \A words, for : "join" \notin words => ~Pending(list, words, for)
      BY <3>3, Nothing DEF One
    <3>6. \A k, words : Awaits(list, "unflag", k, words, k)
      BY <3>3, Nothing DEF One
    <3>7. LeavesLast(Ui') /\ Final(Ui', "exit", "page")
      BY <3>3, <3>4, <3>5 DEF Joins, One
    <3>8. \A words, for : "cleanup" \notin words /\ "join" \notin words =>
                             ~Pending(Ui', words, for)
      BY <3>3, <3>4, <3>5 DEF Joins, One
    <3>9. \A k, words : Awaits(Ui', "unflag", k, words, k)
      BY <3>3, <3>4, <3>6 DEF Joins, One
    <3>10. ~Pending(Ui', {"room"}, "meeting")
      BY <3>8
    <3> QED
      BY <2>2, <3>2, <3>7, <3>8, <3>9, <3>10
  <2> QED
    BY <2>1, <2>2
<1>8. \A words, for : "cleanup" \notin words /\ "join" \notin words => ~Pending(Ui', words, for)
  BY <1>7, Nothing
<1>9. OpeningInv' /\ EventInv' /\ ClosingInv' /\ OwnInv' /\ TruthInv'
  <2>1. ASSUME NEW k \in Kinds
        PROVE  /\ ~Opens(Ui, k) /\ ~Opens(Ui', k)
               /\ ~Pending(Ui, {"release", "unregister"}, k) /\ ~Pending(Ui, {"unpublish"}, k)
               /\ Awaits(Ui', "unflag", k, {"release", "unregister"}, k)
               /\ Awaits(Ui', "unflag", k, {"unpublish"}, k)
    <3>1. ~Opens(Ui, k)
      BY <1>2, CalmIs
    <3>2. ~Opens(Ui', k)
      BY <1>8 DEF Opens, OpenWork
    <3>3. ~Pending(Ui, {"release", "unregister"}, k) /\ ~Pending(Ui, {"unpublish"}, k)
      BY <1>2 DEF One
    <3>4. /\ Awaits(Ui', "unflag", k, {"release", "unregister"}, k)
          /\ Awaits(Ui', "unflag", k, {"unpublish"}, k)
      BY <1>7, Nothing
    <3> QED
      BY <3>1, <3>2, <3>3, <3>4
  <2> QED
    BY <1>3, <1>4, <1>7, <2>1, NothingOpen
<1>10. LastInv'
  <2>1. LeavesLast(Ui') /\ Final(Ui', "exit", "page")
    BY <1>7, Nothing
  <2>2. \A k \in Kinds : ~Pending(Ui', {"list"}, k)
    BY <1>8
  <2> QED
    BY <2>1, <2>2 DEF LastInv
<1>11. QuitInv'
  <2>1. /\ ~Pending(Ui', {"leave"}, "page") /\ ~Pending(Ui', {"leave", "exit"}, "quit")
        /\ ~Pending(Ui', {"uninit"}, "engine") /\ ~Pending(Ui', {"forget"}, "managers")
    BY <1>8
  <2>2. m_observers' /\ m_submodel_initialized'
    BY <1>3, <1>5, <1>6
  <2>3. Pending(Ui', {"cleanup", "snapshot"}, "meeting") => ~page'
    BY <1>1, <1>3, <1>7, Nothing
  <2> QED
    BY <2>1, <2>2, <2>3 DEF QuitInv, Leaving
<1>12. FrameInvariant'
  BY <1>3, <1>7, StillFits DEF MediaInv
<1> QED
  BY <1>9, <1>10, <1>11, <1>12 DEF MediaInv

-----------------------------------------------------------------------------
(* A device is opened.                                                      *)

\* The works of a call that opens a device, and of one that fails to.
OpenedWork == OpenWork \cup {"unregister", "unpublish"}
Undoing(k) == <<Do("unregister", k), Do("unpublish", k)>>
Only(list, k) ==
    /\ \A words, for : for # k \/ OpenedWork \cap words = {} => ~Pending(list, words, for)
    /\ \A word, for, words, whom : word \notin OpenedWork => Awaits(list, word, for, words, whom)
    /\ \A word, for : word \notin OpenedWork => Final(list, word, for)
    /\ LeavesLast(list)

LEMMA OnlyIs ==
    ASSUME NEW k, NEW list \in OpenLists(k) \cup {<< >>, Undoing(k)}
    PROVE  Only(list, k)
<1> DEFINE S == OpenedWork \X {k}
<1>1. \A w \in OpenedWork : Do(w, k) \in S
  BY DEF Do
<1>2. OpenWork \subseteq OpenedWork /\ {"unregister", "unpublish"} \subseteq OpenedWork
  BY DEF OpenedWork
<1>3. {"open", "publish", "register", "create", "flag", "show"} \subseteq OpenedWork
  BY <1>2 DEF OpenWork
<1> HIDE DEF S
<1>4. list \in Seq(S)
  <2>1. OpenLists(k) \subseteq Seq(S)
    BY <1>1, <1>3 DEF OpenLists
  <2>2. Undoing(k) \in Seq(S) /\ << >> \in Seq(S)
    BY <1>1, <1>2 DEF Undoing
  <2> QED
    BY <2>1, <2>2
<1>5. ASSUME NEW i \in DOMAIN list
      PROVE  \E w \in OpenedWork : list[i] = Do(w, k)
  <2>1. list[i] \in S
    BY <1>4, ElementOfSeq, LenProperties
  <2> QED
    BY <2>1 DEF S, Do
<1>6. ASSUME NEW words, NEW for, for # k \/ OpenedWork \cap words = {}
      PROVE  ~Pending(list, words, for)
  <2> SUFFICES ASSUME NEW i \in DOMAIN list, list[i] \in Works(words, for) PROVE FALSE
    BY DEF Pending
  <2>1. PICK w \in OpenedWork : list[i] = Do(w, k)
    BY <1>5
  <2>2. w \in words /\ for = k
    BY <2>1, WorksAre
  <2> QED
    BY <1>6, <2>2
<1>7. ASSUME NEW word, NEW for, word \notin OpenedWork, NEW i \in DOMAIN list
      PROVE  list[i] # Do(word, for)
  BY <1>5, <1>7, WorksDiffer
<1>8. \A word, for, words, whom : word \notin OpenedWork => Awaits(list, word, for, words, whom)
  BY <1>7 DEF Awaits
<1>9. \A word, for : word \notin OpenedWork => Final(list, word, for)
  BY <1>7 DEF Final
<1>10. LeavesLast(list)
  <2>1. "leave" \notin OpenedWork
    BY DEF OpenedWork, OpenWork
  <2> QED
    BY <1>7, <2>1 DEF LeavesLast
<1> QED
  BY <1>6, <1>8, <1>9, <1>10 DEF Only

LEMMA OpenOrUndo ==
    ASSUME NEW k, NEW list \in OpenLists(k) \cup {<< >>, Undoing(k)}
    PROVE  Pending(list, OpenWork, k) => list \in OpenLists(k)
<1>1. CASE list = << >>
  BY <1>1, Nothing
<1>2. CASE list = Undoing(k)
  <2>1. Two(list, "unregister", k, "unpublish", k)
    BY <1>2, TwoIs, WorksDiffer DEF Undoing
  <2> QED
    BY <1>2, <2>1 DEF Two, OpenWork
<1>3. CASE list = <<Do("flag", k), Do("show", k)>>
  <2>1. Two(list, "flag", k, "show", k)
    BY <1>3, TwoIs, WorksDiffer
  <2> QED
    BY <1>3, <2>1 DEF Two, OpenLists
<1>4. CASE list \in OpenLists(k) /\ list # <<Do("flag", k), Do("show", k)>>
  <2>1. PICK v \in {"open", "publish", "register", "create", "show"} : list = <<Do(v, k)>>
    BY <1>4 DEF OpenLists
  <2>2. One(list, v, k)
    BY <2>1, OneIs
  <2> QED
    BY <1>4, <2>2 DEF One
<1> QED
  BY <1>1, <1>2, <1>3, <1>4

\* What a call that opens one device leaves as it was.
LEMMA OpenStep ==
    ASSUME MediaInv, NEW k \in Kinds, Ui \in OpenLists(k), page,
           Ui' \in OpenLists(k) \cup {<< >>, Undoing(k)}, Event' = Event,
           UNCHANGED <<page, notice, m_observers, m_submodel_initialized, frame, joined>>,
           registered \subseteq registered',
           \A j \in Kinds \ {k} :
              /\ (j \in m_open' <=> j \in m_open) /\ (j \in shown' <=> j \in shown)
              /\ (j \in m_source_id' <=> j \in m_source_id)
              /\ (j \in registered' <=> j \in registered)
              /\ (j \in publishing' <=> j \in publishing),
           Pending(Ui', {"publish", "register", "create", "flag"}, k) => k \notin m_open',
           Pending(Ui', {"release", "unregister", "unpublish"}, k) => k \notin m_open',
           Owned(k)', Truth(k) => Truth(k)'
    PROVE  MediaInv'
<1>1. Only(Ui, k) /\ Only(Ui', k)
  BY OnlyIs
<1>2. /\ \A j, words : j # k => ~Pending(Ui, words, j) /\ ~Pending(Ui', words, j)
      /\ \A words, for : OpenedWork \cap words = {} =>
            ~Pending(Ui, words, for) /\ ~Pending(Ui', words, for)
  BY <1>1 DEF Only
<1>3. /\ OpenedWork \cap {"exit"} = {} /\ OpenedWork \cap {"leave"} = {}
      /\ OpenedWork \cap {"list"} = {} /\ OpenedWork \cap {"leave", "exit"} = {}
      /\ OpenedWork \cap {"uninit"} = {} /\ OpenedWork \cap {"forget"} = {}
      /\ OpenedWork \cap {"cleanup", "snapshot"} = {} /\ OpenedWork \cap {"room"} = {}
      /\ OpenedWork \cap {"uninit", "observe"} = {}
      /\ "exit" \notin OpenedWork /\ "hide" \notin OpenedWork /\ "forget" \notin OpenedWork
      /\ "unflag" \notin OpenedWork
  BY DEF OpenedWork, OpenWork
<1>4. OpeningInv'
  <2>1. ASSUME NEW j \in Kinds PROVE Opening(j)'
    <3>1. CASE j = k
      BY <3>1, OpenOrUndo DEF Opening
    <3>2. CASE j # k
      BY <1>2, <3>2 DEF Opening
    <3> QED
      BY <3>1, <3>2
  <2> QED
    BY <2>1 DEF OpeningInv
<1>5. EventInv'
  BY DEF EventInv, MediaInv
<1>6. ClosingInv'
  <2>1. ASSUME NEW j \in Kinds PROVE Closing(j)'
    <3>1. \A word, for, words, whom : word \in {"exit", "hide", "forget", "unflag"} =>
             Awaits(Ui', word, for, words, whom)
      BY <1>1, <1>3 DEF Only
    <3>2. j \in m_open' => ~Pending(Ui', {"release", "unregister", "unpublish"}, j)
      BY <1>2
    <3> QED
      BY <3>1, <3>2 DEF Closing
  <2> QED
    BY <2>1 DEF ClosingInv
<1>7. LastInv'
  <2>1. LeavesLast(Ui') /\ Final(Ui', "exit", "page")
    BY <1>1, <1>3 DEF Only
  <2>2. \A j \in Kinds : ~Pending(Ui', {"list"}, j)
    BY <1>2, <1>3
  <2> QED
    BY <2>1, <2>2 DEF LastInv
<1>8. OwnInv'
  <2>1. ASSUME NEW j \in Kinds PROVE Owned(j)'
    <3>1. CASE j # k
      <4>1. Owned(j)
        BY DEF MediaInv, OwnInv
      <4> QED
        BY <1>2, <3>1, <4>1 DEF Owned
    <3> QED
      BY <3>1
  <2> QED
    BY <2>1 DEF OwnInv
<1>9. m_observers /\ ~Gone /\ ~Gone'
  <2>1. ~Exiting /\ ~Exiting'
    BY <1>2, <1>3 DEF Exiting
  <2> QED
    BY <2>1 DEF QuitInv, Gone, MediaInv
<1>10. QuitInv'
  <2>1. /\ ~Pending(Ui', {"leave"}, "page") /\ ~Pending(Ui', {"leave", "exit"}, "quit")
        /\ ~Pending(Ui', {"uninit"}, "engine") /\ ~Pending(Ui', {"forget"}, "managers")
        /\ ~Pending(Ui', {"cleanup", "snapshot"}, "meeting")
    BY <1>2, <1>3
  <2> QED
    BY <1>9, <2>1 DEF QuitInv, Leaving, MediaInv
<1>11. TruthInv'
  <2>1. Doomed => Doomed'
    BY <1>9 DEF Doomed
  <2>2. ASSUME NEW j \in Kinds, Truth(j) PROVE Truth(j)'
    <3>1. CASE j # k
      BY <1>2, <2>2, <3>1 DEF Truth
    <3> QED
      BY <2>2, <3>1
  <2> QED
    BY <2>1, <2>2 DEF TruthInv, MediaInv
<1>12. FrameInvariant'
  <2>1. ~Pending(Ui', {"room"}, "meeting")
    BY <1>2, <1>3
  <2> QED
    BY <2>1, StillFits DEF MediaInv
<1> QED
  BY <1>4, <1>5, <1>6, <1>7, <1>8, <1>10, <1>11, <1>12 DEF MediaInv

\* What a thread that opens a device has still to do.
LEMMA OpensOne ==
    ASSUME CaptureIInv, MediaInv, NEW w \in OpenWork, NEW k \in Kinds, Has("ui", w, k)
    PROVE  /\ Ui \in OpenLists(k) /\ page
           /\ w # "flag" => One(Ui, w, k) /\ Tail(Ui) = << >>
           /\ w = "flag" => Two(Ui, "flag", k, "show", k) /\ Tail(Ui) = <<Do("show", k)>>
<1>1. Ui # << >> /\ Head(Ui) = Do(w, k) /\ Ui \in Seq(AnyWork)
  BY UiIsAny DEF Has, Idle, Ui
<1>2. Ui \in OpenLists(k) /\ page
  <2>1. Pending(Ui, OpenWork, k)
    BY <1>1, Begun, WorksAre
  <2> QED
    BY <2>1 DEF OpeningInv, Opening, MediaInv
<1>3. \A x, y : /\ Head(<<x>>) = x /\ Tail(<<x>>) = << >>
                /\ Head(<<x, y>>) = x /\ Tail(<<x, y>>) = <<y>>
  OBVIOUS
<1>4. CASE Ui = <<Do("flag", k), Do("show", k)>>
  <2>1. w = "flag" /\ Tail(Ui) = <<Do("show", k)>>
    BY <1>1, <1>3, <1>4, WorksDiffer
  <2>2. Two(Ui, "flag", k, "show", k)
    BY <1>4, TwoIs, WorksDiffer
  <2> QED
    BY <1>2, <2>1, <2>2
<1>5. CASE Ui # <<Do("flag", k), Do("show", k)>>
  <2>1. PICK v \in {"open", "publish", "register", "create", "show"} : Ui = <<Do(v, k)>>
    BY <1>2, <1>5 DEF OpenLists
  <2>2. w = v /\ Tail(Ui) = << >>
    BY <1>1, <1>3, <2>1, WorksDiffer
  <2>3. One(Ui, w, k)
    BY <2>1, <2>2, OneIs
  <2> QED
    BY <1>2, <2>1, <2>2, <2>3
<1> QED
  BY <1>4, <1>5

\* A step of it.
LEMMA OpensOn ==
    ASSUME CaptureIInv, MediaInv, NEW w \in OpenWork \ {"flag"}, NEW k \in Kinds,
           Has("ui", w, k), NEW list \in OpenLists(k) \cup {<< >>, Undoing(k)}, Then("ui", list)
    PROVE  Ui' = list /\ Event' = Event
<1>1. OpenLists(k) \cup {<< >>, Undoing(k)} \subseteq Seq(AnyWork)
  <2>1. \A v \in OpenedWork : Do(v, k) \in AnyWork
    BY DEF OpenedWork, OpenWork, AnyWork, PlainWork, LockedWork, Do
  <2>2. /\ {"open", "publish", "register", "create", "flag", "show"} \subseteq OpenedWork
        /\ {"unregister", "unpublish"} \subseteq OpenedWork
    BY DEF OpenedWork, OpenWork
  <2>3. OpenLists(k) \subseteq Seq(AnyWork)
    BY <2>1, <2>2 DEF OpenLists
  <2>4. Undoing(k) \in Seq(AnyWork) /\ << >> \in Seq(AnyWork)
    BY <2>1, <2>2 DEF Undoing
  <2> QED
    BY <2>3, <2>4
<1>2. list \in Seq(AnyWork) /\ list \o << >> = list
  <2>1. list \in Seq(AnyWork)
    BY <1>1
  <2> QED
    BY <2>1
<1>3. Tail(Ui) = << >>
  BY OpensOne
<1>4. UiGoes(w, k, list, Tail(Ui))
  BY <1>2, UiThen
<1> QED
  BY <1>2, <1>3, <1>4 DEF UiGoes

\* The page opens a device, which is published.
LEMMA PublishMedia ==
    ASSUME CaptureIInv, MediaInv, NEW t \in Threads, NEW k \in Kinds,
           CheckOpen(t, k) \/ Publish(t, k)
    PROVE  MediaInv'
<1> USE DEF engineVars, lifeVars, mediaVars, captureVars, managerVars, engineStateVars, pageVars,
            lobbyVars
<1>1. t = "ui"
  BY UiDoes DEF CheckOpen, Publish, MediaInv
<1>2. Owned(k) /\ Opening(k)
  BY DEF MediaInv, OwnInv, OpeningInv
<1>3. {"open", "publish"} \subseteq OpenWork \ {"flag"}
  BY DEF OpenWork
<1>4. CASE CheckOpen(t, k)
  <2>1. PICK list \in {<< >>, <<Do("show", k)>>, <<Do("publish", k)>>} :
           /\ Has("ui", "open", k) /\ Then("ui", list)
           /\ list = <<Do("show", k)>> => k \in m_open
           /\ list = <<Do("publish", k)>> => k \notin m_open
    <3>1. <<Do("show", k)>> # <<Do("publish", k)>>
      BY DEF Do
    <3>2. CASE m_current_meeting_id = 0
      BY <1>1, <1>4, <3>2 DEF CheckOpen
    <3>3. CASE m_current_meeting_id # 0 /\ k \in m_open
      BY <1>1, <1>4, <3>1, <3>3 DEF CheckOpen
    <3>4. CASE m_current_meeting_id # 0 /\ k \notin m_open
      BY <1>1, <1>4, <3>1, <3>4 DEF CheckOpen
    <3> QED
      BY <3>2, <3>3, <3>4
  <2>2. /\ Ui \in OpenLists(k) /\ page /\ One(Ui, "open", k)
        /\ Ui' = list /\ Event' = Event
    BY <1>3, <2>1, OpensOne, OpensOn DEF OpenLists
  <2>3. UNCHANGED <<engineVars, captureVars, pageVars>>
    BY <1>4 DEF CheckOpen
  <2>4. k \in m_open => k \in shown
    BY <1>2, <2>2 DEF Owned, One
  <2>5. /\ list = << >> => Ui' = << >>
        /\ list = <<Do("show", k)>> => One(Ui', "show", k)
        /\ list = <<Do("publish", k)>> => One(Ui', "publish", k)
    BY <2>2, OneIs
  <2>6. /\ Pending(Ui', {"publish", "register", "create", "flag"}, k) => k \notin m_open'
        /\ ~Pending(Ui', {"release", "unregister", "unpublish"}, k)
        /\ ~Pending(Ui', {"register", "create", "flag"}, k) /\ ~Pending(Ui', {"flag"}, k)
        /\ ~Pending(Ui', {"close", "unflag"}, k)
        /\ Pending(Ui', {"show"}, k) => k \in m_open'
    BY <2>1, <2>3, <2>5, Nothing DEF One
  <2>7. Owned(k)' /\ (Truth(k) => Truth(k)')
    BY <1>2, <2>2, <2>3, <2>4, <2>6 DEF Owned, Truth, One
  <2>8. Ui' \in OpenLists(k) \cup {<< >>, Undoing(k)}
    BY <2>2 DEF OpenLists
  <2> QED
    BY <2>2, <2>3, <2>6, <2>7, <2>8, OpenStep
<1>5. CASE Publish(t, k)
  <2>1. PICK list \in {<< >>, <<Do("register", k)>>} :
           /\ Has("ui", "publish", k) /\ Then("ui", list)
           /\ list = << >> => publishing' = publishing
           /\ list # << >> => publishing' = publishing \cup {k}
    BY <1>1, <1>5 DEF Publish
  <2>2. /\ Ui \in OpenLists(k) /\ page /\ One(Ui, "publish", k)
        /\ Ui' = list /\ Event' = Event
    BY <1>3, <2>1, OpensOne, OpensOn DEF OpenLists
  <2>3. UNCHANGED <<lifeVars, m_open, captureVars, pageVars>>
    BY <1>5 DEF Publish
  <2>4. k \notin m_open
    BY <1>2, <2>2 DEF Opening, One
  <2>5. /\ list = << >> => Ui' = << >>
        /\ list # << >> => One(Ui', "register", k)
    BY <2>2, OneIs
  <2>6. /\ ~Pending(Ui', {"release", "unregister", "unpublish"}, k)
        /\ ~Pending(Ui', {"flag"}, k) /\ ~Pending(Ui', {"show"}, k)
        /\ Pending(Ui', {"register", "create", "flag"}, k) <=> list # << >>
    BY <2>2, <2>5, Nothing DEF One
  <2>7. /\ publishing' \subseteq publishing \cup {k} /\ publishing \subseteq publishing'
        /\ list # << >> => k \in publishing'
    BY <2>1
  <2>8. Owned(k)' /\ (Truth(k) => Truth(k)')
    <3>1. Owned(k)'
      BY <1>2, <2>1, <2>2, <2>3, <2>4, <2>6 DEF Owned, One
    <3>2. ~Pending(Ui, {"hide"}, k)
      BY <2>2 DEF One
    <3>3. Truth(k) => Truth(k)'
      BY <2>2, <2>3, <2>4, <2>6, <2>7, <3>2 DEF Truth
    <3> QED
      BY <3>1, <3>3
  <2>9. Ui' \in OpenLists(k) \cup {<< >>, Undoing(k)}
    BY <2>2 DEF OpenLists
  <2>10. Pending(Ui', {"publish", "register", "create", "flag"}, k) => k \notin m_open'
    BY <2>3, <2>4
  <2>11. /\ UNCHANGED <<page, notice, m_observers, m_submodel_initialized, frame, joined>>
         /\ UNCHANGED <<m_open, shown, m_source_id, registered>>
         /\ k \notin m_open'
    BY <2>3, <2>4
  <2>12. \A j \in Kinds \ {k} : (j \in publishing' <=> j \in publishing)
    BY <2>7
  <2> QED
    BY <2>2, <2>6, <2>8, <2>9, <2>10, <2>11, <2>12, OpenStep
<1> QED
  BY <1>4, <1>5

\* Its source is made, or cannot be.
LEMMA SourceMedia ==
    ASSUME CaptureIInv, MediaInv, NEW t \in Threads, NEW k \in Kinds,
           Register(t, k) \/ Create(t, k) \/ CreateFails(t, k), UNCHANGED <<engineVars, pageVars>>
    PROVE  MediaInv'
<1> USE DEF engineVars, lifeVars, mediaVars, captureVars, managerVars, engineStateVars, pageVars,
            lobbyVars
<1>1. t = "ui"
  BY UiDoes DEF Register, Create, CreateFails, MediaInv
<1>2. Owned(k) /\ Opening(k)
  BY DEF MediaInv, OwnInv, OpeningInv
<1>3. {"register", "create"} \subseteq OpenWork \ {"flag"}
  BY DEF OpenWork
<1> DEFINE Flagging == <<Do("flag", k), Do("show", k)>>
           Creating == <<Do("create", k)>>
<1>4. PICK w, list : /\ w \in {"register", "create"} /\ Has("ui", w, k) /\ Then("ui", list)
                     /\ \/ Register(t, k) /\ k \in m_source_id /\ list = Flagging
                           /\ UNCHANGED <<registered, m_source_id>>
                        \/ Register(t, k) /\ k \notin m_source_id /\ list = Creating
                           /\ m_source_id' = m_source_id /\ w = "register"
                           /\ registered \subseteq registered'
                           /\ registered' \subseteq registered \cup {k}
                        \/ Create(t, k) /\ list = Flagging /\ w = "create"
                           /\ m_source_id' = m_source_id \cup {k} /\ registered' = registered
                        \/ CreateFails(t, k) /\ list = Undoing(k) /\ w = "create"
                           /\ UNCHANGED <<registered, m_source_id>>
  <2>1. CASE Register(t, k) /\ k \in m_source_id
    BY <1>1, <2>1 DEF Register
  <2>2. CASE Register(t, k) /\ k \notin m_source_id
    BY <1>1, <2>2 DEF Register, AddCallback
  <2>3. CASE Create(t, k)
    BY <1>1, <2>3 DEF Create
  <2>4. CASE CreateFails(t, k)
    BY <1>1, <2>4 DEF CreateFails, Undoing
  <2> QED
    BY <2>1, <2>2, <2>3, <2>4
<1>5. /\ Ui \in OpenLists(k) /\ page /\ One(Ui, w, k)
      /\ Ui' = list /\ Event' = Event /\ list \in OpenLists(k) \cup {<< >>, Undoing(k)}
  <2>1. list \in OpenLists(k) \cup {<< >>, Undoing(k)}
    BY <1>4 DEF OpenLists
  <2> QED
    BY <1>3, <1>4, <2>1, OpensOne, OpensOn
<1>6. k \notin m_open
  BY <1>2, <1>4, <1>5 DEF Opening, One
<1>7. /\ list = Flagging => Two(Ui', "flag", k, "show", k)
      /\ list = Creating => One(Ui', "create", k)
      /\ list = Undoing(k) => Two(Ui', "unregister", k, "unpublish", k)
  BY <1>5, OneIs, TwoIs, WorksDiffer DEF Undoing
<1>8. UNCHANGED <<m_open, shown, publishing, page, notice, m_observers, m_submodel_initialized,
                  frame, joined>>
  BY DEF Register, Create, CreateFails
<1> HIDE DEF Flagging, Creating
<1>9. /\ \A j \in Kinds \ {k} : /\ j \in m_source_id' <=> j \in m_source_id
                                /\ j \in registered' <=> j \in registered
      /\ registered \subseteq registered' /\ list \in {Flagging, Creating, Undoing(k)}
      /\ list = Creating => w = "register"
  <2>1. Creating # Flagging /\ Creating # Undoing(k)
    BY DEF Creating, Flagging, Undoing
  <2> QED
    BY <1>4, <2>1
<1>10. /\ Pending(Ui', {"release", "unregister", "unpublish"}, k) => k \notin m_open'
       /\ Pending(Ui', {"publish", "register", "create", "flag"}, k) => k \notin m_open'
  BY <1>6, <1>8
<1>11. Owned(k)' /\ (Truth(k) => Truth(k)')
  <2>1. CASE list = Flagging
    <3>1. k \in m_source_id'
      <4>1. Flagging # Creating /\ Flagging # Undoing(k)
        <5>1. Do("flag", k) # Do("unregister", k)
          BY WorksDiffer
        <5> QED
          BY <5>1 DEF Creating, Flagging, Undoing
      <4> QED
        BY <1>4, <2>1, <4>1
    <3>2. /\ Pending(Ui', {"create", "flag"}, k) /\ Pending(Ui', {"register", "create", "flag"}, k)
          /\ Pending(Ui', {"flag"}, k)
      BY <1>7, <2>1 DEF Two
    <3>3. Owned(k)'
      BY <1>2, <1>5, <1>6, <1>8, <3>2 DEF Owned
    <3>4. Pending(Ui, {"register", "create", "flag"}, k) /\ ~Pending(Ui, {"hide"}, k)
      BY <1>4, <1>5 DEF One
    <3>5. Truth(k) => Truth(k)'
      BY <1>6, <1>8, <3>1, <3>2, <3>4 DEF Truth
    <3> QED
      BY <3>3, <3>5
  <2>2. CASE list = Creating
    <3>1. /\ Pending(Ui', {"create", "flag"}, k) /\ Pending(Ui', {"register", "create", "flag"}, k)
          /\ ~Pending(Ui', {"flag"}, k) /\ ~Pending(Ui', {"show"}, k)
      BY <1>7, <2>2 DEF One
    <3>2. Owned(k)'
      BY <1>2, <1>5, <1>6, <1>8, <3>1 DEF Owned
    <3>3. Pending(Ui, {"register", "create", "flag"}, k) /\ ~Pending(Ui, {"hide"}, k)
      BY <1>4, <1>5 DEF One
    <3>4. Truth(k) => Truth(k)'
      BY <1>6, <1>8, <3>1, <3>3 DEF Truth
    <3> QED
      BY <3>2, <3>4
  <2>3. CASE list = Undoing(k)
    <3>1. /\ Pending(Ui', {"release", "unregister"}, k) /\ Pending(Ui', {"unpublish"}, k)
          /\ ~Pending(Ui', {"register", "create", "flag"}, k)
          /\ ~Pending(Ui', {"flag"}, k) /\ ~Pending(Ui', {"show"}, k)
      BY <1>7, <2>3 DEF Two
    <3>2. Owned(k)'
      BY <1>2, <1>5, <1>6, <1>8, <3>1 DEF Owned
    <3>3. ~Pending(Ui, {"hide"}, k)
      BY <1>4, <1>5 DEF One
    <3>4. Truth(k) => Truth(k)'
      BY <1>6, <1>8, <3>1, <3>3 DEF Truth
    <3> QED
      BY <3>2, <3>4
  <2> QED
    BY <1>9, <2>1, <2>2, <2>3
<1> QED
  BY <1>5, <1>8, <1>9, <1>10, <1>11, OpenStep

\* The engine counts it as open, and the page shows it so.
LEMMA ShowMedia ==
    ASSUME CaptureIInv, MediaInv, NEW t \in Threads, NEW k \in Kinds,
           Flag(t, k) \/ (t = "ui" /\ Show(k))
    PROVE  MediaInv'
<1> USE DEF engineVars, lifeVars, mediaVars, captureVars, managerVars, engineStateVars, pageVars,
            lobbyVars
<1>1. t = "ui"
  BY UiDoes DEF Flag, MediaInv
<1>2. Owned(k) /\ Opening(k)
  BY DEF MediaInv, OwnInv, OpeningInv
<1>3. "flag" \in OpenWork /\ "show" \in OpenWork \ {"flag"}
  BY DEF OpenWork
<1>4. CASE Flag(t, k)
  <2> DEFINE Showing == <<Do("show", k)>>
  <2>1. /\ Has("ui", "flag", k) /\ Then("ui", << >>) /\ m_open' = m_open \cup {k}
        /\ UNCHANGED <<shown, publishing, page, notice, m_observers, m_submodel_initialized, frame,
                       joined, m_source_id, registered>>
    BY <1>1, <1>4 DEF Flag
  <2>2. /\ Ui \in OpenLists(k) /\ page /\ Two(Ui, "flag", k, "show", k) /\ Tail(Ui) = Showing
    BY <1>3, <2>1, OpensOne
  <2>3. Ui' = Showing /\ Event' = Event
    <3>1. << >> \in Seq(AnyWork)
      OBVIOUS
    <3>2. UiGoes("flag", k, << >>, Tail(Ui))
      BY <2>1, <3>1, UiThen
    <3> QED
      BY <2>2, <3>2 DEF UiGoes
  <2>4. One(Ui', "show", k) /\ Ui' \in OpenLists(k)
    BY <2>3, OneIs DEF OpenLists
  <2>5. /\ Pending(Ui', {"show"}, k)
        /\ ~Pending(Ui', {"publish", "register", "create", "flag"}, k)
        /\ ~Pending(Ui', {"release", "unregister", "unpublish"}, k)
        /\ ~Pending(Ui', {"register", "create", "flag"}, k) /\ ~Pending(Ui', {"flag"}, k)
    BY <2>4 DEF One
  <2>6. /\ Pending(Ui, {"register", "create", "flag"}, k) /\ Pending(Ui, {"flag"}, k)
        /\ ~Pending(Ui, {"hide"}, k)
    BY <2>2 DEF Two
  <2>7. k \notin m_open
    <3>1. Pending(Ui, {"publish", "register", "create", "flag"}, k)
      BY <2>2 DEF Two
    <3> QED
      BY <1>2, <3>1 DEF Opening
  <2>8. Owned(k)' /\ (Truth(k) => Truth(k)')
    <3>1. Owned(k)'
      BY <1>2, <2>1, <2>2, <2>5 DEF Owned
    <3>2. Truth(k) => Truth(k)'
      BY <2>1, <2>5, <2>6, <2>7 DEF Truth
    <3> QED
      BY <3>1, <3>2
  <2>9. \A j \in Kinds \ {k} : j \in m_open' <=> j \in m_open
    BY <2>1
  <2> QED
    BY <2>1, <2>2, <2>3, <2>4, <2>5, <2>8, <2>9, OpenStep
<1>5. CASE t = "ui" /\ Show(k)
  <2>1. /\ Has("ui", "show", k) /\ Then("ui", << >>) /\ shown' = shown \cup {k}
        /\ UNCHANGED <<m_open, publishing, page, notice, m_observers, m_submodel_initialized, frame,
                       joined, m_source_id, registered>>
    BY <1>5 DEF Show
  <2>2. /\ Ui \in OpenLists(k) /\ page /\ One(Ui, "show", k)
        /\ Ui' = << >> /\ Event' = Event
    BY <1>3, <2>1, OpensOne, OpensOn
  <2>3. /\ ~Pending(Ui', {"show"}, k) /\ ~Pending(Ui', {"close", "unflag"}, k)
        /\ ~Pending(Ui', {"publish", "register", "create", "flag"}, k)
        /\ ~Pending(Ui', {"release", "unregister", "unpublish"}, k)
        /\ ~Pending(Ui', {"register", "create", "flag"}, k) /\ ~Pending(Ui', {"flag"}, k)
    BY <2>2, Nothing
  <2>4. /\ ~Pending(Ui, {"create", "flag"}, k) /\ ~Pending(Ui, {"register", "create", "flag"}, k)
        /\ ~Pending(Ui, {"release", "unregister"}, k) /\ ~Pending(Ui, {"unpublish"}, k)
        /\ ~Pending(Ui, {"flag"}, k) /\ Pending(Ui, {"show"}, k) /\ ~Pending(Ui, {"unflag"}, k)
    BY <2>2 DEF One
  <2>5. Owned(k)' /\ (Truth(k) => Truth(k)')
    <3>1. Owned(k)'
      BY <1>2, <2>1, <2>2, <2>4 DEF Owned
    <3>2. Truth(k) => Truth(k)'
      BY <2>1, <2>3, <2>4 DEF Truth
    <3> QED
      BY <3>1, <3>2
  <2>6. \A j \in Kinds \ {k} : j \in shown' <=> j \in shown
    BY <2>1
  <2>7. Ui' \in OpenLists(k) \cup {<< >>, Undoing(k)}
    BY <2>2
  <2> QED
    BY <2>1, <2>2, <2>3, <2>5, <2>6, <2>7, OpenStep
<1> QED
  BY <1>4, <1>5

\* What a call that closes a device has to do.
LEMMA ClosingWork ==
    ASSUME NEW k \in Kinds, NEW more,
           more = <<Do("release", k), Do("unpublish", k), Do("unflag", k)>>
    PROVE  /\ more \in Seq(AnyWork)
           /\ \A words, for : Pending(more, words, for) <=>
                 for = k /\ ("release" \in words \/ "unpublish" \in words \/ "unflag" \in words)
           /\ \A word, for, words, whom :
                 word \notin {"release", "unpublish", "unflag"} \/ for # k =>
                    Awaits(more, word, for, words, whom)
           /\ Awaits(more, "unflag", k, {"release", "unregister"}, k)
           /\ Awaits(more, "unflag", k, {"unpublish"}, k)
<1> DEFINE a == <<Do("release", k), Do("unpublish", k)>>
           b == <<Do("unflag", k)>>
<1>1. {Do("release", k), Do("unpublish", k), Do("unflag", k)} \subseteq AnyWork
  BY DEF AnyWork, PlainWork, Do
<1>2. a \in Seq(AnyWork) /\ b \in Seq(AnyWork) /\ more \in Seq(AnyWork)
  BY <1>1
<1>3. Two(a, "release", k, "unpublish", k) /\ One(b, "unflag", k)
  BY OneIs, TwoIs, WorksDiffer
<1>4. more = a \o b
  <2>1. \A x, y, z : <<x>> \o <<y>> \o <<z>> = <<x, y, z>> /\ <<x>> \o <<y>> = <<x, y>>
    BY TwoTogether, ThreeTogether
  <2> QED
    BY <2>1
<1> HIDE DEF a, b
<1>5. Joins(more, a, b)
  BY <1>2, <1>4, PartsOf
<1>6. \A words, for : Pending(more, words, for) <=>
         for = k /\ ("release" \in words \/ "unpublish" \in words \/ "unflag" \in words)
  BY <1>3, <1>5 DEF Joins, One, Two
<1>7. \A word, for, words, whom :
         word \notin {"release", "unpublish", "unflag"} \/ for # k =>
            Awaits(more, word, for, words, whom)
  BY <1>3, <1>5 DEF Joins, One, Two
<1>8. /\ Awaits(more, "unflag", k, {"release", "unregister"}, k)
      /\ Awaits(more, "unflag", k, {"unpublish"}, k)
  BY <1>3, <1>5 DEF Joins, One, Two
<1> QED
  BY <1>2, <1>6, <1>7, <1>8

LEMMA UncoverMedia ==
    ASSUME CaptureIInv, MediaInv, NEW k \in Kinds, k \in m_open, CheckClose("ui", k)
    PROVE  MediaInv'
<1> DEFINE more == <<Do("release", k), Do("unpublish", k), Do("unflag", k)>>
           rest == Tail(Ui)
<1>1. Has("ui", "close", k) /\ Then("ui", more) /\ UNCHANGED <<engineVars, captureVars, pageVars>>
  BY DEF CheckClose
<1>2. more \in Seq(AnyWork) /\ (\A words, for : Pending(more, words, for) <=>
         for = k /\ ("release" \in words \/ "unpublish" \in words \/ "unflag" \in words))
  BY ClosingWork
<1>3. /\ \A word, for, words, whom :
            word \notin {"release", "unpublish", "unflag"} \/ for # k =>
               Awaits(more, word, for, words, whom)
      /\ Awaits(more, "unflag", k, {"release", "unregister"}, k)
      /\ Awaits(more, "unflag", k, {"unpublish"}, k)
  BY ClosingWork
<1> HIDE DEF more, rest
<1>4. UiGoes("close", k, more, rest)
  BY <1>1, <1>2, UiThen DEF rest
<1>5. /\ UNCHANGED <<m_open, shown, m_source_id, registered, publishing, page, notice, joined>>
      /\ UNCHANGED <<m_observers, m_submodel_initialized, m_current_meeting_id, frame>>
      /\ Event' = Event
  BY <1>1, <1>4 DEF engineVars, lifeVars, mediaVars, captureVars, managerVars, engineStateVars,
                    pageVars, lobbyVars, UiGoes
<1>6. \A words, for : Pending(Ui', words, for) <=>
         \/ Pending(rest, words, for)
         \/ for = k /\ ("release" \in words \/ "unpublish" \in words \/ "unflag" \in words)
  BY <1>2, <1>4 DEF UiGoes, Joins
<1>7. \A words, for : Pending(Ui, words, for) <=>
         Pending(rest, words, for) \/ ("close" \in words /\ for = k)
  BY <1>4 DEF UiGoes, Peels
<1>8. /\ \A j \in Kinds : ~Opens(Ui, j) /\ ~Opens(Ui', j) /\ ~Opens(rest, j)
      /\ OpeningInv'
  <2>1. \A j \in Kinds : ~Opens(more, j)
    BY <1>2 DEF Opens, OpenWork
  <2>2. "close" \notin OpenWork
    BY DEF OpenWork
  <2> QED
    BY <1>1, <1>4, <2>1, <2>2, StillClosed DEF MediaInv
<1>9. LastInv'
  <2>1. /\ \A j \in Kinds : ~Pending(more, {"list"}, j)
        /\ ~Pending(more, {"leave"}, "page") /\ ~Pending(more, {"exit"}, "page")
    BY <1>2
  <2> QED
    BY <1>1, <1>4, <2>1, StillLast DEF MediaInv
<1>10. EventInv'
  BY <1>5 DEF EventInv, MediaInv
<1>11. ASSUME NEW j \in Kinds PROVE Closing(j)'
  <2>1. Closing(j)
    BY DEF MediaInv, ClosingInv
  <2>2. \A word, for, words, whom :
           word \notin {"release", "unpublish", "unflag", "close"} \/ for # k =>
              /\ Awaits(Ui, word, for, words, whom) <=>
                    ("close" \in words /\ k = whom) \/ Awaits(rest, word, for, words, whom)
              /\ Awaits(Ui', word, for, words, whom) <=>
                    Pending(more, words, whom) \/ Awaits(rest, word, for, words, whom)
    BY <1>3, <1>4 DEF UiGoes, Peels, Joins
  <2>3. Awaits(Ui, "exit", "page", {"close", "unflag"}, j) =>
           Awaits(Ui', "exit", "page", {"close", "unflag"}, j)
    BY <1>2, <2>2
  <2>4. Awaits(Ui, "exit", "quit", {"close", "unflag"}, j) =>
           Awaits(Ui', "exit", "quit", {"close", "unflag"}, j)
    BY <1>2, <2>2
  <2>5. Awaits(Ui, "hide", j, {"close", "unflag"}, j) =>
           Awaits(Ui', "hide", j, {"close", "unflag"}, j)
    BY <1>2, <2>2
  <2>6. Awaits(Ui, "forget", "managers", {"cleanup", "snapshot"}, "meeting") =>
           Awaits(Ui', "forget", "managers", {"cleanup", "snapshot"}, "meeting")
    <3>1. "close" \notin {"cleanup", "snapshot"}
      OBVIOUS
    <3> QED
      BY <1>2, <2>2, <3>1
  <2>7. ASSUME j \in m_open, Pending(Ui', {"release", "unregister", "unpublish"}, j)
        PROVE  Pending(Ui', {"unflag"}, j)
    BY <1>6, <1>7, <2>1, <2>7 DEF Closing
  <2>8. Awaits(Ui, "unflag", j, {"release", "unregister"}, j) =>
           Awaits(Ui', "unflag", j, {"release", "unregister"}, j)
    <3>1. CASE j = k
      BY <1>2, <1>3, <1>4, <3>1 DEF UiGoes, Joins
    <3>2. CASE j # k
      BY <2>2, <3>2
    <3> QED
      BY <3>1, <3>2
  <2>9. Awaits(Ui, "unflag", j, {"unpublish"}, j) => Awaits(Ui', "unflag", j, {"unpublish"}, j)
    <3>1. CASE j = k
      BY <1>2, <1>3, <1>4, <3>1 DEF UiGoes, Joins
    <3>2. CASE j # k
      BY <2>2, <3>2
    <3> QED
      BY <3>1, <3>2
  <2> QED
    BY <1>5, <2>1, <2>3, <2>4, <2>5, <2>6, <2>7, <2>8, <2>9 DEF Closing
<1>12. ASSUME NEW j \in Kinds PROVE Owned(j)'
  <2>1. Owned(j) /\ ~Opens(Ui, j)
    BY <1>8 DEF MediaInv, OwnInv
  <2>2. /\ Pending(Ui, {"release", "unregister"}, j) => Pending(Ui', {"release", "unregister"}, j)
        /\ Pending(Ui, {"unpublish"}, j) => Pending(Ui', {"unpublish"}, j)
    BY <1>6, <1>7
  <2> QED
    BY <1>5, <2>1, <2>2 DEF Owned, Opens
<1>13. QuitInv'
  <2>1. /\ ~Pending(more, {"leave"}, "page") /\ ~Pending(more, {"leave", "exit"}, "quit")
        /\ ~Pending(more, {"uninit"}, "engine") /\ ~Pending(more, {"forget"}, "managers")
        /\ ~Pending(more, {"cleanup", "snapshot"}, "meeting")
    BY <1>2
  <2> QED
    BY <1>4, <1>5, <2>1, StillQuits DEF MediaInv
<1>14. TruthInv'
  <2>1. Doomed => Doomed'
    <3>1. Exiting => Exiting'
      BY <1>6, <1>7 DEF Exiting
    <3>2. Leaving' => Leaving
      BY <1>6, <1>7 DEF Leaving
    <3> QED
      BY <1>5, <3>1, <3>2 DEF Doomed, Gone
  <2>2. ASSUME NEW j \in Kinds, Truth(j) PROVE Truth(j)'
    <3>1. ~Opens(Ui', j)
      BY <1>8
    <3>2. CASE j = k
      <4>1. Pending(Ui', {"unflag"}, k) /\ Pending(Ui, {"close", "unflag"}, k)
        BY <1>6, <1>7
      <4>2. Pending(Ui, {"hide"}, k) => Pending(Ui', {"hide"}, k)
        BY <1>6, <1>7
      <4> QED
        BY <1>5, <2>2, <3>1, <3>2, <4>1, <4>2 DEF Truth, Opens
    <3>3. CASE j # k
      <4>1. \A words : Pending(Ui', words, j) <=> Pending(Ui, words, j)
        BY <1>6, <1>7, <3>3
      <4> QED
        BY <1>5, <2>2, <3>1, <4>1 DEF Truth, Opens
    <3> QED
      BY <3>2, <3>3
  <2> QED
    BY <2>1, <2>2 DEF TruthInv, MediaInv
<1>15. FrameInvariant'
  <2>1. Pending(Ui', {"room"}, "meeting") => Pending(Ui, {"room"}, "meeting")
    BY <1>6, <1>7
  <2> QED
    BY <1>5, <2>1, StillFits DEF MediaInv
<1> QED
  BY <1>8, <1>9, <1>10, <1>11, <1>12, <1>13, <1>14, <1>15 DEF MediaInv, ClosingInv, OwnInv

\* What a meeting leaves to be closed.
Remains ==
    (IF "camera" \in m_open THEN <<Do("release", "camera")>> ELSE << >>)
    \o (IF "mic" \in m_open THEN <<Do("release", "mic")>> ELSE << >>)
    \o <<Do("unpublish", "camera"), Do("unpublish", "mic")>>

LEMMA RemainsAre ==
    /\ Remains \in Seq(EventWork) /\ Remains \in Seq(AnyWork)
    /\ \A words, for : Pending(Remains, words, for) <=>
          /\ for \in Kinds
          /\ ("release" \in words /\ for \in m_open) \/ "unpublish" \in words
    /\ \A word, for, words, whom : word \notin {"release", "unpublish"} =>
          Awaits(Remains, word, for, words, whom)
<1> DEFINE a == IF "camera" \in m_open THEN <<Do("release", "camera")>> ELSE << >>
           b == IF "mic" \in m_open THEN <<Do("release", "mic")>> ELSE << >>
           c == <<Do("unpublish", "camera"), Do("unpublish", "mic")>>
           S == {"release", "unpublish"} \X Kinds
<1>1. /\ Do("release", "camera") \in S /\ Do("release", "mic") \in S
      /\ Do("unpublish", "camera") \in S /\ Do("unpublish", "mic") \in S
  BY DEF Do, Kinds
<1>2. S \subseteq EventWork
  BY DEF EventWork
<1>3. Kinds = {"camera", "mic"}
  BY DEF Kinds
<1> HIDE DEF S
<1>4. a \in Seq(S) /\ b \in Seq(S) /\ c \in Seq(S)
  BY <1>1
<1>5. /\ \A words, for : Pending(a, words, for) <=>
            "camera" \in m_open /\ "release" \in words /\ for = "camera"
      /\ \A words, for : Pending(b, words, for) <=>
            "mic" \in m_open /\ "release" \in words /\ for = "mic"
  BY OneIs, Nothing DEF One
<1>6. Two(c, "unpublish", "camera", "unpublish", "mic")
  BY TwoIs, WorksDiffer
<1>7. \A words, for : Pending(c, words, for) <=> for \in Kinds /\ "unpublish" \in words
  BY <1>3, <1>6 DEF Two
<1>8. \A word, for, words, whom : word \notin {"release", "unpublish"} =>
         Awaits(a, word, for, words, whom) /\ Awaits(b, word, for, words, whom)
  BY OneIs, Nothing DEF One
<1>9. \A word, for, words, whom : word \notin {"release", "unpublish"} =>
         Awaits(c, word, for, words, whom)
  BY <1>6 DEF Two
<1> HIDE DEF a, b, c
<1>10. Joins(a \o b, a, b) /\ a \o b \in Seq(S)
  BY <1>4, PartsOf, ConcatProperties
<1>11. Joins(a \o b \o c, a \o b, c) /\ a \o b \o c \in Seq(S)
  BY <1>4, <1>10, PartsOf, ConcatProperties
<1>12. Remains = a \o b \o c
  BY DEF Remains, a, b, c
<1> DEFINE ab == a \o b
<1> HIDE DEF ab
<1>13. Joins(ab, a, b) /\ Joins(Remains, ab, c) /\ Remains \in Seq(S)
  BY <1>10, <1>11, <1>12 DEF ab
<1>14. \A words, for : Pending(Remains, words, for) <=>
          /\ for \in Kinds
          /\ ("release" \in words /\ for \in m_open) \/ "unpublish" \in words
  BY <1>3, <1>5, <1>7, <1>13 DEF Joins
<1>15. \A word, for, words, whom : word \notin {"release", "unpublish"} =>
          Awaits(Remains, word, for, words, whom)
  BY <1>8, <1>9, <1>13 DEF Joins
<1>16. Remains \in Seq(EventWork) /\ Remains \in Seq(AnyWork)
  <2>1. S \subseteq AnyWork
    BY <1>2, WorkIsAny
  <2> QED
    BY <1>2, <1>13, <2>1, SeqMonotonic, Zenon
<1> QED
  BY <1>14, <1>15, <1>16

\* The page ends a meeting.
LEMMA SnapshotMedia ==
    ASSUME CaptureIInv, MediaInv, Snapshot("ui")
    PROVE  MediaInv'
<1> DEFINE more == Remains
           rest == Tail(Ui)
<1>1. /\ Has("ui", "snapshot", "meeting") /\ Then("ui", more)
      /\ m_open' = {} /\ m_current_meeting_id' = 0
      /\ UNCHANGED <<lifeVars, publishing, captureVars, pageVars>>
  BY DEF Snapshot, Remains
<1>2. /\ more \in Seq(AnyWork)
      /\ \A words, for : Pending(more, words, for) <=>
            /\ for \in Kinds
            /\ ("release" \in words /\ for \in m_open) \/ "unpublish" \in words
      /\ \A word, for, words, whom : word \notin {"release", "unpublish"} =>
            Awaits(more, word, for, words, whom)
  BY RemainsAre
<1> HIDE DEF more, rest
<1>3. UiGoes("snapshot", "meeting", more, rest)
  BY <1>1, <1>2, UiThen DEF rest
<1>4. /\ UNCHANGED <<shown, m_source_id, registered, publishing, page, notice, joined>>
      /\ UNCHANGED <<m_observers, m_submodel_initialized, frame>> /\ Event' = Event
  BY <1>1, <1>3 DEF lifeVars, captureVars, managerVars, engineStateVars, pageVars, lobbyVars, UiGoes
<1>5. \A words, for : Pending(Ui', words, for) <=>
         \/ Pending(rest, words, for)
         \/ for \in Kinds /\ (("release" \in words /\ for \in m_open) \/ "unpublish" \in words)
  BY <1>2, <1>3 DEF UiGoes, Joins
<1>6. \A words, for : Pending(Ui, words, for) <=>
         Pending(rest, words, for) \/ ("snapshot" \in words /\ for = "meeting")
  BY <1>3 DEF UiGoes, Peels
<1>7. /\ \A k \in Kinds : ~Opens(Ui, k) /\ ~Opens(Ui', k) /\ ~Opens(rest, k)
      /\ OpeningInv'
  <2>1. \A k \in Kinds : ~Opens(more, k)
    BY <1>2 DEF Opens, OpenWork
  <2>2. "snapshot" \notin OpenWork
    BY DEF OpenWork
  <2> QED
    BY <1>1, <1>3, <2>1, <2>2, StillClosed DEF MediaInv
<1>8. "meeting" \notin Kinds /\ "page" \notin Kinds /\ "quit" \notin Kinds
      /\ "engine" \notin Kinds /\ "managers" \notin Kinds
  BY DEF Kinds
<1>9. LastInv'
  <2>1. /\ \A k \in Kinds : ~Pending(more, {"list"}, k)
        /\ ~Pending(more, {"leave"}, "page") /\ ~Pending(more, {"exit"}, "page")
    BY <1>2
  <2> QED
    BY <1>1, <1>3, <2>1, StillLast DEF MediaInv
<1>10. EventInv'
  BY <1>4 DEF EventInv, MediaInv
<1>11. ASSUME NEW k \in Kinds PROVE Closing(k)'
  <2>1. Closing(k)
    BY DEF MediaInv, ClosingInv
  <2>2. \A words, whom : "snapshot" \notin words =>
           (Awaits(Ui, "unflag", k, words, whom) => Awaits(Ui', "unflag", k, words, whom))
    BY <1>2, <1>3 DEF UiGoes, Peels, Joins
  <2> QED
    BY <1>1, <1>4, <2>1, <2>2 DEF Closing
<1>12. ASSUME NEW k \in Kinds PROVE Owned(k)'
  <2>1. Owned(k) /\ ~Opens(Ui, k)
    BY <1>7 DEF MediaInv, OwnInv
  <2>2. /\ Pending(Ui, {"release", "unregister"}, k) \/ k \in m_open =>
              Pending(Ui', {"release", "unregister"}, k)
        /\ Pending(Ui', {"unpublish"}, k)
    BY <1>5, <1>6
  <2> QED
    BY <1>1, <1>4, <2>1, <2>2 DEF Owned, Opens
<1>13. QuitInv'
  <2>1. /\ ~Pending(more, {"leave"}, "page") /\ ~Pending(more, {"leave", "exit"}, "quit")
        /\ ~Pending(more, {"uninit"}, "engine") /\ ~Pending(more, {"forget"}, "managers")
        /\ ~Pending(more, {"cleanup", "snapshot"}, "meeting")
    BY <1>2
  <2> QED
    BY <1>3, <1>4, <2>1, StillQuits DEF MediaInv
<1>14. TruthInv'
  <2>1. ~page \/ ~m_observers \/ Gone
    <3>1. Pending(Ui, {"cleanup", "snapshot"}, "meeting")
      BY <1>6
    <3> QED
      BY <3>1 DEF QuitInv, MediaInv
  <2>2. Gone => Gone'
    <3>1. Exiting => Exiting'
      BY <1>5, <1>6 DEF Exiting
    <3>2. Leaving' => Leaving
      BY <1>5, <1>6, <1>8 DEF Leaving
    <3> QED
      BY <3>1, <3>2 DEF Gone
  <2>3. ASSUME NEW k \in Kinds, ~page PROVE Truth(k)'
    <3>1. k \notin shown
      BY <2>3 DEF OwnInv, Owned, MediaInv
    <3> QED
      BY <1>1, <1>4, <1>7, <3>1 DEF Truth, Opens
  <2> QED
    BY <1>4, <2>1, <2>2, <2>3 DEF TruthInv, Doomed
<1>15. FrameInvariant'
  <2>1. Pending(Ui', {"room"}, "meeting") => Pending(Ui, {"room"}, "meeting")
    BY <1>5, <1>6
  <2> QED
    BY <1>1, <1>4, <2>1, StillFits DEF MediaInv
<1> QED
  BY <1>7, <1>9, <1>10, <1>11, <1>12, <1>13, <1>14, <1>15 DEF MediaInv, ClosingInv, OwnInv

-----------------------------------------------------------------------------
(* A meeting is left, and the client ends.                                  *)

\* The server does not let the page leave: nothing had been left open.
LEMMA StayMedia ==
    ASSUME CaptureIInv, MediaInv, LeaveRefused("page")
    PROVE  MediaInv'
<1> DEFINE rest == Tail(Ui)
<1>1. /\ Has("ui", "leave", "page") /\ Starts("ui", << >>)
      /\ UNCHANGED <<engineVars, captureVars, pageVars>>
  BY DEF LeaveRefused
<1>2. Ui' = << >> /\ Event' = Event
  BY <1>1, UiStarts
<1>3. Peels(Ui, "leave", "page", rest)
  <2>1. Ui \in Seq(AnyWork) /\ Ui # << >> /\ Head(Ui) = Do("leave", "page")
        /\ << >> \in Seq(AnyWork)
    BY <1>1, UiIsAny DEF Has, Idle, Ui
  <2> QED
    BY <2>1, Goes
<1>4. One(rest, "exit", "page")
  <2>1. rest = <<Do("exit", "page")>>
    BY <1>3 DEF Peels, LastInv, MediaInv
  <2> QED
    BY <2>1, OneIs
<1> HIDE DEF rest
<1>5. /\ UNCHANGED <<shown, m_source_id, registered, publishing, page, notice, joined, m_open>>
      /\ UNCHANGED <<m_observers, m_submodel_initialized, m_current_meeting_id, frame>>
  BY <1>1 DEF engineVars, lifeVars, mediaVars, captureVars, managerVars, engineStateVars, pageVars,
              lobbyVars
<1>6. \A words, for : Pending(Ui, words, for) <=>
         ("leave" \in words \/ "exit" \in words) /\ for = "page"
  BY <1>3, <1>4 DEF Peels, One
<1>7. ASSUME NEW k \in Kinds
      PROVE  /\ ~Opens(Ui, k) /\ ~Opens(Ui', k) /\ k \notin m_open
             /\ \A words : ~Pending(Ui, words, k)
  <2>1. k # "page"
    BY DEF Kinds
  <2>2. ~Opens(Ui, k) /\ ~Opens(Ui', k) /\ \A words : ~Pending(Ui, words, k)
    BY <1>2, <1>6, <2>1, Nothing DEF Opens
  <2>3. ~Awaits(Ui, "exit", "page", {"close", "unflag"}, k)
    BY <1>3, <1>4 DEF Peels, One
  <2> QED
    BY <2>2, <2>3 DEF MediaInv, ClosingInv, Closing
<1>8. ASSUME NEW k \in Kinds PROVE Opening(k)' /\ Closing(k)'
  BY <1>2, <1>5, <1>7, Nothing DEF Opening, Closing
<1>9. ASSUME NEW k \in Kinds PROVE Owned(k)'
  <2>1. Owned(k)
    BY DEF MediaInv, OwnInv
  <2> QED
    BY <1>2, <1>5, <1>7, <2>1 DEF Owned
<1>10. LastInv' /\ EventInv'
  BY <1>2, Nothing DEF LastInv, EventInv, MediaInv
<1>11. m_observers /\ ~Gone
  <2>1. Leaving
    BY <1>6 DEF Leaving
  <2> QED
    BY <2>1 DEF QuitInv, Gone, MediaInv
<1>12. QuitInv'
  BY <1>2, <1>5, <1>11, Nothing DEF QuitInv, Leaving, MediaInv
<1>13. TruthInv'
  <2>1. Doomed => Doomed'
    BY <1>2, <1>5, <1>11 DEF Doomed
  <2>2. ASSUME NEW k \in Kinds, Truth(k) PROVE Truth(k)'
    BY <1>2, <1>5, <1>7, <2>2, Nothing DEF Truth
  <2> QED
    BY <2>1, <2>2 DEF TruthInv, MediaInv
<1>14. FrameInvariant'
  <2>1. ~Pending(Ui', {"room"}, "meeting")
    BY <1>2, Nothing
  <2> QED
    BY <1>5, <2>1, StillFits DEF MediaInv
<1> QED
  BY <1>8, <1>9, <1>10, <1>12, <1>13, <1>14 DEF MediaInv, OpeningInv, ClosingInv, OwnInv

\* The works that may follow when a meeting or the client ends.
EndWork == {"join", "cleanup", "forget"}

LEMMA GoesOn ==
    ASSUME MediaInv, NEW w \in {"leave", "uninit"}, NEW j, NEW more, NEW rest, Has("ui", w, j),
           UiGoes(w, j, more, rest),
           \A words, for : EndWork \cap words = {} => ~Pending(more, words, for),
           \A word, for, words, whom : word \notin EndWork => Awaits(more, word, for, words, whom),
           Awaits(more, "forget", "managers", {"cleanup", "snapshot"}, "meeting"),
           UNCHANGED <<page, notice, m_observers, m_open, shown, m_source_id, registered,
                       publishing>>
    PROVE  OpeningInv' /\ EventInv' /\ ClosingInv' /\ LastInv' /\ OwnInv' /\ TruthInv'
<1>1. \A words, for : Pending(Ui', words, for) <=>
         Pending(more, words, for) \/ Pending(rest, words, for)
  BY DEF UiGoes, Joins
<1>2. \A words, for : Pending(Ui, words, for) <=>
         Pending(rest, words, for) \/ (w \in words /\ for = j)
  BY DEF UiGoes, Peels
<1>3. \A words, for : EndWork \cap words = {} /\ w \notin words =>
         (Pending(Ui', words, for) <=> Pending(Ui, words, for))
  BY <1>1, <1>2
<1>4. \A word, for, words, whom :
         word \notin EndWork /\ word # w /\ w \notin words
            => (Awaits(Ui, word, for, words, whom) => Awaits(Ui', word, for, words, whom))
  BY DEF UiGoes, Peels, Joins
<1>5. Awaits(Ui, "forget", "managers", {"cleanup", "snapshot"}, "meeting") =>
         Awaits(Ui', "forget", "managers", {"cleanup", "snapshot"}, "meeting")
  <2>1. w \notin {"cleanup", "snapshot"}
    OBVIOUS
  <2> QED
    BY <2>1 DEF UiGoes, Peels, Joins
<1>6. /\ EndWork \cap {"list"} = {} /\ EndWork \cap {"leave"} = {} /\ EndWork \cap {"exit"} = {}
      /\ EndWork \cap {"hide"} = {} /\ EndWork \cap {"unflag"} = {}
      /\ EndWork \cap {"close", "unflag"} = {} /\ EndWork \cap {"release", "unregister"} = {}
      /\ EndWork \cap {"unpublish"} = {}
      /\ EndWork \cap {"release", "unregister", "unpublish"} = {}
      /\ EndWork \cap OpenWork = {} /\ w \notin OpenWork
      /\ "exit" \notin EndWork /\ "hide" \notin EndWork /\ "unflag" \notin EndWork
  BY DEF EndWork, OpenWork
<1>7. /\ \A k \in Kinds : ~Opens(Ui, k) /\ ~Opens(Ui', k) /\ ~Opens(rest, k)
      /\ OpeningInv'
  <2>1. \A k \in Kinds : ~Opens(more, k)
    BY <1>6, OpensWorks
  <2> QED
    BY <1>6, <2>1, StillClosed DEF MediaInv
<1>8. LastInv'
  <2>1. /\ \A k \in Kinds : ~Pending(more, {"list"}, k)
        /\ ~Pending(more, {"leave"}, "page") /\ ~Pending(more, {"exit"}, "page")
    BY <1>6
  <2>2. w # "list"
    OBVIOUS
  <2> QED
    BY <2>1, <2>2, StillLast DEF MediaInv
<1>9. EventInv' /\ Event' = Event
  BY DEF UiGoes, EventInv, MediaInv
<1>10. ASSUME NEW k \in Kinds
       PROVE  /\ Awaits(Ui, "exit", "page", {"close", "unflag"}, k) =>
                    Awaits(Ui', "exit", "page", {"close", "unflag"}, k)
              /\ Awaits(Ui, "exit", "quit", {"close", "unflag"}, k) =>
                    Awaits(Ui', "exit", "quit", {"close", "unflag"}, k)
              /\ Awaits(Ui, "hide", k, {"close", "unflag"}, k) =>
                    Awaits(Ui', "hide", k, {"close", "unflag"}, k)
              /\ Awaits(Ui, "unflag", k, {"release", "unregister"}, k) =>
                    Awaits(Ui', "unflag", k, {"release", "unregister"}, k)
              /\ Awaits(Ui, "unflag", k, {"unpublish"}, k) =>
                    Awaits(Ui', "unflag", k, {"unpublish"}, k)
  BY <1>4, <1>6
<1>11. ASSUME NEW k \in Kinds
       PROVE  /\ Pending(Ui', {"unflag"}, k) <=> Pending(Ui, {"unflag"}, k)
              /\ Pending(Ui', {"hide"}, k) <=> Pending(Ui, {"hide"}, k)
              /\ Pending(Ui', {"close", "unflag"}, k) <=> Pending(Ui, {"close", "unflag"}, k)
              /\ Pending(Ui', {"release", "unregister"}, k) <=>
                    Pending(Ui, {"release", "unregister"}, k)
              /\ Pending(Ui', {"unpublish"}, k) <=> Pending(Ui, {"unpublish"}, k)
              /\ Pending(Ui', {"release", "unregister", "unpublish"}, k) <=>
                    Pending(Ui, {"release", "unregister", "unpublish"}, k)
  BY <1>3, <1>6
<1>12. ASSUME NEW k \in Kinds PROVE Closing(k)'
  <2>1. Closing(k)
    BY DEF MediaInv, ClosingInv
  <2> QED
    BY <1>5, <1>10, <1>11, <2>1 DEF Closing
<1>13. ASSUME NEW k \in Kinds PROVE Owned(k)'
  <2>1. Owned(k) /\ ~Opens(Ui, k)
    BY <1>7 DEF MediaInv, OwnInv
  <2> QED
    BY <1>9, <1>11, <2>1 DEF Owned, Opens
<1>14. TruthInv'
  <2>1. Doomed => Doomed'
    <3>1. Exiting => Exiting'
      BY <1>3, <1>6 DEF Exiting
    <3>2. Leaving' => Leaving
      BY <1>1, <1>2, <1>6 DEF Leaving
    <3> QED
      BY <1>9, <3>1, <3>2 DEF Doomed, Gone
  <2>2. ASSUME NEW k \in Kinds, Truth(k) PROVE Truth(k)'
    <3>1. ~Opens(Ui', k)
      BY <1>7
    <3> QED
      BY <1>11, <2>2, <3>1 DEF Truth, Opens
  <2> QED
    BY <2>1, <2>2 DEF TruthInv, MediaInv
<1> QED
  BY <1>7, <1>8, <1>9, <1>12, <1>13, <1>14 DEF ClosingInv, OwnInv

\* The engine forgets the meeting: the server has agreed, or the client ends.
LEMMA LeaveMedia ==
    ASSUME CaptureIInv, MediaInv,
           LeaveAgreed("page") \/ LeaveAgreed("quit") \/ Uninit
    PROVE  MediaInv'
<1> USE DEF engineVars, lifeVars, mediaVars, captureVars, managerVars, engineStateVars, pageVars,
            lobbyVars
<1>1. UNCHANGED <<page, notice, m_observers, m_open, shown, m_source_id, registered, publishing,
                  joined, frame, m_current_meeting_id>>
      /\ (Uninit => ~m_submodel_initialized')
      /\ (~Uninit => m_submodel_initialized' = m_submodel_initialized)
  BY DEF LeaveAgreed, Uninit
<1>2. PICK w, j, v, i, u, x :
         /\ Has("ui", w, j) /\ Then("ui", <<Do(v, i), Do(u, x)>>)
         /\ \/ w = "leave" /\ j \in {"page", "quit"} /\ v = "join" /\ i = "thread"
               /\ u = "cleanup" /\ x = "meeting" /\ ~Uninit
            \/ w = "uninit" /\ j = "engine" /\ v = "cleanup" /\ i = "meeting"
               /\ u = "forget" /\ x = "managers" /\ Uninit
  <2>1. ~(Uninit /\ \E j \in {"page", "quit"} : LeaveAgreed(j))
    BY WorksDiffer DEF Uninit, LeaveAgreed, Has
  <2> QED
    BY <2>1 DEF Uninit, LeaveAgreed
<1> DEFINE more == <<Do(v, i), Do(u, x)>>
           rest == Tail(Ui)
<1>3. more \in Seq(AnyWork) /\ Two(more, v, i, u, x)
  <2>1. Do(v, i) \in AnyWork /\ Do(u, x) \in AnyWork
    <3>1. Do("forget", "managers") \in Forgets
      BY DEF Forgets
    <3> QED
      BY <1>2, <3>1, Calls DEF AnyWork, CallWork
  <2>2. Two(more, v, i, u, x)
    BY <1>2, TwoIs, WorksDiffer
  <2> QED
    BY <2>1, <2>2
<1> HIDE DEF more, rest
<1>4. UiGoes(w, j, more, rest)
  BY <1>2, <1>3, UiThen DEF more, rest
<1>5. /\ \A words, for : EndWork \cap words = {} => ~Pending(more, words, for)
      /\ \A word, for, words, whom : word \notin EndWork => Awaits(more, word, for, words, whom)
      /\ Awaits(more, "forget", "managers", {"cleanup", "snapshot"}, "meeting")
  <2>1. v \in EndWork /\ u \in EndWork
    BY <1>2 DEF EndWork
  <2>2. \A words, for : EndWork \cap words = {} => ~Pending(more, words, for)
    BY <1>3, <2>1 DEF Two
  <2>3. \A word, for, words, whom : word \notin EndWork => Awaits(more, word, for, words, whom)
    BY <1>3, <2>1 DEF Two
  <2>4. Awaits(more, "forget", "managers", {"cleanup", "snapshot"}, "meeting")
    BY <1>2, <1>3 DEF Two
  <2> QED
    BY <2>2, <2>3, <2>4
<1>6. OpeningInv' /\ EventInv' /\ ClosingInv' /\ LastInv' /\ OwnInv' /\ TruthInv'
  BY <1>1, <1>2, <1>4, <1>5, GoesOn
<1>7. /\ \A words, for : Pending(Ui', words, for) <=>
            Pending(more, words, for) \/ Pending(rest, words, for)
      /\ \A words, for : Pending(Ui, words, for) <=>
            Pending(rest, words, for) \/ (w \in words /\ for = j)
  BY <1>4 DEF UiGoes, Peels, Joins
<1>8. /\ \A words, for : Pending(more, words, for) <=>
            (v \in words /\ for = i) \/ (u \in words /\ for = x)
      /\ Exiting' <=> Exiting
  <2>1. \A words, for : Pending(more, words, for) <=>
            (v \in words /\ for = i) \/ (u \in words /\ for = x)
    BY <1>3 DEF Two
  <2> QED
    BY <1>2, <1>7, <2>1 DEF Exiting
<1>9. QuitInv'
  <2>1. CASE w = "leave"
    <3>1. /\ Pending(Ui', {"uninit", "observe"}, "engine") <=>
                Pending(Ui, {"uninit", "observe"}, "engine")
          /\ Pending(Ui', {"leave", "exit"}, "quit") => Pending(Ui, {"leave", "exit"}, "quit")
          /\ Pending(Ui', {"uninit"}, "engine") => Pending(Ui, {"uninit"}, "engine")
          /\ Pending(Ui', {"forget"}, "managers") => Pending(Ui, {"forget"}, "managers")
          /\ Pending(Ui', {"leave"}, "page") => Pending(Ui, {"leave"}, "page")
      BY <1>2, <1>7, <1>8, <2>1
    <3>2. ~m_observers \/ Gone'
      <4>1. CASE j = "quit"
        <5>1. Pending(Ui, {"leave", "exit"}, "quit")
          BY <1>7, <2>1, <4>1
        <5> QED
          BY <5>1 DEF QuitInv, MediaInv
      <4>2. CASE j = "page"
        <5>1. One(rest, "exit", "page")
          <6>1. rest = <<Do("exit", "page")>>
            BY <1>4, <2>1, <4>2 DEF UiGoes, Peels, LastInv, MediaInv
          <6> QED
            BY <6>1, OneIs
        <5>2. Exiting' /\ ~Leaving'
          BY <1>2, <1>7, <1>8, <2>1, <5>1 DEF One, Exiting, Leaving
        <5> QED
          BY <5>2 DEF Gone
      <4> QED
        BY <1>2, <2>1, <4>1, <4>2
    <3>3. m_submodel_initialized' = m_submodel_initialized
      BY <1>1, <1>2, <2>1
    <3> QED
      BY <1>1, <1>8, <3>1, <3>2, <3>3 DEF QuitInv, Leaving, MediaInv
  <2>2. CASE w = "uninit"
    <3>1. ~m_observers /\ ~m_submodel_initialized'
      <4>1. Pending(Ui, {"uninit"}, "engine")
        BY <1>2, <1>7, <2>2
      <4> QED
        BY <1>1, <1>2, <2>2, <4>1 DEF QuitInv, MediaInv
    <3>2. Pending(Ui', {"leave"}, "page") => Pending(Ui, {"leave"}, "page")
      BY <1>2, <1>7, <1>8, <2>2
    <3> QED
      BY <1>1, <1>8, <3>1, <3>2 DEF QuitInv, Leaving, MediaInv
  <2> QED
    BY <1>2, <2>1, <2>2
<1>10. FrameInvariant'
  <2>1. Pending(Ui', {"room"}, "meeting") => Pending(Ui, {"room"}, "meeting")
    BY <1>2, <1>7, <1>8
  <2>2. Event' = Event
    BY <1>4 DEF UiGoes
  <2> QED
    BY <1>1, <2>1, <2>2, StillFits DEF MediaInv
<1> QED
  BY <1>6, <1>9, <1>10 DEF MediaInv

\* The server does not let the client leave, which ends all the same.
LEMMA RefusedMedia ==
    ASSUME CaptureIInv, MediaInv, LeaveRefused("quit")
    PROVE  MediaInv'
<1> DEFINE rest == Tail(Ui)
<1>1. /\ Has("ui", "leave", "quit") /\ Then("ui", << >>)
      /\ UNCHANGED <<engineVars, captureVars, pageVars>>
  BY DEF LeaveRefused
<1>2. UiGoes("leave", "quit", << >>, rest)
  <2>1. << >> \in Seq(AnyWork)
    OBVIOUS
  <2> QED
    BY <1>1, <2>1, UiThen
<1> HIDE DEF rest
<1>3. /\ UNCHANGED <<shown, m_source_id, registered, publishing, page, notice, joined, m_open>>
      /\ UNCHANGED <<m_observers, m_submodel_initialized, m_current_meeting_id, frame>>
      /\ Event' = Event
  BY <1>1, <1>2 DEF engineVars, lifeVars, mediaVars, captureVars, managerVars, engineStateVars,
              pageVars, lobbyVars, UiGoes
<1>4. OpeningInv' /\ EventInv' /\ ClosingInv' /\ LastInv' /\ OwnInv' /\ TruthInv'
  <2>1. Reduces("leave", "quit")
    BY <1>3 DEF Reduces
  <2>2. "leave" \notin OpenWork
    BY DEF OpenWork
  <2> QED
    BY <1>1, <1>2, <2>1, <2>2, TakesOff
<1>5. \A words, for : Pending(Ui, words, for) <=>
         ("leave" \in words /\ for = "quit") \/ Pending(Ui', words, for)
  BY <1>2 DEF UiGoes, Peels
<1>6. QuitInv'
  <2>1. /\ Pending(Ui', {"uninit", "observe"}, "engine") <=>
              Pending(Ui, {"uninit", "observe"}, "engine")
        /\ Pending(Ui', {"exit"}, "page") <=> Pending(Ui, {"exit"}, "page")
        /\ Pending(Ui', {"exit"}, "quit") <=> Pending(Ui, {"exit"}, "quit")
        /\ Pending(Ui', {"leave"}, "page") <=> Pending(Ui, {"leave"}, "page")
        /\ Pending(Ui, {"leave", "exit"}, "quit")
    BY <1>5
  <2> QED
    BY <1>3, <2>1 DEF QuitInv, Exiting, Leaving, MediaInv
<1>7. FrameInvariant'
  BY <1>3, <1>5, StillFits DEF MediaInv
<1> QED
  BY <1>4, <1>6, <1>7 DEF MediaInv

\* The page of the meeting is left.
LEMMA ExitMedia ==
    ASSUME CaptureIInv, MediaInv, NEW purpose \in {"page", "quit"}, Exit(purpose)
    PROVE  MediaInv'
<1> DEFINE rest == Tail(Ui)
<1>1. PICK more \in {<< >>, ListDevices} :
         /\ Has("ui", "exit", purpose) /\ Then("ui", more) /\ page' = FALSE /\ shown' = {}
         /\ more = IF purpose = "page" THEN ListDevices ELSE << >>
  BY DEF Exit
<1>2. more \in Seq(AnyWork)
  <2>1. Do("list", "camera") \in AnyWork /\ Do("list", "mic") \in AnyWork
    BY DEF AnyWork, PlainWork, Kinds, Do
  <2>2. ListDevices \in Seq(AnyWork) /\ << >> \in Seq(AnyWork)
    BY <2>1 DEF ListDevices
  <2> QED
    BY <2>2
<1>3. UiGoes("exit", purpose, more, rest)
  BY <1>1, <1>2, UiThen
<1> HIDE DEF rest
<1>4. /\ UNCHANGED <<m_source_id, registered, publishing, notice, joined, m_open>>
      /\ UNCHANGED <<m_observers, m_submodel_initialized, m_current_meeting_id, frame>>
      /\ Event' = Event
  BY <1>3 DEF Exit, engineVars, lifeVars, mediaVars, captureVars, managerVars, engineStateVars,
              UiGoes
<1>5. /\ \A words, for : Pending(Ui, words, for) <=>
            ("exit" \in words /\ for = purpose) \/ Pending(rest, words, for)
      /\ \A words, for : Pending(Ui', words, for) <=>
            Pending(more, words, for) \/ Pending(rest, words, for)
      /\ \A word, for, words, whom : Awaits(Ui, word, for, words, whom) =>
            ~("exit" = word /\ purpose = for)
      /\ \A word, for, words, whom :
            Awaits(Ui, word, for, words, whom) /\ "exit" \notin words
               /\ Awaits(more, word, for, words, whom) => Awaits(Ui', word, for, words, whom)
  BY <1>3 DEF UiGoes, Peels, Joins
<1>6. m_open = {} /\ m_open' = {}
  <2>1. ASSUME NEW k \in Kinds PROVE k \notin m_open
    BY <1>5 DEF MediaInv, ClosingInv, Closing
  <2> QED
    BY <1>4, <2>1 DEF CaptureIInv, TypeInv, MediaTypeOK
<1>7. /\ \A words, for : "list" \notin words => ~Pending(more, words, for)
      /\ \A words, for : for \notin Kinds => ~Pending(more, words, for)
      /\ \A word, for, words, whom : word # "list" => Awaits(more, word, for, words, whom)
      /\ \A word, for : word # "list" => Final(more, word, for)
      /\ LeavesLast(more)
  <2>1. CASE more = << >>
    BY <2>1, Nothing
  <2>2. CASE more = ListDevices
    <3>1. Two(more, "list", "camera", "list", "mic")
      BY <2>2, TwoIs, WorksDiffer DEF ListDevices
    <3> QED
      BY <3>1 DEF Two, Kinds
  <2> QED
    BY <1>1, <2>1, <2>2
<1>8. ASSUME NEW k \in Kinds
      PROVE  /\ ~Opens(Ui, k) /\ ~Opens(Ui', k)
             /\ Pending(Ui, {"release", "unregister"}, k) =>
                   Pending(Ui', {"release", "unregister"}, k)
             /\ Pending(Ui, {"unpublish"}, k) => Pending(Ui', {"unpublish"}, k)
             /\ Awaits(Ui, "unflag", k, {"release", "unregister"}, k) =>
                   Awaits(Ui', "unflag", k, {"release", "unregister"}, k)
             /\ Awaits(Ui, "unflag", k, {"unpublish"}, k) =>
                   Awaits(Ui', "unflag", k, {"unpublish"}, k)
  <2>1. ~Opens(Ui, k) /\ ~Opens(Ui', k)
    <3>1. "exit" \notin OpenWork
      BY DEF OpenWork
    <3>2. ~Opens(more, k)
      BY <1>7 DEF Opens, OpenWork
    <3>3. \A j \in Kinds : ~Opens(Ui, j)
      BY <1>1, <3>1, NotOpening DEF MediaInv
    <3> QED
      BY <1>5, <3>2, <3>3, OpensWorks
  <2> QED
    BY <1>5, <1>7, <2>1
<1>9. OpeningInv' /\ EventInv' /\ ClosingInv' /\ OwnInv' /\ TruthInv'
  BY <1>1, <1>4, <1>6, <1>8, NothingOpen
<1>10. LastInv'
  <2>1. CASE purpose = "page"
    <3>1. rest = << >>
      BY <1>3, <2>1 DEF UiGoes, Peels, LastInv, MediaInv
    <3>2. more \o << >> = more
      BY <1>2
    <3>3. Ui' = more
      BY <1>3, <3>1, <3>2 DEF UiGoes
    <3> QED
      BY <1>1, <1>7, <2>1, <3>3 DEF LastInv
  <2>2. CASE purpose = "quit"
    <3>1. more = << >>
      BY <1>1, <2>2
    <3> QED
      BY <1>1, <1>3, <3>1, Nothing, StillLast DEF MediaInv
  <2> QED
    BY <2>1, <2>2
<1>11. QuitInv'
  <2>1. /\ Pending(Ui', {"uninit", "observe"}, "engine") <=>
              Pending(Ui, {"uninit", "observe"}, "engine")
        /\ Pending(Ui', {"leave", "exit"}, "quit") => Pending(Ui, {"leave", "exit"}, "quit")
        /\ Pending(Ui', {"uninit"}, "engine") => Pending(Ui, {"uninit"}, "engine")
        /\ Pending(Ui', {"forget"}, "managers") => Pending(Ui, {"forget"}, "managers")
        /\ Pending(Ui', {"leave"}, "page") => Pending(Ui, {"leave"}, "page")
    BY <1>5, <1>7
  <2> QED
    BY <1>1, <1>4, <2>1 DEF QuitInv, Leaving, MediaInv
<1>12. FrameInvariant'
  <2>1. Pending(Ui', {"room"}, "meeting") => Pending(Ui, {"room"}, "meeting")
    BY <1>5, <1>7
  <2> QED
    BY <1>4, <2>1, StillFits DEF MediaInv
<1> QED
  BY <1>9, <1>10, <1>11, <1>12 DEF MediaInv

\* The engine gives its managers away.
LEMMA ForgetMedia ==
    ASSUME CaptureIInv, MediaInv, ForgetManagers
    PROVE  MediaInv'
<1> DEFINE rest == Tail(Ui)
           more == Disconnecting
<1>1. /\ Has("ui", "forget", "managers") /\ Then("ui", more)
      /\ m_open' = {} /\ m_current_meeting_id' = 0
      /\ UNCHANGED <<lifeVars, publishing, captureVars, pageVars>>
  BY DEF ForgetManagers, Disconnecting
<1>2. more \in Seq(AnyWork) /\ Calm(more) /\ ~Pending(more, {"room"}, "meeting")
      /\ ~Pending(more, {"uninit", "observe"}, "engine")
  <2> DEFINE A == {"disconnect", "detach", "stop"}
             S == A \X (Kinds \cup Managers)
  <2>1. /\ Do("disconnect", "capture") \in S /\ Do("detach", "camera") \in S
        /\ Do("detach", "mic") \in S /\ \A m \in Managers : Do("stop", m) \in S
    BY DEF Kinds, Managers, Do
  <2> HIDE DEF S
  <2>2. Disconnecting \in Seq(S)
    BY <2>1 DEF Disconnecting, Managers
  <2>3. A \cap {"room"} = {} /\ A \cap {"uninit", "observe"} = {}
    OBVIOUS
  <2> HIDE DEF A, more
  <2>4. ~Pending(Disconnecting, {"room"}, "meeting")
        /\ ~Pending(Disconnecting, {"uninit", "observe"}, "engine")
    BY <2>2, <2>3, NotAmong DEF S
  <2> QED
    BY <2>4, FixedIsAny, FixedIsCalm DEF more
<1> HIDE DEF rest, more
<1>3. UiGoes("forget", "managers", more, rest)
  BY <1>1, <1>2, UiThen DEF rest
<1>4. /\ UNCHANGED <<m_source_id, registered, publishing, notice, joined, page, shown>>
      /\ UNCHANGED <<m_observers, m_submodel_initialized, frame>> /\ Event' = Event
  BY <1>1, <1>3 DEF lifeVars, captureVars, managerVars, engineStateVars, pageVars, lobbyVars, UiGoes
<1>5. /\ \A words, for : Pending(Ui, words, for) <=>
            ("forget" \in words /\ for = "managers") \/ Pending(rest, words, for)
      /\ \A words, for : Pending(Ui', words, for) <=>
            Pending(more, words, for) \/ Pending(rest, words, for)
      /\ \A word, for, words, whom : Awaits(Ui, word, for, words, whom) =>
            ~("forget" = word /\ "managers" = for)
      /\ \A word, for, words, whom :
            Awaits(Ui, word, for, words, whom) /\ "forget" \notin words
               /\ Awaits(more, word, for, words, whom) => Awaits(Ui', word, for, words, whom)
  BY <1>3 DEF UiGoes, Peels, Joins
<1>6. m_open = {}
  <2>1. ASSUME NEW k \in Kinds PROVE k \notin m_open
    BY <1>5 DEF MediaInv, ClosingInv, Closing
  <2> QED
    BY <2>1 DEF CaptureIInv, TypeInv, MediaTypeOK
<1>7. /\ \A words, for : words \subseteq MediaWork => ~Pending(more, words, for)
      /\ \A word, for, words, whom : word \in MediaWork => Awaits(more, word, for, words, whom)
      /\ "forget" \notin OpenWork /\ "unflag" \in MediaWork
      /\ {"leave"} \subseteq MediaWork /\ {"exit"} \subseteq MediaWork
      /\ {"list"} \subseteq MediaWork /\ {"leave", "exit"} \subseteq MediaWork
      /\ {"uninit"} \subseteq MediaWork /\ {"forget"} \subseteq MediaWork
      /\ {"cleanup", "snapshot"} \subseteq MediaWork /\ \A k : ~Opens(more, k)
  BY <1>2, CalmIs DEF Calm, MediaWork, OpenWork
<1>8. \A k \in Kinds : ~Opens(Ui, k) /\ ~Opens(Ui', k)
  BY <1>1, <1>3, <1>7, StillClosed DEF MediaInv
<1>9. \A k \in Kinds :
             /\ Pending(Ui, {"release", "unregister"}, k) =>
                   Pending(Ui', {"release", "unregister"}, k)
             /\ Pending(Ui, {"unpublish"}, k) => Pending(Ui', {"unpublish"}, k)
             /\ Awaits(Ui, "unflag", k, {"release", "unregister"}, k) =>
                   Awaits(Ui', "unflag", k, {"release", "unregister"}, k)
             /\ Awaits(Ui, "unflag", k, {"unpublish"}, k) =>
                   Awaits(Ui', "unflag", k, {"unpublish"}, k)
  BY <1>5, <1>7
<1>10. ~m_observers
  <2>1. Pending(Ui, {"forget"}, "managers")
    BY <1>5
  <2> QED
    BY <2>1 DEF QuitInv, MediaInv
<1>11. OpeningInv' /\ EventInv' /\ ClosingInv' /\ OwnInv' /\ TruthInv'
  BY <1>1, <1>4, <1>6, <1>8, <1>9, <1>10, NothingOpen
<1>12. LastInv'
  <2>1. /\ \A k \in Kinds : ~Pending(more, {"list"}, k)
        /\ ~Pending(more, {"leave"}, "page") /\ ~Pending(more, {"exit"}, "page")
    BY <1>7
  <2> QED
    BY <1>1, <1>3, <2>1, StillLast DEF MediaInv
<1>13. QuitInv'
  <2>1. Pending(Ui', {"uninit", "observe"}, "engine") <=>
           Pending(Ui, {"uninit", "observe"}, "engine")
    BY <1>2, <1>5
  <2>2. /\ Exiting' <=> Exiting
        /\ Leaving' <=> Leaving
    BY <1>5, <1>7 DEF Exiting, Leaving
  <2> QED
    BY <1>4, <1>10, <2>1, <2>2 DEF QuitInv, MediaInv
<1>14. FrameInvariant'
  <2>1. Pending(Ui', {"room"}, "meeting") => Pending(Ui, {"room"}, "meeting")
    BY <1>2, <1>5
  <2> QED
    BY <1>1, <1>4, <2>1, StillFits DEF MediaInv
<1> QED
  BY <1>11, <1>12, <1>13, <1>14 DEF MediaInv

-----------------------------------------------------------------------------
(* A call of the user, and the news that the meeting has ended.             *)

\* What a call that the UI thread takes up may have in its list.
IdleWork == {"open", "close", "hide", "list", "leave", "exit", "uninit"}

LEMMA NothingDoes ==
    ASSUME MediaInv, Ui = << >>
    PROVE  /\ ~Exiting /\ ~Leaving /\ ~Gone
           /\ m_submodel_initialized => m_observers
           /\ page => m_observers
           /\ \A k \in Kinds : /\ k \in m_open => k \in shown
                               /\ k \in shown => page
<1>1. ~Exiting /\ ~Leaving /\ ~Pending(Ui, {"uninit", "observe"}, "engine")
  BY Nothing DEF Exiting, Leaving
<1>2. ASSUME NEW k \in Kinds
      PROVE  /\ k \in m_open => k \in shown
             /\ k \in shown => page
  <2>1. Owned(k)
    BY DEF MediaInv, OwnInv
  <2> QED
    BY <2>1, Nothing DEF Owned
<1> QED
  BY <1>1, <1>2 DEF QuitInv, Gone, MediaInv

LEMMA IdleMedia ==
    ASSUME MediaInv, Ui = << >>, Event' = Event,
           UNCHANGED <<page, shown, m_open, m_source_id, registered, publishing, frame, joined,
                       m_current_meeting_id>>,
           \A words, for : IdleWork \cap words = {} => ~Pending(Ui', words, for),
           \A word, for, words, whom : word \notin IdleWork => Awaits(Ui', word, for, words, whom),
           \A k \in Kinds :
              /\ Pending(Ui', OpenWork, k) => Ui' \in OpenLists(k) /\ page
              /\ k \in m_open => /\ Awaits(Ui', "exit", "page", {"close", "unflag"}, k)
                                 /\ Awaits(Ui', "exit", "quit", {"close", "unflag"}, k)
                                 /\ Awaits(Ui', "hide", k, {"close", "unflag"}, k)
              /\ k \in shown =>
                    Pending(Ui', {"hide"}, k) \/ ~Pending(Ui', {"close", "unflag"}, k)
    PROVE  /\ OpeningInv' /\ EventInv' /\ ClosingInv' /\ OwnInv' /\ FrameInvariant'
           /\ (\A k \in Kinds : Truth(k)) => TruthInv'
           /\ ~page => TruthInv'
<1>1. /\ IdleWork \cap {"publish", "register", "create", "flag"} = {}
      /\ IdleWork \cap {"register", "create", "flag"} = {} /\ IdleWork \cap {"flag"} = {}
      /\ IdleWork \cap {"show"} = {} /\ IdleWork \cap {"unflag"} = {}
      /\ IdleWork \cap {"release", "unregister", "unpublish"} = {} /\ IdleWork \cap {"room"} = {}
      /\ "forget" \notin IdleWork /\ "unflag" \notin IdleWork
  BY DEF IdleWork
<1>2. OpeningInv'
  BY <1>1 DEF OpeningInv, Opening
<1>3. EventInv'
  BY DEF EventInv, MediaInv
<1>4. ASSUME NEW k \in Kinds PROVE Closing(k)'
  <2>1. /\ Awaits(Ui', "forget", "managers", {"cleanup", "snapshot"}, "meeting")
        /\ Awaits(Ui', "unflag", k, {"release", "unregister"}, k)
        /\ Awaits(Ui', "unflag", k, {"unpublish"}, k)
        /\ ~Pending(Ui', {"release", "unregister", "unpublish"}, k)
    BY <1>1
  <2> QED
    BY <2>1 DEF Closing
<1>5. ASSUME NEW k \in Kinds PROVE Owned(k)'
  <2>1. Owned(k)
    BY DEF MediaInv, OwnInv
  <2> QED
    BY <2>1, Nothing DEF Owned
<1>6. ASSUME NEW k \in Kinds
      PROVE  (Truth(k) => Truth(k)') /\ (~page => Truth(k)')
  <2>1. /\ ~Pending(Ui', {"register", "create", "flag"}, k)
        /\ ~Pending(Ui', {"flag"}, k) /\ ~Pending(Ui', {"show"}, k)
    BY <1>1
  <2>2. k \in m_open => k \in shown
    BY NothingDoes
  <2>3. ~page => k \notin shown
    BY NothingDoes
  <2>4. Truth(k) => Truth(k)'
    BY <2>1, <2>2, Nothing DEF Truth
  <2>5. ~page => Truth(k)'
    BY <2>1, <2>2, <2>3 DEF Truth
  <2> QED
    BY <2>4, <2>5
<1>7. FrameInvariant'
  <2>1. ~Pending(Ui', {"room"}, "meeting")
    BY <1>1
  <2> QED
    BY <2>1, StillFits DEF MediaInv
<1> QED
  BY <1>2, <1>3, <1>4, <1>5, <1>6, <1>7 DEF ClosingInv, OwnInv, TruthInv

\* A device is switched on or off, and the lobby lists the devices.
LEMMA ToggleMedia ==
    ASSUME CaptureIInv, MediaInv, (\E k \in Kinds : Toggle(k)) \/ Login
    PROVE  MediaInv'
<1> USE DEF engineVars, lifeVars, mediaVars, captureVars, managerVars, engineStateVars, pageVars,
            lobbyVars
<1>1. /\ UNCHANGED <<page, shown, m_open, m_source_id, registered, publishing, frame, joined>>
      /\ UNCHANGED <<notice, m_observers, m_submodel_initialized, m_current_meeting_id>>
      /\ Ui = << >>
  BY DEF Toggle, Login, Idle, Ui
<1>2. PICK list :
         /\ Starts("ui", list)
         /\ \/ list = ListDevices
            \/ \E k \in Kinds : list = <<Do("open", k)>> /\ page
            \/ \E k \in Kinds : list = <<Do("close", k), Do("hide", k)>>
  BY DEF Toggle, Login
<1>3. Ui' = list /\ Event' = Event
  BY <1>2, UiStarts
<1>4. /\ \A words, for : IdleWork \cap words = {} => ~Pending(list, words, for)
      /\ \A word, for, words, whom : word \notin IdleWork => Awaits(list, word, for, words, whom)
      /\ \A for : /\ ~Pending(list, {"leave"}, for) /\ ~Pending(list, {"leave", "exit"}, for)
                  /\ ~Pending(list, {"uninit"}, for) /\ ~Pending(list, {"forget"}, for)
                  /\ ~Pending(list, {"cleanup", "snapshot"}, for) /\ ~Pending(list, {"exit"}, for)
      /\ LeavesLast(list) /\ Final(list, "exit", "page")
      /\ (\E k \in Kinds : Pending(list, {"list"}, k)) => list = ListDevices
      /\ \A k \in Kinds :
              /\ Pending(list, OpenWork, k) => list \in OpenLists(k) /\ page
              /\ Awaits(list, "exit", "page", {"close", "unflag"}, k)
              /\ Awaits(list, "exit", "quit", {"close", "unflag"}, k)
              /\ Awaits(list, "hide", k, {"close", "unflag"}, k)
              /\ Pending(list, {"hide"}, k) \/ ~Pending(list, {"close", "unflag"}, k)
  <2>1. CASE list = ListDevices
    <3>1. Two(list, "list", "camera", "list", "mic")
      BY <2>1, TwoIs, WorksDiffer DEF ListDevices
    <3> QED
      BY <2>1, <3>1 DEF Two, IdleWork, OpenWork
  <2>2. CASE \E k \in Kinds : list = <<Do("open", k)>> /\ page
    <3>1. PICK k \in Kinds : list = <<Do("open", k)>> /\ page
      BY <2>2
    <3>2. One(list, "open", k) /\ list \in OpenLists(k)
      BY <3>1, OneIs DEF OpenLists
    <3> QED
      BY <3>1, <3>2 DEF One, IdleWork, OpenWork
  <2>3. CASE \E k \in Kinds : list = <<Do("close", k), Do("hide", k)>>
    <3>1. PICK k \in Kinds : list = <<Do("close", k), Do("hide", k)>>
      BY <2>3
    <3>2. Two(list, "close", k, "hide", k)
      BY <3>1, TwoIs, WorksDiffer
    <3> QED
      BY <3>2 DEF Two, IdleWork, OpenWork
  <2> QED
    BY <1>2, <2>1, <2>2, <2>3
<1>5. OpeningInv' /\ EventInv' /\ ClosingInv' /\ OwnInv' /\ FrameInvariant'
      /\ ((\A k \in Kinds : Truth(k)) => TruthInv')
  BY <1>1, <1>3, <1>4, IdleMedia
<1>6. LastInv'
  BY <1>3, <1>4 DEF LastInv
<1>7. QuitInv'
  <2>1. /\ m_submodel_initialized => m_observers
        /\ page => m_observers
    BY <1>1, NothingDoes
  <2> QED
    BY <1>1, <1>3, <1>4, <2>1 DEF QuitInv, Leaving, MediaInv
<1>8. TruthInv'
  <2>1. ~Gone
    BY <1>1, NothingDoes
  <2>2. Doomed => Doomed'
    BY <1>1, <1>3, <2>1 DEF Doomed
  <2> QED
    BY <1>5, <2>2 DEF TruthInv, MediaInv
<1> QED
  BY <1>5, <1>6, <1>7, <1>8 DEF MediaInv

\* What the page closes before it is left.
LEMMA ClosesLocal ==
    /\ CloseLocalMedia \in Seq(AnyWork)
    /\ \A words, for : Pending(CloseLocalMedia, words, for) <=>
          for \in Kinds \cap shown /\ ("close" \in words \/ "hide" \in words)
    /\ \A word, for, words, whom : word # "hide" /\ word # "close" =>
          Awaits(CloseLocalMedia, word, for, words, whom)
    /\ \A k \in Kinds : Awaits(CloseLocalMedia, "hide", k, {"close", "unflag"}, k)
<1> DEFINE a == IF "camera" \in shown THEN <<Do("close", "camera"), Do("hide", "camera")>>
                                      ELSE << >>
           b == IF "mic" \in shown THEN <<Do("close", "mic"), Do("hide", "mic")>> ELSE << >>
<1>1. {Do("close", "camera"), Do("hide", "camera"), Do("close", "mic"), Do("hide", "mic")}
         \subseteq AnyWork
  BY DEF AnyWork, PlainWork, Kinds, Do
<1>2. a \in Seq(AnyWork) /\ b \in Seq(AnyWork)
  BY <1>1
<1>3. \A k \in Kinds : Two(<<Do("close", k), Do("hide", k)>>, "close", k, "hide", k)
  BY TwoIs, WorksDiffer
<1>4. /\ \A words, for : Pending(a, words, for) <=>
            "camera" \in shown /\ for = "camera" /\ ("close" \in words \/ "hide" \in words)
      /\ \A word, for, words, whom : word # "hide" /\ word # "close" =>
            Awaits(a, word, for, words, whom)
      /\ \A k \in Kinds : Awaits(a, "hide", k, {"close", "unflag"}, k)
  <2>1. CASE "camera" \in shown
    <3>1. Two(a, "close", "camera", "hide", "camera")
      BY <1>3, <2>1 DEF Kinds
    <3> HIDE DEF a
    <3> QED
      BY <2>1, <3>1 DEF Two
  <2>2. CASE "camera" \notin shown
    BY <2>2, Nothing
  <2> QED
    BY <2>1, <2>2
<1>5. /\ \A words, for : Pending(b, words, for) <=>
            "mic" \in shown /\ for = "mic" /\ ("close" \in words \/ "hide" \in words)
      /\ \A word, for, words, whom : word # "hide" /\ word # "close" =>
            Awaits(b, word, for, words, whom)
      /\ \A k \in Kinds : Awaits(b, "hide", k, {"close", "unflag"}, k)
  <2>1. CASE "mic" \in shown
    <3>1. Two(b, "close", "mic", "hide", "mic")
      BY <1>3, <2>1 DEF Kinds
    <3> HIDE DEF b
    <3> QED
      BY <2>1, <3>1 DEF Two
  <2>2. CASE "mic" \notin shown
    BY <2>2, Nothing
  <2> QED
    BY <2>1, <2>2
<1>6. CloseLocalMedia = a \o b
  BY DEF CloseLocalMedia
<1> HIDE DEF a, b
<1>7. Joins(CloseLocalMedia, a, b) /\ CloseLocalMedia \in Seq(AnyWork)
  BY <1>2, <1>6, PartsOf, ConcatProperties
<1>8. \A words, for : Pending(CloseLocalMedia, words, for) <=>
          for \in Kinds \cap shown /\ ("close" \in words \/ "hide" \in words)
  BY <1>4, <1>5, <1>7 DEF Joins, Kinds
<1>9. \A word, for, words, whom : word # "hide" /\ word # "close" =>
          Awaits(CloseLocalMedia, word, for, words, whom)
  BY <1>4, <1>5, <1>7 DEF Joins
<1>10. \A k \in Kinds : Awaits(CloseLocalMedia, "hide", k, {"close", "unflag"}, k)
  BY <1>4, <1>5, <1>7 DEF Joins
<1> QED
  BY <1>7, <1>8, <1>9, <1>10

\* The page, or the client, is left with everything closed.
LastWork == {"leave", "exit", "uninit"}
Lasts(list) ==
    /\ list \in Seq(AnyWork)
    /\ \A words, for : LastWork \cap words = {} \/ for \in Kinds => ~Pending(list, words, for)
    /\ \A word, for, words, whom : word \notin LastWork => Awaits(list, word, for, words, whom)
    /\ LeavesLast(list) /\ Final(list, "exit", "page")

LEMMA LeaveAll ==
    ASSUME MediaInv, Ui = << >>, NEW last, Lasts(last),
           Ui' = CloseLocalMedia \o last, Event' = Event,
           UNCHANGED <<page, shown, m_open, m_source_id, registered, publishing, frame, joined,
                       m_current_meeting_id>>
    PROVE  /\ OpeningInv' /\ EventInv' /\ ClosingInv' /\ LastInv' /\ OwnInv' /\ FrameInvariant'
           /\ (\A k \in Kinds : Truth(k)) => TruthInv'
           /\ ~page => TruthInv'
           /\ \A words, for : for \notin Kinds =>
                 (Pending(Ui', words, for) <=> Pending(last, words, for))
<1> DEFINE first == CloseLocalMedia
<1>1. /\ first \in Seq(AnyWork)
      /\ \A words, for : Pending(first, words, for) <=>
            for \in Kinds \cap shown /\ ("close" \in words \/ "hide" \in words)
      /\ \A word, for, words, whom : word # "hide" /\ word # "close" =>
            Awaits(first, word, for, words, whom)
      /\ \A k \in Kinds : Awaits(first, "hide", k, {"close", "unflag"}, k)
  BY ClosesLocal
<1>2. Joins(Ui', first, last)
  BY <1>1, PartsOf DEF Lasts
<1> HIDE DEF first
<1>3. \A words, for : Pending(Ui', words, for) <=>
         \/ for \in Kinds \cap shown /\ ("close" \in words \/ "hide" \in words)
         \/ Pending(last, words, for)
  BY <1>1, <1>2 DEF Joins
<1>4. \A word, for, words, whom : Awaits(Ui', word, for, words, whom) <=>
         /\ Awaits(first, word, for, words, whom)
         /\ \/ whom \in Kinds \cap shown /\ ("close" \in words \/ "hide" \in words)
            \/ Awaits(last, word, for, words, whom)
  BY <1>1, <1>2 DEF Joins
<1>5. \A words, for : IdleWork \cap words = {} => ~Pending(Ui', words, for)
  <2> SUFFICES ASSUME NEW words, NEW for, IdleWork \cap words = {}
               PROVE  ~Pending(Ui', words, for)
    OBVIOUS
  <2>1. LastWork \cap words = {} /\ "close" \notin words /\ "hide" \notin words
    BY DEF IdleWork, LastWork
  <2> QED
    BY <1>3, <2>1 DEF Lasts
<1>6. \A word, for, words, whom : word \notin IdleWork => Awaits(Ui', word, for, words, whom)
  BY <1>1, <1>4 DEF Lasts, IdleWork, LastWork
<1>7. ASSUME NEW k \in Kinds
      PROVE  /\ ~Pending(Ui', OpenWork, k)
             /\ k \in m_open => /\ Awaits(Ui', "exit", "page", {"close", "unflag"}, k)
                                /\ Awaits(Ui', "exit", "quit", {"close", "unflag"}, k)
                                /\ Awaits(Ui', "hide", k, {"close", "unflag"}, k)
             /\ k \in shown => Pending(Ui', {"hide"}, k)
  <2>1. ~Pending(Ui', OpenWork, k)
    <3>1. LastWork \cap OpenWork = {} /\ "close" \notin OpenWork /\ "hide" \notin OpenWork
      BY DEF OpenWork, LastWork
    <3> QED
      BY <1>3, <3>1 DEF Lasts
  <2>2. k \in m_open => k \in shown
    BY NothingDoes
  <2>3. ASSUME k \in m_open
        PROVE  /\ Awaits(Ui', "exit", "page", {"close", "unflag"}, k)
               /\ Awaits(Ui', "exit", "quit", {"close", "unflag"}, k)
               /\ Awaits(Ui', "hide", k, {"close", "unflag"}, k)
    BY <1>1, <1>4, <2>2, <2>3
  <2>4. k \in shown => Pending(Ui', {"hide"}, k)
    BY <1>3
  <2> QED
    BY <2>1, <2>3, <2>4
<1>8. /\ OpeningInv' /\ EventInv' /\ ClosingInv' /\ OwnInv' /\ FrameInvariant'
      /\ ((\A k \in Kinds : Truth(k)) => TruthInv')
      /\ (~page => TruthInv')
  BY <1>5, <1>6, <1>7, IdleMedia
<1>9. LastInv'
  <2>1. LeavesLast(Ui') /\ Final(Ui', "exit", "page")
    <3>1. "page" \notin Kinds
      BY DEF Kinds
    <3>2. ~Pending(first, {"leave"}, "page") /\ ~Pending(first, {"exit"}, "page")
      BY <1>1, <3>1
    <3>3. LeavesLast(last) /\ Final(last, "exit", "page")
      BY DEF Lasts
    <3> QED
      BY <1>2, <3>2, <3>3 DEF Joins
  <2>2. \A k \in Kinds : ~Pending(Ui', {"list"}, k)
    <3>1. LastWork \cap {"list"} = {}
      BY DEF LastWork
    <3>2. \A k \in Kinds : ~Pending(last, {"list"}, k)
      BY <3>1 DEF Lasts
    <3> QED
      BY <1>3, <3>2
  <2> QED
    BY <2>1, <2>2 DEF LastInv
<1> QED
  BY <1>3, <1>8, <1>9

LEMMA LastLists ==
    /\ Lasts(<<Do("exit", "page")>>)
    /\ Lasts(<<Do("leave", "page"), Do("exit", "page")>>)
    /\ \A words, for : Pending(<<Do("exit", "page")>>, words, for) <=>
          "exit" \in words /\ for = "page"
    /\ \A words, for : Pending(<<Do("leave", "page"), Do("exit", "page")>>, words, for) <=>
          ("leave" \in words \/ "exit" \in words) /\ for = "page"
<1> DEFINE x == Do("leave", "page")
           y == Do("exit", "page")
<1>1. x # y /\ x \in AnyWork /\ y \in AnyWork
  <2>1. x \in PlainWork /\ y \in PlainWork
    BY DEF PlainWork, Do
  <2> QED
    BY <2>1, WorksDiffer DEF AnyWork
<1>2. One(<<y>>, "exit", "page") /\ Two(<<x, y>>, "leave", "page", "exit", "page")
  BY <1>1, OneIs, TwoIs
<1>3. Do("leave", "page") = x /\ Do("exit", "page") = y
  OBVIOUS
<1> HIDE DEF x, y
<1> DEFINE one == <<y>>
           two == <<x, y>>
<1>4. one \in Seq(AnyWork) /\ two \in Seq(AnyWork)
  BY <1>1
<1>5. LeavesLast(one) /\ LeavesLast(two)
  <2>1. LeavesLast(one)
    BY <1>2 DEF One
  <2>2. DOMAIN two = 1..2 /\ two[1] = x /\ two[2] = y /\ Len(two) = 2
    OBVIOUS
  <2> HIDE DEF two
  <2>3. LeavesLast(two)
    BY <1>1, <1>3, <2>2 DEF LeavesLast
  <2> QED
    BY <2>1, <2>3
<1>6. Final(one, "exit", "page") /\ Final(two, "exit", "page")
  BY <1>2 DEF One, Two
<1>7. "leave" \in LastWork /\ "exit" \in LastWork /\ "page" \notin Kinds
  BY DEF LastWork, Kinds
<1>8. One(one, "exit", "page") /\ Two(two, "leave", "page", "exit", "page")
  BY <1>2
<1> HIDE DEF one, two
<1>9. Lasts(one)
  BY <1>4, <1>5, <1>6, <1>7, <1>8 DEF Lasts, One
<1>10. Lasts(two)
  BY <1>4, <1>5, <1>6, <1>7, <1>8 DEF Lasts, Two
<1>11. /\ \A words, for : Pending(one, words, for) <=> "exit" \in words /\ for = "page"
       /\ \A words, for : Pending(two, words, for) <=>
             ("leave" \in words \/ "exit" \in words) /\ for = "page"
  BY <1>8 DEF One, Two
<1> QED
  BY <1>9, <1>10, <1>11 DEF one, two, x, y

\* The page is left: the user leaves it, or the meeting has ended.
LEMMA LeavePageMedia ==
    ASSUME CaptureIInv, MediaInv, Leave \/ (HandleMeetingEnded /\ page)
    PROVE  MediaInv'
<1> USE DEF engineVars, lifeVars, mediaVars, captureVars, managerVars, engineStateVars, pageVars,
            lobbyVars
<1>1. /\ UNCHANGED <<page, shown, m_open, m_source_id, registered, publishing, frame, joined>>
      /\ UNCHANGED <<m_observers, m_submodel_initialized, m_current_meeting_id>>
      /\ Ui = << >> /\ page
  BY DEF Leave, HandleMeetingEnded, Idle, Ui
<1>2. PICK last :
         /\ Starts("ui", CloseLocalMedia \o last)
         /\ \/ last = <<Do("exit", "page")>> /\ HandleMeetingEnded
            \/ last = <<Do("leave", "page"), Do("exit", "page")>> /\ Leave
  BY <1>1 DEF Leave, HandleMeetingEnded
<1>3. /\ Lasts(last)
      /\ \A words, for : Pending(last, words, for) =>
            ("leave" \in words \/ "exit" \in words) /\ for = "page"
      /\ Pending(last, {"exit"}, "page")
      /\ HandleMeetingEnded /\ ~Leave => ~Pending(last, {"leave"}, "page")
  BY <1>2, LastLists
<1>4. Ui' = CloseLocalMedia \o last /\ Event' = Event
  BY <1>2, UiStarts
<1>5. /\ OpeningInv' /\ EventInv' /\ ClosingInv' /\ LastInv' /\ OwnInv' /\ FrameInvariant'
      /\ (\A k \in Kinds : Truth(k)) => TruthInv'
      /\ \A words, for : for \notin Kinds =>
             (Pending(Ui', words, for) <=> Pending(last, words, for))
  BY <1>1, <1>3, <1>4, LeaveAll
<1>6. /\ m_submodel_initialized => m_observers
      /\ page => m_observers
      /\ ~Gone
  BY <1>1, NothingDoes
<1>7. "page" \notin Kinds /\ "quit" \notin Kinds /\ "engine" \notin Kinds
      /\ "managers" \notin Kinds /\ "meeting" \notin Kinds
  BY DEF Kinds
<1>8. QuitInv'
  <2>1. /\ ~Pending(Ui', {"leave", "exit"}, "quit") /\ ~Pending(Ui', {"uninit"}, "engine")
        /\ ~Pending(Ui', {"forget"}, "managers")
        /\ ~Pending(Ui', {"cleanup", "snapshot"}, "meeting")
    BY <1>3, <1>5, <1>7
  <2> QED
    BY <1>1, <1>6, <2>1 DEF QuitInv, MediaInv
<1>9. TruthInv'
  <2>1. CASE Leave
    <3>1. notice' = notice
      BY <2>1 DEF Leave
    <3>2. Doomed => Doomed'
      BY <1>1, <1>4, <1>6, <3>1 DEF Doomed
    <3> QED
      BY <1>5, <3>2 DEF TruthInv, MediaInv
  <2>2. CASE ~Leave
    <3>1. ~Pending(last, {"leave"}, "page")
      BY <1>2, <1>3, <2>2
    <3>2. Pending(Ui', {"exit"}, "page") /\ ~Pending(Ui', {"leave"}, "page")
      BY <1>3, <1>5, <1>7, <3>1
    <3> QED
      BY <3>2 DEF TruthInv, Doomed, Gone, Exiting, Leaving
  <2> QED
    BY <2>1, <2>2
<1> QED
  BY <1>5, <1>8, <1>9 DEF MediaInv

\* The news of the end of a meeting comes when the page has been left.
LEMMA LateMedia ==
    ASSUME CaptureIInv, MediaInv, HandleMeetingEnded, ~page
    PROVE  MediaInv'
<1> USE DEF engineVars, lifeVars, mediaVars, captureVars, managerVars, engineStateVars, pageVars,
            lobbyVars
<1>1. /\ UNCHANGED <<page, shown, m_open, m_source_id, registered, publishing, frame, joined>>
      /\ UNCHANGED <<m_observers, m_submodel_initialized, m_current_meeting_id>>
      /\ Ui = << >> /\ Starts("ui", << >>)
  BY DEF HandleMeetingEnded, Idle, Ui
<1>2. Ui' = << >> /\ Event' = Event
  BY <1>1, UiStarts
<1>3. /\ OpeningInv' /\ EventInv' /\ ClosingInv' /\ OwnInv' /\ FrameInvariant' /\ TruthInv'
  BY <1>1, <1>2, Nothing, IdleMedia
<1>4. LastInv' /\ QuitInv'
  BY <1>1, <1>2, Nothing DEF LastInv, QuitInv, Leaving, MediaInv
<1> QED
  BY <1>3, <1>4 DEF MediaInv

LEMMA QuitLists ==
    ASSUME NEW list, list = (IF page THEN <<Do("leave", "quit")>> ELSE << >>)
                            \o <<Do("exit", "quit"), Do("uninit", "engine")>>
    PROVE  /\ Lasts(list)
           /\ \A words, for : for # "quit" /\ for # "engine" => ~Pending(list, words, for)
           /\ Pending(list, {"exit"}, "quit") /\ Pending(list, {"uninit"}, "engine")
           /\ Pending(list, {"uninit", "observe"}, "engine")
<1> DEFINE a == IF page THEN <<Do("leave", "quit")>> ELSE << >>
           b == <<Do("exit", "quit"), Do("uninit", "engine")>>
<1>1. a \in Seq(AnyWork) /\ b \in Seq(AnyWork)
  <2>1. {Do("leave", "quit"), Do("exit", "quit")} \subseteq PlainWork
        /\ Do("uninit", "engine") \in Uninits
    BY DEF PlainWork, Do, Uninits
  <2> QED
    BY <2>1 DEF AnyWork
<1>2. Two(b, "exit", "quit", "uninit", "engine")
  BY TwoIs, WorksDiffer
<1>3. /\ \A words, for : Pending(a, words, for) <=> page /\ "leave" \in words /\ for = "quit"
      /\ \A word, for, words, whom : word # "leave" => Awaits(a, word, for, words, whom)
  <2>1. CASE page
    BY <2>1, OneIs DEF One
  <2>2. CASE ~page
    BY <2>2, Nothing
  <2> QED
    BY <2>1, <2>2
<1>4. list = a \o b
  OBVIOUS
<1> HIDE DEF a, b
<1>5. Joins(list, a, b) /\ list \in Seq(AnyWork)
  BY <1>1, <1>4, PartsOf, ConcatProperties
<1>6. \A words, for : Pending(list, words, for) <=>
         \/ page /\ "leave" \in words /\ for = "quit"
         \/ "exit" \in words /\ for = "quit"
         \/ "uninit" \in words /\ for = "engine"
  <2>1. \A words, for : Pending(list, words, for) <=>
           Pending(a, words, for) \/ Pending(b, words, for)
    BY <1>5 DEF Joins
  <2>2. \A words, for : Pending(b, words, for) <=>
           ("exit" \in words /\ "quit" = for) \/ ("uninit" \in words /\ "engine" = for)
    BY <1>2 DEF Two
  <2> QED
    BY <1>3, <2>1, <2>2
<1>7. LeavesLast(list) /\ Final(list, "exit", "page")
  <2>1. LeavesLast(b) /\ Final(b, "exit", "page")
    BY <1>2 DEF Two
  <2>2. ~Pending(a, {"leave"}, "page") /\ ~Pending(a, {"exit"}, "page")
    BY <1>3
  <2> QED
    BY <1>5, <2>1, <2>2 DEF Joins
<1>8. {"leave", "exit", "uninit"} \subseteq LastWork
      /\ "quit" \notin Kinds /\ "engine" \notin Kinds
  BY DEF LastWork, Kinds
<1>9. \A words, for : LastWork \cap words = {} \/ for \in Kinds => ~Pending(list, words, for)
  BY <1>6, <1>8
<1>10. \A word, for, words, whom : word \notin LastWork => Awaits(list, word, for, words, whom)
  BY <1>2, <1>3, <1>5, <1>8 DEF Joins, Two
<1> QED
  BY <1>5, <1>6, <1>7, <1>9, <1>10 DEF Lasts

\* The window is closed.
LEMMA ShutdownMedia ==
    ASSUME CaptureIInv, MediaInv, Shutdown
    PROVE  MediaInv'
<1> USE DEF engineVars, lifeVars, mediaVars, captureVars, managerVars, engineStateVars, pageVars,
            lobbyVars
<1> DEFINE a == IF page THEN <<Do("leave", "quit")>> ELSE << >>
           b == <<Do("exit", "quit"), Do("uninit", "engine")>>
           last == a \o b
<1>1. /\ UNCHANGED <<page, shown, m_open, m_source_id, registered, publishing, frame, joined>>
      /\ UNCHANGED <<m_submodel_initialized, m_current_meeting_id>>
      /\ Ui = << >> /\ m_submodel_initialized /\ m_observers' = FALSE
      /\ Starts("ui", CloseLocalMedia \o a \o b)
  BY DEF Shutdown, Idle, Ui
<1>2. /\ Lasts(last)
      /\ \A words, for : for # "quit" /\ for # "engine" => ~Pending(last, words, for)
      /\ Pending(last, {"exit"}, "quit") /\ Pending(last, {"uninit"}, "engine")
      /\ Pending(last, {"uninit", "observe"}, "engine")
  BY QuitLists
<1>3. a \in Seq(AnyWork) /\ b \in Seq(AnyWork)
  <2>1. {Do("leave", "quit"), Do("exit", "quit")} \subseteq PlainWork
        /\ Do("uninit", "engine") \in Uninits
    BY DEF PlainWork, Do, Uninits
  <2> QED
    BY <2>1 DEF AnyWork
<1> HIDE DEF a, b
<1>4. (CloseLocalMedia \o a) \o b = CloseLocalMedia \o last
  <2>1. CloseLocalMedia \in Seq(AnyWork)
    BY ClosesLocal
  <2> DEFINE c == CloseLocalMedia
  <2> HIDE DEF c
  <2>2. c \in Seq(AnyWork)
    BY <2>1 DEF c
  <2>3. (c \o a) \o b = c \o (a \o b)
    BY <1>3, <2>2, ConcatAssociative
  <2> QED
    BY <2>3 DEF c
<1> HIDE DEF last
<1>5. Ui' = CloseLocalMedia \o last /\ Event' = Event
  BY <1>1, <1>4, UiStarts
<1>6. /\ OpeningInv' /\ EventInv' /\ ClosingInv' /\ LastInv' /\ OwnInv' /\ FrameInvariant'
      /\ \A words, for : for \notin Kinds =>
             (Pending(Ui', words, for) <=> Pending(last, words, for))
  BY <1>1, <1>2, <1>5, LeaveAll
<1>7. "page" \notin Kinds /\ "quit" \notin Kinds /\ "engine" \notin Kinds
  BY DEF Kinds
<1>8. QuitInv'
  <2>1. /\ Pending(Ui', {"exit"}, "quit") /\ ~Pending(Ui', {"leave"}, "page")
        /\ Pending(Ui', {"uninit", "observe"}, "engine")
    BY <1>2, <1>6, <1>7
  <2> QED
    BY <1>1, <2>1 DEF QuitInv, Exiting, Leaving
<1>9. TruthInv'
  BY <1>1 DEF TruthInv, Doomed
<1> QED
  BY <1>6, <1>8, <1>9 DEF MediaInv

\* The user selects another device.
LEMMA PickMedia ==
    ASSUME CaptureIInv, MediaInv,
           UNCHANGED <<engineVars, captureVars, user, page, shown, notice, listening, joined, todo>>
    PROVE  MediaInv'
<1>1. /\ UNCHANGED <<page, shown, m_open, m_source_id, registered, publishing, frame, joined>>
      /\ UNCHANGED <<m_observers, m_submodel_initialized, m_current_meeting_id, notice, todo>>
  BY DEF engineVars, lifeVars, mediaVars, captureVars, managerVars, engineStateVars
<1>2. Ui' = Ui /\ Event' = Event
  BY <1>1 DEF Ui, Event
<1>3. OpeningInv' /\ EventInv' /\ ClosingInv' /\ LastInv' /\ OwnInv'
  BY <1>1, <1>2 DEF OpeningInv, Opening, EventInv, ClosingInv, Closing, LastInv, OwnInv, Owned,
                    MediaInv
<1>4. QuitInv' /\ TruthInv'
  BY <1>1, <1>2 DEF QuitInv, TruthInv, Doomed, Truth, Gone, Exiting, Leaving, MediaInv
<1>5. FrameInvariant'
  BY <1>1, <1>2 DEF FrameInvariant, FrameFits, MediaInv
<1> QED
  BY <1>3, <1>4, <1>5 DEF MediaInv

-----------------------------------------------------------------------------
(* The event thread ends a meeting.                                         *)

LEMMA EventTurns ==
    ASSUME MediaInv, NEW w, NEW j, NEW more, NEW rest, EventGoes(w, j, more, rest),
           w # "tell", ~Pending(more, {"tell"}, "page"),
           UNCHANGED <<page, shown, m_observers, m_submodel_initialized, frame, joined>>,
           m_open' \subseteq m_open, m_source_id' \subseteq m_source_id,
           registered' \subseteq registered, publishing' \subseteq publishing,
           \A k \in Kinds :
              /\ frame[k] # NoFrame /\ k \in registered => k \in registered'
              /\ w \in {"release", "unregister"} /\ j = k /\ k \in m_source_id' \cup registered'
                    => Pending(more, {"release", "unregister"}, k)
              /\ k \in publishing' => ~(w = "unpublish" /\ j = k)
              /\ k \in m_open => \/ k \in m_open'
                                 \/ Pending(more, {"release", "unregister"}, k)
                                    /\ Pending(more, {"unpublish"}, k)
    PROVE  MediaInv'
<1>1. /\ \A words, for : Pending(Event, words, for) <=>
            (w \in words /\ j = for) \/ Pending(rest, words, for)
      /\ \A words, for : Pending(Event', words, for) <=>
            Pending(more, words, for) \/ Pending(rest, words, for)
      /\ Ui' = Ui /\ Event # << >> /\ Event' \in Seq(EventWork)
  BY DEF EventGoes, Peels, Joins
<1>2. EventInv'
  <2>1. Pending(Event', {"tell"}, "page")
    BY <1>1 DEF EventInv, MediaInv
  <2>2. Final(Event', "tell", "page")
    BY DEF EventGoes, Peels, Joins, EventInv, MediaInv
  <2> QED
    BY <1>1, <2>1, <2>2 DEF EventInv
<1>3. Event' # << >>
  <2>1. Pending(Event', {"tell"}, "page")
    BY <1>1 DEF EventInv, MediaInv
  <2> QED
    BY <2>1, Nothing
<1>4. OpeningInv' /\ LastInv' /\ QuitInv'
  BY <1>1 DEF OpeningInv, Opening, LastInv, QuitInv, Gone, Exiting, Leaving, MediaInv
<1>5. ASSUME NEW k \in Kinds PROVE Closing(k)'
  <2>1. Closing(k)
    BY DEF MediaInv, ClosingInv
  <2> QED
    BY <1>1, <2>1 DEF Closing
<1>6. ASSUME NEW k \in Kinds PROVE Owned(k)'
  <2>1. Owned(k)
    BY DEF MediaInv, OwnInv
  <2>2. ASSUME k \in m_source_id' \cup registered'
        PROVE  \/ k \in m_open' \/ Pending(Ui', {"create", "flag"}, k)
               \/ Pending(Ui', {"release", "unregister"}, k)
               \/ Pending(Event', {"release", "unregister"}, k)
    <3>1. k \in m_source_id \cup registered
      BY <2>2
    <3>2. \/ k \in m_open \/ Pending(Ui, {"create", "flag"}, k)
          \/ Pending(Ui, {"release", "unregister"}, k)
          \/ Pending(Event, {"release", "unregister"}, k)
      BY <2>1, <3>1 DEF Owned
    <3>3. Pending(Event, {"release", "unregister"}, k) =>
             Pending(Event', {"release", "unregister"}, k)
      BY <1>1, <2>2
    <3> QED
      BY <1>1, <3>2, <3>3
  <2>3. ASSUME k \in publishing'
        PROVE  \/ k \in m_open' \/ Pending(Ui', {"register", "create", "flag"}, k)
               \/ Pending(Ui', {"unpublish"}, k) \/ Pending(Event', {"unpublish"}, k)
    <3>1. \/ k \in m_open \/ Pending(Ui, {"register", "create", "flag"}, k)
          \/ Pending(Ui, {"unpublish"}, k) \/ Pending(Event, {"unpublish"}, k)
      BY <2>1, <2>3 DEF Owned
    <3>2. Pending(Event, {"unpublish"}, k) => Pending(Event', {"unpublish"}, k)
      BY <1>1, <2>3
    <3> QED
      BY <1>1, <3>1, <3>2
  <2> QED
    BY <1>1, <2>1, <2>2, <2>3 DEF Owned
<1>7. TruthInv'
  BY <1>3 DEF TruthInv, Doomed
<1>8. FrameInvariant'
  <2>1. ~Pending(Ui', {"room"}, "meeting")
    BY <1>1 DEF FrameInvariant, MediaInv
  <2> QED
    BY <2>1, StillFits DEF MediaInv
<1> QED
  BY <1>2, <1>4, <1>5, <1>6, <1>7, <1>8 DEF MediaInv, ClosingInv, OwnInv

LEMMA EventMedia ==
    ASSUME CaptureIInv, MediaInv,
           \/ \E k \in Kinds : Release("event", k) /\ UNCHANGED <<engineVars, pageVars>>
           \/ \E k \in Kinds : Unregister("event", k) /\ UNCHANGED <<engineVars, pageVars>>
           \/ \E k \in Kinds : Unpublish("event", k)
           \/ Refuse("event") \/ Snapshot("event")
    PROVE  MediaInv'
<1> USE DEF engineVars, lifeVars, mediaVars, captureVars, managerVars, engineStateVars, pageVars,
            lobbyVars
<1>1. EventInv /\ "meeting" \notin Kinds
  BY DEF MediaInv, Kinds
<1>2. /\ \A k \in Kinds : <<Do("unregister", k)>> \in Seq(EventWork)
      /\ <<Do("snapshot", "meeting")>> \in Seq(EventWork) /\ << >> \in Seq(EventWork)
  <2>1. \A k \in Kinds : Do("unregister", k) \in EventWork
    BY DEF EventWork, Do
  <2>2. Do("snapshot", "meeting") \in EventWork
    BY DEF EventWork
  <2> QED
    BY <2>1, <2>2
<1>3. CASE \E k \in Kinds : Release("event", k) /\ UNCHANGED <<engineVars, pageVars>>
  <2>1. PICK k \in Kinds : Release("event", k) /\ UNCHANGED <<engineVars, pageVars>>
    BY <1>3
  <2>2. /\ UNCHANGED <<page, shown, m_observers, m_submodel_initialized, frame, joined>>
        /\ UNCHANGED <<m_open, m_source_id, registered, publishing>>
        /\ Has("event", "release", k)
    BY <2>1 DEF Release
  <2>3. CASE k \in m_source_id
    <3> DEFINE more == <<Do("unregister", k)>>
    <3>1. Then("event", more) /\ more \in Seq(EventWork)
      BY <1>2, <2>1, <2>3 DEF Release
    <3>2. One(more, "unregister", k)
      BY OneIs
    <3> HIDE DEF more
    <3>3. EventGoes("release", k, more, Tail(Event))
      BY <1>1, <2>2, <3>1, EventThen
    <3>4. Pending(more, {"release", "unregister"}, k) /\ ~Pending(more, {"tell"}, "page")
      BY <3>2 DEF One
    <3> QED
      BY <2>2, <3>3, <3>4, EventTurns
  <2>4. CASE k \notin m_source_id
    <3>1. Then("event", << >>) /\ m_state_mutex = Nobody
      BY <2>1, <2>4 DEF Release, Unlocked
    <3>2. k \notin registered
      BY <2>4, <3>1 DEF CaptureIInv, CallbackInv, Called
    <3>3. EventGoes("release", k, << >>, Tail(Event))
      BY <1>1, <1>2, <2>2, <3>1, EventThen
    <3>4. ~Pending(<< >>, {"tell"}, "page")
      BY Nothing
    <3> QED
      BY <2>2, <2>4, <3>2, <3>3, <3>4, EventTurns
  <2> QED
    BY <2>3, <2>4
<1>4. CASE \E k \in Kinds : Unregister("event", k) /\ UNCHANGED <<engineVars, pageVars>>
  <2>1. PICK k \in Kinds : Unregister("event", k) /\ UNCHANGED <<engineVars, pageVars>>
    BY <1>4
  <2>2. /\ UNCHANGED <<page, shown, m_observers, m_submodel_initialized, frame, joined>>
        /\ UNCHANGED <<m_open, publishing>>
        /\ m_source_id' = m_source_id \ {k} /\ registered' = registered \ {k}
        /\ frame[k] = NoFrame
        /\ Has("event", "unregister", k) /\ Then("event", << >>)
    BY <2>1 DEF Unregister, Destroy, RemoveCallback
  <2>3. EventGoes("unregister", k, << >>, Tail(Event))
    BY <1>1, <1>2, <2>2, EventThen
  <2>4. ~Pending(<< >>, {"tell"}, "page")
    BY Nothing
  <2> QED
    BY <2>2, <2>3, <2>4, EventTurns
<1>5. CASE \E k \in Kinds : Unpublish("event", k)
  <2>1. PICK k \in Kinds : Unpublish("event", k)
    BY <1>5
  <2>2. /\ UNCHANGED <<page, shown, m_observers, m_submodel_initialized, frame, joined>>
        /\ UNCHANGED <<m_open, m_source_id, registered>>
        /\ publishing' = publishing \ {k}
        /\ Has("event", "unpublish", k) /\ Then("event", << >>)
    BY <2>1 DEF Unpublish
  <2>3. EventGoes("unpublish", k, << >>, Tail(Event))
    BY <1>1, <1>2, <2>2, EventThen
  <2>4. ~Pending(<< >>, {"tell"}, "page")
    BY Nothing
  <2> QED
    BY <2>2, <2>3, <2>4, EventTurns
<1>6. CASE Refuse("event")
  <2> DEFINE more == <<Do("snapshot", "meeting")>>
  <2>1. /\ UNCHANGED <<page, shown, m_observers, m_submodel_initialized, frame, joined>>
        /\ UNCHANGED <<m_open, m_source_id, registered, publishing>>
        /\ Has("event", "cleanup", "meeting") /\ Then("event", more)
    BY <1>6 DEF Refuse
  <2>2. One(more, "snapshot", "meeting") /\ more \in Seq(EventWork)
    BY <1>2, OneIs
  <2> HIDE DEF more
  <2>3. EventGoes("cleanup", "meeting", more, Tail(Event))
    BY <1>1, <2>1, <2>2, EventThen
  <2>4. ~Pending(more, {"tell"}, "page")
    BY <2>2 DEF One
  <2> QED
    BY <2>1, <2>3, <2>4, EventTurns
<1>7. CASE Snapshot("event")
  <2> DEFINE more == Remains
  <2>1. /\ UNCHANGED <<page, shown, m_observers, m_submodel_initialized, frame, joined>>
        /\ UNCHANGED <<m_source_id, registered, publishing>> /\ m_open' = {}
        /\ Has("event", "snapshot", "meeting") /\ Then("event", more)
    BY <1>7 DEF Snapshot, Remains
  <2>2. /\ more \in Seq(EventWork)
        /\ \A words, for : Pending(more, words, for) <=>
              /\ for \in Kinds
              /\ ("release" \in words /\ for \in m_open) \/ "unpublish" \in words
    BY RemainsAre
  <2> HIDE DEF more
  <2>3. EventGoes("snapshot", "meeting", more, Tail(Event))
    BY <1>1, <2>1, <2>2, EventThen
  <2>4. /\ ~Pending(more, {"tell"}, "page")
        /\ \A k \in m_open \cap Kinds : /\ Pending(more, {"release", "unregister"}, k)
                                        /\ Pending(more, {"unpublish"}, k)
    BY <2>2
  <2> QED
    BY <2>1, <2>3, <2>4, EventTurns
<1> QED
  BY <1>3, <1>4, <1>5, <1>6, <1>7

\* The page is told, or nobody observes the engine any more.
LEMMA TellMedia ==
    ASSUME CaptureIInv, MediaInv, Tell
    PROVE  MediaInv'
<1> USE DEF engineVars, lifeVars, mediaVars, captureVars, managerVars, engineStateVars, pageVars,
            lobbyVars
<1>1. /\ UNCHANGED <<page, shown, m_open, m_source_id, registered, publishing, frame, joined>>
      /\ UNCHANGED <<m_observers, m_submodel_initialized, m_current_meeting_id>>
      /\ notice' = (notice \/ m_observers)
      /\ Has("event", "tell", "page") /\ Then("event", << >>)
  BY DEF Tell
<1>2. EventGoes("tell", "page", << >>, Tail(Event))
  <2>1. << >> \in Seq(EventWork) /\ EventInv
    BY DEF MediaInv
  <2> QED
    BY <1>1, <2>1, EventThen
<1> DEFINE rest == Tail(Event)
<1> HIDE DEF rest
<1>3. Event' = << >> /\ Ui' = Ui /\ \A words : \A k \in Kinds : ~Pending(Event, words, k)
  <2>1. EventGoes("tell", "page", << >>, rest)
    BY <1>2 DEF rest
  <2>2. rest = << >>
    BY <2>1 DEF EventGoes, Peels, EventInv, MediaInv
  <2>3. Event' = << >> /\ Ui' = Ui
    BY <2>1, <2>2 DEF EventGoes
  <2>4. "page" \notin Kinds /\ \A words, k : ~Pending(rest, words, k)
    BY <2>2, Nothing DEF Kinds
  <2>5. \A words, k : Pending(Event, words, k) <=>
           ("tell" \in words /\ "page" = k) \/ Pending(rest, words, k)
    BY <2>1 DEF EventGoes, Peels
  <2> QED
    BY <2>3, <2>4, <2>5
<1>4. EventInv'
  BY <1>2, <1>3, Nothing DEF EventInv, EventGoes
<1>5. OpeningInv' /\ ClosingInv' /\ LastInv' /\ QuitInv'
  BY <1>1, <1>3 DEF OpeningInv, Opening, ClosingInv, Closing, LastInv, QuitInv, Gone, Exiting,
                    Leaving, MediaInv
<1>6. ASSUME NEW k \in Kinds PROVE Owned(k)'
  <2>1. Owned(k)
    BY DEF MediaInv, OwnInv
  <2> QED
    BY <1>1, <1>3, <2>1 DEF Owned
<1>7. TruthInv'
  BY <1>1 DEF TruthInv, Doomed
<1>8. FrameInvariant'
  BY <1>1, <1>3 DEF FrameInvariant, FrameFits, MediaInv
<1> QED
  BY <1>4, <1>5, <1>6, <1>7, <1>8 DEF MediaInv, OwnInv

\* The stream tells that the meeting has ended.
LEMMA EndsMedia ==
    ASSUME CaptureIInv, MediaInv, MeetingEnds
    PROVE  MediaInv'
<1> USE DEF engineVars, lifeVars, mediaVars, captureVars, managerVars, engineStateVars, pageVars,
            lobbyVars
<1>1. /\ UNCHANGED <<page, shown, m_open, m_source_id, registered, publishing, frame, joined>>
      /\ UNCHANGED <<m_observers, m_submodel_initialized, m_current_meeting_id, notice>>
      /\ Event = << >>
  BY DEF MeetingEnds, Idle, Event
<1>2. PICK list : /\ Starts("event", list)
                  /\ \/ list = << >>
                     \/ /\ list = <<Do("cleanup", "meeting"), Do("tell", "page")>>
                        /\ m_current_meeting_id # 0
  BY DEF MeetingEnds
<1>3. Event' = list /\ Ui' = Ui
  <2>1. todo' = [todo EXCEPT !["event"] = list] /\ TypeInv
    BY <1>2 DEF Starts, CaptureIInv
  <2> QED
    BY <2>1, ListChanges DEF Threads, Ui, Event
<1>4. EventInv'
  <2>1. CASE list = << >>
    BY <1>3, <2>1, Nothing DEF EventInv
  <2>2. CASE list = <<Do("cleanup", "meeting"), Do("tell", "page")>>
    <3>1. Two(list, "cleanup", "meeting", "tell", "page")
      BY <2>2, TwoIs, WorksDiffer
    <3>2. list \in Seq(EventWork)
      <4>1. Do("cleanup", "meeting") \in EventWork /\ Do("tell", "page") \in EventWork
        BY DEF EventWork
      <4> QED
        BY <2>2, <4>1
    <3> QED
      BY <1>3, <3>1, <3>2 DEF EventInv, Two
  <2> QED
    BY <1>2, <2>1, <2>2
<1>5. OpeningInv' /\ ClosingInv' /\ LastInv' /\ QuitInv'
  BY <1>1, <1>3 DEF OpeningInv, Opening, ClosingInv, Closing, LastInv, QuitInv, Gone, Exiting,
                    Leaving, MediaInv
<1>6. ASSUME NEW k \in Kinds PROVE Owned(k)'
  <2>1. Owned(k)
    BY DEF MediaInv, OwnInv
  <2> QED
    BY <1>1, <1>3, <2>1, Nothing DEF Owned
<1>7. TruthInv'
  <2>1. Doomed => Doomed'
    BY <1>1, <1>3 DEF Doomed, Gone, Exiting, Leaving
  <2>2. \A k \in Kinds : Truth(k) => Truth(k)'
    BY <1>1, <1>3 DEF Truth
  <2> QED
    BY <2>1, <2>2 DEF TruthInv, MediaInv
<1>8. FrameInvariant'
  BY <1>1, <1>2, <1>3 DEF FrameInvariant, FrameFits, MediaInv
<1> QED
  BY <1>4, <1>5, <1>6, <1>7, <1>8 DEF MediaInv, OwnInv

-----------------------------------------------------------------------------
(* Frames, the start, and all steps together.                               *)

LEMMA FrameMedia ==
    ASSUME CaptureIInv, MediaInv,
           (\E k \in Kinds : Arrives(k) \/ FrameStep(k)) \/ UNCHANGED vars
    PROVE  MediaInv'
<1> USE DEF engineVars, lifeVars, mediaVars, pageVars, lobbyVars
<1>1. UNCHANGED <<managerVars, engineStateVars, todo, engineVars, pageVars>>
  BY DEF Arrives, FrameStep, Frame, Deliver, Accept, Push, vars, captureVars
<1>2. /\ UNCHANGED <<page, shown, m_open, m_source_id, registered, publishing, joined>>
      /\ UNCHANGED <<m_observers, m_submodel_initialized, m_current_meeting_id, notice, todo>>
  BY <1>1 DEF managerVars, engineStateVars
<1>3. Ui' = Ui /\ Event' = Event
  BY <1>2 DEF Ui, Event
<1>4. OpeningInv' /\ EventInv' /\ ClosingInv' /\ LastInv' /\ OwnInv'
  BY <1>2, <1>3 DEF OpeningInv, Opening, EventInv, ClosingInv, Closing, LastInv, OwnInv, Owned,
                    MediaInv
<1>5. QuitInv' /\ TruthInv'
  BY <1>2, <1>3 DEF QuitInv, TruthInv, Doomed, Truth, Gone, Exiting, Leaving, MediaInv
<1>6. FrameFits'
  <2> DEFINE Frames == [at : {"none", "manager", "engine", "push"}, of : 0..MaxMeetings]
  <2>1. frame \in [Kinds -> Frames] /\ FrameFits
    BY DEF CaptureIInv, TypeInv, MediaTypeOK, MediaInv, FrameInvariant
  <2>2. CASE UNCHANGED vars
    BY <1>2, <2>1, <2>2 DEF vars, captureVars, FrameFits
  <2>3. ASSUME NEW k \in Kinds, Arrives(k) \/ FrameStep(k)
        PROVE  \E f : /\ frame' = [frame EXCEPT ![k] = f]
                      /\ f # NoFrame => k \in registered /\ f.of = joined
    <3>1. CASE Arrives(k)
      <4> DEFINE f == [at |-> "manager", of |-> joined]
      <4>1. frame' = [frame EXCEPT ![k] = f] /\ k \in registered /\ f.of = joined
        BY <3>1 DEF Arrives, Frame, Delivers
      <4> QED
        BY <4>1
    <3>2. CASE FrameStep(k)
      <4>1. frame[k] \in Frames
        BY <2>1
      <4>2. frame[k].at \in {"manager", "engine", "push"}
        BY <3>2 DEF FrameStep, Deliver, Accept, Push
      <4>3. k \in registered /\ frame[k].of = joined
        BY <2>1, <4>2 DEF FrameFits, NoFrame
      <4>4. \A a \in {"engine", "push"} : [frame[k] EXCEPT !.at = a].of = joined
        BY <4>1, <4>3
      <4>5. PICK f \in {NoFrame, [frame[k] EXCEPT !.at = "engine"],
                        [frame[k] EXCEPT !.at = "push"]} : frame' = [frame EXCEPT ![k] = f]
        BY <3>2 DEF FrameStep, Deliver, Accept, Push
      <4> QED
        BY <4>3, <4>4, <4>5
    <3> QED
      BY <2>3, <3>1, <3>2
  <2>4. CASE \E k \in Kinds : Arrives(k) \/ FrameStep(k)
    <3>1. PICK k \in Kinds : Arrives(k) \/ FrameStep(k)
      BY <2>4
    <3>2. PICK f : /\ frame' = [frame EXCEPT ![k] = f]
                   /\ f # NoFrame => k \in registered /\ f.of = joined
      BY <2>3, <3>1
    <3>3. ASSUME NEW i \in Kinds, frame'[i] # NoFrame
          PROVE  i \in registered' /\ frame'[i].of = joined'
      <4>1. CASE i = k
        <5>1. frame'[i] = f
          BY <2>1, <3>2, <4>1
        <5> QED
          BY <1>2, <3>2, <3>3, <4>1, <5>1
      <4>2. CASE i # k
        <5>1. frame'[i] = frame[i]
          BY <2>1, <3>2, <4>2
        <5> QED
          BY <1>2, <2>1, <3>3, <5>1 DEF FrameFits
      <4> QED
        BY <4>1, <4>2
    <3> QED
      BY <3>3 DEF FrameFits
  <2> QED
    BY <2>2, <2>4
<1>7. FrameInvariant'
  BY <1>2, <1>3, <1>6 DEF FrameInvariant, MediaInv
<1> QED
  BY <1>4, <1>5, <1>7 DEF MediaInv

LEMMA MediaInit == Init => MediaInv
<1> SUFFICES ASSUME Init PROVE MediaInv
  OBVIOUS
<1>1. Ui = Starting4 /\ Event = << >>
  BY DEF Init, Threads, Starting4, Ui, Event
<1>2. /\ m_open = {} /\ publishing = {} /\ m_source_id = {} /\ registered = {} /\ shown = {}
      /\ ~m_observers /\ ~m_submodel_initialized /\ ~page /\ m_current_meeting_id = 0
      /\ \A k \in Kinds : frame[k] = NoFrame
  BY DEF Init, CaptureManagerInit, CaptureEngineInit
<1>3. Calm(Ui)
  BY <1>1, FixedIsCalm
<1>4. /\ {"exit"} \subseteq MediaWork /\ {"leave"} \subseteq MediaWork
      /\ {"leave", "exit"} \subseteq MediaWork /\ {"uninit"} \subseteq MediaWork
      /\ {"forget"} \subseteq MediaWork /\ {"cleanup", "snapshot"} \subseteq MediaWork
      /\ {"list"} \subseteq MediaWork /\ "exit" \in MediaWork
  BY DEF MediaWork
<1>5. OpeningInv
  <2>1. \A k : ~Opens(Ui, k)
    BY <1>3, CalmIs
  <2> QED
    BY <2>1 DEF OpeningInv, Opening, Opens
<1>6. EventInv
  <2>1. << >> \in Seq(EventWork)
    OBVIOUS
  <2> QED
    BY <1>1, <2>1, Nothing DEF EventInv
<1>7. ClosingInv /\ OwnInv
  BY <1>2 DEF ClosingInv, Closing, OwnInv, Owned
<1>8. LastInv
  <2>1. LeavesLast(Ui) /\ Final(Ui, "exit", "page")
    BY <1>3, <1>4, CalmIs
  <2>2. \A k \in Kinds : ~Pending(Ui, {"list"}, k)
    BY <1>3, <1>4 DEF Calm
  <2> QED
    BY <2>1, <2>2 DEF LastInv
<1>9. QuitInv
  <2>1. /\ ~Pending(Ui, {"leave"}, "page") /\ ~Pending(Ui, {"leave", "exit"}, "quit")
        /\ ~Pending(Ui, {"uninit"}, "engine") /\ ~Pending(Ui, {"forget"}, "managers")
        /\ ~Pending(Ui, {"cleanup", "snapshot"}, "meeting")
    BY <1>3, <1>4 DEF Calm
  <2> QED
    BY <1>2, <2>1 DEF QuitInv, Leaving
<1>10. TruthInv /\ FrameInvariant
  BY <1>1, <1>2 DEF TruthInv, Doomed, FrameInvariant, FrameFits
<1> QED
  BY <1>5, <1>6, <1>7, <1>8, <1>9, <1>10 DEF MediaInv

LEMMA MediaPageStep ==
    ASSUME CaptureIInv, MediaInv, PageStep
    PROVE  MediaInv'
<1>1. CASE \/ \E m \in Managers : Start(m)
           \/ \E k \in Kinds : Select(k) \/ List(k)
           \/ AcceptMedia \/ JoinRefused \/ JoinThread
  BY <1>1, StartMedia
<1>2. CASE (\E m \in Managers : StartFails(m)) \/ Wire \/ Observe \/ StopService
  BY <1>2, BeginMedia
<1>3. CASE Join \/ SetRoom \/ SetRoomFails
  BY <1>3, JoinMedia
<1>4. CASE Enter \/ SubscribeFails
  BY <1>4, EnterMedia
<1>5. CASE \E k \in Kinds : Show(k)
  BY <1>5, ShowMedia DEF Threads
<1>6. CASE \E k \in Kinds : Hide(k)
  BY <1>6, CloseMedia
<1>7. CASE \E purpose \in {"page", "quit"} : LeaveRefused(purpose)
  BY <1>7, StayMedia, RefusedMedia
<1>8. CASE (\E purpose \in {"page", "quit"} : LeaveAgreed(purpose)) \/ Uninit
  BY <1>8, LeaveMedia
<1>9. CASE \E purpose \in {"page", "quit"} : Exit(purpose)
  BY <1>9, ExitMedia
<1>10. CASE ForgetManagers
  BY <1>10, ForgetMedia
<1>11. CASE DisconnectCapture \/ StopsCapture \/ StopTransport \/ StopRender
  BY <1>11, StopMedia
<1> QED
  BY <1>1, <1>2, <1>3, <1>4, <1>5, <1>6, <1>7, <1>8, <1>9, <1>10, <1>11 DEF PageStep

LEMMA MediaWorkStep ==
    ASSUME CaptureIInv, MediaInv, NEW t \in Threads, Work(t)
    PROVE  MediaInv'
<1> USE DEF Threads
<1>1. CASE Refuse(t) \/ Snapshot(t)
  <2>1. CASE t = "ui"
    BY <1>1, <2>1, TurnMedia, SnapshotMedia
  <2>2. CASE t = "event"
    BY <1>1, <2>2, EventMedia
  <2> QED
    BY <2>1, <2>2
<1>2. CASE \E k \in Kinds : EngineStep(t, k)
  <2>1. PICK k \in Kinds : EngineStep(t, k)
    BY <1>2
  <2>2. CASE CheckOpen(t, k) \/ Publish(t, k)
    BY <2>2, PublishMedia
  <2>3. CASE Flag(t, k)
    BY <2>3, ShowMedia
  <2>4. CASE CheckClose(t, k)
    <3>1. t = "ui"
      BY <2>4, UiDoes DEF CheckClose, MediaInv
    <3> QED
      BY <2>4, <3>1, CloseMedia, UncoverMedia
  <2>5. CASE Unpublish(t, k)
    BY <2>5, CloseMedia, EventMedia
  <2>6. CASE Unflag(t, k)
    <3>1. t = "ui"
      BY <2>6, UiDoes DEF Unflag, MediaInv
    <3> QED
      BY <2>6, <3>1, CloseMedia
  <2> QED
    BY <2>1, <2>2, <2>3, <2>4, <2>5, <2>6 DEF EngineStep
<1>3. CASE \E k \in Kinds : CaptureStep(t, k) /\ UNCHANGED <<engineVars, pageVars>>
  <2>1. PICK k \in Kinds : CaptureStep(t, k) /\ UNCHANGED <<engineVars, pageVars>>
    BY <1>3
  <2>2. CASE Register(t, k) \/ Create(t, k) \/ CreateFails(t, k)
    BY <2>1, <2>2, SourceMedia
  <2>3. CASE Release(t, k)
    <3>1. CASE t = "ui"
      BY <2>1, <2>3, <3>1, TurnMedia, CloseMedia
    <3>2. CASE t = "event"
      BY <2>1, <2>3, <3>2, EventMedia
    <3> QED
      BY <3>1, <3>2
  <2>4. CASE Unregister(t, k)
    BY <2>1, <2>4, CloseMedia, EventMedia
  <2> QED
    BY <2>1, <2>2, <2>3, <2>4 DEF CaptureStep
<1>4. CASE \E k \in Kinds : Detach(t, k) /\ UNCHANGED <<engineVars, pageVars>>
  BY <1>4, StopMedia
<1>5. CASE t = "ui" /\ PageStep
  BY <1>5, MediaPageStep
<1>6. CASE t = "event" /\ Tell
  BY <1>6, TellMedia
<1> QED
  BY <1>1, <1>2, <1>3, <1>4, <1>5, <1>6 DEF Work

LEMMA MediaNext ==
    ASSUME CaptureIInv, MediaInv, [Next]_vars
    PROVE  MediaInv'
<1>1. CASE Login \/ \E k \in Kinds : Toggle(k)
  BY <1>1, ToggleMedia
<1>2. CASE Submit
  BY <1>2, JoinMedia
<1>3. CASE Leave \/ HandleMeetingEnded
  BY <1>3, LeavePageMedia, LateMedia
<1>4. CASE Shutdown
  BY <1>4, ShutdownMedia
<1>5. CASE \E k \in Kinds : \E d \in Devices[k] : Pick(k, d)
  BY <1>5, PickMedia DEF Pick
<1>6. CASE MeetingEnds
  BY <1>6, EndsMedia
<1>7. CASE \E t \in Threads : Work(t)
  BY <1>7, MediaWorkStep
<1>8. CASE (\E k \in Kinds : Arrives(k) \/ FrameStep(k)) \/ UNCHANGED vars
  BY <1>8, FrameMedia
<1> QED
  BY <1>1, <1>2, <1>3, <1>4, <1>5, <1>6, <1>7, <1>8 DEF Next, User

\* Outside a meeting, and with nothing left to do, everything is off.
LEMMA OffOutside ==
    ASSUME CaptureIInv, MediaInv, ~page, Event = << >>,
           \A k \in Kinds : ~Pending(Ui, OpenWork, k)
                            /\ ~Pending(Ui, {"release", "unregister"}, k)
                            /\ ~Pending(Ui, {"unpublish"}, k)
    PROVE  /\ m_source_id = {} /\ registered = {} /\ publishing = {}
           /\ m_open = {} /\ shown = {}
<1>1. ASSUME NEW k \in Kinds
      PROVE  k \notin m_source_id \cup registered \cup publishing \cup m_open \cup shown
  <2>1. Owned(k) /\ ~Opens(Ui, k)
    BY OpensWorks DEF MediaInv, OwnInv
  <2> QED
    BY <2>1, Nothing DEF Owned, Opens
<1>2. /\ m_source_id \subseteq Kinds /\ registered \subseteq Kinds /\ publishing \subseteq Kinds
      /\ m_open \subseteq Kinds /\ shown \subseteq Kinds
  BY DEF CaptureIInv, TypeInv, MediaTypeOK
<1> QED
  BY <1>1, <1>2

LEMMA MediaInvShown == CaptureIInv /\ MediaInv => MediaAsShown
<1> SUFFICES ASSUME CaptureIInv, MediaInv PROVE MediaAsShown
  OBVIOUS
<1>1. ASSUME Ui = << >>, Event = << >>, ~notice
      PROVE  shown = m_open /\ m_open = m_source_id /\ m_source_id = publishing
  <2>1. CASE page
    <3>1. ~Doomed
      BY <1>1, <2>1, NothingDoes DEF Doomed
    <3>2. ASSUME NEW k \in Kinds
          PROVE  /\ k \in shown <=> k \in m_open
                 /\ k \in m_source_id <=> k \in m_open
                 /\ k \in publishing <=> k \in m_open
      <4>1. Truth(k) /\ Owned(k)
        BY <3>1 DEF MediaInv, TruthInv, OwnInv
      <4> QED
        BY <1>1, <4>1, Nothing DEF Truth, Owned
    <3>3. /\ shown \subseteq Kinds /\ m_open \subseteq Kinds /\ m_source_id \subseteq Kinds
          /\ publishing \subseteq Kinds
      BY DEF CaptureIInv, TypeInv, MediaTypeOK
    <3> QED
      BY <3>2, <3>3
  <2>2. CASE ~page
    BY <1>1, <2>2, Nothing, OffOutside
  <2> QED
    BY <2>1, <2>2
<1>2. PageTellsTruth
  BY <1>1 DEF PageTellsTruth, AtRest, Idle, Threads, Ui, Event
<1>3. ASSUME Event = << >>, Has("ui", "list", "camera")
      PROVE  m_source_id = {} /\ registered = {} /\ publishing = {}
  <2>1. Ui # << >> /\ Head(Ui) = Do("list", "camera") /\ Ui \in Seq(AnyWork)
    BY <1>3, UiIsAny DEF Has, Idle, Ui
  <2>2. Pending(Ui, {"list"}, "camera")
    <3>1. Do("list", "camera") \in Works({"list"}, "camera")
      BY WorksAre
    <3> QED
      BY <2>1, <3>1, Begun
  <2>3. Ui \in {ListDevices, <<Do("list", "mic")>>}
    BY <2>2 DEF LastInv, MediaInv, Kinds
  <2>4. ~page
    <3>1. Ui[1] = Do("list", "camera") /\ 1 \in DOMAIN Ui
      BY <2>1, <2>3 DEF ListDevices
    <3>2. Do("list", "camera") \in Lists
      BY DEF Lists, Kinds, Do
    <3> QED
      BY <3>1, <3>2 DEF CaptureIInv, PageInv, Without, Ui
  <2>5. ASSUME NEW k \in Kinds
        PROVE  /\ ~Pending(Ui, OpenWork, k) /\ ~Pending(Ui, {"release", "unregister"}, k)
               /\ ~Pending(Ui, {"unpublish"}, k)
    <3>1. "list" \notin OpenWork
      BY DEF OpenWork
    <3>2. CASE Ui = ListDevices
      <4>1. Two(Ui, "list", "camera", "list", "mic")
        BY <3>2, TwoIs, WorksDiffer DEF ListDevices
      <4> QED
        BY <3>1, <4>1 DEF Two
    <3>3. CASE Ui = <<Do("list", "mic")>>
      <4>1. One(Ui, "list", "mic")
        BY <3>3, OneIs
      <4> QED
        BY <3>1, <4>1 DEF One
    <3> QED
      BY <2>3, <3>2, <3>3
  <2> QED
    BY <1>3, <2>4, <2>5, OffOutside
<1>4. ASSUME Event = << >>, Ui = << >>, ~page
      PROVE  m_source_id = {} /\ registered = {} /\ publishing = {}
  BY <1>4, Nothing, OffOutside
<1>5. LobbyIsOff
  BY <1>3, <1>4 DEF LobbyIsOff, Idle, Ui, Event
<1> QED
  BY <1>2, <1>5 DEF MediaAsShown

LEMMA MediaInvFrame == CaptureIInv /\ MediaInv => FrameStaysInMeeting
<1> SUFFICES ASSUME CaptureIInv, MediaInv, NEW k \in publishing, frame[k].at = "push"
             PROVE  frame[k].of = joined
  BY DEF FrameStaysInMeeting
<1>1. k \in Kinds
  BY DEF CaptureIInv, TypeInv, MediaTypeOK
<1>2. frame[k] # NoFrame
  BY DEF NoFrame
<1> QED
  BY <1>1, <1>2 DEF MediaInv, FrameInvariant, FrameFits

\* Whatever the devices and however many meetings are entered: when neither the
\* page nor the event thread has anything to do and no end of a meeting is on
\* its way, the buttons of the page show what VceEngineImpl, CaptureManager and
\* the transports do with the camera and the microphone, although each of them
\* keeps that in a variable of its own and the end of a meeting changes these on
\* another thread while the page may be opening a device; and outside a meeting
\* everything is off.
THEOREM MediaShown == Spec => []MediaAsShown
<1>1. Init => CaptureIInv /\ MediaInv
  BY CaptureInit, MediaInit
<1>2. CaptureIInv /\ MediaInv /\ [Next]_vars => CaptureIInv' /\ MediaInv'
  BY CaptureNext, MediaNext
<1>3. CaptureIInv /\ MediaInv => MediaAsShown
  BY MediaInvShown
<1> QED
  BY <1>1, <1>2, <1>3, PTL DEF Spec

\* A frame that libobs delivered in a meeting, and that is held up on its way
\* through CaptureManager and VceEngineImpl, is not sent in a later one: leaving
\* a meeting waits for the callback that runs.
THEOREM FramesStay == Spec => []FrameStaysInMeeting
<1>1. Init => CaptureIInv /\ MediaInv
  BY CaptureInit, MediaInit
<1>2. CaptureIInv /\ MediaInv /\ [Next]_vars => CaptureIInv' /\ MediaInv'
  BY CaptureNext, MediaNext
<1>3. CaptureIInv /\ MediaInv => FrameStaysInMeeting
  BY MediaInvFrame
<1> QED
  BY <1>1, <1>2, <1>3, PTL DEF Spec

=============================================================================
