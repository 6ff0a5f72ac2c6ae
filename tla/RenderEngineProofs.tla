-------------------------- MODULE RenderEngineProofs ---------------------------
(* Proofs about the render engine, for any speakers, users, sizes and times: *)
(* first the speaker, that is AudioRender, its worker thread and the calls   *)
(* that wait for it; then the users, that is their frames, what the driver   *)
(* has for them and what their windows show.                                 *)
EXTENDS RenderEngine, FiniteSetTheorems, TLAPS

-----------------------------------------------------------------------------
(* The inductive invariant: for every call of the manager, how far the       *)
(* worker has come with its command and what there is of a device by then.   *)

SpeakerNames == Speakers \cup {NoSpeaker}

WorkerStages == {"none", "waiting", "initialize", "switch", "open", "restore", "fallback",
                 "enumerate", "shutdown", "exit", "ended"}

Commands == [kind : WorkerStages, target : SpeakerNames, pending : BOOLEAN,
             completed : BOOLEAN, success : BOOLEAN]

OutputTypeOK ==
    /\ engine \in BOOLEAN /\ m_initialized \in BOOLEAN /\ m_worker_running \in BOOLEAN
    /\ context \in BOOLEAN /\ worker \in WorkerStages
    /\ call \in {"none", "initialize", "give up", "uninit", "switch", "list"}
    /\ command \in Commands
    /\ device \in SpeakerNames /\ m_current_device_id \in SpeakerNames

NoDevice == device = NoSpeaker /\ ~context
Closed == ~engine /\ ~m_initialized /\ Added = {} /\ clock = 0

\* The command lies ready, is done, and has been done.
Asked(kind) ==
    worker = "waiting" /\ command.kind = kind /\ command.pending /\ ~command.completed
Doing(stages) == worker \in stages /\ ~command.pending /\ ~command.completed
Done == worker = "waiting" /\ ~command.pending /\ command.completed

FreeInv ==
    call = "none" =>
        \/ Closed /\ NoDevice /\ worker = "none" /\ ~m_worker_running
        \/ engine /\ worker = "waiting" /\ ~command.pending /\ m_worker_running

InitializeInv ==
    call = "initialize" =>
        /\ Closed /\ m_worker_running
        /\ \/ (Asked("initialize") \/ Doing({"initialize"})) /\ NoDevice
           \/ Done /\ command.success /\ device # NoSpeaker
           \/ Done /\ ~command.success /\ NoDevice

\* A failed Initialize and Uninit end the worker in the same way.
Shutting == Asked("shutdown") \/ Doing({"shutdown"})
ShutDown ==
    /\ NoDevice /\ command.completed /\ ~command.pending
    /\ \/ worker = "exit" /\ m_worker_running
       \/ worker = "ended" /\ ~m_worker_running

ShutdownInv ==
    /\ call = "give up" =>
           Closed /\ ((Shutting /\ NoDevice /\ m_worker_running) \/ ShutDown)
    /\ call = "uninit" =>
           /\ ~engine /\ ~m_initialized
           /\ (Shutting /\ m_worker_running) \/ ShutDown

Switching ==
    \/ Asked("switch") \/ Doing({"switch"})
    \/ Doing({"open", "restore", "fallback"}) /\ device = NoSpeaker

SwitchInv ==
    call = "switch" =>
        /\ engine /\ m_worker_running
        /\ \/ Switching /\ command.target \in Speakers
                        /\ command.target # m_current_device_id
           \/ Done /\ (command.success => device # NoSpeaker)

ListInv ==
    call = "list" =>
        engine /\ m_worker_running /\ (Asked("enumerate") \/ Doing({"enumerate"}) \/ Done)

\* Between two calls and while nothing is closed a device plays for the callback.
PlayingInv ==
    m_initialized => device # NoSpeaker \/ Doing({"open", "restore", "fallback"})

NameInv == device # NoSpeaker => device = m_current_device_id

PhaseInv == FreeInv /\ InitializeInv /\ ShutdownInv /\ SwitchInv /\ ListInv

OutputIInv == OutputTypeOK /\ PhaseInv /\ PlayingInv /\ NameInv
-----------------------------------------------------------------------------
(* The first state and the steps of the worker.                              *)

LEMMA OutputInitially == Init => OutputIInv
<1> SUFFICES ASSUME Init PROVE OutputIInv
  OBVIOUS
<1>1. Added = {}
  BY DEF Init, Added
<1>2. OutputTypeOK
  BY DEF Init, OutputInit, NoCommand, OutputTypeOK, Commands, SpeakerNames, WorkerStages
<1> QED
  BY <1>1, <1>2 DEF Init, OutputInit, OutputIInv, PhaseInv, FreeInv, InitializeInv,
     ShutdownInv, SwitchInv, ListInv, PlayingInv, NameInv, Closed, NoDevice

\* A command that is done keeps the rest of what it was.
LEMMA Completes ==
    ASSUME command \in Commands, NEW success \in BOOLEAN, Complete(success)
    PROVE  /\ command' \in Commands /\ command'.completed /\ command'.success = success
           /\ command'.pending = command.pending
BY DEF Commands, WorkerStages, SpeakerNames, Complete

\* A device that is opened is one, and is the one the name says.
LEMMA Opens ==
    ASSUME NEW id \in SpeakerNames, OpenDevice(id)
    PROVE  device' \in Speakers /\ m_current_device_id' = device' /\ device' # NoSpeaker
BY SpeakerAssumption DEF SpeakerAssumption, OpenDevice, SpeakerNames

LEMMA WorkerKeepsOutput == OutputIInv /\ WorkerStep => OutputIInv'
<1> SUFFICES ASSUME OutputIInv, WorkerStep PROVE OutputIInv'
  OBVIOUS
<1> USE DEF OutputIInv, OutputTypeOK, WorkerStep, callVars, videoVars, deviceVars, PhaseInv,
    FreeInv, InitializeInv, ShutdownInv, SwitchInv, ListInv, PlayingInv, NameInv, Closed,
    NoDevice, Asked, Doing, Done, Shutting, ShutDown, Switching, Added
<1>0. command \in Commands /\ m_current_device_id \in SpeakerNames /\ NoSpeaker \in SpeakerNames
      /\ command.target \in SpeakerNames /\ Speakers \subseteq SpeakerNames
  BY DEF SpeakerNames, Commands
<1>1. CASE TakeCommand
  BY <1>1 DEF TakeCommand, Commands, WorkerStages, SpeakerNames
<1>2. CASE DoInitialize
  <2>1. CASE context' = TRUE /\ OpenDevice(NoSpeaker) /\ CompleteAndWait(TRUE)
    BY <1>0, <1>2, <2>1, Opens, Completes DEF DoInitialize, CompleteAndWait, WorkerStages
  <2>2. CASE CompleteAndWait(FALSE) /\ UNCHANGED deviceVars
    BY <1>0, <1>2, <2>2, Completes DEF DoInitialize, CompleteAndWait, WorkerStages
  <2> QED
    BY <1>2, <2>1, <2>2 DEF DoInitialize
<1>3. CASE CloseDevice
  BY <1>3 DEF CloseDevice, WorkerStages, SpeakerNames
<1>4. CASE OpenTarget
  <2>1. CASE OpenDevice(command.target) /\ CompleteAndWait(TRUE)
    BY <1>0, <1>4, <2>1, Opens, Completes DEF OpenTarget, CompleteAndWait, WorkerStages
  <2>2. CASE worker' = "restore" /\ UNCHANGED <<command, device, m_current_device_id>>
    BY <1>4, <2>2 DEF OpenTarget, WorkerStages
  <2> QED
    BY <1>4, <2>1, <2>2 DEF OpenTarget
<1>5. CASE RestoreDevice
  <2>1. CASE OpenDevice(m_current_device_id) /\ Restored(TRUE)
    BY <1>0, <1>5, <2>1, Opens, Completes
       DEF RestoreDevice, Restored, CompleteAndWait, WorkerStages
  <2>2. CASE worker' = "fallback"
             /\ UNCHANGED <<m_initialized, command, device, m_current_device_id>>
    BY <1>5, <2>2 DEF RestoreDevice, WorkerStages
  <2> QED
    BY <1>5, <2>1, <2>2 DEF RestoreDevice
<1>6. CASE FallBack
  <2>1. CASE OpenDevice(NoSpeaker) /\ Restored(TRUE)
    BY <1>0, <1>6, <2>1, Opens, Completes
       DEF FallBack, Restored, CompleteAndWait, WorkerStages
  <2>2. CASE Restored(FALSE) /\ UNCHANGED <<device, m_current_device_id>>
    BY <1>0, <1>6, <2>2, Completes DEF FallBack, Restored, CompleteAndWait, WorkerStages
  <2> QED
    BY <1>6, <2>1, <2>2 DEF FallBack
<1>7. CASE DoEnumerate
  <2>1. PICK success \in BOOLEAN : CompleteAndWait(success)
    BY <1>7 DEF DoEnumerate
  <2> QED
    BY <1>0, <1>7, <2>1, Completes DEF DoEnumerate, CompleteAndWait, WorkerStages
<1>8. CASE DoShutdown
  BY <1>0, <1>8, Completes DEF DoShutdown, WorkerStages
<1>9. CASE ExitWorker
  BY <1>9 DEF ExitWorker, WorkerStages
<1> QED
  BY <1>1, <1>2, <1>3, <1>4, <1>5, <1>6, <1>7, <1>8, <1>9 DEF WorkerStep, Worker

-----------------------------------------------------------------------------
(* The calls that wait for the worker.                                       *)

LEMMA CallsKeepOutput ==
    OutputIInv /\ (Initialize \/ Uninit \/ ListSpeakers \/ Returns
                     \/ \E id \in Speakers : SwitchSpeaker(id))
        => OutputIInv'
<1> SUFFICES ASSUME OutputIInv,
                    Initialize \/ Uninit \/ ListSpeakers \/ Returns
                        \/ \E id \in Speakers : SwitchSpeaker(id)
             PROVE OutputIInv'
  OBVIOUS
<1> USE DEF OutputIInv, OutputTypeOK, WorkerStages, SpeakerNames, outputVars,
    videoVars, deviceVars, PhaseInv, FreeInv, InitializeInv, ShutdownInv, SwitchInv, ListInv,
    PlayingInv, NameInv, Closed, NoDevice, Asked, Doing, Done, Shutting, ShutDown, Switching,
    Added, Free, Serving, Send, Answered, Succeeded, Commands
<1>1. CASE Initialize
  BY <1>1 DEF Initialize
<1>2. CASE Uninit
  BY <1>2 DEF Uninit
<1>3. CASE ListSpeakers
  BY <1>3 DEF ListSpeakers
<1>4. CASE \E id \in Speakers : SwitchSpeaker(id)
  BY <1>4 DEF SwitchSpeaker
<1>5. CASE Initialized
  BY <1>5 DEF Initialized
<1>6. CASE InitializeFails
  BY <1>6 DEF InitializeFails
<1>7. CASE GiveUp
  BY <1>7 DEF GiveUp
<1>8. CASE UninitReturns
  <2>1. DOMAIN m_user_contexts' = {}
    BY <1>8 DEF UninitReturns
  <2> QED
    BY <1>8, <2>1 DEF UninitReturns
<1>9. CASE SwitchReturns
  BY <1>9 DEF SwitchReturns
<1>10. CASE ListReturns
  BY <1>10 DEF ListReturns
<1> QED
  BY <1>1, <1>2, <1>3, <1>4, <1>5, <1>6, <1>7, <1>8, <1>9, <1>10 DEF Returns

-----------------------------------------------------------------------------
(* Sound, users and frames touch neither the worker nor the device; they     *)
(* come while an engine serves or the callback finds m_initialized set.      *)

LEMMA DataKeepsOutput ==
    ASSUME OutputIInv, UNCHANGED <<callVars, outputVars>>,
           (~engine /\ ~m_initialized) => UNCHANGED <<clock, m_user_contexts>>
    PROVE  OutputIInv'
<1> USE DEF callVars, outputVars, deviceVars, OutputIInv
<1>1. OutputTypeOK'
  BY DEF OutputTypeOK
<1>2. Closed => Closed'
  BY DEF Closed, Added
<1>3. PhaseInv'
  BY <1>2 DEF PhaseInv, FreeInv, InitializeInv, ShutdownInv, SwitchInv, ListInv, NoDevice,
              Asked, Doing, Done, Shutting, ShutDown, Switching
<1>4. PlayingInv' /\ NameInv'
  BY DEF PlayingInv, NameInv, Doing
<1> QED
  BY <1>1, <1>3, <1>4

LEMMA NextKeepsOutput == OutputIInv /\ [Next]_vars => OutputIInv'
<1> SUFFICES ASSUME OutputIInv, [Next]_vars PROVE OutputIInv'
  OBVIOUS
<1>1. CASE WorkerStep
  BY <1>1, WorkerKeepsOutput
<1>2. CASE Initialize \/ Uninit \/ ListSpeakers \/ Returns
             \/ \E id \in Speakers : SwitchSpeaker(id)
  BY <1>2, CallsKeepOutput
<1>3. CASE KeepSpeaker \/ AudioPlays \/ AudioStarts
  BY <1>3, DataKeepsOutput DEF KeepSpeaker, AudioPlays, AudioStarts, CallbackPops, Serving
<1>4. CASE \E u \in Users, is_local \in BOOLEAN, fails \in Stages, mesh, texture \in Gifts :
               AddUser(u, is_local, fails, mesh, texture)
  BY <1>4, DataKeepsOutput DEF AddUser, Serving
<1>5. CASE \E u \in Users : RemoveUser(u)
  BY <1>5, DataKeepsOutput DEF RemoveUser, Serving
<1>6. CASE \E u \in Users, given \in Gifts : RenderUser(u, given)
  BY <1>6, DataKeepsOutput DEF RenderUser, ChooseFrame, Serving
<1>7. CASE \E u \in Users, size \in Sizes : UpdateUserVideoSize(u, size)
  BY <1>7, DataKeepsOutput DEF UpdateUserVideoSize
<1>8. CASE \E u \in Users, ts \in Times : PushVideoFrame(u, ts)
  BY <1>8, DataKeepsOutput DEF PushVideoFrame, Serving
<1>9. CASE UNCHANGED vars
  BY <1>9, DataKeepsOutput DEF vars, videoVars
<1> QED
  BY <1>1, <1>2, <1>3, <1>4, <1>5, <1>6, <1>7, <1>8, <1>9 DEF Next

LEMMA OutputFollows == OutputIInv => OutputInvariant
BY DEF OutputIInv, PhaseInv, FreeInv, InitializeInv, ShutdownInv, SwitchInv, ListInv,
       PlayingInv, NameInv, Closed, NoDevice, Asked, Doing, Done, Shutting, ShutDown,
       Switching, OutputInvariant, ReadyMeansDevice, NamesPlayingDevice, GoneIsQuiet, Free,
       OutputTypeOK

\* AudioRender and RenderManager: between two calls the callback takes sound
\* only from an open device, the current speaker is the one that plays, also
\* while a failed switch is taken back, and an engine that is gone leaves
\* nothing behind, whichever devices fail to open.
THEOREM OutputHolds == Spec => []OutputInvariant
<1>1. Init => OutputIInv
  BY OutputInitially
<1>2. OutputIInv /\ [Next]_vars => OutputIInv'
  BY NextKeepsOutput
<1>3. OutputIInv => OutputInvariant
  BY OutputFollows
<1> QED
  BY <1>1, <1>2, <1>3, PTL DEF Spec

-----------------------------------------------------------------------------
(* Names of the driver.                                                     *)

\* A set of numbers has a least one.
LEMMA Least ==
    ASSUME NEW S \in SUBSET Nat, S # {}
    PROVE  \E n \in S : \A m \in S : n <= m
<1> DEFINE R == OpToRel(<, Nat)
<1>1. IsWellFoundedOn(R, Nat)
  BY NatLessThanWellFounded
<1> HIDE DEF R
<1>2. PICK n \in S : \A m \in S : ~(<<m, n>> \in R)
  BY <1>1, WFMin
<1>3. \A m \in S : ~(m < n)
  BY <1>2 DEF R, OpToRel
<1> QED
  BY <1>3

\* How many of the first n names are free.
FreeUpTo(taken, n) == Cardinality({m \in 1 .. n : m \notin taken})

LEMMA FreeCounts ==
    ASSUME NEW taken \in SUBSET (Nat \ {0}), NEW n \in Nat
    PROVE  /\ FreeUpTo(taken, n) \in Nat
           /\ n = 0 => FreeUpTo(taken, n) = 0
           /\ n # 0 => FreeUpTo(taken, n) = FreeUpTo(taken, n - 1) + IF n \in taken THEN 0 ELSE 1
<1> DEFINE S(k) == {m \in 1 .. k : m \notin taken}
<1>1. ASSUME NEW k \in Nat PROVE IsFiniteSet(S(k)) /\ Cardinality(S(k)) \in Nat
  <2>1. IsFiniteSet(1 .. k)
    BY FS_Interval
  <2>2. S(k) \in SUBSET (1 .. k)
    OBVIOUS
  <2> QED
    BY <2>1, <2>2, FS_Subset, FS_CardinalityType
<1>2. n = 0 => S(n) = {}
  OBVIOUS
<1>3. ASSUME n # 0 PROVE S(n) = IF n \in taken THEN S(n - 1) ELSE S(n - 1) \cup {n}
  <2>1. 1 .. n = (1 .. (n - 1)) \cup {n}
    BY <1>3
  <2> QED
    BY <2>1
<1>4. n # 0 => n - 1 \in Nat /\ n \notin S(n - 1)
  OBVIOUS
<1>5. ASSUME n # 0, n \notin taken PROVE Cardinality(S(n)) = Cardinality(S(n - 1)) + 1
  <2>1. IsFiniteSet(S(n - 1)) /\ Cardinality(S(n - 1)) \in Nat
    BY <1>1, <1>4, <1>5
  <2> QED
    BY <1>3, <1>4, <1>5, <2>1, FS_AddElement
<1>6. n # 0 /\ n \in taken => Cardinality(S(n)) = Cardinality(S(n - 1))
  BY <1>3
<1>7. \A k \in Nat : Cardinality(S(k)) \in Nat
  BY <1>1
<1>8. \A k \in Nat : FreeUpTo(taken, k) = Cardinality(S(k))
  BY DEF FreeUpTo
<1>9. n = 0 => Cardinality(S(n)) = 0
  BY <1>2, FS_EmptySet
<1> HIDE DEF S
<1> QED
  BY <1>4, <1>5, <1>6, <1>7, <1>8, <1>9

\* There is always a name that nothing has, and two of them differ.
LEMMA FreeNames ==
    ASSUME NEW os, DOMAIN os \in SUBSET (Nat \ {0}), IsFiniteSet(DOMAIN os),
           NEW i \in Nat \ {0}
    PROVE  /\ FreeName(os, i) \in Nat \ {0} /\ FreeName(os, i) \notin DOMAIN os
           /\ FreeUpTo(DOMAIN os, FreeName(os, i)) = i
<1> DEFINE taken == DOMAIN os
           N == Cardinality(taken) + i
           Enough == {n \in 1 .. N : FreeUpTo(taken, n) >= i}
<1>1. Cardinality(taken) \in Nat /\ N \in Nat \ {0}
  BY FS_CardinalityType
<1>2. FreeUpTo(taken, N) >= i
  <2> DEFINE S == {m \in 1 .. N : m \notin taken}
  <2>1. IsFiniteSet(1 .. N) /\ Cardinality(1 .. N) = N
    BY <1>1, FS_Interval
  <2>2. S = (1 .. N) \ taken
    OBVIOUS
  <2>3. /\ Cardinality((1 .. N) \ taken) = Cardinality(1 .. N) - Cardinality((1 .. N) \cap taken)
        /\ IsFiniteSet((1 .. N) \cap taken)
        /\ Cardinality((1 .. N) \cap taken) <= Cardinality(taken)
    BY <2>1, FS_Difference, FS_Intersection
  <2>4. Cardinality((1 .. N) \cap taken) \in Nat
    BY <2>3, FS_CardinalityType
  <2> HIDE DEF taken
  <2>5. FreeUpTo(taken, N) = Cardinality((1 .. N) \ taken)
    BY <2>2 DEF FreeUpTo
  <2> QED
    BY <1>1, <2>1, <2>3, <2>4, <2>5
<1>3. PICK n \in Enough : \A m \in Enough : n <= m
  <2>1. N \in Enough /\ Enough \in SUBSET Nat
    BY <1>1, <1>2
  <2> HIDE DEF Enough
  <2> QED
    BY <2>1, Least
<1>4. n \in 1 .. N /\ n - 1 \in Nat
  OBVIOUS
<1>5. FreeUpTo(taken, n - 1) < i
  <2>1. FreeUpTo(taken, n - 1) \in Nat /\ (n - 1 = 0 => FreeUpTo(taken, n - 1) = 0)
    BY <1>4, FreeCounts
  <2>2. n - 1 \notin Enough
    BY <1>3, <1>4
  <2>3. n - 1 # 0 => n - 1 \in 1 .. N
    BY <1>1, <1>4
  <2> HIDE DEF N
  <2> QED
    BY <1>4, <2>1, <2>2, <2>3
<1>6. n \notin taken /\ FreeUpTo(taken, n) = i
  <2>1. n \in Nat /\ n # 0
    BY <1>4
  <2>2. FreeUpTo(taken, n) = FreeUpTo(taken, n - 1) + IF n \in taken THEN 0 ELSE 1
    BY <2>1, FreeCounts
  <2>3. FreeUpTo(taken, n - 1) \in Nat /\ FreeUpTo(taken, n) \in Nat /\ FreeUpTo(taken, n) >= i
    BY <1>3, <1>4, <2>1, FreeCounts
  <2> HIDE DEF taken
  <2> QED
    BY <1>5, <2>2, <2>3
<1>7. \E m \in 1 .. N : m \notin taken /\ Cardinality({x \in 1 .. m : x \notin taken}) = i
  BY <1>4, <1>6 DEF FreeUpTo
<1>8. /\ FreeName(os, i) \in 1 .. N /\ FreeName(os, i) \notin taken
      /\ Cardinality({x \in 1 .. FreeName(os, i) : x \notin taken}) = i
  BY <1>7, Zenon DEF FreeName
<1> QED
  BY <1>1, <1>8 DEF FreeUpTo

-----------------------------------------------------------------------------
(* Objects are made and deleted.                                            *)

\* The driver has finitely many objects, each with a name.
Store(os) ==
    /\ os = [n \in DOMAIN os |-> os[n]]
    /\ DOMAIN os \in SUBSET (Nat \ {0}) /\ IsFiniteSet(DOMAIN os)

\* Three names that differ.
Triple(ids) ==
    /\ ids \in [Parts -> Nat \ {0}]
    /\ \A i, j \in Parts : ids[i] = ids[j] => i = j

LEMMA TripleNames ==
    ASSUME NEW ids, Triple(ids)
    PROVE  /\ IsFiniteSet(Names(ids)) /\ Cardinality(Names(ids)) = 3
           /\ Names(ids) \in SUBSET (Nat \ {0}) /\ \A i \in Parts : ids[i] \in Names(ids)
<1>1. 1 \in Parts /\ 2 \in Parts /\ 3 \in Parts /\ \A i \in Parts : i = 1 \/ i = 2 \/ i = 3
  BY DEF Parts
<1>2. ids[1] # ids[2] /\ ids[1] # ids[3] /\ ids[2] # ids[3]
  BY <1>1 DEF Triple
<1>3. Names(ids) = {ids[1]} \cup {ids[2]} \cup {ids[3]}
  BY <1>1 DEF Names, Triple
<1>4. IsFiniteSet({ids[1]}) /\ Cardinality({ids[1]}) = 1
  BY FS_Singleton
<1>5. IsFiniteSet({ids[1]} \cup {ids[2]}) /\ Cardinality({ids[1]} \cup {ids[2]}) = 2
  BY <1>2, <1>4, FS_AddElement
<1>6. /\ IsFiniteSet({ids[1]} \cup {ids[2]} \cup {ids[3]})
      /\ Cardinality({ids[1]} \cup {ids[2]} \cup {ids[3]}) = 3
  <2>1. ids[3] \notin {ids[1]} \cup {ids[2]}
    BY <1>2
  <2> QED
    BY <1>5, <2>1, FS_AddElement
<1> QED
  BY <1>1, <1>3, <1>6 DEF Triple

LEMMA NoNamesHeld == Names(NoNames) = {}
BY DEF Names, NoNames

LEMMA WithObjects ==
    ASSUME NEW os, Store(os), NEW names \in SUBSET (Nat \ {0}), IsFiniteSet(names), NEW object
    PROVE  /\ Store(With(os, names, object))
           /\ DOMAIN With(os, names, object) = DOMAIN os \cup names
           /\ \A n \in names : With(os, names, object)[n] = object
           /\ \A n \in DOMAIN os : n \notin names => With(os, names, object)[n] = os[n]
BY FS_Union DEF Store, With

LEMMA Deletes ==
    ASSUME NEW os, Store(os), NEW names
    PROVE  /\ Store(Delete(os, names)) /\ DOMAIN Delete(os, names) = DOMAIN os \ names
           /\ \A n \in DOMAIN os : n \notin names => Delete(os, names)[n] = os[n]
BY FS_Difference DEF Store, Delete

LEMMA Generates ==
    ASSUME NEW os, Store(os), NEW given \in Gifts, NEW object
    PROVE  LET made == Generate(os, given, object)
           IN  /\ Store(made.objects)
               /\ DOMAIN made.objects = DOMAIN os \cup Names(made.ids)
               /\ Names(made.ids) \cap DOMAIN os = {}
               /\ \A n \in Names(made.ids) : made.objects[n] = object
               /\ \A n \in DOMAIN os : made.objects[n] = os[n]
               /\ given = Parts => Triple(made.ids)
<1> DEFINE made == Generate(os, given, object)
           free(i) == FreeName(os, i)
           ids == [i \in Parts |-> IF i \in given THEN free(i) ELSE 0]
           names == {ids[i] : i \in given}
<1>1. made.objects = With(os, names, object) /\ made.ids = ids
  BY DEF Generate
<1>2. given \in SUBSET Parts /\ IsFiniteSet(given) /\ Parts \in SUBSET (Nat \ {0})
  <2>1. IsFiniteSet(1 .. 3)
    BY FS_Interval, 1 \in Int, 3 \in Int
  <2>2. IsFiniteSet({1})
    BY FS_Singleton
  <2> QED
    BY <2>1, <2>2 DEF Gifts, Parts
<1>3. \A i \in Parts : /\ free(i) \in Nat \ {0} /\ free(i) \notin DOMAIN os
                       /\ FreeUpTo(DOMAIN os, free(i)) = i
  BY <1>2, FreeNames DEF Store
<1> HIDE DEF free
<1>4. Names(ids) = names /\ names \in SUBSET (Nat \ {0}) /\ names \cap DOMAIN os = {}
  BY <1>2, <1>3 DEF Names
<1>5. IsFiniteSet(names)
  <2>1. CASE given = {1}
    <3>1. names = {ids[1]}
      BY <2>1
    <3> QED
      BY <3>1, FS_Singleton
  <2>2. CASE given = Parts
    <3>1. names = {ids[1]} \cup {ids[2]} \cup {ids[3]}
      BY <2>2 DEF Parts
    <3> HIDE DEF names, ids
    <3>2. IsFiniteSet({ids[1]} \cup {ids[2]})
      BY FS_Singleton, FS_AddElement
    <3> QED
      BY <3>1, <3>2, FS_AddElement
  <2> QED
    BY <2>1, <2>2 DEF Gifts
<1>6. given = Parts => Triple(ids)
  BY <1>3 DEF Triple
<1> DEFINE all == With(os, names, object)
<1> HIDE DEF names, ids, made
<1>7. /\ Store(all) /\ DOMAIN all = DOMAIN os \cup names
      /\ \A n \in names : all[n] = object
      /\ \A n \in DOMAIN os : n \notin names => all[n] = os[n]
  <2>1. Store(all)
    BY <1>4, <1>5, WithObjects
  <2>2. DOMAIN all = DOMAIN os \cup names
    BY <1>4, <1>5, WithObjects
  <2>3. \A n \in names : all[n] = object
    BY <1>4, <1>5, <2>1, <2>2, WithObjects
  <2>4. \A n \in DOMAIN os : n \notin names => all[n] = os[n]
    BY DEF With
  <2> QED
    BY <2>1, <2>2, <2>3, <2>4
<1> HIDE DEF all
<1>8. /\ Store(made.objects)
      /\ DOMAIN made.objects = DOMAIN os \cup Names(made.ids)
      /\ Names(made.ids) \cap DOMAIN os = {}
      /\ \A n \in Names(made.ids) : made.objects[n] = object
      /\ \A n \in DOMAIN os : made.objects[n] = os[n]
      /\ given = Parts => Triple(made.ids)
  BY <1>1, <1>4, <1>6, <1>7 DEF all
<1> QED
  BY <1>8 DEF made

-----------------------------------------------------------------------------
(* The textures of a user.                                                  *)

\* What is behind the name of a texture of some size.
PlaneOf(size) == [size : {size}, frame : Nat]

\* A user has no textures, or three that have the size noted.
Textured(os, texture) ==
    \/ texture = NoTexture
    \/ /\ texture.m_initialized /\ Triple(texture.ids)
       /\ Names(texture.ids) \subseteq DOMAIN os
       /\ \A n \in Names(texture.ids) : os[n] \in PlaneOf(texture.size)

\* What the objects of others are after such a change.
Keeps(os, new, names) ==
    \A n \in DOMAIN os : n \notin names => n \in DOMAIN new /\ new[n] = os[n]

LEMMA TexturesMade ==
    ASSUME NEW os, Store(os), NEW texture, Textured(os, texture), NEW size, NEW given \in Gifts
    PROVE  LET made == InitTexture(os, texture, size, given)
               rest == DOMAIN os \ Names(texture.ids)
           IN  /\ Store(made.objects) /\ Textured(made.objects, made.texture)
               /\ made.texture.m_initialized => made.texture.size = size
               /\ DOMAIN made.objects = rest \cup Names(made.texture.ids)
               /\ Names(made.texture.ids) \cap rest = {}
               /\ \A n \in rest : made.objects[n] = os[n]
<1> DEFINE result == InitTexture(os, texture, size, given)
           rest == DOMAIN os \ Names(texture.ids)
           cleared == Delete(os, Names(texture.ids))
           plane == [size |-> size, frame |-> 0]
           gen == Generate(cleared, given, plane)
           new == [m_initialized |-> given = Parts, size |-> size, ids |-> gen.ids]
<1>1. /\ result = IF texture.m_initialized /\ texture.size = size
                  THEN [objects |-> os, texture |-> texture]
                  ELSE IF given = Parts THEN [objects |-> gen.objects, texture |-> new]
                  ELSE [objects |-> Delete(gen.objects, Names(gen.ids)), texture |-> NoTexture]
  BY DEF InitTexture, UninitTexture
<1>2. ~NoTexture.m_initialized /\ Names(NoTexture.ids) = {}
  BY NoNamesHeld DEF NoTexture
<1>3. /\ Store(cleared) /\ DOMAIN cleared = rest
      /\ \A n \in rest : cleared[n] = os[n]
  <2>1. Store(cleared) /\ DOMAIN cleared = rest
    BY Deletes
  <2> QED
    BY <2>1 DEF Delete
<1>4. plane \in PlaneOf(size)
  BY DEF PlaneOf
<1> HIDE DEF cleared, plane
<1>5. /\ Store(gen.objects)
      /\ DOMAIN gen.objects = rest \cup Names(gen.ids)
      /\ Names(gen.ids) \cap rest = {}
      /\ \A n \in Names(gen.ids) : gen.objects[n] = plane
      /\ \A n \in rest : gen.objects[n] = os[n]
      /\ given = Parts => Triple(gen.ids)
  <2>1. /\ Store(gen.objects)
        /\ DOMAIN gen.objects = DOMAIN cleared \cup Names(gen.ids)
        /\ Names(gen.ids) \cap DOMAIN cleared = {}
        /\ \A n \in Names(gen.ids) : gen.objects[n] = plane
        /\ \A n \in DOMAIN cleared : gen.objects[n] = cleared[n]
        /\ given = Parts => Triple(gen.ids)
    BY <1>3, Generates
  <2> HIDE DEF gen, rest
  <2> QED
    BY <1>3, <2>1
<1> HIDE DEF gen, result
<1>6. CASE texture.m_initialized /\ texture.size = size
  <2>1. result.objects = os /\ result.texture = texture
    BY <1>1, <1>6
  <2>2. Names(texture.ids) \subseteq DOMAIN os
    BY <1>2, <1>6 DEF Textured
  <2> QED
    BY <1>6, <2>1, <2>2 DEF result
<1>7. CASE ~(texture.m_initialized /\ texture.size = size) /\ given = Parts
  <2>1. result.objects = gen.objects /\ result.texture = new
    BY <1>1, <1>7
  <2>2. new.m_initialized /\ new.size = size /\ new.ids = gen.ids
    BY <1>7
  <2>3. Textured(gen.objects, new)
    BY <1>4, <1>5, <1>7, <2>2 DEF Textured
  <2> HIDE DEF new, rest
  <2> QED
    BY <1>5, <2>1, <2>2, <2>3 DEF result, rest
<1>8. CASE ~(texture.m_initialized /\ texture.size = size) /\ given # Parts
  <2> DEFINE left == Delete(gen.objects, Names(gen.ids))
  <2>1. result.objects = left /\ result.texture = NoTexture
    BY <1>1, <1>8
  <2>2. Store(left) /\ DOMAIN left = DOMAIN gen.objects \ Names(gen.ids)
    BY <1>5, Deletes
  <2>3. \A n \in rest : left[n] = os[n]
    BY <1>5 DEF Delete
  <2> HIDE DEF left, rest
  <2> QED
    BY <1>2, <1>5, <2>1, <2>2, <2>3 DEF result, rest, Textured
<1> QED
  BY <1>6, <1>7, <1>8

\* The names an owner had before are free, or its own after the change.
Takes(os, new, before, after) ==
    /\ DOMAIN new = (DOMAIN os \ before) \cup after
    /\ after \cap (DOMAIN os \ before) = {}

LEMMA Uploads ==
    ASSUME NEW os, Store(os), NEW texture, Textured(os, texture), NEW size, NEW frame \in Nat,
           texture.m_initialized => texture.size = size
    PROVE  LET new == Upload(os, texture, frame, size)
           IN  /\ Store(new) /\ Textured(new, texture) /\ DOMAIN new = DOMAIN os
               /\ texture.m_initialized => \A n \in Names(texture.ids) : new[n].frame = frame
               /\ \A n \in DOMAIN os \ Names(texture.ids) : new[n] = os[n]
<1> DEFINE new == Upload(os, texture, frame, size)
<1>1. DOMAIN new = DOMAIN os /\ Store(new)
  BY DEF Upload, Store
<1>2. \A n \in DOMAIN os \ Names(texture.ids) : new[n] = os[n]
  BY DEF Upload
<1>3. ASSUME texture.m_initialized, Triple(texture.ids),
             Names(texture.ids) \subseteq DOMAIN os, NEW n \in Names(texture.ids),
             os[n] \in PlaneOf(texture.size)
      PROVE  new[n] \in PlaneOf(texture.size) /\ new[n].frame = frame
  <2>1. new[n] = [os[n] EXCEPT !.frame = frame]
    BY <1>3 DEF Upload, PlaneOf
  <2> QED
    BY <1>3, <2>1 DEF PlaneOf
<1>4. ~NoTexture.m_initialized
  BY DEF NoTexture
<1>5. /\ Textured(new, texture)
      /\ texture.m_initialized => \A n \in Names(texture.ids) : new[n].frame = frame
  <2>1. CASE texture = NoTexture
    BY <1>4, <2>1 DEF Textured
  <2>2. CASE texture # NoTexture
    <3> HIDE DEF new
    <3> QED
      BY <1>1, <1>3, <2>2 DEF Textured
  <2> QED
    BY <2>1, <2>2
<1> QED
  BY <1>1, <1>2, <1>5

\* The planes of the textures are those of the frame, the rest is not touched.
LEMMA Updates ==
    ASSUME NEW os, Store(os), NEW texture, Textured(os, texture), NEW size, NEW given \in Gifts,
           NEW frame \in Nat
    PROVE  LET made == UpdateYUVData(os, texture, frame, size, given)
           IN  /\ Store(made.objects) /\ Textured(made.objects, made.texture)
               /\ made.texture.m_initialized =>
                      \A n \in Names(made.texture.ids) : made.objects[n].frame = frame
               /\ Takes(os, made.objects, Names(texture.ids), Names(made.texture.ids))
               /\ Keeps(os, made.objects, Names(texture.ids))
<1> DEFINE resized == InitTexture(os, texture, size, given)
           rest == DOMAIN os \ Names(texture.ids)
           new == Upload(resized.objects, resized.texture, frame, size)
           made == UpdateYUVData(os, texture, frame, size, given)
<1>1. /\ Store(resized.objects) /\ Textured(resized.objects, resized.texture)
      /\ resized.texture.m_initialized => resized.texture.size = size
      /\ DOMAIN resized.objects = rest \cup Names(resized.texture.ids)
      /\ Names(resized.texture.ids) \cap rest = {}
      /\ \A n \in rest : resized.objects[n] = os[n]
  BY TexturesMade
<1>2. /\ made.texture = resized.texture
      /\ made.objects = IF resized.texture.m_initialized THEN new ELSE resized.objects
  BY DEF UpdateYUVData
<1> HIDE DEF resized
<1>3. /\ Store(new) /\ Textured(new, resized.texture) /\ DOMAIN new = DOMAIN resized.objects
      /\ resized.texture.m_initialized =>
             \A n \in Names(resized.texture.ids) : new[n].frame = frame
      /\ \A n \in DOMAIN resized.objects \ Names(resized.texture.ids) :
             new[n] = resized.objects[n]
  <2>1. \A n \in DOMAIN resized.objects \ Names(resized.texture.ids) :
            new[n] = resized.objects[n]
    BY DEF Upload
  <2> DEFINE os1 == resized.objects
             texture1 == resized.texture
  <2>0. /\ Store(os1) /\ Textured(os1, texture1)
        /\ texture1.m_initialized => texture1.size = size
    BY <1>1
  <2> HIDE DEF os1, texture1
  <2>4. Store(Upload(os1, texture1, frame, size))
    BY <2>0, Uploads
  <2>5. Textured(Upload(os1, texture1, frame, size), texture1)
    BY <2>0, Uploads
  <2>2. Store(new) /\ Textured(new, resized.texture) /\ DOMAIN new = DOMAIN resized.objects
    BY <2>4, <2>5 DEF os1, texture1, Upload
  <2>3. resized.texture.m_initialized =>
            \A n \in Names(resized.texture.ids) : new[n].frame = frame
    BY <1>1, Uploads
  <2> QED
    BY <2>1, <2>2, <2>3
<1> HIDE DEF new, made, rest
<1>4. \A n \in rest : made.objects[n] = os[n]
  BY <1>1, <1>2, <1>3
<1>5. /\ Store(made.objects) /\ Textured(made.objects, made.texture)
      /\ made.texture.m_initialized =>
             \A n \in Names(made.texture.ids) : made.objects[n].frame = frame
      /\ DOMAIN made.objects = rest \cup Names(made.texture.ids)
      /\ Names(made.texture.ids) \cap rest = {}
  BY <1>1, <1>2, <1>3
<1> QED
  BY <1>4, <1>5 DEF made, rest, Takes, Keeps

-----------------------------------------------------------------------------
(* The mesh, the shader and the render of a user.                           *)

UserNames(r) == Names(r.mesh.ids) \cup Names(r.texture.ids)

Renders == [m_initialized : {TRUE}, viewport : Sizes,
            mesh : [m_initialized : {TRUE}, ids : [Parts -> Nat]],
            texture : [m_initialized : BOOLEAN, size : Sizes \cup {""},
                       ids : [Parts -> Nat]]]

RenderOwns(os, r) ==
    /\ r \in Renders
    /\ Triple(r.mesh.ids) /\ Names(r.mesh.ids) \subseteq DOMAIN os
    /\ Textured(os, r.texture)
    /\ Names(r.mesh.ids) \cap Names(r.texture.ids) = {}

ShaderOwns(os, shader) ==
    shader # 0 =>
        /\ shader \in DOMAIN os
        /\ os[shader] \in [unit : {[i \in Parts |-> i]}, mirrored : BOOLEAN]

\* What one user does leaves the others what they have.
LEMMA OthersKept ==
    ASSUME NEW os, NEW new, NEW names, Keeps(os, new, names), NEW r, RenderOwns(os, r),
           UserNames(r) \cap names = {}
    PROVE  RenderOwns(new, r)
<1>1. \A n \in UserNames(r) : n \in DOMAIN os => n \in DOMAIN new /\ new[n] = os[n]
  BY DEF Keeps
<1>2. Names(r.mesh.ids) \subseteq UserNames(r) /\ Names(r.texture.ids) \subseteq UserNames(r)
  BY DEF UserNames
<1>3. Names(r.mesh.ids) \subseteq DOMAIN new
  BY <1>1, <1>2 DEF RenderOwns
<1>4. Textured(new, r.texture)
  BY <1>1, <1>2 DEF RenderOwns, Textured
<1> QED
  BY <1>3, <1>4 DEF RenderOwns

Textures == [m_initialized : BOOLEAN, size : Sizes \cup {""}, ids : [Parts -> Nat]]

LEMMA TextureTyped ==
    ASSUME NEW os, Store(os), NEW texture \in Textures, NEW size \in Sizes, NEW given \in Gifts
    PROVE  InitTexture(os, texture, size, given).texture \in Textures
<1> DEFINE cleared == Delete(os, Names(texture.ids))
           gen == Generate(cleared, given, [size |-> size, frame |-> 0])
           new == [m_initialized |-> given = Parts, size |-> size, ids |-> gen.ids]
           result == InitTexture(os, texture, size, given).texture
<1>1. \/ result = texture
      \/ given = Parts /\ result = new
      \/ result = NoTexture
  BY DEF InitTexture, UninitTexture
<1>2. NoTexture \in Textures
  BY DEF NoTexture, NoNames, Textures
<1>3. ASSUME given = Parts PROVE new \in Textures
  <2>1. Store(cleared)
    BY Deletes
  <2> HIDE DEF cleared
  <2>2. Triple(gen.ids)
    BY <1>3, <2>1, Generates
  <2> HIDE DEF gen
  <2> QED
    BY <2>2 DEF Textures, Triple
<1> HIDE DEF result, new
<1> QED
  BY <1>1, <1>2, <1>3 DEF result

LEMMA NothingBound == \A os : Textured(os, NoTexture)
BY DEF Textured

\* The mesh and the textures are made, or neither.
LEMMA RenderMade ==
    ASSUME NEW os, Store(os), NEW size \in Sizes, NEW meshGiven \in Gifts,
           NEW textureGiven \in Gifts
    PROVE  LET made == InitRender(os, size, meshGiven, textureGiven)
           IN  /\ Store(made.objects)
               /\ ~made.render.m_initialized => made.objects = os
               /\ made.render.m_initialized =>
                      /\ RenderOwns(made.objects, made.render)
                      /\ made.render.texture.m_initialized
                      /\ DOMAIN made.objects = DOMAIN os \cup UserNames(made.render)
                      /\ UserNames(made.render) \cap DOMAIN os = {}
                      /\ \A n \in DOMAIN os : made.objects[n] = os[n]
<1> DEFINE gen == Generate(os, meshGiven, [kind |-> "buffer"])
           tex == InitTexture(gen.objects, NoTexture, size, textureGiven)
           made == InitRender(os, size, meshGiven, textureGiven)
           good == [m_initialized |-> TRUE, viewport |-> size,
                    mesh |-> [m_initialized |-> TRUE, ids |-> gen.ids],
                    texture |-> tex.texture]
<1>1. /\ Store(gen.objects)
      /\ DOMAIN gen.objects = DOMAIN os \cup Names(gen.ids)
      /\ Names(gen.ids) \cap DOMAIN os = {}
      /\ \A n \in DOMAIN os : gen.objects[n] = os[n]
      /\ meshGiven = Parts => Triple(gen.ids)
  BY Generates
<1>2. /\ meshGiven # Parts => /\ made.objects = Delete(gen.objects, Names(gen.ids))
                              /\ made.render = NoRender
      /\ meshGiven = Parts /\ ~tex.texture.m_initialized =>
             /\ made.objects = Delete(tex.objects, Names(gen.ids))
             /\ made.render = NoRender
      /\ meshGiven = Parts /\ tex.texture.m_initialized =>
             made.objects = tex.objects /\ made.render = good
  BY DEF InitRender, InitMesh, UninitMesh, NoMesh
<1>3. ~NoRender.m_initialized /\ NoTexture \in Textures /\ Names(NoTexture.ids) = {}
  BY NoNamesHeld DEF NoRender, NoTexture, Textures, NoNames
<1> HIDE DEF gen
<1> DEFINE os1 == gen.objects
<1> HIDE DEF os1
<1>4. Store(os1) /\ Textured(os1, NoTexture)
  BY <1>1, NothingBound DEF os1
<1> DEFINE tex1 == InitTexture(os1, NoTexture, size, textureGiven)
<1>5. /\ Store(tex1.objects) /\ Textured(tex1.objects, tex1.texture)
      /\ DOMAIN tex1.objects = (DOMAIN os1 \ Names(NoTexture.ids)) \cup Names(tex1.texture.ids)
      /\ Names(tex1.texture.ids) \cap (DOMAIN os1 \ Names(NoTexture.ids)) = {}
      /\ \A n \in DOMAIN os1 \ Names(NoTexture.ids) : tex1.objects[n] = os1[n]
  BY <1>4, TexturesMade
<1>6. tex1.texture \in Textures
  BY <1>3, <1>4, TextureTyped
<1>7. tex1 = tex
  BY DEF os1
<1> HIDE DEF tex1, tex, made
<1>8. /\ Store(tex.objects) /\ Textured(tex.objects, tex.texture) /\ tex.texture \in Textures
      /\ DOMAIN tex.objects = DOMAIN gen.objects \cup Names(tex.texture.ids)
      /\ Names(tex.texture.ids) \cap DOMAIN gen.objects = {}
      /\ \A n \in DOMAIN gen.objects : tex.objects[n] = gen.objects[n]
  BY <1>3, <1>5, <1>6, <1>7 DEF os1
<1>9. os = [n \in DOMAIN os |-> os[n]]
  BY DEF Store
<1>10. CASE meshGiven # Parts
  <2>1. /\ Store(made.objects) /\ DOMAIN made.objects = DOMAIN os
    <3>1. /\ Store(Delete(gen.objects, Names(gen.ids)))
          /\ DOMAIN Delete(gen.objects, Names(gen.ids)) = DOMAIN gen.objects \ Names(gen.ids)
      BY <1>1, Deletes
    <3> QED
      BY <1>1, <1>2, <1>10, <3>1
  <2>2. \A n \in DOMAIN os : made.objects[n] = os[n]
    BY <1>1, <1>2, <1>10 DEF Delete
  <2>3. made.objects = os
    BY <1>9, <2>1, <2>2 DEF Store
  <2> QED
    BY <1>2, <1>3, <1>10, <2>1, <2>3 DEF made
<1>11. CASE meshGiven = Parts /\ ~tex.texture.m_initialized
  <2>1. Names(tex.texture.ids) = {}
    BY <1>3, <1>8, <1>11 DEF Textured
  <2>2. /\ Store(made.objects) /\ DOMAIN made.objects = DOMAIN os
    <3>1. /\ Store(Delete(tex.objects, Names(gen.ids)))
          /\ DOMAIN Delete(tex.objects, Names(gen.ids)) = DOMAIN tex.objects \ Names(gen.ids)
      BY <1>8, Deletes
    <3> QED
      BY <1>1, <1>2, <1>8, <1>11, <2>1, <3>1
  <2>3. \A n \in DOMAIN os : made.objects[n] = os[n]
    BY <1>1, <1>2, <1>8, <1>11, <2>1 DEF Delete
  <2>4. made.objects = os
    BY <1>9, <2>2, <2>3 DEF Store
  <2> QED
    BY <1>2, <1>3, <1>11, <2>2, <2>4 DEF made
<1>12. CASE meshGiven = Parts /\ tex.texture.m_initialized
  <2>1. made.objects = tex.objects /\ made.render = good
    BY <1>2, <1>12
  <2>2. good.mesh.ids = gen.ids /\ good.texture = tex.texture /\ good.m_initialized
    OBVIOUS
  <2>3. good \in Renders
    BY <1>1, <1>8, <1>12 DEF Renders, Textures, Triple
  <2> HIDE DEF good
  <2>4. RenderOwns(tex.objects, good)
    BY <1>1, <1>8, <1>12, <2>2, <2>3 DEF RenderOwns
  <2>5. UserNames(good) = Names(gen.ids) \cup Names(tex.texture.ids)
    BY <2>2 DEF UserNames
  <2>6. \A n \in DOMAIN os : tex.objects[n] = os[n]
    BY <1>1, <1>8
  <2>7. /\ Store(made.objects) /\ made.render.m_initialized
        /\ RenderOwns(made.objects, made.render) /\ made.render.texture.m_initialized
        /\ DOMAIN made.objects = DOMAIN os \cup UserNames(made.render)
        /\ UserNames(made.render) \cap DOMAIN os = {}
        /\ \A n \in DOMAIN os : made.objects[n] = os[n]
    BY <1>1, <1>8, <1>12, <2>1, <2>2, <2>4, <2>5, <2>6
  <2> QED
    BY <2>7 DEF made
<1> QED
  BY <1>10, <1>11, <1>12

LEMMA MadeOne ==
    ASSUME NEW os, Store(os), NEW succeeds \in BOOLEAN, NEW object
    PROVE  /\ succeeds =>
                  /\ Made(os, succeeds, object).id \in Nat \ {0}
                  /\ Made(os, succeeds, object).id \notin DOMAIN os
                  /\ Made(os, succeeds, object).objects =
                         With(os, {Made(os, succeeds, object).id}, object)
                  /\ Store(Made(os, succeeds, object).objects)
           /\ ~succeeds =>
                  Made(os, succeeds, object).id = 0 /\ Made(os, succeeds, object).objects = os
<1>1. 1 \in Nat \ {0}
  OBVIOUS
<1>2. FreeName(os, 1) \in Nat \ {0} /\ FreeName(os, 1) \notin DOMAIN os
  BY <1>1, FreeNames DEF Store
<1>3. IsFiniteSet({FreeName(os, 1)}) /\ {FreeName(os, 1)} \in SUBSET (Nat \ {0})
  BY <1>2, FS_Singleton
<1>4. Store(With(os, {FreeName(os, 1)}, object))
  BY <1>3, WithObjects
<1> QED
  BY <1>2, <1>4 DEF Made

\* The program is there with its units, or nothing has changed.
LEMMA ShaderMade ==
    ASSUME NEW os, Store(os), NEW shader, ShaderOwns(os, shader), NEW fails \in Stages
    PROVE  LET made == InitShader(os, shader, fails)
           IN  /\ Store(made.objects) /\ ShaderOwns(made.objects, made.id)
               /\ \A n \in DOMAIN os : n \in DOMAIN made.objects /\ made.objects[n] = os[n]
               /\ \/ made.id = shader /\ made.objects = os
                  \/ /\ shader = 0 /\ made.id \in Nat \ {0} /\ made.id \notin DOMAIN os
                     /\ DOMAIN made.objects = DOMAIN os \cup {made.id}
<1> DEFINE part == [kind |-> "shader"]
           vertex == Made(os, fails # "vertex", part)
           fragment == Made(vertex.objects, fails # "fragment", part)
           program == Made(fragment.objects, fails # "link", NewProgram)
           linked == Delete(program.objects, {vertex.id, fragment.id})
           made == InitShader(os, shader, fails)
<1>1. /\ fails # "vertex" => /\ vertex.id \in Nat \ {0} /\ vertex.id \notin DOMAIN os
                             /\ vertex.objects = With(os, {vertex.id}, part)
                             /\ Store(vertex.objects)
      /\ fails = "vertex" => vertex.id = 0 /\ vertex.objects = os
  BY MadeOne
<1>2. /\ shader # 0 => made.objects = os /\ made.id = shader
      /\ shader = 0 /\ (fails = "functions" \/ vertex.id = 0) =>
             made.objects = os /\ made.id = 0
      /\ shader = 0 /\ fails # "functions" /\ vertex.id # 0 /\ fails = "fragment" =>
             made.objects = Delete(fragment.objects, {vertex.id}) /\ made.id = 0
      /\ shader = 0 /\ fails # "functions" /\ vertex.id # 0 /\ fails = "link" =>
             made.objects = linked /\ made.id = 0
      /\ shader = 0 /\ fails # "functions" /\ vertex.id # 0 /\ fails = "uniforms" =>
             made.objects = Delete(linked, {program.id}) /\ made.id = 0
      /\ shader = 0 /\ vertex.id # 0 /\ fails \notin {"functions", "fragment", "link", "uniforms"}
             => made.objects = linked /\ made.id = program.id
  <2>1. made = CASE shader # 0 -> [objects |-> os, id |-> shader]
                 [] shader = 0 /\ (fails = "functions" \/ vertex.id = 0) ->
                       [objects |-> os, id |-> 0]
                 [] shader = 0 /\ fails = "fragment" ->
                       [objects |-> Delete(fragment.objects, {vertex.id}), id |-> 0]
                 [] shader = 0 /\ fails = "link" -> [objects |-> linked, id |-> 0]
                 [] shader = 0 /\ fails = "uniforms" ->
                       [objects |-> Delete(linked, {program.id}), id |-> 0]
                 [] OTHER -> [objects |-> linked, id |-> program.id]
    BY DEF InitShader
  <2> HIDE DEF made, linked, vertex, fragment, program
  <2> QED
    BY <1>1, <2>1
<1> HIDE DEF made, part, vertex
<1> DEFINE same(new) == /\ Store(new) /\ DOMAIN new = DOMAIN os
                        /\ \A n \in DOMAIN os : new[n] = os[n]
<1>3. ASSUME NEW new, same(new) PROVE new = os
  <2>1. new = [n \in DOMAIN new |-> new[n]] /\ os = [n \in DOMAIN os |-> os[n]]
    BY <1>3 DEF Store
  <2> QED
    BY <1>3, <2>1
<1>4. CASE shader # 0 \/ fails = "functions" \/ vertex.id = 0
  <2>1. made.objects = os /\ (made.id = shader \/ (shader = 0 /\ made.id = 0))
    BY <1>2, <1>4
  <2> QED
    BY <2>1 DEF made
<1>5. CASE shader = 0 /\ fails # "functions" /\ vertex.id # 0
  <2>1. /\ fails # "vertex" /\ Store(vertex.objects) /\ vertex.id \notin DOMAIN os
        /\ vertex.id \in Nat \ {0}
        /\ DOMAIN vertex.objects = DOMAIN os \cup {vertex.id}
        /\ \A n \in DOMAIN os : vertex.objects[n] = os[n]
    BY <1>1, <1>5 DEF With
  <2>2. /\ fails # "fragment" => /\ fragment.id \in Nat \ {0}
                                 /\ fragment.id \notin DOMAIN vertex.objects
                                 /\ fragment.objects = With(vertex.objects, {fragment.id}, part)
                                 /\ Store(fragment.objects)
        /\ fails = "fragment" => fragment.id = 0 /\ fragment.objects = vertex.objects
    BY <2>1, MadeOne, ZenonT(60)
  <2> HIDE DEF fragment
  <2>3. CASE fails = "fragment"
    <3>1. made.objects = Delete(vertex.objects, {vertex.id}) /\ made.id = 0
      BY <1>2, <1>5, <2>2, <2>3
    <3>2. Store(Delete(vertex.objects, {vertex.id}))
      BY <2>1, Deletes
    <3>3. same(Delete(vertex.objects, {vertex.id}))
      BY <2>1, <3>2 DEF Delete
    <3>4. made.objects = os
      BY <1>3, <3>1, <3>3
    <3> QED
      BY <1>5, <3>1, <3>4 DEF made
  <2>4. CASE fails # "fragment"
    <3>1. /\ Store(fragment.objects) /\ fragment.id \notin DOMAIN os
          /\ fragment.id # vertex.id
          /\ DOMAIN fragment.objects = DOMAIN os \cup {vertex.id, fragment.id}
          /\ \A n \in DOMAIN os : fragment.objects[n] = os[n]
      BY <2>1, <2>2, <2>4 DEF With
    <3>2. /\ fails # "link" => /\ program.id \in Nat \ {0}
                               /\ program.id \notin DOMAIN fragment.objects
                               /\ program.objects =
                                      With(fragment.objects, {program.id}, NewProgram)
                               /\ Store(program.objects)
          /\ fails = "link" => program.id = 0 /\ program.objects = fragment.objects
      BY <3>1, MadeOne, ZenonT(60)
    <3> HIDE DEF program
    <3>3. Store(program.objects)
      BY <3>1, <3>2
    <3>4. Store(linked)
      BY <3>3, Deletes
    <3>5. CASE fails = "link"
      <4>1. made.objects = linked /\ made.id = 0
        BY <1>2, <1>5, <3>5
      <4>2. same(linked)
        BY <2>1, <3>1, <3>2, <3>4, <3>5 DEF Delete
      <4>3. made.objects = os
        BY <1>3, <4>1, <4>2
      <4> QED
        BY <1>5, <4>1, <4>3 DEF made
    <3>6. CASE fails # "link"
      <4>1. /\ program.id \in Nat \ {0} /\ program.id \notin DOMAIN os
            /\ DOMAIN linked = DOMAIN os \cup {program.id}
            /\ \A n \in DOMAIN os : linked[n] = os[n]
            /\ linked[program.id] = NewProgram
        BY <2>1, <3>1, <3>2, <3>6 DEF Delete, With
      <4>2. CASE fails = "uniforms"
        <5>1. made.objects = Delete(linked, {program.id}) /\ made.id = 0
          BY <1>2, <1>5, <4>2
        <5> HIDE DEF linked
        <5>2. Store(Delete(linked, {program.id}))
          BY <3>4, Deletes
        <5>3. same(Delete(linked, {program.id}))
          BY <4>1, <5>2 DEF Delete
        <5>4. made.objects = os
          BY <1>3, <5>1, <5>3
        <5> QED
          BY <1>5, <5>1, <5>4 DEF made
      <4>3. CASE fails # "uniforms"
        <5>1. made.objects = linked /\ made.id = program.id
          BY <1>2, <1>5, <2>4, <3>6, <4>3
        <5> HIDE DEF linked
        <5>2. ShaderOwns(linked, program.id)
          BY <4>1 DEF ShaderOwns, NewProgram
        <5> QED
          BY <1>5, <3>4, <4>1, <5>1, <5>2 DEF made
      <4> QED
        BY <4>2, <4>3
    <3> QED
      BY <3>5, <3>6
  <2> QED
    BY <2>3, <2>4
<1> QED
  BY <1>4, <1>5

\* The window shows the planes of one frame, or nothing.
Pictures(made, frame, mirror) ==
    IF made.render.texture.m_initialized
    THEN made.screen.planes = [i \in Parts |-> frame] /\ made.screen.mirrored = mirror
    ELSE made.screen = Black

\* The picture has the planes of the frame as they were uploaded.
LEMMA Drawn ==
    ASSUME NEW os, Store(os), NEW shader, shader # 0, ShaderOwns(os, shader),
           NEW r, RenderOwns(os, r), shader \notin UserNames(r),
           NEW frame \in Nat, NEW size \in Sizes, NEW mirror \in BOOLEAN, NEW given \in Gifts
    PROVE  LET made == DrawFrame(os, shader, r, frame, size, mirror, given)
           IN  /\ Store(made.objects) /\ ShaderOwns(made.objects, shader)
               /\ RenderOwns(made.objects, made.render)
               /\ Takes(os, made.objects, UserNames(r), UserNames(made.render))
               /\ Keeps(os, made.objects, UserNames(r) \cup {shader})
               /\ Pictures(made, frame, mirror)
<1> DEFINE made == DrawFrame(os, shader, r, frame, size, mirror, given)
           upd == UpdateYUVData(os, r.texture, frame, size, given)
           drawn == [r EXCEPT !.texture = upd.texture]
           program == [upd.objects[shader] EXCEPT !.mirrored = mirror]
           all == With(upd.objects, {shader}, program)
           rest == DOMAIN os \ Names(r.texture.ids)
<1>1. /\ ~upd.texture.m_initialized => /\ made.objects = upd.objects /\ made.render = drawn
                                       /\ made.screen = Black
      /\ upd.texture.m_initialized => /\ made.objects = all /\ made.render = drawn
                                      /\ made.screen = Picture(upd.objects, program, drawn)
  BY DEF DrawFrame, RenderOwns, Renders
<1> HIDE DEF made
<1>2. Textured(os, r.texture) /\ r.texture \in Textures /\ r \in Renders
  BY DEF RenderOwns, Renders, Textures
<1>3. /\ Store(upd.objects) /\ Textured(upd.objects, upd.texture)
      /\ upd.texture.m_initialized =>
             \A n \in Names(upd.texture.ids) : upd.objects[n].frame = frame
      /\ DOMAIN upd.objects = rest \cup Names(upd.texture.ids)
      /\ Names(upd.texture.ids) \cap rest = {}
      /\ \A n \in rest : upd.objects[n] = os[n]
  <2> DEFINE tx == r.texture
             made1 == UpdateYUVData(os, tx, frame, size, given)
  <2>0. Textured(os, tx)
    BY <1>2
  <2> HIDE DEF tx
  <2>1. Store(made1.objects) /\ Textured(made1.objects, made1.texture)
    BY <2>0, Updates
  <2>3. made1.texture.m_initialized =>
            \A n \in Names(made1.texture.ids) : made1.objects[n].frame = frame
    BY <2>0, Updates
  <2>4. /\ Takes(os, made1.objects, Names(tx.ids), Names(made1.texture.ids))
        /\ Keeps(os, made1.objects, Names(tx.ids))
    BY <2>0, Updates
  <2>2. made1 = upd /\ DOMAIN os \ Names(tx.ids) = rest
    BY DEF tx
  <2> HIDE DEF made1, upd, rest
  <2> QED
    BY <2>1, <2>2, <2>3, <2>4 DEF Takes, Keeps, rest, tx
<1>4. upd.texture \in Textures
  <2>1. upd.texture = InitTexture(os, r.texture, size, given).texture
    BY DEF UpdateYUVData
  <2> QED
    BY <1>2, <2>1, TextureTyped
<1> HIDE DEF upd
<1>5. /\ drawn.texture = upd.texture /\ drawn.mesh = r.mesh /\ drawn.viewport = r.viewport
      /\ drawn \in Renders
  BY <1>2, <1>4 DEF Renders, Textures
<1> HIDE DEF drawn
<1>6. shader \in rest /\ Names(r.mesh.ids) \subseteq rest
  BY DEF UserNames, ShaderOwns, RenderOwns
<1>7. /\ RenderOwns(upd.objects, drawn)
      /\ UserNames(drawn) = Names(r.mesh.ids) \cup Names(upd.texture.ids)
      /\ shader \notin UserNames(drawn)
  <2>1. UserNames(drawn) = Names(r.mesh.ids) \cup Names(upd.texture.ids)
    BY <1>5 DEF UserNames
  <2>2. shader \notin UserNames(drawn)
    BY <1>3, <1>6, <2>1 DEF UserNames
  <2>3. RenderOwns(upd.objects, drawn)
    BY <1>3, <1>5, <1>6 DEF RenderOwns
  <2> QED
    BY <2>1, <2>2, <2>3
<1>8. Takes(os, upd.objects, UserNames(r), UserNames(drawn))
  BY <1>3, <1>6, <1>7 DEF UserNames, Takes
<1>9. Keeps(os, upd.objects, UserNames(r) \cup {shader})
  BY <1>3 DEF Keeps, UserNames
<1>10. upd.objects[shader] \in [unit : {[i \in Parts |-> i]}, mirrored : BOOLEAN]
  BY <1>3, <1>6 DEF ShaderOwns
<1>11. CASE ~upd.texture.m_initialized
  <2>1. ShaderOwns(upd.objects, shader)
    BY <1>3, <1>6, <1>10 DEF ShaderOwns
  <2>2. made.objects = upd.objects /\ made.render = drawn /\ made.screen = Black
    BY <1>1, <1>11
  <2> QED
    BY <1>3, <1>5, <1>7, <1>8, <1>9, <1>11, <2>1, <2>2 DEF made, Pictures
<1>12. CASE upd.texture.m_initialized
  <2>1. /\ made.objects = all /\ made.render = drawn
        /\ made.screen = Picture(upd.objects, program, drawn)
    BY <1>1, <1>12
  <2>2. /\ program.mirrored = mirror /\ program.unit = [i \in Parts |-> i]
        /\ program \in [unit : {[i \in Parts |-> i]}, mirrored : BOOLEAN]
    BY <1>10
  <2> HIDE DEF program
  <2>3. shader \in DOMAIN upd.objects /\ shader \in Nat \ {0}
    BY <1>3, <1>6 DEF Store
  <2>4. Store(all)
    <3>1. IsFiniteSet({shader}) /\ {shader} \in SUBSET (Nat \ {0})
      BY <2>3, FS_Singleton
    <3> QED
      BY <1>3, <3>1, WithObjects
  <2>5. /\ DOMAIN all = DOMAIN upd.objects /\ all[shader] = program
        /\ \A n \in DOMAIN upd.objects : n # shader => all[n] = upd.objects[n]
    BY <2>3 DEF With
  <2> HIDE DEF all
  <2>6. ShaderOwns(all, shader)
    BY <2>2, <2>3, <2>5 DEF ShaderOwns
  <2>7. RenderOwns(all, drawn)
    <3>1. Keeps(upd.objects, all, {shader})
      BY <2>5 DEF Keeps
    <3>2. UserNames(drawn) \cap {shader} = {}
      BY <1>7
    <3> QED
      BY <1>7, <3>1, <3>2, OthersKept
  <2>8. Keeps(os, all, UserNames(r) \cup {shader})
    BY <1>9, <2>5 DEF Keeps
  <2>9. made.screen.planes = [i \in Parts |-> frame] /\ made.screen.mirrored = mirror
    <3>0. ~NoTexture.m_initialized
      BY DEF NoTexture
    <3>1. Triple(upd.texture.ids)
      BY <1>3, <1>12, <3>0 DEF Textured
    <3>2. ASSUME NEW i \in Parts
          PROVE  upd.objects[drawn.texture.ids[program.unit[i]]].frame = frame
      <4>1. program.unit[i] = i /\ drawn.texture.ids = upd.texture.ids
        BY <1>5, <2>2
      <4>2. upd.texture.ids[i] \in Names(upd.texture.ids)
        BY <3>1, TripleNames
      <4> QED
        BY <1>3, <1>12, <4>1, <4>2
    <3>3. /\ Picture(upd.objects, program, drawn).planes =
                 [i \in Parts |-> upd.objects[drawn.texture.ids[program.unit[i]]].frame]
          /\ Picture(upd.objects, program, drawn).mirrored = mirror
      BY <2>2 DEF Picture
    <3> QED
      BY <2>1, <3>2, <3>3
  <2>10. drawn.texture.m_initialized
    BY <1>5, <1>12
  <2>11. Takes(os, all, UserNames(r), UserNames(drawn))
    BY <1>8, <2>5 DEF Takes
  <2> QED
    BY <1>8, <2>1, <2>4, <2>5, <2>11, <2>6, <2>7, <2>8, <2>9, <2>10 DEF made, Pictures
<1> QED
  BY <1>11, <1>12

-----------------------------------------------------------------------------
(* Finite sets: what fails for none that is one smaller fails for none.     *)

LEMMA Descends ==
    ASSUME NEW S, IsFiniteSet(S), NEW Bad \in SUBSET (SUBSET S),
           \A s \in Bad : \E x \in s : s \ {x} \in Bad
    PROVE  Bad = {}
<1> DEFINE Counts == {n \in 0 .. Cardinality(S) : \E s \in Bad : Cardinality(s) = n}
<1>1. Cardinality(S) \in Nat
  BY FS_CardinalityType
<1>2. ASSUME NEW s \in Bad
      PROVE  IsFiniteSet(s) /\ Cardinality(s) \in Nat /\ Cardinality(s) \in Counts
  <2>1. s \in SUBSET S
    OBVIOUS
  <2>2. IsFiniteSet(s) /\ Cardinality(s) <= Cardinality(S)
    BY <2>1, FS_Subset
  <2>3. Cardinality(s) \in Nat
    BY <2>2, FS_CardinalityType
  <2> QED
    BY <1>1, <2>2, <2>3
<1>3. SUFFICES ASSUME Bad # {} PROVE FALSE
  OBVIOUS
<1>4. Counts \in SUBSET Nat /\ Counts # {}
  BY <1>1, <1>2, <1>3
<1>5. \A n \in Counts : \E s \in Bad : Cardinality(s) = n
  OBVIOUS
<1> HIDE DEF Counts
<1>6. PICK n \in Counts : \A m \in Counts : n <= m
  BY <1>4, Least
<1>7. PICK s \in Bad : Cardinality(s) = n
  BY <1>5
<1>8. PICK x \in s : s \ {x} \in Bad
  BY <1>7
<1>9. Cardinality(s \ {x}) = Cardinality(s) - 1
  BY <1>2, <1>7, <1>8, FS_RemoveElement
<1>10. n <= Cardinality(s \ {x})
  BY <1>2, <1>6, <1>8
<1> QED
  BY <1>2, <1>7, <1>9, <1>10

Held(S, m, t) == UNION {m[u] \cup t[u] : u \in S}

\* Every user has three names, and three more when it has textures.
LEMMA NamesCounted ==
    ASSUME NEW S, IsFiniteSet(S), NEW m, NEW t, NEW Drawing \in SUBSET S,
           \A u \in S : IsFiniteSet(m[u]) /\ Cardinality(m[u]) = 3,
           \A u \in S : IsFiniteSet(t[u]) /\ Cardinality(t[u]) = IF u \in Drawing THEN 3 ELSE 0,
           \A u \in S : m[u] \cap t[u] = {},
           \A u, v \in S : u # v => (m[u] \cup t[u]) \cap (m[v] \cup t[v]) = {}
    PROVE  /\ IsFiniteSet(Held(S, m, t))
           /\ Cardinality(Held(S, m, t)) = 3 * Cardinality(S) + 3 * Cardinality(Drawing)
<1> DEFINE all(s) == UNION {m[u] \cup t[u] : u \in s}
           Right(s) == /\ IsFiniteSet(all(s))
                       /\ Cardinality(all(s)) =
                              3 * Cardinality(s) + 3 * Cardinality(Drawing \cap s)
           Bad == {s \in SUBSET S : ~Right(s)}
<1>1. ASSUME NEW s \in Bad PROVE \E x \in s : s \ {x} \in Bad
  <2>1. s \in SUBSET S /\ ~Right(s)
    OBVIOUS
  <2>2. s # {}
    <3> SUFFICES ASSUME s = {} PROVE FALSE
      OBVIOUS
    <3>1. all(s) = {} /\ Drawing \cap s = {}
      OBVIOUS
    <3>2. IsFiniteSet({}) /\ Cardinality({}) = 0
      BY FS_EmptySet
    <3> QED
      BY <2>1, <3>1, <3>2
  <2>3. PICK x \in s : TRUE
    BY <2>2
  <2>4. ASSUME Right(s \ {x}) PROVE FALSE
    <3> DEFINE rest == s \ {x}
               mine == m[x] \cup t[x]
    <3>1. all(s) = all(rest) \cup mine
      BY <2>3
    <3>2. all(rest) \cap mine = {}
      BY <2>1, <2>3
    <3>3. x \in S /\ IsFiniteSet(m[x]) /\ IsFiniteSet(t[x]) /\ m[x] \cap t[x] = {}
      BY <2>1, <2>3
    <3>4. IsFiniteSet(mine) /\ Cardinality(mine) = 3 + (IF x \in Drawing THEN 3 ELSE 0)
      <4>1. /\ IsFiniteSet(mine)
            /\ Cardinality(mine) =
                   Cardinality(m[x]) + Cardinality(t[x]) - Cardinality(m[x] \cap t[x])
        BY <3>3, FS_Union
      <4>2. Cardinality(m[x] \cap t[x]) = 0
        BY <3>3, FS_EmptySet
      <4>3. Cardinality(m[x]) = 3 /\ Cardinality(t[x]) = IF x \in Drawing THEN 3 ELSE 0
        BY <3>3
      <4> QED
        BY <4>1, <4>2, <4>3
    <3>5. IsFiniteSet(all(rest)) /\ Cardinality(all(rest)) =
              3 * Cardinality(rest) + 3 * Cardinality(Drawing \cap rest)
      BY <2>4
    <3> HIDE DEF all, mine
    <3>6. /\ IsFiniteSet(all(rest) \cup mine)
          /\ Cardinality(all(rest) \cup mine) = Cardinality(all(rest)) + Cardinality(mine)
      <4>1. /\ IsFiniteSet(all(rest) \cup mine)
            /\ Cardinality(all(rest) \cup mine) =
                   Cardinality(all(rest)) + Cardinality(mine) - Cardinality(all(rest) \cap mine)
        BY <3>4, <3>5, FS_Union
      <4>2. Cardinality(all(rest) \cap mine) = 0
        BY <3>2, FS_EmptySet
      <4>3. Cardinality(all(rest)) \in Nat /\ Cardinality(mine) \in Nat
        BY <3>4, <3>5, FS_CardinalityType
      <4> QED
        BY <4>1, <4>2, <4>3
    <3>7. IsFiniteSet(s)
      BY <2>1, FS_Subset
    <3>8. Cardinality(rest) = Cardinality(s) - 1 /\ Cardinality(s) \in Nat
      BY <2>3, <3>7, FS_RemoveElement, FS_CardinalityType
    <3>9. IsFiniteSet(Drawing \cap s) /\ Cardinality(Drawing \cap s) \in Nat
      BY <3>7, FS_Intersection, FS_CardinalityType
    <3>10. Cardinality(Drawing \cap rest) =
               IF x \in Drawing THEN Cardinality(Drawing \cap s) - 1
               ELSE Cardinality(Drawing \cap s)
      <4>1. Drawing \cap rest = (Drawing \cap s) \ {x}
        OBVIOUS
      <4>2. x \in Drawing <=> x \in Drawing \cap s
        BY <2>3
      <4>3. Cardinality((Drawing \cap s) \ {x}) =
                IF x \in Drawing \cap s THEN Cardinality(Drawing \cap s) - 1
                ELSE Cardinality(Drawing \cap s)
        BY <3>9, FS_RemoveElement
      <4> QED
        BY <4>1, <4>2, <4>3
    <3> HIDE DEF rest
    <3>11. Cardinality(all(s)) = 3 * Cardinality(s) + 3 * Cardinality(Drawing \cap s)
      BY <3>1, <3>4, <3>5, <3>6, <3>8, <3>9, <3>10
    <3> QED
      BY <2>1, <3>1, <3>6, <3>11
  <2> QED
    BY <2>1, <2>3, <2>4
<1> HIDE DEF Right
<1>2. Bad = {}
  <2> HIDE DEF all
  <2>1. Bad \in SUBSET (SUBSET S)
    OBVIOUS
  <2> HIDE DEF Bad
  <2> QED
    BY <1>1, <2>1, Descends
<1>3. Right(S)
  BY <1>2
<1>4. Drawing \cap S = Drawing
  OBVIOUS
<1> QED
  BY <1>3, <1>4 DEF Right, Held

-----------------------------------------------------------------------------
(* Folds over finite sets.                                                  *)

\* Whatever is picked, a function is what a fold computes.
FoldThere(S, V, base, pick, step) ==
    \E g \in [SUBSET S -> V] :
        \A s \in SUBSET S :
            g[s] = IF s = {} THEN base ELSE step[<<pick[s], g[s \ {pick[s]}]>>]

LEMMA FoldExists ==
    ASSUME NEW S, IsFiniteSet(S), NEW V, NEW base \in V,
           NEW pick, \A s \in SUBSET S : s # {} => pick[s] \in s,
           NEW step \in [S \X V -> V]
    PROVE  FoldThere(S, V, base, pick, step)
<1> DEFINE Level(k) == {s \in SUBSET S : Cardinality(s) <= k}
           Computes(g, k) ==
               \A s \in Level(k) :
                   g[s] = IF s = {} THEN base ELSE step[<<pick[s], g[s \ {pick[s]}]>>]
           Known(k) == \E g \in [Level(k) -> V] : Computes(g, k)
           Unknown == {k \in Nat : ~Known(k)}
<1>1. ASSUME NEW s \in SUBSET S
      PROVE  /\ IsFiniteSet(s) /\ Cardinality(s) \in Nat
             /\ Cardinality(s) <= Cardinality(S)
             /\ s = {} <=> Cardinality(s) = 0
             /\ s # {} => /\ pick[s] \in s /\ s \ {pick[s]} \in SUBSET S
                          /\ Cardinality(s \ {pick[s]}) = Cardinality(s) - 1
  <2>1. IsFiniteSet(s) /\ Cardinality(s) <= Cardinality(S)
    BY FS_Subset
  <2>2. Cardinality(s) \in Nat /\ (s = {} <=> Cardinality(s) = 0)
    BY <2>1, FS_CardinalityType, FS_EmptySet
  <2>3. ASSUME s # {} PROVE pick[s] \in s /\ Cardinality(s \ {pick[s]}) = Cardinality(s) - 1
    <3>1. pick[s] \in s
      BY <2>3
    <3> QED
      BY <2>1, <3>1, FS_RemoveElement
  <2> QED
    BY <2>1, <2>2, <2>3
<1>2. Unknown = {}
  <2> SUFFICES ASSUME Unknown # {} PROVE FALSE
    OBVIOUS
  <2>1. PICK k \in Unknown : \A j \in Unknown : k <= j
    <3>1. Unknown \in SUBSET Nat
      OBVIOUS
    <3> HIDE DEF Unknown
    <3> QED
      BY <3>1, Least
  <2>2. k \in Nat /\ ~Known(k)
    OBVIOUS
  <2>3. k = 0 \/ Known(k - 1)
    <3>1. k = 0 \/ (k - 1 \in Nat /\ ~(k <= k - 1))
      BY <2>2
    <3> HIDE DEF Known
    <3> QED
      BY <2>1, <3>1
  <2>4. CASE k = 0
    <3> DEFINE g == [s \in Level(0) |-> base]
    <3>1. ASSUME NEW s \in Level(0) PROVE s = {}
      <4>1. s \in SUBSET S /\ Cardinality(s) <= 0
        OBVIOUS
      <4>2. Cardinality(s) \in Nat
        BY <1>1, <4>1
      <4>3. s = {} <=> Cardinality(s) = 0
        BY <1>1, <4>1
      <4> QED
        BY <4>1, <4>2, <4>3
    <3>2. g \in [Level(0) -> V] /\ Computes(g, 0)
      BY <3>1
    <3> QED
      BY <2>2, <2>4, <3>2
  <2>5. CASE k # 0
    <3>1. PICK f \in [Level(k - 1) -> V] : Computes(f, k - 1)
      BY <2>3, <2>5
    <3> DEFINE g == [s \in Level(k) |->
                        IF s = {} THEN base ELSE step[<<pick[s], f[s \ {pick[s]}]>>]]
    <3>2. ASSUME NEW s \in Level(k), s # {}
          PROVE  /\ pick[s] \in S /\ s \ {pick[s]} \in Level(k - 1)
                 /\ s \ {pick[s]} \in Level(k)
                 /\ f[s \ {pick[s]}] \in V /\ step[<<pick[s], f[s \ {pick[s]}]>>] \in V
      <4>1. s \in SUBSET S /\ Cardinality(s) <= k
        OBVIOUS
      <4>2. /\ pick[s] \in s /\ s \ {pick[s]} \in SUBSET S /\ Cardinality(s) \in Nat
            /\ Cardinality(s \ {pick[s]}) = Cardinality(s) - 1
        BY <1>1, <3>2, <4>1
      <4>3. pick[s] \in S /\ s \ {pick[s]} \in Level(k - 1) /\ s \ {pick[s]} \in Level(k)
        BY <2>2, <4>1, <4>2
      <4>4. f[s \ {pick[s]}] \in V
        BY <3>1, <4>3
      <4> QED
        BY <4>3, <4>4
    <3>3. ASSUME NEW s \in Level(k - 1) PROVE s \in Level(k)
      <4>1. s \in SUBSET S /\ Cardinality(s) <= k - 1
        OBVIOUS
      <4>2. Cardinality(s) \in Nat
        BY <1>1, <4>1
      <4> QED
        BY <2>2, <4>1, <4>2
    <3>4. ASSUME NEW s \in Level(k - 1) PROVE g[s] = f[s]
      <4>1. f[s] = IF s = {} THEN base ELSE step[<<pick[s], f[s \ {pick[s]}]>>]
        BY <3>1
      <4> QED
        BY <3>3, <4>1
    <3> HIDE DEF Level
    <3>5. g \in [Level(k) -> V]
      BY <3>2
    <3>6. Computes(g, k)
      <4> SUFFICES ASSUME NEW s \in Level(k)
                   PROVE  g[s] = IF s = {} THEN base
                                 ELSE step[<<pick[s], g[s \ {pick[s]}]>>]
        OBVIOUS
      <4>1. s # {} => g[s \ {pick[s]}] = f[s \ {pick[s]}]
        BY <3>2, <3>4
      <4> QED
        BY <4>1
    <3> QED
      BY <2>2, <3>5, <3>6
  <2> QED
    BY <2>4, <2>5
<1>3. Cardinality(S) \in Nat
  BY FS_CardinalityType
<1>4. Known(Cardinality(S))
  BY <1>2, <1>3
<1>5. Level(Cardinality(S)) = SUBSET S
  BY <1>1
<1> HIDE DEF Level
<1> QED
  BY <1>4, <1>5 DEF FoldThere

\* The users give back what they have, whoever is first.
LEMMA UsersGiveBack ==
    ASSUME IsFiniteSet(Added), Store(objects)
    PROVE  WithoutUsers =
               [n \in (DOMAIN objects \ UNION {UserNames(m_video_renderer[u]) : u \in Added})
                          \ {m_video_shader} |-> objects[n]]
<1> DEFINE some(s) == CHOOSE x \in s : TRUE
           P(f) == f = [s \in SUBSET Added |->
                          IF s = {} THEN objects
                          ELSE UninitializeRender(f[s \ {some(s)}], m_video_renderer[some(s)])]
           fold == CHOOSE f : P(f)
           held(s) == UNION {UserNames(m_video_renderer[u]) : u \in s}
           rest(s) == [n \in DOMAIN objects \ held(s) |-> objects[n]]
<1>1. WithoutUsers = UninitShader(fold[Added], m_video_shader)
  BY DEF WithoutUsers, FoldSet, MapThenFoldSet
<1>2. ASSUME NEW s \in SUBSET Added, s # {}
      PROVE  some(s) \in s /\ s \ {some(s)} \in SUBSET Added
  <2>1. \E x \in s : TRUE
    BY <1>2
  <2> QED
    BY <2>1
<1> HIDE DEF some
<1>3. ASSUME NEW s \in SUBSET Added, s # {}
      PROVE  rest(s) = UninitializeRender(rest(s \ {some(s)}), m_video_renderer[some(s)])
  <2> DEFINE u == some(s)
             r == m_video_renderer[u]
             before == rest(s \ {u})
  <2>1. u \in s
    BY <1>2, <1>3
  <2>2. held(s) = held(s \ {u}) \cup UserNames(r)
    BY <2>1
  <2>3. UninitializeRender(before, r) =
            Delete(Delete(before, Names(r.texture.ids)), Names(r.mesh.ids))
    BY DEF UninitializeRender, UninitMesh, UninitTexture
  <2> DEFINE after == UninitializeRender(before, r)
  <2> HIDE DEF held, r, u
  <2>4. after = [n \in (DOMAIN objects \ held(s \ {u})) \ UserNames(r) |-> objects[n]]
    BY <2>3 DEF Delete, UserNames
  <2>5. (DOMAIN objects \ held(s \ {u})) \ UserNames(r) = DOMAIN objects \ held(s)
    BY <2>2
  <2>6. after = rest(s)
    BY <2>4, <2>5
  <2> QED
    BY <2>6 DEF r, u
<1>4. rest({}) = objects
  <2>1. DOMAIN objects \ held({}) = DOMAIN objects
    OBVIOUS
  <2> HIDE DEF held
  <2> QED
    BY <2>1 DEF Store
<1>5. P([s \in SUBSET Added |-> rest(s)])
  <2> DEFINE g == [s \in SUBSET Added |-> rest(s)]
             h == [s \in SUBSET Added |->
                      IF s = {} THEN objects
                      ELSE UninitializeRender(g[s \ {some(s)}], m_video_renderer[some(s)])]
  <2>1. ASSUME NEW s \in SUBSET Added PROVE g[s] = h[s]
    <3> HIDE DEF rest
    <3>1. CASE s = {}
      BY <1>4, <3>1
    <3>2. CASE s # {}
      <4>1. g[s \ {some(s)}] = rest(s \ {some(s)})
        BY <1>2, <3>2
      <4> QED
        BY <1>3, <3>2, <4>1
    <3> QED
      BY <3>1, <3>2
  <2> HIDE DEF rest
  <2>2. g = h
    BY <2>1
  <2> QED
    BY <2>2
<1>6. P(fold)
  <2> HIDE DEF P, rest
  <2> QED
    BY <1>5
<1> DEFINE Bad == {s \in SUBSET Added : fold[s] # rest(s)}
<1>7. ASSUME NEW s \in Bad PROVE \E x \in s : s \ {x} \in Bad
  <2> HIDE DEF fold, rest
  <2>1. s \in SUBSET Added /\ fold[s] # rest(s)
    OBVIOUS
  <2>2. fold[s] = IF s = {} THEN objects
                  ELSE UninitializeRender(fold[s \ {some(s)}], m_video_renderer[some(s)])
    BY <1>6, <2>1
  <2>3. s # {}
    BY <1>4, <2>1, <2>2
  <2>4. some(s) \in s /\ s \ {some(s)} \in SUBSET Added
    BY <1>2, <2>1, <2>3
  <2>5. fold[s \ {some(s)}] # rest(s \ {some(s)})
    BY <1>3, <2>1, <2>2, <2>3
  <2> QED
    BY <2>4, <2>5
<1>8. fold[Added] = rest(Added)
  <2> HIDE DEF fold, rest
  <2>1. Bad \in SUBSET (SUBSET Added)
    OBVIOUS
  <2>2. Bad = {}
    <3> HIDE DEF Bad
    <3> QED
      BY <1>7, <2>1, Descends
  <2> QED
    BY <2>2
<1> HIDE DEF fold, held
<1>9. Delete(rest(Added), {m_video_shader}) =
          [n \in (DOMAIN objects \ held(Added)) \ {m_video_shader} |-> objects[n]]
  BY DEF Delete
<1> QED
  BY <1>1, <1>8, <1>9 DEF held, UninitShader

-----------------------------------------------------------------------------
(* The frames of a user.                                                    *)

Frames == [ts : Times, seq : 1 .. MaxFrames]

\* A context is typed, has at most the frames it may hold, and one of each time.
GoodContext(c) ==
    /\ c \in Contexts /\ IsFiniteSet(c.buffer)
    /\ Cardinality(c.buffer) <= MaxBufferedVideoFrames
    /\ \A f, g \in c.buffer : f.ts = g.ts => f = g

LEMMA FrameFacts ==
    /\ \A f \in Frames : f.ts \in Nat \ {0} /\ f.seq \in Nat \ {0}
    /\ NoFrame \notin Frames
<1>1. \A t \in Times : t \in Nat /\ t # 0
  BY EngineAssumption DEF EngineAssumption
<1>2. \A n \in 1 .. MaxFrames : n \in Nat /\ n # 0
  BY EngineAssumption DEF EngineAssumption
<1>3. \A f \in Frames : f.ts \in Times /\ f.seq \in 1 .. MaxFrames
  BY DEF Frames
<1>4. NoFrame.ts = 0
  BY DEF NoFrame
<1> QED
  BY <1>1, <1>2, <1>3, <1>4

LEMMA NewestThere ==
    ASSUME NEW frames \in SUBSET Frames, IsFiniteSet(frames), frames # {}
    PROVE  Newest(frames) \in frames /\ \A g \in frames : g.ts <= Newest(frames).ts
<1> DEFINE Has(s) == \E f \in s : \A g \in s : g.ts <= f.ts
           Bad == {s \in SUBSET frames : s # {} /\ ~Has(s)}
<1>1. ASSUME NEW s \in Bad PROVE \E x \in s : s \ {x} \in Bad
  <2>1. s \in SUBSET frames /\ s # {} /\ ~Has(s)
    OBVIOUS
  <2>2. PICK x \in s : TRUE
    BY <2>1
  <2>3. \A g \in s : g.ts \in Nat
    BY <2>1, FrameFacts
  <2>4. s \ {x} # {}
    <3> SUFFICES ASSUME s \ {x} = {} PROVE FALSE
      OBVIOUS
    <3>1. \A g \in s : g = x
      OBVIOUS
    <3>2. Has(s)
      BY <2>2, <2>3, <3>1
    <3> QED
      BY <2>1, <3>2
  <2>5. ASSUME NEW f \in s \ {x}, \A g \in s \ {x} : g.ts <= f.ts PROVE FALSE
    <3>1. x.ts \in Nat /\ f.ts \in Nat
      BY <2>2, <2>3
    <3>2. CASE x.ts <= f.ts
      <4>1. \A g \in s : g.ts <= f.ts
        BY <2>5, <3>2
      <4> QED
        BY <2>1, <4>1
    <3>3. CASE f.ts <= x.ts
      <4>1. \A g \in s : g.ts <= x.ts
        BY <2>2, <2>3, <2>5, <3>1, <3>3
      <4> QED
        BY <2>1, <2>2, <4>1
    <3> QED
      BY <3>1, <3>2, <3>3
  <2> QED
    BY <2>1, <2>2, <2>4, <2>5
<1>2. Bad \in SUBSET (SUBSET frames)
  OBVIOUS
<1>3. Bad = {}
  <2> HIDE DEF Bad
  <2> QED
    BY <1>1, <1>2, Descends
<1>4. Has(frames)
  BY <1>3
<1> QED
  BY <1>4 DEF Newest

LEMMA EarliestThere ==
    ASSUME NEW frames \in SUBSET Frames, frames # {}
    PROVE  Earliest(frames) \in frames
<1> DEFINE times == {f.ts : f \in frames}
<1>1. times \in SUBSET Nat /\ times # {}
  BY FrameFacts
<1>2. PICK n \in times : \A m \in times : n <= m
  <2> HIDE DEF times
  <2> QED
    BY <1>1, Least
<1>3. PICK f \in frames : f.ts = n
  OBVIOUS
<1>4. \A g \in frames : f.ts <= g.ts
  BY <1>2, <1>3
<1> QED
  BY <1>4 DEF Earliest

LEMMA FramePushed ==
    ASSUME NEW c, GoodContext(c), NEW f \in Frames
    PROVE  /\ GoodContext(PushFrame(c, f)) /\ PushFrame(c, f).last = c.last
           /\ PushFrame(c, f).local = c.local
<1> DEFINE kept == {g \in c.buffer : g.ts # f.ts}
           all == kept \cup {f}
           new == IF Cardinality(all) > MaxBufferedVideoFrames THEN all \ {Earliest(all)} ELSE all
<1>1. /\ c.buffer \in SUBSET Frames /\ IsFiniteSet(c.buffer)
      /\ Cardinality(c.buffer) <= MaxBufferedVideoFrames
  BY DEF GoodContext, Contexts, Frames
<1>2. /\ IsFiniteSet(kept) /\ Cardinality(kept) <= Cardinality(c.buffer)
  <2>1. kept \in SUBSET c.buffer
    OBVIOUS
  <2> QED
    BY <1>1, <2>1, FS_Subset
<1>3. f \notin kept /\ all \in SUBSET Frames /\ all # {}
  BY <1>1
<1>4. MaxBufferedVideoFrames \in Nat \ {0}
  BY SyncAssumption DEF SyncAssumption
<1> HIDE DEF kept
<1>5. IsFiniteSet(all) /\ Cardinality(all) = Cardinality(kept) + 1
  BY <1>2, <1>3, FS_AddElement
<1>6. Cardinality(kept) \in Nat /\ Cardinality(c.buffer) \in Nat
  BY <1>1, <1>2, FS_CardinalityType
<1>7. Earliest(all) \in all
  BY <1>3, EarliestThere
<1>8. \A g, h \in all : g.ts = h.ts => g = h
  BY <1>3 DEF kept, GoodContext
<1> HIDE DEF all
<1>9. /\ new \in SUBSET all /\ IsFiniteSet(new) /\ Cardinality(new) <= MaxBufferedVideoFrames
  <2>1. CASE Cardinality(all) > MaxBufferedVideoFrames
    <3>1. /\ IsFiniteSet(all \ {Earliest(all)})
          /\ Cardinality(all \ {Earliest(all)}) = Cardinality(all) - 1
      BY <1>5, <1>7, FS_RemoveElement
    <3> QED
      BY <1>1, <1>2, <1>4, <1>5, <1>6, <2>1, <3>1
  <2>2. CASE ~(Cardinality(all) > MaxBufferedVideoFrames)
    BY <1>4, <1>5, <1>6, <2>2
  <2> QED
    BY <2>1, <2>2
<1>10. PushFrame(c, f) = [c EXCEPT !.buffer = new]
  BY DEF PushFrame, all, kept
<1> HIDE DEF new
<1>11. /\ [c EXCEPT !.buffer = new] \in Contexts
       /\ [c EXCEPT !.buffer = new].buffer = new
       /\ [c EXCEPT !.buffer = new].last = c.last
       /\ [c EXCEPT !.buffer = new].local = c.local
  BY <1>3, <1>9 DEF GoodContext, Contexts, Frames
<1> QED
  BY <1>8, <1>9, <1>10, <1>11 DEF GoodContext

\* What becomes of a context when frames are shown or dropped.
Later(c) == {d \in Contexts : d.local = c.local /\ d.buffer \subseteq c.buffer}

LEMMA LessWaits ==
    ASSUME NEW c, GoodContext(c), NEW d \in Later(c)
    PROVE  GoodContext(d) /\ d.local = c.local
<1>1. d.buffer \in SUBSET c.buffer /\ d \in Contexts /\ d.local = c.local
  BY DEF Later
<1>2. IsFiniteSet(d.buffer) /\ Cardinality(d.buffer) <= Cardinality(c.buffer)
  BY <1>1, FS_Subset DEF GoodContext
<1>3. Cardinality(d.buffer) \in Nat /\ Cardinality(c.buffer) \in Nat
  BY <1>2, FS_CardinalityType DEF GoodContext
<1>4. MaxBufferedVideoFrames \in Nat \ {0}
  BY SyncAssumption DEF SyncAssumption
<1> QED
  BY <1>1, <1>2, <1>3, <1>4 DEF GoodContext

LEMMA Evaluated ==
    ASSUME NEW sync \in Syncs, NEW v \in Nat, NEW a \in Nat
    PROVE  /\ EvaluateVideoFrame(sync, v, a).sync \in Syncs
           /\ EvaluateVideoFrame(sync, v, a).timeline_reset \in BOOLEAN
<1> DEFINE jump == sync.initialized /\ TimelineJumps(sync, v, a)
           base == IF jump \/ ~sync.initialized THEN AlignedAt(v, a) ELSE sync
<1>1. AlignedAt(v, a) \in Syncs
  BY DEF AlignedAt, Syncs
<1>2. base \in Syncs
  BY <1>1
<1> HIDE DEF base
<1>3. [base EXCEPT !.video = v, !.audio = a] \in Syncs
  BY <1>2 DEF Syncs
<1>4. EvaluateVideoFrame(sync, v, a).sync = [base EXCEPT !.video = v, !.audio = a]
  BY DEF EvaluateVideoFrame, base
<1>5. EvaluateVideoFrame(sync, v, a).timeline_reset = jump
  BY DEF EvaluateVideoFrame
<1> QED
  BY <1>3, <1>4, <1>5

\* Where the loop over the frames may be.
Rounds(c) == [decided : BOOLEAN, c : Later(c)]

LEMMA Judged ==
    ASSUME NEW c \in Contexts, NEW f \in c.buffer, NEW r \in Rounds(c), NEW now \in Nat
    PROVE  JudgeFrame(r, f, now) \in Rounds(c)
<1> DEFINE d == EvaluateVideoFrame(r.c.sync, f.ts, now)
           judged == [r.c EXCEPT !.sync = d.sync]
           cleared == [judged EXCEPT !.buffer = {}, !.last = f]
           taken == [judged EXCEPT !.buffer = @ \ {f}]
           shown == [taken EXCEPT !.last = f]
<1>1. r.decided \in BOOLEAN /\ r.c \in Later(c) /\ r.c \in Contexts /\ r.c.sync \in Syncs
  BY DEF Rounds, Later, Contexts
<1>2. f \in [ts : Times, seq : 1 .. MaxFrames] /\ f.ts \in Nat
  <2>1. f \in [ts : Times, seq : 1 .. MaxFrames]
    BY DEF Contexts
  <2> QED
    BY <2>1, FrameFacts DEF Frames
<1>3. d.sync \in Syncs /\ d.timeline_reset \in BOOLEAN
  BY <1>1, <1>2, Evaluated
<1>4. JudgeFrame(r, f, now) =
          CASE r.decided -> r
            [] ~r.decided /\ d.timeline_reset -> [decided |-> TRUE, c |-> cleared]
            [] ~r.decided /\ ~d.timeline_reset /\ d.action = "wait" ->
                  [decided |-> TRUE, c |-> judged]
            [] ~r.decided /\ ~d.timeline_reset /\ d.action = "drop" ->
                  [decided |-> FALSE, c |-> taken]
            [] OTHER -> [decided |-> TRUE, c |-> shown]
  BY DEF JudgeFrame
<1> HIDE DEF d
<1>5. /\ judged \in Contexts /\ judged.local = c.local /\ judged.buffer \subseteq c.buffer
  BY <1>1, <1>3 DEF Later, Contexts
<1> HIDE DEF judged
<1>6. cleared \in Later(c) /\ judged \in Later(c)
  BY <1>2, <1>5 DEF Later, Contexts
<1>7. /\ taken \in Contexts /\ taken.local = c.local /\ taken.buffer \subseteq c.buffer
  BY <1>5 DEF Contexts
<1> HIDE DEF taken
<1>8. taken \in Later(c) /\ shown \in Later(c)
  BY <1>2, <1>7 DEF Later, Contexts
<1> HIDE DEF cleared, shown
<1>9. JudgeFrame(r, f, now) \in
          {r, [decided |-> TRUE, c |-> cleared], [decided |-> TRUE, c |-> judged],
           [decided |-> FALSE, c |-> taken], [decided |-> TRUE, c |-> shown]}
  BY <1>1, <1>3, <1>4
<1>10. \A b \in BOOLEAN, x \in Later(c) : [decided |-> b, c |-> x] \in Rounds(c)
  BY DEF Rounds
<1> QED
  BY <1>6, <1>8, <1>9, <1>10

\* What a round of the loop does to the frames that wait and to the one seen.
LEMMA JudgedHow ==
    ASSUME NEW c \in Contexts, NEW f \in c.buffer, NEW r \in Rounds(c), NEW now \in Nat
    PROVE  LET new == JudgeFrame(r, f, now) IN
           \/ r.decided /\ new = r
           \/ ~r.decided /\ new.decided /\ new.c.buffer = {} /\ new.c.last = f
           \/ /\ ~r.decided /\ new.decided
              /\ new.c.buffer = r.c.buffer /\ new.c.last = r.c.last
           \/ /\ ~r.decided /\ ~new.decided
              /\ new.c.buffer = r.c.buffer \ {f} /\ new.c.last = r.c.last
           \/ /\ ~r.decided /\ new.decided
              /\ new.c.buffer = r.c.buffer \ {f} /\ new.c.last = f
<1> DEFINE d == EvaluateVideoFrame(r.c.sync, f.ts, now)
           judged == [r.c EXCEPT !.sync = d.sync]
           cleared == [judged EXCEPT !.buffer = {}, !.last = f]
           taken == [judged EXCEPT !.buffer = @ \ {f}]
           shown == [taken EXCEPT !.last = f]
           new == JudgeFrame(r, f, now)
<1>1. r.decided \in BOOLEAN /\ r.c \in Contexts /\ r.c.sync \in Syncs
  BY DEF Rounds, Later, Contexts
<1>2. f.ts \in Nat
  <2>1. f \in [ts : Times, seq : 1 .. MaxFrames]
    BY DEF Contexts
  <2> QED
    BY <2>1, FrameFacts DEF Frames
<1>3. d.timeline_reset \in BOOLEAN
  BY <1>1, <1>2, Evaluated
<1>4. new =
          CASE r.decided -> r
            [] ~r.decided /\ d.timeline_reset -> [decided |-> TRUE, c |-> cleared]
            [] ~r.decided /\ ~d.timeline_reset /\ d.action = "wait" ->
                  [decided |-> TRUE, c |-> judged]
            [] ~r.decided /\ ~d.timeline_reset /\ d.action = "drop" ->
                  [decided |-> FALSE, c |-> taken]
            [] OTHER -> [decided |-> TRUE, c |-> shown]
  BY DEF JudgeFrame
<1> HIDE DEF d, new
<1>5. judged.buffer = r.c.buffer /\ judged.last = r.c.last /\ DOMAIN judged = DOMAIN r.c
  BY <1>1 DEF Contexts
<1>6. {"buffer", "last"} \subseteq DOMAIN r.c
  BY <1>1 DEF Contexts
<1> HIDE DEF judged
<1>7. /\ cleared.buffer = {} /\ cleared.last = f
      /\ taken.buffer = r.c.buffer \ {f} /\ taken.last = r.c.last
      /\ DOMAIN taken = DOMAIN r.c
  BY <1>5, <1>6
<1> HIDE DEF taken
<1>8. shown.buffer = r.c.buffer \ {f} /\ shown.last = f
  BY <1>6, <1>7
<1> HIDE DEF cleared, shown
<1>9. \/ r.decided /\ new = r
      \/ ~r.decided /\ new = [decided |-> TRUE, c |-> cleared]
      \/ ~r.decided /\ new = [decided |-> TRUE, c |-> judged]
      \/ ~r.decided /\ new = [decided |-> FALSE, c |-> taken]
      \/ ~r.decided /\ new = [decided |-> TRUE, c |-> shown]
  BY <1>1, <1>3, <1>4
<1>10. \/ r.decided /\ new = r
       \/ ~r.decided /\ new.decided /\ new.c.buffer = {} /\ new.c.last = f
       \/ /\ ~r.decided /\ new.decided
          /\ new.c.buffer = r.c.buffer /\ new.c.last = r.c.last
       \/ /\ ~r.decided /\ ~new.decided
          /\ new.c.buffer = r.c.buffer \ {f} /\ new.c.last = r.c.last
       \/ /\ ~r.decided /\ new.decided
          /\ new.c.buffer = r.c.buffer \ {f} /\ new.c.last = f
  BY <1>5, <1>7, <1>8, <1>9
<1> QED
  BY <1>10 DEF new

\* No frame that waits came before the one that is seen and is earlier than it.
Ahead(c) == \A f \in c.buffer : f.seq < c.last.seq => f.ts > c.last.ts

\* How far the loop has come when the frames of s have been judged.
Sorted(r, c, s) ==
    /\ Ahead(c) => Ahead(r.c)
    /\ r.c.last \in c.buffer \cup {c.last}
    /\ ~r.decided => r.c.buffer = c.buffer \ s /\ r.c.last = c.last

LEMMA ShownInStep ==
    ASSUME NEW c, GoodContext(c), NEW now \in Nat
    PROVE  /\ ShowInStep(c, now) \in Later(c)
           /\ Ahead(c) => Ahead(ShowInStep(c, now))
           /\ ShowInStep(c, now).last \in c.buffer \cup {c.last}
<1> DEFINE S == c.buffer
           V == Rounds(c)
           base == [decided |-> FALSE, c |-> c]
           P(g) == g = [s \in SUBSET S |->
                          IF s = {} THEN base ELSE JudgeFrame(g[s \ {Newest(s)}], Newest(s), now)]
           fold == CHOOSE g : P(g)
           step == [p \in S \X V |-> JudgeFrame(p[2], p[1], now)]
           pick == [s \in SUBSET S |-> Newest(s)]
<1>1. ShowInStep(c, now) = fold[S].c
  BY DEF ShowInStep, MapThenFoldSet
<1>2. c \in Contexts /\ c \in Later(c) /\ base \in V
  BY DEF GoodContext, Later, Rounds
<1>3. ASSUME NEW s \in SUBSET S, s # {} PROVE Newest(s) \in s
  <2>1. s \in SUBSET Frames /\ IsFiniteSet(s)
    BY FS_Subset DEF GoodContext, Contexts, Frames
  <2> QED
    BY <1>3, <2>1, NewestThere
<1>4. \A f \in S, r \in V : JudgeFrame(r, f, now) \in V
  BY <1>2, Judged
<1>5. step \in [S \X V -> V]
  BY <1>4
<1>6. \A f \in S, r \in V : step[<<f, r>>] = JudgeFrame(r, f, now)
  OBVIOUS
<1>7. IsFiniteSet(S)
  BY DEF GoodContext
<1>8. \A s \in SUBSET S : s # {} => pick[s] \in s
  BY <1>3
<1> HIDE DEF S, V, base, step
<1>9. PICK some \in [SUBSET S -> V] :
          \A s \in SUBSET S :
              some[s] = IF s = {} THEN base ELSE step[<<pick[s], some[s \ {pick[s]}]>>]
  <2> HIDE DEF pick
  <2>1. FoldThere(S, V, base, pick, step)
    BY <1>2, <1>5, <1>7, <1>8, FoldExists
  <2> QED
    BY <2>1 DEF FoldThere
<1>10. ASSUME NEW s \in SUBSET S
       PROVE  some[s] = IF s = {} THEN base
                     ELSE JudgeFrame(some[s \ {Newest(s)}], Newest(s), now)
  <2>1. CASE s = {}
    BY <1>9, <2>1
  <2>2. CASE s # {}
    <3>1. pick[s] = Newest(s) /\ Newest(s) \in S /\ some[s \ {Newest(s)}] \in V
      BY <1>3, <1>9, <2>2
    <3>2. some[s] = step[<<Newest(s), some[s \ {Newest(s)}]>>]
      BY <1>9, <2>2, <3>1
    <3> QED
      BY <1>6, <2>2, <3>1, <3>2
  <2> QED
    BY <2>1, <2>2
<1>11. P(some)
  BY <1>9, <1>10
<1>12. P(fold)
  <2> HIDE DEF P
  <2> QED
    BY <1>11
<1> DEFINE Bad == {s \in SUBSET S : fold[s] \notin V}
<1>13. ASSUME NEW s \in Bad PROVE \E x \in s : s \ {x} \in Bad
  <2> HIDE DEF fold
  <2>1. s \in SUBSET S /\ fold[s] \notin V
    OBVIOUS
  <2>2. fold[s] = IF s = {} THEN base ELSE JudgeFrame(fold[s \ {Newest(s)}], Newest(s), now)
    BY <1>12, <2>1
  <2>3. s # {}
    BY <1>2, <2>1, <2>2
  <2>4. Newest(s) \in s /\ Newest(s) \in S
    BY <1>3, <2>1, <2>3
  <2>5. fold[s \ {Newest(s)}] \notin V
    BY <1>4, <2>1, <2>2, <2>3, <2>4
  <2> QED
    BY <2>1, <2>4, <2>5
<1>14. fold[S] \in V
  <2> HIDE DEF fold
  <2>1. Bad \in SUBSET (SUBSET S)
    OBVIOUS
  <2>2. Bad = {}
    <3> HIDE DEF Bad
    <3> QED
      BY <1>7, <1>13, <2>1, Descends
  <2> QED
    BY <2>2
<1>15. \A s \in SUBSET S : fold[s] \in V
  <2> HIDE DEF fold
  <2>1. Bad \in SUBSET (SUBSET S)
    OBVIOUS
  <2>2. Bad = {}
    <3> HIDE DEF Bad
    <3> QED
      BY <1>7, <1>13, <2>1, Descends
  <2> QED
    BY <2>2
<1>16. \A s \in SUBSET S :
           fold[s] = IF s = {} THEN base ELSE JudgeFrame(fold[s \ {Newest(s)}], Newest(s), now)
  <2> HIDE DEF fold
  <2> QED
    BY <1>12
<1> HIDE DEF fold, P, Bad
<1> DEFINE Early(s) == \A f \in s, g \in S \ s : f.ts < g.ts
           Wrong == {s \in SUBSET S : Early(s) /\ ~Sorted(fold[s], c, s)}
<1>17. S = c.buffer /\ (\A f \in S : f.ts \in Nat /\ f.seq \in Nat)
  BY FrameFacts DEF S, GoodContext, Contexts, Frames
<1>18. ASSUME NEW s \in Wrong PROVE \E x \in s : s \ {x} \in Wrong
  <2>1. s \in SUBSET S /\ Early(s) /\ ~Sorted(fold[s], c, s)
    OBVIOUS
  <2>2. s # {}
    <3>1. Sorted(base, c, {})
      BY DEF base, Sorted
    <3> QED
      BY <1>16, <2>1, <3>1
  <2> DEFINE f == Newest(s)
             r == fold[s \ {f}]
             new == JudgeFrame(r, f, now)
  <2>3. f \in s /\ f \in S /\ f \in c.buffer /\ s \ {f} \in SUBSET S
    BY <1>3, <1>17, <2>1, <2>2
  <2>4. \A g \in s : g.ts <= f.ts
    <3>1. s \in SUBSET Frames /\ IsFiniteSet(s)
      BY <2>1, FS_Subset DEF S, GoodContext, Contexts, Frames
    <3> QED
      BY <2>2, <3>1, NewestThere
  <2> HIDE DEF f
  <2>5. Early(s \ {f})
    <3> SUFFICES ASSUME NEW g \in s \ {f}, NEW h \in S \ (s \ {f}) PROVE g.ts < h.ts
      OBVIOUS
    <3>1. CASE h \notin s
      BY <2>1, <3>1
    <3>2. CASE h = f
      <4>1. g.ts <= f.ts /\ g.ts # f.ts
        BY <2>1, <2>3, <2>4 DEF GoodContext, S
      <4>2. g.ts \in Nat /\ f.ts \in Nat
        BY <1>17, <2>1, <2>3
      <4> QED
        BY <3>2, <4>1, <4>2
    <3> QED
      BY <3>1, <3>2
  <2>6. ASSUME Sorted(r, c, s \ {f}) PROVE FALSE
    <3>1. r \in Rounds(c)
      BY <1>15, <2>3 DEF V
    <3>2. \/ r.decided /\ new = r
          \/ ~r.decided /\ new.decided /\ new.c.buffer = {} /\ new.c.last = f
          \/ /\ ~r.decided /\ new.decided
             /\ new.c.buffer = r.c.buffer /\ new.c.last = r.c.last
          \/ /\ ~r.decided /\ ~new.decided
             /\ new.c.buffer = r.c.buffer \ {f} /\ new.c.last = r.c.last
          \/ /\ ~r.decided /\ new.decided
             /\ new.c.buffer = r.c.buffer \ {f} /\ new.c.last = f
      <4> HIDE DEF r
      <4> QED
        BY <1>2, <2>3, <3>1, JudgedHow
    <3>3. fold[s] = new
      BY <1>16, <2>1, <2>2 DEF f
    <3> HIDE DEF new, r
    <3>4. ~r.decided => r.c.buffer \ {f} = S \ s
      BY <1>17, <2>3, <2>6 DEF Sorted
    <3>5. \A g \in S \ s : g.ts > f.ts
      BY <1>17, <2>1, <2>3
    <3>6. Sorted(new, c, s)
      <4>1. CASE r.decided /\ new = r
        BY <2>6, <4>1 DEF Sorted
      <4>2. CASE ~r.decided /\ new.decided /\ new.c.buffer = {} /\ new.c.last = f
        BY <2>3, <4>2 DEF Sorted, Ahead
      <4>3. CASE /\ ~r.decided /\ new.decided
                 /\ new.c.buffer = r.c.buffer /\ new.c.last = r.c.last
        BY <2>6, <4>3 DEF Sorted, Ahead
      <4>4. CASE /\ ~r.decided /\ ~new.decided
                 /\ new.c.buffer = r.c.buffer \ {f} /\ new.c.last = r.c.last
        BY <1>17, <2>6, <3>4, <4>4 DEF Sorted, Ahead
      <4>5. CASE /\ ~r.decided /\ new.decided
                 /\ new.c.buffer = r.c.buffer \ {f} /\ new.c.last = f
        BY <1>17, <2>3, <3>4, <3>5, <4>5 DEF Sorted, Ahead
      <4> QED
        BY <3>2, <4>1, <4>2, <4>3, <4>4, <4>5
    <3> QED
      BY <2>1, <3>3, <3>6
  <2> QED
    BY <2>3, <2>5, <2>6
<1>19. Sorted(fold[S], c, S)
  <2>1. Wrong \in SUBSET (SUBSET S)
    OBVIOUS
  <2>2. Wrong = {}
    <3> HIDE DEF Wrong
    <3> QED
      BY <1>7, <1>18, <2>1, Descends
  <2>3. Early(S)
    OBVIOUS
  <2> HIDE DEF Early
  <2> QED
    BY <2>2, <2>3
<1> QED
  BY <1>1, <1>14, <1>19 DEF V, Rounds, Sorted

LEMMA FrameChosen ==
    ASSUME NEW c, GoodContext(c), NEW now \in Nat
    PROVE  GoodContext(RenderFrame(c, now)) /\ RenderFrame(c, now).local = c.local
<1> DEFINE d == HandleAudioClockTransition(c, now > 0)
           shown == RenderFrame(c, now)
<1>1. /\ c \in Contexts /\ c.buffer \in SUBSET Frames /\ IsFiniteSet(c.buffer)
  BY DEF GoodContext, Contexts, Frames
<1>2. d \in Later(c)
  <2>1. CASE c.local \/ (now > 0) = c.clockWasValid
    BY <1>1, <2>1 DEF HandleAudioClockTransition, Later
  <2>2. CASE ~(c.local \/ (now > 0) = c.clockWasValid)
    <3> DEFINE kept == IF c.buffer = {} THEN {} ELSE {Newest(c.buffer)}
    <3>1. kept \in SUBSET c.buffer
      BY <1>1, NewestThere
    <3>2. d = [c EXCEPT !.clockWasValid = now > 0, !.sync = ResetSync, !.buffer = kept]
      BY <2>2 DEF HandleAudioClockTransition
    <3>3. ResetSync \in Syncs
      BY DEF ResetSync, Syncs
    <3> DEFINE valid == now > 0
    <3>4. valid \in BOOLEAN
      OBVIOUS
    <3>5. d = [c EXCEPT !.clockWasValid = valid, !.sync = ResetSync, !.buffer = kept]
      BY <3>2
    <3> HIDE DEF kept, d, valid
    <3>6. d \in Contexts /\ d.local = c.local /\ d.buffer = kept
      BY <1>1, <3>1, <3>3, <3>4, <3>5 DEF Contexts
    <3> QED
      BY <3>1, <3>6 DEF Later
  <2> QED
    BY <2>1, <2>2
<1>3. GoodContext(d) /\ d.local = c.local
  BY <1>2, LessWaits
<1>4. shown = IF d.buffer = {} THEN d
              ELSE IF d.local \/ now = 0 THEN ShowNewest(d) ELSE ShowInStep(d, now)
  BY DEF RenderFrame
<1> HIDE DEF d
<1>5. ASSUME d.buffer # {} PROVE ShowNewest(d) \in Later(d)
  <2>1. d \in Contexts /\ d.buffer \in SUBSET Frames /\ IsFiniteSet(d.buffer)
    BY <1>3 DEF GoodContext, Contexts, Frames
  <2>2. Newest(d.buffer) \in d.buffer
    BY <1>5, <2>1, NewestThere
  <2> QED
    BY <2>1, <2>2 DEF ShowNewest, Later, Contexts
<1>6. ShowInStep(d, now) \in Later(d)
  BY <1>3, ShownInStep
<1>7. d \in Later(d)
  BY <1>3 DEF GoodContext, Later
<1>8. shown \in Later(d)
  BY <1>4, <1>5, <1>6, <1>7
<1> HIDE DEF shown
<1>9. GoodContext(shown) /\ shown.local = c.local
  BY <1>3, <1>8, LessWaits
<1> QED
  BY <1>9 DEF shown

-----------------------------------------------------------------------------
(* What the driver has belongs to the shader or to one user.                *)

Owned(os, shader, users, r) ==
    /\ Store(os) /\ ShaderOwns(os, shader)
    /\ users # {} => shader # 0
    /\ \A u \in users : RenderOwns(os, r[u]) /\ shader \notin UserNames(r[u])
    /\ \A u, v \in users : u # v => UserNames(r[u]) \cap UserNames(r[v]) = {}
    /\ \A n : n \in DOMAIN os <=>
                  (n = shader /\ shader # 0) \/ \E u \in users : n \in UserNames(r[u])

LEMMA NamesInStore ==
    ASSUME NEW os, Store(os), NEW r, RenderOwns(os, r)
    PROVE  UserNames(r) \subseteq DOMAIN os
<1>1. Names(NoTexture.ids) = {}
  BY NoNamesHeld DEF NoTexture
<1> QED
  BY <1>1 DEF UserNames, RenderOwns, Textured

\* The program is built, or nothing has changed.
LEMMA ShaderAdded ==
    ASSUME NEW os, NEW shader, NEW users, NEW r, Owned(os, shader, users, r),
           NEW fails \in Stages
    PROVE  /\ Owned(InitShader(os, shader, fails).objects, InitShader(os, shader, fails).id,
                    users, r)
           /\ InitShader(os, shader, fails).id = 0 =>
                  shader = 0 /\ InitShader(os, shader, fails).objects = os
<1> DEFINE made == InitShader(os, shader, fails)
<1>1. /\ Store(made.objects) /\ ShaderOwns(made.objects, made.id)
      /\ \A n \in DOMAIN os : n \in DOMAIN made.objects /\ made.objects[n] = os[n]
      /\ \/ made.id = shader /\ made.objects = os
         \/ /\ shader = 0 /\ made.id \in Nat \ {0} /\ made.id \notin DOMAIN os
            /\ DOMAIN made.objects = DOMAIN os \cup {made.id}
  BY ShaderMade DEF Owned
<1> HIDE DEF made
<1>2. CASE made.id = shader /\ made.objects = os
  BY <1>2 DEF made
<1>3. CASE /\ shader = 0 /\ made.id \in Nat \ {0} /\ made.id \notin DOMAIN os
           /\ DOMAIN made.objects = DOMAIN os \cup {made.id}
  <2>1. users = {}
    BY <1>3 DEF Owned
  <2>2. DOMAIN os = {}
    BY <1>3, <2>1 DEF Owned
  <2>3. \A n : n \in DOMAIN made.objects <=> (n = made.id /\ made.id # 0)
    BY <1>3, <2>2
  <2>4. Owned(made.objects, made.id, users, r)
    BY <1>1, <2>1, <2>3 DEF Owned
  <2> QED
    BY <1>3, <2>4 DEF made
<1> QED
  BY <1>1, <1>2, <1>3

LEMMA RenderAdded ==
    ASSUME NEW os, NEW shader, NEW users, NEW r, Owned(os, shader, users, r), shader # 0,
           DOMAIN r = users, NEW u, u \notin users, NEW new, NEW mine,
           Store(new), RenderOwns(new, mine), DOMAIN new = DOMAIN os \cup UserNames(mine),
           UserNames(mine) \cap DOMAIN os = {}, \A n \in DOMAIN os : new[n] = os[n]
    PROVE  Owned(new, shader, users \cup {u}, Put(r, u, mine))
<1> DEFINE all == Put(r, u, mine)
<1>1. DOMAIN all = users \cup {u} /\ all[u] = mine /\ \A v \in users : all[v] = r[v]
  BY DEF Put
<1> HIDE DEF all
<1>2. Keeps(os, new, {})
  BY DEF Keeps
<1>3. \A v \in users : RenderOwns(new, r[v]) /\ UserNames(r[v]) \subseteq DOMAIN os
  <2> TAKE v \in users
  <2>1. RenderOwns(os, r[v]) /\ UserNames(r[v]) \cap {} = {}
    BY DEF Owned
  <2>2. RenderOwns(new, r[v])
    BY <1>2, <2>1, OthersKept
  <2> QED
    BY <2>1, <2>2, NamesInStore DEF Owned
<1>4. shader \in DOMAIN os
  BY DEF Owned
<1>5. ShaderOwns(new, shader)
  BY <1>4 DEF Owned, ShaderOwns
<1>6. \A v \in users \cup {u} : RenderOwns(new, all[v]) /\ shader \notin UserNames(all[v])
  BY <1>1, <1>3, <1>4 DEF Owned
<1>7. \A v, w \in users \cup {u} : v # w => UserNames(all[v]) \cap UserNames(all[w]) = {}
  BY <1>1, <1>3 DEF Owned
<1>8. \A n : n \in DOMAIN new <=>
                 (n = shader /\ shader # 0) \/ \E v \in users \cup {u} : n \in UserNames(all[v])
  BY <1>1 DEF Owned
<1> QED
  BY <1>5, <1>6, <1>7, <1>8 DEF Owned, all

\* A user takes names with it when it goes and gives the others theirs.
LEMMA RenderRemoved ==
    ASSUME NEW os, NEW shader, NEW users, NEW r, Owned(os, shader, users, r), NEW u \in users
    PROVE  Owned(UninitializeRender(os, r[u]), shader, users \ {u},
                 [v \in users \ {u} |-> r[v]])
<1> DEFINE new == UninitializeRender(os, r[u])
           less == [v \in users \ {u} |-> r[v]]
           first == Delete(os, Names(r[u].texture.ids))
<1>1. new = Delete(first, Names(r[u].mesh.ids))
  BY DEF UninitializeRender, UninitMesh, UninitTexture
<1>2. Store(first) /\ DOMAIN first = DOMAIN os \ Names(r[u].texture.ids)
  <2>1. Store(os)
    BY DEF Owned
  <2> QED
    BY <2>1, Deletes
<1> HIDE DEF first
<1>3. Store(new) /\ DOMAIN new = DOMAIN first \ Names(r[u].mesh.ids)
  <2> DEFINE names == Names(r[u].mesh.ids)
  <2> HIDE DEF names, new
  <2>1. Store(Delete(first, names)) /\ DOMAIN Delete(first, names) = DOMAIN first \ names
    BY <1>2, Deletes
  <2> QED
    BY <1>1, <2>1 DEF names
<1>4. DOMAIN new = DOMAIN os \ UserNames(r[u])
  BY <1>2, <1>3 DEF UserNames
<1>5. \A n \in DOMAIN os : n \notin UserNames(r[u]) => n \in DOMAIN new /\ new[n] = os[n]
  BY <1>1, <1>4 DEF first, Delete, UserNames
<1> HIDE DEF new
<1>6. Keeps(os, new, UserNames(r[u]))
  BY <1>5 DEF Keeps
<1>7. \A v \in users \ {u} : less[v] = r[v]
  OBVIOUS
<1> HIDE DEF less
<1>8. \A v \in users \ {u} : RenderOwns(new, r[v])
  <2> TAKE v \in users \ {u}
  <2>1. RenderOwns(os, r[v]) /\ UserNames(r[v]) \cap UserNames(r[u]) = {}
    BY DEF Owned
  <2> QED
    BY <1>6, <2>1, OthersKept
<1>9. shader # 0 /\ shader \in DOMAIN os /\ shader \notin UserNames(r[u])
  BY DEF Owned
<1>10. ShaderOwns(new, shader)
  BY <1>5, <1>9 DEF Owned, ShaderOwns
<1>11. \A n : n \in DOMAIN new <=>
                  (n = shader /\ shader # 0) \/ \E v \in users \ {u} : n \in UserNames(less[v])
  <2>1. \A v \in users \ {u} : UserNames(less[v]) \cap UserNames(r[u]) = {}
    BY <1>7 DEF Owned
  <2> QED
    BY <1>4, <1>7, <1>9, <2>1 DEF Owned
<1>12. \A v, w \in users \ {u} : v # w => UserNames(less[v]) \cap UserNames(less[w]) = {}
  BY <1>7 DEF Owned
<1>13. \A v \in users \ {u} : RenderOwns(new, less[v]) /\ shader \notin UserNames(less[v])
  BY <1>7, <1>8 DEF Owned
<1> QED
  BY <1>3, <1>9, <1>10, <1>11, <1>12, <1>13 DEF Owned, new, less

\* A drawing changes what the user has, and the program.
LEMMA RenderDrawn ==
    ASSUME NEW os, NEW shader, NEW users, NEW r, Owned(os, shader, users, r), NEW u \in users,
           DOMAIN r = users, NEW new, NEW mine, Store(new), ShaderOwns(new, shader),
           RenderOwns(new, mine), Takes(os, new, UserNames(r[u]), UserNames(mine)),
           Keeps(os, new, UserNames(r[u]) \cup {shader})
    PROVE  Owned(new, shader, users, [r EXCEPT ![u] = mine])
<1> DEFINE all == [r EXCEPT ![u] = mine]
<1>1. all[u] = mine /\ \A v \in users : v # u => all[v] = r[v]
  OBVIOUS
<1> HIDE DEF all
<1>2. \A v \in users : v # u => /\ RenderOwns(new, r[v]) /\ UserNames(r[v]) \subseteq DOMAIN os
                                /\ UserNames(r[v]) \cap UserNames(r[u]) = {}
  <2> TAKE v \in users
  <2> HAVE v # u
  <2>1. RenderOwns(os, r[v]) /\ UserNames(r[v]) \cap (UserNames(r[u]) \cup {shader}) = {}
    BY DEF Owned
  <2>2. RenderOwns(new, r[v])
    BY <2>1, OthersKept
  <2> QED
    BY <2>1, <2>2, NamesInStore DEF Owned
<1>3. shader # 0 /\ shader \in DOMAIN os /\ shader \notin UserNames(r[u])
  BY DEF Owned
<1>4. shader \notin UserNames(mine)
  BY <1>3 DEF Takes
<1>5. \A v \in users : v # u => UserNames(r[v]) \cap UserNames(mine) = {}
  BY <1>2 DEF Takes
<1>6. \A v \in users : RenderOwns(new, all[v]) /\ shader \notin UserNames(all[v])
  BY <1>1, <1>2, <1>4 DEF Owned
<1>7. \A v, w \in users : v # w => UserNames(all[v]) \cap UserNames(all[w]) = {}
  BY <1>1, <1>5 DEF Owned
<1>8. \A n : n \in DOMAIN new <=>
                 (n = shader /\ shader # 0) \/ \E v \in users : n \in UserNames(all[v])
  <2> TAKE n
  <2>1. n \in DOMAIN new <=> (n \in DOMAIN os /\ n \notin UserNames(r[u])) \/ n \in UserNames(mine)
    BY DEF Takes
  <2>2. n \in DOMAIN os <=> n = shader \/ \E v \in users : n \in UserNames(r[v])
    BY <1>3 DEF Owned
  <2>3. CASE n \in UserNames(mine)
    BY <1>1, <2>1, <2>3
  <2>4. CASE n \notin UserNames(mine)
    <3>1. (\E v \in users : n \in UserNames(all[v])) <=>
              \E v \in users : v # u /\ n \in UserNames(r[v])
      BY <1>1, <2>4
    <3>2. (\E v \in users : v # u /\ n \in UserNames(r[v])) <=>
              (\E v \in users : n \in UserNames(r[v])) /\ n \notin UserNames(r[u])
      BY <1>2
    <3> QED
      BY <1>3, <2>1, <2>2, <2>4, <3>1, <3>2
  <2> QED
    BY <2>3, <2>4
<1> QED
  BY <1>3, <1>6, <1>7, <1>8 DEF Owned, all

\* A new size waits for the next drawing.
LEMMA RenderResized ==
    ASSUME NEW os, NEW shader, NEW users, NEW r, Owned(os, shader, users, r), NEW u \in users,
           DOMAIN r = users, NEW size \in Sizes
    PROVE  Owned(os, shader, users, [r EXCEPT ![u] = ResizeVideo(@, size)])
<1> DEFINE mine == ResizeVideo(r[u], size)
           all == [r EXCEPT ![u] = mine]
<1>1. RenderOwns(os, r[u]) /\ r[u] \in Renders
  BY DEF Owned, RenderOwns
<1>2. mine \in Renders /\ mine.mesh = r[u].mesh /\ mine.texture = r[u].texture
  BY <1>1 DEF ResizeVideo, Renders
<1> HIDE DEF mine
<1>3. RenderOwns(os, mine) /\ UserNames(mine) = UserNames(r[u])
  BY <1>1, <1>2 DEF RenderOwns, UserNames
<1>4. \A v \in users : all[v] = IF v = u THEN mine ELSE r[v]
  OBVIOUS
<1> HIDE DEF all
<1>5. \A v \in users : UserNames(all[v]) = UserNames(r[v]) /\ RenderOwns(os, all[v])
  BY <1>2, <1>3, <1>4 DEF Owned
<1>6. Owned(os, shader, users, all)
  BY <1>5 DEF Owned
<1>7. [r EXCEPT ![u] = ResizeVideo(@, size)] = all
  BY DEF all, mine
<1> QED
  BY <1>6, <1>7

AllNames(users, r) == UNION {UserNames(r[u]) : u \in users}

\* One program, and three or six names for each user.
Count(shader, users, r) ==
    (IF shader = 0 THEN 0 ELSE 1) + 3 * Cardinality(users)
        + 3 * Cardinality({u \in users : r[u].texture.m_initialized})
WithTextures(users, r) == {u \in users : r[u].texture.m_initialized}

\* What is owned is counted as ObjectsOwned says.
LEMMA OwnedCounts ==
    ASSUME NEW os, NEW shader, NEW users, NEW r, Owned(os, shader, users, r),
           IsFiniteSet(users)
    PROVE  /\ DOMAIN os = ({shader} \ {0}) \cup
                  AllNames(users, r)
           /\ Cardinality(DOMAIN os) = Count(shader, users, r)
<1> DEFINE m == [u \in users |-> Names(r[u].mesh.ids)]
           t == [u \in users |-> Names(r[u].texture.ids)]
           Drawing == WithTextures(users, r)
           all == Held(users, m, t)
<1>1. \A n : n \in all <=> \E u \in users : n \in UserNames(r[u])
  BY DEF UserNames, Held
<1>2. DOMAIN os = ({shader} \ {0}) \cup all
  BY <1>1 DEF Owned
<1>3. all = AllNames(users, r)
  BY <1>1 DEF AllNames
<1>4. ASSUME NEW u \in users
      PROVE  /\ IsFiniteSet(m[u]) /\ Cardinality(m[u]) = 3
             /\ IsFiniteSet(t[u]) /\ Cardinality(t[u]) = IF u \in Drawing THEN 3 ELSE 0
             /\ m[u] \cap t[u] = {} /\ m[u] \cup t[u] = UserNames(r[u])
  <2>1. RenderOwns(os, r[u])
    BY DEF Owned
  <2>2. Triple(r[u].mesh.ids) /\ Textured(os, r[u].texture) /\ m[u] \cap t[u] = {}
    BY <2>1 DEF RenderOwns
  <2>3. IsFiniteSet(m[u]) /\ Cardinality(m[u]) = 3
    BY <2>2, TripleNames
  <2>4. IsFiniteSet(t[u]) /\ Cardinality(t[u]) = IF u \in Drawing THEN 3 ELSE 0
    <3>1. CASE r[u].texture = NoTexture
      <4>1. ~NoTexture.m_initialized /\ Names(NoTexture.ids) = {}
        BY NoNamesHeld DEF NoTexture
      <4>2. t[u] = {} /\ u \notin Drawing
        BY <3>1, <4>1 DEF WithTextures
      <4> QED
        BY <4>2, FS_EmptySet
    <3>2. CASE r[u].texture.m_initialized /\ Triple(r[u].texture.ids)
      <4>1. u \in Drawing
        BY <3>2 DEF WithTextures
      <4> QED
        BY <3>2, <4>1, TripleNames
    <3> QED
      BY <2>2, <3>1, <3>2 DEF Textured
  <2> QED
    BY <2>2, <2>3, <2>4 DEF UserNames
<1>5. \A u, v \in users : u # v => (m[u] \cup t[u]) \cap (m[v] \cup t[v]) = {}
  <2> HIDE DEF m, t
  <2>1. \A u \in users : m[u] \cup t[u] = UserNames(r[u])
    BY <1>4
  <2> QED
    BY <2>1 DEF Owned
<1>6. IsFiniteSet(all) /\ Cardinality(all) = 3 * Cardinality(users) + 3 * Cardinality(Drawing)
  <2>1. Drawing \in SUBSET users
    BY DEF WithTextures
  <2>2. /\ \A u \in users : IsFiniteSet(m[u]) /\ Cardinality(m[u]) = 3
        /\ \A u \in users : IsFiniteSet(t[u])
                            /\ Cardinality(t[u]) = IF u \in Drawing THEN 3 ELSE 0
        /\ \A u \in users : m[u] \cap t[u] = {}
    BY <1>4
  <2> HIDE DEF m, t, Drawing
  <2> QED
    BY <1>5, <2>1, <2>2, NamesCounted, SMTT(30)
<1>7. Cardinality(DOMAIN os) = (IF shader = 0 THEN 0 ELSE 1) + Cardinality(all)
  <2> HIDE DEF all
  <2>1. Cardinality(all) \in Nat
    BY <1>6, FS_CardinalityType
  <2>2. CASE shader = 0
    <3>1. DOMAIN os = all
      BY <1>2, <2>2
    <3> QED
      BY <2>1, <2>2, <3>1
  <2>3. CASE shader # 0
    <3>1. DOMAIN os = all \cup {shader}
      BY <1>2, <2>3
    <3>2. shader \notin all
      BY <1>1 DEF Owned
    <3>3. Cardinality(all \cup {shader}) = Cardinality(all) + 1
      BY <1>6, <3>2, FS_AddElement
    <3> QED
      BY <2>1, <2>3, <3>1, <3>3
  <2> QED
    BY <2>2, <2>3
<1>8. Cardinality(users) \in Nat /\ Cardinality(Drawing) \in Nat
  <2>1. Drawing \in SUBSET users
    BY DEF WithTextures
  <2> HIDE DEF Drawing
  <2> QED
    BY <2>1, FS_Subset, FS_CardinalityType
<1> HIDE DEF all
<1>9. DOMAIN os = ({shader} \ {0}) \cup
          AllNames(users, r)
  BY <1>2, <1>3
<1>10. Cardinality(DOMAIN os) = (IF shader = 0 THEN 0 ELSE 1)
           + 3 * Cardinality(users) + 3 * Cardinality(Drawing)
  <2> HIDE DEF Drawing
  <2> QED
    BY <1>6, <1>7, <1>8
<1> QED
  BY <1>9, <1>10 DEF Count, WithTextures

-----------------------------------------------------------------------------
(* The inductive invariant of the users: their contexts are good, what the   *)
(* driver has belongs to them and the shader, and their windows show it.     *)

UsersInv ==
    /\ clock \in Times \cup {0} /\ pushed \in 0 .. MaxFrames
    /\ Added \subseteq Users /\ IsFiniteSet(Added)
    /\ DOMAIN m_video_renderer = Added /\ DOMAIN screen = Added
    /\ \A u \in Added : GoodContext(m_user_contexts[u])

ObjectsInv == Owned(objects, m_video_shader, Added, m_video_renderer)

RenderIInv == OutputIInv /\ UsersInv /\ ObjectsInv /\ PictureIsLast

LEMMA RenderFollows == RenderIInv => RenderInvariant
<1> SUFFICES ASSUME RenderIInv PROVE RenderInvariant
  OBVIOUS
<1>1. RenderTypeOK
  BY DEF RenderIInv, UsersInv, OutputIInv, OutputTypeOK, SpeakerNames, GoodContext, RenderTypeOK
<1>2. ObjectsOwned
  <2>1. ASSUME NEW u \in Added
        PROVE  LET r == m_video_renderer[u] IN
               /\ r.m_initialized /\ r.mesh.m_initialized
               /\ r.texture.m_initialized \/ r.texture = NoTexture
               /\ Names(r.mesh.ids) \cap Names(r.texture.ids) = {}
    <3>1. RenderOwns(objects, m_video_renderer[u])
      BY DEF RenderIInv, ObjectsInv, Owned
    <3> QED
      BY <3>1 DEF RenderOwns, Renders, Textured
  <2>2. IsFiniteSet(Added) /\ Owned(objects, m_video_shader, Added, m_video_renderer)
    BY DEF RenderIInv, ObjectsInv, UsersInv
  <2>3. DOMAIN objects = ({m_video_shader} \ {0}) \cup AllNames(Added, m_video_renderer)
    BY <2>2, OwnedCounts
  <2>4. Cardinality(DOMAIN objects) = Count(m_video_shader, Added, m_video_renderer)
    BY <2>2, OwnedCounts
  <2> QED
    BY <2>1, <2>3, <2>4 DEF ObjectsOwned, UserNames, AllNames, Count
<1> QED
  BY <1>1, <1>2 DEF RenderIInv, RenderInvariant

LEMMA RenderInitially == Init => RenderIInv
<1> SUFFICES ASSUME Init PROVE RenderIInv
  OBVIOUS
<1>1. m_user_contexts = << >> /\ m_video_renderer = << >> /\ screen = << >> /\ objects = << >>
  BY DEF Init
<1>2. Added = {} /\ DOMAIN m_video_renderer = {} /\ DOMAIN screen = {} /\ DOMAIN objects = {}
  BY <1>1 DEF Added
<1>3. IsFiniteSet({})
  BY FS_EmptySet
<1>4. Store(objects)
  BY <1>1, <1>2, <1>3 DEF Store
<1>5. ObjectsInv
  BY <1>2, <1>4 DEF Init, ObjectsInv, Owned, ShaderOwns
<1>6. UsersInv
  BY <1>2, <1>3, EngineAssumption DEF Init, UsersInv, EngineAssumption
<1>7. PictureIsLast
  BY <1>2 DEF PictureIsLast
<1> QED
  BY <1>5, <1>6, <1>7, OutputInitially DEF RenderIInv

\* Sound and the calls that wait touch nothing that is kept for a user.
LEMMA UsersStay ==
    ASSUME RenderIInv, UNCHANGED videoVars, clock' \in Times \cup {0}
    PROVE  UsersInv' /\ ObjectsInv' /\ PictureIsLast'
<1> USE DEF videoVars, glVars
<1>1. /\ m_user_contexts' = m_user_contexts /\ m_video_renderer' = m_video_renderer
      /\ objects' = objects /\ m_video_shader' = m_video_shader /\ screen' = screen
      /\ pushed' = pushed /\ Added' = Added
  BY DEF Added
<1>2. UsersInv'
  BY <1>1 DEF RenderIInv, UsersInv
<1>3. ObjectsInv'
  BY <1>1 DEF RenderIInv, ObjectsInv
<1>4. PictureIsLast'
  BY <1>1 DEF RenderIInv, PictureIsLast
<1> QED
  BY <1>2, <1>3, <1>4

LEMMA UninitKeepsRender ==
    ASSUME RenderIInv, UninitReturns
    PROVE  UsersInv' /\ ObjectsInv' /\ PictureIsLast'
<1>1. /\ m_user_contexts' = << >> /\ m_video_renderer' = << >> /\ screen' = << >>
      /\ m_video_shader' = 0 /\ clock' = 0 /\ objects' = WithoutUsers /\ pushed' = pushed
  BY DEF UninitReturns
<1>2. Added' = {} /\ DOMAIN m_video_renderer' = {} /\ DOMAIN screen' = {}
  BY <1>1 DEF Added
<1>3. objects' = [n \in (DOMAIN objects \ UNION {UserNames(m_video_renderer[u]) : u \in Added})
                            \ {m_video_shader} |-> objects[n]]
  BY <1>1, UsersGiveBack DEF RenderIInv, ObjectsInv, Owned, UsersInv
<1>4. DOMAIN objects = ({m_video_shader} \ {0}) \cup AllNames(Added, m_video_renderer)
  <2>1. IsFiniteSet(Added) /\ Owned(objects, m_video_shader, Added, m_video_renderer)
    BY DEF RenderIInv, ObjectsInv, UsersInv
  <2> QED
    BY <2>1, OwnedCounts
<1>5. DOMAIN objects' = {}
  <2> DEFINE A == UNION {UserNames(m_video_renderer[u]) : u \in Added}
  <2>1. DOMAIN objects' = (DOMAIN objects \ A) \ {m_video_shader}
    BY <1>3
  <2>2. DOMAIN objects = ({m_video_shader} \ {0}) \cup A
    BY <1>4 DEF AllNames
  <2> HIDE DEF A
  <2> QED
    BY <2>1, <2>2
<1>6. Store(objects')
  <2>1. objects' = [n \in DOMAIN objects' |-> objects'[n]]
    BY <1>3
  <2> QED
    BY <1>5, <2>1, FS_EmptySet DEF Store
<1>7. ObjectsInv'
  BY <1>1, <1>2, <1>5, <1>6 DEF ObjectsInv, Owned, ShaderOwns
<1>8. UsersInv'
  BY <1>1, <1>2, FS_EmptySet DEF RenderIInv, UsersInv
<1>9. PictureIsLast'
  BY <1>2 DEF PictureIsLast
<1> QED
  BY <1>7, <1>8, <1>9

-----------------------------------------------------------------------------
(* Users come, are shown and go.                                             *)

LEMMA NewContextGood ==
    ASSUME NEW is_local \in BOOLEAN PROVE GoodContext(NewContext(is_local))
<1>1. MaxBufferedVideoFrames \in Nat \ {0}
  BY SyncAssumption DEF SyncAssumption
<1>2. ResetSync \in Syncs
  BY DEF ResetSync, Syncs
<1>3. NewContext(is_local) \in Contexts
  BY <1>2 DEF NewContext, Contexts
<1>4. NewContext(is_local).buffer = {}
  BY DEF NewContext
<1> QED
  BY <1>1, <1>3, <1>4, FS_EmptySet DEF GoodContext

\* A window shows the last frame of a user, or nothing.
Shows(c, r, s) ==
    IF c.last # NoFrame /\ r.texture.m_initialized
    THEN s # Black /\ s.planes = [i \in Parts |-> c.last.seq] /\ s.mirrored = c.local
    ELSE s = Black

LEMMA AddKeepsRender ==
    ASSUME RenderIInv, NEW u \in Users, NEW is_local \in BOOLEAN, NEW fails \in Stages,
           NEW meshGiven \in Gifts, NEW textureGiven \in Gifts,
           AddUser(u, is_local, fails, meshGiven, textureGiven)
    PROVE  UsersInv' /\ ObjectsInv' /\ PictureIsLast'
<1> DEFINE program == InitShader(objects, m_video_shader, fails)
           os == program.objects
           id == program.id
           made == InitRender(os, VideoSize, meshGiven, textureGiven)
           joined == id # 0 /\ made.render.m_initialized
<1>1. /\ u \notin Added /\ m_video_shader' = id /\ clock' = clock /\ pushed' = pushed
      /\ joined => /\ m_user_contexts' = Put(m_user_contexts, u, NewContext(is_local))
                   /\ m_video_renderer' = Put(m_video_renderer, u, made.render)
                   /\ screen' = Put(screen, u, Black)
      /\ ~joined => /\ m_user_contexts' = m_user_contexts
                    /\ m_video_renderer' = m_video_renderer /\ screen' = screen
      /\ objects' = IF id # 0 THEN made.objects ELSE os
  BY DEF AddUser
<1>2. /\ Owned(objects, m_video_shader, Added, m_video_renderer)
      /\ IsFiniteSet(Added) /\ DOMAIN m_video_renderer = Added /\ DOMAIN screen = Added
  BY DEF RenderIInv, ObjectsInv, UsersInv
<1>3. Owned(os, id, Added, m_video_renderer)
  BY <1>2, ShaderAdded
<1>4. VideoSize \in Sizes
  BY EngineAssumption DEF EngineAssumption
<1> HIDE DEF program
<1> DEFINE os1 == os
<1> HIDE DEF os1
<1>5. Store(os1)
  BY <1>3 DEF Owned, os1
<1> DEFINE made1 == InitRender(os1, VideoSize, meshGiven, textureGiven)
<1>6. /\ Store(made1.objects)
      /\ ~made1.render.m_initialized => made1.objects = os1
      /\ made1.render.m_initialized =>
             /\ RenderOwns(made1.objects, made1.render)
             /\ made1.render.texture.m_initialized
             /\ DOMAIN made1.objects = DOMAIN os1 \cup UserNames(made1.render)
             /\ UserNames(made1.render) \cap DOMAIN os1 = {}
             /\ \A n \in DOMAIN os1 : made1.objects[n] = os1[n]
  BY <1>4, <1>5, RenderMade
<1>7. made = made1
  BY DEF os1
<1> HIDE DEF made, made1
<1>8. CASE ~joined
  <2>1. objects' = os
    BY <1>1, <1>6, <1>7, <1>8 DEF os1
  <2>2. ObjectsInv'
    <3>1. Added' = Added
      BY <1>1, <1>8 DEF Added
    <3> QED
      BY <1>1, <1>3, <1>8, <2>1, <3>1 DEF ObjectsInv
  <2>3. UsersInv'
    BY <1>1, <1>8 DEF RenderIInv, UsersInv, Added
  <2>4. PictureIsLast'
    BY <1>1, <1>8 DEF RenderIInv, PictureIsLast, Added
  <2> QED
    BY <2>2, <2>3, <2>4
<1>9. CASE joined
  <2>1. Added' = Added \cup {u}
    BY <1>1, <1>9 DEF Added, Put
  <2>2. DOMAIN m_video_renderer' = Added' /\ DOMAIN screen' = Added'
    BY <1>1, <1>2, <1>9, <2>1 DEF Put
  <2>3. /\ m_user_contexts'[u] = NewContext(is_local) /\ m_video_renderer'[u] = made.render
        /\ screen'[u] = Black
        /\ \A v \in Added : /\ m_user_contexts'[v] = m_user_contexts[v]
                            /\ m_video_renderer'[v] = m_video_renderer[v]
                            /\ screen'[v] = screen[v]
    BY <1>1, <1>2, <1>9 DEF Put, Added
  <2>4. IsFiniteSet(Added')
    BY <1>2, <2>1, FS_AddElement
  <2>5. \A v \in Added' : GoodContext(m_user_contexts'[v])
    BY <2>1, <2>3, NewContextGood DEF RenderIInv, UsersInv
  <2>6. UsersInv'
    BY <1>1, <2>1, <2>2, <2>4, <2>5 DEF RenderIInv, UsersInv
  <2>7. Owned(made.objects, id, Added \cup {u}, Put(m_video_renderer, u, made.render))
    <3>1. /\ Store(made.objects) /\ RenderOwns(made.objects, made.render)
          /\ DOMAIN made.objects = DOMAIN os \cup UserNames(made.render)
          /\ UserNames(made.render) \cap DOMAIN os = {}
          /\ \A n \in DOMAIN os : made.objects[n] = os[n]
      BY <1>6, <1>7, <1>9 DEF os1
    <3> DEFINE new == made.objects
               mine == made.render
               os2 == os
               id2 == id
    <3>2. /\ Owned(os2, id2, Added, m_video_renderer) /\ id2 # 0 /\ u \notin Added
          /\ DOMAIN m_video_renderer = Added
      BY <1>1, <1>2, <1>3, <1>9
    <3>3. /\ Store(new) /\ RenderOwns(new, mine)
          /\ DOMAIN new = DOMAIN os2 \cup UserNames(mine)
          /\ UserNames(mine) \cap DOMAIN os2 = {}
          /\ \A n \in DOMAIN os2 : new[n] = os2[n]
      BY <3>1
    <3> HIDE DEF new, mine, os2, id2
    <3>4. Owned(new, id2, Added \cup {u}, Put(m_video_renderer, u, mine))
      BY <3>2, <3>3, RenderAdded
    <3> QED
      BY <3>4 DEF new, mine, os2, id2
  <2>8. ObjectsInv'
    BY <1>1, <1>9, <2>1, <2>7 DEF ObjectsInv
  <2>9. PictureIsLast'
    <3>1. NewContext(is_local).last = NoFrame
      BY DEF NewContext
    <3>2. \A v \in Added : Shows(m_user_contexts[v], m_video_renderer[v], screen[v])
      BY DEF RenderIInv, PictureIsLast, Shows
    <3>3. Shows(m_user_contexts'[u], m_video_renderer'[u], screen'[u])
      BY <2>3, <3>1 DEF Shows
    <3>4. \A v \in Added' : Shows(m_user_contexts'[v], m_video_renderer'[v], screen'[v])
      BY <2>1, <2>3, <3>2, <3>3
    <3> QED
      BY <3>4 DEF PictureIsLast, Shows
  <2> QED
    BY <2>6, <2>8, <2>9
<1> QED
  BY <1>8, <1>9

LEMMA RemoveKeepsRender ==
    ASSUME RenderIInv, NEW u \in Users, RemoveUser(u)
    PROVE  UsersInv' /\ ObjectsInv' /\ PictureIsLast'
<1>1. /\ u \in Added
      /\ m_user_contexts' = [v \in Added \ {u} |-> m_user_contexts[v]]
      /\ m_video_renderer' = [v \in Added \ {u} |-> m_video_renderer[v]]
      /\ screen' = [v \in Added \ {u} |-> screen[v]]
      /\ objects' = UninitializeRender(objects, m_video_renderer[u])
      /\ m_video_shader' = m_video_shader /\ clock' = clock /\ pushed' = pushed
  BY DEF RemoveUser
<1>2. /\ Added' = Added \ {u} /\ DOMAIN m_video_renderer' = Added'
      /\ DOMAIN screen' = Added'
      /\ \A v \in Added' : /\ m_user_contexts'[v] = m_user_contexts[v]
                           /\ m_video_renderer'[v] = m_video_renderer[v]
                           /\ screen'[v] = screen[v]
  BY <1>1 DEF Added
<1>3. IsFiniteSet(Added')
  <2>1. IsFiniteSet(Added)
    BY DEF RenderIInv, UsersInv
  <2> QED
    BY <1>2, <2>1, FS_RemoveElement
<1>4. UsersInv'
  BY <1>1, <1>2, <1>3 DEF RenderIInv, UsersInv
<1>5. ObjectsInv'
  <2>1. Owned(UninitializeRender(objects, m_video_renderer[u]), m_video_shader, Added \ {u},
              [v \in Added \ {u} |-> m_video_renderer[v]])
    BY <1>1, RenderRemoved DEF RenderIInv, ObjectsInv
  <2> QED
    BY <1>1, <1>2, <2>1 DEF ObjectsInv
<1>6. PictureIsLast'
  BY <1>2 DEF RenderIInv, PictureIsLast
<1> QED
  BY <1>4, <1>5, <1>6

\* The frame is chosen and drawn; the rest is as it was.
LEMMA RenderKeepsRender ==
    ASSUME RenderIInv, NEW u \in Users, NEW given \in Gifts, RenderUser(u, given)
    PROVE  UsersInv' /\ ObjectsInv' /\ PictureIsLast'
<1> DEFINE old == m_user_contexts[u]
           c == RenderFrame(old, clock)
           r == m_video_renderer[u]
           drawn == IF c.last = NoFrame THEN ClearBuffer(objects, r)
                    ELSE DrawFrame(objects, m_video_shader, r, c.last.seq,
                                   FrameSize(c.last.seq), c.local, given)
<1>1. /\ u \in Added /\ m_user_contexts' = [m_user_contexts EXCEPT ![u] = c]
      /\ m_video_shader' = m_video_shader /\ clock' = clock /\ pushed' = pushed
  BY DEF RenderUser, ChooseFrame
<1>2. m_user_contexts'[u] = c
  BY <1>1 DEF Added
<1>3. /\ m_video_renderer' = [m_video_renderer EXCEPT ![u] = drawn.render]
      /\ objects' = drawn.objects
      /\ screen' = [screen EXCEPT ![u] = drawn.screen]
  BY <1>2 DEF RenderUser
<1>4. /\ Owned(objects, m_video_shader, Added, m_video_renderer)
      /\ DOMAIN m_video_renderer = Added /\ DOMAIN screen = Added /\ GoodContext(old)
      /\ clock \in Nat
  BY <1>1, EngineAssumption DEF RenderIInv, ObjectsInv, UsersInv, EngineAssumption
<1>5. GoodContext(c) /\ c.local = old.local /\ c.local \in BOOLEAN
  <2>1. GoodContext(c) /\ c.local = old.local
    BY <1>4, FrameChosen
  <2> QED
    BY <2>1 DEF GoodContext, Contexts
<1>6. /\ Added' = Added /\ DOMAIN m_video_renderer' = Added /\ DOMAIN screen' = Added
      /\ m_video_renderer'[u] = drawn.render /\ screen'[u] = drawn.screen
      /\ \A v \in Added : v # u => /\ m_user_contexts'[v] = m_user_contexts[v]
                                   /\ m_video_renderer'[v] = m_video_renderer[v]
                                   /\ screen'[v] = screen[v]
  BY <1>1, <1>3, <1>4 DEF Added
<1> HIDE DEF c, old
<1>7. UsersInv'
  <2>1. \A v \in Added' : GoodContext(m_user_contexts'[v])
    BY <1>2, <1>5, <1>6 DEF RenderIInv, UsersInv
  <2> QED
    BY <1>1, <1>6, <2>1 DEF RenderIInv, UsersInv
<1>8. \A v \in Added : Shows(m_user_contexts[v], m_video_renderer[v], screen[v])
  BY DEF RenderIInv, PictureIsLast, Shows
<1>9. CASE c.last = NoFrame
  <2>1. drawn.render = r /\ drawn.objects = objects /\ drawn.screen = Black
    BY <1>9 DEF ClearBuffer
  <2> HIDE DEF drawn
  <2>2. \A v \in Added : m_video_renderer'[v] = m_video_renderer[v]
    BY <1>6, <2>1
  <2>3. ObjectsInv'
    BY <1>1, <1>3, <1>4, <1>6, <2>1, <2>2 DEF ObjectsInv, Owned
  <2>4. \A v \in Added' : Shows(m_user_contexts'[v], m_video_renderer'[v], screen'[v])
    <3>1. Shows(m_user_contexts'[u], m_video_renderer'[u], screen'[u])
      BY <1>2, <1>6, <1>9, <2>1 DEF Shows
    <3> QED
      BY <1>6, <1>8, <3>1
  <2>5. PictureIsLast'
    BY <2>4 DEF PictureIsLast, Shows
  <2> QED
    BY <1>7, <2>3, <2>5
<1>10. CASE c.last # NoFrame
  <2> DEFINE seq == c.last.seq
             size == FrameSize(seq)
             made == DrawFrame(objects, m_video_shader, r, seq, size, c.local, given)
  <2>1. drawn = made
    BY <1>10
  <2>2. seq \in Nat /\ seq # 0 /\ seq \in 1 .. MaxFrames
    <3>1. c.last \in [ts : Times, seq : 1 .. MaxFrames]
      BY <1>5, <1>10 DEF GoodContext, Contexts
    <3> QED
      BY <3>1, EngineAssumption DEF EngineAssumption
  <2>3. size \in Sizes
    BY <2>2, EngineAssumption DEF EngineAssumption
  <2>4. /\ Store(objects) /\ ShaderOwns(objects, m_video_shader) /\ m_video_shader # 0
        /\ RenderOwns(objects, r) /\ m_video_shader \notin UserNames(r)
    BY <1>1, <1>4 DEF Owned
  <2> HIDE DEF drawn, r, seq, size
  <2>5. /\ Store(made.objects) /\ ShaderOwns(made.objects, m_video_shader)
        /\ RenderOwns(made.objects, made.render)
        /\ Takes(objects, made.objects, UserNames(r), UserNames(made.render))
        /\ Keeps(objects, made.objects, UserNames(r) \cup {m_video_shader})
        /\ Pictures(made, seq, c.local)
    <3> DEFINE mirror == c.local
    <3>1. mirror \in BOOLEAN
      BY <1>5
    <3> HIDE DEF mirror
    <3> DEFINE made1 == DrawFrame(objects, m_video_shader, r, seq, size, mirror, given)
    <3>2. /\ Store(made1.objects) /\ ShaderOwns(made1.objects, m_video_shader)
          /\ RenderOwns(made1.objects, made1.render)
          /\ Takes(objects, made1.objects, UserNames(r), UserNames(made1.render))
          /\ Keeps(objects, made1.objects, UserNames(r) \cup {m_video_shader})
      BY <2>2, <2>3, <2>4, <3>1, Drawn
    <3>3. Pictures(made1, seq, mirror)
      BY <2>2, <2>3, <2>4, <3>1, Drawn
    <3>4. made1 = made /\ mirror = c.local
      BY DEF mirror
    <3> HIDE DEF made1, made
    <3> QED
      BY <3>2, <3>3, <3>4
  <2> HIDE DEF made
  <2>6. Owned(made.objects, m_video_shader, Added,
              [m_video_renderer EXCEPT ![u] = made.render])
    <3> DEFINE new == made.objects
               mine == made.render
    <3>1. /\ Store(new) /\ ShaderOwns(new, m_video_shader) /\ RenderOwns(new, mine)
          /\ Takes(objects, new, UserNames(m_video_renderer[u]), UserNames(mine))
          /\ Keeps(objects, new, UserNames(m_video_renderer[u]) \cup {m_video_shader})
      BY <2>5 DEF r
    <3> HIDE DEF new, mine
    <3>2. Owned(new, m_video_shader, Added, [m_video_renderer EXCEPT ![u] = mine])
      BY <1>1, <1>4, <3>1, RenderDrawn
    <3> QED
      BY <3>2 DEF new, mine
  <2>7. ObjectsInv'
    BY <1>1, <1>3, <1>6, <2>1, <2>6 DEF ObjectsInv
  <2>8. Shows(m_user_contexts'[u], m_video_renderer'[u], screen'[u])
    <3>1. /\ m_user_contexts'[u] = c /\ m_video_renderer'[u] = made.render
          /\ screen'[u] = made.screen
      BY <1>2, <1>6, <2>1
    <3>2. CASE made.render.texture.m_initialized
      <4>1. /\ made.screen.planes = [i \in Parts |-> seq]
            /\ made.screen.mirrored = c.local
        BY <2>5, <3>2 DEF Pictures
      <4>2. made.screen # Black
        <5>1. 1 \in Parts /\ Black.planes[1] = 0
          BY DEF Parts, Black, NoNames
        <5>2. [i \in Parts |-> seq][1] = seq
          BY <5>1
        <5> QED
          BY <2>2, <4>1, <5>1, <5>2
      <4> QED
        BY <1>10, <3>1, <3>2, <4>1, <4>2 DEF Shows, seq
    <3>3. CASE ~made.render.texture.m_initialized
      BY <2>5, <3>1, <3>3 DEF Shows, Pictures
    <3> QED
      BY <3>2, <3>3
  <2>9. \A v \in Added' : Shows(m_user_contexts'[v], m_video_renderer'[v], screen'[v])
    BY <1>6, <1>8, <2>8
  <2>10. PictureIsLast'
    BY <2>9 DEF PictureIsLast, Shows
  <2> QED
    BY <1>7, <2>7, <2>10
<1> QED
  BY <1>9, <1>10

LEMMA ResizeKeepsRender ==
    ASSUME RenderIInv, NEW u \in Users, NEW size \in Sizes, UpdateUserVideoSize(u, size)
    PROVE  UsersInv' /\ ObjectsInv' /\ PictureIsLast'
<1> DEFINE r == [m_video_renderer EXCEPT ![u] = ResizeVideo(@, size)]
<1>1. /\ u \in Added /\ m_video_renderer' = r
      /\ m_user_contexts' = m_user_contexts /\ objects' = objects /\ screen' = screen
      /\ m_video_shader' = m_video_shader /\ clock' = clock /\ pushed' = pushed
  BY DEF UpdateUserVideoSize
<1>2. Added' = Added /\ DOMAIN r = Added
  BY <1>1 DEF Added, RenderIInv, UsersInv
<1>3. /\ Owned(objects, m_video_shader, Added, r)
      /\ \A v \in Added : r[v].texture = m_video_renderer[v].texture
  <2>1. /\ Owned(objects, m_video_shader, Added, m_video_renderer)
        /\ DOMAIN m_video_renderer = Added
    BY DEF RenderIInv, ObjectsInv, UsersInv
  <2>2. Owned(objects, m_video_shader, Added, r)
    BY <1>1, <2>1, RenderResized
  <2>3. \A v \in Added : r[v].texture = m_video_renderer[v].texture
    <3>1. m_video_renderer[u] \in Renders
      BY <1>1, <2>1 DEF Owned, RenderOwns
    <3>2. ResizeVideo(m_video_renderer[u], size).texture = m_video_renderer[u].texture
      BY <3>1 DEF ResizeVideo, Renders
    <3> QED
      BY <2>1, <3>2
  <2> QED
    BY <2>2, <2>3
<1> HIDE DEF r
<1>4. UsersInv'
  BY <1>1, <1>2 DEF RenderIInv, UsersInv
<1>5. ObjectsInv'
  BY <1>1, <1>2, <1>3 DEF ObjectsInv
<1>6. PictureIsLast'
  <2>1. \A v \in Added : Shows(m_user_contexts[v], m_video_renderer[v], screen[v])
    BY DEF RenderIInv, PictureIsLast, Shows
  <2>2. \A v \in Added' : Shows(m_user_contexts'[v], m_video_renderer'[v], screen'[v])
    BY <1>1, <1>2, <1>3, <2>1 DEF Shows
  <2> QED
    BY <2>2 DEF PictureIsLast, Shows
<1> QED
  BY <1>4, <1>5, <1>6

LEMMA PushKeepsRender ==
    ASSUME RenderIInv, NEW u \in Users, NEW ts \in Times, PushVideoFrame(u, ts)
    PROVE  UsersInv' /\ ObjectsInv' /\ PictureIsLast'
<1> DEFINE f == [ts |-> ts, seq |-> pushed + 1]
           c == PushFrame(m_user_contexts[u], f)
<1>1. /\ u \in Added /\ pushed < MaxFrames /\ pushed' = pushed + 1
      /\ m_user_contexts' = [m_user_contexts EXCEPT ![u] = c]
      /\ m_video_renderer' = m_video_renderer /\ objects' = objects /\ screen' = screen
      /\ m_video_shader' = m_video_shader /\ clock' = clock
  BY DEF PushVideoFrame, glVars
<1>2. pushed' \in 0 .. MaxFrames /\ f \in Frames
  <2>1. MaxFrames \in Nat /\ pushed \in 0 .. MaxFrames
    BY EngineAssumption DEF EngineAssumption, RenderIInv, UsersInv
  <2>2. pushed + 1 \in 1 .. MaxFrames
    BY <1>1, <2>1
  <2> QED
    BY <1>1, <2>1, <2>2 DEF Frames
<1>3. GoodContext(m_user_contexts[u])
  BY <1>1 DEF RenderIInv, UsersInv
<1> HIDE DEF f
<1>4. /\ GoodContext(c) /\ c.last = m_user_contexts[u].last
      /\ c.local = m_user_contexts[u].local
  BY <1>2, <1>3, FramePushed
<1>5. /\ Added' = Added /\ m_user_contexts'[u] = c
      /\ \A v \in Added : v # u => m_user_contexts'[v] = m_user_contexts[v]
  BY <1>1 DEF Added
<1> HIDE DEF c
<1>6. UsersInv'
  <2>1. \A v \in Added' : GoodContext(m_user_contexts'[v])
    BY <1>4, <1>5 DEF RenderIInv, UsersInv
  <2> QED
    BY <1>1, <1>2, <1>5, <2>1 DEF RenderIInv, UsersInv
<1>7. ObjectsInv'
  BY <1>1, <1>5 DEF RenderIInv, ObjectsInv
<1>8. PictureIsLast'
  <2>1. \A v \in Added : Shows(m_user_contexts[v], m_video_renderer[v], screen[v])
    BY DEF RenderIInv, PictureIsLast, Shows
  <2>2. \A v \in Added' : Shows(m_user_contexts'[v], m_video_renderer'[v], screen'[v])
    <3>1. Shows(c, m_video_renderer[u], screen[u])
      BY <1>1, <1>4, <2>1 DEF Shows
    <3> QED
      BY <1>1, <1>5, <2>1, <3>1
  <2> QED
    BY <2>2 DEF PictureIsLast, Shows
<1> QED
  BY <1>6, <1>7, <1>8

LEMMA NextKeepsRender == RenderIInv /\ [Next]_vars => RenderIInv'
<1> SUFFICES ASSUME RenderIInv, [Next]_vars PROVE UsersInv' /\ ObjectsInv' /\ PictureIsLast'
  BY NextKeepsOutput DEF RenderIInv
<1>0. clock \in Times \cup {0}
  BY DEF RenderIInv, UsersInv
<1>1. CASE WorkerStep
  BY <1>0, <1>1, UsersStay DEF WorkerStep
<1>2. CASE Initialize \/ Uninit \/ ListSpeakers \/ \E id \in Speakers : SwitchSpeaker(id)
  BY <1>0, <1>2, UsersStay DEF Initialize, Uninit, ListSpeakers, SwitchSpeaker
<1>3. CASE Initialized \/ InitializeFails \/ GiveUp \/ SwitchReturns \/ ListReturns
  BY <1>0, <1>3, UsersStay
     DEF Initialized, InitializeFails, GiveUp, SwitchReturns, ListReturns,
         ResetPlaybackTimeline
<1>4. CASE UninitReturns
  BY <1>4, UninitKeepsRender
<1>5. CASE KeepSpeaker \/ AudioPlays \/ AudioStarts
  BY <1>5, UsersStay DEF KeepSpeaker, AudioPlays, AudioStarts, ResetPlaybackTimeline
<1>6. CASE \E u \in Users, is_local \in BOOLEAN, fails \in Stages, mesh, texture \in Gifts :
               AddUser(u, is_local, fails, mesh, texture)
  BY <1>6, AddKeepsRender
<1>7. CASE \E u \in Users : RemoveUser(u)
  BY <1>7, RemoveKeepsRender
<1>8. CASE \E u \in Users, given \in Gifts : RenderUser(u, given)
  BY <1>8, RenderKeepsRender
<1>9. CASE \E u \in Users, size \in Sizes : UpdateUserVideoSize(u, size)
  BY <1>9, ResizeKeepsRender
<1>10. CASE \E u \in Users, ts \in Times : PushVideoFrame(u, ts)
  BY <1>10, PushKeepsRender
<1>11. CASE UNCHANGED vars
  BY <1>0, <1>11, UsersStay DEF vars
<1> QED
  BY <1>1, <1>2, <1>3, <1>4, <1>5, <1>6, <1>7, <1>8, <1>9, <1>10, <1>11 DEF Next, Returns

\* RenderEngine and UserContext: whatever fails to compile, link or be made, and
\* whoever is added and removed, the driver has exactly the objects that the
\* users and their program keep, none is given back twice or used by two, a
\* context never has more frames than it may or two of one time, and a window
\* shows the three planes of the frame chosen last, as its user asks.
THEOREM RenderCorrect == Spec => []RenderInvariant
<1>1. Init => RenderIInv
  BY RenderInitially
<1>2. RenderIInv /\ [Next]_vars => RenderIInv'
  BY NextKeepsRender
<1>3. RenderIInv => RenderInvariant
  BY RenderFollows
<1> QED
  BY <1>1, <1>2, <1>3, PTL DEF Spec

-----------------------------------------------------------------------------
(* What is seen does not go back.                                            *)

\* Frames have the numbers of those that have come; none waits that came before
\* the one that is seen and is earlier than it.
InOrder(c, count) ==
    /\ Ahead(c) /\ c.last.seq <= count
    /\ \A f \in c.buffer : f.seq <= count

OrderInv == \A u \in Added : InOrder(m_user_contexts[u], pushed)

Onward(old, new) == new.seq < old.seq => new.ts > old.ts

LEMMA LastTyped ==
    ASSUME NEW c, GoodContext(c)
    PROVE  /\ c.last.seq \in Nat /\ c.last.ts \in Nat
           /\ \A f \in c.buffer : f.seq \in Nat /\ f.ts \in Nat
<1>1. c.buffer \in SUBSET Frames /\ (c.last \in Frames \/ c.last = NoFrame)
  BY DEF GoodContext, Contexts, Frames
<1>2. NoFrame.seq = 0 /\ NoFrame.ts = 0
  BY DEF NoFrame
<1> QED
  BY <1>1, <1>2, FrameFacts

LEMMA ChosenInOrder ==
    ASSUME NEW c, GoodContext(c), NEW now \in Nat, NEW count \in Nat, InOrder(c, count)
    PROVE  /\ InOrder(RenderFrame(c, now), count)
           /\ Onward(c.last, RenderFrame(c, now).last)
<1> DEFINE d == HandleAudioClockTransition(c, now > 0)
           shown == RenderFrame(c, now)
<1>1. /\ c \in Contexts /\ c.buffer \in SUBSET Frames /\ IsFiniteSet(c.buffer)
  BY DEF GoodContext, Contexts, Frames
<1>2. d \in Later(c) /\ d.last = c.last
  <2>1. CASE c.local \/ (now > 0) = c.clockWasValid
    BY <1>1, <2>1 DEF HandleAudioClockTransition, Later
  <2>2. CASE ~(c.local \/ (now > 0) = c.clockWasValid)
    <3> DEFINE kept == IF c.buffer = {} THEN {} ELSE {Newest(c.buffer)}
               valid == now > 0
    <3>1. kept \in SUBSET c.buffer
      BY <1>1, NewestThere
    <3>2. d = [c EXCEPT !.clockWasValid = valid, !.sync = ResetSync, !.buffer = kept]
      BY <2>2 DEF HandleAudioClockTransition
    <3>3. ResetSync \in Syncs /\ valid \in BOOLEAN
      BY DEF ResetSync, Syncs
    <3> HIDE DEF kept, d, valid
    <3>4. /\ d \in Contexts /\ d.local = c.local /\ d.buffer = kept /\ d.last = c.last
      BY <1>1, <3>1, <3>2, <3>3 DEF Contexts
    <3> QED
      BY <3>1, <3>4 DEF Later
  <2> QED
    BY <2>1, <2>2
<1>3. GoodContext(d) /\ d.buffer \subseteq c.buffer
  BY <1>2, LessWaits DEF Later
<1>4. shown = IF d.buffer = {} THEN d
              ELSE IF d.local \/ now = 0 THEN ShowNewest(d) ELSE ShowInStep(d, now)
  BY DEF RenderFrame
<1> HIDE DEF d
<1>5. Ahead(d)
  BY <1>2, <1>3 DEF Ahead, InOrder
<1>6. ASSUME d.buffer # {}
      PROVE  /\ ShowNewest(d).last \in d.buffer /\ ShowNewest(d).buffer = {}
  <2>1. d \in Contexts /\ d.buffer \in SUBSET Frames /\ IsFiniteSet(d.buffer)
    BY <1>3 DEF GoodContext, Contexts, Frames
  <2>2. Newest(d.buffer) \in d.buffer
    BY <1>6, <2>1, NewestThere
  <2> QED
    BY <2>1, <2>2 DEF ShowNewest, Contexts
<1>7. /\ ShowInStep(d, now) \in Later(d) /\ Ahead(ShowInStep(d, now))
      /\ ShowInStep(d, now).last \in d.buffer \cup {d.last}
  BY <1>3, <1>5, ShownInStep
<1>8. /\ shown.buffer \subseteq d.buffer /\ shown.last \in d.buffer \cup {d.last}
      /\ Ahead(shown)
  <2>1. CASE shown = d
    BY <1>5, <2>1
  <2>2. CASE d.buffer # {} /\ shown = ShowNewest(d)
    BY <1>6, <2>2 DEF Ahead
  <2>3. CASE shown = ShowInStep(d, now)
    BY <1>7, <2>3 DEF Later
  <2> QED
    BY <1>4, <2>1, <2>2, <2>3
<1> HIDE DEF shown
<1>9. shown.last \in c.buffer \cup {c.last} /\ shown.buffer \subseteq c.buffer
  BY <1>2, <1>3, <1>8
<1>10. InOrder(shown, count)
  BY <1>8, <1>9 DEF InOrder
<1>11. Onward(c.last, shown.last)
  <2>1. c.last.seq \in Nat
    BY LastTyped
  <2> QED
    BY <1>9, <2>1 DEF Onward, InOrder, Ahead
<1> QED
  BY <1>10, <1>11 DEF shown

LEMMA PushedInOrder ==
    ASSUME NEW c, GoodContext(c), NEW count \in Nat, InOrder(c, count),
           NEW f \in Frames, f.seq = count + 1
    PROVE  InOrder(PushFrame(c, f), count + 1)
<1> DEFINE all == {g \in c.buffer : g.ts # f.ts} \cup {f}
           new == IF Cardinality(all) > MaxBufferedVideoFrames THEN all \ {Earliest(all)} ELSE all
<1>1. PushFrame(c, f) = [c EXCEPT !.buffer = new]
  BY DEF PushFrame
<1>2. new \subseteq c.buffer \cup {f}
  OBVIOUS
<1> HIDE DEF new
<1>3. PushFrame(c, f).buffer = new /\ PushFrame(c, f).last = c.last
  BY <1>1 DEF GoodContext, Contexts
<1>4. /\ c.last.seq \in Nat /\ c.last.ts \in Nat
      /\ \A g \in c.buffer : g.seq \in Nat /\ g.ts \in Nat
  BY LastTyped
<1>5. ~(f.seq < c.last.seq)
  BY <1>4 DEF InOrder
<1>6. Ahead(PushFrame(c, f))
  BY <1>2, <1>3, <1>5 DEF Ahead, InOrder
<1>7. /\ c.last.seq <= count + 1
      /\ \A g \in c.buffer : g.seq <= count + 1
      /\ f.seq <= count + 1
  BY <1>4 DEF InOrder
<1> QED
  BY <1>2, <1>3, <1>6, <1>7 DEF InOrder

\* A context that stays is in order, also when frames of others have come.
LEMMA MoreCome ==
    ASSUME NEW c, GoodContext(c), NEW count \in Nat, InOrder(c, count)
    PROVE  InOrder(c, count + 1)
BY LastTyped DEF InOrder

\* Each step keeps the order, and what is seen goes on.
StaysInOrder ==
    /\ OrderInv'
    /\ \A u \in Added \cap DOMAIN m_user_contexts' :
           Onward(m_user_contexts[u].last, m_user_contexts'[u].last)

LEMMA SameInOrder ==
    ASSUME RenderIInv, OrderInv, UNCHANGED pushed,
           \A u \in DOMAIN m_user_contexts' :
               u \in Added /\ m_user_contexts'[u] = m_user_contexts[u]
    PROVE  StaysInOrder
<1>1. OrderInv'
  BY DEF OrderInv, Added
<1>2. \A u \in Added : m_user_contexts[u].last.seq \in Nat
  BY LastTyped DEF RenderIInv, UsersInv
<1> QED
  BY <1>1, <1>2 DEF StaysInOrder, Onward

LEMMA NextKeepsOrder == RenderIInv /\ OrderInv /\ [Next]_vars => StaysInOrder
<1> SUFFICES ASSUME RenderIInv, OrderInv, [Next]_vars PROVE StaysInOrder
  OBVIOUS
<1>1. CASE \/ UNCHANGED videoVars
           \/ \E u \in Users, size \in Sizes : UpdateUserVideoSize(u, size)
  <2>1. m_user_contexts' = m_user_contexts /\ pushed' = pushed
    BY <1>1 DEF videoVars, UpdateUserVideoSize
  <2> QED
    BY <2>1, SameInOrder DEF Added
<1>2. CASE UninitReturns \/ \E u \in Users : RemoveUser(u)
  <2>1. /\ pushed' = pushed
        /\ m_user_contexts' = << >>
           \/ \E u \in Users : m_user_contexts' = [v \in Added \ {u} |-> m_user_contexts[v]]
    BY <1>2 DEF UninitReturns, RemoveUser
  <2>2. CASE m_user_contexts' = << >>
    <3>1. DOMAIN m_user_contexts' = {}
      BY <2>2
    <3> QED
      BY <2>1, <3>1, SameInOrder
  <2>3. ASSUME NEW u \in Users,
               m_user_contexts' = [v \in Added \ {u} |-> m_user_contexts[v]]
        PROVE  StaysInOrder
    <3>1. \A v \in DOMAIN m_user_contexts' :
              v \in Added /\ m_user_contexts'[v] = m_user_contexts[v]
      BY <2>3
    <3> QED
      BY <2>1, <3>1, SameInOrder
  <2> QED
    BY <2>1, <2>2, <2>3
<1>3. ASSUME NEW u \in Users, NEW is_local \in BOOLEAN, NEW fails \in Stages,
             NEW mesh \in Gifts, NEW texture \in Gifts,
             AddUser(u, is_local, fails, mesh, texture)
      PROVE  StaysInOrder
  <2>1. /\ pushed' = pushed /\ u \notin Added
        /\ \/ m_user_contexts' = m_user_contexts
           \/ m_user_contexts' = Put(m_user_contexts, u, NewContext(is_local))
    BY <1>3 DEF AddUser
  <2>2. CASE m_user_contexts' = m_user_contexts
    BY <2>1, <2>2, SameInOrder DEF Added
  <2>3. CASE m_user_contexts' = Put(m_user_contexts, u, NewContext(is_local))
    <3>1. /\ DOMAIN m_user_contexts' = Added \cup {u}
          /\ m_user_contexts'[u] = NewContext(is_local)
          /\ \A v \in Added : m_user_contexts'[v] = m_user_contexts[v]
      BY <2>1, <2>3 DEF Put, Added
    <3>2. pushed \in Nat
      BY EngineAssumption DEF EngineAssumption, RenderIInv, UsersInv
    <3>3. InOrder(NewContext(is_local), pushed)
      BY <3>2 DEF InOrder, Ahead, NewContext, NoFrame
    <3>4. OrderInv'
      BY <2>1, <3>1, <3>3 DEF OrderInv, Added
    <3>5. \A v \in Added : m_user_contexts[v].last.seq \in Nat
      BY LastTyped DEF RenderIInv, UsersInv
    <3> QED
      BY <3>1, <3>4, <3>5 DEF StaysInOrder, Onward
  <2> QED
    BY <2>1, <2>2, <2>3
<1>4. ASSUME NEW u \in Users, NEW given \in Gifts, RenderUser(u, given)
      PROVE  StaysInOrder
  <2> DEFINE c == RenderFrame(m_user_contexts[u], clock)
  <2>1. /\ u \in Added /\ m_user_contexts' = [m_user_contexts EXCEPT ![u] = c]
        /\ pushed' = pushed
    BY <1>4 DEF RenderUser, ChooseFrame
  <2>2. /\ GoodContext(m_user_contexts[u]) /\ InOrder(m_user_contexts[u], pushed)
        /\ clock \in Nat /\ pushed \in Nat
    BY <2>1, EngineAssumption DEF RenderIInv, UsersInv, OrderInv, EngineAssumption
  <2>3. InOrder(c, pushed) /\ Onward(m_user_contexts[u].last, c.last)
    BY <2>2, ChosenInOrder
  <2>4. /\ DOMAIN m_user_contexts' = Added /\ m_user_contexts'[u] = c
        /\ \A v \in Added : v # u => m_user_contexts'[v] = m_user_contexts[v]
    BY <2>1 DEF Added
  <2> HIDE DEF c
  <2>5. OrderInv'
    BY <2>1, <2>3, <2>4 DEF OrderInv, Added
  <2>6. \A v \in Added : m_user_contexts[v].last.seq \in Nat
    BY LastTyped DEF RenderIInv, UsersInv
  <2>7. \A v \in Added : Onward(m_user_contexts[v].last, m_user_contexts'[v].last)
    BY <2>3, <2>4, <2>6 DEF Onward
  <2> QED
    BY <2>5, <2>7 DEF StaysInOrder
<1>5. ASSUME NEW u \in Users, NEW ts \in Times, PushVideoFrame(u, ts)
      PROVE  StaysInOrder
  <2> DEFINE f == [ts |-> ts, seq |-> pushed + 1]
             c == PushFrame(m_user_contexts[u], f)
  <2>1. /\ u \in Added /\ pushed < MaxFrames /\ pushed' = pushed + 1
        /\ m_user_contexts' = [m_user_contexts EXCEPT ![u] = c]
    BY <1>5 DEF PushVideoFrame
  <2>2. pushed \in Nat /\ f \in Frames /\ f.seq = pushed + 1
    <3>1. MaxFrames \in Nat /\ pushed \in 0 .. MaxFrames
      BY EngineAssumption DEF EngineAssumption, RenderIInv, UsersInv
    <3>2. pushed + 1 \in 1 .. MaxFrames
      BY <2>1, <3>1
    <3> QED
      BY <3>1, <3>2 DEF Frames
  <2>3. \A v \in Added : /\ GoodContext(m_user_contexts[v])
                         /\ InOrder(m_user_contexts[v], pushed)
    BY DEF RenderIInv, UsersInv, OrderInv
  <2> HIDE DEF f
  <2>4. InOrder(c, pushed + 1) /\ c.last = m_user_contexts[u].last
    <3>1. InOrder(c, pushed + 1)
      BY <2>1, <2>2, <2>3, PushedInOrder
    <3>2. c.last = m_user_contexts[u].last
      BY <2>1, <2>2, <2>3, FramePushed
    <3> QED
      BY <3>1, <3>2
  <2>5. /\ DOMAIN m_user_contexts' = Added /\ m_user_contexts'[u] = c
        /\ \A v \in Added : v # u => m_user_contexts'[v] = m_user_contexts[v]
    BY <2>1 DEF Added
  <2> HIDE DEF c
  <2>6. OrderInv'
    <3>1. \A v \in Added : InOrder(m_user_contexts[v], pushed + 1)
      BY <2>2, <2>3, MoreCome
    <3> QED
      BY <2>1, <2>4, <2>5, <3>1 DEF OrderInv, Added
  <2>7. \A v \in Added : /\ m_user_contexts'[v].last = m_user_contexts[v].last
                         /\ m_user_contexts[v].last.seq \in Nat
    BY <2>3, <2>4, <2>5, LastTyped
  <2> QED
    BY <2>6, <2>7 DEF StaysInOrder, Onward
<1>6. CASE \/ WorkerStep \/ Initialize \/ Uninit \/ ListSpeakers \/ KeepSpeaker
           \/ AudioPlays \/ AudioStarts \/ \E id \in Speakers : SwitchSpeaker(id)
           \/ Initialized \/ InitializeFails \/ GiveUp \/ SwitchReturns \/ ListReturns
  BY <1>1, <1>6 DEF WorkerStep, Initialize, Uninit, ListSpeakers, KeepSpeaker, AudioPlays,
     AudioStarts, SwitchSpeaker, Initialized, InitializeFails, GiveUp, SwitchReturns,
     ListReturns
<1>7. CASE UNCHANGED vars
  BY <1>1, <1>7 DEF vars
<1> QED
  BY <1>1, <1>2, <1>3, <1>4, <1>5, <1>6, <1>7 DEF Next, Returns

\* UserContext: whatever happens to the playback clock, and whichever frames are
\* dropped, what is shown never goes back to a frame that both came earlier and
\* is earlier in media time, however many users, frames and times there are.
THEOREM ShownInOrder == Spec => FramesInOrder
<1> DEFINE A == \A u \in Added \cap DOMAIN m_user_contexts' :
                    LET old == m_user_contexts[u].last
                        new == m_user_contexts'[u].last
                    IN new.seq < old.seq => new.ts > old.ts
<1>1. Init => RenderIInv /\ OrderInv
  <2>1. ASSUME Init PROVE OrderInv
    BY <2>1 DEF Init, OrderInv, Added
  <2> QED
    BY <2>1, RenderInitially
<1>2. RenderIInv /\ OrderInv /\ [Next]_vars => (RenderIInv /\ OrderInv)' /\ A
  BY NextKeepsRender, NextKeepsOrder DEF StaysInOrder, Onward
<1>3. RenderIInv /\ OrderInv /\ [Next]_vars => [A]_vars
  BY <1>2
<1> HIDE DEF A
<1>4. Spec => [][A]_vars
  BY <1>1, <1>2, <1>3, PTL DEF Spec
<1> QED
  BY <1>4 DEF FramesInOrder, A

================================================================================
