-------------------------- MODULE PullTransportProofs --------------------------
(* Proofs about RtcPullTransport, for queues of any size and any number of   *)
(* frames, calls and changes of the timebase; and about that timebase, for   *)
(* every timestamp, report and clock rate.                                   *)
EXTENDS PullTransport, MediaTimebase, TLAPS

-----------------------------------------------------------------------------
(* The inductive invariant.                                                  *)

NoWorkers == \A m \in Media : ~m_worker[m]
Emptied == \A m \in Media : m_queue[m] = <<>>
Off == ~m_subscribed /\ ~m_running /\ ~m_tracks

\* A medium has a thread exactly if its loop stands somewhere, and then a decoder.
WorkerInv ==
    /\ ~crashed
    /\ \A m \in Media : (m_worker[m] <=> loop[m] # "none") /\ (m_worker[m] => m_decoder)

\* What a thread that subscribes or closes has done so far.
Stage(s) ==
    /\ s \in {"video", "audio", "setup"} =>
          m_running /\ m_decoder /\ ~m_subscribed /\ ~m_tracks
    /\ s = "video" => NoWorkers
    /\ s = "audio" => m_worker["video"] /\ ~m_worker["audio"]
    /\ s = "setup" => \A m \in Media : m_worker[m]
    /\ s \in {"clear", "notify", "join", "release"} => Off
    /\ s \in {"notify", "join", "release"} => Emptied
    /\ s = "join" /\ closing_worker = "audio" => ~m_worker["video"]
    /\ s = "release" => NoWorkers

\* And what there is when nobody does.
Subscribed ==
    m_subscribed /\ m_running /\ m_tracks /\ m_decoder /\ \A m \in Media : m_worker[m]
Closed == Off /\ ~m_decoder /\ NoWorkers /\ Emptied

\* As long as no two calls met, one thread works at a time, and it finds what its
\* stage says.
StageInv ==
    /\ at["signaling"] \notin {"video", "audio", "setup"}
    /\ ~overlapped =>
          /\ \E a \in Actors : \A b \in Actors \ {a} : at[b] = "idle"
          /\ \A a \in Actors : at[a] # "idle" => Stage(at[a])
          /\ (\A a \in Actors : at[a] = "idle") => Subscribed \/ Closed
          /\ m_running => \A m \in Media : loop[m] # "ended"

\* Pictures are numbered as they come: the one in hand was received before those in
\* the queue, those before the one the callback brings; a lost one is older than
\* what is left in the queue.
Ordered(queue, hand, lost, received) ==
    /\ hand <= received
    /\ \A i, j \in 1 .. Len(queue) : i < j => queue[i].number < queue[j].number
    /\ \A i \in 1 .. Len(queue) :
          /\ hand < queue[i].number /\ queue[i].number <= received
          /\ \A n \in lost : n < queue[i].number
    /\ \A n \in lost : n <= received

Newer(new, queue, hand, lost, received) ==
    /\ hand < new /\ new <= received
    /\ \A i \in 1 .. Len(queue) : queue[i].number < new
    /\ \A n \in lost : n < new

OrderInv ==
    /\ Ordered(m_queue["video"], in_hand["video"].number, dropped, count["video"])
    /\ receiver["video"] # "idle" =>
          Newer(brought["video"].number, m_queue["video"], in_hand["video"].number,
                dropped, count["video"])

\* Who lost a picture has left a mark; once it is taken up the worker asks, and
\* what is lost meanwhile comes after the picture in hand.
DropInv ==
    /\ dropped # {} => m_video_queue_overflow \/ loop["video"] = "request"
    /\ ~m_video_queue_overflow => \A n \in dropped : n < in_hand["video"].number
    /\ DropsAskForKeyframe

\* Of the two callbacks, the one that made the latest change brings only frames with
\* the new time, and what is queued after the change was brought by it, but for the
\* frame the other had in hand.
StaleInv ==
    \E x \in Media :
        /\ receiver[x] \in {"clear", "enqueue"} => brought[x].epoch >= epoch
        /\ (\A m \in Media : receiver[m] # "clear") =>
              /\ \A i \in 1 .. Len(m_queue[x]) : ~Stale(x, i)
              /\ \A y \in Media : \A i, j \in 1 .. Len(m_queue[y]) :
                    Stale(y, i) => /\ Stale(y, j) => i = j
                                   /\ receiver[y] = "enqueue" => brought[y].epoch >= epoch

IInv ==
    /\ TypeOK
    /\ WorkerInv
    /\ StageInv
    /\ OrderInv
    /\ DropInv
    /\ StaleInv

-----------------------------------------------------------------------------
(* The queues.                                                               *)

\* The fields of a frame and the frames of a queue.
LEMMA FrameParts ==
    /\ \A f \in Frames : f.number \in Nat /\ f.epoch \in Nat
    /\ \A f \in Frames, e \in Nat : [f EXCEPT !.epoch = e] \in Frames
    /\ \A q \in Seq(Frames) : \A i \in 1 .. Len(q) : q[i] \in Frames /\ q[i].number \in Nat
<1>1. \A f \in Frames : f.number \in Nat /\ f.epoch \in Nat
  BY DEF Frames
<1>2. \A f \in Frames, e \in Nat : [f EXCEPT !.epoch = e] \in Frames
  BY DEF Frames
<1>3. \A q \in Seq(Frames) : \A i \in 1 .. Len(q) : q[i] \in Frames
  OBVIOUS
<1> QED
  BY <1>1, <1>2, <1>3

\* A queue after its first frame was taken.
LEMMA TakenOff ==
    ASSUME NEW S, NEW q \in Seq(S), q # << >>
    PROVE  /\ Head(q) = q[1] /\ Head(q) \in S /\ Len(q) \in Nat \ {0}
           /\ Tail(q) \in Seq(S) /\ Len(Tail(q)) = Len(q) - 1
           /\ \A i \in 1 .. Len(Tail(q)) : i + 1 \in 1 .. Len(q) /\ Tail(q)[i] = q[i + 1]
OBVIOUS

\* A queue after a frame was put into it: the new one is the last, the others are as
\* before, or have moved up by one.
LEMMA PutOn ==
    ASSUME NEW S, NEW q \in Seq(S), NEW f \in S, NEW room \in Nat \ {0}, Len(q) <= room,
           NEW p, p = Append(IF Len(q) >= room THEN Tail(q) ELSE q, f),
           NEW d, d = IF Len(q) >= room THEN 1 ELSE 0
    PROVE  /\ p \in Seq(S) /\ Len(p) <= room /\ Len(p) = Len(q) + 1 - d
           /\ p[Len(p)] = f
           /\ \A i \in 1 .. Len(p) : i # Len(p) => i + d \in 1 .. Len(q) /\ p[i] = q[i + d]
           /\ Len(q) >= room => q # << >> /\ Head(q) = q[1] /\ 1 \in 1 .. Len(q)
<1>1. \A t \in Seq(S) :
         /\ Append(t, f) \in Seq(S) /\ Len(Append(t, f)) = Len(t) + 1
         /\ Append(t, f)[Len(t) + 1] = f /\ \A i \in 1 .. Len(t) : Append(t, f)[i] = t[i]
  OBVIOUS
<1>2. CASE Len(q) >= room
  <2>1. q # << >>
    BY <1>2
  <2>2. /\ Tail(q) \in Seq(S) /\ Len(Tail(q)) = Len(q) - 1 /\ Head(q) = q[1]
        /\ Len(q) \in Nat \ {0}
        /\ \A i \in 1 .. Len(Tail(q)) : i + 1 \in 1 .. Len(q) /\ Tail(q)[i] = q[i + 1]
    BY <2>1, TakenOff
  <2>3. PICK t \in Seq(S) : t = Tail(q)
    BY <2>2
  <2>4. p = Append(t, f) /\ d = 1
    BY <1>2, <2>3
  <2>5. /\ p \in Seq(S) /\ Len(p) = Len(t) + 1 /\ p[Len(t) + 1] = f
        /\ \A i \in 1 .. Len(t) : p[i] = t[i]
    BY <1>1, <2>4
  <2>6. /\ Len(t) = Len(q) - 1 /\ Len(q) \in Nat \ {0}
        /\ \A i \in 1 .. Len(t) : i + 1 \in 1 .. Len(q) /\ t[i] = q[i + 1]
    BY <2>2, <2>3
  <2>7. /\ p \in Seq(S) /\ Len(p) = Len(q) /\ p[Len(p)] = f
        /\ \A i \in 1 .. Len(p) : i # Len(p) => i + 1 \in 1 .. Len(q) /\ p[i] = q[i + 1]
    <3>1. Len(p) = Len(q) /\ p[Len(p)] = f
      BY <2>5, <2>6
    <3>2. \A i \in 1 .. Len(p) : i # Len(p) => i \in 1 .. Len(t)
      BY <2>6, <3>1
    <3> QED
      BY <2>5, <2>6, <3>1, <3>2
  <2>8. Len(p) <= room /\ Len(p) = Len(q) + 1 - d
    BY <2>4, <2>6, <2>7
  <2>9. q # << >> /\ Head(q) = q[1] /\ 1 \in 1 .. Len(q)
    BY <2>1, <2>2
  <2> QED
    BY <2>4, <2>7, <2>8, <2>9
<1>3. CASE ~(Len(q) >= room)
  BY <1>1, <1>3
<1> QED
  BY <1>2, <1>3

\* The order of the pictures is kept by a picture that comes, by one that is queued,
\* by one that is taken or done with and by the emptying of the queue.
LEMMA OrderedComes ==
    ASSUME NEW q \in Seq(Frames), NEW h \in Nat, NEW lost \in SUBSET Nat, NEW c \in Nat,
           Ordered(q, h, lost, c)
    PROVE  Ordered(q, h, lost, c + 1) /\ Newer(c + 1, q, h, lost, c + 1)
<1>1. \A i \in 1 .. Len(q) : q[i].number \in Nat
  BY FrameParts
<1> QED
  BY <1>1 DEF Ordered, Newer

LEMMA OrderedPut ==
    ASSUME NEW q \in Seq(Frames), NEW h \in Nat, NEW lost \in SUBSET Nat, NEW c \in Nat,
           NEW room \in Nat \ {0}, Len(q) <= room, NEW f \in Frames,
           Ordered(q, h, lost, c), Newer(f.number, q, h, lost, c)
    PROVE  Ordered(Append(IF Len(q) >= room THEN Tail(q) ELSE q, f), h,
                   IF Len(q) >= room THEN lost \cup {Head(q).number} ELSE lost, c)
<1>1. (\A i \in 1 .. Len(q) : q[i].number \in Nat) /\ f.number \in Nat
  BY FrameParts
<1>2. PICK p, d :
        /\ p = Append(IF Len(q) >= room THEN Tail(q) ELSE q, f)
        /\ d = IF Len(q) >= room THEN 1 ELSE 0
  OBVIOUS
<1>3. /\ p \in Seq(Frames) /\ Len(p) \in Nat /\ p[Len(p)] = f
      /\ \A i \in 1 .. Len(p) : i # Len(p) => i + d \in 1 .. Len(q) /\ p[i] = q[i + d]
      /\ Len(q) >= room => Head(q) = q[1] /\ 1 \in 1 .. Len(q)
  BY <1>2, PutOn
<1>4. PICK n2 : n2 = IF Len(q) >= room THEN lost \cup {Head(q).number} ELSE lost
  OBVIOUS
<1>5. \A i, j \in 1 .. Len(p) : i < j => p[i].number < p[j].number
  BY <1>1, <1>2, <1>3, SMTT(30) DEF Ordered, Newer
<1>6. \A i \in 1 .. Len(p) : h < p[i].number /\ p[i].number <= c
  BY <1>1, <1>2, <1>3 DEF Ordered, Newer
<1>7. ASSUME NEW i \in 1 .. Len(p), NEW n \in n2 PROVE n < p[i].number
  BY <1>1, <1>2, <1>3, <1>4, <1>7, SMTT(20) DEF Ordered, Newer
<1>8. \A n \in n2 : n <= c
  BY <1>1, <1>3, <1>4 DEF Ordered
<1>9. Ordered(p, h, n2, c)
  BY <1>5, <1>6, <1>7, <1>8 DEF Ordered
<1> QED
  BY <1>2, <1>4, <1>9

LEMMA OrderedTake ==
    ASSUME NEW q \in Seq(Frames), q # << >>, NEW h \in Nat, NEW lost \in SUBSET Nat,
           NEW c \in Nat, Ordered(q, h, lost, c), NEW new \in Nat
    PROVE  /\ Ordered(Tail(q), Head(q).number, lost, c)
           /\ Newer(new, q, h, lost, c) => Newer(new, Tail(q), Head(q).number, lost, c)
           /\ \A n \in lost : n < Head(q).number
<1>1. \A i \in 1 .. Len(q) : q[i].number \in Nat
  BY FrameParts
<1>2. PICK t \in Seq(Frames) : t = Tail(q)
  BY TakenOff
<1>3. /\ Head(q) = q[1] /\ Len(q) \in Nat \ {0} /\ Len(t) = Len(q) - 1 /\ Len(t) \in Nat
      /\ \A i \in 1 .. Len(t) : i + 1 \in 1 .. Len(q) /\ t[i] = q[i + 1]
  BY <1>2, TakenOff
<1>4. 1 \in 1 .. Len(q)
  BY <1>3
<1>5. Ordered(t, q[1].number, lost, c)
  <2>1. \A i, j \in 1 .. Len(t) : i < j => t[i].number < t[j].number
    <3> TAKE i, j \in 1 .. Len(t)
    <3>1. /\ i + 1 \in 1 .. Len(q) /\ j + 1 \in 1 .. Len(q)
          /\ t[i] = q[i + 1] /\ t[j] = q[j + 1]
      BY <1>3
    <3>2. i < j => i + 1 < j + 1
      BY <1>3
    <3> QED
      BY <3>1, <3>2 DEF Ordered
  <2>2. \A i \in 1 .. Len(t) : q[1].number < t[i].number
    BY <1>1, <1>3, <1>4 DEF Ordered
  <2>3. \A i \in 1 .. Len(t) : t[i].number <= c /\ \A n \in lost : n < t[i].number
    BY <1>1, <1>3 DEF Ordered
  <2> QED
    BY <1>1, <1>4, <2>1, <2>2, <2>3 DEF Ordered
<1>6. Newer(new, q, h, lost, c) => Newer(new, t, q[1].number, lost, c)
  BY <1>1, <1>3, <1>4 DEF Newer
<1>7. \A n \in lost : n < q[1].number
  BY <1>4 DEF Ordered
<1> QED
  BY <1>2, <1>3, <1>5, <1>6, <1>7

LEMMA OrderedDone ==
    ASSUME NEW q \in Seq(Frames), NEW h \in Nat, NEW lost \in SUBSET Nat, NEW c \in Nat,
           Ordered(q, h, lost, c), NEW new \in Nat
    PROVE  /\ Ordered(q, 0, lost, c)
           /\ Newer(new, q, h, lost, c) => Newer(new, q, 0, lost, c)
           /\ Ordered(<< >>, h, lost \cup Numbers(q), c)
           /\ Newer(new, q, h, lost, c) => Newer(new, << >>, h, lost \cup Numbers(q), c)
           /\ \A n \in Numbers(q) : n \in Nat /\ h < n
<1>1. \A i \in 1 .. Len(q) : q[i].number \in Nat
  BY FrameParts
<1>2. \A n \in Numbers(q) : \E i \in 1 .. Len(q) : n = q[i].number
  BY DEF Numbers
<1>3. \A n \in Numbers(q) : n \in Nat /\ h < n /\ n <= c
  BY <1>1, <1>2 DEF Ordered
<1>4. \A i \in 1 .. Len(q) : 0 < q[i].number
  BY <1>1 DEF Ordered
<1>5. Ordered(q, 0, lost, c)
  BY <1>4 DEF Ordered
<1>6. ASSUME Newer(new, q, h, lost, c)
      PROVE  Newer(new, q, 0, lost, c) /\ Newer(new, << >>, h, lost \cup Numbers(q), c)
  <2>1. 0 < new /\ Newer(new, q, h, lost, c)
    BY <1>6 DEF Newer
  <2>2. \A n \in Numbers(q) : n < new
    BY <1>2, <1>6 DEF Newer
  <2> QED
    BY <2>1, <2>2 DEF Newer
<1> QED
  BY <1>3, <1>5, <1>6 DEF Ordered

\* What the type invariant says of the pictures.
LEMMA PictureTypes ==
    ASSUME TypeOK
    PROVE  /\ m_queue["video"] \in Seq(Frames) /\ count["video"] \in Nat
           /\ dropped \in SUBSET Nat
           /\ in_hand["video"].number \in Nat /\ brought["video"].number \in Nat
           /\ \A m \in Media : /\ m_queue[m] \in Seq(Frames) /\ Len(m_queue[m]) <= Capacity[m]
                               /\ Capacity[m] \in Nat \ {0} /\ brought[m] \in Frames
                               /\ in_hand[m] \in Frames
BY FrameParts, PullAssumption DEF TypeOK, Media, PullAssumption

\* The frames that wait keep their times.
LEMMA StaleStays ==
    ASSUME StaleInv, m_queue' = m_queue, epoch' = epoch, receiver' = receiver,
           brought' = brought
    PROVE  StaleInv'
BY DEF StaleInv, Stale

\* A queue whose frames have moved up.
LEMMA StaleMoves ==
    ASSUME StaleInv, TypeOK, receiver' = receiver, brought' = brought, epoch' = epoch,
           NEW d \in [Media -> {0, 1}],
           \A n \in Media : \A i \in 1 .. Len(m_queue'[n]) :
              i + d[n] \in 1 .. Len(m_queue[n]) /\ (Stale(n, i)' <=> Stale(n, i + d[n]))
    PROVE  StaleInv'
<1>1. PICK x \in Media :
        /\ receiver[x] \in {"clear", "enqueue"} => brought[x].epoch >= epoch
        /\ (\A m \in Media : receiver[m] # "clear") =>
              /\ \A i \in 1 .. Len(m_queue[x]) : ~Stale(x, i)
              /\ \A y \in Media : \A i, j \in 1 .. Len(m_queue[y]) :
                    Stale(y, i) => /\ Stale(y, j) => i = j
                                   /\ receiver[y] = "enqueue" => brought[y].epoch >= epoch
  BY DEF StaleInv
<1>2. receiver'[x] \in {"clear", "enqueue"} => brought'[x].epoch >= epoch'
  BY <1>1
<1>3. ASSUME \A m \in Media : receiver'[m] # "clear"
      PROVE  /\ \A i \in 1 .. Len(m_queue'[x]) : ~Stale(x, i)'
             /\ \A y \in Media : \A i, j \in 1 .. Len(m_queue'[y]) :
                   Stale(y, i)' => /\ Stale(y, j)' => i = j
                                   /\ receiver'[y] = "enqueue" => brought'[y].epoch >= epoch'
  <2>1. \A i \in 1 .. Len(m_queue'[x]) : ~Stale(x, i)'
    BY <1>1, <1>3
  <2>2. ASSUME NEW y \in Media, NEW i \in 1 .. Len(m_queue'[y]), NEW j \in 1 .. Len(m_queue'[y]),
               Stale(y, i)'
        PROVE  /\ Stale(y, j)' => i = j
               /\ receiver'[y] = "enqueue" => brought'[y].epoch >= epoch'
    <3>1. d[y] \in {0, 1} /\ Stale(y, i + d[y]) /\ (Stale(y, j)' => Stale(y, j + d[y]))
          /\ i + d[y] \in 1 .. Len(m_queue[y]) /\ j + d[y] \in 1 .. Len(m_queue[y])
      BY <2>2
    <3>2. i + d[y] = j + d[y] => i = j
      BY <3>1
    <3> QED
      BY <1>1, <1>3, <3>1, <3>2
  <2> QED
    BY <2>1, <2>2
<1> QED
  BY <1>2, <1>3 DEF StaleInv

-----------------------------------------------------------------------------
(* The steps, one lemma for each action: it keeps every part of IInv.        *)

LEMMA OnFrameInv ==
    ASSUME IInv, Running, NEW m \in Media, OnFrame(m)
    PROVE  IInv'
<1> USE PullAssumption DEF PullAssumption, IInv, TypeOK, Running, Media, Actors,
        OnFrame, decoderVars, queueVars, workerVars, timeVars, flagVars, callVars
<1>1. TypeOK'
  <2>1. (/\ m_subscribed \in BOOLEAN /\ m_running \in BOOLEAN /\ m_tracks \in BOOLEAN
        /\ m_decoder \in BOOLEAN /\ m_needs_keyframe \in BOOLEAN
        /\ m_video_queue_overflow \in BOOLEAN)'
    BY DEF Frames, NoFrame
  <2>2. (/\ m_queue \in [Media -> Seq(Frames)]
        /\ \A n \in Media : Len(m_queue[n]) <= Capacity[n])'
    BY DEF Frames, NoFrame
  <2>3. (/\ m_worker \in [Media -> BOOLEAN]
        /\ loop \in [Media -> {"none", "test", "drowsy", "waiting", "request", "decode",
                               "ended"}])'
    BY DEF Frames, NoFrame
  <2>4. (in_hand \in [Media -> Frames] /\ brought \in [Media -> Frames])'
    <3>1. /\ in_hand' = in_hand /\ in_hand \in [Media -> Frames]
          /\ brought \in [Media -> Frames] /\ count'[m] \in Nat
          /\ brought' = [brought EXCEPT ![m] = [number |-> count'[m], epoch |-> 0]]
      OBVIOUS
    <3> HIDE DEF IInv, TypeOK, OnFrame
    <3>2. [number |-> count'[m], epoch |-> 0] \in Frames
      BY <3>1 DEF Frames
    <3>3. brought' \in [Media -> Frames]
      BY <3>1, <3>2
    <3> QED
      BY <3>1, <3>3
  <2>5. (/\ receiver \in [Media -> {"idle", "resolve", "clear", "enqueue"}]
        /\ count \in [Media -> Nat] /\ dropped \subseteq Nat)'
    <3>1. receiver' \in [Media -> {"idle", "resolve", "clear", "enqueue"}] /\ dropped' = dropped
      OBVIOUS
    <3>2. count' \in [Media -> Nat]
      <4>1. count \in [Media -> Nat] /\ count' = [count EXCEPT ![m] = @ + 1]
        OBVIOUS
      <4> HIDE DEF IInv, TypeOK, OnFrame
      <4> QED
        BY <4>1
    <3> QED
      BY <3>1, <3>2
  <2>6. (/\ m_timebase \in [fallback : SUBSET Media, ready : SUBSET Media,
                            m_rtcp_timebase_active : BOOLEAN]
        /\ epoch \in 0 .. MaxChanges)'
    BY DEF Frames, NoFrame
  <2>7. (/\ at \in [Actors -> {"idle", "video", "audio", "setup", "close", "clear",
                              "notify", "join", "release"}]
        /\ closing_worker \in Media /\ calls \in Nat /\ whep \in Nat
        /\ overlapped \in BOOLEAN /\ crashed \in BOOLEAN)'
    BY DEF Frames, NoFrame
  <2> QED
    BY <2>1, <2>2, <2>3, <2>4, <2>5, <2>6, <2>7
<1>2. WorkerInv'
  BY DEF WorkerInv, StageInv, Stage, Subscribed, Closed, NoWorkers
<1>3. StageInv'
  BY DEF StageInv, Stage, Subscribed, Closed, Off, NoWorkers, Emptied, WorkerInv
<1>4. OrderInv'
  <2>1. /\ m_queue' = m_queue /\ in_hand' = in_hand /\ dropped' = dropped
        /\ receiver["video"] = "idle" /\ m = "video" =>
              count'["video"] = count["video"] + 1
              /\ brought'["video"].number = count["video"] + 1
        /\ m # "video" => count'["video"] = count["video"]
              /\ brought'["video"] = brought["video"] /\ receiver'["video"] = receiver["video"]
        /\ receiver[m] = "idle"
    OBVIOUS
  <2>2. TypeOK /\ OrderInv
    OBVIOUS
  <2> HIDE DEF IInv, TypeOK, OnFrame
  <2> QED
    <3>1. CASE m = "video"
      BY <2>1, <2>2, <3>1, PictureTypes, OrderedComes, SMTT(20) DEF OrderInv
    <3>2. CASE m # "video"
      BY <2>1, <2>2, <3>2 DEF OrderInv
    <3> QED
      BY <3>1, <3>2
<1>5. DropInv'
  BY DEF DropInv, DropsAskForKeyframe, WorkerInv
<1>6. StaleInv'
  <2>1. StaleInv
    OBVIOUS
  <2>2. /\ m_queue' = m_queue /\ epoch' = epoch
        /\ receiver[m] = "idle" /\ receiver'[m] = "resolve"
        /\ \A n \in Media \ {m} : receiver'[n] = receiver[n] /\ brought'[n] = brought[n]
    OBVIOUS
  <2> HIDE DEF IInv, TypeOK, OnFrame
  <2> QED
    BY <2>1, <2>2, SMTT(60) DEF StaleInv, Stale
<1> QED
  BY <1>1, <1>2, <1>3, <1>4, <1>5, <1>6

LEMMA ResolveMediaTimestampInv ==
    ASSUME IInv, Running, NEW m \in Media, NEW reports \in SUBSET Media,
           NEW jumping \in SUBSET Media, ResolveMediaTimestamp(m, reports, jumping)
    PROVE  IInv'
<1> USE PullAssumption DEF PullAssumption, IInv, TypeOK, Running, Media, Actors,
        ResolveMediaTimestamp, Switches, Receiver, Updated, decoderVars, queueVars,
        workerVars, flagVars, callVars
<1>1. TypeOK'
  <2>1. (/\ m_subscribed \in BOOLEAN /\ m_running \in BOOLEAN /\ m_tracks \in BOOLEAN
        /\ m_decoder \in BOOLEAN /\ m_needs_keyframe \in BOOLEAN
        /\ m_video_queue_overflow \in BOOLEAN)'
    BY DEF Frames, NoFrame
  <2>2. (/\ m_queue \in [Media -> Seq(Frames)]
        /\ \A n \in Media : Len(m_queue[n]) <= Capacity[n])'
    BY DEF Frames, NoFrame
  <2>3. (/\ m_worker \in [Media -> BOOLEAN]
        /\ loop \in [Media -> {"none", "test", "drowsy", "waiting", "request", "decode",
                               "ended"}])'
    BY DEF Frames, NoFrame
  <2>4. (in_hand \in [Media -> Frames] /\ brought \in [Media -> Frames])'
    <3>1. in_hand' = in_hand
      OBVIOUS
    <3>2. epoch' \in Nat
      OBVIOUS
    <3>3. brought \in [Media -> Frames] /\ brought' = [brought EXCEPT ![m].epoch = epoch']
      OBVIOUS
    <3>4. [brought[m] EXCEPT !.epoch = epoch'] \in Frames
      BY <3>2, <3>3, FrameParts
    <3>5. brought' \in [Media -> Frames]
      BY <3>3, <3>4
    <3> QED
      BY <3>1, <3>5
  <2>5. (/\ receiver \in [Media -> {"idle", "resolve", "clear", "enqueue"}]
        /\ count \in [Media -> Nat] /\ dropped \subseteq Nat)'
    BY DEF Frames, NoFrame
  <2>6. (/\ m_timebase \in [fallback : SUBSET Media, ready : SUBSET Media,
                            m_rtcp_timebase_active : BOOLEAN]
        /\ epoch \in 0 .. MaxChanges)'
    <3>1. epoch' \in 0 .. MaxChanges
      BY SMTT(20)
    <3>2. PICK u : u = Updated(m_timebase, m, reports, jumping)
      OBVIOUS
    <3>3. u \in [fallback : SUBSET Media, ready : SUBSET Media,
                 m_rtcp_timebase_active : BOOLEAN]
      BY <3>2
    <3>4. PICK s \in BOOLEAN : m_timebase' = [u EXCEPT !.m_rtcp_timebase_active = @ \/ s]
      BY <3>2
    <3> HIDE DEF IInv, TypeOK, ResolveMediaTimestamp, Updated, Switches
    <3>5. m_timebase' \in [fallback : SUBSET Media, ready : SUBSET Media,
                           m_rtcp_timebase_active : BOOLEAN]
      BY <3>3, <3>4
    <3> QED
      BY <3>1, <3>5
  <2>7. (/\ at \in [Actors -> {"idle", "video", "audio", "setup", "close", "clear",
                              "notify", "join", "release"}]
        /\ closing_worker \in Media /\ calls \in Nat /\ whep \in Nat
        /\ overlapped \in BOOLEAN /\ crashed \in BOOLEAN)'
    BY DEF Frames, NoFrame
  <2> QED
    BY <2>1, <2>2, <2>3, <2>4, <2>5, <2>6, <2>7
<1>2. WorkerInv'
  BY DEF WorkerInv, StageInv, Stage, Subscribed, Closed, NoWorkers
<1>3. StageInv'
  BY DEF StageInv, Stage, Subscribed, Closed, Off, NoWorkers, Emptied, WorkerInv
<1>4. OrderInv'
  <2>1. /\ m_queue' = m_queue /\ in_hand' = in_hand /\ dropped' = dropped /\ count' = count
        /\ receiver'["video"] # "idle" => receiver["video"] # "idle"
    OBVIOUS
  <2>2. brought'["video"].number = brought["video"].number
    OBVIOUS
  <2>3. OrderInv
    OBVIOUS
  <2> HIDE DEF IInv, TypeOK, ResolveMediaTimestamp
  <2> QED
    BY <2>1, <2>2, <2>3 DEF OrderInv
<1>5. DropInv'
  BY DEF DropInv, DropsAskForKeyframe, WorkerInv
<1>6. StaleInv'
  <2>1. StaleInv
    OBVIOUS
  <2>2. /\ m_queue' = m_queue /\ receiver[m] = "resolve"
        /\ \A n \in Media \ {m} : receiver'[n] = receiver[n] /\ brought'[n] = brought[n]
        /\ brought'[m].epoch = epoch' /\ epoch' \in Nat
    BY SMTT(20)
  <2>3. \/ receiver'[m] = "clear"
        \/ receiver'[m] = "enqueue" /\ epoch' = epoch
    OBVIOUS
  <2> HIDE DEF IInv, TypeOK, ResolveMediaTimestamp, Switches, Receiver, Updated
  <2>4. CASE receiver'[m] = "clear"
    BY <2>2, <2>4 DEF StaleInv
  <2>5. CASE receiver'[m] = "enqueue" /\ epoch' = epoch
    BY <2>1, <2>2, <2>5, SMTT(20) DEF StaleInv, Stale
  <2> QED
    BY <2>3, <2>4, <2>5
<1> QED
  BY <1>1, <1>2, <1>3, <1>4, <1>5, <1>6

LEMMA ClearPendingFramesInv ==
    ASSUME IInv, Running, NEW m \in Media, ClearPendingFrames(m)
    PROVE  IInv'
<1> USE PullAssumption DEF PullAssumption, IInv, TypeOK, Running, Media, Actors,
        ClearPendingFrames, QueueFree, Numbers, decoderVars, workerVars, timeVars,
        flagVars, callVars
<1>1. TypeOK'
  <2>1. (/\ m_subscribed \in BOOLEAN /\ m_running \in BOOLEAN /\ m_tracks \in BOOLEAN
        /\ m_decoder \in BOOLEAN /\ m_needs_keyframe \in BOOLEAN
        /\ m_video_queue_overflow \in BOOLEAN)'
    BY DEF Frames, NoFrame
  <2>2. (/\ m_queue \in [Media -> Seq(Frames)]
        /\ \A n \in Media : Len(m_queue[n]) <= Capacity[n])'
    BY DEF Frames, NoFrame
  <2>3. (/\ m_worker \in [Media -> BOOLEAN]
        /\ loop \in [Media -> {"none", "test", "drowsy", "waiting", "request", "decode",
                               "ended"}])'
    BY DEF Frames, NoFrame
  <2>4. (in_hand \in [Media -> Frames] /\ brought \in [Media -> Frames])'
    BY DEF Frames, NoFrame
  <2>5. (/\ receiver \in [Media -> {"idle", "resolve", "clear", "enqueue"}]
        /\ count \in [Media -> Nat] /\ dropped \subseteq Nat)'
    <3>1. /\ receiver' \in [Media -> {"idle", "resolve", "clear", "enqueue"}] /\ count' = count
          /\ dropped' = dropped \cup Numbers(m_queue["video"])
      OBVIOUS
    <3>2. Numbers(m_queue["video"]) \subseteq Nat
      BY FrameParts
    <3> QED
      BY <3>1, <3>2
  <2>6. (/\ m_timebase \in [fallback : SUBSET Media, ready : SUBSET Media,
                            m_rtcp_timebase_active : BOOLEAN]
        /\ epoch \in 0 .. MaxChanges)'
    BY DEF Frames, NoFrame
  <2>7. (/\ at \in [Actors -> {"idle", "video", "audio", "setup", "close", "clear",
                              "notify", "join", "release"}]
        /\ closing_worker \in Media /\ calls \in Nat /\ whep \in Nat
        /\ overlapped \in BOOLEAN /\ crashed \in BOOLEAN)'
    BY DEF Frames, NoFrame
  <2> QED
    BY <2>1, <2>2, <2>3, <2>4, <2>5, <2>6, <2>7
<1>2. WorkerInv'
  BY DEF WorkerInv, StageInv, Stage, Subscribed, Closed, NoWorkers
<1>3. StageInv'
  BY DEF StageInv, Stage, Subscribed, Closed, Off, NoWorkers, Emptied, WorkerInv
<1>4. OrderInv'
  <2>1. /\ m_queue'["video"] = << >> /\ in_hand' = in_hand /\ count' = count
        /\ dropped' = dropped \cup Numbers(m_queue["video"]) /\ brought' = brought
        /\ receiver'["video"] # "idle" => receiver["video"] # "idle"
    OBVIOUS
  <2>2. TypeOK /\ OrderInv
    OBVIOUS
  <2> HIDE DEF IInv, TypeOK, ClearPendingFrames, Numbers
  <2> QED
    <3>1. /\ Ordered(<< >>, in_hand["video"].number,
                     dropped \cup Numbers(m_queue["video"]), count["video"])
          /\ receiver["video"] # "idle" =>
                Newer(brought["video"].number, << >>, in_hand["video"].number,
                      dropped \cup Numbers(m_queue["video"]), count["video"])
      BY <2>2, PictureTypes, OrderedDone DEF OrderInv
    <3> QED
      BY <2>1, <3>1 DEF OrderInv
<1>5. DropInv'
  <2>1. TypeOK /\ OrderInv /\ DropInv
    OBVIOUS
  <2>2. /\ m_video_queue_overflow' = TRUE /\ in_hand' = in_hand /\ loop' = loop
        /\ dropped' = dropped \cup Numbers(m_queue["video"])
    OBVIOUS
  <2>3. \A n \in Numbers(m_queue["video"]) : n \in Nat /\ in_hand["video"].number < n
    BY <2>1, PictureTypes, OrderedDone DEF OrderInv
  <2> HIDE DEF IInv, TypeOK, ClearPendingFrames, Numbers, QueueFree
  <2> QED
    BY <2>1, <2>2, <2>3, PictureTypes DEF DropInv, DropsAskForKeyframe
<1>6. StaleInv'
  BY DEF StaleInv, Stale
<1> QED
  BY <1>1, <1>2, <1>3, <1>4, <1>5, <1>6

LEMMA EnqueueFrameInv ==
    ASSUME IInv, Running, NEW m \in Media, EnqueueFrame(m)
    PROVE  IInv'
<1> USE PullAssumption DEF PullAssumption, IInv, TypeOK, Running, Media, Actors,
        EnqueueFrame, QueueFree, Woken, ReceiverReturns, Accepts, Full, decoderVars,
        timeVars, flagVars, callVars
<1>1. TypeOK'
  <2>1. (/\ m_subscribed \in BOOLEAN /\ m_running \in BOOLEAN /\ m_tracks \in BOOLEAN
        /\ m_decoder \in BOOLEAN /\ m_needs_keyframe \in BOOLEAN
        /\ m_video_queue_overflow \in BOOLEAN)'
    BY DEF Frames, NoFrame
  <2>2. (/\ m_queue \in [Media -> Seq(Frames)]
        /\ \A n \in Media : Len(m_queue[n]) <= Capacity[n])'
    <3>1. /\ m_queue[m] \in Seq(Frames) /\ Len(m_queue[m]) <= Capacity[m]
          /\ Capacity[m] \in Nat \ {0} /\ brought[m] \in Frames
      OBVIOUS
    <3>2. PICK p : p = Append(IF Len(m_queue[m]) >= Capacity[m] THEN Tail(m_queue[m])
                              ELSE m_queue[m], brought[m])
      OBVIOUS
    <3>3. p \in Seq(Frames) /\ Len(p) <= Capacity[m]
      BY <3>1, <3>2, PutOn
    <3>4. /\ m_queue' = m_queue \/ m_queue' = [m_queue EXCEPT ![m] = p]
          /\ m_queue \in [Media -> Seq(Frames)]
          /\ \A n \in Media : Len(m_queue[n]) <= Capacity[n]
      BY <3>2
    <3> HIDE DEF IInv, TypeOK, EnqueueFrame, ReceiverReturns, Full, Accepts, Woken, QueueFree
    <3> QED
      BY <3>3, <3>4
  <2>3. (/\ m_worker \in [Media -> BOOLEAN]
        /\ loop \in [Media -> {"none", "test", "drowsy", "waiting", "request", "decode",
                               "ended"}])'
    BY SMTT(20) DEF Frames, NoFrame
  <2>4. (in_hand \in [Media -> Frames] /\ brought \in [Media -> Frames])'
    BY DEF Frames, NoFrame
  <2>5. (/\ receiver \in [Media -> {"idle", "resolve", "clear", "enqueue"}]
        /\ count \in [Media -> Nat] /\ dropped \subseteq Nat)'
    <3>1. receiver' \in [Media -> {"idle", "resolve", "clear", "enqueue"}] /\ count' = count
      OBVIOUS
    <3>2. dropped' = dropped \/ (Len(m_queue["video"]) >= Capacity["video"]
                                 /\ dropped' = dropped \cup {Head(m_queue["video"]).number})
      OBVIOUS
    <3>3. Len(m_queue["video"]) >= Capacity["video"] => Head(m_queue["video"]).number \in Nat
      BY TakenOff, FrameParts
    <3>4. dropped' \subseteq Nat
      BY <3>2, <3>3
    <3> QED
      BY <3>1, <3>4
  <2>6. (/\ m_timebase \in [fallback : SUBSET Media, ready : SUBSET Media,
                            m_rtcp_timebase_active : BOOLEAN]
        /\ epoch \in 0 .. MaxChanges)'
    BY DEF Frames, NoFrame
  <2>7. (/\ at \in [Actors -> {"idle", "video", "audio", "setup", "close", "clear",
                              "notify", "join", "release"}]
        /\ closing_worker \in Media /\ calls \in Nat /\ whep \in Nat
        /\ overlapped \in BOOLEAN /\ crashed \in BOOLEAN)'
    BY DEF Frames, NoFrame
  <2> QED
    BY <2>1, <2>2, <2>3, <2>4, <2>5, <2>6, <2>7
<1>2. WorkerInv'
  BY DEF WorkerInv, StageInv, Stage, Subscribed, Closed, NoWorkers
<1>3. StageInv'
  BY DEF StageInv, Stage, Subscribed, Closed, Off, NoWorkers, Emptied, WorkerInv
<1>4. OrderInv'
  <2>1. TypeOK /\ OrderInv
    OBVIOUS
  <2>2. /\ in_hand' = in_hand /\ count' = count /\ receiver[m] = "enqueue"
        /\ receiver'[m] = "idle"
        /\ m # "video" => receiver'["video"] = receiver["video"]
        /\ m # "video" => brought'["video"] = brought["video"]
    OBVIOUS
  <2>3. m # "video" \/ ~m_running => m_queue'["video"] = m_queue["video"] /\ dropped' = dropped
    OBVIOUS
  <2>4. ASSUME m = "video", m_running
        PROVE  /\ m_queue'["video"] =
                     Append(IF Len(m_queue["video"]) >= Capacity["video"]
                            THEN Tail(m_queue["video"]) ELSE m_queue["video"],
                            brought["video"])
               /\ dropped' = IF Len(m_queue["video"]) >= Capacity["video"]
                             THEN dropped \cup {Head(m_queue["video"]).number} ELSE dropped
    BY <2>4
  <2> HIDE DEF IInv, TypeOK, EnqueueFrame, ReceiverReturns, Full, Accepts, Woken, QueueFree
  <2>5. CASE m = "video" /\ m_running
    <3>1. /\ Ordered(m_queue["video"], in_hand["video"].number, dropped, count["video"])
          /\ Newer(brought["video"].number, m_queue["video"], in_hand["video"].number,
                   dropped, count["video"])
      BY <2>1, <2>2, <2>5 DEF OrderInv
    <3>2. PICK p, l :
            /\ p = Append(IF Len(m_queue["video"]) >= Capacity["video"]
                          THEN Tail(m_queue["video"]) ELSE m_queue["video"], brought["video"])
            /\ l = IF Len(m_queue["video"]) >= Capacity["video"]
                   THEN dropped \cup {Head(m_queue["video"]).number} ELSE dropped
      OBVIOUS
    <3>3. Ordered(p, in_hand["video"].number, l, count["video"])
      BY <2>1, <3>1, <3>2, PictureTypes, OrderedPut DEF Media
    <3>4. m_queue'["video"] = p /\ dropped' = l
      BY <2>4, <2>5, <3>2
    <3> QED
      BY <2>2, <2>5, <3>3, <3>4 DEF OrderInv
  <2>6. CASE ~(m = "video" /\ m_running)
    <3>1. /\ m_queue'["video"] = m_queue["video"] /\ dropped' = dropped
          /\ in_hand'["video"] = in_hand["video"] /\ count'["video"] = count["video"]
          /\ \/ receiver'["video"] = "idle"
             \/ receiver'["video"] = receiver["video"] /\ brought'["video"] = brought["video"]
      <4>1. CASE m # "video"
        BY <2>2, <2>3, <4>1
      <4>2. CASE m = "video" /\ ~m_running
        <5>1. m_queue'["video"] = m_queue["video"] /\ dropped' = dropped
          BY <2>3, <4>2
        <5>2. receiver'["video"] = "idle"
          BY <2>2, <4>2
        <5> QED
          BY <2>2, <5>1, <5>2
      <4> QED
        BY <2>6, <4>1, <4>2
    <3> QED
      BY <2>1, <3>1 DEF OrderInv
  <2> QED
    BY <2>5, <2>6
<1>5. DropInv'
  <2>1. TypeOK /\ OrderInv /\ DropInv
    OBVIOUS
  <2>2. /\ in_hand' = in_hand
        /\ loop'["video"] = "decode" <=> loop["video"] = "decode"
        /\ loop'["video"] = "request" <=> loop["video"] = "request"
    OBVIOUS
  <2>3. \/ m_video_queue_overflow' = m_video_queue_overflow /\ dropped' = dropped
        \/ /\ m_video_queue_overflow' = TRUE /\ Len(m_queue["video"]) >= Capacity["video"]
           /\ dropped' = dropped \cup {Head(m_queue["video"]).number}
    OBVIOUS
  <2> HIDE DEF IInv, TypeOK, EnqueueFrame, ReceiverReturns, Full, Accepts, Woken, QueueFree
  <2>4. CASE m_video_queue_overflow' = m_video_queue_overflow /\ dropped' = dropped
    BY <2>1, <2>2, <2>4 DEF DropInv, DropsAskForKeyframe
  <2>5. CASE /\ m_video_queue_overflow' = TRUE /\ Len(m_queue["video"]) >= Capacity["video"]
             /\ dropped' = dropped \cup {Head(m_queue["video"]).number}
    <3>1. 1 \in 1 .. Len(m_queue["video"]) /\ Head(m_queue["video"]) = m_queue["video"][1]
      BY <2>1, <2>5, PictureTypes, TakenOff
    <3>2. in_hand["video"].number < Head(m_queue["video"]).number
      BY <2>1, <3>1 DEF OrderInv, Ordered
    <3>3. Head(m_queue["video"]).number \in Nat
      BY <2>1, <3>1, PictureTypes, FrameParts
    <3> QED
      BY <2>1, <2>2, <2>5, <3>2, <3>3, PictureTypes DEF DropInv, DropsAskForKeyframe
  <2> QED
    BY <2>3, <2>4, <2>5
<1>6. StaleInv'
  <2>1. TypeOK /\ StaleInv
    OBVIOUS
  <2>2. /\ epoch' = epoch /\ receiver[m] = "enqueue" /\ receiver'[m] = "idle"
        /\ \A n \in Media \ {m} : /\ m_queue'[n] = m_queue[n] /\ receiver'[n] = receiver[n]
                                  /\ brought'[n] = brought[n]
    OBVIOUS
  <2>3. m_queue'[m] = m_queue[m]
        \/ m_queue'[m] = Append(IF Len(m_queue[m]) >= Capacity[m] THEN Tail(m_queue[m])
                                ELSE m_queue[m], brought[m])
    OBVIOUS
  <2> HIDE DEF IInv, TypeOK, EnqueueFrame, ReceiverReturns, Full, Accepts, Woken, QueueFree
  <2>4. \E e \in {0, 1}, new \in BOOLEAN :
          /\ Len(m_queue'[m]) \in Nat
          /\ new => Len(m_queue'[m]) > 0 /\ m_queue'[m][Len(m_queue'[m])] = brought[m]
          /\ \A i \in 1 .. Len(m_queue'[m]) : ~new \/ i # Len(m_queue'[m]) =>
                i + e \in 1 .. Len(m_queue[m]) /\ m_queue'[m][i] = m_queue[m][i + e]
    <3>1. /\ m_queue[m] \in Seq(Frames) /\ Len(m_queue[m]) <= Capacity[m]
          /\ Capacity[m] \in Nat \ {0} /\ brought[m] \in Frames /\ Len(m_queue[m]) \in Nat
      BY <2>1, PictureTypes
    <3>2. CASE m_queue'[m] = m_queue[m]
      <4>1. \A i \in 1 .. Len(m_queue[m]) : i + 0 = i
        OBVIOUS
      <4> WITNESS 0 \in {0, 1}, FALSE \in BOOLEAN
      <4> QED
        BY <3>1, <3>2, <4>1
    <3>3. CASE m_queue'[m] = Append(IF Len(m_queue[m]) >= Capacity[m] THEN Tail(m_queue[m])
                                    ELSE m_queue[m], brought[m])
      <4>1. PICK d : d = IF Len(m_queue[m]) >= Capacity[m] THEN 1 ELSE 0
        OBVIOUS
      <4>2. PICK p : p = m_queue'[m]
        OBVIOUS
      <4>3. /\ p \in Seq(Frames) /\ Len(p) = Len(m_queue[m]) + 1 - d /\ p[Len(p)] = brought[m]
            /\ \A i \in 1 .. Len(p) : i # Len(p) =>
                  i + d \in 1 .. Len(m_queue[m]) /\ p[i] = m_queue[m][i + d]
        BY <3>1, <3>3, <4>1, <4>2, PutOn, SMTT(20)
      <4> d \in {0, 1}
        BY <4>1
      <4>4. ASSUME d = 0 PROVE Len(p) \in Nat /\ Len(p) > 0
        BY <3>1, <4>3, <4>4
      <4>5. ASSUME d = 1 PROVE Len(p) \in Nat /\ Len(p) > 0
        <5>1. Len(m_queue[m]) >= Capacity[m]
          BY <4>1, <4>5
        <5>2. Len(m_queue[m]) > 0
          BY <3>1, <5>1
        <5> QED
          BY <3>1, <4>3, <4>5, <5>2
      <4>6. Len(p) \in Nat /\ Len(p) > 0
        BY <4>4, <4>5
      <4> WITNESS d \in {0, 1}, TRUE \in BOOLEAN
      <4> QED
        BY <4>2, <4>3, <4>6
    <3> QED
      BY <2>3, <3>2, <3>3
  <2>5. PICK q : q = m_queue'[m]
    OBVIOUS
  <2>6. PICK e \in {0, 1}, new \in BOOLEAN :
          /\ Len(q) \in Nat
          /\ new => Len(q) > 0 /\ q[Len(q)] = brought[m]
          /\ \A i \in 1 .. Len(q) : ~new \/ i # Len(q) =>
                i + e \in 1 .. Len(m_queue[m]) /\ q[i] = m_queue[m][i + e]
    BY <2>4, <2>5
  <2>7. \A i \in 1 .. Len(q) : ~new \/ i # Len(q) => (Stale(m, i)' <=> Stale(m, i + e))
    BY <2>2, <2>6, <2>5 DEF Stale
  <2>8. new => (Stale(m, Len(q))' <=> brought[m].epoch < epoch)
    BY <2>2, <2>6, <2>5 DEF Stale
  <2>9. \A n \in Media \ {m} : \A i \in 1 .. Len(m_queue[n]) : Stale(n, i)' <=> Stale(n, i)
    BY <2>2 DEF Stale
  <2>10. brought[m].epoch \in Nat /\ epoch \in Nat
    BY <2>1, PictureTypes, FrameParts, PullAssumption, SMTT(30) DEF TypeOK, PullAssumption
  <2>11. PICK x \in Media :
        /\ receiver[x] \in {"clear", "enqueue"} => brought[x].epoch >= epoch
        /\ (\A y \in Media : receiver[y] # "clear") =>
              /\ \A i \in 1 .. Len(m_queue[x]) : ~Stale(x, i)
              /\ \A y \in Media : \A i, j \in 1 .. Len(m_queue[y]) :
                    Stale(y, i) => /\ Stale(y, j) => i = j
                                   /\ receiver[y] = "enqueue" => brought[y].epoch >= epoch
    BY <2>1 DEF StaleInv
  <2>12. receiver'[x] \in {"clear", "enqueue"} => brought'[x].epoch >= epoch'
    BY <2>2, <2>11
  <2>13. ASSUME \A y \in Media : receiver'[y] # "clear"
         PROVE  \A y \in Media : receiver[y] # "clear"
    BY <2>2, <2>13
  <2>14. ASSUME \A y \in Media : receiver'[y] # "clear", NEW i \in 1 .. Len(m_queue'[x])
         PROVE  ~Stale(x, i)'
    <3>1. CASE x = m
      <4>1. i \in 1 .. Len(q) /\ receiver[m] = "enqueue"
        BY <2>2, <2>14, <2>5, <3>1
      <4>2. CASE ~new \/ i # Len(q)
        <5>1. i + e \in 1 .. Len(m_queue[x]) /\ (Stale(x, i)' <=> Stale(x, i + e))
          BY <2>7, <2>6, <3>1, <4>1, <4>2
        <5> QED
          BY <2>11, <2>13, <2>14, <5>1
      <4>3. CASE new /\ i = Len(q)
        BY <2>8, <2>10, <2>11, <3>1, <4>1, <4>3
      <4> QED
        BY <4>2, <4>3
    <3>2. CASE x # m
      BY <2>2, <2>9, <2>11, <2>13, <2>14, <3>2
    <3> QED
      BY <3>1, <3>2
  <2>15. ASSUME \A y \in Media : receiver'[y] # "clear", NEW y \in Media,
                NEW i \in 1 .. Len(m_queue'[y]), NEW j \in 1 .. Len(m_queue'[y]), Stale(y, i)'
         PROVE  /\ Stale(y, j)' => i = j
                /\ receiver'[y] = "enqueue" => brought'[y].epoch >= epoch'
    <3>1. CASE y = m
      <4>1. receiver'[m] = "idle" /\ i \in 1 .. Len(q) /\ j \in 1 .. Len(q)
        BY <2>2, <2>6, <2>5, <3>1
      <4>2. (\E k \in 1 .. Len(m_queue[m]) : Stale(m, k)) => brought[m].epoch >= epoch
        BY <2>2, <2>11, <2>13, <2>15
      <4>3. CASE (~new \/ i # Len(q)) /\ (~new \/ j # Len(q))
        <5>1. /\ i + e \in 1 .. Len(m_queue[m]) /\ j + e \in 1 .. Len(m_queue[m])
              /\ Stale(m, i + e) /\ (Stale(m, j)' => Stale(m, j + e))
          BY <2>6, <2>5, <2>7, <2>15, <3>1, <4>1, <4>3
        <5>2. Stale(m, j)' => i + e = j + e
          BY <2>11, <2>13, <2>15, <5>1
        <5> QED
          BY <3>1, <4>1, <5>2
      <4>4. CASE new /\ (i = Len(q) \/ j = Len(q))
        <5>1. \A k \in 1 .. Len(q) : Stale(m, k)' /\ k # Len(q) => brought[m].epoch >= epoch
          BY <2>6, <2>5, <2>7, <4>2
        <5>2. Stale(m, Len(q))' => ~(brought[m].epoch >= epoch)
          BY <2>8, <2>10, <4>4
        <5> QED
          BY <2>15, <3>1, <4>1, <4>4, <5>1, <5>2
      <4> QED
        BY <4>3, <4>4
    <3>2. CASE y # m
      BY <2>2, <2>9, <2>11, <2>13, <2>15, <3>2
    <3> QED
      BY <3>1, <3>2
  <2> QED
    BY <2>12, <2>14, <2>15 DEF StaleInv
<1> QED
  BY <1>1, <1>2, <1>3, <1>4, <1>5, <1>6

LEMMA NothingToDoInv ==
    ASSUME IInv, Running, NEW m \in Media, NothingToDo(m)
    PROVE  IInv'
<1> USE PullAssumption DEF PullAssumption, IInv, TypeOK, Running, Media, Actors,
        NothingToDo, LoopGoes, OthersUnchanged, decoderVars, queueVars, receiverVars,
        timeVars, flagVars, callVars
<1>1. TypeOK'
  BY DEF Frames, NoFrame
<1>2. WorkerInv'
  BY DEF WorkerInv, StageInv, Stage, Subscribed, Closed, NoWorkers
<1>3. StageInv'
  BY DEF StageInv, Stage, Subscribed, Closed, Off, NoWorkers, Emptied, WorkerInv
<1>4. OrderInv'
  BY DEF OrderInv
<1>5. DropInv'
  BY DEF DropInv, DropsAskForKeyframe, WorkerInv
<1>6. StaleInv'
  BY StaleStays
<1> QED
  BY <1>1, <1>2, <1>3, <1>4, <1>5, <1>6

LEMMA FallAsleepInv ==
    ASSUME IInv, Running, NEW m \in Media, FallAsleep(m)
    PROVE  IInv'
<1> USE PullAssumption DEF PullAssumption, IInv, TypeOK, Running, Media, Actors,
        FallAsleep, LoopGoes, OthersUnchanged, decoderVars, queueVars, receiverVars,
        timeVars, flagVars, callVars
<1>1. TypeOK'
  BY SMTT(20) DEF Frames, NoFrame
<1>2. WorkerInv'
  BY DEF WorkerInv, StageInv, Stage, Subscribed, Closed, NoWorkers
<1>3. StageInv'
  BY DEF StageInv, Stage, Subscribed, Closed, Off, NoWorkers, Emptied, WorkerInv
<1>4. OrderInv'
  BY DEF OrderInv
<1>5. DropInv'
  BY DEF DropInv, DropsAskForKeyframe, WorkerInv
<1>6. StaleInv'
  BY StaleStays
<1> QED
  BY <1>1, <1>2, <1>3, <1>4, <1>5, <1>6

LEMMA LeaveLoopInv ==
    ASSUME IInv, Running, NEW m \in Media, LeaveLoop(m)
    PROVE  IInv'
<1> USE PullAssumption DEF PullAssumption, IInv, TypeOK, Running, Media, Actors,
        LeaveLoop, LoopGoes, OthersUnchanged, decoderVars, queueVars, receiverVars,
        timeVars, flagVars, callVars
<1>1. TypeOK'
  BY DEF Frames, NoFrame
<1>2. WorkerInv'
  BY DEF WorkerInv, StageInv, Stage, Subscribed, Closed, NoWorkers
<1>3. StageInv'
  BY DEF StageInv, Stage, Subscribed, Closed, Off, NoWorkers, Emptied, WorkerInv
<1>4. OrderInv'
  BY DEF OrderInv
<1>5. DropInv'
  BY DEF DropInv, DropsAskForKeyframe, WorkerInv
<1>6. StaleInv'
  BY StaleStays
<1> QED
  BY <1>1, <1>2, <1>3, <1>4, <1>5, <1>6

LEMMA TakeFrameInv ==
    ASSUME IInv, Running, NEW m \in Media, TakeFrame(m)
    PROVE  IInv'
<1> USE PullAssumption DEF PullAssumption, IInv, TypeOK, Running, Media, Actors,
        TakeFrame, LoopGoes, OthersUnchanged, decoderVars, receiverVars, timeVars,
        flagVars, callVars
<1>1. TypeOK'
  <2>1. (/\ m_subscribed \in BOOLEAN /\ m_running \in BOOLEAN /\ m_tracks \in BOOLEAN
        /\ m_decoder \in BOOLEAN /\ m_needs_keyframe \in BOOLEAN
        /\ m_video_queue_overflow \in BOOLEAN)'
    BY DEF Frames, NoFrame
  <2>2. (/\ m_queue \in [Media -> Seq(Frames)]
        /\ \A n \in Media : Len(m_queue[n]) <= Capacity[n])'
    <3>1. m_queue[m] \in Seq(Frames) /\ Len(m_queue[m]) <= Capacity[m] /\ Capacity[m] \in Nat
      OBVIOUS
    <3>2. Tail(m_queue[m]) \in Seq(Frames) /\ Len(Tail(m_queue[m])) <= Capacity[m]
      BY <3>1, TakenOff
    <3>3. m_queue' = [m_queue EXCEPT ![m] = Tail(@)] /\ m_queue \in [Media -> Seq(Frames)]
          /\ \A n \in Media : Len(m_queue[n]) <= Capacity[n]
      OBVIOUS
    <3> HIDE DEF IInv, TypeOK, TakeFrame, LoopGoes, OthersUnchanged
    <3> QED
      BY <3>2, <3>3
  <2>3. (/\ m_worker \in [Media -> BOOLEAN]
        /\ loop \in [Media -> {"none", "test", "drowsy", "waiting", "request", "decode",
                               "ended"}])'
    BY DEF Frames, NoFrame
  <2>4. (in_hand \in [Media -> Frames] /\ brought \in [Media -> Frames])'
    <3>1. m_queue[m] \in Seq(Frames) /\ m_queue[m] # << >>
      OBVIOUS
    <3>2. Head(m_queue[m]) \in Frames
      BY <3>1, TakenOff
    <3> QED
      BY <3>2
  <2>5. (/\ receiver \in [Media -> {"idle", "resolve", "clear", "enqueue"}]
        /\ count \in [Media -> Nat] /\ dropped \subseteq Nat)'
    BY DEF Frames, NoFrame
  <2>6. (/\ m_timebase \in [fallback : SUBSET Media, ready : SUBSET Media,
                            m_rtcp_timebase_active : BOOLEAN]
        /\ epoch \in 0 .. MaxChanges)'
    BY DEF Frames, NoFrame
  <2>7. (/\ at \in [Actors -> {"idle", "video", "audio", "setup", "close", "clear",
                              "notify", "join", "release"}]
        /\ closing_worker \in Media /\ calls \in Nat /\ whep \in Nat
        /\ overlapped \in BOOLEAN /\ crashed \in BOOLEAN)'
    BY DEF Frames, NoFrame
  <2> QED
    BY <2>1, <2>2, <2>3, <2>4, <2>5, <2>6, <2>7
<1>2. WorkerInv'
  BY DEF WorkerInv, StageInv, Stage, Subscribed, Closed, NoWorkers
<1>3. StageInv'
  BY DEF StageInv, Stage, Subscribed, Closed, Off, NoWorkers, Emptied, WorkerInv
<1>4. OrderInv'
  <2>1. TypeOK /\ OrderInv
    OBVIOUS
  <2>2. /\ receiver' = receiver /\ count' = count /\ brought' = brought /\ dropped' = dropped
        /\ m # "video" => m_queue'["video"] = m_queue["video"]
                          /\ in_hand'["video"] = in_hand["video"]
        /\ m = "video" => /\ m_queue["video"] # << >>
                          /\ m_queue'["video"] = Tail(m_queue["video"])
                          /\ in_hand'["video"] = Head(m_queue["video"])
    OBVIOUS
  <2> HIDE DEF IInv, TypeOK, TakeFrame, LoopGoes, OthersUnchanged
  <2>3. CASE m = "video"
    <3>1. PICK q : q = m_queue["video"] /\ q # << >> /\ q \in Seq(Frames)
      BY <2>1, <2>2, <2>3, PictureTypes
    <3>2. /\ m_queue'["video"] = Tail(q) /\ in_hand'["video"] = Head(q)
          /\ Ordered(q, in_hand["video"].number, dropped, count["video"])
          /\ receiver["video"] # "idle" =>
                Newer(brought["video"].number, q, in_hand["video"].number, dropped, count["video"])
      BY <2>1, <2>2, <2>3, <3>1 DEF OrderInv
    <3>3. /\ Ordered(Tail(q), Head(q).number, dropped, count["video"])
          /\ receiver["video"] # "idle" =>
                Newer(brought["video"].number, Tail(q), Head(q).number, dropped, count["video"])
      BY <2>1, <3>1, <3>2, PictureTypes, OrderedTake
    <3> QED
      BY <2>2, <3>2, <3>3 DEF OrderInv
  <2>4. CASE m # "video"
    BY <2>1, <2>2, <2>4 DEF OrderInv
  <2> QED
    BY <2>3, <2>4
<1>5. DropInv'
  <2>1. TypeOK /\ OrderInv /\ DropInv
    OBVIOUS
  <2>2. dropped' = dropped /\ loop[m] = "test" /\ m_queue[m] # << >>
        /\ (m # "video" => in_hand'["video"] = in_hand["video"] /\ loop'["video"] = loop["video"]
                           /\ m_video_queue_overflow' = m_video_queue_overflow)
    OBVIOUS
  <2>3. ASSUME m = "video"
        PROVE  /\ in_hand'["video"] = Head(m_queue["video"]) /\ m_video_queue_overflow' = FALSE
               /\ loop'["video"] = IF m_video_queue_overflow THEN "request" ELSE "decode"
    BY <2>3
  <2> HIDE DEF IInv, TypeOK, TakeFrame, LoopGoes, OthersUnchanged
  <2>4. CASE m = "video"
    <3>1. \A n \in dropped : n < Head(m_queue["video"]).number
      BY <2>1, <2>2, <2>4, PictureTypes, OrderedTake DEF OrderInv
    <3> QED
      BY <2>1, <2>2, <2>3, <2>4, <3>1 DEF DropInv, DropsAskForKeyframe
  <2>5. CASE m # "video"
    BY <2>1, <2>2, <2>5 DEF DropInv, DropsAskForKeyframe
  <2> QED
    BY <2>4, <2>5
<1>6. StaleInv'
  <2>1. TypeOK /\ StaleInv
    OBVIOUS
  <2>2. /\ receiver' = receiver /\ brought' = brought /\ epoch' = epoch
        /\ m_queue[m] # << >> /\ m_queue'[m] = Tail(m_queue[m])
        /\ \A n \in Media \ {m} : m_queue'[n] = m_queue[n]
    OBVIOUS
  <2> HIDE DEF IInv, TypeOK, TakeFrame, LoopGoes, OthersUnchanged
  <2>3. /\ \A i \in 1 .. Len(m_queue'[m]) :
              i + 1 \in 1 .. Len(m_queue[m]) /\ m_queue'[m][i] = m_queue[m][i + 1]
    BY <2>1, <2>2, PictureTypes, TakenOff
  <2>4. PICK d \in [Media -> {0, 1}] : d = [n \in Media |-> IF n = m THEN 1 ELSE 0]
    OBVIOUS
  <2>5. \A n \in Media : \A i \in 1 .. Len(m_queue'[n]) :
           i + d[n] \in 1 .. Len(m_queue[n]) /\ m_queue'[n][i] = m_queue[n][i + d[n]]
    <3> TAKE n \in Media
    <3>1. CASE n = m
      BY <2>3, <2>4, <3>1
    <3>2. CASE n # m
      <4>1. m_queue'[n] = m_queue[n] /\ d[n] = 0 /\ Len(m_queue[n]) \in Nat
        BY <2>1, <2>2, <2>4, <3>2, PictureTypes
      <4> QED
        BY <4>1
    <3> QED
      BY <3>1, <3>2
  <2>6. \A n \in Media : \A i \in 1 .. Len(m_queue'[n]) : Stale(n, i)' <=> Stale(n, i + d[n])
    BY <2>2, <2>5 DEF Stale
  <2> QED
    BY <2>1, <2>2, <2>4, <2>5, <2>6, StaleMoves
<1> QED
  BY <1>1, <1>2, <1>3, <1>4, <1>5, <1>6

LEMMA RequestForOverflowInv ==
    ASSUME IInv, Running, RequestForOverflow
    PROVE  IInv'
<1> USE PullAssumption DEF PullAssumption, IInv, TypeOK, Running, Media, Actors,
        RequestForOverflow, LoopGoes, OthersUnchanged, receiverVars, timeVars,
        flagVars, callVars
<1>1. TypeOK'
  BY ZenonT(30) DEF Frames, NoFrame
<1>2. WorkerInv'
  BY DEF WorkerInv, StageInv, Stage, Subscribed, Closed, NoWorkers
<1>3. StageInv'
  BY DEF StageInv, Stage, Subscribed, Closed, Off, NoWorkers, Emptied, WorkerInv
<1>4. OrderInv'
  <2>1. TypeOK /\ OrderInv
    OBVIOUS
  <2>2. /\ m_queue' = m_queue /\ in_hand' = in_hand /\ receiver' = receiver
        /\ count' = count /\ brought' = brought /\ dropped' \subseteq dropped
    OBVIOUS
  <2> HIDE DEF IInv, TypeOK, RequestForOverflow, LoopGoes, OthersUnchanged
  <2> QED
    BY <2>1, <2>2 DEF OrderInv, Ordered, Newer
<1>5. DropInv'
  <2>1. TypeOK /\ DropInv
    OBVIOUS
  <2>2. /\ in_hand' = in_hand /\ m_video_queue_overflow' = m_video_queue_overflow
        /\ dropped' = {n \in dropped : n > in_hand["video"].number}
        /\ loop'["video"] = "decode"
    OBVIOUS
  <2> HIDE DEF IInv, TypeOK, RequestForOverflow, LoopGoes, OthersUnchanged
  <2> QED
    BY <2>1, <2>2, PictureTypes DEF DropInv, DropsAskForKeyframe
<1>6. StaleInv'
  BY StaleStays
<1> QED
  BY <1>1, <1>2, <1>3, <1>4, <1>5, <1>6

LEMMA DecodesInv ==
    ASSUME IInv, Running, NEW m \in Media, Decodes(m)
    PROVE  IInv'
<1> USE PullAssumption DEF PullAssumption, IInv, TypeOK, Running, Media, Actors,
        Decodes, LoopGoes, OthersUnchanged, queueVars, receiverVars, timeVars,
        flagVars, callVars
<1>1. TypeOK'
  BY ZenonT(30) DEF Frames, NoFrame
<1>2. WorkerInv'
  BY DEF WorkerInv, StageInv, Stage, Subscribed, Closed, NoWorkers
<1>3. StageInv'
  BY DEF StageInv, Stage, Subscribed, Closed, Off, NoWorkers, Emptied, WorkerInv
<1>4. OrderInv'
  <2>1. TypeOK /\ OrderInv
    OBVIOUS
  <2>2. /\ m_queue' = m_queue /\ receiver' = receiver /\ count' = count
        /\ brought' = brought /\ dropped' = dropped
    OBVIOUS
  <2>3. in_hand'["video"] = in_hand["video"] \/ in_hand'["video"].number = 0
    BY DEF NoFrame
  <2> HIDE DEF IInv, TypeOK, Decodes, LoopGoes, OthersUnchanged
  <2>4. CASE in_hand'["video"] = in_hand["video"]
    BY <2>1, <2>2, <2>4 DEF OrderInv
  <2>5. CASE in_hand'["video"].number = 0
    BY <2>1, <2>2, <2>5, PictureTypes, OrderedDone DEF OrderInv
  <2> QED
    BY <2>3, <2>4, <2>5
<1>5. DropInv'
  BY DEF DropInv, DropsAskForKeyframe, WorkerInv
<1>6. StaleInv'
  BY StaleStays
<1> QED
  BY <1>1, <1>2, <1>3, <1>4, <1>5, <1>6

LEMMA DecodeFailsInv ==
    ASSUME IInv, Running, NEW m \in Media, DecodeFails(m)
    PROVE  IInv'
<1> USE PullAssumption DEF PullAssumption, IInv, TypeOK, Running, Media, Actors,
        DecodeFails, LoopGoes, OthersUnchanged, queueVars, receiverVars, timeVars,
        flagVars, callVars
<1>1. TypeOK'
  BY ZenonT(30) DEF Frames, NoFrame
<1>2. WorkerInv'
  BY DEF WorkerInv, StageInv, Stage, Subscribed, Closed, NoWorkers
<1>3. StageInv'
  BY DEF StageInv, Stage, Subscribed, Closed, Off, NoWorkers, Emptied, WorkerInv
<1>4. OrderInv'
  <2>1. TypeOK /\ OrderInv
    OBVIOUS
  <2>2. /\ m_queue' = m_queue /\ receiver' = receiver /\ count' = count
        /\ brought' = brought /\ dropped' = dropped
    OBVIOUS
  <2>3. in_hand'["video"] = in_hand["video"] \/ in_hand'["video"].number = 0
    BY DEF NoFrame
  <2> HIDE DEF IInv, TypeOK, DecodeFails, LoopGoes, OthersUnchanged
  <2>4. CASE in_hand'["video"] = in_hand["video"]
    BY <2>1, <2>2, <2>4 DEF OrderInv
  <2>5. CASE in_hand'["video"].number = 0
    BY <2>1, <2>2, <2>5, PictureTypes, OrderedDone DEF OrderInv
  <2> QED
    BY <2>3, <2>4, <2>5
<1>5. DropInv'
  BY DEF DropInv, DropsAskForKeyframe, WorkerInv
<1>6. StaleInv'
  BY StaleStays
<1> QED
  BY <1>1, <1>2, <1>3, <1>4, <1>5, <1>6

LEMMA SubscribeInv ==
    ASSUME IInv, Running, Subscribe
    PROVE  IInv'
<1> USE PullAssumption DEF PullAssumption, IInv, TypeOK, Running, Media, Actors,
        Subscribe, Goes, Begin, NewCall, decoderVars, queueVars, workerVars,
        receiverVars, timeVars
<1>1. TypeOK'
  <2>1. (/\ m_subscribed \in BOOLEAN /\ m_running \in BOOLEAN /\ m_tracks \in BOOLEAN
        /\ m_decoder \in BOOLEAN /\ m_needs_keyframe \in BOOLEAN
        /\ m_video_queue_overflow \in BOOLEAN)'
    BY DEF Frames, NoFrame
  <2>2. (/\ m_queue \in [Media -> Seq(Frames)]
        /\ \A n \in Media : Len(m_queue[n]) <= Capacity[n])'
    BY DEF Frames, NoFrame
  <2>3. (/\ m_worker \in [Media -> BOOLEAN]
        /\ loop \in [Media -> {"none", "test", "drowsy", "waiting", "request", "decode",
                               "ended"}])'
    BY DEF Frames, NoFrame
  <2>4. (in_hand \in [Media -> Frames] /\ brought \in [Media -> Frames])'
    BY DEF Frames, NoFrame
  <2>5. (/\ receiver \in [Media -> {"idle", "resolve", "clear", "enqueue"}]
        /\ count \in [Media -> Nat] /\ dropped \subseteq Nat)'
    BY DEF Frames, NoFrame
  <2>6. (/\ m_timebase \in [fallback : SUBSET Media, ready : SUBSET Media,
                            m_rtcp_timebase_active : BOOLEAN]
        /\ epoch \in 0 .. MaxChanges)'
    BY DEF Frames, NoFrame
  <2>7. (/\ at \in [Actors -> {"idle", "video", "audio", "setup", "close", "clear",
                              "notify", "join", "release"}]
        /\ closing_worker \in Media /\ calls \in Nat /\ whep \in Nat
        /\ overlapped \in BOOLEAN /\ crashed \in BOOLEAN)'
    <3>1. /\ closing_worker' \in Media /\ calls' \in Nat /\ whep' \in Nat
          /\ overlapped' \in BOOLEAN /\ crashed' \in BOOLEAN
      OBVIOUS
    <3>2. PICK s \in {"idle", "video", "audio", "setup", "close", "clear", "notify", "join",
                      "release"} : at' = [at EXCEPT !["caller"] = s]
      OBVIOUS
    <3>3. at \in [Actors -> {"idle", "video", "audio", "setup", "close", "clear", "notify",
                             "join", "release"}]
      OBVIOUS
    <3> HIDE DEF IInv, TypeOK, Subscribe, NewCall, Begin, Goes
    <3>4. at' \in [Actors -> {"idle", "video", "audio", "setup", "close", "clear", "notify",
                              "join", "release"}]
      BY <3>2, <3>3
    <3> QED
      BY <3>1, <3>4
  <2> QED
    BY <2>1, <2>2, <2>3, <2>4, <2>5, <2>6, <2>7
<1>2. WorkerInv'
  BY DEF WorkerInv, StageInv, Stage, Subscribed, Closed, NoWorkers
<1>3. StageInv'
  <2>1. ASSUME ~overlapped'
        PROVE  Closed /\ at["signaling"] = "idle" /\ at["caller"] = "idle"
    BY <2>1 DEF StageInv, Subscribed
  <2>2. /\ at'["signaling"] = at["signaling"] /\ m_worker' = m_worker /\ m_queue' = m_queue
        /\ loop' = loop /\ m_subscribed' = m_subscribed /\ m_tracks' = m_tracks
        /\ \/ at'["caller"] = "video" /\ m_decoder' = TRUE /\ m_running' = TRUE
           \/ at'["caller"] = "close" /\ m_running' = m_running
    OBVIOUS
  <2>3. WorkerInv /\ at["signaling"] \notin {"video", "audio", "setup"}
    BY DEF StageInv
  <2> HIDE DEF IInv, TypeOK, Subscribe, NewCall, Begin, Goes
  <2> QED
    BY <2>1, <2>2, <2>3 DEF StageInv, Stage, Closed, Off, NoWorkers, WorkerInv
<1>4. OrderInv'
  BY DEF OrderInv
<1>5. DropInv'
  BY DEF DropInv, DropsAskForKeyframe, WorkerInv
<1>6. StaleInv'
  BY StaleStays
<1> QED
  BY <1>1, <1>2, <1>3, <1>4, <1>5, <1>6

LEMMA StartWorkerInv ==
    ASSUME IInv, Running, NEW m \in Media, StartWorker(m)
    PROVE  IInv'
<1> USE PullAssumption DEF PullAssumption, IInv, TypeOK, Running, Media, Actors,
        StartWorker, Goes, decoderVars, queueVars, receiverVars, timeVars, flagVars
<1>1. TypeOK'
  <2>1. (/\ m_subscribed \in BOOLEAN /\ m_running \in BOOLEAN /\ m_tracks \in BOOLEAN
        /\ m_decoder \in BOOLEAN /\ m_needs_keyframe \in BOOLEAN
        /\ m_video_queue_overflow \in BOOLEAN)'
    BY DEF Frames, NoFrame
  <2>2. (/\ m_queue \in [Media -> Seq(Frames)]
        /\ \A n \in Media : Len(m_queue[n]) <= Capacity[n])'
    BY DEF Frames, NoFrame
  <2>3. (/\ m_worker \in [Media -> BOOLEAN]
        /\ loop \in [Media -> {"none", "test", "drowsy", "waiting", "request", "decode",
                               "ended"}])'
    <3>1. /\ m_worker \in [Media -> BOOLEAN]
          /\ loop \in [Media -> {"none", "test", "drowsy", "waiting", "request", "decode",
                                 "ended"}]
      OBVIOUS
    <3>2. \/ m_worker' = m_worker /\ loop' = loop
          \/ m_worker' = [m_worker EXCEPT ![m] = TRUE] /\ loop' = [loop EXCEPT ![m] = "test"]
      OBVIOUS
    <3> HIDE DEF IInv, TypeOK, StartWorker, Goes
    <3>3. CASE m_worker' = m_worker /\ loop' = loop
      BY <3>1, <3>3
    <3>4. CASE m_worker' = [m_worker EXCEPT ![m] = TRUE] /\ loop' = [loop EXCEPT ![m] = "test"]
      BY <3>1, <3>4
    <3> QED
      BY <3>2, <3>3, <3>4
  <2>4. (in_hand \in [Media -> Frames] /\ brought \in [Media -> Frames])'
    BY DEF Frames, NoFrame
  <2>5. (/\ receiver \in [Media -> {"idle", "resolve", "clear", "enqueue"}]
        /\ count \in [Media -> Nat] /\ dropped \subseteq Nat)'
    BY DEF Frames, NoFrame
  <2>6. (/\ m_timebase \in [fallback : SUBSET Media, ready : SUBSET Media,
                            m_rtcp_timebase_active : BOOLEAN]
        /\ epoch \in 0 .. MaxChanges)'
    BY DEF Frames, NoFrame
  <2>7. (/\ at \in [Actors -> {"idle", "video", "audio", "setup", "close", "clear",
                              "notify", "join", "release"}]
        /\ closing_worker \in Media /\ calls \in Nat /\ whep \in Nat
        /\ overlapped \in BOOLEAN /\ crashed \in BOOLEAN)'
    <3>1. /\ closing_worker' \in Media /\ calls' \in Nat /\ whep' \in Nat
          /\ overlapped' \in BOOLEAN /\ crashed' \in BOOLEAN
      OBVIOUS
    <3>2. PICK s \in {"idle", "video", "audio", "setup", "close", "clear", "notify", "join",
                      "release"} : at' = [at EXCEPT !["caller"] = s]
      OBVIOUS
    <3>3. at \in [Actors -> {"idle", "video", "audio", "setup", "close", "clear", "notify",
                             "join", "release"}]
      OBVIOUS
    <3> HIDE DEF IInv, TypeOK, StartWorker, Goes
    <3>4. at' \in [Actors -> {"idle", "video", "audio", "setup", "close", "clear", "notify",
                              "join", "release"}]
      BY <3>2, <3>3
    <3> QED
      BY <3>1, <3>4
  <2> QED
    BY <2>1, <2>2, <2>3, <2>4, <2>5, <2>6, <2>7
<1>2. WorkerInv'
  BY DEF WorkerInv, StageInv, Stage, Subscribed, Closed, NoWorkers
<1>3. StageInv'
  BY DEF StageInv, Stage, Subscribed, Closed, Off, NoWorkers, Emptied, WorkerInv
<1>4. OrderInv'
  BY DEF OrderInv
<1>5. DropInv'
  BY DEF DropInv, DropsAskForKeyframe, WorkerInv
<1>6. StaleInv'
  BY StaleStays
<1> QED
  BY <1>1, <1>2, <1>3, <1>4, <1>5, <1>6

LEMMA SetupReceiveTracksInv ==
    ASSUME IInv, Running, SetupReceiveTracks
    PROVE  IInv'
<1> USE PullAssumption DEF PullAssumption, IInv, TypeOK, Running, Media, Actors,
        SetupReceiveTracks, Goes, decoderVars, queueVars, workerVars, receiverVars,
        timeVars
<1>1. TypeOK'
  <2>1. (/\ m_subscribed \in BOOLEAN /\ m_running \in BOOLEAN /\ m_tracks \in BOOLEAN
        /\ m_decoder \in BOOLEAN /\ m_needs_keyframe \in BOOLEAN
        /\ m_video_queue_overflow \in BOOLEAN)'
    BY DEF Frames, NoFrame
  <2>2. (/\ m_queue \in [Media -> Seq(Frames)]
        /\ \A n \in Media : Len(m_queue[n]) <= Capacity[n])'
    BY DEF Frames, NoFrame
  <2>3. (/\ m_worker \in [Media -> BOOLEAN]
        /\ loop \in [Media -> {"none", "test", "drowsy", "waiting", "request", "decode",
                               "ended"}])'
    BY DEF Frames, NoFrame
  <2>4. (in_hand \in [Media -> Frames] /\ brought \in [Media -> Frames])'
    BY DEF Frames, NoFrame
  <2>5. (/\ receiver \in [Media -> {"idle", "resolve", "clear", "enqueue"}]
        /\ count \in [Media -> Nat] /\ dropped \subseteq Nat)'
    BY DEF Frames, NoFrame
  <2>6. (/\ m_timebase \in [fallback : SUBSET Media, ready : SUBSET Media,
                            m_rtcp_timebase_active : BOOLEAN]
        /\ epoch \in 0 .. MaxChanges)'
    BY DEF Frames, NoFrame
  <2>7. (/\ at \in [Actors -> {"idle", "video", "audio", "setup", "close", "clear",
                              "notify", "join", "release"}]
        /\ closing_worker \in Media /\ calls \in Nat /\ whep \in Nat
        /\ overlapped \in BOOLEAN /\ crashed \in BOOLEAN)'
    <3>1. /\ closing_worker' \in Media /\ calls' \in Nat /\ whep' \in Nat
          /\ overlapped' \in BOOLEAN /\ crashed' \in BOOLEAN
      OBVIOUS
    <3>2. PICK s \in {"idle", "video", "audio", "setup", "close", "clear", "notify", "join",
                      "release"} : at' = [at EXCEPT !["caller"] = s]
      OBVIOUS
    <3>3. at \in [Actors -> {"idle", "video", "audio", "setup", "close", "clear", "notify",
                             "join", "release"}]
      OBVIOUS
    <3> HIDE DEF IInv, TypeOK, SetupReceiveTracks, Goes
    <3>4. at' \in [Actors -> {"idle", "video", "audio", "setup", "close", "clear", "notify",
                              "join", "release"}]
      BY <3>2, <3>3
    <3> QED
      BY <3>1, <3>4
  <2> QED
    BY <2>1, <2>2, <2>3, <2>4, <2>5, <2>6, <2>7
<1>2. WorkerInv'
  BY DEF WorkerInv, StageInv, Stage, Subscribed, Closed, NoWorkers
<1>3. StageInv'
  BY DEF StageInv, Stage, Subscribed, Closed, Off, NoWorkers, Emptied, WorkerInv
<1>4. OrderInv'
  BY DEF OrderInv
<1>5. DropInv'
  BY DEF DropInv, DropsAskForKeyframe, WorkerInv
<1>6. StaleInv'
  BY StaleStays
<1> QED
  BY <1>1, <1>2, <1>3, <1>4, <1>5, <1>6

LEMMA CloseInv ==
    ASSUME IInv, Running, Close
    PROVE  IInv'
<1> USE PullAssumption DEF PullAssumption, IInv, TypeOK, Running, Media, Actors,
        Close, Goes, Begin, NewCall, decoderVars, queueVars, workerVars, receiverVars,
        timeVars, flagVars
<1>1. TypeOK'
  BY SMTT(20) DEF Frames, NoFrame
<1>2. WorkerInv'
  BY DEF WorkerInv, StageInv, Stage, Subscribed, Closed, NoWorkers
<1>3. StageInv'
  BY DEF StageInv, Stage, Subscribed, Closed, Off, NoWorkers, Emptied, WorkerInv
<1>4. OrderInv'
  BY DEF OrderInv
<1>5. DropInv'
  BY DEF DropInv, DropsAskForKeyframe, WorkerInv
<1>6. StaleInv'
  BY StaleStays
<1> QED
  BY <1>1, <1>2, <1>3, <1>4, <1>5, <1>6

LEMMA WhepFailsInv ==
    ASSUME IInv, Running, WhepFails
    PROVE  IInv'
<1> USE PullAssumption DEF PullAssumption, IInv, TypeOK, Running, Media, Actors,
        WhepFails, Goes, Begin, decoderVars, queueVars, workerVars, receiverVars,
        timeVars, flagVars
<1>1. TypeOK'
  BY SMTT(20) DEF Frames, NoFrame
<1>2. WorkerInv'
  BY DEF WorkerInv, StageInv, Stage, Subscribed, Closed, NoWorkers
<1>3. StageInv'
  BY ZenonT(30) DEF StageInv, Stage, Subscribed, Closed, Off, NoWorkers, Emptied,
     WorkerInv
<1>4. OrderInv'
  BY DEF OrderInv
<1>5. DropInv'
  BY DEF DropInv, DropsAskForKeyframe, WorkerInv
<1>6. StaleInv'
  BY StaleStays
<1> QED
  BY <1>1, <1>2, <1>3, <1>4, <1>5, <1>6

LEMMA CloseTracksInv ==
    ASSUME IInv, Running, NEW a \in Actors, CloseTracks(a)
    PROVE  IInv'
<1> USE PullAssumption DEF PullAssumption, IInv, TypeOK, Running, Media, Actors,
        CloseTracks, Goes, decoderVars, queueVars, workerVars, receiverVars, timeVars
<1>1. TypeOK'
  BY DEF Frames, NoFrame
<1>2. WorkerInv'
  BY DEF WorkerInv, StageInv, Stage, Subscribed, Closed, NoWorkers
<1>3. StageInv'
  BY DEF StageInv, Stage, Subscribed, Closed, Off, NoWorkers, Emptied, WorkerInv
<1>4. OrderInv'
  BY DEF OrderInv
<1>5. DropInv'
  BY DEF DropInv, DropsAskForKeyframe, WorkerInv
<1>6. StaleInv'
  BY StaleStays
<1> QED
  BY <1>1, <1>2, <1>3, <1>4, <1>5, <1>6

LEMMA ClearQueuesInv ==
    ASSUME IInv, Running, NEW a \in Actors, ClearQueues(a)
    PROVE  IInv'
<1> USE PullAssumption DEF PullAssumption, IInv, TypeOK, Running, Media, Actors,
        ClearQueues, QueueFree, Goes, decoderVars, workerVars, receiverVars, timeVars,
        flagVars
<1>1. TypeOK'
  <2>1. (/\ m_subscribed \in BOOLEAN /\ m_running \in BOOLEAN /\ m_tracks \in BOOLEAN
        /\ m_decoder \in BOOLEAN /\ m_needs_keyframe \in BOOLEAN
        /\ m_video_queue_overflow \in BOOLEAN)'
    BY DEF Frames, NoFrame
  <2>2. (/\ m_queue \in [Media -> Seq(Frames)]
        /\ \A n \in Media : Len(m_queue[n]) <= Capacity[n])'
    BY DEF Frames, NoFrame
  <2>3. (/\ m_worker \in [Media -> BOOLEAN]
        /\ loop \in [Media -> {"none", "test", "drowsy", "waiting", "request", "decode",
                               "ended"}])'
    BY DEF Frames, NoFrame
  <2>4. (in_hand \in [Media -> Frames] /\ brought \in [Media -> Frames])'
    BY DEF Frames, NoFrame
  <2>5. (/\ receiver \in [Media -> {"idle", "resolve", "clear", "enqueue"}]
        /\ count \in [Media -> Nat] /\ dropped \subseteq Nat)'
    BY DEF Frames, NoFrame
  <2>6. (/\ m_timebase \in [fallback : SUBSET Media, ready : SUBSET Media,
                            m_rtcp_timebase_active : BOOLEAN]
        /\ epoch \in 0 .. MaxChanges)'
    BY DEF Frames, NoFrame
  <2>7. (/\ at \in [Actors -> {"idle", "video", "audio", "setup", "close", "clear",
                              "notify", "join", "release"}]
        /\ closing_worker \in Media /\ calls \in Nat /\ whep \in Nat
        /\ overlapped \in BOOLEAN /\ crashed \in BOOLEAN)'
    BY DEF Frames, NoFrame
  <2> QED
    BY <2>1, <2>2, <2>3, <2>4, <2>5, <2>6, <2>7
<1>2. WorkerInv'
  BY DEF WorkerInv, StageInv, Stage, Subscribed, Closed, NoWorkers
<1>3. StageInv'
  BY DEF StageInv, Stage, Subscribed, Closed, Off, NoWorkers, Emptied, WorkerInv
<1>4. OrderInv'
  <2>1. m_queue'["video"] = << >> /\ dropped' = {}
    OBVIOUS
  <2> QED
    BY <2>1 DEF OrderInv, Ordered, Newer
<1>5. DropInv'
  BY DEF DropInv, DropsAskForKeyframe, WorkerInv
<1>6. StaleInv'
  BY DEF StaleInv, Stale
<1> QED
  BY <1>1, <1>2, <1>3, <1>4, <1>5, <1>6

LEMMA NotifyWorkersInv ==
    ASSUME IInv, Running, NEW a \in Actors, NotifyWorkers(a)
    PROVE  IInv'
<1> USE PullAssumption DEF PullAssumption, IInv, TypeOK, Running, Media, Actors,
        NotifyWorkers, Woken, Goes, decoderVars, queueVars, receiverVars, timeVars,
        flagVars
<1>1. TypeOK'
  BY DEF Frames, NoFrame
<1>2. WorkerInv'
  BY DEF WorkerInv, StageInv, Stage, Subscribed, Closed, NoWorkers
<1>3. StageInv'
  BY DEF StageInv, Stage, Subscribed, Closed, Off, NoWorkers, Emptied, WorkerInv
<1>4. OrderInv'
  BY DEF OrderInv
<1>5. DropInv'
  BY DEF DropInv, DropsAskForKeyframe, WorkerInv
<1>6. StaleInv'
  BY StaleStays
<1> QED
  BY <1>1, <1>2, <1>3, <1>4, <1>5, <1>6

LEMMA JoinWorkerInv ==
    ASSUME IInv, Running, NEW a \in Actors, JoinWorker(a)
    PROVE  IInv'
<1> USE PullAssumption DEF PullAssumption, IInv, TypeOK, Running, Media, Actors,
        JoinWorker, Joined, decoderVars, queueVars, receiverVars, timeVars, flagVars
<1>1. TypeOK'
  BY SMTT(20) DEF Frames, NoFrame
<1>2. WorkerInv'
  BY DEF WorkerInv, StageInv, Stage, Subscribed, Closed, NoWorkers
<1>3. StageInv'
  BY DEF StageInv, Stage, Subscribed, Closed, Off, NoWorkers, Emptied, WorkerInv
<1>4. OrderInv'
  BY DEF OrderInv
<1>5. DropInv'
  BY DEF DropInv, DropsAskForKeyframe, WorkerInv
<1>6. StaleInv'
  BY StaleStays
<1> QED
  BY <1>1, <1>2, <1>3, <1>4, <1>5, <1>6

LEMMA ReleaseInv ==
    ASSUME IInv, Running, NEW a \in Actors, Release(a)
    PROVE  IInv'
<1> USE PullAssumption DEF PullAssumption, IInv, TypeOK, Running, Media, Actors,
        Release, Goes, queueVars, workerVars, receiverVars, flagVars
<1>1. TypeOK'
  <2>1. (/\ m_subscribed \in BOOLEAN /\ m_running \in BOOLEAN /\ m_tracks \in BOOLEAN
        /\ m_decoder \in BOOLEAN /\ m_needs_keyframe \in BOOLEAN
        /\ m_video_queue_overflow \in BOOLEAN)'
    BY DEF Frames, NoFrame
  <2>2. (/\ m_queue \in [Media -> Seq(Frames)]
        /\ \A n \in Media : Len(m_queue[n]) <= Capacity[n])'
    BY DEF Frames, NoFrame
  <2>3. (/\ m_worker \in [Media -> BOOLEAN]
        /\ loop \in [Media -> {"none", "test", "drowsy", "waiting", "request", "decode",
                               "ended"}])'
    BY DEF Frames, NoFrame
  <2>4. (in_hand \in [Media -> Frames] /\ brought \in [Media -> Frames])'
    BY DEF Frames, NoFrame
  <2>5. (/\ receiver \in [Media -> {"idle", "resolve", "clear", "enqueue"}]
        /\ count \in [Media -> Nat] /\ dropped \subseteq Nat)'
    BY DEF Frames, NoFrame
  <2>6. (/\ m_timebase \in [fallback : SUBSET Media, ready : SUBSET Media,
                            m_rtcp_timebase_active : BOOLEAN]
        /\ epoch \in 0 .. MaxChanges)'
    <3>1. m_timebase' = NoTimebase /\ epoch' = epoch /\ epoch \in 0 .. MaxChanges
      OBVIOUS
    <3> HIDE DEF IInv, TypeOK, Release, Goes
    <3> QED
      BY <3>1 DEF NoTimebase
  <2>7. (/\ at \in [Actors -> {"idle", "video", "audio", "setup", "close", "clear",
                              "notify", "join", "release"}]
        /\ closing_worker \in Media /\ calls \in Nat /\ whep \in Nat
        /\ overlapped \in BOOLEAN /\ crashed \in BOOLEAN)'
    BY DEF Frames, NoFrame
  <2> QED
    BY <2>1, <2>2, <2>3, <2>4, <2>5, <2>6, <2>7
<1>2. WorkerInv'
  BY DEF WorkerInv, StageInv, Stage, Subscribed, Closed, NoWorkers
<1>3. StageInv'
  BY DEF StageInv, Stage, Subscribed, Closed, Off, NoWorkers, Emptied, WorkerInv
<1>4. OrderInv'
  BY DEF OrderInv
<1>5. DropInv'
  BY DEF DropInv, DropsAskForKeyframe, WorkerInv
<1>6. StaleInv'
  BY StaleStays
<1> QED
  BY <1>1, <1>2, <1>3, <1>4, <1>5, <1>6

-----------------------------------------------------------------------------
(* The inductive invariant and the theorems.                                 *)

LEMMA Initially == Init => IInv
<1> SUFFICES ASSUME Init PROVE IInv
  OBVIOUS
<1> USE PullAssumption DEF Init, PullAssumption, Media, Actors
<1>1. TypeOK
  <2>1. NoFrame \in Frames /\ NoTimebase \in [fallback : SUBSET Media, ready : SUBSET Media,
                                              m_rtcp_timebase_active : BOOLEAN]
    BY DEF NoFrame, Frames, NoTimebase
  <2>2. m_queue \in [Media -> Seq(Frames)] /\ \A m \in Media : Len(m_queue[m]) <= Capacity[m]
    OBVIOUS
  <2>3. in_hand \in [Media -> Frames] /\ brought \in [Media -> Frames]
    BY <2>1
  <2>4. /\ m_timebase \in [fallback : SUBSET Media, ready : SUBSET Media,
                           m_rtcp_timebase_active : BOOLEAN]
        /\ epoch \in 0 .. MaxChanges
    BY <2>1
  <2>5. /\ m_worker \in [Media -> BOOLEAN] /\ count \in [Media -> Nat]
        /\ receiver \in [Media -> {"idle", "resolve", "clear", "enqueue"}]
        /\ loop \in [Media -> {"none", "test", "drowsy", "waiting", "request", "decode",
                               "ended"}]
    OBVIOUS
  <2>6. at \in [Actors -> {"idle", "video", "audio", "setup", "close", "clear", "notify",
                           "join", "release"}]
    OBVIOUS
  <2>7. /\ m_subscribed \in BOOLEAN /\ m_running \in BOOLEAN /\ m_tracks \in BOOLEAN
        /\ m_decoder \in BOOLEAN /\ m_needs_keyframe \in BOOLEAN
        /\ m_video_queue_overflow \in BOOLEAN /\ dropped \subseteq Nat
        /\ closing_worker \in Media /\ calls \in Nat /\ whep \in Nat
        /\ overlapped \in BOOLEAN /\ crashed \in BOOLEAN
    OBVIOUS
  <2> HIDE DEF Init, Media, Actors, PullAssumption
  <2> QED
    BY <2>2, <2>3, <2>4, <2>5, <2>6, <2>7 DEF TypeOK
<1>2. WorkerInv
  BY DEF WorkerInv
<1>3. StageInv
  BY DEF StageInv, Closed, Off, NoWorkers, Emptied
<1>4. OrderInv
  BY DEF OrderInv, Ordered, NoFrame
<1>5. DropInv
  BY DEF DropInv, DropsAskForKeyframe
<1>6. StaleInv
  BY DEF StaleInv, Stale
<1> QED
  BY <1>1, <1>2, <1>3, <1>4, <1>5, <1>6 DEF IInv

LEMMA Steps == IInv /\ Next => IInv'
<1> SUFFICES ASSUME IInv, Next PROVE IInv'
  OBVIOUS
<1>1. Running
  BY DEF Next
<1>2. CASE Subscribe
  BY <1>1, <1>2, SubscribeInv
<1>3. CASE Close
  BY <1>1, <1>3, CloseInv
<1>4. ASSUME NEW a \in Actors, Continue(a) PROVE IInv'
  BY <1>1, <1>4, CloseTracksInv, ClearQueuesInv, NotifyWorkersInv, JoinWorkerInv,
     ReleaseInv
     DEF Continue
<1>5. CASE CallerContinues
  <2>1. ASSUME NEW m \in Media, StartWorker(m) PROVE IInv'
    BY <1>1, <2>1, StartWorkerInv
  <2>2. CASE SetupReceiveTracks
    BY <1>1, <2>2, SetupReceiveTracksInv
  <2> QED
    BY <1>4, <1>5, <2>1, <2>2 DEF CallerContinues, Actors
<1>6. CASE WhepFails
  BY <1>1, <1>6, WhepFailsInv
<1>7. ASSUME NEW m \in Media, OnFrame(m) PROVE IInv'
  BY <1>1, <1>7, OnFrameInv
<1>8. ASSUME NEW m \in Media, Receive(m) PROVE IInv'
  BY <1>1, <1>8, ResolveMediaTimestampInv, ClearPendingFramesInv, EnqueueFrameInv DEF
     Receive
<1>9. ASSUME NEW m \in Media, Loop(m) PROVE IInv'
  BY <1>1, <1>9, NothingToDoInv, FallAsleepInv, LeaveLoopInv, TakeFrameInv,
     RequestForOverflowInv, DecodesInv, DecodeFailsInv DEF Loop
<1> QED
  BY <1>2, <1>3, <1>4, <1>5, <1>6, <1>7, <1>8, <1>9 DEF Next, Actors

LEMMA Stutters == IInv /\ UNCHANGED vars => IInv'
BY SMTT(20) DEF IInv, TypeOK, WorkerInv, StageInv, Stage, Subscribed, Closed, Off,
   NoWorkers,
   Emptied,
       OrderInv, DropInv, DropsAskForKeyframe, StaleInv, Stale, vars, flagVars, decoderVars,
       queueVars, workerVars, receiverVars, timeVars, callVars

\* The inductive invariant holds in every reachable state.
THEOREM InductiveInvariant == Spec => []IInv
<1>1. IInv /\ [Next]_vars => IInv'
  BY Steps, Stutters
<1> QED
  BY Initially, <1>1, PTL DEF Spec

\* The invariant of the receiving side, with queues of any size: the types, tracks and
\* workers for a subscription only, a decoder for every worker that decodes, no thread
\* object overwritten, and never more than one frame waiting with an old time.
THEOREM PullCorrect == Spec => []PullInvariant
<1>1. IInv => PullInvariant
  <2> SUFFICES ASSUME IInv PROVE PullInvariant
    OBVIOUS
  <2>1. SubscribedOrClosed
    BY DEF IInv, StageInv, WorkerInv, Subscribed, Closed, Off, NoWorkers, Emptied,
       Resting,
           SubscribedOrClosed
  <2>2. WorkerKeepsDecoder
    BY DEF IInv, WorkerInv, WorkerKeepsDecoder
  <2>3. FewStaleFrames
    BY DEF IInv, StaleInv, FewStaleFrames, Media
  <2> QED
    BY <2>1, <2>2, <2>3 DEF IInv, PullInvariant
<1> QED
  BY InductiveInvariant, <1>1, PTL

\* A key frame is asked for before a picture is decoded that came after a lost one, by
\* whichever way the queue lost it.
THEOREM KeyframeIsAskedFor == Spec => []DropsAskForKeyframe
<1>1. IInv => DropsAskForKeyframe
  BY DEF IInv, DropInv
<1> QED
  BY InductiveInvariant, <1>1, PTL

-----------------------------------------------------------------------------
(* Arithmetic.                                                              *)

\* The quotient of integer division, by the two inequalities that define it.
LEMMA Quotient ==
    ASSUME NEW a \in Nat, NEW b \in Nat \ {0}
    PROVE  /\ a \div b \in Nat
           /\ b * (a \div b) <= a
           /\ a < b * (a \div b) + b
BY SMT

LEMMA Remainder ==
    ASSUME NEW a \in Nat, NEW b \in Nat \ {0}
    PROVE  /\ a % b \in 0 .. b - 1
           /\ a < b => a % b = a
BY SMT

LEMMA ProductsOrdered ==
    ASSUME NEW a \in Int, NEW b \in Int, NEW c \in Nat, a <= b
    PROVE  a * c <= b * c
BY SMT

LEMMA QuotientsOrdered ==
    ASSUME NEW a \in Nat, NEW c \in Nat, NEW b \in Nat \ {0}, a <= c
    PROVE  a \div b <= c \div b
BY Quotient, SMT

LEMMA QuotientOfSum ==
    ASSUME NEW a \in Nat, NEW c \in Nat, NEW b \in Nat \ {0}
    PROVE  /\ (a \div b) + (c \div b) <= (a + c) \div b
           /\ (a + c) \div b <= (a \div b) + (c \div b) + 1
BY Quotient, SMT

LEMMA Microsecond ==
    ASSUME NEW delta \in Int, NEW rate \in Nat \ {0}
    PROVE  RtpDeltaToMicroseconds(delta, rate) \in Int
<1> USE MapperAssumption DEF MapperAssumption
<1>1. CASE delta >= 0
  <2>1. delta * Microseconds \in Nat
    BY <1>1
  <2> QED
    BY <1>1, <2>1, Quotient DEF RtpDeltaToMicroseconds
<1>2. CASE ~(delta >= 0)
  <2>1. (-delta) * Microseconds \in Nat
    BY <1>2
  <2> QED
    BY <1>2, <2>1, Quotient DEF RtpDeltaToMicroseconds
<1> QED
    BY <1>1, <1>2

LEMMA MicrosecondsOrdered ==
    ASSUME NEW d \in Int, NEW e \in Int, NEW rate \in Nat \ {0}, d <= e
    PROVE  RtpDeltaToMicroseconds(d, rate) <= RtpDeltaToMicroseconds(e, rate)
<1> USE MapperAssumption DEF MapperAssumption
<1>1. CASE d >= 0
  <2>1. /\ d * Microseconds \in Nat /\ e * Microseconds \in Nat
        /\ d * Microseconds <= e * Microseconds
    BY <1>1, ProductsOrdered
  <2> QED
    BY <1>1, <2>1, QuotientsOrdered DEF RtpDeltaToMicroseconds
<1>2. CASE d < 0 /\ e >= 0
  <2>1. e * Microseconds \in Nat /\ (-d) * Microseconds \in Nat
    BY <1>2
  <2> QED
    BY <1>2, <2>1, Quotient DEF RtpDeltaToMicroseconds
<1>3. CASE e < 0
  <2>1. /\ (-d) * Microseconds \in Nat /\ (-e) * Microseconds \in Nat
        /\ (-e) * Microseconds <= (-d) * Microseconds
    <3>1. -e <= -d /\ -e \in Nat /\ -d \in Nat
      BY <1>3
    <3> QED
      BY <3>1, ProductsOrdered
  <2>2. ((-e) * Microseconds) \div rate <= ((-d) * Microseconds) \div rate
    BY <2>1, QuotientsOrdered
  <2>3. /\ ((-e) * Microseconds) \div rate \in Nat
        /\ ((-d) * Microseconds) \div rate \in Nat
    BY <2>1, Quotient
  <2> QED
    BY <1>3, <2>2, <2>3 DEF RtpDeltaToMicroseconds
<1> QED
    BY <1>1, <1>2, <1>3

\* Rounding loses at most a microsecond, whatever the signs.
LEMMA MicrosecondsOfSum ==
    ASSUME NEW d \in Int, NEW e \in Int, NEW rate \in Nat \ {0}
    PROVE  LET rounded == RtpDeltaToMicroseconds(d, rate) + RtpDeltaToMicroseconds(e, rate)
           IN  /\ RtpDeltaToMicroseconds(d + e, rate) <= rounded + 1
               /\ rounded <= RtpDeltaToMicroseconds(d + e, rate) + 1
<1> DEFINE S == Microseconds
<1>0. S \in Nat \ {0}
  BY MapperAssumption DEF MapperAssumption
<1>1. \A m, n \in Nat : /\ m * S \in Nat /\ n * S \in Nat
                       /\ (m + n) * S = m * S + n * S
  BY <1>0
<1> HIDE DEF S
<1>2. \A m, n \in Nat :
        /\ (m * S) \div rate \in Nat /\ ((m + n) * S) \div rate \in Nat
        /\ (m * S) \div rate + (n * S) \div rate <= ((m + n) * S) \div rate
        /\ ((m + n) * S) \div rate <= (m * S) \div rate + (n * S) \div rate + 1
  <2> TAKE m, n \in Nat
  <2>1. m * S \in Nat /\ n * S \in Nat /\ (m + n) * S = m * S + n * S
    BY <1>1
  <2>2. m * S + n * S \in Nat
    BY <2>1
  <2> QED
    BY <2>1, <2>2, Quotient, QuotientOfSum
<1>3. \A n \in Nat : RtpDeltaToMicroseconds(n, rate) = (n * S) \div rate
  BY DEF RtpDeltaToMicroseconds, S
<1>4. \A n \in Nat : RtpDeltaToMicroseconds(-n, rate) = -((n * S) \div rate)
  <2> TAKE n \in Nat
  <2>1. CASE n = 0
    <3>1. 0 * S = 0 /\ (0 \div rate) = 0
      BY <1>0, Quotient
    <3> QED
      BY <2>1, <3>1 DEF RtpDeltaToMicroseconds, S
  <2>2. CASE n # 0
    <3>1. ~(-n >= 0) /\ -(-n) = n
      BY <2>2
    <3> QED
      BY <3>1 DEF RtpDeltaToMicroseconds, S
  <2> QED
    BY <2>1, <2>2
<1> DEFINE Us(x) == RtpDeltaToMicroseconds(x, rate)
           Q(n) == (n * S) \div rate
<1>5. \A m, n \in Nat : /\ Q(m) \in Nat /\ Q(m + n) \in Nat
                       /\ Q(m) + Q(n) <= Q(m + n) /\ Q(m + n) <= Q(m) + Q(n) + 1
  BY <1>2
<1>6. \A n \in Nat : Us(n) = Q(n) /\ Us(-n) = -Q(n)
  BY <1>3, <1>4
<1> SUFFICES Us(d + e) <= Us(d) + Us(e) + 1 /\ Us(d) + Us(e) <= Us(d + e) + 1
  OBVIOUS
<1> HIDE DEF Us, Q
<1>7. CASE d >= 0 /\ e >= 0
  <2>1. d \in Nat /\ e \in Nat /\ d + e \in Nat
    BY <1>7
  <2>2. Us(d) = Q(d) /\ Us(e) = Q(e) /\ Us(d + e) = Q(d + e)
    BY <1>6, <2>1
  <2> QED
    BY <1>5, <2>1, <2>2
<1>8. CASE d < 0 /\ e < 0
  <2>1. -d \in Nat /\ -e \in Nat /\ d = -(-d) /\ e = -(-e) /\ d + e = -((-d) + (-e))
    BY <1>8
  <2>2. (-d) + (-e) \in Nat
    BY <2>1
  <2>3. Us(d) = -Q(-d) /\ Us(e) = -Q(-e) /\ Us(d + e) = -Q((-d) + (-e))
    BY <1>6, <2>1, <2>2
  <2>4. /\ Q(-d) \in Nat /\ Q(-e) \in Nat /\ Q((-d) + (-e)) \in Nat
        /\ Q(-d) + Q(-e) <= Q((-d) + (-e)) /\ Q((-d) + (-e)) <= Q(-d) + Q(-e) + 1
    BY <1>5, <2>1
  <2> QED
    BY <2>3, <2>4
<1>9. ASSUME NEW p \in Int, NEW n \in Int, p >= 0, n < 0
      PROVE  /\ Us(p + n) <= Us(p) + Us(n) + 1
             /\ Us(p) + Us(n) <= Us(p + n) + 1
  <2>1. -n \in Nat /\ p \in Nat
    BY <1>9
  <2>2. Us(n) = -Q(-n) /\ Us(p) = Q(p)
    <3>1. n = -(-n)
      BY <1>9
    <3> QED
      BY <1>6, <2>1, <3>1
  <2>3. CASE p + n >= 0
    <3>1. p + n \in Nat /\ (p + n) + (-n) = p
      BY <1>9, <2>3
    <3>2. Q(p + n) + Q(-n) <= Q(p) /\ Q(p) <= Q(p + n) + Q(-n) + 1
      BY <1>5, <2>1, <3>1
    <3>3. Us(p + n) = Q(p + n)
      BY <1>6, <3>1
    <3>4. Q(p) \in Nat /\ Q(p + n) \in Nat /\ Q(-n) \in Nat
      BY <1>5, <2>1, <3>1
    <3> QED
      BY <2>2, <3>2, <3>3, <3>4
  <2>4. CASE p + n < 0
    <3>1. -(p + n) \in Nat /\ -(p + n) + p = -n /\ p + n = -(-(p + n))
      BY <1>9, <2>4
    <3>2. Q(-(p + n)) + Q(p) <= Q(-n) /\ Q(-n) <= Q(-(p + n)) + Q(p) + 1
      BY <1>5, <2>1, <3>1
    <3>3. Us(p + n) = -Q(-(p + n))
      BY <1>6, <3>1
    <3>4. Q(p) \in Nat /\ Q(-(p + n)) \in Nat /\ Q(-n) \in Nat
      BY <1>5, <2>1, <3>1
    <3> QED
      BY <2>2, <3>2, <3>3, <3>4
  <2> QED
    BY <1>9, <2>3, <2>4
<1>10. CASE d >= 0 /\ e < 0
  BY <1>9, <1>10
<1>11. CASE d < 0 /\ e >= 0
  <2>1. d + e = e + d
    OBVIOUS
  <2>2. Us(e) \in Int /\ Us(d) \in Int /\ Us(e + d) \in Int
    BY Microsecond DEF Us
  <2>3. /\ Us(e + d) <= Us(e) + Us(d) + 1
        /\ Us(e) + Us(d) <= Us(e + d) + 1
    BY <1>9, <1>11
  <2> QED
    BY <2>1, <2>2, <2>3
<1> QED
  BY <1>7, <1>8, <1>10, <1>11

-----------------------------------------------------------------------------
(* One medium's clock.                                                      *)

LEMMA DeltaType ==
    ASSUME NEW c \in RtpTimestamps, NEW b \in RtpTimestamps
    PROVE  /\ CalculateRtpDelta(c, b) \in -HalfWrap .. HalfWrap - 1
           /\ CalculateRtpDelta(b, b) = 0
BY MapperAssumption DEF MapperAssumption, RtpTimestamps, CalculateRtpDelta

\* A timestamp that is n ticks away, forwards or back, is found n ticks away
\* though the 32 bits have overflowed in between: frames around the overflow
\* keep their distance to the report.
THEOREM DeltaSurvivesWrap ==
    ASSUME NEW b \in RtpTimestamps, NEW n \in -HalfWrap .. HalfWrap - 1
    PROVE  CalculateRtpDelta((b + n) % (2 * HalfWrap), b) = n
<1> DEFINE W == 2 * HalfWrap
<1>0. W \in Nat \ {0} /\ HalfWrap \in Nat \ {0} /\ W = HalfWrap + HalfWrap
  BY MapperAssumption DEF MapperAssumption
<1>1. b \in 0 .. W - 1
  BY DEF RtpTimestamps
<1>2. (b + n) % W = IF b + n < 0 THEN b + n + W
                    ELSE IF b + n >= W THEN b + n - W ELSE b + n
  <2> HIDE DEF W
  <2>1. CASE b + n < 0
    BY <1>0, <1>1, <2>1
  <2>2. CASE b + n >= W
    BY <1>0, <1>1, <2>2
  <2>3. CASE b + n \in 0 .. W - 1
    BY <1>0, <1>1, <2>3
  <2> QED
    BY <1>0, <1>1, <2>1, <2>2, <2>3
<1> QED
  BY <1>0, <1>1, <1>2 DEF CalculateRtpDelta

LEMMA MappedTime ==
    ASSUME NEW m \in Mapper, NEW rate \in Nat \ {0}, NEW rtp \in RtpTimestamps
    PROVE  MapToNtpTimeUs(m, rate, rtp) \in Int
<1>1. /\ m.m_sr_ntp_time_us \in Int
      /\ CalculateRtpDelta(rtp, m.m_sr_rtp_timestamp) \in Int
  BY DeltaType, MapperAssumption DEF Mapper, MapperAssumption
<1> QED
  BY <1>1, Microsecond DEF MapToNtpTimeUs

LEMMA NtpTime64 ==
    ASSUME NEW ntp \in Nat
    PROVE  NtpTimestampToMicroseconds(ntp) \in Nat
<1> USE MapperAssumption DEF MapperAssumption
<1>1. ntp \div NtpFraction \in Nat /\ ntp % NtpFraction \in Nat
  BY Quotient, Remainder
<1>2. (ntp % NtpFraction) * Microseconds \in Nat
  BY <1>1
<1>3. ((ntp % NtpFraction) * Microseconds) \div NtpFraction \in Nat
  BY <1>2, Quotient
<1> QED
  BY <1>1, <1>3 DEF NtpTimestampToMicroseconds

LEMMA MapperType ==
    ASSUME NEW m \in Mapper, NEW rate \in Nat \ {0}, NEW report \in Report
    PROVE  /\ Reset \in Mapper
           /\ UpdateSenderReport(m, rate, report) \in Mapper
           /\ m.m_ready => UpdateSenderReport(m, rate, report).m_ready
<1>1. Reset \in Mapper
  BY MapperAssumption DEF MapperAssumption, Reset, Mapper, RtpTimestamps
<1>2. CASE UpdateResult(m, rate, report) = "kAccepted"
  <2>1. report.rtp \in RtpTimestamps /\ report.ntp \in Nat
    BY <1>2 DEF UpdateResult, Report
  <2>2. NtpTimestampToMicroseconds(report.ntp) \in Int
    BY <2>1, NtpTime64
  <2> QED
    BY <1>1, <1>2, <2>1, <2>2 DEF UpdateSenderReport, Anchored, Mapper
<1>3. CASE UpdateResult(m, rate, report) # "kAccepted"
  BY <1>1, <1>3 DEF UpdateSenderReport
<1> QED
  BY <1>2, <1>3

\* A medium's times never run backwards: of two timestamps that a report's
\* anchor sees in order, the later one has no earlier time.
THEOREM OrderKept ==
    ASSUME NEW m \in Mapper, NEW rate \in Nat \ {0},
           NEW r \in RtpTimestamps, NEW s \in RtpTimestamps,
           CalculateRtpDelta(r, m.m_sr_rtp_timestamp)
               <= CalculateRtpDelta(s, m.m_sr_rtp_timestamp)
    PROVE  MapToNtpTimeUs(m, rate, r) <= MapToNtpTimeUs(m, rate, s)
<1>1. /\ m.m_sr_ntp_time_us \in Int
      /\ CalculateRtpDelta(r, m.m_sr_rtp_timestamp) \in Int
      /\ CalculateRtpDelta(s, m.m_sr_rtp_timestamp) \in Int
  BY DeltaType, MapperAssumption DEF Mapper, MapperAssumption
<1> QED
  BY <1>1, Microsecond, MicrosecondsOrdered DEF MapToNtpTimeUs

\* A report that is accepted moves the time of every frame by the deviation
\* that is allowed and one microsecond of rounding at most, however far the
\* frame is from the report: the new anchor never tears the timeline.
THEOREM AcceptedReportMovesLittle ==
    ASSUME NEW m \in Mapper, m.m_ready,
           NEW rate \in Nat \ {0}, NEW report \in Report,
           NEW rtp \in RtpTimestamps,
           UpdateResult(m, rate, report) = "kAccepted",
           CalculateRtpDelta(rtp, m.m_sr_rtp_timestamp) =
               CalculateRtpDelta(report.rtp, m.m_sr_rtp_timestamp)
                   + CalculateRtpDelta(rtp, report.rtp)
    PROVE  Distance(MapToNtpTimeUs(UpdateSenderReport(m, rate, report), rate, rtp),
                    MapToNtpTimeUs(m, rate, rtp)) <= MaxDeviation + 1
<1> DEFINE d == CalculateRtpDelta(report.rtp, m.m_sr_rtp_timestamp)
           e == CalculateRtpDelta(rtp, report.rtp)
           new == NtpTimestampToMicroseconds(report.ntp)
           old == m.m_sr_ntp_time_us
           Us(x) == RtpDeltaToMicroseconds(x, rate)
<1>1. /\ report.rtp \in RtpTimestamps /\ report.ntp \in Nat
      /\ Distance(new, MapToNtpTimeUs(m, rate, report.rtp)) <= MaxDeviation
  <2>1. /\ report.rtp \in RtpTimestamps /\ report.ntp \in Nat
        /\ ~(Distance(new, MapToNtpTimeUs(m, rate, report.rtp)) > MaxDeviation)
    BY DEF UpdateResult, Report
  <2>2. /\ MapToNtpTimeUs(m, rate, report.rtp) \in Int /\ new \in Int
        /\ MaxDeviation \in Int
    BY <2>1, MappedTime, NtpTime64, MapperAssumption DEF MapperAssumption
  <2>3. Distance(new, MapToNtpTimeUs(m, rate, report.rtp)) \in Int
    BY <2>2 DEF Distance
  <2> QED
    BY <2>1, <2>2, <2>3
<1>2. MapToNtpTimeUs(UpdateSenderReport(m, rate, report), rate, rtp) = new + Us(e)
  BY DEF UpdateSenderReport, MapToNtpTimeUs, Anchored
<1>3. /\ MapToNtpTimeUs(m, rate, rtp) = old + Us(d + e)
      /\ MapToNtpTimeUs(m, rate, report.rtp) = old + Us(d)
  BY DEF MapToNtpTimeUs
<1>4. d \in Int /\ e \in Int
  BY <1>1, DeltaType, MapperAssumption DEF Mapper, MapperAssumption
<1>5. /\ Us(d) \in Int /\ Us(e) \in Int /\ Us(d + e) \in Int
      /\ Us(d + e) <= Us(d) + Us(e) + 1 /\ Us(d) + Us(e) <= Us(d + e) + 1
  <2>1. d + e \in Int
    BY <1>4
  <2>2. Us(d) \in Int /\ Us(e) \in Int /\ Us(d + e) \in Int
    BY <1>4, <2>1, Microsecond
  <2> QED
    BY <1>4, <2>2, MicrosecondsOfSum
<1>6. new \in Int /\ old \in Int /\ MaxDeviation \in Int
  BY <1>1, NtpTime64, MapperAssumption DEF Mapper, MapperAssumption
<1> HIDE DEF d, e, new, old, Us
<1>7. Distance(new, old + Us(d)) <= MaxDeviation
  BY <1>1, <1>3
<1>8. Distance(new + Us(e), old + Us(d + e)) <= MaxDeviation + 1
  BY <1>5, <1>6, <1>7 DEF Distance
<1> QED
  BY <1>2, <1>3, <1>8

-----------------------------------------------------------------------------
(* Both media.                                                              *)

LEMMA FallbackTime ==
    ASSUME NEW base \in Timebases, NEW k \in Kinds, NEW rtp \in RtpTimestamps
    PROVE  MapFallbackTimestampLocked(base, k, rtp) \in Int
<1>1. /\ base.fallback[k].us \in Int
      /\ CalculateRtpDelta(rtp, base.fallback[k].rtp) \in Int
  BY DeltaType, MapperAssumption DEF Timebases, Bases, MapperAssumption
<1>2. ClockRate[k] \in Nat \ {0}
  BY TimebaseAssumption DEF TimebaseAssumption
<1> QED
  BY <1>1, <1>2, Microsecond DEF MapFallbackTimestampLocked

LEMMA SenderTime ==
    ASSUME NEW base \in Timebases, NEW k \in Kinds, NEW rtp \in RtpTimestamps
    PROVE  NtpTime(base, k, rtp) \in Int
BY MappedTime, TimebaseAssumption DEF TimebaseAssumption, NtpTime, Timebases

LEMMA PointType ==
    ASSUME NEW report \in Report
    PROVE  Point(report) \in RtpTimestamps
<1>1. 2 * HalfWrap \in Nat \ {0} /\ report.rtp \in Nat
  BY MapperAssumption DEF MapperAssumption, Report
<1>2. report.rtp % (2 * HalfWrap) \in 0 .. (2 * HalfWrap) - 1
  BY <1>1, Remainder
<1> QED
  BY <1>2 DEF Point, RtpTimestamps

LEMMA FollowedType ==
    ASSUME NEW base \in Timebases, NEW sync \in [Kinds -> Report], NEW k \in Kinds
    PROVE  /\ Followed(base, sync, k) \in Mapper
           /\ base.mapper[k].m_ready /\ ~Jumps(base, sync, k)
                => Followed(base, sync, k).m_ready
<1>1. /\ base.mapper[k] \in Mapper /\ sync[k] \in Report
      /\ ClockRate[k] \in Nat \ {0}
  BY TimebaseAssumption DEF Timebases, TimebaseAssumption
<1>2. Reset \in Mapper
  BY <1>1, MapperType
<1>3. CASE sync[k].ntp = 0
  BY <1>1, <1>3 DEF Followed
<1>4. CASE sync[k].ntp # 0 /\ Jumps(base, sync, k)
  BY <1>1, <1>2, <1>4, MapperType DEF Followed
<1>5. CASE sync[k].ntp # 0 /\ ~Jumps(base, sync, k)
  BY <1>1, <1>5, MapperType DEF Followed
<1> QED
  BY <1>3, <1>4, <1>5

LEMMA UpdateType ==
    ASSUME NEW base \in Timebases, BothOrNone(base), NEW sync \in [Kinds -> Report],
           NEW kind \in Kinds, NEW rtp \in RtpTimestamps, NEW now \in Int
    PROVE  /\ Update(base, sync, kind, rtp, now) \in Timebases
           /\ BothOrNone(Update(base, sync, kind, rtp, now))
<1> DEFINE new == Update(base, sync, kind, rtp, now)
           seen == [base.fallback EXCEPT ![kind] =
                       IF @.initialized THEN @
                       ELSE [initialized |-> TRUE, rtp |-> rtp, us |-> now]]
<1>1. /\ new.fallback = seen
      /\ new.mapper = [k \in Kinds |-> Followed(base, sync, k)]
      /\ new.m_rtcp_timebase_active =
            (base.m_rtcp_timebase_active /\ \A k \in Kinds : ~Jumps(base, sync, k))
      /\ new.m_ntp_to_local_offset_us = base.m_ntp_to_local_offset_us
      /\ DOMAIN new = DOMAIN base
  BY DEF Update, Timebases
<1>2. seen \in [Kinds -> Bases]
  BY DEF Timebases, Bases
<1>3. [k \in Kinds |-> Followed(base, sync, k)] \in [Kinds -> Mapper]
  BY FollowedType
<1>4. new \in Timebases
  BY <1>2, <1>3 DEF Update, Timebases
<1>5. ASSUME new.m_rtcp_timebase_active, NEW k \in Kinds
      PROVE  new.mapper[k].m_ready /\ new.fallback[k].initialized
  <2>1. /\ base.m_rtcp_timebase_active /\ ~Jumps(base, sync, k)
        /\ base.mapper[k].m_ready /\ base.fallback[k].initialized
    BY <1>1, <1>5 DEF BothOrNone
  <2>2. Followed(base, sync, k).m_ready
    BY <2>1, FollowedType
  <2>3. seen[k].initialized
    BY <2>1 DEF Timebases
  <2> QED
    BY <1>1, <2>2, <2>3
<1> QED
  BY <1>4, <1>5 DEF BothOrNone

\* A switch takes its offset from a fallback time and a sender's time.
LEMMA SwitchType ==
    ASSUME NEW base \in Timebases, NEW sync \in [Kinds -> Report], CanSwitch(base, sync)
    PROVE  Switch(base, sync) \in Timebases /\ BothOrNone(Switch(base, sync))
<1>1. Point(sync["audio"]) \in RtpTimestamps /\ "audio" \in Kinds
  BY PointType DEF Kinds
<1>2. /\ MapFallbackTimestampLocked(base, "audio", Point(sync["audio"])) \in Int
      /\ NtpTime(base, "audio", Point(sync["audio"])) \in Int
  BY <1>1, FallbackTime, SenderTime
<1> DEFINE offset == MapFallbackTimestampLocked(base, "audio", Point(sync["audio"]))
                         - NtpTime(base, "audio", Point(sync["audio"]))
<1>3. offset \in Int
  BY <1>2
<1>4. Switch(base, sync) = [base EXCEPT !.m_rtcp_timebase_active = TRUE,
                                        !.m_ntp_to_local_offset_us = offset]
  BY DEF Switch
<1> HIDE DEF offset
<1>5. Switch(base, sync) \in Timebases
  BY <1>3, <1>4 DEF Timebases
<1>6. BothOrNone(Switch(base, sync))
  BY <1>4 DEF BothOrNone, CanSwitch, Timebases
<1> QED
  BY <1>5, <1>6

\* Whatever reports come with a frame, jumping or not: no medium has the
\* sender's clock while the other still has its time of arrival.
THEOREM ResolveKeepsBothOrNone ==
    ASSUME NEW base \in Timebases, BothOrNone(base), NEW sync \in [Kinds -> Report],
           NEW kind \in Kinds, NEW rtp \in RtpTimestamps, NEW now \in Int
    PROVE  /\ Resolve(base, sync, kind, rtp, now) \in Timebases
           /\ BothOrNone(Resolve(base, sync, kind, rtp, now))
BY UpdateType, SwitchType DEF Resolve

\* The change from times of arrival to the sender's clock is not heard: the
\* point of the audio report has the same local time before and after it.
THEOREM AudioContinues ==
    ASSUME NEW base \in Timebases, NEW sync \in [Kinds -> Report], CanSwitch(base, sync)
    PROVE  LocalTime(Switch(base, sync), "audio", Point(sync["audio"])) =
               LocalTime(base, "audio", Point(sync["audio"]))
<1> DEFINE p == Point(sync["audio"])
           new == Switch(base, sync)
<1>1. p \in RtpTimestamps /\ "audio" \in Kinds
  BY PointType DEF Kinds
<1>2. /\ new.m_rtcp_timebase_active /\ new.mapper = base.mapper
      /\ new.m_ntp_to_local_offset_us =
            MapFallbackTimestampLocked(base, "audio", p) - NtpTime(base, "audio", p)
  BY DEF Switch, Timebases
<1>3. base.mapper["audio"].m_ready /\ ~base.m_rtcp_timebase_active
  BY <1>1 DEF CanSwitch
<1>4. NtpTime(new, "audio", p) = NtpTime(base, "audio", p)
  BY <1>2 DEF NtpTime
<1>5. /\ MapFallbackTimestampLocked(base, "audio", p) \in Int
      /\ NtpTime(base, "audio", p) \in Int
  BY <1>1, FallbackTime, SenderTime
<1> HIDE DEF p, new
<1> QED
  BY <1>2, <1>3, <1>4, <1>5 DEF LocalTime, p, new

\* With the sender's clock in use, a picture and a sound are as far apart here
\* as they were at the sender: their local times differ by their NTP times.
THEOREM MediaKeepTheirDistance ==
    ASSUME NEW base \in Timebases, BothOrNone(base), base.m_rtcp_timebase_active,
           NEW v \in RtpTimestamps, NEW a \in RtpTimestamps
    PROVE  LocalTime(base, "video", v) - LocalTime(base, "audio", a) =
               NtpTime(base, "video", v) - NtpTime(base, "audio", a)
<1>1. /\ base.mapper["video"].m_ready /\ base.mapper["audio"].m_ready
      /\ "video" \in Kinds /\ "audio" \in Kinds
  BY DEF BothOrNone, Kinds
<1>2. /\ NtpTime(base, "video", v) \in Int /\ NtpTime(base, "audio", a) \in Int
      /\ base.m_ntp_to_local_offset_us \in Int
  BY <1>1, SenderTime DEF Timebases
<1> QED
  BY <1>1, <1>2 DEF LocalTime

=============================================================================
