--------------------------- MODULE MCPullTransport ---------------------------
(* Instances of PullTransport and MediaTimebase for TLC.                    *)
EXTENDS PullTransport, MediaTimebase

\* One frame fills the audio queue, two the video queue; three video frames and
\* one audio frame come.
Room == [m \in Media |-> IF m = "video" THEN 2 ELSE 1]

SomeFrames == [m \in Media |-> IF m = "video" THEN 3 ELSE 1]

Rates == [k \in Kinds |-> IF k = "video" THEN 3 ELSE 2]

-----------------------------------------------------------------------------
(* Two sender reports that fit each other, one that does not, and none.     *)

Reports == {[rtp |-> 0, ntp |-> 0], [rtp |-> 1, ntp |-> 1], [rtp |-> 2, ntp |-> 3],
            [rtp |-> 6, ntp |-> 25]}

\* The timebases after one frame more.
After(bases) ==
    {Resolve(base, sync, kind, rtp, 10) :
        base \in bases, sync \in [Kinds -> Reports], kind \in Kinds, rtp \in {0, 5}}

TwoFrames == After(After({ClosedTimebase}))

\* What PullTransport keeps of a timebase.
Seen(base) ==
    [fallback |-> {k \in Kinds : base.fallback[k].initialized},
     ready |-> {k \in Kinds : base.mapper[k].m_ready},
     m_rtcp_timebase_active |-> base.m_rtcp_timebase_active]

\* PullTransport's timebase goes where the one with times goes, and its queues
\* are cleared when they are cleared.
ASSUME TimebaseAgrees ==
    \A base \in TwoFrames, sync \in [Kinds -> Reports], kind \in Kinds :
        LET jumping == {k \in Kinds : Jumps(base, sync, k)}
            reports == {k \in Kinds : sync[k].ntp # 0}
            updated == Updated(Seen(base), kind, reports, jumping)
            switches == Switches(updated, reports)
        IN  /\ Seen(Resolve(base, sync, kind, 5, 10)) =
                  [updated EXCEPT !.m_rtcp_timebase_active = @ \/ switches]
            /\ TimebaseChanged(base, sync, kind, 5, 10) <=> (switches \/ jumping # {})

\* The signed reading of the unsigned difference is the only one of its width.
ASSUME DeltaIsSigned ==
    \A c, b \in RtpTimestamps : \A n \in -HalfWrap .. HalfWrap - 1 :
        (b + n) % (2 * HalfWrap) = c <=> n = CalculateRtpDelta(c, b)

=============================================================================
