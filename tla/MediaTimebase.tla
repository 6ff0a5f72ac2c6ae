---------------------------- MODULE MediaTimebase ----------------------------
(* The timebase of RtcPullTransport: a frame has the local time of its      *)
(* medium's first frame until both media are known to the sender's clock,   *)
(* and the sender's clock, shifted to the local one, from then on.          *)
EXTENDS RtpNtpTimeMapper

CONSTANT ClockRate    \* kVideoRtpClockRate and kAudioRtpClockRate

Kinds == {"video", "audio"}

TimebaseAssumption == ClockRate \in [Kinds -> Nat \ {0}]
ASSUME TimebaseAssumption

\* A medium's first frame.
NotSeen == [initialized |-> FALSE, rtp |-> 0, us |-> 0]

Bases == [initialized : BOOLEAN, rtp : RtpTimestamps, us : Int]

Timebases ==
    [fallback : [Kinds -> Bases], mapper : [Kinds -> Mapper],
     m_rtcp_timebase_active : BOOLEAN, m_ntp_to_local_offset_us : Int]

\* A new transport, and one that was closed.
ClosedTimebase ==
    [fallback |-> [k \in Kinds |-> NotSeen], mapper |-> [k \in Kinds |-> Reset],
     m_rtcp_timebase_active |-> FALSE, m_ntp_to_local_offset_us |-> 0]

MapFallbackTimestampLocked(base, kind, rtp) ==
    base.fallback[kind].us
        + RtpDeltaToMicroseconds(CalculateRtpDelta(rtp, base.fallback[kind].rtp),
                                 ClockRate[kind])

NtpTime(base, kind, rtp) == MapToNtpTimeUs(base.mapper[kind], ClockRate[kind], rtp)

\* A session without a report answers with an NTP timestamp of zero.
Jumps(base, sync, kind) ==
    /\ sync[kind].ntp # 0
    /\ UpdateResult(base.mapper[kind], ClockRate[kind], sync[kind]) = "kDiscontinuity"

\* A mapper that finds a jump is reset and takes the report after all.
Followed(base, sync, kind) ==
    IF sync[kind].ntp = 0 THEN base.mapper[kind]
    ELSE UpdateSenderReport(IF Jumps(base, sync, kind) THEN Reset ELSE base.mapper[kind],
                            ClockRate[kind], sync[kind])

\* The frame's medium is known from its first frame; the mappers follow their
\* reports and a jump of either ends the use of the sender's clock.
Update(base, sync, kind, rtp, now) ==
    [base EXCEPT
        !.fallback[kind] = IF @.initialized THEN @
                           ELSE [initialized |-> TRUE, rtp |-> rtp, us |-> now],
        !.mapper = [k \in Kinds |-> Followed(base, sync, k)],
        !.m_rtcp_timebase_active = @ /\ \A k \in Kinds : ~Jumps(base, sync, k)]

CanSwitch(base, sync) ==
    /\ ~base.m_rtcp_timebase_active
    /\ \A k \in Kinds : base.mapper[k].m_ready /\ base.fallback[k].initialized
    /\ sync["audio"].ntp # 0

\* The point of a report, cut to the width of an RTP timestamp.
Point(report) == report.rtp % (2 * HalfWrap)

\* The point of the audio report keeps its local time.
Switch(base, sync) ==
    [base EXCEPT
        !.m_rtcp_timebase_active = TRUE,
        !.m_ntp_to_local_offset_us =
            MapFallbackTimestampLocked(base, "audio", Point(sync["audio"]))
                - NtpTime(base, "audio", Point(sync["audio"]))]

\* The timebase after a frame of a medium came, with the reports at that time.
Resolve(base, sync, kind, rtp, now) ==
    LET updated == Update(base, sync, kind, rtp, now)
    IN  IF CanSwitch(updated, sync) THEN Switch(updated, sync) ELSE updated

\* ClearPendingFramesForTimebaseSwitch is called.
TimebaseChanged(base, sync, kind, rtp, now) ==
    \/ \E k \in Kinds : Jumps(base, sync, k)
    \/ CanSwitch(Update(base, sync, kind, rtp, now), sync)

\* The local time of a frame.
LocalTime(base, kind, rtp) ==
    IF base.m_rtcp_timebase_active /\ base.mapper[kind].m_ready
    THEN NtpTime(base, kind, rtp) + base.m_ntp_to_local_offset_us
    ELSE MapFallbackTimestampLocked(base, kind, rtp)

\* The sender's clock is used for both media or for none.
BothOrNone(base) ==
    base.m_rtcp_timebase_active =>
        \A k \in Kinds : base.mapper[k].m_ready /\ base.fallback[k].initialized

=============================================================================
