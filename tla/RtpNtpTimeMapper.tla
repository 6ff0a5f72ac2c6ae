--------------------------- MODULE RtpNtpTimeMapper ---------------------------
(* RtpNtpTimeMapper: the clock of one medium's RTP timestamps against the   *)
(* sender's NTP clock, anchored at the latest RTCP sender report.  It has   *)
(* no thread of its own: the state is a record, a method an operator.       *)
EXTENDS Integers

CONSTANTS
    HalfWrap,        \* half of the 2^32 RTP timestamps
    NtpFraction,     \* parts of a second in an NTP timestamp, 2^32
    Microseconds,    \* microseconds of a second
    MaxDeviation     \* m_max_sr_deviation_us

MapperAssumption ==
    /\ HalfWrap \in Nat \ {0} /\ NtpFraction \in Nat \ {0}
    /\ Microseconds \in Nat \ {0}
    /\ MaxDeviation \in Nat \ {0}
ASSUME MapperAssumption

RtpTimestamps == 0 .. 2 * HalfWrap - 1

Report == [rtp : Nat, ntp : Nat]

\* No report came yet, or the mapper was reset.
Reset == [m_ready |-> FALSE, m_sr_rtp_timestamp |-> 0, m_sr_ntp_timestamp |-> 0,
          m_sr_ntp_time_us |-> 0]

Mapper == [m_ready : BOOLEAN, m_sr_rtp_timestamp : RtpTimestamps,
           m_sr_ntp_timestamp : Nat, m_sr_ntp_time_us : Int]

\* Whole seconds and the part of the last one, rounded down.
NtpTimestampToMicroseconds(ntp) ==
    (ntp \div NtpFraction) * Microseconds
        + ((ntp % NtpFraction) * Microseconds) \div NtpFraction

\* The unsigned difference read as a signed number of the same width.
CalculateRtpDelta(current, base) ==
    LET difference == current - base
    IN  IF difference >= HalfWrap THEN difference - 2 * HalfWrap
        ELSE IF difference < -HalfWrap THEN difference + 2 * HalfWrap
        ELSE difference

\* Integer division rounds towards zero.
RtpDeltaToMicroseconds(delta, rate) ==
    LET Rounded(d) == (d * Microseconds) \div rate
    IN  IF delta >= 0 THEN Rounded(delta) ELSE -Rounded(-delta)

MapToNtpTimeUs(mapper, rate, rtp) ==
    mapper.m_sr_ntp_time_us
        + RtpDeltaToMicroseconds(CalculateRtpDelta(rtp, mapper.m_sr_rtp_timestamp), rate)

Distance(a, b) == IF a >= b THEN a - b ELSE b - a

Anchored(report) ==
    [m_ready |-> TRUE, m_sr_rtp_timestamp |-> report.rtp,
     m_sr_ntp_timestamp |-> report.ntp,
     m_sr_ntp_time_us |-> NtpTimestampToMicroseconds(report.ntp)]

\* What a report is to the mapper.
UpdateResult(mapper, rate, report) ==
    CASE report.rtp \notin RtpTimestamps \/ report.ntp = 0 -> "kInvalid"
      [] OTHER ->
         CASE ~mapper.m_ready -> "kAccepted"
           [] mapper.m_ready /\ mapper.m_sr_rtp_timestamp = report.rtp
                             /\ mapper.m_sr_ntp_timestamp = report.ntp -> "kUnchanged"
           [] OTHER ->
              IF Distance(NtpTimestampToMicroseconds(report.ntp),
                          MapToNtpTimeUs(mapper, rate, report.rtp)) > MaxDeviation
              THEN "kDiscontinuity" ELSE "kAccepted"

\* The old anchor stays unless the report is accepted.
UpdateSenderReport(mapper, rate, report) ==
    IF UpdateResult(mapper, rate, report) = "kAccepted" THEN Anchored(report) ELSE mapper

=============================================================================
