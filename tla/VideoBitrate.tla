---------------------------- MODULE VideoBitrate ----------------------------
(* AdaptiveVideoBitrateController: the bitrate is lowered at once when the  *)
(* sender is under pressure and raised slowly after it has been stable.     *)
(* A controller is a record; its operations are operators on it.            *)
EXTENDS Integers

CONSTANTS
    DecreasePercent,     \* config.decrease_percent
    IncreaseStep,        \* config.increase_step_kbps
    StableTime,          \* config.stable_duration_before_increase_ms
    HoldTime,            \* config.post_decrease_hold_ms
    CongestedDepth,      \* config.congested_queue_depth
    StableDepth          \* config.stable_queue_depth

\* What Initialize demands of the part of the configuration that never
\* changes.
BitrateAssumption ==
    /\ DecreasePercent \in 1 .. 99
    /\ IncreaseStep \in Nat \ {0}
    /\ StableTime \in Nat \ {0}
    /\ HoldTime \in Nat
    /\ CongestedDepth \in Nat /\ StableDepth \in Nat
    /\ CongestedDepth > StableDepth
ASSUME BitrateAssumption

Controllers == [m_initialized : BOOLEAN, min : Nat, initial : Nat, max : Nat,
                m_current_bitrate : Nat, m_stable_duration : Nat,
                m_hold_remaining : Nat]
Feedback == [sample_duration : Nat, queue_depth : Nat, queue_drop_count : Nat,
             send_failure_count : Nat]

Uninitialized == [m_initialized |-> FALSE, min |-> 0, initial |-> 0, max |-> 0,
                  m_current_bitrate |-> 0, m_stable_duration |-> 0,
                  m_hold_remaining |-> 0]

ControllerInitialize(min, initial, max) ==
    IF min > 0 /\ initial >= min /\ initial <= max
    THEN [m_initialized |-> TRUE, min |-> min, initial |-> initial, max |-> max,
          m_current_bitrate |-> initial, m_stable_duration |-> 0,
          m_hold_remaining |-> 0]
    ELSE Uninitialized

ControllerReset(c) ==
    [c EXCEPT !.m_stable_duration = 0, !.m_hold_remaining = 0,
              !.m_current_bitrate = IF c.m_initialized THEN c.initial ELSE @]

IsCongested(feedback) ==
    \/ feedback.queue_drop_count > 0
    \/ feedback.send_failure_count > 0
    \/ feedback.queue_depth >= CongestedDepth

IsStable(feedback) ==
    /\ feedback.queue_drop_count = 0
    /\ feedback.send_failure_count = 0
    /\ feedback.queue_depth <= StableDepth

Smaller(a, b) == IF a < b THEN a ELSE b
Larger(a, b) == IF a > b THEN a ELSE b

\* At least 1 kbps less, never less than the minimum.
CalculateReducedBitrate(c) ==
    Larger(c.min, c.m_current_bitrate -
                  Larger((c.m_current_bitrate * DecreasePercent) \div 100, 1))

Congested(c) ==
    [c EXCEPT !.m_stable_duration = 0, !.m_hold_remaining = HoldTime,
              !.m_current_bitrate = Smaller(@, CalculateReducedBitrate(c))]

\* A sample that ends the pause does not count as stable time.
Held(c, feedback) ==
    [c EXCEPT !.m_stable_duration = 0,
              !.m_hold_remaining = Larger(0, @ - feedback.sample_duration)]

Unstable(c) == [c EXCEPT !.m_stable_duration = 0]

Recovering(c, feedback) ==
    IF c.m_stable_duration + feedback.sample_duration < StableTime
    THEN [c EXCEPT !.m_stable_duration = @ + feedback.sample_duration]
    ELSE [c EXCEPT !.m_stable_duration = 0,
                   !.m_current_bitrate =
                        IF @ >= c.max THEN @ ELSE Smaller(@ + IncreaseStep, c.max)]

\* A changed bitrate is the one to give to the encoder.
ControllerUpdate(c, feedback) ==
    CASE ~c.m_initialized \/ feedback.sample_duration = 0 -> c
      [] OTHER ->
            CASE IsCongested(feedback)   -> Congested(c)
              [] ~IsCongested(feedback) /\ c.m_hold_remaining > 0 -> Held(c, feedback)
              [] ~IsCongested(feedback) /\ c.m_hold_remaining = 0 ->
                    IF IsStable(feedback) THEN Recovering(c, feedback)
                    ELSE Unstable(c)

=============================================================================
