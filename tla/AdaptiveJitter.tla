---------------------------- MODULE AdaptiveJitter ----------------------------
(* AdaptiveJitterController: how much sound of a user has to be buffered     *)
(* before it is played.  The mixer only reports arrivals to it and resets it. *)
EXTENDS Integers

CONSTANTS
    MinTarget, InitialTarget, MaxTarget,   \* range of the target
    SafetyMargin,
    JitterMultiplier,
    Hysteresis,                            \* adjustment_hysteresis_us
    Smoothing                              \* 16 in the code

JitterAssumption ==
    /\ MinTarget \in Nat \ {0} /\ InitialTarget \in Nat /\ MaxTarget \in Nat
    /\ MinTarget <= InitialTarget /\ InitialTarget <= MaxTarget
    /\ SafetyMargin \in 0 .. (MaxTarget - MinTarget)
    /\ JitterMultiplier \in Nat \ {0}
    /\ Hysteresis \in 0 .. (MaxTarget - MinTarget)
    /\ Smoothing \in Nat \ {0}
ASSUME JitterAssumption

JitterControllers ==
    [m_arrival_baseline_initialized : BOOLEAN,
     m_last_media_timestamp_us : Int,
     estimated_jitter_us : Int,
     target_buffer_us : MinTarget .. MaxTarget]

ResetJitter ==
    [m_arrival_baseline_initialized |-> FALSE,
     m_last_media_timestamp_us |-> 0,
     estimated_jitter_us |-> 0,
     target_buffer_us |-> InitialTarget]

ClampTarget(target) ==
    IF target < MinTarget THEN MinTarget
    ELSE IF target > MaxTarget THEN MaxTarget ELSE target

CalculateDesiredTarget(j) ==
    ClampTarget(MinTarget + SafetyMargin
                + JitterMultiplier * (IF j.estimated_jitter_us > 0
                                      THEN j.estimated_jitter_us ELSE 0))

IncreaseTarget(j, requested) ==
    LET target == ClampTarget(requested)
    IN  IF target <= j.target_buffer_us \/ target - j.target_buffer_us < Hysteresis THEN j
        ELSE [j EXCEPT !.target_buffer_us = target]

\* The average moves a part of the way, rounded towards zero.
Smoothed(estimate, sample) ==
    IF sample >= estimate THEN estimate + (sample - estimate) \div Smoothing
                          ELSE estimate - (estimate - sample) \div Smoothing

\* "sample" is by how much the intervals of the arrivals and of the media times
\* differ.  The first arrival, and one that is not newer, says nothing.
ObserveArrival(j, media_timestamp, sample) ==
    CASE ~j.m_arrival_baseline_initialized ->
           [j EXCEPT !.m_arrival_baseline_initialized = TRUE,
                     !.m_last_media_timestamp_us = media_timestamp]
      [] j.m_arrival_baseline_initialized
           /\ media_timestamp <= j.m_last_media_timestamp_us -> j
      [] j.m_arrival_baseline_initialized
           /\ media_timestamp > j.m_last_media_timestamp_us ->
           LET k == [j EXCEPT !.m_last_media_timestamp_us = media_timestamp,
                              !.estimated_jitter_us = Smoothed(@, sample)]
           IN  IncreaseTarget(k, CalculateDesiredTarget(k))

=============================================================================
