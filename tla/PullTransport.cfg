CONSTANTS
    Capacity <- Room
    MaxFrames <- SomeFrames
    MaxChanges = 1
    MaxCalls = 2
    HalfWrap = 4
    NtpFraction = 3
    Microseconds = 5
    MaxDeviation = 2
    ClockRate <- Rates
SPECIFICATION FairSpec
INVARIANTS
    PullInvariant
    DropsAskForKeyframe
PROPERTIES
    CloseReturns
CHECK_DEADLOCK FALSE
