CONSTANTS
    Modulus = 8
    FirstSequence = 6
    End <- SomeFrames
    MaxWait = 1
    MaxFrames = 2
    MaxSpan = 2
    LossInterval = 2
    MaxRepeats = 0
    MaxResets = 0
SPECIFICATION Spec
INVARIANTS
    OnlyCompleteFrames
CHECK_DEADLOCK FALSE
