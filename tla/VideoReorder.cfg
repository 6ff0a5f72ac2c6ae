CONSTANTS
    Modulus = 8
    FirstSequence = 6
    End <- SomeFrames
    MaxWait = 1
    MaxFrames = 2
    MaxSpan = 2
    LossInterval = 2
    MaxRepeats = 1
    MaxResets = 1
SPECIFICATION FairSpec
INVARIANTS
    ReorderInvariant
    OutputUnbroken
PROPERTIES
    DropsAccounted
    FramesLeave
CHECK_DEADLOCK FALSE
