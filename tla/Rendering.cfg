CONSTANTS
    EarlyThreshold = 1
    LateThreshold = 1
    DiscontinuityThreshold = 4
    BackwardThreshold = 2
    MaxBufferedVideoFrames = 2
    Speakers = {"a", "b"}
    DefaultSpeaker = "a"
    NoSpeaker = ""
    Users = {"u"}
    Sizes = {"small", "large"}
    VideoSize = "small"
    FrameSize <- SizeOfFrame
    Times = {1, 3, 8}
    MaxFrames = 3
    MaxCalls = 2
SPECIFICATION FairSpec
INVARIANTS
    RenderInvariant
    OutputInvariant
PROPERTIES
    FramesInOrder
    RenderProgress
CHECK_DEADLOCK FALSE
