CONSTANTS
    Media = {"video", "audio"}
    Capacity <- Room
    MinBitrate = 3
    TargetBitrate = 4
    DecreasePercent = 25
    IncreaseStep = 1
    StableTime = 3
    HoldTime = 1
    CongestedDepth = 1
    StableDepth = 0
    SampleTimes = {2}
    MaxCaptures = 2
    MaxCalls = 3
    OpusSampleRate = 6
    Microseconds = 4
    FrameSamples = 3
    ResetThreshold = 2
    MaxQueuedFrames = 2
    MaxBitrateKbps = 2147483
    BitsPerPixel = 8000
    MinTarget = 300
    MaxTarget = 6000
    LeastBitrate = 200
SPECIFICATION FairSpec
PROPERTIES
    StopReleases
CHECK_DEADLOCK FALSE
