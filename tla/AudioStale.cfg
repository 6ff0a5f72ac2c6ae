CONSTANTS
    FrameUs = 3
    CapacityFrames = 5
    MaxGapFill = 1
    Discontinuity = 5
    MinTarget = 9
    InitialTarget = 9
    MaxTarget = 12
    SafetyMargin = 0
    JitterMultiplier = 1
    Hysteresis = 1
    Smoothing = 1
    Users = {"a", "b"}
    m_mix_frame_count = 3
    RebufferThreshold = 7
    PreMixedChunkCount = 2
    PacketFrames = 3
    DeviceFrames = {2, 3}
    Times = {3, 22}
    JitterSamples = {9}
    MaxPushes = 3
    MaxCalls = 0
SPECIFICATION Spec
INVARIANTS
    QueueAheadOfClock
CHECK_DEADLOCK FALSE
