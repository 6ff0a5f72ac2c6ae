CONSTANTS
    Cameras = {"front", "back"}
    Mics = {"mic"}
    MaxMeetings = 2
SPECIFICATION FairSpec
INVARIANTS
    CaptureInvariant
    MediaAsShown
    FrameStaysInMeeting
PROPERTIES
    CaptureProgress
CHECK_DEADLOCK FALSE
