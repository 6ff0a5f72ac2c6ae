CONSTANTS
    Users = {"anna"}
    Sends <- MCSends
    MaxMeetings = 2
    MaxEntries = 2
    MaxNotices = 1
SPECIFICATION Spec
INVARIANTS
    SoundGoesWithWindow
CHECK_DEADLOCK FALSE
