CONSTANTS
    Users = {"anna"}
    Sends <- MCSends
    MaxMeetings = 2
    MaxEntries = 2
    MaxNotices = 1
SPECIFICATION FairSpec
INVARIANTS
    RemoteInvariant
    StatusSettles
PROPERTIES
    RemoteProgress
CHECK_DEADLOCK FALSE
