CONSTANTS
    Users = {u1, u2}
    Passwords = {"pw"}
    Subs = {s1, s2}
    MaxMeetings = 1
    MaxQueue = 2
    ListedIds <- SomeIds
    LaterId <- LaterString
    MaxPageSize = 3
SPECIFICATION FairSpec
INVARIANTS
    TypeOK
    MembershipConsistent
    Subscribed
    OpenStreamTracksMeeting
PROPERTIES
    ImplementsRoster
    StreamEnds
