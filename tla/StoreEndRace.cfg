CONSTANTS
    Users = {u1, u2}
    Passwords = {"pw"}
    Subs = {s1}
    MaxMeetings = 1
    MaxQueue = 2
    ListedIds <- SomeIds
    LaterId <- LaterString
    MaxPageSize = 3
SPECIFICATION Spec
SYMMETRY Symmetry
INVARIANT EndReachesReader
