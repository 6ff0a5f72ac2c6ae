CONSTANTS
    Users = {me, u1}
    Passwords = {"pw"}
    Subs = {s1}
    MaxMeetings = 1
    MaxQueue = 2
    Me = me
    MaxOnWay = 1
    Faults = {"answer", "call", "media", "local"}
SPECIFICATION FairClientSpec
INVARIANTS
    ClientInvariant
    ViewSettles
PROPERTIES
    UiReturns
CHECK_DEADLOCK FALSE
