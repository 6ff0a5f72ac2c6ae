CONSTANTS
    Users = {u1, u2}
    Sessions = {s1, s2, s3}
SPECIFICATION FairSpec
INVARIANTS
    TypeOK
    NothingLeft
    OwnAnswer
    LiveSessionServed
PROPERTY EverySubscriptionSettles
CHECK_DEADLOCK FALSE
