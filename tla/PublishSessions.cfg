SPECIFICATION FairSpec
CONSTANTS
    Connections = {c1, c2, c3}
    MaxGeneration = 5
INVARIANTS
    PublishInvariant
PROPERTIES
    UninitCompletes
CHECK_DEADLOCK FALSE
