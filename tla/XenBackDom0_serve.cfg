CONSTANTS
    g1 = g1
    g2 = g2
    NoGuest = NoGuest
    Guests <- TwoGuests
    Scripts <- ShortScripts
    RingSize = 2
    Workloads <- ShortLoads
    MaxErrors = 1
SPECIFICATION FairSpec
CHECK_DEADLOCK FALSE
INVARIANTS
    TypeOK
    RequestsSeen
    PoolAccounted
    NeverOverflows
    ExclusiveUntilContended
PROPERTIES
    ImplementsServer
    EveryRequestTaken
