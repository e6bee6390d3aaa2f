CONSTANTS
    g1 = g1
    g2 = g2
    Guests <- TwoGuests
    Scripts <- NetScripts
    Workloads <- NetLoads
    RingSize = 2
SPECIFICATION FairSpec
CHECK_DEADLOCK FALSE
INVARIANTS
    TypeOK
    RequestsSeen
    ServesUntilExit
    OwnDataUntilOverrun
    OneResponseEach
PROPERTIES
    ImplementsServer
    EverythingServed
