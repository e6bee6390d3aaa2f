CONSTANTS
    g1 = g1
    g2 = g2
    NoGuest = NoGuest
    Guests <- TwoGuests
    Workloads <- ShortLoads
    Scripts <- ShortScripts
    RingSize = 2
    MaxErrors = 0
SPECIFICATION Spec
CHECK_DEADLOCK FALSE
INVARIANTS
    MarkedWhileWriting
