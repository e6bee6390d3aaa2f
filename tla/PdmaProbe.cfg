CONSTANTS
    u1 = u1
    u2 = u2
    Users <- TwoUsers
    Core = Core
    MaxDev = 1
    MaxFails = 1
    MaxErrors = 1
SPECIFICATION FairSpec
INVARIANTS
    TypeOK
    NothingLeaks
    BoundHoldsAll
    NoFault
    CallsHaveDevice
PROPERTIES
    RoutinesEnd
