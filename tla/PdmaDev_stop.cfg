CONSTANTS
    r1 = r1
    r2 = r2
    w1 = w1
    w2 = w2
    c1 = c1
    c2 = c2
    Readers <- OneReader
    Writers <- OneWriter
    Ctls <- OneCtl
    RdBufNr = 1
    WtBufNr = 1
    RdDepth = 1
    WtDepth = 1
    UserFaults = TRUE
    MaxTimeouts = 1
SPECIFICATION Spec
CHECK_DEADLOCK FALSE
INVARIANTS
    RestartQuiescent
    NoCorruption
    StoppedCardIdle
    PoolConserved
