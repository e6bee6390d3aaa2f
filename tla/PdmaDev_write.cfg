CONSTANTS
    r1 = r1
    r2 = r2
    w1 = w1
    w2 = w2
    c1 = c1
    c2 = c2
    Readers <- Nobody
    Writers <- TwoWriters
    Ctls <- OneCtl
    RdBufNr = 1
    WtBufNr = 3
    RdDepth = 1
    WtDepth = 2
    UserFaults = FALSE
    MaxTimeouts = 0
SPECIFICATION Spec
SYMMETRY ThreadSymmetry
INVARIANTS
    PendingMeansFull
    NoLostWakeup
PROPERTIES
    WriteQueueFifo
