CONSTANTS
    r1 = r1
    r2 = r2
    w1 = w1
    w2 = w2
    c1 = c1
    c2 = c2
    Readers <- TwoReaders
    Writers <- Nobody
    Ctls <- OneCtl
    RdBufNr = 3
    WtBufNr = 1
    RdDepth = 2
    WtDepth = 1
    UserFaults = FALSE
    MaxTimeouts = 0
SPECIFICATION Spec
SYMMETRY ThreadSymmetry
INVARIANTS
    TypeOK
    CardMirrorsLists
    ReadFifoFed
    NoLostWakeup
