CONSTANTS
    t1 = t1
    t2 = t2
    e1 = e1
    e2 = e2
    e3 = e3
    QHead = QHead
    NULL = NULL
    Threads <- TwoThreads
    Elements <- ThreeElements
    MaxCount = 3
SPECIFICATION Spec
SYMMETRY QueueSymmetry
INVARIANTS
    LengthCountsQueue
