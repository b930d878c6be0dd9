\* A soft wait is dropped when its block is visited first, before the loop's
\* stores are known to reach it.
SPECIFICATION Spec
CONSTANTS
    v1 = v1
    v2 = v2
    s1 = s1
    s2 = s2
    ldsA = ldsA
    ldsB = ldsB
    ldsC = ldsC
    p1 = p1
    NoPointer = NoPointer
    Vgprs = {v1, v2}
    Sgprs = {s1, s2}
    LdsObjects = {ldsA, ldsB, ldsC}
    Pointers = {p1}
    DmaSlots = 2
    Generations = {6, 9, 10, 11, 12}
    WaitCountMax <- MCWaitCountMax
    LeftPending <- MCLeftPending
    Functions <- SoftInLoop
INVARIANTS
    SoftWaitsHonoured
