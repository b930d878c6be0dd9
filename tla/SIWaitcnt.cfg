\* Small functions on five generations of targets: every group of counters,
\* loops, joins, preheaders, calls and every order of completion.
SPECIFICATION FairSpec
CONSTANTS
    v1 = v1
    v2 = v2
    s1 = s1
    s2 = s2
    ldsA = ldsA
    ldsB = ldsB
    ldsC = ldsC
    p1 = p1
    NoPointer = NoPointer
    Vgprs = {v1, v2}
    Sgprs = {s1, s2}
    LdsObjects = {ldsA, ldsB, ldsC}
    Pointers = {p1}
    DmaSlots = 2
    Generations = {6, 9, 10, 11, 12}
    WaitCountMax <- MCWaitCountMax
    LeftPending <- MCLeftPending
    Functions <- MCFunctions
INVARIANTS
    TypeOK
    PendingMatchesRange
    ResultsArrived
    OperandsRead
    WritesOrdered
    MemoryOrdered
    ReturnsDrained
    ReleasedWithoutScratch
    IncomingCoversEvents
    IncomingCoversRegisters
PROPERTIES
    PassTerminates
