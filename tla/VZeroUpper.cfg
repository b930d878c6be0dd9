\* Functions of two and of three blocks, every graph over them.
SPECIFICATION FairSpec
CONSTANTS
    NumBlocks = 3
    Functions <- MCFunctions
INVARIANTS
    TypeOK
    NoDirtyTransfer
    NoNeedlessGuard
    OneGuardPerPlace
    GuardDestroysNothing
PROPERTIES
    PassTerminates
CHECK_DEADLOCK FALSE
