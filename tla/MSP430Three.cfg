\* Three blocks, empty or of inline assembly shorter than measured, every
\* control flow between them: chains in which an expansion pushes other
\* branches out of range, and splits.
SPECIFICATION FairSpec
CONSTANTS
    Reach = 3
    NumBlocks = 3
    Bodies <- MCBodies
    Functions <- MCFunctions
INVARIANTS
    TypeOK
    ShortBranchesReach
    SameTargets
    SuccessorsExact
    NoNeedlessExpansion
PROPERTIES
    PassTerminates
CHECK_DEADLOCK FALSE
