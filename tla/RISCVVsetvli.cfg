SPECIFICATION FairSpec
CONSTANTS
    x = x
    y = y
    Which = "all"
    Registers <- MCRegisters
    Inputs <- MCInputs
    Foreign <- MCForeign
    Functions <- MCFunctions
INVARIANTS
    TypeOK
    TypesMeet
    OpsMeet
    ValuesAgree
    KeepsVL
    IncomingHolds
    DataflowAgrees
PROPERTIES
    PassTerminates
