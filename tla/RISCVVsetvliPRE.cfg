SPECIFICATION Spec
CONSTANTS
    x = x
    y = y
    Which = "redefined"
    Registers <- MCRegisters
    Inputs <- MCInputs
    Foreign <- MCForeign
    Functions <- MCFunctions
INVARIANTS
    DataflowAgrees
