SPECIFICATION Spec
CONSTANTS
    x = x
    y = y
    Which = "united"
    Registers <- MCRegisters
    Inputs <- MCInputs
    Foreign <- MCForeign
    Functions <- MCFunctions
INVARIANTS
    FloatsBelow64
