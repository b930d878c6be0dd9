\* One hart, RV64 on words (registers wider than the word), every expandable operation on three
\* parts of the word; between the LR and the SC the reservation may be lost.
SPECIFICATION Spec
CONSTANTS
    XLen = 12
    WordBits = 6
    ValWidth = 2
    Hart = {h1}
    Offered = "all"
    Calls <- MCCalls
    Stores <- NoStores
INVARIANTS
    TypeOK
    PendingCallsComputeIR
