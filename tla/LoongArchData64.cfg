\* One hart, LA64 on words: every expandable operation on three parts of the word;
\* between the LL and the SC the reservation may be lost.
SPECIFICATION Spec
CONSTANTS
    IsLA64 = TRUE
    XLen = 12
    WordBits = 6
    ValWidth = 2
    Hart = {h1}
    Offered = "all"
    Calls <- MCCalls
    Stores <- NoStores
INVARIANTS
    TypeOK
    PendingCallsComputeIR
