\* Two harts, a call of each loop on two parts of one word, foreign stores to
\* the low part at any moment, reservations lost for no reason.
SPECIFICATION FairSpec
CONSTANTS
    IsLA64 = TRUE
    XLen = 6
    WordBits = 3
    ValWidth = 1
    Hart = {h1, h2}
    Offered = "few"
    Calls <- MCCalls
    Stores <- MCStores
PROPERTIES
    ImplementsIR
    SomeCallCompletes
