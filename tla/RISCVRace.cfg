\* Two harts, RV32 (or RV64 on double words): registers as wide as the word, a
\* call of each loop on two parts of one word and on the whole of it, foreign
\* stores to the low part at any moment, reservations lost for no reason.
SPECIFICATION FairSpec
CONSTANTS
    XLen = 3
    WordBits = 3
    ValWidth = 1
    Hart = {h1, h2}
    Offered = "few"
    Calls <- MCCalls
    Stores <- MCStores
PROPERTIES
    ImplementsIR
    NeighboursKept
    SomeCallCompletes
