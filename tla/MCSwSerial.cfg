\* Two byte values and three slots: wrapped, full, empty and partly filled are
\* four different states.
CONSTANTS
    Byte = {0, 1}
    BuffSize = 3
    WordSize = 8
    SameCore = TRUE
    Ops = {"read", "peek", "flush", "stop"}
SPECIFICATION MCSpec
INVARIANTS IndInv ReadStable PeekStable DrainServed
PROPERTIES ImplementsFifo PollerServed
