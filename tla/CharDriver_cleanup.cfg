\* Init alone.
CONSTANTS
    Writers = {w1}
    Texts = {"on"}
SPECIFICATION Spec
INVARIANT InitCleansUp
CHECK_DEADLOCK FALSE
