\* One process that writes, and the button. The module may have failed to load.
CONSTANTS
    Writers = {w1}
    Texts = {"on", "off", "bad", "long"}
SPECIFICATION Spec
INVARIANTS LedLinearizable OtherPinsKept
CHECK_DEADLOCK FALSE
