\* A packet of each kind, and one with a '%'; one retry, two troubles.
CONSTANTS
    Reachable = {"home", "h%me"}
    Unreachable = {"gone"}
    Malformed = {"noise"}
    Formats = {"h%me"}
    MaxRetry = 1
    MaxEvents = 2
    MaxTroubles = 2
SPECIFICATION FairSpec
INVARIANTS TypeOK AnsweredIsKept
PROPERTIES MarkedForCause  
