\* Responses of two pieces at most; two lengths and a malloc(0); two sets of
\* parameters in one connection.
CONSTANTS
    Size = 3
    Lengths = {0, 1, 2}
    MaxKeys = 2
    Stacks = {"bluedroid", "nimble"}
SPECIFICATION FairSpec
INVARIANTS TypeOK OwnResponse KeyOfReply ParamBlock EventsHaveCallbacks
PROPERTY ButtonsServed
CHECK_DEADLOCK FALSE
