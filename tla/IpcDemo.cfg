\* The server, one client, one sender and one receiver.
CONSTANTS
    Server = srv
    Clients = {c1}
    Senders = {s1}
    Receivers = {r1}
    None = none
SPECIFICATION FairSpec
INVARIANTS TypeOK ClientLeavesNothing
PROPERTIES WaiterEnds ClientReleasesServer
CHECK_DEADLOCK FALSE
