\* The server and one client.
CONSTANTS
    Server = srv
    Clients = {c1}
    Senders = {}
    Receivers = {}
    None = none
SPECIFICATION Spec
PROPERTY SendsWhatWasTyped
CHECK_DEADLOCK FALSE
