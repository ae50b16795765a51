\* The smallest instance in which an IP event overtakes a disconnection.
CONSTANTS
    AP = {a1}
    NoAP = none
    Requests = {}
    Modes = {}
    Bssids = {}
    MaxEvents = 2
SPECIFICATION Spec
INVARIANT BitMeansConnected
