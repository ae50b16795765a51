\* Two access points, every request, two events of lag.
CONSTANTS
    AP = {a1, a2}
    NoAP = none
    Requests = {"connect", "disconnect", "status", "list", "opmode"}
    Modes = {{"STA"}, {"AP"}}
    Bssids = {a1}
    MaxEvents = 2
SPECIFICATION FairSpec
INVARIANTS TypeOK InfoTracksDriver ReportOfOneAp
PROPERTIES Reassociates Provisioned
