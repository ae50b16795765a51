\* A short and a long SSID, two retries, one reset.
CONSTANTS
    Ssid = {4, 9}
    MaxRetry = 2
    MaxEvents = 2
    MaxResets = 1
SPECIFICATION FairSpec
INVARIANT TypeOK
PROPERTIES WaitEndsAsSaid BootSettles BadConfigRecovers
