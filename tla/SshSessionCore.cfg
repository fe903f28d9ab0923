SPECIFICATION FairSpec
CONSTANTS
    Admins = {adm1, adm2}
    MaxChannels = 3
    MaxFaults = 2
INVARIANTS
    AcknowledgedMeansKilled
    EveryShellIsWatched
PROPERTIES
    KillStaysOnRecord
    OrdersAreCarriedOut
CHECK_DEADLOCK FALSE
