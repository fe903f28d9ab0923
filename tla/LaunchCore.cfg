SPECIFICATION FairSpec
CONSTANTS
    Sessions = {1, 2, 3}
    Handlers = {h1, h2}
    Protocols = {"web", "rdp", "ssh", "db"}
    MaxLaunches <- LaunchesPer
    MaxTunnels = 2
INVARIANTS
    
    
    TunnelsAreWatched
PROPERTIES
    
    ClosedIsSettled
CHECK_DEADLOCK FALSE
