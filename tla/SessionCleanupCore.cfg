SPECIFICATION FairSpec
CONSTANTS
    Web = {web1, web2}
    Rdp = {rdp1}
    Handlers = {call1}
    PoolSizes = {1, 2}

    
PROPERTIES
    CallsAreServed
    AbandonedRdpEnds
    
CHECK_DEADLOCK FALSE
