SPECIFICATION FairSpec
CONSTANTS
    Runs = {r1, r2}
    GracePeriod = 2
    ReorgDepth = 1
    MaxBlock = 5
    MaxStarts = 4
INVARIANTS
    TypeOK
    OneSendPerGracePeriod
PROPERTIES
    
    ImplementsLock
CHECK_DEADLOCK FALSE
