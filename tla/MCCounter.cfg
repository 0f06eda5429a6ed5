\* Calls run out at their bound, so the instance stops.
SPECIFICATION FairSpec
CONSTANTS
    p1 = p1
    p2 = p2
    p3 = p3
    Procs <- ThreeProcs
    Empty = Empty
    Retries = 2
    MaxCalls = 4
    MaxCrashes = 2
CHECK_DEADLOCK FALSE
INVARIANTS
    Serialised
    
PROPERTY
    EveryCallReturns
