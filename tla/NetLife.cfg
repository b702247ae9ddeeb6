SPECIFICATION FairSpec
CONSTANTS
    a = a
    b = b
    d = d
    g1 = g1
    Nodes = {a, b, d}
    Sharers = {g1}
    Home <- AtA
    QueueSize = 1
    MaxConns = 2
    Scenarios <- Lives
INVARIANTS
    TypeOK
    OneEach
    LeakCause
PROPERTIES
    
    
    CloseReturns
CHECK_DEADLOCK FALSE
