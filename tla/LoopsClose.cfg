SPECIFICATION FairSpec
CONSTANTS
    c1 = c1
    c2 = c2
    m1 = m1
    m2 = m2
    ACS = ACS
    None = None
    Members = {m1, m2}
    Conns = {c1}
    ReqSize = 1
    PushMax = 1
    Scenarios <- BusyOrClosing
INVARIANTS
    TypeOK
    PanicCause
PROPERTIES
    
    CloseReturns
CHECK_DEADLOCK FALSE
