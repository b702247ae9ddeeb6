SPECIFICATION FairSpec
CONSTANTS
    t1 = t1
    t2 = t2
    t3 = t3
    c1 = c1
    c2 = c2
    Run = Run
    NoACS = NoACS
    Txs = {t1, t2, t3}
    Conns = {c1, c2}
    ContributionSize = 2
    BatchSize = 3
INVARIANTS
    TypeOK
    
    FlagUp
PROPERTIES
    Proposes
    EndsAfterClose
CHECK_DEADLOCK FALSE
