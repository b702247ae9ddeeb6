SPECIFICATION Spec
CONSTANTS
    t1 = t1
    t2 = t2
    t3 = t3
    c1 = c1
    c2 = c2
    Run = Run
    NoACS = NoACS
    Txs = {t1, t2}
    Conns = {c1}
    ContributionSize = 1
    BatchSize = 1
INVARIANTS
    NewEpoch
CHECK_DEADLOCK FALSE
