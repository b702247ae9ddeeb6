SPECIFICATION FairSpec
CONSTANTS
    n1 = n1
    n2 = n2
    n3 = n3
    n4 = n4
    Nodes = {n1, n2, n3}
    Faulty = {n3}
    F = 1
INVARIANTS
    TypeOK
    BatchValidity
PROPERTIES
    Completes
    ImplementsCS
CHECK_DEADLOCK FALSE
