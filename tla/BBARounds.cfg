SPECIFICATION Spec
CONSTANTS
    n1 = n1
    n2 = n2
    n3 = n3
    n4 = n4
    Nodes = {n1, n2, n3, n4}
    Faulty = {n4}
    F = 1
    Scenarios <- Rounds2
    MaxRound = 2
INVARIANTS
    TypeOK
    AuxBacked
    
    DecisionBacked
    OneAux
    DecidedAtRest

    
CHECK_DEADLOCK FALSE
