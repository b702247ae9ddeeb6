SPECIFICATION FairSpec
CONSTANTS
    n1 = n1
    n2 = n2
    n3 = n3
    n4 = n4
    r1 = r1
    r2 = r2
    Nodes <- MCNodes
    Faulty = {n4}
    Proposer = n1
    F = 1
    Roots <- MCRoots
    Codewords <- MCRoots
    Leaf <- Distinct
    Lengths = {8}
    Input <- MCInput
    ConnOrders <- OneOrder
    FaultyTo <- Votes
INVARIANTS
    TypeOK
    
    Recoverable

    
CHECK_DEADLOCK FALSE
