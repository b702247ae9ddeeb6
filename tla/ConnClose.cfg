SPECIFICATION FairSpec
CONSTANTS
    s1 = s1
    s2 = s2
    Owner = Owner
    Starter = Starter
    NoOne = NoOne
    Senders = {s1, s2}
    OutSize = 1
    ReadSize = 1
    SendLimit <- TwoAndOne
    Incoming = 2
INVARIANTS
    TypeOK
    NoGap
    TokenHasRoom
PROPERTIES
    CloseReturns
    LoopsEnd
CHECK_DEADLOCK FALSE
