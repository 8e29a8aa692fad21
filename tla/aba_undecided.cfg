SPECIFICATION FairSpec
CONSTANTS
    n1 = n1  n2 = n2  n3 = n3  n4 = n4
    F = 1
    MaxRound = 1
    Faulty = {n1}
    None = None
    Coins <- AllOne
    Node <- MCNode
    FaultyMsg <- Helping
    Provoked <- Nobody
CHECK_DEADLOCK FALSE
SYMMETRY HonestSymmetry
INVARIANT DecideCalled
