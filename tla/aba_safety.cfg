SPECIFICATION Spec
CONSTANTS
    n1 = n1  n2 = n2  n3 = n3  n4 = n4
    F = 1
    MaxRound = 1
    Faulty = {n1}
    None = None
    Coins <- FirstCoinOne
    Node <- MCNode
    FaultyMsg <- TwoFaced
    Provoked <- Anyone
CHECK_DEADLOCK FALSE
SYMMETRY HonestSymmetry
VIEW LiveView
INVARIANTS Agreement SingletonsAgree LockedIn QuitLeavesDecided CoinBinding RestOnlyBehindQuit
PROPERTY ImplementsAgreement
