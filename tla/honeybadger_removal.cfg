SPECIFICATION Spec
CONSTANTS
    N = 3
    F = 1
    B = 1
    MaxRound = 2
    Faulty = {2}
    ta = ta  tb = tb
    Malformed = Malformed
    Undecryptable = Undecryptable
    Garbage = Garbage
    None = None
    Tx <- MCTx
    Clients <- MCClients
    FaultyProposal <- MCFaultyProposal
    FaultyMsg <- SharesAndNoise
CHECK_DEADLOCK FALSE
INVARIANT NewTransactionsRemoved
