SPECIFICATION PartySpec
CONSTANTS
    n1 = n1 n2 = n2 n3 = n3 n4 = n4
    Node <- MCNode
    t = 1
    Leader = n1
SYMMETRY Sym
CHECK_DEADLOCK FALSE

INVARIANTS StripesBehindReadies AllOrNone AllRecover
