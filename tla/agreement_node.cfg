SPECIFICATION Spec
CONSTANTS
    n1 = n1  n2 = n2  n3 = n3  n4 = n4
    F = 1
    MaxRound = 1
    self = n1
    None = None
    Node <- MCNode
    Coins <- MCCoins
    EnvMsgs <- FromPeers
    Repeated <- Echoed
    Malformed <- Unreadable
SYMMETRY PeerSymmetry
CHECK_DEADLOCK FALSE
INVARIANTS NoLostWakeup SendsOnce
PROPERTIES ImplementsProtocol
