SPECIFICATION FairSpec
CONSTANTS
    n1 = n1  n2 = n2  n3 = n3  n4 = n4
    F = 1
    Faulty = {n1}
    NoBit = NoBit
    Node <- MCNode
    Round <- OneRound
    Byte <- OneByte
    FaultyShare <- AnyShare
CHECK_DEADLOCK FALSE
INVARIANTS ReceiverAlive
PROPERTIES ImplementsCoin CoinLiveness
