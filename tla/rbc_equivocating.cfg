SPECIFICATION FairSpec
CONSTANTS
    n1 = n1  n2 = n2  n3 = n3  n4 = n4
    ma = ma  mb = mb  a = a  b = b
    NoRoot = NoRoot
    NoMessage = NoMessage
    F = 1
    Leader = n1
    Faulty = {n1}
    Broken = {n3}
    Node <- MCNode
    Message <- MCMessage
    Block <- MCBlock
    Root <- MCRoot
    Code <- MCCode
    FaultyMsg <- Equivocating
CHECK_DEADLOCK FALSE
INVARIANTS ReadyAgreement Agreement OutputRetrievable RestIsFinal
PROPERTY Totality
