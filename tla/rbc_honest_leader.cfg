SPECIFICATION FairSpec
CONSTANTS
    n1 = n1  n2 = n2  n3 = n3  n4 = n4
    ma = ma  mb = mb  a = a  b = b
    NoRoot = NoRoot
    NoMessage = NoMessage
    F = 1
    Leader = n2
    Faulty = {n1}
    Broken = {n4}
    Node <- MCNode
    Message <- OneMessage
    Block <- MCBlock
    Root <- MCRoot
    Code <- OneCode
    FaultyMsg <- AgainstHonestLeader
CHECK_DEADLOCK FALSE
INVARIANT Validity
PROPERTIES ImplementsBroadcast Termination
