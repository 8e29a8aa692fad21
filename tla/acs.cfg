SPECIFICATION FairSpec
CONSTANTS
    N = 4
    F = 2
    Faulty = {0, 2}
    tx = tx
    Value <- MCValue
    Failure = Failure
    None = None
CHECK_DEADLOCK FALSE
 
PROPERTIES UsesAgreements ImplementsSubset 
