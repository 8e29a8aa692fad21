SPECIFICATION Spec
CONSTANTS
    Q = 5
    Players = 4
    Thresholds = {1, 2, 3}
    Codes <- MCCodes
    LeafCounts <- MCLeafCounts
    Candidates <- MCCandidates
    RsaDrawn <- MCRsaDrawn
    Values <- MCValues
    Lengths <- MCLengths
    Counts = {0, 1, 3}
    Cuts <- MCCuts
CHECK_DEADLOCK FALSE
INVARIANT StripesSuffice
