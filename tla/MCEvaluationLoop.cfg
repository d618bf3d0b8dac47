CONSTANTS
    a = a
    b = b
    c = c
    unknown = unknown
    None = None
    Threshold = 5
    Requested = {b, unknown}
    Candidates <- MCCandidates
    Metrics <- MCMetrics
SPECIFICATION Spec
INVARIANTS
    HintsFollowWinner
PROPERTIES
    NeverPromotesWorse
    StopEnds
CHECK_DEADLOCK FALSE
