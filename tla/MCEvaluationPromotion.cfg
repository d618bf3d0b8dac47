CONSTANTS
    a = a
    b = b
    c = c
    unknown = unknown
    None = None
    Threshold = 5
    Requested = {b, unknown}
    Candidates <- MCCandidates
    Metrics <- MCMetrics
SPECIFICATION Spec
PROPERTY
    PromotesImprovement
CHECK_DEADLOCK FALSE
