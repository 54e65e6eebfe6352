\* Both modes, two backends, two callers that make five requests between them.
SPECIFICATION Spec
CONSTANTS
    w1 = w1
    w2 = w2
    Callers <- TwoCallers
    Solo = w1
    Keys <- TwoKeys
    Candidates = 2
    Threshold = 2
    MaxAttempts = 2
    LineageLimit <- LimitOfMode
    Modes <- BothModes
    MaxRequests = 5
CHECK_DEADLOCK FALSE
INVARIANTS TypeOK OutageIsNotAmplified
PROPERTIES EveryCandidateIsTried RequestsEnd
