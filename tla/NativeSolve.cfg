SPECIFICATION Spec
CONSTANTS
    a = a
    b = b
    Fields <- TwoFields
    Unmapped <- MeshField
    Prints <- TwoPrints
    Drafts <- SomeDrafts
    Modes <- AllModes
    MaxAttempts = 3
    TransportLimit = 7
    RequestTransport = 2
    MaxRuns = 3
INVARIANTS LineageBudget ChainRemembers OfferSuffices
PROPERTIES SolveEnds
