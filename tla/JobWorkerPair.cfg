\* Two workers launched on one job root, and the abstract job they implement.
SPECIFICATION Safe
CONSTANTS
    w1 = w1
    w2 = w2
    o1 = o1
    k1 = k1
    Nobody = Nobody
    Workers <- TwoWorkers
    Observers <- OneObserver
    MaxFaults = 2
    CrashAllowed = TRUE
    Kids = {}
    Captures = {FALSE}
    EscapeAllowed = FALSE
    MaxCalls = 1
CHECK_DEADLOCK FALSE
SYMMETRY WorkerSymmetry
INVARIANT AtMostOneExecution
PROPERTY ImplementsLifecycle
