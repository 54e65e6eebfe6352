\* One worker, crashes, one exhausted write.
SPECIFICATION Spec
CONSTANTS
    w1 = w1
    w2 = w2
    o1 = o1
    k1 = k1
    Nobody = Nobody
    Workers <- OneWorker
    Observers <- OneObserver
    MaxFaults = 1
    CrashAllowed = TRUE
    Kids <- OneKid
    Captures = {FALSE}
    EscapeAllowed = FALSE
    MaxCalls = 2
CHECK_DEADLOCK FALSE
INVARIANTS VerdictIsTrue
 
