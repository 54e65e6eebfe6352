\* Two calls, output in pipes or in files, descendants that may leave the group.
SPECIFICATION ProcessSpec
CONSTANTS
    k1 = k1
    k2 = k2
    Kids <- TwoKids
    Captures = {TRUE, FALSE}
    EscapeAllowed = TRUE
    MaxCalls = 2
CHECK_DEADLOCK FALSE
INVARIANTS
    ReapedBetweenCalls
    TimeoutLeavesNoGroup
PROPERTIES
    CallReturns
