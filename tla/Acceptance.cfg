SPECIFICATION AcceptanceSpec
CONSTANTS
    Tasks <- SomeTasks
    Values = {0, 1}
    NotFinite = NotFinite
    UnitOf <- SomeUnits
    MaxSteps = 3
    Kept = 2
    LogLimit = 2
CHECK_DEADLOCK FALSE
INVARIANTS CompletedIsAccepted FailureIsTheUsers NothingIsDropped
