SPECIFICATION Spec
CONSTANTS
    Scenarios <- SomeScenarios
    Bundles <- SomeBundles
    Edits <- SomeEdits
    MaxAttempts = 3
INVARIANTS
    CaseIsTheDesign
    RepairIsConfined
CHECK_DEADLOCK FALSE
