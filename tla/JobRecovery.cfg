\* Two recoverers, one of which may die, and a worker that may die anywhere; the windows are all shut or all open.
SPECIFICATION Spec
CONSTANTS
    r1 = r1
    r2 = r2
    Worker = Worker
    Nobody = Nobody
    Recoverers <- TwoRecoverers
    MaxLog = 1
    MaxCrashes = 1
    Openings <- ShutOrOpen
    WorkerFinishes = TRUE
CHECK_DEADLOCK FALSE
INVARIANTS LinksOnce FrozenRunIsSilent ResumableUnlessSealing
PROPERTIES EvidenceIsStable CrashedRunIsFrozen
