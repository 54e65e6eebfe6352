SPECIFICATION Spec
CONSTANTS
  Last = 2
  Drafts = {2}
  MaxCloses = 1
  MaxDeaths = 1
INVARIANTS
  FinishedOnce
  OneAtATime
PROPERTIES
  StartedIsReported
CHECK_DEADLOCK FALSE
