SPECIFICATION Spec
CONSTANTS
  a = a
  b = b
  Solves = {a, b}
  Files = {points, faces}
  points = points
  faces = faces
  Scenarios <- SharedCache
  Frozen = 3
  Least = 1
  Own <- Timeouts
  Grace = 1
  MaxRots = 1
  MaxCrashes = 1
INVARIANTS
  CorruptionIsNotFailure
  CompletedIsProven
  WallBudget
PROPERTIES
  ExecutionEnds
