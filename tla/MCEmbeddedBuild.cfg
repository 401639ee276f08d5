SPECIFICATION Spec
CONSTANTS
  Callers = {c1, c2}
INVARIANTS
  RefusalsInOrder
PROPERTIES
  NewestBuildForGood
  NoCallerWaitsForever
