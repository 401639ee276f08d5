SPECIFICATION ServiceSpec
CONSTANTS
  a = a
  b = b
  c = c
  d = d
  one = one
  NoId = NoId
  Evaluations <- MCRequests
  Ids <- MCIds
  Limit = 1
  IdOf <- MCIdOf
  Undurable <- MCUndurable
INVARIANTS
  WithinLimit
  NoLostWakeup
  NoStaleEntry
PROPERTIES
  CancelFindsTheEvaluation
  EveryRequestIsAnswered
  ShutdownReturns
