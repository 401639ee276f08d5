SPECIFICATION Spec
CONSTANTS
  h1 = h1
  h2 = h2
  NoBytes = NoBytes
  Threads <- MCThreads
  Helpers <- MCHelpers
  Peers = 3
  Heads = 2
  InputLen <- MCInputLen
  FlushBytes = 3
  MaxRetractions = 1
  TupleLimit = 1
INVARIANTS
  SettledAsASet
  CeilingIsNoticed
  BytesAreCharged
  PeakIsTheHighest
