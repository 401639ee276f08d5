SPECIFICATION Spec
CONSTANTS
  l1 = l1
  l2 = l2
  l3 = l3
  l4 = l4
  p1 = p1
  p2 = p2
  shared = shared
  own = own
  NoLock = NoLock
  Loaders <- MCLoaders
  Processes <- MCProcesses
  ProcessOf <- MCProcessOf
  Roots <- MCRoots
  RootOf <- MCRootOf
  MaxDamages = 1
INVARIANTS
  Serialized
  RepairIsEnough
PROPERTIES
  GoodStaysGood
  EveryLoaderReturns
