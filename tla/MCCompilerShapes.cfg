SPECIFICATION Spec
CONSTANTS
  FunctionTable <- MCFunctions
  GroupLimit = 2
  KvMax = 4
  RowMax = 7
  Programs <- Shapes
  Levels <- MCLevels
  Databases <- MCDatabases
INVARIANT NothingPanics
CHECK_DEADLOCK FALSE
