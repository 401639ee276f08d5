SPECIFICATION Spec
CONSTANTS
  FunctionTable <- MCFunctions
  GroupLimit = 2
  KvMax = 4
  RowMax = 7
  Programs <- MCPrograms
  Levels <- MCLevels
  Databases <- MCDatabases
INVARIANTS
  AnswersAreTheMeaning
  NothingPanics
  FaultsAreTheRules
  TypesAreKept
  TypingIgnoresRuleOrder
  WitnessesDerive
CHECK_DEADLOCK FALSE
