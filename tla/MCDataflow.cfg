SPECIFICATION Spec
CONSTANTS
  Rules <- MCRules
  Programs <- MCPrograms
  Databases <- MCDatabases
INVARIANTS
  MeansTheProgram
  NothingAbsent
PROPERTY
  Settles
