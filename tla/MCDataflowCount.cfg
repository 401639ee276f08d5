SPECIFICATION Spec
CONSTANTS
  Rules <- MCRules
  Programs <- CountedApart
  Databases <- MCDatabases
INVARIANT
  MeansTheProgram
