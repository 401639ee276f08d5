SPECIFICATION Spec
CONSTANTS
  Rules <- MCRules
  Programs <- MCPrograms
INVARIANTS
  RefusedExactly
  DependenciesComeFirst
  IteratedWhenNeeded
PROPERTY
  Terminates
