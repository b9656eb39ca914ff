SPECIFICATION Spec
CONSTANTS
  None = None
INVARIANTS
  RecordsExplainModes
  SettledStatesAreTrue
PROPERTIES
  CrashesBlockOnlyTheUnknowable
  ImplementsStagedTree
