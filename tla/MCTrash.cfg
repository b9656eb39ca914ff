SPECIFICATION Spec
CONSTANTS
  p1 = p1
  p2 = p2
  m1 = m1
  m2 = m2
SYMMETRY Symmetry
INVARIANTS
  StagedIsUndoable
  LogFollowsTheSealLog
  NothingOrphaned
PROPERTIES
  MovesOnlyWhatItMay
