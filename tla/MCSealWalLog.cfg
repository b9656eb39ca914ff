SPECIFICATION Spec
CONSTANTS
  MutationIds = {m1, m2, m3, m4}
  TreeDirs = {root}
  Parent = parent
  Modes = {open, sealed}
  EntryCount = 2
  None = None
  Tx = {t1}
  Invalid = Invalid
SYMMETRY MutationSymmetry
INVARIANTS
  TypeOK
  ReplayRebuildsWriter
  CoverageMatchesScan
  RestoredLeavesNothingBehind
  UndoCountsCannotDiffer
PROPERTIES
  StateNeverRegresses
