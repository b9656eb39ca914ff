SPECIFICATION Spec
CONSTANTS
  p1 = p1
  p2 = p2
  None = None
SYMMETRY ProcessSymmetry
INVARIANTS
  OneStore
  CrashesLeaveItResumable
  AnchorIsProvisioned
  ExportsNameTheInitialized
