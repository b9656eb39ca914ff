SPECIFICATION Spec
CONSTANTS
  p1 = p1
  p2 = p2
  t1 = t1
  t2 = t2
  t3 = t3
  grp = grp
  None = None
SYMMETRY ProcessSymmetry
INVARIANTS
  OneSession
  AcknowledgedSurvives
  LogOpensAsWritten
  AdmittedNeverFull
