SPECIFICATION Spec
CONSTANTS
  w1 = w1
  w2 = w2
  w3 = w3
SYMMETRY Symmetry
INVARIANTS
  WalkAddsUp
  ToolIsContained
  DeltaIsWhole
  PrunesWhatWasSealed
