SPECIFICATION Spec
INVARIANTS
  ProvenTreeIsTheTree
  OnlyTheInput
  HandedIsThePlan
  StreamIsExact
PROPERTIES
  SidecarIsKept
