SPECIFICATION FairSpec
CONSTANTS
  Nil = Nil
PROPERTIES
  RecoverySettles
  StoreBecomesUsable
  PassesEnd
