CONSTANTS
  QMax = 2
  Workers = 2
  Vectors = 2
  Modes <- AllModes
  AnyAuto = FALSE
  MaxFail = 1
  MaxUsed = 3
SPECIFICATION Spec
INVARIANTS
  PairsAgree
  DevicesMatch
  LegacyHeld
PROPERTY
  BooksMatch
