CONSTANTS
  QMax = 2
  Workers = 2
  Vectors = 2
  Modes <- PolledOnly
  AnyAuto = TRUE
  MaxFail = 0
  MaxUsed = 3
SPECIFICATION Spec
INVARIANTS
  DevicesMatch
