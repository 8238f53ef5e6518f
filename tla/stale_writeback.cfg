CONSTANTS
  c1 = c1
  c2 = c2
  c3 = c3
  Client = {c1, c2, c3}
  Nil = Nil
  DescMax = 3
  U32 = 1024
  MaxN = 4
  Scenarios <- PolledTimeouts
SPECIFICATION Spec
CHECK_DEADLOCK FALSE
INVARIANT ResultIsTrue
