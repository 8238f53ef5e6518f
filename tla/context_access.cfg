CONSTANTS
  c1 = c1
  c2 = c2
  Client = {c1, c2}
  Nil = Nil
  Scenarios <- MCScenarios
SPECIFICATION FairSpec
CHECK_DEADLOCK FALSE
INVARIANTS
  StartedIsProgrammed
  ReadIsWhole
PROPERTIES
  NothingInherited
  EveryCallReturns
