CONSTANTS
  c1 = c1
  c2 = c2
  c3 = c3
  Client = {c1, c2, c3}
  Nil = Nil
  DescMax = 3
  U32 = 1024
  MaxN = 4
  Scenarios <- MCScenarios
SPECIFICATION FairSpec
CHECK_DEADLOCK FALSE
INVARIANTS
  TypeOK
  OutcomeIsTrue
  NothingAfterReturn
  RunsTheHead
  QuietWhenOffline
PROPERTY
  EveryCallReturns
