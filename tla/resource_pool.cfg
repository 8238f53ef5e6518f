SPECIFICATION Spec
CONSTANTS
  p1 = p1
  p2 = p2
  v1 = v1
  PF = {p1, p2}
  VF = {v1}
  Parent <- ParentP1
  TotalQ = 3
  Kinds <- StreamOnly
  MaxQcnt = 2
  QcntMod = 4
  MaxLeft = 1
  Nobody = Nobody
INVARIANTS
  QueuesPartitioned
  BooksOK
PROPERTY
  PoolImplemented
