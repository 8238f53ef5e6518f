SPECIFICATION FairSpec
CONSTANTS
  v1 = v1
  v2 = v2
  p1 = p1
  VfReq = {v1, v2}
  PfReq = {p1}
  Bye = Bye
  Op <- SameOp
  Modes <- PollAndIntr
  Retries = 1
  Traffic <- Pairs
  Nil = Nil
CHECK_DEADLOCK FALSE
INVARIANTS
  LinkOK
  MessagesAlive
  ByeNotLost
PROPERTIES
  KeepsPromise
  EveryRequestAnswered
