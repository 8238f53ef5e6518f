SPECIFICATION FairSpec
CONSTANTS
  v1 = v1
  v2 = v2
  VF = {v1, v2}
  MaxResets = 1
  MaxLoads = 1
  Invalid = Invalid
  NoOp = NoOp
CHECK_DEADLOCK FALSE
INVARIANTS
  TypeOK
  UndisturbedReset
  AnnouncementServed
PROPERTY
  ResetEnds
