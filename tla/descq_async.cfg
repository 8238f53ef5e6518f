SPECIFICATION Spec
CONSTANTS
  r1 = r1
  r2 = r2
  Req = {r1, r2}
  Kind <- AllAsync
  Timed = {}
  MaxNeed = 3
  RngSz = 3
  Modes = {"poll", "intr"}
  SlowDevice = FALSE
  MaxStarts = 2
  MaxStops = 2
  Poller = Poller
  Worker = Worker
  Ctl = Ctl
  NoOne = NoOne
CHECK_DEADLOCK FALSE
INVARIANTS
  TypeOK
  OutcomeIsTrue
  NoDanglingRequest
  StoppedQueueEmpty
  WorkReqPendCounts
PROPERTY
  ServesRequests
