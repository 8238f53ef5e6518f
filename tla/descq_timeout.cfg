SPECIFICATION Spec
CONSTANTS
  r1 = r1
  r2 = r2
  Req = {r1, r2}
  Kind <- SyncBatch
  Timed = {r1}
  MaxNeed = 2
  RngSz = 3
  Modes = {"poll", "auto"}
  SlowDevice = TRUE
  MaxStarts = 2
  MaxStops = 1
  Poller = Poller
  Worker = Worker
  Ctl = Ctl
  NoOne = NoOne
CHECK_DEADLOCK FALSE
INVARIANTS
  RingAccounting
  NoStatusReadAfterFree
