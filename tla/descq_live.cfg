SPECIFICATION FairSpec
CONSTANTS
  r1 = r1
  r2 = r2
  Req = {r1, r2}
  Kind <- SyncAsync
  Timed = {}
  MaxNeed = 2
  RngSz = 3
  Modes = {"poll", "intr", "auto"}
  SlowDevice = FALSE
  MaxStarts = 1
  MaxStops = 1
  Poller = Poller
  Worker = Worker
  Ctl = Ctl
  NoOne = NoOne
CHECK_DEADLOCK FALSE
INVARIANT
  OutcomeIsTrue
PROPERTY
  EveryCallEnds
