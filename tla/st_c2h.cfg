CONSTANTS
    s1 = s1  d1 = d1  a1 = a1
    Requests <- MCRequests
    Async <- MCAsync
    Direct <- MCDirect
    RingSize = 4
    CmptSize = 3
    IntrSize = 2
    C2hBufsz = 2
    DescBufSize = 2
    Lengths <- MCLengths
    Asked <- MCAsked
    MaxPackets = 4
    MayFail = TRUE
SPECIFICATION Spec
CHECK_DEADLOCK FALSE
INVARIANTS
  ReadersGetTheStream
  NoDataWhileWaiting
  FreeListSound
PROPERTY
  PacketsNoticed
