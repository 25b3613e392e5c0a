SPECIFICATION FairSpec
CONSTANTS
  HeartbeatEvery = 2
  HeartbeatTimeout = 3
  RevalidateEvery = 3
  IoTimeout = 1
  Rate = 1
  Second = 2
  MaxReplay = 2
  Window = 2
INVARIANTS ReapedInTime FramesAdmitted
PROPERTIES DeadReaped
CHECK_DEADLOCK FALSE
