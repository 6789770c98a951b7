SPECIFICATION FairSpec
CONSTANTS
  Conns = {c1, c2, c3}
INVARIANTS
  TimerStoppedUnlessOverlap
PROPERTIES
  LonelyShutsDownUnlessOverlapOrMissed
  TimerEndsServer
CHECK_DEADLOCK FALSE
