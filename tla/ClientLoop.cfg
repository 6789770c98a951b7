SPECIFICATION FairSpec
CONSTANTS
  Callers = {c1, c2}
  Strategies <- MCStrategies
  MaxBreaks = 2
  MaxSleep = 9
  MaxAttempts = 5
INVARIANTS
  WatcherTellsTheTruth
  AllAttemptsWithinLimits
PROPERTIES
  ShutdownReturnsUnlessReconnectingOrDelivering
CHECK_DEADLOCK FALSE
