SPECIFICATION FairSpec
CONSTANTS
  Procs <- MCProcs
  Streams = {"stdout"}
  Plans <- MCPlans
INVARIANTS
  DoneIsLast
  OutputReportedUnlessUnread
PROPERTIES
  KilledOrBlocked
CHECK_DEADLOCK FALSE
