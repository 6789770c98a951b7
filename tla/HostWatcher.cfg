SPECIFICATION WatcherSpec
CONSTANTS
  Connections = {c1, c2}
  Paths <- MCPaths
  Links <- MCLinks
  Capacity = 2
  MaxRequests = 4
  MaxChanges = 2
INVARIANTS
  RegisteredIsWatchedUnlessMisjudged
  UnusedIsUnwatchedUnlessShared
SYMMETRY Symmetry
CHECK_DEADLOCK FALSE
