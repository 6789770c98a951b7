SPECIFICATION FairSpec
CONSTANTS
  Client = Client
  Server = Server
  ClientFrames = 1
  ServerFrames = 3
  FrameLimit <- MCFrameLimit
  MaxBackup = 2
  LinkCap = 1
  MaxBreaks = 1
  MaxReopens = 2
  MaxBeats = 1
  AttemptTimeout = TRUE
PROPERTIES
  SyncEndsUnlessSwallowed
CHECK_DEADLOCK FALSE
