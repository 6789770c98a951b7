SPECIFICATION Spec
CONSTANTS
  Client = Client
  Server = Server
  ClientFrames = 2
  ServerFrames = 3
  FrameLimit <- MCFrameLimit
  MaxBackup = 2
  LinkCap = 2
  MaxBreaks = 2
  MaxReopens = 2
  MaxBeats = 2
  AttemptTimeout = FALSE
INVARIANTS
  TypeOK
  BackupIsSuffixOfWritten
  FirstReconnectLosesOnlyMiscounted
  InductiveInvariant
PROPERTIES
  ImplementsDelivery
CHECK_DEADLOCK FALSE
