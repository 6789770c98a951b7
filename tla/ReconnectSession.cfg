SPECIFICATION FairSpec
CONSTANTS
  MaxTasks = 4
  MaxBreaks = 2
  CanShutdown = TRUE
  CanRefuse = TRUE
INVARIANTS
  NeverFresh
  EntryLeadsToBackup
  SessionKept
  OneLoop
  SameChannels
  HandoverNeverBlocks
PROPERTIES
  SupersededOtpRejected
  AttemptEnds
CHECK_DEADLOCK FALSE
