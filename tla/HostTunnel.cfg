SPECIFICATION FairSpec
CONSTANTS
  MaxId = 2
  MaxQueue = 1
  MaxRequests = 4
INVARIANTS
  NoStaleEntryUnlessOvertaken
  SubTunnelsBelongToTheirListener
  DataLostOnlyIfPeerShutDown
PROPERTIES
  ClosedConnectionsEnd
CHECK_DEADLOCK FALSE
