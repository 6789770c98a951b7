SPECIFICATION FairPostSpec
CONSTANTS
  Requesters = {c1}
  Forwarders = {}
  Capacity = 1
  MaxReplies = 1
PROPERTIES
  DeliverReturns
CHECK_DEADLOCK FALSE
