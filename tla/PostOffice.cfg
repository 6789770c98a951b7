SPECIFICATION FairPostSpec
CONSTANTS
  Requesters = {c1, c2}
  Forwarders = {c1}
  Capacity = 1
  MaxReplies = 3
INVARIANTS
  NoAnswerDropped
PROPERTIES
  DeliverReturnsUnlessDroppedOrUnread
  EveryRequestEndsUnlessDroppedOrUnread
CHECK_DEADLOCK FALSE
