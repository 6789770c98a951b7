SPECIFICATION FairSpec
CONSTANTS
  Handlers = {h1, h2, h3, h4}
  Callbacks = {q1, q2}
  Connected = {h1}
  Followed = {h2}
  MaxInbox = 2
INVARIANTS
  NoChannelOutlivesItsConnection
  NoTunnelOutlivesItsConnectionUnlessLate
  RequestsFindTheirChannel
  RegistrationsAreOwned
  CallbacksMatchQuestions
PROPERTIES
  RequestsAreAnswered
CHECK_DEADLOCK FALSE
