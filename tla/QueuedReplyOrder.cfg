SPECIFICATION Spec
CONSTANTS
  Streams = {"stdout", "stderr"}
  MaxMessages = 3
INVARIANTS
  AnswerFirst
  InStreamOrder
CHECK_DEADLOCK FALSE
