SPECIFICATION FairSpec
CONSTANTS
  Inputs <- Requests
  BodyLength = 2
  HeadLength = 2
  Contents = {0, 3}
  SendBuffers = {1, 2, 3, 4, 5}
INVARIANTS HandledWhenComplete NothingSkipped EndIsAcknowledged
PROPERTIES RequestsEnd
CHECK_DEADLOCK FALSE
