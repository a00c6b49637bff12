SPECIFICATION Spec
CONSTANTS
  e1 = e1
  Endpoints = {e1}
  MaxAttempts = 2
  MaxResponses = 1
  Events = {"request", "incoming", "disconnect", "stop_all", "silence"}
  Ties = TRUE
CHECK_DEADLOCK FALSE
INVARIANTS TypeOK KeysMatch AnswersBelong NothingLeft
  AcceptedLosesChannelOnlyInRemoval
PROPERTY ImplementsConnections
