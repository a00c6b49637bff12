SPECIFICATION FairSpec
CONSTANTS
  e1 = e1
  Endpoints = {e1}
  MaxAttempts = 1
  MaxResponses = 1
  Events = {"request", "incoming", "disconnect", "stop_all", "silence"}
  Ties = FALSE
CHECK_DEADLOCK FALSE
PROPERTIES CallReturns FrameHandled ClosedIsRemoved
