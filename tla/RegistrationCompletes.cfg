SPECIFICATION FairSpec
CONSTANTS
  e1 = e1
  e2 = e2
  Endpoints = {e1, e2}
  MaxAttempts = 2
  MaxResponses = 1
  Events = {"incoming"}
  Ties = FALSE
CHECK_DEADLOCK FALSE
PROPERTY RegistrationCompletes
