SPECIFICATION Spec
CONSTANTS
  e1 = e1
  e2 = e2
  Endpoints = {e1, e2}
  DuplicateResponses = FALSE
SYMMETRY EndpointSymmetry
INVARIANTS TypeOK ListenerProtocol StatusWellFormed Inserted ToldIsConnected
PROPERTY AcceptedByBoth
