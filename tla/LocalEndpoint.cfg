SPECIFICATION Spec
CONSTANTS
  e1 = e1
  e2 = e2
  s1 = s1
  s2 = s2
  NoService = NoService
  Endpoints = {e1, e2}
  Services = {s1, s2}
  MaxIds = 4
SYMMETRY EndpointSymmetry
INVARIANTS TypeOK CacheExpires ReportedOnce KnownIdInUse
