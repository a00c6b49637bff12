SPECIFICATION Spec
CONSTANTS
  r1 = r1
  r2 = r2
  p1 = p1
  p2 = p2
  Receivers = {r1, r2}
  Payloads = {p1}
  Size = 2
  ResumeOffset = 1
  Faults = {"cancel", "disconnect", "skip", "disk"}
  Faulty = {r1}
  MaxJobs = 1
  MaxReceiverJobs = 2
CHECK_DEADLOCK FALSE
INVARIANTS TypeOK OutgoingEndsOnce IncomingUpdates ReceivedWhole FreedOnlyAfterGivingUp
