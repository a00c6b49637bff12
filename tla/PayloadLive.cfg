SPECIFICATION FairSpec
CONSTANTS
  r1 = r1
  r2 = r2
  p1 = p1
  p2 = p2
  Receivers = {r1}
  Payloads = {p1}
  Size = 1
  ResumeOffset = 0
  Faults = {"cancel", "break", "stop"}
  Faulty = {r1}
  MaxJobs = 1
  MaxReceiverJobs = 1
CHECK_DEADLOCK FALSE
PROPERTIES PayloadEnds SenderIsTold ReceiverIsTold ShutdownEnds
