SPECIFICATION Spec
CONSTANTS
  LastMedium = 2
  Preferred <- OneMedium
  WifiLan = 2
  Initiators = {"a"}
  Talkers = {}
  Pingers = {"a"}
  Faults = {"break", "disconnect", "init", "connect", "timeout", "silence"}
  MaxFaults = 1
  MaxData = 0
  MaxAlarms = 1
CHECK_DEADLOCK FALSE
INVARIANTS TypeOK MediumsAgree SafeFindsEntry LastFindsEntry PausedInProgress RemovedIsResumed
