SPECIFICATION FairSpec
CONSTANTS
  LastMedium = 2
  Preferred <- OneMedium
  WifiLan = 2
  Initiators = {"a"}
  Talkers = {}
  Pingers = {"a", "b"}
  Faults = {"break", "silence"}
  MaxFaults = 2
  MaxData = 0
  MaxAlarms = 0
CHECK_DEADLOCK FALSE
PROPERTY SilenceEnds
