SPECIFICATION FairSpec
CONSTANTS
  LastMedium = 2
  Preferred <- OneMedium
  WifiLan = 2
  Initiators = {"a", "b"}
  Talkers = {"a"}
  Pingers = {"a", "b"}
  Faults = {}
  MaxFaults = 1
  MaxData = 1
  MaxAlarms = 0
CHECK_DEADLOCK FALSE
INVARIANT FramesKept
PROPERTIES DrainEnds UpgradeEnds
