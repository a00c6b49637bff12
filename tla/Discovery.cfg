SPECIFICATION Spec
CONSTANTS
  i1 = i1
  i2 = i2
  N = 2
  Infos = {i1, i2}
  None = None
  Foreign = Foreign
  Starts = {{}, {"OUT_OF_BAND"}, {"BLUETOOTH", "BLE", "WIFI_LAN"}}
  Radios <- OneWithAll
  Macs = {1}
  WebRtc = {2}
  MaxChanges = 4
  MaxCalls = 3
  MaxQueue = 2
CHECK_DEADLOCK FALSE
SYMMETRY InfoSymmetry
INVARIANTS TypeOK FoundHasEntry ExactOnBluetooth
