SPECIFICATION Spec
CONSTANTS
  i1 = i1
  i2 = i2
  N = 1
  Infos = {i1, i2}
  None = None
  Foreign = Foreign
  Starts = {{}, {"BLUETOOTH", "BLE", "WIFI_LAN"}}
  Radios <- OnTwo
  Macs = {}
  WebRtc = {}
  MaxChanges = 5
  MaxCalls = 1
  MaxQueue = 2
CHECK_DEADLOCK FALSE
SYMMETRY InfoSymmetry
INVARIANT LostIsGone
