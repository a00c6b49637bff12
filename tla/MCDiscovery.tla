---------------------------- MODULE MCDiscovery ----------------------------
(* Two infos are interchangeable.  (Devices are not: their ids are ordered *)
(* keys.)                                                                  *)
EXTENDS Discovery, TLC

CONSTANTS i1, i2

(* One device has every radio, the other Bluetooth Classic only.           *)
OneWithAll ==
  {<<"BLUETOOTH", 1>>, <<"BLE", 1>>, <<"WIFI_LAN", 1>>, <<"BLUETOOTH", 2>>}

(* A device that Bluetooth Classic and Wi-Fi LAN can see.                  *)
OnTwo == {<<"BLUETOOTH", 1>>, <<"WIFI_LAN", 1>>}

InfoSymmetry == Permutations({i1, i2})

=============================================================================
