----------------------------- MODULE Discovery -----------------------------
(***************************************************************************)
(* Discovery: from what the mediums see to what the application is told    *)
(* (cpp/core/internal/p2p_cluster_pcp_handler.cc, base_pcp_handler.cc,     *)
(* client_proxy.cc and the medium classes of cpp/platform/public).         *)
(*                                                                         *)
(* A remote device is in the air on Bluetooth, BLE and Wi-Fi LAN           *)
(* independently.  A medium's callback filters the event under the         *)
(* medium's mutex, which StopDiscovery takes too, and posts a job to the   *)
(* PCP handler thread; the job changes discovered_endpoints_, one entry    *)
(* for each medium of each endpoint, and tells the client.  The API calls  *)
(* are jobs of the same thread, and the router waits for each of them.     *)
(*                                                                         *)
(* discovered_endpoints_ is a btree_multimap: the entries stand in the     *)
(* order of their keys, those of one key in the order of insertion, and    *)
(* an entry that is removed makes the later ones move up.  Here it is a    *)
(* sequence in that order (one leaf of the tree).                          *)
(***************************************************************************)
EXTENDS Integers, Sequences, FiniteSets, SequencesExt

CONSTANTS
  N,            \* remote devices are 1..N, which are also their endpoint ids
  Infos,        \* endpoint infos
  None,         \* nothing in the air, nothing known
  Foreign,      \* a name or advertisement that is not a recognised endpoint
  Starts,       \* sets of mediums whose scan may be what StartDiscovery starts,
                \* and {"OUT_OF_BAND"}
  Radios,       \* pairs of a medium and a device that can show itself there
  Macs,         \* devices whose BLE advertisement carries a Bluetooth MAC
  WebRtc,       \* devices that advertise themselves as WebRTC connectable
  MaxChanges,   \* bound: changes in the air
  MaxCalls,     \* bound: API calls
  MaxQueue      \* bound: jobs that wait for the PCP handler thread

AllMediums == {"BLUETOOTH", "BLE", "WIFI_LAN"}

Devices == 1..N

ASSUME DiscoveryAssumption ==
  /\ N \in Nat
  /\ None \notin Infos /\ Foreign \notin Infos /\ None # Foreign
  /\ Starts \subseteq (SUBSET AllMediums) \cup {{"OUT_OF_BAND"}}
  /\ Radios \subseteq AllMediums \X Devices
  /\ {MaxChanges, MaxCalls} \subseteq Nat /\ MaxQueue \in Nat \ {0}

VARIABLES
  air,                    \* medium, device -> what the device shows there
  name,                   \* device -> the name its BluetoothDevice object has
  scanning,               \* mediums whose scan is on
  bt_devices,             \* BluetoothClassicMedium::devices_
  ble_peripherals,        \* BleMedium::peripherals_
  ble_seen,               \* peripherals the platform has in range
  wifi_type_found,        \* the service type is in WifiLanMedium::discovery_services_
  wifi_seen,              \* services the platform has resolved
  queue,                  \* jobs of the PCP handler thread
  calling,                \* the router waits for an API job
  discovering,            \* ~discovery_info_.IsEmpty()
  told,                   \* device -> info of the last endpoint_found_cb, None
                          \* when it is not in discovered_endpoint_ids_
  discovered_endpoints,
  found_ble_endpoints,    \* device -> the info kept for BlePeripheralLostHandler
  sources,                \* history: ways endpoints were entered or lost since the start
  changes, calls          \* counters, for the bounds

airVars == <<air, name, changes>>
mediumVars == <<scanning, bt_devices, ble_peripherals, ble_seen, wifi_type_found,
                wifi_seen>>
handlerVars == <<discovering, told, discovered_endpoints, found_ble_endpoints, sources>>
vars == <<airVars, mediumVars, queue, calling, calls, handlerVars>>

Shown == Infos \cup {Foreign}
Sources == AllMediums \cup {"MAC", "WEB_RTC", "INJECTED", "REUSED"}

Entries == [key : Devices, id : Devices, medium : AllMediums \cup {"WEB_RTC"},
            info : Infos, rtc : BOOLEAN]

Jobs ==
  [op : {"start"}, on : Starts] \cup [op : {"stop"}]
    \cup [op : {"inject", "injected"}, dev : Devices, info : Infos]
    \cup [op : {"request"}, dev : Devices, mac : BOOLEAN]
    \cup [op : {"bt_found", "bt_changed", "ble_lost"}, dev : Devices]
    \cup [op : {"bt_lost", "ble_found", "wifi_found", "wifi_lost"},
          dev : Devices, info : Shown]

\* The multimap is ordered by its keys.
Sorted(table) == \A j, k \in DOMAIN table : j <= k => table[j].key <= table[k].key

(* What the variables may hold.  Shown but foreign names and services get  *)
(* as far as the queue; in the table and in what the application was told  *)
(* there are only recognised ones, because each handler's job checks again *)
(* the name that it reads.                                                 *)
TypeOK ==
  /\ air \in [AllMediums \X Devices -> Shown \cup {None}]
  /\ name \in [Devices -> Shown]
  /\ scanning \subseteq AllMediums
  /\ {bt_devices, ble_peripherals, ble_seen, wifi_seen} \subseteq SUBSET Devices
  /\ wifi_type_found \in BOOLEAN
  /\ queue \in Seq(Jobs) /\ Len(queue) <= MaxQueue + 1
  /\ calling \in BOOLEAN /\ discovering \in BOOLEAN
  /\ told \in [Devices -> Infos \cup {None}]
  /\ discovered_endpoints \in Seq(Entries)
  /\ Sorted(discovered_endpoints)
  /\ found_ble_endpoints \in [Devices -> Infos \cup {None}]
  /\ sources \subseteq Sources
  /\ changes \in 0..MaxChanges /\ calls \in 0..MaxCalls

Init ==
  /\ air = [p \in AllMediums \X Devices |-> None]
  /\ name = [d \in Devices |-> Foreign]
  /\ scanning = {}
  /\ bt_devices = {} /\ ble_peripherals = {} /\ ble_seen = {} /\ wifi_seen = {}
  /\ wifi_type_found = FALSE
  /\ queue = <<>> /\ calling = FALSE
  /\ discovering = FALSE
  /\ told = [d \in Devices |-> None]
  /\ discovered_endpoints = <<>>
  /\ found_ble_endpoints = [d \in Devices |-> None]
  /\ sources = {}
  /\ changes = 0 /\ calls = 0

-----------------------------------------------------------------------------
\* discovered_endpoints_ and the client's set, as s = [table, told].

Endpoint(d, medium, info) ==
  [id |-> d, medium |-> medium, info |-> info, rtc |-> d \in WebRtc]

(* Where a key's entries are, and the first of them: find and extract, by  *)
(* key, both take the first.                                               *)
EqualRange(table, e) == {k \in DOMAIN table : table[k].key = e}
First(table, e) == CHOOSE k \in EqualRange(table, e) :
                     \A j \in EqualRange(table, e) : k <= j

Value(entry) ==
  [id |-> entry.id, medium |-> entry.medium, info |-> entry.info, rtc |-> entry.rtc]

Keyed(e, endpoint) ==
  [key |-> e, id |-> endpoint.id, medium |-> endpoint.medium,
   info |-> endpoint.info, rtc |-> endpoint.rtc]

(* emplace: behind the last entry whose key is not greater.                *)
Emplaced(table, e, endpoint) ==
  InsertAt(table, Cardinality({k \in DOMAIN table : table[k].key <= e}) + 1,
           Keyed(e, endpoint))

(* ClientProxy::OnEndpointFound and OnEndpointLost, for the service that   *)
(* is being discovered.                                                    *)
ClientFound(told_, e, info) == IF told_[e] # None THEN told_ ELSE [told_ EXCEPT ![e] = info]
ClientLost(told_, e) == [told_ EXCEPT ![e] = None]

(* Wrong on purpose: the client hears of every entry that is lost.         *)
EndpointLostAlways(s, endpoint) ==
  LET e == endpoint.id
  IN  IF \/ EqualRange(s.table, e) = {}
         \/ s.table[First(s.table, e)].info # endpoint.info
        THEN s
        ELSE [table |-> RemoveAt(s.table, First(s.table, e)),
              told |-> ClientLost(s.told, e)]

(* BasePcpHandler::OnEndpointLost: it compares with, and removes, the      *)
(* first entry of the endpoint, whichever medium was lost.                 *)
EndpointLost(s, endpoint) ==
  LET e == endpoint.id
      left == RemoveAt(s.table, First(s.table, e))
  IN  IF \/ EqualRange(s.table, e) = {}
         \/ s.table[First(s.table, e)].info # endpoint.info
        THEN s
        ELSE [table |-> left,
              told |-> IF EqualRange(left, e) = {} THEN ClientLost(s.told, e) ELSE s.told]

(* BasePcpHandler::OnEndpointFound.  What its loop looks for: the first    *)
(* entry of the endpoint's id on its medium, if there is one, and whether  *)
(* its info is another.                                                    *)
OnMedium(s, endpoint) ==
  {k \in EqualRange(s.table, endpoint.id) : s.table[k].medium = endpoint.medium}
FirstOn(s, endpoint) == CHOOSE k \in OnMedium(s, endpoint) :
                          \A j \in OnMedium(s, endpoint) : k <= j
Changed(s, endpoint) ==
  /\ OnMedium(s, endpoint) # {}
  /\ s.table[FirstOn(s, endpoint)].info # endpoint.info

(* With changed info the old value is reported as lost, and the reference  *)
(* that is then assigned to is to the k-th slot of the leaf, into which    *)
(* the next entry may have moved (or to a slot that is no longer in use).  *)
Replaced(s, endpoint) ==
  LET k    == FirstOn(s, endpoint)
      lost == EndpointLost(s, Value(s.table[k]))
  IN  [table |-> IF k \in DOMAIN lost.table
                   THEN [lost.table EXCEPT ![k] = Keyed(lost.table[k].key, endpoint)]
                   ELSE lost.table,
       told |-> lost.told]

(* After that it calls itself.  What the n-th call finds; there are no     *)
(* more of them than entries.                                              *)
Calls(s, endpoint) ==
  LET call[n \in 0..Len(s.table)] ==
        IF n = 0 THEN s
        ELSE IF Changed(call[n - 1], endpoint) THEN Replaced(call[n - 1], endpoint)
        ELSE call[n - 1]
  IN  call

(* The last call.  The loop's variable is a reference to range.first, so   *)
(* that the range is empty at the end unless the loop was left early: an   *)
(* entry that is inserted is always reported.                              *)
EndpointFound(s, endpoint) ==
  LET last == Calls(s, endpoint)[Len(s.table)]
  IN  IF OnMedium(last, endpoint) # {} THEN last
      ELSE [table |-> Emplaced(last.table, endpoint.id, endpoint),
            told |-> ClientFound(last.told, endpoint.id, endpoint.info)]

-----------------------------------------------------------------------------
\* The devices, and the callbacks of the mediums.

Room == Len(queue) < MaxQueue
Post(job) == queue' = Append(queue, job)

(* A device starts to show something on a medium.  "REUSED" notes that a   *)
(* Bluetooth device is back before the jobs of its last visit have run.    *)
Appears(m, d, i) ==
  /\ changes < MaxChanges
  /\ air[<<m, d>>] = None
  /\ air' = [air EXCEPT ![<<m, d>>] = i]
  /\ name' = IF m = "BLUETOOTH" THEN [name EXCEPT ![d] = i] ELSE name
  /\ changes' = changes + 1
  /\ sources' = IF m = "BLUETOOTH" /\ \E k \in DOMAIN queue :
                      queue[k].op \in {"bt_found", "bt_changed"} /\ queue[k].dev = d
                  THEN sources \cup {"REUSED"} ELSE sources
  /\ UNCHANGED <<mediumVars, queue, calling, calls, discovering, told,
                 discovered_endpoints, found_ble_endpoints>>

(* device_discovered_cb, for a device that is not in devices_.             *)
BluetoothDiscovered(d) ==
  /\ "BLUETOOTH" \in scanning /\ Room
  /\ air[<<"BLUETOOTH", d>>] # None /\ d \notin bt_devices
  /\ bt_devices' = bt_devices \cup {d}
  /\ Post([op |-> "bt_found", dev |-> d])
  /\ UNCHANGED <<airVars, scanning, ble_peripherals, ble_seen, wifi_type_found,
                 wifi_seen, calling, calls, handlerVars>>

(* The device's name changes: device_name_changed_cb.                      *)
BluetoothRenamed(d, i) ==
  /\ changes < MaxChanges /\ Room
  /\ air[<<"BLUETOOTH", d>>] \notin {None, i}
  /\ air' = [air EXCEPT ![<<"BLUETOOTH", d>>] = i]
  /\ name' = [name EXCEPT ![d] = i]
  /\ changes' = changes + 1
  /\ IF d \in bt_devices THEN Post([op |-> "bt_changed", dev |-> d]) ELSE UNCHANGED queue
  /\ UNCHANGED <<mediumVars, calling, calls, handlerVars>>

(* The device goes away: device_lost_cb, and the handler takes the name    *)
(* the device has now.                                                     *)
BluetoothLost(d) ==
  /\ changes < MaxChanges /\ Room
  /\ air[<<"BLUETOOTH", d>>] # None
  /\ air' = [air EXCEPT ![<<"BLUETOOTH", d>>] = None]
  /\ changes' = changes + 1
  /\ bt_devices' = bt_devices \ {d}
  /\ IF d \in bt_devices
       THEN Post([op |-> "bt_lost", dev |-> d, info |-> name[d]])
       ELSE UNCHANGED queue
  /\ UNCHANGED <<name, scanning, ble_peripherals, ble_seen, wifi_type_found, wifi_seen,
                 calling, calls, handlerVars>>

(* peripheral_discovered_cb: the callback is passed on for a peripheral    *)
(* that is not in peripherals_, from which a lost one is not removed.      *)
BleDiscovered(d) ==
  /\ "BLE" \in scanning /\ Room
  /\ air[<<"BLE", d>>] # None /\ d \notin ble_seen
  /\ ble_seen' = ble_seen \cup {d}
  /\ ble_peripherals' = ble_peripherals \cup {d}
  /\ IF d \notin ble_peripherals
       THEN Post([op |-> "ble_found", dev |-> d, info |-> air[<<"BLE", d>>]])
       ELSE UNCHANGED queue
  /\ UNCHANGED <<airVars, scanning, bt_devices, wifi_type_found, wifi_seen, calling, calls,
                 handlerVars>>

(* peripheral_lost_cb.                                                     *)
BleLost(d) ==
  /\ changes < MaxChanges /\ Room
  /\ air[<<"BLE", d>>] # None
  /\ air' = [air EXCEPT ![<<"BLE", d>>] = None]
  /\ changes' = changes + 1
  /\ ble_seen' = ble_seen \ {d}
  /\ IF d \in ble_seen THEN Post([op |-> "ble_lost", dev |-> d]) ELSE UNCHANGED queue
  /\ UNCHANGED <<name, scanning, bt_devices, ble_peripherals, wifi_type_found, wifi_seen,
                 calling, calls, handlerVars>>

(* service_discovered_cb: all devices that offer the service have the same *)
(* service type, and only the first is passed on.                          *)
WifiLanDiscovered(d) ==
  /\ "WIFI_LAN" \in scanning /\ Room
  /\ air[<<"WIFI_LAN", d>>] # None /\ d \notin wifi_seen
  /\ wifi_seen' = wifi_seen \cup {d}
  /\ wifi_type_found' = TRUE
  /\ IF ~wifi_type_found
       THEN Post([op |-> "wifi_found", dev |-> d, info |-> air[<<"WIFI_LAN", d>>]])
       ELSE UNCHANGED queue
  /\ UNCHANGED <<airVars, scanning, bt_devices, ble_peripherals, ble_seen, calling, calls,
                 handlerVars>>

(* service_lost_cb.                                                        *)
WifiLanLost(d) ==
  /\ changes < MaxChanges /\ Room
  /\ air[<<"WIFI_LAN", d>>] # None
  /\ air' = [air EXCEPT ![<<"WIFI_LAN", d>>] = None]
  /\ changes' = changes + 1
  /\ wifi_seen' = wifi_seen \ {d}
  /\ IF d \in wifi_seen /\ wifi_type_found
       THEN /\ wifi_type_found' = FALSE
            /\ Post([op |-> "wifi_lost", dev |-> d, info |-> air[<<"WIFI_LAN", d>>]])
       ELSE UNCHANGED <<wifi_type_found, queue>>
  /\ UNCHANGED <<name, scanning, bt_devices, ble_peripherals, ble_seen, calling, calls,
                 handlerVars>>

-----------------------------------------------------------------------------
\* The API calls, which the router makes one at a time.

Call(job) ==
  /\ ~calling /\ calls < MaxCalls
  /\ calling' = TRUE
  /\ calls' = calls + 1
  /\ Post(job)
  /\ UNCHANGED <<airVars, mediumVars, handlerVars>>

StartDiscovery(on) == ~discovering /\ Call([op |-> "start", on |-> on])
StopDiscovery == discovering /\ Call([op |-> "stop"])
InjectEndpoint(d, i) == discovering /\ Call([op |-> "inject", dev |-> d, info |-> i])
RequestConnection(d, mac) == Call([op |-> "request", dev |-> d, mac |-> mac])

-----------------------------------------------------------------------------
\* The jobs of the PCP handler thread.

Runs(op) == queue # <<>> /\ Head(queue).op = op

(* A job that is not an API call, or that is and lets the router go.       *)
Done == queue' = Tail(queue) /\ UNCHANGED <<calling, calls>>
Returns == queue' = Tail(queue) /\ calling' = FALSE /\ UNCHANGED calls

State == [table |-> discovered_endpoints, told |-> told]
Becomes(s) == discovered_endpoints' = s.table /\ told' = s.told

(* StartDiscoveryImpl starts the scans of the allowed mediums, of which    *)
(* "on" succeed; with one at least, or none asked for as the endpoints are *)
(* to be injected, the old endpoints are forgotten and the client is       *)
(* marked as discovering.                                                  *)
StartJob ==
  /\ Runs("start")
  /\ LET on == Head(queue).on
     IN  IF on = {}
           THEN UNCHANGED <<mediumVars, handlerVars>>
           ELSE /\ scanning' = on \ {"OUT_OF_BAND"}
                /\ bt_devices' = {} /\ ble_peripherals' = {} /\ ble_seen' = {}
                /\ wifi_type_found' = FALSE /\ wifi_seen' = {}
                /\ discovered_endpoints' = <<>>
                /\ discovering' = TRUE
                /\ sources' = {}
                /\ UNCHANGED <<told, found_ble_endpoints>>
  /\ Returns
  /\ UNCHANGED airVars

(* StopDiscoveryImpl stops the scans, and the client forgets what it was   *)
(* told; discovered_endpoints_ and found_ble_endpoints_ stay.              *)
StopJob ==
  /\ Runs("stop")
  /\ scanning' = {}
  /\ bt_devices' = {} /\ ble_peripherals' = {} /\ ble_seen' = {}
  /\ wifi_type_found' = FALSE /\ wifi_seen' = {}
  /\ discovering' = FALSE
  /\ told' = [d \in Devices |-> None]
  /\ Returns
  /\ UNCHANGED <<airVars, discovered_endpoints, found_ble_endpoints, sources>>

(* InjectEndpointImpl makes a Bluetooth device of the given name, and      *)
(* hands it to BluetoothDeviceDiscoveredHandler, which posts its job.      *)
InjectJob ==
  /\ Runs("inject")
  /\ queue' = Append(Tail(queue), [op |-> "injected", dev |-> Head(queue).dev,
                                   info |-> Head(queue).info])
  /\ calling' = FALSE
  /\ UNCHANGED <<airVars, mediumVars, calls, handlerVars>>

(* AppendRemoteBluetoothMacAddressEndpoint and AppendWebRTCEndpoint.       *)
WithMac(table, d) ==
  IF \E k \in EqualRange(table, d) : table[k].medium = "BLUETOOTH"
    THEN table
    ELSE Emplaced(table, d, [id |-> d, medium |-> "BLUETOOTH", rtc |-> FALSE,
                             info |-> table[First(table, d)].info])
WithWebRtc(table, d) ==
  IF \A k \in EqualRange(table, d) : ~table[k].rtc
    THEN table
    ELSE Emplaced(table, d, [id |-> d, medium |-> "WEB_RTC", rtc |-> TRUE,
                             info |-> table[First(table, d)].info])

(* What RequestConnection does to the discovered endpoints before it       *)
(* connects; for an endpoint that is not there it fails.                   *)
RequestJob ==
  /\ Runs("request")
  /\ LET d    == Head(queue).dev
         more == WithWebRtc(IF Head(queue).mac THEN WithMac(discovered_endpoints, d)
                                               ELSE discovered_endpoints, d)
     IN  IF EqualRange(discovered_endpoints, d) = {}
           THEN UNCHANGED handlerVars
           ELSE /\ discovered_endpoints' = more
                /\ sources' = IF more = discovered_endpoints THEN sources
                              ELSE sources \cup {"MAC", "WEB_RTC"}
                /\ UNCHANGED <<discovering, told, found_ble_endpoints>>
  /\ Returns
  /\ UNCHANGED <<airVars, mediumVars>>

(* BluetoothDeviceDiscoveredHandler's job: the name is the one the device  *)
(* has when the job runs.                                                  *)
BluetoothFoundJob ==
  /\ \E op \in {"bt_found", "injected"} : Runs(op)
  /\ LET d == Head(queue).dev
         i == IF Head(queue).op = "injected" THEN Head(queue).info ELSE name[d]
     IN  IF ~discovering \/ i = Foreign
           THEN UNCHANGED handlerVars
           ELSE /\ Becomes(EndpointFound(State, Endpoint(d, "BLUETOOTH", i)))
                /\ sources' = sources \cup
                     {IF Head(queue).op = "injected" THEN "INJECTED" ELSE "BLUETOOTH"}
                /\ UNCHANGED <<discovering, found_ble_endpoints>>
  /\ Done
  /\ UNCHANGED <<airVars, mediumVars>>

(* The Bluetooth entries of a device: those with its MAC address.          *)
OfDevice(table, d) == {k \in DOMAIN table : table[k].medium = "BLUETOOTH" /\ table[k].id = d}

(* Wrong on purpose: the entry of the old name is not looked for.          *)
BluetoothChangedJobFinds ==
  /\ Runs("bt_changed")
  /\ LET d == Head(queue).dev
     IN  IF ~discovering \/ name[d] = Foreign
           THEN UNCHANGED handlerVars
           ELSE /\ Becomes(EndpointFound(State, Endpoint(d, "BLUETOOTH", name[d])))
                /\ sources' = sources \cup {"BLUETOOTH"}
                /\ UNCHANGED <<discovering, found_ble_endpoints>>
  /\ Done
  /\ UNCHANGED <<airVars, mediumVars>>

(* Wrong on purpose: the new name is taken for one of this service.        *)
BluetoothChangedJobUnrecognized ==
  /\ Runs("bt_changed")
  /\ LET d    == Head(queue).dev
         mine == OfDevice(discovered_endpoints, d)
         k    == CHOOSE i \in mine : \A j \in mine : i <= j
         lost == IF mine = {} THEN State
                 ELSE EndpointLost(State, Value(discovered_endpoints[k]))
     IN  IF ~discovering
           THEN UNCHANGED handlerVars
           ELSE /\ Becomes(EndpointFound(lost, Endpoint(d, "BLUETOOTH", name[d])))
                /\ sources' = sources \cup {"BLUETOOTH"}
                /\ UNCHANGED <<discovering, found_ble_endpoints>>
  /\ Done
  /\ UNCHANGED <<airVars, mediumVars>>

(* BluetoothNameChangedHandler's job: the first entry with the device's    *)
(* MAC address is lost, and the new name found.                            *)
BluetoothChangedJob ==
  /\ Runs("bt_changed")
  /\ LET d    == Head(queue).dev
         mine == OfDevice(discovered_endpoints, d)
         k    == CHOOSE i \in mine : \A j \in mine : i <= j
         lost == IF mine = {} THEN State
                 ELSE EndpointLost(State, Value(discovered_endpoints[k]))
     IN  IF ~discovering
           THEN UNCHANGED handlerVars
           ELSE /\ Becomes(IF name[d] = Foreign THEN lost
                           ELSE EndpointFound(lost, Endpoint(d, "BLUETOOTH", name[d])))
                /\ sources' = sources \cup {"BLUETOOTH"}
                /\ UNCHANGED <<discovering, found_ble_endpoints>>
  /\ Done
  /\ UNCHANGED <<airVars, mediumVars>>

(* BluetoothDeviceLostHandler's and WifiLanServiceLostHandler's jobs.      *)
LostJob ==
  /\ \E op \in {"bt_lost", "wifi_lost"} : Runs(op)
  /\ LET d == Head(queue).dev
         i == Head(queue).info
     IN  IF ~discovering \/ i = Foreign
           THEN UNCHANGED handlerVars
           ELSE /\ Becomes(EndpointLost(State, [id |-> d, info |-> i]))
                /\ sources' = sources \cup
                     {IF Head(queue).op = "bt_lost" THEN "BLUETOOTH" ELSE "WIFI_LAN"}
                /\ UNCHANGED <<discovering, found_ble_endpoints>>
  /\ Done
  /\ UNCHANGED <<airVars, mediumVars>>

(* BlePeripheralDiscoveredHandler's job: what the lost handler will need   *)
(* is kept unless something is kept already, and an advertised MAC address *)
(* makes a Bluetooth entry too.                                            *)
BleFoundJob ==
  /\ Runs("ble_found")
  /\ LET d   == Head(queue).dev
         i   == Head(queue).info
         ble == EndpointFound(State, Endpoint(d, "BLE", i))
     IN  IF ~discovering \/ i = Foreign
           THEN UNCHANGED handlerVars
           ELSE /\ found_ble_endpoints' = IF found_ble_endpoints[d] # None
                                            THEN found_ble_endpoints
                                            ELSE [found_ble_endpoints EXCEPT ![d] = i]
                /\ Becomes(IF d \in Macs
                             THEN EndpointFound(ble, Endpoint(d, "BLUETOOTH", i))
                             ELSE ble)
                /\ sources' = sources \cup (IF d \in Macs THEN {"BLE", "MAC"} ELSE {"BLE"})
                /\ UNCHANGED discovering
  /\ Done
  /\ UNCHANGED <<airVars, mediumVars>>

(* BlePeripheralLostHandler's job.                                         *)
BleLostJob ==
  /\ Runs("ble_lost")
  /\ LET d == Head(queue).dev
     IN  IF ~discovering \/ found_ble_endpoints[d] = None
           THEN UNCHANGED handlerVars
           ELSE /\ found_ble_endpoints' = [found_ble_endpoints EXCEPT ![d] = None]
                /\ Becomes(EndpointLost(State, [id |-> d, info |-> found_ble_endpoints[d]]))
                /\ sources' = sources \cup {"BLE"}
                /\ UNCHANGED discovering
  /\ Done
  /\ UNCHANGED <<airVars, mediumVars>>

(* WifiLanServiceDiscoveredHandler's job.                                  *)
WifiLanFoundJob ==
  /\ Runs("wifi_found")
  /\ LET d == Head(queue).dev
         i == Head(queue).info
     IN  IF ~discovering \/ i = Foreign
           THEN UNCHANGED handlerVars
           ELSE /\ Becomes(EndpointFound(State, Endpoint(d, "WIFI_LAN", i)))
                /\ sources' = sources \cup {"WIFI_LAN"}
                /\ UNCHANGED <<discovering, found_ble_endpoints>>
  /\ Done
  /\ UNCHANGED <<airVars, mediumVars>>

Next ==
  \/ \E r \in Radios, i \in Shown : Appears(r[1], r[2], i)
  \/ \E d \in Devices :
       \/ BluetoothDiscovered(d)
       \/ \E i \in Shown : BluetoothRenamed(d, i)
       \/ BluetoothLost(d)
       \/ BleDiscovered(d)
       \/ BleLost(d)
       \/ WifiLanDiscovered(d)
       \/ WifiLanLost(d)
       \/ \E i \in Infos : InjectEndpoint(d, i)
       \/ \E mac \in BOOLEAN : RequestConnection(d, mac)
  \/ \E on \in Starts : StartDiscovery(on)
  \/ StopDiscovery
  \/ StartJob \/ StopJob \/ InjectJob \/ RequestJob
  \/ BluetoothFoundJob \/ BluetoothChangedJob \/ LostJob
  \/ BleFoundJob \/ BleLostJob \/ WifiLanFoundJob

Spec == Init /\ [][Next]_vars

-----------------------------------------------------------------------------
\* What the code keeps.

(* What the application believes and what the handler can connect to are   *)
(* the same: between two jobs, an endpoint has been reported as found and  *)
(* not as lost exactly if discovered_endpoints_ has an entry for it, so    *)
(* that RequestConnection for an endpoint the application sees is never    *)
(* answered with kEndpointUnknown.  The report is made on the first entry  *)
(* and withdrawn with the last, in any order of found, changed and lost    *)
(* events of the mediums, of injected endpoints, of requests that append   *)
(* entries, and across discoveries.                                        *)
FoundHasEntry ==
  \A d \in Devices :
    IF discovering THEN told[d] # None <=> EqualRange(discovered_endpoints, d) # {}
                   ELSE told[d] = None

(* As long as Bluetooth Classic is all that has found or lost anything     *)
(* since the discovery started, the application knows, when no job waits,  *)
(* exactly the recognised devices in range, each with the name it has now, *)
(* although the jobs of a device run behind its renamings and losses and   *)
(* read its name only when they run.                                       *)
ExactOnBluetooth ==
  discovering /\ queue = <<>> /\ sources \subseteq {"BLUETOOTH"} =>
    \A d \in Devices :
      told[d] = IF d \in bt_devices /\ name[d] # Foreign THEN name[d] ELSE None

-----------------------------------------------------------------------------
\* What a comment promises, and the code does not keep.

(* listeners.h, on endpoint_lost_cb: "Called when a remote endpoint is no  *)
(* longer discoverable".  When no job waits, an endpoint that a scan has   *)
(* found and not lost is not one the application believes lost.            *)
LostIsGone ==
  discovering /\ queue = <<>> =>
    \A d \in bt_devices : name[d] # Foreign => told[d] # None

=============================================================================
