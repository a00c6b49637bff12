------------------------ MODULE LocalEndpointProofs ------------------------
(***************************************************************************)
(* What LocalEndpoint keeps, for every set of endpoints and services and   *)
(* every number of ids.                                                    *)
(***************************************************************************)
EXTENDS LocalEndpoint, TLAPS

(***************************************************************************)
(* An id in use, cached or advertised was drawn before: it is at most      *)
(* issued.  Type correctness needs this of local_endpoint_id, or an id     *)
(* drawn next could leave its range.                                       *)
(***************************************************************************)
IdsDrawn ==
  /\ local_endpoint_id <= issued
  /\ cache_endpoint_id <= issued

TypeInv == TypeOK /\ IdsDrawn

(* GetLocalEndpointId keeps the id in range and counts the one it draws.   *)
LEMMA GetIdType ==
  ASSUME NEW hv \in BOOLEAN, TypeInv, GetId(hv)
  PROVE  /\ issued' \in 0..MaxIds
         /\ local_endpoint_id' \in Ids
         /\ forgotten' \subseteq Ids
         /\ local_endpoint_id' <= issued'
         /\ cache_endpoint_id <= issued'
         /\ local_endpoint_id # NoId => local_endpoint_id' = local_endpoint_id
  BY LocalEndpointAssumption
     DEF TypeInv, TypeOK, IdsDrawn, GetId, GeneratedId, NoId, Ids

(* The initial state is well typed, and no id has been drawn in it.        *)
LEMMA TypeInvInit == Init => TypeInv
<1> SUFFICES ASSUME Init PROVE TypeInv
  OBVIOUS
<1>1. /\ IdsDrawn
      /\ issued \in 0..MaxIds
      /\ {local_endpoint_id, cache_endpoint_id, advertised} \subseteq {NoId} \cup Ids
  BY LocalEndpointAssumption DEF Init, IdsDrawn, NoId, Ids
<1>2. {high_vis_mode, alarm, clearing, starting, advertising} \subseteq BOOLEAN
  BY DEF Init
<1> QED
  BY <1>1, <1>2 DEF Init, TypeInv, TypeOK

(* Every method keeps its fields in their ranges.                          *)
LEMMA TypeInvStep == TypeInv /\ [Next]_vars => TypeInv'
<1> SUFFICES ASSUME TypeInv, [Next]_vars PROVE TypeInv'
  OBVIOUS
<1> USE LocalEndpointAssumption DEF TypeInv, TypeOK, IdsDrawn,
      idVars, cacheVars, advVars, discoveryVars, peerVars, historyVars
<1>a. NoId <= issued
  BY DEF NoId
<1>1. ASSUME NEW hv \in BOOLEAN, BeginAdvertising(hv) PROVE TypeInv'
  <2>1. GetId(hv \/ high_vis_mode)
    BY <1>1 DEF BeginAdvertising
  <2>2. (hv \/ high_vis_mode) \in BOOLEAN
    OBVIOUS
  <2> QED
    BY <1>1, <2>1, <2>2, GetIdType DEF BeginAdvertising
<1>2. CASE StartedAdvertising
  BY <1>2 DEF StartedAdvertising
<1>0. ExitHighVisibilityMode =>
        /\ high_vis_mode' \in BOOLEAN /\ alarm' \in BOOLEAN
        /\ cache_endpoint_id' = cache_endpoint_id /\ clearing' = clearing
  BY DEF ExitHighVisibilityMode
<1>3. CASE AdvertisingFailed
  BY <1>0, <1>3 DEF AdvertisingFailed
<1>4. CASE StopAdvertising
  <2>1. CASE connections = {} /\ ~IsDiscovering
    BY <1>a, <1>0, <1>4, <2>1 DEF StopAdvertising
  <2>2. CASE ~(connections = {} /\ ~IsDiscovering)
    <3>1. GetId(high_vis_mode)
      BY <1>4, <2>2 DEF StopAdvertising
    <3> QED
      BY <1>0, <1>4, <3>1, GetIdType DEF StopAdvertising
  <2> QED
    BY <2>1, <2>2
<1>5. ASSUME NEW s \in Services, StartedDiscovery(s) PROVE TypeInv'
  BY <1>5 DEF StartedDiscovery
<1>6. CASE StoppedDiscovery
  BY <1>a, <1>6 DEF StoppedDiscovery, ResetIdIfNeeded
<1>7. ASSUME NEW s \in Services, NEW e \in Endpoints, OnEndpointFound(s, e)
      PROVE  TypeInv'
  BY <1>7 DEF OnEndpointFound
<1>8. ASSUME NEW s \in Services, NEW e \in Endpoints, OnEndpointLost(s, e)
      PROVE  TypeInv'
  BY <1>8 DEF OnEndpointLost
<1>9. ASSUME NEW e \in Endpoints, RequestConnection(e) PROVE TypeInv'
  <2>1. GetId(high_vis_mode)
    BY <1>9 DEF RequestConnection
  <2> QED
    BY <1>9, <2>1, GetIdType DEF RequestConnection
<1>10. ASSUME NEW e \in Endpoints, OnIncomingConnection(e) PROVE TypeInv'
  BY <1>10 DEF OnIncomingConnection
<1>11. ASSUME NEW e \in Endpoints, ConnectionFailed(e) PROVE TypeInv'
  BY <1>11 DEF ConnectionFailed
<1>12. ASSUME NEW e \in Endpoints, OnConnectionInitiated(e) PROVE TypeInv'
  BY <1>12 DEF OnConnectionInitiated
<1>13. ASSUME NEW e \in Endpoints, OnDisconnected(e) PROVE TypeInv'
  BY <1>a, <1>13 DEF OnDisconnected, ResetIdIfNeeded
<1>14. CASE IntroduceOnUpgrade
  <2>1. GetId(high_vis_mode)
    BY <1>14 DEF IntroduceOnUpgrade
  <2> QED
    BY <1>14, <2>1, GetIdType DEF IntroduceOnUpgrade
<1>15. CASE Reset
  BY <1>a, <1>0, <1>15 DEF Reset
<1>16. CASE AlarmFires
  BY <1>16 DEF AlarmFires
<1>17. CASE ClearCache
  BY <1>a, <1>17 DEF ClearCache
<1>18. CASE UNCHANGED vars
  BY <1>18 DEF vars
<1> QED
  BY <1>1, <1>2, <1>3, <1>4, <1>5, <1>6, <1>7, <1>8, <1>9, <1>10, <1>11,
     <1>12, <1>13, <1>14, <1>15, <1>16, <1>17, <1>18 DEF Next

(* TypeOK is an invariant: every method of ClientProxy that is modelled    *)
(* keeps its fields in their ranges, whatever the order of the calls.      *)
THEOREM TypeCorrect == Spec => []TypeOK
<1>1. TypeInv => TypeOK
  BY DEF TypeInv
<1> QED
  BY <1>1, TypeInvInit, TypeInvStep, PTL DEF Spec

(* A cached high-visibility id never outlives the alarm that forgets it:   *)
(* CacheExpires is inductive as it stands.                                 *)
THEOREM CacheAlwaysExpires == Spec => []CacheExpires
<1>1. Init => CacheExpires
  BY DEF Init, CacheExpires
<1>2. CacheExpires /\ [Next]_vars => CacheExpires'
  <2> SUFFICES ASSUME CacheExpires, [Next]_vars PROVE CacheExpires'
    OBVIOUS
  <2> USE DEF CacheExpires, NoId, cacheVars, advVars, ExitHighVisibilityMode
  <2>1. ASSUME NEW hv \in BOOLEAN, BeginAdvertising(hv) PROVE CacheExpires'
    BY <2>1 DEF BeginAdvertising
  <2>2. CASE StartedAdvertising
    BY <2>2 DEF StartedAdvertising
  <2>3. CASE AdvertisingFailed
    BY <2>3 DEF AdvertisingFailed
  <2>4. CASE StopAdvertising
    BY <2>4 DEF StopAdvertising
  <2>5. CASE Reset
    BY <2>5 DEF Reset
  <2>6. CASE AlarmFires
    BY <2>6 DEF AlarmFires
  <2>7. CASE ClearCache
    BY <2>7 DEF ClearCache
  <2>8. CASE UNCHANGED <<cacheVars, advVars>>
    BY <2>8
  <2>9. (\E s \in Services : StartedDiscovery(s)) \/ StoppedDiscovery
          \/ (\E s \in Services, e \in Endpoints :
                OnEndpointFound(s, e) \/ OnEndpointLost(s, e))
          \/ (\E e \in Endpoints :
                \/ RequestConnection(e) \/ OnIncomingConnection(e)
                \/ ConnectionFailed(e) \/ OnConnectionInitiated(e)
                \/ OnDisconnected(e))
          \/ IntroduceOnUpgrade \/ UNCHANGED vars
        => UNCHANGED <<cacheVars, advVars>>
    BY DEF StartedDiscovery, StoppedDiscovery, OnEndpointFound, OnEndpointLost,
           RequestConnection, OnIncomingConnection, ConnectionFailed,
           OnConnectionInitiated, OnDisconnected, IntroduceOnUpgrade, vars
  <2> QED
    BY <2>1, <2>2, <2>3, <2>4, <2>5, <2>6, <2>7, <2>8, <2>9 DEF Next
<1> QED
  BY <1>1, <1>2, PTL DEF Spec

(* ReportedOnce needs to know that discovered_endpoint_ids_ is empty       *)
(* between sessions, because StartedDiscovery does not clear it.           *)
SessionInv ==
  /\ reported \in [Endpoints -> Int]
  /\ ~IsDiscovering => discovered = {}
  /\ ReportedOnce

(* In every discovery session the application is told of an endpoint once, *)
(* and told that it is lost only if it was told of it.                     *)
THEOREM AlwaysReportedOnce == Spec => []ReportedOnce
<1> USE LocalEndpointAssumption
<1>1. Init => SessionInv
  BY DEF Init, SessionInv, ReportedOnce, IsDiscovering
<1>2. SessionInv /\ [Next]_vars => SessionInv'
  <2> SUFFICES ASSUME SessionInv, [Next]_vars PROVE SessionInv'
    OBVIOUS
  <2> USE DEF SessionInv, ReportedOnce, IsDiscovering, discoveryVars
  <2>1. ASSUME NEW s \in Services, StartedDiscovery(s) PROVE SessionInv'
    BY <2>1 DEF StartedDiscovery
  <2>2. CASE StoppedDiscovery
    BY <2>2 DEF StoppedDiscovery
  <2>3. ASSUME NEW s \in Services, NEW e \in Endpoints, OnEndpointFound(s, e)
        PROVE  SessionInv'
    BY <2>3 DEF OnEndpointFound
  <2>4. ASSUME NEW s \in Services, NEW e \in Endpoints, OnEndpointLost(s, e)
        PROVE  SessionInv'
    BY <2>4 DEF OnEndpointLost
  <2>5. CASE Reset
    BY <2>5 DEF Reset
  <2>6. CASE UNCHANGED discoveryVars
    BY <2>6
  <2>7. (\E hv \in BOOLEAN : BeginAdvertising(hv)) \/ StartedAdvertising
          \/ AdvertisingFailed \/ StopAdvertising
          \/ (\E e \in Endpoints :
                \/ RequestConnection(e) \/ OnIncomingConnection(e)
                \/ ConnectionFailed(e) \/ OnConnectionInitiated(e)
                \/ OnDisconnected(e))
          \/ IntroduceOnUpgrade \/ AlarmFires \/ ClearCache \/ UNCHANGED vars
        => UNCHANGED discoveryVars
    BY DEF BeginAdvertising, StartedAdvertising, AdvertisingFailed,
           StopAdvertising, RequestConnection, OnIncomingConnection,
           ConnectionFailed, OnConnectionInitiated, OnDisconnected,
           IntroduceOnUpgrade, AlarmFires, ClearCache, vars
  <2> QED
    BY <2>1, <2>2, <2>3, <2>4, <2>5, <2>6, <2>7 DEF Next
<1>3. SessionInv => ReportedOnce
  BY DEF SessionInv
<1> QED
  BY <1>1, <1>2, <1>3, PTL DEF Spec

(* KnownIdInUse, with what keeps it: an id that is being advertised is     *)
(* already known before the mark is set, and only the endpoints that are   *)
(* connected or waited for were told one.                                  *)
KnownInv ==
  /\ starting \/ advertising
       => advertised # NoId /\ advertised \in {local_endpoint_id} \cup forgotten
  /\ \A e \in Endpoints : introduced[e] # NoId
       => /\ introduced[e] \in {local_endpoint_id} \cup forgotten
          /\ e \in requesting \cup connections

(* GetLocalEndpointId replaces no id in use, so what was known stays known: *)
(* an id that is no longer forgotten is the one now in use.                 *)
LEMMA GetIdKeeps ==
  ASSUME NEW hv, GetId(hv), NEW i \in {local_endpoint_id} \cup forgotten, i # NoId
  PROVE  i \in {local_endpoint_id'} \cup forgotten'
  BY DEF GetId, NoId

(* A clear leaves an id known only as a forgotten one.                     *)
LEMMA ResetKeeps ==
  ASSUME NEW conns, NEW adv, NEW service,
         local_endpoint_id' = ResetIdIfNeeded(conns, adv, service)
  PROVE  \/ local_endpoint_id' = local_endpoint_id
         \/ /\ local_endpoint_id' = NoId /\ conns = {} /\ ~adv
  BY DEF ResetIdIfNeeded

(* The id in use is the one that is advertised and that the peers we asked *)
(* know, unless a disconnection cleared it between the moment it was given *)
(* away and the moment something kept it.                                  *)
THEOREM KnownIdAlwaysInUse == Spec => []KnownIdInUse
<1>1. Init => TypeInv /\ KnownInv
  BY TypeInvInit DEF Init, KnownInv, NoId
<1>2. TypeInv /\ KnownInv /\ [Next]_vars => (TypeInv /\ KnownInv)'
  <2> SUFFICES ASSUME TypeInv, KnownInv, [Next]_vars PROVE KnownInv'
    BY TypeInvStep
  <2>t. /\ introduced \in [Endpoints -> {NoId} \cup Ids]
        /\ requesting \subseteq pending /\ connections \subseteq Endpoints
        /\ local_endpoint_id \in {NoId} \cup Ids
    BY DEF TypeInv, TypeOK
  <2> USE DEF KnownInv
  <2>1. ASSUME NEW hv \in BOOLEAN, BeginAdvertising(hv) PROVE KnownInv'
    <3>1. GetId(hv \/ high_vis_mode)
      BY <2>1 DEF BeginAdvertising
    <3>2. UNCHANGED <<introduced, requesting, connections>> /\ advertised' = local_endpoint_id'
      BY <2>1 DEF BeginAdvertising, peerVars
    <3>3. (hv \/ high_vis_mode) \in BOOLEAN
      BY DEF TypeInv, TypeOK
    <3>4. local_endpoint_id' \in Ids
      BY <3>1, <3>3, GetIdType
    <3>5. local_endpoint_id' # NoId
      BY <3>4, LocalEndpointAssumption DEF NoId, Ids
    <3> QED
      BY <3>1, <3>2, <3>5, GetIdKeeps
  <2>2. CASE StartedAdvertising
    BY <2>2 DEF StartedAdvertising, idVars, peerVars, historyVars
  <2>3. CASE AdvertisingFailed
    BY <2>3 DEF AdvertisingFailed, idVars, peerVars, historyVars
  <2>4. CASE StopAdvertising
    <3>1. /\ UNCHANGED <<introduced, requesting, connections, starting>>
          /\ requesting = {} /\ ~starting /\ ~advertising'
      BY <2>4 DEF StopAdvertising, RouterFree, peerVars
    <3>2. CASE connections = {} /\ ~IsDiscovering
      BY <3>1, <3>2
    <3>3. CASE ~(connections = {} /\ ~IsDiscovering)
      <4>1. GetId(high_vis_mode)
        BY <2>4, <3>3 DEF StopAdvertising
      <4> QED
        BY <3>1, <4>1, GetIdKeeps
    <3> QED
      BY <3>2, <3>3
  <2>5. CASE StoppedDiscovery
    <3>1. /\ UNCHANGED <<introduced, requesting, connections, starting, advertising, advertised, forgotten>>
          /\ requesting = {} /\ ~starting
      BY <2>5 DEF StoppedDiscovery, RouterFree, peerVars, advVars, historyVars
    <3>2. \/ local_endpoint_id' = local_endpoint_id
          \/ connections = {} /\ ~advertising
      BY <2>5, ResetKeeps DEF StoppedDiscovery
    <3> QED
      BY <3>1, <3>2
  <2>6. ASSUME NEW e \in Endpoints, RequestConnection(e) PROVE KnownInv'
    <3>1. GetId(high_vis_mode)
      BY <2>6 DEF RequestConnection
    <3>2. /\ UNCHANGED <<connections, starting, advertising, advertised>>
          /\ requesting = {} /\ requesting' = {e} /\ ~starting
          /\ introduced' = [introduced EXCEPT ![e] = local_endpoint_id']
      BY <2>6 DEF RequestConnection, RouterFree, advVars
    <3>3. advertising'
           => advertised' # NoId /\ advertised' \in {local_endpoint_id'} \cup forgotten'
      BY <3>1, <3>2, GetIdKeeps
    <3>4. ASSUME NEW x \in Endpoints, introduced'[x] # NoId
          PROVE  /\ introduced'[x] \in {local_endpoint_id'} \cup forgotten'
                 /\ x \in requesting' \cup connections'
      <4>1. CASE x = e
        BY <3>2, <4>1, <2>t
      <4>2. CASE x # e
        <5>1. introduced'[x] = introduced[x]
          BY <3>2, <4>2, <2>t
        <5> QED
          BY <3>1, <3>2, <3>4, <5>1, GetIdKeeps
      <4> QED
        BY <4>1, <4>2
    <3> QED
      BY <3>2, <3>3, <3>4
  <2>7. ASSUME NEW e \in Endpoints, OnIncomingConnection(e) PROVE KnownInv'
    BY <2>7 DEF OnIncomingConnection, idVars, advVars, historyVars
  <2>8. ASSUME NEW e \in Endpoints, ConnectionFailed(e) PROVE KnownInv'
    BY <2>8, <2>t DEF ConnectionFailed, idVars, advVars
  <2>9. ASSUME NEW e \in Endpoints, OnConnectionInitiated(e) PROVE KnownInv'
    BY <2>9 DEF OnConnectionInitiated, idVars, advVars, historyVars
  <2>10. ASSUME NEW e \in Endpoints, OnDisconnected(e) PROVE KnownInv'
    <3>1. /\ UNCHANGED <<requesting, starting, advertising, advertised>>
          /\ connections' = connections \ {e}
          /\ introduced' = [introduced EXCEPT ![e] = NoId]
          /\ forgotten' = forgotten \cup
               {i \in Ids : /\ i = local_endpoint_id /\ local_endpoint_id' = NoId
                            /\ starting \/ requesting # {}}
      BY <2>10 DEF OnDisconnected, advVars
    <3>2. \/ local_endpoint_id' = local_endpoint_id
          \/ local_endpoint_id' = NoId /\ connections \ {e} = {} /\ ~advertising
      BY <2>10, ResetKeeps DEF OnDisconnected
    <3>3. CASE local_endpoint_id' = local_endpoint_id
      BY <3>1, <3>3, <2>t
    <3>4. CASE local_endpoint_id' = NoId /\ connections \ {e} = {} /\ ~advertising
      <4>1. starting' => advertised' # NoId /\ advertised' \in {local_endpoint_id'} \cup forgotten'
        BY <3>1, <3>4, <2>t
      <4>2. ASSUME NEW x \in Endpoints, introduced'[x] # NoId
            PROVE  /\ introduced'[x] \in {local_endpoint_id'} \cup forgotten'
                   /\ x \in requesting' \cup connections'
        <5>1. x # e /\ introduced'[x] = introduced[x]
          BY <3>1, <4>2, <2>t
        <5>2. x \in requesting
          BY <3>4, <4>2, <5>1
        <5> QED
          BY <3>1, <3>4, <4>2, <5>1, <5>2, <2>t
      <4> QED
        BY <3>1, <3>4, <4>1, <4>2
    <3> QED
      BY <3>2, <3>3, <3>4
  <2>11. CASE IntroduceOnUpgrade
    <3>1. GetId(high_vis_mode)
      BY <2>11 DEF IntroduceOnUpgrade
    <3>2. UNCHANGED <<introduced, requesting, connections, starting, advertising, advertised>>
      BY <2>11 DEF IntroduceOnUpgrade, peerVars, advVars
    <3>3. starting' \/ advertising'
           => advertised' # NoId /\ advertised' \in {local_endpoint_id'} \cup forgotten'
      BY <3>1, <3>2, GetIdKeeps
    <3> QED
      BY <3>1, <3>2, <3>3, GetIdKeeps
  <2>12. CASE Reset
    BY <2>12 DEF Reset, RouterFree
  <2>13. (\E s \in Services : StartedDiscovery(s))
           \/ (\E s \in Services, e \in Endpoints :
                 OnEndpointFound(s, e) \/ OnEndpointLost(s, e))
           \/ AlarmFires \/ ClearCache \/ UNCHANGED vars
         => UNCHANGED <<local_endpoint_id, advVars, peerVars, historyVars>>
    BY DEF StartedDiscovery, OnEndpointFound, OnEndpointLost, AlarmFires,
           ClearCache, vars, idVars
  <2>14. CASE UNCHANGED <<local_endpoint_id, advVars, peerVars, historyVars>>
    BY <2>14 DEF advVars, peerVars, historyVars
  <2> QED
    BY <2>1, <2>2, <2>3, <2>4, <2>5, <2>6, <2>7, <2>8, <2>9, <2>10, <2>11,
       <2>12, <2>13, <2>14 DEF Next
<1>3. KnownInv => KnownIdInUse
  BY DEF KnownInv, KnownIdInUse
<1> QED
  BY <1>1, <1>2, <1>3, PTL DEF Spec

=============================================================================
