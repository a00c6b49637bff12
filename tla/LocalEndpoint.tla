--------------------------- MODULE LocalEndpoint ---------------------------
(***************************************************************************)
(* The identity and discovery half of ClientProxy                          *)
(* (cpp/core/internal/client_proxy.cc): the endpoint id this device is     *)
(* known by, the high-visibility cache of that id and its 30 s alarm, the  *)
(* advertising and discovery marks, and the discovery callbacks.           *)
(*                                                                         *)
(* Every ClientProxy method holds one recursive mutex from its first line  *)
(* to its last, so each of them is one atomic step.  The actors are the    *)
(* API router and the PCP handler thread (which runs one job at a time and *)
(* blocks the router meanwhile), the EndpointManager thread (which adds    *)
(* and removes connections), and the executor of the alarm.                *)
(*                                                                         *)
(* A connection is here only a member of the set of endpoints that         *)
(* connections_ has as keys: its status is modelled in ClientConnections.  *)
(***************************************************************************)
EXTENDS Integers, FiniteSets

CONSTANTS
  Endpoints,    \* ids of the remote endpoints
  Services,     \* service ids a client may discover
  NoService,    \* the empty service id of a cleared DiscoveryInfo
  MaxIds        \* bound: local endpoint ids generated in one behaviour

ASSUME LocalEndpointAssumption ==
  /\ NoService \notin Services
  /\ MaxIds \in Nat

(***************************************************************************)
(* Local endpoint ids are numbered in the order in which the generator     *)
(* draws them: a drawn id is taken to differ from all earlier ones.        *)
(***************************************************************************)
NoId == 0

VARIABLES
  local_endpoint_id,
  issued,              \* ids drawn so far
  high_vis_mode,
  cache_endpoint_id,   \* local_high_vis_mode_cache_endpoint_id_
  alarm,               \* TRUE while the 30 s alarm is armed
  clearing,            \* the alarm's callback runs, and waits for the mutex
  starting,            \* a StartAdvertising job is between its two client calls
  advertised,          \* the id in the latest advertisement (NoId before one)
  advertising,         \* ~advertising_info_.IsEmpty()
  discovery_service,   \* discovery_info_.service_id
  discovered,          \* discovered_endpoint_ids_
  reported,            \* found minus lost callbacks in this discovery session
  pending,             \* keys of the handler's pending_connections_
  requesting,          \* the endpoint the router waits for in RequestConnection
  connections,         \* keys of connections_
  introduced,          \* history: the id our CONNECTION_REQUEST told an endpoint
  forgotten            \* history: ids cleared between being handed out and the
                       \*   mark or connection that would have kept them

idVars == <<local_endpoint_id, issued>>
cacheVars == <<high_vis_mode, cache_endpoint_id, alarm, clearing>>
advVars == <<starting, advertised, advertising>>
discoveryVars == <<discovery_service, discovered, reported>>
peerVars == <<pending, requesting, connections>>
historyVars == <<introduced, forgotten>>
vars == <<idVars, cacheVars, advVars, discoveryVars, peerVars, historyVars>>

Ids == 1..MaxIds

(* What the fields may hold.  The router waits for one endpoint at most,   *)
(* and only while the handler still has a pending entry to answer it from: *)
(* a path that drops the entry without setting the result (an early return *)
(* of ProcessPreConnectionInitiationFailure) would leave it waiting.       *)
TypeOK ==
  /\ issued \in 0..MaxIds
  /\ local_endpoint_id \in {NoId} \cup Ids
  /\ cache_endpoint_id \in {NoId} \cup Ids
  /\ advertised \in {NoId} \cup Ids
  /\ high_vis_mode \in BOOLEAN
  /\ alarm \in BOOLEAN
  /\ clearing \in BOOLEAN
  /\ starting \in BOOLEAN
  /\ advertising \in BOOLEAN
  /\ discovery_service \in Services \cup {NoService}
  /\ discovered \subseteq Endpoints
  /\ reported \in [Endpoints -> Int]
  /\ pending \subseteq Endpoints
  /\ requesting \subseteq pending
  /\ connections \subseteq Endpoints
  /\ introduced \in [Endpoints -> {NoId} \cup Ids]
  /\ forgotten \subseteq Ids

Init ==
  /\ local_endpoint_id = NoId
  /\ issued = 0
  /\ high_vis_mode = FALSE
  /\ cache_endpoint_id = NoId
  /\ alarm = FALSE
  /\ clearing = FALSE
  /\ starting = FALSE
  /\ advertised = NoId
  /\ advertising = FALSE
  /\ discovery_service = NoService
  /\ discovered = {}
  /\ reported = [e \in Endpoints |-> 0]
  /\ pending = {}
  /\ requesting = {}
  /\ connections = {}
  /\ introduced = [e \in Endpoints |-> NoId]
  /\ forgotten = {}

-----------------------------------------------------------------------------
\* The parts the methods share.

IsDiscovering == discovery_service # NoService

(* The router runs one API call at a time and waits for its result, and    *)
(* the PCP thread is not inside StartAdvertising.                          *)
RouterFree == requesting = {} /\ ~starting

(* GenerateLocalEndpointId: the cached id in high-visibility mode, if there *)
(* is one, and a newly drawn one otherwise.                                 *)
GeneratedId(high_vis) ==
  IF high_vis /\ cache_endpoint_id # NoId THEN cache_endpoint_id ELSE issued + 1

(* GetLocalEndpointId: the id in use, or one generated and kept.  The id    *)
(* it returns is in use (again).                                           *)
GetId(high_vis) ==
  /\ local_endpoint_id' =
       IF local_endpoint_id # NoId THEN local_endpoint_id ELSE GeneratedId(high_vis)
  /\ issued' = IF local_endpoint_id' > issued THEN issued + 1 ELSE issued
  /\ issued' <= MaxIds
  /\ forgotten' = forgotten \ {local_endpoint_id'}

(* Wrong on purpose: a connection does not keep the id.                    *)
ResetIdDespiteConnections(conns, adv, service) ==
  IF ~adv /\ service = NoService THEN NoId ELSE local_endpoint_id

(* ResetLocalEndpointIdIfNeeded, given the state it looks at.              *)
ResetIdIfNeeded(conns, adv, service) ==
  IF conns = {} /\ ~adv /\ service = NoService THEN NoId ELSE local_endpoint_id

(* ExitHighVisibilityMode: the alarm is cancelled, and armed again if there *)
(* is an id to forget.  A callback that already runs is not recalled.       *)
ExitHighVisibilityMode ==
  /\ high_vis_mode' = FALSE
  /\ alarm' = (cache_endpoint_id # NoId)
  /\ UNCHANGED <<cache_endpoint_id, clearing>>

-----------------------------------------------------------------------------
(* BasePcpHandler::StartAdvertising, up to the call of StartAdvertisingImpl *)
(* with the id to advertise.  EnterHighVisibilityMode writes only           *)
(* high_vis_mode_, which only this job reads before it ends: it commutes    *)
(* with what other threads do before the GetLocalEndpointId that follows.   *)
BeginAdvertising(high_vis) ==
  /\ RouterFree /\ ~advertising
  /\ starting' = TRUE
  /\ high_vis_mode' = (high_vis \/ high_vis_mode)
  /\ GetId(high_vis \/ high_vis_mode)
  /\ advertised' = local_endpoint_id'
  /\ UNCHANGED <<cache_endpoint_id, alarm, clearing, advertising,
                 discoveryVars, peerVars, introduced>>

(* Wrong on purpose: the alarm is cancelled in either mode.                *)
StartedAdvertisingCancels ==
  /\ starting
  /\ starting' = FALSE
  /\ advertising' = TRUE
  /\ alarm' = FALSE
  /\ cache_endpoint_id' =
       IF high_vis_mode THEN local_endpoint_id ELSE cache_endpoint_id
  /\ UNCHANGED <<idVars, high_vis_mode, clearing, advertised, discoveryVars,
                 peerVars, historyVars>>

(* StartAdvertisingImpl succeeded: ClientProxy::StartedAdvertising.        *)
StartedAdvertising ==
  /\ starting
  /\ starting' = FALSE
  /\ advertising' = TRUE
  /\ IF high_vis_mode
       THEN cache_endpoint_id' = local_endpoint_id /\ alarm' = FALSE
       ELSE UNCHANGED <<cache_endpoint_id, alarm>>
  /\ UNCHANGED <<idVars, high_vis_mode, clearing, advertised, discoveryVars,
                 peerVars, historyVars>>

(* StartAdvertisingImpl failed: only high-visibility mode is undone.       *)
AdvertisingFailed ==
  /\ starting
  /\ starting' = FALSE
  /\ ExitHighVisibilityMode
  /\ UNCHANGED <<idVars, advertised, advertising, discoveryVars, peerVars,
                 historyVars>>

(* StopAdvertising through the router, whose guard is IsAdvertising: the   *)
(* id that is logged first is generated if there is none, and then         *)
(* StoppedAdvertising runs on the PCP thread.  An id that is drawn for the *)
(* log and cleared at once is not counted.                                 *)
StopAdvertising ==
  /\ RouterFree /\ advertising
  /\ advertising' = FALSE
  /\ IF connections = {} /\ ~IsDiscovering
       THEN local_endpoint_id' = NoId /\ UNCHANGED <<issued, forgotten>>
       ELSE GetId(high_vis_mode)
  /\ ExitHighVisibilityMode
  /\ UNCHANGED <<starting, advertised, discoveryVars, peerVars, introduced>>

(* StartedDiscovery: discovered_endpoint_ids_ is left as it is.            *)
StartedDiscovery(s) ==
  /\ RouterFree /\ ~IsDiscovering
  /\ discovery_service' = s
  /\ reported' = [e \in Endpoints |-> 0]
  /\ UNCHANGED <<idVars, cacheVars, advVars, discovered, peerVars, historyVars>>

(* Wrong on purpose: what was discovered is not forgotten.                 *)
StoppedDiscoveryKeepsIds ==
  /\ RouterFree /\ IsDiscovering
  /\ discovery_service' = NoService
  /\ local_endpoint_id' = ResetIdIfNeeded(connections, advertising, NoService)
  /\ UNCHANGED <<issued, cacheVars, advVars, discovered, reported, peerVars,
                 historyVars>>

StoppedDiscovery ==
  /\ RouterFree /\ IsDiscovering
  /\ discovery_service' = NoService
  /\ discovered' = {}
  /\ local_endpoint_id' = ResetIdIfNeeded(connections, advertising, NoService)
  /\ UNCHANGED <<issued, cacheVars, advVars, reported, peerVars,
                 historyVars>>

(* OnEndpointFound: the event may be a late one, of an earlier discovery.  *)
OnEndpointFound(s, e) ==
  /\ ~starting
  /\ IsDiscovering /\ s = discovery_service
  /\ e \notin discovered
  /\ discovered' = discovered \cup {e}
  /\ reported' = [reported EXCEPT ![e] = @ + 1]
  /\ UNCHANGED <<idVars, cacheVars, advVars, discovery_service, peerVars,
                 historyVars>>

OnEndpointLost(s, e) ==
  /\ ~starting
  /\ IsDiscovering /\ s = discovery_service
  /\ e \in discovered
  /\ discovered' = discovered \ {e}
  /\ reported' = [reported EXCEPT ![e] = @ - 1]
  /\ UNCHANGED <<idVars, cacheVars, advVars, discovery_service, peerVars,
                 historyVars>>

(* RequestConnection tells the peer who we are and starts the handshake;   *)
(* the router waits until it has succeeded or failed.                      *)
RequestConnection(e) ==
  /\ RouterFree
  /\ e \notin pending /\ e \notin connections
  /\ GetId(high_vis_mode)
  /\ pending' = pending \cup {e}
  /\ requesting' = {e}
  /\ introduced' = [introduced EXCEPT ![e] = local_endpoint_id']
  /\ UNCHANGED <<cacheVars, advVars, discoveryVars, connections>>

(* OnIncomingConnection takes a handshake only from an advertising client. *)
OnIncomingConnection(e) ==
  /\ ~starting
  /\ advertising
  /\ e \notin pending /\ e \notin connections
  /\ pending' = pending \cup {e}
  /\ UNCHANGED <<idVars, cacheVars, advVars, discoveryVars, requesting, connections,
                 historyVars>>

(* Wrong on purpose: the entry goes, and the router is not answered.       *)
ConnectionFailedUnanswered(e) ==
  /\ ~starting
  /\ e \in pending
  /\ pending' = pending \ {e}
  /\ introduced' = [introduced EXCEPT ![e] = NoId]
  /\ UNCHANGED <<idVars, cacheVars, advVars, discoveryVars, requesting,
                 connections, forgotten>>

(* The handshake failed, on the PCP thread, and with it the request.       *)
ConnectionFailed(e) ==
  /\ ~starting
  /\ e \in pending
  /\ pending' = pending \ {e}
  /\ requesting' = requesting \ {e}
  /\ introduced' = [introduced EXCEPT ![e] = NoId]
  /\ UNCHANGED <<idVars, cacheVars, advVars, discoveryVars, connections, forgotten>>

(* The handshake succeeded: OnConnectionInitiated, for which the PCP       *)
(* thread waits in RegisterEndpoint.                                       *)
OnConnectionInitiated(e) ==
  /\ ~starting
  /\ e \in pending
  /\ pending' = pending \ {e}
  /\ requesting' = requesting \ {e}
  /\ connections' = connections \cup {e}
  /\ UNCHANGED <<idVars, cacheVars, advVars, discoveryVars, historyVars>>

(* The bandwidth upgrade manager introduces us on an upgraded channel.     *)
IntroduceOnUpgrade ==
  /\ connections # {}
  /\ GetId(high_vis_mode)
  /\ UNCHANGED <<cacheVars, advVars, discoveryVars, peerVars, introduced>>

(* On the EndpointManager thread, at any time: also while StartAdvertising *)
(* is between its two client calls, or RequestConnection waits.  The id    *)
(* they were given is not in use by any mark yet, and may be cleared.      *)
OnDisconnected(e) ==
  /\ e \in connections
  /\ connections' = connections \ {e}
  /\ local_endpoint_id' =
       ResetIdIfNeeded(connections \ {e}, advertising, discovery_service)
  /\ introduced' = [introduced EXCEPT ![e] = NoId]
  /\ forgotten' = forgotten \cup
       {i \in Ids : /\ i = local_endpoint_id /\ local_endpoint_id' = NoId
                    /\ starting \/ requesting # {}}
  /\ UNCHANGED <<issued, cacheVars, advVars, discoveryVars, pending, requesting>>

(* The tail of FinishClientSession, with the connections gone or about to  *)
(* be: StopAdvertising, StopDiscovery and Reset.  Reset clears the id, the *)
(* marks and the connections; the cached id stays, with its alarm armed.   *)
Reset ==
  /\ RouterFree
  /\ advertising' = FALSE
  /\ discovery_service' = NoService
  /\ discovered' = IF IsDiscovering THEN {} ELSE discovered
  /\ connections' = {}
  /\ local_endpoint_id' = NoId
  /\ ExitHighVisibilityMode
  /\ introduced' = [e \in Endpoints |-> NoId]
  /\ UNCHANGED <<issued, starting, advertised, reported, pending, requesting,
                 forgotten>>

(* 30 s have passed: the callback starts, on a single-thread executor.     *)
AlarmFires ==
  /\ alarm /\ ~clearing
  /\ alarm' = FALSE
  /\ clearing' = TRUE
  /\ UNCHANGED <<idVars, high_vis_mode, cache_endpoint_id, advVars,
                 discoveryVars, peerVars, historyVars>>

(* ... and gets the mutex.                                                 *)
ClearCache ==
  /\ clearing
  /\ clearing' = FALSE
  /\ cache_endpoint_id' = NoId
  /\ UNCHANGED <<idVars, high_vis_mode, alarm, advVars, discoveryVars, peerVars,
                 historyVars>>

Next ==
  \/ \E hv \in BOOLEAN : BeginAdvertising(hv)
  \/ StartedAdvertising
  \/ AdvertisingFailed
  \/ StopAdvertising
  \/ \E s \in Services : StartedDiscovery(s)
  \/ StoppedDiscovery
  \/ \E s \in Services, e \in Endpoints :
       OnEndpointFound(s, e) \/ OnEndpointLost(s, e)
  \/ \E e \in Endpoints :
       \/ RequestConnection(e)
       \/ OnIncomingConnection(e)
       \/ ConnectionFailed(e)
       \/ OnConnectionInitiated(e)
       \/ OnDisconnected(e)
  \/ IntroduceOnUpgrade
  \/ Reset
  \/ AlarmFires
  \/ ClearCache

Spec == Init /\ [][Next]_vars

-----------------------------------------------------------------------------
\* What the code keeps.

(* The peers know this device by one id, and it is the id in use: while it *)
(* advertises, the advertised id, and for every endpoint whose connection  *)
(* was requested here, the id of that CONNECTION_REQUEST, which the        *)
(* introduction on an upgraded channel has to repeat for the peer to find  *)
(* the connection (GetLocalEndpointId, bwu_manager.cc:646).  Connecting,   *)
(* disconnecting, advertising, discovering and the cache draw, clear and   *)
(* reuse ids in between.  The one exception is what the code really does:  *)
(* an id handed to StartAdvertisingImpl or to a connection request is kept *)
(* by no mark until that job ends, and a disconnection on the manager      *)
(* thread that comes first clears it (forgotten).                          *)
KnownIdInUse ==
  /\ advertising => advertised \in {local_endpoint_id} \cup forgotten
  /\ \A e \in Endpoints : introduced[e] # NoId
       => introduced[e] \in {local_endpoint_id} \cup forgotten

(* A remembered high-visibility id is never remembered for ever: unless    *)
(* the client advertises in high-visibility mode now, the alarm that       *)
(* forgets the id is armed or its callback is on its way.  Every way out   *)
(* of the mode (stop, failed start, Reset) must re-arm what entering it    *)
(* cancelled.                                                              *)
CacheExpires ==
  cache_endpoint_id # NoId => alarm \/ clearing \/ (advertising /\ high_vis_mode)

(* During a discovery session the application hears endpoint_found at most *)
(* once for an endpoint until it hears endpoint_lost, which it hears only  *)
(* for endpoints it was told of in this very session, and                  *)
(* discovered_endpoint_ids_ says exactly which those are, whatever was     *)
(* found in earlier sessions.                                              *)
ReportedOnce ==
  IsDiscovering =>
    \A e \in Endpoints : reported[e] = (IF e \in discovered THEN 1 ELSE 0)

-----------------------------------------------------------------------------
\* What a comment promises, and the code does not keep.

(* client_proxy.h, on the cache: "we remember the high visibility mode     *)
(* advertisement endpoint id here".  While the client advertises in that   *)
(* mode, the id in the advertisement is the cached one.                    *)
RemembersAdvertisedId ==
  advertising /\ high_vis_mode => cache_endpoint_id = advertised

=============================================================================
