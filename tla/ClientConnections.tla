------------------------- MODULE ClientConnections -------------------------
(***************************************************************************)
(* ClientProxy called by the threads that share it.                        *)
(*                                                                         *)
(*  - The PCP handler thread (base_pcp_handler.cc) starts handshakes,      *)
(*    records the local and the remote answer, and evaluates the result.   *)
(*    It runs one job at a time, but a job is several calls into the       *)
(*    proxy, and other threads run between them.                           *)
(*  - The EndpointManager thread (endpoint_manager.cc) registers           *)
(*    endpoints and removes them.  Removal reads whether to notify at its  *)
(*    start and calls OnDisconnected at its end; in between it asks the    *)
(*    PCP thread to clean up and waits for it for at most two seconds.     *)
(*  - API threads add and cancel cancellation flags at any time.           *)
(*                                                                         *)
(* Channels, frames and queues are abstracted to when a step may happen;   *)
(* EndpointLifecycle has them.                                             *)
(***************************************************************************)
EXTENDS ClientProxy

CONSTANTS
  DuplicateResponses    \* TRUE if a peer may answer twice on one connection

ASSUME DuplicateResponsesType == DuplicateResponses \in BOOLEAN

VARIABLES
  handshaking,   \* pending_connections_ whose channel is still the handler's
  pending,       \* pending_connections_ whose channel has been registered
  channels,      \* endpoints with a channel in the EndpointChannelManager
  job,           \* where the PCP thread is in EvaluateConnectionResult
  subject,       \* the endpoint that job is about
  removing,      \* the endpoint RemoveEndpoint is working on, if any
  notify,        \* ... and the notify flag it was given
  disconnects    \* endpoints with an on-endpoint-disconnect job on the PCP queue

threadVars == <<handshaking, pending, channels, job, subject, removing, notify, disconnects>>
vars == <<proxyVars, threadVars>>

Jobs == {"idle", "evaluate", "accept", "reject"}

TypeOK ==
  /\ ProxyTypeOK
  /\ handshaking \subseteq Endpoints
  /\ pending \subseteq Endpoints
  /\ channels \subseteq Endpoints
  /\ job \in Jobs
  /\ subject \subseteq Endpoints
  /\ removing \subseteq Endpoints
  /\ notify \in BOOLEAN
  /\ disconnects \subseteq Endpoints

Init ==
  /\ ProxyInit
  /\ handshaking = {} /\ pending = {} /\ channels = {}
  /\ job = "idle" /\ subject = {}
  /\ removing = {} /\ notify = FALSE /\ disconnects = {}

-----------------------------------------------------------------------------
\* The PCP handler thread.

PcpIdle == job = "idle"

(* Wrong on purpose: a connected endpoint may be taken on again.           *)
StartHandshakeAnyway(e) ==
  /\ PcpIdle
  /\ e \notin handshaking \cup pending
  /\ handshaking' = handshaking \cup {e}
  /\ UNCHANGED <<proxyVars, pending, channels, job, subject, removing, notify, disconnects>>

(* RequestConnection or OnIncomingConnection takes the endpoint on.  Both  *)
(* refuse one that is connected; a pending one is refused, or its attempt  *)
(* ended first (BreakTie).                                                 *)
StartHandshake(e) ==
  /\ PcpIdle
  /\ e \notin handshaking \cup pending
  /\ ~IsConnectedToEndpoint(e)
  /\ handshaking' = handshaking \cup {e}
  /\ UNCHANGED <<proxyVars, pending, channels, job, subject, removing, notify, disconnects>>

(* ProcessPreConnectionInitiationFailure.                                  *)
HandshakeFails(e) ==
  /\ PcpIdle
  /\ e \in handshaking
  /\ handshaking' = handshaking \ {e}
  /\ UNCHANGED <<proxyVars, pending, channels, job, subject, removing, notify, disconnects>>

(* OnEncryptionSuccessRunnable: the PCP thread waits while the manager     *)
(* thread, which has no removal under way, registers the endpoint.         *)
RegisterEndpoint(e, incoming) ==
  /\ PcpIdle
  /\ removing = {}
  /\ e \in handshaking
  /\ handshaking' = handshaking \ {e}
  /\ pending' = pending \cup {e}
  /\ channels' = channels \cup {e}
  /\ OnConnectionInitiated(e, incoming)
  /\ UNCHANGED <<job, subject, removing, notify, disconnects>>

(* AcceptConnection or RejectConnection, once the answer is on the wire:   *)
(* it is recorded and the result is evaluated next.  The channel may have  *)
(* been unregistered since it was written to.                              *)
LocalResponds(e, answer) ==
  /\ PcpIdle
  /\ e \in pending
  /\ EndpointResponded(e, LocalAnswers, answer)
  /\ job' = "evaluate" /\ subject' = {e}
  /\ UNCHANGED <<handshaking, pending, channels, removing, notify, disconnects>>

(* OnIncomingFrame.  A conforming peer answers once, and not after the     *)
(* connection is made.                                                     *)
RemoteResponds(e, answer) ==
  /\ PcpIdle
  /\ ~HasRemoteEndpointResponded(e)
  /\ DuplicateResponses \/ "connected" \notin status[e]
  /\ EndpointResponded(e, RemoteAnswers, answer)
  /\ job' = "evaluate" /\ subject' = {e}
  /\ UNCHANGED <<handshaking, pending, channels, removing, notify, disconnects>>

(* EvaluateConnectionResult, first part: nothing to do yet ...             *)
EvaluateNothing(e) ==
  /\ job = "evaluate" /\ e \in subject
  /\ e \in pending => ~IsConnectionAccepted(e) /\ ~IsConnectionRejected(e)
  /\ job' = "idle" /\ subject' = {}
  /\ UNCHANGED <<proxyVars, handshaking, pending, channels, removing, notify, disconnects>>

(* ... or the pending connection is taken out and its fate is settled.     *)
(* The proxy is asked twice, so the connection may have gone meanwhile; a  *)
(* connection both have accepted must have its channel, which the code     *)
(* dereferences.                                                           *)
Evaluate(e) ==
  /\ job = "evaluate" /\ e \in subject
  /\ e \in pending
  /\ pending' = pending \ {e}
  /\ \/ IsConnectionAccepted(e) /\ e \in channels /\ job' = "accept"
     \/ /\ ~IsConnectionAccepted(e)
        /\ IsConnectionRejected(e) \/ e \notin connections
        /\ job' = "reject"
  /\ UNCHANGED <<proxyVars, handshaking, channels, subject, removing, notify, disconnects>>

(* ... second part: the callback.                                          *)
Deliver(e) ==
  /\ job \in {"accept", "reject"} /\ e \in subject
  /\ IF job = "accept" THEN OnConnectionAccepted(e) ELSE OnConnectionRejected(e)
  /\ job' = "idle" /\ subject' = {}
  /\ UNCHANGED <<handshaking, pending, channels, removing, notify, disconnects>>

(* ProcessPreConnectionResultFailure: after a failed write or a lost       *)
(* channel in AcceptConnection or RejectConnection, or in the job that     *)
(* OnEndpointDisconnect posted.  The endpoint is not pending any more.     *)
FailPending(e) ==
  /\ handshaking' = handshaking \ {e}
  /\ pending' = pending \ {e}
  /\ OnConnectionRejected(e)

ResponseFails(e) ==
  /\ PcpIdle
  /\ e \in handshaking \cup pending
  /\ FailPending(e)
  /\ UNCHANGED <<channels, job, subject, removing, notify, disconnects>>

RunDisconnect(e) ==
  /\ PcpIdle
  /\ e \in disconnects
  /\ disconnects' \in {disconnects, disconnects \ {e}}   \* the queue may hold two
  /\ FailPending(e)
  /\ UNCHANGED <<channels, job, subject, removing, notify>>

-----------------------------------------------------------------------------
\* The EndpointManager thread.

(* Wrong on purpose: a connection that is only pending is notified too.    *)
BeginRemoveNotifies(e) ==
  /\ removing = {}
  /\ e \in channels
  /\ removing' = {e}
  /\ notify' = (e \in connections)
  /\ UNCHANGED <<proxyVars, handshaking, pending, channels, job, subject, disconnects>>

(* RemoveEndpoint for an endpoint that has a channel: notify is what       *)
(* IsConnectedToEndpoint says now.                                         *)
BeginRemove(e) ==
  /\ removing = {}
  /\ e \in channels
  /\ removing' = {e}
  /\ notify' = IsConnectedToEndpoint(e)
  /\ UNCHANGED <<proxyVars, handshaking, pending, channels, job, subject, disconnects>>

(* UnregisterChannelForEndpoint, and the frame processors are told.        *)
UnregisterChannel(e) ==
  /\ e \in removing /\ e \in channels
  /\ channels' = channels \ {e}
  /\ disconnects' = disconnects \cup {e}
  /\ UNCHANGED <<proxyVars, handshaking, pending, job, subject, removing, notify>>

(* RegisterEndpoint found the state of an earlier registration, and drops  *)
(* it and the channel that goes with it before it registers the new one.   *)
DropOldChannel(e) ==
  /\ PcpIdle
  /\ removing = {}
  /\ e \in handshaking /\ e \in channels
  /\ channels' = channels \ {e}
  /\ UNCHANGED <<proxyVars, handshaking, pending, job, subject, removing, notify, disconnects>>

(* The barrier opened or two seconds passed: ClientProxy::OnDisconnected.  *)
FinishRemove(e) ==
  /\ e \in removing /\ e \notin channels
  /\ OnDisconnected(e, notify)
  /\ removing' = {} /\ notify' = FALSE
  /\ UNCHANGED <<handshaking, pending, channels, job, subject, disconnects>>

-----------------------------------------------------------------------------
\* API threads.

AddFlag(e) == AddCancellationFlag(e) /\ UNCHANGED threadVars
CancelFlags(es) == CancelEndpoints(es) /\ UNCHANGED threadVars

(* Reset at the end of FinishClientSession, run by the router.             *)
Reset == RemoveAllEndpoints /\ UNCHANGED threadVars

Next ==
  \/ \E e \in Endpoints :
       \/ StartHandshake(e)
       \/ HandshakeFails(e)
       \/ \E incoming \in BOOLEAN : RegisterEndpoint(e, incoming)
       \/ \E answer \in LocalAnswers : LocalResponds(e, answer)
       \/ \E answer \in RemoteAnswers : RemoteResponds(e, answer)
       \/ EvaluateNothing(e)
       \/ Evaluate(e)
       \/ Deliver(e)
       \/ ResponseFails(e)
       \/ RunDisconnect(e)
       \/ BeginRemove(e)
       \/ UnregisterChannel(e)
       \/ DropOldChannel(e)
       \/ FinishRemove(e)
       \/ AddFlag(e)
       \/ CancelFlags({e})
  \/ CancelFlags(Endpoints)
  \/ Reset

Spec == Init /\ [][Next]_vars

-----------------------------------------------------------------------------
(* The listener's callbacks come in the order cpp/core/listeners.h gives   *)
(* them: initiated first, then at most one of accepted and rejected, and   *)
(* disconnected only after accepted, whichever thread delivers them and    *)
(* however late a removal's notify flag is.                                *)
ListenerProtocol == \A e \in Endpoints : told[e] # "broken"

(* client_proxy.h, Connection::Status: kPending, a combination of one      *)
(* local and one remote answer, or kConnected alone.  Payloads flow and a  *)
(* disconnection is notified only in the last case.                        *)
StatusWellFormed ==
  \A e \in Endpoints :
    \/ status[e] = kConnected
    \/ /\ "connected" \notin status[e]
       /\ ~(LocalAnswers \subseteq status[e])
       /\ ~(RemoteAnswers \subseteq status[e])

(* The DCHECK(inserted) of OnConnectionInitiated: whenever a handshake is  *)
(* about to be registered, the client has no connection to that endpoint.  *)
Inserted == \A e \in handshaking : e \notin connections

(* The application has been told "accepted", and not yet "disconnected",   *)
(* exactly for the endpoints the proxy has as connected.                   *)
ToldIsConnected ==
  \A e \in Endpoints : told[e] = "accepted" <=> IsConnectedToEndpoint(e)

(* A connection becomes connected only when both sides have accepted this  *)
(* very connection: the result that was evaluated is not delivered to a    *)
(* connection that replaced it meanwhile, nor after a rejection.           *)
AcceptedByBoth ==
  [][ \A e \in Endpoints :
        ~IsConnectedToEndpoint(e) /\ IsConnectedToEndpoint(e)'
          => status[e] = {"local_accepted", "remote_accepted"} ]_vars

=============================================================================
