---------------------------- MODULE ClientProxy ----------------------------
(***************************************************************************)
(* The connection half of ClientProxy (cpp/core/internal/client_proxy.cc): *)
(* the connections the client knows of, how far each has been agreed on,   *)
(* the callbacks its ConnectionListener has received, and the cancellation *)
(* flags of its connection attempts.                                       *)
(*                                                                         *)
(* This module has the methods only, each one atomic because it holds the  *)
(* proxy's mutex throughout.  ClientConnections calls them from the        *)
(* threads in any order the code allows; EndpointLifecycle from models of  *)
(* those threads.                                                          *)
(***************************************************************************)
EXTENDS Naturals

CONSTANTS Endpoints     \* ids of the remote endpoints

VARIABLES
  connections,          \* keys of connections_
  status,               \* Connection::status, as the set of its bits
  told,                 \* where each endpoint's listener stands
  cancellation_flags    \* keys of cancellation_flags_

proxyVars == <<connections, status, told, cancellation_flags>>

-----------------------------------------------------------------------------
(* Connection::Status.  kPending is no bit at all, and kConnected is a bit *)
(* that is meant to stand alone.                                           *)
LocalAnswers == {"local_accepted", "local_rejected"}
RemoteAnswers == {"remote_accepted", "remote_rejected"}
StatusBits == LocalAnswers \cup RemoteAnswers \cup {"connected"}
PendingBit == {"pending"}   \* wrong on purpose: a bit for kPending
kPending == {}
kConnected == {"connected"}

(* ConnectionStatusesContains: some of the given bits is set.              *)
StatusesContain(e, bits) == e \in connections /\ status[e] \cap bits # {}

IsConnectedToEndpoint(e) == e \in connections /\ status[e] = kConnected
HasPendingConnectionToEndpoint(e) == e \in connections /\ status[e] # kConnected
HasLocalEndpointResponded(e) == StatusesContain(e, LocalAnswers)
HasRemoteEndpointResponded(e) == StatusesContain(e, RemoteAnswers)
EitherAccepted(e) ==        \* wrong on purpose: one side is enough
  StatusesContain(e, {"local_accepted", "remote_accepted"})

IsConnectionAccepted(e) ==
  StatusesContain(e, {"local_accepted"}) /\ StatusesContain(e, {"remote_accepted"})
IsConnectionRejected(e) == StatusesContain(e, {"local_rejected", "remote_rejected"})

-----------------------------------------------------------------------------
(***************************************************************************)
(* The application's view of one endpoint, from the callbacks it receives  *)
(* (cpp/core/listeners.h): initiated, then accepted or rejected, and after *)
(* accepted, disconnected.  "dropped" is a connection that was removed     *)
(* with no callback to end it; "broken" a callback out of order.           *)
(***************************************************************************)
ToldStates ==
  {"none", "initiated", "accepted", "rejected", "disconnected", "dropped", "broken"}
Open == {"initiated", "accepted"}

Hears(t, callback) ==
  CASE callback = "initiated" /\ t \notin Open \cup {"broken"} -> "initiated"
    [] callback \in {"accepted", "rejected"} /\ t = "initiated" -> callback
    [] callback = "disconnected" /\ t = "accepted" -> "disconnected"
    [] OTHER -> "broken"

Dropped(t) == IF t \in Open THEN "dropped" ELSE t

-----------------------------------------------------------------------------
\* The methods that change a connection.

(* OnConnectionInitiated.  The emplace is meant to insert (a DCHECK says   *)
(* so); if the key is there, the old entry stays and is what is notified.  *)
OnConnectionInitiated(e, incoming) ==
  /\ connections' = connections \cup {e}
  /\ status' = IF e \in connections THEN status ELSE [status EXCEPT ![e] = kPending]
  /\ told' = [told EXCEPT ![e] = Hears(@, "initiated")]
  /\ cancellation_flags' = cancellation_flags \cup (IF incoming THEN {e} ELSE {})

(* Wrong on purpose: a later answer of a side is recorded as well.         *)
EndpointRespondedAgain(e, side, answer) ==
  /\ status' = IF e \in connections THEN [status EXCEPT ![e] = @ \cup {answer}]
                                     ELSE status
  /\ UNCHANGED <<connections, told, cancellation_flags>>

(* LocalEndpointAcceptedConnection and its three siblings: the first       *)
(* answer of a side is recorded, a later one is ignored.                   *)
EndpointResponded(e, side, answer) ==
  /\ status' = IF e \in connections /\ ~StatusesContain(e, side)
                 THEN [status EXCEPT ![e] = @ \cup {answer}]
                 ELSE status
  /\ UNCHANGED <<connections, told, cancellation_flags>>

(* Wrong on purpose: the bit is added and the answers are kept.            *)
OnConnectionAcceptedAppends(e) ==
  IF HasPendingConnectionToEndpoint(e)
    THEN /\ told' = [told EXCEPT ![e] = Hears(@, "accepted")]
         /\ status' = [status EXCEPT ![e] = @ \cup kConnected]
         /\ UNCHANGED <<connections, cancellation_flags>>
    ELSE UNCHANGED proxyVars

OnConnectionAccepted(e) ==
  IF HasPendingConnectionToEndpoint(e)
    THEN /\ told' = [told EXCEPT ![e] = Hears(@, "accepted")]
         /\ status' = [status EXCEPT ![e] = kConnected]
         /\ UNCHANGED <<connections, cancellation_flags>>
    ELSE UNCHANGED proxyVars

(* OnDisconnected, after the callback that gave the listener the state t.  *)
Removed(e, t) ==
  /\ connections' = connections \ {e}
  /\ status' = [status EXCEPT ![e] = kPending]
  /\ told' = [told EXCEPT ![e] = Dropped(t)]
  /\ cancellation_flags' = cancellation_flags \ {e}

OnConnectionRejected(e) ==
  IF HasPendingConnectionToEndpoint(e)
    THEN Removed(e, Hears(told[e], "rejected"))
    ELSE UNCHANGED proxyVars

OnDisconnected(e, notify) ==
  Removed(e, IF notify /\ e \in connections THEN Hears(told[e], "disconnected")
                                            ELSE told[e])

(* RemoveAllEndpoints: nobody is notified.                                 *)
RemoveAllEndpoints ==
  /\ connections' = {}
  /\ status' = [e \in Endpoints |-> kPending]
  /\ told' = [e \in Endpoints |-> Dropped(told[e])]
  /\ cancellation_flags' = {}

AddCancellationFlag(e) ==
  /\ cancellation_flags' = cancellation_flags \cup {e}
  /\ UNCHANGED <<connections, status, told>>

CancelEndpoints(es) ==
  /\ cancellation_flags' = cancellation_flags \ es
  /\ UNCHANGED <<connections, status, told>>

-----------------------------------------------------------------------------
ProxyInit ==
  /\ connections = {}
  /\ status = [e \in Endpoints |-> kPending]
  /\ told = [e \in Endpoints |-> "none"]
  /\ cancellation_flags = {}

ProxyTypeOK ==
  /\ connections \subseteq Endpoints
  /\ status \in [Endpoints -> SUBSET StatusBits]
  /\ told \in [Endpoints -> ToldStates]
  /\ cancellation_flags \subseteq Endpoints

=============================================================================
