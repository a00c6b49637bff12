---------------------- MODULE ClientConnectionsProofs ----------------------
(***************************************************************************)
(* ClientConnections, proved for every set of endpoints and conforming     *)
(* peers (those that answer a connection once).                            *)
(***************************************************************************)
EXTENDS ClientConnections, TLAPS

(***************************************************************************)
(* Why the above hold.  A connection that is not yet connected is pending  *)
(* in the handler, or the PCP thread is about to deliver its result; so a  *)
(* new handshake never meets an old connection.  While a removal that will *)
(* notify is under way no endpoint can be registered, so the endpoint is   *)
(* either still connected or gone when OnDisconnected is called.           *)
(***************************************************************************)
Unique(S) == \A x, y \in S : x = y

ConnectionInv(e) ==
  /\ told[e] # "broken"
  /\ e \in connections <=> told[e] \in Open
  /\ told[e] = "accepted" <=> IsConnectedToEndpoint(e)
  /\ e \notin connections => status[e] = kPending

ThreadInv(e) ==
  /\ HasPendingConnectionToEndpoint(e)
       => e \in pending \/ (e \in subject /\ job \in {"accept", "reject"})
  /\ e \in pending => ~IsConnectedToEndpoint(e)
  /\ e \in handshaking => e \notin pending \cup connections
  /\ e \in subject /\ job \in {"accept", "reject"} => e \notin pending \cup handshaking
  /\ e \in subject /\ job = "accept" /\ e \in connections
       => IsConnectionAccepted(e) /\ ~IsConnectionRejected(e)
  /\ e \in removing /\ notify /\ e \in connections => told[e] = "accepted"

Inv ==
  /\ TypeOK
  /\ StatusWellFormed
  /\ Unique(subject) /\ Unique(removing)
  /\ job = "idle" <=> subject = {}
  /\ \A e \in Endpoints : ConnectionInv(e) /\ ThreadInv(e)

-----------------------------------------------------------------------------
(* Invariance, one lemma per group of steps.  Each of them is given the    *)
(* type facts, and shows every part of Inv for an arbitrary endpoint f.    *)

LEMMA InitInv == Init => Inv
  <1> SUFFICES ASSUME Init PROVE Inv
    OBVIOUS
  <1>1. TypeOK
    BY DEF Init, ProxyInit, TypeOK, ProxyTypeOK, kPending, Jobs, ToldStates
  <1>2. StatusWellFormed
    BY DEF Init, ProxyInit, StatusWellFormed, kPending, LocalAnswers, RemoteAnswers
  <1>3. \A e \in Endpoints : ConnectionInv(e) /\ ThreadInv(e)
    BY DEF Init, ProxyInit, ConnectionInv, ThreadInv, Open, IsConnectedToEndpoint,
           HasPendingConnectionToEndpoint, kPending
  <1> QED
    BY <1>1, <1>2, <1>3 DEF Inv, Init, Unique

(* The steps that leave the proxy alone.                                   *)
LEMMA ThreadSteps ==
  ASSUME Inv, NEW e \in Endpoints,
         StartHandshake(e) \/ HandshakeFails(e) \/ EvaluateNothing(e) \/ Evaluate(e)
           \/ DropOldChannel(e) \/ BeginRemove(e) \/ UnregisterChannel(e)
  PROVE  Inv'
  <1> USE DEF Inv, Unique
  <1>0. UNCHANGED proxyVars
    BY DEF StartHandshake, HandshakeFails, EvaluateNothing, Evaluate, DropOldChannel,
           BeginRemove, UnregisterChannel
  <1>1. TypeOK'
    <2>1. CASE BeginRemove(e)
      <3>1. notify' \in BOOLEAN
        BY <2>1 DEF BeginRemove, IsConnectedToEndpoint
      <3> QED
        BY <1>0, <2>1, <3>1 DEF TypeOK, ProxyTypeOK, proxyVars, BeginRemove
    <2>2. CASE StartHandshake(e) \/ HandshakeFails(e) \/ UnregisterChannel(e)
               \/ DropOldChannel(e)
      BY <1>0, <2>2 DEF TypeOK, ProxyTypeOK, proxyVars, StartHandshake,
             HandshakeFails, UnregisterChannel, DropOldChannel
    <2>3. CASE EvaluateNothing(e) \/ Evaluate(e)
      BY <1>0, <2>3 DEF TypeOK, ProxyTypeOK, proxyVars, EvaluateNothing, Evaluate, Jobs
    <2> QED
      BY <2>1, <2>2, <2>3
  <1>2. StatusWellFormed'
    BY <1>0 DEF StatusWellFormed, proxyVars
  <1>3. ASSUME NEW f \in Endpoints PROVE ConnectionInv(f)'
    BY <1>0 DEF ConnectionInv, proxyVars, IsConnectedToEndpoint
  <1>4. Unique(subject)' /\ Unique(removing)' /\ (job = "idle" <=> subject = {})'
    BY DEF StartHandshake, HandshakeFails, EvaluateNothing, Evaluate, DropOldChannel,
           BeginRemove, UnregisterChannel,
           PcpIdle
  <1>5. ASSUME NEW f \in Endpoints PROVE ThreadInv(f)'
    <2> USE <1>0 DEF ThreadInv, ConnectionInv, proxyVars, IsConnectedToEndpoint,
          HasPendingConnectionToEndpoint, IsConnectionAccepted, IsConnectionRejected,
          StatusesContain, PcpIdle
    <2>1. CASE StartHandshake(e)
      BY <2>1 DEF StartHandshake
    <2>2. CASE HandshakeFails(e)
      BY <2>2 DEF HandshakeFails
    <2>3. CASE Evaluate(e)
      BY <2>3 DEF Evaluate, StatusWellFormed, LocalAnswers, RemoteAnswers, kConnected
    <2>4. CASE BeginRemove(e)
      BY <2>4 DEF BeginRemove
    <2>5. CASE UnregisterChannel(e) \/ DropOldChannel(e)
      BY <2>5 DEF UnregisterChannel, DropOldChannel
    <2>6. CASE EvaluateNothing(e)
      BY <2>6 DEF EvaluateNothing
    <2> QED
      BY <2>1, <2>2, <2>3, <2>4, <2>5, <2>6
  <1> QED
    BY <1>1, <1>2, <1>3, <1>4, <1>5

(* An answer adds one bit to the status of a connection that is not        *)
(* connected, and only if that side had not answered.                      *)
LEMMA AnswerSteps ==
  ASSUME Inv, DuplicateResponses = FALSE, NEW e \in Endpoints,
         \/ \E a \in LocalAnswers : LocalResponds(e, a)
         \/ \E a \in RemoteAnswers : RemoteResponds(e, a)
  PROVE  Inv'
  <1> USE DEF Inv
  <1>1. PICK side \in {LocalAnswers, RemoteAnswers} :
          \E a \in side : EndpointResponded(e, side, a)
    BY DEF LocalResponds, RemoteResponds
  <1>a. PICK a \in side : EndpointResponded(e, side, a)
    BY <1>1
  <1>2. /\ job = "idle" /\ job' = "evaluate" /\ subject' = {e} /\ subject = {}
        /\ UNCHANGED <<handshaking, pending, channels, removing, notify, disconnects>>
        /\ UNCHANGED <<connections, told, cancellation_flags>>
    BY DEF LocalResponds, RemoteResponds, PcpIdle, EndpointResponded
  <1>3. e \in connections => status[e] # kConnected
    <2>1. CASE \E b \in LocalAnswers : LocalResponds(e, b)
      BY <2>1 DEF LocalResponds, ThreadInv, IsConnectedToEndpoint
    <2>2. CASE \E b \in RemoteAnswers : RemoteResponds(e, b)
      BY <2>2 DEF RemoteResponds, kConnected
    <2> QED
      BY <2>1, <2>2
  <1>4. \/ status' = status
        \/ /\ e \in connections /\ status[e] \cap side = {}
           /\ status' = [status EXCEPT ![e] = @ \cup {a}]
    BY <1>a DEF EndpointResponded, StatusesContain
  <1>5. CASE status' = status
    <2>1. TypeOK' /\ StatusWellFormed'
      BY <1>2, <1>5 DEF TypeOK, ProxyTypeOK, StatusWellFormed, Jobs
    <2>2. ASSUME NEW f \in Endpoints PROVE ConnectionInv(f)' /\ ThreadInv(f)'
      BY <1>2, <1>5 DEF ConnectionInv, ThreadInv, IsConnectedToEndpoint,
             HasPendingConnectionToEndpoint
    <2> QED
      BY <1>2, <2>1, <2>2 DEF Unique
  <1>6. CASE /\ e \in connections /\ status[e] \cap side = {}
             /\ status' = [status EXCEPT ![e] = @ \cup {a}]
    <2>1. /\ "connected" \notin status[e] /\ a # "connected"
          /\ "connected" \notin status'[e]
          /\ ~(LocalAnswers \subseteq status'[e])
          /\ ~(RemoteAnswers \subseteq status'[e])
          /\ a \in StatusBits
      BY <1>3, <1>6 DEF StatusWellFormed, LocalAnswers, RemoteAnswers, TypeOK,
             ProxyTypeOK, StatusBits
    <2>2. TypeOK'
      BY <1>2, <1>6, <2>1 DEF TypeOK, ProxyTypeOK, Jobs
    <2>3. ASSUME NEW f \in Endpoints PROVE status'[f] = IF f = e THEN status[e] \cup {a} ELSE status[f]
      BY <1>6 DEF TypeOK, ProxyTypeOK
    <2>4. StatusWellFormed'
      BY <2>1, <2>3 DEF StatusWellFormed
    <2>5. ASSUME NEW f \in Endpoints PROVE ConnectionInv(f)' /\ ThreadInv(f)'
      BY <1>2, <1>3, <1>6, <2>1, <2>3 DEF ConnectionInv, ThreadInv, IsConnectedToEndpoint,
             HasPendingConnectionToEndpoint, kConnected
    <2> QED
      BY <1>2, <2>2, <2>4, <2>5 DEF Unique
  <1> QED
    BY <1>4, <1>5, <1>6

(* What Removed leaves behind: no trace of e, and the rest untouched.      *)
LEMMA RemovedEffect ==
  ASSUME ProxyTypeOK, NEW e \in Endpoints, NEW t \in ToldStates \ {"broken"},
         Removed(e, t)
  PROVE  /\ ProxyTypeOK'
         /\ connections' = connections \ {e}
         /\ status'[e] = kPending
         /\ told'[e] \notin Open \cup {"broken"}
         /\ \A f \in Endpoints \ {e} : status'[f] = status[f] /\ told'[f] = told[f]
  <1>1. Dropped(t) \in ToldStates /\ Dropped(t) \notin Open \cup {"broken"}
    BY DEF Dropped, Open, ToldStates
  <1>2. kPending \in SUBSET StatusBits
    BY DEF kPending
  <1> QED
    BY <1>1, <1>2 DEF Removed, ProxyTypeOK

(* A step that only forgets e keeps the invariant, if the threads keep     *)
(* their part for the others and e is no longer pending.                   *)
LEMMA ForgetStep ==
  ASSUME Inv, TypeOK', NEW e \in Endpoints,
         connections' = connections \ {e},
         status'[e] = kPending, told'[e] \notin Open \cup {"broken"},
         \A f \in Endpoints \ {e} : status'[f] = status[f] /\ told'[f] = told[f],
         handshaking' \subseteq handshaking, pending' \subseteq pending,
         pending \ {e} \subseteq pending',
         UNCHANGED <<job, subject>> \/ (job' = "idle" /\ subject' = {} /\ subject \subseteq {e}),
         UNCHANGED <<removing, notify>> \/ removing' = {}
  PROVE  Inv'
  <1> USE DEF Inv
  <1>1. StatusWellFormed'
    BY DEF StatusWellFormed, kPending, LocalAnswers, RemoteAnswers
  <1>2. ASSUME NEW f \in Endpoints PROVE ConnectionInv(f)'
    <2>1. CASE f = e
      BY <2>1 DEF ConnectionInv, IsConnectedToEndpoint, Open
    <2>2. CASE f # e
      BY <2>2 DEF ConnectionInv, IsConnectedToEndpoint, Open
    <2> QED
      BY <2>1, <2>2
  <1>3. ASSUME NEW f \in Endpoints PROVE ThreadInv(f)'
    <2> USE DEF ThreadInv, IsConnectedToEndpoint, HasPendingConnectionToEndpoint,
          IsConnectionAccepted, IsConnectionRejected, StatusesContain
    <2>1. CASE f = e
      BY <2>1
    <2>2. CASE f # e
      BY <2>2
    <2> QED
      BY <2>1, <2>2
  <1> QED
    BY <1>1, <1>2, <1>3 DEF Unique

(* Rejection, by the evaluated result or because the attempt failed.       *)
LEMMA RejectionSteps ==
  ASSUME Inv, NEW e \in Endpoints,
         \/ Deliver(e) /\ job = "reject"
         \/ ResponseFails(e)
         \/ RunDisconnect(e)
  PROVE  Inv'
  <1> USE DEF Inv
  <1>1. OnConnectionRejected(e)
    BY DEF Deliver, ResponseFails, RunDisconnect, FailPending
  <1>2. /\ handshaking' \subseteq handshaking /\ pending' \subseteq pending
        /\ pending \ {e} \subseteq pending'
        /\ UNCHANGED <<channels, removing, notify>>
        /\ disconnects' \subseteq disconnects
        /\ \/ UNCHANGED <<job, subject>>
           \/ job' = "idle" /\ subject' = {} /\ subject \subseteq {e}
    BY DEF Deliver, ResponseFails, RunDisconnect, FailPending, Unique
  <1>3. CASE HasPendingConnectionToEndpoint(e)
    <2>1. told[e] = "initiated"
      BY <1>3 DEF ConnectionInv, HasPendingConnectionToEndpoint, IsConnectedToEndpoint, Open
    <2>2. Hears(told[e], "rejected") \in ToldStates \ {"broken"}
      BY <2>1 DEF Hears, ToldStates
    <2>3. Removed(e, Hears(told[e], "rejected"))
      BY <1>1, <1>3 DEF OnConnectionRejected
    <2>4. /\ ProxyTypeOK'
          /\ connections' = connections \ {e}
          /\ status'[e] = kPending
          /\ told'[e] \notin Open \cup {"broken"}
          /\ \A f \in Endpoints \ {e} : status'[f] = status[f] /\ told'[f] = told[f]
      BY <2>2, <2>3, RemovedEffect DEF TypeOK
    <2>5. TypeOK'
      BY <1>2, <2>4 DEF TypeOK, Jobs
    <2> QED
      BY <1>2, <2>4, <2>5, ForgetStep
  <1>4. CASE ~HasPendingConnectionToEndpoint(e)
    <2>1. UNCHANGED proxyVars
      BY <1>1, <1>4 DEF OnConnectionRejected
    <2>2. TypeOK' /\ StatusWellFormed'
      BY <1>2, <2>1 DEF TypeOK, ProxyTypeOK, proxyVars, Jobs, StatusWellFormed
    <2>3. ASSUME NEW f \in Endpoints PROVE ConnectionInv(f)'
      BY <2>1 DEF ConnectionInv, proxyVars, IsConnectedToEndpoint
    <2>4. ASSUME NEW f \in Endpoints PROVE ThreadInv(f)'
      BY <1>2, <1>4, <2>1 DEF ThreadInv, proxyVars, IsConnectedToEndpoint,
             HasPendingConnectionToEndpoint, IsConnectionAccepted,
             IsConnectionRejected, StatusesContain
    <2> QED
      BY <1>2, <2>2, <2>3, <2>4 DEF Unique
  <1> QED
    BY <1>3, <1>4

(* The manager's last step.  What makes a notification right is that a     *)
(* removal that notifies finds the endpoint connected or gone.             *)
LEMMA FinishRemoveStep ==
  ASSUME Inv, NEW e \in Endpoints, FinishRemove(e)
  PROVE  Inv'
  <1> USE DEF Inv
  <1> DEFINE t == IF notify /\ e \in connections THEN Hears(told[e], "disconnected")
                                                ELSE told[e]
  <1>1. t \in ToldStates \ {"broken"}
    <2>1. CASE notify /\ e \in connections
      <3>1. told[e] = "accepted"
        BY <2>1 DEF ThreadInv, FinishRemove
      <3> QED
        BY <2>1, <3>1 DEF Hears, ToldStates
    <2>2. CASE ~(notify /\ e \in connections)
      BY <2>2 DEF ConnectionInv, TypeOK, ProxyTypeOK
    <2> QED
      BY <2>1, <2>2
  <1>2. Removed(e, t)
    BY DEF FinishRemove, OnDisconnected
  <1> HIDE DEF t
  <1>3. /\ ProxyTypeOK'
        /\ connections' = connections \ {e}
        /\ status'[e] = kPending
        /\ told'[e] \notin Open \cup {"broken"}
        /\ \A f \in Endpoints \ {e} : status'[f] = status[f] /\ told'[f] = told[f]
    BY <1>1, <1>2, RemovedEffect DEF TypeOK
  <1>4. TypeOK'
    BY <1>3 DEF TypeOK, FinishRemove
  <1> QED
    BY <1>3, <1>4, ForgetStep DEF FinishRemove

(* Registration: the handshake's endpoint has no connection, so the        *)
(* emplace inserts and the listener is not in the middle of another one.   *)
LEMMA RegisterStep ==
  ASSUME Inv, NEW e \in Endpoints, NEW incoming \in BOOLEAN,
         RegisterEndpoint(e, incoming)
  PROVE  Inv'
  <1> USE DEF Inv
  <1>1. e \notin connections /\ e \notin pending
    BY DEF RegisterEndpoint, ThreadInv
  <1>2. Hears(told[e], "initiated") = "initiated"
    BY <1>1 DEF ConnectionInv, Hears
  <1>3. /\ connections' = connections \cup {e}
        /\ status' = [status EXCEPT ![e] = kPending]
        /\ told' = [told EXCEPT ![e] = "initiated"]
        /\ cancellation_flags' \subseteq cancellation_flags \cup {e}
        /\ handshaking' = handshaking \ {e} /\ pending' = pending \cup {e}
        /\ channels' = channels \cup {e} /\ removing = {} /\ job = "idle"
        /\ UNCHANGED <<job, subject, removing, notify, disconnects>>
    BY <1>1, <1>2 DEF RegisterEndpoint, OnConnectionInitiated, PcpIdle
  <1>4. TypeOK'
    <2>1. kPending \in SUBSET StatusBits /\ "initiated" \in ToldStates
      BY DEF kPending, ToldStates
    <2> QED
      BY <1>3, <2>1 DEF TypeOK, ProxyTypeOK
  <1>5. ASSUME NEW f \in Endpoints
        PROVE  /\ status'[f] = IF f = e THEN kPending ELSE status[f]
               /\ told'[f] = IF f = e THEN "initiated" ELSE told[f]
    BY <1>3 DEF TypeOK, ProxyTypeOK
  <1>6. StatusWellFormed'
    BY <1>5 DEF StatusWellFormed, kPending, LocalAnswers, RemoteAnswers
  <1>7. ASSUME NEW f \in Endpoints PROVE ConnectionInv(f)' /\ ThreadInv(f)'
    <2> USE <1>3, <1>5 DEF ConnectionInv, ThreadInv, IsConnectedToEndpoint,
          HasPendingConnectionToEndpoint, IsConnectionAccepted,
          IsConnectionRejected, StatusesContain, Open, kPending, kConnected
    <2>1. CASE f = e
      BY <2>1
    <2>2. CASE f # e
      BY <2>2
    <2> QED
      BY <2>1, <2>2
  <1> QED
    BY <1>3, <1>4, <1>6, <1>7 DEF Unique

(* Acceptance: the connection that was evaluated, or none any more.        *)
LEMMA AcceptStep ==
  ASSUME Inv, NEW e \in Endpoints, Deliver(e), job = "accept"
  PROVE  Inv'
  <1> USE DEF Inv
  <1>1. /\ OnConnectionAccepted(e) /\ e \in subject
        /\ job' = "idle" /\ subject' = {} /\ subject = {e}
        /\ UNCHANGED <<handshaking, pending, channels, removing, notify, disconnects>>
    BY DEF Deliver, Unique
  <1>2. CASE HasPendingConnectionToEndpoint(e)
    <2>1. told[e] = "initiated"
      BY <1>2 DEF ConnectionInv, HasPendingConnectionToEndpoint,
             IsConnectedToEndpoint, Open
    <2>2. Hears(told[e], "accepted") = "accepted"
      BY <2>1 DEF Hears
    <2>3. /\ told' = [told EXCEPT ![e] = "accepted"]
          /\ status' = [status EXCEPT ![e] = kConnected]
          /\ UNCHANGED <<connections, cancellation_flags>>
      BY <1>1, <1>2, <2>2 DEF OnConnectionAccepted
    <2>4. TypeOK'
      <3>1. kConnected \in SUBSET StatusBits /\ "accepted" \in ToldStates
        BY DEF kConnected, StatusBits, ToldStates
      <3> QED
        BY <1>1, <2>3, <3>1 DEF TypeOK, ProxyTypeOK, Jobs
    <2>5. ASSUME NEW f \in Endpoints
          PROVE  /\ status'[f] = IF f = e THEN kConnected ELSE status[f]
                 /\ told'[f] = IF f = e THEN "accepted" ELSE told[f]
      BY <2>3 DEF TypeOK, ProxyTypeOK
    <2>6. StatusWellFormed'
      BY <2>5 DEF StatusWellFormed
    <2>7. ASSUME NEW f \in Endpoints PROVE ConnectionInv(f)' /\ ThreadInv(f)'
      <3> USE <1>1, <1>2, <2>3, <2>5 DEF ConnectionInv, ThreadInv,
            IsConnectedToEndpoint, HasPendingConnectionToEndpoint,
            IsConnectionAccepted, IsConnectionRejected, StatusesContain, Open
      <3>1. CASE f = e
        BY <3>1
      <3>2. CASE f # e
        BY <3>2
      <3> QED
        BY <3>1, <3>2
    <2> QED
      BY <1>1, <2>4, <2>6, <2>7 DEF Unique
  <1>3. CASE ~HasPendingConnectionToEndpoint(e)
    <2>1. UNCHANGED proxyVars
      BY <1>1, <1>3 DEF OnConnectionAccepted
    <2>2. TypeOK' /\ StatusWellFormed'
      BY <1>1, <2>1 DEF TypeOK, ProxyTypeOK, proxyVars, Jobs, StatusWellFormed
    <2>3. ASSUME NEW f \in Endpoints PROVE ConnectionInv(f)' /\ ThreadInv(f)'
      BY <1>1, <1>3, <2>1 DEF ConnectionInv, ThreadInv, proxyVars,
             IsConnectedToEndpoint, HasPendingConnectionToEndpoint
    <2> QED
      BY <1>1, <2>2, <2>3 DEF Unique
  <1> QED
    BY <1>2, <1>3

(* The flags, which nothing else reads, and Reset.                         *)
LEMMA ApiSteps ==
  ASSUME Inv,
         \/ \E e \in Endpoints : AddFlag(e) \/ CancelFlags({e})
         \/ CancelFlags(Endpoints)
         \/ Reset
         \/ UNCHANGED vars
  PROVE  Inv'
  <1> USE DEF Inv
  <1>1. CASE Reset
    <2>1. /\ connections' = {} /\ cancellation_flags' = {}
          /\ status' = [e \in Endpoints |-> kPending]
          /\ told' = [e \in Endpoints |-> Dropped(told[e])]
          /\ UNCHANGED threadVars
      BY <1>1 DEF Reset, RemoveAllEndpoints
    <2>2. ASSUME NEW f \in Endpoints
          PROVE  /\ Dropped(told[f]) \in ToldStates
                 /\ Dropped(told[f]) \notin Open \cup {"broken"}
      BY DEF Dropped, Open, ToldStates, ConnectionInv, TypeOK, ProxyTypeOK
    <2>3. TypeOK'
      BY <2>1, <2>2 DEF TypeOK, ProxyTypeOK, threadVars, kPending
    <2>4. StatusWellFormed'
      BY <2>1 DEF StatusWellFormed, kPending, LocalAnswers, RemoteAnswers
    <2>5. ASSUME NEW f \in Endpoints PROVE ConnectionInv(f)' /\ ThreadInv(f)'
      BY <2>1, <2>2 DEF ConnectionInv, ThreadInv, threadVars, Open,
             IsConnectedToEndpoint, HasPendingConnectionToEndpoint
    <2> QED
      BY <2>1, <2>3, <2>4, <2>5 DEF threadVars, Unique
  <1>2. CASE ~Reset
    <2>1. /\ UNCHANGED <<connections, status, told, threadVars>>
          /\ cancellation_flags' \subseteq Endpoints
      BY <1>2 DEF AddFlag, AddCancellationFlag, CancelFlags, CancelEndpoints,
             vars, proxyVars, TypeOK, ProxyTypeOK
    <2>2. TypeOK' /\ StatusWellFormed'
      BY <2>1 DEF TypeOK, ProxyTypeOK, threadVars, StatusWellFormed
    <2>3. ASSUME NEW f \in Endpoints PROVE ConnectionInv(f)' /\ ThreadInv(f)'
      BY <2>1 DEF ConnectionInv, ThreadInv, threadVars, IsConnectedToEndpoint,
             HasPendingConnectionToEndpoint, IsConnectionAccepted,
             IsConnectionRejected, StatusesContain
    <2> QED
      BY <2>1, <2>2, <2>3 DEF threadVars, Unique
  <1> QED
    BY <1>1, <1>2

-----------------------------------------------------------------------------
LEMMA NextInv ==
  ASSUME DuplicateResponses = FALSE, Inv, [Next]_vars
  PROVE  Inv'
  <1>1. ASSUME NEW e \in Endpoints, Deliver(e) PROVE Inv'
    <2>1. job = "accept" \/ job = "reject"
      BY <1>1 DEF Deliver
    <2> QED
      BY <1>1, <2>1, AcceptStep, RejectionSteps
  <1> QED
    BY <1>1, ThreadSteps, AnswerSteps, RejectionSteps, FinishRemoveStep,
       RegisterStep, ApiSteps DEF Next

(* Inv is an invariant if peers answer once.                               *)
THEOREM Invariance ==
  ASSUME DuplicateResponses = FALSE
  PROVE  Spec => []Inv
<1>1. Init => Inv
  BY InitInv
<1>2. Inv /\ [Next]_vars => Inv'
  BY NextInv
<1> QED
  BY <1>1, <1>2, PTL DEF Spec

(* ClientProxy's fields keep their types under every interleaving of the   *)
(* PCP thread, the manager thread and the API.                             *)
THEOREM TypeCorrect ==
  ASSUME DuplicateResponses = FALSE
  PROVE  Spec => []TypeOK
<1>1. Inv => TypeOK
  BY DEF Inv
<1> QED
  BY <1>1, Invariance, PTL

(* No callback ever reaches the application out of order: none after the   *)
(* connection has ended, no second result, no disconnection of a           *)
(* connection that was never accepted.                                     *)
THEOREM ListenerProtocolHolds ==
  ASSUME DuplicateResponses = FALSE
  PROVE  Spec => []ListenerProtocol
<1>1. Inv => ListenerProtocol
  BY DEF Inv, ConnectionInv, ListenerProtocol
<1> QED
  BY <1>1, Invariance, PTL

(* The application and the proxy agree on who is connected.                *)
THEOREM ToldIsConnectedHolds ==
  ASSUME DuplicateResponses = FALSE
  PROVE  Spec => []ToldIsConnected
<1>1. Inv => ToldIsConnected
  BY DEF Inv, ConnectionInv, ToldIsConnected
<1> QED
  BY <1>1, Invariance, PTL

(* The combination of status bits is always one the header lists.          *)
THEOREM StatusAlwaysWellFormed ==
  ASSUME DuplicateResponses = FALSE
  PROVE  Spec => []StatusWellFormed
<1>1. Inv => StatusWellFormed
  BY DEF Inv
<1> QED
  BY <1>1, Invariance, PTL

(* The DCHECK(inserted) of OnConnectionInitiated cannot fail.              *)
THEOREM InsertedHolds ==
  ASSUME DuplicateResponses = FALSE
  PROVE  Spec => []Inserted
<1>1. Inv => Inserted
  BY DEF Inv, ThreadInv, Inserted, TypeOK
<1> QED
  BY <1>1, Invariance, PTL

(* The step AcceptedByBoth allows.                                         *)
BothStep ==
  \A e \in Endpoints :
    ~IsConnectedToEndpoint(e) /\ IsConnectedToEndpoint(e)'
      => status[e] = {"local_accepted", "remote_accepted"}

(* Only the delivery of an accepted result tells an application            *)
(* "accepted", and Inv says what the status was when it was evaluated.     *)
LEMMA BothStepHolds ==
  ASSUME DuplicateResponses = FALSE, Inv, [Next]_vars
  PROVE  [BothStep]_vars
  <1> SUFFICES ASSUME NEW f \in Endpoints, told[f] # "accepted", told'[f] = "accepted"
               PROVE  status[f] = {"local_accepted", "remote_accepted"}
    <2>1. Inv'
      BY NextInv
    <2> QED
      BY <2>1 DEF BothStep, Inv, ConnectionInv
  <1> USE DEF Inv
  <1>1. told' # told
    OBVIOUS
  <1>2. ASSUME NEW e \in Endpoints, NEW t, Removed(e, t) PROVE FALSE
    BY <1>2 DEF Removed, Dropped, Open, TypeOK, ProxyTypeOK
  <1>3. ASSUME NEW e \in Endpoints, OnConnectionRejected(e) PROVE FALSE
    BY <1>1, <1>2, <1>3 DEF OnConnectionRejected, proxyVars
  <1>4. ASSUME NEW e \in Endpoints, NEW incoming \in BOOLEAN,
               OnConnectionInitiated(e, incoming)
        PROVE  FALSE
    BY <1>4 DEF OnConnectionInitiated, Hears, TypeOK, ProxyTypeOK
  <1>5. ~Reset
    BY DEF Reset, RemoveAllEndpoints, Dropped, Open
  <1>6. PICK e \in Endpoints : Deliver(e) /\ job = "accept"
    BY <1>1, <1>2, <1>3, <1>4, <1>5 DEF Next, vars, proxyVars, StartHandshake,
       HandshakeFails, RegisterEndpoint, LocalResponds, RemoteResponds,
       EndpointResponded, EvaluateNothing, Evaluate, DropOldChannel, Deliver, ResponseFails, RunDisconnect,
       FailPending, BeginRemove, UnregisterChannel, FinishRemove, OnDisconnected,
       AddFlag, AddCancellationFlag, CancelFlags, CancelEndpoints
  <1>7. f = e /\ e \in connections /\ e \in subject
    BY <1>1, <1>6 DEF Deliver, OnConnectionAccepted, TypeOK, ProxyTypeOK, proxyVars,
       HasPendingConnectionToEndpoint
  <1>8. IsConnectionAccepted(f) /\ ~IsConnectionRejected(f)
    BY <1>6, <1>7 DEF ThreadInv
  <1>9. "connected" \notin status[f]
    BY <1>8 DEF IsConnectionAccepted, StatusesContain, StatusWellFormed, kConnected
  <1>10. status[f] \subseteq StatusBits
    BY DEF TypeOK, ProxyTypeOK
  <1> QED
    BY <1>8, <1>9, <1>10 DEF IsConnectionAccepted, IsConnectionRejected, StatusesContain,
       StatusBits, LocalAnswers, RemoteAnswers

(* A connection becomes connected only on the acceptance of both sides.    *)
THEOREM AcceptedByBothHolds ==
  ASSUME DuplicateResponses = FALSE
  PROVE  Spec => AcceptedByBoth
<1>1. Inv /\ [Next]_vars => [BothStep]_vars
  BY BothStepHolds
<1> QED
  BY <1>1, Invariance, PTL DEF Spec, AcceptedByBoth, BothStep

=============================================================================
