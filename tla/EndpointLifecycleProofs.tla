---------------------- MODULE EndpointLifecycleProofs ----------------------
(***************************************************************************)
(* The threads of EndpointLifecycle implement ClientConnections, step by   *)
(* step: under the invariant below, each step of each thread is a step of  *)
(* ClientConnections or leaves what it sees alone (StepRefines).  The      *)
(* module instantiates ClientConnectionsProofs with the refinement mapping *)
(* and so has its lemmas for the threads' state.  That the invariant holds *)
(* is the subject of LifecycleInvariantProofs.                             *)
(***************************************************************************)
EXTENDS EndpointLifecycle, TLAPS

----------------------------------------------------------------------------
(* The inductive invariant *)

\* The PCP thread is running a job for e.
Runs(e) == pcp # Idle /\ pcp.e = e

\* A job of one of these operations waits for the PCP thread, about e.
Queued(ops, e) == \E i \in DOMAIN pcp_queue : pcp_queue[i].op \in ops /\ pcp_queue[i].e = e

\* A pending connection has a channel; the PCP thread and the manager thread agree
\* on the endpoint that is being registered, and register it once.
RegistrationInv ==
  /\ \A e \in Endpoints : IsPending(e) => pending[e].chan # None
  /\ \A i \in DOMAIN pcp_queue : pcp_queue[i].op = "encrypted" => pcp_queue[i].c # None
  /\ pcp.at = "register_processor" => IsPending(pcp.e) /\ ~Registered(pcp.e) /\ pcp.c # None
  /\ pcp.at \in {"registering", "registered"} => IsPending(pcp.e) /\ Registered(pcp.e)
  /\ \A i \in DOMAIN em_queue : em_queue[i].op = "register" =>
       /\ BeingRegistered(em_queue[i].e)
       /\ em_queue[i].c = pending[em_queue[i].e].chan
       /\ em.at # "register"
       /\ \A j \in DOMAIN em_queue : em_queue[j].op = "register" => i = j
  /\ em.at = "register" => BeingRegistered(em.e) /\ em.c = pending[em.e].chan
  /\ em.at = "register" <=> em.op = "register"

\* What the PCP thread knows of the connection it is evaluating.
EvaluationInv ==
  /\ pcp # Idle =>
       (pcp.at \in {"register_processor", "registering", "registered"} <=> pcp.op = "encrypted")
  /\ pcp # Idle => pcp.op \in LocalAnswers \cup RemoteAnswers \cup {"encrypted"}
  /\ pcp.at = "record" /\ pcp.op \in LocalAnswers => IsPending(pcp.e)
  /\ pcp.at \in {"accept", "reject"} => pcp.c # None
  /\ pcp.at = "decide" =>
       /\ IsPending(pcp.e) /\ Registered(pcp.e)
       /\ pcp.e \in connections =>
            IsConnectionAccepted(pcp.e) \/ IsConnectionRejected(pcp.e)

\* A client's connection has an endpoint, and a channel unless the manager is
\* removing it; a registered channel is the one its endpoint serves, and so is the
\* one of a pending connection that was registered.
ChannelInv(e) ==
  /\ em.at \in {"notify", "barrier", "disconnect", "join"} /\ em.e = e => channel[e] = None
  /\ em.at = "join" /\ em.e = e => e \notin connections
  /\ e \in connections /\ channel[e] = None =>
       em.at \in {"notify", "barrier", "disconnect"} /\ em.e = e
  /\ e \in connections => endpoints[e] # None
  /\ channel[e] # None => channel[e] = endpoints[e]
  /\ e \in Agreeing =>
       /\ endpoints[e] \in {None, pending[e].chan}
       /\ channel[e] = None => e \in DisconnectJobs

\* The status bits that say the peer has answered.
Answered(e) == status[e] \cap (RemoteAnswers \cup {"connected"}) # {}

\* The reader hands over one frame at a time and waits for it; a peer that answers
\* once has not answered before.
ReaderInv(e) ==
  /\ reader[e] = "none" <=> endpoints[e] = None
  /\ reader[e] # "running"
  /\ Answered(e) \/ reader[e] = "handling" =>
       endpoints[e] # None /\ responses[endpoints[e]] = MaxResponses
  /\ reader[e] = "handling" <=>
       Queued(RemoteAnswers, e) \/ (Runs(e) /\ pcp.op \in RemoteAnswers)
  /\ \A i \in DOMAIN pcp_queue : pcp_queue[i].op \in RemoteAnswers /\ pcp_queue[i].e = e =>
       /\ ~Answered(e)
       /\ pcp_queue[i].c = endpoints[e]
       /\ ~(Runs(e) /\ pcp.op \in RemoteAnswers)
       /\ \A j \in DOMAIN pcp_queue :
            pcp_queue[j].op \in RemoteAnswers /\ pcp_queue[j].e = e => i = j
  /\ pcp.at = "record" /\ pcp.op \in RemoteAnswers /\ pcp.e = e =>
       ~Answered(e) /\ pcp.c = endpoints[e]
  /\ reader[e] = "done" =>
       \/ \E i \in DOMAIN em_queue : em_queue[i].op # "register" /\ em_queue[i].e = e
       \/ em # Idle /\ em.e = e

\* A job with the result of the handshake of e's pending connection.
IsResult(j, e) ==
  /\ j.e = e /\ j.c = pending[e].chan
  /\ j.op \in {"encrypted", IF pending[e].incoming THEN "incoming_failed" ELSE "outgoing_failed"}

\* The handshake of e's pending connection has not been heard of.
Outstanding(e) ==
  \/ <<e, pending[e].chan, pending[e].incoming>> \in handshakes
  \/ \E i \in DOMAIN pcp_queue : IsResult(pcp_queue[i], e)

\* A connection that was registered with another one's keys: the result of its own
\* handshake comes before any answer of the peer, if the reader has not overtaken it.
StrayInv(e) ==
  IsPending(e) /\ Registered(e) /\ pending[e].keys # pending[e].chan
      /\ pending[e].chan \notin overtaken =>
    /\ Outstanding(e)
    /\ ~BeingRegistered(e) =>
         \A j \in DOMAIN pcp_queue : pcp_queue[j].op \in RemoteAnswers /\ pcp_queue[j].e = e =>
           \E i \in DOMAIN pcp_queue : i < j /\ IsResult(pcp_queue[i], e)
    /\ ~(Runs(e) /\ pcp.op \in RemoteAnswers)
    /\ status[e] \cap RemoteAnswers = {}

\* A connected endpoint's channel is encrypted with its own keys; as long as nothing
\* has crashed, a connection that is not registered waits for its handshake.
KeysInv(e) ==
  /\ IsConnectedToEndpoint(e) \/ (pcp.at = "accept" /\ pcp.e = e) =>
       (channel[e] # None => context[e] = channel[e] \/ channel[e] \in overtaken)
  /\ crashed = "no" =>
       /\ IsPending(e) /\ ~Registered(e) =>
            Outstanding(e) \/ (pcp.at = "register_processor" /\ pcp.e = e /\ pcp.c = pending[e].chan)
       /\ StrayInv(e)

\* Requests and answers of the client that wait for the PCP thread, or are running.
CallJobs == LocalAnswers \cup {"request"}
\* An outgoing connection whose request has not returned.
Dialing(e) ==
  IsPending(e) /\ ~pending[e].incoming
    /\ (~Registered(e) \/ (pcp.at \in {"registering", "registered"} /\ pcp.e = e))
\* The places of the unregister jobs that wait for the manager thread.
Unregisters == {i \in DOMAIN em_queue : em_queue[i].op = "unregister"}

\* The router waits for one thing at a time.
RouterInv ==
  /\ \A i, j \in DOMAIN pcp_queue :
       pcp_queue[i].op \in CallJobs /\ pcp_queue[j].op \in CallJobs => i = j
  /\ \A i \in DOMAIN pcp_queue :
       /\ pcp_queue[i].op \in LocalAnswers =>
            router = [at |-> "answering", todo |-> {pcp_queue[i].e}]
       /\ pcp_queue[i].op = "request" =>
            /\ router = [at |-> "requesting", todo |-> {pcp_queue[i].e}]
            /\ \A e \in Endpoints : ~Dialing(e)
            /\ status[pcp_queue[i].e] \cap (LocalAnswers \cup {"connected"}) = {}
  /\ pcp.op \in LocalAnswers =>
       /\ router = [at |-> "answering", todo |-> {pcp.e}]
       /\ \A i \in DOMAIN pcp_queue : pcp_queue[i].op \notin CallJobs
  /\ \A e \in Endpoints : Dialing(e) => router = [at |-> "requesting", todo |-> {e}]
  /\ \A i, j \in Unregisters : i = j
  /\ Unregisters # {} \/ em.op = "unregister" =>
       router.at \in {"disconnecting", "stop_pending", "stop_connected"}
  /\ Unregisters # {} => em.op # "unregister"
  /\ router.at = "requesting" =>
       \E e \in Endpoints : Queued({"request"}, e) \/ Dialing(e)
  /\ router.at = "answering" =>
       \E e \in Endpoints : Queued(LocalAnswers, e) \/ (Runs(e) /\ pcp.op \in LocalAnswers)
  /\ router.at = "disconnecting" => Unregisters # {} \/ em.op = "unregister"
  /\ router.at = "disconnecting" =>
       /\ \A i \in Unregisters : router.todo = {em_queue[i].e}
       /\ em.op = "unregister" => router.todo = {em.e}

\* ChannelInv, ReaderInv and KeysInv of every endpoint.
ChannelAll == \A e \in Endpoints : ChannelInv(e)
ReaderAll == \A e \in Endpoints : ReaderInv(e)
KeysAll == \A e \in Endpoints : KeysInv(e)

----------------------------------------------------------------------------
(* What is proved of ClientConnections, for the proxy as the threads use it *)

\* ClientConnections and its theorems, for the state the threads are in.
P == INSTANCE ClientConnectionsProofs WITH
  DuplicateResponses <- MaxResponses > 1,
  handshaking <- Handshaking,
  pending <- Agreeing,
  channels <- WithChannel,
  job <- EvaluationJob,
  subject <- Evaluated,
  removing <- BeingRemoved,
  notify <- WillNotify,
  disconnects <- DisconnectJobs

\* The proxy's methods are the same in the instance.
LEMMA ProxySame ==
  /\ P!proxyVars = proxyVars
  /\ P!LocalAnswers = LocalAnswers /\ P!RemoteAnswers = RemoteAnswers
  /\ \A e \in Endpoints :
       /\ P!IsConnectedToEndpoint(e) <=> IsConnectedToEndpoint(e)
       /\ P!HasPendingConnectionToEndpoint(e) <=> HasPendingConnectionToEndpoint(e)
       /\ P!HasRemoteEndpointResponded(e) <=> HasRemoteEndpointResponded(e)
       /\ P!IsConnectionAccepted(e) <=> IsConnectionAccepted(e)
       /\ P!IsConnectionRejected(e) <=> IsConnectionRejected(e)
  BY Zenon DEF P!proxyVars, proxyVars, P!LocalAnswers, LocalAnswers, P!RemoteAnswers, RemoteAnswers,
     P!IsConnectedToEndpoint, IsConnectedToEndpoint, P!HasPendingConnectionToEndpoint,
     HasPendingConnectionToEndpoint, P!HasRemoteEndpointResponded, HasRemoteEndpointResponded,
     P!IsConnectionAccepted, IsConnectionAccepted, P!IsConnectionRejected, IsConnectionRejected,
     P!StatusesContain, StatusesContain, P!kConnected, kConnected

\* ... and so are those that change it.
LEMMA ProxyCallsSame ==
  /\ \A e \in Endpoints :
       /\ \A incoming \in BOOLEAN :
            P!OnConnectionInitiated(e, incoming) <=> OnConnectionInitiated(e, incoming)
       /\ \A side, answer : P!EndpointResponded(e, side, answer) <=> EndpointResponded(e, side, answer)
       /\ P!OnConnectionAccepted(e) <=> OnConnectionAccepted(e)
       /\ P!OnConnectionRejected(e) <=> OnConnectionRejected(e)
       /\ \A notify \in BOOLEAN : P!OnDisconnected(e, notify) <=> OnDisconnected(e, notify)
       /\ P!AddCancellationFlag(e) <=> AddCancellationFlag(e)
  /\ \A es : P!CancelEndpoints(es) <=> CancelEndpoints(es)
  /\ P!RemoveAllEndpoints <=> RemoveAllEndpoints
  <1> USE DEF P!proxyVars, proxyVars, P!kPending, kPending, P!kConnected, kConnected,
     P!HasPendingConnectionToEndpoint, HasPendingConnectionToEndpoint, P!StatusesContain, StatusesContain,
     P!Hears, Hears, P!Dropped, Dropped, P!Open, Open, P!Removed, Removed
  <1>1. ASSUME NEW e \in Endpoints
        PROVE  /\ \A incoming \in BOOLEAN :
                    P!OnConnectionInitiated(e, incoming) <=> OnConnectionInitiated(e, incoming)
               /\ \A side, answer :
                    P!EndpointResponded(e, side, answer) <=> EndpointResponded(e, side, answer)
    BY Zenon DEF P!OnConnectionInitiated, OnConnectionInitiated, P!EndpointResponded, EndpointResponded
  <1>2. ASSUME NEW e \in Endpoints
        PROVE  /\ P!OnConnectionAccepted(e) <=> OnConnectionAccepted(e)
               /\ P!OnConnectionRejected(e) <=> OnConnectionRejected(e)
    BY Zenon DEF P!OnConnectionAccepted, OnConnectionAccepted, P!OnConnectionRejected, OnConnectionRejected
  <1>3. ASSUME NEW e \in Endpoints, NEW notify \in BOOLEAN
        PROVE  P!OnDisconnected(e, notify) <=> OnDisconnected(e, notify)
    BY Zenon DEF P!OnDisconnected, OnDisconnected
  <1>4. ASSUME NEW e \in Endpoints
        PROVE  P!AddCancellationFlag(e) <=> AddCancellationFlag(e)
    BY Zenon DEF P!AddCancellationFlag, AddCancellationFlag
  <1>5. \A es : P!CancelEndpoints(es) <=> CancelEndpoints(es)
    BY Zenon DEF P!CancelEndpoints, CancelEndpoints
  <1>6. P!RemoveAllEndpoints <=> RemoveAllEndpoints
    BY Zenon DEF P!RemoveAllEndpoints, RemoveAllEndpoints
  <1> HIDE DEF P!proxyVars, proxyVars, P!kPending, kPending, P!kConnected, kConnected,
     P!HasPendingConnectionToEndpoint, HasPendingConnectionToEndpoint, P!StatusesContain, StatusesContain,
     P!Hears, Hears, P!Dropped, Dropped, P!Open, Open, P!Removed, Removed
  <1> QED
    BY <1>1, <1>2, <1>3, <1>4, <1>5, <1>6

\* What the invariant of ClientConnections says of an endpoint.
ProxyFacts(e) ==
  /\ e \in connections <=> told[e] \in Open
  /\ e \notin connections => status[e] = {}
  /\ status[e] = {"connected"} \/ "connected" \notin status[e]
  /\ HasPendingConnectionToEndpoint(e) =>
       e \in Agreeing \/ (pcp.at \in {"accept", "reject"} /\ pcp.e = e)
  /\ e \in Agreeing => ~IsConnectedToEndpoint(e)
  /\ e \in Handshaking => e \notin connections
  /\ pcp.at = "accept" /\ pcp.e = e /\ e \in connections => IsConnectionAccepted(e)

\* These are consequences of that invariant.
LEMMA ProxyInv ==
  ASSUME P!Inv
  PROVE  ProxyTypeOK /\ \A e \in Endpoints : ProxyFacts(e)
  <1>1. ProxyTypeOK
    BY Zenon DEF P!Inv, P!TypeOK, P!ProxyTypeOK, ProxyTypeOK, P!StatusBits, StatusBits, P!LocalAnswers,
       LocalAnswers, P!RemoteAnswers, RemoteAnswers, P!ToldStates, ToldStates
  <1>2. ASSUME NEW e \in Endpoints PROVE ProxyFacts(e)
    <2>1. P!ConnectionInv(e) /\ P!ThreadInv(e) /\ P!StatusWellFormed
      BY DEF P!Inv
    <2>2. /\ e \in connections <=> told[e] \in Open
          /\ e \notin connections => status[e] = {}
      BY <2>1, Zenon DEF P!ConnectionInv, P!Open, Open, P!kPending
    <2>3. status[e] = {"connected"} \/ "connected" \notin status[e]
      BY <2>1, Zenon DEF P!StatusWellFormed, P!kConnected
    <2>4. pcp.at \in {"accept", "reject"} => EvaluationJob = pcp.at /\ Evaluated = {pcp.e}
      BY DEF EvaluationJob, Evaluated, Evaluating
    <2>5. EvaluationJob \in {"accept", "reject"} => pcp.at = EvaluationJob
      BY DEF EvaluationJob
    <2>6. e \in Evaluated => pcp.e = e
      BY DEF Evaluated
    <2>7. HasPendingConnectionToEndpoint(e) =>
            e \in Agreeing \/ (pcp.at \in {"accept", "reject"} /\ pcp.e = e)
      BY <2>1, <2>5, <2>6, ProxySame DEF P!ThreadInv
    <2>8. e \in Agreeing => ~IsConnectedToEndpoint(e)
      BY <2>1, ProxySame DEF P!ThreadInv
    <2>9. e \in Handshaking => e \notin connections
      BY <2>1 DEF P!ThreadInv
    <2>10. pcp.at = "accept" /\ pcp.e = e /\ e \in connections => IsConnectionAccepted(e)
      BY <2>1, <2>4, ProxySame DEF P!ThreadInv
    <2> QED
      BY <2>2, <2>3, <2>7, <2>8, <2>9, <2>10 DEF ProxyFacts
  <1> QED
    BY <1>1, <1>2

----------------------------------------------------------------------------
(* Queues and running jobs *)

\* The places of a queue after a job was posted.
LEMMA Posted ==
  ASSUME NEW S, NEW q \in Seq(S), NEW x \in S
  PROVE  /\ Len(q) \in Nat /\ DOMAIN q = 1 .. Len(q)
         /\ DOMAIN Append(q, x) = 1 .. Len(q) + 1
         /\ \A i \in 1 .. Len(q) : Append(q, x)[i] = q[i]
         /\ Append(q, x)[Len(q) + 1] = x
         /\ Append(q, x) \in Seq(S)
  OBVIOUS

\* The places of a queue after its first job was taken.
LEMMA Taken ==
  ASSUME NEW S, NEW q \in Seq(S), q # <<>>
  PROVE  /\ Len(q) \in Nat \ {0} /\ DOMAIN q = 1 .. Len(q)
         /\ 1 \in DOMAIN q /\ Head(q) = q[1] /\ Head(q) \in S
         /\ DOMAIN Tail(q) = 1 .. Len(q) - 1
         /\ \A i \in 1 .. Len(q) - 1 : Tail(q)[i] = q[i + 1] /\ i + 1 \in DOMAIN q
         /\ Tail(q) \in Seq(S)
  OBVIOUS

\* A queue after a post: the jobs that were there, and the new one.
LEMMA PostedJobs ==
  ASSUME NEW S, NEW q \in Seq(S), NEW x \in S
  PROVE  /\ \A i \in DOMAIN q : i \in DOMAIN Append(q, x) /\ Append(q, x)[i] = q[i]
         /\ \A i \in DOMAIN Append(q, x) : Append(q, x)[i] = x \/ (i \in DOMAIN q /\ Append(q, x)[i] = q[i])
         /\ \E i \in DOMAIN Append(q, x) : Append(q, x)[i] = x
  BY Posted

\* A queue after its first job was taken: the others, which move up.
LEMMA TakenJobs ==
  ASSUME NEW S, NEW q \in Seq(S), q # <<>>
  PROVE  /\ \A i \in DOMAIN Tail(q) : i + 1 \in DOMAIN q /\ Tail(q)[i] = q[i + 1]
         /\ \A i \in DOMAIN q : q[i] = Head(q) \/ (i - 1 \in DOMAIN Tail(q) /\ Tail(q)[i - 1] = q[i])
  <1>1. /\ Len(q) \in Nat \ {0} /\ DOMAIN q = 1 .. Len(q) /\ Head(q) = q[1]
        /\ DOMAIN Tail(q) = 1 .. Len(q) - 1
        /\ \A i \in 1 .. Len(q) - 1 : Tail(q)[i] = q[i + 1] /\ i + 1 \in DOMAIN q
    BY Taken
  <1>2. ASSUME NEW i \in DOMAIN q, i # 1
        PROVE  i - 1 \in DOMAIN Tail(q) /\ Tail(q)[i - 1] = q[i]
    <2>1. i \in 1 .. Len(q) /\ i - 1 \in 1 .. Len(q) - 1 /\ (i - 1) + 1 = i
      BY <1>1, <1>2
    <2> QED
      BY <1>1, <2>1
  <1> QED
    BY <1>1, <1>2

\* The fields of a job that is running.
LEMMA RunFields ==
  ASSUME NEW job, NEW at
  PROVE  /\ Running(job, at).at = at /\ Running(job, at).op = job.op /\ Running(job, at).e = job.e
         /\ Running(job, at).c = job.c /\ Running(job, at).notify = FALSE
  BY DEF Running

\* What a job is made of.
LEMMA JobFields ==
  ASSUME NEW op, NEW e, NEW c
  PROVE  Job(op, e, c).op = op /\ Job(op, e, c).e = e /\ Job(op, e, c).c = c
  BY DEF Job

\* The threads' running jobs.
LEMMA PcpShape ==
  ASSUME TypeOK
  PROVE  /\ pcp.at = "idle" <=> pcp = Idle
         /\ pcp.at \in PcpPlaces \cup {"idle"} /\ pcp.c \in ChannelOrNone
         /\ pcp # Idle => pcp.e \in Endpoints /\ pcp.op \in PcpOperations /\ pcp.at \in PcpPlaces
         /\ Idle.at = "idle" /\ Idle.op = "none"
  BY DEF TypeOK, RunsOf, Idle, PcpPlaces, ChannelOrNone

\* What the manager thread may be doing.
LEMMA EmShape ==
  ASSUME TypeOK
  PROVE  /\ em.at = "idle" <=> em = Idle
         /\ em.at \in ManagerPlaces \cup {"idle"} /\ em.c \in ChannelOrNone /\ em.notify \in BOOLEAN
         /\ em # Idle => em.e \in Endpoints /\ em.op \in ManagerOperations /\ em.at \in ManagerPlaces
  <1>1. em \in RunsOf(ManagerOperations, ManagerPlaces) \cup {Idle}
    BY DEF TypeOK
  <1>2. CASE em = Idle
    BY <1>2 DEF Idle, ChannelOrNone
  <1>3. CASE em \in RunsOf(ManagerOperations, ManagerPlaces)
    BY <1>3 DEF RunsOf, Idle, ManagerPlaces
  <1> QED
    BY <1>1, <1>2, <1>3

----------------------------------------------------------------------------
(* Steps the proxy's threads do not notice *)

\* What ClientConnections sees of the PCP thread and the pending connections.
LEMMA PcpSame ==
  ASSUME pending' = pending, pcp' = pcp
  PROVE  Handshaking' = Handshaking /\ Agreeing' = Agreeing /\ EvaluationJob' = EvaluationJob
         /\ Evaluated' = Evaluated
  BY Zenon DEF Handshaking, Agreeing, EvaluationJob, Evaluated, Evaluating, IsPending, Registered,
     BeingRegistered

\* ... of the manager thread and the channels.
LEMMA EmSame ==
  ASSUME em' = em, channel' = channel
  PROVE  WithChannel' = WithChannel /\ BeingRemoved' = BeingRemoved /\ WillNotify' = WillNotify
  BY Zenon DEF WithChannel, BeingRemoved, WillNotify, Removing

\* ... and of the disconnections that wait for the PCP thread.
LEMMA DisconnectsSame ==
  ASSUME em.at = "notify" <=> em'.at = "notify", em.at = "notify" => em'.e = em.e,
         \/ pcp_queue' = pcp_queue
         \/ /\ TypeOK
            /\ \E j \in JobsOf(PcpOperations) :
                 pcp_queue' = Append(pcp_queue, j) /\ j.op # "disconnect"
         \/ /\ TypeOK /\ pcp_queue # <<>>
            /\ pcp_queue' = Tail(pcp_queue) /\ Head(pcp_queue).op # "disconnect"
  PROVE  DisconnectJobs' = DisconnectJobs
  <1>1. CASE pcp_queue' = pcp_queue
    BY <1>1 DEF DisconnectJobs
  <1>2. ASSUME TypeOK, NEW j \in JobsOf(PcpOperations), pcp_queue' = Append(pcp_queue, j),
               j.op # "disconnect"
        PROVE  DisconnectJobs' = DisconnectJobs
    <2>1. pcp_queue \in Seq(JobsOf(PcpOperations))
      BY <1>2 DEF TypeOK
    <2> QED
      BY <1>2, <2>1, PostedJobs DEF DisconnectJobs
  <1>3. ASSUME TypeOK, pcp_queue # <<>>, pcp_queue' = Tail(pcp_queue), Head(pcp_queue).op # "disconnect"
        PROVE  DisconnectJobs' = DisconnectJobs
    <2>1. pcp_queue \in Seq(JobsOf(PcpOperations))
      BY <1>3 DEF TypeOK
    <2> QED
      BY <1>3, <2>1, TakenJobs DEF DisconnectJobs
  <1> QED
    BY <1>1, <1>2, <1>3

\* When none of that changes, ClientConnections takes no step.
LEMMA Stutters ==
  ASSUME UNCHANGED proxyVars, Handshaking' = Handshaking, Agreeing' = Agreeing,
         EvaluationJob' = EvaluationJob, Evaluated' = Evaluated, WithChannel' = WithChannel,
         BeingRemoved' = BeingRemoved, WillNotify' = WillNotify, DisconnectJobs' = DisconnectJobs
  PROVE  UNCHANGED P!vars
  BY Zenon DEF P!vars, P!threadVars, P!proxyVars, proxyVars

\* The same, when the proxy itself may change.
LEMMA ThreadsSame ==
  ASSUME pending' = pending, pcp' = pcp, em' = em, channel' = channel,
         DisconnectJobs' = DisconnectJobs
  PROVE  UNCHANGED P!threadVars
  BY PcpSame, EmSame, Zenon DEF P!threadVars

\* The type of a job.
LEMMA JobType ==
  ASSUME NEW ops, NEW op \in ops, NEW e \in Endpoints, NEW c \in ChannelOrNone
  PROVE  Job(op, e, c) \in JobsOf(ops)
  BY DEF Job, JobsOf

\* The client's calls, the router, and the threads that post jobs.
LEMMA CallsRefine ==
  ASSUME TypeOK, NEW e \in Endpoints,
         \/ CallRequestConnection(e) \/ RequestRefused(e)
         \/ \E answer \in LocalAnswers : CallRespond(e, answer)
         \/ CallDisconnect(e) \/ StopNext(e)
  PROVE  [P!Next]_P!vars
  <1>1. pending' = pending /\ pcp' = pcp /\ em' = em /\ channel' = channel
    BY DEF CallRequestConnection, RequestRefused, CallRespond, CallDisconnect, StopNext, handlerVars,
       managerVars
  <1>2. \/ pcp_queue' = pcp_queue
        \/ \E j \in JobsOf(PcpOperations) : pcp_queue' = Append(pcp_queue, j) /\ j.op # "disconnect"
    <2>1. CASE CallRequestConnection(e)
      <3>1. Job("request", e, None) \in JobsOf(PcpOperations)
        BY JobType DEF PcpOperations, ChannelOrNone
      <3>2. Job("request", e, None).op = "request"
        BY JobFields
      <3> QED
        BY <2>1, <3>1, <3>2 DEF CallRequestConnection
    <2>2. ASSUME NEW answer \in LocalAnswers, CallRespond(e, answer)
          PROVE  \/ pcp_queue' = pcp_queue
                 \/ \E j \in JobsOf(PcpOperations) :
                      pcp_queue' = Append(pcp_queue, j) /\ j.op # "disconnect"
      <3>1. Job(answer, e, channel[e]) \in JobsOf(PcpOperations)
        BY JobType DEF PcpOperations, TypeOK
      <3>2. Job(answer, e, channel[e]).op # "disconnect"
        BY JobFields DEF LocalAnswers
      <3> QED
        BY <2>2, <3>1, <3>2 DEF CallRespond
    <2>3. CASE RequestRefused(e) \/ CallDisconnect(e) \/ StopNext(e)
      BY <2>3 DEF RequestRefused, CallDisconnect, StopNext, handlerVars
    <2> QED
      BY <2>1, <2>2, <2>3
  <1>3. UNCHANGED P!threadVars
    BY <1>1, <1>2, DisconnectsSame, ThreadsSame
  <1>4. AddCancellationFlag(e) \/ CancelEndpoints({e}) \/ UNCHANGED proxyVars
    BY DEF CallRequestConnection, RequestRefused, CallRespond, CallDisconnect, StopNext
  <1>5. P!AddFlag(e) \/ P!CancelFlags({e}) \/ UNCHANGED P!vars
    BY <1>3, <1>4, ProxySame, ProxyCallsSame, Zenon DEF P!AddFlag, P!CancelFlags, P!vars, P!proxyVars, proxyVars
  <1> QED
    BY <1>5 DEF P!Next

\* StopAllEndpoints and its phases, and a channel that breaks.
LEMMA StopsRefine ==
  ASSUME TypeOK, CallStopAll \/ StopPhase \/ \E c \in open : ChannelBreaks(c)
  PROVE  [P!Next]_P!vars
  <1>1. pending' = pending /\ pcp' = pcp /\ em' = em /\ channel' = channel /\ pcp_queue' = pcp_queue
    BY DEF CallStopAll, StopPhase, ChannelBreaks, handlerVars, managerVars
  <1>2. UNCHANGED P!threadVars
    BY <1>1, DisconnectsSame, ThreadsSame
  <1>3. CancelEndpoints(Endpoints) \/ RemoveAllEndpoints \/ UNCHANGED proxyVars
    BY DEF CallStopAll, StopPhase, ChannelBreaks
  <1>4. P!CancelFlags(Endpoints) \/ P!Reset \/ UNCHANGED P!vars
    BY <1>2, <1>3, ProxySame, ProxyCallsSame, Zenon DEF P!CancelFlags, P!Reset, P!vars, P!proxyVars, proxyVars
  <1> QED
    BY <1>4 DEF P!Next

\* The handshakes, alarms, readers and keep-alive workers leave the proxy alone.
LEMMA WorkersRefine ==
  ASSUME TypeOK, NEW e \in Endpoints,
         \/ \E h \in handshakes : HandshakeEnds(h[1], h[2], h[3])
         \/ \E a \in alarms : AlarmFires(a[1], a[2])
         \/ ReaderExits(e) \/ KeepAliveExits(e)
         \/ \E answer \in RemoteAnswers : ReadResponse(e, answer)
  PROVE  [P!Next]_P!vars
  <1>1. pending' = pending /\ pcp' = pcp /\ em' = em /\ channel' = channel /\ UNCHANGED proxyVars
    BY DEF HandshakeEnds, AlarmFires, ReaderExits, KeepAliveExits, ReadResponse, handlerVars, managerVars
  <1>2. \/ pcp_queue' = pcp_queue
        \/ \E j \in JobsOf(PcpOperations) : pcp_queue' = Append(pcp_queue, j) /\ j.op # "disconnect"
    <2>1. ASSUME NEW h \in handshakes, HandshakeEnds(h[1], h[2], h[3])
          PROVE  \E j \in JobsOf(PcpOperations) :
                   pcp_queue' = Append(pcp_queue, j) /\ j.op # "disconnect"
      <3>1. PICK op \in {"encrypted", "incoming_failed", "outgoing_failed"} :
              pcp_queue' = Append(pcp_queue, Job(op, h[1], h[2]))
        BY <2>1 DEF HandshakeEnds
      <3>2. h[1] \in Endpoints /\ h[2] \in ChannelOrNone
        BY DEF TypeOK, ChannelOrNone
      <3>3. Job(op, h[1], h[2]) \in JobsOf(PcpOperations)
        BY <3>2, JobType DEF PcpOperations
      <3>4. Job(op, h[1], h[2]).op # "disconnect"
        BY JobFields
      <3> QED
        BY <3>1, <3>3, <3>4
    <2>2. ASSUME NEW answer \in RemoteAnswers, ReadResponse(e, answer)
          PROVE  \E j \in JobsOf(PcpOperations) :
                   pcp_queue' = Append(pcp_queue, j) /\ j.op # "disconnect"
      <3>1. Job(answer, e, endpoints[e]) \in JobsOf(PcpOperations)
        BY JobType DEF PcpOperations, TypeOK
      <3>2. Job(answer, e, endpoints[e]).op # "disconnect"
        BY JobFields DEF RemoteAnswers
      <3> QED
        BY <2>2, <3>1, <3>2 DEF ReadResponse
    <2>3. CASE (\E a \in alarms : AlarmFires(a[1], a[2])) \/ ReaderExits(e) \/ KeepAliveExits(e)
      BY <2>3 DEF AlarmFires, ReaderExits, KeepAliveExits, handlerVars
    <2> QED
      BY <2>1, <2>2, <2>3
  <1>3. UNCHANGED P!threadVars
    BY <1>1, <1>2, DisconnectsSame, ThreadsSame
  <1> QED
    BY <1>1, <1>3, Zenon DEF P!vars, P!proxyVars, proxyVars

----------------------------------------------------------------------------
(* The PCP thread, as ClientConnections sees it *)

\* The places at which the proxy's view of the PCP thread is the same.
Apart == {"idle", "register_processor", "registered", "record"}

\* Between two places that are no evaluation, ClientConnections sees the same.
LEMMA ApartSame ==
  ASSUME pending' = pending, pcp.at \in Apart, pcp'.at \in Apart
  PROVE  Handshaking' = Handshaking /\ Agreeing' = Agreeing /\ EvaluationJob' = EvaluationJob
         /\ Evaluated' = Evaluated
  BY DEF Handshaking, Agreeing, EvaluationJob, Evaluated, Evaluating, IsPending, Registered,
     BeingRegistered, Apart

\* ... namely a PCP thread that is idle.
LEMMA IdleApart ==
  ASSUME pcp.at \in Apart
  PROVE  EvaluationJob = "idle" /\ Evaluated = {} /\ P!PcpIdle
         /\ \A e \in Endpoints : ~BeingRegistered(e)
  BY DEF EvaluationJob, Evaluated, Evaluating, Apart, P!PcpIdle, BeingRegistered

\* Taking a job that is no disconnection leaves the disconnections.
LEMMA TakesSame ==
  ASSUME TypeOK, NEW op, op # "disconnect", NEW e, Takes(op, e), em' = em
  PROVE  DisconnectJobs' = DisconnectJobs
  BY DisconnectsSame DEF Takes

\* The pending connection with e is given up.
LEMMA GivenUp ==
  ASSUME TypeOK, NEW e \in Endpoints, pending' = [pending EXCEPT ![e] = NoPending],
         pcp.at \in Apart, pcp'.at \in Apart
  PROVE  Handshaking' = Handshaking \ {e} /\ Agreeing' = Agreeing \ {e}
  <1>1. pending'[e] = NoPending /\ \A f \in Endpoints : f # e => pending'[f] = pending[f]
    BY DEF TypeOK
  <1>2. \A f \in Endpoints : ~BeingRegistered(f) /\ ~BeingRegistered(f)'
    BY DEF BeingRegistered, Apart
  <1> QED
    BY <1>1, <1>2 DEF Handshaking, Agreeing, IsPending, Registered

\* A pending connection with e begins.
LEMMA Begun ==
  ASSUME TypeOK, NEW e \in Endpoints, NEW incoming \in BOOLEAN, NEW still, Attempt(e, incoming, still),
         attempts < MaxAttempts, pcp.at \in Apart, pcp' = pcp
  PROVE  Handshaking' = Handshaking \cup {e} /\ Agreeing' = Agreeing \ {e}
  <1>1. attempts + 1 # None
    BY DEF TypeOK, None
  <1>2. /\ pending'[e] = [chan |-> attempts + 1, incoming |-> incoming, keys |-> None]
        /\ \A f \in Endpoints : f # e => pending'[f] = pending[f]
    BY DEF TypeOK, Attempt
  <1>3. \A f \in Endpoints : ~BeingRegistered(f) /\ ~BeingRegistered(f)'
    BY DEF BeingRegistered, Apart
  <1>4. IsPending(e)' /\ ~Registered(e)'
    BY <1>1, <1>2 DEF IsPending, Registered, NoPending
  <1> QED
    BY <1>2, <1>3, <1>4 DEF Handshaking, Agreeing, IsPending, Registered

\* A new connection, requested or incoming, starts a handshake or changes nothing.
LEMMA AttemptsRefine ==
  ASSUME TypeOK, P!Inv, RouterInv, NEW e \in Endpoints,
         RunRequest(e) \/ IncomingConnection(e) \/ \E goes_on \in BOOLEAN : IncomingTie(e, goes_on)
  PROVE  [P!Next]_P!vars
  <1> USE PcpShape DEF Apart
  <1>0. pcp = Idle /\ pcp.at = "idle" /\ pcp' = pcp /\ em' = em /\ channel' = channel
    BY DEF RunRequest, IncomingConnection, IncomingTie, Takes, managerVars
  <1>1. DisconnectJobs' = DisconnectJobs
    <2>1. CASE RunRequest(e)
      BY <1>0, <2>1, TakesSame DEF RunRequest
    <2>2. CASE IncomingConnection(e) \/ \E goes_on \in BOOLEAN : IncomingTie(e, goes_on)
      BY <1>0, <2>2, DisconnectsSame DEF IncomingConnection, IncomingTie
    <2> QED
      BY <2>1, <2>2
  <1>2. WithChannel' = WithChannel /\ BeingRemoved' = BeingRemoved /\ WillNotify' = WillNotify
        /\ EvaluationJob' = EvaluationJob /\ Evaluated' = Evaluated /\ P!PcpIdle
        /\ \A f \in Endpoints : ~BeingRegistered(f)
    <2>1. EvaluationJob' = EvaluationJob /\ Evaluated' = Evaluated
      BY <1>0 DEF EvaluationJob, Evaluated, Evaluating
    <2> QED
      BY <1>0, <2>1, EmSame, IdleApart
  <1>3. ASSUME pending' = pending, UNCHANGED proxyVars
        PROVE  UNCHANGED P!vars
    BY <1>0, <1>1, <1>2, <1>3, PcpSame, Stutters
  <1>4. ASSUME ~IsPending(e), ~IsConnectedToEndpoint(e), NEW incoming \in BOOLEAN, NEW still,
               Attempt(e, incoming, still), attempts < MaxAttempts, UNCHANGED proxyVars
        PROVE  P!StartHandshake(e)
    <2>1. e \notin Handshaking \cup Agreeing
      BY <1>4 DEF Handshaking, Agreeing
    <2>2. Handshaking' = Handshaking \cup {e} /\ Agreeing' = Agreeing
      BY <1>0, <1>4, <2>1, Begun
    <2> QED
      BY <1>1, <1>2, <1>4, <2>1, <2>2, ProxySame, Zenon DEF P!StartHandshake, P!proxyVars, proxyVars
  <1>5. CASE RunRequest(e)
    <2>1. CASE UNCHANGED <<attempts, open, handshakes, pending>>
      BY <1>3, <1>5, <2>1 DEF RunRequest
    <2>2. CASE ~IsPending(e) /\ attempts < MaxAttempts /\ Attempt(e, FALSE, open)
      <3>1. pcp_queue # <<>> /\ Head(pcp_queue).op = "request" /\ Head(pcp_queue).e = e
        BY <1>5 DEF RunRequest, Takes
      <3>2. 1 \in DOMAIN pcp_queue /\ Head(pcp_queue) = pcp_queue[1]
        BY <3>1, Taken DEF TypeOK
      <3>3. status[e] \cap (LocalAnswers \cup {"connected"}) = {}
        BY <3>1, <3>2 DEF RouterInv
      <3>4. ~IsConnectedToEndpoint(e)
        BY <3>3 DEF IsConnectedToEndpoint, kConnected
      <3>5. P!StartHandshake(e)
        BY <1>4, <1>5, <2>2, <3>4 DEF RunRequest
      <3> QED
        BY <3>5 DEF P!Next
    <2> QED
      BY <1>5, <2>1, <2>2 DEF RunRequest
  <1>6. CASE IncomingConnection(e)
    <2>1. P!StartHandshake(e)
      BY <1>4, <1>6 DEF IncomingConnection
    <2> QED
      BY <2>1 DEF P!Next
  <1>7. ASSUME NEW goes_on \in BOOLEAN, IncomingTie(e, goes_on)
        PROVE  [P!Next]_P!vars
    <2>1. CASE Registered(e)
      BY <1>3, <1>7, <2>1 DEF IncomingTie
    <2>2. CASE ~Registered(e)
      <3>1. e \in Handshaking /\ e \notin Agreeing
        BY <1>7, <2>2 DEF IncomingTie, Handshaking, Agreeing
      <3>2. e \notin connections
        BY <3>1, ProxyInv DEF ProxyFacts
      <3>3. UNCHANGED proxyVars
        BY <1>7, <2>2, <3>2 DEF IncomingTie, OnConnectionRejected, HasPendingConnectionToEndpoint
      <3>4. CASE goes_on
        <4>1. Handshaking' = Handshaking /\ Agreeing' = Agreeing
          <5>1. Attempt(e, TRUE, OpenAfterDestroyed(e)) /\ attempts < MaxAttempts
            BY <1>7, <2>2, <3>4 DEF IncomingTie
          <5>2. Handshaking' = Handshaking \cup {e} /\ Agreeing' = Agreeing \ {e}
            BY <1>0, <5>1, Begun
          <5> QED
            BY <3>1, <5>2
        <4> QED
          BY <1>1, <1>2, <3>3, <4>1, Stutters
      <3>5. CASE ~goes_on
        <4>1. Handshaking' = Handshaking \ {e} /\ Agreeing' = Agreeing
          BY <1>0, <1>7, <2>2, <3>1, <3>5, GivenUp DEF IncomingTie
        <4>2. P!HandshakeFails(e)
          BY <1>1, <1>2, <3>1, <3>3, <4>1, ProxySame, Zenon DEF P!HandshakeFails, P!proxyVars, proxyVars
        <4> QED
          BY <4>2 DEF P!Next
      <3> QED
        BY <3>4, <3>5
    <2> QED
      BY <2>1, <2>2
  <1> QED
    BY <1>5, <1>6, <1>7

\* Handshakes that end, one way or the other.
LEMMA HandshakesRefine ==
  ASSUME TypeOK, P!Inv, RegistrationInv, NEW e \in Endpoints,
         \/ RunEncrypted(e) \/ RegisterProcessor(e) \/ RegistrationDone(e)
         \/ \E op \in {"incoming_failed", "outgoing_failed"} : RunEncryptionFailed(op, e)
  PROVE  [P!Next]_P!vars
  <1> USE DEF Apart
  <1>0. em' = em /\ channel' = channel /\ UNCHANGED proxyVars
    BY DEF RunEncrypted, RegisterProcessor, RegistrationDone, RunEncryptionFailed, managerVars
  <1>1. WithChannel' = WithChannel /\ BeingRemoved' = BeingRemoved /\ WillNotify' = WillNotify
    BY <1>0, EmSame
  <1>2. DisconnectJobs' = DisconnectJobs
    BY <1>0, TakesSame, DisconnectsSame DEF RunEncrypted, RegisterProcessor, RegistrationDone,
       RunEncryptionFailed
  <1>3. CASE RunEncrypted(e)
    <2>1. pcp.at \in Apart /\ pcp'.at \in Apart /\ pending' = pending
      <3>1. pcp' \in {pcp, Idle, Running(Head(pcp_queue), "register_processor")}
        BY <1>3 DEF RunEncrypted
      <3>2. Running(Head(pcp_queue), "register_processor").at = "register_processor"
        BY DEF Running
      <3>3. pcp.at = "idle" /\ Idle.at = "idle" /\ pending' = pending
        BY <1>3, PcpShape DEF RunEncrypted, Takes
      <3> QED
        BY <3>1, <3>2, <3>3
    <2> QED
      BY <1>0, <1>1, <1>2, <2>1, ApartSame, Stutters
  <1>4. CASE RegistrationDone(e)
    <2>1. pcp.at \in Apart /\ pcp'.at \in Apart /\ pending' = pending
      BY <1>4, PcpShape DEF RegistrationDone
    <2> QED
      BY <1>0, <1>1, <1>2, <2>1, ApartSame, Stutters
  <1>5. CASE RegisterProcessor(e)
    <2>1. pcp.at = "register_processor" /\ pcp.e = e /\ pcp'.at = "registering" /\ pcp'.e = e
          /\ pcp # Idle
      BY <1>5, PcpShape DEF RegisterProcessor, TypeOK, RunsOf
    <2>2. IsPending(e) /\ ~Registered(e) /\ pcp.c # None /\ pending[e].chan # None
      BY <2>1 DEF RegistrationInv
    <2>3. /\ \A f \in Endpoints : f # e => pending'[f] = pending[f]
          /\ pending'[e].keys = pcp.c /\ pending'[e].chan = pending[e].chan
      BY <1>5 DEF RegisterProcessor, TypeOK
    <2>4. IsPending(e)' /\ Registered(e)'
      BY <2>2, <2>3 DEF IsPending, Registered, NoPending
    <2>5. \A f \in Endpoints : ~BeingRegistered(f) /\ (BeingRegistered(f)' <=> f = e)
      BY <2>1 DEF BeingRegistered
    <2>6. Handshaking' = Handshaking /\ Agreeing' = Agreeing
      BY <2>2, <2>3, <2>4, <2>5 DEF Handshaking, Agreeing, IsPending, Registered
    <2>7. EvaluationJob' = EvaluationJob /\ Evaluated' = Evaluated
      BY <2>1 DEF EvaluationJob, Evaluated, Evaluating
    <2> QED
      BY <1>0, <1>1, <1>2, <2>6, <2>7, Stutters
  <1>6. ASSUME NEW op \in {"incoming_failed", "outgoing_failed"}, RunEncryptionFailed(op, e)
        PROVE  [P!Next]_P!vars
    <2>1. pcp = Idle /\ pcp' = pcp /\ pcp.at \in Apart /\ pcp'.at \in Apart
      BY <1>6, PcpShape DEF RunEncryptionFailed, Takes
    <2>2. EvaluationJob' = EvaluationJob /\ Evaluated' = Evaluated /\ P!PcpIdle
          /\ \A f \in Endpoints : ~BeingRegistered(f)
      BY <2>1, IdleApart DEF EvaluationJob, Evaluated, Evaluating
    <2>3. CASE pending' = pending
      BY <1>0, <1>1, <1>2, <2>1, <2>3, ApartSame, Stutters
    <2>4. CASE pending' = [pending EXCEPT ![e] = NoPending] /\ IsPending(e) /\ ~Registered(e)
      <3>1. e \in Handshaking /\ e \notin Agreeing
        BY <2>4 DEF Handshaking, Agreeing
      <3>2. Handshaking' = Handshaking \ {e} /\ Agreeing' = Agreeing
        <4>1. Handshaking' = Handshaking \ {e} /\ Agreeing' = Agreeing \ {e}
          BY <2>1, <2>4, GivenUp, Zenon
        <4> QED
          BY <3>1, <4>1
      <3>3. P!HandshakeFails(e)
        BY <1>0, <1>1, <1>2, <2>2, <3>1, <3>2, ProxySame, Zenon DEF P!HandshakeFails, P!proxyVars, proxyVars
      <3> QED
        BY <3>3 DEF P!Next
    <2> QED
      BY <1>6, <2>3, <2>4 DEF RunEncryptionFailed
  <1> QED
    BY <1>3, <1>4, <1>5, <1>6

\* The answers of both sides.
LEMMA AnswersRefine ==
  ASSUME TypeOK, P!Inv, EvaluationInv, ReaderAll, NEW e \in Endpoints,
         \/ \E answer \in LocalAnswers : RunRespond(answer, e)
         \/ \E answer \in RemoteAnswers : RunFrame(answer, e)
         \/ RecordAnswer(e) \/ RunEndpointDisconnect(e)
  PROVE  [P!Next]_P!vars
  <1> USE DEF Apart
  <1>0. em' = em /\ channel' = channel
    BY DEF RunRespond, RunFrame, RecordAnswer, RunEndpointDisconnect, managerVars
  <1>1. WithChannel' = WithChannel /\ BeingRemoved' = BeingRemoved /\ WillNotify' = WillNotify
    BY <1>0, EmSame
  <1>2. ASSUME NEW answer \in LocalAnswers, RunRespond(answer, e)
        PROVE  [P!Next]_P!vars
    <2>1. pcp = Idle /\ pcp.at \in Apart /\ pcp'.at \in Apart
      <3>1. pcp' \in {pcp, Running(Head(pcp_queue), "record")}
        BY <1>2 DEF RunRespond
      <3>2. Running(Head(pcp_queue), "record").at = "record"
        BY DEF Running
      <3>3. pcp = Idle /\ pcp.at = "idle"
        BY <1>2, PcpShape DEF RunRespond, Takes
      <3> QED
        BY <3>1, <3>2, <3>3
    <2>2. DisconnectJobs' = DisconnectJobs
      <3>1. answer # "disconnect"
        BY DEF LocalAnswers
      <3> QED
        BY <1>0, <1>2, <3>1, TakesSame DEF RunRespond
    <2>3. P!PcpIdle /\ EvaluationJob = "idle" /\ Evaluated = {} /\ EvaluationJob' = "idle" /\ Evaluated' = {}
          /\ \A f \in Endpoints : ~BeingRegistered(f)
      BY <2>1, IdleApart DEF EvaluationJob, Evaluated, Evaluating
    <2>4. CASE pending' = pending /\ UNCHANGED proxyVars
      BY <1>1, <2>1, <2>2, <2>4, ApartSame, Stutters
    <2>5. CASE IsPending(e) /\ ResultFailure(e, pending[e].chan)
      <3>1. Handshaking' = Handshaking \ {e} /\ Agreeing' = Agreeing \ {e}
        BY <2>1, <2>5, GivenUp DEF ResultFailure
      <3>2. e \in Handshaking \cup Agreeing
        BY <2>3, <2>5 DEF Handshaking, Agreeing
      <3>3. P!OnConnectionRejected(e)
        BY <2>5, ProxyCallsSame DEF ResultFailure
      <3>4. P!ResponseFails(e)
        BY <1>1, <2>2, <2>3, <3>1, <3>2, <3>3, Zenon DEF P!ResponseFails, P!FailPending
      <3> QED
        BY <3>4 DEF P!Next
    <2> QED
      BY <1>2, <2>4, <2>5 DEF RunRespond
  <1>3. ASSUME NEW answer \in RemoteAnswers, RunFrame(answer, e)
        PROVE  [P!Next]_P!vars
    <2>1. pcp.at \in Apart /\ pcp'.at \in Apart /\ pending' = pending /\ UNCHANGED proxyVars
      <3>1. pcp' \in {Idle, Running(Head(pcp_queue), "record")}
        BY <1>3 DEF RunFrame
      <3>2. Running(Head(pcp_queue), "record").at = "record"
        BY DEF Running
      <3>3. pcp.at = "idle" /\ Idle.at = "idle" /\ pending' = pending /\ UNCHANGED proxyVars
        BY <1>3, PcpShape DEF RunFrame, Takes
      <3> QED
        BY <3>1, <3>2, <3>3
    <2>2. DisconnectJobs' = DisconnectJobs
      <3>1. answer # "disconnect"
        BY DEF RemoteAnswers
      <3> QED
        BY <1>0, <1>3, <3>1, TakesSame DEF RunFrame
    <2> QED
      BY <1>1, <2>1, <2>2, ApartSame, Stutters
  <1>4. CASE RecordAnswer(e)
    <2>1. pcp.at = "record" /\ pcp.e = e /\ pcp # Idle /\ pcp'.at = "evaluate" /\ pcp'.e = e
          /\ pending' = pending
      BY <1>4, PcpShape DEF RecordAnswer, TypeOK, RunsOf
    <2>2. Handshaking' = Handshaking /\ Agreeing' = Agreeing /\ P!PcpIdle /\ EvaluationJob' = "evaluate"
          /\ Evaluated' = {e} /\ ~BeingRegistered(e)
      BY <2>1 DEF Handshaking, Agreeing, IsPending, Registered, BeingRegistered, P!PcpIdle, EvaluationJob,
         Evaluated, Evaluating
    <2>3. DisconnectJobs' = DisconnectJobs
      BY <1>0, <1>4, DisconnectsSame DEF RecordAnswer
    <2>4. CASE pcp.op \in LocalAnswers /\ e \in connections
      <3>1. e \in Agreeing
        <4>1. IsPending(e)
          BY <2>1, <2>4 DEF EvaluationInv
        <4>2. e \notin Handshaking
          BY <2>4, ProxyInv DEF ProxyFacts
        <4> QED
          BY <2>2, <4>1, <4>2 DEF Handshaking, Agreeing
      <3>2. P!EndpointResponded(e, P!LocalAnswers, pcp.op)
        BY <1>4, <2>4, ProxySame, ProxyCallsSame DEF RecordAnswer
      <3>3. P!LocalResponds(e, pcp.op)
        BY <1>1, <2>2, <2>3, <3>1, <3>2, Zenon DEF P!LocalResponds
      <3> QED
        BY <2>4, <3>3, ProxySame DEF P!Next
    <2>5. CASE pcp.op \in RemoteAnswers
      <3>1. ~Answered(e)
        BY <2>1, <2>5 DEF ReaderAll, ReaderInv
      <3>2. ~P!HasRemoteEndpointResponded(e) /\ "connected" \notin status[e]
        BY <3>1, ProxySame DEF Answered, HasRemoteEndpointResponded, StatusesContain
      <3>3. P!EndpointResponded(e, P!RemoteAnswers, pcp.op)
        <4>1. pcp.op \notin LocalAnswers
          BY <2>5 DEF LocalAnswers, RemoteAnswers
        <4> QED
          BY <1>4, <4>1, ProxySame, ProxyCallsSame DEF RecordAnswer
      <3>4. P!RemoteResponds(e, pcp.op)
        BY <1>1, <2>2, <2>3, <3>2, <3>3, Zenon DEF P!RemoteResponds
      <3> QED
        BY <2>5, <3>4, ProxySame DEF P!Next
    <2>6. CASE e \notin connections
      <3>1. status[e] = {}
        BY <2>6, ProxyInv DEF ProxyFacts
      <3>2. ~P!HasRemoteEndpointResponded(e) /\ "connected" \notin status[e]
        BY <2>6, <3>1, ProxySame DEF HasRemoteEndpointResponded, StatusesContain
      <3>3. P!EndpointResponded(e, P!RemoteAnswers, "remote_accepted")
        BY <1>4, <2>6, ProxyCallsSame DEF RecordAnswer, EndpointResponded
      <3>4. P!RemoteResponds(e, "remote_accepted")
        BY <1>1, <2>2, <2>3, <3>2, <3>3, Zenon DEF P!RemoteResponds
      <3>5. "remote_accepted" \in P!RemoteAnswers
        BY DEF P!RemoteAnswers
      <3> QED
        BY <3>4, <3>5 DEF P!Next
    <2> QED
      BY <2>1, <2>4, <2>5, <2>6 DEF EvaluationInv
  <1>5. CASE RunEndpointDisconnect(e)
    <2>1. pcp = Idle /\ pcp.at \in Apart /\ pcp' = pcp /\ pcp'.at \in Apart
      BY <1>5, PcpShape DEF RunEndpointDisconnect, Takes
    <2>2. P!PcpIdle /\ EvaluationJob' = EvaluationJob /\ Evaluated' = Evaluated
      BY <2>1, IdleApart DEF EvaluationJob, Evaluated, Evaluating
    <2>3. Handshaking' = Handshaking \ {e} /\ Agreeing' = Agreeing \ {e}
      BY <1>5, <2>1, GivenUp DEF RunEndpointDisconnect, ResultFailure
    <2>4. /\ pcp_queue # <<>> /\ pcp_queue' = Tail(pcp_queue)
          /\ Head(pcp_queue).op = "disconnect" /\ Head(pcp_queue).e = e
      BY <1>5 DEF RunEndpointDisconnect, Takes
    <2>5. /\ \A i \in DOMAIN Tail(pcp_queue) :
               i + 1 \in DOMAIN pcp_queue /\ Tail(pcp_queue)[i] = pcp_queue[i + 1]
          /\ \A i \in DOMAIN pcp_queue :
               \/ pcp_queue[i] = Head(pcp_queue)
               \/ i - 1 \in DOMAIN Tail(pcp_queue) /\ Tail(pcp_queue)[i - 1] = pcp_queue[i]
          /\ 1 \in DOMAIN pcp_queue /\ Head(pcp_queue) = pcp_queue[1]
      BY <2>4, TakenJobs, Taken DEF TypeOK
    <2>6. e \in DisconnectJobs
      BY <2>4, <2>5 DEF DisconnectJobs
    <2>7. \A f \in Endpoints : f \in DisconnectJobs' => f \in DisconnectJobs
      BY <1>0, <2>4, <2>5 DEF DisconnectJobs
    <2>8. \A f \in Endpoints : f \in DisconnectJobs /\ f # e => f \in DisconnectJobs'
      BY <1>0, <2>4, <2>5 DEF DisconnectJobs
    <2>9. DisconnectJobs' \in {DisconnectJobs, DisconnectJobs \ {e}}
      <3>1. DisconnectJobs \subseteq Endpoints /\ DisconnectJobs' \subseteq Endpoints
        BY DEF DisconnectJobs
      <3>2. CASE e \in DisconnectJobs'
        BY <2>6, <2>7, <2>8, <3>1, <3>2
      <3>3. CASE e \notin DisconnectJobs'
        BY <2>6, <2>7, <2>8, <3>1, <3>3
      <3> QED
        BY <3>2, <3>3
    <2>10. P!OnConnectionRejected(e)
      BY <1>5, ProxyCallsSame DEF RunEndpointDisconnect, ResultFailure
    <2>11. P!RunDisconnect(e)
      BY <1>1, <2>2, <2>3, <2>6, <2>9, <2>10, Zenon DEF P!RunDisconnect, P!FailPending
    <2> QED
      BY <2>11 DEF P!Next
  <1> QED
    BY <1>2, <1>3, <1>4, <1>5

\* The result of a connection is settled and delivered.
LEMMA ResultsRefine ==
  ASSUME TypeOK, P!Inv, EvaluationInv, NEW e \in Endpoints,
         EvaluateConnectionResult(e) \/ DecideResult(e) \/ DeliverResult(e)
  PROVE  [P!Next]_P!vars
  <1>0. em' = em /\ channel' = channel /\ pcp.e = e /\ pcp_queue' = pcp_queue /\ pcp # Idle
        /\ pcp.at \in {"evaluate", "decide", "accept", "reject"}
    BY PcpShape DEF EvaluateConnectionResult, DecideResult, DeliverResult
  <1>1. WithChannel' = WithChannel /\ BeingRemoved' = BeingRemoved /\ WillNotify' = WillNotify
        /\ DisconnectJobs' = DisconnectJobs
    BY <1>0, EmSame, DisconnectsSame
  <1>2. Evaluated = {e} /\ ~BeingRegistered(e) /\ \A f \in Endpoints : ~BeingRegistered(f)
    BY <1>0 DEF Evaluated, Evaluating, BeingRegistered
  <1>3. \A at : [pcp EXCEPT !.at = at].at = at /\ [pcp EXCEPT !.at = at].e = pcp.e
    BY <1>0 DEF TypeOK, RunsOf
  <1>4. ASSUME pending' = pending, pcp' = Idle
        PROVE  Handshaking' = Handshaking /\ Agreeing' = Agreeing /\ EvaluationJob' = "idle" /\ Evaluated' = {}
    <2>1. pcp'.at = "idle"
      BY <1>4, PcpShape
    <2> QED
      BY <1>0, <1>2, <1>4, <2>1 DEF Handshaking, Agreeing, IsPending, Registered, BeingRegistered,
         EvaluationJob, Evaluated, Evaluating
  <1>5. CASE EvaluateConnectionResult(e)
    <2>1. EvaluationJob = "evaluate" /\ pending' = pending /\ UNCHANGED proxyVars
      BY <1>5 DEF EvaluateConnectionResult, EvaluationJob
    <2>2. CASE pcp' = [pcp EXCEPT !.at = "decide"]
      <3>1. pcp'.at = "decide" /\ pcp'.e = e
        BY <1>0, <1>3, <2>2
      <3>2. Handshaking' = Handshaking /\ Agreeing' = Agreeing /\ EvaluationJob' = "evaluate" /\ Evaluated' = {e}
        BY <1>2, <2>1, <3>1 DEF Handshaking, Agreeing, IsPending, Registered, BeingRegistered,
           EvaluationJob, Evaluated, Evaluating
      <3> QED
        BY <1>1, <1>2, <2>1, <3>2, Stutters
    <2>3. CASE ~(IsPending(e) /\ (IsConnectionAccepted(e) \/ IsConnectionRejected(e))) /\ JobDone(e)
      <3>1. Handshaking' = Handshaking /\ Agreeing' = Agreeing /\ EvaluationJob' = "idle" /\ Evaluated' = {}
        BY <1>4, <2>1, <2>3 DEF JobDone
      <3>2. e \in Agreeing => ~P!IsConnectionAccepted(e) /\ ~P!IsConnectionRejected(e)
        BY <2>3, ProxySame DEF Agreeing
      <3>3. P!EvaluateNothing(e)
        BY <1>1, <1>2, <2>1, <3>1, <3>2, Zenon DEF P!EvaluateNothing, P!proxyVars, proxyVars
      <3> QED
        BY <3>3 DEF P!Next
    <2> QED
      BY <1>5, <2>2, <2>3 DEF EvaluateConnectionResult
  <1>6. CASE DecideResult(e)
    <2>1. pcp.at = "decide" /\ EvaluationJob = "evaluate" /\ UNCHANGED proxyVars
      BY <1>6 DEF DecideResult, EvaluationJob
    <2>2. CASE pending' = pending /\ pcp' = pcp
      BY <1>1, <2>1, <2>2, PcpSame, Stutters
    <2>3. CASE /\ ~(IsConnectionAccepted(e) /\ channel[e] = None)
               /\ pending' = [pending EXCEPT ![e] = NoPending]
               /\ pcp' = [pcp EXCEPT !.at = IF IsConnectionAccepted(e) THEN "accept" ELSE "reject",
                                     !.c = pending[e].chan]
      <3>1. pcp'.at = (IF IsConnectionAccepted(e) THEN "accept" ELSE "reject") /\ pcp'.e = e
        BY <1>0, <2>3 DEF TypeOK, RunsOf
      <3>2. e \in Agreeing
        BY <1>0, <1>2, <2>1 DEF EvaluationInv, Agreeing
      <3>3. pending'[e] = NoPending /\ \A f \in Endpoints : f # e => pending'[f] = pending[f]
        BY <2>3 DEF TypeOK
      <3>4. \A f \in Endpoints : ~BeingRegistered(f)'
        BY <3>1 DEF BeingRegistered
      <3>5. Agreeing' = Agreeing \ {e}
        BY <1>2, <3>3, <3>4 DEF Agreeing, IsPending, Registered
      <3>6. Handshaking' = Handshaking
        <4>1. e \notin Handshaking
          BY <3>2 DEF Agreeing, Handshaking
        <4> QED
          BY <1>2, <3>3, <3>4, <4>1 DEF Handshaking, IsPending, Registered
      <3>7. EvaluationJob' = pcp'.at /\ Evaluated' = {e}
        BY <3>1 DEF EvaluationJob, Evaluated, Evaluating
      <3>8. \/ P!IsConnectionAccepted(e) /\ e \in WithChannel /\ EvaluationJob' = "accept"
            \/ /\ ~P!IsConnectionAccepted(e)
               /\ P!IsConnectionRejected(e) \/ e \notin connections
               /\ EvaluationJob' = "reject"
        <4>1. CASE IsConnectionAccepted(e)
          BY <2>3, <3>1, <3>7, <4>1, ProxySame DEF WithChannel
        <4>2. CASE ~IsConnectionAccepted(e)
          <5>1. IsConnectionRejected(e) \/ e \notin connections
            BY <1>0, <2>1, <4>2 DEF EvaluationInv
          <5> QED
            BY <3>1, <3>7, <4>2, <5>1, ProxySame
        <4> QED
          BY <4>1, <4>2
      <3>9. P!Evaluate(e)
        BY <1>1, <1>2, <2>1, <3>2, <3>5, <3>6, <3>7, <3>8, Zenon DEF P!Evaluate, P!proxyVars, proxyVars
      <3> QED
        BY <3>9 DEF P!Next
    <2> QED
      BY <1>6, <2>2, <2>3 DEF DecideResult
  <1>7. CASE DeliverResult(e)
    <2>1. pcp.at \in {"accept", "reject"} /\ pending' = pending /\ pcp' = Idle
      BY <1>7 DEF DeliverResult, JobDone
    <2>2. EvaluationJob = pcp.at
      BY <2>1 DEF EvaluationJob
    <2>3. IF EvaluationJob = "accept" THEN P!OnConnectionAccepted(e) ELSE P!OnConnectionRejected(e)
      BY <1>7, <2>2, ProxyCallsSame DEF DeliverResult
    <2>4. P!Deliver(e)
      BY <1>1, <1>2, <1>4, <2>1, <2>2, <2>3, Zenon DEF P!Deliver
    <2> QED
      BY <2>4 DEF P!Next
  <1> QED
    BY <1>5, <1>6, <1>7

----------------------------------------------------------------------------
(* The manager thread, as ClientConnections sees it *)

\* The steps of the EndpointManager thread.
LEMMA ManagerRefines ==
  ASSUME TypeOK, P!Inv, RegistrationInv, ChannelAll, NEW e \in Endpoints,
         \/ TakeRegister(e) \/ RegisterEndpoint(e) \/ TakeRemove(e) \/ RemoveChannel(e)
         \/ NotifyProcessors(e) \/ BarrierOpens(e) \/ Disconnect(e) \/ RemoveEndpointState(e)
  PROVE  [P!Next]_P!vars
  <1> USE EmShape
  <1>0. /\ pending' = pending
        /\ Idle.at = "idle" /\ Idle.notify = FALSE
    BY DEF TakeRegister, RegisterEndpoint, TakeRemove, RemoveChannel, NotifyProcessors, BarrierOpens,
       Disconnect, RemoveEndpointState, handlerVars, Idle
  <1>1. ASSUME pcp' = pcp
        PROVE  Handshaking' = Handshaking /\ Agreeing' = Agreeing /\ EvaluationJob' = EvaluationJob
               /\ Evaluated' = Evaluated
    BY <1>0, <1>1, PcpSame
  <1>2. \A at : em # Idle => LET run == [em EXCEPT !.at = at] IN
          run.at = at /\ run.e = em.e /\ run.notify = em.notify
    BY DEF TypeOK, RunsOf
  <1>3. ASSUME TakeRegister(e) \/ RegisterEndpoint(e)
        PROVE  BeingRegistered(e) /\ e \in Handshaking /\ P!PcpIdle
    <2>1. BeingRegistered(e)
      <3>1. CASE TakeRegister(e)
        <4>1. 1 \in DOMAIN em_queue /\ Head(em_queue) = em_queue[1]
          BY <3>1, Taken DEF TakeRegister, TypeOK
        <4> QED
          BY <3>1, <4>1 DEF TakeRegister, RegistrationInv
      <3>2. CASE RegisterEndpoint(e)
        BY <3>2 DEF RegisterEndpoint, RegistrationInv
      <3> QED
        BY <1>3, <3>1, <3>2
    <2>2. e \in Handshaking
      BY <2>1 DEF Handshaking, BeingRegistered, RegistrationInv
    <2>3. P!PcpIdle
      BY <2>1 DEF BeingRegistered, P!PcpIdle, EvaluationJob
    <2> QED
      BY <2>1, <2>2, <2>3
  <1>4. CASE TakeRegister(e)
    <2>1. em.at = "idle" /\ em'.at = "register" /\ pcp' = pcp /\ pcp_queue' = pcp_queue
          /\ UNCHANGED proxyVars
      BY <1>0, <1>4, RunFields DEF TakeRegister, handlerVars
    <2>2. BeingRemoved = {} /\ BeingRemoved' = {} /\ WillNotify = FALSE /\ WillNotify' = FALSE
          /\ DisconnectJobs' = DisconnectJobs
      BY <2>1, DisconnectsSame DEF BeingRemoved, WillNotify, Removing
    <2>3. CASE channel' = channel
      <3>1. WithChannel' = WithChannel
        BY <2>3 DEF WithChannel
      <3> QED
        BY <1>1, <2>1, <2>2, <3>1, Stutters
    <2>4. CASE channel' = [channel EXCEPT ![e] = None] /\ channel[e] # None
      <3>1. WithChannel' = WithChannel \ {e} /\ e \in WithChannel
        BY <2>4 DEF WithChannel, TypeOK
      <3>2. P!DropOldChannel(e)
        BY <1>1, <1>3, <1>4, <2>1, <2>2, <3>1, Zenon DEF P!DropOldChannel, P!proxyVars, proxyVars
      <3> QED
        BY <3>2 DEF P!Next
    <2>5. CASE channel' = [channel EXCEPT ![e] = None] /\ channel[e] = None
      <3>1. WithChannel' = WithChannel
        BY <2>5 DEF WithChannel, TypeOK
      <3> QED
        BY <1>1, <2>1, <2>2, <3>1, Stutters
    <2> QED
      BY <1>4, <2>3, <2>4, <2>5 DEF TakeRegister, UnregisterChannel
  <1>5. CASE RegisterEndpoint(e)
    <2>1. /\ em.at = "register" /\ em.e = e /\ em' = Idle /\ pcp_queue' = pcp_queue
          /\ pcp.at = "registering" /\ pcp.e = e /\ pcp # Idle
          /\ pcp' = [pcp EXCEPT !.at = "registered"]
      BY <1>3, <1>5, PcpShape DEF RegisterEndpoint, BeingRegistered
    <2>2. pcp'.at = "registered" /\ pcp'.e = e
      BY <2>1 DEF TypeOK, RunsOf
    <2>3. IsPending(e) /\ Registered(e) /\ em.c # None
      BY <2>1 DEF RegistrationInv
    <2>4. Handshaking' = Handshaking \ {e} /\ Agreeing' = Agreeing \cup {e}
      BY <1>0, <2>1, <2>2, <2>3 DEF Handshaking, Agreeing, IsPending, Registered, BeingRegistered
    <2>5. EvaluationJob' = EvaluationJob /\ Evaluated' = Evaluated
      BY <2>1, <2>2 DEF EvaluationJob, Evaluated, Evaluating
    <2>6. WithChannel' = WithChannel \cup {e}
      BY <1>5, <2>3 DEF RegisterEndpoint, WithChannel, TypeOK
    <2>7. em'.at = "idle"
      BY <1>0, <2>1
    <2>8. BeingRemoved = {} /\ BeingRemoved' = {} /\ WillNotify = FALSE /\ WillNotify' = FALSE
          /\ DisconnectJobs' = DisconnectJobs
      BY <2>1, <2>7, DisconnectsSame DEF BeingRemoved, WillNotify, Removing
    <2>9. PICK incoming \in BOOLEAN : P!OnConnectionInitiated(e, incoming)
      <3>1. pending[e].incoming \in BOOLEAN
        BY DEF TypeOK
      <3> QED
        BY <1>5, <3>1, ProxyCallsSame DEF RegisterEndpoint
    <2>10. P!RegisterEndpoint(e, incoming)
      BY <1>3, <1>5, <2>4, <2>5, <2>6, <2>8, <2>9, Zenon DEF P!RegisterEndpoint
    <2> QED
      BY <2>10 DEF P!Next
  <1>6. CASE TakeRemove(e)
    <2>1. /\ em.at = "idle" /\ em'.at = "remove" /\ em'.e = e /\ em'.notify = IsConnectedToEndpoint(e)
          /\ pcp' = pcp /\ pcp_queue' = pcp_queue /\ channel' = channel /\ UNCHANGED proxyVars
      BY <1>6, RunFields DEF TakeRemove, handlerVars, Running
    <2>2. BeingRemoved = {} /\ WillNotify = FALSE /\ DisconnectJobs' = DisconnectJobs
          /\ WithChannel' = WithChannel
      BY <2>1, DisconnectsSame DEF BeingRemoved, WillNotify, Removing, WithChannel
    <2>3. CASE channel[e] # None
      <3>1. Removing'
        BY <2>1, <2>3 DEF Removing
      <3>2. BeingRemoved' = {e} /\ e \in WithChannel
        BY <2>1, <2>3, <3>1 DEF BeingRemoved, WithChannel
      <3>3. WillNotify' = P!IsConnectedToEndpoint(e)
        BY <2>1, <3>1, ProxySame, Zenon DEF WillNotify, IsConnectedToEndpoint, P!IsConnectedToEndpoint, kConnected, P!kConnected
      <3>4. P!BeginRemove(e)
        BY <1>1, <2>1, <2>2, <3>2, <3>3, Zenon DEF P!BeginRemove, P!proxyVars, proxyVars
      <3> QED
        BY <3>4 DEF P!Next
    <2>4. CASE channel[e] = None
      <3>1. ~Removing'
        BY <2>1, <2>4 DEF Removing
      <3>2. BeingRemoved' = {} /\ WillNotify' = FALSE
        BY <3>1 DEF BeingRemoved, WillNotify
      <3> QED
        BY <1>1, <2>1, <2>2, <3>2, Stutters
    <2> QED
      BY <2>3, <2>4
  <1>7. CASE RemoveChannel(e)
    <2>1. em.at = "remove" /\ em.e = e /\ em # Idle /\ pcp' = pcp /\ pcp_queue' = pcp_queue
          /\ UNCHANGED proxyVars /\ channel' = [channel EXCEPT ![e] = None]
      BY <1>7 DEF RemoveChannel, handlerVars, UnregisterChannel
    <2>2. CASE channel[e] = None
      <3>1. em'.at = "join"
        BY <1>2, <1>7, <2>1, <2>2 DEF RemoveChannel
      <3>2. WithChannel' = WithChannel
        BY <2>1, <2>2 DEF WithChannel, TypeOK
      <3>3. BeingRemoved = {} /\ BeingRemoved' = {} /\ WillNotify = FALSE /\ WillNotify' = FALSE
            /\ DisconnectJobs' = DisconnectJobs
        BY <2>1, <2>2, <3>1, DisconnectsSame DEF BeingRemoved, WillNotify, Removing
      <3> QED
        BY <1>1, <2>1, <3>2, <3>3, Stutters
    <2>3. CASE channel[e] # None
      <3>1. em'.at = "notify" /\ em'.e = e /\ em'.notify = em.notify
        BY <1>7, <2>1, <2>3 DEF RemoveChannel, TypeOK, RunsOf
      <3>2. WithChannel' = WithChannel \ {e} /\ e \in WithChannel
        BY <2>1, <2>3 DEF WithChannel, TypeOK
      <3>3. Removing /\ Removing'
        BY <2>1, <2>3, <3>1 DEF Removing
      <3>4. BeingRemoved = {e} /\ BeingRemoved' = {e} /\ WillNotify' = WillNotify
        BY <2>1, <3>1, <3>3 DEF BeingRemoved, WillNotify
      <3>5. DisconnectJobs' = DisconnectJobs \cup {e}
        BY <2>1, <3>1 DEF DisconnectJobs
      <3>6. P!UnregisterChannel(e)
        BY <1>1, <2>1, <3>2, <3>4, <3>5, Zenon DEF P!UnregisterChannel, P!proxyVars, proxyVars
      <3> QED
        BY <3>6 DEF P!Next
    <2> QED
      BY <2>2, <2>3
  <1>8. CASE NotifyProcessors(e)
    <2>1. em.at = "notify" /\ em.e = e /\ em'.at = "barrier" /\ em'.e = e /\ em'.notify = em.notify
          /\ pcp' = pcp /\ UNCHANGED proxyVars /\ channel' = channel
          /\ pcp_queue' = Append(pcp_queue, Job("disconnect", e, em.c))
      BY <1>8 DEF NotifyProcessors, TypeOK, RunsOf
    <2>2. WithChannel' = WithChannel /\ BeingRemoved' = BeingRemoved /\ WillNotify' = WillNotify
      BY <2>1 DEF WithChannel, BeingRemoved, WillNotify, Removing
    <2>3. DisconnectJobs' = DisconnectJobs
      <3>1. Job("disconnect", e, em.c) \in JobsOf(PcpOperations)
        BY JobType DEF PcpOperations
      <3>2. Job("disconnect", e, em.c).op = "disconnect" /\ Job("disconnect", e, em.c).e = e
        BY JobFields
      <3>3. /\ \A i \in DOMAIN pcp_queue : i \in DOMAIN pcp_queue' /\ pcp_queue'[i] = pcp_queue[i]
            /\ \A i \in DOMAIN pcp_queue' :
                 \/ pcp_queue'[i] = Job("disconnect", e, em.c)
                 \/ i \in DOMAIN pcp_queue /\ pcp_queue'[i] = pcp_queue[i]
            /\ \E i \in DOMAIN pcp_queue' : pcp_queue'[i] = Job("disconnect", e, em.c)
        <4>1. pcp_queue \in Seq(JobsOf(PcpOperations))
          BY DEF TypeOK
        <4> QED
          BY <2>1, <3>1, <4>1, PostedJobs
      <3>4. \A f \in Endpoints : f \in DisconnectJobs =>
              f = e \/ \E i \in DOMAIN pcp_queue' : pcp_queue'[i].op = "disconnect" /\ pcp_queue'[i].e = f
        BY <2>1, <3>3 DEF DisconnectJobs
      <3>5. \A f \in Endpoints : f \in DisconnectJobs' => f = e \/ f \in DisconnectJobs
        BY <2>1, <3>2, <3>3 DEF DisconnectJobs
      <3>6. e \in DisconnectJobs /\ e \in DisconnectJobs'
        BY <2>1, <3>2, <3>3 DEF DisconnectJobs
      <3>7. DisconnectJobs \subseteq Endpoints /\ DisconnectJobs' \subseteq Endpoints
        BY DEF DisconnectJobs
      <3>8. \A f \in Endpoints : f \in DisconnectJobs => f \in DisconnectJobs'
        BY <3>4, <3>6 DEF DisconnectJobs
      <3> QED
        BY <3>5, <3>6, <3>7, <3>8
    <2> QED
      BY <1>1, <2>1, <2>2, <2>3, Stutters
  <1>9. CASE BarrierOpens(e)
    <2>1. em.at = "barrier" /\ em.e = e /\ em'.at = "disconnect" /\ em'.e = e /\ em'.notify = em.notify
          /\ pcp' = pcp /\ UNCHANGED proxyVars /\ channel' = channel /\ pcp_queue' = pcp_queue
      BY <1>9 DEF BarrierOpens, TypeOK, RunsOf, handlerVars
    <2>2. WithChannel' = WithChannel /\ BeingRemoved' = BeingRemoved /\ WillNotify' = WillNotify
          /\ DisconnectJobs' = DisconnectJobs
      BY <2>1, DisconnectsSame DEF WithChannel, BeingRemoved, WillNotify, Removing
    <2> QED
      BY <1>1, <2>1, <2>2, Stutters
  <1>10. CASE Disconnect(e)
    <2>1. em.at = "disconnect" /\ em.e = e /\ em'.at = "join" /\ pcp' = pcp /\ channel' = channel
          /\ pcp_queue' = pcp_queue
      BY <1>10 DEF Disconnect, TypeOK, RunsOf, handlerVars
    <2>2. e \notin WithChannel
      BY <2>1 DEF ChannelAll, ChannelInv, WithChannel
    <2>3. BeingRemoved = {e} /\ BeingRemoved' = {} /\ WithChannel' = WithChannel
          /\ DisconnectJobs' = DisconnectJobs
      BY <2>1, DisconnectsSame DEF BeingRemoved, Removing, WithChannel
    <2>4. WillNotify = em.notify /\ WillNotify' = FALSE
      BY <2>1, Zenon DEF WillNotify, Removing
    <2>5. P!OnDisconnected(e, WillNotify)
      BY <1>10, <2>4, ProxyCallsSame DEF Disconnect
    <2>6. P!FinishRemove(e)
      BY <1>1, <2>1, <2>2, <2>3, <2>4, <2>5, Zenon DEF P!FinishRemove
    <2> QED
      BY <2>6 DEF P!Next
  <1>11. CASE RemoveEndpointState(e)
    <2>1. em.at = "join" /\ em'.at = "idle" /\ pcp' = pcp /\ channel' = channel
          /\ pcp_queue' = pcp_queue /\ UNCHANGED proxyVars
      BY <1>0, <1>11 DEF RemoveEndpointState, handlerVars
    <2>2. BeingRemoved = {} /\ BeingRemoved' = {} /\ WillNotify = FALSE /\ WillNotify' = FALSE
          /\ WithChannel' = WithChannel /\ DisconnectJobs' = DisconnectJobs
      BY <2>1, DisconnectsSame DEF BeingRemoved, WillNotify, Removing, WithChannel
    <2> QED
      BY <1>1, <2>1, <2>2, Stutters
  <1> QED
    BY <1>4, <1>5, <1>6, <1>7, <1>8, <1>9, <1>10, <1>11

\* Every step of the threads is a step of ClientConnections, or none.
LEMMA StepRefines ==
  ASSUME TypeOK, P!Inv, RegistrationInv, EvaluationInv, ChannelAll, ReaderAll, RouterInv, [Next]_vars
  PROVE  [P!Next]_P!vars
  <1>1. CASE UNCHANGED vars
    BY <1>1, PcpSame, EmSame, DisconnectsSame, Stutters DEF vars, handlerVars, managerVars
  <1>2. CASE PcpStep
    BY <1>2, AttemptsRefine, HandshakesRefine, AnswersRefine, ResultsRefine DEF PcpStep
  <1>3. CASE ManagerStep
    BY <1>3, ManagerRefines DEF ManagerStep
  <1>4. CASE RouterStep
    BY <1>4, CallsRefine, StopsRefine DEF RouterStep
  <1>5. CASE HandshakeStep \/ AlarmStep \/ \E e \in Endpoints : ReaderStep(e) \/ KeepAliveStep(e)
    <2>1. \A h \in handshakes : h[1] \in Endpoints
      BY DEF TypeOK
    <2>2. \A a \in alarms : a[1] \in Endpoints
      BY DEF TypeOK
    <2> QED
      BY <1>5, <2>1, <2>2, WorkersRefine DEF HandshakeStep, AlarmStep, ReaderStep, KeepAliveStep
  <1>6. CASE Environment
    BY <1>6, CallsRefine, StopsRefine, WorkersRefine, AttemptsRefine DEF Environment
  <1> QED
    BY <1>1, <1>2, <1>3, <1>4, <1>5, <1>6 DEF Next
====
