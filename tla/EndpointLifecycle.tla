------------------------- MODULE EndpointLifecycle -------------------------
(***************************************************************************)
(* The life of connections, from a request or an incoming connection to    *)
(* the removal of the endpoint, with the threads that carry it:            *)
(*                                                                         *)
(*  - the router's serializer (service_controller_router.cc), which runs   *)
(*    one API call at a time and waits for its answer;                     *)
(*  - the PCP handler thread (base_pcp_handler.cc), a queue of jobs;       *)
(*  - the EndpointManager thread (endpoint_manager.cc), a queue of jobs;   *)
(*  - the reader and the keep-alive worker of each registered endpoint;    *)
(*  - the EncryptionRunner's threads and the delayed-close alarms.         *)
(*                                                                         *)
(* A channel is named by the number of the attempt it was opened for, and  *)
(* so are the keys its handshake agrees on.  Every job carries the channel *)
(* it was posted for; the code has no such thing, and only the properties  *)
(* look at it.                                                             *)
(***************************************************************************)
EXTENDS ClientProxy, Sequences, FiniteSets

CONSTANTS
  MaxAttempts,    \* bound: connections that are ever attempted
  MaxResponses,   \* answers a peer may send on one channel (one, if it conforms)
  Events,         \* what may happen: the API calls, "incoming" and "silence"
  Ties            \* TRUE if a connection may come in while one is pending

ASSUME LifecycleConstants ==
  /\ MaxAttempts \in Nat \ {0}
  /\ MaxResponses \in Nat \ {0}
  /\ Events \subseteq {"request", "incoming", "disconnect", "stop_all", "silence"}
  /\ Ties \in BOOLEAN

Channels == 1 .. MaxAttempts
None == 0               \* no channel, no keys

VARIABLES
  attempts,      \* channels opened so far
  open,          \* channels that are open
  handshakes,    \* what EncryptionRunner is working on, <<endpoint, channel, incoming>>
  responses,     \* answers the peer has sent on each channel
  overtaken,     \* history: channels whose reader has taken an answer while
                 \*   their own handshake was still running
  pending,       \* pending_connections_
  alarms,        \* delayed closes that are scheduled, <<endpoint, channel>>
  pending_alarms,\* pending_alarms_: the channel of an endpoint's entry, or None
  pcp_queue, pcp,      \* jobs of the PCP thread, and the one that is running
  em_queue, em,        \* jobs of the EndpointManager thread, and the running one
  channel,       \* EndpointChannelManager: an endpoint's channel, or None
  context,       \* ... and the keys of its encryption context, or None
  endpoints,     \* EndpointManager::endpoints_: the channel its workers serve, or None
  reader,        \* the reader thread of an endpoint
  keep_alive,    \* the keep-alive thread of an endpoint
  router,        \* the router's thread
  crashed        \* where a null pointer was dereferenced, if anywhere

wireVars == <<attempts, open, handshakes, responses, overtaken>>
handlerVars == <<pending, alarms, pending_alarms, pcp_queue, pcp>>
managerVars == <<em_queue, em, channel, context, endpoints, reader, keep_alive>>
vars == <<proxyVars, wireVars, handlerVars, managerVars, router, crashed>>

NoPending == [chan |-> None, incoming |-> FALSE, keys |-> None]
Idle == [at |-> "idle", op |-> "none", e |-> "none", c |-> None, notify |-> FALSE]
Job(op, e, c) == [op |-> op, e |-> e, c |-> c]
Running(job, at) == [at |-> at, op |-> job.op, e |-> job.e, c |-> job.c, notify |-> FALSE]
RouterIdle == [at |-> "idle", todo |-> {}]

Init ==
  /\ ProxyInit
  /\ attempts = 0 /\ open = {} /\ handshakes = {}
  /\ responses = [c \in Channels |-> 0] /\ overtaken = {}
  /\ pending = [e \in Endpoints |-> NoPending]
  /\ alarms = {} /\ pending_alarms = [e \in Endpoints |-> None]
  /\ pcp_queue = <<>> /\ pcp = Idle
  /\ em_queue = <<>> /\ em = Idle
  /\ channel = [e \in Endpoints |-> None]
  /\ context = [e \in Endpoints |-> None]
  /\ endpoints = [e \in Endpoints |-> None]
  /\ reader = [e \in Endpoints |-> "none"]
  /\ keep_alive = [e \in Endpoints |-> "none"]
  /\ router = RouterIdle
  /\ crashed = "no"

-----------------------------------------------------------------------------
\* Helpers.

(* The mutex of the CONNECTION_RESPONSE frame processor is held by a       *)
(* reader for as long as OnIncomingFrame runs, and for a moment only by    *)
(* everyone else.                                                          *)
ProcessorFree == \A e \in Endpoints : reader[e] # "handling"

IsPending(e) == pending[e] # NoPending
Registered(e) == pending[e].keys # None     \* its channel has been passed on

(* Wrong on purpose: only for endpoints that are connected.                *)
DiscardEndpointIfConnected(e, c) ==
  em_queue' = IF IsConnectedToEndpoint(e) THEN Append(em_queue, Job("discard", e, c))
                                          ELSE em_queue

DiscardEndpoint(e, c) == em_queue' = Append(em_queue, Job("discard", e, c))

(* A call that waits for the PCP or the manager thread is answered.        *)
Answer(r, e) == IF r.todo = {e} /\ r.at \in {"requesting", "answering", "disconnecting"}
                  THEN RouterIdle ELSE r
Refuse(r, e) == IF r.todo = {e} /\ r.at = "requesting"
                  THEN [r EXCEPT !.at = "refused"] ELSE Answer(r, e)

(* Wrong on purpose: the future is forgotten.                              *)
AfterDestroyedSilently(r, e) == r

(* ~PendingConnectionInfo: the future is set, the channel closed, if it is *)
(* still here.                                                             *)
AfterDestroyed(r, e) ==
  IF IsPending(e) /\ ~Registered(e) /\ ~pending[e].incoming THEN Refuse(r, e) ELSE r
OpenAfterDestroyed(e) ==
  IF IsPending(e) /\ ~Registered(e) THEN open \ {pending[e].chan} ELSE open

-----------------------------------------------------------------------------
\* The router and the API.  An API call changes the cancellation flags on the
\* caller's thread and then queues its work on the serializer; one step does
\* both, as nothing in this module reads the flags (ClientConnections changes
\* them at any time).

(* RequestConnection: the flag is added at once; the router refuses if the *)
(* client has a connection.                                                *)
CallRequestConnection(e) ==
  /\ "request" \in Events /\ attempts < MaxAttempts
  /\ router = RouterIdle
  /\ AddCancellationFlag(e)
  /\ IF e \in connections
       THEN UNCHANGED <<router, pcp_queue>>
       ELSE /\ router' = [at |-> "requesting", todo |-> {e}]
            /\ pcp_queue' = Append(pcp_queue, Job("request", e, None))
  /\ UNCHANGED <<wireVars, pending, alarms, pending_alarms, pcp, managerVars, crashed>>

(* A request that failed cancels the endpoint.                             *)
RequestRefused(e) ==
  /\ router = [at |-> "refused", todo |-> {e}]
  /\ router' = RouterIdle
  /\ CancelEndpoints({e})
  /\ UNCHANGED <<wireVars, handlerVars, managerVars, crashed>>

(* AcceptConnection or RejectConnection, by an application that has been   *)
(* told of the connection.  RejectConnection cancels the endpoint first.   *)
CallRespond(e, answer) ==
  /\ router = RouterIdle
  /\ told[e] = "initiated"
  /\ IF answer = "local_rejected" THEN CancelEndpoints({e}) ELSE UNCHANGED proxyVars
  /\ IF IsConnectedToEndpoint(e) \/ HasLocalEndpointResponded(e)
       THEN UNCHANGED <<router, pcp_queue>>
       ELSE /\ router' = [at |-> "answering", todo |-> {e}]
            /\ pcp_queue' = Append(pcp_queue, Job(answer, e, channel[e]))
  /\ UNCHANGED <<wireVars, pending, alarms, pending_alarms, pcp, managerVars, crashed>>

(* DisconnectFromEndpoint, and UnregisterEndpoint behind it.               *)
CallDisconnect(e) ==
  /\ "disconnect" \in Events
  /\ router = RouterIdle
  /\ CancelEndpoints({e})
  /\ IF e \in connections
       THEN /\ router' = [at |-> "disconnecting", todo |-> {e}]
            /\ em_queue' = Append(em_queue, Job("unregister", e, channel[e]))
       ELSE UNCHANGED <<router, em_queue>>
  /\ UNCHANGED <<wireVars, handlerVars, em, channel, context, endpoints, reader,
                 keep_alive, crashed>>

(* StopAllEndpoints: CancelAllEndpoints, then FinishClientSession, which   *)
(* disconnects what is pending, then what is connected, and resets.  (It   *)
(* also stops advertising and discovery, see LocalEndpoint.)               *)
CallStopAll ==
  /\ "stop_all" \in Events
  /\ router = RouterIdle
  /\ CancelEndpoints(Endpoints)
  /\ router' = [at |-> "stop_pending",
                todo |-> {e \in Endpoints : HasPendingConnectionToEndpoint(e)}]
  /\ UNCHANGED <<wireVars, handlerVars, managerVars, crashed>>

StopNext(e) ==
  /\ router.at \in {"stop_pending", "stop_connected"} /\ e \in router.todo
  /\ ~\E i \in 1 .. Len(em_queue) : em_queue[i].op = "unregister"
  /\ em.op # "unregister"
  /\ router' = [router EXCEPT !.todo = @ \ {e}]
  /\ em_queue' = Append(em_queue, Job("unregister", e, channel[e]))
  /\ UNCHANGED <<proxyVars, wireVars, handlerVars, em, channel, context, endpoints,
                 reader, keep_alive, crashed>>

StopPhase ==
  /\ router.at \in {"stop_pending", "stop_connected"} /\ router.todo = {}
  /\ ~\E i \in 1 .. Len(em_queue) : em_queue[i].op = "unregister"
  /\ em.op # "unregister"
  /\ IF router.at = "stop_pending"
       THEN /\ router' = [at |-> "stop_connected",
                          todo |-> {e \in Endpoints : IsConnectedToEndpoint(e)}]
            /\ UNCHANGED proxyVars
       ELSE router' = RouterIdle /\ RemoveAllEndpoints
  /\ UNCHANGED <<wireVars, handlerVars, managerVars, crashed>>

-----------------------------------------------------------------------------
\* The EncryptionRunner, the channels, the workers and the alarms.

(* The UKEY2 handshake ends; it cannot succeed on a closed channel.  It     *)
(* may always fail: the channel's reader, if there is one already, may     *)
(* have taken a handshake frame, which it skips as invalid.                *)
HandshakeEnds(e, c, incoming) ==
  /\ <<e, c, incoming>> \in handshakes
  /\ handshakes' = handshakes \ {<<e, c, incoming>>}
  /\ \/ c \in open /\ pcp_queue' = Append(pcp_queue, Job("encrypted", e, c))
     \/ pcp_queue' = Append(pcp_queue,
          Job(IF incoming THEN "incoming_failed" ELSE "outgoing_failed", e, c))
  /\ UNCHANGED <<proxyVars, attempts, open, responses, overtaken, pending, alarms,
                 pending_alarms, pcp, managerVars, router, crashed>>

(* The peer disconnects or the medium fails.                               *)
ChannelBreaks(c) ==
  /\ c \in open
  /\ open' = open \ {c}
  /\ UNCHANGED <<proxyVars, attempts, handshakes, responses, overtaken, handlerVars,
                 managerVars, router, crashed>>

(* HandleData reads a CONNECTION_RESPONSE: the reader takes the frame      *)
(* processor's mutex, and OnIncomingFrame posts a job and waits for it.    *)
(* A peer answers after its own handshake.  Ours may still be running: a   *)
(* connection that the result of another handshake has registered (a tie,  *)
(* or a job that came late) has a reader beside EncryptionRunner, and each *)
(* of them takes the channel's reader_mutex_ for one frame at a time.      *)
ReadResponse(e, answer) ==
  /\ reader[e] = "reading"
  /\ endpoints[e] \in open
  /\ responses[endpoints[e]] < MaxResponses
  /\ ProcessorFree
  /\ reader' = [reader EXCEPT ![e] = "handling"]
  /\ responses' = [responses EXCEPT ![endpoints[e]] = @ + 1]
  /\ overtaken' = overtaken \cup {h[2] : h \in {x \in handshakes : x[2] = endpoints[e]}}
  /\ pcp_queue' = Append(pcp_queue, Job(answer, e, endpoints[e]))
  /\ UNCHANGED <<proxyVars, attempts, open, handshakes, pending, alarms, pending_alarms,
                 pcp, em_queue, em, channel, context, endpoints, keep_alive, router,
                 crashed>>

(* EndpointChannelLoopRunnable: the read fails, there is no other channel, *)
(* and the worker discards the endpoint on its way out.                    *)
ReaderExits(e) ==
  /\ reader[e] = "reading"
  /\ endpoints[e] \notin open
  /\ reader' = [reader EXCEPT ![e] = "done"]
  /\ DiscardEndpoint(e, endpoints[e])
  /\ UNCHANGED <<proxyVars, wireVars, handlerVars, em, channel, context, endpoints,
                 keep_alive, router, crashed>>

(* Likewise the keep-alive worker: its write fails, or nothing has been    *)
(* read for too long, which may be at any time.                            *)
KeepAliveExits(e) ==
  /\ keep_alive[e] = "running"
  /\ keep_alive' = [keep_alive EXCEPT ![e] = "done"]
  /\ DiscardEndpoint(e, endpoints[e])
  /\ UNCHANGED <<proxyVars, wireVars, handlerVars, em, channel, context, endpoints,
                 reader, router, crashed>>

(* The delayed close of a rejected connection.  The entry stays in         *)
(* pending_alarms_.                                                        *)
AlarmFires(e, c) ==
  /\ <<e, c>> \in alarms
  /\ alarms' = alarms \ {<<e, c>>}
  /\ DiscardEndpoint(e, c)
  /\ UNCHANGED <<proxyVars, wireVars, pending, pending_alarms, pcp_queue, pcp, em,
                 channel, context, endpoints, reader, keep_alive, router, crashed>>

-----------------------------------------------------------------------------
\* The PCP handler thread.

(* The thread takes a job of the given kind.                               *)
Takes(op, e) ==
  /\ pcp = Idle
  /\ pcp_queue # <<>>
  /\ Head(pcp_queue).op = op /\ Head(pcp_queue).e = e
  /\ pcp_queue' = Tail(pcp_queue)

(* A new connection is marked as pending and its handshake started.        *)
Attempt(e, incoming, still_open) ==
  /\ attempts' = attempts + 1
  /\ open' = still_open \cup {attempts + 1}
  /\ pending' = [pending EXCEPT ![e] = [chan |-> attempts + 1, incoming |-> incoming,
                                        keys |-> None]]
  /\ handshakes' = handshakes \cup {<<e, attempts + 1, incoming>>}

(* RequestConnection.  The endpoint may be unknown, outgoing connections   *)
(* disallowed, connecting or writing may fail.                             *)
RunRequest(e) ==
  /\ Takes("request", e)
  /\ \/ router' = Refuse(router, e) /\ UNCHANGED <<attempts, open, handshakes, pending>>
     \/ /\ ~IsPending(e)
        /\ attempts < MaxAttempts
        /\ Attempt(e, FALSE, open)
        /\ UNCHANGED router
  /\ UNCHANGED <<proxyVars, responses, overtaken, alarms, pending_alarms, pcp,
                 managerVars, crashed>>

(* OnIncomingConnection from an endpoint we are not connected to and have  *)
(* no pending connection with.  (A job of the accepting medium, which may  *)
(* have been posted at any time before.)                                   *)
IncomingConnection(e) ==
  /\ "incoming" \in Events /\ attempts < MaxAttempts
  /\ pcp = Idle
  /\ ~IsConnectedToEndpoint(e) /\ ~IsPending(e)
  /\ Attempt(e, TRUE, open)
  /\ UNCHANGED <<proxyVars, responses, overtaken, alarms, pending_alarms, pcp_queue,
                 pcp, managerVars, router, crashed>>

(* OnIncomingConnection when one is pending and its nonce is not the       *)
(* higher one: BreakTie and ProcessTieBreakLoss.  The new one goes on if   *)
(* its nonce is higher and the topology allows it.  ProcessTieBreakLoss    *)
(* dereferences the channel of the pending connection.                     *)
IncomingTie(e, goes_on) ==
  /\ "incoming" \in Events /\ Ties /\ attempts < MaxAttempts
  /\ pcp = Idle
  /\ ~IsConnectedToEndpoint(e) /\ IsPending(e)
  /\ IF Registered(e)
       THEN crashed' = "tie_break" /\ UNCHANGED <<proxyVars, wireVars, pending, em_queue, router>>
       ELSE /\ router' = AfterDestroyed(router, e)
            /\ DiscardEndpoint(e, pending[e].chan)
            /\ OnConnectionRejected(e)
            /\ IF goes_on
                 THEN Attempt(e, TRUE, OpenAfterDestroyed(e))
                 ELSE /\ open' = OpenAfterDestroyed(e)
                      /\ pending' = [pending EXCEPT ![e] = NoPending]
                      /\ UNCHANGED <<attempts, handshakes>>
            /\ UNCHANGED <<responses, overtaken, crashed>>
  /\ UNCHANGED <<alarms, pending_alarms, pcp_queue, pcp, em, channel, context, endpoints,
                 reader, keep_alive>>

(* OnEncryptionSuccessRunnable, up to RegisterFrameProcessor.  Nothing     *)
(* tells it which channel the handshake was on.                            *)
RunEncrypted(e) ==
  /\ Takes("encrypted", e)
  /\ IF IsPending(e) /\ Registered(e)
       THEN crashed' = "encrypted" /\ UNCHANGED pcp
       ELSE /\ pcp' = IF IsPending(e) THEN Running(Head(pcp_queue), "register_processor")
                                      ELSE Idle
            /\ UNCHANGED crashed
  /\ UNCHANGED <<proxyVars, wireVars, pending, alarms, pending_alarms, managerVars,
                 router>>

(* RegisterFrameProcessor needs the processor's mutex; then RegisterEndpoint *)
(* hands the channel to the manager thread, and waits.                     *)
RegisterProcessor(e) ==
  /\ pcp.at = "register_processor" /\ pcp.e = e
  /\ ProcessorFree
  /\ pcp' = [pcp EXCEPT !.at = "registering"]
  /\ pending' = [pending EXCEPT ![e].keys = pcp.c]
  /\ em_queue' = Append(em_queue, Job("register", e, pending[e].chan))
  /\ UNCHANGED <<proxyVars, wireVars, alarms, pending_alarms, pcp_queue, em, channel,
                 context, endpoints, reader, keep_alive, router, crashed>>

(* ... and RequestConnection returns.                                      *)
RegistrationDone(e) ==
  /\ pcp.at = "registered" /\ pcp.e = e
  /\ pcp' = Idle
  /\ router' = IF pending[e].incoming THEN router ELSE Answer(router, e)
  /\ UNCHANGED <<proxyVars, wireVars, pending, alarms, pending_alarms, pcp_queue,
                 managerVars, crashed>>

(* OnEncryptionFailureRunnable: nothing is pending, the channels do not    *)
(* compare equal, or the attempt is given up.  Channels are equal if their *)
(* type, medium and name are, and the name is the endpoint's: two attempts *)
(* in the same direction look the same.                                    *)
RunEncryptionFailed(op, e) ==
  /\ op \in {"incoming_failed", "outgoing_failed"}
  /\ Takes(op, e)
  /\ IF IsPending(e) /\ Registered(e)
       THEN crashed' = "encryption_failed" /\ UNCHANGED <<open, pending, router>>
       ELSE /\ IF IsPending(e) /\ pending[e].incoming = (op = "incoming_failed")
                 THEN /\ open' = OpenAfterDestroyed(e)
                      /\ pending' = [pending EXCEPT ![e] = NoPending]
                      /\ router' = AfterDestroyed(router, e)
                 ELSE UNCHANGED <<open, pending, router>>
            /\ UNCHANGED crashed
  /\ UNCHANGED <<proxyVars, attempts, handshakes, responses, overtaken, alarms,
                 pending_alarms, pcp, managerVars>>

(* ProcessPreConnectionResultFailure, on behalf of channel c.              *)
ResultFailure(e, c) ==
  /\ pending' = [pending EXCEPT ![e] = NoPending]
  /\ open' = OpenAfterDestroyed(e)
  /\ DiscardEndpoint(e, c)
  /\ OnConnectionRejected(e)

(* AcceptConnection or RejectConnection, up to the write of the answer.    *)
RunRespond(answer, e) ==
  /\ answer \in LocalAnswers
  /\ Takes(answer, e)
  /\ \/ /\ ~IsPending(e)
        /\ router' = Answer(router, e)
        /\ UNCHANGED <<proxyVars, open, pending, em_queue, pcp>>
     \/ /\ IsPending(e) /\ channel[e] \notin open    \* no channel, or the write fails
        /\ ResultFailure(e, pending[e].chan)
        /\ router' = Answer(AfterDestroyed(router, e), e)
        /\ UNCHANGED pcp
     \/ /\ IsPending(e) /\ channel[e] \in open
        /\ pcp' = Running(Head(pcp_queue), "record")
        /\ UNCHANGED <<proxyVars, open, pending, em_queue, router>>
  /\ UNCHANGED <<attempts, handshakes, responses, overtaken, alarms, pending_alarms, em,
                 channel, context, endpoints, reader, keep_alive, crashed>>

(* OnIncomingFrame's job.  The early return does not count the latch down. *)
RunFrame(answer, e) ==
  /\ answer \in RemoteAnswers
  /\ Takes(answer, e)
  /\ pcp' = IF HasRemoteEndpointResponded(e) THEN Idle
                                             ELSE Running(Head(pcp_queue), "record")
  /\ UNCHANGED <<proxyVars, wireVars, pending, alarms, pending_alarms, managerVars,
                 router, crashed>>

(* The answer is recorded in the proxy.                                    *)
RecordAnswer(e) ==
  /\ pcp.at = "record" /\ pcp.e = e
  /\ EndpointResponded(e, IF pcp.op \in LocalAnswers THEN LocalAnswers ELSE RemoteAnswers,
                       pcp.op)
  /\ pcp' = [pcp EXCEPT !.at = "evaluate"]
  /\ UNCHANGED <<wireVars, pending, alarms, pending_alarms, pcp_queue, managerVars,
                 router, crashed>>

(* Wrong on purpose: the reader's latch is not counted down.               *)
JobDoneHolds(e) ==
  /\ pcp' = Idle
  /\ router' = IF pcp.op \in LocalAnswers THEN Answer(router, e) ELSE router
  /\ UNCHANGED reader

(* The end of a job that someone waits for.                                *)
JobDone(e) ==
  /\ pcp' = Idle
  /\ IF pcp.op \in LocalAnswers
       THEN router' = Answer(router, e) /\ UNCHANGED reader
       ELSE reader' = [reader EXCEPT ![e] = "reading"] /\ UNCHANGED router

(* EvaluateConnectionResult: too early, or not pending any more ...        *)
EvaluateConnectionResult(e) ==
  /\ pcp.at = "evaluate" /\ pcp.e = e
  /\ IF IsPending(e) /\ (IsConnectionAccepted(e) \/ IsConnectionRejected(e))
       THEN pcp' = [pcp EXCEPT !.at = "decide"] /\ UNCHANGED <<router, reader>>
       ELSE JobDone(e)
  /\ UNCHANGED <<proxyVars, wireVars, pending, alarms, pending_alarms, pcp_queue,
                 em_queue, em, channel, context, endpoints, keep_alive, crashed>>

(* Wrong on purpose: the channel is not encrypted.                         *)
DecideResultPlain(e) ==
  /\ pcp.at = "decide" /\ pcp.e = e
  /\ pending' = [pending EXCEPT ![e] = NoPending]
  /\ pcp' = [pcp EXCEPT !.at = IF IsConnectionAccepted(e) THEN "accept" ELSE "reject",
                        !.c = pending[e].chan]
  /\ UNCHANGED <<proxyVars, wireVars, alarms, pending_alarms, pcp_queue, managerVars,
                 router, crashed>>

(* ... or it is taken out of the pending ones, and the proxy asked again.  *)
(* EncryptChannelForEndpoint, then the channel is dereferenced.            *)
DecideResult(e) ==
  /\ pcp.at = "decide" /\ pcp.e = e
  /\ IF IsConnectionAccepted(e) /\ channel[e] = None
       THEN crashed' = "evaluate" /\ UNCHANGED <<pending, context, pcp>>
       ELSE /\ pending' = [pending EXCEPT ![e] = NoPending]
            /\ context' = IF IsConnectionAccepted(e)
                            THEN [context EXCEPT ![e] = pending[e].keys] ELSE context
            /\ pcp' = [pcp EXCEPT !.at = IF IsConnectionAccepted(e) THEN "accept" ELSE "reject",
                                  !.c = pending[e].chan]
            /\ UNCHANGED crashed
  /\ UNCHANGED <<proxyVars, wireVars, alarms, pending_alarms, pcp_queue, em_queue, em,
                 channel, endpoints, reader, keep_alive, router>>

(* ... and the client is told.  A rejected connection is discarded at once *)
(* if the remote side's answer settled it, else after a delay.  A second   *)
(* alarm for an endpoint does not get into pending_alarms_.                *)
DeliverResult(e) ==
  /\ pcp.at \in {"accept", "reject"} /\ pcp.e = e
  /\ IF pcp.at = "accept"
       THEN /\ OnConnectionAccepted(e)
            /\ UNCHANGED <<em_queue, alarms, pending_alarms>>
       ELSE /\ OnConnectionRejected(e)
            /\ IF pcp.op \in RemoteAnswers
                 THEN DiscardEndpoint(e, pcp.c) /\ UNCHANGED <<alarms, pending_alarms>>
                 ELSE /\ alarms' = alarms \cup {<<e, pcp.c>>}
                      /\ pending_alarms' = IF pending_alarms[e] = None
                                             THEN [pending_alarms EXCEPT ![e] = pcp.c]
                                             ELSE pending_alarms
                      /\ UNCHANGED em_queue
  /\ JobDone(e)
  /\ UNCHANGED <<wireVars, pending, pcp_queue, em, channel, context, endpoints,
                 keep_alive, crashed>>

(* The job OnEndpointDisconnect posted: the delayed close is cancelled and *)
(* the pending connection, if there is one, ended.                         *)
RunEndpointDisconnect(e) ==
  /\ Takes("disconnect", e)
  /\ alarms' = alarms \ {<<e, pending_alarms[e]>>}
  /\ pending_alarms' = [pending_alarms EXCEPT ![e] = None]
  /\ ResultFailure(e, Head(pcp_queue).c)
  /\ router' = AfterDestroyed(router, e)
  /\ UNCHANGED <<attempts, handshakes, responses, overtaken, pcp, em, channel, context,
                 endpoints, reader, keep_alive, crashed>>

-----------------------------------------------------------------------------
\* The EndpointManager thread.

(* EndpointChannelManager::UnregisterChannelForEndpoint, if it has one.    *)
UnregisterChannel(e) ==
  /\ channel' = [channel EXCEPT ![e] = None]
  /\ context' = [context EXCEPT ![e] = None]
  /\ open' = open \ {channel[e]}

WorkersIgnored(e) == TRUE    \* wrong on purpose: nobody waits for them

WorkersDone(e) == reader[e] \in {"none", "done"} /\ keep_alive[e] \in {"none", "done"}

(* RegisterEndpoint: the state of an earlier registration goes first,      *)
(* which unregisters its channel and waits for its workers.                *)
TakeRegister(e) ==
  /\ em = Idle /\ em_queue # <<>>
  /\ Head(em_queue).op = "register" /\ Head(em_queue).e = e
  /\ em_queue' = Tail(em_queue)
  /\ em' = Running(Head(em_queue), "register")
  /\ IF endpoints[e] # None THEN UnregisterChannel(e) ELSE UNCHANGED <<channel, context, open>>
  /\ UNCHANGED <<proxyVars, attempts, handshakes, responses, overtaken, handlerVars,
                 endpoints, reader, keep_alive, router, crashed>>

(* The channel is registered, the workers are started, the client is told, *)
(* and the PCP thread may go on.                                           *)
RegisterEndpoint(e) ==
  /\ em.at = "register" /\ em.e = e
  /\ WorkersDone(e)
  /\ channel' = [channel EXCEPT ![e] = em.c]
  /\ endpoints' = [endpoints EXCEPT ![e] = em.c]
  /\ reader' = [reader EXCEPT ![e] = "reading"]
  /\ keep_alive' = [keep_alive EXCEPT ![e] = "running"]
  /\ OnConnectionInitiated(e, pending[e].incoming)
  /\ pcp' = [pcp EXCEPT !.at = "registered"]
  /\ em' = Idle
  /\ UNCHANGED <<wireVars, pending, alarms, pending_alarms, pcp_queue, em_queue, context,
                 router, crashed>>

(* Wrong on purpose: a connection that is only pending is notified too.    *)
TakeRemoveNotifies(e) ==
  /\ em = Idle /\ em_queue # <<>>
  /\ Head(em_queue).op \in {"discard", "unregister"} /\ Head(em_queue).e = e
  /\ em_queue' = Tail(em_queue)
  /\ em' = [Running(Head(em_queue), "remove") EXCEPT !.notify = e \in connections]
  /\ UNCHANGED <<proxyVars, wireVars, handlerVars, channel, context, endpoints, reader,
                 keep_alive, router, crashed>>

(* UnregisterEndpoint or DiscardEndpoint: RemoveEndpoint, told to notify   *)
(* if the client is connected now.                                         *)
TakeRemove(e) ==
  /\ em = Idle /\ em_queue # <<>>
  /\ Head(em_queue).op \in {"discard", "unregister"} /\ Head(em_queue).e = e
  /\ em_queue' = Tail(em_queue)
  /\ em' = [Running(Head(em_queue), "remove") EXCEPT !.notify = IsConnectedToEndpoint(e)]
  /\ UNCHANGED <<proxyVars, wireVars, handlerVars, channel, context, endpoints, reader,
                 keep_alive, router, crashed>>

RemoveChannel(e) ==
  /\ em.at = "remove" /\ em.e = e
  /\ em' = IF channel[e] = None THEN [em EXCEPT !.at = "join"]
                                ELSE [em EXCEPT !.at = "notify", !.c = channel[e]]
  /\ UnregisterChannel(e)
  /\ UNCHANGED <<proxyVars, attempts, handshakes, responses, overtaken, handlerVars,
                 em_queue, endpoints, reader, keep_alive, router, crashed>>

(* NotifyFrameProcessorsOnEndpointDisconnect: each processor's mutex is    *)
(* taken in turn, the handler's too.                                       *)
NotifyProcessors(e) ==
  /\ em.at = "notify" /\ em.e = e
  /\ ProcessorFree
  /\ pcp_queue' = Append(pcp_queue, Job("disconnect", e, em.c))
  /\ em' = [em EXCEPT !.at = "barrier"]
  /\ UNCHANGED <<proxyVars, wireVars, pending, alarms, pending_alarms, pcp, em_queue,
                 channel, context, endpoints, reader, keep_alive, router, crashed>>

(* The barrier opens, or kProcessEndpointDisconnectionTimeout has passed.  *)
BarrierOpens(e) ==
  /\ em.at = "barrier" /\ em.e = e
  /\ em' = [em EXCEPT !.at = "disconnect"]
  /\ UNCHANGED <<proxyVars, wireVars, handlerVars, em_queue, channel, context, endpoints,
                 reader, keep_alive, router, crashed>>

(* Wrong on purpose: a connection that is not notified stays in the proxy. *)
DisconnectIfNotified(e) ==
  /\ em.at = "disconnect" /\ em.e = e
  /\ IF em.notify THEN OnDisconnected(e, TRUE) ELSE UNCHANGED proxyVars
  /\ em' = [em EXCEPT !.at = "join"]
  /\ UNCHANGED <<wireVars, handlerVars, em_queue, channel, context, endpoints, reader,
                 keep_alive, router, crashed>>

(* ClientProxy::OnDisconnected.                                            *)
Disconnect(e) ==
  /\ em.at = "disconnect" /\ em.e = e
  /\ OnDisconnected(e, em.notify)
  /\ em' = [em EXCEPT !.at = "join"]
  /\ UNCHANGED <<wireVars, handlerVars, em_queue, channel, context, endpoints, reader,
                 keep_alive, router, crashed>>

(* RemoveEndpointState, which waits for the workers.                       *)
RemoveEndpointState(e) ==
  /\ em.at = "join" /\ em.e = e
  /\ WorkersDone(e)
  /\ endpoints' = [endpoints EXCEPT ![e] = None]
  /\ reader' = [reader EXCEPT ![e] = "none"]
  /\ keep_alive' = [keep_alive EXCEPT ![e] = "none"]
  /\ router' = IF em.op = "unregister" THEN Answer(router, e) ELSE router
  /\ em' = Idle
  /\ UNCHANGED <<proxyVars, wireVars, handlerVars, em_queue, channel, context, crashed>>

-----------------------------------------------------------------------------
PcpStep ==
  /\ crashed = "no"
  /\ \E e \in Endpoints :
       \/ RunRequest(e)
       \/ RunEncrypted(e) \/ RegisterProcessor(e) \/ RegistrationDone(e)
       \/ \E op \in {"incoming_failed", "outgoing_failed"} : RunEncryptionFailed(op, e)
       \/ \E answer \in LocalAnswers : RunRespond(answer, e)
       \/ \E answer \in RemoteAnswers : RunFrame(answer, e)
       \/ RecordAnswer(e)
       \/ EvaluateConnectionResult(e) \/ DecideResult(e) \/ DeliverResult(e)
       \/ RunEndpointDisconnect(e)

ManagerStep ==
  /\ crashed = "no"
  /\ \E e \in Endpoints :
       \/ TakeRegister(e) \/ RegisterEndpoint(e)
       \/ TakeRemove(e) \/ RemoveChannel(e) \/ NotifyProcessors(e)
       \/ BarrierOpens(e) \/ Disconnect(e) \/ RemoveEndpointState(e)

RouterStep ==
  /\ crashed = "no"
  /\ (\E e \in Endpoints : RequestRefused(e) \/ StopNext(e)) \/ StopPhase

HandshakeStep ==
  /\ crashed = "no"
  /\ \E h \in handshakes : HandshakeEnds(h[1], h[2], h[3])

AlarmStep == crashed = "no" /\ \E a \in alarms : AlarmFires(a[1], a[2])

ReaderStep(e) == crashed = "no" /\ ReaderExits(e)
KeepAliveStep(e) == crashed = "no" /\ endpoints[e] \notin open /\ KeepAliveExits(e)

(* What the application, the peers and the mediums do.                     *)
Environment ==
  /\ crashed = "no"
  /\ \/ \E e \in Endpoints :
          \/ CallRequestConnection(e)
          \/ \E answer \in LocalAnswers : CallRespond(e, answer)
          \/ CallDisconnect(e)
          \/ IncomingConnection(e)
          \/ \E goes_on \in BOOLEAN : IncomingTie(e, goes_on)
          \/ \E answer \in RemoteAnswers : ReadResponse(e, answer)
          \/ "silence" \in Events /\ KeepAliveExits(e)
     \/ CallStopAll
     \/ \E c \in open : ChannelBreaks(c)

Next ==
  \/ PcpStep \/ ManagerStep \/ RouterStep \/ HandshakeStep \/ AlarmStep
  \/ \E e \in Endpoints : ReaderStep(e) \/ KeepAliveStep(e)
  \/ Environment

Spec == Init /\ [][Next]_vars

(* The threads run, handshakes end (a timeout closes the channel), timers  *)
(* expire, and a worker notices that its channel was closed.  Nothing is   *)
(* assumed of the application, the peer or the medium.                     *)
Fairness ==
  /\ WF_vars(PcpStep) /\ WF_vars(ManagerStep) /\ WF_vars(RouterStep)
  /\ WF_vars(HandshakeStep) /\ WF_vars(AlarmStep)
  /\ \A e \in Endpoints : WF_vars(ReaderStep(e)) /\ WF_vars(KeepAliveStep(e))

FairSpec == Spec /\ Fairness

-----------------------------------------------------------------------------
\* Type and refinement.

ChannelOrNone == Channels \cup {None}
Threads == {"none", "reading", "running", "handling", "done"}
PcpPlaces == {"register_processor", "registering", "registered", "record", "evaluate",
              "decide", "accept", "reject"}
ManagerPlaces == {"register", "remove", "notify", "barrier", "disconnect", "join"}
RouterPlaces == {"idle", "requesting", "refused", "answering", "disconnecting",
                 "stop_pending", "stop_connected"}
PcpOperations == LocalAnswers \cup RemoteAnswers \cup
  {"request", "encrypted", "incoming_failed", "outgoing_failed", "disconnect"}
ManagerOperations == {"register", "discard", "unregister"}
JobsOf(ops) == [op : ops, e : Endpoints, c : ChannelOrNone]
RunsOf(ops, places) == [at : places, op : ops, e : Endpoints, c : ChannelOrNone,
                        notify : BOOLEAN]

TypeOK ==
  /\ ProxyTypeOK
  /\ attempts \in 0 .. MaxAttempts
  /\ open \subseteq Channels
  /\ handshakes \subseteq Endpoints \X Channels \X BOOLEAN
  /\ responses \in [Channels -> 0 .. MaxResponses]
  /\ overtaken \subseteq Channels
  /\ pending \in [Endpoints -> [chan : ChannelOrNone, incoming : BOOLEAN,
                                keys : ChannelOrNone]]
  /\ alarms \subseteq Endpoints \X Channels
  /\ pending_alarms \in [Endpoints -> ChannelOrNone]
  /\ pcp_queue \in Seq(JobsOf(PcpOperations))
  /\ pcp \in RunsOf(PcpOperations, PcpPlaces) \cup {Idle}
  /\ em_queue \in Seq(JobsOf(ManagerOperations))
  /\ em \in RunsOf(ManagerOperations, ManagerPlaces) \cup {Idle}
  /\ {channel, context, endpoints} \subseteq [Endpoints -> ChannelOrNone]
  /\ {reader, keep_alive} \subseteq [Endpoints -> Threads]
  /\ router \in [at : RouterPlaces, todo : SUBSET Endpoints]
  /\ crashed \in {"no", "tie_break", "encrypted", "encryption_failed", "evaluate"}

(* What ClientConnections abstracts from.                                  *)
BeingRegistered(e) == pcp.at = "registering" /\ pcp.e = e
Evaluating == pcp.at \in {"evaluate", "decide", "accept", "reject"}
Removing ==
  \/ em.at \in {"notify", "barrier", "disconnect"}
  \/ em.at = "remove" /\ channel[em.e] # None

Handshaking == {e \in Endpoints : IsPending(e) /\ (~Registered(e) \/ BeingRegistered(e))}
Agreeing == {e \in Endpoints : IsPending(e) /\ Registered(e) /\ ~BeingRegistered(e)}
WithChannel == {e \in Endpoints : channel[e] # None}
EvaluationJob == CASE pcp.at \in {"evaluate", "decide"} -> "evaluate"
                   [] pcp.at \in {"accept", "reject"} -> pcp.at
                   [] OTHER -> "idle"
Evaluated == IF Evaluating THEN {pcp.e} ELSE {}
BeingRemoved == IF Removing THEN {em.e} ELSE {}
WillNotify == Removing /\ em.notify
DisconnectJobs == {e \in Endpoints :
  \/ em.at = "notify" /\ em.e = e
  \/ \E i \in DOMAIN pcp_queue : pcp_queue[i].op = "disconnect" /\ pcp_queue[i].e = e}

Connections == INSTANCE ClientConnections WITH
  DuplicateResponses <- MaxResponses > 1,
  handshaking <- Handshaking,
  pending <- Agreeing,
  channels <- WithChannel,
  job <- EvaluationJob,
  subject <- Evaluated,
  removing <- BeingRemoved,
  notify <- WillNotify,
  disconnects <- DisconnectJobs

(* The threads call ClientProxy only as ClientConnections lets them: what  *)
(* is proved of it holds here.                                             *)
ImplementsConnections == Connections!Spec

-----------------------------------------------------------------------------
\* Safety properties.

(* A connection talks with the keys of its own handshake, whatever         *)
(* handshakes, ties, removals and new registrations came in between        *)
(* (EncryptChannelForEndpoint in EvaluateConnectionResult), with one       *)
(* exception, which the code has: a connection that was registered on the  *)
(* result of another handshake, and whose reader has taken the peer's      *)
(* answer before its own handshake has ended.  Otherwise its own result    *)
(* comes first, and ends the process (crashed) instead of the connection   *)
(* being accepted with the other one's keys.                               *)
KeysMatch ==
  \A e \in Endpoints :
    IsConnectedToEndpoint(e) /\ channel[e] # None =>
      context[e] = channel[e] \/ channel[e] \in overtaken

(* A remote answer is recorded for the connection it was sent on, never    *)
(* for a later one to the same endpoint: OnIncomingFrame knows the         *)
(* endpoint only, and it is the wait for the old reader in                 *)
(* RegisterEndpoint that keeps them apart.                                 *)
AnswersBelong ==
  pcp.at = "record" /\ pcp.op \in RemoteAnswers /\ pcp.e \in connections
    => pending[pcp.e].chan = pcp.c

(* EvaluateConnectionResult dereferences the channel of a connection both  *)
(* sides have accepted.  The channel is missing only while the manager     *)
(* thread is between UnregisterChannelForEndpoint and OnDisconnected for   *)
(* that same endpoint: an old removal, a tie or a registration anew never  *)
(* leaves an accepted connection without its channel.                      *)
AcceptedLosesChannelOnlyInRemoval ==
  pcp.at = "decide" /\ IsConnectionAccepted(pcp.e) /\ channel[pcp.e] = None
    => em.e = pcp.e /\ em.at \in {"notify", "barrier", "disconnect"}

(* Nothing is left to do, and no channel is open.                          *)
AtRest ==
  /\ crashed = "no" /\ open = {} /\ handshakes = {} /\ alarms = {}
  /\ pcp = Idle /\ pcp_queue = <<>> /\ em = Idle /\ em_queue = <<>>
  /\ \A e \in Endpoints : reader[e] # "reading" /\ keep_alive[e] # "running"

(* Once everything has come to rest, nothing is left of any connection in  *)
(* the handler, the manager, the channel manager or the proxy, the         *)
(* application has seen every one of them end, and no API call is still    *)
(* waiting for its result.                                                 *)
NothingLeft ==
  AtRest => /\ connections = {}
            /\ \A e \in Endpoints :
                 /\ ~IsPending(e) /\ endpoints[e] = None /\ channel[e] = None
                 /\ told[e] \notin Open
            /\ router.at \notin {"requesting", "answering", "disconnecting"}

-----------------------------------------------------------------------------
\* What comments in the code say, and the code does not keep.

(* OnEncryptionFailureRunnable says that after a tie the results of the    *)
(* losing channel's handshake are told apart by the channel.               *)
(* OnEncryptionSuccessRunnable should then go on only with the channel     *)
(* whose handshake has succeeded.                                          *)
HandshakeOwn ==
  pcp.at = "register_processor" => pending[pcp.e].chan = pcp.c

(* EndpointManager::RemoveEndpoint may be called many times, as it is      *)
(* idempotent: a discard posted for a connection removes that one or       *)
(* nothing.                                                                *)
DiscardsOwn ==
  em.at = "remove" /\ em.op = "discard" => channel[em.e] \in {None, em.c}

(* EvaluateConnectionResult: both sides have accepted, so there is a       *)
(* channel to encrypt and to talk over.                                    *)
AcceptedHasChannel == crashed # "evaluate"

(* RegisterFrameProcessor blocks until the registration is complete: it    *)
(* completes.                                                              *)
RegistrationCompletes ==
  pcp.at = "register_processor" ~> pcp.at # "register_processor" \/ crashed # "no"

-----------------------------------------------------------------------------
\* Liveness.

(* The router thread is never stuck in a call: a request returns when its  *)
(* handshake has ended, whichever way, an answer when it was evaluated, a  *)
(* disconnection and a stop-all when the endpoints are gone.               *)
CallReturns == router.at # "idle" ~> router.at = "idle" \/ crashed # "no"

(* A reader that hands a frame to the handler goes on reading afterwards   *)
(* (EndpointManager::HandleData, and the latch in OnIncomingFrame).        *)
FrameHandled ==
  \A e \in Endpoints : reader[e] = "handling" ~> reader[e] # "handling" \/ crashed # "no"

(* When a registered channel dies, its endpoint is removed: the workers    *)
(* stop and are joined although the manager thread, the PCP thread and the *)
(* reader wait for one another.                                            *)
ClosedIsRemoved ==
  \A e \in Endpoints, c \in Channels :
    endpoints[e] = c /\ c \notin open ~> endpoints[e] # c \/ crashed # "no"

=============================================================================
