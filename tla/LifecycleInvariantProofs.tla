---------------------- MODULE LifecycleInvariantProofs ----------------------
(***************************************************************************)
(* The invariant of EndpointLifecycle is inductive if a peer answers once  *)
(* on a channel, for any number of endpoints and attempts.  There is one   *)
(* section for each part of the invariant: its lemmas take the steps of    *)
(* the environment and the workers, of the PCP thread and of the manager   *)
(* thread in turn, and a lemma Step... puts them together.  The last       *)
(* section has the theorems.                                               *)
(***************************************************************************)
EXTENDS EndpointLifecycleProofs

----------------------------------------------------------------------------
(* Types *)

\* TypeOK in parts, by what a step may leave alone: the wire,
WireType ==
  /\ attempts \in 0 .. MaxAttempts
  /\ open \subseteq Channels
  /\ handshakes \subseteq Endpoints \X Channels \X BOOLEAN
  /\ responses \in [Channels -> 0 .. MaxResponses]
  /\ overtaken \subseteq Channels

\* pending_connections_,
PendingType ==
  pending \in [Endpoints -> [chan : ChannelOrNone, incoming : BOOLEAN, keys : ChannelOrNone]]

\* the delayed closes,
AlarmType == alarms \subseteq Endpoints \X Channels /\ pending_alarms \in [Endpoints -> ChannelOrNone]

\* the PCP thread,
PcpType ==
  /\ pcp_queue \in Seq(JobsOf(PcpOperations))
  /\ pcp \in RunsOf(PcpOperations, PcpPlaces) \cup {Idle}

\* the EndpointManager thread,
ManagerType ==
  /\ em_queue \in Seq(JobsOf(ManagerOperations))
  /\ em \in RunsOf(ManagerOperations, ManagerPlaces) \cup {Idle}

\* the tables of the manager and the channel manager, and the workers,
TableType ==
  /\ channel \in [Endpoints -> ChannelOrNone] /\ context \in [Endpoints -> ChannelOrNone]
  /\ endpoints \in [Endpoints -> ChannelOrNone]
  /\ reader \in [Endpoints -> Threads] /\ keep_alive \in [Endpoints -> Threads]

\* the router's thread,
RouterType == router \in [at : RouterPlaces, todo : SUBSET Endpoints]
\* and the place of a crash.
CrashType == crashed \in {"no", "tie_break", "encrypted", "encryption_failed", "evaluate"}

\* Together they are TypeOK,
LEMMA TypeParts ==
  TypeOK <=> ProxyTypeOK /\ WireType /\ PendingType /\ AlarmType /\ PcpType /\ ManagerType /\ TableType
             /\ RouterType /\ CrashType
  BY Zenon DEF TypeOK, WireType, PendingType, AlarmType, PcpType, ManagerType, TableType, RouterType, CrashType

\* after a step too.
LEMMA TypeFromParts ==
  ASSUME ProxyTypeOK', WireType', PendingType', AlarmType', PcpType', ManagerType', TableType', RouterType', CrashType'
  PROVE  TypeOK'
  BY Zenon DEF TypeOK, WireType, PendingType, AlarmType, PcpType, ManagerType, TableType, RouterType, CrashType

\* A call that is answered, refused or neither.
LEMMA AnswerTypes ==
  ASSUME TypeOK, NEW e, NEW r \in [at : RouterPlaces, todo : SUBSET Endpoints]
  PROVE  /\ Answer(r, e) \in [at : RouterPlaces, todo : SUBSET Endpoints]
         /\ Refuse(r, e) \in [at : RouterPlaces, todo : SUBSET Endpoints]
         /\ AfterDestroyed(r, e) \in [at : RouterPlaces, todo : SUBSET Endpoints]
  <1>1. RouterIdle \in [at : RouterPlaces, todo : SUBSET Endpoints]
    BY DEF RouterIdle, RouterPlaces
  <1>2. Answer(r, e) \in [at : RouterPlaces, todo : SUBSET Endpoints]
    BY <1>1 DEF Answer
  <1>3. [r EXCEPT !.at = "refused"] \in [at : RouterPlaces, todo : SUBSET Endpoints]
    BY DEF RouterPlaces
  <1>4. Refuse(r, e) \in [at : RouterPlaces, todo : SUBSET Endpoints]
    BY <1>2, <1>3 DEF Refuse
  <1> QED
    BY <1>2, <1>4 DEF AfterDestroyed

\* A discard is a job of the manager thread.
LEMMA DiscardType ==
  ASSUME ManagerType, NEW e \in Endpoints, NEW c \in ChannelOrNone, DiscardEndpoint(e, c)
  PROVE  em_queue' \in Seq(JobsOf(ManagerOperations))
  <1>1. Job("discard", e, c) \in JobsOf(ManagerOperations)
    BY JobType DEF ManagerOperations
  <1> QED
    BY <1>1 DEF DiscardEndpoint, ManagerType

\* The client's calls and the router.
LEMMA CallsTypes ==
  ASSUME TypeOK, ProxyTypeOK', NEW e \in Endpoints,
         \/ CallRequestConnection(e) \/ RequestRefused(e)
         \/ \E answer \in LocalAnswers : CallRespond(e, answer)
         \/ CallDisconnect(e) \/ StopNext(e)
  PROVE  TypeOK'
  <1>0. WireType /\ PendingType /\ AlarmType /\ PcpType /\ ManagerType /\ TableType /\ RouterType /\ CrashType
    BY TypeParts
  <1>1. UNCHANGED <<wireVars, pending, alarms, pending_alarms, pcp, em, channel, context, endpoints, reader,
                    keep_alive, crashed>>
    BY DEF CallRequestConnection, RequestRefused, CallRespond, CallDisconnect, StopNext, handlerVars, managerVars
  <1>2. WireType' /\ PendingType' /\ AlarmType' /\ TableType' /\ CrashType'
    BY <1>0, <1>1 DEF WireType, PendingType, AlarmType, TableType, CrashType, wireVars
  <1>3. PcpType'
    <2>1. CASE CallRequestConnection(e)
      <3>1. Job("request", e, None) \in JobsOf(PcpOperations)
        BY JobType DEF PcpOperations, ChannelOrNone
      <3> QED
        BY <1>0, <1>1, <2>1, <3>1 DEF CallRequestConnection, PcpType
    <2>2. ASSUME NEW answer \in LocalAnswers, CallRespond(e, answer)
          PROVE  PcpType'
      <3>1. Job(answer, e, channel[e]) \in JobsOf(PcpOperations)
        BY JobType DEF PcpOperations, TypeOK
      <3> QED
        BY <1>0, <1>1, <2>2, <3>1 DEF CallRespond, PcpType
    <2>3. CASE RequestRefused(e) \/ CallDisconnect(e) \/ StopNext(e)
      BY <1>0, <1>1, <2>3 DEF RequestRefused, CallDisconnect, StopNext, handlerVars, PcpType
    <2> QED
      BY <2>1, <2>2, <2>3
  <1>4. ManagerType'
    <2>1. Job("unregister", e, channel[e]) \in JobsOf(ManagerOperations)
      BY JobType DEF ManagerOperations, TypeOK
    <2>2. em_queue' \in {em_queue, Append(em_queue, Job("unregister", e, channel[e]))}
      BY DEF CallRequestConnection, RequestRefused, CallRespond, CallDisconnect, StopNext, managerVars
    <2> QED
      BY <1>0, <1>1, <2>1, <2>2 DEF ManagerType
  <1>5. RouterType'
    <2>1. router' \in {router, RouterIdle, [at |-> "requesting", todo |-> {e}],
                       [at |-> "answering", todo |-> {e}], [at |-> "disconnecting", todo |-> {e}],
                       [router EXCEPT !.todo = @ \ {e}]}
      BY DEF CallRequestConnection, RequestRefused, CallRespond, CallDisconnect, StopNext
    <2> QED
      BY <1>0, <2>1 DEF RouterType, RouterIdle, RouterPlaces
  <1> QED
    BY <1>2, <1>3, <1>4, <1>5, TypeFromParts

\* StopAllEndpoints and its phases, and a channel that breaks, keep the types.
LEMMA StopsTypes ==
  ASSUME TypeOK, ProxyTypeOK', CallStopAll \/ StopPhase \/ \E c \in open : ChannelBreaks(c)
  PROVE  TypeOK'
  <1>0. WireType /\ PendingType /\ AlarmType /\ PcpType /\ ManagerType /\ TableType /\ RouterType /\ CrashType
    BY TypeParts
  <1>1. UNCHANGED <<attempts, handshakes, responses, overtaken, handlerVars, managerVars, crashed>> /\ open' \subseteq open
    BY DEF CallStopAll, StopPhase, ChannelBreaks, wireVars
  <1>2. WireType' /\ PendingType' /\ AlarmType' /\ PcpType' /\ ManagerType' /\ TableType' /\ CrashType'
    <2>1. WireType' /\ CrashType'
      BY <1>0, <1>1 DEF WireType, CrashType
    <2>2. PendingType' /\ AlarmType' /\ PcpType'
      BY <1>0, <1>1 DEF PendingType, AlarmType, PcpType, handlerVars
    <2>3. ManagerType' /\ TableType'
      BY <1>0, <1>1 DEF ManagerType, TableType, managerVars
    <2> QED
      BY <2>1, <2>2, <2>3
  <1>3. RouterType'
    <2>1. CASE router' = router
      BY <1>0, <2>1 DEF RouterType
    <2>2. CASE CallStopAll \/ StopPhase
      BY <2>2 DEF RouterType, CallStopAll, StopPhase, RouterIdle, RouterPlaces
    <2> QED
      BY <2>1, <2>2 DEF ChannelBreaks
  <1> QED
    BY <1>2, <1>3, TypeFromParts

\* So do the handshakes, the alarms and the workers,
LEMMA WorkersTypes ==
  ASSUME TypeOK, ProxyTypeOK', NEW e \in Endpoints,
         \/ \E h \in handshakes : HandshakeEnds(h[1], h[2], h[3])
         \/ \E a \in alarms : AlarmFires(a[1], a[2])
         \/ ReaderExits(e) \/ KeepAliveExits(e)
         \/ \E answer \in RemoteAnswers : ReadResponse(e, answer)
  PROVE  TypeOK'
  <1>0. WireType /\ PendingType /\ AlarmType /\ PcpType /\ ManagerType /\ TableType /\ RouterType /\ CrashType
    BY TypeParts
  <1>1. UNCHANGED <<attempts, open, pending, pending_alarms, pcp, em, channel, context, endpoints, router, crashed>>
        /\ alarms' \subseteq alarms
    BY DEF HandshakeEnds, AlarmFires, ReaderExits, KeepAliveExits, ReadResponse, handlerVars, managerVars, wireVars
  <1>2. PendingType' /\ AlarmType' /\ RouterType' /\ CrashType'
    BY <1>0, <1>1 DEF PendingType, AlarmType, RouterType, CrashType
  <1>3. WireType'
    <2>1. ASSUME NEW answer \in RemoteAnswers, ReadResponse(e, answer)
          PROVE  WireType'
      <3>1. endpoints[e] \in Channels /\ responses[endpoints[e]] + 1 \in 0 .. MaxResponses
        BY <1>0, <2>1, LifecycleConstants DEF ReadResponse, WireType
      <3>2. responses' \in [Channels -> 0 .. MaxResponses]
        BY <1>0, <2>1, <3>1 DEF ReadResponse, WireType
      <3>3. {h[2] : h \in {x \in handshakes : x[2] = endpoints[e]}} \subseteq Channels
        BY <3>1
      <3> QED
        BY <1>0, <1>1, <2>1, <3>2, <3>3 DEF ReadResponse, WireType
    <2>2. CASE ~\E answer \in RemoteAnswers : ReadResponse(e, answer)
      BY <1>0, <1>1, <2>2 DEF HandshakeEnds, AlarmFires, ReaderExits, KeepAliveExits, wireVars, WireType
    <2> QED
      BY <2>1, <2>2
  <1>4. PcpType'
    <2>1. ASSUME NEW h \in handshakes, HandshakeEnds(h[1], h[2], h[3])
          PROVE  PcpType'
      <3>1. PICK op \in {"encrypted", "incoming_failed", "outgoing_failed"} :
              pcp_queue' = Append(pcp_queue, Job(op, h[1], h[2]))
        BY <2>1 DEF HandshakeEnds
      <3>2. h[1] \in Endpoints /\ h[2] \in ChannelOrNone
        BY DEF TypeOK, ChannelOrNone
      <3>3. Job(op, h[1], h[2]) \in JobsOf(PcpOperations)
        BY <3>2, JobType DEF PcpOperations
      <3> QED
        BY <1>0, <1>1, <3>1, <3>3 DEF PcpType
    <2>2. ASSUME NEW answer \in RemoteAnswers, ReadResponse(e, answer)
          PROVE  PcpType'
      <3>1. Job(answer, e, endpoints[e]) \in JobsOf(PcpOperations)
        BY JobType DEF PcpOperations, TypeOK
      <3> QED
        BY <1>0, <1>1, <2>2, <3>1 DEF ReadResponse, PcpType
    <2>3. CASE (\E a \in alarms : AlarmFires(a[1], a[2])) \/ ReaderExits(e) \/ KeepAliveExits(e)
      BY <1>0, <1>1, <2>3 DEF AlarmFires, ReaderExits, KeepAliveExits, handlerVars, PcpType
    <2> QED
      BY <2>1, <2>2, <2>3
  <1>5. ManagerType'
    <2>1. ASSUME NEW a \in alarms, AlarmFires(a[1], a[2])
          PROVE  ManagerType'
      <3>1. a[1] \in Endpoints /\ a[2] \in ChannelOrNone
        BY <1>0 DEF AlarmType, ChannelOrNone
      <3>2. DiscardEndpoint(a[1], a[2])
        BY <2>1 DEF AlarmFires
      <3> QED
        BY <1>0, <1>1, <3>1, <3>2, DiscardType DEF ManagerType
    <2>2. CASE ReaderExits(e) \/ KeepAliveExits(e)
      <3>1. DiscardEndpoint(e, endpoints[e]) /\ endpoints[e] \in ChannelOrNone
        BY <1>0, <2>2 DEF ReaderExits, KeepAliveExits, TableType
      <3> QED
        BY <1>0, <1>1, <3>1, DiscardType DEF ManagerType
    <2>3. CASE em_queue' = em_queue
      BY <1>0, <1>1, <2>3 DEF ManagerType
    <2> QED
      BY <2>1, <2>2, <2>3 DEF HandshakeEnds, ReadResponse, managerVars
  <1>6. TableType'
    <2>1. \E r \in {"handling", "done"} : reader' \in {reader, [reader EXCEPT ![e] = r]}
      BY DEF HandshakeEnds, AlarmFires, ReaderExits, KeepAliveExits, ReadResponse, managerVars
    <2>2. keep_alive' \in {keep_alive, [keep_alive EXCEPT ![e] = "done"]}
      BY DEF HandshakeEnds, AlarmFires, ReaderExits, KeepAliveExits, ReadResponse, managerVars
    <2> QED
      BY <1>0, <1>1, <2>1, <2>2 DEF TableType, Threads
  <1> QED
    BY <1>2, <1>3, <1>4, <1>5, <1>6, TypeFromParts

\* What is taken from the PCP thread's queue, and what runs then.
LEMMA TakesType ==
  ASSUME PcpType, NEW op, NEW e, Takes(op, e)
  PROVE  /\ pcp_queue' \in Seq(JobsOf(PcpOperations))
         /\ Head(pcp_queue) \in JobsOf(PcpOperations)
         /\ \A at \in PcpPlaces : Running(Head(pcp_queue), at) \in RunsOf(PcpOperations, PcpPlaces)
  <1>1. Head(pcp_queue) \in JobsOf(PcpOperations) /\ Tail(pcp_queue) \in Seq(JobsOf(PcpOperations))
    BY Taken DEF Takes, PcpType
  <1>2. \A at \in PcpPlaces : Running(Head(pcp_queue), at) \in RunsOf(PcpOperations, PcpPlaces)
    BY <1>1 DEF Running, RunsOf, JobsOf
  <1> QED
    BY <1>1, <1>2 DEF Takes

\* A pending connection that is removed leaves a typed table.
LEMMA GoneType ==
  ASSUME PendingType, NEW e \in Endpoints, pending' = [pending EXCEPT ![e] = NoPending]
  PROVE  PendingType'
  BY DEF PendingType, NoPending, ChannelOrNone

\* A new connection gets a channel of its own, within the bound.
LEMMA AttemptType ==
  ASSUME TypeOK, NEW e \in Endpoints, NEW incoming \in BOOLEAN, NEW still, still \subseteq Channels,
         Attempt(e, incoming, still), attempts < MaxAttempts, responses' = responses, overtaken' = overtaken
  PROVE  WireType' /\ PendingType'
  <1>1. attempts + 1 \in Channels /\ attempts + 1 \in 0 .. MaxAttempts
    BY LifecycleConstants DEF TypeOK, Channels
  <1>2. WireType'
    BY <1>1 DEF Attempt, WireType, TypeOK
  <1>3. PendingType'
    BY <1>1 DEF Attempt, PendingType, TypeOK, ChannelOrNone
  <1> QED
    BY <1>2, <1>3

\* The steps that open a connection keep the types,
LEMMA AttemptsTypes ==
  ASSUME TypeOK, ProxyTypeOK', NEW e \in Endpoints,
         RunRequest(e) \/ IncomingConnection(e) \/ \E goes_on \in BOOLEAN : IncomingTie(e, goes_on)
  PROVE  TypeOK'
  <1>0. WireType /\ PendingType /\ AlarmType /\ PcpType /\ ManagerType /\ TableType /\ RouterType /\ CrashType
    BY TypeParts
  <1>1. UNCHANGED <<alarms, pending_alarms, pcp, em, channel, context, endpoints, reader, keep_alive>>
    BY DEF RunRequest, IncomingConnection, IncomingTie, managerVars
  <1>2. AlarmType' /\ TableType'
    BY <1>0, <1>1 DEF AlarmType, TableType
  <1>3. PcpType'
    BY <1>0, <1>1, TakesType DEF RunRequest, IncomingConnection, IncomingTie, PcpType
  <1>4. ManagerType'
    <2>1. CASE em_queue' = em_queue
      BY <1>0, <1>1, <2>1 DEF ManagerType
    <2>2. CASE DiscardEndpoint(e, pending[e].chan)
      <3>1. pending[e].chan \in ChannelOrNone
        BY <1>0 DEF PendingType
      <3> QED
        BY <1>0, <1>1, <2>2, <3>1, DiscardType DEF ManagerType
    <2> QED
      BY <2>1, <2>2 DEF RunRequest, IncomingConnection, IncomingTie, managerVars
  <1>5. WireType' /\ PendingType'
    <2>1. responses' = responses /\ overtaken' = overtaken
      BY DEF RunRequest, IncomingConnection, IncomingTie, wireVars
    <2>2. open \subseteq Channels /\ OpenAfterDestroyed(e) \subseteq Channels
      BY <1>0 DEF WireType, OpenAfterDestroyed
    <2>3. CASE \E incoming \in BOOLEAN, still \in {open, OpenAfterDestroyed(e)} : Attempt(e, incoming, still)
      <3>1. attempts < MaxAttempts
        <4>1. CASE RunRequest(e) /\ attempts' = attempts
          BY <1>0, <2>3, <4>1 DEF Attempt, WireType
        <4> QED
          BY <4>1 DEF RunRequest, IncomingConnection, IncomingTie
      <3> QED
        BY <2>1, <2>2, <2>3, <3>1, AttemptType
    <2>4. CASE UNCHANGED <<attempts, open, handshakes, pending>>
      BY <1>0, <2>1, <2>4 DEF WireType, PendingType
    <2>5. CASE UNCHANGED <<attempts, handshakes>> /\ open' = OpenAfterDestroyed(e)
               /\ pending' = [pending EXCEPT ![e] = NoPending]
      BY <1>0, <2>1, <2>2, <2>5, GoneType DEF WireType
    <2>6. CASE RunRequest(e)
      BY <2>3, <2>4, <2>6 DEF RunRequest
    <2>7. CASE IncomingConnection(e)
      BY <2>3, <2>7 DEF IncomingConnection
    <2>8. ASSUME NEW goes_on \in BOOLEAN, IncomingTie(e, goes_on)
          PROVE  WireType' /\ PendingType'
      BY <2>3, <2>4, <2>5, <2>8 DEF IncomingTie, wireVars
    <2> QED
      BY <2>6, <2>7, <2>8
  <1>6. RouterType'
    <2>1. router' \in {router, Refuse(router, e), AfterDestroyed(router, e)}
      BY DEF RunRequest, IncomingConnection, IncomingTie
    <2> QED
      BY <1>0, <2>1, AnswerTypes DEF RouterType
  <1>7. CrashType'
    BY <1>0 DEF CrashType, RunRequest, IncomingConnection, IncomingTie
  <1> QED
    BY <1>2, <1>3, <1>4, <1>5, <1>6, <1>7, TypeFromParts

\* those that take the result of a handshake,
LEMMA HandshakesTypes ==
  ASSUME TypeOK, ProxyTypeOK', RegistrationInv, NEW e \in Endpoints,
         \/ RunEncrypted(e) \/ RegisterProcessor(e) \/ RegistrationDone(e)
         \/ \E op \in {"incoming_failed", "outgoing_failed"} : RunEncryptionFailed(op, e)
  PROVE  TypeOK'
  <1>0. WireType /\ PendingType /\ AlarmType /\ PcpType /\ ManagerType /\ TableType /\ RouterType /\ CrashType
    BY TypeParts
  <1>1. UNCHANGED <<attempts, handshakes, responses, overtaken, alarms, pending_alarms, em, channel, context,
                    endpoints, reader, keep_alive>>
    BY DEF RunEncrypted, RegisterProcessor, RegistrationDone, RunEncryptionFailed, managerVars, wireVars
  <1>2. AlarmType' /\ TableType'
    BY <1>0, <1>1 DEF AlarmType, TableType
  <1>3. WireType'
    <2>1. open' \subseteq open
      BY DEF RunEncrypted, RegisterProcessor, RegistrationDone, RunEncryptionFailed, wireVars, OpenAfterDestroyed
    <2> QED
      BY <1>0, <1>1, <2>1 DEF WireType
  <1>4. PendingType'
    <2>1. CASE RegisterProcessor(e)
      <3>1. pcp.c \in ChannelOrNone
        BY PcpShape
      <3> QED
        BY <1>0, <2>1, <3>1 DEF RegisterProcessor, PendingType
    <2>2. CASE pending' = pending
      BY <1>0, <2>2 DEF PendingType
    <2> QED
      BY <1>0, <2>1, <2>2, GoneType DEF RunEncrypted, RegistrationDone, RunEncryptionFailed
  <1>5. PcpType'
    <2>1. CASE RunEncrypted(e)
      <3>1. "register_processor" \in PcpPlaces
        BY DEF PcpPlaces
      <3> QED
        BY <1>0, <2>1, <3>1, TakesType DEF RunEncrypted, PcpType
    <2>2. CASE RegisterProcessor(e) \/ RegistrationDone(e)
      <3>1. pcp # Idle
        BY <2>2, PcpShape DEF RegisterProcessor, RegistrationDone
      <3>2. [pcp EXCEPT !.at = "registering"] \in RunsOf(PcpOperations, PcpPlaces)
        BY <1>0, <3>1 DEF PcpType, RunsOf, PcpPlaces
      <3> QED
        BY <1>0, <2>2, <3>2 DEF RegisterProcessor, RegistrationDone, PcpType
    <2>3. CASE \E op \in {"incoming_failed", "outgoing_failed"} : RunEncryptionFailed(op, e)
      BY <1>0, <2>3, TakesType DEF RunEncryptionFailed, PcpType
    <2> QED
      BY <2>1, <2>2, <2>3
  <1>6. ManagerType'
    <2>1. pending[e].chan \in ChannelOrNone
      BY <1>0 DEF PendingType
    <2>2. Job("register", e, pending[e].chan) \in JobsOf(ManagerOperations)
      BY <2>1, JobType DEF ManagerOperations
    <2>3. em_queue' \in {em_queue, Append(em_queue, Job("register", e, pending[e].chan))}
      BY DEF RunEncrypted, RegisterProcessor, RegistrationDone, RunEncryptionFailed, managerVars
    <2> QED
      BY <1>0, <1>1, <2>2, <2>3 DEF ManagerType
  <1>7. RouterType' /\ CrashType'
    <2>1. router' \in {router, Answer(router, e), AfterDestroyed(router, e)}
      BY DEF RunEncrypted, RegisterProcessor, RegistrationDone, RunEncryptionFailed
    <2>2. crashed' \in {crashed, "encrypted", "encryption_failed"}
      BY DEF RunEncrypted, RegisterProcessor, RegistrationDone, RunEncryptionFailed
    <2> QED
      BY <1>0, <2>1, <2>2, AnswerTypes DEF RouterType, CrashType
  <1> QED
    BY <1>2, <1>3, <1>4, <1>5, <1>6, <1>7, TypeFromParts

\* those that take an answer or a disconnection,
LEMMA AnswersTypes ==
  ASSUME TypeOK, ProxyTypeOK', NEW e \in Endpoints,
         \/ \E answer \in LocalAnswers : RunRespond(answer, e)
         \/ \E answer \in RemoteAnswers : RunFrame(answer, e)
         \/ RecordAnswer(e) \/ RunEndpointDisconnect(e)
  PROVE  TypeOK'
  <1>0. WireType /\ PendingType /\ AlarmType /\ PcpType /\ ManagerType /\ TableType /\ RouterType /\ CrashType
    BY TypeParts
  <1>1. UNCHANGED <<attempts, handshakes, responses, overtaken, em, channel, context, endpoints, reader, keep_alive, crashed>>
    BY DEF RunRespond, RunFrame, RecordAnswer, RunEndpointDisconnect, managerVars, wireVars
  <1>2. TableType' /\ CrashType'
    BY <1>0, <1>1 DEF TableType, CrashType
  <1>3. WireType'
    <2>1. open' \subseteq open
      BY DEF RunRespond, RunFrame, RecordAnswer, RunEndpointDisconnect, wireVars, ResultFailure, OpenAfterDestroyed
    <2> QED
      BY <1>0, <1>1, <2>1 DEF WireType
  <1>4. PendingType'
    <2>1. CASE pending' = pending
      BY <1>0, <2>1 DEF PendingType
    <2> QED
      BY <1>0, <2>1, GoneType DEF RunRespond, RunFrame, RecordAnswer, RunEndpointDisconnect, ResultFailure
  <1>5. AlarmType'
    <2>1. CASE UNCHANGED <<alarms, pending_alarms>>
      BY <1>0, <2>1 DEF AlarmType
    <2>2. CASE RunEndpointDisconnect(e)
      BY <1>0, <2>2 DEF AlarmType, RunEndpointDisconnect, ChannelOrNone
    <2> QED
      BY <2>1, <2>2 DEF RunRespond, RunFrame, RecordAnswer
  <1>6. PcpType'
    <2>0. "record" \in PcpPlaces
      BY DEF PcpPlaces
    <2>1. ASSUME NEW answer \in LocalAnswers, RunRespond(answer, e)
          PROVE  PcpType'
      BY <1>0, <2>0, <2>1, TakesType DEF RunRespond, PcpType
    <2>2. ASSUME NEW answer \in RemoteAnswers, RunFrame(answer, e)
          PROVE  PcpType'
      BY <1>0, <2>0, <2>2, TakesType DEF RunFrame, PcpType
    <2>3. CASE RecordAnswer(e)
      <3>1. pcp # Idle
        BY <2>3, PcpShape DEF RecordAnswer
      <3>2. [pcp EXCEPT !.at = "evaluate"] \in RunsOf(PcpOperations, PcpPlaces)
        BY <1>0, <3>1 DEF PcpType, RunsOf, PcpPlaces
      <3> QED
        BY <1>0, <2>3, <3>2 DEF RecordAnswer, PcpType
    <2>4. CASE RunEndpointDisconnect(e)
      BY <1>0, <2>4, TakesType DEF RunEndpointDisconnect, PcpType
    <2> QED
      BY <2>1, <2>2, <2>3, <2>4
  <1>7. ManagerType'
    <2>1. CASE em_queue' = em_queue
      BY <1>0, <1>1, <2>1 DEF ManagerType
    <2>2. ASSUME NEW c \in ChannelOrNone, DiscardEndpoint(e, c)
          PROVE  ManagerType'
      BY <1>0, <1>1, <2>2, DiscardType DEF ManagerType
    <2>3. pending[e].chan \in ChannelOrNone
      BY <1>0 DEF PendingType
    <2>4. CASE RunEndpointDisconnect(e)
      <3>1. Head(pcp_queue).c \in ChannelOrNone
        BY <1>0, <2>4, TakesType DEF RunEndpointDisconnect, JobsOf
      <3> QED
        BY <2>2, <2>4, <3>1 DEF RunEndpointDisconnect, ResultFailure
    <2> QED
      BY <2>1, <2>2, <2>3, <2>4 DEF RunRespond, RunFrame, RecordAnswer, managerVars, ResultFailure
  <1>8. RouterType'
    <2>1. router' \in {router, Answer(router, e), AfterDestroyed(router, e), Answer(AfterDestroyed(router, e), e)}
      BY DEF RunRespond, RunFrame, RecordAnswer, RunEndpointDisconnect
    <2> QED
      BY <1>0, <2>1, AnswerTypes DEF RouterType
  <1> QED
    BY <1>2, <1>3, <1>4, <1>5, <1>6, <1>7, <1>8, TypeFromParts

\* those of EvaluateConnectionResult,
LEMMA ResultsTypes ==
  ASSUME TypeOK, ProxyTypeOK', EvaluationInv, NEW e \in Endpoints,
         EvaluateConnectionResult(e) \/ DecideResult(e) \/ DeliverResult(e)
  PROVE  TypeOK'
  <1>0. WireType /\ PendingType /\ AlarmType /\ PcpType /\ ManagerType /\ TableType /\ RouterType /\ CrashType
    BY TypeParts
  <1>1. UNCHANGED <<wireVars, pcp_queue, em, channel, endpoints, keep_alive>> /\ pcp # Idle /\ pcp.e = e
    BY PcpShape DEF EvaluateConnectionResult, DecideResult, DeliverResult
  <1>2. WireType'
    BY <1>0, <1>1 DEF WireType, wireVars
  <1>3. PendingType'
    <2>1. CASE pending' = pending
      BY <1>0, <2>1 DEF PendingType
    <2> QED
      BY <1>0, <2>1, GoneType DEF EvaluateConnectionResult, DecideResult, DeliverResult
  <1>4. AlarmType'
    <2>1. CASE UNCHANGED <<alarms, pending_alarms>>
      BY <1>0, <2>1 DEF AlarmType
    <2>2. CASE DeliverResult(e)
      <3>1. pcp.c \in Channels
        BY <2>2, PcpShape DEF EvaluationInv, DeliverResult, ChannelOrNone
      <3> QED
        BY <1>0, <2>2, <3>1 DEF AlarmType, DeliverResult, ChannelOrNone
    <2> QED
      BY <2>1, <2>2 DEF EvaluateConnectionResult, DecideResult
  <1>5. PcpType'
    <2>1. PICK at \in {"decide", "accept", "reject"}, c \in {pcp.c, pending[e].chan} :
            pcp' \in {pcp, Idle, [pcp EXCEPT !.at = at], [pcp EXCEPT !.at = at, !.c = c]}
      BY DEF EvaluateConnectionResult, DecideResult, DeliverResult, JobDone
    <2>2. c \in ChannelOrNone
      BY <1>0, PcpShape DEF PendingType
    <2>3. pcp \in RunsOf(PcpOperations, PcpPlaces)
      BY <1>0, <1>1 DEF PcpType
    <2>4. /\ [pcp EXCEPT !.at = at] \in RunsOf(PcpOperations, PcpPlaces)
          /\ [pcp EXCEPT !.at = at, !.c = c] \in RunsOf(PcpOperations, PcpPlaces)
      BY <2>2, <2>3 DEF RunsOf, PcpPlaces
    <2> QED
      BY <1>0, <1>1, <2>1, <2>4 DEF PcpType
  <1>6. ManagerType'
    <2>1. CASE em_queue' = em_queue
      BY <1>0, <1>1, <2>1 DEF ManagerType
    <2>2. CASE DiscardEndpoint(e, pcp.c)
      BY <1>0, <1>1, <2>2, DiscardType, PcpShape DEF ManagerType
    <2> QED
      BY <2>1, <2>2 DEF EvaluateConnectionResult, DecideResult, DeliverResult
  <1>7. TableType'
    <2>1. context' \in {context, [context EXCEPT ![e] = pending[e].keys]}
      BY DEF EvaluateConnectionResult, DecideResult, DeliverResult
    <2>2. reader' \in {reader, [reader EXCEPT ![e] = "reading"]}
      BY DEF EvaluateConnectionResult, DecideResult, DeliverResult, JobDone
    <2>3. pending[e].keys \in ChannelOrNone
      BY <1>0 DEF PendingType
    <2> QED
      BY <1>0, <1>1, <2>1, <2>2, <2>3 DEF TableType, Threads
  <1>8. RouterType' /\ CrashType'
    <2>1. router' \in {router, Answer(router, e)}
      BY DEF EvaluateConnectionResult, DecideResult, DeliverResult, JobDone
    <2>2. crashed' \in {crashed, "evaluate"}
      BY DEF EvaluateConnectionResult, DecideResult, DeliverResult
    <2> QED
      BY <1>0, <2>1, <2>2, AnswerTypes DEF RouterType, CrashType
  <1> QED
    BY <1>2, <1>3, <1>4, <1>5, <1>6, <1>7, <1>8, TypeFromParts

\* and those of the manager thread.
LEMMA ManagerTypes ==
  ASSUME TypeOK, ProxyTypeOK', NEW e \in Endpoints, RegistrationInv,
         \/ TakeRegister(e) \/ RegisterEndpoint(e) \/ TakeRemove(e) \/ RemoveChannel(e)
         \/ NotifyProcessors(e) \/ BarrierOpens(e) \/ Disconnect(e) \/ RemoveEndpointState(e)
  PROVE  TypeOK'
  <1>0. WireType /\ PendingType /\ AlarmType /\ PcpType /\ ManagerType /\ TableType /\ RouterType /\ CrashType
    BY TypeParts
  <1>1. UNCHANGED <<attempts, handshakes, responses, overtaken, pending, alarms, pending_alarms, crashed>> /\ open' \subseteq open
    BY DEF TakeRegister, RegisterEndpoint, TakeRemove, RemoveChannel, NotifyProcessors, BarrierOpens,
       Disconnect, RemoveEndpointState, handlerVars, wireVars, UnregisterChannel
  <1>2. WireType' /\ PendingType' /\ AlarmType' /\ CrashType'
    BY <1>0, <1>1 DEF WireType, PendingType, AlarmType, CrashType
  <1>3. PcpType'
    <2>1. CASE UNCHANGED <<pcp_queue, pcp>>
      BY <1>0, <2>1 DEF PcpType
    <2>2. CASE RegisterEndpoint(e)
      <3>1. pcp # Idle
        BY <2>2, PcpShape DEF RegisterEndpoint, RegistrationInv, BeingRegistered
      <3>2. [pcp EXCEPT !.at = "registered"] \in RunsOf(PcpOperations, PcpPlaces)
        BY <1>0, <3>1 DEF PcpType, RunsOf, PcpPlaces
      <3> QED
        BY <1>0, <2>2, <3>2 DEF RegisterEndpoint, PcpType
    <2>3. CASE NotifyProcessors(e)
      <3>1. Job("disconnect", e, em.c) \in JobsOf(PcpOperations)
        BY JobType, EmShape DEF PcpOperations
      <3> QED
        BY <1>0, <2>3, <3>1 DEF NotifyProcessors, PcpType
    <2> QED
      BY <2>1, <2>2, <2>3 DEF TakeRegister, TakeRemove, RemoveChannel, BarrierOpens, Disconnect,
         RemoveEndpointState, handlerVars
  <1>4. ManagerType'
    <2>1. CASE TakeRegister(e) \/ TakeRemove(e)
      <3>1. em_queue # <<>> /\ em_queue' = Tail(em_queue)
        BY <2>1 DEF TakeRegister, TakeRemove
      <3>2. Head(em_queue) \in JobsOf(ManagerOperations) /\ Tail(em_queue) \in Seq(JobsOf(ManagerOperations))
        BY <1>0, <3>1, Taken DEF ManagerType
      <3>3. \A at \in {"register", "remove"}, n \in BOOLEAN :
              /\ Running(Head(em_queue), at) \in RunsOf(ManagerOperations, ManagerPlaces)
              /\ [Running(Head(em_queue), at) EXCEPT !.notify = n] \in RunsOf(ManagerOperations, ManagerPlaces)
        BY <3>2, Zenon DEF Running, RunsOf, JobsOf, ManagerPlaces
      <3>4. IsConnectedToEndpoint(e) \in BOOLEAN
        BY DEF IsConnectedToEndpoint
      <3> QED
        BY <2>1, <3>1, <3>2, <3>3, <3>4 DEF TakeRegister, TakeRemove, ManagerType
    <2>2. CASE RegisterEndpoint(e) \/ RemoveEndpointState(e)
      BY <1>0, <2>2 DEF RegisterEndpoint, RemoveEndpointState, ManagerType
    <2>3. CASE RemoveChannel(e) \/ NotifyProcessors(e) \/ BarrierOpens(e) \/ Disconnect(e)
      <3>1. em \in RunsOf(ManagerOperations, ManagerPlaces)
        BY <1>0, <2>3, EmShape DEF ManagerType, RemoveChannel, NotifyProcessors, BarrierOpens, Disconnect
      <3>2. PICK at \in {"notify", "barrier", "disconnect", "join"}, c \in {em.c, channel[e]} :
              em' \in {[em EXCEPT !.at = at], [em EXCEPT !.at = at, !.c = c]}
        BY <2>3 DEF RemoveChannel, NotifyProcessors, BarrierOpens, Disconnect
      <3>3. c \in ChannelOrNone
        BY <1>0, EmShape DEF TableType
      <3>4. em' \in RunsOf(ManagerOperations, ManagerPlaces)
        BY <3>1, <3>2, <3>3 DEF RunsOf, ManagerPlaces
      <3>5. em_queue' = em_queue
        BY <2>3 DEF RemoveChannel, NotifyProcessors, BarrierOpens, Disconnect
      <3> QED
        BY <1>0, <3>4, <3>5 DEF ManagerType
    <2> QED
      BY <2>1, <2>2, <2>3
  <1>5. TableType'
    <2>1. CASE UNCHANGED <<channel, context, endpoints, reader, keep_alive>>
      BY <1>0, <2>1 DEF TableType
    <2>2. CASE UnregisterChannel(e) /\ UNCHANGED <<endpoints, reader, keep_alive>>
      BY <1>0, <2>2 DEF TableType, UnregisterChannel, ChannelOrNone
    <2>3. CASE RegisterEndpoint(e)
      <3>1. em.c \in ChannelOrNone
        BY EmShape
      <3> QED
        BY <1>0, <2>3, <3>1 DEF TableType, RegisterEndpoint, Threads
    <2>4. CASE RemoveEndpointState(e)
      BY <1>0, <2>4 DEF TableType, RemoveEndpointState, Threads, ChannelOrNone
    <2> QED
      BY <2>1, <2>2, <2>3, <2>4 DEF TakeRegister, TakeRemove, RemoveChannel, NotifyProcessors, BarrierOpens, Disconnect
  <1>6. RouterType'
    <2>1. router' \in {router, Answer(router, e)}
      BY DEF TakeRegister, RegisterEndpoint, TakeRemove, RemoveChannel, NotifyProcessors, BarrierOpens,
         Disconnect, RemoveEndpointState
    <2> QED
      BY <1>0, <2>1, AnswerTypes DEF RouterType
  <1> QED
    BY <1>2, <1>3, <1>4, <1>5, <1>6, TypeFromParts

\* Every step keeps the types, as long as the proxy's are kept.
LEMMA StepTypes ==
  ASSUME TypeOK, ProxyTypeOK', RegistrationInv, EvaluationInv, Next
  PROVE  TypeOK'
  <1>2. CASE PcpStep
    BY <1>2, AttemptsTypes, HandshakesTypes, AnswersTypes, ResultsTypes DEF PcpStep
  <1>3. CASE ManagerStep
    BY <1>3, ManagerTypes DEF ManagerStep
  <1>4. CASE RouterStep
    BY <1>4, CallsTypes, StopsTypes DEF RouterStep
  <1>5. CASE HandshakeStep \/ AlarmStep \/ \E e \in Endpoints : ReaderStep(e) \/ KeepAliveStep(e)
    <2>1. \A h \in handshakes : h[1] \in Endpoints
      BY DEF TypeOK
    <2>2. \A a \in alarms : a[1] \in Endpoints
      BY DEF TypeOK
    <2> QED
      BY <1>5, <2>1, <2>2, WorkersTypes DEF HandshakeStep, AlarmStep, ReaderStep, KeepAliveStep
  <1>6. CASE Environment
    BY <1>6, CallsTypes, StopsTypes, WorkersTypes, AttemptsTypes DEF Environment
  <1> QED
    BY <1>2, <1>3, <1>4, <1>5, <1>6 DEF Next

----------------------------------------------------------------------------
(* What a step posts *)

\* Nothing is posted, or a job of one of these operations.
PostsPcp(ops) ==
  \/ pcp_queue' = pcp_queue
  \/ \E j \in JobsOf(PcpOperations) : j.op \in ops /\ pcp_queue' = Append(pcp_queue, j)

\* The step posts at most one job to the manager thread, of these operations.
PostsManager(ops) ==
  \/ em_queue' = em_queue
  \/ \E j \in JobsOf(ManagerOperations) : j.op \in ops /\ em_queue' = Append(em_queue, j)

\* DiscardEndpoint posts a discard.
LEMMA Discards ==
  ASSUME TypeOK, NEW e \in Endpoints, NEW c \in ChannelOrNone, DiscardEndpoint(e, c)
  PROVE  PostsManager({"discard"})
  <1>1. Job("discard", e, c) \in JobsOf(ManagerOperations)
    BY JobType DEF ManagerOperations
  <1> QED
    BY <1>1, JobFields DEF DiscardEndpoint, PostsManager

\* An API call posts a call to the PCP thread or an unregistration.
LEMMA CallsPost ==
  ASSUME TypeOK, NEW e \in Endpoints,
         \/ CallRequestConnection(e) \/ RequestRefused(e)
         \/ \E answer \in LocalAnswers : CallRespond(e, answer)
         \/ CallDisconnect(e) \/ StopNext(e)
  PROVE  PostsPcp(CallJobs) /\ PostsManager({"unregister"})
  <1>1. PostsManager({"unregister"})
    <2>1. Job("unregister", e, channel[e]) \in JobsOf(ManagerOperations)
      BY JobType DEF ManagerOperations, TypeOK
    <2>2. em_queue' \in {em_queue, Append(em_queue, Job("unregister", e, channel[e]))}
      BY DEF CallRequestConnection, RequestRefused, CallRespond, CallDisconnect, StopNext, managerVars
    <2> QED
      BY <2>1, <2>2, JobFields DEF PostsManager
  <1>2. CASE CallRequestConnection(e)
    <2>1. Job("request", e, None) \in JobsOf(PcpOperations)
      BY JobType DEF PcpOperations, ChannelOrNone
    <2>2. pcp_queue' \in {pcp_queue, Append(pcp_queue, Job("request", e, None))}
      BY <1>2 DEF CallRequestConnection
    <2> QED
      BY <1>1, <2>1, <2>2, JobFields DEF PostsPcp, CallJobs
  <1>3. ASSUME NEW answer \in LocalAnswers, CallRespond(e, answer)
        PROVE  PostsPcp(CallJobs)
    <2>1. Job(answer, e, channel[e]) \in JobsOf(PcpOperations)
      BY JobType DEF PcpOperations, TypeOK
    <2>2. pcp_queue' \in {pcp_queue, Append(pcp_queue, Job(answer, e, channel[e]))}
      BY <1>3 DEF CallRespond
    <2> QED
      BY <2>1, <2>2, JobFields DEF PostsPcp, CallJobs
  <1>4. CASE RequestRefused(e) \/ CallDisconnect(e) \/ StopNext(e)
    BY <1>1, <1>4 DEF PostsPcp, RequestRefused, CallDisconnect, StopNext, handlerVars
  <1> QED
    BY <1>1, <1>2, <1>3, <1>4

\* What the encryption runner and the readers post.
WorkerJobs == RemoteAnswers \cup {"encrypted", "incoming_failed", "outgoing_failed"}

\* The workers post results, answers and discards.
LEMMA WorkersPost ==
  ASSUME TypeOK, NEW e \in Endpoints,
         \/ \E h \in handshakes : HandshakeEnds(h[1], h[2], h[3])
         \/ \E a \in alarms : AlarmFires(a[1], a[2])
         \/ ReaderExits(e) \/ KeepAliveExits(e)
         \/ \E answer \in RemoteAnswers : ReadResponse(e, answer)
  PROVE  /\ \/ pcp_queue' = pcp_queue
            \/ \E j \in JobsOf(PcpOperations) :
                 j.op \in WorkerJobs /\ j.c # None /\ pcp_queue' = Append(pcp_queue, j)
         /\ PostsManager({"discard"})
  <1>1. ASSUME NEW h \in handshakes, HandshakeEnds(h[1], h[2], h[3])
        PROVE  /\ \E j \in JobsOf(PcpOperations) :
                    j.op \in WorkerJobs /\ j.c # None /\ pcp_queue' = Append(pcp_queue, j)
               /\ PostsManager({"discard"})
    <2>1. PICK op \in {"encrypted", "incoming_failed", "outgoing_failed"} :
            pcp_queue' = Append(pcp_queue, Job(op, h[1], h[2]))
      BY <1>1 DEF HandshakeEnds
    <2>2. h[1] \in Endpoints /\ h[2] \in ChannelOrNone /\ h[2] # None
      BY DEF TypeOK, ChannelOrNone, Channels, None
    <2>3. Job(op, h[1], h[2]) \in JobsOf(PcpOperations)
      BY <2>2, JobType DEF PcpOperations
    <2>4. em_queue' = em_queue
      BY <1>1 DEF HandshakeEnds, managerVars
    <2> QED
      BY <2>1, <2>2, <2>3, <2>4, JobFields DEF PostsManager, WorkerJobs
  <1>2. ASSUME NEW answer \in RemoteAnswers, ReadResponse(e, answer)
        PROVE  /\ \E j \in JobsOf(PcpOperations) :
                    j.op \in WorkerJobs /\ j.c # None /\ pcp_queue' = Append(pcp_queue, j)
               /\ PostsManager({"discard"})
    <2>1. Job(answer, e, endpoints[e]) \in JobsOf(PcpOperations)
      BY JobType DEF PcpOperations, TypeOK
    <2>2. endpoints[e] # None
      BY <1>2 DEF ReadResponse, TypeOK, Channels, None
    <2> QED
      BY <1>2, <2>1, <2>2, JobFields DEF PostsManager, WorkerJobs, ReadResponse
  <1>3. ASSUME NEW a \in alarms, AlarmFires(a[1], a[2])
        PROVE  pcp_queue' = pcp_queue /\ PostsManager({"discard"})
    <2>1. a[1] \in Endpoints /\ a[2] \in ChannelOrNone
      BY DEF TypeOK, ChannelOrNone
    <2> QED
      BY <1>3, <2>1, Discards DEF AlarmFires
  <1>4. CASE ReaderExits(e) \/ KeepAliveExits(e)
    <2>1. endpoints[e] \in ChannelOrNone
      BY DEF TypeOK
    <2> QED
      BY <1>4, <2>1, Discards DEF ReaderExits, KeepAliveExits, handlerVars
  <1> QED
    BY <1>1, <1>2, <1>3, <1>4

\* What the PCP thread posts, other than a registration.
LEMMA HandlerPosts ==
  ASSUME TypeOK, NEW e \in Endpoints,
         \/ RunRequest(e) \/ IncomingConnection(e) \/ \E goes_on \in BOOLEAN : IncomingTie(e, goes_on)
         \/ RunEncrypted(e) \/ RegistrationDone(e)
         \/ \E op \in {"incoming_failed", "outgoing_failed"} : RunEncryptionFailed(op, e)
         \/ \E answer \in LocalAnswers : RunRespond(answer, e)
         \/ \E answer \in RemoteAnswers : RunFrame(answer, e)
         \/ RecordAnswer(e) \/ RunEndpointDisconnect(e)
         \/ EvaluateConnectionResult(e) \/ DecideResult(e) \/ DeliverResult(e)
  PROVE  /\ PostsManager({"discard"})
         /\ pcp_queue' = pcp_queue \/ (pcp_queue # <<>> /\ pcp_queue' = Tail(pcp_queue))
  <1>1. pcp_queue' = pcp_queue \/ (pcp_queue # <<>> /\ pcp_queue' = Tail(pcp_queue))
    BY DEF RunRequest, IncomingConnection, IncomingTie, RunEncrypted, RegistrationDone, RunEncryptionFailed,
       RunRespond, RunFrame, RecordAnswer, RunEndpointDisconnect, EvaluateConnectionResult, DecideResult,
       DeliverResult, Takes
  <1>2. ASSUME NEW c \in ChannelOrNone, DiscardEndpoint(e, c)
        PROVE  PostsManager({"discard"})
    BY <1>2, Discards
  <1>3. pending[e].chan \in ChannelOrNone /\ pcp.c \in ChannelOrNone
    BY PcpShape DEF TypeOK
  <1>4. CASE em_queue' = em_queue
    BY <1>1, <1>4 DEF PostsManager
  <1>5. CASE RunEndpointDisconnect(e)
    <2>1. Head(pcp_queue).c \in ChannelOrNone
      BY <1>5, TakesType, TypeParts DEF RunEndpointDisconnect, JobsOf
    <2> QED
      BY <1>1, <1>2, <1>5, <2>1 DEF RunEndpointDisconnect, ResultFailure
  <1>6. em_queue' = em_queue \/ DiscardEndpoint(e, pending[e].chan) \/ DiscardEndpoint(e, pcp.c)
          \/ RunEndpointDisconnect(e)
    BY DEF RunRequest, IncomingConnection, IncomingTie, RunEncrypted, RegistrationDone, RunEncryptionFailed,
       RunRespond, RunFrame, RecordAnswer, EvaluateConnectionResult, DecideResult, DeliverResult, managerVars,
       ResultFailure
  <1> QED
    BY <1>1, <1>2, <1>3, <1>4, <1>5, <1>6

----------------------------------------------------------------------------
(* Registration *)

\* Jobs to register an endpoint are posted by RegisterProcessor only.
LEMMA RegistersSame ==
  ASSUME TypeOK, PostsManager({"discard", "unregister"})
  PROVE  \A i \in DOMAIN em_queue' :
           em_queue'[i].op = "register" => i \in DOMAIN em_queue /\ em_queue'[i] = em_queue[i]
  <1>1. em_queue \in Seq(JobsOf(ManagerOperations))
    BY DEF TypeOK
  <1>2. CASE em_queue' = em_queue
    BY <1>2
  <1>3. ASSUME NEW j \in JobsOf(ManagerOperations), j.op # "register", em_queue' = Append(em_queue, j)
        PROVE  \A i \in DOMAIN em_queue' :
                 em_queue'[i].op = "register" => i \in DOMAIN em_queue /\ em_queue'[i] = em_queue[i]
    BY <1>1, <1>3, PostedJobs
  <1> QED
    BY <1>2, <1>3 DEF PostsManager

\* Jobs that only wait.
LEMMA RegistrationQuiet ==
  ASSUME TypeOK, RegistrationInv, pending' = pending, pcp' = pcp, em' = em,
         PostsManager({"discard", "unregister"}),
         \/ pcp_queue' = pcp_queue
         \/ \E j \in JobsOf(PcpOperations) :
              (j.op = "encrypted" => j.c # None) /\ pcp_queue' = Append(pcp_queue, j)
  PROVE  RegistrationInv'
  <1>1. \A i \in DOMAIN em_queue' :
           em_queue'[i].op = "register" => i \in DOMAIN em_queue /\ em_queue'[i] = em_queue[i]
    BY RegistersSame
  <1>2. \A i \in DOMAIN pcp_queue' : pcp_queue'[i].op = "encrypted" => pcp_queue'[i].c # None
    <2>1. CASE pcp_queue' = pcp_queue
      BY <2>1 DEF RegistrationInv
    <2>2. ASSUME NEW j \in JobsOf(PcpOperations), j.op = "encrypted" => j.c # None,
                 pcp_queue' = Append(pcp_queue, j)
          PROVE  \A i \in DOMAIN pcp_queue' : pcp_queue'[i].op = "encrypted" => pcp_queue'[i].c # None
      <3>1. pcp_queue \in Seq(JobsOf(PcpOperations))
        BY DEF TypeOK
      <3> QED
        BY <2>2, <3>1, PostedJobs DEF RegistrationInv
    <2> QED
      BY <2>1, <2>2
  <1>3. \A e \in Endpoints : (IsPending(e)' <=> IsPending(e)) /\ (Registered(e)' <=> Registered(e))
    BY DEF IsPending, Registered
  <1>4. \A e : BeingRegistered(e)' <=> BeingRegistered(e)
    BY DEF BeingRegistered
  <1>5. /\ pcp.at = "register_processor" => (IsPending(pcp.e) /\ ~Registered(pcp.e))'
        /\ pcp.at \in {"registering", "registered"} => (IsPending(pcp.e) /\ Registered(pcp.e))'
    BY DEF RegistrationInv, IsPending, Registered
  <1>6. \A i \in DOMAIN em_queue' : em_queue'[i].op = "register" =>
       /\ BeingRegistered(em_queue[i].e)'
       /\ em_queue'[i].c = pending[em_queue'[i].e].chan
       /\ em.at # "register"
       /\ \A j \in DOMAIN em_queue' : em_queue'[j].op = "register" => i = j
    BY <1>1, <1>4 DEF RegistrationInv
  <1>7. em.at = "register" => BeingRegistered(em.e)'
    BY <1>4 DEF RegistrationInv
  <1> QED
    BY <1>1, <1>2, <1>3, <1>5, <1>6, <1>7 DEF RegistrationInv

\* The PCP thread, when it is not waiting for a registration.
LEMMA RegistrationElsewhere ==
  ASSUME TypeOK, RegistrationInv, pcp.at # "registering", pcp'.at \notin {"registering", "registered"},
         pcp'.at = "register_processor" => (IsPending(pcp.e) /\ ~Registered(pcp.e) /\ pcp.c # None)',
         \A f \in Endpoints : IsPending(f)' => pending'[f].chan # None,
         em' = em, PostsManager({"discard", "unregister"}),
         pcp_queue' = pcp_queue \/ (pcp_queue # <<>> /\ pcp_queue' = Tail(pcp_queue))
  PROVE  RegistrationInv'
  <1>1. \A i \in DOMAIN em_queue' : em_queue'[i].op # "register"
    <2>1. \A i \in DOMAIN em_queue : em_queue[i].op # "register"
      BY DEF RegistrationInv, BeingRegistered
    <2> QED
      BY <2>1, RegistersSame
  <1>2. \A i \in DOMAIN pcp_queue' : pcp_queue'[i].op = "encrypted" => pcp_queue'[i].c # None
    <2>1. CASE pcp_queue' = pcp_queue
      BY <2>1 DEF RegistrationInv
    <2>2. CASE pcp_queue # <<>> /\ pcp_queue' = Tail(pcp_queue)
      <3>1. pcp_queue \in Seq(JobsOf(PcpOperations))
        BY DEF TypeOK
      <3> QED
        BY <2>2, <3>1, TakenJobs DEF RegistrationInv
    <2> QED
      BY <2>1, <2>2
  <1>3. em.at # "register" /\ em.op # "register"
    BY DEF RegistrationInv, BeingRegistered
  <1> QED
    BY <1>1, <1>2, <1>3 DEF RegistrationInv

\* The client's calls, the threads that post jobs, and the mediums.
LEMMA QuietRegistration ==
  ASSUME TypeOK, RegistrationInv, NEW e \in Endpoints,
         \/ CallRequestConnection(e) \/ RequestRefused(e)
         \/ \E answer \in LocalAnswers : CallRespond(e, answer)
         \/ CallDisconnect(e) \/ StopNext(e)
         \/ CallStopAll \/ StopPhase \/ \E c \in open : ChannelBreaks(c)
         \/ \E h \in handshakes : HandshakeEnds(h[1], h[2], h[3])
         \/ \E a \in alarms : AlarmFires(a[1], a[2])
         \/ ReaderExits(e) \/ KeepAliveExits(e)
         \/ \E answer \in RemoteAnswers : ReadResponse(e, answer)
  PROVE  RegistrationInv'
  <1>1. pending' = pending /\ pcp' = pcp /\ em' = em
    BY DEF CallRequestConnection, RequestRefused, CallRespond, CallDisconnect, StopNext, CallStopAll,
       StopPhase, ChannelBreaks, HandshakeEnds, AlarmFires, ReaderExits, KeepAliveExits, ReadResponse,
       handlerVars, managerVars
  <1>2. CASE CallStopAll \/ StopPhase \/ \E c \in open : ChannelBreaks(c)
    <2>1. pcp_queue' = pcp_queue /\ PostsManager({"discard", "unregister"})
      BY <1>2 DEF CallStopAll, StopPhase, ChannelBreaks, handlerVars, managerVars, PostsManager
    <2> QED
      BY <1>1, <2>1, RegistrationQuiet
  <1>3. CASE \/ CallRequestConnection(e) \/ RequestRefused(e)
             \/ \E answer \in LocalAnswers : CallRespond(e, answer)
             \/ CallDisconnect(e) \/ StopNext(e)
    <2>1. PostsPcp(CallJobs) /\ PostsManager({"unregister"})
      BY <1>3, CallsPost
    <2>2. "encrypted" \notin CallJobs
      BY DEF CallJobs, LocalAnswers
    <2> QED
      BY <1>1, <2>1, <2>2, RegistrationQuiet DEF PostsPcp, PostsManager
  <1>4. CASE \/ \E h \in handshakes : HandshakeEnds(h[1], h[2], h[3])
             \/ \E a \in alarms : AlarmFires(a[1], a[2])
             \/ ReaderExits(e) \/ KeepAliveExits(e)
             \/ \E answer \in RemoteAnswers : ReadResponse(e, answer)
    BY <1>1, <1>4, WorkersPost, RegistrationQuiet DEF PostsManager
  <1> QED
    BY <1>2, <1>3, <1>4

\* A pending connection that begins or ends leaves the others alone.
LEMMA PendingHasChannel ==
  ASSUME TypeOK, RegistrationInv, NEW e \in Endpoints,
         \/ pending' = pending
         \/ pending' = [pending EXCEPT ![e] = NoPending]
         \/ \E incoming \in BOOLEAN, still \in {open, OpenAfterDestroyed(e)} : Attempt(e, incoming, still)
  PROVE  \A f \in Endpoints : IsPending(f)' => pending'[f].chan # None
  <1>1. \A f \in Endpoints : pending[f] # NoPending => pending[f].chan # None
    BY DEF RegistrationInv, IsPending
  <1>2. attempts + 1 # None
    BY DEF TypeOK, None
  <1>3. CASE pending' = pending \/ pending' = [pending EXCEPT ![e] = NoPending]
    BY <1>1, <1>3 DEF TypeOK, IsPending
  <1>4. ASSUME NEW incoming \in BOOLEAN, NEW still \in {open, OpenAfterDestroyed(e)}, Attempt(e, incoming, still)
        PROVE  \A f \in Endpoints : IsPending(f)' => pending'[f].chan # None
    <2>1. pending'[e].chan = attempts + 1 /\ \A f \in Endpoints : f # e => pending'[f] = pending[f]
      BY <1>4 DEF TypeOK, Attempt
    <2> QED
      BY <1>1, <1>2, <2>1 DEF IsPending
  <1> QED
    BY <1>3, <1>4

\* The steps of the PCP thread keep RegistrationInv,
LEMMA HandlerRegistration ==
  ASSUME TypeOK, RegistrationInv, NEW e \in Endpoints,
         \/ RunRequest(e) \/ IncomingConnection(e) \/ \E goes_on \in BOOLEAN : IncomingTie(e, goes_on)
         \/ RunEncrypted(e) \/ RegistrationDone(e)
         \/ \E op \in {"incoming_failed", "outgoing_failed"} : RunEncryptionFailed(op, e)
         \/ \E answer \in LocalAnswers : RunRespond(answer, e)
         \/ \E answer \in RemoteAnswers : RunFrame(answer, e)
         \/ RecordAnswer(e) \/ RunEndpointDisconnect(e)
         \/ EvaluateConnectionResult(e) \/ DecideResult(e) \/ DeliverResult(e)
  PROVE  RegistrationInv'
  <1>1. /\ PostsManager({"discard"})
        /\ pcp_queue' = pcp_queue \/ (pcp_queue # <<>> /\ pcp_queue' = Tail(pcp_queue))
    BY HandlerPosts
  <1>2. em' = em
    BY DEF RunRequest, IncomingConnection, IncomingTie, RunEncrypted, RegistrationDone, RunEncryptionFailed,
       RunRespond, RunFrame, RecordAnswer, RunEndpointDisconnect, EvaluateConnectionResult, DecideResult,
       DeliverResult, managerVars
  <1>3. \A f \in Endpoints : IsPending(f)' => pending'[f].chan # None
    <2>1. \/ pending' = pending
          \/ pending' = [pending EXCEPT ![e] = NoPending]
          \/ \E incoming \in BOOLEAN, still \in {open, OpenAfterDestroyed(e)} : Attempt(e, incoming, still)
      BY DEF RunRequest, IncomingConnection, IncomingTie, RunEncrypted, RegistrationDone,
         RunEncryptionFailed, RunRespond, RunFrame, RecordAnswer, RunEndpointDisconnect,
         EvaluateConnectionResult, DecideResult, DeliverResult, ResultFailure
    <2> QED
      BY <2>1, PendingHasChannel
  <1>4. pcp.at # "registering"
    BY PcpShape DEF RunRequest, IncomingConnection, IncomingTie, RunEncrypted, RegistrationDone,
       RunEncryptionFailed, RunRespond, RunFrame, RecordAnswer, RunEndpointDisconnect,
       EvaluateConnectionResult, DecideResult, DeliverResult, Takes
  <1>5. /\ pcp'.at \notin {"registering", "registered"}
        /\ pcp'.at = "register_processor" => (IsPending(pcp.e) /\ ~Registered(pcp.e) /\ pcp.c # None)'
    <2>1. CASE RunEncrypted(e)
      <3>1. pcp.at = "idle" /\ Idle.at = "idle" /\ pending' = pending
        BY <2>1, PcpShape DEF RunEncrypted, Takes
      <3>2. CASE pcp' \in {pcp, Idle}
        BY <2>1, <3>1, <3>2, PcpShape
      <3>3. CASE pcp' = Running(Head(pcp_queue), "register_processor") /\ IsPending(e) /\ ~Registered(e)
        <4>1. /\ 1 \in DOMAIN pcp_queue /\ Head(pcp_queue) = pcp_queue[1]
              /\ Head(pcp_queue).op = "encrypted" /\ Head(pcp_queue).e = e
          BY <2>1, Taken DEF RunEncrypted, Takes, TypeOK
        <4>2. Head(pcp_queue).c # None
          BY <4>1 DEF RegistrationInv
        <4>3. pcp'.at = "register_processor" /\ pcp'.e = e /\ pcp'.c # None
          BY <3>3, <4>1, <4>2, RunFields
        <4> QED
          BY <3>1, <3>3, <4>3 DEF IsPending, Registered
      <3> QED
        BY <2>1, <3>2, <3>3 DEF RunEncrypted
    <2>2. ASSUME NEW at \in {"idle", "record", "evaluate", "decide", "accept", "reject"}, pcp'.at = at
          PROVE  pcp'.at \notin {"registering", "registered", "register_processor"}
      BY <2>2
    <2>3. CASE \/ RunRequest(e) \/ IncomingConnection(e) \/ \E goes_on \in BOOLEAN : IncomingTie(e, goes_on)
               \/ RegistrationDone(e) \/ RunEndpointDisconnect(e)
               \/ \E op \in {"incoming_failed", "outgoing_failed"} : RunEncryptionFailed(op, e)
      <3>1. pcp' = Idle
        BY <2>3 DEF RunRequest, IncomingConnection, IncomingTie, RegistrationDone, RunEndpointDisconnect,
           RunEncryptionFailed, Takes
      <3> QED
        BY <2>2, <3>1, PcpShape
    <2>4. CASE \/ \E answer \in LocalAnswers : RunRespond(answer, e)
               \/ \E answer \in RemoteAnswers : RunFrame(answer, e)
      <3>1. pcp' \in {Idle, Running(Head(pcp_queue), "record")}
        BY <2>4 DEF RunRespond, RunFrame, Takes
      <3>2. Running(Head(pcp_queue), "record").at = "record"
        BY DEF Running
      <3> QED
        BY <2>2, <3>1, <3>2, PcpShape
    <2>5. CASE RecordAnswer(e) \/ EvaluateConnectionResult(e) \/ DecideResult(e) \/ DeliverResult(e)
      <3>1. pcp # Idle /\ pcp.at \in {"record", "evaluate", "decide", "accept", "reject"}
        BY <2>5, PcpShape DEF RecordAnswer, EvaluateConnectionResult, DecideResult, DeliverResult
      <3>2. PICK at \in {"evaluate", "decide", "accept", "reject"}, c \in {pcp.c, pending[e].chan} :
              pcp' \in {pcp, Idle, [pcp EXCEPT !.at = at], [pcp EXCEPT !.at = at, !.c = c]}
        BY <2>5 DEF RecordAnswer, EvaluateConnectionResult, DecideResult, DeliverResult, JobDone
      <3>3. [pcp EXCEPT !.at = at].at = at /\ [pcp EXCEPT !.at = at, !.c = c].at = at
        BY <3>1 DEF TypeOK, RunsOf
      <3>4. pcp'.at \in {"idle", "record", "evaluate", "decide", "accept", "reject"}
        <4>1. CASE pcp' = pcp
          BY <3>1, <4>1
        <4>2. CASE pcp' = Idle
          BY <4>2, PcpShape
        <4>3. CASE pcp' \in {[pcp EXCEPT !.at = at], [pcp EXCEPT !.at = at, !.c = c]}
          BY <3>3, <4>3
        <4> QED
          BY <3>2, <4>1, <4>2, <4>3
      <3> QED
        BY <3>4
    <2> QED
      BY <2>1, <2>3, <2>4, <2>5
  <1> QED
    BY <1>1, <1>2, <1>3, <1>4, <1>5, RegistrationElsewhere DEF PostsManager

\* also the one that posts the registration,
LEMMA ProcessorRegistration ==
  ASSUME TypeOK, RegistrationInv, NEW e \in Endpoints, RegisterProcessor(e)
  PROVE  RegistrationInv'
  <1>1. pcp.at = "register_processor" /\ pcp.e = e /\ pcp'.at = "registering" /\ pcp'.e = e /\ pcp # Idle
    BY PcpShape DEF RegisterProcessor, TypeOK, RunsOf
  <1>2. IsPending(e) /\ ~Registered(e) /\ pcp.c # None /\ pending[e].chan # None
    BY <1>1 DEF RegistrationInv
  <1>3. /\ \A f \in Endpoints : f # e => pending'[f] = pending[f]
        /\ pending'[e].keys = pcp.c /\ pending'[e].chan = pending[e].chan
    BY DEF RegisterProcessor, TypeOK
  <1>4. IsPending(e)' /\ Registered(e)'
    BY <1>2, <1>3 DEF IsPending, Registered, NoPending
  <1>5. \A f \in Endpoints : IsPending(f)' => pending'[f].chan # None
    BY <1>2, <1>3 DEF RegistrationInv, IsPending
  <1>6. BeingRegistered(e)'
    BY <1>1 DEF BeingRegistered
  <1>7. /\ \A i \in DOMAIN em_queue : em_queue[i].op # "register"
        /\ em.at # "register" /\ em.op # "register"
    BY <1>1 DEF RegistrationInv, BeingRegistered
  <1>8. pcp_queue' = pcp_queue /\ em' = em /\ em_queue' = Append(em_queue, Job("register", e, pending[e].chan))
    BY DEF RegisterProcessor
  <1>9. Job("register", e, pending[e].chan) \in JobsOf(ManagerOperations) /\ em_queue \in Seq(JobsOf(ManagerOperations))
    BY JobType DEF ManagerOperations, TypeOK
  <1>10. \A i \in DOMAIN em_queue' : em_queue'[i].op = "register" =>
           em_queue'[i] = Job("register", e, pending[e].chan) /\ i = Len(em_queue) + 1
    BY <1>7, <1>8, <1>9, Posted
  <1>11. \A i \in DOMAIN em_queue' : em_queue'[i].op = "register" =>
           em_queue'[i].e = e /\ em_queue'[i].c = pending'[e].chan
    BY <1>3, <1>10, JobFields
  <1> QED
    BY <1>1, <1>4, <1>5, <1>6, <1>7, <1>8, <1>10, <1>11 DEF RegistrationInv

\* and so do the steps of the manager thread.
LEMMA ManagerRegistration ==
  ASSUME TypeOK, RegistrationInv, NEW e \in Endpoints,
         \/ TakeRegister(e) \/ RegisterEndpoint(e) \/ TakeRemove(e) \/ RemoveChannel(e)
         \/ NotifyProcessors(e) \/ BarrierOpens(e) \/ Disconnect(e) \/ RemoveEndpointState(e)
  PROVE  RegistrationInv'
  <1>1. pending' = pending
    BY DEF TakeRegister, RegisterEndpoint, TakeRemove, RemoveChannel, NotifyProcessors, BarrierOpens,
       Disconnect, RemoveEndpointState, handlerVars
  <1>2. \A i \in DOMAIN pcp_queue' : pcp_queue'[i].op = "encrypted" => pcp_queue'[i].c # None
    <2>1. CASE pcp_queue' = pcp_queue
      BY <2>1 DEF RegistrationInv
    <2>2. CASE NotifyProcessors(e)
      <3>1. Job("disconnect", e, em.c) \in JobsOf(PcpOperations) /\ pcp_queue \in Seq(JobsOf(PcpOperations))
        BY JobType, EmShape DEF PcpOperations, TypeOK
      <3>2. pcp_queue' = Append(pcp_queue, Job("disconnect", e, em.c))
        BY <2>2 DEF NotifyProcessors
      <3>3. Job("disconnect", e, em.c).op # "encrypted"
        BY JobFields
      <3> QED
        BY <3>1, <3>2, <3>3, PostedJobs DEF RegistrationInv
    <2> QED
      BY <2>1, <2>2 DEF TakeRegister, RegisterEndpoint, TakeRemove, RemoveChannel, BarrierOpens,
         Disconnect, RemoveEndpointState, handlerVars
  <1>3. \A f \in Endpoints : (IsPending(f)' <=> IsPending(f)) /\ (Registered(f)' <=> Registered(f))
    BY <1>1 DEF IsPending, Registered
  <1>4. em_queue \in Seq(JobsOf(ManagerOperations)) /\ Idle.at = "idle" /\ Idle.op = "none"
    BY DEF TypeOK, Idle
  <1>5. ASSUME pcp' = pcp
        PROVE  /\ \A f : BeingRegistered(f)' <=> BeingRegistered(f)
               /\ pcp'.at = "register_processor" => (IsPending(pcp.e) /\ ~Registered(pcp.e) /\ pcp.c # None)'
               /\ pcp'.at \in {"registering", "registered"} => (IsPending(pcp.e) /\ Registered(pcp.e))'
    BY <1>1, <1>5 DEF BeingRegistered, RegistrationInv, IsPending, Registered
  <1>6. CASE TakeRegister(e)
    <2>1. em = Idle /\ em_queue # <<>> /\ em_queue' = Tail(em_queue) /\ Head(em_queue).op = "register"
          /\ Head(em_queue).e = e /\ em' = Running(Head(em_queue), "register") /\ pcp' = pcp
      BY <1>6 DEF TakeRegister, handlerVars
    <2>2. /\ Len(em_queue) \in Nat \ {0} /\ DOMAIN em_queue = 1 .. Len(em_queue) /\ Head(em_queue) = em_queue[1]
          /\ DOMAIN em_queue' = 1 .. Len(em_queue) - 1 /\ 1 \in DOMAIN em_queue
          /\ \A i \in 1 .. Len(em_queue) - 1 : em_queue'[i] = em_queue[i + 1] /\ i + 1 \in DOMAIN em_queue
      BY <1>4, <2>1, Taken
    <2>3. em'.at = "register" /\ em'.op = "register" /\ em'.e = e /\ em'.c = Head(em_queue).c
      BY <2>1, RunFields
    <2>4. BeingRegistered(e) /\ Head(em_queue).c = pending[e].chan
          /\ \A j \in DOMAIN em_queue : em_queue[j].op = "register" => j = 1
      BY <2>1, <2>2 DEF RegistrationInv
    <2>5. \A i \in DOMAIN em_queue' : em_queue'[i].op # "register"
      <3> SUFFICES ASSUME NEW i \in 1 .. Len(em_queue) - 1 PROVE em_queue'[i].op # "register"
        BY <2>2
      <3>1. i + 1 # 1
        BY <2>2
      <3> QED
        BY <2>2, <2>4, <3>1
    <2>6. BeingRegistered(e)'
      BY <1>5, <2>1, <2>4
    <2> QED
      BY <1>1, <1>2, <1>3, <1>5, <2>1, <2>3, <2>4, <2>5, <2>6 DEF RegistrationInv
  <1>7. CASE RegisterEndpoint(e)
    <2>1. em.at = "register" /\ em.e = e /\ em' = Idle /\ em_queue' = em_queue
          /\ pcp' = [pcp EXCEPT !.at = "registered"]
      BY <1>7 DEF RegisterEndpoint
    <2>2. BeingRegistered(e) /\ \A i \in DOMAIN em_queue : em_queue[i].op # "register"
      BY <2>1 DEF RegistrationInv
    <2>3. pcp.at = "registering" /\ pcp.e = e /\ pcp # Idle
      BY <2>2, PcpShape DEF BeingRegistered
    <2>4. pcp'.at = "registered" /\ pcp'.e = e
      BY <2>1, <2>3 DEF TypeOK, RunsOf
    <2>5. IsPending(e) /\ Registered(e)
      BY <2>3 DEF RegistrationInv
    <2>6. (IsPending(e) /\ Registered(e))'
      BY <1>3, <2>5
    <2> QED
      BY <1>1, <1>2, <1>3, <1>4, <2>1, <2>2, <2>4, <2>6 DEF RegistrationInv
  <1>8. ASSUME pcp' = pcp, em_queue' = em_queue, em.at # "register", em'.at # "register", em'.op # "register"
        PROVE  RegistrationInv'
    <2>1. \A i \in DOMAIN em_queue : em_queue[i].op = "register" => BeingRegistered(em_queue[i].e)'
      BY <1>5, <1>8 DEF RegistrationInv
    <2> QED
      BY <1>1, <1>2, <1>3, <1>5, <1>8, <2>1 DEF RegistrationInv
  <1>9. CASE TakeRemove(e)
    <2>1. em = Idle /\ em_queue # <<>> /\ em_queue' = Tail(em_queue)
          /\ Head(em_queue).op \in {"discard", "unregister"} /\ pcp' = pcp
      BY <1>9 DEF TakeRemove, handlerVars
    <2>2. em'.at = "remove" /\ em'.op = Head(em_queue).op
      BY <1>9 DEF TakeRemove, Running
    <2>3. /\ Len(em_queue) \in Nat \ {0} /\ DOMAIN em_queue = 1 .. Len(em_queue) /\ Head(em_queue) = em_queue[1]
          /\ DOMAIN em_queue' = 1 .. Len(em_queue) - 1
          /\ \A i \in 1 .. Len(em_queue) - 1 : em_queue'[i] = em_queue[i + 1] /\ i + 1 \in DOMAIN em_queue
      BY <1>4, <2>1, Taken
    <2>4. ASSUME NEW i \in DOMAIN em_queue', em_queue'[i].op = "register"
          PROVE  /\ pcp.at = "registering" /\ pcp.e = em_queue'[i].e
                 /\ em_queue'[i].c = pending[em_queue'[i].e].chan
                 /\ \A j \in DOMAIN em_queue' : em_queue'[j].op = "register" => i = j
      <3>1. i + 1 \in DOMAIN em_queue /\ em_queue'[i] = em_queue[i + 1]
        BY <2>3
      <3>2. pcp.at = "registering" /\ pcp.e = em_queue[i + 1].e /\ em_queue[i + 1].c = pending[em_queue[i + 1].e].chan
        BY <2>4, <3>1 DEF RegistrationInv, BeingRegistered
      <3>3. ASSUME NEW j \in DOMAIN em_queue', em_queue'[j].op = "register"
            PROVE  i = j
        <4>1. j + 1 \in DOMAIN em_queue /\ em_queue'[j] = em_queue[j + 1]
          BY <2>3
        <4>2. i + 1 = j + 1
          BY <2>4, <3>1, <3>3, <4>1 DEF RegistrationInv
        <4> QED
          BY <2>3, <4>2
      <3> QED
        BY <3>1, <3>2, <3>3
    <2>5. \A i \in DOMAIN em_queue' : em_queue'[i].op = "register" => BeingRegistered(em_queue[i].e)'
      BY <2>1, <2>4 DEF BeingRegistered
    <2> QED
      BY <1>1, <1>2, <1>3, <1>5, <2>1, <2>2, <2>4, <2>5 DEF RegistrationInv
  <1>10. CASE RemoveChannel(e) \/ NotifyProcessors(e) \/ BarrierOpens(e) \/ Disconnect(e)
    <2>1. em # Idle /\ em.at \in {"remove", "notify", "barrier", "disconnect"} /\ pcp' = pcp /\ em_queue' = em_queue
      BY <1>10, EmShape DEF RemoveChannel, NotifyProcessors, BarrierOpens, Disconnect, handlerVars
    <2>2. PICK at \in {"notify", "barrier", "disconnect", "join"}, c \in {em.c, channel[e]} :
            em' \in {[em EXCEPT !.at = at], [em EXCEPT !.at = at, !.c = c]}
      BY <1>10 DEF RemoveChannel, NotifyProcessors, BarrierOpens, Disconnect
    <2>3. em'.at = at /\ em'.op = em.op
      BY <2>1, <2>2 DEF TypeOK, RunsOf
    <2>4. em.op # "register"
      BY <2>1 DEF RegistrationInv
    <2> QED
      BY <1>8, <2>1, <2>3, <2>4
  <1>11. CASE RemoveEndpointState(e)
    BY <1>4, <1>8, <1>11 DEF RemoveEndpointState, handlerVars
  <1> QED
    BY <1>6, <1>7, <1>9, <1>10, <1>11

\* Every step keeps RegistrationInv.
LEMMA StepRegistration ==
  ASSUME TypeOK, RegistrationInv, Next
  PROVE  RegistrationInv'
  <1>1. \A h \in handshakes : h[1] \in Endpoints
    BY DEF TypeOK
  <1>2. \A a \in alarms : a[1] \in Endpoints
    BY DEF TypeOK
  <1>3. CASE PcpStep
    BY <1>3, HandlerRegistration, ProcessorRegistration DEF PcpStep
  <1>4. CASE ManagerStep
    BY <1>4, ManagerRegistration DEF ManagerStep
  <1>5. CASE RouterStep
    <2>1. CASE \E e \in Endpoints : RequestRefused(e) \/ StopNext(e)
      BY <2>1, QuietRegistration
    <2>2. CASE StopPhase
      <3>1. CASE Endpoints = {}
        <4>1. pending' = pending /\ pcp' = pcp /\ em' = em /\ pcp_queue' = pcp_queue /\ em_queue' = em_queue
          BY <2>2 DEF StopPhase, handlerVars, managerVars
        <4> QED
          BY <4>1, RegistrationQuiet DEF PostsManager
      <3> QED
        BY <2>2, <3>1, QuietRegistration
    <2> QED
      BY <1>5, <2>1, <2>2 DEF RouterStep
  <1>6. CASE HandshakeStep \/ AlarmStep \/ \E e \in Endpoints : ReaderStep(e) \/ KeepAliveStep(e)
    BY <1>1, <1>2, <1>6, QuietRegistration DEF HandshakeStep, AlarmStep, ReaderStep, KeepAliveStep
  <1>7. CASE Environment
    <2>1. CASE CallStopAll \/ \E c \in open : ChannelBreaks(c)
      <3>1. pending' = pending /\ pcp' = pcp /\ em' = em /\ pcp_queue' = pcp_queue /\ em_queue' = em_queue
        BY <2>1 DEF CallStopAll, ChannelBreaks, handlerVars, managerVars
      <3> QED
        BY <3>1, RegistrationQuiet DEF PostsManager
    <2> QED
      BY <1>7, <2>1, QuietRegistration, HandlerRegistration DEF Environment
  <1> QED
    BY <1>3, <1>4, <1>5, <1>6, <1>7 DEF Next

----------------------------------------------------------------------------
(* Evaluation *)

\* Connections may go; those that stay keep their status.
Shrinks == connections' \subseteq connections /\ \A f \in connections' : status'[f] = status[f]

\* The calls that remove connections or concern the flags only take away.
LEMMA ProxyShrinks ==
  ASSUME ProxyTypeOK,
         \/ UNCHANGED proxyVars \/ RemoveAllEndpoints
         \/ \E e \in Endpoints : AddCancellationFlag(e) \/ OnConnectionRejected(e)
              \/ \E n \in BOOLEAN : OnDisconnected(e, n)
         \/ \E es : CancelEndpoints(es)
  PROVE  Shrinks
  <1>1. CASE \E e \in Endpoints : \E t : Removed(e, t)
    BY <1>1 DEF Removed, Shrinks, ProxyTypeOK
  <1>2. CASE UNCHANGED <<connections, status>>
    BY <1>2 DEF Shrinks
  <1>3. CASE RemoveAllEndpoints
    BY <1>3 DEF RemoveAllEndpoints, Shrinks
  <1> QED
    BY <1>1, <1>2, <1>3 DEF AddCancellationFlag, OnConnectionRejected, OnDisconnected, CancelEndpoints, proxyVars

\* EvaluationInv stands while the PCP thread and its table do,
LEMMA EvaluationKept ==
  ASSUME EvaluationInv, pcp' = pcp, pending' = pending, Shrinks
  PROVE  EvaluationInv'
  <1>1. pcp.at = "record" /\ pcp.op \in LocalAnswers => IsPending(pcp.e)'
    BY DEF EvaluationInv, IsPending
  <1>2. pcp.at = "decide" => (IsPending(pcp.e) /\ Registered(pcp.e))'
    BY DEF EvaluationInv, IsPending, Registered
  <1>3. pcp.at = "decide" /\ pcp.e \in connections' => (IsConnectionAccepted(pcp.e) \/ IsConnectionRejected(pcp.e))'
    BY DEF EvaluationInv, IsConnectionAccepted, IsConnectionRejected, StatusesContain, Shrinks
  <1> QED
    BY <1>1, <1>2, <1>3 DEF EvaluationInv

\* and when the thread is idle.
LEMMA EvaluationOver ==
  ASSUME pcp' = Idle
  PROVE  EvaluationInv'
  <1>1. Idle.at = "idle" /\ Idle.op = "none"
    BY DEF Idle
  <1> QED
    BY <1>1 DEF EvaluationInv, LocalAnswers, RemoteAnswers

\* The steps outside the two threads keep EvaluationInv,
LEMMA QuietEvaluation ==
  ASSUME TypeOK, EvaluationInv,
         \/ \E e \in Endpoints :
              \/ CallRequestConnection(e) \/ RequestRefused(e)
              \/ \E answer \in LocalAnswers : CallRespond(e, answer)
              \/ CallDisconnect(e) \/ StopNext(e)
              \/ ReaderExits(e) \/ KeepAliveExits(e)
              \/ \E answer \in RemoteAnswers : ReadResponse(e, answer)
         \/ CallStopAll \/ StopPhase \/ \E c \in open : ChannelBreaks(c)
         \/ \E h \in handshakes : HandshakeEnds(h[1], h[2], h[3])
         \/ \E a \in alarms : AlarmFires(a[1], a[2])
  PROVE  Shrinks /\ EvaluationInv'
  <1>1. pending' = pending /\ pcp' = pcp
    BY DEF CallRequestConnection, RequestRefused, CallRespond, CallDisconnect, StopNext, CallStopAll,
       StopPhase, ChannelBreaks, HandshakeEnds, AlarmFires, ReaderExits, KeepAliveExits, ReadResponse,
       handlerVars, managerVars
  <1>2. \/ UNCHANGED proxyVars \/ RemoveAllEndpoints
        \/ \E e \in Endpoints : AddCancellationFlag(e)
        \/ \E es : CancelEndpoints(es)
    BY DEF CallRequestConnection, RequestRefused, CallRespond, CallDisconnect, StopNext, CallStopAll,
       StopPhase, ChannelBreaks, HandshakeEnds, AlarmFires, ReaderExits, KeepAliveExits, ReadResponse
  <1>3. Shrinks
    BY <1>2, ProxyShrinks DEF TypeOK
  <1> QED
    BY <1>1, <1>3, EvaluationKept

\* those of the PCP thread,
LEMMA HandlerEvaluation ==
  ASSUME TypeOK, P!Inv, RegistrationInv, EvaluationInv, NEW e \in Endpoints,
         \/ RunRequest(e) \/ IncomingConnection(e) \/ \E goes_on \in BOOLEAN : IncomingTie(e, goes_on)
         \/ RunEncrypted(e) \/ RegisterProcessor(e) \/ RegistrationDone(e)
         \/ \E op \in {"incoming_failed", "outgoing_failed"} : RunEncryptionFailed(op, e)
         \/ \E answer \in LocalAnswers : RunRespond(answer, e)
         \/ \E answer \in RemoteAnswers : RunFrame(answer, e)
         \/ RecordAnswer(e) \/ RunEndpointDisconnect(e)
         \/ EvaluateConnectionResult(e) \/ DecideResult(e) \/ DeliverResult(e)
  PROVE  EvaluationInv'
  <1>1. CASE pcp' = Idle
    BY <1>1, EvaluationOver
  <1>2. CASE \/ RunRequest(e) \/ IncomingConnection(e) \/ \E goes_on \in BOOLEAN : IncomingTie(e, goes_on)
             \/ RegistrationDone(e) \/ RunEndpointDisconnect(e)
             \/ \E op \in {"incoming_failed", "outgoing_failed"} : RunEncryptionFailed(op, e)
    <2>1. pcp' = Idle
      BY <1>2 DEF RunRequest, IncomingConnection, IncomingTie, RegistrationDone, RunEndpointDisconnect,
         RunEncryptionFailed, Takes
    <2> QED
      BY <1>1, <2>1
  <1>3. CASE RunEncrypted(e)
    <2>1. CASE pcp' = Running(Head(pcp_queue), "register_processor")
      <3>1. pcp'.at = "register_processor" /\ pcp'.op = "encrypted"
        BY <1>3, <2>1 DEF RunEncrypted, Takes, Running
      <3> QED
        BY <3>1 DEF EvaluationInv, LocalAnswers, RemoteAnswers
    <2> QED
      BY <1>1, <1>3, <2>1 DEF RunEncrypted, Takes
  <1>4. CASE RegisterProcessor(e)
    <2>1. pcp # Idle /\ pcp.at = "register_processor"
      BY <1>4, PcpShape DEF RegisterProcessor
    <2>2. pcp'.at = "registering" /\ pcp'.op = "encrypted"
      BY <1>4, <2>1 DEF RegisterProcessor, EvaluationInv, TypeOK, RunsOf
    <2> QED
      BY <2>2 DEF EvaluationInv, LocalAnswers, RemoteAnswers
  <1>5. ASSUME NEW answer \in LocalAnswers, RunRespond(answer, e)
        PROVE  EvaluationInv'
    <2>1. CASE pcp' = Running(Head(pcp_queue), "record") /\ IsPending(e) /\ pending' = pending
      <3>1. pcp'.at = "record" /\ pcp'.op = answer /\ pcp'.e = e
        BY <1>5, <2>1 DEF RunRespond, Takes, Running
      <3>2. IsPending(e)'
        BY <2>1 DEF IsPending
      <3> QED
        BY <3>1, <3>2 DEF EvaluationInv, LocalAnswers, RemoteAnswers
    <2> QED
      BY <1>1, <1>5, <2>1 DEF RunRespond, Takes
  <1>6. ASSUME NEW answer \in RemoteAnswers, RunFrame(answer, e)
        PROVE  EvaluationInv'
    <2>1. CASE pcp' = Running(Head(pcp_queue), "record")
      <3>1. pcp'.at = "record" /\ pcp'.op = answer /\ pcp'.e = e
        BY <1>6, <2>1 DEF RunFrame, Takes, Running
      <3> QED
        BY <3>1 DEF EvaluationInv, LocalAnswers, RemoteAnswers
    <2> QED
      BY <1>1, <1>6, <2>1 DEF RunFrame, Takes
  <1>7. CASE RecordAnswer(e)
    <2>1. pcp # Idle /\ pcp.at = "record"
      BY <1>7, PcpShape DEF RecordAnswer
    <2>2. pcp'.at = "evaluate" /\ pcp'.op = pcp.op
      BY <1>7, <2>1 DEF RecordAnswer, TypeOK, RunsOf
    <2>3. pcp.op \in LocalAnswers \cup RemoteAnswers
      BY <2>1 DEF EvaluationInv
    <2> QED
      BY <2>2, <2>3 DEF EvaluationInv, LocalAnswers, RemoteAnswers
  <1>8. CASE EvaluateConnectionResult(e)
    <2>1. pcp # Idle /\ pcp.at = "evaluate" /\ pcp.e = e /\ pending' = pending /\ UNCHANGED proxyVars
      BY <1>8, PcpShape DEF EvaluateConnectionResult
    <2>2. pcp.op \in LocalAnswers \cup RemoteAnswers
      BY <2>1 DEF EvaluationInv
    <2>3. CASE pcp' = [pcp EXCEPT !.at = "decide"] /\ IsPending(e) /\ (IsConnectionAccepted(e) \/ IsConnectionRejected(e))
      <3>1. pcp'.at = "decide" /\ pcp'.op = pcp.op /\ pcp'.e = e
        BY <2>1, <2>3 DEF TypeOK, RunsOf
      <3>2. IsPending(e)' /\ (IsConnectionAccepted(e) \/ IsConnectionRejected(e))'
        BY <2>1, <2>3 DEF IsPending, IsConnectionAccepted, IsConnectionRejected, StatusesContain, proxyVars
      <3>3. Registered(e)'
        <4>1. e \in connections
          BY <2>3 DEF IsConnectionAccepted, IsConnectionRejected, StatusesContain
        <4>2. e \notin Handshaking
          BY <4>1, ProxyInv DEF ProxyFacts
        <4> QED
          BY <2>1, <2>3, <4>2 DEF Handshaking, Registered
      <3> QED
        BY <2>2, <3>1, <3>2, <3>3 DEF EvaluationInv, LocalAnswers, RemoteAnswers
    <2> QED
      BY <1>1, <1>8, <2>3 DEF EvaluateConnectionResult, JobDone
  <1>9. CASE DecideResult(e)
    <2>1. pcp # Idle /\ pcp.at = "decide" /\ pcp.e = e /\ UNCHANGED proxyVars
      BY <1>9, PcpShape DEF DecideResult
    <2>2. pcp.op \in LocalAnswers \cup RemoteAnswers /\ IsPending(e) /\ pending[e].chan # None
      BY <2>1 DEF EvaluationInv, RegistrationInv
    <2>3. CASE pcp' = pcp /\ pending' = pending
      BY <2>1, <2>3, EvaluationKept, ProxyShrinks DEF TypeOK
    <2>4. ASSUME NEW at \in {"accept", "reject"}, pcp' = [pcp EXCEPT !.at = at, !.c = pending[e].chan]
          PROVE  EvaluationInv'
      <3>1. pcp'.at = at /\ pcp'.op = pcp.op /\ pcp'.c # None
        BY <2>1, <2>2, <2>4 DEF TypeOK, RunsOf
      <3> QED
        BY <2>2, <3>1 DEF EvaluationInv, LocalAnswers, RemoteAnswers
    <2>5. \/ pcp' = pcp /\ pending' = pending
          \/ \E at \in {"accept", "reject"} : pcp' = [pcp EXCEPT !.at = at, !.c = pending[e].chan]
      BY <1>9 DEF DecideResult
    <2> QED
      BY <2>3, <2>4, <2>5
  <1>10. CASE DeliverResult(e)
    BY <1>1, <1>10 DEF DeliverResult, JobDone
  <1> QED
    BY <1>2, <1>3, <1>4, <1>5, <1>6, <1>7, <1>8, <1>9, <1>10

\* and those of the manager thread.
LEMMA ManagerEvaluation ==
  ASSUME TypeOK, RegistrationInv, EvaluationInv, NEW e \in Endpoints,
         \/ TakeRegister(e) \/ RegisterEndpoint(e) \/ TakeRemove(e) \/ RemoveChannel(e)
         \/ NotifyProcessors(e) \/ BarrierOpens(e) \/ Disconnect(e) \/ RemoveEndpointState(e)
  PROVE  EvaluationInv'
  <1>1. CASE RegisterEndpoint(e)
    <2>1. pcp.at = "registering" /\ pcp # Idle
      BY <1>1, PcpShape DEF RegisterEndpoint, RegistrationInv, BeingRegistered
    <2>2. pcp'.at = "registered" /\ pcp'.op = "encrypted"
      BY <1>1, <2>1 DEF RegisterEndpoint, EvaluationInv, TypeOK, RunsOf
    <2> QED
      BY <2>2 DEF EvaluationInv, LocalAnswers, RemoteAnswers
  <1>2. CASE ~RegisterEndpoint(e)
    <2>1. pcp' = pcp /\ pending' = pending
      BY <1>2 DEF TakeRegister, TakeRemove, RemoveChannel, NotifyProcessors, BarrierOpens,
         Disconnect, RemoveEndpointState, handlerVars
    <2>2. UNCHANGED proxyVars \/ \E n \in BOOLEAN : OnDisconnected(e, n)
      <3>1. em.notify \in BOOLEAN
        BY EmShape
      <3> QED
        BY <1>2, <3>1 DEF TakeRegister, TakeRemove, RemoveChannel, NotifyProcessors, BarrierOpens,
           Disconnect, RemoveEndpointState
    <2> QED
      BY <2>1, <2>2, ProxyShrinks, EvaluationKept DEF TypeOK
  <1> QED
    BY <1>1, <1>2

\* Every step keeps EvaluationInv.
LEMMA StepEvaluation ==
  ASSUME TypeOK, P!Inv, RegistrationInv, EvaluationInv, Next
  PROVE  EvaluationInv'
  <1>1. CASE PcpStep
    BY <1>1, HandlerEvaluation DEF PcpStep
  <1>2. CASE ManagerStep
    BY <1>2, ManagerEvaluation DEF ManagerStep
  <1>3. CASE RouterStep \/ HandshakeStep \/ AlarmStep \/ \E e \in Endpoints : ReaderStep(e) \/ KeepAliveStep(e)
    BY <1>3, QuietEvaluation DEF RouterStep, HandshakeStep, AlarmStep, ReaderStep, KeepAliveStep
  <1>4. CASE Environment
    BY <1>4, QuietEvaluation, HandlerEvaluation DEF Environment
  <1> QED
    BY <1>1, <1>2, <1>3, <1>4 DEF Next

----------------------------------------------------------------------------
(* Channels *)

\* Jobs that are posted leave the others where they are.
LEMMA PostsKeep ==
  ASSUME TypeOK,
         \/ pcp_queue' = pcp_queue
         \/ \E j \in JobsOf(PcpOperations) : pcp_queue' = Append(pcp_queue, j)
  PROVE  \A i \in DOMAIN pcp_queue : i \in DOMAIN pcp_queue' /\ pcp_queue'[i] = pcp_queue[i]
  <1>1. pcp_queue \in Seq(JobsOf(PcpOperations))
    BY DEF TypeOK
  <1> QED
    BY <1>1, PostedJobs

\* Everything but the manager thread.
LEMMA ChannelsKept ==
  ASSUME ChannelAll, em' = em, channel' = channel, endpoints' = endpoints, connections' \subseteq connections,
         \A f \in Agreeing' : f \in Agreeing /\ pending'[f].chan = pending[f].chan
                              /\ (f \in DisconnectJobs => f \in DisconnectJobs')
  PROVE  ChannelAll'
  <1> SUFFICES ASSUME NEW f \in Endpoints PROVE ChannelInv(f)'
    BY DEF ChannelAll
  <1>1. ChannelInv(f)
    BY DEF ChannelAll
  <1> QED
    BY <1>1 DEF ChannelInv

\* The steps outside the two threads keep the channels' invariant.
LEMMA QuietChannels ==
  ASSUME TypeOK, ChannelAll, EvaluationInv,
         \/ \E e \in Endpoints :
              \/ CallRequestConnection(e) \/ RequestRefused(e)
              \/ \E answer \in LocalAnswers : CallRespond(e, answer)
              \/ CallDisconnect(e) \/ StopNext(e)
              \/ ReaderExits(e) \/ KeepAliveExits(e)
              \/ \E answer \in RemoteAnswers : ReadResponse(e, answer)
         \/ CallStopAll \/ StopPhase \/ \E c \in open : ChannelBreaks(c)
         \/ \E h \in handshakes : HandshakeEnds(h[1], h[2], h[3])
         \/ \E a \in alarms : AlarmFires(a[1], a[2])
  PROVE  ChannelAll'
  <1>1. pending' = pending /\ pcp' = pcp /\ em' = em /\ channel' = channel /\ endpoints' = endpoints
    BY DEF CallRequestConnection, RequestRefused, CallRespond, CallDisconnect, StopNext, CallStopAll,
       StopPhase, ChannelBreaks, HandshakeEnds, AlarmFires, ReaderExits, KeepAliveExits, ReadResponse,
       handlerVars, managerVars
  <1>2. connections' \subseteq connections
    BY QuietEvaluation DEF Shrinks
  <1>3. pcp_queue' = pcp_queue \/ \E j \in JobsOf(PcpOperations) : pcp_queue' = Append(pcp_queue, j)
    <2>1. CASE CallStopAll \/ StopPhase \/ \E c \in open : ChannelBreaks(c)
      BY <2>1 DEF CallStopAll, StopPhase, ChannelBreaks, handlerVars
    <2>2. CASE \E e \in Endpoints :
                  \/ CallRequestConnection(e) \/ RequestRefused(e)
                  \/ \E answer \in LocalAnswers : CallRespond(e, answer)
                  \/ CallDisconnect(e) \/ StopNext(e)
      BY <2>2, CallsPost DEF PostsPcp
    <2>3. CASE \E e \in Endpoints : ReaderExits(e) \/ KeepAliveExits(e) \/ \E answer \in RemoteAnswers : ReadResponse(e, answer)
      BY <2>3, WorkersPost
    <2>4. ASSUME NEW h \in handshakes, HandshakeEnds(h[1], h[2], h[3])
          PROVE  \E j \in JobsOf(PcpOperations) : pcp_queue' = Append(pcp_queue, j)
      <3>1. h[1] \in Endpoints /\ h[2] \in ChannelOrNone
        BY DEF TypeOK, ChannelOrNone
      <3>2. \A op \in {"encrypted", "incoming_failed", "outgoing_failed"} : Job(op, h[1], h[2]) \in JobsOf(PcpOperations)
        BY <3>1, JobType DEF PcpOperations
      <3> QED
        BY <2>4, <3>2 DEF HandshakeEnds
    <2>5. CASE \E a \in alarms : AlarmFires(a[1], a[2])
      BY <2>5 DEF AlarmFires
    <2> QED
      BY <2>1, <2>2, <2>3, <2>4, <2>5
  <1>4. \A f \in DisconnectJobs : f \in DisconnectJobs'
    BY <1>1, <1>3, PostsKeep DEF DisconnectJobs
  <1>5. Agreeing' = Agreeing
    BY <1>1, PcpSame
  <1> QED
    BY <1>1, <1>2, <1>4, <1>5, ChannelsKept

\* How the PCP thread changes what is pending.
LEMMA HandlerPending ==
  ASSUME TypeOK, RegistrationInv, NEW e \in Endpoints,
         \/ RunRequest(e) \/ IncomingConnection(e) \/ \E goes_on \in BOOLEAN : IncomingTie(e, goes_on)
         \/ RunEncrypted(e) \/ RegisterProcessor(e) \/ RegistrationDone(e)
         \/ \E op \in {"incoming_failed", "outgoing_failed"} : RunEncryptionFailed(op, e)
         \/ \E answer \in LocalAnswers : RunRespond(answer, e)
         \/ \E answer \in RemoteAnswers : RunFrame(answer, e)
         \/ RecordAnswer(e) \/ RunEndpointDisconnect(e)
         \/ EvaluateConnectionResult(e) \/ DecideResult(e) \/ DeliverResult(e)
  PROVE  /\ \A f \in Endpoints : ~BeingRegistered(f)
         /\ \A f \in Endpoints : f # e => pending'[f] = pending[f]
         /\ \/ pending'[e] = pending[e]
            \/ pending'[e] = NoPending
            \/ pending'[e].keys = None
            \/ RegisterProcessor(e) /\ BeingRegistered(e)' /\ pending'[e].chan = pending[e].chan
         /\ RunEndpointDisconnect(e) => pending'[e] = NoPending
  <1>1. \A f \in Endpoints : ~BeingRegistered(f)
    BY PcpShape DEF RunRequest, IncomingConnection, IncomingTie, RunEncrypted, RegisterProcessor, RegistrationDone,
       RunEncryptionFailed, RunRespond, RunFrame, RecordAnswer, RunEndpointDisconnect,
       EvaluateConnectionResult, DecideResult, DeliverResult, Takes, BeingRegistered
  <1>2. CASE RegisterProcessor(e)
    <2>1. pcp # Idle /\ pcp.e = e /\ pcp' = [pcp EXCEPT !.at = "registering"]
      BY <1>2, PcpShape DEF RegisterProcessor
    <2>2. BeingRegistered(e)'
      BY <2>1 DEF BeingRegistered, TypeOK, RunsOf
    <2> QED
      BY <1>1, <1>2, <2>2 DEF RegisterProcessor, TypeOK, RunEndpointDisconnect, Takes, RegistrationInv
  <1>3. ASSUME NEW incoming \in BOOLEAN, NEW still, Attempt(e, incoming, still)
        PROVE  pending'[e].keys = None /\ \A f \in Endpoints : f # e => pending'[f] = pending[f]
    BY <1>3 DEF Attempt, TypeOK
  <1>4. CASE RunEndpointDisconnect(e)
    BY <1>1, <1>4 DEF RunEndpointDisconnect, ResultFailure, TypeOK
  <1>5. CASE ~RegisterProcessor(e) /\ ~RunEndpointDisconnect(e)
    <2>1. \/ pending' = pending
          \/ pending' = [pending EXCEPT ![e] = NoPending]
          \/ \E incoming \in BOOLEAN, still \in {open, OpenAfterDestroyed(e)} : Attempt(e, incoming, still)
      BY <1>5 DEF RunRequest, IncomingConnection, IncomingTie, RunEncrypted, RegistrationDone,
         RunEncryptionFailed, RunRespond, RunFrame, RecordAnswer,
         EvaluateConnectionResult, DecideResult, DeliverResult, ResultFailure
    <2> QED
      BY <1>1, <1>3, <1>5, <2>1 DEF TypeOK
  <1> QED
    BY <1>2, <1>4, <1>5

\* The PCP thread removes connections, and of its own endpoint only.
LEMMA HandlerConnections ==
  ASSUME TypeOK, NEW e \in Endpoints,
         \/ RunRequest(e) \/ IncomingConnection(e) \/ \E goes_on \in BOOLEAN : IncomingTie(e, goes_on)
         \/ RunEncrypted(e) \/ RegisterProcessor(e) \/ RegistrationDone(e)
         \/ \E op \in {"incoming_failed", "outgoing_failed"} : RunEncryptionFailed(op, e)
         \/ \E answer \in LocalAnswers : RunRespond(answer, e)
         \/ \E answer \in RemoteAnswers : RunFrame(answer, e)
         \/ RecordAnswer(e) \/ RunEndpointDisconnect(e)
         \/ EvaluateConnectionResult(e) \/ DecideResult(e) \/ DeliverResult(e)
  PROVE  /\ connections' \subseteq connections
         /\ \A f \in Endpoints : f # e => status'[f] = status[f] /\ (f \in connections' <=> f \in connections)
  <1>1. \/ UNCHANGED proxyVars \/ OnConnectionRejected(e) \/ OnConnectionAccepted(e)
        \/ \E side, answer : EndpointResponded(e, side, answer)
    BY DEF RunRequest, IncomingConnection, IncomingTie, RunEncrypted, RegisterProcessor, RegistrationDone,
       RunEncryptionFailed, RunRespond, RunFrame, RecordAnswer, RunEndpointDisconnect,
       EvaluateConnectionResult, DecideResult, DeliverResult, ResultFailure
  <1>2. CASE UNCHANGED proxyVars
    BY <1>2 DEF proxyVars
  <1>3. CASE OnConnectionRejected(e)
    BY <1>2, <1>3 DEF OnConnectionRejected, Removed, TypeOK, ProxyTypeOK
  <1>4. CASE OnConnectionAccepted(e)
    BY <1>2, <1>4 DEF OnConnectionAccepted, TypeOK, ProxyTypeOK
  <1>5. CASE \E side, answer : EndpointResponded(e, side, answer)
    BY <1>5 DEF EndpointResponded, TypeOK, ProxyTypeOK
  <1> QED
    BY <1>1, <1>2, <1>3, <1>4, <1>5

\* Its steps keep the channels' invariant,
LEMMA HandlerChannels ==
  ASSUME TypeOK, RegistrationInv, ChannelAll, NEW e \in Endpoints,
         \/ RunRequest(e) \/ IncomingConnection(e) \/ \E goes_on \in BOOLEAN : IncomingTie(e, goes_on)
         \/ RunEncrypted(e) \/ RegisterProcessor(e) \/ RegistrationDone(e)
         \/ \E op \in {"incoming_failed", "outgoing_failed"} : RunEncryptionFailed(op, e)
         \/ \E answer \in LocalAnswers : RunRespond(answer, e)
         \/ \E answer \in RemoteAnswers : RunFrame(answer, e)
         \/ RecordAnswer(e) \/ RunEndpointDisconnect(e)
         \/ EvaluateConnectionResult(e) \/ DecideResult(e) \/ DeliverResult(e)
  PROVE  ChannelAll'
  <1>1. em' = em /\ channel' = channel /\ endpoints' = endpoints
    BY DEF RunRequest, IncomingConnection, IncomingTie, RunEncrypted, RegisterProcessor, RegistrationDone,
       RunEncryptionFailed, RunRespond, RunFrame, RecordAnswer, RunEndpointDisconnect,
       EvaluateConnectionResult, DecideResult, DeliverResult, managerVars
  <1>2. connections' \subseteq connections
    BY HandlerConnections
  <1>3. /\ \A f \in Endpoints : ~BeingRegistered(f)
        /\ \A f \in Endpoints : f # e => pending'[f] = pending[f]
        /\ \/ pending'[e] = pending[e]
           \/ pending'[e] = NoPending
           \/ pending'[e].keys = None
           \/ RegisterProcessor(e) /\ BeingRegistered(e)' /\ pending'[e].chan = pending[e].chan
        /\ RunEndpointDisconnect(e) => pending'[e] = NoPending
    BY HandlerPending
  <1>4. \A f \in Agreeing' : f \in Agreeing /\ pending'[f].chan = pending[f].chan
    BY <1>3 DEF Agreeing, IsPending, Registered
  <1>5. \A f \in Agreeing' : f \in DisconnectJobs => f \in DisconnectJobs'
    <2>1. CASE RunEndpointDisconnect(e)
      <3>1. pcp_queue # <<>> /\ pcp_queue' = Tail(pcp_queue) /\ Head(pcp_queue).e = e
        BY <2>1 DEF RunEndpointDisconnect, Takes
      <3>2. \A i \in DOMAIN pcp_queue : pcp_queue[i] = Head(pcp_queue)
              \/ (i - 1 \in DOMAIN Tail(pcp_queue) /\ Tail(pcp_queue)[i - 1] = pcp_queue[i])
        BY <3>1, TakenJobs DEF TypeOK
      <3>3. e \notin Agreeing'
        BY <1>3, <2>1 DEF Agreeing, IsPending
      <3>4. \A f \in Endpoints : f # e /\ f \in DisconnectJobs => f \in DisconnectJobs'
        BY <1>1, <3>1, <3>2 DEF DisconnectJobs
      <3> QED
        BY <3>3, <3>4 DEF Agreeing
    <2>2. CASE pcp_queue' = pcp_queue
      BY <1>1, <2>2, DisconnectsSame
    <2>3. ASSUME NEW op, op # "disconnect", Takes(op, e)
          PROVE  DisconnectJobs' = DisconnectJobs
      BY <1>1, <2>3, TakesSame
    <2>4. RunEndpointDisconnect(e) \/ pcp_queue' = pcp_queue
            \/ \E op \in PcpOperations \ {"disconnect"} : Takes(op, e)
      BY DEF RunRequest, IncomingConnection, IncomingTie, RunEncrypted, RegisterProcessor, RegistrationDone,
         RunEncryptionFailed, RunRespond, RunFrame, RecordAnswer,
         EvaluateConnectionResult, DecideResult, DeliverResult, PcpOperations, LocalAnswers, RemoteAnswers
    <2> QED
      BY <2>1, <2>2, <2>3, <2>4
  <1> QED
    BY <1>1, <1>2, <1>4, <1>5, ChannelsKept

\* and so do those of the manager thread, which changes the tables.
LEMMA ManagerChannels ==
  ASSUME TypeOK, P!Inv, RegistrationInv, ChannelAll, NEW e \in Endpoints,
         \/ TakeRegister(e) \/ RegisterEndpoint(e) \/ TakeRemove(e) \/ RemoveChannel(e)
         \/ NotifyProcessors(e) \/ BarrierOpens(e) \/ Disconnect(e) \/ RemoveEndpointState(e)
  PROVE  ChannelAll'
  <1> SUFFICES ASSUME NEW f \in Endpoints PROVE ChannelInv(f)'
    BY DEF ChannelAll
  <1>0. ChannelInv(f) /\ pending' = pending /\ Idle.at = "idle"
    BY DEF ChannelAll, TakeRegister, RegisterEndpoint, TakeRemove, RemoveChannel, NotifyProcessors, BarrierOpens,
       Disconnect, RemoveEndpointState, handlerVars, Idle
  <1>1. ASSUME pcp' = pcp
        PROVE  Agreeing' = Agreeing
    BY <1>0, <1>1, PcpSame
  <1>2. channel \in [Endpoints -> ChannelOrNone] /\ endpoints \in [Endpoints -> ChannelOrNone]
    BY DEF TypeOK
  <1>3. ASSUME em.at # "notify", pcp_queue' = pcp_queue
        PROVE  f \in DisconnectJobs => f \in DisconnectJobs'
    BY <1>3 DEF DisconnectJobs
  <1>4. CASE TakeRegister(e)
    <2>1. em.at = "idle" /\ em'.at = "register" /\ UNCHANGED <<pcp, pcp_queue, connections, endpoints>>
      <3>1. em' = Running(Head(em_queue), "register") /\ em = Idle
        BY <1>4 DEF TakeRegister
      <3> QED
        BY <1>0, <1>4, <3>1 DEF TakeRegister, handlerVars, proxyVars, Running
    <2>2. BeingRegistered(e)
      <3>1. 1 \in DOMAIN em_queue /\ Head(em_queue) = em_queue[1]
        BY <1>4, Taken DEF TakeRegister, TypeOK
      <3> QED
        BY <1>4, <3>1 DEF TakeRegister, RegistrationInv
    <2>3. e \notin connections /\ e \notin Agreeing
      <3>1. e \in Handshaking
        BY <2>2 DEF Handshaking, BeingRegistered, RegistrationInv
      <3> QED
        BY <2>2, <3>1, ProxyInv DEF ProxyFacts, Agreeing
    <2>4. channel' \in {channel, [channel EXCEPT ![e] = None]}
      BY <1>4 DEF TakeRegister, UnregisterChannel
    <2>5. f # e => channel'[f] = channel[f]
      BY <1>2, <2>4
    <2>6. channel'[f] # None => channel'[f] = channel[f]
      BY <1>2, <2>4
    <2>7. (f \in DisconnectJobs => f \in DisconnectJobs') /\ Agreeing' = Agreeing
      BY <1>1, <1>3, <2>1
    <2> QED
      BY <1>0, <2>1, <2>3, <2>5, <2>6, <2>7 DEF ChannelInv
  <1>5. CASE RegisterEndpoint(e)
    <2>1. em.at = "register" /\ em.e = e /\ em'.at = "idle" /\ pcp_queue' = pcp_queue
      BY <1>0, <1>5 DEF RegisterEndpoint
    <2>2. em.c = pending[e].chan /\ BeingRegistered(e)
      BY <2>1 DEF RegistrationInv
    <2>3. pending[e].chan # None
      BY <2>2 DEF RegistrationInv, BeingRegistered
    <2>4. /\ channel' = [channel EXCEPT ![e] = em.c] /\ endpoints' = [endpoints EXCEPT ![e] = em.c]
          /\ connections' = connections \cup {e}
      BY <1>5 DEF RegisterEndpoint, OnConnectionInitiated
    <2>5. CASE f = e
      <3>1. channel'[f] = pending[f].chan /\ endpoints'[f] = pending[f].chan
        BY <1>2, <2>2, <2>4, <2>5
      <3> QED
        BY <1>0, <2>1, <2>3, <2>5, <3>1 DEF ChannelInv
    <2>6. CASE f # e
      <3>1. channel'[f] = channel[f] /\ endpoints'[f] = endpoints[f] /\ (f \in connections' <=> f \in connections)
        BY <1>2, <2>4, <2>6
      <3>2. f \in Agreeing' => f \in Agreeing
        BY <1>0, <2>2, <2>6 DEF Agreeing, IsPending, Registered, BeingRegistered
      <3>3. f \in DisconnectJobs => f \in DisconnectJobs'
        BY <1>3, <2>1
      <3> QED
        BY <1>0, <2>1, <3>1, <3>2, <3>3 DEF ChannelInv
    <2> QED
      BY <2>5, <2>6
  <1>6. CASE TakeRemove(e)
    <2>1. em.at = "idle" /\ em'.at = "remove" /\ UNCHANGED <<pcp, pcp_queue, connections, endpoints, channel>>
      <3>1. em' = [Running(Head(em_queue), "remove") EXCEPT !.notify = IsConnectedToEndpoint(e)] /\ em = Idle
        BY <1>6 DEF TakeRemove
      <3> QED
        BY <1>0, <1>6, <3>1 DEF TakeRemove, handlerVars, proxyVars, Running
    <2>2. (f \in DisconnectJobs => f \in DisconnectJobs') /\ Agreeing' = Agreeing
      BY <1>1, <1>3, <2>1
    <2> QED
      BY <1>0, <2>1, <2>2 DEF ChannelInv
  <1>7. CASE RemoveChannel(e)
    <2>1. /\ em.at = "remove" /\ em.e = e /\ em # Idle /\ channel' = [channel EXCEPT ![e] = None]
          /\ UNCHANGED <<pcp, pcp_queue, connections, endpoints>>
      BY <1>7, EmShape DEF RemoveChannel, UnregisterChannel, handlerVars, proxyVars
    <2>2. em'.at = (IF channel[e] = None THEN "join" ELSE "notify") /\ em'.e = e
      <3>1. CASE channel[e] = None
        BY <1>7, <2>1, <3>1 DEF RemoveChannel, TypeOK, RunsOf
      <3>2. CASE channel[e] # None
        BY <1>7, <2>1, <3>2 DEF RemoveChannel, TypeOK, RunsOf
      <3> QED
        BY <3>1, <3>2
    <2>3. (f \in DisconnectJobs => f \in DisconnectJobs') /\ Agreeing' = Agreeing
      BY <1>1, <1>3, <2>1
    <2>4. CASE f = e
      <3>1. channel'[f] = None
        BY <1>2, <2>1, <2>4
      <3>2. em'.at = "notify" => f \in DisconnectJobs'
        BY <2>2, <2>4 DEF DisconnectJobs
      <3> QED
        BY <1>0, <2>1, <2>2, <2>3, <2>4, <3>1, <3>2 DEF ChannelInv
    <2>5. CASE f # e
      <3>1. channel'[f] = channel[f]
        BY <1>2, <2>1, <2>5
      <3> QED
        BY <1>0, <2>1, <2>2, <2>3, <2>5, <3>1 DEF ChannelInv
    <2> QED
      BY <2>4, <2>5
  <1>8. CASE NotifyProcessors(e)
    <2>1. em.at = "notify" /\ em.e = e /\ em # Idle /\ UNCHANGED <<pcp, channel, connections, endpoints>>
      BY <1>8, EmShape DEF NotifyProcessors, proxyVars
    <2>2. em'.at = "barrier" /\ em'.e = e
      BY <1>8, <2>1 DEF NotifyProcessors, TypeOK, RunsOf
    <2>3. f \in DisconnectJobs => f \in DisconnectJobs'
      <3>1. Job("disconnect", e, em.c) \in JobsOf(PcpOperations) /\ pcp_queue \in Seq(JobsOf(PcpOperations))
        BY JobType, EmShape DEF PcpOperations, TypeOK
      <3>2. pcp_queue' = Append(pcp_queue, Job("disconnect", e, em.c))
        BY <1>8 DEF NotifyProcessors
      <3>3. /\ \A i \in DOMAIN pcp_queue : i \in DOMAIN pcp_queue' /\ pcp_queue'[i] = pcp_queue[i]
            /\ \E i \in DOMAIN pcp_queue' : pcp_queue'[i] = Job("disconnect", e, em.c)
        BY <3>1, <3>2, PostedJobs
      <3> QED
        BY <2>1, <3>3, JobFields DEF DisconnectJobs
    <2> QED
      BY <1>0, <1>1, <2>1, <2>2, <2>3 DEF ChannelInv
  <1>9. CASE BarrierOpens(e)
    <2>1. em.at = "barrier" /\ em.e = e /\ em # Idle /\ UNCHANGED <<pcp, pcp_queue, channel, connections, endpoints>>
      BY <1>9, EmShape DEF BarrierOpens, handlerVars, proxyVars
    <2>2. em'.at = "disconnect" /\ em'.e = e
      BY <1>9, <2>1 DEF BarrierOpens, TypeOK, RunsOf
    <2> QED
      BY <1>0, <1>1, <1>3, <2>1, <2>2 DEF ChannelInv
  <1>10. CASE Disconnect(e)
    <2>1. em.at = "disconnect" /\ em.e = e /\ em # Idle /\ UNCHANGED <<pcp, pcp_queue, channel, endpoints>>
          /\ connections' = connections \ {e}
      BY <1>10, EmShape DEF Disconnect, handlerVars, OnDisconnected, Removed
    <2>2. em'.at = "join" /\ em'.e = e
      BY <1>10, <2>1 DEF Disconnect, TypeOK, RunsOf
    <2> QED
      BY <1>0, <1>1, <1>3, <2>1, <2>2 DEF ChannelInv
  <1>11. CASE RemoveEndpointState(e)
    <2>1. em.at = "join" /\ em.e = e /\ em' = Idle /\ endpoints' = [endpoints EXCEPT ![e] = None]
          /\ UNCHANGED <<pcp, pcp_queue, channel, connections>>
      BY <1>11 DEF RemoveEndpointState, handlerVars, proxyVars
    <2>2. endpoints'[f] = IF f = e THEN None ELSE endpoints[f]
      BY <1>2, <2>1
    <2> QED
      BY <1>0, <1>1, <1>3, <2>1, <2>2 DEF ChannelInv
  <1> QED
    BY <1>4, <1>5, <1>6, <1>7, <1>8, <1>9, <1>10, <1>11

\* Every step keeps the channels' invariant.
LEMMA StepChannels ==
  ASSUME TypeOK, P!Inv, RegistrationInv, EvaluationInv, ChannelAll, Next
  PROVE  ChannelAll'
  <1>1. CASE PcpStep
    BY <1>1, HandlerChannels DEF PcpStep
  <1>2. CASE ManagerStep
    BY <1>2, ManagerChannels DEF ManagerStep
  <1>3. CASE RouterStep \/ HandshakeStep \/ AlarmStep \/ \E e \in Endpoints : ReaderStep(e) \/ KeepAliveStep(e)
    BY <1>3, QuietChannels DEF RouterStep, HandshakeStep, AlarmStep, ReaderStep, KeepAliveStep
  <1>4. CASE Environment
    BY <1>4, QuietChannels, HandlerChannels DEF Environment
  <1> QED
    BY <1>1, <1>2, <1>3, <1>4 DEF Next

----------------------------------------------------------------------------
(* Readers *)

\* The answers of f's peer that wait for the PCP thread.
IsAnswer(j, f) == j.op \in RemoteAnswers /\ j.e = f
\* At most one answer of f's peer waits, none waits, one is being handled.
OneAnswer(f) == \A i, j \in DOMAIN pcp_queue : IsAnswer(pcp_queue[i], f) /\ IsAnswer(pcp_queue[j], f) => i = j
NoAnswer(f) == \A i \in DOMAIN pcp_queue : ~IsAnswer(pcp_queue[i], f)
Handled(f) == Runs(f) /\ pcp.op \in RemoteAnswers

\* The step leaves the answers of f's peer that wait where they are.
AnswersWait(f) ==
  /\ \A i \in DOMAIN pcp_queue' : IsAnswer(pcp_queue'[i], f) => \E k \in DOMAIN pcp_queue : pcp_queue[k] = pcp_queue'[i]
  /\ \A i \in DOMAIN pcp_queue : IsAnswer(pcp_queue[i], f) => \E k \in DOMAIN pcp_queue' : pcp_queue'[k] = pcp_queue[i]
  /\ OneAnswer(f) => OneAnswer(f)'

\* A step that posts or takes another job leaves them.
LEMMA AnswersStay ==
  ASSUME TypeOK, NEW f,
         \/ pcp_queue' = pcp_queue
         \/ \E j \in JobsOf(PcpOperations) : pcp_queue' = Append(pcp_queue, j) /\ ~IsAnswer(j, f)
         \/ pcp_queue # <<>> /\ pcp_queue' = Tail(pcp_queue) /\ ~IsAnswer(Head(pcp_queue), f)
  PROVE  AnswersWait(f)
  <1>1. pcp_queue \in Seq(JobsOf(PcpOperations))
    BY DEF TypeOK
  <1>2. CASE pcp_queue' = pcp_queue
    BY <1>2 DEF AnswersWait, OneAnswer
  <1>3. ASSUME NEW j \in JobsOf(PcpOperations), pcp_queue' = Append(pcp_queue, j), ~IsAnswer(j, f)
        PROVE  AnswersWait(f)
    <2>1. /\ \A i \in DOMAIN pcp_queue : i \in DOMAIN pcp_queue' /\ pcp_queue'[i] = pcp_queue[i]
          /\ \A i \in DOMAIN pcp_queue' : pcp_queue'[i] = j \/ (i \in DOMAIN pcp_queue /\ pcp_queue'[i] = pcp_queue[i])
      BY <1>1, <1>3, PostedJobs
    <2>2. \A i \in DOMAIN pcp_queue' : IsAnswer(pcp_queue'[i], f) => i \in DOMAIN pcp_queue /\ pcp_queue'[i] = pcp_queue[i]
      BY <1>3, <2>1
    <2> QED
      BY <2>1, <2>2 DEF AnswersWait, OneAnswer
  <1>4. CASE pcp_queue # <<>> /\ pcp_queue' = Tail(pcp_queue) /\ ~IsAnswer(Head(pcp_queue), f)
    <2>1. /\ \A i \in DOMAIN pcp_queue' : i + 1 \in DOMAIN pcp_queue /\ pcp_queue'[i] = pcp_queue[i + 1]
          /\ \A i \in DOMAIN pcp_queue : pcp_queue[i] = Head(pcp_queue)
               \/ (i - 1 \in DOMAIN pcp_queue' /\ pcp_queue'[i - 1] = pcp_queue[i])
      BY <1>1, <1>4, TakenJobs
    <2>2. DOMAIN pcp_queue' \subseteq Nat
      BY <1>1, <1>4, Taken
    <2>3. OneAnswer(f) => OneAnswer(f)'
      <3> SUFFICES ASSUME OneAnswer(f), NEW i \in DOMAIN pcp_queue', NEW j \in DOMAIN pcp_queue',
                          IsAnswer(pcp_queue'[i], f), IsAnswer(pcp_queue'[j], f)
                   PROVE  i = j
        BY DEF OneAnswer
      <3>1. i + 1 = j + 1
        BY <2>1 DEF OneAnswer
      <3> QED
        BY <2>2, <3>1
    <2>4. \A i \in DOMAIN pcp_queue : IsAnswer(pcp_queue[i], f) => i - 1 \in DOMAIN pcp_queue' /\ pcp_queue'[i - 1] = pcp_queue[i]
      BY <1>4, <2>1
    <2> QED
      BY <2>1, <2>3, <2>4 DEF AnswersWait
  <1> QED
    BY <1>2, <1>3, <1>4

\* The parts of ReaderInv.
ReaderTable(f) == (reader[f] = "none" <=> endpoints[f] = None) /\ reader[f] # "running"
\* The peer has answered as often as it may; the reader is handling exactly while its
\* answer waits or is run; the answer is of the channel the reader serves; a reader
\* that is done has asked for the removal.
ReaderCount(f) ==
  Answered(f) \/ reader[f] = "handling" => endpoints[f] # None /\ responses[endpoints[f]] = MaxResponses
ReaderHands(f) == reader[f] = "handling" <=> ~NoAnswer(f) \/ Handled(f)
ReaderJobs(f) ==
  /\ OneAnswer(f)
  /\ \A i \in DOMAIN pcp_queue : IsAnswer(pcp_queue[i], f) => ~Answered(f) /\ pcp_queue[i].c = endpoints[f] /\ ~Handled(f)
ReaderRecords(f) ==
  pcp.at = "record" /\ pcp.op \in RemoteAnswers /\ pcp.e = f => ~Answered(f) /\ pcp.c = endpoints[f]
Removes(f) ==
  \/ \E i \in DOMAIN em_queue : em_queue[i].op # "register" /\ em_queue[i].e = f
  \/ em # Idle /\ em.e = f
ReaderOver(f) == reader[f] = "done" => Removes(f)

\* These are the parts of ReaderInv,
LEMMA ReaderParts ==
  ASSUME NEW f
  PROVE  ReaderInv(f) <=> ReaderTable(f) /\ ReaderCount(f) /\ ReaderHands(f) /\ ReaderJobs(f) /\ ReaderRecords(f)
                          /\ ReaderOver(f)
  <1>1. Queued(RemoteAnswers, f) <=> ~NoAnswer(f)
    BY DEF Queued, NoAnswer, IsAnswer
  <1>2. /\ ReaderTable(f) <=> (reader[f] = "none" <=> endpoints[f] = None) /\ reader[f] # "running"
        /\ ReaderOver(f) <=> (reader[f] = "done" =>
             \/ \E i \in DOMAIN em_queue : em_queue[i].op # "register" /\ em_queue[i].e = f
             \/ em # Idle /\ em.e = f)
    BY Zenon DEF ReaderTable, ReaderOver, Removes
  <1>3. ReaderHands(f) <=> (reader[f] = "handling" <=> Queued(RemoteAnswers, f) \/ (Runs(f) /\ pcp.op \in RemoteAnswers))
    BY <1>1, Zenon DEF ReaderHands, Handled
  <1>4. ReaderJobs(f) <=>
          \A i \in DOMAIN pcp_queue : pcp_queue[i].op \in RemoteAnswers /\ pcp_queue[i].e = f =>
             /\ ~Answered(f)
             /\ pcp_queue[i].c = endpoints[f]
             /\ ~(Runs(f) /\ pcp.op \in RemoteAnswers)
             /\ \A j \in DOMAIN pcp_queue :
                  pcp_queue[j].op \in RemoteAnswers /\ pcp_queue[j].e = f => i = j
    BY Zenon DEF ReaderJobs, OneAnswer, IsAnswer, Handled
  <1> QED
    BY <1>2, <1>3, <1>4, Zenon DEF ReaderInv, ReaderCount, ReaderRecords

\* after a step too.
LEMMA ReaderFromParts ==
  ASSUME NEW f, ReaderTable(f)', ReaderCount(f)', ReaderHands(f)', ReaderJobs(f)', ReaderRecords(f)', ReaderOver(f)'
  PROVE  ReaderInv(f)'
  <1>1. Queued(RemoteAnswers, f)' <=> ~NoAnswer(f)'
    BY DEF Queued, NoAnswer, IsAnswer
  <1>2. /\ (reader'[f] = "none" <=> endpoints'[f] = None) /\ reader'[f] # "running"
        /\ (reader'[f] = "done" =>
             \/ \E i \in DOMAIN em_queue' : em_queue'[i].op # "register" /\ em_queue'[i].e = f
             \/ em' # Idle /\ em'.e = f)
    BY Zenon DEF ReaderTable, ReaderOver, Removes, Idle
  <1>3. reader'[f] = "handling" <=> Queued(RemoteAnswers, f)' \/ (Runs(f) /\ pcp.op \in RemoteAnswers)'
    BY <1>1, Zenon DEF ReaderHands, Handled
  <1>4. \A i \in DOMAIN pcp_queue' : pcp_queue'[i].op \in RemoteAnswers /\ pcp_queue'[i].e = f =>
             /\ ~Answered(f)'
             /\ pcp_queue'[i].c = endpoints'[f]
             /\ ~(Runs(f) /\ pcp.op \in RemoteAnswers)'
             /\ \A j \in DOMAIN pcp_queue' :
                  pcp_queue'[j].op \in RemoteAnswers /\ pcp_queue'[j].e = f => i = j
    BY Zenon DEF ReaderJobs, OneAnswer, IsAnswer, Handled
  <1> QED
    BY <1>2, <1>3, <1>4, Zenon DEF ReaderInv, ReaderCount, ReaderRecords, Idle

\* A step that f's reader does not notice.
LEMMA ReaderKept ==
  ASSUME NEW f \in Endpoints, ReaderInv(f), AnswersWait(f),
         reader'[f] = reader[f], endpoints'[f] = endpoints[f], Answered(f)' => Answered(f),
         endpoints[f] # None /\ responses[endpoints[f]] = MaxResponses => responses'[endpoints[f]] = MaxResponses,
         Handled(f)' <=> Handled(f),
         (pcp.at = "record" /\ pcp.op \in RemoteAnswers /\ pcp.e = f)' =>
            pcp.at = "record" /\ pcp.op \in RemoteAnswers /\ pcp.e = f /\ pcp'.c = pcp.c,
         reader[f] = "done" /\ Removes(f) => Removes(f)'
  PROVE  ReaderInv(f)'
  <1>1. ReaderTable(f) /\ ReaderCount(f) /\ ReaderHands(f) /\ ReaderJobs(f) /\ ReaderRecords(f) /\ ReaderOver(f)
    BY ReaderParts
  <1>2. ReaderTable(f)'
    BY <1>1 DEF ReaderTable
  <1>3. ReaderCount(f)'
    BY <1>1 DEF ReaderCount
  <1>4. ReaderHands(f)'
    <2>1. NoAnswer(f)' <=> NoAnswer(f)
      BY DEF NoAnswer, AnswersWait
    <2> QED
      BY <1>1, <2>1 DEF ReaderHands
  <1>5. ReaderJobs(f)'
    BY <1>1 DEF ReaderJobs, AnswersWait
  <1>6. ReaderRecords(f)'
    BY <1>1 DEF ReaderRecords
  <1>7. ReaderOver(f)'
    BY <1>1 DEF ReaderOver
  <1> QED
    BY <1>2, <1>3, <1>4, <1>5, <1>6, <1>7, ReaderFromParts

\* What waits for the manager thread still waits after a post.
LEMMA RemovesKept ==
  ASSUME TypeOK, NEW f, em' = em,
         em_queue' = em_queue \/ \E j \in JobsOf(ManagerOperations) : em_queue' = Append(em_queue, j)
  PROVE  Removes(f) => Removes(f)'
  <1>1. em_queue \in Seq(JobsOf(ManagerOperations))
    BY DEF TypeOK
  <1>2. \A i \in DOMAIN em_queue : i \in DOMAIN em_queue' /\ em_queue'[i] = em_queue[i]
    BY <1>1, PostedJobs
  <1> QED
    BY <1>2 DEF Removes, Idle

\* The calls that remove connections or concern the flags set no status bit,
LEMMA StatusShrinks ==
  ASSUME ProxyTypeOK, NEW f \in Endpoints,
         \/ UNCHANGED proxyVars \/ RemoveAllEndpoints
         \/ \E e \in Endpoints : AddCancellationFlag(e) \/ OnConnectionRejected(e)
              \/ \E n \in BOOLEAN : OnDisconnected(e, n)
         \/ \E es : CancelEndpoints(es)
  PROVE  status'[f] = status[f] \/ status'[f] = {}
  <1>1. CASE \E e \in Endpoints : \E t : Removed(e, t)
    BY <1>1 DEF Removed, ProxyTypeOK, kPending
  <1>2. CASE UNCHANGED <<connections, status>>
    BY <1>2
  <1>3. CASE RemoveAllEndpoints
    BY <1>3 DEF RemoveAllEndpoints, kPending
  <1> QED
    BY <1>1, <1>2, <1>3 DEF AddCancellationFlag, OnConnectionRejected, OnDisconnected, CancelEndpoints, proxyVars

\* and so record no answer.
LEMMA AnsweredBefore ==
  ASSUME NEW f, status'[f] = status[f] \/ status'[f] = {}
  PROVE  Answered(f)' => Answered(f)
  BY DEF Answered, RemoteAnswers

\* Steps that neither a reader nor the PCP thread takes.
LEMMA QuietReaders ==
  ASSUME TypeOK, ReaderAll,
         \/ \E e \in Endpoints :
              \/ CallRequestConnection(e) \/ RequestRefused(e)
              \/ \E answer \in LocalAnswers : CallRespond(e, answer)
              \/ CallDisconnect(e) \/ StopNext(e) \/ KeepAliveExits(e)
         \/ CallStopAll \/ StopPhase \/ \E c \in open : ChannelBreaks(c)
         \/ \E h \in handshakes : HandshakeEnds(h[1], h[2], h[3])
         \/ \E a \in alarms : AlarmFires(a[1], a[2])
  PROVE  ReaderAll'
  <1> SUFFICES ASSUME NEW f \in Endpoints PROVE ReaderInv(f)'
    BY DEF ReaderAll
  <1>1. pcp' = pcp /\ em' = em /\ reader' = reader /\ endpoints' = endpoints /\ responses' = responses
    BY DEF CallRequestConnection, RequestRefused, CallRespond, CallDisconnect, StopNext, CallStopAll,
       StopPhase, ChannelBreaks, HandshakeEnds, AlarmFires, KeepAliveExits, handlerVars, managerVars, wireVars
  <1>2. Answered(f)' => Answered(f)
    <2>1. \/ UNCHANGED proxyVars \/ RemoveAllEndpoints
          \/ \E e \in Endpoints : AddCancellationFlag(e)
          \/ \E es : CancelEndpoints(es)
      BY DEF CallRequestConnection, RequestRefused, CallRespond, CallDisconnect, StopNext, CallStopAll,
         StopPhase, ChannelBreaks, HandshakeEnds, AlarmFires, KeepAliveExits
    <2> QED
      BY <2>1, StatusShrinks, AnsweredBefore DEF TypeOK
  <1>3. \/ pcp_queue' = pcp_queue
        \/ \E j \in JobsOf(PcpOperations) : pcp_queue' = Append(pcp_queue, j) /\ j.op \notin RemoteAnswers
    <2>1. CASE \/ CallStopAll \/ StopPhase \/ \E c \in open : ChannelBreaks(c)
               \/ \E a \in alarms : AlarmFires(a[1], a[2])
               \/ \E e \in Endpoints : KeepAliveExits(e)
      BY <2>1 DEF CallStopAll, StopPhase, ChannelBreaks, AlarmFires, KeepAliveExits, handlerVars
    <2>2. CASE \E e \in Endpoints :
                  \/ CallRequestConnection(e) \/ RequestRefused(e)
                  \/ \E answer \in LocalAnswers : CallRespond(e, answer)
                  \/ CallDisconnect(e) \/ StopNext(e)
      <3>1. \A op \in CallJobs : op \notin RemoteAnswers
        BY DEF CallJobs, LocalAnswers, RemoteAnswers
      <3> QED
        BY <2>2, <3>1, CallsPost DEF PostsPcp
    <2>3. ASSUME NEW h \in handshakes, HandshakeEnds(h[1], h[2], h[3])
          PROVE  \E j \in JobsOf(PcpOperations) : pcp_queue' = Append(pcp_queue, j) /\ j.op \notin RemoteAnswers
      <3>1. PICK op \in {"encrypted", "incoming_failed", "outgoing_failed"} :
              pcp_queue' = Append(pcp_queue, Job(op, h[1], h[2]))
        BY <2>3 DEF HandshakeEnds
      <3>2. h[1] \in Endpoints /\ h[2] \in ChannelOrNone
        BY DEF TypeOK, ChannelOrNone
      <3>3. Job(op, h[1], h[2]) \in JobsOf(PcpOperations)
        BY <3>2, JobType DEF PcpOperations
      <3> QED
        BY <3>1, <3>3, JobFields DEF RemoteAnswers
    <2> QED
      BY <2>1, <2>2, <2>3
  <1>4. AnswersWait(f)
    BY <1>3, AnswersStay DEF IsAnswer
  <1>5. em_queue' = em_queue \/ \E j \in JobsOf(ManagerOperations) : em_queue' = Append(em_queue, j)
    <2>1. CASE \/ CallStopAll \/ StopPhase \/ \E c \in open : ChannelBreaks(c)
               \/ \E h \in handshakes : HandshakeEnds(h[1], h[2], h[3])
      BY <2>1 DEF CallStopAll, StopPhase, ChannelBreaks, HandshakeEnds, managerVars
    <2>2. CASE \E e \in Endpoints :
                  \/ CallRequestConnection(e) \/ RequestRefused(e)
                  \/ \E answer \in LocalAnswers : CallRespond(e, answer)
                  \/ CallDisconnect(e) \/ StopNext(e)
      BY <2>2, CallsPost DEF PostsManager
    <2>3. CASE (\E a \in alarms : AlarmFires(a[1], a[2])) \/ \E e \in Endpoints : KeepAliveExits(e)
      BY <2>3, WorkersPost DEF PostsManager
    <2> QED
      BY <2>1, <2>2, <2>3
  <1>6. Removes(f) => Removes(f)'
    BY <1>1, <1>5, RemovesKept
  <1>7. ReaderInv(f)
    BY DEF ReaderAll
  <1>8. Handled(f)' <=> Handled(f)
    BY <1>1 DEF Handled, Runs, Idle
  <1> QED
    BY <1>1, <1>2, <1>4, <1>6, <1>7, <1>8, ReaderKept

\* The peer answers, once: MaxResponses = 1 is what a peer that conforms does.
LEMMA ResponseReaders ==
  ASSUME TypeOK, ReaderAll, MaxResponses = 1, NEW e \in Endpoints, NEW answer \in RemoteAnswers,
         ReadResponse(e, answer)
  PROVE  ReaderAll'
  <1> SUFFICES ASSUME NEW f \in Endpoints PROVE ReaderInv(f)'
    BY DEF ReaderAll
  <1>1. /\ UNCHANGED <<proxyVars, pcp, em, em_queue, endpoints>> /\ reader[e] = "reading"
        /\ reader' = [reader EXCEPT ![e] = "handling"]
        /\ responses' = [responses EXCEPT ![endpoints[e]] = @ + 1]
        /\ responses[endpoints[e]] < MaxResponses /\ endpoints[e] \in open
        /\ pcp_queue' = Append(pcp_queue, Job(answer, e, endpoints[e]))
    BY DEF ReadResponse
  <1>2. /\ pcp_queue \in Seq(JobsOf(PcpOperations)) /\ Job(answer, e, endpoints[e]) \in JobsOf(PcpOperations)
        /\ endpoints[e] \in Channels /\ endpoints[e] # None /\ responses \in [Channels -> 0 .. 1]
        /\ reader \in [Endpoints -> Threads] /\ endpoints \in [Endpoints -> ChannelOrNone]
    <2>1. Job(answer, e, endpoints[e]) \in JobsOf(PcpOperations)
      BY JobType DEF PcpOperations, TypeOK
    <2>2. /\ pcp_queue \in Seq(JobsOf(PcpOperations)) /\ responses \in [Channels -> 0 .. 1]
          /\ reader \in [Endpoints -> Threads] /\ endpoints \in [Endpoints -> ChannelOrNone] /\ open \subseteq Channels
      BY DEF TypeOK
    <2>3. endpoints[e] # None
      BY <1>1, <2>2 DEF Channels, None
    <2> QED
      BY <1>1, <2>1, <2>2, <2>3
  <1>3. responses[endpoints[e]] = 0 /\ responses'[endpoints[e]] = 1
    BY <1>1, <1>2
  <1>4. ReaderInv(f) /\ ReaderInv(e)
    BY DEF ReaderAll
  <1>5. /\ ReaderTable(e) /\ ReaderCount(e) /\ ReaderHands(e) /\ ReaderJobs(e) /\ ReaderRecords(e)
    BY <1>4, ReaderParts
  <1>6. /\ \A g : Answered(g)' <=> Answered(g)
        /\ \A g : Handled(g)' <=> Handled(g)
        /\ \A g : Removes(g)' <=> Removes(g)
    <2>1. \A g : Answered(g)' <=> Answered(g)
      BY <1>1 DEF Answered, proxyVars
    <2>2. \A g : Handled(g)' <=> Handled(g)
      BY <1>1 DEF Handled, Runs, Idle
    <2>3. \A g : Removes(g)' <=> Removes(g)
      BY <1>1 DEF Removes, Idle
    <2> QED
      BY <2>1, <2>2, <2>3
  <1>7. CASE f # e
    <2>1. reader'[f] = reader[f]
      BY <1>1, <1>2, <1>7
    <2>2. AnswersWait(f)
      BY <1>1, <1>2, <1>7, AnswersStay, JobFields DEF IsAnswer
    <2>3. endpoints[f] # None /\ responses[endpoints[f]] = MaxResponses => responses'[endpoints[f]] = MaxResponses
      <3>1. CASE endpoints[f] = endpoints[e]
        BY <1>3, <3>1
      <3>2. CASE endpoints[f] # endpoints[e]
        BY <1>1, <1>2, <3>2 DEF ChannelOrNone
      <3> QED
        BY <3>1, <3>2
    <2> QED
      BY <1>1, <1>4, <1>6, <2>1, <2>2, <2>3, ReaderKept
  <1>8. CASE f = e
    <2>1. ~Answered(e) /\ NoAnswer(e) /\ ~Handled(e)
      BY <1>1, <1>2, <1>3, <1>5 DEF ReaderCount, ReaderHands
    <2>2. reader'[e] = "handling" /\ endpoints'[e] = endpoints[e]
      BY <1>1, <1>2
    <2>3. /\ \A i \in DOMAIN pcp_queue' : IsAnswer(pcp_queue'[i], e) =>
               i = Len(pcp_queue) + 1 /\ pcp_queue'[i] = Job(answer, e, endpoints[e])
          /\ Len(pcp_queue) + 1 \in DOMAIN pcp_queue' /\ pcp_queue'[Len(pcp_queue) + 1] = Job(answer, e, endpoints[e])
      BY <1>1, <1>2, <2>1, Posted DEF NoAnswer
    <2>4. ReaderTable(e)' /\ ReaderCount(e)' /\ ReaderOver(e)'
      BY <1>2, <1>3, <2>2 DEF ReaderTable, ReaderCount, ReaderOver
    <2>5. ReaderHands(e)'
      <3>1. IsAnswer(Job(answer, e, endpoints[e]), e)
        BY JobFields DEF IsAnswer
      <3>2. ~NoAnswer(e)'
        BY <2>3, <3>1 DEF NoAnswer
      <3> QED
        BY <2>2, <3>2 DEF ReaderHands
    <2>6. ReaderJobs(e)'
      <3>1. OneAnswer(e)'
        BY <2>3 DEF OneAnswer
      <3> QED
        BY <1>6, <2>1, <2>2, <2>3, <3>1, JobFields DEF ReaderJobs
    <2>7. ReaderRecords(e)'
      BY <1>1, <1>5, <1>6 DEF ReaderRecords
    <2> QED
      BY <1>8, <2>4, <2>5, <2>6, <2>7, ReaderFromParts
  <1> QED
    BY <1>7, <1>8

\* A reader that ends has posted the removal of its endpoint.
LEMMA ExitReaders ==
  ASSUME TypeOK, ReaderAll, NEW e \in Endpoints, ReaderExits(e)
  PROVE  ReaderAll'
  <1> SUFFICES ASSUME NEW f \in Endpoints PROVE ReaderInv(f)'
    BY DEF ReaderAll
  <1>1. /\ UNCHANGED <<proxyVars, pcp_queue, pcp, em, endpoints, responses>> /\ reader[e] = "reading"
        /\ reader' = [reader EXCEPT ![e] = "done"]
        /\ em_queue' = Append(em_queue, Job("discard", e, endpoints[e]))
    BY DEF ReaderExits, DiscardEndpoint, handlerVars, wireVars
  <1>2. /\ em_queue \in Seq(JobsOf(ManagerOperations))
        /\ Job("discard", e, endpoints[e]) \in JobsOf(ManagerOperations) /\ reader \in [Endpoints -> Threads]
    BY JobType DEF ManagerOperations, TypeOK
  <1>3. ReaderInv(f) /\ AnswersWait(f)
    BY <1>1, AnswersStay DEF ReaderAll
  <1>4. /\ Answered(f)' <=> Answered(f)
        /\ Handled(f)' <=> Handled(f)
    BY <1>1 DEF Answered, Handled, Runs, Idle, proxyVars
  <1>5. CASE f # e
    <2>1. reader'[f] = reader[f]
      BY <1>1, <1>2, <1>5
    <2>2. Removes(f) => Removes(f)'
      BY <1>1, <1>2, RemovesKept
    <2> QED
      BY <1>1, <1>3, <1>4, <2>1, <2>2, ReaderKept
  <1>6. CASE f = e
    <2>1. ReaderTable(e) /\ ReaderCount(e) /\ ReaderHands(e) /\ ReaderJobs(e) /\ ReaderRecords(e)
      BY <1>3, <1>6, ReaderParts
    <2>2. reader'[e] = "done"
      BY <1>1, <1>2
    <2>3. ReaderTable(e)' /\ ReaderCount(e)'
      BY <1>1, <1>4, <1>6, <2>1, <2>2 DEF ReaderTable, ReaderCount
    <2>4. ReaderHands(e)' /\ ReaderJobs(e)' /\ ReaderRecords(e)'
      BY <1>1, <1>4, <1>6, <2>1, <2>2 DEF ReaderHands, ReaderJobs, ReaderRecords, NoAnswer, OneAnswer
    <2>5. ReaderOver(e)'
      <3>1. \E i \in DOMAIN em_queue' : em_queue'[i] = Job("discard", e, endpoints[e])
        BY <1>1, <1>2, PostedJobs
      <3>2. Removes(e)'
        BY <3>1, JobFields DEF Removes
      <3> QED
        BY <3>2 DEF ReaderOver
    <2> QED
      BY <1>6, <2>3, <2>4, <2>5, ReaderFromParts
  <1> QED
    BY <1>5, <1>6

\* The PCP thread, with jobs that are not an answer of the peer.
LEMMA HandlerReaders ==
  ASSUME TypeOK, EvaluationInv, ReaderAll, NEW e \in Endpoints,
         \/ RunRequest(e) \/ IncomingConnection(e) \/ \E goes_on \in BOOLEAN : IncomingTie(e, goes_on)
         \/ RunEncrypted(e) \/ RegisterProcessor(e) \/ RegistrationDone(e)
         \/ \E op \in {"incoming_failed", "outgoing_failed"} : RunEncryptionFailed(op, e)
         \/ \E answer \in LocalAnswers : RunRespond(answer, e)
         \/ RunEndpointDisconnect(e)
  PROVE  ReaderAll'
  <1> SUFFICES ASSUME NEW f \in Endpoints PROVE ReaderInv(f)'
    BY DEF ReaderAll
  <1>1. UNCHANGED <<em, reader, endpoints, responses>>
    BY DEF RunRequest, IncomingConnection, IncomingTie, RunEncrypted, RegisterProcessor, RegistrationDone,
       RunEncryptionFailed, RunRespond, RunEndpointDisconnect, managerVars, wireVars
  <1>2. Answered(f)' => Answered(f)
    <2>1. UNCHANGED proxyVars \/ OnConnectionRejected(e)
      BY DEF RunRequest, IncomingConnection, IncomingTie, RunEncrypted, RegisterProcessor, RegistrationDone,
         RunEncryptionFailed, RunRespond, RunEndpointDisconnect, ResultFailure
    <2> QED
      BY <2>1, StatusShrinks, AnsweredBefore DEF TypeOK
  <1>3. AnswersWait(f)
    <2>1. CASE pcp_queue' = pcp_queue
      BY <2>1, AnswersStay
    <2>2. ASSUME NEW op \in PcpOperations \ RemoteAnswers, Takes(op, e)
          PROVE  AnswersWait(f)
      BY <2>2, AnswersStay DEF Takes, IsAnswer
    <2>3. /\ {"request", "encrypted", "incoming_failed", "outgoing_failed", "disconnect"}
                \subseteq PcpOperations \ RemoteAnswers
          /\ LocalAnswers \subseteq PcpOperations \ RemoteAnswers
      BY DEF PcpOperations, LocalAnswers, RemoteAnswers
    <2> QED
      BY <2>1, <2>2, <2>3 DEF RunRequest, IncomingConnection, IncomingTie, RunEncrypted, RegisterProcessor,
         RegistrationDone, RunEncryptionFailed, RunRespond, RunEndpointDisconnect
  <1>4. pcp.op \notin RemoteAnswers
    <2>1. CASE pcp = Idle
      BY <2>1 DEF Idle, RemoteAnswers
    <2>2. CASE RegisterProcessor(e) \/ RegistrationDone(e)
      <3>1. pcp # Idle /\ pcp.at \in {"register_processor", "registered"}
        BY <2>2, PcpShape DEF RegisterProcessor, RegistrationDone
      <3> QED
        BY <3>1 DEF EvaluationInv, RemoteAnswers
    <2> QED
      BY <2>1, <2>2 DEF RunRequest, IncomingConnection, IncomingTie, RunEncrypted, RunEncryptionFailed,
         RunRespond, RunEndpointDisconnect, Takes
  <1>5. pcp'.op \notin RemoteAnswers
    <2>1. CASE pcp' = pcp
      BY <1>4, <2>1
    <2>2. CASE pcp' = Idle
      BY <2>2 DEF Idle, RemoteAnswers
    <2>3. CASE RunEncrypted(e)
      <3>1. Running(Head(pcp_queue), "register_processor").op = "encrypted"
        BY <2>3 DEF RunEncrypted, Takes, Running
      <3> QED
        BY <2>1, <2>2, <2>3, <3>1 DEF RunEncrypted, RemoteAnswers
    <2>4. CASE RegisterProcessor(e)
      <3>1. pcp # Idle
        BY <2>4, PcpShape DEF RegisterProcessor
      <3>2. pcp'.op = pcp.op
        BY <2>4, <3>1 DEF RegisterProcessor, TypeOK, RunsOf
      <3> QED
        BY <1>4, <3>2
    <2>5. ASSUME NEW answer \in LocalAnswers, RunRespond(answer, e)
          PROVE  pcp'.op \notin RemoteAnswers
      <3>1. Running(Head(pcp_queue), "record").op = answer
        BY <2>5 DEF RunRespond, Takes, Running
      <3> QED
        BY <2>1, <2>5, <3>1 DEF RunRespond, LocalAnswers, RemoteAnswers
    <2> QED
      BY <2>1, <2>2, <2>3, <2>4, <2>5 DEF RunRequest, IncomingConnection, IncomingTie, RegistrationDone,
         RunEncryptionFailed, RunEndpointDisconnect
  <1>6. Removes(f) => Removes(f)'
    <2>1. em_queue' = em_queue \/ \E j \in JobsOf(ManagerOperations) : em_queue' = Append(em_queue, j)
      <3>1. CASE RegisterProcessor(e)
        <4>1. Job("register", e, pending[e].chan) \in JobsOf(ManagerOperations)
          BY JobType DEF ManagerOperations, TypeOK
        <4> QED
          BY <3>1, <4>1 DEF RegisterProcessor
      <3>2. CASE ~RegisterProcessor(e)
        BY <3>2, HandlerPosts DEF PostsManager
      <3> QED
        BY <3>1, <3>2
    <2> QED
      BY <1>1, <2>1, RemovesKept
  <1>7. ReaderInv(f)
    BY DEF ReaderAll
  <1>8. ~Handled(f) /\ ~Handled(f)'
    BY <1>4, <1>5 DEF Handled
  <1> QED
    BY <1>1, <1>2, <1>3, <1>5, <1>6, <1>7, <1>8, ReaderKept

\* An answer of the peer is taken from the queue ...
LEMMA FrameReaders ==
  ASSUME TypeOK, ReaderAll, NEW e \in Endpoints, NEW answer \in RemoteAnswers, RunFrame(answer, e)
  PROVE  ReaderAll'
  <1> SUFFICES ASSUME NEW f \in Endpoints PROVE ReaderInv(f)'
    BY DEF ReaderAll
  <1>1. /\ UNCHANGED <<proxyVars, em, em_queue, reader, endpoints, responses>>
        /\ pcp = Idle /\ pcp_queue # <<>> /\ pcp_queue' = Tail(pcp_queue)
        /\ Head(pcp_queue).op = answer /\ Head(pcp_queue).e = e
    BY DEF RunFrame, Takes, managerVars, wireVars
  <1>2. /\ Len(pcp_queue) \in Nat \ {0} /\ DOMAIN pcp_queue = 1 .. Len(pcp_queue)
        /\ 1 \in DOMAIN pcp_queue /\ Head(pcp_queue) = pcp_queue[1]
        /\ DOMAIN pcp_queue' = 1 .. Len(pcp_queue) - 1
        /\ \A i \in 1 .. Len(pcp_queue) - 1 : pcp_queue'[i] = pcp_queue[i + 1] /\ i + 1 \in DOMAIN pcp_queue
    BY <1>1, Taken DEF TypeOK
  <1>3. ReaderTable(e) /\ ReaderCount(e) /\ ReaderHands(e) /\ ReaderJobs(e) /\ ReaderOver(e)
    BY ReaderParts DEF ReaderAll
  <1>4. ~Answered(e) /\ Head(pcp_queue).c = endpoints[e]
    BY <1>1, <1>2, <1>3 DEF ReaderJobs, IsAnswer
  <1>5. pcp' = Running(Head(pcp_queue), "record")
    BY <1>4 DEF RunFrame, Answered, HasRemoteEndpointResponded, StatusesContain
  <1>6. pcp'.at = "record" /\ pcp'.op = answer /\ pcp'.e = e /\ pcp'.c = endpoints[e]
    BY <1>1, <1>4, <1>5 DEF Running
  <1>7. /\ \A g : Answered(g)' <=> Answered(g)
        /\ \A g : Removes(g)' <=> Removes(g)
        /\ \A g : ~Handled(g)
    <2>1. \A g : Answered(g)' <=> Answered(g)
      BY <1>1 DEF Answered, proxyVars
    <2>2. \A g : Removes(g)' <=> Removes(g)
      BY <1>1 DEF Removes, Idle
    <2>3. \A g : ~Handled(g)
      BY <1>1 DEF Handled, Runs
    <2> QED
      BY <2>1, <2>2, <2>3
  <1>8. CASE f # e
    <2>1. AnswersWait(f)
      BY <1>1, <1>8, AnswersStay DEF IsAnswer
    <2>2. ~Handled(f)'
      BY <1>6, <1>8 DEF Handled, Runs
    <2> QED
      BY <1>1, <1>6, <1>7, <1>8, <2>1, <2>2, ReaderKept DEF ReaderAll
  <1>9. CASE f = e
    <2>1. NoAnswer(e)'
      <3> SUFFICES ASSUME NEW i \in 1 .. Len(pcp_queue) - 1, IsAnswer(pcp_queue'[i], e) PROVE FALSE
        BY <1>2 DEF NoAnswer
      <3>1. i + 1 = 1
        BY <1>1, <1>2, <1>3 DEF ReaderJobs, OneAnswer, IsAnswer
      <3> QED
        BY <3>1
    <2>2. Handled(e)'
      <3>1. pcp' # Idle
        BY <1>6 DEF Idle
      <3> QED
        BY <1>6, <3>1 DEF Handled, Runs, Idle
    <2>3. ReaderTable(e)' /\ ReaderCount(e)' /\ ReaderOver(e)'
      BY <1>1, <1>3, <1>7 DEF ReaderTable, ReaderCount, ReaderOver
    <2>4. ReaderHands(e)'
      <3>1. reader[e] = "handling"
        BY <1>1, <1>2, <1>3 DEF ReaderHands, NoAnswer, IsAnswer
      <3> QED
        BY <1>1, <2>2, <3>1 DEF ReaderHands
    <2>5. ReaderJobs(e)'
      BY <2>1 DEF ReaderJobs, NoAnswer, OneAnswer
    <2>6. ReaderRecords(e)'
      BY <1>1, <1>4, <1>6, <1>7 DEF ReaderRecords
    <2> QED
      BY <1>9, <2>3, <2>4, <2>5, <2>6, ReaderFromParts
  <1> QED
    BY <1>8, <1>9

\* ... and recorded.
LEMMA RecordReaders ==
  ASSUME TypeOK, EvaluationInv, ReaderAll, NEW e \in Endpoints, RecordAnswer(e)
  PROVE  ReaderAll'
  <1> SUFFICES ASSUME NEW f \in Endpoints PROVE ReaderInv(f)'
    BY DEF ReaderAll
  <1>1. /\ UNCHANGED <<em, em_queue, reader, endpoints, responses, pcp_queue>>
        /\ pcp.at = "record" /\ pcp.e = e /\ pcp # Idle
    BY PcpShape DEF RecordAnswer, managerVars, wireVars
  <1>2. pcp'.at = "evaluate" /\ pcp'.op = pcp.op /\ pcp'.e = pcp.e /\ pcp' # Idle
    <2>1. pcp'.at = "evaluate" /\ pcp'.op = pcp.op /\ pcp'.e = pcp.e
      BY <1>1 DEF RecordAnswer, TypeOK, RunsOf
    <2> QED
      BY <2>1 DEF Idle
  <1>3. /\ \A g : Removes(g)' <=> Removes(g)
        /\ \A g : Handled(g)' <=> Handled(g)
    <2>1. \A g : Removes(g)' <=> Removes(g)
      BY <1>1 DEF Removes, Idle
    <2>2. \A g : Handled(g)' <=> Handled(g)
      BY <1>1, <1>2 DEF Handled, Runs, Idle
    <2> QED
      BY <2>1, <2>2
  <1>4. AnswersWait(f) /\ ReaderInv(f)
    BY <1>1, AnswersStay DEF ReaderAll
  <1>5. f # e => status'[f] = status[f]
    BY HandlerConnections
  <1>6. CASE Answered(f)' => Answered(f)
    BY <1>1, <1>2, <1>3, <1>4, <1>6, ReaderKept
  <1>7. CASE Answered(f)' /\ ~Answered(f)
    <2>1. f = e
      BY <1>5, <1>7 DEF Answered
    <2>2. pcp.op \in RemoteAnswers
      <3> SUFFICES ASSUME pcp.op \in LocalAnswers PROVE FALSE
        BY <1>1 DEF EvaluationInv
      <3>1. status'[e] \subseteq status[e] \cup {pcp.op}
        BY DEF RecordAnswer, EndpointResponded, TypeOK, ProxyTypeOK
      <3> QED
        BY <1>7, <2>1, <3>1 DEF Answered, LocalAnswers, RemoteAnswers
    <2>3. Handled(e)
      BY <1>1, <2>2 DEF Handled, Runs
    <2>4. ReaderTable(e) /\ ReaderCount(e) /\ ReaderHands(e) /\ ReaderJobs(e) /\ ReaderOver(e)
      BY <1>4, <2>1, ReaderParts
    <2>5. NoAnswer(e) /\ reader[e] = "handling"
      BY <2>3, <2>4 DEF ReaderJobs, NoAnswer, ReaderHands
    <2>6. ReaderTable(e)' /\ ReaderCount(e)' /\ ReaderOver(e)'
      BY <1>1, <1>3, <2>4, <2>5 DEF ReaderTable, ReaderCount, ReaderOver
    <2>7. ReaderHands(e)'
      BY <1>1, <1>3, <2>3, <2>5 DEF ReaderHands
    <2>8. ReaderJobs(e)'
      BY <1>1, <2>5 DEF ReaderJobs, NoAnswer, OneAnswer
    <2>9. ReaderRecords(e)'
      BY <1>2 DEF ReaderRecords
    <2> QED
      BY <2>1, <2>6, <2>7, <2>8, <2>9, ReaderFromParts
  <1> QED
    BY <1>6, <1>7

\* The PCP thread settles a connection, and the reader may go on.
LEMMA ResultReaders ==
  ASSUME TypeOK, P!Inv, EvaluationInv, ReaderAll, NEW e \in Endpoints,
         EvaluateConnectionResult(e) \/ DecideResult(e) \/ DeliverResult(e)
  PROVE  ReaderAll'
  <1> SUFFICES ASSUME NEW f \in Endpoints PROVE ReaderInv(f)'
    BY DEF ReaderAll
  <1>1. /\ UNCHANGED <<em, endpoints, responses, pcp_queue>> /\ pcp.e = e /\ pcp # Idle
        /\ pcp.at \in {"evaluate", "decide", "accept", "reject"}
    BY PcpShape DEF EvaluateConnectionResult, DecideResult, DeliverResult, wireVars
  <1>2. Removes(f) => Removes(f)'
    BY <1>1, HandlerPosts, RemovesKept DEF PostsManager
  <1>3. AnswersWait(f) /\ ReaderInv(f)
    BY <1>1, AnswersStay DEF ReaderAll
  <1>4. Answered(f)' => Answered(f)
    <2>1. CASE UNCHANGED proxyVars \/ OnConnectionRejected(e)
      BY <2>1, StatusShrinks, AnsweredBefore DEF TypeOK
    <2>2. CASE pcp.at = "accept" /\ OnConnectionAccepted(e) /\ HasPendingConnectionToEndpoint(e)
      <3>1. IsConnectionAccepted(e)
        BY <1>1, <2>2, ProxyInv DEF ProxyFacts, HasPendingConnectionToEndpoint
      <3>2. Answered(e)
        BY <3>1 DEF IsConnectionAccepted, StatusesContain, Answered, RemoteAnswers
      <3>3. f # e => status'[f] = status[f]
        BY HandlerConnections
      <3> QED
        BY <3>2, <3>3 DEF Answered
    <2> QED
      BY <2>1, <2>2 DEF EvaluateConnectionResult, DecideResult, DeliverResult, OnConnectionAccepted
  <1>5. CASE pcp' # Idle /\ reader' = reader
    <2>1. PICK at \in {"decide", "accept", "reject"}, c \in {pcp.c, pending[e].chan} :
            pcp' \in {pcp, [pcp EXCEPT !.at = at], [pcp EXCEPT !.at = at, !.c = c]}
      BY <1>5 DEF EvaluateConnectionResult, DecideResult, DeliverResult, JobDone
    <2>2. pcp'.at # "record" /\ pcp'.op = pcp.op /\ pcp'.e = pcp.e
      BY <1>1, <2>1 DEF TypeOK, RunsOf
    <2>3. Handled(f)' <=> Handled(f)
      BY <1>1, <1>5, <2>2 DEF Handled, Runs, Idle
    <2> QED
      BY <1>1, <1>2, <1>3, <1>4, <1>5, <2>2, <2>3, ReaderKept
  <1>6. CASE JobDone(e)
    <2>1. pcp' = Idle /\ pcp'.at = "idle" /\ ~Handled(f)'
      BY <1>6 DEF JobDone, Handled, Runs, Idle
    <2>2. CASE f # e \/ pcp.op \in LocalAnswers
      <3>1. reader'[f] = reader[f]
        BY <1>6, <2>2 DEF JobDone, TypeOK
      <3>2. ~Handled(f)
        BY <1>1, <2>2 DEF Handled, Runs, LocalAnswers, RemoteAnswers
      <3> QED
        BY <1>1, <1>2, <1>3, <1>4, <2>1, <3>1, <3>2, ReaderKept
    <2>3. CASE f = e /\ pcp.op \notin LocalAnswers
      <3>1. reader'[e] = "reading"
        BY <1>6, <2>3 DEF JobDone, TypeOK
      <3>2. pcp.op \in RemoteAnswers
        BY <1>1, <2>3 DEF EvaluationInv
      <3>3. Handled(e)
        BY <1>1, <3>2 DEF Handled, Runs
      <3>4. ReaderTable(e) /\ ReaderCount(e) /\ ReaderHands(e) /\ ReaderJobs(e)
        BY <1>3, <2>3, ReaderParts
      <3>5. NoAnswer(e) /\ reader[e] = "handling"
        BY <3>3, <3>4 DEF ReaderJobs, NoAnswer, ReaderHands
      <3>6. NoAnswer(e)'
        BY <1>1, <3>5 DEF NoAnswer
      <3>7. ReaderTable(e)' /\ ReaderCount(e)' /\ ReaderOver(e)'
        BY <1>1, <1>4, <2>3, <3>1, <3>4, <3>5 DEF ReaderTable, ReaderCount, ReaderOver
      <3>8. ReaderHands(e)' /\ ReaderJobs(e)'
        BY <2>1, <2>3, <3>1, <3>6 DEF ReaderHands, ReaderJobs, NoAnswer, OneAnswer
      <3>9. ReaderRecords(e)'
        BY <2>1 DEF ReaderRecords
      <3> QED
        BY <2>3, <3>7, <3>8, <3>9, ReaderFromParts
    <2> QED
      BY <2>2, <2>3
  <1>7. JobDone(e) \/ (pcp' # Idle /\ reader' = reader)
    <2>1. \A at, c : [pcp EXCEPT !.at = at].at = at /\ [pcp EXCEPT !.at = at, !.c = c].at = at
      BY <1>1 DEF TypeOK, RunsOf
    <2>2. Idle.at = "idle"
      BY DEF Idle
    <2>3. CASE EvaluateConnectionResult(e)
      BY <2>1, <2>2, <2>3 DEF EvaluateConnectionResult
    <2>4. CASE DecideResult(e)
      <3>1. pcp.at = "decide" /\ reader' = reader
        BY <2>4 DEF DecideResult
      <3>2. pcp'.at # "idle"
        <4>1. CASE pcp' = pcp
          BY <3>1, <4>1
        <4>2. CASE pcp' # pcp
          <5>1. PICK at \in {"accept", "reject"} : pcp' = [pcp EXCEPT !.at = at, !.c = pending[e].chan]
            BY <2>4, <4>2 DEF DecideResult
          <5>2. [pcp EXCEPT !.at = at, !.c = pending[e].chan].at = at
            BY <2>1
          <5> QED
            BY <5>1, <5>2
        <4> QED
          BY <4>1, <4>2
      <3> QED
        BY <2>2, <3>1, <3>2
    <2> QED
      BY <2>3, <2>4 DEF DeliverResult
  <1> QED
    BY <1>5, <1>6, <1>7

\* The manager thread starts a reader when it has joined the old one, and removes it
\* when it is done: its steps keep the readers' invariant.
LEMMA ManagerReaders ==
  ASSUME TypeOK, P!Inv, RegistrationInv, EvaluationInv, ChannelAll, ReaderAll, NEW e \in Endpoints,
         \/ TakeRegister(e) \/ RegisterEndpoint(e) \/ TakeRemove(e) \/ RemoveChannel(e)
         \/ NotifyProcessors(e) \/ BarrierOpens(e) \/ Disconnect(e) \/ RemoveEndpointState(e)
  PROVE  ReaderAll'
  <1> SUFFICES ASSUME NEW f \in Endpoints PROVE ReaderInv(f)'
    BY DEF ReaderAll
  <1>0. responses' = responses
    BY DEF TakeRegister, RegisterEndpoint, TakeRemove, RemoveChannel, NotifyProcessors, BarrierOpens,
       Disconnect, RemoveEndpointState, wireVars
  <1>1. AnswersWait(f)
    <2>1. CASE pcp_queue' = pcp_queue
      BY <2>1, AnswersStay
    <2>2. CASE NotifyProcessors(e)
      <3>1. Job("disconnect", e, em.c) \in JobsOf(PcpOperations)
        BY JobType, EmShape DEF PcpOperations
      <3>2. ~IsAnswer(Job("disconnect", e, em.c), f)
        BY JobFields DEF IsAnswer, RemoteAnswers
      <3> QED
        BY <2>2, <3>1, <3>2, AnswersStay DEF NotifyProcessors
    <2> QED
      BY <2>1, <2>2 DEF TakeRegister, RegisterEndpoint, TakeRemove, RemoveChannel, BarrierOpens,
         Disconnect, RemoveEndpointState, handlerVars
  <1>2. ReaderInv(f)
    BY DEF ReaderAll
  <1>3. ReaderTable(f) /\ ReaderCount(f) /\ ReaderHands(f) /\ ReaderJobs(f) /\ ReaderRecords(f) /\ ReaderOver(f)
    BY <1>2, ReaderParts
  <1>4. em_queue \in Seq(JobsOf(ManagerOperations)) /\ reader \in [Endpoints -> Threads]
        /\ endpoints \in [Endpoints -> ChannelOrNone] /\ Idle.at = "idle"
    BY DEF TypeOK, Idle
  <1>5. /\ Handled(f)' <=> Handled(f)
        /\ pcp'.at = "record" => pcp' = pcp
    <2>1. CASE pcp' = pcp
      BY <2>1 DEF Handled, Runs, Idle
    <2>2. CASE RegisterEndpoint(e)
      <3>1. pcp.at = "registering" /\ pcp # Idle
        BY <2>2, PcpShape DEF RegisterEndpoint, RegistrationInv, BeingRegistered
      <3>2. pcp'.at = "registered" /\ pcp'.op = pcp.op
        BY <2>2, <3>1 DEF RegisterEndpoint, TypeOK, RunsOf
      <3>3. pcp.op \notin RemoteAnswers
        BY <3>1 DEF EvaluationInv, RemoteAnswers
      <3> QED
        BY <3>2, <3>3 DEF Handled
    <2> QED
      BY <2>1, <2>2 DEF TakeRegister, TakeRemove, RemoveChannel, NotifyProcessors, BarrierOpens, Disconnect,
         RemoveEndpointState, handlerVars
  <1>6. Answered(f)' => Answered(f)
    <2>1. CASE UNCHANGED proxyVars \/ \E n \in BOOLEAN : OnDisconnected(e, n)
      BY <2>1, StatusShrinks, AnsweredBefore DEF TypeOK
    <2>2. CASE RegisterEndpoint(e)
      BY <2>2, AnsweredBefore DEF RegisterEndpoint, OnConnectionInitiated, TypeOK, ProxyTypeOK, kPending
    <2>3. em.notify \in BOOLEAN
      BY EmShape
    <2> QED
      BY <2>1, <2>2, <2>3 DEF TakeRegister, TakeRemove, RemoveChannel, NotifyProcessors, BarrierOpens, Disconnect,
         RemoveEndpointState
  <1>7. CASE TakeRegister(e) \/ TakeRemove(e)
    <2>1. /\ em = Idle /\ em_queue # <<>> /\ em_queue' = Tail(em_queue) /\ Head(em_queue).e = e
          /\ reader' = reader /\ endpoints' = endpoints
      BY <1>7 DEF TakeRegister, TakeRemove
    <2>2. \A i \in DOMAIN em_queue : em_queue[i] = Head(em_queue)
            \/ (i - 1 \in DOMAIN em_queue' /\ em_queue'[i - 1] = em_queue[i])
      BY <1>4, <2>1, TakenJobs
    <2>3. Removes(f) => Removes(f)'
      <3>1. CASE TakeRegister(e)
        BY <2>1, <2>2, <3>1 DEF Removes, TakeRegister
      <3>2. CASE TakeRemove(e)
        <4>1. em'.e = e /\ em'.at = "remove"
          BY <2>1, <3>2 DEF TakeRemove, Running
        <4>2. em' # Idle
          BY <1>4, <4>1
        <4> QED
          BY <2>1, <2>2, <4>1, <4>2 DEF Removes, Idle
      <3> QED
        BY <1>7, <3>1, <3>2
    <2> QED
      BY <1>0, <1>1, <1>2, <1>5, <1>6, <2>1, <2>3, ReaderKept
  <1>8. CASE RemoveChannel(e) \/ NotifyProcessors(e) \/ BarrierOpens(e) \/ Disconnect(e)
    <2>1. /\ em # Idle /\ em_queue' = em_queue /\ reader' = reader /\ endpoints' = endpoints
      BY <1>8, EmShape DEF RemoveChannel, NotifyProcessors, BarrierOpens, Disconnect
    <2>2. PICK at \in {"notify", "barrier", "disconnect", "join"}, c \in {em.c, channel[e]} :
            em' \in {[em EXCEPT !.at = at], [em EXCEPT !.at = at, !.c = c]}
      BY <1>8 DEF RemoveChannel, NotifyProcessors, BarrierOpens, Disconnect
    <2>3. em'.at = at /\ em'.e = em.e
      BY <2>1, <2>2 DEF TypeOK, RunsOf
    <2>4. em' # Idle
      BY <1>4, <2>3
    <2>5. Removes(f) => Removes(f)'
      BY <2>1, <2>3, <2>4 DEF Removes, Idle
    <2> QED
      BY <1>0, <1>1, <1>2, <1>5, <1>6, <2>1, <2>5, ReaderKept
  <1>9. CASE RegisterEndpoint(e) \/ RemoveEndpointState(e)
    <2>1. em.e = e /\ em' = Idle /\ em_queue' = em_queue /\ WorkersDone(e)
      BY <1>9 DEF RegisterEndpoint, RemoveEndpointState
    <2>2. CASE f # e
      <3>1. reader'[f] = reader[f] /\ endpoints'[f] = endpoints[f]
        BY <1>4, <1>9, <2>2 DEF RegisterEndpoint, RemoveEndpointState
      <3>2. Removes(f) => Removes(f)'
        BY <2>1, <2>2 DEF Removes
      <3> QED
        BY <1>0, <1>1, <1>2, <1>5, <1>6, <3>1, <3>2, ReaderKept
    <2>3. CASE f = e
      <3>1. NoAnswer(e) /\ ~Handled(e)
        BY <1>3, <2>1, <2>3 DEF WorkersDone, ReaderHands
      <3>2. NoAnswer(e)'
        BY <1>1, <2>3, <3>1 DEF NoAnswer, AnswersWait
      <3>3. ~Answered(e)'
        <4>1. e \notin connections
          <5>1. CASE RegisterEndpoint(e)
            <6>1. BeingRegistered(e)
              BY <5>1 DEF RegisterEndpoint, RegistrationInv
            <6>2. e \in Handshaking
              BY <6>1 DEF Handshaking, BeingRegistered, RegistrationInv
            <6> QED
              BY <6>2, ProxyInv DEF ProxyFacts
          <5>2. CASE RemoveEndpointState(e)
            BY <5>2 DEF RemoveEndpointState, ChannelAll, ChannelInv
          <5> QED
            BY <1>9, <5>1, <5>2
        <4>2. status[e] = {}
          BY <4>1, ProxyInv DEF ProxyFacts
        <4> QED
          BY <1>6, <2>3, <4>2 DEF Answered
      <3>4. CASE RegisterEndpoint(e)
        <4>1. reader'[e] = "reading" /\ endpoints'[e] = em.c
          BY <1>4, <3>4 DEF RegisterEndpoint
        <4>2. em.c # None
          BY <3>4 DEF RegisterEndpoint, RegistrationInv, BeingRegistered
        <4>3. ReaderTable(e)' /\ ReaderCount(e)' /\ ReaderOver(e)'
          BY <3>3, <4>1, <4>2 DEF ReaderTable, ReaderCount, ReaderOver
        <4>4. ReaderHands(e)' /\ ReaderJobs(e)'
          BY <1>5, <2>3, <3>1, <3>2, <4>1 DEF ReaderHands, ReaderJobs, NoAnswer, OneAnswer
        <4>5. ReaderRecords(e)'
          <5>1. pcp.at = "registering"
            BY <3>4 DEF RegisterEndpoint, RegistrationInv, BeingRegistered
          <5>2. pcp'.at # "record"
            BY <1>5, <5>1
          <5> QED
            BY <5>2 DEF ReaderRecords
        <4> QED
          BY <2>3, <4>3, <4>4, <4>5, ReaderFromParts
      <3>5. CASE RemoveEndpointState(e)
        <4>1. reader'[e] = "none" /\ endpoints'[e] = None /\ pcp' = pcp
          BY <1>4, <3>5 DEF RemoveEndpointState, handlerVars
        <4>2. ReaderTable(e)' /\ ReaderCount(e)' /\ ReaderOver(e)'
          BY <3>3, <4>1 DEF ReaderTable, ReaderCount, ReaderOver
        <4>3. ReaderHands(e)' /\ ReaderJobs(e)'
          BY <1>5, <2>3, <3>1, <3>2, <4>1 DEF ReaderHands, ReaderJobs, NoAnswer, OneAnswer
        <4>4. ReaderRecords(e)'
          <5>1. ~(pcp.at = "record" /\ pcp.op \in RemoteAnswers /\ pcp.e = e)
            BY <3>1, PcpShape DEF Handled, Runs
          <5> QED
            BY <4>1, <5>1 DEF ReaderRecords
        <4> QED
          BY <2>3, <4>2, <4>3, <4>4, ReaderFromParts
      <3> QED
        BY <1>9, <3>4, <3>5
    <2> QED
      BY <2>2, <2>3
  <1> QED
    BY <1>7, <1>8, <1>9

\* Every step keeps the readers' invariant, if the peer answers once.
LEMMA StepReaders ==
  ASSUME TypeOK, P!Inv, RegistrationInv, EvaluationInv, ChannelAll, ReaderAll, MaxResponses = 1, Next
  PROVE  ReaderAll'
  <1>1. CASE PcpStep
    BY <1>1, HandlerReaders, FrameReaders, RecordReaders, ResultReaders DEF PcpStep
  <1>2. CASE ManagerStep
    BY <1>2, ManagerReaders DEF ManagerStep
  <1>3. CASE RouterStep \/ HandshakeStep \/ AlarmStep \/ \E e \in Endpoints : ReaderStep(e) \/ KeepAliveStep(e)
    BY <1>3, QuietReaders, ExitReaders DEF RouterStep, HandshakeStep, AlarmStep, ReaderStep, KeepAliveStep
  <1>4. CASE Environment
    BY <1>4, QuietReaders, HandlerReaders, ResponseReaders DEF Environment
  <1> QED
    BY <1>1, <1>2, <1>3, <1>4 DEF Next

----------------------------------------------------------------------------
(* Keys *)

\* The parts of KeysInv.
ContextInv(f) ==
  IsConnectedToEndpoint(f) \/ (pcp.at = "accept" /\ pcp.e = f) =>
    (channel[f] # None => context[f] = channel[f] \/ channel[f] \in overtaken)
\* The PCP thread has the result of f's own handshake; a connection that is not
\* registered waits for it; one that was registered with other keys; its result
\* comes before an answer; what StrayInv says of it.
Expects(f) == pcp.at = "register_processor" /\ pcp.e = f /\ pcp.c = pending[f].chan
FirstInv(f) == IsPending(f) /\ ~Registered(f) => Outstanding(f) \/ Expects(f)
Stray(f) ==
  IsPending(f) /\ Registered(f) /\ pending[f].keys # pending[f].chan /\ pending[f].chan \notin overtaken
ResultsFirst(f) ==
  \A j \in DOMAIN pcp_queue : IsAnswer(pcp_queue[j], f) =>
    \E i \in DOMAIN pcp_queue : i < j /\ IsResult(pcp_queue[i], f)
StrayFacts(f) ==
  Outstanding(f) /\ (~BeingRegistered(f) => ResultsFirst(f)) /\ ~Handled(f) /\ status[f] \cap RemoteAnswers = {}

\* These are the parts of KeysInv,
LEMMA KeysParts ==
  ASSUME NEW f
  PROVE  KeysInv(f) <=> ContextInv(f) /\ (crashed = "no" => FirstInv(f) /\ (Stray(f) => StrayFacts(f)))
  <1>1. StrayInv(f) <=> (Stray(f) => StrayFacts(f))
    BY Zenon DEF StrayInv, Stray, StrayFacts, ResultsFirst, IsAnswer, Handled
  <1> QED
    BY <1>1, Zenon DEF KeysInv, ContextInv, FirstInv, Expects

\* after a step too.
LEMMA KeysFromParts ==
  ASSUME NEW f, ContextInv(f)', crashed' = "no" => FirstInv(f)' /\ (Stray(f)' => StrayFacts(f)')
  PROVE  KeysInv(f)'
  <1>1. (Stray(f)' => StrayFacts(f)') => StrayInv(f)'
    BY Zenon DEF StrayInv, Stray, StrayFacts, ResultsFirst, IsAnswer, Handled
  <1> QED
    BY <1>1, Zenon DEF KeysInv, ContextInv, FirstInv, Expects

\* The keys stay right while channel and context do and no connection is accepted.
LEMMA ContextKept ==
  ASSUME NEW f, ContextInv(f), overtaken \subseteq overtaken', channel'[f] = channel[f], context'[f] = context[f],
         (IsConnectedToEndpoint(f) \/ (pcp.at = "accept" /\ pcp.e = f))' =>
            IsConnectedToEndpoint(f) \/ (pcp.at = "accept" /\ pcp.e = f)
  PROVE  ContextInv(f)'
  BY DEF ContextInv

\* What is known of the handshake of f's connection stays known.
LEMMA OutstandingKept ==
  ASSUME NEW f, Outstanding(f), pending'[f] = pending[f],
         <<f, pending[f].chan, pending[f].incoming>> \in handshakes =>
           <<f, pending[f].chan, pending[f].incoming>> \in handshakes',
         \A i \in DOMAIN pcp_queue : IsResult(pcp_queue[i], f) => \E k \in DOMAIN pcp_queue' : pcp_queue'[k] = pcp_queue[i]
  PROVE  Outstanding(f)'
  <1>1. CASE <<f, pending[f].chan, pending[f].incoming>> \in handshakes
    BY <1>1 DEF Outstanding
  <1>2. ASSUME NEW i \in DOMAIN pcp_queue, IsResult(pcp_queue[i], f)
        PROVE  Outstanding(f)'
    <2>1. PICK k \in DOMAIN pcp_queue' : pcp_queue'[k] = pcp_queue[i]
      BY <1>2
    <2>2. IsResult(pcp_queue[k], f)'
      BY <1>2, <2>1 DEF IsResult
    <2> QED
      BY <2>2 DEF Outstanding
  <1> QED
    BY <1>1, <1>2 DEF Outstanding

\* A step that posts no answer and takes no result keeps results before answers.
LEMMA ResultsStay ==
  ASSUME TypeOK, NEW f, pending'[f] = pending[f],
         \/ pcp_queue' = pcp_queue
         \/ \E j \in JobsOf(PcpOperations) : pcp_queue' = Append(pcp_queue, j) /\ ~IsAnswer(j, f)
         \/ pcp_queue # <<>> /\ pcp_queue' = Tail(pcp_queue) /\ ~IsResult(Head(pcp_queue), f)
  PROVE  /\ \A i \in DOMAIN pcp_queue : IsResult(pcp_queue[i], f) => \E k \in DOMAIN pcp_queue' : pcp_queue'[k] = pcp_queue[i]
         /\ ResultsFirst(f) => ResultsFirst(f)'
  <1>1. pcp_queue \in Seq(JobsOf(PcpOperations))
    BY DEF TypeOK
  <1>2. \A j : IsResult(j, f) <=> /\ j.e = f /\ j.c = pending'[f].chan
                                  /\ j.op \in {"encrypted", IF pending'[f].incoming THEN "incoming_failed" ELSE "outgoing_failed"}
    BY DEF IsResult
  <1>3. ResultsFirst(f)' <=>
          \A j \in DOMAIN pcp_queue' : IsAnswer(pcp_queue'[j], f) =>
            \E i \in DOMAIN pcp_queue' : i < j /\ IsResult(pcp_queue'[i], f)
    BY <1>2 DEF ResultsFirst, IsResult, IsAnswer
  <1>4. CASE pcp_queue' = pcp_queue
    BY <1>3, <1>4 DEF ResultsFirst
  <1>5. ASSUME NEW j \in JobsOf(PcpOperations), pcp_queue' = Append(pcp_queue, j), ~IsAnswer(j, f)
        PROVE  /\ \A i \in DOMAIN pcp_queue : IsResult(pcp_queue[i], f) =>
                    \E k \in DOMAIN pcp_queue' : pcp_queue'[k] = pcp_queue[i]
               /\ ResultsFirst(f) => ResultsFirst(f)'
    <2>1. /\ \A i \in DOMAIN pcp_queue : i \in DOMAIN pcp_queue' /\ pcp_queue'[i] = pcp_queue[i]
          /\ \A i \in DOMAIN pcp_queue' : pcp_queue'[i] = j \/ (i \in DOMAIN pcp_queue /\ pcp_queue'[i] = pcp_queue[i])
      BY <1>1, <1>5, PostedJobs
    <2>2. \A i \in DOMAIN pcp_queue' : IsAnswer(pcp_queue'[i], f) => i \in DOMAIN pcp_queue /\ pcp_queue'[i] = pcp_queue[i]
      BY <1>5, <2>1
    <2> QED
      BY <1>3, <2>1, <2>2 DEF ResultsFirst
  <1>6. CASE pcp_queue # <<>> /\ pcp_queue' = Tail(pcp_queue) /\ ~IsResult(Head(pcp_queue), f)
    <2>1. /\ \A i \in DOMAIN pcp_queue' : i + 1 \in DOMAIN pcp_queue /\ pcp_queue'[i] = pcp_queue[i + 1]
          /\ \A i \in DOMAIN pcp_queue : pcp_queue[i] = Head(pcp_queue)
               \/ (i - 1 \in DOMAIN pcp_queue' /\ pcp_queue'[i - 1] = pcp_queue[i])
      BY <1>1, <1>6, TakenJobs
    <2>2. /\ DOMAIN pcp_queue' \subseteq Nat \ {0} /\ DOMAIN pcp_queue \subseteq Nat \ {0}
      BY <1>1, <1>6, Taken
    <2>3. \A i \in DOMAIN pcp_queue : IsResult(pcp_queue[i], f) => i - 1 \in DOMAIN pcp_queue' /\ pcp_queue'[i - 1] = pcp_queue[i]
      BY <1>6, <2>1
    <2>4. ASSUME ResultsFirst(f), NEW j \in DOMAIN pcp_queue', IsAnswer(pcp_queue'[j], f)
          PROVE  \E i \in DOMAIN pcp_queue' : i < j /\ IsResult(pcp_queue'[i], f)
      <3>1. PICK i \in DOMAIN pcp_queue : i < j + 1 /\ IsResult(pcp_queue[i], f)
        BY <2>1, <2>4 DEF ResultsFirst
      <3>2. i - 1 \in DOMAIN pcp_queue' /\ pcp_queue'[i - 1] = pcp_queue[i]
        BY <2>3, <3>1
      <3>3. i - 1 < j
        BY <2>2, <3>1
      <3> QED
        BY <3>1, <3>2, <3>3
    <2> QED
      BY <1>3, <2>3, <2>4
  <1> QED
    BY <1>4, <1>5, <1>6

\* A step that leaves f's pending connection and its handshake alone.
LEMMA KeysKept ==
  ASSUME TypeOK, NEW f, overtaken \subseteq overtaken', pending'[f] = pending[f], FirstInv(f), Stray(f) => StrayFacts(f),
         \/ pcp_queue' = pcp_queue
         \/ \E j \in JobsOf(PcpOperations) : pcp_queue' = Append(pcp_queue, j) /\ ~IsAnswer(j, f)
         \/ pcp_queue # <<>> /\ pcp_queue' = Tail(pcp_queue) /\ ~IsResult(Head(pcp_queue), f),
         <<f, pending[f].chan, pending[f].incoming>> \in handshakes =>
           <<f, pending[f].chan, pending[f].incoming>> \in handshakes',
         BeingRegistered(f) => BeingRegistered(f)',
         Stray(f) /\ Handled(f)' => Handled(f),
         Stray(f) /\ status[f] \cap RemoteAnswers = {} => status'[f] \cap RemoteAnswers = {},
         Expects(f) => Expects(f)'
  PROVE  FirstInv(f)' /\ (Stray(f)' => StrayFacts(f)')
  <1>1. /\ \A i \in DOMAIN pcp_queue : IsResult(pcp_queue[i], f) => \E k \in DOMAIN pcp_queue' : pcp_queue'[k] = pcp_queue[i]
        /\ ResultsFirst(f) => ResultsFirst(f)'
    BY ResultsStay
  <1>2. Outstanding(f) => Outstanding(f)'
    BY <1>1, OutstandingKept
  <1>3. (IsPending(f)' <=> IsPending(f)) /\ (Registered(f)' <=> Registered(f)) /\ (Stray(f)' => Stray(f))
    BY DEF IsPending, Registered, Stray
  <1>4. FirstInv(f)'
    BY <1>2, <1>3 DEF FirstInv
  <1>5. Stray(f)' => StrayFacts(f)'
    BY <1>1, <1>2, <1>3 DEF StrayFacts
  <1> QED
    BY <1>4, <1>5

\* What KeysAll says while nothing has crashed.
LEMMA KeysKnown ==
  ASSUME KeysAll, crashed = "no", NEW f \in Endpoints
  PROVE  ContextInv(f) /\ FirstInv(f) /\ (Stray(f) => StrayFacts(f))
  BY KeysParts DEF KeysAll

\* A step that makes nobody connected and leaves the channels alone.
LEMMA ContextShrinks ==
  ASSUME NEW f, ContextInv(f), overtaken \subseteq overtaken', Shrinks, pcp' = pcp \/ pcp'.at # "accept",
         channel'[f] = channel[f], context'[f] = context[f]
  PROVE  ContextInv(f)'
  <1>1. IsConnectedToEndpoint(f)' => IsConnectedToEndpoint(f)
    BY DEF Shrinks, IsConnectedToEndpoint, kConnected
  <1>2. (pcp.at = "accept" /\ pcp.e = f)' => (pcp.at = "accept" /\ pcp.e = f)
    OBVIOUS
  <1> QED
    BY <1>1, <1>2, ContextKept

\* Steps that the PCP thread and the manager do not take, and that post no answer.
LEMMA QuietKeys ==
  ASSUME TypeOK, KeysAll, crashed = "no", overtaken \subseteq overtaken',
         \/ \E e \in Endpoints :
              \/ CallRequestConnection(e) \/ RequestRefused(e)
              \/ \E answer \in LocalAnswers : CallRespond(e, answer)
              \/ CallDisconnect(e) \/ StopNext(e) \/ ReaderExits(e) \/ KeepAliveExits(e)
         \/ CallStopAll \/ StopPhase \/ \E c \in open : ChannelBreaks(c)
         \/ \E a \in alarms : AlarmFires(a[1], a[2])
  PROVE  KeysAll'
  <1> SUFFICES ASSUME NEW f \in Endpoints PROVE KeysInv(f)'
    BY DEF KeysAll
  <1>1. UNCHANGED <<pcp, pending, handshakes, channel, context>>
    <2>1. UNCHANGED <<pcp, pending, channel, context>>
      BY DEF CallRequestConnection, RequestRefused, CallRespond, CallDisconnect, StopNext, CallStopAll,
         StopPhase, ChannelBreaks, AlarmFires, ReaderExits, KeepAliveExits, handlerVars, managerVars
    <2>2. handshakes' = handshakes
      BY DEF CallRequestConnection, RequestRefused, CallRespond, CallDisconnect, StopNext, CallStopAll,
         StopPhase, ChannelBreaks, AlarmFires, ReaderExits, KeepAliveExits, wireVars
    <2> QED
      BY <2>1, <2>2
  <1>2. \/ UNCHANGED proxyVars \/ RemoveAllEndpoints
        \/ \E e \in Endpoints : AddCancellationFlag(e)
        \/ \E es : CancelEndpoints(es)
    BY DEF CallRequestConnection, RequestRefused, CallRespond, CallDisconnect, StopNext, CallStopAll,
       StopPhase, ChannelBreaks, AlarmFires, ReaderExits, KeepAliveExits
  <1>3. Shrinks /\ (status'[f] = status[f] \/ status'[f] = {})
    BY <1>2, ProxyShrinks, StatusShrinks DEF TypeOK
  <1>4. \/ pcp_queue' = pcp_queue
        \/ \E j \in JobsOf(PcpOperations) : pcp_queue' = Append(pcp_queue, j) /\ ~IsAnswer(j, f)
    <2>1. CASE \/ CallStopAll \/ StopPhase \/ \E c \in open : ChannelBreaks(c)
               \/ \E a \in alarms : AlarmFires(a[1], a[2])
               \/ \E e \in Endpoints : ReaderExits(e) \/ KeepAliveExits(e)
      BY <2>1 DEF CallStopAll, StopPhase, ChannelBreaks, AlarmFires, ReaderExits, KeepAliveExits, handlerVars
    <2>2. CASE \E e \in Endpoints :
                  \/ CallRequestConnection(e) \/ RequestRefused(e)
                  \/ \E answer \in LocalAnswers : CallRespond(e, answer)
                  \/ CallDisconnect(e) \/ StopNext(e)
      <3>1. \A op \in CallJobs : op \notin RemoteAnswers
        BY DEF CallJobs, LocalAnswers, RemoteAnswers
      <3> QED
        BY <2>2, <3>1, CallsPost DEF PostsPcp, IsAnswer
    <2> QED
      BY <2>1, <2>2
  <1>5. ContextInv(f) /\ FirstInv(f) /\ (Stray(f) => StrayFacts(f))
    BY KeysKnown
  <1>6. ContextInv(f)'
    BY <1>1, <1>3, <1>5, ContextShrinks
  <1>7. /\ BeingRegistered(f) => BeingRegistered(f)'
        /\ Handled(f)' => Handled(f)
        /\ Expects(f) => Expects(f)'
    BY <1>1 DEF BeingRegistered, Handled, Runs, Idle, Expects
  <1>8. status[f] \cap RemoteAnswers = {} => status'[f] \cap RemoteAnswers = {}
    BY <1>3
  <1>9. FirstInv(f)' /\ (Stray(f)' => StrayFacts(f)')
    BY <1>1, <1>4, <1>5, <1>7, <1>8, KeysKept
  <1> QED
    BY <1>6, <1>9, KeysFromParts

\* A handshake ends: its result is in the queue.
LEMMA HandshakeKeys ==
  ASSUME TypeOK, KeysAll, crashed = "no", overtaken \subseteq overtaken', NEW h \in handshakes, HandshakeEnds(h[1], h[2], h[3])
  PROVE  KeysAll'
  <1> SUFFICES ASSUME NEW f \in Endpoints PROVE KeysInv(f)'
    BY DEF KeysAll
  <1>1. UNCHANGED <<proxyVars, pcp, pending, channel, context>>
    BY DEF HandshakeEnds, managerVars
  <1>2. h[1] \in Endpoints /\ h[2] \in Channels /\ h[3] \in BOOLEAN /\ h = <<h[1], h[2], h[3]>>
        /\ pcp_queue \in Seq(JobsOf(PcpOperations))
    BY DEF TypeOK
  <1>3. PICK op \in {"encrypted", IF h[3] THEN "incoming_failed" ELSE "outgoing_failed"} :
          pcp_queue' = Append(pcp_queue, Job(op, h[1], h[2]))
    BY DEF HandshakeEnds
  <1>4. /\ Job(op, h[1], h[2]) \in JobsOf(PcpOperations)
        /\ ~IsAnswer(Job(op, h[1], h[2]), f)
    <2>1. op \in PcpOperations /\ op \notin RemoteAnswers
      BY <1>2 DEF PcpOperations, RemoteAnswers
    <2>2. h[2] \in ChannelOrNone
      BY <1>2 DEF ChannelOrNone
    <2>3. Job(op, h[1], h[2]) \in JobsOf(PcpOperations)
      BY <1>2, <2>1, <2>2, JobType
    <2>4. Job(op, h[1], h[2]).op = op
      BY JobFields
    <2> QED
      BY <2>1, <2>3, <2>4 DEF IsAnswer
  <1>5. ContextInv(f) /\ FirstInv(f) /\ (Stray(f) => StrayFacts(f))
    BY KeysKnown
  <1>6. ContextInv(f)'
    BY <1>1, <1>5, ContextKept DEF IsConnectedToEndpoint, proxyVars
  <1>7. /\ BeingRegistered(f) => BeingRegistered(f)'
        /\ Handled(f)' => Handled(f)
        /\ Expects(f) => Expects(f)'
        /\ status'[f] = status[f]
    BY <1>1 DEF BeingRegistered, Handled, Runs, Idle, Expects, proxyVars
  <1>8. CASE h # <<f, pending[f].chan, pending[f].incoming>>
    <2>1. <<f, pending[f].chan, pending[f].incoming>> \in handshakes =>
            <<f, pending[f].chan, pending[f].incoming>> \in handshakes'
      BY <1>2, <1>8 DEF HandshakeEnds
    <2>2. FirstInv(f)' /\ (Stray(f)' => StrayFacts(f)')
      BY <1>1, <1>3, <1>4, <1>5, <1>7, <2>1, KeysKept
    <2> QED
      BY <1>6, <2>2, KeysFromParts
  <1>9. CASE h = <<f, pending[f].chan, pending[f].incoming>>
    <2>1. PICK k \in DOMAIN pcp_queue' : pcp_queue'[k] = Job(op, h[1], h[2])
      BY <1>2, <1>3, <1>4, PostedJobs
    <2>2. IsResult(pcp_queue[k], f)'
      BY <1>1, <1>3, <1>9, <2>1, JobFields DEF IsResult
    <2>3. Outstanding(f)'
      BY <2>2 DEF Outstanding
    <2>4. ResultsFirst(f) => ResultsFirst(f)'
      BY <1>1, <1>3, <1>4, ResultsStay
    <2>5. (Stray(f)' => Stray(f)) /\ (BeingRegistered(f)' <=> BeingRegistered(f))
      BY <1>1 DEF Stray, IsPending, Registered, BeingRegistered
    <2>6. Stray(f)' => StrayFacts(f)'
      BY <1>5, <1>7, <2>3, <2>4, <2>5 DEF StrayFacts
    <2>7. FirstInv(f)'
      BY <2>3 DEF FirstInv
    <2> QED
      BY <1>6, <2>6, <2>7, KeysFromParts
  <1> QED
    BY <1>8, <1>9

\* The peer answers: after the handshake of the channel it answers on, or the
\* channel is overtaken.
LEMMA ResponseKeys ==
  ASSUME TypeOK, ChannelAll, KeysAll, crashed = "no", overtaken \subseteq overtaken', NEW e \in Endpoints,
         NEW answer \in RemoteAnswers,
         ReadResponse(e, answer)
  PROVE  KeysAll'
  <1> SUFFICES ASSUME NEW f \in Endpoints PROVE KeysInv(f)'
    BY DEF KeysAll
  <1>1. /\ UNCHANGED <<proxyVars, pcp, pending, channel, context, handshakes>>
        /\ endpoints[e] \in open
        /\ overtaken' = overtaken \cup {h[2] : h \in {x \in handshakes : x[2] = endpoints[e]}}
        /\ pcp_queue' = Append(pcp_queue, Job(answer, e, endpoints[e]))
    BY DEF ReadResponse
  <1>2. /\ pcp_queue \in Seq(JobsOf(PcpOperations)) /\ Job(answer, e, endpoints[e]) \in JobsOf(PcpOperations)
        /\ endpoints[e] # None
    <2>1. Job(answer, e, endpoints[e]) \in JobsOf(PcpOperations)
      BY JobType DEF PcpOperations, TypeOK
    <2>2. pcp_queue \in Seq(JobsOf(PcpOperations)) /\ open \subseteq Channels
      BY DEF TypeOK
    <2> QED
      BY <1>1, <2>1, <2>2 DEF Channels, None
  <1>3. ContextInv(f) /\ FirstInv(f) /\ (Stray(f) => StrayFacts(f))
    BY KeysKnown
  <1>4. ContextInv(f)'
    BY <1>1, <1>3, ContextKept DEF IsConnectedToEndpoint, proxyVars
  <1>5. /\ BeingRegistered(f)' <=> BeingRegistered(f)
        /\ Handled(f)' <=> Handled(f)
        /\ Expects(f) => Expects(f)'
        /\ status'[f] = status[f]
        /\ Stray(f)' => Stray(f)
        /\ IsPending(f)' <=> IsPending(f)
        /\ Registered(f)' <=> Registered(f)
    BY <1>1 DEF BeingRegistered, Handled, Runs, Idle, Expects, proxyVars, Stray, IsPending, Registered
  <1>6. CASE f # e
    <2>1. ~IsAnswer(Job(answer, e, endpoints[e]), f)
      BY <1>6, JobFields DEF IsAnswer
    <2>2. FirstInv(f)' /\ (Stray(f)' => StrayFacts(f)')
      BY <1>1, <1>2, <1>3, <1>5, <2>1, KeysKept
    <2> QED
      BY <1>4, <2>2, KeysFromParts
  <1>7. CASE f = e
    <2>1. /\ \A i \in DOMAIN pcp_queue : i \in DOMAIN pcp_queue' /\ pcp_queue'[i] = pcp_queue[i]
          /\ DOMAIN pcp_queue = 1 .. Len(pcp_queue) /\ DOMAIN pcp_queue' = 1 .. Len(pcp_queue) + 1
          /\ Len(pcp_queue) \in Nat
      BY <1>1, <1>2, Posted
    <2>2. Outstanding(e) => Outstanding(e)'
      BY <1>1, <2>1, OutstandingKept
    <2>3. FirstInv(e)'
      BY <1>3, <1>5, <1>7, <2>2 DEF FirstInv
    <2>4. ASSUME Stray(e)', ~BeingRegistered(e)
          PROVE  ResultsFirst(e)'
      <3>0. Stray(e) /\ pending[e].chan \notin overtaken'
        BY <1>1, <2>4, <1>5, <1>7 DEF Stray
      <3>1. e \in Agreeing
        BY <2>4, <3>0 DEF Agreeing, Stray
      <3>2. endpoints[e] = pending[e].chan
        BY <1>2, <3>1 DEF ChannelAll, ChannelInv
      <3>3. <<e, pending[e].chan, pending[e].incoming>> \notin handshakes
        BY <1>1, <3>0, <3>2
      <3>4. PICK i \in DOMAIN pcp_queue : IsResult(pcp_queue[i], e)
        BY <1>3, <1>7, <3>0, <3>3 DEF StrayFacts, Outstanding
      <3>5. ASSUME NEW j \in DOMAIN pcp_queue', IsAnswer(pcp_queue'[j], e)
            PROVE  \E k \in DOMAIN pcp_queue' : k < j /\ IsResult(pcp_queue'[k], e)
        <4>1. CASE j \in DOMAIN pcp_queue
          <5>1. PICK k \in DOMAIN pcp_queue : k < j /\ IsResult(pcp_queue[k], e)
            BY <1>3, <1>7, <2>1, <2>4, <3>0, <3>5, <4>1 DEF StrayFacts, ResultsFirst
          <5> QED
            BY <2>1, <5>1
        <4>2. CASE j \notin DOMAIN pcp_queue
          <5>1. j = Len(pcp_queue) + 1 /\ i < j
            BY <2>1, <3>5, <4>2
          <5> QED
            BY <2>1, <3>4, <5>1
        <4> QED
          BY <4>1, <4>2
      <3> QED
        BY <1>1, <3>5 DEF ResultsFirst, IsResult, IsAnswer
    <2>5. Stray(e)' => StrayFacts(e)'
      BY <1>3, <1>5, <1>7, <2>2, <2>4 DEF StrayFacts
    <2> QED
      BY <1>4, <1>7, <2>3, <2>5, KeysFromParts
  <1> QED
    BY <1>6, <1>7

\* The PCP thread works on e: the other endpoints are left alone.
LEMMA HandlerElsewhere ==
  ASSUME TypeOK, RegistrationInv, KeysAll, crashed = "no", overtaken \subseteq overtaken', NEW e \in Endpoints, NEW f \in Endpoints, f # e,
         \/ RunRequest(e) \/ IncomingConnection(e) \/ \E goes_on \in BOOLEAN : IncomingTie(e, goes_on)
         \/ RunEncrypted(e) \/ RegisterProcessor(e) \/ RegistrationDone(e)
         \/ \E op \in {"incoming_failed", "outgoing_failed"} : RunEncryptionFailed(op, e)
         \/ \E answer \in LocalAnswers : RunRespond(answer, e)
         \/ \E answer \in RemoteAnswers : RunFrame(answer, e)
         \/ RecordAnswer(e) \/ RunEndpointDisconnect(e)
         \/ EvaluateConnectionResult(e) \/ DecideResult(e) \/ DeliverResult(e)
  PROVE  KeysInv(f)'
  <1>1. pcp = Idle \/ pcp.e = e
    BY DEF RunRequest, IncomingConnection, IncomingTie, RunEncrypted, RegisterProcessor, RegistrationDone,
       RunEncryptionFailed, RunRespond, RunFrame, RecordAnswer, RunEndpointDisconnect,
       EvaluateConnectionResult, DecideResult, DeliverResult, Takes
  <1>2. pcp' = Idle \/ pcp'.e = e
    <2>1. CASE \/ RunRequest(e) \/ IncomingConnection(e) \/ \E goes_on \in BOOLEAN : IncomingTie(e, goes_on)
               \/ RegistrationDone(e) \/ DeliverResult(e) \/ RunEndpointDisconnect(e)
               \/ \E op \in {"incoming_failed", "outgoing_failed"} : RunEncryptionFailed(op, e)
      BY <2>1 DEF RunRequest, IncomingConnection, IncomingTie, RegistrationDone, DeliverResult, RunEndpointDisconnect,
         RunEncryptionFailed, Takes, JobDone
    <2>2. CASE \/ RunEncrypted(e) \/ \E answer \in LocalAnswers : RunRespond(answer, e)
               \/ \E answer \in RemoteAnswers : RunFrame(answer, e)
      <3>1. Head(pcp_queue).e = e /\ pcp = Idle
        BY <2>2 DEF RunEncrypted, RunRespond, RunFrame, Takes
      <3>2. PICK at \in {"register_processor", "record"} : pcp' \in {Idle, Running(Head(pcp_queue), at)}
        BY <2>2, <3>1 DEF RunEncrypted, RunRespond, RunFrame
      <3> QED
        BY <3>1, <3>2 DEF Running
    <2>3. CASE RegisterProcessor(e) \/ RecordAnswer(e) \/ EvaluateConnectionResult(e) \/ DecideResult(e)
      <3>1. pcp.e = e /\ pcp # Idle
        BY <2>3, PcpShape DEF RegisterProcessor, RecordAnswer, EvaluateConnectionResult, DecideResult
      <3>2. PICK at \in PcpPlaces, c \in ChannelOrNone :
              pcp' \in {Idle, pcp, [pcp EXCEPT !.at = at], [pcp EXCEPT !.at = at, !.c = c]}
        <4>1. pending[e].chan \in ChannelOrNone
          BY DEF TypeOK
        <4>2. {"registering", "evaluate", "decide", "accept", "reject"} \subseteq PcpPlaces
          BY DEF PcpPlaces
        <4> QED
          BY <2>3, <4>1, <4>2 DEF RegisterProcessor, RecordAnswer, EvaluateConnectionResult, DecideResult, JobDone
      <3> QED
        BY <3>1, <3>2 DEF TypeOK, RunsOf
    <2> QED
      BY <2>1, <2>2, <2>3
  <1>3. /\ ~BeingRegistered(f) /\ pending'[f] = pending[f]
        /\ status'[f] = status[f] /\ (f \in connections' <=> f \in connections)
    BY HandlerPending, HandlerConnections
  <1>4. \/ pcp_queue' = pcp_queue
        \/ pcp_queue # <<>> /\ pcp_queue' = Tail(pcp_queue) /\ ~IsResult(Head(pcp_queue), f)
    <2>1. pcp_queue' = pcp_queue \/ \E op \in PcpOperations : Takes(op, e)
      BY DEF RunRequest, IncomingConnection, IncomingTie, RunEncrypted, RegisterProcessor, RegistrationDone,
         RunEncryptionFailed, RunRespond, RunFrame, RecordAnswer, RunEndpointDisconnect,
         EvaluateConnectionResult, DecideResult, DeliverResult, PcpOperations
    <2> QED
      BY <2>1 DEF Takes, IsResult
  <1>5. /\ channel'[f] = channel[f] /\ context'[f] = context[f]
        /\ handshakes \subseteq handshakes'
    <2>1. channel' = channel
      BY DEF RunRequest, IncomingConnection, IncomingTie, RunEncrypted, RegisterProcessor, RegistrationDone,
       RunEncryptionFailed, RunRespond, RunFrame, RecordAnswer, RunEndpointDisconnect,
       EvaluateConnectionResult, DecideResult, DeliverResult, managerVars
    <2>2. context' = context \/ DecideResult(e)
      BY DEF RunRequest, IncomingConnection, IncomingTie, RunEncrypted, RegisterProcessor, RegistrationDone,
       RunEncryptionFailed, RunRespond, RunFrame, RecordAnswer, RunEndpointDisconnect,
       EvaluateConnectionResult, DeliverResult, managerVars
    <2>3. context'[f] = context[f]
      BY <2>2 DEF DecideResult, TypeOK
    <2>4. handshakes \subseteq handshakes'
      BY DEF RunRequest, IncomingConnection, IncomingTie, RunEncrypted, RegisterProcessor, RegistrationDone,
       RunEncryptionFailed, RunRespond, RunFrame, RecordAnswer, RunEndpointDisconnect,
       EvaluateConnectionResult, DecideResult, DeliverResult, Attempt, wireVars
    <2> QED
      BY <2>1, <2>3, <2>4
  <1>6. ContextInv(f) /\ FirstInv(f) /\ (Stray(f) => StrayFacts(f))
    BY KeysKnown
  <1>7. /\ ~Handled(f)'
        /\ ~Expects(f)
        /\ ~(pcp.at = "accept" /\ pcp.e = f)'
    BY <1>1, <1>2 DEF Handled, Runs, Expects, Idle
  <1>8. ContextInv(f)'
    BY <1>3, <1>5, <1>6, <1>7, ContextKept DEF IsConnectedToEndpoint
  <1>9. FirstInv(f)' /\ (Stray(f)' => StrayFacts(f)')
    BY <1>3, <1>4, <1>5, <1>6, <1>7, KeysKept
  <1> QED
    BY <1>8, <1>9, KeysFromParts

\* New attempts, and attempts and connections that are given up.
LEMMA AttemptKeys ==
  ASSUME TypeOK, RegistrationInv, KeysAll, crashed = "no", overtaken \subseteq overtaken', NEW e \in Endpoints,
         \/ RunRequest(e) \/ IncomingConnection(e) \/ \E goes_on \in BOOLEAN : IncomingTie(e, goes_on)
         \/ \E op \in {"incoming_failed", "outgoing_failed"} : RunEncryptionFailed(op, e)
         \/ RunEndpointDisconnect(e)
  PROVE  KeysInv(e)'
  <1>1. /\ UNCHANGED <<pcp, channel, context>> /\ pcp = Idle
    BY DEF RunRequest, IncomingConnection, IncomingTie, RunEncryptionFailed, RunEndpointDisconnect, Takes, managerVars
  <1>2. UNCHANGED proxyVars \/ OnConnectionRejected(e)
    BY DEF RunRequest, IncomingConnection, IncomingTie, RunEncryptionFailed, RunEndpointDisconnect, ResultFailure
  <1>3. Shrinks /\ (status'[e] = status[e] \/ status'[e] = {})
    BY <1>2, ProxyShrinks, StatusShrinks DEF TypeOK
  <1>4. ContextInv(e) /\ FirstInv(e) /\ (Stray(e) => StrayFacts(e))
    BY KeysKnown
  <1>5. ContextInv(e)'
    BY <1>1, <1>3, <1>4, ContextShrinks
  <1>6. CASE crashed' # "no"
    BY <1>5, <1>6, KeysFromParts
  <1>7. CASE pending'[e] = NoPending
    <2>1. ~IsPending(e)'
      BY <1>7 DEF IsPending, NoPending
    <2> QED
      BY <1>5, <2>1, KeysFromParts DEF FirstInv, Stray
  <1>8. CASE \E incoming \in BOOLEAN : \E still_open : Attempt(e, incoming, still_open)
    <2>1. PICK incoming \in BOOLEAN :
            /\ pending' = [pending EXCEPT ![e] = [chan |-> attempts + 1, incoming |-> incoming, keys |-> None]]
            /\ handshakes' = handshakes \cup {<<e, attempts + 1, incoming>>}
      BY <1>8 DEF Attempt
    <2>2. pending'[e] = [chan |-> attempts + 1, incoming |-> incoming, keys |-> None]
      BY <2>1 DEF TypeOK
    <2>3. Outstanding(e)'
      BY <2>1, <2>2 DEF Outstanding
    <2>4. ~Registered(e)'
      BY <2>2 DEF Registered
    <2> QED
      BY <1>5, <2>3, <2>4, KeysFromParts DEF FirstInv, Stray
  <1>9. CASE /\ pending' = pending /\ handshakes' = handshakes
             /\ pcp_queue # <<>> /\ pcp_queue' = Tail(pcp_queue)
             /\ IsPending(e) => ~IsResult(Head(pcp_queue), e)
    <2>1. CASE ~IsPending(e)
      <3>1. ~IsPending(e)'
        BY <1>9, <2>1 DEF IsPending
      <3> QED
        BY <1>5, <3>1, KeysFromParts DEF FirstInv, Stray
    <2>2. CASE IsPending(e)
      <3>1. ~BeingRegistered(e) /\ ~Handled(e)' /\ ~Expects(e)
        BY <1>1 DEF BeingRegistered, Handled, Runs, Expects, Idle
      <3>2. status[e] \cap RemoteAnswers = {} => status'[e] \cap RemoteAnswers = {}
        BY <1>3
      <3>3. FirstInv(e)' /\ (Stray(e)' => StrayFacts(e)')
        BY <1>4, <1>9, <2>2, <3>1, <3>2, KeysKept
      <3> QED
        BY <1>5, <3>3, KeysFromParts
    <2> QED
      BY <2>1, <2>2
  <1>10. CASE RunRequest(e)
    <2>1. ~IsResult(Head(pcp_queue), e)
      BY <1>10 DEF RunRequest, Takes, IsResult
    <2> QED
      BY <1>8, <1>9, <1>10, <2>1 DEF RunRequest, Takes
  <1>11. CASE IncomingConnection(e)
    BY <1>8, <1>11 DEF IncomingConnection
  <1>12. ASSUME NEW goes_on \in BOOLEAN, IncomingTie(e, goes_on)
         PROVE  KeysInv(e)'
    <2>1. CASE Registered(e)
      BY <1>6, <1>12, <2>1 DEF IncomingTie
    <2>2. CASE ~Registered(e) /\ goes_on
      BY <1>8, <1>12, <2>2 DEF IncomingTie
    <2>3. CASE ~Registered(e) /\ ~goes_on
      BY <1>7, <1>12, <2>3 DEF IncomingTie, TypeOK
    <2> QED
      BY <2>1, <2>2, <2>3
  <1>13. ASSUME NEW op \in {"incoming_failed", "outgoing_failed"}, RunEncryptionFailed(op, e)
         PROVE  KeysInv(e)'
    <2>1. CASE IsPending(e) /\ Registered(e)
      BY <1>6, <1>13, <2>1 DEF RunEncryptionFailed
    <2>2. CASE ~(IsPending(e) /\ Registered(e)) /\ IsPending(e) /\ pending[e].incoming = (op = "incoming_failed")
      BY <1>7, <1>13, <2>2 DEF RunEncryptionFailed, TypeOK
    <2>3. CASE ~(IsPending(e) /\ Registered(e)) /\ ~(IsPending(e) /\ pending[e].incoming = (op = "incoming_failed"))
      <3>1. /\ pending' = pending /\ handshakes' = handshakes
            /\ pcp_queue # <<>> /\ pcp_queue' = Tail(pcp_queue) /\ Head(pcp_queue).op = op
        BY <1>13, <2>3 DEF RunEncryptionFailed, Takes
      <3>2. pending[e].incoming \in BOOLEAN
        BY DEF TypeOK
      <3>3. IsPending(e) => ~IsResult(Head(pcp_queue), e)
        BY <2>3, <3>1, <3>2 DEF IsResult
      <3> QED
        BY <1>9, <3>1, <3>3
    <2> QED
      BY <2>1, <2>2, <2>3
  <1>14. CASE RunEndpointDisconnect(e)
    BY <1>7, <1>14 DEF RunEndpointDisconnect, ResultFailure, TypeOK
  <1> QED
    BY <1>10, <1>11, <1>12, <1>13, <1>14

\* The handshake has succeeded, and the connection is registered.
LEMMA EncryptedKeys ==
  ASSUME TypeOK, P!Inv, RegistrationInv, EvaluationInv, KeysAll, crashed = "no", overtaken \subseteq overtaken', NEW e \in Endpoints,
         RunEncrypted(e) \/ RegisterProcessor(e) \/ RegistrationDone(e)
  PROVE  KeysInv(e)'
  <1>1. /\ UNCHANGED <<proxyVars, channel, context, handshakes>>
    BY DEF RunEncrypted, RegisterProcessor, RegistrationDone, wireVars, managerVars
  <1>2. ContextInv(e) /\ FirstInv(e) /\ (Stray(e) => StrayFacts(e))
    BY KeysKnown
  <1>3. CASE RunEncrypted(e)
    <2>1. /\ pcp = Idle /\ pcp_queue # <<>> /\ pcp_queue' = Tail(pcp_queue) /\ pending' = pending
          /\ Head(pcp_queue).op = "encrypted" /\ Head(pcp_queue).e = e
      BY <1>3 DEF RunEncrypted, Takes
    <2>2. pcp' \in {Idle, Running(Head(pcp_queue), "register_processor")}
      BY <1>3, <2>1 DEF RunEncrypted
    <2>3. pcp'.at # "accept"
      BY <2>2 DEF Idle, Running
    <2>4. ContextInv(e)'
      BY <1>1, <1>2, <2>3, ContextKept DEF IsConnectedToEndpoint, proxyVars
    <2>5. CASE IsPending(e) /\ Registered(e)
      <3>1. crashed' = "encrypted"
        BY <1>3, <2>5 DEF RunEncrypted
      <3> QED
        BY <2>4, <3>1, KeysFromParts
    <2>6. CASE ~IsPending(e)
      <3>1. ~IsPending(e)'
        BY <2>1, <2>6 DEF IsPending
      <3> QED
        BY <2>4, <3>1, KeysFromParts DEF FirstInv, Stray
    <2>7. CASE IsPending(e) /\ ~Registered(e)
      <3>1. pcp' = Running(Head(pcp_queue), "register_processor")
        BY <1>3, <2>7 DEF RunEncrypted
      <3>2. pcp'.at = "register_processor" /\ pcp'.e = e /\ pcp'.c = Head(pcp_queue).c
        BY <2>1, <3>1 DEF Running
      <3>3. ~Registered(e)'
        BY <2>1, <2>7 DEF Registered
      <3>4. CASE Head(pcp_queue).c = pending[e].chan
        <4>1. Expects(e)'
          BY <2>1, <3>2, <3>4 DEF Expects
        <4> QED
          BY <2>4, <3>3, <4>1, KeysFromParts DEF FirstInv, Stray
      <3>5. CASE Head(pcp_queue).c # pending[e].chan
        <4>1. Outstanding(e)
          BY <1>2, <2>1, <2>7 DEF FirstInv, Expects, Idle
        <4>2. ~IsResult(Head(pcp_queue), e)
          BY <3>5 DEF IsResult
        <4>3. Outstanding(e)'
          BY <1>1, <2>1, <4>1, <4>2, ResultsStay, OutstandingKept
        <4> QED
          BY <2>4, <3>3, <4>3, KeysFromParts DEF FirstInv, Stray
      <3> QED
        BY <3>4, <3>5
    <2> QED
      BY <2>5, <2>6, <2>7
  <1>4. CASE RegisterProcessor(e)
    <2>1. /\ pcp.at = "register_processor" /\ pcp.e = e /\ pcp # Idle /\ pcp_queue' = pcp_queue
          /\ pcp' = [pcp EXCEPT !.at = "registering"] /\ pending' = [pending EXCEPT ![e].keys = pcp.c]
      BY <1>4, PcpShape DEF RegisterProcessor
    <2>2. IsPending(e) /\ ~Registered(e) /\ pcp.c # None /\ pcp.op = "encrypted"
      BY <2>1 DEF RegistrationInv, EvaluationInv
    <2>3. pcp'.at = "registering" /\ pcp'.e = e /\ pcp'.op = "encrypted"
      BY <2>1, <2>2 DEF TypeOK, RunsOf
    <2>4. pending'[e].chan = pending[e].chan /\ pending'[e].incoming = pending[e].incoming /\ pending'[e].keys = pcp.c
      BY <2>1 DEF TypeOK
    <2>5. ContextInv(e)'
      BY <1>1, <1>2, <2>3, ContextKept DEF IsConnectedToEndpoint, proxyVars
    <2>6. FirstInv(e)'
      BY <2>2, <2>4 DEF FirstInv, Registered
    <2>7. ASSUME Stray(e)' PROVE StrayFacts(e)'
      <3>1. Outstanding(e)
        BY <1>2, <2>2, <2>4, <2>7 DEF Stray, FirstInv, Expects
      <3>2. Outstanding(e)'
        BY <1>1, <2>1, <2>4, <3>1 DEF Outstanding, IsResult
      <3>3. BeingRegistered(e)' /\ ~Handled(e)'
        BY <2>3 DEF BeingRegistered, Handled, RemoteAnswers
      <3>4. status'[e] = {}
        <4>1. e \in Handshaking
          BY <2>2 DEF Handshaking
        <4>2. status[e] = {}
          BY <4>1, ProxyInv DEF ProxyFacts
        <4> QED
          BY <1>1, <4>2 DEF proxyVars
      <3> QED
        BY <3>2, <3>3, <3>4 DEF StrayFacts
    <2> QED
      BY <2>5, <2>6, <2>7, KeysFromParts
  <1>5. CASE RegistrationDone(e)
    <2>1. pcp.at = "registered" /\ pcp' = Idle /\ pcp_queue' = pcp_queue /\ pending' = pending
      BY <1>5 DEF RegistrationDone
    <2>2. ~BeingRegistered(e) /\ ~Handled(e)' /\ ~Expects(e) /\ pcp'.at # "accept"
      BY <2>1 DEF BeingRegistered, Handled, Runs, Expects, Idle
    <2>3. ContextInv(e)'
      BY <1>1, <1>2, <2>2, ContextKept DEF IsConnectedToEndpoint, proxyVars
    <2>4. status'[e] = status[e]
      BY <1>1 DEF proxyVars
    <2>5. FirstInv(e)' /\ (Stray(e)' => StrayFacts(e)')
      BY <1>1, <1>2, <2>1, <2>2, <2>4, KeysKept
    <2> QED
      BY <2>3, <2>5, KeysFromParts
  <1> QED
    BY <1>3, <1>4, <1>5

\* The answers of the two sides, up to their being recorded.
LEMMA AnswerKeys ==
  ASSUME TypeOK, EvaluationInv, KeysAll, crashed = "no", overtaken \subseteq overtaken', NEW e \in Endpoints,
         \/ \E answer \in LocalAnswers : RunRespond(answer, e)
         \/ \E answer \in RemoteAnswers : RunFrame(answer, e)
         \/ RecordAnswer(e)
  PROVE  KeysInv(e)'
  <1>1. UNCHANGED <<channel, context, handshakes>>
    BY DEF RunRespond, RunFrame, RecordAnswer, wireVars, managerVars
  <1>2. ContextInv(e) /\ FirstInv(e) /\ (Stray(e) => StrayFacts(e))
    BY KeysKnown
  <1>3. ASSUME NEW answer \in LocalAnswers, RunRespond(answer, e)
        PROVE  KeysInv(e)'
    <2>1. /\ pcp = Idle /\ pcp_queue # <<>> /\ pcp_queue' = Tail(pcp_queue) /\ Head(pcp_queue).op = answer
      BY <1>3 DEF RunRespond, Takes
    <2>2. pcp' \in {Idle, Running(Head(pcp_queue), "record")}
      BY <1>3, <2>1 DEF RunRespond
    <2>3. pcp'.at # "accept" /\ pcp'.op \notin RemoteAnswers
      BY <2>1, <2>2 DEF Idle, Running, LocalAnswers, RemoteAnswers
    <2>4. Shrinks /\ (status'[e] = status[e] \/ status'[e] = {})
      <3>1. UNCHANGED proxyVars \/ OnConnectionRejected(e)
        BY <1>3 DEF RunRespond, ResultFailure
      <3> QED
        BY <3>1, ProxyShrinks, StatusShrinks DEF TypeOK
    <2>5. ContextInv(e)'
      BY <1>1, <1>2, <2>3, <2>4, ContextShrinks
    <2>6. pending' = pending \/ pending'[e] = NoPending
      BY <1>3 DEF RunRespond, ResultFailure, TypeOK
    <2>7. CASE pending'[e] = NoPending
      <3>1. ~IsPending(e)'
        BY <2>7 DEF IsPending, NoPending
      <3> QED
        BY <2>5, <3>1, KeysFromParts DEF FirstInv, Stray
    <2>8. CASE pending' = pending
      <3>1. ~IsResult(Head(pcp_queue), e)
        BY <2>1 DEF IsResult, LocalAnswers
      <3>2. ~BeingRegistered(e) /\ ~Expects(e) /\ ~Handled(e)'
        BY <2>1, <2>3 DEF BeingRegistered, Expects, Handled, Idle
      <3>3. status[e] \cap RemoteAnswers = {} => status'[e] \cap RemoteAnswers = {}
        BY <2>4
      <3>4. FirstInv(e)' /\ (Stray(e)' => StrayFacts(e)')
        BY <1>1, <1>2, <2>1, <2>8, <3>1, <3>2, <3>3, KeysKept
      <3> QED
        BY <2>5, <3>4, KeysFromParts
    <2> QED
      BY <2>6, <2>7, <2>8
  <1>4. ASSUME NEW answer \in RemoteAnswers, RunFrame(answer, e)
        PROVE  KeysInv(e)'
    <2>1. /\ pcp = Idle /\ pcp_queue # <<>> /\ pcp_queue' = Tail(pcp_queue) /\ pending' = pending
          /\ Head(pcp_queue).op = answer /\ Head(pcp_queue).e = e /\ UNCHANGED proxyVars
      BY <1>4 DEF RunFrame, Takes
    <2>2. pcp' \in {Idle, Running(Head(pcp_queue), "record")}
      BY <1>4 DEF RunFrame
    <2>3. pcp'.at # "accept"
      BY <2>2 DEF Idle, Running
    <2>4. ContextInv(e)'
      BY <1>1, <1>2, <2>1, <2>3, ContextKept DEF IsConnectedToEndpoint, proxyVars
    <2>5. ~BeingRegistered(e) /\ ~Expects(e)
      BY <2>1 DEF BeingRegistered, Expects, Idle
    <2>6. ~Stray(e)
      <3> SUFFICES ASSUME Stray(e) PROVE FALSE
        OBVIOUS
      <3>1. ResultsFirst(e)
        BY <1>2, <2>5 DEF StrayFacts
      <3>2. 1 \in DOMAIN pcp_queue /\ pcp_queue[1] = Head(pcp_queue) /\ DOMAIN pcp_queue = 1 .. Len(pcp_queue)
            /\ Len(pcp_queue) \in Nat
        BY <2>1, Taken DEF TypeOK
      <3>3. IsAnswer(pcp_queue[1], e)
        BY <2>1, <3>2 DEF IsAnswer
      <3>4. PICK i \in DOMAIN pcp_queue : i < 1
        BY <3>1, <3>2, <3>3 DEF ResultsFirst
      <3> QED
        BY <3>2, <3>4
    <2>7. ~IsResult(Head(pcp_queue), e)
      BY <2>1 DEF IsResult, RemoteAnswers
    <2>8. FirstInv(e)' /\ (Stray(e)' => StrayFacts(e)')
      BY <1>1, <1>2, <2>1, <2>5, <2>6, <2>7, KeysKept
    <2> QED
      BY <2>4, <2>8, KeysFromParts
  <1>5. CASE RecordAnswer(e)
    <2>1. /\ pcp.at = "record" /\ pcp.e = e /\ pcp # Idle /\ pcp_queue' = pcp_queue /\ pending' = pending
          /\ pcp' = [pcp EXCEPT !.at = "evaluate"]
      BY <1>5, PcpShape DEF RecordAnswer
    <2>2. pcp'.at = "evaluate" /\ pcp'.op = pcp.op /\ pcp'.e = e
      BY <2>1 DEF TypeOK, RunsOf
    <2>3. pcp.op \in LocalAnswers \cup RemoteAnswers
      BY <2>1 DEF EvaluationInv
    <2>4. connections' = connections /\ status'[e] \in {status[e], status[e] \cup {pcp.op}}
      BY <1>5 DEF RecordAnswer, EndpointResponded, TypeOK, ProxyTypeOK
    <2>5. IsConnectedToEndpoint(e)' => IsConnectedToEndpoint(e)
      <3>1. pcp.op # "connected"
        BY <2>3 DEF LocalAnswers, RemoteAnswers
      <3> QED
        BY <2>4, <3>1 DEF IsConnectedToEndpoint, kConnected
    <2>6. ContextInv(e)'
      BY <1>1, <1>2, <2>2, <2>5, ContextKept
    <2>7. ~BeingRegistered(e) /\ ~Expects(e) /\ (Handled(e)' => Handled(e))
      BY <2>1, <2>2 DEF BeingRegistered, Expects, Handled, Runs
    <2>8. Stray(e) /\ status[e] \cap RemoteAnswers = {} => status'[e] \cap RemoteAnswers = {}
      <3>1. Stray(e) => pcp.op \notin RemoteAnswers
        BY <1>2, <2>1 DEF StrayFacts, Handled, Runs
      <3> QED
        BY <2>4, <3>1
    <2>9. FirstInv(e)' /\ (Stray(e)' => StrayFacts(e)')
      BY <1>1, <1>2, <2>1, <2>7, <2>8, KeysKept
    <2> QED
      BY <2>6, <2>9, KeysFromParts
  <1> QED
    BY <1>3, <1>4, <1>5

\* The connection is evaluated: its channel is encrypted with its own keys.
LEMMA ResultKeys ==
  ASSUME TypeOK, P!Inv, EvaluationInv, ChannelAll, KeysAll, crashed = "no", overtaken \subseteq overtaken', NEW e \in Endpoints,
         EvaluateConnectionResult(e) \/ DecideResult(e) \/ DeliverResult(e)
  PROVE  KeysInv(e)'
  <1>1. /\ UNCHANGED <<channel, handshakes, pcp_queue>> /\ pcp.e = e /\ pcp # Idle
        /\ pcp.at \in {"evaluate", "decide", "accept", "reject"}
    BY PcpShape DEF EvaluateConnectionResult, DecideResult, DeliverResult, wireVars
  <1>2. ContextInv(e) /\ FirstInv(e) /\ (Stray(e) => StrayFacts(e))
    BY KeysKnown
  <1>3. ~BeingRegistered(e) /\ ~Expects(e)
    BY <1>1 DEF BeingRegistered, Expects
  <1>4. CASE EvaluateConnectionResult(e)
    <2>1. UNCHANGED <<proxyVars, pending, context>> /\ pcp' \in {Idle, [pcp EXCEPT !.at = "decide"]}
      BY <1>4 DEF EvaluateConnectionResult, JobDone
    <2>2. pcp'.at # "accept" /\ (Handled(e)' => Handled(e))
      <3>1. CASE pcp' = Idle
        BY <3>1 DEF Handled, Runs, Idle
      <3>2. CASE pcp' = [pcp EXCEPT !.at = "decide"]
        <4>1. pcp'.at = "decide" /\ pcp'.op = pcp.op
          BY <1>1, <3>2 DEF TypeOK, RunsOf
        <4> QED
          BY <1>1, <4>1 DEF Handled, Runs
      <3> QED
        BY <2>1, <3>1, <3>2
    <2>3. ContextInv(e)'
      BY <1>1, <1>2, <2>1, <2>2, ContextKept DEF IsConnectedToEndpoint, proxyVars
    <2>4. status'[e] = status[e]
      BY <2>1 DEF proxyVars
    <2>5. FirstInv(e)' /\ (Stray(e)' => StrayFacts(e)')
      BY <1>1, <1>2, <1>3, <2>1, <2>2, <2>4, KeysKept
    <2> QED
      BY <2>3, <2>5, KeysFromParts
  <1>5. CASE DecideResult(e)
    <2>1. pcp.at = "decide" /\ UNCHANGED proxyVars
      BY <1>5 DEF DecideResult
    <2>2. IsPending(e) /\ Registered(e)
      BY <1>1, <2>1 DEF EvaluationInv
    <2>3. e \in Agreeing
      BY <1>3, <2>2 DEF Agreeing
    <2>4. ~IsConnectedToEndpoint(e)'
      <3>1. ~IsConnectedToEndpoint(e)
        BY <2>3, ProxyInv DEF ProxyFacts
      <3> QED
        BY <2>1, <3>1 DEF IsConnectedToEndpoint, proxyVars
    <2>5. CASE IsConnectionAccepted(e) /\ channel[e] = None
      <3>1. crashed' = "evaluate" /\ UNCHANGED <<context, pcp>>
        BY <1>5, <2>5 DEF DecideResult
      <3>2. ContextInv(e)'
        BY <1>1, <1>2, <2>4, <3>1, ContextKept
      <3> QED
        BY <3>1, <3>2, KeysFromParts
    <2>6. CASE ~(IsConnectionAccepted(e) /\ channel[e] = None)
      <3>1. /\ pending' = [pending EXCEPT ![e] = NoPending]
            /\ context' = IF IsConnectionAccepted(e) THEN [context EXCEPT ![e] = pending[e].keys] ELSE context
            /\ pcp' = [pcp EXCEPT !.at = IF IsConnectionAccepted(e) THEN "accept" ELSE "reject",
                                  !.c = pending[e].chan]
        BY <1>5, <2>6 DEF DecideResult
      <3>2. ~IsPending(e)'
        BY <3>1 DEF IsPending, TypeOK
      <3>3. ContextInv(e)'
        <4>1. CASE IsConnectionAccepted(e)
          <5>1. ~Stray(e)
            BY <1>2, <4>1 DEF StrayFacts, IsConnectionAccepted, StatusesContain, RemoteAnswers
          <5>2. pending[e].keys = pending[e].chan \/ pending[e].chan \in overtaken'
            BY <2>2, <5>1 DEF Stray
          <5>3. channel[e] # None => channel[e] = pending[e].chan
            BY <2>3 DEF ChannelAll, ChannelInv
          <5>4. context'[e] = pending[e].keys
            BY <3>1, <4>1 DEF TypeOK
          <5> QED
            BY <1>1, <5>2, <5>3, <5>4 DEF ContextInv
        <4>2. CASE ~IsConnectionAccepted(e)
          <5>1. pcp'.at = "reject"
            BY <1>1, <3>1, <4>2 DEF TypeOK, RunsOf
          <5> QED
            BY <2>4, <5>1 DEF ContextInv
        <4> QED
          BY <4>1, <4>2
      <3> QED
        BY <3>2, <3>3, KeysFromParts DEF FirstInv, Stray
    <2> QED
      BY <2>5, <2>6
  <1>6. CASE DeliverResult(e)
    <2>1. UNCHANGED <<pending, context>> /\ pcp' = Idle /\ pcp.at \in {"accept", "reject"}
      BY <1>6 DEF DeliverResult, JobDone
    <2>2. pcp'.at # "accept" /\ ~Handled(e)'
      BY <2>1 DEF Handled, Runs, Idle
    <2>3. CASE pcp.at = "accept"
      <3>1. ContextInv(e)'
        BY <1>1, <1>2, <2>1, <2>3 DEF ContextInv
      <3>2. status'[e] = status[e] \/ status'[e] = {"connected"}
        BY <1>6, <2>3 DEF DeliverResult, OnConnectionAccepted, TypeOK, ProxyTypeOK, kConnected, proxyVars
      <3>3. status[e] \cap RemoteAnswers = {} => status'[e] \cap RemoteAnswers = {}
        BY <3>2 DEF RemoteAnswers
      <3>4. FirstInv(e)' /\ (Stray(e)' => StrayFacts(e)')
        BY <1>1, <1>2, <1>3, <2>1, <2>2, <3>3, KeysKept
      <3> QED
        BY <3>1, <3>4, KeysFromParts
    <2>4. CASE pcp.at = "reject"
      <3>1. OnConnectionRejected(e)
        BY <1>6, <2>4 DEF DeliverResult
      <3>2. Shrinks /\ (status'[e] = status[e] \/ status'[e] = {})
        BY <3>1, ProxyShrinks, StatusShrinks DEF TypeOK
      <3>3. ContextInv(e)'
        BY <1>1, <1>2, <2>1, <2>2, <3>2, ContextShrinks
      <3>4. status[e] \cap RemoteAnswers = {} => status'[e] \cap RemoteAnswers = {}
        BY <3>2
      <3>5. FirstInv(e)' /\ (Stray(e)' => StrayFacts(e)')
        BY <1>1, <1>2, <1>3, <2>1, <2>2, <3>4, KeysKept
      <3> QED
        BY <3>3, <3>5, KeysFromParts
    <2> QED
      BY <2>1, <2>3, <2>4
  <1> QED
    BY <1>4, <1>5, <1>6

\* The manager thread.
LEMMA ManagerKeys ==
  ASSUME TypeOK, P!Inv, RegistrationInv, EvaluationInv, ReaderAll, KeysAll, crashed = "no", overtaken \subseteq overtaken', NEW e \in Endpoints,
         \/ TakeRegister(e) \/ RegisterEndpoint(e) \/ TakeRemove(e) \/ RemoveChannel(e)
         \/ NotifyProcessors(e) \/ BarrierOpens(e) \/ Disconnect(e) \/ RemoveEndpointState(e)
  PROVE  KeysAll'
  <1> SUFFICES ASSUME NEW f \in Endpoints PROVE KeysInv(f)'
    BY DEF KeysAll
  <1>1. UNCHANGED <<pending, handshakes>>
    BY DEF TakeRegister, RegisterEndpoint, TakeRemove, RemoveChannel, NotifyProcessors, BarrierOpens,
       Disconnect, RemoveEndpointState, wireVars, handlerVars
  <1>2. ContextInv(f) /\ FirstInv(f) /\ (Stray(f) => StrayFacts(f))
    BY KeysKnown
  <1>3. \/ pcp_queue' = pcp_queue
        \/ \E j \in JobsOf(PcpOperations) : pcp_queue' = Append(pcp_queue, j) /\ ~IsAnswer(j, f)
    <2>1. CASE NotifyProcessors(e)
      <3>1. Job("disconnect", e, em.c) \in JobsOf(PcpOperations)
        BY JobType, EmShape DEF PcpOperations
      <3>2. ~IsAnswer(Job("disconnect", e, em.c), f)
        BY JobFields DEF IsAnswer, RemoteAnswers
      <3> QED
        BY <2>1, <3>1, <3>2 DEF NotifyProcessors
    <2> QED
      BY <2>1 DEF TakeRegister, RegisterEndpoint, TakeRemove, RemoveChannel, BarrierOpens,
         Disconnect, RemoveEndpointState, handlerVars
  <1>4. CASE ~RegisterEndpoint(e)
    <2>1. pcp' = pcp
      BY <1>4 DEF TakeRegister, TakeRemove, RemoveChannel, NotifyProcessors, BarrierOpens,
         Disconnect, RemoveEndpointState, handlerVars
    <2>2. Shrinks /\ (status'[f] = status[f] \/ status'[f] = {})
      <3>1. em.notify \in BOOLEAN
        BY EmShape
      <3>2. UNCHANGED proxyVars \/ \E n \in BOOLEAN : OnDisconnected(e, n)
        BY <1>4, <3>1 DEF TakeRegister, TakeRemove, RemoveChannel, NotifyProcessors, BarrierOpens,
           Disconnect, RemoveEndpointState
      <3> QED
        BY <3>2, ProxyShrinks, StatusShrinks DEF TypeOK
    <2>3. (channel'[f] = channel[f] /\ context'[f] = context[f]) \/ channel'[f] = None
      <3>1. UNCHANGED <<channel, context>> \/ UnregisterChannel(e)
        BY <1>4 DEF TakeRegister, TakeRemove, RemoveChannel, NotifyProcessors, BarrierOpens,
           Disconnect, RemoveEndpointState
      <3> QED
        BY <3>1 DEF UnregisterChannel, TypeOK
    <2>4. ContextInv(f)'
      <3>1. CASE channel'[f] = None
        BY <3>1 DEF ContextInv
      <3> QED
        BY <1>2, <2>1, <2>2, <2>3, <3>1, ContextShrinks
    <2>5. /\ BeingRegistered(f) => BeingRegistered(f)'
          /\ Handled(f)' => Handled(f)
          /\ Expects(f) => Expects(f)'
      BY <1>1, <2>1 DEF BeingRegistered, Handled, Runs, Idle, Expects
    <2>6. status[f] \cap RemoteAnswers = {} => status'[f] \cap RemoteAnswers = {}
      BY <2>2
    <2>7. FirstInv(f)' /\ (Stray(f)' => StrayFacts(f)')
      BY <1>1, <1>2, <1>3, <2>5, <2>6, KeysKept
    <2> QED
      BY <2>4, <2>7, KeysFromParts
  <1>5. CASE RegisterEndpoint(e)
    <2>1. /\ em.at = "register" /\ em.e = e /\ WorkersDone(e) /\ UNCHANGED <<context, pcp_queue>>
          /\ channel' = [channel EXCEPT ![e] = em.c] /\ pcp' = [pcp EXCEPT !.at = "registered"]
          /\ OnConnectionInitiated(e, pending[e].incoming)
      BY <1>5 DEF RegisterEndpoint
    <2>2. BeingRegistered(e) /\ pcp.at = "registering" /\ pcp.e = e /\ pcp # Idle /\ pcp.op = "encrypted"
          /\ IsPending(e) /\ Registered(e)
      BY <2>1, PcpShape DEF RegistrationInv, BeingRegistered, EvaluationInv
    <2>3. pcp'.at = "registered" /\ pcp'.op = "encrypted"
      BY <2>1, <2>2 DEF TypeOK, RunsOf
    <2>4. ~Handled(f)' /\ ~Expects(f)
      BY <2>2, <2>3 DEF Handled, Expects, RemoteAnswers
    <2>5. e \notin connections
      <3>1. e \in Handshaking
        BY <2>2 DEF Handshaking
      <3> QED
        BY <3>1, ProxyInv DEF ProxyFacts
    <2>6. CASE f # e
      <3>1. /\ status'[f] = status[f] /\ (f \in connections' <=> f \in connections) /\ channel'[f] = channel[f]
        BY <2>1, <2>5, <2>6 DEF OnConnectionInitiated, TypeOK, ProxyTypeOK
      <3>2. ContextInv(f)'
        BY <1>2, <2>1, <2>3, <3>1, ContextKept DEF IsConnectedToEndpoint
      <3>3. ~BeingRegistered(f)
        BY <2>2, <2>6 DEF BeingRegistered
      <3>4. FirstInv(f)' /\ (Stray(f)' => StrayFacts(f)')
        BY <1>1, <1>2, <2>1, <2>4, <3>1, <3>3, KeysKept
      <3> QED
        BY <3>2, <3>4, KeysFromParts
    <2>7. CASE f = e
      <3>1. status'[e] = {}
        BY <2>1, <2>5 DEF OnConnectionInitiated, TypeOK, ProxyTypeOK, kPending
      <3>2. ContextInv(e)'
        BY <2>3, <3>1 DEF ContextInv, IsConnectedToEndpoint, kConnected
      <3>3. FirstInv(e)'
        BY <1>1, <2>2 DEF FirstInv, Registered
      <3>4. NoAnswer(e)
        <4>1. ReaderHands(e)
          BY ReaderParts DEF ReaderAll
        <4> QED
          BY <2>1, <4>1 DEF ReaderHands, WorkersDone
      <3>5. ResultsFirst(e)'
        BY <2>1, <3>4 DEF ResultsFirst, NoAnswer
      <3>6. Stray(e)' => Outstanding(e)'
        <4>1. Stray(e)' => Stray(e)
          BY <1>1 DEF Stray, IsPending, Registered
        <4> QED
          BY <1>1, <1>2, <2>1, <2>7, <4>1, OutstandingKept DEF StrayFacts
      <3>7. Stray(e)' => StrayFacts(e)'
        BY <2>4, <2>7, <3>1, <3>5, <3>6 DEF StrayFacts
      <3> QED
        BY <2>7, <3>2, <3>3, <3>7, KeysFromParts
    <2> QED
      BY <2>6, <2>7
  <1> QED
    BY <1>4, <1>5

\* What has been overtaken stays so.
LEMMA StepOvertaken ==
  ASSUME Next
  PROVE  overtaken \subseteq overtaken'
  <1>1. CASE PcpStep
    BY <1>1 DEF PcpStep, RunRequest, RunEncrypted, RegisterProcessor, RegistrationDone, RunEncryptionFailed, RunRespond,
       RunFrame, RecordAnswer, EvaluateConnectionResult, DecideResult, DeliverResult, RunEndpointDisconnect, wireVars
  <1>2. CASE ManagerStep
    BY <1>2 DEF ManagerStep, TakeRegister, RegisterEndpoint, TakeRemove, RemoveChannel, NotifyProcessors, BarrierOpens,
       Disconnect, RemoveEndpointState, wireVars
  <1>3. CASE RouterStep \/ HandshakeStep \/ AlarmStep \/ \E e \in Endpoints : ReaderStep(e) \/ KeepAliveStep(e)
    BY <1>3 DEF RouterStep, RequestRefused, StopNext, StopPhase, HandshakeStep, HandshakeEnds, AlarmStep, AlarmFires,
       ReaderStep, ReaderExits, KeepAliveStep, KeepAliveExits, wireVars
  <1>4. CASE Environment
    BY <1>4 DEF Environment, CallRequestConnection, CallRespond, CallDisconnect, IncomingConnection, IncomingTie,
       ReadResponse, KeepAliveExits, CallStopAll, ChannelBreaks, wireVars
  <1> QED
    BY <1>1, <1>2, <1>3, <1>4 DEF Next

\* Every step keeps the keys' invariant.
LEMMA StepKeys ==
  ASSUME TypeOK, P!Inv, RegistrationInv, EvaluationInv, ChannelAll, ReaderAll, KeysAll, Next
  PROVE  KeysAll'
  <1>0. overtaken \subseteq overtaken'
    BY StepOvertaken
  <1>1. crashed = "no"
    BY DEF Next, PcpStep, ManagerStep, RouterStep, HandshakeStep, AlarmStep, ReaderStep, KeepAliveStep, Environment
  <1>2. ASSUME NEW e \in Endpoints,
               \/ RunRequest(e) \/ IncomingConnection(e) \/ \E goes_on \in BOOLEAN : IncomingTie(e, goes_on)
               \/ RunEncrypted(e) \/ RegisterProcessor(e) \/ RegistrationDone(e)
               \/ \E op \in {"incoming_failed", "outgoing_failed"} : RunEncryptionFailed(op, e)
               \/ \E answer \in LocalAnswers : RunRespond(answer, e)
               \/ \E answer \in RemoteAnswers : RunFrame(answer, e)
               \/ RecordAnswer(e) \/ RunEndpointDisconnect(e)
               \/ EvaluateConnectionResult(e) \/ DecideResult(e) \/ DeliverResult(e)
        PROVE  KeysAll'
    <2>1. KeysInv(e)'
      BY <1>0, <1>1, <1>2, AttemptKeys, EncryptedKeys, AnswerKeys, ResultKeys
    <2>2. \A f \in Endpoints : f # e => KeysInv(f)'
      BY <1>0, <1>1, <1>2, HandlerElsewhere
    <2> QED
      BY <2>1, <2>2 DEF KeysAll
  <1>3. CASE PcpStep
    BY <1>2, <1>3 DEF PcpStep
  <1>4. CASE ManagerStep
    BY <1>0, <1>1, <1>4, ManagerKeys DEF ManagerStep
  <1>5. CASE RouterStep \/ HandshakeStep \/ AlarmStep \/ \E e \in Endpoints : ReaderStep(e) \/ KeepAliveStep(e)
    BY <1>0, <1>1, <1>5, QuietKeys, HandshakeKeys DEF RouterStep, HandshakeStep, AlarmStep, ReaderStep, KeepAliveStep
  <1>6. CASE Environment
    BY <1>0, <1>1, <1>2, <1>6, QuietKeys, ResponseKeys DEF Environment
  <1> QED
    BY <1>3, <1>4, <1>5, <1>6 DEF Next

----------------------------------------------------------------------------
(* The router *)

\* What the router has to do with the PCP thread.
PcpRouter ==
  /\ \A i, j \in DOMAIN pcp_queue :
       pcp_queue[i].op \in CallJobs /\ pcp_queue[j].op \in CallJobs => i = j
  /\ \A i \in DOMAIN pcp_queue :
       /\ pcp_queue[i].op \in LocalAnswers =>
            router = [at |-> "answering", todo |-> {pcp_queue[i].e}]
       /\ pcp_queue[i].op = "request" =>
            /\ router = [at |-> "requesting", todo |-> {pcp_queue[i].e}]
            /\ \A e \in Endpoints : ~Dialing(e)
            /\ status[pcp_queue[i].e] \cap (LocalAnswers \cup {"connected"}) = {}
  /\ pcp.op \in LocalAnswers =>
       /\ router = [at |-> "answering", todo |-> {pcp.e}]
       /\ \A i \in DOMAIN pcp_queue : pcp_queue[i].op \notin CallJobs
  /\ \A e \in Endpoints : Dialing(e) => router = [at |-> "requesting", todo |-> {e}]
  /\ router.at = "requesting" =>
       \E e \in Endpoints : Queued({"request"}, e) \/ Dialing(e)
  /\ router.at = "answering" =>
       \E e \in Endpoints : Queued(LocalAnswers, e) \/ (Runs(e) /\ pcp.op \in LocalAnswers)

\* ... and with the manager thread.
EmRouter ==
  /\ \A i, j \in Unregisters : i = j
  /\ Unregisters # {} \/ em.op = "unregister" =>
       router.at \in {"disconnecting", "stop_pending", "stop_connected"}
  /\ Unregisters # {} => em.op # "unregister"
  /\ router.at = "disconnecting" =>
       /\ Unregisters # {} \/ em.op = "unregister"
       /\ \A i \in Unregisters : router.todo = {em_queue[i].e}
       /\ em.op = "unregister" => router.todo = {em.e}

\* RouterInv in two parts, of the PCP thread's queue and of the manager's,
LEMMA RouterParts ==
  RouterInv <=> PcpRouter /\ EmRouter
  BY DEF RouterInv, PcpRouter, EmRouter

\* after a step too.
LEMMA RouterFromParts ==
  ASSUME PcpRouter', EmRouter'
  PROVE  RouterInv'
  BY DEF RouterInv, PcpRouter, EmRouter

\* No call of the client is under way on the PCP thread.
NoCalls ==
  /\ \A i \in DOMAIN pcp_queue : pcp_queue[i].op \notin CallJobs
  /\ \A e \in Endpoints : ~Dialing(e)
  /\ pcp.op \notin LocalAnswers

\* A router that waits for neither thread has no calls with the PCP thread,
LEMMA RouterFree ==
  ASSUME TypeOK, PcpRouter, router.at \notin {"requesting", "answering"}
  PROVE  NoCalls
  <1>1. \A e : [at |-> "requesting", todo |-> {e}].at = "requesting" /\ [at |-> "answering", todo |-> {e}].at = "answering"
    OBVIOUS
  <1> QED
    BY <1>1 DEF PcpRouter, NoCalls, CallJobs

\* and the other way round.
LEMMA RouterFreed ==
  ASSUME NoCalls', router'.at \notin {"requesting", "answering"}
  PROVE  PcpRouter'
  BY DEF PcpRouter, NoCalls, CallJobs

\* The router waits for a request of e that has been started.
LEMMA RouterDials ==
  ASSUME PcpRouter, NEW e \in Endpoints, Dialing(e)
  PROVE  /\ router = [at |-> "requesting", todo |-> {e}]
         /\ \A i \in DOMAIN pcp_queue : pcp_queue[i].op \notin CallJobs
         /\ \A f \in Endpoints : f # e => ~Dialing(f)
         /\ pcp.op \notin LocalAnswers
  <1>1. router = [at |-> "requesting", todo |-> {e}]
    BY DEF PcpRouter
  <1>2. \A f : router # [at |-> "answering", todo |-> {f}]
    BY <1>1
  <1>3. ASSUME NEW f \in Endpoints, Dialing(f) PROVE f = e
    <2>1. router = [at |-> "requesting", todo |-> {f}]
      BY <1>3 DEF PcpRouter
    <2>2. router.todo = {f} /\ router.todo = {e}
      BY <1>1, <2>1
    <2> QED
      BY <2>2
  <1> QED
    BY <1>1, <1>2, <1>3 DEF PcpRouter, CallJobs

\* The router waits for an answer of the client that is being handled.
LEMMA RouterAnswers ==
  ASSUME PcpRouter, pcp.op \in LocalAnswers
  PROVE  /\ router = [at |-> "answering", todo |-> {pcp.e}]
         /\ \A i \in DOMAIN pcp_queue : pcp_queue[i].op \notin CallJobs
         /\ \A f \in Endpoints : ~Dialing(f)
  <1>1. router = [at |-> "answering", todo |-> {pcp.e}]
    BY DEF PcpRouter
  <1>2. \A f : router # [at |-> "requesting", todo |-> {f}]
    BY <1>1
  <1> QED
    BY <1>1, <1>2 DEF PcpRouter

\* The jobs of the client's calls in the queue are not touched.
CallsWait ==
  \/ pcp_queue' = pcp_queue
  \/ \E j \in JobsOf(PcpOperations) : pcp_queue' = Append(pcp_queue, j) /\ j.op \notin CallJobs
  \/ pcp_queue # <<>> /\ pcp_queue' = Tail(pcp_queue) /\ Head(pcp_queue).op \notin CallJobs

\* A step that posts or takes no call leaves the calls.
LEMMA CallsStay ==
  ASSUME TypeOK, CallsWait
  PROVE  /\ \A i \in DOMAIN pcp_queue' : pcp_queue'[i].op \in CallJobs =>
              \E k \in DOMAIN pcp_queue : pcp_queue[k] = pcp_queue'[i]
         /\ \A i \in DOMAIN pcp_queue : pcp_queue[i].op \in CallJobs =>
              \E k \in DOMAIN pcp_queue' : pcp_queue'[k] = pcp_queue[i]
         /\ (\A i, j \in DOMAIN pcp_queue : pcp_queue[i].op \in CallJobs /\ pcp_queue[j].op \in CallJobs => i = j)
              => (\A i, j \in DOMAIN pcp_queue' : pcp_queue'[i].op \in CallJobs /\ pcp_queue'[j].op \in CallJobs => i = j)
  <1>1. pcp_queue \in Seq(JobsOf(PcpOperations))
    BY DEF TypeOK
  <1>2. CASE pcp_queue' = pcp_queue
    BY <1>2
  <1>3. ASSUME NEW j \in JobsOf(PcpOperations), pcp_queue' = Append(pcp_queue, j), j.op \notin CallJobs
        PROVE  /\ \A i \in DOMAIN pcp_queue : i \in DOMAIN pcp_queue' /\ pcp_queue'[i] = pcp_queue[i]
               /\ \A i \in DOMAIN pcp_queue' : pcp_queue'[i].op \in CallJobs => i \in DOMAIN pcp_queue /\ pcp_queue'[i] = pcp_queue[i]
    BY <1>1, <1>3, PostedJobs
  <1>4. ASSUME pcp_queue # <<>>, pcp_queue' = Tail(pcp_queue), Head(pcp_queue).op \notin CallJobs
        PROVE  /\ \A i \in DOMAIN pcp_queue' : i + 1 \in DOMAIN pcp_queue /\ pcp_queue'[i] = pcp_queue[i + 1]
               /\ \A i \in DOMAIN pcp_queue : pcp_queue[i].op \in CallJobs =>
                    i - 1 \in DOMAIN pcp_queue' /\ pcp_queue'[i - 1] = pcp_queue[i]
               /\ DOMAIN pcp_queue' \subseteq Nat
    <2>1. /\ \A i \in DOMAIN pcp_queue' : i + 1 \in DOMAIN pcp_queue /\ pcp_queue'[i] = pcp_queue[i + 1]
          /\ \A i \in DOMAIN pcp_queue : pcp_queue[i] = Head(pcp_queue)
               \/ (i - 1 \in DOMAIN pcp_queue' /\ pcp_queue'[i - 1] = pcp_queue[i])
      BY <1>1, <1>4, TakenJobs
    <2>2. DOMAIN pcp_queue' \subseteq Nat
      BY <1>1, <1>4, Taken
    <2> QED
      BY <1>4, <2>1, <2>2
  <1>5. CASE \E j \in JobsOf(PcpOperations) : pcp_queue' = Append(pcp_queue, j) /\ j.op \notin CallJobs
    BY <1>3, <1>5
  <1>6. CASE pcp_queue # <<>> /\ pcp_queue' = Tail(pcp_queue) /\ Head(pcp_queue).op \notin CallJobs
    <2>1. ASSUME \A i, j \in DOMAIN pcp_queue : pcp_queue[i].op \in CallJobs /\ pcp_queue[j].op \in CallJobs => i = j,
                 NEW i \in DOMAIN pcp_queue', NEW j \in DOMAIN pcp_queue',
                 pcp_queue'[i].op \in CallJobs, pcp_queue'[j].op \in CallJobs
          PROVE  i = j
      <3>1. i + 1 = j + 1
        BY <1>4, <1>6, <2>1
      <3> QED
        BY <1>4, <1>6, <3>1
    <2> QED
      BY <1>4, <1>6, <2>1
  <1> QED
    BY <1>2, <1>5, <1>6 DEF CallsWait

\* A step that leaves the client's calls where they are.
LEMMA PcpRouterKept ==
  ASSUME TypeOK, PcpRouter, router' = router, CallsWait,
         \A f \in Endpoints : Dialing(f)' <=> Dialing(f),
         pcp'.op \in LocalAnswers <=> pcp.op \in LocalAnswers,
         pcp.op \in LocalAnswers => pcp'.e = pcp.e,
         \A f \in Endpoints : Queued({"request"}, f) /\ status[f] \cap (LocalAnswers \cup {"connected"}) = {} =>
           status'[f] \cap (LocalAnswers \cup {"connected"}) = {}
  PROVE  PcpRouter'
  <1>1. /\ \A i \in DOMAIN pcp_queue' : pcp_queue'[i].op \in CallJobs =>
              \E k \in DOMAIN pcp_queue : pcp_queue[k] = pcp_queue'[i]
        /\ \A i \in DOMAIN pcp_queue : pcp_queue[i].op \in CallJobs =>
              \E k \in DOMAIN pcp_queue' : pcp_queue'[k] = pcp_queue[i]
        /\ (\A i, j \in DOMAIN pcp_queue : pcp_queue[i].op \in CallJobs /\ pcp_queue[j].op \in CallJobs => i = j)
              => (\A i, j \in DOMAIN pcp_queue' : pcp_queue'[i].op \in CallJobs /\ pcp_queue'[j].op \in CallJobs => i = j)
    BY CallsStay
  <1>2. \A i, j \in DOMAIN pcp_queue' : pcp_queue'[i].op \in CallJobs /\ pcp_queue'[j].op \in CallJobs => i = j
    BY <1>1 DEF PcpRouter
  <1>3. ASSUME NEW i \in DOMAIN pcp_queue', pcp_queue'[i].op \in LocalAnswers
        PROVE  router' = [at |-> "answering", todo |-> {pcp_queue'[i].e}]
    <2>1. PICK k \in DOMAIN pcp_queue : pcp_queue[k] = pcp_queue'[i]
      BY <1>1, <1>3 DEF CallJobs
    <2> QED
      BY <1>3, <2>1 DEF PcpRouter
  <1>4. ASSUME NEW i \in DOMAIN pcp_queue', pcp_queue'[i].op = "request"
        PROVE  /\ router' = [at |-> "requesting", todo |-> {pcp_queue'[i].e}]
               /\ \A e \in Endpoints : ~Dialing(e)'
               /\ status'[pcp_queue'[i].e] \cap (LocalAnswers \cup {"connected"}) = {}
    <2>1. PICK k \in DOMAIN pcp_queue : pcp_queue[k] = pcp_queue'[i]
      BY <1>1, <1>4 DEF CallJobs
    <2>2. /\ router = [at |-> "requesting", todo |-> {pcp_queue[k].e}]
          /\ \A e \in Endpoints : ~Dialing(e)
          /\ status[pcp_queue[k].e] \cap (LocalAnswers \cup {"connected"}) = {}
      BY <1>4, <2>1 DEF PcpRouter
    <2>3. pcp_queue[k].e \in Endpoints /\ Queued({"request"}, pcp_queue[k].e)
      <3>1. pcp_queue[k] \in JobsOf(PcpOperations)
        BY DEF TypeOK
      <3> QED
        BY <1>4, <2>1, <3>1 DEF Queued, JobsOf
    <2> QED
      BY <2>1, <2>2, <2>3
  <1>5. \A e : \A ops : ops \subseteq CallJobs /\ Queued(ops, e) => Queued(ops, e)'
    BY <1>1 DEF Queued
  <1>6. {"request"} \subseteq CallJobs /\ LocalAnswers \subseteq CallJobs
    BY DEF CallJobs
  <1>7. pcp'.op \in LocalAnswers => pcp' # Idle /\ pcp # Idle
    BY DEF Idle, LocalAnswers
  <1>8. pcp'.op \in LocalAnswers =>
          /\ router' = [at |-> "answering", todo |-> {pcp'.e}]
          /\ \A i \in DOMAIN pcp_queue' : pcp_queue'[i].op \notin CallJobs
    BY <1>1 DEF PcpRouter
  <1>9. \A e \in Endpoints : Dialing(e)' => router' = [at |-> "requesting", todo |-> {e}]
    BY DEF PcpRouter
  <1>10. router'.at = "requesting" => \E e \in Endpoints : Queued({"request"}, e)' \/ Dialing(e)'
    BY <1>5, <1>6 DEF PcpRouter
  <1>11. router'.at = "answering" =>
           \E e \in Endpoints : Queued(LocalAnswers, e)' \/ (Runs(e)' /\ pcp'.op \in LocalAnswers)
    <2> SUFFICES ASSUME router'.at = "answering"
                 PROVE  \E e \in Endpoints : Queued(LocalAnswers, e)' \/ (Runs(e)' /\ pcp'.op \in LocalAnswers)
      OBVIOUS
    <2>1. PICK e \in Endpoints : Queued(LocalAnswers, e) \/ (Runs(e) /\ pcp.op \in LocalAnswers)
      BY DEF PcpRouter
    <2>2. CASE Queued(LocalAnswers, e)
      BY <1>5, <1>6, <2>2
    <2>3. CASE Runs(e) /\ pcp.op \in LocalAnswers
      BY <1>7, <2>3 DEF Runs
    <2> QED
      BY <2>1, <2>2, <2>3
  <1> QED
    BY <1>2, <1>3, <1>4, <1>8, <1>9, <1>10, <1>11 DEF PcpRouter

\* Dialing depends on the pending connections and on the running registration only.
LEMMA DialingSame ==
  ASSUME NEW f, pending'[f] = pending[f],
         (pcp.at \in {"registering", "registered"} /\ pcp.e = f)' <=> (pcp.at \in {"registering", "registered"} /\ pcp.e = f)
  PROVE  Dialing(f)' <=> Dialing(f)
  BY DEF Dialing, IsPending, Registered

\* The client calls; the router has nothing under way.
LEMMA CallsRouter ==
  ASSUME TypeOK, P!Inv, PcpRouter, NEW e \in Endpoints,
         \/ CallRequestConnection(e) \/ \E answer \in LocalAnswers : CallRespond(e, answer)
  PROVE  PcpRouter'
  <1>1. router = RouterIdle /\ UNCHANGED <<pending, pcp>> /\ status' = status /\ router.at = "idle"
    BY DEF CallRequestConnection, CallRespond, RouterIdle, AddCancellationFlag, CancelEndpoints, proxyVars
  <1>2. NoCalls
    BY <1>1, RouterFree
  <1>3. \A f \in Endpoints : ~Dialing(f)'
    BY <1>1, <1>2, DialingSame DEF NoCalls
  <1>4. CASE UNCHANGED <<router, pcp_queue>>
    BY <1>1, <1>2, <1>3, <1>4, RouterFreed DEF NoCalls
  <1>5. ASSUME NEW op \in CallJobs, NEW c \in ChannelOrNone, pcp_queue' = Append(pcp_queue, Job(op, e, c)),
               router' = [at |-> IF op = "request" THEN "requesting" ELSE "answering", todo |-> {e}],
               op = "request" => e \notin connections
        PROVE  PcpRouter'
    <2>1. Job(op, e, c) \in JobsOf(PcpOperations) /\ pcp_queue \in Seq(JobsOf(PcpOperations))
      BY JobType DEF TypeOK, PcpOperations, CallJobs
    <2>2. /\ DOMAIN pcp_queue = 1 .. Len(pcp_queue) /\ DOMAIN pcp_queue' = 1 .. Len(pcp_queue) + 1 /\ Len(pcp_queue) \in Nat
          /\ \A i \in 1 .. Len(pcp_queue) : pcp_queue'[i] = pcp_queue[i]
          /\ pcp_queue'[Len(pcp_queue) + 1] = Job(op, e, c)
      BY <1>5, <2>1, Posted
    <2>3. \A i \in DOMAIN pcp_queue' : pcp_queue'[i].op \in CallJobs => i = Len(pcp_queue) + 1
      BY <1>2, <2>2 DEF NoCalls
    <2>4. \A i \in DOMAIN pcp_queue' : pcp_queue'[i].op \in CallJobs => pcp_queue'[i].op = op /\ pcp_queue'[i].e = e
      BY <2>2, <2>3, JobFields
    <2>5. Len(pcp_queue) + 1 \in DOMAIN pcp_queue' /\ pcp_queue'[Len(pcp_queue) + 1].op = op
            /\ pcp_queue'[Len(pcp_queue) + 1].e = e
      BY <2>2, JobFields
    <2>6. op = "request" => status'[e] = {}
      <3>1. ProxyFacts(e)
        BY ProxyInv
      <3> QED
        BY <1>1, <1>5, <3>1 DEF ProxyFacts
    <2>7. \A i, j \in DOMAIN pcp_queue' : pcp_queue'[i].op \in CallJobs /\ pcp_queue'[j].op \in CallJobs => i = j
      BY <2>3
    <2>8. pcp'.op \notin LocalAnswers
      BY <1>1, <1>2 DEF NoCalls
    <2>9. CASE op = "request"
      <3>1. /\ router' = [at |-> "requesting", todo |-> {e}]
            /\ router'.at = "requesting" /\ "request" \notin LocalAnswers
        BY <1>5, <2>9 DEF LocalAnswers
      <3>2. Queued({"request"}, e)'
        BY <2>5, <2>9 DEF Queued
      <3> QED
        BY <1>3, <2>4, <2>6, <2>7, <2>8, <2>9, <3>1, <3>2 DEF PcpRouter, CallJobs
    <2>10. CASE op # "request"
      <3>1. /\ router' = [at |-> "answering", todo |-> {e}]
            /\ router'.at = "answering" /\ op \in LocalAnswers
        BY <1>5, <2>10 DEF CallJobs
      <3>2. Queued(LocalAnswers, e)'
        BY <2>5, <3>1 DEF Queued
      <3> QED
        BY <1>3, <2>4, <2>7, <2>8, <2>10, <3>1, <3>2 DEF PcpRouter, CallJobs
    <2> QED
      BY <2>9, <2>10
  <1>6. CASE CallRequestConnection(e)
    <2>1. "request" \in CallJobs /\ None \in ChannelOrNone
      BY DEF CallJobs, ChannelOrNone
    <2> QED
      BY <1>4, <1>5, <1>6, <2>1 DEF CallRequestConnection
  <1>7. ASSUME NEW answer \in LocalAnswers, CallRespond(e, answer)
        PROVE  PcpRouter'
    <2>1. answer \in CallJobs /\ answer # "request" /\ channel[e] \in ChannelOrNone
      BY DEF CallJobs, LocalAnswers, TypeOK
    <2> QED
      BY <1>4, <1>5, <1>7, <2>1 DEF CallRespond
  <1> QED
    BY <1>6, <1>7

\* Calls that the PCP thread has nothing to do with.
LEMMA StopsRouter ==
  ASSUME TypeOK, PcpRouter,
         CallStopAll \/ StopPhase \/ \E e \in Endpoints : CallDisconnect(e) \/ StopNext(e) \/ RequestRefused(e)
  PROVE  PcpRouter'
  <1>1. UNCHANGED <<pending, pcp, pcp_queue>>
    BY DEF CallStopAll, StopPhase, CallDisconnect, StopNext, RequestRefused, handlerVars
  <1>2. router.at \in {"idle", "refused", "stop_pending", "stop_connected"}
    <2>1. \/ router = RouterIdle \/ router.at \in {"stop_pending", "stop_connected"}
          \/ \E e \in Endpoints : router = [at |-> "refused", todo |-> {e}]
      BY DEF CallStopAll, StopPhase, CallDisconnect, StopNext, RequestRefused
    <2> QED
      BY <2>1 DEF RouterIdle
  <1>3. NoCalls
    BY <1>2, RouterFree
  <1>4. NoCalls'
    BY <1>1, <1>3, DialingSame DEF NoCalls
  <1>5. router'.at \notin {"requesting", "answering"}
    <2>1. CASE \E e \in Endpoints : StopNext(e)
      <3>1. router \in [at : RouterPlaces, todo : SUBSET Endpoints]
        BY DEF TypeOK
      <3>2. PICK e : router' = [router EXCEPT !.todo = @ \ {e}]
        BY <2>1 DEF StopNext
      <3>3. router'.at = router.at
        BY <3>1, <3>2
      <3> QED
        BY <1>2, <3>3
    <2>2. CASE CallStopAll \/ StopPhase \/ \E e \in Endpoints : CallDisconnect(e) \/ RequestRefused(e)
      <3>1. \/ router' \in {router, RouterIdle}
            \/ \E at \in {"stop_pending", "stop_connected", "disconnecting"} : \E es : router' = [at |-> at, todo |-> es]
        BY <2>2 DEF CallStopAll, StopPhase, CallDisconnect, RequestRefused
      <3> QED
        BY <1>2, <3>1 DEF RouterIdle
    <2> QED
      BY <2>1, <2>2
  <1> QED
    BY <1>4, <1>5, RouterFreed

\* The workers, the handshakes and the alarms.
LEMMA WorkersRouter ==
  ASSUME TypeOK, PcpRouter, NEW e \in Endpoints,
         \/ \E h \in handshakes : HandshakeEnds(h[1], h[2], h[3])
         \/ \E a \in alarms : AlarmFires(a[1], a[2])
         \/ \E c \in open : ChannelBreaks(c)
         \/ ReaderExits(e) \/ KeepAliveExits(e)
         \/ \E answer \in RemoteAnswers : ReadResponse(e, answer)
  PROVE  PcpRouter'
  <1>1. UNCHANGED <<pending, pcp, router, proxyVars>>
    BY DEF HandshakeEnds, AlarmFires, ChannelBreaks, ReaderExits, KeepAliveExits, ReadResponse, handlerVars
  <1>2. CallsWait
    <2>1. CASE \E c \in open : ChannelBreaks(c)
      BY <2>1 DEF ChannelBreaks, CallsWait, handlerVars
    <2>2. \A op \in WorkerJobs : op \notin CallJobs
      BY DEF WorkerJobs, CallJobs, RemoteAnswers, LocalAnswers
    <2> QED
      BY <2>1, <2>2, WorkersPost DEF CallsWait
  <1>3. \A f \in Endpoints : Dialing(f)' <=> Dialing(f)
    BY <1>1, DialingSame
  <1>4. status' = status
    BY <1>1 DEF proxyVars
  <1> QED
    BY <1>1, <1>2, <1>3, <1>4, PcpRouterKept

\* An attempt or a connection of e goes: if the router waits for it, it is told.
LEMMA DestroyedRouter ==
  ASSUME TypeOK, RegistrationInv, PcpRouter, NEW e \in Endpoints, router' = AfterDestroyed(router, e), pcp = Idle, pcp' = Idle,
         CallsWait, ~Dialing(e)', \A f \in Endpoints : f # e => pending'[f] = pending[f],
         \A f \in Endpoints : status'[f] = status[f] \/ status'[f] = {}
  PROVE  PcpRouter'
  <1>1. Dialing(e) <=> IsPending(e) /\ ~Registered(e) /\ ~pending[e].incoming
    BY DEF Dialing, Idle
  <1>2. \A f \in Endpoints : f # e => (Dialing(f)' <=> Dialing(f))
    BY DialingSame
  <1>3. pcp.op \notin LocalAnswers
    BY DEF Idle, LocalAnswers
  <1>4. CASE Dialing(e)
    <2>1. /\ router = [at |-> "requesting", todo |-> {e}]
          /\ \A i \in DOMAIN pcp_queue : pcp_queue[i].op \notin CallJobs
          /\ \A f \in Endpoints : f # e => ~Dialing(f)
      BY <1>4, RouterDials
    <2>2. router'.at = "refused"
      <3>1. router.todo = {e} /\ router.at = "requesting"
        BY <2>1
      <3>2. router' = [router EXCEPT !.at = "refused"]
        BY <1>1, <1>4, <3>1 DEF AfterDestroyed, Refuse
      <3> QED
        BY <2>1, <3>2
    <2>3. \A i \in DOMAIN pcp_queue' : pcp_queue'[i].op \notin CallJobs
      BY <2>1, CallsStay
    <2>4. NoCalls'
      BY <1>2, <1>3, <2>1, <2>3 DEF NoCalls
    <2> QED
      BY <2>2, <2>4, RouterFreed
  <1>5. CASE ~Dialing(e)
    <2>1. router' = router
      BY <1>1, <1>5 DEF AfterDestroyed
    <2>2. \A f \in Endpoints : Dialing(f)' <=> Dialing(f)
      BY <1>2, <1>5
    <2>3. \A f \in Endpoints : status[f] \cap (LocalAnswers \cup {"connected"}) = {} =>
            status'[f] \cap (LocalAnswers \cup {"connected"}) = {}
      OBVIOUS
    <2> QED
      BY <2>1, <2>2, <2>3, PcpRouterKept
  <1> QED
    BY <1>4, <1>5

\* A request is taken from the queue.
LEMMA RequestRouter ==
  ASSUME TypeOK, PcpRouter, NEW e \in Endpoints, RunRequest(e)
  PROVE  PcpRouter'
  <1>1. /\ pcp = Idle /\ pcp' = pcp /\ pcp_queue # <<>> /\ pcp_queue' = Tail(pcp_queue)
        /\ Head(pcp_queue).op = "request" /\ Head(pcp_queue).e = e
    BY DEF RunRequest, Takes
  <1>2. /\ DOMAIN pcp_queue = 1 .. Len(pcp_queue) /\ DOMAIN pcp_queue' = 1 .. Len(pcp_queue) - 1
        /\ 1 \in DOMAIN pcp_queue /\ Head(pcp_queue) = pcp_queue[1] /\ Len(pcp_queue) \in Nat \ {0}
        /\ \A i \in 1 .. Len(pcp_queue) - 1 : pcp_queue'[i] = pcp_queue[i + 1] /\ i + 1 \in DOMAIN pcp_queue
    BY <1>1, Taken DEF TypeOK
  <1>3. /\ router = [at |-> "requesting", todo |-> {e}]
        /\ \A f \in Endpoints : ~Dialing(f)
    BY <1>1, <1>2 DEF PcpRouter
  <1>4. \A i \in DOMAIN pcp_queue' : pcp_queue'[i].op \notin CallJobs
    <2> SUFFICES ASSUME NEW i \in 1 .. Len(pcp_queue) - 1, pcp_queue'[i].op \in CallJobs PROVE FALSE
      BY <1>2
    <2>1. i + 1 = 1
      BY <1>1, <1>2 DEF PcpRouter, CallJobs
    <2> QED
      BY <2>1
  <1>5. pcp'.op \notin LocalAnswers
    BY <1>1 DEF Idle, LocalAnswers
  <1>6. CASE router' = Refuse(router, e) /\ pending' = pending
    <2>1. router.todo = {e} /\ router.at = "requesting"
      BY <1>3
    <2>2. router'.at = "refused"
      BY <1>3, <1>6, <2>1 DEF Refuse
    <2>3. \A f \in Endpoints : ~Dialing(f)'
      BY <1>1, <1>3, <1>6, DialingSame
    <2> QED
      BY <1>4, <1>5, <2>2, <2>3, RouterFreed DEF NoCalls
  <1>7. CASE Attempt(e, FALSE, open) /\ router' = router
    <2>1. /\ pending'[e] = [chan |-> attempts + 1, incoming |-> FALSE, keys |-> None]
          /\ \A f \in Endpoints : f # e => pending'[f] = pending[f]
      BY <1>7 DEF Attempt, TypeOK
    <2>2. \A f \in Endpoints : f # e => ~Dialing(f)'
      BY <1>1, <1>3, <2>1, DialingSame
    <2>3. Dialing(e)'
      <3>1. pending'[e].chan = attempts + 1 /\ attempts \in Nat /\ ~pending'[e].incoming /\ pending'[e].keys = None
        BY <2>1, LifecycleConstants DEF TypeOK
      <3>2. attempts + 1 # None
        BY <3>1 DEF None
      <3>3. pending'[e] # NoPending
        BY <3>1, <3>2 DEF NoPending
      <3> QED
        BY <3>1, <3>3 DEF Dialing, IsPending, Registered
    <2>4. \A f \in Endpoints : Dialing(f)' => router' = [at |-> "requesting", todo |-> {f}]
      BY <1>3, <1>7, <2>2
    <2>5. router'.at = "requesting"
      BY <1>3, <1>7
    <2> QED
      BY <1>4, <1>5, <2>3, <2>4, <2>5 DEF PcpRouter, CallJobs
  <1> QED
    BY <1>6, <1>7 DEF RunRequest

\* Attempts and connections that begin or are given up on the PCP thread.
LEMMA AttemptRouter ==
  ASSUME TypeOK, RegistrationInv, PcpRouter, NEW e \in Endpoints,
         \/ IncomingConnection(e) \/ \E goes_on \in BOOLEAN : IncomingTie(e, goes_on)
         \/ \E op \in {"incoming_failed", "outgoing_failed"} : RunEncryptionFailed(op, e)
         \/ RunEndpointDisconnect(e)
  PROVE  PcpRouter'
  <1>1. pcp = Idle /\ pcp' = Idle
    BY DEF IncomingConnection, IncomingTie, RunEncryptionFailed, RunEndpointDisconnect, Takes
  <1>2. CallsWait
    <2>1. \/ pcp_queue' = pcp_queue
          \/ \E op \in {"incoming_failed", "outgoing_failed", "disconnect"} : Takes(op, e)
      BY DEF IncomingConnection, IncomingTie, RunEncryptionFailed, RunEndpointDisconnect
    <2>2. \A op \in {"incoming_failed", "outgoing_failed", "disconnect"} : op \notin CallJobs
      BY DEF CallJobs, LocalAnswers
    <2> QED
      BY <2>1, <2>2 DEF Takes, CallsWait
  <1>3. \A f \in Endpoints : f # e => pending'[f] = pending[f]
    BY HandlerPending
  <1>4. \A f \in Endpoints : status'[f] = status[f] \/ status'[f] = {}
    <2>1. UNCHANGED proxyVars \/ OnConnectionRejected(e)
      BY DEF IncomingConnection, IncomingTie, RunEncryptionFailed, RunEndpointDisconnect, ResultFailure
    <2> QED
      BY <2>1, StatusShrinks DEF TypeOK
  <1>5. CASE router' = router /\ pending'[e] = pending[e]
    <2>1. \A f \in Endpoints : Dialing(f)' <=> Dialing(f)
      BY <1>1, <1>3, <1>5, DialingSame
    <2>2. \A f \in Endpoints : status[f] \cap (LocalAnswers \cup {"connected"}) = {} =>
            status'[f] \cap (LocalAnswers \cup {"connected"}) = {}
      BY <1>4
    <2> QED
      BY <1>1, <1>2, <1>5, <2>1, <2>2, PcpRouterKept
  <1>6. CASE router' = AfterDestroyed(router, e) /\ (pending'[e] = NoPending \/ \E o : Attempt(e, TRUE, o))
    <2>1. ~Dialing(e)'
      <3>1. CASE pending'[e] = NoPending
        BY <3>1 DEF Dialing, IsPending
      <3>2. CASE \E o : Attempt(e, TRUE, o)
        <4>1. pending'[e].incoming = TRUE
          BY <3>2 DEF Attempt, TypeOK
        <4> QED
          BY <4>1 DEF Dialing
      <3> QED
        BY <1>6, <3>1, <3>2
    <2> QED
      BY <1>1, <1>2, <1>3, <1>4, <1>6, <2>1, DestroyedRouter
  <1>7. CASE IncomingConnection(e)
    <2>1. router' = AfterDestroyed(router, e)
      BY <1>7 DEF IncomingConnection, AfterDestroyed
    <2> QED
      BY <1>6, <1>7, <2>1 DEF IncomingConnection
  <1>8. ASSUME NEW goes_on \in BOOLEAN, IncomingTie(e, goes_on)
        PROVE  PcpRouter'
    <2>1. CASE Registered(e)
      BY <1>5, <1>8, <2>1 DEF IncomingTie
    <2>2. CASE ~Registered(e) /\ goes_on
      BY <1>6, <1>8, <2>2 DEF IncomingTie
    <2>3. CASE ~Registered(e) /\ ~goes_on
      BY <1>6, <1>8, <2>3 DEF IncomingTie, TypeOK
    <2> QED
      BY <2>1, <2>2, <2>3
  <1>9. ASSUME NEW op \in {"incoming_failed", "outgoing_failed"}, RunEncryptionFailed(op, e)
        PROVE  PcpRouter'
    <2>1. \/ router' = router /\ pending' = pending
          \/ router' = AfterDestroyed(router, e) /\ pending' = [pending EXCEPT ![e] = NoPending]
      BY <1>9 DEF RunEncryptionFailed
    <2> QED
      BY <1>5, <1>6, <2>1 DEF TypeOK
  <1>10. CASE RunEndpointDisconnect(e)
    BY <1>6, <1>10 DEF RunEndpointDisconnect, ResultFailure, TypeOK
  <1> QED
    BY <1>7, <1>8, <1>9, <1>10

\* The registration of a connection on the PCP thread; the request returns at its end.
LEMMA EncryptedRouter ==
  ASSUME TypeOK, RegistrationInv, EvaluationInv, PcpRouter, NEW e \in Endpoints,
         RunEncrypted(e) \/ RegisterProcessor(e) \/ RegistrationDone(e)
  PROVE  PcpRouter'
  <1>1. UNCHANGED proxyVars /\ status' = status
    BY DEF RunEncrypted, RegisterProcessor, RegistrationDone, proxyVars
  <1>2. CASE RunEncrypted(e)
    <2>1. /\ pcp = Idle /\ pcp_queue # <<>> /\ pcp_queue' = Tail(pcp_queue) /\ UNCHANGED <<pending, router>>
          /\ Head(pcp_queue).op = "encrypted"
      BY <1>2 DEF RunEncrypted, Takes
    <2>2. pcp' \in {Idle, Running(Head(pcp_queue), "register_processor")}
      BY <1>2, <2>1 DEF RunEncrypted
    <2>3. /\ pcp'.at \notin {"registering", "registered"} /\ pcp'.op \notin LocalAnswers
          /\ pcp.at \notin {"registering", "registered"} /\ pcp.op \notin LocalAnswers
      BY <2>1, <2>2 DEF Idle, Running, LocalAnswers
    <2>4. CallsWait
      BY <2>1 DEF CallsWait, CallJobs, LocalAnswers
    <2>5. \A f \in Endpoints : Dialing(f)' <=> Dialing(f)
      BY <2>1, <2>3, DialingSame
    <2> QED
      BY <1>1, <2>1, <2>3, <2>4, <2>5, PcpRouterKept
  <1>3. CASE RegisterProcessor(e)
    <2>1. /\ pcp.at = "register_processor" /\ pcp.e = e /\ pcp # Idle /\ UNCHANGED <<pcp_queue, router>>
          /\ pcp' = [pcp EXCEPT !.at = "registering"] /\ pending' = [pending EXCEPT ![e].keys = pcp.c]
      BY <1>3, PcpShape DEF RegisterProcessor
    <2>2. IsPending(e) /\ ~Registered(e) /\ pcp.c # None /\ pcp.op = "encrypted"
      BY <2>1 DEF RegistrationInv, EvaluationInv
    <2>3. pcp'.at = "registering" /\ pcp'.e = e /\ pcp'.op = "encrypted"
      BY <2>1, <2>2 DEF TypeOK, RunsOf
    <2>4. /\ pending'[e].incoming = pending[e].incoming /\ pending'[e].keys = pcp.c
          /\ \A f \in Endpoints : f # e => pending'[f] = pending[f]
      BY <2>1 DEF TypeOK
    <2>5. pending'[e] # NoPending
      BY <2>2, <2>4 DEF NoPending
    <2>6. Dialing(e)' <=> Dialing(e)
      BY <2>2, <2>3, <2>4, <2>5 DEF Dialing, IsPending
    <2>7. \A f \in Endpoints : f # e => (Dialing(f)' <=> Dialing(f))
      BY <2>1, <2>3, <2>4, DialingSame
    <2>8. pcp.op \notin LocalAnswers /\ pcp'.op \notin LocalAnswers
      BY <2>2, <2>3 DEF LocalAnswers
    <2>9. CallsWait
      BY <2>1 DEF CallsWait
    <2> QED
      BY <1>1, <2>1, <2>6, <2>7, <2>8, <2>9, PcpRouterKept
  <1>4. CASE RegistrationDone(e)
    <2>1. pcp.at = "registered" /\ pcp.e = e /\ pcp' = Idle /\ UNCHANGED <<pcp_queue, pending>>
      BY <1>4 DEF RegistrationDone
    <2>2. IsPending(e) /\ Registered(e) /\ pcp # Idle
      BY <2>1 DEF RegistrationInv, Idle
    <2>3. pcp.op \notin LocalAnswers /\ pcp'.op \notin LocalAnswers /\ pcp'.at = "idle"
      BY <2>1, <2>2 DEF EvaluationInv, LocalAnswers, Idle
    <2>4. (Dialing(e) <=> ~pending[e].incoming) /\ ~Dialing(e)'
      <3>1. Dialing(e) <=> ~pending[e].incoming
        BY <2>1, <2>2 DEF Dialing
      <3>2. Registered(e)'
        BY <2>1, <2>2 DEF Registered
      <3> QED
        BY <2>3, <3>1, <3>2 DEF Dialing
    <2>5. \A f \in Endpoints : f # e => (Dialing(f)' <=> Dialing(f))
      BY <2>1, <2>3, DialingSame
    <2>6. CASE pending[e].incoming
      <3>1. router' = router
        BY <1>4, <2>6 DEF RegistrationDone
      <3>2. \A f \in Endpoints : Dialing(f)' <=> Dialing(f)
        BY <2>4, <2>5, <2>6
      <3> QED
        BY <1>1, <2>1, <2>3, <3>1, <3>2, PcpRouterKept DEF CallsWait
    <2>7. CASE ~pending[e].incoming
      <3>1. /\ router = [at |-> "requesting", todo |-> {e}]
            /\ \A i \in DOMAIN pcp_queue : pcp_queue[i].op \notin CallJobs
            /\ \A f \in Endpoints : f # e => ~Dialing(f)
        BY <2>4, <2>7, RouterDials
      <3>2. router' = RouterIdle
        <4>1. router.todo = {e} /\ router.at = "requesting"
          BY <3>1
        <4> QED
          BY <1>4, <2>7, <4>1 DEF RegistrationDone, Answer
      <3>3. NoCalls'
        BY <2>1, <2>3, <2>4, <2>5, <3>1 DEF NoCalls
      <3> QED
        BY <3>2, <3>3, RouterFreed DEF RouterIdle
    <2> QED
      BY <2>6, <2>7
  <1> QED
    BY <1>2, <1>3, <1>4

\* The answers of the two sides, up to their being recorded.
LEMMA AnswerRouter ==
  ASSUME TypeOK, RegistrationInv, EvaluationInv, PcpRouter, NEW e \in Endpoints,
         \/ \E answer \in LocalAnswers : RunRespond(answer, e)
         \/ \E answer \in RemoteAnswers : RunFrame(answer, e)
         \/ RecordAnswer(e)
  PROVE  PcpRouter'
  <1>1. ASSUME NEW answer \in LocalAnswers, RunRespond(answer, e)
        PROVE  PcpRouter'
    <2>1. /\ pcp = Idle /\ pcp_queue # <<>> /\ pcp_queue' = Tail(pcp_queue)
          /\ Head(pcp_queue).op = answer /\ Head(pcp_queue).e = e
      BY <1>1 DEF RunRespond, Takes
    <2>2. /\ DOMAIN pcp_queue = 1 .. Len(pcp_queue) /\ DOMAIN pcp_queue' = 1 .. Len(pcp_queue) - 1
          /\ 1 \in DOMAIN pcp_queue /\ Head(pcp_queue) = pcp_queue[1] /\ Len(pcp_queue) \in Nat \ {0}
          /\ \A i \in 1 .. Len(pcp_queue) - 1 : pcp_queue'[i] = pcp_queue[i + 1] /\ i + 1 \in DOMAIN pcp_queue
      BY <2>1, Taken DEF TypeOK
    <2>3. router = [at |-> "answering", todo |-> {e}]
      BY <2>1, <2>2 DEF PcpRouter
    <2>4. router.at = "answering" /\ router.todo = {e} /\ \A f : router # [at |-> "requesting", todo |-> {f}]
      BY <2>3
    <2>5. \A i \in DOMAIN pcp_queue' : pcp_queue'[i].op \notin CallJobs
      <3> SUFFICES ASSUME NEW i \in 1 .. Len(pcp_queue) - 1, pcp_queue'[i].op \in CallJobs PROVE FALSE
        BY <2>2
      <3>1. i + 1 = 1
        BY <2>1, <2>2 DEF PcpRouter, CallJobs
      <3> QED
        BY <3>1
    <2>6. \A f \in Endpoints : ~Dialing(f)
      BY <2>4 DEF PcpRouter
    <2>7. \A f \in Endpoints : f # e => pending'[f] = pending[f]
      BY <1>1, HandlerPending
    <2>8. AfterDestroyed(router, e) = router
      BY <2>6 DEF AfterDestroyed, Dialing
    <2>9. Answer(router, e) = RouterIdle
      BY <2>4 DEF Answer
    <2>10. CASE pcp' = pcp /\ router' = RouterIdle /\ (pending' = pending \/ pending'[e] = NoPending)
      <3>1. ~Dialing(e)'
        <4>1. CASE pending'[e] = NoPending
          BY <4>1 DEF Dialing, IsPending
        <4>2. CASE pending' = pending
          BY <2>6, <2>10, <4>2, DialingSame
        <4> QED
          BY <2>10, <4>1, <4>2
      <3>2. \A f \in Endpoints : ~Dialing(f)'
        BY <2>6, <2>7, <2>10, <3>1, DialingSame
      <3>3. pcp'.op \notin LocalAnswers
        BY <2>1, <2>10 DEF Idle, LocalAnswers
      <3> QED
        BY <2>5, <2>10, <3>2, <3>3, RouterFreed DEF NoCalls, RouterIdle
    <2>11. CASE pcp' = Running(Head(pcp_queue), "record") /\ UNCHANGED <<pending, router>>
      <3>1. pcp'.at = "record" /\ pcp'.op = answer /\ pcp'.e = e
        BY <2>1, <2>11 DEF Running
      <3>2. pcp.at = "idle" /\ pcp' # Idle
        BY <2>1, <3>1 DEF Idle
      <3>3. \A f \in Endpoints : ~Dialing(f)'
        BY <2>6, <2>11, <3>1, <3>2, DialingSame
      <3>4. Runs(e)'
        BY <3>1, <3>2 DEF Runs, Idle
      <3>5. router' = [at |-> "answering", todo |-> {pcp'.e}] /\ router'.at = "answering"
        BY <2>3, <2>4, <2>11, <3>1
      <3>6. pcp'.op \in LocalAnswers
        BY <3>1
      <3> QED
        BY <2>5, <3>3, <3>4, <3>5, <3>6 DEF PcpRouter, CallJobs
    <2>12. \/ pcp' = pcp /\ router' = RouterIdle /\ (pending' = pending \/ pending'[e] = NoPending)
           \/ pcp' = Running(Head(pcp_queue), "record") /\ UNCHANGED <<pending, router>>
      <3>1. \/ pcp' = pcp /\ router' = Answer(router, e) /\ pending' = pending
            \/ pcp' = pcp /\ router' = Answer(AfterDestroyed(router, e), e) /\ pending' = [pending EXCEPT ![e] = NoPending]
            \/ pcp' = Running(Head(pcp_queue), "record") /\ UNCHANGED <<pending, router>>
        BY <1>1 DEF RunRespond, ResultFailure
      <3> QED
        BY <2>8, <2>9, <3>1 DEF TypeOK
    <2> QED
      BY <2>10, <2>11, <2>12
  <1>2. ASSUME NEW answer \in RemoteAnswers, RunFrame(answer, e)
        PROVE  PcpRouter'
    <2>1. /\ pcp = Idle /\ pcp_queue # <<>> /\ pcp_queue' = Tail(pcp_queue) /\ UNCHANGED <<pending, router, proxyVars>>
          /\ Head(pcp_queue).op = answer
      BY <1>2 DEF RunFrame, Takes
    <2>2. pcp' \in {Idle, Running(Head(pcp_queue), "record")}
      BY <1>2 DEF RunFrame
    <2>3. /\ pcp'.at \notin {"registering", "registered"} /\ pcp'.op \notin LocalAnswers
          /\ pcp.at \notin {"registering", "registered"} /\ pcp.op \notin LocalAnswers
      BY <2>1, <2>2 DEF Idle, Running, LocalAnswers, RemoteAnswers
    <2>4. CallsWait
      BY <2>1 DEF CallsWait, CallJobs, LocalAnswers, RemoteAnswers
    <2>5. \A f \in Endpoints : Dialing(f)' <=> Dialing(f)
      BY <2>1, <2>3, DialingSame
    <2>6. status' = status
      BY <2>1 DEF proxyVars
    <2> QED
      BY <2>1, <2>3, <2>4, <2>5, <2>6, PcpRouterKept
  <1>3. CASE RecordAnswer(e)
    <2>1. /\ pcp.at = "record" /\ pcp.e = e /\ pcp # Idle /\ UNCHANGED <<pcp_queue, pending, router>>
          /\ pcp' = [pcp EXCEPT !.at = "evaluate"]
      BY <1>3, PcpShape DEF RecordAnswer
    <2>2. pcp'.at = "evaluate" /\ pcp'.op = pcp.op /\ pcp'.e = e
      BY <2>1 DEF TypeOK, RunsOf
    <2>3. pcp.op \in LocalAnswers \cup RemoteAnswers
      BY <2>1 DEF EvaluationInv
    <2>4. \A f \in Endpoints : status'[f] \in {status[f], status[f] \cup {pcp.op}}
      BY <1>3 DEF RecordAnswer, EndpointResponded, TypeOK, ProxyTypeOK
    <2>5. \A f \in Endpoints : Dialing(f)' <=> Dialing(f)
      BY <2>1, <2>2, DialingSame
    <2>6. ASSUME NEW f \in Endpoints, Queued({"request"}, f), status[f] \cap (LocalAnswers \cup {"connected"}) = {}
          PROVE  status'[f] \cap (LocalAnswers \cup {"connected"}) = {}
      <3>1. pcp.op \notin LocalAnswers
        BY <2>6, RouterAnswers DEF Queued, CallJobs
      <3>2. pcp.op \notin LocalAnswers \cup {"connected"}
        BY <2>3, <3>1 DEF RemoteAnswers
      <3> QED
        BY <2>4, <2>6, <3>2
    <2> QED
      BY <2>1, <2>2, <2>5, <2>6, PcpRouterKept DEF CallsWait
  <1> QED
    BY <1>1, <1>2, <1>3

\* The connection is evaluated; a call that answered it returns.
LEMMA ResultRouter ==
  ASSUME TypeOK, P!Inv, RegistrationInv, EvaluationInv, PcpRouter, NEW e \in Endpoints,
         EvaluateConnectionResult(e) \/ DecideResult(e) \/ DeliverResult(e)
  PROVE  PcpRouter'
  <1>1. /\ UNCHANGED pcp_queue /\ pcp.e = e /\ pcp # Idle
        /\ pcp.at \in {"evaluate", "decide", "accept", "reject"}
    BY PcpShape DEF EvaluateConnectionResult, DecideResult, DeliverResult
  <1>2. CallsWait
    BY <1>1 DEF CallsWait
  <1>3. /\ \A f \in Endpoints : f # e => pending'[f] = pending[f]
        /\ pending'[e] = pending[e] \/ DecideResult(e)
    BY HandlerPending DEF EvaluateConnectionResult, DeliverResult
  <1>4. ASSUME NEW f \in Endpoints, Queued({"request"}, f), status[f] \cap (LocalAnswers \cup {"connected"}) = {}
        PROVE  status'[f] \cap (LocalAnswers \cup {"connected"}) = {}
    <2>1. CASE UNCHANGED proxyVars \/ OnConnectionRejected(e)
      <3>1. status'[f] = status[f] \/ status'[f] = {}
        BY <2>1, StatusShrinks DEF TypeOK
      <3> QED
        BY <1>4, <3>1
    <2>2. CASE pcp.at = "accept" /\ HasPendingConnectionToEndpoint(e) /\ OnConnectionAccepted(e)
      <3>1. IsConnectionAccepted(e)
        BY <1>1, <2>2, ProxyInv DEF ProxyFacts, HasPendingConnectionToEndpoint
      <3>2. f # e
        BY <1>4, <3>1 DEF IsConnectionAccepted, StatusesContain, LocalAnswers
      <3>3. status'[f] = status[f]
        BY <3>2, HandlerConnections
      <3> QED
        BY <1>4, <3>3
    <2> QED
      BY <2>1, <2>2 DEF EvaluateConnectionResult, DecideResult, DeliverResult, OnConnectionAccepted
  <1>5. CASE router' = router /\ pcp' # Idle
    <2>1. PICK at \in {"decide", "accept", "reject"}, c \in {pcp.c, pending[e].chan} :
            pcp' \in {pcp, [pcp EXCEPT !.at = at], [pcp EXCEPT !.at = at, !.c = c]}
      BY <1>5 DEF EvaluateConnectionResult, DecideResult, DeliverResult, JobDone
    <2>2. pcp'.at \notin {"registering", "registered"} /\ pcp'.op = pcp.op /\ pcp'.e = pcp.e
      BY <1>1, <2>1 DEF TypeOK, RunsOf
    <2>3. Dialing(e)' <=> Dialing(e)
      <3>1. CASE pending'[e] = pending[e]
        BY <1>1, <2>2, <3>1, DialingSame
      <3>2. CASE DecideResult(e) /\ pending'[e] # pending[e]
        <4>1. Registered(e)
          BY <1>1, <3>2 DEF DecideResult, EvaluationInv
        <4>2. pending'[e] = NoPending
          BY <3>2 DEF DecideResult, TypeOK
        <4> QED
          BY <1>1, <4>1, <4>2 DEF Dialing, IsPending
      <3> QED
        BY <1>3, <3>1, <3>2
    <2>4. \A f \in Endpoints : f # e => (Dialing(f)' <=> Dialing(f))
      BY <1>1, <1>3, <2>2, DialingSame
    <2> QED
      BY <1>2, <1>4, <1>5, <2>2, <2>3, <2>4, PcpRouterKept
  <1>6. CASE JobDone(e) /\ pending' = pending
    <2>1. pcp' = Idle /\ pcp'.op \notin LocalAnswers /\ pcp'.at = "idle"
      BY <1>6 DEF JobDone, Idle, LocalAnswers
    <2>2. \A f \in Endpoints : Dialing(f)' <=> Dialing(f)
      BY <1>1, <1>6, <2>1, DialingSame
    <2>3. CASE pcp.op \notin LocalAnswers
      <3>1. router' = router
        BY <1>6, <2>3 DEF JobDone
      <3> QED
        BY <1>2, <1>4, <2>1, <2>2, <2>3, <3>1, PcpRouterKept
    <2>4. CASE pcp.op \in LocalAnswers
      <3>1. /\ router = [at |-> "answering", todo |-> {e}]
            /\ \A i \in DOMAIN pcp_queue : pcp_queue[i].op \notin CallJobs
            /\ \A f \in Endpoints : ~Dialing(f)
        BY <1>1, <2>4, RouterAnswers
      <3>2. router' = RouterIdle
        <4>1. router.at = "answering" /\ router.todo = {e}
          BY <3>1
        <4> QED
          BY <1>6, <2>4, <4>1 DEF JobDone, Answer
      <3>3. NoCalls'
        BY <1>1, <2>1, <2>2, <3>1 DEF NoCalls
      <3> QED
        BY <3>2, <3>3, RouterFreed DEF RouterIdle
    <2> QED
      BY <2>3, <2>4
  <1>7. (router' = router /\ pcp' # Idle) \/ (JobDone(e) /\ pending' = pending)
    <2>1. \A at, c : [pcp EXCEPT !.at = at].at = at /\ [pcp EXCEPT !.at = at, !.c = c].at = at
      BY <1>1 DEF TypeOK, RunsOf
    <2>2. Idle.at = "idle"
      BY DEF Idle
    <2>3. CASE EvaluateConnectionResult(e)
      BY <2>1, <2>2, <2>3 DEF EvaluateConnectionResult
    <2>4. CASE DecideResult(e)
      <3>1. pcp.at = "decide" /\ router' = router
        BY <2>4 DEF DecideResult
      <3>2. pcp'.at # "idle"
        <4>1. CASE pcp' = pcp
          BY <3>1, <4>1
        <4>2. CASE pcp' # pcp
          <5>1. PICK at \in {"accept", "reject"} : pcp' = [pcp EXCEPT !.at = at, !.c = pending[e].chan]
            BY <2>4, <4>2 DEF DecideResult
          <5>2. [pcp EXCEPT !.at = at, !.c = pending[e].chan].at = at
            BY <2>1
          <5> QED
            BY <5>1, <5>2
        <4> QED
          BY <4>1, <4>2
      <3> QED
        BY <2>2, <3>1, <3>2
    <2> QED
      BY <2>3, <2>4 DEF DeliverResult
  <1> QED
    BY <1>5, <1>6, <1>7

\* The manager thread; when it has removed an endpoint the call that asked for it returns.
LEMMA ManagerRouter ==
  ASSUME TypeOK, P!Inv, RegistrationInv, EvaluationInv, RouterInv, NEW e \in Endpoints,
         \/ TakeRegister(e) \/ RegisterEndpoint(e) \/ TakeRemove(e) \/ RemoveChannel(e)
         \/ NotifyProcessors(e) \/ BarrierOpens(e) \/ Disconnect(e) \/ RemoveEndpointState(e)
  PROVE  PcpRouter'
  <1>1. PcpRouter /\ EmRouter /\ pending' = pending
    BY RouterParts DEF TakeRegister, RegisterEndpoint, TakeRemove, RemoveChannel, NotifyProcessors, BarrierOpens,
       Disconnect, RemoveEndpointState, handlerVars
  <1>2. CallsWait
    <2>1. CASE NotifyProcessors(e)
      <3>1. Job("disconnect", e, em.c) \in JobsOf(PcpOperations) /\ Job("disconnect", e, em.c).op \notin CallJobs
        <4>1. Job("disconnect", e, em.c) \in JobsOf(PcpOperations)
          BY JobType, EmShape DEF PcpOperations
        <4>2. Job("disconnect", e, em.c).op = "disconnect"
          BY JobFields
        <4> QED
          BY <4>1, <4>2 DEF CallJobs, LocalAnswers
      <3> QED
        BY <2>1, <3>1 DEF NotifyProcessors, CallsWait
    <2> QED
      BY <2>1 DEF TakeRegister, RegisterEndpoint, TakeRemove, RemoveChannel, BarrierOpens,
         Disconnect, RemoveEndpointState, handlerVars, CallsWait
  <1>3. /\ pcp'.op = pcp.op /\ pcp'.e = pcp.e
        /\ pcp'.at \in {"registering", "registered"} <=> pcp.at \in {"registering", "registered"}
    <2>1. CASE RegisterEndpoint(e)
      <3>1. pcp.at = "registering" /\ pcp # Idle
        BY <2>1, PcpShape DEF RegisterEndpoint, RegistrationInv, BeingRegistered
      <3>2. pcp'.at = "registered" /\ pcp'.op = pcp.op /\ pcp'.e = pcp.e
        BY <2>1, <3>1 DEF RegisterEndpoint, TypeOK, RunsOf
      <3> QED
        BY <3>1, <3>2
    <2> QED
      BY <2>1 DEF TakeRegister, TakeRemove, RemoveChannel, NotifyProcessors, BarrierOpens,
       Disconnect, RemoveEndpointState, handlerVars
  <1>4. \A f \in Endpoints : status'[f] = status[f] \/ status'[f] = {}
    <2>1. CASE RegisterEndpoint(e)
      BY <2>1 DEF RegisterEndpoint, OnConnectionInitiated, TypeOK, ProxyTypeOK, kPending
    <2>2. em.notify \in BOOLEAN
      BY EmShape
    <2>3. CASE ~RegisterEndpoint(e)
      <3>1. UNCHANGED proxyVars \/ \E n \in BOOLEAN : OnDisconnected(e, n)
        BY <2>2, <2>3 DEF TakeRegister, TakeRemove, RemoveChannel, NotifyProcessors, BarrierOpens, Disconnect,
           RemoveEndpointState
      <3> QED
        BY <3>1, StatusShrinks DEF TypeOK
    <2> QED
      BY <2>1, <2>3
  <1>5. \A f \in Endpoints : Dialing(f)' <=> Dialing(f)
    BY <1>1, <1>3, DialingSame
  <1>6. \A f \in Endpoints : status[f] \cap (LocalAnswers \cup {"connected"}) = {} =>
          status'[f] \cap (LocalAnswers \cup {"connected"}) = {}
    BY <1>4
  <1>7. CASE router' = router
    BY <1>1, <1>2, <1>3, <1>5, <1>6, <1>7, PcpRouterKept
  <1>8. CASE RemoveEndpointState(e) /\ em.op = "unregister"
    <2>1. router.at \in {"disconnecting", "stop_pending", "stop_connected"}
      BY <1>1, <1>8 DEF EmRouter
    <2>2. NoCalls
      BY <1>1, <2>1, RouterFree
    <2>3. router' \in {router, RouterIdle}
      BY <1>8 DEF RemoveEndpointState, Answer
    <2>4. router'.at \notin {"requesting", "answering"}
      BY <2>1, <2>3 DEF RouterIdle
    <2>5. pcp_queue' = pcp_queue
      BY <1>8 DEF RemoveEndpointState, handlerVars
    <2>6. NoCalls'
      BY <1>3, <1>5, <2>2, <2>5 DEF NoCalls
    <2> QED
      BY <2>4, <2>6, RouterFreed
  <1> QED
    BY <1>7, <1>8 DEF TakeRegister, RegisterEndpoint, TakeRemove, RemoveChannel, NotifyProcessors, BarrierOpens,
       Disconnect, RemoveEndpointState

\* The removals that the router waits for are not touched.
RemovalsWait ==
  \/ em_queue' = em_queue
  \/ \E j \in JobsOf(ManagerOperations) : em_queue' = Append(em_queue, j) /\ j.op # "unregister"
  \/ em_queue # <<>> /\ em_queue' = Tail(em_queue) /\ Head(em_queue).op # "unregister"

\* A step that posts or takes no unregistration leaves them.
LEMMA RemovalsStay ==
  ASSUME TypeOK, RemovalsWait
  PROVE  /\ \A i \in DOMAIN em_queue' : em_queue'[i].op = "unregister" =>
              \E k \in DOMAIN em_queue : em_queue[k] = em_queue'[i]
         /\ \A i \in DOMAIN em_queue : em_queue[i].op = "unregister" =>
              \E k \in DOMAIN em_queue' : em_queue'[k] = em_queue[i]
         /\ (\A i, j \in Unregisters : i = j) => (\A i, j \in Unregisters' : i = j)
  <1>1. em_queue \in Seq(JobsOf(ManagerOperations))
    BY DEF TypeOK
  <1>2. CASE em_queue' = em_queue
    BY <1>2 DEF Unregisters
  <1>3. ASSUME NEW j \in JobsOf(ManagerOperations), em_queue' = Append(em_queue, j), j.op # "unregister"
        PROVE  /\ \A i \in DOMAIN em_queue : i \in DOMAIN em_queue' /\ em_queue'[i] = em_queue[i]
               /\ \A i \in DOMAIN em_queue' : em_queue'[i].op = "unregister" => i \in DOMAIN em_queue /\ em_queue'[i] = em_queue[i]
    BY <1>1, <1>3, PostedJobs
  <1>4. ASSUME em_queue # <<>>, em_queue' = Tail(em_queue), Head(em_queue).op # "unregister"
        PROVE  /\ \A i \in DOMAIN em_queue' : i + 1 \in DOMAIN em_queue /\ em_queue'[i] = em_queue[i + 1]
               /\ \A i \in DOMAIN em_queue : em_queue[i].op = "unregister" =>
                    i - 1 \in DOMAIN em_queue' /\ em_queue'[i - 1] = em_queue[i]
               /\ DOMAIN em_queue' \subseteq Nat
    <2>1. /\ \A i \in DOMAIN em_queue' : i + 1 \in DOMAIN em_queue /\ em_queue'[i] = em_queue[i + 1]
          /\ \A i \in DOMAIN em_queue : em_queue[i] = Head(em_queue)
               \/ (i - 1 \in DOMAIN em_queue' /\ em_queue'[i - 1] = em_queue[i])
      BY <1>1, <1>4, TakenJobs
    <2>2. DOMAIN em_queue' \subseteq Nat
      BY <1>1, <1>4, Taken
    <2> QED
      BY <1>4, <2>1, <2>2
  <1>5. CASE \E j \in JobsOf(ManagerOperations) : em_queue' = Append(em_queue, j) /\ j.op # "unregister"
    BY <1>3, <1>5 DEF Unregisters
  <1>6. CASE em_queue # <<>> /\ em_queue' = Tail(em_queue) /\ Head(em_queue).op # "unregister"
    <2>1. ASSUME \A i, j \in Unregisters : i = j, NEW i \in Unregisters', NEW j \in Unregisters'
          PROVE  i = j
      <3>1. i \in DOMAIN em_queue' /\ j \in DOMAIN em_queue' /\ em_queue'[i].op = "unregister" /\ em_queue'[j].op = "unregister"
        BY DEF Unregisters
      <3>2. i + 1 \in Unregisters /\ j + 1 \in Unregisters
        BY <1>4, <1>6, <3>1 DEF Unregisters
      <3>3. i + 1 = j + 1
        BY <2>1, <3>2
      <3> QED
        BY <1>4, <1>6, <3>1, <3>3
    <2> QED
      BY <1>4, <1>6, <2>1
  <1> QED
    BY <1>2, <1>5, <1>6 DEF RemovalsWait

\* No removal that the router asked for is under way.
NoRemovals == Unregisters = {} /\ em.op # "unregister"

\* Nothing is asked of a router without unregistrations,
LEMMA EmRouterFree ==
  ASSUME NoRemovals', router'.at # "disconnecting"
  PROVE  EmRouter'
  BY DEF NoRemovals, EmRouter

\* none come of themselves,
LEMMA RemovalsOver ==
  ASSUME TypeOK, NoRemovals, RemovalsWait, em'.op # "unregister"
  PROVE  NoRemovals'
  BY RemovalsStay DEF NoRemovals, Unregisters

\* and a step that leaves them keeps the invariant.
LEMMA EmRouterKept ==
  ASSUME TypeOK, EmRouter, RemovalsWait, em'.op = "unregister" <=> em.op = "unregister",
         em.op = "unregister" => em'.e = em.e, router' = router
  PROVE  EmRouter'
  <1>1. /\ \A i \in DOMAIN em_queue' : em_queue'[i].op = "unregister" =>
              \E k \in DOMAIN em_queue : em_queue[k] = em_queue'[i]
        /\ \A i \in DOMAIN em_queue : em_queue[i].op = "unregister" =>
              \E k \in DOMAIN em_queue' : em_queue'[k] = em_queue[i]
        /\ (\A i, j \in Unregisters : i = j) => (\A i, j \in Unregisters' : i = j)
    BY RemovalsStay
  <1>2. Unregisters' # {} <=> Unregisters # {}
    BY <1>1 DEF Unregisters
  <1>3. \A i \in Unregisters' : \E k \in Unregisters : em_queue[k] = em_queue'[i]
    BY <1>1 DEF Unregisters
  <1>4. \A i, j \in Unregisters' : i = j
    BY <1>1 DEF EmRouter
  <1>5. router'.at = "disconnecting" =>
          /\ Unregisters' # {} \/ em'.op = "unregister"
          /\ \A i \in Unregisters' : router'.todo = {em_queue'[i].e}
          /\ em'.op = "unregister" => router'.todo = {em'.e}
    BY <1>2, <1>3 DEF EmRouter
  <1>6. /\ Unregisters' # {} \/ em'.op = "unregister" =>
             router'.at \in {"disconnecting", "stop_pending", "stop_connected"}
        /\ Unregisters' # {} => em'.op # "unregister"
    BY <1>2 DEF EmRouter
  <1> QED
    BY <1>4, <1>5, <1>6 DEF EmRouter

\* The client's calls and the router's own steps.
LEMMA CallsRemovals ==
  ASSUME TypeOK, EmRouter,
         \/ CallStopAll \/ StopPhase
         \/ \E e \in Endpoints : CallRequestConnection(e) \/ RequestRefused(e) \/ CallDisconnect(e) \/ StopNext(e)
              \/ \E answer \in LocalAnswers : CallRespond(e, answer)
  PROVE  EmRouter'
  <1>1. em' = em
    BY DEF CallStopAll, StopPhase, CallRequestConnection, RequestRefused, CallDisconnect, StopNext, CallRespond, managerVars
  <1>2. NoRemovals
    <2>1. CASE StopPhase \/ \E e \in Endpoints : StopNext(e)
      <3>1. DOMAIN em_queue = 1 .. Len(em_queue)
        BY DEF TypeOK
      <3> QED
        BY <2>1, <3>1 DEF StopPhase, StopNext, NoRemovals, Unregisters
    <2>2. CASE router = RouterIdle \/ \E e : router = [at |-> "refused", todo |-> {e}]
      <3>1. router.at \in {"idle", "refused"}
        BY <2>2 DEF RouterIdle
      <3> QED
        BY <3>1 DEF EmRouter, NoRemovals
    <2> QED
      BY <2>1, <2>2 DEF CallStopAll, CallRequestConnection, RequestRefused, CallDisconnect, CallRespond
  <1>3. CASE em_queue' = em_queue /\ router'.at # "disconnecting"
    BY <1>1, <1>2, <1>3, EmRouterFree DEF NoRemovals, Unregisters
  <1>4. ASSUME NEW e \in Endpoints, em_queue' = Append(em_queue, Job("unregister", e, channel[e])),
               \/ router' = [at |-> "disconnecting", todo |-> {e}]
               \/ router'.at \in {"stop_pending", "stop_connected"}
        PROVE  EmRouter'
    <2>1. Job("unregister", e, channel[e]) \in JobsOf(ManagerOperations) /\ em_queue \in Seq(JobsOf(ManagerOperations))
      BY JobType DEF TypeOK, ManagerOperations
    <2>2. /\ DOMAIN em_queue = 1 .. Len(em_queue) /\ DOMAIN em_queue' = 1 .. Len(em_queue) + 1 /\ Len(em_queue) \in Nat
          /\ \A i \in 1 .. Len(em_queue) : em_queue'[i] = em_queue[i]
          /\ em_queue'[Len(em_queue) + 1] = Job("unregister", e, channel[e])
      BY <1>4, <2>1, Posted
    <2>3. /\ em_queue'[Len(em_queue) + 1].op = "unregister" /\ em_queue'[Len(em_queue) + 1].e = e
      BY <2>2, JobFields
    <2>4. Unregisters' = {Len(em_queue) + 1}
      BY <1>2, <2>2, <2>3 DEF NoRemovals, Unregisters
    <2>5. em'.op # "unregister"
      BY <1>1, <1>2 DEF NoRemovals
    <2>6. CASE router' = [at |-> "disconnecting", todo |-> {e}]
      <3>1. router'.at = "disconnecting" /\ router'.todo = {e}
        BY <2>6
      <3> QED
        BY <2>3, <2>4, <2>5, <3>1 DEF EmRouter
    <2>7. CASE router'.at \in {"stop_pending", "stop_connected"}
      BY <2>3, <2>4, <2>5, <2>7 DEF EmRouter
    <2> QED
      BY <1>4, <2>6, <2>7
  <1>5. CASE CallStopAll \/ StopPhase
    <2>1. em_queue' = em_queue
      BY <1>5 DEF CallStopAll, StopPhase, managerVars
    <2>2. \/ router' = RouterIdle
          \/ \E at \in {"stop_pending", "stop_connected"} : \E es : router' = [at |-> at, todo |-> es]
      BY <1>5 DEF CallStopAll, StopPhase
    <2>3. router'.at # "disconnecting"
      BY <2>2 DEF RouterIdle
    <2> QED
      BY <1>3, <2>1, <2>3
  <1>6. ASSUME NEW e \in Endpoints,
               CallRequestConnection(e) \/ RequestRefused(e) \/ \E answer \in LocalAnswers : CallRespond(e, answer)
        PROVE  EmRouter'
    <2>1. em_queue' = em_queue
      BY <1>6 DEF CallRequestConnection, RequestRefused, CallRespond, managerVars
    <2>2. \/ router' = RouterIdle
          \/ \E at \in {"requesting", "answering"} : router' = [at |-> at, todo |-> {e}]
      BY <1>6 DEF CallRequestConnection, RequestRefused, CallRespond
    <2>3. router'.at # "disconnecting"
      BY <2>2 DEF RouterIdle
    <2> QED
      BY <1>3, <2>1, <2>3
  <1>7. ASSUME NEW e \in Endpoints, CallDisconnect(e)
        PROVE  EmRouter'
    <2>1. CASE e \in connections
      BY <1>4, <1>7, <2>1 DEF CallDisconnect
    <2>2. CASE e \notin connections
      BY <1>3, <1>7, <2>2 DEF CallDisconnect, RouterIdle
    <2> QED
      BY <2>1, <2>2
  <1>8. ASSUME NEW e \in Endpoints, StopNext(e)
        PROVE  EmRouter'
    <2>1. router \in [at : RouterPlaces, todo : SUBSET Endpoints] /\ router' = [router EXCEPT !.todo = @ \ {e}]
          /\ router.at \in {"stop_pending", "stop_connected"}
      BY <1>8 DEF TypeOK, StopNext
    <2>2. router'.at = router.at
      BY <2>1
    <2> QED
      BY <1>4, <1>8, <2>1, <2>2 DEF StopNext
  <1> QED
    BY <1>5, <1>6, <1>7, <1>8

\* The handshakes, the alarms and the workers leave the unregistrations,
LEMMA WorkersRemovals ==
  ASSUME TypeOK, EmRouter, NEW e \in Endpoints,
         \/ \E h \in handshakes : HandshakeEnds(h[1], h[2], h[3])
         \/ \E a \in alarms : AlarmFires(a[1], a[2])
         \/ \E c \in open : ChannelBreaks(c)
         \/ ReaderExits(e) \/ KeepAliveExits(e)
         \/ \E answer \in RemoteAnswers : ReadResponse(e, answer)
  PROVE  EmRouter'
  <1>1. UNCHANGED <<em, router>>
    BY DEF HandshakeEnds, AlarmFires, ChannelBreaks, ReaderExits, KeepAliveExits, ReadResponse, managerVars
  <1>2. RemovalsWait
    <2>1. CASE \E c \in open : ChannelBreaks(c)
      BY <2>1 DEF ChannelBreaks, RemovalsWait, managerVars
    <2> QED
      BY <2>1, WorkersPost DEF RemovalsWait, PostsManager
  <1> QED
    BY <1>1, <1>2, EmRouterKept

\* When the PCP thread answers the router, the router waits for it.
LEMMA HandlerAnswers ==
  ASSUME TypeOK, EvaluationInv, RegistrationInv, PcpRouter, NEW e \in Endpoints,
         \/ RunRequest(e) \/ IncomingConnection(e) \/ \E goes_on \in BOOLEAN : IncomingTie(e, goes_on)
         \/ RunEncrypted(e) \/ RegisterProcessor(e) \/ RegistrationDone(e)
         \/ \E op \in {"incoming_failed", "outgoing_failed"} : RunEncryptionFailed(op, e)
         \/ \E answer \in LocalAnswers : RunRespond(answer, e)
         \/ \E answer \in RemoteAnswers : RunFrame(answer, e)
         \/ RecordAnswer(e) \/ RunEndpointDisconnect(e)
         \/ EvaluateConnectionResult(e) \/ DecideResult(e) \/ DeliverResult(e)
  PROVE  router' = router \/ (router.at \in {"requesting", "answering"} /\ router'.at \in {"idle", "refused"})
  <1>1. ASSUME NEW at \in {"requesting", "answering"}, router = [at |-> at, todo |-> {e}]
        PROVE  /\ router.at = at /\ Answer(router, e) = RouterIdle /\ RouterIdle.at = "idle"
               /\ Refuse(router, e).at \in {"idle", "refused"}
    <2>1. router.at = at /\ router.todo = {e}
      BY <1>1
    <2>2. Answer(router, e) = RouterIdle /\ RouterIdle.at = "idle"
      BY <2>1 DEF Answer, RouterIdle
    <2>3. [router EXCEPT !.at = "refused"].at = "refused"
      BY <1>1
    <2> QED
      BY <2>1, <2>2, <2>3 DEF Refuse
  <1>2. AfterDestroyed(router, e) = router \/
          (router.at = "requesting" /\ AfterDestroyed(router, e).at \in {"idle", "refused"})
    <2>1. CASE IsPending(e) /\ ~Registered(e) /\ ~pending[e].incoming
      <3>1. Dialing(e)
        BY <2>1 DEF Dialing
      <3>2. router = [at |-> "requesting", todo |-> {e}]
        BY <3>1, RouterDials
      <3>3. AfterDestroyed(router, e) = Refuse(router, e)
        BY <2>1 DEF AfterDestroyed
      <3>4. router.at = "requesting" /\ Refuse(router, e).at \in {"idle", "refused"}
        BY <1>1, <3>2
      <3> QED
        BY <3>3, <3>4
    <2>2. CASE ~(IsPending(e) /\ ~Registered(e) /\ ~pending[e].incoming)
      BY <2>2 DEF AfterDestroyed
    <2> QED
      BY <2>1, <2>2
  <1>3. \A op : Takes(op, e) => \E i \in DOMAIN pcp_queue : pcp_queue[i].op = op /\ pcp_queue[i].e = e
    <2>1. pcp_queue # <<>> => 1 \in DOMAIN pcp_queue /\ Head(pcp_queue) = pcp_queue[1]
      BY Taken DEF TypeOK
    <2> QED
      BY <2>1 DEF Takes
  <1>4. CASE RunRequest(e)
    <2>1. router = [at |-> "requesting", todo |-> {e}]
      BY <1>3, <1>4 DEF RunRequest, PcpRouter
    <2> QED
      BY <1>1, <1>4, <2>1 DEF RunRequest
  <1>5. ASSUME NEW answer \in LocalAnswers, RunRespond(answer, e)
        PROVE  router' = router \/ (router.at = "answering" /\ router' = RouterIdle)
    <2>1. router = [at |-> "answering", todo |-> {e}]
      BY <1>3, <1>5 DEF RunRespond, PcpRouter
    <2>2. router.at = "answering"
      BY <2>1
    <2>3. AfterDestroyed(router, e) = router
      BY <1>2, <2>2
    <2> QED
      BY <1>1, <1>5, <2>1, <2>2, <2>3 DEF RunRespond
  <1>6. CASE RegistrationDone(e)
    <2>1. pcp.at = "registered" /\ pcp.e = e /\ IsPending(e)
      BY <1>6 DEF RegistrationDone, RegistrationInv
    <2>2. CASE ~pending[e].incoming
      <3>1. Dialing(e)
        BY <2>1, <2>2 DEF Dialing
      <3>2. router = [at |-> "requesting", todo |-> {e}]
        BY <3>1, RouterDials
      <3> QED
        BY <1>1, <1>6, <2>2, <3>2 DEF RegistrationDone
    <2> QED
      BY <1>6, <2>2 DEF RegistrationDone
  <1>7. CASE JobDone(e) /\ pcp.e = e
    <2>1. CASE pcp.op \in LocalAnswers
      <3>1. router = [at |-> "answering", todo |-> {e}]
        BY <1>7, <2>1, RouterAnswers
      <3> QED
        BY <1>1, <1>7, <2>1, <3>1 DEF JobDone
    <2> QED
      BY <1>7, <2>1 DEF JobDone
  <1>8. CASE \/ RunEncrypted(e) \/ RegisterProcessor(e) \/ RecordAnswer(e) \/ DecideResult(e) \/ IncomingConnection(e)
             \/ \E answer \in RemoteAnswers : RunFrame(answer, e)
    BY <1>8 DEF RunEncrypted, RegisterProcessor, RecordAnswer, DecideResult, IncomingConnection, RunFrame
  <1>9. CASE \/ \E goes_on \in BOOLEAN : IncomingTie(e, goes_on)
             \/ \E op \in {"incoming_failed", "outgoing_failed"} : RunEncryptionFailed(op, e)
             \/ RunEndpointDisconnect(e)
    <2>1. router' \in {router, AfterDestroyed(router, e)}
      BY <1>9 DEF IncomingTie, RunEncryptionFailed, RunEndpointDisconnect
    <2> QED
      BY <1>2, <2>1
  <1>10. CASE EvaluateConnectionResult(e) \/ DeliverResult(e)
    BY <1>7, <1>10 DEF EvaluateConnectionResult, DeliverResult
  <1>11. RouterIdle.at = "idle"
    BY DEF RouterIdle
  <1> QED
    BY <1>4, <1>5, <1>6, <1>8, <1>9, <1>10, <1>11

\* so does the PCP thread,
LEMMA HandlerRemovals ==
  ASSUME TypeOK, EvaluationInv, RegistrationInv, PcpRouter, EmRouter, NEW e \in Endpoints,
         \/ RunRequest(e) \/ IncomingConnection(e) \/ \E goes_on \in BOOLEAN : IncomingTie(e, goes_on)
         \/ RunEncrypted(e) \/ RegisterProcessor(e) \/ RegistrationDone(e)
         \/ \E op \in {"incoming_failed", "outgoing_failed"} : RunEncryptionFailed(op, e)
         \/ \E answer \in LocalAnswers : RunRespond(answer, e)
         \/ \E answer \in RemoteAnswers : RunFrame(answer, e)
         \/ RecordAnswer(e) \/ RunEndpointDisconnect(e)
         \/ EvaluateConnectionResult(e) \/ DecideResult(e) \/ DeliverResult(e)
  PROVE  EmRouter'
  <1>1. em' = em
    BY DEF RunRequest, IncomingConnection, IncomingTie, RunEncrypted, RegisterProcessor, RegistrationDone,
       RunEncryptionFailed, RunRespond, RunFrame, RecordAnswer, RunEndpointDisconnect,
       EvaluateConnectionResult, DecideResult, DeliverResult, managerVars
  <1>2. RemovalsWait
    <2>1. CASE RegisterProcessor(e)
      <3>1. Job("register", e, pending[e].chan) \in JobsOf(ManagerOperations)
        BY JobType DEF ManagerOperations, TypeOK
      <3>2. Job("register", e, pending[e].chan).op = "register"
        BY JobFields
      <3> QED
        BY <2>1, <3>1, <3>2 DEF RegisterProcessor, RemovalsWait
    <2>2. CASE ~RegisterProcessor(e)
      BY <2>2, HandlerPosts DEF RemovalsWait, PostsManager
    <2> QED
      BY <2>1, <2>2
  <1>3. router' = router \/ (router.at \in {"requesting", "answering"} /\ router'.at \in {"idle", "refused"})
    BY HandlerAnswers
  <1>4. CASE router' = router
    BY <1>1, <1>2, <1>4, EmRouterKept
  <1>5. CASE router.at \in {"requesting", "answering"} /\ router'.at \in {"idle", "refused"}
    <2>1. NoRemovals
      BY <1>5 DEF EmRouter, NoRemovals
    <2>2. NoRemovals'
      BY <1>1, <1>2, <2>1, RemovalsOver DEF NoRemovals
    <2> QED
      BY <1>5, <2>2, EmRouterFree
  <1> QED
    BY <1>3, <1>4, <1>5

\* and the manager thread answers the one it has run.
LEMMA ManagerRemovals ==
  ASSUME TypeOK, RegistrationInv, EmRouter, NEW e \in Endpoints,
         \/ TakeRegister(e) \/ RegisterEndpoint(e) \/ TakeRemove(e) \/ RemoveChannel(e)
         \/ NotifyProcessors(e) \/ BarrierOpens(e) \/ Disconnect(e) \/ RemoveEndpointState(e)
  PROVE  EmRouter'
  <1>1. Idle.op = "none" /\ Idle.at = "idle"
    BY DEF Idle
  <1>2. CASE TakeRegister(e)
    <2>1. /\ em = Idle /\ em_queue # <<>> /\ em_queue' = Tail(em_queue) /\ Head(em_queue).op = "register"
          /\ em' = Running(Head(em_queue), "register") /\ router' = router
      BY <1>2 DEF TakeRegister
    <2>2. em'.op = "register"
      BY <2>1 DEF Running
    <2>3. RemovalsWait
      BY <2>1 DEF RemovalsWait
    <2> QED
      BY <1>1, <2>1, <2>2, <2>3, EmRouterKept
  <1>3. CASE TakeRemove(e)
    <2>1. /\ em = Idle /\ em_queue # <<>> /\ em_queue' = Tail(em_queue) /\ Head(em_queue).op \in {"discard", "unregister"}
          /\ Head(em_queue).e = e /\ router' = router
          /\ em' = [Running(Head(em_queue), "remove") EXCEPT !.notify = IsConnectedToEndpoint(e)]
      BY <1>3 DEF TakeRemove
    <2>2. em'.op = Head(em_queue).op /\ em'.e = e
      BY <2>1 DEF Running
    <2>3. CASE Head(em_queue).op = "discard"
      <3>1. RemovalsWait
        BY <2>1, <2>3 DEF RemovalsWait
      <3> QED
        BY <1>1, <2>1, <2>2, <2>3, <3>1, EmRouterKept
    <2>4. CASE Head(em_queue).op = "unregister"
      <3>1. /\ DOMAIN em_queue = 1 .. Len(em_queue) /\ DOMAIN em_queue' = 1 .. Len(em_queue) - 1
            /\ 1 \in DOMAIN em_queue /\ Head(em_queue) = em_queue[1] /\ Len(em_queue) \in Nat \ {0}
            /\ \A i \in 1 .. Len(em_queue) - 1 : em_queue'[i] = em_queue[i + 1] /\ i + 1 \in DOMAIN em_queue
        BY <2>1, Taken DEF TypeOK
      <3>2. 1 \in Unregisters /\ em_queue[1].e = e
        BY <2>1, <2>4, <3>1 DEF Unregisters
      <3>3. Unregisters' = {}
        <4> SUFFICES ASSUME NEW i \in 1 .. Len(em_queue) - 1, em_queue'[i].op = "unregister" PROVE FALSE
          BY <3>1 DEF Unregisters
        <4>1. i + 1 \in Unregisters
          BY <3>1 DEF Unregisters
        <4>2. i + 1 = 1
          BY <3>2, <4>1 DEF EmRouter
        <4> QED
          BY <4>2
      <3>4. router.at \in {"disconnecting", "stop_pending", "stop_connected"}
            /\ (router.at = "disconnecting" => router.todo = {e})
        BY <3>2 DEF EmRouter
      <3> QED
        BY <2>1, <2>2, <2>4, <3>3, <3>4 DEF EmRouter
    <2> QED
      BY <2>1, <2>3, <2>4
  <1>4. CASE RegisterEndpoint(e)
    <2>1. em' = Idle /\ em.op = "register" /\ UNCHANGED <<em_queue, router>>
      BY <1>4 DEF RegisterEndpoint, RegistrationInv
    <2> QED
      BY <1>1, <2>1, EmRouterKept DEF RemovalsWait
  <1>5. CASE RemoveChannel(e) \/ NotifyProcessors(e) \/ BarrierOpens(e) \/ Disconnect(e)
    <2>1. /\ em # Idle /\ UNCHANGED <<em_queue, router>>
      BY <1>5, EmShape DEF RemoveChannel, NotifyProcessors, BarrierOpens, Disconnect
    <2>2. PICK at \in {"notify", "barrier", "disconnect", "join"}, c \in {em.c, channel[e]} :
            em' \in {[em EXCEPT !.at = at], [em EXCEPT !.at = at, !.c = c]}
      BY <1>5 DEF RemoveChannel, NotifyProcessors, BarrierOpens, Disconnect
    <2>3. em'.op = em.op /\ em'.e = em.e
      BY <2>1, <2>2 DEF TypeOK, RunsOf
    <2> QED
      BY <2>1, <2>3, EmRouterKept DEF RemovalsWait
  <1>6. CASE RemoveEndpointState(e)
    <2>1. em' = Idle /\ em.e = e /\ em_queue' = em_queue
      BY <1>6 DEF RemoveEndpointState
    <2>2. CASE em.op # "unregister"
      <3>1. router' = router
        BY <1>6, <2>2 DEF RemoveEndpointState
      <3> QED
        BY <1>1, <2>1, <2>2, <3>1, EmRouterKept DEF RemovalsWait
    <2>3. CASE em.op = "unregister"
      <3>1. router' = Answer(router, e)
        BY <1>6, <2>3 DEF RemoveEndpointState
      <3>2. router'.at # "disconnecting"
        <4>1. CASE router.at = "disconnecting"
          <5>1. router.todo = {e}
            BY <2>1, <2>3, <4>1 DEF EmRouter
          <5>2. router' = RouterIdle
            BY <3>1, <4>1, <5>1 DEF Answer
          <5> QED
            BY <5>2 DEF RouterIdle
        <4>2. CASE router.at # "disconnecting"
          <5>1. router' \in {router, RouterIdle}
            BY <3>1 DEF Answer
          <5> QED
            BY <4>2, <5>1 DEF RouterIdle
        <4> QED
          BY <4>1, <4>2
      <3>3. NoRemovals'
        <4>1. Unregisters = {}
          BY <2>3 DEF EmRouter
        <4> QED
          BY <1>1, <2>1, <4>1 DEF NoRemovals, Unregisters
      <3> QED
        BY <3>2, <3>3, EmRouterFree
    <2> QED
      BY <2>2, <2>3
  <1> QED
    BY <1>2, <1>3, <1>4, <1>5, <1>6

\* Every step keeps the router's invariant.
LEMMA StepRouter ==
  ASSUME TypeOK, P!Inv, RegistrationInv, EvaluationInv, RouterInv, Next
  PROVE  RouterInv'
  <1>1. PcpRouter /\ EmRouter
    BY RouterParts
  <1>2. ASSUME NEW e \in Endpoints,
               \/ RunRequest(e) \/ IncomingConnection(e) \/ \E goes_on \in BOOLEAN : IncomingTie(e, goes_on)
               \/ RunEncrypted(e) \/ RegisterProcessor(e) \/ RegistrationDone(e)
               \/ \E op \in {"incoming_failed", "outgoing_failed"} : RunEncryptionFailed(op, e)
               \/ \E answer \in LocalAnswers : RunRespond(answer, e)
               \/ \E answer \in RemoteAnswers : RunFrame(answer, e)
               \/ RecordAnswer(e) \/ RunEndpointDisconnect(e)
               \/ EvaluateConnectionResult(e) \/ DecideResult(e) \/ DeliverResult(e)
        PROVE  RouterInv'
    <2>1. EmRouter'
      BY <1>1, <1>2, HandlerRemovals
    <2>2. PcpRouter'
      BY <1>1, <1>2, RequestRouter, AttemptRouter, EncryptedRouter, AnswerRouter, ResultRouter
    <2> QED
      BY <2>1, <2>2, RouterFromParts
  <1>3. CASE PcpStep
    BY <1>2, <1>3 DEF PcpStep
  <1>4. CASE ManagerStep
    BY <1>1, <1>4, ManagerRouter, ManagerRemovals, RouterFromParts DEF ManagerStep
  <1>5. CASE RouterStep
    BY <1>1, <1>5, StopsRouter, CallsRemovals, RouterFromParts DEF RouterStep
  <1>6. CASE HandshakeStep \/ AlarmStep \/ \E e \in Endpoints : ReaderStep(e) \/ KeepAliveStep(e)
    <2>1. Endpoints # {}
      BY <1>6 DEF HandshakeStep, AlarmStep, TypeOK
    <2> QED
      BY <1>1, <1>6, <2>1, WorkersRouter, WorkersRemovals, RouterFromParts
         DEF HandshakeStep, AlarmStep, ReaderStep, KeepAliveStep
  <1>7. CASE Environment
    <2>1. ASSUME NEW e \in Endpoints,
                 CallRequestConnection(e) \/ \E answer \in LocalAnswers : CallRespond(e, answer)
          PROVE  RouterInv'
      BY <1>1, <2>1, CallsRouter, CallsRemovals, RouterFromParts
    <2>2. CASE CallStopAll \/ \E e \in Endpoints : CallDisconnect(e)
      BY <1>1, <2>2, StopsRouter, CallsRemovals, RouterFromParts
    <2>3. CASE \E e \in Endpoints : KeepAliveExits(e) \/ \E answer \in RemoteAnswers : ReadResponse(e, answer)
      BY <1>1, <2>3, WorkersRouter, WorkersRemovals, RouterFromParts
    <2>4. ASSUME NEW c \in open, ChannelBreaks(c)
          PROVE  RouterInv'
      <3>1. UNCHANGED <<pending, pcp, pcp_queue, em, em_queue, router, status>>
        BY <2>4 DEF ChannelBreaks, handlerVars, managerVars, proxyVars
      <3>2. \A f \in Endpoints : Dialing(f)' <=> Dialing(f)
        BY <3>1, DialingSame
      <3>3. PcpRouter'
        BY <1>1, <3>1, <3>2, PcpRouterKept DEF CallsWait
      <3>4. EmRouter'
        BY <1>1, <3>1, EmRouterKept DEF RemovalsWait
      <3> QED
        BY <3>3, <3>4, RouterFromParts
    <2> QED
      BY <1>2, <1>7, <2>1, <2>2, <2>3, <2>4 DEF Environment
  <1> QED
    BY <1>3, <1>4, <1>5, <1>6, <1>7 DEF Next

----------------------------------------------------------------------------
(* The invariant, and what follows from it *)

\* The inductive invariant of the life cycle, when a peer answers once.
IndInv ==
  /\ TypeOK
  /\ P!Inv
  /\ RegistrationInv
  /\ EvaluationInv
  /\ ChannelAll
  /\ ReaderAll
  /\ KeysAll
  /\ RouterInv

\* Nothing is there at first.
LEMMA InitialFunctions ==
  ASSUME Init, NEW e \in Endpoints
  PROVE  /\ pending[e] = NoPending
         /\ channel[e] = None /\ context[e] = None /\ endpoints[e] = None
         /\ reader[e] = "none" /\ status[e] = {}
         /\ e \notin connections
  BY DEF Init, ProxyInit, kPending

\* The initial state has the types of TypeOK.
LEMMA InitialTypes ==
  ASSUME Init
  PROVE  TypeOK
  <1>1. ProxyTypeOK
    BY DEF Init, ProxyInit, ProxyTypeOK, ToldStates, StatusBits, kPending
  <1>2. attempts \in 0 .. MaxAttempts
    BY LifecycleConstants DEF Init
  <1>3. /\ open \subseteq Channels
        /\ handshakes \subseteq Endpoints \X Channels \X BOOLEAN
        /\ alarms \subseteq Endpoints \X Channels
    BY DEF Init
  <1>4. responses \in [Channels -> 0 .. MaxResponses] /\ overtaken \subseteq Channels
    BY LifecycleConstants DEF Init
  <1>5. pending \in [Endpoints -> [chan : ChannelOrNone, incoming : BOOLEAN, keys : ChannelOrNone]]
    BY DEF Init, NoPending, ChannelOrNone
  <1>6. pending_alarms \in [Endpoints -> ChannelOrNone]
    BY DEF Init, ChannelOrNone
  <1>7. pcp_queue \in Seq(JobsOf(PcpOperations)) /\ em_queue \in Seq(JobsOf(ManagerOperations))
    BY DEF Init
  <1>8. /\ pcp \in RunsOf(PcpOperations, PcpPlaces) \cup {Idle}
        /\ em \in RunsOf(ManagerOperations, ManagerPlaces) \cup {Idle}
    BY DEF Init
  <1>9. {channel, context, endpoints} \subseteq [Endpoints -> ChannelOrNone]
    BY DEF Init, ChannelOrNone
  <1>10. {reader, keep_alive} \subseteq [Endpoints -> Threads]
    BY DEF Init, Threads
  <1>11. router \in [at : RouterPlaces, todo : SUBSET Endpoints]
    BY DEF Init, RouterIdle, RouterPlaces
  <1>12. crashed \in {"no", "tie_break", "encrypted", "encryption_failed", "evaluate"}
    BY DEF Init
  <1> QED
    BY <1>1, <1>2, <1>3, <1>4, <1>5, <1>6, <1>7, <1>8, <1>9, <1>10, <1>11, <1>12 DEF TypeOK

\* The initial state is one of ClientConnections.
LEMMA InitialRefines ==
  ASSUME Init
  PROVE  P!Init
  <1>1. \A e \in Endpoints : ~IsPending(e) /\ channel[e] = None
    BY InitialFunctions DEF IsPending
  <1>2. Handshaking = {} /\ Agreeing = {} /\ WithChannel = {}
    BY <1>1 DEF Handshaking, Agreeing, WithChannel
  <1>3. pcp.at = "idle" /\ em.at = "idle"
    BY DEF Init, Idle
  <1>4. EvaluationJob = "idle" /\ Evaluated = {}
    BY <1>3 DEF EvaluationJob, Evaluated, Evaluating
  <1>5. ~Removing
    BY <1>3 DEF Removing
  <1>6. BeingRemoved = {} /\ WillNotify = FALSE
    BY <1>5 DEF BeingRemoved, WillNotify
  <1>7. DOMAIN pcp_queue = {}
    BY DEF Init
  <1>8. DisconnectJobs = {}
    BY <1>3, <1>7 DEF DisconnectJobs
  <1>9. P!ProxyInit
    BY Zenon DEF Init, ProxyInit, P!ProxyInit, kPending, P!kPending
  <1> QED
    BY <1>2, <1>4, <1>6, <1>8, <1>9 DEF P!Init

\* The initial state has the other parts of the invariant.
LEMMA InitialParts ==
  ASSUME Init
  PROVE  /\ RegistrationInv /\ EvaluationInv
         /\ ChannelAll /\ ReaderAll /\ KeysAll
         /\ RouterInv
  <1>1. /\ pcp.at = "idle" /\ pcp.op = "none" /\ em.at = "idle" /\ em.op = "none"
        /\ pcp = Idle
    BY DEF Init, Idle
  <1>2. DOMAIN pcp_queue = {} /\ DOMAIN em_queue = {}
    BY DEF Init
  <1>3. router.at = "idle"
    BY DEF Init, RouterIdle
  <1>4. "none" \notin LocalAnswers \cup RemoteAnswers
    BY DEF LocalAnswers, RemoteAnswers
  <1>5. \A e \in Endpoints : ~IsPending(e) /\ e \notin Agreeing /\ ~Dialing(e)
    BY InitialFunctions DEF IsPending, Agreeing, Dialing
  <1>6. RegistrationInv
    BY <1>1, <1>2, <1>5 DEF RegistrationInv
  <1>7. EvaluationInv
    BY <1>1, <1>2 DEF EvaluationInv
  <1>8. ASSUME NEW e \in Endpoints PROVE ChannelInv(e)
    BY <1>1, <1>5, InitialFunctions DEF ChannelInv
  <1>9. ASSUME NEW e \in Endpoints PROVE ReaderInv(e)
    BY <1>1, <1>2, <1>4, InitialFunctions DEF ReaderInv, Answered, Queued, Runs
  <1>10. ASSUME NEW e \in Endpoints PROVE KeysInv(e)
    BY <1>1, <1>5, InitialFunctions DEF KeysInv, StrayInv
  <1>11. Unregisters = {}
    BY <1>2 DEF Unregisters
  <1>12. RouterInv
    BY <1>1, <1>2, <1>3, <1>4, <1>5, <1>11 DEF RouterInv
  <1> QED
    BY <1>6, <1>7, <1>8, <1>9, <1>10, <1>12 DEF ChannelAll, ReaderAll, KeysAll

\* The invariant holds at first.
LEMMA InitialInvariant ==
  ASSUME MaxResponses = 1, Init
  PROVE  IndInv
  <1>1. P!Inv
    BY InitialRefines, P!InitInv
  <1> QED
    BY <1>1, InitialTypes, InitialParts DEF IndInv

\* A step keeps the invariant of ClientConnections, as it is one of its steps.
LEMMA StepProxyInv ==
  ASSUME MaxResponses = 1, IndInv, [Next]_vars
  PROVE  P!Inv' /\ ProxyTypeOK'
  <1>1. [P!Next]_P!vars
    BY StepRefines DEF IndInv
  <1>2. (MaxResponses > 1) = FALSE
    OBVIOUS
  <1>3. P!Inv
    BY DEF IndInv
  <1>4. P!Inv'
    BY <1>1, <1>2, <1>3, P!NextInv
  <1>5. ProxyTypeOK'
    BY <1>4, Zenon DEF P!Inv, P!TypeOK, P!ProxyTypeOK, ProxyTypeOK, P!StatusBits, StatusBits,
       P!LocalAnswers, LocalAnswers, P!RemoteAnswers, RemoteAnswers, P!ToldStates, ToldStates
  <1> QED
    BY <1>4, <1>5

\* Doing nothing keeps every part.
LEMMA StutterParts ==
  ASSUME IndInv, UNCHANGED vars
  PROVE  /\ TypeOK' /\ RegistrationInv' /\ EvaluationInv'
         /\ ChannelAll' /\ ReaderAll' /\ KeysAll' /\ RouterInv'
  <1>1. /\ UNCHANGED <<connections, status, told>> /\ UNCHANGED proxyVars
        /\ UNCHANGED attempts /\ UNCHANGED open /\ UNCHANGED handshakes /\ UNCHANGED responses /\ UNCHANGED overtaken
        /\ UNCHANGED pending /\ UNCHANGED alarms /\ UNCHANGED pending_alarms
        /\ UNCHANGED pcp_queue /\ UNCHANGED pcp /\ UNCHANGED em_queue /\ UNCHANGED em
        /\ UNCHANGED channel /\ UNCHANGED context /\ UNCHANGED endpoints
        /\ UNCHANGED reader /\ UNCHANGED keep_alive /\ UNCHANGED router /\ UNCHANGED crashed
    BY DEF vars, proxyVars, wireVars, handlerVars, managerVars
  <1>2. TypeOK'
    BY <1>1 DEF IndInv, TypeOK, ProxyTypeOK, proxyVars
  <1>3. RegistrationInv'
    BY <1>1 DEF IndInv, RegistrationInv, IsPending, Registered, BeingRegistered
  <1>4. EvaluationInv'
    BY <1>1 DEF IndInv, EvaluationInv, IsPending, Registered, IsConnectionAccepted,
       IsConnectionRejected, StatusesContain
  <1>5. ChannelAll'
    BY <1>1 DEF IndInv, ChannelAll, ChannelInv, Agreeing, DisconnectJobs, IsPending, Registered,
       BeingRegistered
  <1>6. ReaderAll'
    BY <1>1 DEF IndInv, ReaderAll, ReaderInv, Answered, Queued, Runs
  <1>7. KeysAll'
    BY <1>1 DEF IndInv, KeysAll, KeysInv, StrayInv, Outstanding, IsResult, IsPending, Registered,
       BeingRegistered, Runs, IsConnectedToEndpoint, StatusesContain
  <1>8. RouterInv'
    BY <1>1 DEF IndInv, RouterInv, Dialing, Unregisters, Queued, Runs, IsPending, Registered
  <1> QED
    BY <1>2, <1>3, <1>4, <1>5, <1>6, <1>7, <1>8

\* Every step keeps the invariant.
LEMMA InductiveStep ==
  ASSUME MaxResponses = 1, IndInv, [Next]_vars
  PROVE  IndInv'
  <1>1. P!Inv' /\ ProxyTypeOK'
    BY StepProxyInv
  <1>2. CASE Next
    <2>1. TypeOK'
      BY <1>1, <1>2, StepTypes DEF IndInv
    <2>2. RegistrationInv' /\ EvaluationInv' /\ ChannelAll'
      BY <1>2, StepRegistration, StepEvaluation, StepChannels DEF IndInv
    <2>3. ReaderAll' /\ KeysAll'
      BY <1>2, StepReaders, StepKeys DEF IndInv
    <2>4. RouterInv'
      BY <1>2, StepRouter DEF IndInv
    <2> QED
      BY <1>1, <2>1, <2>2, <2>3, <2>4 DEF IndInv
  <1>3. CASE UNCHANGED vars
    BY <1>1, <1>3, StutterParts DEF IndInv
  <1> QED
    BY <1>2, <1>3

\* The invariant holds in every state of the life cycle.
THEOREM LifecycleInvariance ==
  ASSUME MaxResponses = 1
  PROVE  Spec => []IndInv
  <1>1. Init => IndInv
    BY InitialInvariant
  <1>2. IndInv /\ [Next]_vars => IndInv'
    BY InductiveStep
  <1> QED
    BY <1>1, <1>2, PTL DEF Spec

\* The state has its types.
THEOREM LifecycleTypes ==
  ASSUME MaxResponses = 1
  PROVE  Spec => []TypeOK
  <1>1. IndInv => TypeOK
    BY DEF IndInv
  <1> QED
    BY <1>1, LifecycleInvariance, PTL

\* A connected endpoint that has a channel talks with the keys of that channel's
\* own handshake (EncryptChannelForEndpoint in EvaluateConnectionResult), unless
\* the channel's reader has taken the peer's answer before that handshake ended,
\* for any number of endpoints and of attempts.
THEOREM LifecycleKeysMatch ==
  ASSUME MaxResponses = 1
  PROVE  Spec => []KeysMatch
  <1>1. IndInv => KeysMatch
    BY DEF IndInv, KeysAll, KeysInv, KeysMatch
  <1> QED
    BY <1>1, LifecycleInvariance, PTL

\* The answer that OnIncomingFrame records is of the connection that is pending.
LEMMA AnswersBelongHolds ==
  ASSUME IndInv
  PROVE  AnswersBelong
  <1> SUFFICES ASSUME pcp.at = "record", pcp.op \in RemoteAnswers, pcp.e \in connections
               PROVE  pending[pcp.e].chan = pcp.c
    BY DEF AnswersBelong
  <1>1. pcp.e \in Endpoints
    BY DEF IndInv, TypeOK, ProxyTypeOK
  <1>2. ~Answered(pcp.e) /\ pcp.c = endpoints[pcp.e]
    BY <1>1 DEF IndInv, ReaderAll, ReaderInv
  <1>3. "connected" \notin status[pcp.e]
    BY <1>2 DEF Answered
  <1>4. HasPendingConnectionToEndpoint(pcp.e)
    BY <1>3 DEF HasPendingConnectionToEndpoint, kConnected
  <1>5. ProxyFacts(pcp.e)
    BY <1>1, ProxyInv DEF IndInv
  <1>6. pcp.e \in Agreeing
    BY <1>4, <1>5 DEF ProxyFacts
  <1>7. endpoints[pcp.e] \in {None, pending[pcp.e].chan} /\ endpoints[pcp.e] # None
    BY <1>1, <1>6 DEF IndInv, ChannelAll, ChannelInv
  <1> QED
    BY <1>2, <1>7

\* A CONNECTION_RESPONSE is recorded for the connection it came on, never for a
\* later one to the same endpoint (OnIncomingFrame and RegisterEndpoint).
THEOREM LifecycleAnswersBelong ==
  ASSUME MaxResponses = 1
  PROVE  Spec => []AnswersBelong
  <1>1. IndInv => AnswersBelong
    BY AnswersBelongHolds
  <1> QED
    BY <1>1, LifecycleInvariance, PTL

\* When EvaluateConnectionResult finds an accepted connection without a channel,
\* the manager thread is between UnregisterChannelForEndpoint and OnDisconnected
\* for that endpoint.
THEOREM LifecycleChannelLoss ==
  ASSUME MaxResponses = 1
  PROVE  Spec => []AcceptedLosesChannelOnlyInRemoval
  <1>1. IndInv => AcceptedLosesChannelOnlyInRemoval
    <2> SUFFICES ASSUME IndInv, pcp.at = "decide", IsConnectionAccepted(pcp.e),
                        channel[pcp.e] = None
                 PROVE  em.e = pcp.e /\ em.at \in {"notify", "barrier", "disconnect"}
      BY DEF AcceptedLosesChannelOnlyInRemoval
    <2>1. pcp.e \in connections
      BY DEF IsConnectionAccepted, StatusesContain
    <2>2. pcp.e \in Endpoints
      BY <2>1 DEF IndInv, TypeOK, ProxyTypeOK
    <2> QED
      BY <2>1, <2>2 DEF IndInv, ChannelAll, ChannelInv
  <1> QED
    BY <1>1, LifecycleInvariance, PTL

\* At rest, no reader is left, and so no endpoint.
LEMMA RestEndpoints ==
  ASSUME IndInv, AtRest, NEW e \in Endpoints
  PROVE  endpoints[e] = None /\ channel[e] = None /\ e \notin connections /\ told[e] \notin Open
  <1>1. /\ DOMAIN pcp_queue = {} /\ DOMAIN em_queue = {}
        /\ pcp = Idle /\ em = Idle /\ reader[e] # "reading"
    BY DEF AtRest
  <1>2. em.at = "idle"
    BY <1>1 DEF Idle
  <1>3. reader[e] # "handling"
    BY <1>1 DEF IndInv, ReaderAll, ReaderInv, Queued, Runs
  <1>4. reader[e] # "done" /\ reader[e] # "running"
    BY <1>1 DEF IndInv, ReaderAll, ReaderInv
  <1>5. reader[e] \in Threads
    BY DEF IndInv, TypeOK
  <1>6. reader[e] = "none"
    BY <1>1, <1>3, <1>4, <1>5 DEF Threads
  <1>7. endpoints[e] = None
    BY <1>6 DEF IndInv, ReaderAll, ReaderInv
  <1>8. channel[e] = None /\ e \notin connections
    BY <1>2, <1>7 DEF IndInv, ChannelAll, ChannelInv
  <1>9. ProxyFacts(e)
    BY ProxyInv DEF IndInv
  <1> QED
    BY <1>7, <1>8, <1>9 DEF ProxyFacts

\* At rest, nothing is pending.
LEMMA RestPending ==
  ASSUME IndInv, AtRest, NEW e \in Endpoints
  PROVE  ~IsPending(e)
  <1>1. /\ DOMAIN pcp_queue = {} /\ handshakes = {} /\ crashed = "no"
        /\ pcp = Idle /\ em = Idle
    BY DEF AtRest
  <1>2. pcp.at = "idle" /\ em.at = "idle"
    BY <1>1 DEF Idle
  <1>3. ~Outstanding(e)
    BY <1>1 DEF Outstanding
  <1>4. IsPending(e) => Registered(e)
    BY <1>1, <1>2, <1>3 DEF IndInv, KeysAll, KeysInv
  <1>5. e \notin DisconnectJobs
    BY <1>1, <1>2 DEF DisconnectJobs
  <1>6. e \notin Agreeing
    BY <1>5, RestEndpoints DEF IndInv, ChannelAll, ChannelInv
  <1> QED
    BY <1>2, <1>4, <1>6 DEF Agreeing, BeingRegistered

\* At rest, the router waits for nothing.
LEMMA RestRouter ==
  ASSUME IndInv, AtRest
  PROVE  router.at \notin {"requesting", "answering", "disconnecting"}
  <1>1. DOMAIN pcp_queue = {} /\ DOMAIN em_queue = {} /\ pcp = Idle /\ em = Idle
    BY DEF AtRest
  <1>2. pcp.op = "none" /\ em.op = "none"
    BY <1>1 DEF Idle
  <1>3. Unregisters = {}
    BY <1>1 DEF Unregisters
  <1>4. \A e \in Endpoints : ~Dialing(e)
    BY RestPending DEF Dialing
  <1>5. router.at # "requesting"
    BY <1>1, <1>4 DEF IndInv, RouterInv, Queued
  <1>6. router.at # "answering"
    BY <1>1 DEF IndInv, RouterInv, Queued, Runs
  <1>7. router.at # "disconnecting"
    BY <1>2, <1>3 DEF IndInv, RouterInv
  <1> QED
    BY <1>5, <1>6, <1>7

\* Once all threads are at rest and all channels closed, nothing is left of any
\* connection, the application has heard of every end, and no call is waiting
\* (RemoveEndpoint, ProcessEndpointDisconnection, OnDisconnected).
THEOREM LifecycleNothingLeft ==
  ASSUME MaxResponses = 1
  PROVE  Spec => []NothingLeft
  <1>1. IndInv => NothingLeft
    <2> SUFFICES ASSUME IndInv, AtRest
                 PROVE  /\ connections = {}
                        /\ \A e \in Endpoints :
                             /\ ~IsPending(e) /\ endpoints[e] = None /\ channel[e] = None
                             /\ told[e] \notin Open
                        /\ router.at \notin {"requesting", "answering", "disconnecting"}
      BY DEF NothingLeft
    <2>1. connections \subseteq Endpoints
      BY DEF IndInv, TypeOK, ProxyTypeOK
    <2>2. connections = {}
      BY <2>1, RestEndpoints
    <2> QED
      BY <2>2, RestEndpoints, RestPending, RestRouter
  <1> QED
    BY <1>1, LifecycleInvariance, PTL

\* The two instances of ClientConnections start alike.
LEMMA SameInit == P!Init = Connections!Init
  BY DEF P!Init, Connections!Init, P!ProxyInit, Connections!ProxyInit, P!kPending,
     Connections!kPending

\* ... and take the same steps.
LEMMA SameNext == [P!Next]_P!vars = [Connections!Next]_Connections!vars
  BY Zenon DEF
     P!Next, P!vars, P!threadVars,
     P!proxyVars, P!StartHandshake, P!HandshakeFails, P!RegisterEndpoint, P!LocalResponds,
     P!RemoteResponds, P!EvaluateNothing, P!Evaluate, P!Deliver, P!FailPending,
     P!ResponseFails, P!RunDisconnect, P!BeginRemove, P!UnregisterChannel,
     P!DropOldChannel, P!FinishRemove, P!AddFlag, P!CancelFlags, P!Reset, P!PcpIdle,
     P!LocalAnswers, P!RemoteAnswers, P!kPending, P!kConnected, P!StatusesContain,
     P!IsConnectedToEndpoint, P!HasPendingConnectionToEndpoint,
     P!HasLocalEndpointResponded, P!HasRemoteEndpointResponded, P!IsConnectionAccepted,
     P!IsConnectionRejected, P!Open, P!Hears, P!Dropped, P!OnConnectionInitiated,
     P!EndpointResponded, P!OnConnectionAccepted, P!Removed, P!OnConnectionRejected,
     P!OnDisconnected, P!RemoveAllEndpoints, P!AddCancellationFlag, P!CancelEndpoints,
     Connections!Next, Connections!vars, Connections!threadVars, Connections!proxyVars,
     Connections!StartHandshake, Connections!HandshakeFails, Connections!RegisterEndpoint,
     Connections!LocalResponds, Connections!RemoteResponds, Connections!EvaluateNothing,
     Connections!Evaluate, Connections!Deliver, Connections!FailPending,
     Connections!ResponseFails, Connections!RunDisconnect, Connections!BeginRemove,
     Connections!UnregisterChannel, Connections!DropOldChannel, Connections!FinishRemove,
     Connections!AddFlag, Connections!CancelFlags, Connections!Reset, Connections!PcpIdle,
     Connections!LocalAnswers, Connections!RemoteAnswers, Connections!kPending,
     Connections!kConnected, Connections!StatusesContain,
     Connections!IsConnectedToEndpoint, Connections!HasPendingConnectionToEndpoint,
     Connections!HasLocalEndpointResponded, Connections!HasRemoteEndpointResponded,
     Connections!IsConnectionAccepted, Connections!IsConnectionRejected, Connections!Open,
     Connections!Hears, Connections!Dropped, Connections!OnConnectionInitiated,
     Connections!EndpointResponded, Connections!OnConnectionAccepted, Connections!Removed,
     Connections!OnConnectionRejected, Connections!OnDisconnected,
     Connections!RemoveAllEndpoints, Connections!AddCancellationFlag,
     Connections!CancelEndpoints

\* The threads call ClientProxy only as ClientConnections lets them: the router,
\* the PCP thread, the manager thread and the workers together implement it, and
\* what ClientConnectionsProofs proves of it holds of them.
THEOREM LifecycleImplements ==
  ASSUME MaxResponses = 1
  PROVE  Spec => ImplementsConnections
  <1>1. Init => Connections!Init
    BY InitialRefines, SameInit
  <1>2. IndInv /\ [Next]_vars => [Connections!Next]_Connections!vars
    BY StepRefines, SameNext DEF IndInv
  <1> QED
    BY <1>1, <1>2, LifecycleInvariance, PTL DEF Spec, ImplementsConnections, Connections!Spec

\* The application hears of each connection in the order listeners.h promises,
\* is told of exactly those the proxy has, and each has a status the code knows: the
\* threads keep what ClientConnections promises.
THEOREM LifecycleListeners ==
  ASSUME MaxResponses = 1
  PROVE  Spec => [](P!ListenerProtocol /\ P!ToldIsConnected /\ P!StatusWellFormed)
  <1>1. IndInv => P!ListenerProtocol /\ P!ToldIsConnected /\ P!StatusWellFormed
    BY DEF IndInv, P!Inv, P!ConnectionInv, P!ListenerProtocol, P!ToldIsConnected
  <1> QED
    BY <1>1, LifecycleInvariance, PTL
====
