# Nearby Connections: a TLA+ verification project

TLA+ models of the core of Nearby Connections (`cpp/core/internal`): connections,
discovery, bandwidth upgrades and payloads, checked with TLC on small instances, with TLAPS proofs of
the most important safety properties for every instance. `PROJECT.json` lists
the runs, the source lines each definition stands for, the hazards and the
theorems. Paths below are relative to `cpp/core/internal` unless they start
with `cpp/` or `proto/`.

## 1. The system

An application calls `Core` (`cpp/core/core.cc`), which hands every call to the
`ServiceControllerRouter`. The router runs calls one at a time on its serializer
thread and waits for their results. The `OfflineServiceController` dispatches
them to the managers. Everything the application is told comes back through
`ClientProxy`.

| Component | State | Operations | Talks to | Hard behaviour |
|---|---|---|---|---|
| `ClientProxy` (`client_proxy.cc`) | local endpoint id, high-visibility cache and its alarm, advertising and discovery info, discovered ids, connections with a bit-or'ed status, cancellation flags | `StartedAdvertising`, `OnEndpointFound`, `OnConnectionInitiated`, `LocalEndpointAcceptedConnection`, `OnConnectionAccepted`, `OnDisconnected`, `Reset`, ... | called by every thread, calls the application's listeners | each method is atomic (one recursive mutex), sequences of calls are not |
| `BasePcpHandler` (`base_pcp_handler.cc`) and the P2P handlers | `pending_connections_`, `pending_alarms_`, `discovered_endpoints_` | request, incoming connection, tie break, handshake results, accept, reject, remote answers, evaluation, disconnection | one job queue (PCP thread), `EndpointManager`, `EncryptionRunner`, `ClientProxy` | jobs find their connection by endpoint id only; the PCP thread waits for the manager thread |
| `EndpointManager` (`endpoint_manager.cc`) | `endpoints_` with a reader and a keep-alive worker each, frame processors with a mutex each | register, unregister, discard, dispatch of frames, removal with a two-second barrier | one job queue (manager thread), worker threads, PCP handler as frame processor | joins workers that post to its own queue; holds a processor's mutex while the processor waits |
| `EndpointChannelManager` | channel and encryption context of each endpoint | register, replace, encrypt, look up, unregister | manager thread, PCP thread, readers, upgrade | a look-up races with removal and replacement |
| `EncryptionRunner` | two single-thread executors, a timeout alarm | server and client handshake | PCP thread by callback | results come late, after the attempt was given up |
| `ServiceControllerRouter`, `OfflineServiceController` | the serializer | all API calls | everything above | waits without a timeout |
| `BwuManager` and handlers | upgrades in progress, previous channels, retry delays | initiate, path available, last write, safe to close, failure, retry | `EndpointManager`, `EndpointChannelManager`, mediums | a two-sided protocol across two channels |
| `PayloadManager` | pending payloads with a state per endpoint | send, incoming data and control frames, cancel, endpoint loss | payload threads, `EndpointManager`, `ClientProxy` | status updates on another thread, chunk loop against disconnection |
| `BaseEndpointChannel` | locks, paused flag, encryption context | read, write, pause, resume, close | all writers and one reader | a paused writer against close and encryption |
| Discovery: `P2pClusterPcpHandler`, the public Bluetooth, BLE and Wi-Fi LAN classes (`cpp/platform/public`) | `discovered_endpoints_`, the devices each medium knows | found, changed and lost events, injection, start and stop | radio callbacks, PCP thread, `ClientProxy` | events of three mediums in one queue, entries found by endpoint id only |
| WebRTC, BLE v2, advertisement formats, frames, analytics, platform | per medium | wrappers, byte layouts, I/O | | not in this project, or planned (section 7) |

What makes the connection core correct:

* the connection listener hears initiated, then one of accepted and rejected,
  and disconnected only after accepted, and the proxy's status says the same;
* only a connection both sides accepted is used, with the keys of its own
  handshake, and an answer counts for the connection it was sent on;
* nothing of a connection survives its end, no call waits for ever, and no
  thread waits for another in a circle;
* the id by which peers know this device does not change while it is in use, and
  a remembered id is forgotten in time;
* a connection that moves to a better medium loses and reorders no frame, and
  neither side is left with a channel that nobody resumes;
* each application hears once how a payload ended, and a file reported as received
  is whole;
* the application knows as discovered what the handler can connect to.

## 2. The modules

```
LocalEndpoint    <-- LocalEndpointProofs           (identity of ClientProxy)
ClientProxy      <-- ClientConnections <-- ClientConnectionsProofs
      ^                      ^ implements
      +------------- EndpointLifecycle             (all threads, queues, channels)
                         ^
                         +-- EndpointLifecycleProofs <-- LifecycleInvariantProofs
                             (instantiates ClientConnectionsProofs)
BandwidthUpgrade <-- BandwidthUpgradeProofs        (BwuManager of two devices, channels, workers)
PayloadTransfer  <-- PayloadTransferProofs <-- PayloadReceiverProofs
                     (PayloadManager of a sender and its receivers)
Discovery        <-- DiscoveryProofs               (mediums, PCP thread, discovered endpoints, listener)
MC...                symmetry and bounds for TLC, one module per specification
```

**`LocalEndpoint`** models the identity half of `ClientProxy`. An action is one
method, with the caller's guards. `starting` is the gap in
`BasePcpHandler::StartAdvertising` between reading the id that is put into the
advertisement and `StartedAdvertising`; `alarm` and `clearing` are the 30 s
timer and its callback that waits for the mutex. Ids are numbers in the order of
their drawing, so that a drawn id is new; the random generator itself is
abstracted away. Two history variables are for `KnownIdInUse`: `introduced`, the id
that a `CONNECTION_REQUEST` told each peer, and `forgotten`, the ids a disconnection
cleared after they were handed out and before the mark or the connection that keeps
them was there.

**`ClientProxy`** models `connections_`, the status bits (as a set), the
cancellation flags and `told`, what the application's listener has heard of each
endpoint. A callback out of order makes `told[e]` `"broken"`. Its definitions
are shared by the next two modules.

**`ClientConnections`** lets the PCP, manager and API threads call the proxy in
every order their code allows. A job's separate calls are separate steps. It is
the abstract specification of the life cycle: queues, frames and channels are
reduced to when a call may happen.

**`EndpointLifecycle`** has the threads themselves: the router's serializer, the
PCP and manager job queues, the reader and keep-alive worker of each endpoint,
the handshakes, the delayed-close alarms, the frame processor's mutex, the
channels and the encryption contexts. One action is what a thread does up to
its next call that another thread can interleave with:

| Code | Actions |
|---|---|
| `ServiceControllerRouter` calls and waits | `CallRequestConnection`, `RequestRefused`, `CallRespond`, `CallDisconnect`, `CallStopAll`, `StopNext`, `StopPhase` |
| `BasePcpHandler::RequestConnection`, `OnIncomingConnection`, `BreakTie` | `RunRequest`, `IncomingConnection`, `IncomingTie` |
| `OnEncryptionSuccessRunnable`, `OnEncryptionFailureRunnable` | `RunEncrypted`, `RegisterProcessor`, `RegistrationDone`, `RunEncryptionFailed` |
| `AcceptConnection`, `RejectConnection`, `OnIncomingFrame` | `RunRespond`, `RunFrame`, `RecordAnswer` |
| `EvaluateConnectionResult` | `EvaluateConnectionResult`, `DecideResult`, `DeliverResult` |
| `OnEndpointDisconnect` | `RunEndpointDisconnect` |
| `EndpointManager::RegisterEndpoint` | `TakeRegister`, `RegisterEndpoint` |
| `UnregisterEndpoint`, `DiscardEndpoint`, `RemoveEndpoint` | `TakeRemove`, `RemoveChannel`, `NotifyProcessors`, `BarrierOpens`, `Disconnect`, `RemoveEndpointState` |
| workers, alarms, `EncryptionRunner` | `ReadResponse`, `ReaderExits`, `KeepAliveExits`, `AlarmFires`, `HandshakeEnds` |

A channel is the number of the attempt it was opened for. Jobs carry that number
for the properties' sake; no guard that stands for code reads it, except where
the code itself compares channels. Channel comparison in the failure path is by
type, name and medium (`endpoint_channel.h:106`), so two attempts in the same
direction compare equal; the model has that. A null dereference sets `crashed`
and nothing happens afterwards. A connection registered on another channel's handshake
has a reader beside `EncryptionRunner`, which still waits for frames of that channel:
`BaseEndpointChannel::Read` holds its mutex for one read only
(`base_endpoint_channel.cc:124`). The reader may then read the peer's answer first
(`ReadResponse`), which the history variable `overtaken` notes, and the handshake may
fail for want of the frame the reader has skipped (`HandshakeEnds`).

**`BandwidthUpgrade`** has both devices. A channel is named by its medium. Each side
has the thread of `BwuManager` with its job queue, the endpoint's reader and
keep-alive worker (which fetch the registered channel, work on it and fetch
again, as `EndpointChannelLoopRunnable` does), and the removal by
`EndpointManager`, in the steps that another thread can come between: the goodbye
(while `UnregisterChannelForEndpoint` sleeps it keeps the mutex of
`EndpointChannelManager`, so that nobody looks a channel up: `Unlocked`), the erased
entry with the channel closed under its users, the wait for `BwuManager`, and the
second unregistration in `~EndpointState`. The join of the workers that follows is left
to `EndpointLifecycle`. `encoded` and `decoded` count the messages of the one
encryption context two channels share: `Read` decodes a frame only when its turn
has come, and takes a goodbye it cannot decode for an invalid message.

| Code | Actions |
|---|---|
| `InitiateBwuForEndpoint` | `InitiateBwuForEndpoint`, `InitJob`, `WritePath` |
| `ProcessBwuPathAvailableEvent` and its internal part, `RunUpgradeFailedProtocol` | `PathJob`, `ReadAck`, `WriteFailure` |
| `OnIncomingConnection` | `Accept` (external: the medium's accepting thread), `IncomingJob` |
| `RunUpgradeProtocol` | `RunUpgradeProtocol` (up to the look-up of the old channel) within the two jobs above, `Replace`, `WriteLast` |
| `ProcessLastWriteToPriorChannelEvent` | `LastJob`, `WriteSafe` |
| `ProcessSafeToClosePriorChannelEvent` | `SafeJob`, `WriteBye`, `Drain` |
| `ProcessUpgradeFailureEvent`, `RetryUpgradeMediums`, `RetryUpgradesAfterDelay` | `FailureJob`, `RetryJob`, `AlarmFires` |
| `OnEndpointDisconnect`, `Revert` | `DisconnectJob` |
| `EndpointManager` workers | `ReaderFetches`, `Reads`, `WriterFetches`, `Writes`, `KeepAliveTimesOut` |
| `RemoveEndpoint`, `UnregisterChannelForEndpoint`, `~EndpointState` | `RemoveEndpoint`, `Unregister`, `RemoveEndpointState` |

A write is a step of its own, because the channel may be paused, replaced or
broken before it; the history variables `faults`, `late` (a worker wrote to the
old channel after its last write) and `undefined` (the mapped value of an empty
node handle) let the properties say exactly which trouble they except.

**`PayloadTransfer`** has one sender and several receivers of files. A file is a
run of `Size` chunks, and a chunk is its position; an empty chunk is `Last`. A
turn of `SendPayloadLoop` is the steps `LoopTop`, `Detach`, `WriteChunk` and
`PostResults`, between which the other threads run; jobs of the status thread
(`FinishedJob`, `SentJob`, `DestroyJob`, `DisconnectJob`) are atomic, as nothing
else changes what they read. On a receiver, `RReceive` looks up the pending
payload, of a chunk or of a control message, and `RAttach`, `ROnControl` and `RLogs` use
it: in between the status thread may free it (`r_freed` notes for what the reader was
using it). On the sender, whose reader uses an outgoing payload in the same way,
`ReceiveControl` is one step. `Stop`, `CancelAllPayloads`, `AwaitBarrier` and `CloseDown` are the
destructor. `told` and `r_told` are the updates the two applications have heard.
`SendTransferFrameBytes` and `RemoveEndpoint` of `EndpointManager` are part of
the module; the rest of the endpoint's life is that of `EndpointLifecycle`.

**`Discovery`** follows an event from the radio to the application. `air` is what a
device shows on each medium; the medium's callback (`BluetoothDiscovered`, ...)
applies the filter of the public class and posts a job; the job changes
`discovered_endpoints_`, a sequence in the order of the multimap, and tells the
client. `OnEndpointFound`, which calls itself for a changed info, is a recursive
function on the states of table and client (`Calls`). The assignment through
a reference into the tree after the entry has been extracted
(`base_pcp_handler.cc:951`) is modelled by what it does to the entries of one
leaf: it overwrites the one that moved up. If none has, the slot is no longer in use and
the assignment changes nothing; that the leaf itself may have been freed by then is not
modelled. The history variable `sources` notes by
which ways endpoints were entered or lost since the discovery started.

Definitions whose comment begins "Wrong on purpose" are faulty variants of the
definition that follows. They are used by no specification; substituting one for
its original must violate the property `PROJECT.json` pairs it with.

## 3. The runs

| Run | Instance | What it shows |
|---|---|---|
| `LocalEndpoint` | 2 endpoints, 2 services, 4 ids | `KnownIdInUse`, `CacheExpires`, `ReportedOnce` |
| `ClientConnections` | 2 endpoints, any number of attempts | `ListenerProtocol`, `StatusWellFormed`, `Inserted`, `ToldIsConnected`, `AcceptedByBoth` |
| `Lifecycle` | 1 endpoint, 2 attempts, all events, ties | `KeysMatch`, `AnswersBelong`, `NothingLeft`, `AcceptedLosesChannelOnlyInRemoval`, and `ImplementsConnections`: the threads implement `ClientConnections` |
| `LifecycleLive` | 1 endpoint, 1 attempt, all events, fair | `CallReturns`, `FrameHandled`, `ClosedIsRemoved` |
| `Upgrade` | 2 mediums, 1 initiator, one kind of fault out of six, 1 retry, the initiator's keep-alive worker | `MediumsAgree`, `SafeFindsEntry`, `LastFindsEntry`, `PausedInProgress`, `RemovedIsResumed` |
| `UpgradeLive` | 2 mediums, both sides initiate, 1 data frame, fair | `FramesKept`, `DrainEnds`, `UpgradeEnds` |
| `Payload` | 1 file of 2 chunks resumed at 1, 2 receivers, cancellation, disconnection, disk failure | `OutgoingEndsOnce`, `IncomingUpdates`, `ReceivedWhole`, `FreedOnlyAfterGivingUp` |
| `PayloadLive` | 1 file, 1 receiver, cancellation, loss of the connection, destruction, fair | `PayloadEnds`, `SenderIsTold`, `ReceiverIsTold`, `ShutdownEnds` |
| `Discovery` | 2 devices, 2 infos, 3 mediums, 4 changes in the air, 3 calls | `FoundHasEntry`, `ExactOnBluetooth` |

The runs `RegistrationCompletes`, `SilenceEnds` and `LostIsGone` each show a
behaviour that a comment rules out (section 6).

Why the bounds are enough for what the runs say. The hazards of the life cycle
are between one connection and the next one to the same endpoint, between the
two sides of a tie, and between two endpoints that share a thread or a mutex:
two attempts, one endpoint and ties show the first two, `RegistrationCompletes`,
with two endpoints, the third.
`MaxResponses = 1` is a conforming peer. Four local ids are one told to a peer, one
advertised, one cached and one newly drawn. `MaxAttempts` and `MaxIds` bound counters only.
`Lifecycle` runs do not check for deadlock, because a behaviour may end: all
attempts are used, or `crashed` is set. That nothing is left then is
`NothingLeft`; that nothing hangs is what the liveness properties and
`RegistrationCompletes` are about.

An upgrade involves two channels, and the order of two initiators, of a fault and
of the two sides' jobs; a second kind of fault only adds behaviours that end in a
disconnection, which one fault already reaches (`MaxFaults`). `SilenceEnds` needs
two, a broken channel and a peer that falls silent. In `UpgradeLive` both sides
may initiate and one of them sends a frame (`Talkers`); the sides are alike, so
which one does not matter. Without the fairness, `FramesKept` has also been checked with two
frames (1.2 million states). In `Upgrade` only the initiator has a keep-alive worker
(`Pingers`), since the two sides' workers meet through the channel alone; its invariants have
also been checked with the workers of both sides (2.8 million states), and, with one, for two
kinds of faults in one behaviour and for two initiators.
The payload hazards are
between two recipients, between two chunks, and between the send loop and one
status job that lags behind it: `MaxJobs = 1` lets a new turn of the loop begin
only when no job waits, but a turn posts up to three and a disconnection adds its
own. A receiver's reader goes on while one job waits for its status thread
(`MaxReceiverJobs = 2`; `PayloadLive` has 1), so that a job can free the payload of the
frame in the reader's hands. Only one of the two receivers cancels, disconnects or
fails to write (`Faulty`): the other shows that it is not affected. (With one receiver the invariants, and the inductive invariant of the proofs,
have also been checked with `MaxJobs = 3` and every fault, for two chunks and for
three resumed at 1.) A file of two chunks, resumed after the first, has one chunk of data
and the empty one that ends it. That the chunks are in order and without a gap, a clause of
`ReceivedWhole` that needs two, was checked with `Size = 3` and is otherwise the proof's. In `Discovery`, two devices make entries of different keys
neighbours in the table, and `MaxQueue = 2` lets a job run behind two later
events. None of these runs checks for deadlock: a transfer, an upgrade or the
allowed changes come to an end, and that the right things have happened by then is
what the liveness properties say.

**Fairness** (`FairSpec`). Life cycle: weak fairness of the PCP thread, the manager thread
and the router thread (executors run what they are given), of the end of a
handshake (`EncryptionRunner` closes the channel after a timeout), of alarms, and
of a worker's exit when its channel is closed (a read or a write on it fails).
Nothing is assumed of the application, the peer or the medium: calls, answers
and channel losses may never come. Liveness is checked with one endpoint and one
attempt: with two endpoints the deadlock of section 6 stands in the way. A
behaviour that crashes satisfies the liveness properties trivially; the crashes
are reported separately.

Upgrade: weak fairness of `BwuManager`'s thread, of the workers, of the thread
that accepts connections and of the removal of an endpoint that is to be
discarded; none of breaks, alarms or the wish to upgrade. Payload: weak fairness
of the file executor, the status threads, the readers, the destructor, and of the
removal of an endpoint whose connection is down (a read on it fails); none of the
clients. Discovery has no liveness: what a radio reports, and when, is not the
code's.

## 4. What is proved

`LocalEndpointProofs` proves, for any endpoints, services and `MaxIds` (assumed:
`NoService` is not a service, `MaxIds` is a natural number):

* `TypeCorrect`. `TypeOK` alone is not inductive: an id in use or cached must
  have been drawn (`IdsDrawn`), or the next one could be out of range.
* `CacheAlwaysExpires`. `CacheExpires` is inductive as it stands: each way out of
  high-visibility mode re-arms the alarm, each way in cancels it and counts as
  advertising in that mode.
* `AlwaysReportedOnce`, with the fact that `discovered_endpoint_ids_` is empty
  between sessions (`SessionInv`): `StartedDiscovery` does not clear it.
* `KnownIdAlwaysInUse` (`KnownIdInUse`): the id advertised, and the ones peers were told
  in a request, are the id in use or in `forgotten`. Its invariant `KnownInv` adds that
  the id of an advertisement is known before the client is marked as advertising, and that
  only endpoints that are connected or waited for were told one: a connection keeps
  `ResetLocalEndpointIdIfNeeded` from clearing the id, and what is only waited for is the
  window in which a disconnection puts the id into `forgotten`.

`ClientConnectionsProofs` proves, for any set of endpoints and for peers that
answer a connection once (`DuplicateResponses = FALSE`): `TypeCorrect`,
`ListenerProtocolHolds`, `ToldIsConnectedHolds`, `StatusAlwaysWellFormed`,
`InsertedHolds` and `AcceptedByBothHolds`. They all follow from one inductive
invariant `Inv` (`Invariance`). Its core is `ThreadInv`: a connection that is
not yet connected is either pending in the handler or is the one whose result
the PCP thread is about to deliver, so a new handshake never meets an old
connection; and while a removal that will notify is under way nothing can be
registered, so at its end the endpoint is still connected or is gone. Without
these the listener's protocol is not inductive: a late `OnDisconnected` with a
stale `notify` would reach a connection that was only initiated.

`PayloadTransferProofs` and `PayloadReceiverProofs` prove the four safety properties and the types of `PayloadTransfer` for any payloads,
receivers, size of the file, offset to resume from and bounds, and for any set of
faults (assumed: the constants' types, that a file is not resumed past its end,
and that there are finitely many payloads, since the shutdown barrier counts
them). The argument goes from the sender to the receivers:

* `TypeCorrect` needs `LoopOffset`: the offset of a data frame is the loop's offset
  less the one to resume from, and is in range only because a loop that has sent
  something is past that offset, and behind what was read of the file.
* `OutgoingEndsOnceHolds` needs `ToldInv`: no end was reported for an endpoint that
  is still tracked. The client is told only while the endpoint is tracked, and the
  job that reports an end removes the endpoint in the same step.
* `SenderInv` says that a payload has one loop, that the chunk in the loop's hands is the next
  of the file for every endpoint it still reaches, and that a waiting job's
  endpoints are not reached any more (`JobInv`). Without it a late job could end a
  transfer that the loop goes on with.
* `ReceiverInv` ties the sender to a receiver. `WireInv`: the frames of a payload
  follow each other without a gap, and the first is the next for the receiver.
  `SendInv`: while the sender has more to send, all before it was sent, and nothing
  the receiver has ends the payload. `QueueInv` and `LogInv`: a job that ends a
  payload is the last about it, and the payload was announced before.
  `PayloadReceiverProofs` shows first that the sender's steps keep it, then that the
  receivers' do, and from `Inductive` the properties follow:
  `IncomingUpdatesHold`, `ReceivedWholeHolds` and `FreedOnlyAfterGivingUpHolds`. For the last, `FrameInv` does the work: the payload of the chunk
  or control message in the reader's hands is still tracked unless that reader gave it up,
  because the sender sends nothing about a payload after the frame that ends it.

The attempt to prove `ReceivedWhole` showed that it was stated too strongly: a
receiver that gives a payload up (a failed write, a cancellation) may write a later
chunk before the job that ends the payload has run, and leaves a gap in a file
that is never reported as received. The property now says so.

`EndpointLifecycleProofs` and `LifecycleInvariantProofs` prove the five safety
properties and the types of `EndpointLifecycle`, and that it implements
`ClientConnections` (`LifecycleImplements`), for any endpoints, any number of
attempts, any set of events, with ties or without, and for peers that answer once
on a channel (`MaxResponses = 1`, as in the runs; the second answer is the hazard
at `base_pcp_handler.cc:871`). Refinement and invariant lean on each other:

* `P` instantiates `ClientConnectionsProofs` with the refinement mapping, so its
  invariant `P!Inv` speaks of the threads' state (`ProxyFacts`). `StepRefines`
  shows that, under the invariant, a step of any thread is a step of
  `ClientConnections` or a stutter. By `P!NextInv` the step then keeps `P!Inv`,
  which the other parts use; the temporal theorems come last.
* `RegistrationInv`: the PCP thread waits in `RegisterEndpoint` for the one
  registration that the manager thread has, of the connection that is pending.
  Without it the manager could register a connection that a disconnection has
  removed, or two at once.
* `EvaluationInv`: what the PCP thread knows of the connection it evaluates, from
  one step of `EvaluateConnectionResult` to the next.
* `ChannelInv`: the proxy has a connection only while the manager has its endpoint, and
  the channel is missing only while that endpoint is being removed. This is
  `AcceptedLosesChannelOnlyInRemoval` (`LifecycleChannelLoss`). For a connection
  still pending without a channel, the disconnection that will end it is on its
  way to the PCP thread.
* `ReaderInv`: a reader hands over one frame and waits for it, the frame is of the
  channel the reader serves, and a reader that is done has asked for the removal of
  its endpoint. With `ChannelInv` it gives `AnswersBelong`: an answer that waits
  pins the reader, and the manager starts the next reader only after joining it.
* `KeysInv`, and in it `StrayInv`. After a tie a connection may be registered on the
  strength of another channel's handshake (`HandshakeOwn` is false), with the wrong
  keys. What becomes of it depends on its reader. If the channel's own handshake ends
  before the reader takes the peer's answer, its result is ahead of the answer in the PCP
  thread's queue; the result finds a pending connection that is already registered,
  success or failure, and dereferences the channel that was moved away: the process ends
  before anything is accepted with the wrong keys, which is why the clause has the guard
  `crashed = "no"`. If the reader takes the answer first (`overtaken`), nothing stops the
  connection from being accepted with the other handshake's keys, so `KeysMatch` excepts
  exactly these channels (section 6).
* `RouterInv`: the serializer waits for one thing at a time, and what it waits for
  is in a queue or running. With the clauses above, `NothingLeft` follows.

Each conjunct was checked by TLC on the `Lifecycle` instance before it was proved.
`LifecycleListeners` restates for the threads what `ClientConnections` promises the
application.

`DiscoveryProofs` proves the types and both safety properties of `Discovery` for any
number of devices and infos, any radios and starts, and any bounds (assumed: the
constants' types, and that the queue has room for one job).

* `RecursionEnds`: `OnEndpointFound` calls itself at most as often as the table has
  entries, whatever the table, because each call that does not stop replaces the info
  of one more entry. The induction is over the finite set of entries still to be
  replaced, stated with sets: the strict subset order is well founded, so a set of
  counterexamples would have a least one. Everything below rests on it: it says that
  the model's function is the code's recursion and not cut short.
* `ReportedHasEntry` (`FoundHasEntry`) from `ListedInv` (`ListedAlways`): the endpoints
  in the table are those the client was told of. One step of the recursion keeps this,
  even where the moved slot is overwritten with the value of another endpoint's entry,
  since the keys stay. What is needed besides is `CallInv`: one call of the API waits at
  a time, and a start waits only while nothing is discovered, or the table would be
  cleared under a client that keeps what it was told.
* `ExactReports` (`ExactOnBluetooth`) from `FollowInv`. The property speaks of an empty
  queue; between, the client is behind by the jobs that wait. `Behind` says by how much,
  for each device: losses and sightings alternate (`Aligned`), a device lost again
  behind its sighting keeps the name of that loss (`Away`), the last job agrees with
  `devices_` (`Ends`), and the first says what the client knows now (`Believed`). A job
  reads the device's name when it runs, not when it was posted, so `Away` is what makes
  a job that runs late harmless. `Single`: each endpoint has one entry.

The attempt to prove `ExactOnBluetooth` showed that it was stated too strongly, in a way
the bounds of the run do not reach: a loss reported by BLE or Wi-Fi LAN of an endpoint
they did not find in this discovery (`found_ble_endpoints_` is kept from one to the next)
removes the entry Bluetooth made. `sources` now notes the losses too.

`BandwidthUpgradeProofs` proves the types of `BandwidthUpgrade` (`TypeCorrect`), and
`PausedOnlyInProgress`, for any mediums and order of preference, any initiators, faults and
bounds (assumed: the constants' types only). `PausedInProgress` needs `RequestInv`: as long
as a side does not remove the endpoint (`Gone`), its request is at one stage at a time (sent, received, refused on its way back, or
answered by a channel that arrives), and as long as it is at any, that side is in progress with its
thread idle, nothing paused and no previous channel; and a side whose thread is between the
look-up of the old channel and the registration of the new one is in progress. Without this an `UPGRADE_FAILURE`
or a new channel could meet the side in the midst of another upgrade: the first would
end the progress, the second replace a channel that is paused. An acknowledgement that
is not received in time lets two requests be under way, which is why the property
excepts it. Nothing is claimed of an endpoint that is being removed: a removal that comes
between the look-up and the registration leaves a paused channel in a new entry, after the
disconnection has cleared the progress. That this does not last, because `~EndpointState`
unregisters once more, is `RemovedIsResumed`, which the run `Upgrade` checks.

`MediumsAlwaysAgree` states `MediumsAgree`, under the same assumptions. Its inductive
invariant adds `AgreeInv` to the types and to `RequestInv`, in three parts:

* `LeftInv`: a side that has a previous channel has left the first one, and so has the
  peer of a side to which `SAFE_TO_CLOSE_PRIOR_CHANNEL` was sent, wherever that frame, its
  job or what follows it now is. This holds through every fault, and gives the first part
  of the property: the client of one side never hears of a new medium while the other
  side still uses the first.
* `PrefInv`: what is proposed, by a job, a frame or the table, is one of the preferred
  mediums.
* `PhaseInv`, while no acknowledgement was late and neither side removes the endpoint: no channel was connected yet and each
  side has one wish at most (`Before`), or one channel was connected, over a medium `m`,
  no proposal or refusal is left, and what arrives, waits or is registered is about `m`
  (`SettledOn`). It ends when a side begins to remove the endpoint (`Together`). The order of the jobs is part of it (`Ordered`): an init job that waits behind
  a path job must not change the medium that the path job sets.

The second part, that both use the same medium, rests on the model's bound that each side's
client asks for an upgrade once (`asked`).

The attempt to prove `MediumsAgree` showed that it was stated too strongly, beyond the two
mediums of the run `Upgrade`: when an acknowledgement is not received in time, the side that
connected reports a failure, and the initiator proposes the next medium; the connection that
was given up may then be accepted and is taken for the answer to the new proposal, since
`OnIncomingConnection` (`bwu_manager.cc:373`) does not compare the mediums. The two sides then
have channels of different mediums. The property now says that the other side has left the
first channel in any case, and that it uses the same medium unless an acknowledgement was
late or one of them removes the endpoint. Explorations with three mediums found no violation of the run's other properties.

Only model-checked: `RemovedIsResumed`, `SafeFindsEntry`, `LastFindsEntry` and `FramesKept` of
`BandwidthUpgrade`. The last three hold by the order of the frames on two channels that share one
encryption context, on both sides at once and through every fault: an inductive
invariant would follow `LAST_WRITE` and `SAFE_TO_CLOSE` from the writer over the wire, the
reader and the queue to the job (section 7). Also the duplicate answers
(`MaxResponses > 1`), and all liveness (outside the prover's reach).

## 5. What is not modelled

Stream payloads, several endpoints that share one upgrade handler, the medium
handlers of an upgrade beyond whether they make a channel, advertising and the
connect calls of the mediums, medium preference, the mediums' accept loops,
`LostEntityTracker`, WebRTC's `ConnectionFlow`, and the keep-alive's arithmetic:
candidates for more modules. The UKEY2 exchange (a library's), protobuf and
advertisement layouts, platform code, analytics and the language bindings: out
of scope. Data races on unguarded containers (for example
`cancellation_flags_`) are below the level of the models, whose methods are
atomic. Topology guards (`CanSendOutgoingConnection` and its siblings) and
`MediumSelector` failures are free choices.

## 6. Disagreements between code and comments

With a run:

* `RegistrationCompletes`: `RegisterFrameProcessor` "blocks until registration is
  complete". With two endpoints, the PCP thread waits for the processor's mutex
  and the reader that holds it waits for the PCP thread, for ever.
* `SilenceEnds`: the keep-alive worker is said to initiate a disconnection when it
  fails to send or hears nothing. When the old channel breaks between the
  replacement and `SAFE_TO_CLOSE`, it blocks in the paused new channel instead,
  on both sides, for ever.
* `LostIsGone`: `endpoint_lost_cb` is called "when a remote endpoint is no longer
  discoverable". A loss removes the first entry of the endpoint whatever its
  medium, so an endpoint that Bluetooth still sees can be reported lost.

Stated as definitions that TLC refutes when they are added to a configuration of
their module (as `INVARIANT`, or `PROPERTY` with `FairSpec` for the last):

* `RemembersAdvertisedId` (`LocalEndpoint.cfg`): the cache is said to remember the
  advertised high-visibility id (`client_proxy.h:268`). A disconnection between
  the two client calls of `StartAdvertising` leaves it empty.
* `AcceptedHasChannel` (`Lifecycle.cfg`): both sides have accepted, "so we can now
  start talking" (`base_pcp_handler.cc:1353`); the channel may have been
  unregistered, and a null pointer is dereferenced.
  `AcceptedLosesChannelOnlyInRemoval` says when, and when only.
* `DiscardsOwn` (`Lifecycle.cfg`): `RemoveEndpoint` is said to be idempotent
  (`endpoint_manager.h:239`). A late discard of an old connection's worker removes
  a newer connection to the same endpoint.
* `HandshakeOwn` (`Lifecycle.cfg`): after a tie, handshake results are said to be
  told apart by their channel (`base_pcp_handler.cc:414`). The success path does
  not look at the channel.
* `CanceledIsCleanedUp` (`PayloadLive.cfg`): the "remaining cleanup and updates" of
  a cancellation are said to follow (`payload_manager.cc:462`). A receiver that
  cancels after the last chunk waits for a frame that never comes.

Seen while modelling, and without a run: after a tie a connection may be registered on the
result of another channel's handshake, its reader may swallow a frame of its own handshake
or read the peer's answer first, and the connection is then accepted with the wrong keys
(`overtaken`); on `PAYLOAD_CANCELED` the reader posts the job that destroys the payload
(`payload_manager.cc:1057`) and then uses it for a verbose log line (1068-1071; `RLogs`);
`RunUpgradeProtocol` may register its paused channel for an endpoint that was removed since
it fetched the old one (`bwu_manager.cc:485`, 497; `Replace`), and `~EndpointState` ends
that only if the disconnection was processed within the two seconds it is waited for; a second `CONNECTION_RESPONSE` on one
channel leaves its reader waiting (`base_pcp_handler.cc:871` returns without
counting the latch down); a higher nonce that meets a pending connection which is
already registered dereferences a moved-away channel (`IncomingTie` sets
`crashed`); the comment of `UnregisterEndpoint` in `endpoint_manager.h:109` says
that the client is not notified, and the code notifies it if it was connected; a
send job that waits when the manager shuts down never posts the job that destroys
its payload (`payload_manager.cc:400`), and the destructor waits for it for ever
(`stranded`); one recipient whose channel has gone makes the chunk size zero and
ends the file early for the others, as a success (`payload_manager.cc:603`,
`starved`); an incoming payload stays tracked after its success, so a
disconnection reports it failed afterwards (`IncomingUpdates`); `BleMedium` never
forgets a peripheral that was lost, and `WifiLanMedium` knows services by their
type only, so a second device is not reported (`cpp/platform/public/ble.cc:66`,
`wifi_lan.cc:46`).

## 7. Plan

1. Done: `LocalEndpoint`, `ClientProxy`, `ClientConnections`,
   `EndpointLifecycle`, `BandwidthUpgrade` (with the endpoint channel),
   `PayloadTransfer`, `Discovery`, and the first proofs.
2. Done: the safety properties of `PayloadTransfer`, `EndpointLifecycle` and `Discovery`,
   `ImplementsConnections`, and the types, `PausedInProgress` and `MediumsAgree` of
   `BandwidthUpgrade`, proved.
3. Proofs of the rest of `BandwidthUpgrade`: `RemovedIsResumed`, through the entry that a late
   registration makes; `SafeFindsEntry` and `LastFindsEntry`, through
   the order of the frames under way, and `FramesKept`, through the counts of the shared
   encryption context.
4. Small modules for `LostEntityTracker` and `ConnectionFlow`; topology guards of
   the star and point-to-point handlers; keep-alive timing; stream payloads.
