-------------------------- MODULE PayloadTransfer --------------------------
(***************************************************************************)
(* PayloadManager (payload_manager.cc): files sent by one device to        *)
(* several others.                                                         *)
(*                                                                         *)
(* On the sender there are the executor that runs the send loops, one file *)
(* at a time; the status-update thread, a queue of jobs that is alone in   *)
(* reporting to the client; the EndpointManager thread, which removes      *)
(* endpoints; and a reader per receiver, for its control messages.  A      *)
(* receiver has its reader, its own status-update thread and its own       *)
(* EndpointManager thread.                                                 *)
(*                                                                         *)
(* A file is a run of chunks, and a chunk is its position in the file.     *)
(***************************************************************************)
EXTENDS Integers, Sequences, FiniteSets

CONSTANTS
  Receivers,     \* the connected endpoints
  Payloads,      \* bound: the files that are ever sent
  Size,          \* chunks of a file
  ResumeOffset,  \* chunks the client asks to leave out (Payload::SetOffset)
  Faults,        \* what may go wrong or be asked for
  Faulty,        \* the endpoints whose connection may break or be ended, and
                 \*   that may cancel or fail to write
  MaxJobs,       \* bound: jobs that wait for the sender's status-update thread
  MaxReceiverJobs \* bound: and for a receiver's, when its reader goes on

ASSUME PayloadConstants ==
  /\ Size \in Nat
  /\ ResumeOffset \in 0 .. Size
  /\ MaxJobs \in Nat \ {0}
  /\ MaxReceiverJobs \in Nat \ {0}
  /\ IsFiniteSet(Payloads)
  /\ Faulty \subseteq Receivers
  /\ Faults \subseteq {"cancel", "disconnect", "break", "skip", "disk", "stop"}

VARIABLES
  (* the sender *)
  file_queue,    \* file_payload_executor_: the send loops that wait
  loop,          \* the send loop that is running
  pending,       \* pending_payloads_: "unsent", "tracked" or "gone"
  status,        \* PendingPayload::endpoints_: an endpoint's status, or "none"
  canceled,      \* payloads marked is_locally_canceled_
  position,      \* how far a file has been read
  closed,        \* files that are closed
  status_queue,  \* payload_status_update_executor_: its jobs
  channels,      \* endpoints that have a channel
  connected,     \* endpoints ClientProxy calls connected
  told,          \* updates the client was given for a payload and an endpoint
  shutdown,      \* how far the destructor has come
  barrier,       \* shutdown_barrier_: its count
  stranded,      \* history: payloads still in file_queue when shutdown_ was set
  starved,       \* history: payloads for which a chunk size was asked of no channel
  (* the connections *)
  links,         \* receivers whose connection stands
  wire,          \* frames on their way to a receiver
  back,          \* control messages on their way to the sender
  (* each receiver *)
  r_channel,     \* it has a channel to the sender
  r_connected,   \* its ClientProxy calls the sender connected
  r_tracked,     \* pending_payloads_
  r_endpoint,    \* those that still have the sender as their endpoint
  r_canceled,    \* payloads marked is_locally_canceled_
  r_closed,      \* files that are closed
  r_got,         \* chunks written to a file
  r_frame,       \* the frame whose pending payload the reader has looked up
  r_queue,       \* jobs of the status-update thread
  r_told,        \* updates the client was given
  r_ended,       \* history: payloads the receiver itself gave up
  r_freed        \* pending payloads that were freed while the reader was using
                 \*   them, and for what

loopVars == <<file_queue, loop, position>>
trackVars == <<pending, status, closed>>
shutVars == <<shutdown, barrier, stranded>>
sendVars == <<loopVars, trackVars, shutVars, canceled, status_queue,
              channels, connected, told, starved>>
wireVars == <<links, wire, back>>
recvVars == <<r_channel, r_connected, r_tracked, r_endpoint, r_canceled, r_closed,
              r_got, r_frame, r_queue, r_told, r_ended, r_freed>>
vars == <<sendVars, wireVars, recvVars>>

----------------------------------------------------------------------------
(* Types *)

Statuses == {"available", "canceled", "error"}      \* EndpointInfo::Status
Final == {"success", "failure", "canceled"}         \* PayloadProgressInfo::Status
Update == Final \cup {"progress"}
Last == 0                                           \* an empty chunk: LAST_CHUNK
Chunk == 0 .. Size

Control == [type : {"canceled", "error"}, p : Payloads]
Data == [type : {"data"}, p : Payloads, offset : 0 .. Size, chunk : Chunk]

Idle == [at |-> "idle"]
Loop ==
  [at : {"top"}, p : Payloads, offset : 0 .. Size]
    \cup [at : {"detach"}, p : Payloads, offset : 0 .. Size, to : SUBSET Receivers]
    \cup [at : {"write"}, p : Payloads, offset : 0 .. Size, to : SUBSET Receivers,
          chunk : Chunk]
    \cup [at : {"post"}, p : Payloads, offset : 0 .. Size, to : SUBSET Receivers,
          chunk : Chunk, failed : SUBSET Receivers]

SenderJob ==
  [op : {"finished"}, p : Payloads, to : SUBSET Receivers, what : Final]
    \cup [op : {"sent"}, p : Payloads, to : SUBSET Receivers, chunk : Chunk]
    \cup [op : {"destroy"}, p : Payloads]
    \cup [op : {"notify"}]
    \cup [op : {"disconnect"}, from : Receivers]
ReceiverJob ==
  [op : {"payload"}, p : Payloads]
    \cup [op : {"chunk"}, p : Payloads, chunk : Chunk]
    \cup [op : {"finished"}, p : Payloads, what : Final]
    \cup [op : {"disconnect"}]
NoFrame == [type |-> "none"]
Line == [type : {"line"}, p : Payloads]         \* the line to log after a control message

\* The client hears of an endpoint only while it is connected; updates that
\* repeat "progress" are kept as one.
Reported(log, update) ==
  IF log # <<>> /\ log[Len(log)] = "progress" /\ update = "progress"
    THEN log ELSE Append(log, update)

Init ==
  /\ file_queue = <<>>
  /\ loop = Idle
  /\ pending = [p \in Payloads |-> "unsent"]
  /\ status = [p \in Payloads |-> [r \in Receivers |-> "none"]]
  /\ canceled = {}
  /\ position = [p \in Payloads |-> 0]
  /\ closed = {}
  /\ status_queue = <<>>
  /\ channels = Receivers
  /\ connected = Receivers
  /\ told = [p \in Payloads |-> [r \in Receivers |-> <<>>]]
  /\ shutdown = "no"
  /\ barrier = 0
  /\ stranded = {}
  /\ starved = {}
  /\ links = Receivers
  /\ wire = [r \in Receivers |-> <<>>]
  /\ back = [r \in Receivers |-> <<>>]
  /\ r_channel = Receivers
  /\ r_connected = Receivers
  /\ r_tracked = [r \in Receivers |-> {}]
  /\ r_endpoint = [r \in Receivers |-> {}]
  /\ r_canceled = [r \in Receivers |-> {}]
  /\ r_closed = [r \in Receivers |-> {}]
  /\ r_got = [r \in Receivers |-> [p \in Payloads |-> <<>>]]
  /\ r_frame = [r \in Receivers |-> NoFrame]
  /\ r_queue = [r \in Receivers |-> <<>>]
  /\ r_told = [r \in Receivers |-> [p \in Payloads |-> <<>>]]
  /\ r_ended = [r \in Receivers |-> {}]
  /\ r_freed = {}

----------------------------------------------------------------------------
(* Sending: the API and the send loop *)

\* PayloadManager::SendPayload: tracks the payload for its endpoints and queues
\* the loop.
SendPayload(p, to) ==
  /\ shutdown = "no"
  /\ pending[p] = "unsent"
  /\ pending' = [pending EXCEPT ![p] = "tracked"]
  /\ status' = [status EXCEPT ![p] =
                  [r \in Receivers |-> IF r \in to THEN "available" ELSE "none"]]
  /\ file_queue' = Append(file_queue, p)
  /\ UNCHANGED <<loop, position, closed, shutVars, canceled, status_queue, channels,
                 connected, told, starved, wireVars, recvVars>>

\* CancelPayload for an outgoing payload: only marks it.
CancelPayload(p) ==
  /\ "cancel" \in Faults
  /\ shutdown = "no"
  /\ pending[p] = "tracked" /\ p \notin canceled
  /\ canceled' = canceled \cup {p}
  /\ UNCHANGED <<loopVars, trackVars, shutVars, status_queue, channels, connected,
                 told, starved, wireVars, recvVars>>

\* The executor takes the next loop up; after the shutdown it drops it.
StartLoop ==
  /\ loop = Idle /\ file_queue # <<>>
  /\ loop' = IF shutdown # "no" THEN Idle
             ELSE [at |-> "top", p |-> Head(file_queue), offset |-> 0]
  /\ file_queue' = Tail(file_queue)
  /\ UNCHANGED <<position, trackVars, shutVars, canceled, status_queue, channels,
                 connected, told, starved, wireVars, recvVars>>

Destroy(p) == [op |-> "destroy", p |-> p]
Finished(p, to, what) == [op |-> "finished", p |-> p, to |-> to, what |-> what]

\* EndpointInfoStatusToPayloadStatus, then PayloadStatusToTransferUpdateStatus:
\* what an endpoint that is no longer available is reported as.
RemoteEnd(s) == IF s = "canceled" THEN "canceled" ELSE "failure"

\* Wrong on purpose: the payload is not destroyed.
EndLoopKeeps(jobs) ==
  /\ loop' = Idle
  /\ status_queue' = status_queue \o jobs

\* The loop ends: nothing more is sent, and the payload is destroyed after the
\* jobs that are already queued.
EndLoop(jobs) ==
  /\ loop' = Idle
  /\ status_queue' = status_queue \o jobs \o <<Destroy(loop.p)>>

\* SendTransferFrameBytes: a frame goes out on every channel whose connection
\* stands; the other endpoints fail.
Reachable(to) == {r \in to : r \in channels /\ r \in links}
Send(to, frame) ==
  wire' = [r \in Receivers |-> IF r \in Reachable(to) THEN Append(wire[r], frame)
                               ELSE wire[r]]

Available(p) == {r \in Receivers : status[p][r] = "available"}
Unavailable(p) == {r \in Receivers : status[p][r] \in {"canceled", "error"}}

\* HandleFinishedOutgoingPayload for the endpoints a control message ended: one
\* job for each status.
EndedRemotely(p) ==
  LET ended(s) == {r \in Receivers : status[p][r] = s}
      job(s) == IF ended(s) = {} THEN <<>> ELSE <<Finished(p, ended(s), RemoteEnd(s))>>
  IN job("canceled") \o job("error")

\* The top of SendPayloadLoop: reports the endpoints that ended the transfer,
\* and stops if none is left, if the client cancelled, or if the file cannot be
\* moved to the offset to resume from.
LoopTop ==
  LET p == loop.p
      to == Available(p)
      skips == loop.offset = 0 /\ ResumeOffset > 0
  IN
  /\ loop.at = "top"
  /\ Len(status_queue) < MaxJobs
  /\ \/ /\ shutdown # "no"
        /\ EndLoop(<<>>)
        /\ UNCHANGED <<position, wire>>
     \/ /\ shutdown = "no" /\ to = {}
        /\ EndLoop(EndedRemotely(p))
        /\ UNCHANGED <<position, wire>>
     \/ /\ shutdown = "no" /\ to # {} /\ p \in canceled
        /\ EndLoop(EndedRemotely(p) \o <<Finished(p, to, "canceled")>>)
        /\ Send(to, [type |-> "canceled", p |-> p])
        /\ UNCHANGED position
     \/ /\ shutdown = "no" /\ to # {} /\ p \notin canceled
        /\ skips /\ (p \in closed \/ "skip" \in Faults)
        /\ EndLoop(EndedRemotely(p) \o <<Finished(p, to, "failure")>>)
        /\ Send(to, [type |-> "error", p |-> p])
        /\ UNCHANGED position
     \/ /\ shutdown = "no" /\ to # {} /\ p \notin canceled
        /\ skips => p \notin closed
        /\ position' = IF skips THEN [position EXCEPT ![p] = ResumeOffset] ELSE position
        /\ loop' = [at |-> "detach", p |-> p, to |-> to,
                    offset |-> IF skips THEN ResumeOffset ELSE loop.offset]
        /\ status_queue' = status_queue \o EndedRemotely(p)
        /\ UNCHANGED wire
  /\ UNCHANGED <<file_queue, trackVars, shutVars, canceled, channels, connected, told,
                 starved, links, back, recvVars>>

\* GetOptimalChunkSize: the smallest packet size of the endpoints, which is 0 if
\* one of them has lost its channel.
ChunkSize(to) == IF to \subseteq channels THEN 1 ELSE 0

\* DetachNextChunk of a file: empty at the end of the file, from a closed file,
\* and for a chunk size of 0.
NextChunk(p, size) ==
  IF p \in closed \/ position[p] = Size \/ size = 0 THEN Last ELSE position[p] + 1

\* The check after DetachNextChunk.
TransferFailed(chunk, offset) == chunk = Last /\ Size > 0 /\ Size < offset

\* The middle of SendPayloadLoop: the next chunk is taken from the file.
Detach ==
  LET p == loop.p
      chunk == NextChunk(p, ChunkSize(loop.to))
  IN
  /\ loop.at = "detach"
  /\ position' = IF chunk = Last THEN position ELSE [position EXCEPT ![p] = chunk]
  /\ starved' = IF ChunkSize(loop.to) = 0 THEN starved \cup {p} ELSE starved
  /\ IF shutdown # "no"
       THEN EndLoop(<<>>) /\ UNCHANGED wire
       ELSE IF TransferFailed(chunk, loop.offset)
         THEN /\ EndLoop(<<Finished(p, loop.to, "failure")>>)
              /\ Send(loop.to, [type |-> "error", p |-> p])
         ELSE /\ loop' = [at |-> "write", p |-> p, offset |-> loop.offset,
                          to |-> loop.to, chunk |-> chunk]
              /\ UNCHANGED <<status_queue, wire>>
  /\ UNCHANGED <<file_queue, trackVars, shutVars, canceled, channels, connected, told,
                 links, back, recvVars>>

\* CreatePayloadChunk: offsets count from the offset to resume from.
DataFrame == [type |-> "data", p |-> loop.p, offset |-> loop.offset - ResumeOffset,
              chunk |-> loop.chunk]

\* SendPayloadChunk: the chunk is written to every endpoint.
WriteChunk ==
  /\ loop.at = "write"
  /\ Send(loop.to, DataFrame)
  /\ loop' = [at |-> "post", p |-> loop.p, offset |-> loop.offset, to |-> loop.to,
              chunk |-> loop.chunk, failed |-> loop.to \ Reachable(loop.to)]
  /\ UNCHANGED <<file_queue, position, trackVars, shutVars, canceled, status_queue,
                 channels, connected, told, starved, links, back, recvVars>>

\* Wrong on purpose: the offset moves on although no endpoint got the chunk.
PostResultsAdvances ==
  /\ loop.at = "post"
  /\ LET sent == loop.to \ loop.failed IN
     IF sent # {} /\ loop.chunk = Last
       THEN EndLoop(<<[op |-> "sent", p |-> loop.p, to |-> sent, chunk |-> loop.chunk]>>)
       ELSE /\ loop' = [at |-> "top", p |-> loop.p, offset |-> loop.offset + 1]
            /\ UNCHANGED status_queue
  /\ UNCHANGED <<file_queue, position, trackVars, shutVars, canceled, channels,
                 connected, told, starved, wireVars, recvVars>>

\* The end of SendPayloadLoop: what became of the chunk is handed to the status
\* thread, and the loop goes on unless the last chunk was sent to someone.  The
\* endpoints that failed are discarded: RemoveEndpoint is enabled for them, their
\* connection being down.
PostResults ==
  LET p == loop.p
      sent == loop.to \ loop.failed
      jobs == (IF loop.failed = {} THEN <<>>
               ELSE <<Finished(p, loop.failed, "failure")>>)
                \o (IF sent = {} THEN <<>>
                    ELSE <<[op |-> "sent", p |-> p, to |-> sent, chunk |-> loop.chunk]>>)
  IN
  /\ loop.at = "post"
  /\ IF sent # {} /\ loop.chunk = Last
       THEN EndLoop(jobs)
       ELSE /\ loop' = [at |-> "top", p |-> p,
                        offset |-> IF sent = {} THEN loop.offset ELSE loop.offset + 1]
            /\ status_queue' = status_queue \o jobs
  /\ UNCHANGED <<file_queue, position, trackVars, shutVars, canceled, channels,
                 connected, told, starved, wireVars, recvVars>>

----------------------------------------------------------------------------
(* The sender's status-update thread *)

Tracks(p, r) == pending[p] = "tracked" /\ status[p][r] # "none"

\* Wrong on purpose: nobody asks whether the endpoints are still tracked.
NotedAll(p, to) == to

\* The endpoints of a job whose client is told: those still tracked for the
\* payload.
Noted(p, to) == {r \in to : Tracks(p, r)}

\* ClientProxy::OnPayloadProgress for each of the endpoints.
Tell(p, to, update) ==
  told' = [told EXCEPT ![p] = [r \in Receivers |->
             IF r \in to /\ r \in connected THEN Reported(told[p][r], update)
             ELSE told[p][r]]]

\* RemoveEndpoints, and Close if no endpoint remains.
Untrack(p, to) ==
  /\ status' = [status EXCEPT ![p] = [r \in Receivers |->
                  IF r \in to THEN "none" ELSE status[p][r]]]
  /\ closed' = IF \A r \in Receivers \ to : status[p][r] = "none"
                 THEN closed \cup {p} ELSE closed

\* Wrong on purpose: the endpoints are removed before the client is told.
FinishedJobRemovesFirst(job) ==
  IF pending[job.p] = "tracked" THEN Untrack(job.p, job.to) /\ UNCHANGED told
  ELSE UNCHANGED <<told, status, closed>>

\* The job of SendClientCallbacksForFinishedOutgoingPayload.
FinishedJob(job) ==
  IF pending[job.p] = "tracked"
    THEN /\ Tell(job.p, Noted(job.p, job.to), job.what)
         /\ Untrack(job.p, job.to)
    ELSE UNCHANGED <<told, status, closed>>

\* The job of HandleSuccessfulOutgoingChunk, for the endpoints it was posted for.
SentJob(job) ==
  /\ Tell(job.p, Noted(job.p, job.to), IF job.chunk = Last THEN "success" ELSE "progress")
  /\ IF job.chunk = Last /\ Noted(job.p, job.to) # {}
       THEN Untrack(job.p, Noted(job.p, job.to))
       ELSE UNCHANGED <<status, closed>>

\* DestroyPendingPayload, up to NotifyShutdown.
DestroyJob(job) ==
  /\ pending' = [pending EXCEPT ![job.p] = "gone"]
  /\ closed' = closed \cup {job.p}
  /\ UNCHANGED <<told, status>>

\* The job of OnEndpointDisconnect: every payload that has the endpoint loses it.
DisconnectJob(r) ==
  /\ told' = [p \in Payloads |-> [told[p] EXCEPT ![r] =
                IF Tracks(p, r) /\ r \in connected THEN Reported(@, "failure") ELSE @]]
  /\ status' = [p \in Payloads |-> [status[p] EXCEPT ![r] =
                  IF Tracks(p, r) THEN "none" ELSE @]]
  /\ closed' = closed \cup {p \in Payloads : /\ Tracks(p, r)
                                             /\ \A q \in Receivers \ {r} : status[p][q] = "none"}

\* Wrong on purpose: the barrier is left alone once somebody waits for it.
NotifyShutdownLate ==
  barrier' = IF shutdown = "stopping" /\ barrier > 0 THEN barrier - 1 ELSE barrier

\* NotifyShutdown: counts the barrier down, if there is one.
NotifyShutdown ==
  barrier' = IF shutdown \in {"waiting", "closing"} /\ barrier > 0
               THEN barrier - 1 ELSE barrier

\* The sender's status-update thread.
StatusThread ==
  LET job == Head(status_queue) IN
  /\ status_queue # <<>>
  /\ \/ /\ job.op = "finished" /\ FinishedJob(job)
        /\ status_queue' = Tail(status_queue)
        /\ UNCHANGED <<pending, barrier>>
     \/ /\ job.op = "sent" /\ SentJob(job)
        /\ status_queue' = Tail(status_queue)
        /\ UNCHANGED <<pending, barrier>>
     \/ /\ job.op = "destroy" /\ DestroyJob(job)
        /\ status_queue' = <<[op |-> "notify"]>> \o Tail(status_queue)
        /\ UNCHANGED barrier
     \/ /\ job.op = "notify"
        /\ status_queue' = Tail(status_queue)
        /\ NotifyShutdown
        /\ UNCHANGED <<pending, told, status, closed>>
     \/ /\ job.op = "disconnect" /\ DisconnectJob(job.from)
        /\ status_queue' = Tail(status_queue)
        /\ UNCHANGED <<pending, barrier>>
  /\ UNCHANGED <<loopVars, shutdown, stranded, canceled, channels, connected, starved,
                 wireVars, recvVars>>

----------------------------------------------------------------------------
(* The sender's EndpointManager and readers *)

\* The client, or the peer, may ask for the endpoint to be disconnected.
MayDisconnect(r) == "disconnect" \in Faults /\ r \in Faulty

\* RemoveEndpoint on the EndpointManager thread: the channel goes, and the
\* payload manager is told.
RemoveEndpoint(r) ==
  /\ r \in channels
  /\ MayDisconnect(r) \/ r \notin links
  /\ channels' = channels \ {r}
  /\ links' = links \ {r}
  /\ back' = [back EXCEPT ![r] = <<>>]
  /\ status_queue' = IF shutdown # "no" THEN status_queue
                     ELSE Append(status_queue, [op |-> "disconnect", from |-> r])
  /\ UNCHANGED <<loopVars, trackVars, shutVars, canceled, connected, told, starved,
                 wire, recvVars>>

\* ... and when the payload manager has answered, or has taken too long, the
\* client is told.
OnDisconnected(r) ==
  /\ r \notin channels /\ r \in connected
  /\ connected' = connected \ {r}
  /\ UNCHANGED <<loopVars, trackVars, shutVars, canceled, status_queue, channels, told,
                 starved, wireVars, recvVars>>

\* ProcessControlPacket for an outgoing payload; after the shutdown nobody
\* handles the frame.
ReceiveControl(r) ==
  LET frame == Head(back[r]) IN
  /\ r \in channels /\ back[r] # <<>>
  /\ status' = IF shutdown = "no" /\ Tracks(frame.p, r)
                 THEN [status EXCEPT ![frame.p][r] = frame.type] ELSE status
  /\ back' = [back EXCEPT ![r] = Tail(@)]
  /\ UNCHANGED <<loopVars, pending, closed, shutVars, canceled, status_queue, channels,
                 connected, told, starved, links, wire, recvVars>>

\* The connection to a receiver breaks.
Break(r) ==
  /\ "break" \in Faults /\ r \in Faulty \cap links
  /\ links' = links \ {r}
  /\ UNCHANGED <<sendVars, wire, back, recvVars>>

----------------------------------------------------------------------------
(* Shutting the sender's PayloadManager down *)

Tracked == {p \in Payloads : pending[p] = "tracked"}

\* DisconnectFromEndpointManager.
Stop ==
  /\ "stop" \in Faults
  /\ shutdown = "no"
  /\ shutdown' = "stopping"
  /\ stranded' = {p \in Payloads : \E i \in DOMAIN file_queue : file_queue[i] = p}
  /\ UNCHANGED <<loopVars, trackVars, barrier, canceled, status_queue, channels,
                 connected, told, starved, wireVars, recvVars>>

\* CancelAllPayloads, up to the wait.
CancelAllPayloads ==
  /\ shutdown = "stopping"
  /\ shutdown' = IF Tracked = {} THEN "closing" ELSE "waiting"
  /\ canceled' = canceled \cup Tracked
  /\ closed' = closed \cup Tracked
  /\ barrier' = Cardinality(Tracked)
  /\ UNCHANGED <<loopVars, pending, status, stranded, status_queue, channels, connected,
                 told, starved, wireVars, recvVars>>

\* The barrier is down: the executors are shut down next.
AwaitBarrier ==
  /\ shutdown = "waiting" /\ barrier = 0
  /\ shutdown' = "closing"
  /\ UNCHANGED <<loopVars, trackVars, barrier, stranded, canceled, status_queue,
                 channels, connected, told, starved, wireVars, recvVars>>

\* The executors have run dry; the payloads that are left are no longer tracked.
CloseDown ==
  /\ shutdown = "closing"
  /\ loop = Idle /\ file_queue = <<>> /\ status_queue = <<>>
  /\ shutdown' = "down"
  /\ pending' = [p \in Payloads |-> IF pending[p] = "tracked" THEN "gone" ELSE pending[p]]
  /\ UNCHANGED <<loopVars, status, closed, barrier, stranded, canceled, status_queue,
                 channels, connected, told, starved, wireVars, recvVars>>

----------------------------------------------------------------------------
(* A receiver *)

Post(r, job) == r_queue' = [r_queue EXCEPT ![r] = Append(@, job)]

\* SendControlMessage to the sender.
Answer(r, type, p) ==
  back' = IF r \in r_channel /\ r \in links /\ r \in channels
            THEN [back EXCEPT ![r] = Append(@, [type |-> type, p |-> p])] ELSE back

\* Wrong on purpose: the message is ignored.
RControlIgnored(r, frame) ==
  UNCHANGED <<r_queue, r_tracked, r_endpoint, r_canceled, r_closed, r_got, r_frame>>

\* ProcessControlPacket looks the payload up.
RControl(r, frame) ==
  /\ r_frame' = IF frame.p \in r_tracked[r] THEN [r_frame EXCEPT ![r] = frame] ELSE r_frame
  /\ UNCHANGED <<r_queue, r_tracked, r_endpoint, r_canceled, r_closed, r_got>>

\* A payload is tracked from its first chunk on; the client will be told of it.
RStart(r, frame) ==
  LET p == frame.p IN
  /\ r_tracked' = [r_tracked EXCEPT ![r] = @ \cup {p}]
  /\ r_endpoint' = [r_endpoint EXCEPT ![r] = @ \cup {p}]
  /\ r_canceled' = [r_canceled EXCEPT ![r] = @ \ {p}]
  /\ r_closed' = [r_closed EXCEPT ![r] = @ \ {p}]
  /\ r_got' = [r_got EXCEPT ![r][p] = <<>>]
  /\ Post(r, [op |-> "payload", p |-> p])
  /\ r_frame' = [r_frame EXCEPT ![r] = frame]

\* Wrong on purpose: a payload that is not tracked is started at any chunk.
RDataStarts(r, frame) ==
  IF frame.offset = 0 \/ frame.p \notin r_tracked[r] THEN RStart(r, frame)
  ELSE /\ r_frame' = [r_frame EXCEPT ![r] = frame]
       /\ UNCHANGED <<r_tracked, r_endpoint, r_canceled, r_closed, r_got, r_queue>>

\* The first half of ProcessDataPacket: a chunk at offset 0 starts a payload,
\* another needs one that is tracked.
RData(r, frame) ==
  \/ frame.offset = 0 /\ RStart(r, frame)
  \/ /\ frame.offset # 0
     /\ r_frame' = IF frame.p \in r_tracked[r] THEN [r_frame EXCEPT ![r] = frame] ELSE r_frame
     /\ UNCHANGED <<r_tracked, r_endpoint, r_canceled, r_closed, r_got, r_queue>>

\* OnIncomingFrame on the receiver's reader.
RReceive(r) ==
  LET frame == Head(wire[r]) IN
  /\ r \in r_channel /\ r_frame[r] = NoFrame /\ wire[r] # <<>>
  /\ Len(r_queue[r]) < MaxReceiverJobs
  /\ wire' = [wire EXCEPT ![r] = Tail(@)]
  /\ \/ frame.type # "data" /\ RControl(r, frame)
     \/ frame.type = "data" /\ RData(r, frame)
  /\ UNCHANGED <<sendVars, links, back, r_channel, r_connected, r_told, r_ended, r_freed>>

\* The reader uses the payload it has looked up: its memory may have been freed.
Freed(r) == r_frame[r].p \notin r_tracked[r]
RUses(r) ==
  r_freed' = IF Freed(r) THEN r_freed \cup {<<r, r_frame[r].p, r_frame[r].type>>} ELSE r_freed

\* ProcessControlPacket for an incoming payload: HandleFinishedIncomingPayload
\* with a REMOTE_* status, which sends no answer.  After a cancellation the
\* payload is used once more, for a (verbose) line in the log.  A freed one may
\* be taken for outgoing, and then nothing is posted.
ROnControl(r) ==
  LET frame == r_frame[r] IN
  /\ frame.type \in {"canceled", "error"}
  /\ RUses(r)
  /\ \/ Post(r, [op |-> "finished", p |-> frame.p, what |-> RemoteEnd(frame.type)])
     \/ Freed(r) /\ UNCHANGED r_queue
  /\ r_frame' = [r_frame EXCEPT ![r] =
                   IF frame.type = "canceled" THEN [type |-> "line", p |-> frame.p] ELSE NoFrame]
  /\ UNCHANGED <<sendVars, wireVars, r_channel, r_connected, r_tracked, r_endpoint,
                 r_canceled, r_closed, r_got, r_told, r_ended>>

RLogs(r) ==
  /\ r_frame[r].type = "line"
  /\ RUses(r)
  /\ r_frame' = [r_frame EXCEPT ![r] = NoFrame]
  /\ UNCHANGED <<sendVars, wireVars, r_channel, r_connected, r_tracked, r_endpoint,
                 r_canceled, r_closed, r_got, r_queue, r_told, r_ended>>

\* HandleFinishedIncomingPayload with a LOCAL_* status.
RGivesUp(r, p, what, answer) ==
  /\ Post(r, [op |-> "finished", p |-> p, what |-> what])
  /\ Answer(r, answer, p)
  /\ r_ended' = [r_ended EXCEPT ![r] = @ \cup ({p} \cap r_tracked[r])]
  /\ UNCHANGED <<r_closed, r_got>>

\* The second half of ProcessDataPacket: the chunk is attached to the payload
\* that was looked up.  Were it freed meanwhile, the mark and the file that are
\* read could be anything: the payload is taken for cancelled, or its file for
\* closed.
RAttach(r) ==
  LET frame == r_frame[r]
      p == frame.p
      freed == Freed(r)
  IN
  /\ frame.type = "data"
  /\ r_frame' = [r_frame EXCEPT ![r] = NoFrame]
  /\ RUses(r)
  /\ \/ /\ p \in r_canceled[r] \/ freed
        /\ RGivesUp(r, p, "canceled", "canceled")
     \/ /\ p \notin r_canceled[r] \/ freed
        /\ \/ frame.chunk # Last /\ p \in r_closed[r]
           \/ frame.chunk # Last /\ "disk" \in Faults /\ r \in Faulty
           \/ freed
        /\ RGivesUp(r, p, "failure", "error")
     \/ /\ ~freed /\ p \notin r_canceled[r]
        /\ frame.chunk # Last => p \notin r_closed[r]
        /\ IF frame.chunk = Last
             THEN r_closed' = [r_closed EXCEPT ![r] = @ \cup {p}] /\ UNCHANGED r_got
             ELSE r_got' = [r_got EXCEPT ![r][p] = Append(@, frame.chunk)] /\ UNCHANGED r_closed
        /\ Post(r, [op |-> "chunk", p |-> p, chunk |-> frame.chunk])
        /\ UNCHANGED <<back, r_ended>>
  /\ UNCHANGED <<sendVars, links, wire, r_channel, r_connected, r_tracked, r_endpoint,
                 r_canceled, r_told>>

RTell(r, ps, update) ==
  r_told' = IF r \notin r_connected THEN r_told
            ELSE [r_told EXCEPT ![r] = [p \in Payloads |->
                    IF p \in ps THEN Reported(r_told[r][p], update) ELSE r_told[r][p]]]

\* Wrong on purpose: the payload is not destroyed.
RFinishedJobKeeps(r, job) ==
  /\ RTell(r, {job.p} \cap r_tracked[r], job.what)
  /\ UNCHANGED <<r_tracked, r_endpoint, r_closed>>

\* The job of SendClientCallbacksForFinishedIncomingPayload: the payload is
\* destroyed.
RFinishedJob(r, job) ==
  /\ RTell(r, {job.p} \cap r_tracked[r], job.what)
  /\ r_tracked' = [r_tracked EXCEPT ![r] = @ \ {job.p}]
  /\ r_endpoint' = [r_endpoint EXCEPT ![r] = @ \ {job.p}]
  /\ r_closed' = [r_closed EXCEPT ![r] = @ \cup ({job.p} \cap r_tracked[r])]

\* Wrong on purpose: the payloads are destroyed as well.
RDisconnectJobDestroys(r) ==
  /\ RTell(r, r_endpoint[r], "failure")
  /\ r_endpoint' = [r_endpoint EXCEPT ![r] = {}]
  /\ r_closed' = [r_closed EXCEPT ![r] = @ \cup r_endpoint[r]]
  /\ r_tracked' = [r_tracked EXCEPT ![r] = @ \ r_endpoint[r]]

\* The job of OnEndpointDisconnect: the payloads lose their endpoint and are
\* closed, and stay tracked.
RDisconnectJob(r) ==
  /\ RTell(r, r_endpoint[r], "failure")
  /\ r_endpoint' = [r_endpoint EXCEPT ![r] = {}]
  /\ r_closed' = [r_closed EXCEPT ![r] = @ \cup r_endpoint[r]]
  /\ UNCHANGED r_tracked

\* The receiver's status-update thread; the job of HandleSuccessfulIncomingChunk
\* asks whether the payload is tracked, but leaves it tracked after the last
\* chunk.
RStatusThread(r) ==
  LET job == Head(r_queue[r]) IN
  /\ r_queue[r] # <<>>
  /\ r_queue' = [r_queue EXCEPT ![r] = Tail(@)]
  /\ \/ /\ job.op = "payload"
        /\ RTell(r, {job.p}, "payload")
        /\ UNCHANGED <<r_tracked, r_endpoint, r_closed>>
     \/ /\ job.op = "chunk"
        /\ RTell(r, {job.p} \cap r_tracked[r],
                 IF job.chunk = Last THEN "success" ELSE "progress")
        /\ UNCHANGED <<r_tracked, r_endpoint, r_closed>>
     \/ job.op = "finished" /\ RFinishedJob(r, job)
     \/ job.op = "disconnect" /\ RDisconnectJob(r)
  /\ UNCHANGED <<sendVars, wireVars, r_channel, r_connected, r_canceled, r_got, r_frame,
                 r_ended, r_freed>>

\* CancelPayload for an incoming payload.
RCancelPayload(r, p) ==
  /\ "cancel" \in Faults /\ r \in Faulty
  /\ p \in r_tracked[r] \ r_canceled[r]
  /\ r_canceled' = [r_canceled EXCEPT ![r] = @ \cup {p}]
  /\ UNCHANGED <<sendVars, wireVars, r_channel, r_connected, r_tracked, r_endpoint,
                 r_closed, r_got, r_frame, r_queue, r_told, r_ended, r_freed>>

\* RemoveEndpoint and OnDisconnected on the receiver; frames not yet read are
\* lost.
RRemoveEndpoint(r) ==
  /\ r \in r_channel
  /\ MayDisconnect(r) \/ r \notin links
  /\ r_channel' = r_channel \ {r}
  /\ links' = links \ {r}
  /\ wire' = [wire EXCEPT ![r] = <<>>]
  /\ Post(r, [op |-> "disconnect"])
  /\ UNCHANGED <<sendVars, back, r_connected, r_tracked, r_endpoint, r_canceled, r_closed,
                 r_got, r_frame, r_told, r_ended, r_freed>>

ROnDisconnected(r) ==
  /\ r \notin r_channel /\ r \in r_connected
  /\ r_connected' = r_connected \ {r}
  /\ UNCHANGED <<sendVars, wireVars, r_channel, r_tracked, r_endpoint, r_canceled, r_closed,
                 r_got, r_frame, r_queue, r_told, r_ended, r_freed>>

----------------------------------------------------------------------------
Next ==
  \/ \E p \in Payloads, to \in SUBSET Receivers \ {{}} : SendPayload(p, to)
  \/ \E p \in Payloads : CancelPayload(p)
  \/ StartLoop \/ LoopTop \/ Detach \/ WriteChunk \/ PostResults
  \/ StatusThread
  \/ \E r \in Receivers : RemoveEndpoint(r)
  \/ \E r \in Receivers : OnDisconnected(r)
  \/ \E r \in Receivers : ReceiveControl(r)
  \/ \E r \in Receivers : Break(r)
  \/ Stop \/ CancelAllPayloads \/ AwaitBarrier \/ CloseDown
  \/ \E r \in Receivers : RReceive(r)
  \/ \E r \in Receivers : ROnControl(r) \/ RLogs(r)
  \/ \E r \in Receivers : RAttach(r)
  \/ \E r \in Receivers : RStatusThread(r)
  \/ \E r \in Receivers, p \in Payloads : RCancelPayload(r, p)
  \/ \E r \in Receivers : RRemoveEndpoint(r)
  \/ \E r \in Receivers : ROnDisconnected(r)

Spec == Init /\ [][Next]_vars

\* The threads.
FileExecutor == StartLoop \/ LoopTop \/ Detach \/ WriteChunk \/ PostResults
Destructor == CancelAllPayloads \/ AwaitBarrier \/ CloseDown
EndpointManager(r) == (r \notin links /\ RemoveEndpoint(r)) \/ OnDisconnected(r)
RReader(r) == RReceive(r) \/ ROnControl(r) \/ RLogs(r) \/ RAttach(r)
REndpointManager(r) == (r \notin links /\ RRemoveEndpoint(r)) \/ ROnDisconnected(r)

\* Every thread that has work does it; a connection that is down is noticed by
\* both sides' readers or keep-alives.  Nothing is assumed of the clients.
Fairness ==
  /\ WF_vars(FileExecutor) /\ WF_vars(StatusThread) /\ WF_vars(Destructor)
  /\ \A r \in Receivers :
       /\ WF_vars(EndpointManager(r)) /\ WF_vars(ReceiveControl(r))
       /\ WF_vars(RReader(r)) /\ WF_vars(RStatusThread(r))
       /\ WF_vars(REndpointManager(r))

FairSpec == Spec /\ Fairness

----------------------------------------------------------------------------
(* Properties *)

TypeOK ==
  /\ file_queue \in Seq(Payloads)
  /\ loop \in Loop \cup {Idle}
  /\ pending \in [Payloads -> {"unsent", "tracked", "gone"}]
  /\ status \in [Payloads -> [Receivers -> Statuses \cup {"none"}]]
  /\ canceled \subseteq Payloads
  /\ position \in [Payloads -> 0 .. Size]
  /\ closed \subseteq Payloads
  /\ status_queue \in Seq(SenderJob)
  /\ channels \subseteq Receivers
  /\ connected \subseteq Receivers
  /\ told \in [Payloads -> [Receivers -> Seq(Update)]]
  /\ shutdown \in {"no", "stopping", "waiting", "closing", "down"}
  /\ barrier \in Nat
  /\ stranded \subseteq Payloads
  /\ starved \subseteq Payloads
  /\ links \subseteq Receivers
  /\ wire \in [Receivers -> Seq(Data \cup Control)]
  /\ back \in [Receivers -> Seq(Control)]
  /\ r_channel \subseteq Receivers
  /\ r_connected \subseteq Receivers
  /\ r_tracked \in [Receivers -> SUBSET Payloads]
  /\ r_endpoint \in [Receivers -> SUBSET Payloads]
  /\ r_canceled \in [Receivers -> SUBSET Payloads]
  /\ r_closed \in [Receivers -> SUBSET Payloads]
  /\ r_got \in [Receivers -> [Payloads -> Seq(1 .. Size)]]
  /\ r_frame \in [Receivers -> Data \cup Control \cup Line \cup {NoFrame}]
  /\ r_queue \in [Receivers -> Seq(ReceiverJob)]
  /\ r_told \in [Receivers -> [Payloads -> Seq(Update \cup {"payload"})]]
  /\ r_ended \in [Receivers -> SUBSET Payloads]
  /\ r_freed \subseteq Receivers \X Payloads \X {"data", "canceled", "error", "line"}

Ends(log) == \E i \in DOMAIN log : log[i] \in Final

\* The sender's client hears the end of a transfer once for each endpoint, and
\* nothing about it afterwards, although the send loop, a disconnection, a
\* control message and the last chunk may each end it.
OutgoingEndsOnce ==
  \A p \in Payloads, r \in Receivers :
    \A i, j \in DOMAIN told[p][r] : told[p][r][i] \in Final => j <= i

\* A receiver's client hears of the payload before anything about it, and
\* nothing after its end while the sender's channel stands.  Once the endpoint is
\* removed more may follow, even a failure after the success: the payload is
\* still tracked, and no job asks whether its endpoint is.
IncomingUpdates ==
  \A r \in Receivers, p \in Payloads :
    LET log == r_told[r][p] IN
    /\ log # <<>> => log[1] = "payload"
    /\ r \in r_channel => \A i, j \in DOMAIN log : log[i] \in Final => j <= i

\* The chunks of a receiver's file are in their order and without a gap until
\* the receiver gives the payload up (a chunk that is met between the failure and
\* its job is still written), and the file is whole when it is reported as
\* received, unless the sender was starved.
ReceivedWhole ==
  \A r \in Receivers, p \in Payloads :
    LET got == r_got[r][p] IN
    /\ p \notin r_ended[r] => \A i \in DOMAIN got : got[i] = ResumeOffset + i
    /\ (\E i \in DOMAIN r_told[r][p] : r_told[r][p][i] = "success") /\ p \notin starved
         => Len(got) = Size - ResumeOffset

\* The status thread frees a payload under the reader only if the reader itself
\* had given the payload up and then met another frame of it: neither the end
\* of a transfer by the sender nor the loss of the endpoint does, except for the
\* line that is logged after a cancellation by the sender.
FreedOnlyAfterGivingUp ==
  \A r \in Receivers, p \in Payloads, type \in {"data", "canceled", "error"} :
    <<r, p, type>> \in r_freed => p \in r_ended[r]

\* A payload that is sent is destroyed, unless the shutdown found it waiting.
PayloadEnds ==
  \A p \in Payloads :
    pending[p] = "tracked" ~> (pending[p] = "gone" \/ stranded # {})

\* The sender's client hears how the transfer to an endpoint ended, unless the
\* endpoint is disconnected or the manager is shut down.
SenderIsTold ==
  \A p \in Payloads, r \in Receivers :
    Tracks(p, r) ~> (Ends(told[p][r]) \/ r \notin connected \/ shutdown # "no")

\* The receiver's client hears how a transfer that has begun ended, unless the
\* sender is disconnected or shut down.
ReceiverIsTold ==
  \A r \in Receivers, p \in Payloads :
    p \in r_tracked[r] ~> (Ends(r_told[r][p]) \/ r \notin r_connected \/ shutdown # "no")

\* The destructor returns, unless the shutdown found a payload waiting.
ShutdownEnds == (shutdown = "stopping" /\ stranded = {}) ~> shutdown = "down"

\* "Remaining cleanup and updates will be sent in SendPayload() or
\* OnIncomingFrame()": a payload whose cancellation was accepted is cleaned up.
CanceledIsCleanedUp ==
  \A r \in Receivers, p \in Payloads : p \in r_canceled[r] ~> p \notin r_tracked[r]
=============================================================================
