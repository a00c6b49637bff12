----------------------- MODULE PayloadTransferProofs -----------------------
(***************************************************************************)
(* What the sender of PayloadTransfer keeps.  In this order: the types; that*)
(* the client hears the end of a transfer once (OutgoingEndsOnce); and the *)
(* invariant of the sender's loops and jobs, SenderInv, which the proofs about*)
(* the receivers (PayloadReceiverProofs) rest on.                          *)
(***************************************************************************)
EXTENDS PayloadTransfer, TLAPS, FiniteSetTheorems

----------------------------------------------------------------------------
(* The types: the client, the endpoint manager, the destructor *)

\* How far the running loop has come: its offset is at most what was read of the
\* file, is past the offset to resume from once the loop has left the top for the
\* first time, and is behind what was read while a chunk is under way.  The type
\* invariant needs it: the offset of a data frame is a difference.
LoopOffset ==
  loop # Idle =>
    /\ loop.offset <= position[loop.p]
    /\ ResumeOffset <= loop.offset \/ (loop.at = "top" /\ loop.offset = 0)
    /\ loop.at \in {"write", "post"} /\ loop.chunk # Last
         => loop.offset < position[loop.p]

\* What each stage of a send loop carries.
LEMMA LoopShape ==
  ASSUME loop \in Loop \cup {Idle}
  PROVE  /\ loop # Idle => /\ loop.at \in {"top", "detach", "write", "post"}
                           /\ loop.p \in Payloads /\ loop.offset \in 0 .. Size
         /\ loop.at = "idle" <=> loop = Idle
         /\ loop.at \in {"detach", "write", "post"} => loop.to \in SUBSET Receivers
         /\ loop.at \in {"write", "post"} => loop.chunk \in Chunk
         /\ loop.at = "post" => loop.failed \in SUBSET Receivers
  BY DEF Loop, Idle

\* The jobs the sender posts are jobs.
LEMMA JobTypes ==
  /\ \A p \in Payloads : Destroy(p) \in SenderJob
  /\ \A p \in Payloads, to \in SUBSET Receivers, what \in Final :
       Finished(p, to, what) \in SenderJob
  /\ \A p \in Payloads, to \in SUBSET Receivers, chunk \in Chunk :
       [op |-> "sent", p |-> p, to |-> to, chunk |-> chunk] \in SenderJob
  /\ [op |-> "notify"] \in SenderJob
  /\ \A r \in Receivers : [op |-> "disconnect", from |-> r] \in SenderJob
  BY DEF SenderJob, Destroy, Finished

\* The jobs for the endpoints that ended the transfer are jobs.
LEMMA EndedRemotelyType ==
  ASSUME NEW p \in Payloads
  PROVE EndedRemotely(p) \in Seq(SenderJob)
  BY JobTypes DEF EndedRemotely, RemoteEnd, Final

\* A frame that is sent leaves the connections well typed.
LEMMA SendType ==
  ASSUME wire \in [Receivers -> Seq(Data \cup Control)],
         NEW to, NEW frame \in Data \cup Control, Send(to, frame)
  PROVE  wire' \in [Receivers -> Seq(Data \cup Control)]
  BY DEF Send

\* An update leaves a log well typed.
LEMMA ReportedType ==
  ASSUME NEW S, NEW log \in Seq(S), NEW u \in S
  PROVE Reported(log, u) \in Seq(S)
  BY DEF Reported

\* The types, for the client's calls, the endpoint manager, the readers of control
\* messages and the destructor.
LEMMA EasyTypes ==
  ASSUME TypeOK, LoopOffset,
         \/ \E p \in Payloads, to \in SUBSET Receivers \ {{}} : SendPayload(p, to)
         \/ \E p \in Payloads : CancelPayload(p)
         \/ \E r \in Receivers : RemoveEndpoint(r) \/ OnDisconnected(r)
                                   \/ ReceiveControl(r) \/ Break(r)
         \/ Stop \/ CancelAllPayloads \/ AwaitBarrier \/ CloseDown
  PROVE  TypeOK' /\ LoopOffset'
  <1> USE PayloadConstants
      DEF TypeOK, LoopOffset, loopVars, trackVars, shutVars, sendVars, wireVars, recvVars
  <1>1. ASSUME NEW p \in Payloads, NEW to \in SUBSET Receivers, SendPayload(p, to)
        PROVE  TypeOK' /\ LoopOffset'
    <2>1. status' \in [Payloads -> [Receivers -> Statuses \cup {"none"}]]
      BY <1>1 DEF SendPayload, Statuses
    <2>2. file_queue' \in Seq(Payloads)
      BY <1>1 DEF SendPayload
    <2> QED
      BY <1>1, <2>1, <2>2 DEF SendPayload
  <1>2. CASE \E p \in Payloads : CancelPayload(p)
    BY <1>2 DEF CancelPayload
  <1>3. ASSUME NEW r \in Receivers, RemoveEndpoint(r) PROVE TypeOK' /\ LoopOffset'
    <2>1. status_queue' \in Seq(SenderJob)
      BY <1>3, JobTypes DEF RemoveEndpoint
    <2>2. back' \in [Receivers -> Seq(Control)]
      BY <1>3 DEF RemoveEndpoint
    <2> QED
      BY <1>3, <2>1, <2>2 DEF RemoveEndpoint
  <1>4. CASE \E r \in Receivers : OnDisconnected(r) \/ Break(r)
    BY <1>4 DEF OnDisconnected, Break
  <1>5. ASSUME NEW r \in Receivers, ReceiveControl(r) PROVE TypeOK' /\ LoopOffset'
    <2>1. Head(back[r]) \in Control /\ Tail(back[r]) \in Seq(Control)
      BY <1>5 DEF ReceiveControl
    <2>2. Head(back[r]).type \in Statuses
      BY <2>1 DEF Control, Statuses
    <2>3. status' \in [Payloads -> [Receivers -> Statuses \cup {"none"}]]
      BY <1>5, <2>2 DEF ReceiveControl
    <2>4. back' \in [Receivers -> Seq(Control)]
      BY <1>5, <2>1 DEF ReceiveControl
    <2> QED
      BY <1>5, <2>3, <2>4 DEF ReceiveControl
  <1>6. CASE CancelAllPayloads
    <2>1. Cardinality(Tracked) \in Nat
      BY FS_Subset, FS_CardinalityType DEF Tracked
    <2>2. QED
      BY <1>6, <2>1 DEF CancelAllPayloads, Tracked
  <1>7. CASE Stop \/ AwaitBarrier \/ CloseDown
    BY <1>7 DEF Stop, AwaitBarrier, CloseDown
  <1> QED
    BY <1>1, <1>2, <1>3, <1>4, <1>5, <1>6, <1>7

----------------------------------------------------------------------------
(* The types: the send loop *)

\* What EndLoop leaves behind.
LEMMA EndLoopType ==
  ASSUME TypeOK, loop # Idle, NEW jobs \in Seq(SenderJob), EndLoop(jobs)
  PROVE  loop' = Idle /\ status_queue' \in Seq(SenderJob)
  BY LoopShape, JobTypes DEF TypeOK, EndLoop

\* The types after a step of the file executor, which leaves the rest alone.
LEMMA ExecutorType ==
  ASSUME TypeOK,
         file_queue' \in Seq(Payloads),
         loop' \in Loop \cup {Idle},
         position' \in [Payloads -> 0 .. Size],
         starved' \subseteq Payloads,
         status_queue' \in Seq(SenderJob),
         wire' \in [Receivers -> Seq(Data \cup Control)],
         UNCHANGED <<trackVars, shutVars, canceled, channels, connected, told, links,
                     back, recvVars>>
  PROVE  TypeOK'
  BY DEF TypeOK, trackVars, shutVars, recvVars

\* The types, for each stage of the send loop.  A transfer never fails because
\* the loop is past the end of the file: TransferFailed is false.
LEMMA LoopTypes ==
  ASSUME TypeOK, LoopOffset, StartLoop \/ LoopTop \/ Detach \/ WriteChunk \/ PostResults
  PROVE  TypeOK' /\ LoopOffset'
  <1>t. /\ file_queue \in Seq(Payloads) /\ loop \in Loop \cup {Idle}
        /\ position \in [Payloads -> 0 .. Size] /\ starved \subseteq Payloads
        /\ status_queue \in Seq(SenderJob)
        /\ wire \in [Receivers -> Seq(Data \cup Control)]
    BY DEF TypeOK
  <1> USE PayloadConstants, <1>t DEF LoopOffset, loopVars, sendVars, wireVars
  <1>e. <<>> \in Seq(SenderJob)
    OBVIOUS
  <1>1. CASE StartLoop
    <2>1. Head(file_queue) \in Payloads /\ Tail(file_queue) \in Seq(Payloads)
      BY <1>1 DEF StartLoop
    <2>2. loop' \in Loop \cup {Idle}
      BY <1>1, <2>1 DEF StartLoop, Loop
    <2>3. LoopOffset'
      BY <1>1, <2>1 DEF StartLoop, Idle
    <2> QED
      BY <1>1, <2>1, <2>2, <2>3, ExecutorType DEF StartLoop
  <1>2. CASE LoopTop
    <2> DEFINE p == loop.p
               to == Available(p)
               skips == loop.offset = 0 /\ ResumeOffset > 0
    <2>1. loop # Idle /\ loop.at = "top" /\ p \in Payloads /\ loop.offset \in 0 .. Size
      BY <1>2, LoopShape DEF LoopTop, Idle
    <2>2. EndedRemotely(p) \in Seq(SenderJob) /\ to \in SUBSET Receivers
      BY <2>1, EndedRemotelyType DEF Available
    <2>u. UNCHANGED <<file_queue, trackVars, shutVars, canceled, channels, connected, told,
                      starved, links, back, recvVars>>
      BY <1>2 DEF LoopTop
    <2>3. CASE /\ loop' = Idle /\ position' = position
               /\ status_queue' \in Seq(SenderJob)
               /\ wire' \in [Receivers -> Seq(Data \cup Control)]
      BY <2>u, <2>3, ExecutorType
    <2>4. CASE \E jobs \in {<<>>, EndedRemotely(p)} :
                 EndLoop(jobs) /\ UNCHANGED <<position, wire>>
      <3>1. PICK jobs \in {<<>>, EndedRemotely(p)} :
                 EndLoop(jobs) /\ UNCHANGED <<position, wire>>
        BY <2>4
      <3>2. jobs \in Seq(SenderJob)
        BY <1>e, <2>2
      <3>3. loop' = Idle /\ status_queue' \in Seq(SenderJob)
        BY <2>1, <3>1, <3>2, EndLoopType
      <3> QED
        BY <2>3, <3>1, <3>3
    <2>5. CASE \E what \in {"canceled", "failure"}, type \in {"canceled", "error"} :
                 /\ EndLoop(EndedRemotely(p) \o <<Finished(p, to, what)>>)
                 /\ Send(to, [type |-> type, p |-> p])
                 /\ UNCHANGED position
      <3>1. PICK what \in {"canceled", "failure"}, type \in {"canceled", "error"} :
                 /\ EndLoop(EndedRemotely(p) \o <<Finished(p, to, what)>>)
                 /\ Send(to, [type |-> type, p |-> p])
                 /\ UNCHANGED position
        BY <2>5
      <3>2. EndedRemotely(p) \o <<Finished(p, to, what)>> \in Seq(SenderJob)
        BY <2>1, <2>2, JobTypes DEF Final
      <3>3. [type |-> type, p |-> p] \in Control
        BY <2>1 DEF Control
      <3> QED
        BY <2>1, <2>3, <3>1, <3>2, <3>3, EndLoopType, SendType
    <2>6. CASE /\ position' = IF skips THEN [position EXCEPT ![p] = ResumeOffset] ELSE position
               /\ loop' = [at |-> "detach", p |-> p, to |-> to,
                           offset |-> IF skips THEN ResumeOffset ELSE loop.offset]
               /\ status_queue' = status_queue \o EndedRemotely(p)
               /\ UNCHANGED wire
      <3>1. loop' \in Loop \cup {Idle}
        BY <2>1, <2>2, <2>6 DEF Loop
      <3>2. LoopOffset'
        BY <2>1, <2>6
      <3> QED
        BY <2>u, <2>1, <2>2, <2>6, <3>1, <3>2, ExecutorType
    <2> QED
      BY <1>2, <2>4, <2>5, <2>6 DEF LoopTop
  <1>3. CASE Detach
    <2> DEFINE p == loop.p
               chunk == NextChunk(p, ChunkSize(loop.to))
    <2>1. loop # Idle /\ loop.at = "detach" /\ p \in Payloads /\ loop.offset \in 0 .. Size
          /\ loop.to \in SUBSET Receivers /\ ResumeOffset <= loop.offset /\ loop.offset <= position[p]
      BY <1>3, LoopShape DEF Detach, Idle
    <2>2. chunk \in Chunk /\ (chunk # Last => chunk = position[p] + 1)
      BY <2>1 DEF NextChunk, Chunk, Last
    <2>3. position' \in [Payloads -> 0 .. Size] /\ position[p] <= position'[p]
          /\ (chunk # Last => position'[p] = chunk)
      BY <1>3, <2>1, <2>2 DEF Detach, Chunk, Last
    <2>4. starved' \subseteq Payloads
      BY <1>3, <2>1 DEF Detach
    <2>u. UNCHANGED <<file_queue, trackVars, shutVars, canceled, channels, connected, told,
                      links, back, recvVars>>
      BY <1>3 DEF Detach
    <2>5. CASE shutdown # "no"
      <3>1. EndLoop(<<>>) /\ UNCHANGED wire
        BY <1>3, <2>5 DEF Detach
      <3> QED
        <4>1. loop' = Idle /\ status_queue' \in Seq(SenderJob)
          BY <1>e, <2>1, <3>1, EndLoopType
        <4> QED
          BY <2>u, <2>3, <2>4, <3>1, <4>1, ExecutorType
    <2>6. ~TransferFailed(chunk, loop.offset)
      BY <2>1 DEF TransferFailed
    <2>7. CASE shutdown = "no"
      <3>1. /\ loop' = [at |-> "write", p |-> p, offset |-> loop.offset,
                        to |-> loop.to, chunk |-> chunk]
            /\ UNCHANGED <<status_queue, wire>>
        BY <1>3, <2>6, <2>7 DEF Detach
      <3>2. loop' \in Loop \cup {Idle}
        BY <2>1, <2>2, <3>1 DEF Loop
      <3>3. LoopOffset'
        BY <2>1, <2>2, <2>3, <3>1
      <3> QED
        BY <2>u, <2>3, <2>4, <3>1, <3>2, <3>3, ExecutorType
    <2> QED
      BY <2>5, <2>7
  <1>4. CASE WriteChunk
    <2>1. loop # Idle /\ loop.at = "write" /\ loop.p \in Payloads /\ loop.offset \in 0 .. Size
          /\ loop.to \in SUBSET Receivers /\ ResumeOffset <= loop.offset /\ loop.chunk \in Chunk
      BY <1>4, LoopShape DEF WriteChunk, Idle
    <2>2. DataFrame \in Data
      BY <2>1 DEF DataFrame, Data, Chunk
    <2>3. wire' \in [Receivers -> Seq(Data \cup Control)]
      BY <1>4, <2>2, SendType DEF WriteChunk
    <2>4. loop' \in Loop \cup {Idle}
      BY <1>4, <2>1 DEF WriteChunk, Loop, Reachable
    <2>5. LoopOffset'
      BY <1>4, <2>1 DEF WriteChunk
    <2> QED
      BY <1>4, <2>3, <2>4, <2>5, ExecutorType DEF WriteChunk
  <1>5. CASE PostResults
    <2> DEFINE p == loop.p
               sent == loop.to \ loop.failed
               jobs == (IF loop.failed = {} THEN <<>>
                        ELSE <<Finished(p, loop.failed, "failure")>>)
                         \o (IF sent = {} THEN <<>>
                             ELSE <<[op |-> "sent", p |-> p, to |-> sent, chunk |-> loop.chunk]>>)
    <2>1. loop # Idle /\ loop.at = "post" /\ p \in Payloads /\ loop.offset \in 0 .. Size
          /\ loop.to \in SUBSET Receivers /\ ResumeOffset <= loop.offset /\ loop.chunk \in Chunk
          /\ loop.failed \in SUBSET Receivers
      BY <1>5, LoopShape DEF PostResults, Idle
    <2>u. UNCHANGED <<file_queue, position, trackVars, shutVars, canceled, channels,
                      connected, told, starved, wireVars, recvVars>>
      BY <1>5 DEF PostResults
    <2>2. jobs \in Seq(SenderJob)
      <3>1. loop.failed # {} => Finished(p, loop.failed, "failure") \in SenderJob
        BY <2>1, JobTypes DEF Final
      <3>2. sent # {} => [op |-> "sent", p |-> p, to |-> sent, chunk |-> loop.chunk] \in SenderJob
        BY <2>1, JobTypes
      <3> QED
        BY <3>1, <3>2
    <2>3. CASE sent # {} /\ loop.chunk = Last
      <3>1. EndLoop(jobs)
        BY <1>5, <2>3 DEF PostResults
      <3> QED
        BY <2>u, <2>1, <2>2, <3>1, EndLoopType, ExecutorType
    <2>4. CASE ~(sent # {} /\ loop.chunk = Last)
      <3>1. /\ loop' = [at |-> "top", p |-> p,
                        offset |-> IF sent = {} THEN loop.offset ELSE loop.offset + 1]
            /\ status_queue' = status_queue \o jobs
        BY <1>5, <2>4 DEF PostResults
      <3>2. status_queue' \in Seq(SenderJob)
        BY <2>2, <3>1
      <3>3. sent # {} => loop.offset + 1 <= position[p]
        BY <2>1, <2>4
      <3>n. (IF sent = {} THEN loop.offset ELSE loop.offset + 1) \in 0 .. Size
        BY <2>1, <3>3
      <3>4. loop' \in Loop \cup {Idle}
        BY <2>1, <3>1, <3>n DEF Loop
      <3>5. LoopOffset'
        BY <2>u, <2>1, <3>1, <3>3
      <3> QED
        BY <2>u, <3>2, <3>4, <3>5, ExecutorType
    <2> QED
      BY <2>3, <2>4
  <1> QED
    BY <1>1, <1>2, <1>3, <1>4, <1>5

----------------------------------------------------------------------------
(* The types: the status thread and the receivers *)

\* What each job of the sender's status thread carries.
LEMMA SenderJobShape ==
  ASSUME NEW job \in SenderJob
  PROVE  /\ job.op \in {"finished", "sent", "destroy", "notify", "disconnect"}
         /\ job.op \in {"finished", "sent", "destroy"} => job.p \in Payloads
         /\ job.op \in {"finished", "sent"} => job.to \in SUBSET Receivers
         /\ job.op = "finished" => job.what \in Final
         /\ job.op = "sent" => job.chunk \in Chunk
         /\ job.op = "disconnect" => job.from \in Receivers
  BY DEF SenderJob

\* Telling the sender's client leaves its logs well typed.
LEMMA TellType ==
  ASSUME told \in [Payloads -> [Receivers -> Seq(Update)]],
         NEW p \in Payloads, NEW to, NEW update \in Update, Tell(p, to, update)
  PROVE  told' \in [Payloads -> [Receivers -> Seq(Update)]]
  BY ReportedType DEF Tell

\* Removing endpoints leaves the tracked payloads well typed.
LEMMA UntrackType ==
  ASSUME status \in [Payloads -> [Receivers -> Statuses \cup {"none"}]],
         closed \subseteq Payloads, NEW p \in Payloads, NEW to, Untrack(p, to)
  PROVE  /\ status' \in [Payloads -> [Receivers -> Statuses \cup {"none"}]]
         /\ closed' \subseteq Payloads
  BY DEF Untrack

\* The types, for the sender's status thread.
LEMMA StatusTypes ==
  ASSUME TypeOK, LoopOffset, StatusThread
  PROVE  TypeOK' /\ LoopOffset'
  <1> DEFINE job == Head(status_queue)
  <1>t. /\ status \in [Payloads -> [Receivers -> Statuses \cup {"none"}]]
        /\ told \in [Payloads -> [Receivers -> Seq(Update)]]
        /\ closed \subseteq Payloads /\ status_queue \in Seq(SenderJob)
        /\ pending \in [Payloads -> {"unsent", "tracked", "gone"}] /\ barrier \in Nat
    BY DEF TypeOK
  <1>j. job \in SenderJob /\ Tail(status_queue) \in Seq(SenderJob)
    BY <1>t DEF StatusThread
  <1>u. UNCHANGED <<loopVars, shutdown, stranded, canceled, channels, connected, starved,
                    wireVars, recvVars>>
    BY DEF StatusThread
  <1>1. /\ told' \in [Payloads -> [Receivers -> Seq(Update)]]
        /\ status' \in [Payloads -> [Receivers -> Statuses \cup {"none"}]]
        /\ closed' \subseteq Payloads
    <2>1. CASE job.op = "finished"
      <3>1. FinishedJob(job)
        BY <1>j, <2>1, SenderJobShape DEF StatusThread
      <3> QED
        BY <1>t, <1>j, <2>1, <3>1, SenderJobShape, TellType, UntrackType
           DEF FinishedJob, Update
    <2>2. CASE job.op = "sent"
      <3>1. SentJob(job)
        BY <1>j, <2>2, SenderJobShape DEF StatusThread
      <3> QED
        BY <1>t, <1>j, <2>2, <3>1, SenderJobShape, TellType, UntrackType
           DEF SentJob, Update, Final
    <2>3. CASE job.op = "destroy"
      BY <1>t, <1>j, <2>3, SenderJobShape DEF StatusThread, DestroyJob
    <2>4. CASE job.op = "notify"
      BY <1>t, <1>j, <2>4, SenderJobShape DEF StatusThread
    <2>5. CASE job.op = "disconnect"
      <3>1. DisconnectJob(job.from)
        BY <1>j, <2>5, SenderJobShape DEF StatusThread
      <3>2. \A p \in Payloads, r \in Receivers : Reported(told[p][r], "failure") \in Seq(Update)
        BY <1>t, ReportedType DEF Update, Final
      <3>3. told' \in [Payloads -> [Receivers -> Seq(Update)]]
        BY <1>t, <1>j, <2>5, <3>1, <3>2, SenderJobShape DEF DisconnectJob
      <3> QED
        BY <1>t, <1>j, <2>5, <3>1, <3>3, SenderJobShape DEF DisconnectJob
    <2> QED
      BY <1>j, <2>1, <2>2, <2>3, <2>4, <2>5, SenderJobShape
  <1>2. status_queue' \in Seq(SenderJob)
    <2>1. \/ status_queue' = Tail(status_queue)
          \/ status_queue' = <<[op |-> "notify"]>> \o Tail(status_queue)
      BY DEF StatusThread
    <2>2. <<[op |-> "notify"]>> \in Seq(SenderJob)
      BY JobTypes
    <2> QED
      BY <1>j, <2>1, <2>2
  <1>3. /\ pending' \in [Payloads -> {"unsent", "tracked", "gone"}]
        /\ barrier' \in Nat
    <2>1. pending' = pending \/ (job.op = "destroy" /\ DestroyJob(job))
      BY DEF StatusThread
    <2>2. barrier' = barrier \/ NotifyShutdown
      BY DEF StatusThread
    <2> QED
      <3>1. pending' \in [Payloads -> {"unsent", "tracked", "gone"}]
        BY <1>t, <1>j, <2>1, SenderJobShape DEF DestroyJob
      <3>2. barrier' \in Nat
        BY <1>t, <2>2 DEF NotifyShutdown
      <3> QED
        BY <3>1, <3>2
  <1>4. TypeOK'
    BY <1>u, <1>1, <1>2, <1>3 DEF TypeOK, loopVars, wireVars, recvVars
  <1> QED
    BY <1>u, <1>4 DEF LoopOffset, loopVars

\* A frame is about a payload, and is a data frame or a control message.
LEMMA FrameShape ==
  ASSUME NEW f \in Data \cup Control
  PROVE  /\ f.p \in Payloads
         /\ f.type = "data" => f \in Data
         /\ f.type # "data" => f.type \in {"canceled", "error"}
  BY DEF Data, Control

\* What a data frame carries.
LEMMA DataShape ==
  ASSUME NEW f \in Data
  PROVE  /\ f.type = "data" /\ f.p \in Payloads /\ f.offset \in 0 .. Size /\ f.chunk \in 0 .. Size
         /\ f # NoFrame
  BY DEF Data, Chunk, NoFrame

\* What each job of a receiver's status thread carries.
LEMMA ReceiverJobShape ==
  ASSUME NEW job \in ReceiverJob
  PROVE  /\ job.op \in {"payload", "chunk", "finished", "disconnect"}
         /\ job.op # "disconnect" => job.p \in Payloads
         /\ job.op = "chunk" => job.chunk \in Chunk
         /\ job.op = "finished" => job.what \in Final
  BY DEF ReceiverJob

\* The jobs a receiver posts are jobs.
LEMMA ReceiverJobTypes ==
  /\ \A p \in Payloads : [op |-> "payload", p |-> p] \in ReceiverJob
  /\ \A p \in Payloads, c \in 0 .. Size : [op |-> "chunk", p |-> p, chunk |-> c] \in ReceiverJob
  /\ \A p \in Payloads, what \in Final :
       [op |-> "finished", p |-> p, what |-> what] \in ReceiverJob
  /\ [op |-> "disconnect"] \in ReceiverJob
  BY DEF ReceiverJob, Chunk

\* A job that is posted leaves the queues well typed.
LEMMA PostType ==
  ASSUME r_queue \in [Receivers -> Seq(ReceiverJob)],
         NEW r \in Receivers, NEW job \in ReceiverJob, Post(r, job)
  PROVE  r_queue' \in [Receivers -> Seq(ReceiverJob)]
  BY DEF Post

\* Telling a receiver's client leaves its logs well typed.
LEMMA RTellType ==
  ASSUME r_told \in [Receivers -> [Payloads -> Seq(Update \cup {"payload"})]],
         NEW r \in Receivers, NEW ps, NEW update \in Update \cup {"payload"},
         RTell(r, ps, update)
  PROVE  r_told' \in [Receivers -> [Payloads -> Seq(Update \cup {"payload"})]]
  BY ReportedType DEF RTell

\* The types after a step of a receiver, which leaves the sender alone.
LEMMA ReceiverType ==
  ASSUME TypeOK, UNCHANGED sendVars,
         wire' \in [Receivers -> Seq(Data \cup Control)],
         back' \in [Receivers -> Seq(Control)],
         links' \subseteq Receivers, r_channel' \subseteq Receivers,
         r_connected' \subseteq Receivers,
         r_tracked' \in [Receivers -> SUBSET Payloads],
         r_endpoint' \in [Receivers -> SUBSET Payloads],
         r_canceled' \in [Receivers -> SUBSET Payloads],
         r_closed' \in [Receivers -> SUBSET Payloads],
         r_ended' \in [Receivers -> SUBSET Payloads],
         r_got' \in [Receivers -> [Payloads -> Seq(1 .. Size)]],
         r_frame' \in [Receivers -> Data \cup Control \cup Line \cup {NoFrame}],
         r_queue' \in [Receivers -> Seq(ReceiverJob)],
         r_told' \in [Receivers -> [Payloads -> Seq(Update \cup {"payload"})]],
         r_freed' \subseteq Receivers \X Payloads \X {"data", "canceled", "error", "line"}
  PROVE  TypeOK'
  BY DEF TypeOK, sendVars, loopVars, trackVars, shutVars

\* A function of functions, changed at one place.
LEMMA ExceptType ==
  ASSUME NEW A, NEW B, NEW S, NEW F \in [A -> [B -> S]],
         NEW a \in A, NEW b \in B, NEW x \in S
  PROVE  [F EXCEPT ![a][b] = x] \in [A -> [B -> S]]
  OBVIOUS

\* What the reader has in hand.
LEMMA HeldShape ==
  ASSUME TypeOK, NEW r \in Receivers
  PROVE  /\ r_frame[r].type = "data" => r_frame[r] \in Data
         /\ r_frame[r].type \in {"canceled", "error"} => r_frame[r] \in Control
         /\ r_frame[r] # NoFrame => r_frame[r].p \in Payloads
         /\ r_frame[r].type \in {"data", "canceled", "error", "line"} => r_frame[r] # NoFrame
         /\ r_frame[r] # NoFrame => r_frame[r].type \in {"data", "canceled", "error", "line"}
  <1>1. r_frame[r] \in Data \cup Control \cup Line \cup {NoFrame}
    BY DEF TypeOK
  <1> QED
    BY <1>1 DEF Data, Control, Line, NoFrame

\* The types, for each step of a receiver.
LEMMA ReceiverTypes ==
  ASSUME TypeOK, LoopOffset, NEW r \in Receivers,
         \/ RReceive(r) \/ ROnControl(r) \/ RLogs(r) \/ RAttach(r) \/ RStatusThread(r) \/ RRemoveEndpoint(r)
         \/ ROnDisconnected(r) \/ \E p \in Payloads : RCancelPayload(r, p)
  PROVE  TypeOK' /\ LoopOffset'
  <1>u. UNCHANGED sendVars
    BY DEF RReceive, ROnControl, RLogs, RAttach, RStatusThread, RRemoveEndpoint, ROnDisconnected,
       RCancelPayload
  <1>wire. wire \in [Receivers -> Seq(Data \cup Control)]
    BY DEF TypeOK
  <1>back. back \in [Receivers -> Seq(Control)]
    BY DEF TypeOK
  <1>sets. /\ r_tracked \in [Receivers -> SUBSET Payloads]
           /\ r_endpoint \in [Receivers -> SUBSET Payloads]
           /\ r_canceled \in [Receivers -> SUBSET Payloads]
           /\ r_closed \in [Receivers -> SUBSET Payloads]
           /\ r_ended \in [Receivers -> SUBSET Payloads]
           /\ r_freed \subseteq Receivers \X Payloads \X {"data", "canceled", "error", "line"}
    BY DEF TypeOK
  <1>got. r_got \in [Receivers -> [Payloads -> Seq(1 .. Size)]]
    BY DEF TypeOK
  <1>frame. r_frame \in [Receivers -> Data \cup Control \cup Line \cup {NoFrame}]
    BY DEF TypeOK
  <1>queue. r_queue \in [Receivers -> Seq(ReceiverJob)]
    BY DEF TypeOK
  <1>told. r_told \in [Receivers -> [Payloads -> Seq(Update \cup {"payload"})]]
    BY DEF TypeOK
  <1>links. r_channel \subseteq Receivers /\ r_connected \subseteq Receivers
            /\ links \subseteq Receivers
    BY DEF TypeOK
  <1>0. LoopOffset'
    BY <1>u DEF LoopOffset, sendVars, loopVars
  <1>1. CASE RReceive(r)
    <2> DEFINE f == Head(wire[r])
    <2>1. f \in Data \cup Control /\ Tail(wire[r]) \in Seq(Data \cup Control)
      BY <1>1, <1>wire DEF RReceive
    <2>2. f.p \in Payloads /\ (f.type = "data" => f \in Data)
          /\ (f.type # "data" => f.type \in {"canceled", "error"})
      BY <2>1, FrameShape
    <2>3. wire' \in [Receivers -> Seq(Data \cup Control)]
      BY <1>1, <1>wire, <2>1 DEF RReceive
    <2>4. CASE f.type # "data"
      <3>1. RControl(r, f)
        BY <1>1, <2>4 DEF RReceive
      <3>2. r_frame' \in [Receivers -> Data \cup Control \cup Line \cup {NoFrame}]
        BY <1>frame, <2>1, <3>1 DEF RControl
      <3> QED
        BY <1>0, <1>1, <1>u, <1>wire, <1>back, <1>sets, <1>got, <1>frame, <1>queue, <1>told,
           <1>links, <2>3, <3>1, <3>2, ReceiverType DEF RReceive, RControl
    <2>5. CASE f.type = "data"
      <3>1. RData(r, f)
        BY <1>1, <2>5 DEF RReceive
      <3>2. r_queue' \in [Receivers -> Seq(ReceiverJob)]
        BY <1>queue, <2>2, <3>1, ReceiverJobTypes, PostType DEF RData, RStart
      <3>3. r_got' \in [Receivers -> [Payloads -> Seq(1 .. Size)]]
        <4>1. <<>> \in Seq(1 .. Size)
          OBVIOUS
        <4>2. r_got' = r_got \/ r_got' = [r_got EXCEPT ![r][f.p] = <<>>]
          BY <3>1 DEF RData, RStart
        <4>3. [r_got EXCEPT ![r][f.p] = <<>>] \in [Receivers -> [Payloads -> Seq(1 .. Size)]]
          BY <1>got, <2>2, <4>1, ExceptType, Zenon
        <4> QED
          BY <1>got, <4>2, <4>3
      <3>4. /\ r_tracked' \in [Receivers -> SUBSET Payloads]
            /\ r_endpoint' \in [Receivers -> SUBSET Payloads]
            /\ r_canceled' \in [Receivers -> SUBSET Payloads]
            /\ r_closed' \in [Receivers -> SUBSET Payloads]
            /\ r_frame' \in [Receivers -> Data \cup Control \cup Line \cup {NoFrame}]
        <4>1. CASE RStart(r, f)
          BY <1>sets, <1>frame, <2>2, <2>5, <4>1 DEF RStart
        <4>2. CASE ~RStart(r, f)
          BY <1>sets, <1>frame, <2>2, <2>5, <3>1, <4>2 DEF RData
        <4> QED
          BY <4>1, <4>2
      <3>5. UNCHANGED <<links, back, r_channel, r_connected, r_told, r_ended, r_freed>>
        BY <1>1 DEF RReceive
      <3> QED
        BY <1>0, <1>u, <1>wire, <1>back, <1>sets, <1>got, <1>frame, <1>queue, <1>told,
           <1>links, <2>3, <3>2, <3>3, <3>4, <3>5, ReceiverType
    <2> QED
      BY <2>4, <2>5
  <1>2. CASE RAttach(r)
    <2> DEFINE f == r_frame[r]
               p == f.p
    <2>1. f \in Data /\ p \in Payloads /\ f.offset \in 0 .. Size /\ f.chunk \in 0 .. Size
      <3>1. f \in Data
        BY <1>2, HeldShape DEF RAttach
      <3> QED
        BY <3>1, DataShape
    <2>a. \/ RGivesUp(r, p, "canceled", "canceled")
          \/ RGivesUp(r, p, "failure", "error")
          \/ /\ IF f.chunk = Last
                  THEN r_closed' = [r_closed EXCEPT ![r] = @ \cup {p}] /\ UNCHANGED r_got
                  ELSE r_got' = [r_got EXCEPT ![r][p] = Append(@, f.chunk)] /\ UNCHANGED r_closed
             /\ Post(r, [op |-> "chunk", p |-> p, chunk |-> f.chunk])
             /\ UNCHANGED <<back, r_ended>>
      BY <1>2 DEF RAttach
    <2>2. r_queue' \in [Receivers -> Seq(ReceiverJob)]
      <3>1. /\ [op |-> "finished", p |-> p, what |-> "canceled"] \in ReceiverJob
            /\ [op |-> "finished", p |-> p, what |-> "failure"] \in ReceiverJob
            /\ [op |-> "chunk", p |-> p, chunk |-> f.chunk] \in ReceiverJob
        BY <2>1, ReceiverJobTypes DEF Final
      <3> QED
        BY <1>queue, <2>a, <3>1, PostType DEF RGivesUp
    <2>3. r_got' \in [Receivers -> [Payloads -> Seq(1 .. Size)]]
      <3>1. f.chunk # Last => Append(r_got[r][p], f.chunk) \in Seq(1 .. Size)
        BY <1>got, <2>1, PayloadConstants DEF Last
      <3>2. r_got' = r_got \/ (f.chunk # Last /\ r_got' = [r_got EXCEPT ![r][p] = Append(@, f.chunk)])
        BY <2>a DEF RGivesUp
      <3>3. f.chunk # Last => [r_got EXCEPT ![r][p] = Append(r_got[r][p], f.chunk)]
                                \in [Receivers -> [Payloads -> Seq(1 .. Size)]]
        BY <1>got, <2>1, <3>1, ExceptType, Zenon
      <3> QED
        BY <1>got, <3>2, <3>3
    <2>4. /\ [type |-> "canceled", p |-> p] \in Control
          /\ [type |-> "error", p |-> p] \in Control
      BY <2>1 DEF Control
    <2>5. back' \in [Receivers -> Seq(Control)]
      <3>1. \/ back' = back
            \/ \E type \in {"canceled", "error"} :
                 back' = [back EXCEPT ![r] = Append(@, [type |-> type, p |-> p])]
        BY <2>a DEF RGivesUp, Answer
      <3> QED
        <4>1. \A type \in {"canceled", "error"} :
                Append(back[r], [type |-> type, p |-> p]) \in Seq(Control)
          BY <1>back, <2>4
        <4> QED
          BY <1>back, <3>1, <4>1
    <2>6. /\ r_frame' \in [Receivers -> Data \cup Control \cup Line \cup {NoFrame}]
          /\ r_freed' \subseteq Receivers \X Payloads \X {"data", "canceled", "error", "line"}
      BY <1>2, <1>sets, <1>frame, <2>1, DataShape DEF RAttach, RUses
    <2>8. /\ r_closed' \in [Receivers -> SUBSET Payloads]
          /\ r_ended' \in [Receivers -> SUBSET Payloads]
      <3>1. r_closed' = r_closed \/ r_closed' = [r_closed EXCEPT ![r] = @ \cup {p}]
        BY <2>a DEF RGivesUp
      <3>2. r_ended' = r_ended \/ r_ended' = [r_ended EXCEPT ![r] = @ \cup ({p} \cap r_tracked[r])]
        BY <2>a DEF RGivesUp
      <3> QED
        BY <1>sets, <2>1, <3>1, <3>2
    <2>7. UNCHANGED <<links, wire, r_channel, r_connected, r_tracked, r_endpoint,
                      r_canceled, r_told>>
      BY <1>2 DEF RAttach
    <2> QED
      BY <1>0, <1>u, <1>wire, <1>back, <1>sets, <1>got, <1>frame, <1>queue, <1>told,
         <1>links, <2>2, <2>3, <2>5, <2>6, <2>7, <2>8, ReceiverType
  <1>7. CASE ROnControl(r)
    <2> DEFINE f == r_frame[r]
    <2>1. f.p \in Payloads /\ f.type \in {"canceled", "error"}
      BY <1>7, HeldShape DEF ROnControl
    <2>2. RemoteEnd(f.type) \in Final
      BY DEF RemoteEnd, Final
    <2>3. r_queue' \in [Receivers -> Seq(ReceiverJob)]
      BY <1>7, <1>queue, <2>1, <2>2, ReceiverJobTypes, PostType DEF ROnControl
    <2>4. r_frame' \in [Receivers -> Data \cup Control \cup Line \cup {NoFrame}]
      BY <1>7, <1>frame, <2>1 DEF ROnControl, Line
    <2>5. r_freed' \subseteq Receivers \X Payloads \X {"data", "canceled", "error", "line"}
      BY <1>7, <1>sets, <2>1 DEF ROnControl, RUses
    <2> QED
      BY <1>0, <1>7, <1>u, <1>wire, <1>back, <1>sets, <1>got, <1>told, <1>links,
         <2>3, <2>4, <2>5, ReceiverType DEF ROnControl, wireVars
  <1>8. CASE RLogs(r)
    <2>1. r_frame[r].p \in Payloads
      BY <1>8, HeldShape DEF RLogs
    <2>2. r_frame' \in [Receivers -> Data \cup Control \cup Line \cup {NoFrame}]
      BY <1>8, <1>frame DEF RLogs
    <2>3. r_freed' \subseteq Receivers \X Payloads \X {"data", "canceled", "error", "line"}
      BY <1>8, <1>sets, <2>1 DEF RLogs, RUses
    <2> QED
      BY <1>0, <1>8, <1>u, <1>wire, <1>back, <1>sets, <1>got, <1>queue, <1>told, <1>links,
         <2>2, <2>3, ReceiverType DEF RLogs, wireVars
  <1>3. CASE RStatusThread(r)
    <2> DEFINE job == Head(r_queue[r])
    <2>1. job \in ReceiverJob /\ Tail(r_queue[r]) \in Seq(ReceiverJob)
      BY <1>3, <1>queue DEF RStatusThread
    <2>2. r_told' \in [Receivers -> [Payloads -> Seq(Update \cup {"payload"})]]
      BY <1>3, <1>told, <2>1, ReceiverJobShape, RTellType
         DEF RStatusThread, RFinishedJob, RDisconnectJob, Update, Final
    <2>3. r_queue' \in [Receivers -> Seq(ReceiverJob)]
      BY <1>3, <1>queue, <2>1 DEF RStatusThread
    <2>4. /\ r_tracked' \in [Receivers -> SUBSET Payloads]
          /\ r_endpoint' \in [Receivers -> SUBSET Payloads]
          /\ r_closed' \in [Receivers -> SUBSET Payloads]
      <3>1. \/ UNCHANGED <<r_tracked, r_endpoint, r_closed>>
            \/ RFinishedJob(r, job) \/ RDisconnectJob(r)
        BY <1>3 DEF RStatusThread
      <3>2. CASE UNCHANGED <<r_tracked, r_endpoint, r_closed>>
        BY <1>sets, <3>2
      <3>3. CASE RFinishedJob(r, job)
        BY <1>sets, <3>3 DEF RFinishedJob
      <3>4. CASE RDisconnectJob(r)
        BY <1>sets, <3>4 DEF RDisconnectJob
      <3> QED
        BY <3>1, <3>2, <3>3, <3>4
    <2> QED
      <3>1. UNCHANGED <<wireVars, r_channel, r_connected, r_canceled, r_got, r_frame, r_ended,
                        r_freed>>
        BY <1>3 DEF RStatusThread
      <3> QED
        BY <1>0, <1>u, <1>wire, <1>back, <1>sets, <1>got, <1>frame, <1>queue, <1>told,
           <1>links, <2>2, <2>3, <2>4, <3>1, ReceiverType DEF wireVars
  <1>4. CASE RRemoveEndpoint(r)
    <2>1. r_queue' \in [Receivers -> Seq(ReceiverJob)]
      BY <1>4, <1>queue, ReceiverJobTypes, PostType DEF RRemoveEndpoint
    <2>2. wire' \in [Receivers -> Seq(Data \cup Control)]
      BY <1>4, <1>wire DEF RRemoveEndpoint
    <2> QED
      BY <1>0, <1>4, <1>u, <1>wire, <1>back, <1>sets, <1>got, <1>frame, <1>queue, <1>told,
         <1>links, <2>1, <2>2, ReceiverType DEF RRemoveEndpoint
  <1>5. CASE ROnDisconnected(r)
    BY <1>0, <1>5, <1>u, <1>wire, <1>back, <1>sets, <1>got, <1>frame, <1>queue, <1>told,
       <1>links, ReceiverType DEF ROnDisconnected, wireVars
  <1>6. ASSUME NEW p \in Payloads, RCancelPayload(r, p) PROVE TypeOK'
    <2>1. r_canceled' \in [Receivers -> SUBSET Payloads]
      BY <1>6, <1>sets DEF RCancelPayload
    <2>2. UNCHANGED <<wireVars, r_channel, r_connected, r_tracked, r_endpoint,
                      r_closed, r_got, r_frame, r_queue, r_told, r_ended, r_freed>>
      BY <1>6 DEF RCancelPayload
    <2> QED
      BY <1>u, <1>wire, <1>back, <1>sets, <1>got, <1>frame, <1>queue, <1>told, <1>links,
         <2>1,
         <2>2, ReceiverType DEF wireVars
  <1> QED
    BY <1>0, <1>1, <1>2, <1>3, <1>4, <1>5, <1>6, <1>7, <1>8

----------------------------------------------------------------------------
(* Type correctness *)

\* The types are kept by every step ...
LEMMA TypesStep ==
  ASSUME TypeOK, LoopOffset, [Next]_vars
  PROVE  TypeOK' /\ LoopOffset'
  <1>1. CASE UNCHANGED vars
    BY <1>1 DEF TypeOK, LoopOffset, vars, sendVars, wireVars, recvVars, loopVars, trackVars,
                shutVars
  <1>2. CASE Next
    BY <1>2, EasyTypes, LoopTypes, StatusTypes, ReceiverTypes DEF Next
  <1> QED
    BY <1>1, <1>2

\* ... and hold at the start.
LEMMA TypesInit ==
  ASSUME Init
  PROVE  TypeOK /\ LoopOffset
  <1> USE DEF Init
  <1>1. LoopOffset
    BY DEF LoopOffset
  <1>2. <<>> \in Seq(Payloads) /\ <<>> \in Seq(SenderJob) /\ <<>> \in Seq(Update)
        /\ <<>> \in Seq(Control) /\ <<>> \in Seq(Data \cup Control)
        /\ <<>> \in Seq(1 .. Size) /\ <<>> \in Seq(ReceiverJob)
        /\ <<>> \in Seq(Update \cup {"payload"})
    OBVIOUS
  <1>3. 0 \in 0 .. Size
    BY PayloadConstants
  <1>4. /\ told \in [Payloads -> [Receivers -> Seq(Update)]]
        /\ status \in [Payloads -> [Receivers -> Statuses \cup {"none"}]]
        /\ r_got \in [Receivers -> [Payloads -> Seq(1 .. Size)]]
        /\ r_told \in [Receivers -> [Payloads -> Seq(Update \cup {"payload"})]]
    BY <1>2
  <1>5. TypeOK
    BY <1>2, <1>3, <1>4 DEF TypeOK
  <1> QED
    BY <1>1, <1>5

\* Every variable of PayloadManager's model keeps its type: offsets and chunks
\* stay within the file although frames carry the loop's offset less the one to
\* resume from (CreatePayloadChunk), and the shutdown barrier never goes below 0.
THEOREM TypeCorrect == Spec => []TypeOK
  <1>1. Init => TypeOK /\ LoopOffset
    BY TypesInit
  <1>2. TypeOK /\ LoopOffset /\ [Next]_vars => (TypeOK /\ LoopOffset)'
    BY TypesStep
  <1> QED
    BY <1>1, <1>2, PTL DEF Spec

----------------------------------------------------------------------------
(* The client hears the end of a transfer once *)

\* Nothing has ended for an endpoint that is tracked, or for a payload not sent yet.
NotTold(p, r) ==
  pending[p] = "unsent" \/ Tracks(p, r) => ~Ends(told[p][r])

\* A log in which nothing follows the end of the transfer.
EndsLast(log) == \A i, j \in DOMAIN log : log[i] \in Final => j <= i

\* What makes OutgoingEndsOnce inductive: the client is told only while the
\* endpoint is tracked, and the job that reports an end removes the endpoint in the
\* same step.
ToldInv(p, r) == NotTold(p, r) /\ EndsLast(told[p][r])

\* An update to a log that has not ended.
LEMMA ReportedEnds ==
  ASSUME NEW S, NEW log \in Seq(S), NEW u \in S, ~Ends(log)
  PROVE  /\ EndsLast(Reported(log, u))
         /\ u \notin Final => ~Ends(Reported(log, u))
  BY DEF Ends, EndsLast, Reported

\* A client is told about p and r only while r is tracked for p.
LEMMA TellKeeps ==
  ASSUME TypeOK, NEW p \in Payloads, NEW r \in Receivers, ToldInv(p, r),
         NEW update \in Update,
         told'[p][r] = Reported(told[p][r], update),
         Tracks(p, r),
         pending' = pending,
         status'[p][r] = "none" \/ update \notin Final
  PROVE  ToldInv(p, r)'
  <1>1. told[p][r] \in Seq(Update) /\ ~Ends(told[p][r]) /\ pending[p] = "tracked"
    BY DEF TypeOK, ToldInv, NotTold, Tracks
  <1>2. /\ EndsLast(Reported(told[p][r], update))
        /\ update \notin Final => ~Ends(Reported(told[p][r], update))
    BY <1>1, ReportedEnds
  <1> QED
    BY <1>1, <1>2 DEF ToldInv, NotTold, Tracks

\* ToldInv is kept by every step: only the jobs of the status thread report, and
\* only they, a control message and the destructor change what is tracked.
LEMMA ToldStep ==
  ASSUME TypeOK, Next, NEW p \in Payloads, NEW r \in Receivers, ToldInv(p, r)
  PROVE  ToldInv(p, r)'
  <1> DEFINE job == Head(status_queue)
  <1>t. /\ status \in [Payloads -> [Receivers -> Statuses \cup {"none"}]]
        /\ told \in [Payloads -> [Receivers -> Seq(Update)]]
        /\ pending \in [Payloads -> {"unsent", "tracked", "gone"}]
    BY DEF TypeOK
  <1>0. CASE UNCHANGED <<pending, status, told>>
    BY <1>0 DEF ToldInv, NotTold, Tracks
  <1>1. ASSUME NEW q \in Payloads, NEW to \in SUBSET Receivers, SendPayload(q, to)
        PROVE  ToldInv(p, r)'
    BY <1>1, <1>t DEF SendPayload, ToldInv, NotTold, Tracks
  <1>2. ASSUME NEW q \in Receivers, ReceiveControl(q) PROVE ToldInv(p, r)'
    <2>1. Head(back[q]) \in Control
      BY <1>2 DEF TypeOK, ReceiveControl
    <2>2. /\ UNCHANGED <<pending, told>>
          /\ status[p][r] = "none" => status'[p][r] = "none"
      BY <1>2, <1>t, <2>1 DEF ReceiveControl, Tracks, Control
    <2> QED
      BY <2>2 DEF ToldInv, NotTold, Tracks
  <1>3. CASE CloseDown
    <2>1. /\ UNCHANGED <<status, told>>
          /\ pending'[p] = "unsent" => pending[p] = "unsent"
          /\ pending'[p] # "tracked"
      BY <1>3, <1>t DEF CloseDown
    <2> QED
      BY <2>1 DEF ToldInv, NotTold, Tracks
  <1>4. CASE StatusThread
    <2>j. job \in SenderJob
      BY <1>4 DEF StatusThread, TypeOK
    <2>s. \A q \in Payloads : pending'[q] = pending[q] \/ pending'[q] = "gone"
      BY <1>4, <1>t DEF StatusThread, DestroyJob
    <2>0. CASE told'[p][r] = told[p][r] /\ (status'[p][r] = status[p][r] \/ status'[p][r] = "none")
      BY <2>0, <2>s DEF ToldInv, NotTold, Tracks
    <2>1. CASE job.op = "finished"
      <3>1. FinishedJob(job) /\ UNCHANGED pending /\ job.p \in Payloads /\ job.what \in Final
        BY <1>4, <2>1, <2>j, SenderJobShape DEF StatusThread
      <3>2. CASE p = job.p /\ pending[p] = "tracked" /\ r \in Noted(p, job.to) /\ r \in connected
        <4>1. told'[p][r] = Reported(told[p][r], job.what)
          BY <1>t, <3>1, <3>2 DEF FinishedJob, Tell
        <4>2. status'[p][r] = "none" /\ Tracks(p, r)
          BY <1>t, <3>1, <3>2 DEF FinishedJob, Untrack, Noted
        <4> QED
          BY <3>1, <4>1, <4>2, TellKeeps DEF Update
      <3>3. CASE ~(p = job.p /\ pending[p] = "tracked" /\ r \in Noted(p, job.to) /\ r \in connected)
        BY <1>t, <2>0, <3>1, <3>3 DEF FinishedJob, Tell, Untrack
      <3> QED
        BY <3>2, <3>3
    <2>2. CASE job.op = "sent"
      <3>1. SentJob(job) /\ UNCHANGED pending /\ job.p \in Payloads
        BY <1>4, <2>2, <2>j, SenderJobShape DEF StatusThread
      <3>2. CASE p = job.p /\ r \in Noted(p, job.to) /\ r \in connected
        <4>1. told'[p][r] = Reported(told[p][r], IF job.chunk = Last THEN "success" ELSE "progress")
          BY <1>t, <3>1, <3>2 DEF SentJob, Tell
        <4>2. Tracks(p, r) /\ (job.chunk = Last => status'[p][r] = "none")
          BY <1>t, <3>1, <3>2 DEF SentJob, Untrack, Noted
        <4> QED
          BY <3>1, <4>1, <4>2, TellKeeps DEF Update, Final
      <3>3. CASE ~(p = job.p /\ r \in Noted(p, job.to) /\ r \in connected)
        BY <1>t, <2>0, <3>1, <3>3 DEF SentJob, Tell, Untrack
      <3> QED
        BY <3>2, <3>3
    <2>3. CASE job.op \in {"destroy", "notify"}
      BY <1>4, <2>0, <2>3, <2>j, SenderJobShape DEF StatusThread, DestroyJob
    <2>4. CASE job.op = "disconnect"
      <3>1. DisconnectJob(job.from) /\ UNCHANGED pending /\ job.from \in Receivers
        BY <1>4, <2>4, <2>j, SenderJobShape DEF StatusThread
      <3>2. CASE r = job.from /\ Tracks(p, r) /\ r \in connected
        <4>1. told'[p][r] = Reported(told[p][r], "failure") /\ status'[p][r] = "none"
          BY <1>t, <3>1, <3>2 DEF DisconnectJob
        <4> QED
          BY <3>1, <3>2, <4>1, TellKeeps DEF Update, Final
      <3>3. CASE ~(r = job.from /\ Tracks(p, r) /\ r \in connected)
        BY <1>t, <2>0, <3>1, <3>3 DEF DisconnectJob
      <3> QED
        BY <3>2, <3>3
    <2> QED
      BY <2>j, <2>1, <2>2, <2>3, <2>4, SenderJobShape
  <1> QED
    <2> USE <1>0 DEF sendVars, trackVars, loopVars
    <2>1. CASE StartLoop \/ LoopTop \/ Detach \/ WriteChunk \/ PostResults
      BY <2>1 DEF StartLoop, LoopTop, Detach, WriteChunk, PostResults
    <2>2. CASE \/ \E q \in Payloads : CancelPayload(q)
               \/ Stop \/ CancelAllPayloads \/ AwaitBarrier
      BY <2>2 DEF CancelPayload, Stop, CancelAllPayloads, AwaitBarrier
    <2>3. CASE \E q \in Receivers : RemoveEndpoint(q) \/ OnDisconnected(q) \/ Break(q)
      BY <2>3 DEF RemoveEndpoint, OnDisconnected, Break
    <2>4. CASE \E q \in Receivers :
                 \/ RReceive(q) \/ ROnControl(q) \/ RLogs(q) \/ RAttach(q) \/ RStatusThread(q) \/ RRemoveEndpoint(q)
                 \/ ROnDisconnected(q) \/ \E s \in Payloads : RCancelPayload(q, s)
      BY <2>4 DEF RReceive, ROnControl, RLogs, RAttach, RStatusThread, RRemoveEndpoint, ROnDisconnected,
                  RCancelPayload
    <2> QED
      BY <1>1, <1>2, <1>3, <1>4, <2>1, <2>2, <2>3, <2>4 DEF Next

\* ToldInv for every payload and endpoint.
ToldAll == \A p \in Payloads, r \in Receivers : ToldInv(p, r)

\* However the send loop, a disconnection, a control message and the last chunk
\* race, the status-update thread reports one end of a transfer for each endpoint
\* and nothing about it afterwards (SendClientCallbacksForFinishedOutgoingPayload,
\* HandleSuccessfulOutgoingChunk, OnEndpointDisconnect).
THEOREM OutgoingEndsOnceHolds == Spec => []OutgoingEndsOnce
  <1>1. Init => ToldAll
    BY DEF Init, ToldAll, ToldInv, NotTold, EndsLast, Ends, Tracks
  <1>2. TypeOK /\ ToldAll /\ [Next]_vars => ToldAll'
    <2> SUFFICES ASSUME TypeOK, ToldAll, [Next]_vars PROVE ToldAll'
      OBVIOUS
    <2>1. CASE UNCHANGED vars
      BY <2>1 DEF ToldAll, ToldInv, NotTold, EndsLast, Ends, Tracks, vars, sendVars,
         trackVars
    <2>2. CASE Next
      BY <2>2, ToldStep DEF ToldAll
    <2> QED
      BY <2>1, <2>2
  <1>3. ToldAll => OutgoingEndsOnce
    BY DEF ToldAll, ToldInv, EndsLast, OutgoingEndsOnce
  <1> QED
    BY <1>1, <1>2, <1>3, TypeCorrect, PTL DEF Spec

----------------------------------------------------------------------------
(* The sender's invariant *)

\* The send loop of p waits for the executor.
Queued(p) == \E i \in DOMAIN file_queue : file_queue[i] = p

\* The send loop of p is running.
Running(p) == loop # Idle /\ loop.p = p

\* No chunk of p has been sent.
NotBegun(p) == pending[p] = "unsent" \/ Queued(p)

\* The send loop of p has ended.
Over(p) == ~NotBegun(p) /\ ~Running(p)

\* A frame to r would arrive on its connection.
Live(r) == r \in channels /\ r \in links

\* The next chunk of the running loop is for r.
Recipient(r) ==
  IF loop.at = "top" THEN status[loop.p][r] = "available" ELSE r \in loop.to

\* The running loop of p is still going to reach r.
Reaches(p, r) == Running(p) /\ Recipient(r) /\ Live(r)

\* A payload has one send loop: it is queued once, and not while it runs; its file
\* is read from the start.
OneLoop ==
  /\ \A i, j \in DOMAIN file_queue : file_queue[i] = file_queue[j] => i = j
  /\ \A i \in DOMAIN file_queue : pending[file_queue[i]] # "unsent"
  /\ loop # Idle => ~NotBegun(loop.p)
  /\ \A p \in Payloads : NotBegun(p) => position[p] = 0

\* The running loop, seen from an endpoint it still reaches: the chunk at hand is
\* the next of the file, and an empty chunk is the end of the file, unless the
\* sender was starved.
LoopReaches(r) ==
  loop # Idle =>
    /\ loop.at # "top" /\ status[loop.p][r] = "available" => r \in loop.to
    /\ loop.at = "post" /\ r \in loop.failed => ~Live(r)
    /\ Live(r) /\ Recipient(r) =>
         /\ status[loop.p][r] # "none"
         /\ loop.at = "top" /\ loop.offset # position[loop.p]
              => loop.offset = 0 /\ ResumeOffset > 0
         /\ loop.at = "detach" => loop.offset = position[loop.p]
         /\ loop.at \in {"write", "post"} =>
              /\ loop.chunk # Last => loop.chunk = loop.offset + 1 /\ loop.chunk = position[loop.p]
              /\ loop.chunk = Last => loop.p \in starved \/ loop.offset = Size

\* A file is closed before its loop has ended only if no endpoint is left for it,
\* or in the destructor.
ClosedIsNone(p) ==
  p \in closed /\ shutdown = "no" /\ ~Over(p) =>
    pending[p] # "unsent" /\ \A r \in Receivers : status[p][r] = "none"

\* What a job that waits for the status thread says of its payload: an endpoint
\* that is finished is not reached any more, the last chunk was sent by a loop
\* that has ended, and an endpoint that disconnected has lost its channel.
JobInv(job) ==
  /\ job.op = "finished" =>
       /\ ~NotBegun(job.p)
       /\ \A r \in job.to : ~Reaches(job.p, r)
  /\ job.op = "sent" => ~NotBegun(job.p) /\ (job.chunk = Last => Over(job.p))
  /\ job.op = "destroy" => Over(job.p)
  /\ job.op = "disconnect" => job.from \notin channels

\* The elements of a sequence.
Elems(q) == {q[i] : i \in DOMAIN q}

\* JobInv for every job that waits.
JobsInv == \A job \in Elems(status_queue) : JobInv(job)

\* The inductive invariant of the sender.
SenderInv ==
  /\ OneLoop
  /\ \A r \in Receivers : LoopReaches(r)
  /\ \A p \in Payloads : ClosedIsNone(p)
  /\ JobsInv

\* The elements of a sequence over S are in S.
LEMMA ElemsType ==
  ASSUME NEW S, NEW s \in Seq(S)
  PROVE  Elems(s) \subseteq S
  BY DEF Elems

\* The elements of two sequences, one after the other.
LEMMA ElemsConcat ==
  ASSUME NEW S, NEW s \in Seq(S), NEW t \in Seq(S)
  PROVE  Elems(s \o t) = Elems(s) \cup Elems(t)
  <1>1. Elems(s \o t) \subseteq Elems(s) \cup Elems(t)
    BY DEF Elems
  <1>2. \A i \in DOMAIN s : i \in DOMAIN (s \o t) /\ (s \o t)[i] = s[i]
    OBVIOUS
  <1>3. \A i \in DOMAIN t : i + Len(s) \in DOMAIN (s \o t) /\ (s \o t)[i + Len(s)] = t[i]
    OBVIOUS
  <1>4. Elems(s) \subseteq Elems(s \o t)
    BY <1>2 DEF Elems
  <1>5. Elems(t) \subseteq Elems(s \o t)
    BY <1>3 DEF Elems
  <1> QED
    BY <1>1, <1>4, <1>5

\* The elements of a sequence that grew.
LEMMA ElemsAppend ==
  ASSUME NEW S, NEW s \in Seq(S), NEW x \in S
  PROVE  Elems(Append(s, x)) = Elems(s) \cup {x}
  <1>1. Elems(Append(s, x)) \subseteq Elems(s) \cup {x}
    BY DEF Elems
  <1>2. \A i \in DOMAIN s : i \in DOMAIN Append(s, x) /\ Append(s, x)[i] = s[i]
    OBVIOUS
  <1>3. Len(s) + 1 \in DOMAIN Append(s, x) /\ Append(s, x)[Len(s) + 1] = x
    OBVIOUS
  <1> QED
    BY <1>1, <1>2, <1>3 DEF Elems

\* The element of a sequence of one.
LEMMA ElemsOne ==
  ASSUME NEW x
  PROVE  Elems(<<x>>) = {x}
  BY DEF Elems

\* The elements of what is left when the first is taken.
LEMMA ElemsTail ==
  ASSUME NEW S, NEW s \in Seq(S), s # <<>>
  PROVE  Head(s) \in Elems(s) /\ Elems(Tail(s)) \subseteq Elems(s)
  <1>1. 1 \in DOMAIN s /\ Head(s) = s[1]
    OBVIOUS
  <1>2. \A i \in DOMAIN Tail(s) : i + 1 \in DOMAIN s /\ Tail(s)[i] = s[i + 1]
    OBVIOUS
  <1> QED
    BY <1>1, <1>2 DEF Elems

\* What is over, or has begun, stays so, and a loop reaches no new endpoint.
Onwards ==
  /\ \A p \in Payloads : ~NotBegun(p) => ~NotBegun(p)'
  /\ \A p \in Payloads : Over(p) => Over(p)'
  /\ \A p \in Payloads, r \in Receivers : ~NotBegun(p) /\ Reaches(p, r)' => Reaches(p, r)
  /\ channels' \subseteq channels

\* What a waiting job says of its payload stays true when the sender goes on.
LEMMA JobsKept ==
  ASSUME Onwards, NEW job \in SenderJob, JobInv(job)
  PROVE  JobInv(job)'
  BY SenderJobShape DEF Onwards, JobInv

\* A step that leaves the loops alone.
QuietStep ==
  /\ UNCHANGED <<loopVars, starved>>
  /\ \A p \in Payloads : pending'[p] = "unsent" <=> pending[p] = "unsent"
  /\ channels' \subseteq channels /\ links' \subseteq links
  /\ \A p \in Payloads, r \in Receivers :
       /\ status'[p][r] = "available" => status[p][r] = "available"
       /\ Reaches(p, r) /\ status[p][r] # "none" => status'[p][r] # "none"

\* A quiet step keeps all that SenderInv says of the loops.
LEMMA QuietKeeps ==
  ASSUME TypeOK, SenderInv, QuietStep
  PROVE  /\ Onwards /\ OneLoop' /\ \A r \in Receivers : LoopReaches(r)'
         /\ \A p \in Payloads : Over(p)' <=> Over(p)
  <1>t. /\ loop \in Loop \cup {Idle} /\ file_queue \in Seq(Payloads)
    BY DEF TypeOK
  <1>u. UNCHANGED <<file_queue, loop, position, starved>>
    BY DEF QuietStep, loopVars
  <1>1. \A p \in Payloads : NotBegun(p)' <=> NotBegun(p)
    BY <1>u DEF QuietStep, NotBegun, Queued
  <1>2. \A p \in Payloads : Over(p)' <=> Over(p)
    BY <1>u, <1>1 DEF Over, Running
  <1>3. \A p \in Payloads, r \in Receivers : Reaches(p, r)' => Reaches(p, r)
    BY <1>u, <1>t, LoopShape DEF QuietStep, Reaches, Recipient, Running, Live
  <1>4. Onwards
    BY <1>1, <1>2, <1>3 DEF Onwards, QuietStep
  <1>5. OneLoop'
    BY <1>u, <1>t, <1>1, LoopShape DEF SenderInv, OneLoop, QuietStep
  <1>6. ASSUME NEW r \in Receivers PROVE LoopReaches(r)'
    <2> SUFFICES ASSUME loop # Idle PROVE LoopReaches(r)'
      BY <1>u DEF LoopReaches
    <2>1. LoopReaches(r) /\ loop.p \in Payloads
      BY <1>t, LoopShape DEF SenderInv
    <2>2. Live(r)' => Live(r)
      BY DEF QuietStep, Live
    <2>3. /\ status'[loop.p][r] = "available" => status[loop.p][r] = "available"
          /\ Live(r)' /\ Recipient(r)' => Live(r) /\ Recipient(r)
          /\ Live(r)' /\ Recipient(r)' => status'[loop.p][r] # "none"
      <3>1. Live(r)' /\ Recipient(r)' => Live(r) /\ Recipient(r)
        BY <1>u, <1>3, <2>1 DEF Reaches, Running
      <3>2. Live(r)' /\ Recipient(r)' => status[loop.p][r] # "none"
        BY <2>1, <3>1 DEF LoopReaches
      <3> QED
        BY <2>1, <3>1, <3>2 DEF QuietStep, Reaches, Running
    <2> QED
      BY <1>u, <2>1, <2>2, <2>3 DEF LoopReaches
  <1> QED
    BY <1>2, <1>4, <1>5, <1>6

----------------------------------------------------------------------------
(* Steps that leave the loops alone *)

\* SenderInv after a quiet step that closes no file and posts no job.
LEMMA QuietDone ==
  ASSUME TypeOK, SenderInv, QuietStep, UNCHANGED <<closed, status_queue>>,
         shutdown' = "no" => shutdown = "no",
         \A p \in Payloads, r \in Receivers : status[p][r] = "none" => status'[p][r] = "none"
  PROVE  SenderInv'
  <1>1. /\ Onwards /\ OneLoop' /\ \A r \in Receivers : LoopReaches(r)'
        /\ \A p \in Payloads : Over(p)' <=> Over(p)
    BY QuietKeeps
  <1>2. \A p \in Payloads : ClosedIsNone(p)'
    BY <1>1 DEF ClosedIsNone, SenderInv, QuietStep
  <1>3. JobsInv'
    BY <1>1, JobsKept, ElemsType DEF JobsInv, SenderInv, TypeOK
  <1> QED
    BY <1>1, <1>2, <1>3 DEF SenderInv

\* The status thread is quiet: what it removes or closes was finished before, as
\* its jobs say.
LEMMA StatusThreadKeeps ==
  ASSUME TypeOK, SenderInv, StatusThread
  PROVE  SenderInv' /\ QuietStep
  <1> DEFINE job == Head(status_queue)
  <1>t. /\ status \in [Payloads -> [Receivers -> Statuses \cup {"none"}]]
        /\ pending \in [Payloads -> {"unsent", "tracked", "gone"}]
        /\ status_queue \in Seq(SenderJob) /\ closed \subseteq Payloads
    BY DEF TypeOK
  <1>j. job \in SenderJob /\ JobInv(job)
    BY <1>t, ElemsTail, ElemsType DEF StatusThread, SenderInv, JobsInv
  <1>o. job.op \in {"finished", "sent", "destroy", "notify", "disconnect"}
    BY <1>j, SenderJobShape
  <1>u. UNCHANGED <<loopVars, shutdown, starved, channels, links>>
    BY DEF StatusThread, wireVars
  <1>p. \A p \in Payloads : pending'[p] = "unsent" <=> pending[p] = "unsent"
    <2>1. CASE job.op = "destroy"
      <3>1. job.p \in Payloads /\ Over(job.p) /\ DestroyJob(job)
        BY <1>j, <2>1, SenderJobShape DEF StatusThread, JobInv
      <3> QED
        BY <1>t, <3>1 DEF DestroyJob, Over, NotBegun
    <2>2. CASE job.op # "destroy"
      BY <2>2 DEF StatusThread
    <2> QED
      BY <2>1, <2>2
  <1>1. /\ \A p \in Payloads, r \in Receivers :
             /\ status'[p][r] = status[p][r] \/ status'[p][r] = "none"
             /\ Reaches(p, r) => status'[p][r] = status[p][r]
        /\ \A p \in Payloads : p \in closed' \ closed /\ ~Over(p) =>
             /\ ~NotBegun(p) \/ pending[p] # "unsent"
             /\ \A r \in Receivers : status'[p][r] = "none"
    <2>1. CASE job.op = "finished"
      <3>1. FinishedJob(job) /\ job.p \in Payloads /\ job.to \in SUBSET Receivers
            /\ ~NotBegun(job.p) /\ \A r \in job.to : ~Reaches(job.p, r)
        BY <1>j, <2>1, SenderJobShape DEF StatusThread, JobInv
      <3>2. CASE pending[job.p] = "tracked"
        BY <1>t, <3>1, <3>2 DEF FinishedJob, Untrack
      <3>3. CASE pending[job.p] # "tracked"
        BY <1>t, <3>1, <3>3 DEF FinishedJob
      <3> QED
        BY <3>2, <3>3
    <2>2. CASE job.op = "sent"
      <3>1. SentJob(job) /\ job.p \in Payloads /\ job.to \in SUBSET Receivers
            /\ (job.chunk = Last => Over(job.p))
        BY <1>j, <2>2, SenderJobShape DEF StatusThread, JobInv
      <3>2. CASE job.chunk = Last /\ Noted(job.p, job.to) # {}
        <4>1. \A r \in Receivers : ~Reaches(job.p, r)
          BY <3>1, <3>2 DEF Over, Reaches
        <4> QED
          BY <1>t, <3>1, <3>2, <4>1 DEF SentJob, Untrack
      <3>3. CASE ~(job.chunk = Last /\ Noted(job.p, job.to) # {})
        BY <1>t, <3>1, <3>3 DEF SentJob
      <3> QED
        BY <3>2, <3>3
    <2>3. CASE job.op = "destroy"
      <3>1. job.p \in Payloads /\ Over(job.p) /\ DestroyJob(job)
        BY <1>j, <2>3, SenderJobShape DEF StatusThread, JobInv
      <3> QED
        BY <1>t, <3>1 DEF DestroyJob
    <2>4. CASE job.op = "notify"
      BY <1>t, <2>4 DEF StatusThread
    <2>5. CASE job.op = "disconnect"
      <3>1. DisconnectJob(job.from) /\ job.from \in Receivers /\ job.from \notin channels
        BY <1>j, <2>5, SenderJobShape DEF StatusThread, JobInv
      <3>2. \A p \in Payloads, r \in Receivers :
              status'[p][r] = IF r = job.from /\ Tracks(p, r) THEN "none" ELSE status[p][r]
        BY <1>t, <3>1 DEF DisconnectJob
      <3>3. \A p \in Payloads : p \in closed' \ closed =>
              pending[p] # "unsent" /\ \A r \in Receivers : status'[p][r] = "none"
        BY <1>t, <3>1, <3>2 DEF DisconnectJob, Tracks
      <3> QED
        BY <3>1, <3>2, <3>3 DEF Reaches, Live
    <2> QED
      BY <1>o, <2>1, <2>2, <2>3, <2>4, <2>5
  <1>2. QuietStep
    BY <1>t, <1>u, <1>p, <1>1 DEF QuietStep
  <1>3. /\ Onwards /\ OneLoop' /\ \A r \in Receivers : LoopReaches(r)'
        /\ \A p \in Payloads : Over(p)' <=> Over(p)
    BY <1>2, QuietKeeps
  <1>4. \A p \in Payloads : ClosedIsNone(p)'
    BY <1>u, <1>p, <1>1, <1>3 DEF ClosedIsNone, SenderInv, NotBegun
  <1>5. JobsInv'
    <2>1. \/ status_queue' = Tail(status_queue)
          \/ status_queue' = <<[op |-> "notify"]>> \o Tail(status_queue)
      BY DEF StatusThread
    <2>2. Tail(status_queue) \in Seq(SenderJob) /\ status_queue # <<>>
          /\ <<[op |-> "notify"]>> \in Seq(SenderJob)
      BY <1>t, JobTypes DEF StatusThread
    <2>3. Elems(status_queue') \subseteq Elems(status_queue) \cup {[op |-> "notify"]}
      <3>1. Elems(<<[op |-> "notify"]>>) = {[op |-> "notify"]}
        BY DEF Elems
      <3>2. Elems(<<[op |-> "notify"]>> \o Tail(status_queue))
              = Elems(<<[op |-> "notify"]>>) \cup Elems(Tail(status_queue))
        BY <2>2, ElemsConcat
      <3> QED
        BY <1>t, <2>1, <2>2, <3>1, <3>2, ElemsTail
    <2>4. JobInv([op |-> "notify"])'
      BY DEF JobInv
    <2>5. \A j \in Elems(status_queue) : j \in SenderJob /\ JobInv(j)
      BY <1>t, ElemsType DEF SenderInv, JobsInv
    <2> QED
      BY <1>3, <2>3, <2>4, <2>5, JobsKept DEF JobsInv
  <1> QED
    BY <1>2, <1>3, <1>4, <1>5 DEF SenderInv

\* The client's cancellation, the endpoint manager, the readers, the destructor and
\* the receivers leave the loops alone.
LEMMA OtherStepsKeep ==
  ASSUME TypeOK, SenderInv,
         \/ \E p \in Payloads : CancelPayload(p)
         \/ \E r \in Receivers : RemoveEndpoint(r) \/ OnDisconnected(r)
                                   \/ ReceiveControl(r) \/ Break(r)
         \/ Stop \/ CancelAllPayloads \/ AwaitBarrier \/ CloseDown
         \/ \E r \in Receivers :
              \/ RReceive(r) \/ ROnControl(r) \/ RLogs(r) \/ RAttach(r) \/ RStatusThread(r) \/ RRemoveEndpoint(r)
              \/ ROnDisconnected(r) \/ \E p \in Payloads : RCancelPayload(r, p)
  PROVE  SenderInv'
  <1>t. /\ status \in [Payloads -> [Receivers -> Statuses \cup {"none"}]]
        /\ pending \in [Payloads -> {"unsent", "tracked", "gone"}]
        /\ status_queue \in Seq(SenderJob)
    BY DEF TypeOK
  <1>0. ASSUME UNCHANGED <<loopVars, starved, pending, closed, status, status_queue>>,
               channels' \subseteq channels, links' \subseteq links,
               shutdown' = "no" => shutdown = "no"
        PROVE  SenderInv'
    BY <1>0, QuietDone DEF QuietStep
  <1>1. CASE \/ \E p \in Payloads : CancelPayload(p)
             \/ \E r \in Receivers : OnDisconnected(r) \/ Break(r)
             \/ Stop \/ AwaitBarrier
    BY <1>0, <1>1 DEF CancelPayload, OnDisconnected, Break, Stop, AwaitBarrier,
                      trackVars, shutVars, sendVars, wireVars
  <1>2. CASE \E r \in Receivers :
              \/ RReceive(r) \/ ROnControl(r) \/ RLogs(r) \/ RAttach(r) \/ RStatusThread(r) \/ RRemoveEndpoint(r)
              \/ ROnDisconnected(r) \/ \E p \in Payloads : RCancelPayload(r, p)
    <2>1. UNCHANGED sendVars /\ links' \subseteq links
      BY <1>2 DEF RReceive, ROnControl, RLogs, RAttach, RStatusThread, RRemoveEndpoint, ROnDisconnected,
                  RCancelPayload, wireVars
    <2> QED
      BY <1>0, <2>1 DEF sendVars, trackVars, shutVars
  <1>3. ASSUME NEW r \in Receivers, RemoveEndpoint(r) PROVE SenderInv'
    <2>1. QuietStep
      BY <1>3 DEF RemoveEndpoint, QuietStep, trackVars
    <2>2. /\ Onwards /\ OneLoop' /\ \A q \in Receivers : LoopReaches(q)'
          /\ \A p \in Payloads : Over(p)' <=> Over(p)
      BY <2>1, QuietKeeps
    <2>3. \A p \in Payloads : ClosedIsNone(p)'
      BY <1>3, <2>2 DEF RemoveEndpoint, ClosedIsNone, SenderInv, trackVars, shutVars
    <2>4. Elems(status_queue') \subseteq Elems(status_queue) \cup {[op |-> "disconnect", from |-> r]}
      <3>1. [op |-> "disconnect", from |-> r] \in SenderJob
        BY JobTypes
      <3>2. Elems(Append(status_queue, [op |-> "disconnect", from |-> r]))
              = Elems(status_queue) \cup {[op |-> "disconnect", from |-> r]}
        <4>1. \A x \in SenderJob :
                Elems(Append(status_queue, x)) = Elems(status_queue) \cup {x}
          BY <1>t, ElemsAppend
        <4> QED
          BY <3>1, <4>1
      <3> QED
        BY <1>3, <3>2 DEF RemoveEndpoint
    <2>5. JobInv([op |-> "disconnect", from |-> r])'
      BY <1>3 DEF JobInv, RemoveEndpoint
    <2>6. \A j \in Elems(status_queue) : j \in SenderJob /\ JobInv(j)
      BY <1>t, ElemsType DEF SenderInv, JobsInv
    <2>7. JobsInv'
      BY <2>2, <2>4, <2>5, <2>6, JobsKept DEF JobsInv
    <2> QED
      BY <2>2, <2>3, <2>7 DEF SenderInv
  <1>4. ASSUME NEW r \in Receivers, ReceiveControl(r) PROVE SenderInv'
    <2>1. Head(back[r]) \in Control
      BY <1>4 DEF TypeOK, ReceiveControl
    <2>2. Head(back[r]).type \in {"canceled", "error"}
      BY <2>1 DEF Control
    <2>3. \A p \in Payloads, q \in Receivers :
            \/ status'[p][q] = status[p][q]
            \/ status'[p][q] \in {"canceled", "error"} /\ status[p][q] # "none"
      BY <1>4, <1>t, <2>2 DEF ReceiveControl, Tracks
    <2>4. QuietStep
      BY <1>4, <2>3 DEF QuietStep, ReceiveControl
    <2> QED
      BY <1>4, <2>3, <2>4, QuietDone DEF ReceiveControl, shutVars
  <1>5. CASE CancelAllPayloads
    <2>1. QuietStep
      BY <1>5 DEF CancelAllPayloads, QuietStep, wireVars
    <2>2. /\ Onwards /\ OneLoop' /\ \A q \in Receivers : LoopReaches(q)'
      BY <2>1, QuietKeeps
    <2>3. \A p \in Payloads : ClosedIsNone(p)'
      BY <1>5 DEF CancelAllPayloads, ClosedIsNone
    <2>4. JobsInv'
      BY <1>5, <1>t, <2>2, JobsKept, ElemsType DEF CancelAllPayloads, JobsInv, SenderInv
    <2> QED
      BY <2>2, <2>3, <2>4 DEF SenderInv
  <1>6. CASE CloseDown
    <2>1. QuietStep
      BY <1>6, <1>t DEF CloseDown, QuietStep, wireVars
    <2> QED
      BY <1>6, <2>1, QuietDone DEF CloseDown
  <1> QED
    BY <1>1, <1>2, <1>3, <1>4, <1>5, <1>6

----------------------------------------------------------------------------
(* Steps of the loops *)

\* A payload is queued once.
LEMMA SendPayloadKeeps ==
  ASSUME TypeOK, SenderInv, NEW p \in Payloads, NEW to \in SUBSET Receivers,
         SendPayload(p, to)
  PROVE  SenderInv'
  <1>t. /\ status \in [Payloads -> [Receivers -> Statuses \cup {"none"}]]
        /\ pending \in [Payloads -> {"unsent", "tracked", "gone"}]
        /\ file_queue \in Seq(Payloads) /\ loop \in Loop \cup {Idle}
        /\ status_queue \in Seq(SenderJob)
    BY DEF TypeOK
  <1>u. UNCHANGED <<loop, position, closed, shutdown, status_queue, channels, links, starved>>
    BY DEF SendPayload, shutVars, wireVars
  <1>q. pending[p] = "unsent" /\ shutdown = "no" /\ file_queue' = Append(file_queue, p)
        /\ pending'[p] = "tracked"
        /\ \A q \in Payloads : q # p => pending'[q] = pending[q] /\ status'[q] = status[q]
    BY <1>t DEF SendPayload
  <1>1. \A q \in Payloads : Queued(q)' <=> Queued(q) \/ q = p
    <2>1. \A i \in DOMAIN file_queue : i \in DOMAIN file_queue' /\ file_queue'[i] = file_queue[i]
      BY <1>t, <1>q
    <2>2. Len(file_queue) + 1 \in DOMAIN file_queue' /\ file_queue'[Len(file_queue) + 1] = p
      BY <1>t, <1>q
    <2>3. \A i \in DOMAIN file_queue' : i \in DOMAIN file_queue \/ file_queue'[i] = p
      BY <1>t, <1>q
    <2> QED
      BY <2>1, <2>2, <2>3 DEF Queued
  <1>2. \A q \in Payloads : NotBegun(q)' <=> NotBegun(q)
    BY <1>q, <1>1 DEF NotBegun
  <1>3. ~Running(p) /\ \A q \in Payloads : Running(q)' <=> Running(q)
    BY <1>u, <1>q DEF Running, SenderInv, OneLoop, NotBegun
  <1>4. \A q \in Payloads : Over(q)' <=> Over(q)
    BY <1>2, <1>3 DEF Over
  <1>5. \A q \in Payloads, r \in Receivers : Reaches(q, r)' => Reaches(q, r)
    BY <1>u, <1>q, <1>3 DEF Reaches, Running, Recipient, Live
  <1>6. Onwards
    BY <1>u, <1>2, <1>4, <1>5 DEF Onwards
  <1>7. OneLoop'
    <2>1. ~Queued(p)
      BY <1>q DEF SenderInv, OneLoop, Queued
    <2>2. \A i \in DOMAIN file_queue' :
            \/ i \in DOMAIN file_queue /\ file_queue'[i] = file_queue[i]
            \/ i = Len(file_queue) + 1 /\ file_queue'[i] = p
      BY <1>t, <1>q
    <2>3. \A i, j \in DOMAIN file_queue' : file_queue'[i] = file_queue'[j] => i = j
      BY <2>1, <2>2 DEF SenderInv, OneLoop, Queued
    <2>4. \A i \in DOMAIN file_queue' : pending'[file_queue'[i]] # "unsent"
      <3>1. \A i \in DOMAIN file_queue : file_queue[i] \in Payloads
        BY <1>t
      <3> QED
        BY <1>q, <2>2, <3>1 DEF SenderInv, OneLoop
    <2>5. loop # Idle => ~NotBegun(loop.p)'
      BY <1>t, <1>u, <1>2, LoopShape DEF SenderInv, OneLoop
    <2> QED
      BY <1>u, <1>2, <2>3, <2>4, <2>5 DEF SenderInv, OneLoop
  <1>8. ASSUME NEW r \in Receivers PROVE LoopReaches(r)'
    <2>1. loop # Idle => loop.p # p /\ loop.p \in Payloads
      BY <1>3, <1>t, LoopShape DEF Running
    <2>2. loop # Idle => status'[loop.p] = status[loop.p]
      BY <1>q, <2>1
    <2> QED
      BY <1>u, <2>2 DEF LoopReaches, SenderInv, Live, Recipient
  <1>9. ASSUME NEW q \in Payloads PROVE ClosedIsNone(q)'
    <2>1. ClosedIsNone(q)
      BY DEF SenderInv
    <2>2. p \notin closed
      BY <1>q DEF SenderInv, ClosedIsNone, Over, NotBegun
    <2> QED
      BY <1>u, <1>q, <1>4, <2>1, <2>2 DEF ClosedIsNone
  <1>10. JobsInv'
    BY <1>t, <1>u, <1>6, JobsKept, ElemsType DEF JobsInv, SenderInv
  <1> QED
    BY <1>7, <1>8, <1>9, <1>10 DEF SenderInv

\* The executor takes up the next loop, or drops it.
LEMMA StartLoopKeeps ==
  ASSUME TypeOK, SenderInv, StartLoop
  PROVE  SenderInv'
  <1> DEFINE p == Head(file_queue)
  <1>t. /\ status \in [Payloads -> [Receivers -> Statuses \cup {"none"}]]
        /\ file_queue \in Seq(Payloads) /\ loop \in Loop \cup {Idle}
        /\ position \in [Payloads -> 0 .. Size]
        /\ status_queue \in Seq(SenderJob)
    BY DEF TypeOK
  <1>u. UNCHANGED <<position, pending, status, closed, shutdown, status_queue, channels, links,
                    starved>>
    BY DEF StartLoop, trackVars, shutVars, wireVars
  <1>q. /\ loop = Idle /\ file_queue # <<>> /\ file_queue' = Tail(file_queue)
        /\ p \in Payloads /\ Queued(p) /\ pending[p] # "unsent" /\ position[p] = 0
    <2>1. loop = Idle /\ file_queue # <<>> /\ file_queue' = Tail(file_queue)
      BY DEF StartLoop
    <2>2. p \in Payloads /\ 1 \in DOMAIN file_queue /\ file_queue[1] = p
      BY <1>t, <2>1
    <2> QED
      BY <2>1, <2>2 DEF Queued, SenderInv, OneLoop, NotBegun
  <1>1. /\ \A i \in DOMAIN file_queue' : i + 1 \in DOMAIN file_queue
                                         /\ file_queue'[i] = file_queue[i + 1]
        /\ \A i \in DOMAIN file_queue : i = 1 \/ (i - 1 \in DOMAIN file_queue'
                                         /\ file_queue'[i - 1] = file_queue[i])
        /\ 1 \in DOMAIN file_queue /\ file_queue[1] = p
        /\ DOMAIN file_queue \subseteq Nat /\ DOMAIN file_queue' \subseteq Nat \ {0}
    BY <1>t, <1>q
  <1>2. \A q \in Payloads : Queued(q)' <=> Queued(q) /\ q # p
    <2>1. \A q \in Payloads : Queued(q)' => Queued(q) /\ q # p
      BY <1>1 DEF Queued, SenderInv, OneLoop
    <2>2. \A q \in Payloads : Queued(q) /\ q # p => Queued(q)'
      BY <1>1 DEF Queued
    <2> QED
      BY <2>1, <2>2
  <1>3. \A q \in Payloads : NotBegun(q)' <=> NotBegun(q) /\ q # p
    BY <1>u, <1>q, <1>2 DEF NotBegun
  <1>4. CASE shutdown # "no"
    <2>1. loop' = Idle
      BY <1>4 DEF StartLoop
    <2>2. \A q \in Payloads : Over(q) => Over(q)'
      BY <1>3, <2>1 DEF Over, Running
    <2>3. Onwards
      BY <1>u, <1>3, <2>1, <2>2 DEF Onwards, Reaches, Running
    <2>4. OneLoop'
      <3>1. \A i, j \in DOMAIN file_queue' : file_queue'[i] = file_queue'[j] => i = j
        BY <1>1 DEF SenderInv, OneLoop
      <3> QED
        BY <1>u, <1>1, <1>3, <2>1, <3>1 DEF SenderInv, OneLoop
    <2>5. JobsInv'
      BY <1>t, <1>u, <2>3, JobsKept, ElemsType DEF JobsInv, SenderInv
    <2> QED
      BY <1>4, <1>u, <2>1, <2>4, <2>5 DEF SenderInv, LoopReaches, ClosedIsNone
  <1>5. CASE shutdown = "no"
    <2>1. loop' = [at |-> "top", p |-> p, offset |-> 0] /\ loop' # Idle
      BY <1>5 DEF StartLoop, Idle
    <2>2. \A q \in Payloads : Over(q)' <=> Over(q)
      BY <1>q, <1>3, <2>1 DEF Over, Running, NotBegun
    <2>3. Onwards
      BY <1>u, <1>q, <1>3, <2>1, <2>2 DEF Onwards, Reaches, Running, NotBegun
    <2>4. OneLoop'
      <3>1. \A i, j \in DOMAIN file_queue' : file_queue'[i] = file_queue'[j] => i = j
        BY <1>1 DEF SenderInv, OneLoop
      <3> QED
        BY <1>u, <1>q, <1>1, <1>3, <2>1, <3>1 DEF SenderInv, OneLoop
    <2>5. JobsInv'
      BY <1>t, <1>u, <2>3, JobsKept, ElemsType DEF JobsInv, SenderInv
    <2>6. \A r \in Receivers : LoopReaches(r)'
      BY <1>u, <1>q, <2>1 DEF LoopReaches, Recipient
    <2>7. \A q \in Payloads : ClosedIsNone(q)'
      BY <1>u, <2>2 DEF SenderInv, ClosedIsNone
    <2> QED
      BY <2>4, <2>5, <2>6, <2>7 DEF SenderInv
  <1> QED
    BY <1>4, <1>5

\* The jobs for the endpoints that ended the transfer are about those endpoints.
LEMMA EndedRemotelyJobs ==
  ASSUME NEW p \in Payloads, NEW j \in Elems(EndedRemotely(p))
  PROVE  j.op = "finished" /\ j.p = p /\ \A r \in j.to : status[p][r] # "available"
  <1> DEFINE ended(s) == {r \in Receivers : status[p][r] = s}
             jobs(s) == IF ended(s) = {} THEN <<>> ELSE <<Finished(p, ended(s), RemoteEnd(s))>>
  <1>1. EndedRemotely(p) = jobs("canceled") \o jobs("error")
    BY DEF EndedRemotely
  <1>2. ASSUME NEW s \in {"canceled", "error"}
        PROVE  /\ jobs(s) \in Seq(SenderJob)
               /\ Elems(jobs(s)) \subseteq {Finished(p, ended(s), RemoteEnd(s))}
    <2>1. Finished(p, ended(s), RemoteEnd(s)) \in SenderJob
      BY JobTypes DEF RemoteEnd, Final
    <2>2. Elems(<<Finished(p, ended(s), RemoteEnd(s))>>) = {Finished(p, ended(s), RemoteEnd(s))}
      BY ElemsOne
    <2>3. Elems(<<>>) = {} /\ <<>> \in Seq(SenderJob)
      BY DEF Elems
    <2>4. <<Finished(p, ended(s), RemoteEnd(s))>> \in Seq(SenderJob)
      BY <2>1
    <2>5. CASE ended(s) = {}
      BY <2>3, <2>5
    <2>6. CASE ended(s) # {}
      BY <2>2, <2>4, <2>6
    <2> QED
      BY <2>5, <2>6
  <1>3. Elems(EndedRemotely(p)) = Elems(jobs("canceled")) \cup Elems(jobs("error"))
    <2>1. jobs("canceled") \in Seq(SenderJob) /\ jobs("error") \in Seq(SenderJob)
      BY <1>2
    <2> HIDE DEF jobs
    <2> QED
      BY <1>1, <2>1, ElemsConcat
  <1>4. PICK s \in {"canceled", "error"} : j = Finished(p, ended(s), RemoteEnd(s))
    BY <1>2, <1>3
  <1> QED
    BY <1>4 DEF Finished

\* The loop ends: its jobs are about its payload, which is over.
LEMMA EndLoopKeepsInv ==
  ASSUME TypeOK, SenderInv, loop # Idle, NEW jobs \in Seq(SenderJob), EndLoop(jobs),
         \A j \in Elems(jobs) : j.op \in {"finished", "sent"} /\ j.p = loop.p,
         UNCHANGED <<file_queue, pending, status, closed, shutdown, channels, links>>,
         \A q \in Payloads : q # loop.p => position'[q] = position[q]
  PROVE  SenderInv'
  <1>t. loop.p \in Payloads /\ status_queue \in Seq(SenderJob)
    BY LoopShape DEF TypeOK
  <1>1. /\ loop' = Idle
        /\ status_queue' = status_queue \o jobs \o <<Destroy(loop.p)>>
    BY DEF EndLoop
  <1>2. \A q \in Payloads : NotBegun(q)' <=> NotBegun(q)
    BY DEF NotBegun, Queued
  <1>3. ~NotBegun(loop.p)
    BY DEF SenderInv, OneLoop
  <1>4. \A q \in Payloads : Over(q)' <=> Over(q) \/ q = loop.p
    BY <1>1, <1>2, <1>3 DEF Over, Running
  <1>5. Onwards
    BY <1>1, <1>2, <1>4 DEF Onwards, Reaches, Running
  <1>6. OneLoop'
    BY <1>1, <1>2, <1>3 DEF SenderInv, OneLoop
  <1>7. \A r \in Receivers : LoopReaches(r)'
    BY <1>1 DEF LoopReaches
  <1>8. \A q \in Payloads : ClosedIsNone(q)'
    BY <1>4 DEF ClosedIsNone, SenderInv
  <1>9. JobsInv'
    <2>1. Destroy(loop.p) \in SenderJob /\ <<Destroy(loop.p)>> \in Seq(SenderJob)
      BY <1>t, JobTypes
    <2>2. status_queue \o jobs \in Seq(SenderJob)
      BY <1>t
    <2>3. Elems(status_queue') = Elems(status_queue \o jobs) \cup Elems(<<Destroy(loop.p)>>)
      <3>1. PICK s \in Seq(SenderJob) : s = status_queue \o jobs
        BY <2>2
      <3>2. PICK t \in Seq(SenderJob) : t = <<Destroy(loop.p)>>
        BY <2>1
      <3>3. Elems(s \o t) = Elems(s) \cup Elems(t)
        BY ElemsConcat
      <3>4. status_queue' = s \o t
        BY <1>1, <3>1, <3>2
      <3> QED
        BY <3>1, <3>2, <3>3, <3>4
    <2>4. Elems(status_queue \o jobs) = Elems(status_queue) \cup Elems(jobs)
      BY <1>t, ElemsConcat
    <2>5. Elems(<<Destroy(loop.p)>>) = {Destroy(loop.p)}
      BY ElemsOne
    <2>6. \A j \in Elems(status_queue) : JobInv(j)'
      BY <1>t, <1>5, JobsKept, ElemsType DEF JobsInv, SenderInv
    <2>7. PICK p \in Payloads : p = loop.p
      BY <1>t
    <2>8. ASSUME NEW j \in Elems(jobs) PROVE JobInv(j)'
      <3>1. j.op \in {"finished", "sent"} /\ j.p \in Payloads /\ ~NotBegun(j.p)' /\ Over(j.p)'
        BY <1>t, <1>2, <1>3, <1>4
      <3> QED
        BY <1>1, <3>1 DEF JobInv, Reaches, Running
    <2>9. JobInv(Destroy(p))'
      BY <1>4, <2>7 DEF JobInv, Destroy
    <2> QED
      BY <2>3, <2>4, <2>5, <2>6, <2>7, <2>8, <2>9 DEF JobsInv
  <1> QED
    BY <1>6, <1>7, <1>8, <1>9 DEF SenderInv

\* The loop goes on: its jobs finish only endpoints that it does not reach now.
LEMMA LoopMovesInv ==
  ASSUME TypeOK, SenderInv, loop # Idle, loop' # Idle, loop'.p = loop.p,
         UNCHANGED <<file_queue, pending, status, closed, shutdown, channels, links>>,
         \A q \in Payloads : q # loop.p => position'[q] = position[q],
         \A r \in Receivers : Live(r) /\ Recipient(r)' => Recipient(r),
         \A r \in Receivers : LoopReaches(r)',
         NEW jobs \in Seq(SenderJob), status_queue' = status_queue \o jobs,
         \A j \in Elems(jobs) :
           /\ j.p = loop.p
           /\ \/ j.op = "finished" /\ \A r \in j.to : Live(r) => ~Recipient(r)'
              \/ j.op = "sent" /\ j.chunk # Last
  PROVE  SenderInv'
  <1>t. loop.p \in Payloads /\ status_queue \in Seq(SenderJob)
    BY LoopShape DEF TypeOK
  <1>2. \A q \in Payloads : NotBegun(q)' <=> NotBegun(q)
    BY DEF NotBegun, Queued
  <1>3. ~NotBegun(loop.p)
    BY DEF SenderInv, OneLoop
  <1>4. \A q \in Payloads : (Over(q)' <=> Over(q)) /\ (Running(q)' <=> Running(q))
    BY <1>2, <1>3 DEF Over, Running
  <1>5. Onwards
    BY <1>2, <1>4 DEF Onwards, Reaches, Live
  <1>6. OneLoop'
    BY <1>t, <1>2, <1>3 DEF SenderInv, OneLoop
  <1>8. \A q \in Payloads : ClosedIsNone(q)'
    BY <1>4 DEF ClosedIsNone, SenderInv
  <1>9. JobsInv'
    <2>1. Elems(status_queue') = Elems(status_queue) \cup Elems(jobs)
      BY <1>t, ElemsConcat
    <2>2. \A j \in Elems(status_queue) : JobInv(j)'
      BY <1>t, <1>5, JobsKept, ElemsType DEF JobsInv, SenderInv
    <2>3. ASSUME NEW j \in Elems(jobs) PROVE JobInv(j)'
      <3>1. j.p \in Payloads /\ ~NotBegun(j.p)'
        BY <1>t, <1>2, <1>3
      <3> QED
        BY <3>1 DEF JobInv, Reaches, Running, Live
    <2> QED
      BY <2>1, <2>2, <2>3 DEF JobsInv
  <1> QED
    BY <1>6, <1>8, <1>9 DEF SenderInv

\* The empty sequence has no element.
LEMMA ElemsEmpty == Elems(<<>>) = {}
  BY DEF Elems

\* The top of the loop.
LEMMA LoopTopKeeps ==
  ASSUME TypeOK, LoopOffset, SenderInv, LoopTop
  PROVE  SenderInv'
  <1> DEFINE p == loop.p
             to == Available(p)
             skips == loop.offset = 0 /\ ResumeOffset > 0
             ended == EndedRemotely(p)
  <1>t. /\ loop \in Loop \cup {Idle} /\ position \in [Payloads -> 0 .. Size]
        /\ status \in [Payloads -> [Receivers -> Statuses \cup {"none"}]]
    BY DEF TypeOK
  <1>1. loop # Idle /\ loop.at = "top" /\ p \in Payloads /\ loop.offset \in 0 .. Size
    BY <1>t, LoopShape DEF LoopTop, Idle
  <1>u. UNCHANGED <<file_queue, pending, status, closed, shutdown, channels, links, starved>>
    BY DEF LoopTop, trackVars, shutVars
  <1>2. ended \in Seq(SenderJob) /\ to \in SUBSET Receivers /\ <<>> \in Seq(SenderJob)
    BY <1>1, EndedRemotelyType DEF Available
  <1>3. \A j \in Elems(ended) :
          j.op = "finished" /\ j.p = p /\ \A r \in j.to : status[p][r] # "available"
    BY <1>1, EndedRemotelyJobs
  <1>4. CASE \E jobs \in {<<>>, ended} : EndLoop(jobs) /\ UNCHANGED position
    <2>1. PICK jobs \in {<<>>, ended} : EndLoop(jobs) /\ UNCHANGED position
      BY <1>4
    <2>2. /\ jobs \in Seq(SenderJob)
          /\ \A j \in Elems(jobs) : j.op \in {"finished", "sent"} /\ j.p = loop.p
      BY <1>2, <1>3, ElemsEmpty
    <2> QED
      BY <1>1, <1>u, <2>1, <2>2, EndLoopKeepsInv
  <1>5. CASE \E what \in {"canceled", "failure"} :
               EndLoop(ended \o <<Finished(p, to, what)>>) /\ UNCHANGED position
    <2>1. PICK what \in {"canceled", "failure"} :
               EndLoop(ended \o <<Finished(p, to, what)>>) /\ UNCHANGED position
      BY <1>5
    <2>2. Finished(p, to, what) \in SenderJob /\ <<Finished(p, to, what)>> \in Seq(SenderJob)
      BY <1>1, <1>2, JobTypes DEF Final
    <2>3. Elems(ended \o <<Finished(p, to, what)>>) = Elems(ended) \cup {Finished(p, to, what)}
      <3>1. Elems(ended \o <<Finished(p, to, what)>>)
              = Elems(ended) \cup Elems(<<Finished(p, to, what)>>)
        BY <1>2, <2>2, ElemsConcat
      <3> QED
        BY <3>1, ElemsOne
    <2>4. Finished(p, to, what).op = "finished" /\ Finished(p, to, what).p = p
      BY DEF Finished
    <2>5. /\ ended \o <<Finished(p, to, what)>> \in Seq(SenderJob)
          /\ \A j \in Elems(ended \o <<Finished(p, to, what)>>) :
               j.op \in {"finished", "sent"} /\ j.p = loop.p
      BY <1>2, <1>3, <2>2, <2>3, <2>4
    <2> QED
      BY <1>1, <1>u, <2>1, <2>5, EndLoopKeepsInv
  <1>6. CASE /\ position' = IF skips THEN [position EXCEPT ![p] = ResumeOffset] ELSE position
             /\ loop' = [at |-> "detach", p |-> p, to |-> to,
                         offset |-> IF skips THEN ResumeOffset ELSE loop.offset]
             /\ status_queue' = status_queue \o EndedRemotely(p)
    <2>1. loop' # Idle /\ loop'.p = p /\ loop'.at = "detach" /\ loop'.to = to
          /\ loop'.offset = IF skips THEN ResumeOffset ELSE loop.offset
      BY <1>6 DEF Idle
    <2>2. \A q \in Payloads : q # p => position'[q] = position[q]
      BY <1>t, <1>1, <1>6
    <2>3. \A r \in Receivers : Recipient(r)' => Recipient(r)
      BY <1>1, <2>1 DEF Recipient, Available
    <2>4. ASSUME NEW r \in Receivers PROVE LoopReaches(r)'
      <3>1. LoopReaches(r)
        BY DEF SenderInv
      <3>2. Live(r) /\ r \in to => skips \/ loop.offset = position[p]
        BY <1>1, <3>1 DEF LoopReaches, Recipient, Available
      <3>3. Live(r) /\ r \in to => loop'.offset = position'[p]
        BY <1>t, <1>1, <1>6, <2>1, <3>2
      <3> QED
        BY <1>u, <2>1, <3>3 DEF LoopReaches, Recipient, Available, Live
    <2>5. \A j \in Elems(ended) : j.p = p /\ j.op = "finished" /\ \A r \in j.to : ~Recipient(r)'
      BY <1>3, <2>1 DEF Recipient, Available
    <2> QED
      BY <1>1, <1>2, <1>6, <1>u, <2>1, <2>2, <2>3, <2>4, <2>5, LoopMovesInv
  <1> QED
    BY <1>4, <1>5, <1>6 DEF LoopTop

\* The next chunk is taken from the file, at the loop's offset.
LEMMA DetachKeeps ==
  ASSUME TypeOK, LoopOffset, SenderInv, Detach
  PROVE  SenderInv'
  <1> DEFINE p == loop.p
             chunk == NextChunk(p, ChunkSize(loop.to))
  <1>t. /\ loop \in Loop \cup {Idle} /\ position \in [Payloads -> 0 .. Size]
        /\ status_queue \in Seq(SenderJob)
    BY DEF TypeOK
  <1>1. loop # Idle /\ loop.at = "detach" /\ p \in Payloads /\ loop.offset \in 0 .. Size
    BY <1>t, LoopShape DEF Detach, Idle
  <1>u. UNCHANGED <<file_queue, pending, status, closed, shutdown, channels, links>>
    BY DEF Detach, trackVars, shutVars
  <1>2. <<>> \in Seq(SenderJob)
    OBVIOUS
  <1>3. \A q \in Payloads : q # p => position'[q] = position[q]
    BY <1>t DEF Detach
  <1>4. CASE shutdown # "no"
    <2>1. EndLoop(<<>>)
      BY <1>4 DEF Detach
    <2> QED
      BY <1>1, <1>u, <1>2, <1>3, <2>1, ElemsEmpty, EndLoopKeepsInv
  <1>5. CASE shutdown = "no"
    <2>1. ~TransferFailed(chunk, loop.offset)
      BY <1>1, PayloadConstants DEF TransferFailed
    <2>2. /\ loop' = [at |-> "write", p |-> p, offset |-> loop.offset,
                      to |-> loop.to, chunk |-> chunk]
          /\ UNCHANGED status_queue
      BY <1>5, <2>1 DEF Detach
    <2>3. loop' # Idle /\ loop'.p = p /\ loop'.at = "write" /\ loop'.to = loop.to
          /\ loop'.offset = loop.offset /\ loop'.chunk = chunk
      BY <2>2 DEF Idle
    <2>4. \A r \in Receivers : Recipient(r)' <=> Recipient(r)
      BY <1>1, <2>3 DEF Recipient
    <2>5. ASSUME NEW r \in Receivers PROVE LoopReaches(r)'
      <3>1. LoopReaches(r) /\ ClosedIsNone(p)
        BY <1>1 DEF SenderInv
      <3>2. status[p][r] = "available" => r \in loop.to
        BY <1>1, <3>1 DEF LoopReaches
      <3>3. ASSUME Live(r), r \in loop.to
            PROVE  /\ status[p][r] # "none"
                   /\ chunk # Last => chunk = loop.offset + 1 /\ chunk = position'[p]
                   /\ chunk = Last => p \in starved' \/ loop.offset = Size
        <4>1. status[p][r] # "none" /\ loop.offset = position[p]
          BY <1>1, <3>1, <3>3 DEF LoopReaches, Recipient
        <4>2. p \notin closed
          <5>1. ~Over(p)
            BY <1>1 DEF Over, Running
          <5> QED
            BY <1>5, <3>1, <4>1, <5>1 DEF ClosedIsNone
        <4>3. chunk = IF position[p] = Size \/ ChunkSize(loop.to) = 0 THEN Last ELSE position[p] + 1
          BY <4>2 DEF NextChunk
        <4>4. ChunkSize(loop.to) = 0 => p \in starved'
          BY DEF Detach
        <4>5. chunk # Last => position'[p] = chunk
          <5>1. chunk # Last => position' = [position EXCEPT ![p] = chunk]
            BY DEF Detach
          <5> HIDE DEF chunk
          <5> QED
            BY <1>t, <1>1, <5>1
        <4>6. chunk # Last => chunk = loop.offset + 1
          BY <4>1, <4>3
        <4>7. chunk = Last => p \in starved' \/ loop.offset = Size
          <5>1. position[p] + 1 # Last
            BY <1>t, <1>1, PayloadConstants DEF Last
          <5> QED
            BY <4>1, <4>3, <4>4, <5>1
        <4> HIDE DEF chunk
        <4> QED
          BY <4>1, <4>5, <4>6, <4>7
      <3> QED
        BY <1>u, <2>3, <3>2, <3>3 DEF LoopReaches, Recipient, Live
    <2>6. status_queue' = status_queue \o <<>>
      BY <1>t, <2>2
    <2> QED
      BY <1>1, <1>2, <1>u, <1>3, <2>3, <2>4, <2>5, <2>6, ElemsEmpty, LoopMovesInv
  <1> QED
    BY <1>4, <1>5

\* The chunk is written; the endpoints it did not reach are not live.
LEMMA WriteChunkKeeps ==
  ASSUME TypeOK, LoopOffset, SenderInv, WriteChunk
  PROVE  SenderInv'
  <1>t. loop \in Loop \cup {Idle} /\ status_queue \in Seq(SenderJob)
    BY DEF TypeOK
  <1>1. loop # Idle /\ loop.at = "write" /\ loop.p \in Payloads /\ loop.offset \in 0 .. Size
    BY <1>t, LoopShape DEF WriteChunk, Idle
  <1>u. UNCHANGED <<file_queue, position, pending, status, closed, shutdown, channels, links,
                    status_queue, starved>>
    BY DEF WriteChunk, trackVars, shutVars
  <1>2. /\ loop' # Idle /\ loop'.at = "post" /\ loop'.p = loop.p /\ loop'.offset = loop.offset
        /\ loop'.to = loop.to /\ loop'.chunk = loop.chunk
        /\ loop'.failed = loop.to \ Reachable(loop.to)
    BY DEF WriteChunk, Idle
  <1>3. \A r \in Receivers : Recipient(r)' <=> Recipient(r)
    BY <1>1, <1>2 DEF Recipient
  <1>4. ASSUME NEW r \in Receivers PROVE LoopReaches(r)'
    <2>1. LoopReaches(r)
      BY DEF SenderInv
    <2>2. r \in loop'.failed => ~Live(r)
      BY <1>2 DEF Reachable, Live
    <2> QED
      BY <1>1, <1>2, <1>u, <2>1, <2>2 DEF LoopReaches, Recipient, Live
  <1>5. status_queue' = status_queue \o <<>> /\ <<>> \in Seq(SenderJob)
    BY <1>t, <1>u
  <1> QED
    BY <1>1, <1>2, <1>u, <1>3, <1>4, <1>5, ElemsEmpty, LoopMovesInv

\* The results are posted.
LEMMA PostResultsKeeps ==
  ASSUME TypeOK, LoopOffset, SenderInv, PostResults
  PROVE  SenderInv'
  <1> DEFINE p == loop.p
             sent == loop.to \ loop.failed
             sentJob == [op |-> "sent", p |-> p, to |-> sent, chunk |-> loop.chunk]
             failedJobs == IF loop.failed = {} THEN <<>>
                           ELSE <<Finished(p, loop.failed, "failure")>>
             sentJobs == IF sent = {} THEN <<>> ELSE <<sentJob>>
             jobs == failedJobs \o sentJobs
  <1>t. /\ loop \in Loop \cup {Idle} /\ status_queue \in Seq(SenderJob)
    BY DEF TypeOK
  <1>1. loop # Idle /\ loop.at = "post" /\ p \in Payloads /\ loop.offset \in 0 .. Size
        /\ loop.to \in SUBSET Receivers /\ loop.chunk \in Chunk
        /\ loop.failed \in SUBSET Receivers
    BY <1>t, LoopShape DEF PostResults, Idle
  <1>u. UNCHANGED <<file_queue, position, pending, status, closed, shutdown, channels, links,
                    starved>>
    BY DEF PostResults, trackVars, shutVars, wireVars
  <1>2. /\ failedJobs \in Seq(SenderJob)
        /\ Elems(failedJobs) \subseteq {Finished(p, loop.failed, "failure")}
    <2>1. Finished(p, loop.failed, "failure") \in SenderJob
      BY <1>1, JobTypes DEF Final
    <2>2. <<Finished(p, loop.failed, "failure")>> \in Seq(SenderJob) /\ <<>> \in Seq(SenderJob)
      BY <2>1
    <2> QED
      BY <2>2, ElemsEmpty, ElemsOne
  <1>3. /\ sentJobs \in Seq(SenderJob)
        /\ Elems(sentJobs) \subseteq {sentJob}
    <2>1. sentJob \in SenderJob
      BY <1>1, JobTypes
    <2>2. <<sentJob>> \in Seq(SenderJob) /\ <<>> \in Seq(SenderJob)
      BY <2>1
    <2> QED
      BY <2>2, ElemsEmpty, ElemsOne
  <1>4. /\ jobs \in Seq(SenderJob)
        /\ Elems(jobs) \subseteq {Finished(p, loop.failed, "failure"), sentJob}
    <2> HIDE DEF failedJobs, sentJobs, sentJob
    <2> QED
      BY <1>2, <1>3, ElemsConcat
  <1>5. CASE sent # {} /\ loop.chunk = Last
    <2>1. EndLoop(jobs)
      BY <1>5 DEF PostResults
    <2>2. \A j \in Elems(jobs) : j.op \in {"finished", "sent"} /\ j.p = loop.p
      BY <1>4 DEF Finished
    <2> QED
      BY <1>1, <1>u, <1>4, <2>1, <2>2, EndLoopKeepsInv
  <1>6. CASE ~(sent # {} /\ loop.chunk = Last)
    <2>1. /\ loop' = [at |-> "top", p |-> p,
                      offset |-> IF sent = {} THEN loop.offset ELSE loop.offset + 1]
          /\ status_queue' = status_queue \o jobs
      BY <1>6 DEF PostResults
    <2>2. /\ loop' # Idle /\ loop'.at = "top" /\ loop'.p = p
          /\ loop'.offset = IF sent = {} THEN loop.offset ELSE loop.offset + 1
      BY <2>1 DEF Idle
    <2>3. ASSUME NEW r \in Receivers
          PROVE  /\ Recipient(r)' => Recipient(r)
                 /\ r \in loop.failed => ~Live(r)
                 /\ LoopReaches(r)'
      <3>1. LoopReaches(r)
        BY DEF SenderInv
      <3>2. Recipient(r)' => Recipient(r) /\ status[p][r] = "available"
        BY <1>1, <1>u, <2>2, <3>1 DEF Recipient, LoopReaches
      <3>3. r \in loop.failed => ~Live(r)
        BY <1>1, <3>1 DEF LoopReaches
      <3>4. Live(r) /\ Recipient(r)' => loop'.offset = position[p]
        <4> SUFFICES ASSUME Live(r), Recipient(r)' PROVE loop'.offset = position[p]
          OBVIOUS
        <4>1. r \in sent
          BY <1>1, <3>2, <3>3 DEF Recipient
        <4>2. loop.chunk # Last
          BY <1>6, <4>1
        <4> QED
          BY <1>1, <2>2, <3>1, <3>2, <4>1, <4>2 DEF LoopReaches
      <3> QED
        BY <1>u, <2>2, <3>2, <3>3, <3>4 DEF LoopReaches, Live
    <2>4. \A j \in Elems(jobs) :
           /\ j.p = loop.p
           /\ \/ j.op = "finished" /\ \A r \in j.to : Live(r) => ~Recipient(r)'
              \/ j.op = "sent" /\ j.chunk # Last
      <3>1. Finished(p, loop.failed, "failure").op = "finished"
            /\ Finished(p, loop.failed, "failure").p = p
            /\ Finished(p, loop.failed, "failure").to = loop.failed
        BY DEF Finished
      <3>2. \A j \in Elems(jobs) : j = sentJob => sent # {}
        <4>1. sent = {} => Elems(sentJobs) = {}
          BY ElemsEmpty
        <4>2. Finished(p, loop.failed, "failure") # sentJob
          BY <3>1
        <4>3. Elems(jobs) = Elems(failedJobs) \cup Elems(sentJobs)
          <5> HIDE DEF failedJobs, sentJobs
          <5> QED
            BY <1>2, <1>3, ElemsConcat
        <4> QED
          BY <1>2, <4>1, <4>2, <4>3
      <3>3. sent # {} => sentJob.op = "sent" /\ sentJob.p = p /\ sentJob.chunk # Last
        BY <1>6
      <3> QED
        BY <1>1, <1>4, <2>3, <3>1, <3>2, <3>3
    <2> QED
      BY <1>1, <1>4, <1>u, <2>1, <2>2, <2>3, <2>4, LoopMovesInv
  <1> QED
    BY <1>5, <1>6

----------------------------------------------------------------------------
(* SenderInv is an invariant *)

\* SenderInv is kept by every step ...
LEMMA SenderStep ==
  ASSUME TypeOK, LoopOffset, SenderInv, [Next]_vars
  PROVE  SenderInv'
  <1>1. CASE UNCHANGED vars
    <2>1. UNCHANGED <<file_queue, loop, position, pending, status, closed, shutdown,
                      status_queue, channels, starved, links>>
      BY <1>1 DEF vars, sendVars, loopVars, trackVars, shutVars, wireVars
    <2> QED
      BY <2>1 DEF SenderInv, OneLoop, LoopReaches, ClosedIsNone, JobsInv, JobInv, Elems,
                  Queued, Running, NotBegun, Over, Live, Recipient, Reaches
  <1>2. CASE \E p \in Payloads, to \in SUBSET Receivers \ {{}} : SendPayload(p, to)
    BY <1>2, SendPayloadKeeps
  <1>3. CASE StartLoop \/ LoopTop \/ Detach \/ WriteChunk \/ PostResults
    BY <1>3, StartLoopKeeps, LoopTopKeeps, DetachKeeps, WriteChunkKeeps, PostResultsKeeps
  <1>4. CASE StatusThread
    BY <1>4, StatusThreadKeeps
  <1>5. CASE \/ \E p \in Payloads : CancelPayload(p)
             \/ \E r \in Receivers : RemoveEndpoint(r) \/ OnDisconnected(r)
                                       \/ ReceiveControl(r) \/ Break(r)
             \/ Stop \/ CancelAllPayloads \/ AwaitBarrier \/ CloseDown
             \/ \E r \in Receivers :
                  \/ RReceive(r) \/ ROnControl(r) \/ RLogs(r) \/ RAttach(r) \/ RStatusThread(r) \/ RRemoveEndpoint(r)
                  \/ ROnDisconnected(r) \/ \E p \in Payloads : RCancelPayload(r, p)
    BY <1>5, OtherStepsKeep
  <1> QED
    BY <1>1, <1>2, <1>3, <1>4, <1>5 DEF Next

\* ... and holds at the start.
LEMMA SenderInit ==
  ASSUME Init
  PROVE  SenderInv
  <1> USE DEF Init
  <1>1. OneLoop
    BY DEF OneLoop, Queued, NotBegun
  <1>2. \A r \in Receivers : LoopReaches(r)
    BY DEF LoopReaches
  <1>3. \A p \in Payloads : ClosedIsNone(p)
    BY DEF ClosedIsNone
  <1>4. JobsInv
    BY DEF JobsInv, Elems
  <1> QED
    BY <1>1, <1>2, <1>3, <1>4 DEF SenderInv
============================================================================
