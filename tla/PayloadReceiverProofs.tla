----------------------- MODULE PayloadReceiverProofs -----------------------
(***************************************************************************)
(* The invariant of a receiver of PayloadTransfer, ReceiverInv, that the   *)
(* steps of the sender and those of the receiver keep it, and what follows.*)
(*                                                                         *)
(* What a loop of the sender sends comes behind all it has sent, and a     *)
(* receiver is told of the end of a payload by the last of its frames.     *)
(* From this follow the order of the updates the receiver's client hears,  *)
(* that a payload reported as received is whole, and when a payload may be *)
(* freed while the reader is using it.                                     *)
(***************************************************************************)
EXTENDS PayloadTransferProofs

----------------------------------------------------------------------------
(* The invariant of a receiver *)

\* The reader of r has looked p up and has its chunk, or a control message, in hand.
Holds(r, p) == r_frame[r].type \in {"data", "canceled", "error"} /\ r_frame[r].p = p

\* A job about p.
JobOf(j, p) == j.op # "disconnect" /\ j.p = p

\* A job that ends p: a failure, a cancellation or the last chunk.
EndJob(j, p) == JobOf(j, p) /\ (j.op = "finished" \/ (j.op = "chunk" /\ j.chunk = Last))

\* A chunk that is not the last.
Passing(f) == f.type = "data" /\ f.chunk # Last

\* No frame of p is on its way to r.
NoneOnWire(r, p) == \A i \in DOMAIN wire[r] : wire[r][i].p # p

\* The receiver knows nothing of p.
Fresh(r, p) ==
  /\ p \notin r_tracked[r] /\ p \notin r_ended[r] /\ ~Holds(r, p)
  /\ \A i \in DOMAIN r_queue[r] : ~JobOf(r_queue[r][i], p)
  /\ r_told[r][p] = <<>>

\* The receiver has the first n chunks of p, or one fewer and the next in hand, or
\* has given p up.
At(r, p, n) ==
  \/ p \in r_ended[r]
  \/ /\ p \in r_tracked[r]
     /\ \/ Holds(r, p) /\ r_frame[r].offset = n - 1 /\ Passing(r_frame[r])
        \/ ~Holds(r, p) /\ Len(r_got[r][p]) = n

\* n chunks are the whole file, unless the sender was starved.
Whole(p, n) == p \in starved \/ n = Size - ResumeOffset

\* A frame carries the chunk at its offset, and an empty chunk comes at the end of
\* the file.
ChunkInv(f) ==
  f.type = "data" =>
    /\ f.chunk # Last => f.chunk = f.offset + ResumeOffset + 1
    /\ f.chunk = Last => Whole(f.p, f.offset)

\* The frames on their way to a receiver: a first chunk finds nothing of its
\* payload, only a passing chunk is followed by frames of its payload, a later
\* chunk comes right behind the one before it, and one that is first on the wire
\* is the next for the receiver.
WireInv(r) ==
  LET w == wire[r] IN
  /\ \A i \in DOMAIN w : ChunkInv(w[i])
  /\ \A i \in DOMAIN w : w[i].type = "data" /\ w[i].offset = 0 => Fresh(r, w[i].p)
  /\ \A i, j \in DOMAIN w : i < j /\ w[i].p = w[j].p
       => Passing(w[i]) /\ (w[j].type = "data" => w[j].offset # 0)
  /\ \A i \in DOMAIN w : i # 1 /\ w[i].type = "data" /\ w[i].offset # 0 =>
       Passing(w[i - 1]) /\ w[i - 1].p = w[i].p /\ w[i - 1].offset = w[i].offset - 1
  /\ w # <<>> /\ w[1].type = "data" /\ w[1].offset # 0 => At(r, w[1].p, w[1].offset)

\* The payload of the frame in the reader's hands is tracked unless it was given
\* up; a chunk is the next of it, and the last chunk or a control message is the
\* last of its frames.
FrameInv(r) ==
  LET f == r_frame[r] IN
  /\ f.type = "data" =>
       /\ ChunkInv(f)
       /\ f.p \in r_ended[r] \/ (f.p \in r_tracked[r] /\ Len(r_got[r][f.p]) = f.offset)
       /\ f.chunk = Last => NoneOnWire(r, f.p)
  /\ f.type \in {"canceled", "error"} =>
       (f.p \in r_ended[r] \/ f.p \in r_tracked[r]) /\ NoneOnWire(r, f.p)

\* The reader has nothing in hand, or only the line to log.
EmptyHanded(r) == r_frame[r].type \in {"none", "line"}

\* More frames of p are to come for r.
Sending(r, p) ==
  /\ Live(r)
  /\ \/ NotBegun(p)
     \/ Running(p) /\ Recipient(r) /\ ~(loop.at = "post" /\ loop.chunk = Last)

\* The offset of the next data frame of p.
NextOffset(p) ==
  IF NotBegun(p) \/ (loop.at = "top" /\ loop.offset = 0) THEN 0
  ELSE IF loop.at = "post" THEN loop.offset - ResumeOffset + 1
  ELSE loop.offset - ResumeOffset

\* The frames of p up to the offset n are behind us: the last of them is the last
\* on the wire, or the receiver has it.
SentUpTo(r, p, n) ==
  /\ n = 0 => Fresh(r, p) /\ NoneOnWire(r, p)
  /\ n # 0 /\ wire[r] = <<>> => At(r, p, n)
  /\ n # 0 /\ wire[r] # <<>> =>
       LET f == wire[r][Len(wire[r])] IN Passing(f) /\ f.p = p /\ f.offset = n - 1

\* Nothing the receiver has, or is going to have, ends p.
Open(r, p) ==
  /\ \A i \in DOMAIN wire[r] : wire[r][i].p = p => Passing(wire[r][i])
  /\ Holds(r, p) => Passing(r_frame[r])
  /\ p \notin r_ended[r] => \A i \in DOMAIN r_queue[r] : ~EndJob(r_queue[r][i], p)
  /\ \A i \in DOMAIN r_told[r][p] : r_told[r][p][i] # "success"
  /\ r \in r_channel /\ p \in r_tracked[r] => ~Ends(r_told[r][p])

\* While more is to come, all before it was sent and p is open.
SendInv(r, p) == Sending(r, p) => SentUpTo(r, p, NextOffset(p)) /\ Open(r, p)

\* The jobs of the receiver about p: a job that ends p is the last about it; a
\* payload that was given up and is tracked is still to be finished; the client is
\* told of p before any other job about p, or a disconnection, is done.
QueueInv(r, p) ==
  LET q == r_queue[r] IN
  /\ \A i \in DOMAIN q : EndJob(q[i], p) /\ p \notin r_ended[r] =>
       /\ NoneOnWire(r, p) /\ ~Holds(r, p)
       /\ \A j \in DOMAIN q : JobOf(q[j], p) => j <= i
       /\ q[i].op = "chunk" => Whole(p, Len(r_got[r][p]))
  /\ p \in r_ended[r] /\ p \in r_tracked[r] =>
       \E k \in DOMAIN q : /\ q[k].op = "finished" /\ q[k].p = p
                           /\ \A i \in DOMAIN q : i < k => ~EndJob(q[i], p)
  /\ \A i \in DOMAIN q : q[i].op = "payload" /\ q[i].p = p =>
       /\ r_told[r][p] = <<>>
       /\ \A j \in DOMAIN q : j < i => q[j].op # "disconnect" /\ ~JobOf(q[j], p)
  /\ p \in r_tracked[r] /\ r \in r_connected /\ r_told[r][p] = <<>> =>
       \E k \in DOMAIN q : q[k].op = "payload" /\ q[k].p = p

\* What the receiver's client was told of p: first of the payload; nothing after
\* the end while the channel stands, and if the payload is then still tracked,
\* nothing more of it is on its way; and success only when the file is whole.
LogInv(r, p) ==
  LET log == r_told[r][p] IN
  /\ log # <<>> => log[1] = "payload"
  /\ r \in r_channel => EndsLast(log)
  /\ r \in r_channel /\ Ends(log) /\ p \in r_tracked[r] =>
       /\ p \notin r_ended[r] /\ NoneOnWire(r, p) /\ ~Holds(r, p)
       /\ \A i \in DOMAIN r_queue[r] : ~JobOf(r_queue[r][i], p)
  /\ (\E i \in DOMAIN log : log[i] = "success") =>
       NoneOnWire(r, p) /\ ~Holds(r, p) /\ Whole(p, Len(r_got[r][p]))

\* The chunks of the receiver's file are in order, unless it was given up.
GotInv(r, p) ==
  p \notin r_ended[r] => \A i \in DOMAIN r_got[r][p] : r_got[r][p][i] = ResumeOffset + i

\* The receiver's endpoint: payloads that have it are tracked, its disconnection
\* is posted after the channel went, failures are no successes, and without a
\* channel nothing arrives.
EndpointInv(r) ==
  /\ r_endpoint[r] \subseteq r_tracked[r]
  /\ \A i \in DOMAIN r_queue[r] : r_queue[r][i].op = "disconnect" => r \notin r_channel
  /\ \A i \in DOMAIN r_queue[r] : r_queue[r][i].op = "finished" => r_queue[r][i].what # "success"
  /\ r \notin r_channel => r \notin links /\ wire[r] = <<>>

\* All that is said of a receiver and a payload.
PayloadInv(r, p) == SendInv(r, p) /\ QueueInv(r, p) /\ LogInv(r, p) /\ GotInv(r, p)

\* The inductive invariant of a receiver.
ReceiverInv(r) ==
  /\ WireInv(r) /\ FrameInv(r) /\ EndpointInv(r)
  /\ \A p \in Payloads : PayloadInv(r, p)

\* Then it holds no payload, and nothing is said of its frame.
LEMMA EmptyHands ==
  ASSUME NEW r \in Receivers, EmptyHanded(r)
  PROVE  FrameInv(r) /\ \A p : ~Holds(r, p)
  BY DEF EmptyHanded, FrameInv, Holds

\* The same of the hands after a step.
LEMMA EmptyHandsAfter ==
  ASSUME NEW r \in Receivers, r_frame'[r].type \in {"none", "line"}
  PROVE  FrameInv(r)' /\ \A p : ~Holds(r, p)'
  BY DEF FrameInv, Holds

----------------------------------------------------------------------------
(* What a step of the sender may do to a receiver *)

\* A step that leaves the receiver r alone but for the frames on their way to it.
SameButWire(r) ==
  /\ r_tracked'[r] = r_tracked[r] /\ r_endpoint'[r] = r_endpoint[r]
  /\ r_ended'[r] = r_ended[r] /\ r_got'[r] = r_got[r] /\ r_frame'[r] = r_frame[r]
  /\ r_queue'[r] = r_queue[r] /\ r_told'[r] = r_told[r]
  /\ r \in r_channel' <=> r \in r_channel
  /\ r \in r_connected' => r \in r_connected
  /\ starved \subseteq starved' /\ links' \subseteq links

\* A step that neither sends to r nor is taken by r.
LEMMA NothingReceived ==
  ASSUME TypeOK, NEW r \in Receivers, ReceiverInv(r), SameButWire(r), wire'[r] = wire[r],
         \A p \in Payloads : Sending(r, p)' => Sending(r, p) /\ NextOffset(p)' = NextOffset(p)
  PROVE  ReceiverInv(r)'
  <1> USE DEF SameButWire
  <1>t. wire[r] \in Seq(Data \cup Control) /\ r_frame[r] \in Data \cup Control \cup Line \cup {NoFrame}
    BY DEF TypeOK
  <1>1. /\ \A p : Fresh(r, p)' <=> Fresh(r, p)
        /\ \A p, n : At(r, p, n)' <=> At(r, p, n)
        /\ \A p : Holds(r, p)' <=> Holds(r, p)
        /\ \A p : NoneOnWire(r, p)' <=> NoneOnWire(r, p)
        /\ \A p, n : Whole(p, n) => Whole(p, n)'
        /\ \A f : ChunkInv(f) => ChunkInv(f)'
    BY DEF Fresh, At, Holds, NoneOnWire, Whole, ChunkInv
  <1>2. WireInv(r)'
    BY <1>1 DEF ReceiverInv, WireInv
  <1>3. FrameInv(r)'
    BY <1>1 DEF ReceiverInv, FrameInv
  <1>4. EndpointInv(r)'
    BY DEF ReceiverInv, EndpointInv
  <1>5. ASSUME NEW p \in Payloads PROVE PayloadInv(r, p)'
    <2>1. PayloadInv(r, p)
      BY DEF ReceiverInv
    <2>2. \A n : SentUpTo(r, p, n)' <=> SentUpTo(r, p, n)
      BY <1>1 DEF SentUpTo
    <2>3. Open(r, p)' <=> Open(r, p)
      BY <1>1 DEF Open
    <2>4. SendInv(r, p)'
      BY <2>1, <2>2, <2>3 DEF PayloadInv, SendInv
    <2>5. QueueInv(r, p)'
      BY <1>1, <2>1 DEF PayloadInv, QueueInv
    <2>6. LogInv(r, p)'
      BY <1>1, <2>1 DEF PayloadInv, LogInv
    <2>7. GotInv(r, p)'
      BY <2>1 DEF PayloadInv, GotInv
    <2> QED
      BY <2>4, <2>5, <2>6, <2>7 DEF PayloadInv
  <1> QED
    BY <1>2, <1>3, <1>4, <1>5 DEF ReceiverInv

\* A frame of p is sent to r: it comes behind all that was sent of p.
LEMMA FrameSent ==
  ASSUME TypeOK, NEW r \in Receivers, ReceiverInv(r), SameButWire(r),
         NEW p \in Payloads, NEW f \in Data \cup Control, f.p = p,
         Sending(r, p), r \in r_channel,
         f.type = "data" => f.offset = NextOffset(p) /\ ChunkInv(f)',
         wire'[r] = Append(wire[r], f),
         Sending(r, p)' => Passing(f) /\ NextOffset(p)' = f.offset + 1,
         \A q \in Payloads \ {p} :
           Sending(r, q)' => Sending(r, q) /\ NextOffset(q)' = 0 /\ NextOffset(q) = 0
  PROVE  ReceiverInv(r)'
  <1> USE DEF SameButWire
  <1> DEFINE w == wire[r]
             n == NextOffset(p)
  <1>t. w \in Seq(Data \cup Control) /\ r_frame[r] \in Data \cup Control \cup Line \cup {NoFrame}
    BY DEF TypeOK
  <1>w. /\ wire'[r] # <<>> /\ Len(wire'[r]) = Len(w) + 1 /\ Len(w) \in Nat
        /\ DOMAIN wire'[r] = 1 .. Len(w) + 1 /\ DOMAIN w = 1 .. Len(w)
        /\ \A i \in 1 .. Len(w) : wire'[r][i] = w[i]
        /\ wire'[r][Len(w) + 1] = f
        /\ w = <<>> <=> Len(w) = 0
    BY <1>t
  <1>p. PICK w2 : w2 = wire'[r]
    OBVIOUS
  <1>1. /\ \A q : Fresh(r, q)' <=> Fresh(r, q)
        /\ \A q, m : At(r, q, m)' <=> At(r, q, m)
        /\ \A q : Holds(r, q)' <=> Holds(r, q)
        /\ \A q, m : Whole(q, m) => Whole(q, m)'
        /\ \A g : ChunkInv(g) => ChunkInv(g)'
    BY DEF Fresh, At, Holds, Whole, ChunkInv
  <1>2. SentUpTo(r, p, n) /\ Open(r, p)
    BY DEF ReceiverInv, PayloadInv, SendInv
  <1>3. \A q \in Payloads : q # p => (NoneOnWire(r, q)' <=> NoneOnWire(r, q))
    BY <1>w DEF NoneOnWire
  <1>4. WireInv(r)'
    <2>0. WireInv(r)
      BY DEF ReceiverInv
    <2>1. \A i \in DOMAIN w2 : ChunkInv(w2[i])'
      <3>1. ASSUME NEW i \in DOMAIN w2 PROVE ChunkInv(w2[i])'
        <4>1. CASE i \in DOMAIN w
          BY <1>p, <1>w, <1>1, <2>0, <4>1 DEF WireInv
        <4>2. CASE w2[i] = f
          BY <4>2 DEF ChunkInv
        <4> QED
          BY <1>p, <1>w, <4>1, <4>2
      <3> QED
        BY <3>1
    <2>2. \A i \in DOMAIN w2 :
            w2[i].type = "data" /\ w2[i].offset = 0 => Fresh(r, w2[i].p)'
      BY <1>p, <1>w, <1>1, <1>2, <2>0 DEF WireInv, SentUpTo
    <2>3. \A i, j \in DOMAIN w2 : i < j /\ w2[i].p = w2[j].p
            => Passing(w2[i]) /\ (w2[j].type = "data" => w2[j].offset # 0)
      <3>1. \A i \in 1 .. Len(w) : w[i].p = p => Passing(w[i])
                                        /\ (f.type = "data" => f.offset # 0)
        BY <1>p, <1>w, <1>2 DEF Open, SentUpTo, NoneOnWire
      <3>2. \A i, j \in 1 .. Len(w) : i < j /\ w[i].p = w[j].p
              => Passing(w[i]) /\ (w[j].type = "data" => w[j].offset # 0)
        BY <1>p, <1>w, <2>0 DEF WireInv
      <3> QED
        BY <1>p, <1>w, <3>1, <3>2
    <2>4. \A i \in DOMAIN w2 :
            i # 1 /\ w2[i].type = "data" /\ w2[i].offset # 0 =>
              /\ Passing(w2[i - 1]) /\ w2[i - 1].p = w2[i].p
              /\ w2[i - 1].offset = w2[i].offset - 1
      <3> SUFFICES ASSUME NEW i \in 1 .. Len(w) + 1, i # 1,
                          w2[i].type = "data", w2[i].offset # 0
                   PROVE  /\ Passing(w2[i - 1]) /\ w2[i - 1].p = w2[i].p
                          /\ w2[i - 1].offset = w2[i].offset - 1
        BY <1>p, <1>w
      <3>1. i - 1 \in 1 .. Len(w) /\ w2[i - 1] = w[i - 1]
        BY <1>p, <1>w
      <3>2. CASE i = Len(w) + 1
        BY <1>p, <1>w, <1>2, <3>1, <3>2 DEF SentUpTo
      <3>3. CASE i \in 1 .. Len(w)
        BY <1>p, <1>w, <2>0, <3>1, <3>3 DEF WireInv
      <3> QED
        BY <1>p, <1>w, <3>2, <3>3
    <2>5. w2[1].type = "data" /\ w2[1].offset # 0
            => At(r, w2[1].p, w2[1].offset)'
      <3>1. CASE w = <<>>
        BY <1>p, <1>w, <1>1, <1>2, <3>1 DEF SentUpTo
      <3>2. CASE w # <<>>
        BY <1>p, <1>w, <1>1, <2>0, <3>2 DEF WireInv
      <3> QED
        BY <3>1, <3>2
    <2> QED
      BY <1>p, <2>1, <2>2, <2>3, <2>4, <2>5 DEF WireInv, Passing
  <1>5. FrameInv(r)'
    <2>1. FrameInv(r) /\ (r_frame[r] # NoFrame => r_frame[r].p \in Payloads)
      BY HeldShape DEF ReceiverInv
    <2>2. CASE r_frame[r].type = "data"
      <3>1. r_frame[r].p \in Payloads
        BY <2>1, <2>2 DEF NoFrame
      <3>2. r_frame[r].chunk = Last => r_frame[r].p # p
        BY <1>2, <2>2 DEF Open, Holds, Passing
      <3> QED
        BY <1>1, <1>3, <2>1, <2>2, <3>1, <3>2 DEF FrameInv
    <2>3. CASE r_frame[r].type \in {"canceled", "error"}
      <3>1. r_frame[r].p \in Payloads
        BY <2>1, <2>3 DEF NoFrame
      <3>2. r_frame[r].p # p
        BY <1>2, <2>3 DEF Open, Holds, Passing
      <3> QED
        BY <1>3, <2>1, <2>3, <3>1, <3>2 DEF FrameInv
    <2> QED
      BY <2>2, <2>3 DEF FrameInv
  <1>6. EndpointInv(r)'
    BY DEF ReceiverInv, EndpointInv
  <1>7. ASSUME NEW q \in Payloads PROVE PayloadInv(r, q)'
    <2>1. PayloadInv(r, q)
      BY DEF ReceiverInv
    <2>2. CASE q # p
      <3>1. NoneOnWire(r, q)' <=> NoneOnWire(r, q)
        BY <1>3, <2>2
      <3>2. SendInv(r, q)'
        <4> SUFFICES ASSUME Sending(r, q)' PROVE SendInv(r, q)'
          BY DEF SendInv
        <4>1. NextOffset(q)' = 0 /\ SentUpTo(r, q, 0) /\ Open(r, q)
          BY <2>1, <2>2 DEF PayloadInv, SendInv
        <4>2. SentUpTo(r, q, 0)'
          BY <1>1, <3>1, <4>1 DEF SentUpTo
        <4>3. Open(r, q)'
          BY <1>w, <1>1, <2>2, <4>1 DEF Open
        <4> QED
          BY <4>1, <4>2, <4>3 DEF SendInv
      <3>3. QueueInv(r, q)' /\ LogInv(r, q)' /\ GotInv(r, q)'
        BY <1>1, <2>1, <3>1 DEF PayloadInv, QueueInv, LogInv, GotInv
      <3> QED
        BY <3>2, <3>3 DEF PayloadInv
    <2>3. CASE q = p
      <3>1. SendInv(r, p)'
        <4> SUFFICES ASSUME Sending(r, p)' PROVE SendInv(r, p)'
          BY DEF SendInv
        <4>1. Passing(f) /\ NextOffset(p)' = f.offset + 1 /\ f.offset \in 0 .. Size
          BY FrameShape, DataShape DEF Passing
        <4>2. SentUpTo(r, p, f.offset + 1)'
          BY <1>w, <4>1, PayloadConstants DEF SentUpTo, Passing
        <4>3. Open(r, p)'
          BY <1>w, <1>1, <1>2, <4>1 DEF Open
        <4> QED
          BY <4>1, <4>2, <4>3 DEF SendInv
      <3>2. QueueInv(r, p)'
        BY <1>1, <1>2, <2>1, <2>3 DEF PayloadInv, QueueInv, Open
      <3>3. LogInv(r, p)'
        BY <1>1, <1>2, <2>1, <2>3 DEF PayloadInv, LogInv, Open
      <3>4. GotInv(r, p)'
        BY <2>1, <2>3 DEF PayloadInv, GotInv
      <3> QED
        BY <2>3, <3>1, <3>2, <3>3, <3>4 DEF PayloadInv
    <2> QED
      BY <2>2, <2>3
  <1> QED
    BY <1>4, <1>5, <1>6, <1>7 DEF ReceiverInv

\* What is still to be sent to r was to be sent before, from the same offset.
Unmoved(r) ==
  \A p \in Payloads : Sending(r, p)' => Sending(r, p) /\ NextOffset(p)' = NextOffset(p)

\* A step that leaves the send loops alone sends nothing.
LEMMA QuietUnmoved ==
  ASSUME TypeOK, OneLoop, NEW r \in Receivers,
         UNCHANGED <<file_queue, loop>>, channels' \subseteq channels, links' \subseteq links,
         \A p \in Payloads : pending'[p] = "unsent" => pending[p] = "unsent",
         \A p \in Payloads : status'[p][r] = "available" => status[p][r] = "available"
  PROVE  Unmoved(r)
  <1> SUFFICES ASSUME NEW p \in Payloads, Sending(r, p)'
               PROVE  Sending(r, p) /\ NextOffset(p)' = NextOffset(p)
    BY DEF Unmoved
  <1>1. NotBegun(p)' => NotBegun(p)
    BY DEF NotBegun, Queued
  <1>2. Live(r)' => Live(r)
    BY DEF Live
  <1>3. CASE NotBegun(p)'
    BY <1>1, <1>2, <1>3 DEF Sending, NextOffset
  <1>4. CASE ~NotBegun(p)'
    <2>1. Running(p) /\ Recipient(r) /\ ~(loop.at = "post" /\ loop.chunk = Last)
      BY <1>4 DEF Sending, Running, Recipient
    <2>2. ~NotBegun(p)
      BY <2>1 DEF OneLoop, Running
    <2> QED
      BY <1>2, <1>4, <2>1, <2>2 DEF Sending, NextOffset
  <1> QED
    BY <1>3, <1>4

\* The loop ends: only what has not begun is still to be sent.
LEMMA EndUnmoved ==
  ASSUME TypeOK, NEW r \in Receivers, loop' = Idle,
         UNCHANGED <<file_queue, pending, channels, links>>
  PROVE  /\ \A p \in Payloads : Sending(r, p)' => NotBegun(p)
         /\ Unmoved(r)
  <1>1. \A p \in Payloads : NotBegun(p)' <=> NotBegun(p)
    BY DEF NotBegun, Queued
  <1> QED
    BY <1>1 DEF Sending, Live, Running, NextOffset, Unmoved

\* A control message that ends the transfer.
LEMMA ControlSent ==
  ASSUME TypeOK, SenderInv, NEW r \in Receivers, ReceiverInv(r), SameButWire(r),
         NEW type \in {"canceled", "error"}, NEW to, loop \in Loop, loop.at \in {"top", "detach"},
         Reachable(to) = {q \in to : Live(q)},
         r \in to => Recipient(r),
         Send(to, [type |-> type, p |-> loop.p]), loop' = Idle,
         UNCHANGED <<file_queue, pending, channels, links>>
  PROVE  ReceiverInv(r)'
  <1>p. PICK p \in Payloads : p = loop.p
    BY LoopShape
  <1>f. PICK f \in Control : f = [type |-> type, p |-> p]
    BY DEF Control
  <1>1. /\ \A q \in Payloads : Sending(r, q)' => NotBegun(q)
        /\ Unmoved(r)
    BY EndUnmoved
  <1>2. loop # Idle /\ ~NotBegun(p) /\ Running(p)
    <2>1. loop # Idle
      BY DEF Idle
    <2> QED
      BY <1>p, <2>1 DEF SenderInv, OneLoop, Running
  <1>3. CASE r \in Reachable(to)
    <2>1. wire'[r] = Append(wire[r], f) /\ f.p = p /\ f.type # "data"
      BY <1>3, <1>p, <1>f DEF Send
    <2>2. Sending(r, p) /\ r \in links
      BY <1>2, <1>3 DEF Sending, Live
    <2>3. r \in r_channel
      BY <2>2 DEF ReceiverInv, EndpointInv
    <2>4. ~Sending(r, p)'
      BY <1>1, <1>2
    <2>5. \A q \in Payloads \ {p} :
            Sending(r, q)' => Sending(r, q) /\ NextOffset(q)' = 0 /\ NextOffset(q) = 0
      BY <1>1 DEF Unmoved, NextOffset
    <2> QED
      BY <2>1, <2>2, <2>3, <2>4, <2>5, FrameSent
  <1>4. CASE r \notin Reachable(to)
    <2>1. wire'[r] = wire[r]
      BY <1>4 DEF Send
    <2> QED
      BY <1>1, <2>1, NothingReceived DEF Unmoved
  <1> QED
    BY <1>3, <1>4

----------------------------------------------------------------------------
(* The sender's steps *)

\* SendPayload, seen from a receiver: nothing is sent yet.
LEMMA SendPayloadReaches ==
  ASSUME TypeOK, SenderInv, NEW r \in Receivers, ReceiverInv(r),
         NEW q \in Payloads, NEW to \in SUBSET Receivers, SendPayload(q, to)
  PROVE  ReceiverInv(r)'
  <1>t. file_queue \in Seq(Payloads) /\ pending \in [Payloads -> {"unsent", "tracked", "gone"}]
        /\ status \in [Payloads -> [Receivers -> Statuses \cup {"none"}]]
    BY DEF TypeOK
  <1>1. SameButWire(r) /\ wire'[r] = wire[r]
    BY DEF SendPayload, SameButWire, wireVars, recvVars
  <1>u. /\ UNCHANGED <<loop, channels, links>> /\ file_queue' = Append(file_queue, q)
        /\ \A p \in Payloads : p # q => pending'[p] = pending[p] /\ status'[p] = status[p]
        /\ pending[q] = "unsent"
    BY <1>t DEF SendPayload, wireVars
  <1>2. \A p \in Payloads : NotBegun(p)' => NotBegun(p)
    <2>1. \A i \in DOMAIN file_queue' : file_queue'[i] = q
            \/ (i \in DOMAIN file_queue /\ file_queue'[i] = file_queue[i])
      BY <1>t, <1>u
    <2> QED
      BY <1>u, <2>1 DEF NotBegun, Queued
  <1>3. Unmoved(r)
    <2> SUFFICES ASSUME NEW p \in Payloads, Sending(r, p)'
                 PROVE  Sending(r, p) /\ NextOffset(p)' = NextOffset(p)
      BY DEF Unmoved
    <2>1. CASE NotBegun(p)'
      BY <1>u, <1>2, <2>1 DEF Sending, NextOffset, Live
    <2>2. CASE ~NotBegun(p)'
      <3>1. Running(p) /\ ~NotBegun(p)
        BY <1>u, <2>2 DEF Sending, Running, SenderInv, OneLoop
      <3>2. p # q
        BY <1>u, <3>1 DEF NotBegun
      <3> QED
        BY <1>u, <2>2, <3>1, <3>2 DEF Sending, NextOffset, Live, Running, Recipient
    <2> QED
      BY <2>1, <2>2
  <1> QED
    BY <1>1, <1>3, NothingReceived DEF Unmoved

\* The executor takes up the next loop, seen from a receiver.
LEMMA StartLoopReaches ==
  ASSUME TypeOK, SenderInv, NEW r \in Receivers, ReceiverInv(r), StartLoop
  PROVE  ReceiverInv(r)'
  <1>t. file_queue \in Seq(Payloads)
    BY DEF TypeOK
  <1>1. SameButWire(r) /\ wire'[r] = wire[r]
    BY DEF StartLoop, SameButWire, wireVars, recvVars
  <1>u. /\ UNCHANGED <<channels, links, pending, status>>
        /\ file_queue # <<>> /\ file_queue' = Tail(file_queue)
        /\ loop = Idle
        /\ loop' = Idle \/ loop' = [at |-> "top", p |-> Head(file_queue), offset |-> 0]
    BY DEF StartLoop, wireVars, trackVars
  <1>h. Head(file_queue) \in Payloads /\ Queued(Head(file_queue))
    BY <1>t, <1>u DEF Queued
  <1>2. \A p \in Payloads : NotBegun(p)' => NotBegun(p)
    <2>1. \A i \in DOMAIN Tail(file_queue) :
            i + 1 \in DOMAIN file_queue /\ Tail(file_queue)[i] = file_queue[i + 1]
      BY <1>t, <1>u
    <2> QED
      BY <1>u, <2>1 DEF NotBegun, Queued
  <1>3. Unmoved(r)
    <2> SUFFICES ASSUME NEW p \in Payloads, Sending(r, p)'
                 PROVE  Sending(r, p) /\ NextOffset(p)' = NextOffset(p)
      BY DEF Unmoved
    <2>1. CASE NotBegun(p)'
      BY <1>u, <1>2, <2>1 DEF Sending, NextOffset, Live
    <2>2. CASE ~NotBegun(p)'
      <3>1. loop' = [at |-> "top", p |-> Head(file_queue), offset |-> 0] /\ p = Head(file_queue)
        BY <1>u, <2>2 DEF Sending, Running
      <3>2. NotBegun(p)
        BY <1>h, <3>1 DEF NotBegun
      <3> QED
        BY <1>u, <3>1, <3>2 DEF Sending, NextOffset, Live
    <2> QED
      BY <2>1, <2>2
  <1> QED
    BY <1>1, <1>3, NothingReceived DEF Unmoved

\* The loop goes on and sends nothing.
LEMMA MoveUnmoved ==
  ASSUME TypeOK, SenderInv, NEW r \in Receivers, loop # Idle, loop' # Idle, loop'.p = loop.p,
         UNCHANGED <<file_queue, pending, channels, links>>,
         NEW n,
         Live(r) /\ Recipient(r)' /\ ~(loop.at = "post" /\ loop.chunk = Last)' =>
           Recipient(r) /\ ~(loop.at = "post" /\ loop.chunk = Last)
             /\ (~NotBegun(loop.p) => NextOffset(loop.p) = n)
             /\ (~NotBegun(loop.p)' => NextOffset(loop.p)' = n)
  PROVE  Unmoved(r)
  <1>p. PICK p \in Payloads : p = loop.p
    BY LoopShape DEF TypeOK
  <1>1. \A q \in Payloads : NotBegun(q)' <=> NotBegun(q)
    BY DEF NotBegun, Queued
  <1>2. ~NotBegun(p) /\ loop'.p = p
    BY <1>p DEF SenderInv, OneLoop
  <1>3. \A q \in Payloads : Running(q) <=> q = p
    BY <1>p DEF Running
  <1>4. \A q \in Payloads : Running(q)' <=> q = p
    BY <1>p DEF Running
  <1>5. Live(r)' <=> Live(r)
    BY DEF Live
  <1>6. ~NotBegun(loop.p)'
    BY <1>1, <1>2, <1>p
  <1>7. NextOffset(loop.p)' = NextOffset(p)'
    BY <1>2
  <1>8. Live(r) /\ Recipient(r)' /\ ~(loop.at = "post" /\ loop.chunk = Last)' =>
           Recipient(r) /\ ~(loop.at = "post" /\ loop.chunk = Last)
             /\ NextOffset(p) = NextOffset(p)'
    BY <1>p, <1>2, <1>6, <1>7
  <1>9. ASSUME NEW q \in Payloads, Sending(r, q)'
        PROVE  Sending(r, q) /\ NextOffset(q)' = NextOffset(q)
    <2>1. CASE q = p
      BY <1>1, <1>2, <1>3, <1>4, <1>5, <1>8, <1>9, <2>1 DEF Sending
    <2>2. CASE q # p
      BY <1>1, <1>4, <1>5, <1>9, <2>2 DEF Sending, NextOffset
    <2> QED
      BY <2>1, <2>2
  <1> QED
    BY <1>9 DEF Unmoved

\* The top of the loop, seen from a receiver: perhaps a control message.
LEMMA LoopTopReaches ==
  ASSUME TypeOK, LoopOffset, SenderInv, NEW r \in Receivers, ReceiverInv(r), LoopTop
  PROVE  ReceiverInv(r)'
  <1> DEFINE p == loop.p
             to == Available(p)
             skips == loop.offset = 0 /\ ResumeOffset > 0
  <1>t. /\ loop \in Loop \cup {Idle}
        /\ status \in [Payloads -> [Receivers -> Statuses \cup {"none"}]]
    BY DEF TypeOK
  <1>l. /\ loop # Idle /\ loop \in Loop /\ loop.at = "top" /\ p \in Payloads
        /\ loop.offset \in 0 .. Size
    BY <1>t, LoopShape DEF LoopTop, Idle
  <1>1. SameButWire(r) /\ UNCHANGED <<file_queue, pending, status, channels, links>>
    BY DEF LoopTop, SameButWire, recvVars, trackVars
  <1>2. /\ Reachable(to) = {q \in to : Live(q)}
        /\ r \in to <=> Recipient(r)
    BY <1>l DEF Reachable, Live, Recipient, Available
  <1>3. CASE loop' = Idle /\ UNCHANGED wire
    <2>1. Unmoved(r)
      BY <1>1, <1>3, EndUnmoved
    <2> QED
      BY <1>1, <1>3, <2>1, NothingReceived DEF Unmoved
  <1>4. ASSUME NEW type \in {"canceled", "error"}, loop' = Idle,
               Send(to, [type |-> type, p |-> p])
        PROVE  ReceiverInv(r)'
    BY <1>l, <1>1, <1>2, <1>4, ControlSent
  <1>5. CASE /\ loop' = [at |-> "detach", p |-> p, to |-> to,
                         offset |-> IF skips THEN ResumeOffset ELSE loop.offset]
             /\ UNCHANGED wire
    <2> DEFINE n == IF loop.offset = 0 THEN 0 ELSE loop.offset - ResumeOffset
    <2>1. loop' # Idle /\ loop'.p = loop.p
      BY <1>5 DEF Idle
    <2>2. Recipient(r)' => Recipient(r)
      BY <1>2, <1>5 DEF Recipient
    <2>3. ~NotBegun(loop.p) => NextOffset(loop.p) = n
      BY <1>l DEF NextOffset
    <2>4. ~NotBegun(loop.p)' => NextOffset(loop.p)' = n
      BY <1>5, <1>l, PayloadConstants DEF NextOffset
    <2>5. Unmoved(r)
      <3> HIDE DEF n
      <3> QED
        BY <1>l, <1>1, <2>1, <2>2, <2>3, <2>4, MoveUnmoved
    <2> QED
      BY <1>1, <1>5, <2>5, NothingReceived DEF Unmoved
  <1> QED
    BY <1>3, <1>4, <1>5 DEF LoopTop, EndLoop

\* The next chunk is taken, seen from a receiver: nothing is sent.
LEMMA DetachReaches ==
  ASSUME TypeOK, LoopOffset, SenderInv, NEW r \in Receivers, ReceiverInv(r), Detach
  PROVE  ReceiverInv(r)'
  <1> DEFINE p == loop.p
             chunk == NextChunk(p, ChunkSize(loop.to))
  <1>t. loop \in Loop \cup {Idle}
    BY DEF TypeOK
  <1>l. /\ loop # Idle /\ loop \in Loop /\ loop.at = "detach" /\ p \in Payloads
    BY <1>t, LoopShape DEF Detach, Idle
  <1>1. SameButWire(r) /\ UNCHANGED <<file_queue, pending, channels, links>>
    BY DEF Detach, SameButWire, recvVars, trackVars
  <1>2. /\ Reachable(loop.to) = {q \in loop.to : Live(q)}
        /\ r \in loop.to <=> Recipient(r)
    BY <1>l DEF Reachable, Live, Recipient
  <1>3. CASE loop' = Idle /\ UNCHANGED wire
    <2>1. Unmoved(r)
      BY <1>1, <1>3, EndUnmoved
    <2> QED
      BY <1>1, <1>3, <2>1, NothingReceived DEF Unmoved
  <1>4. CASE loop' = Idle /\ Send(loop.to, [type |-> "error", p |-> p])
    BY <1>l, <1>1, <1>2, <1>4, ControlSent
  <1>5. CASE /\ loop' = [at |-> "write", p |-> p, offset |-> loop.offset,
                         to |-> loop.to, chunk |-> chunk]
             /\ UNCHANGED wire
    <2> HIDE DEF chunk
    <2>1. loop' # Idle /\ loop'.p = loop.p
      BY <1>5 DEF Idle
    <2>2. Recipient(r)' => Recipient(r)
      BY <1>2, <1>5 DEF Recipient
    <2>3. ~NotBegun(loop.p) => NextOffset(loop.p) = loop.offset - ResumeOffset
      BY <1>l DEF NextOffset
    <2>4. ~NotBegun(loop.p)' => NextOffset(loop.p)' = loop.offset - ResumeOffset
      BY <1>5, <1>l DEF NextOffset
    <2>5. Unmoved(r)
      BY <1>l, <1>1, <2>1, <2>2, <2>3, <2>4, MoveUnmoved
    <2> QED
      BY <1>1, <1>5, <2>5, NothingReceived DEF Unmoved
  <1> QED
    BY <1>3, <1>4, <1>5 DEF Detach, EndLoop

\* The results are posted, seen from a receiver: nothing is sent.
LEMMA PostResultsReaches ==
  ASSUME TypeOK, LoopOffset, SenderInv, NEW r \in Receivers, ReceiverInv(r), PostResults
  PROVE  ReceiverInv(r)'
  <1> DEFINE p == loop.p
             sent == loop.to \ loop.failed
  <1>t. loop \in Loop \cup {Idle}
    BY DEF TypeOK
  <1>l. /\ loop # Idle /\ loop.at = "post" /\ p \in Payloads /\ loop.offset \in 0 .. Size
    BY <1>t, LoopShape DEF PostResults, Idle
  <1>1. /\ SameButWire(r) /\ wire'[r] = wire[r]
        /\ UNCHANGED <<file_queue, pending, status, channels, links>>
    BY DEF PostResults, SameButWire, recvVars, trackVars, wireVars
  <1>3. CASE loop' = Idle
    <2>1. Unmoved(r)
      BY <1>1, <1>3, EndUnmoved
    <2> QED
      BY <1>1, <2>1, NothingReceived DEF Unmoved
  <1>5. CASE /\ ~(sent # {} /\ loop.chunk = Last)
             /\ loop' = [at |-> "top", p |-> p,
                         offset |-> IF sent = {} THEN loop.offset ELSE loop.offset + 1]
    <2>1. loop' # Idle /\ loop'.p = loop.p
      BY <1>5 DEF Idle
    <2>2. ASSUME Live(r), Recipient(r)'
          PROVE  /\ Recipient(r) /\ loop.chunk # Last
                 /\ ~NotBegun(loop.p)' => NextOffset(loop.p)' = loop.offset - ResumeOffset + 1
      <3>1. status[p][r] = "available"
        BY <1>1, <1>5, <2>2 DEF Recipient
      <3>2. r \in loop.to /\ r \notin loop.failed
        BY <1>l, <2>2, <3>1 DEF SenderInv, LoopReaches
      <3>3. loop.chunk # Last /\ loop'.offset = loop.offset + 1 /\ loop'.at = "top"
        BY <1>5, <3>2
      <3>4. loop'.offset # 0 /\ loop.offset + 1 - ResumeOffset = loop.offset - ResumeOffset + 1
        BY <1>l, <3>3, PayloadConstants
      <3>5. ~NotBegun(loop.p)' => NextOffset(loop.p)' = loop'.offset - ResumeOffset
        BY <3>3, <3>4 DEF NextOffset
      <3>6. Recipient(r)
        BY <1>l, <3>2 DEF Recipient
      <3>7. loop'.offset - ResumeOffset = loop.offset - ResumeOffset + 1
        BY <1>l, <3>3, PayloadConstants
      <3>8. ~NotBegun(loop.p)' => NextOffset(loop.p)' = loop.offset - ResumeOffset + 1
        BY <3>5, <3>7
      <3> QED
        BY <3>3, <3>6, <3>8
    <2>3. ~NotBegun(loop.p) => NextOffset(loop.p) = loop.offset - ResumeOffset + 1
      BY <1>l DEF NextOffset
    <2>5. Unmoved(r)
      BY <1>l, <1>1, <2>1, <2>2, <2>3, MoveUnmoved
    <2> QED
      BY <1>1, <2>5, NothingReceived DEF Unmoved
  <1> QED
    BY <1>3, <1>5 DEF PostResults, EndLoop

\* A chunk is written, seen from a receiver: a frame at the next offset.
LEMMA WriteChunkReaches ==
  ASSUME TypeOK, LoopOffset, SenderInv, NEW r \in Receivers, ReceiverInv(r), WriteChunk
  PROVE  ReceiverInv(r)'
  <1>t. loop \in Loop \cup {Idle}
    BY DEF TypeOK
  <1>l. /\ loop # Idle /\ loop.at = "write" /\ loop.p \in Payloads /\ loop.offset \in 0 .. Size
        /\ loop.chunk \in 0 .. Size
    BY <1>t, LoopShape DEF WriteChunk, Idle, Chunk
  <1>p. PICK p \in Payloads : p = loop.p
    BY <1>l
  <1>f. PICK f : f = DataFrame
    OBVIOUS
  <1>g. /\ f \in Data /\ f.type = "data" /\ f.p = p /\ f.chunk = loop.chunk
        /\ f.offset = loop.offset - ResumeOffset
    <2>1. loop.offset - ResumeOffset \in 0 .. Size
      BY <1>l, PayloadConstants DEF LoopOffset
    <2> QED
      BY <1>l, <1>p, <1>f, <2>1 DEF DataFrame, Data, Chunk
  <1>1. SameButWire(r) /\ UNCHANGED <<file_queue, pending, status, channels, links, starved>>
    BY DEF WriteChunk, SameButWire, recvVars, trackVars
  <1>2. /\ loop' # Idle /\ loop'.p = p /\ loop'.at = "post" /\ loop'.offset = loop.offset
        /\ loop'.to = loop.to /\ loop'.chunk = loop.chunk
    BY <1>p DEF WriteChunk, Idle
  <1>3. \A q \in Payloads : NotBegun(q)' <=> NotBegun(q)
    BY <1>1 DEF NotBegun, Queued
  <1>4. ~NotBegun(p) /\ \A q \in Payloads : Running(q)' <=> q = p
    BY <1>l, <1>p, <1>2 DEF SenderInv, OneLoop, Running
  <1>5. /\ Live(r)' <=> Live(r)
        /\ Recipient(r) <=> r \in loop.to
        /\ Recipient(r)' <=> r \in loop.to
    BY <1>l, <1>1, <1>2 DEF Live, Recipient
  <1>6. \A q \in Payloads \ {p} :
          Sending(r, q)' => Sending(r, q) /\ NextOffset(q)' = 0 /\ NextOffset(q) = 0
    BY <1>3, <1>4, <1>5 DEF Sending, NextOffset
  <1>7. CASE r \in Reachable(loop.to)
    <2>1. Live(r) /\ r \in loop.to /\ r \in links /\ Recipient(r)
      BY <1>5, <1>7 DEF Reachable, Live
    <2>2. Sending(r, p) /\ NextOffset(p) = f.offset
      BY <1>l, <1>p, <1>g, <1>4, <2>1 DEF Sending, Running, NextOffset
    <2>3. wire'[r] = Append(wire[r], f)
      BY <1>f, <1>7 DEF WriteChunk, Send
    <2>4. r \in r_channel
      BY <2>1 DEF ReceiverInv, EndpointInv
    <2>5. ChunkInv(f)'
      <3>1. /\ loop.chunk # Last => loop.chunk = loop.offset + 1
            /\ loop.chunk = Last => loop.p \in starved \/ loop.offset = Size
        BY <1>l, <2>1 DEF SenderInv, LoopReaches
      <3> QED
        BY <1>l, <1>p, <1>g, <1>1, <3>1, PayloadConstants DEF ChunkInv, Whole
    <2>6. Sending(r, p)' => Passing(f) /\ NextOffset(p)' = f.offset + 1
      BY <1>g, <1>2, <1>3, <1>4 DEF Sending, Passing, NextOffset
    <2> QED
      BY <1>g, <1>1, <1>6, <2>2, <2>3, <2>4, <2>5, <2>6, FrameSent
  <1>8. CASE r \notin Reachable(loop.to)
    <2>1. wire'[r] = wire[r]
      BY <1>8 DEF WriteChunk, Send
    <2>2. ~(Live(r) /\ r \in loop.to)
      BY <1>8 DEF Reachable, Live
    <2>3. \A q \in Payloads : Sending(r, q)' => Sending(r, q) /\ NextOffset(q)' = NextOffset(q)
      BY <1>3, <1>4, <1>5, <1>6, <2>2 DEF Sending
    <2> QED
      BY <1>1, <2>1, <2>3, NothingReceived
  <1> QED
    BY <1>7, <1>8

\* The other steps of the sender, seen from a receiver: nothing is sent.
LEMMA OtherSenderReaches ==
  ASSUME TypeOK, SenderInv, NEW r \in Receivers, ReceiverInv(r),
         \/ \E p \in Payloads : CancelPayload(p)
         \/ StatusThread
         \/ \E q \in Receivers : RemoveEndpoint(q) \/ OnDisconnected(q)
                                   \/ ReceiveControl(q) \/ Break(q)
         \/ Stop \/ CancelAllPayloads \/ AwaitBarrier \/ CloseDown
  PROVE  ReceiverInv(r)'
  <1>t. /\ status \in [Payloads -> [Receivers -> Statuses \cup {"none"}]]
        /\ pending \in [Payloads -> {"unsent", "tracked", "gone"}]
        /\ back \in [Receivers -> Seq(Control)]
    BY DEF TypeOK
  <1>1. SameButWire(r) /\ wire' = wire
    BY DEF CancelPayload, StatusThread, RemoveEndpoint, OnDisconnected, ReceiveControl,
       Break,
           Stop, CancelAllPayloads, AwaitBarrier, CloseDown, SameButWire, wireVars, recvVars,
           sendVars
  <1>2. CASE StatusThread
    <2>1. QuietStep
      BY <1>2, StatusThreadKeeps
    <2>2. Unmoved(r)
      BY <2>1, QuietUnmoved DEF QuietStep, loopVars, SenderInv
    <2> QED
      BY <1>1, <2>2, NothingReceived DEF Unmoved
  <1>3. CASE ~StatusThread
    <2>1. UNCHANGED <<file_queue, loop>> /\ channels' \subseteq channels /\ links' \subseteq links
      BY <1>3 DEF CancelPayload, RemoveEndpoint, OnDisconnected, ReceiveControl, Break,
         Stop,
                  CancelAllPayloads, AwaitBarrier, CloseDown, wireVars, sendVars, loopVars
    <2>2. \A p \in Payloads : pending'[p] = "unsent" => pending[p] = "unsent"
      BY <1>3, <1>t DEF CancelPayload, RemoveEndpoint, OnDisconnected, ReceiveControl,
         Break,
                  Stop, CancelAllPayloads, AwaitBarrier, CloseDown, trackVars, sendVars
    <2>3. \A p \in Payloads : status'[p][r] = "available" => status[p][r] = "available"
      <3>1. CASE status' = status
        BY <3>1
      <3>2. ASSUME NEW q \in Receivers, ReceiveControl(q), status' # status
            PROVE  \A p \in Payloads : status'[p][r] = "available" => status[p][r] = "available"
        <4>1. Head(back[q]) \in Control
          BY <1>t, <3>2 DEF ReceiveControl
        <4>2. PICK p \in Payloads, s \in {"canceled", "error"} :
                status' = [status EXCEPT ![p][q] = s]
          BY <3>2, <4>1 DEF ReceiveControl, Control
        <4> QED
          BY <1>t, <4>2
      <3> QED
        BY <1>3, <3>1, <3>2
           DEF CancelPayload, RemoveEndpoint, OnDisconnected, Break, Stop,
               CancelAllPayloads, AwaitBarrier, CloseDown, trackVars, sendVars
    <2>4. Unmoved(r)
      BY <2>1, <2>2, <2>3, QuietUnmoved DEF SenderInv
    <2> QED
      BY <1>1, <2>4, NothingReceived DEF Unmoved
  <1> QED
    BY <1>2, <1>3

\* A step of a receiver reaches no other receiver.
LEMMA OtherReceiverReaches ==
  ASSUME TypeOK, SenderInv, NEW r \in Receivers, ReceiverInv(r),
         NEW q \in Receivers \ {r},
         \/ RReceive(q) \/ ROnControl(q) \/ RLogs(q) \/ RAttach(q)
         \/ RStatusThread(q) \/ RRemoveEndpoint(q) \/ ROnDisconnected(q)
         \/ \E p \in Payloads : RCancelPayload(q, p)
  PROVE  ReceiverInv(r)'
  <1>t. /\ wire \in [Receivers -> Seq(Data \cup Control)]
        /\ r_tracked \in [Receivers -> SUBSET Payloads]
        /\ r_endpoint \in [Receivers -> SUBSET Payloads]
        /\ r_got \in [Receivers -> [Payloads -> Seq(1 .. Size)]]
        /\ r_frame \in [Receivers -> Data \cup Control \cup Line \cup {NoFrame}]
        /\ r_queue \in [Receivers -> Seq(ReceiverJob)]
        /\ r_told \in [Receivers -> [Payloads -> Seq(Update \cup {"payload"})]]
        /\ r_ended \in [Receivers -> SUBSET Payloads]
    BY DEF TypeOK
  <1>1. UNCHANGED sendVars
    BY DEF RReceive, ROnControl, RLogs, RAttach, RStatusThread, RRemoveEndpoint,
           ROnDisconnected, RCancelPayload
  <1>2. links' \subseteq links
    BY DEF RReceive, ROnControl, RLogs, RAttach, RStatusThread, RRemoveEndpoint,
           ROnDisconnected, RCancelPayload, wireVars
  <1>3. wire'[r] = wire[r]
    BY <1>t DEF RReceive, ROnControl, RLogs, RAttach, RStatusThread, RRemoveEndpoint,
                ROnDisconnected, RCancelPayload, wireVars
  <1>4. SameButWire(r)
    <2>1. CASE RReceive(q)
      BY <1>t, <1>1, <1>2, <2>1
         DEF RReceive, RControl, RData, RStart, Post, SameButWire, sendVars
    <2>2. CASE RAttach(q)
      BY <1>t, <1>1, <1>2, <2>2 DEF RAttach, RGivesUp, Post, SameButWire, sendVars
    <2>3. CASE RStatusThread(q)
      BY <1>t, <1>1, <1>2, <2>3
         DEF RStatusThread, RTell, RFinishedJob, RDisconnectJob, SameButWire, sendVars
    <2>4. CASE RRemoveEndpoint(q) \/ ROnDisconnected(q)
      BY <1>t, <1>1, <1>2, <2>4
         DEF RRemoveEndpoint, ROnDisconnected, Post, SameButWire, sendVars
    <2>5. CASE \E p \in Payloads : RCancelPayload(q, p)
      BY <1>t, <1>1, <1>2, <2>5 DEF RCancelPayload, SameButWire, sendVars
    <2>6. CASE ROnControl(q) \/ RLogs(q)
      BY <1>t, <1>1, <1>2, <2>6 DEF ROnControl, RLogs, Post, SameButWire, sendVars
    <2> QED
      BY <2>1, <2>2, <2>3, <2>4, <2>5, <2>6
  <1>5. Unmoved(r)
    BY <1>1, <1>2, QuietUnmoved DEF sendVars, loopVars, trackVars, SenderInv
  <1> QED
    BY <1>3, <1>4, <1>5, NothingReceived DEF Unmoved

----------------------------------------------------------------------------
(* Sequences and logs *)

\* The places of a sequence that grew.
LEMMA AppendIndex ==
  ASSUME NEW S, NEW s \in Seq(S), NEW x \in S
  PROVE  /\ Len(s) \in Nat /\ DOMAIN s = 1 .. Len(s)
         /\ DOMAIN Append(s, x) = 1 .. Len(s) + 1
         /\ \A i \in 1 .. Len(s) : Append(s, x)[i] = s[i]
         /\ Append(s, x)[Len(s) + 1] = x
  OBVIOUS

\* The places of what is left when the first element is taken.
LEMMA TailIndex ==
  ASSUME NEW S, NEW s \in Seq(S), s # <<>>
  PROVE  /\ Len(s) \in Nat \ {0} /\ DOMAIN s = 1 .. Len(s)
         /\ Head(s) = s[1] /\ Head(s) \in S
         /\ DOMAIN Tail(s) = 1 .. Len(s) - 1
         /\ \A i \in 1 .. Len(s) - 1 : Tail(s)[i] = s[i + 1]
         /\ Len(Tail(s)) = Len(s) - 1
         /\ Tail(s) = <<>> <=> Len(s) = 1
  <1>1. Len(s) \in Nat \ {0} /\ DOMAIN s = 1 .. Len(s) /\ Head(s) = s[1] /\ Head(s) \in S
    OBVIOUS
  <1>2. Tail(s) \in Seq(S) /\ Len(Tail(s)) = Len(s) - 1
    OBVIOUS
  <1>3. \A i \in 1 .. Len(s) - 1 : Tail(s)[i] = s[i + 1]
    OBVIOUS
  <1>4. \A t \in Seq(S) : t = <<>> <=> Len(t) = 0
    OBVIOUS
  <1>5. DOMAIN Tail(s) = 1 .. Len(s) - 1
    BY <1>2
  <1>6. Tail(s) = <<>> <=> Len(s) = 1
    <2> DEFINE t == Tail(s)
               n == Len(s)
    <2>1. t \in Seq(S) /\ Len(t) = n - 1 /\ n \in Nat \ {0}
      BY <1>1, <1>2
    <2>2. t = <<>> <=> Len(t) = 0
      BY <1>4, <2>1
    <2> HIDE DEF t, n
    <2>3. t = <<>> <=> n = 1
      BY <2>1, <2>2
    <2> QED
      BY <2>3 DEF t, n
  <1> QED
    BY <1>1, <1>2, <1>3, <1>5, <1>6

\* The first and the other entries of a log after an update.
LEMMA ReportedLog ==
  ASSUME NEW S, NEW log \in Seq(S), NEW u \in S
  PROVE  /\ Reported(log, u) # <<>>
         /\ log # <<>> => Reported(log, u)[1] = log[1]
         /\ log = <<>> => Reported(log, u)[1] = u
         /\ \A i \in DOMAIN Reported(log, u) :
              Reported(log, u)[i] = u \/ (i \in DOMAIN log /\ Reported(log, u)[i] = log[i])
  <1>1. CASE Reported(log, u) = log /\ log # <<>>
    BY <1>1
  <1>2. CASE Reported(log, u) = Append(log, u)
    <2>1. /\ Len(log) \in Nat /\ DOMAIN log = 1 .. Len(log)
          /\ DOMAIN Append(log, u) = 1 .. Len(log) + 1
          /\ \A i \in 1 .. Len(log) : Append(log, u)[i] = log[i]
          /\ Append(log, u)[Len(log) + 1] = u
      BY AppendIndex
    <2>2. Append(log, u) # <<>>
      <3>1. Len(Append(log, u)) = Len(log) + 1 /\ Len(log) \in Nat
        OBVIOUS
      <3>2. Len(<<>>) = 0
        OBVIOUS
      <3>3. Len(Append(log, u)) # Len(<<>>)
        BY <3>1, <3>2
      <3> QED
        BY <3>3, Zenon
    <2>3. log = <<>> <=> Len(log) = 0
      OBVIOUS
    <2> QED
      BY <1>2, <2>1, <2>2, <2>3
  <1> QED
    BY <1>1, <1>2 DEF Reported

----------------------------------------------------------------------------
(* The client and the endpoint manager of the receiver *)

\* The receiver's client cancels, or is told of the disconnection.
LEMMA RCancelKeeps ==
  ASSUME TypeOK, SenderInv, NEW r \in Receivers, ReceiverInv(r),
         ROnDisconnected(r) \/ \E p \in Payloads : RCancelPayload(r, p)
  PROVE  ReceiverInv(r)'
  <1>1. SameButWire(r) /\ wire'[r] = wire[r]
    BY DEF ROnDisconnected, RCancelPayload, SameButWire, wireVars, sendVars
  <1>2. Unmoved(r)
    BY QuietUnmoved DEF ROnDisconnected, RCancelPayload, wireVars, sendVars, loopVars,
       trackVars,
                        SenderInv
  <1> QED
    BY <1>1, <1>2, NothingReceived DEF Unmoved

\* The receiver's endpoint is removed: the frames not yet read are lost.
LEMMA RRemoveKeeps ==
  ASSUME TypeOK, SenderInv, NEW r \in Receivers, ReceiverInv(r), RRemoveEndpoint(r)
  PROVE  ReceiverInv(r)'
  <1> DEFINE job == [op |-> "disconnect"]
             q == r_queue[r]
  <1>t. /\ r_queue \in [Receivers -> Seq(ReceiverJob)] /\ job \in ReceiverJob
        /\ wire \in [Receivers -> Seq(Data \cup Control)]
    BY ReceiverJobTypes DEF TypeOK
  <1>u. /\ wire'[r] = <<>> /\ r_queue'[r] = Append(q, job) /\ r \notin r_channel' /\ r \notin links'
        /\ UNCHANGED <<starved, r_connected, r_tracked, r_endpoint, r_got, r_frame, r_told, r_ended>>
    BY <1>t DEF RRemoveEndpoint, Post, sendVars
  <1>q. /\ Len(q) \in Nat /\ DOMAIN q = 1 .. Len(q) /\ DOMAIN r_queue'[r] = 1 .. Len(q) + 1
        /\ \A i \in 1 .. Len(q) : r_queue'[r][i] = q[i]
        /\ r_queue'[r][Len(q) + 1] = job
    BY <1>t, <1>u, AppendIndex
  <1>j. job.op = "disconnect"
    OBVIOUS
  <1>1. WireInv(r)'
    BY <1>u DEF WireInv
  <1>2. \A p : NoneOnWire(r, p)'
    BY <1>u DEF NoneOnWire
  <1>3. FrameInv(r)'
    BY <1>u, <1>2 DEF ReceiverInv, FrameInv, ChunkInv, Whole
  <1>4. EndpointInv(r)'
    BY <1>u, <1>q DEF ReceiverInv, EndpointInv
  <1>5. ASSUME NEW p \in Payloads PROVE PayloadInv(r, p)'
    <2>1. PayloadInv(r, p)
      BY DEF ReceiverInv
    <2>2. SendInv(r, p)'
      BY <1>u DEF SendInv, Sending, Live
    <2>3. ~JobOf(job, p)
      BY DEF JobOf
    <2>4. QueueInv(r, p)'
      <3> HIDE DEF job
      <3>1. ~EndJob(job, p)
        BY <2>3 DEF EndJob
      <3>2. Holds(r, p)' <=> Holds(r, p)
        BY <1>u DEF Holds
      <3> QED
        BY <1>u, <1>q, <1>j, <1>2, <2>1, <2>3, <3>1, <3>2 DEF PayloadInv, QueueInv, Whole
    <2>5. LogInv(r, p)'
      BY <1>u, <1>2, <2>1 DEF PayloadInv, LogInv, Holds, Whole
    <2>6. GotInv(r, p)'
      BY <1>u, <2>1 DEF PayloadInv, GotInv
    <2> QED
      BY <2>2, <2>4, <2>5, <2>6 DEF PayloadInv
  <1> QED
    BY <1>1, <1>3, <1>4, <1>5 DEF ReceiverInv

----------------------------------------------------------------------------
(* Frames that are read *)

\* Every frame of p on its way to r is a passing chunk.
AllPassing(r, p) == \A i \in DOMAIN wire[r] : wire[r][i].p = p => Passing(wire[r][i])

\* w2 is what is left of the frames w when the first, f, is read.
Behind(w, f, w2) ==
  /\ f \in Data \cup Control /\ f = w[1] /\ 1 \in DOMAIN w
  /\ \A i \in DOMAIN w2 : i \in Nat \ {0} /\ i + 1 \in DOMAIN w /\ w2[i] = w[i + 1]
  /\ \A i \in DOMAIN w2 : i # 1 => i - 1 \in DOMAIN w2 /\ w2[i - 1] = w[i]
  /\ \A i \in DOMAIN w2 : w2[i].p = f.p =>
       Passing(f) /\ (w2[i].type = "data" => w2[i].offset # 0)
  /\ w2 # <<>> /\ w2[1].type = "data" /\ w2[1].offset # 0 =>
       Passing(f) /\ f.p = w2[1].p /\ f.offset = w2[1].offset - 1
  /\ w2 # <<>> => w2[Len(w2)] = w[Len(w)]
  /\ w2 = <<>> => f = w[Len(w)]

\* What WireInv says of the frames that are left.
LEMMA WireTail ==
  ASSUME TypeOK, NEW r \in Receivers, WireInv(r), wire[r] # <<>>,
         NEW f, f = Head(wire[r]), NEW w2, w2 = Tail(wire[r])
  PROVE  Behind(wire[r], f, w2)
  <1> DEFINE w == wire[r]
             n == Len(w)
  <1>1. w \in Seq(Data \cup Control) /\ w # <<>>
    BY DEF TypeOK
  <1>2. /\ n \in Nat \ {0} /\ DOMAIN w = 1 .. n
        /\ Head(w) = w[1] /\ Head(w) \in Data \cup Control
        /\ DOMAIN Tail(w) = 1 .. n - 1
        /\ \A i \in 1 .. n - 1 : Tail(w)[i] = w[i + 1]
        /\ Len(Tail(w)) = n - 1
        /\ Tail(w) = <<>> <=> n = 1
    <2> HIDE DEF w
    <2> QED
      BY <1>1, TailIndex
  <1>3. \A i, j \in DOMAIN w : i < j /\ w[i].p = w[j].p
          => Passing(w[i]) /\ (w[j].type = "data" => w[j].offset # 0)
    BY DEF WireInv
  <1>4. \A i \in DOMAIN w : i # 1 /\ w[i].type = "data" /\ w[i].offset # 0 =>
          Passing(w[i - 1]) /\ w[i - 1].p = w[i].p /\ w[i - 1].offset = w[i].offset - 1
    BY DEF WireInv
  <1>n. n \in Nat \ {0} /\ DOMAIN w = 1 .. n /\ DOMAIN w2 = 1 .. n - 1
        /\ Len(w2) = n - 1 /\ (w2 = <<>> <=> n = 1)
    BY <1>2
  <1>10. f \in Data \cup Control /\ f = w[1] /\ 1 \in DOMAIN w
    BY <1>2
  <1>e. \A i \in 1 .. n - 1 : w2[i] = w[i + 1]
    BY <1>2
  <1> HIDE DEF w, n
  <1>7. \A i \in DOMAIN w2 : i \in Nat \ {0} /\ i + 1 \in DOMAIN w /\ w2[i] = w[i + 1]
    BY <1>n, <1>e
  <1>5. ASSUME NEW i \in DOMAIN w2, w2[i].p = f.p
        PROVE  Passing(f) /\ (w2[i].type = "data" => w2[i].offset # 0)
    <2>1. 1 < i + 1 /\ i + 1 \in DOMAIN w /\ w2[i] = w[i + 1]
      BY <1>7
    <2> QED
      BY <1>3, <1>5, <1>10, <2>1
  <1>6. ASSUME w2 # <<>>, w2[1].type = "data", w2[1].offset # 0
        PROVE  Passing(f) /\ f.p = w2[1].p /\ f.offset = w2[1].offset - 1
    <2>1. 2 \in DOMAIN w /\ 1 \in DOMAIN w2
      BY <1>6, <1>n
    <2>2. w2[1] = w[1 + 1]
      BY <1>7, <2>1
    <2>a. 1 + 1 = 2 /\ 2 - 1 = 1
      OBVIOUS
    <2>3. w2[1] = w[2] /\ w[2 - 1] = f
      BY <1>10, <2>2, <2>a, Zenon
    <2>4. w[2].type = "data" /\ w[2].offset # 0 /\ 2 # 1
      BY <1>6, <2>3
    <2>5. Passing(w[2 - 1]) /\ w[2 - 1].p = w[2].p /\ w[2 - 1].offset = w[2].offset - 1
      BY <1>4, <2>1, <2>4
    <2> QED
      BY <2>3, <2>5
  <1>8. ASSUME NEW i \in DOMAIN w2, i # 1
        PROVE  i - 1 \in DOMAIN w2 /\ w2[i - 1] = w[i]
    <2>1. i - 1 \in DOMAIN w2 /\ i - 1 + 1 = i
      BY <1>n, <1>8
    <2> QED
      BY <1>7, <2>1
  <1>9. w2 # <<>> => w2[Len(w2)] = w[n]
    <2> SUFFICES ASSUME w2 # <<>> PROVE w2[Len(w2)] = w[n]
      OBVIOUS
    <2>1. n - 1 \in DOMAIN w2 /\ n - 1 + 1 = n
      BY <1>n
    <2>2. w2[n - 1] = w[n]
      BY <1>7, <2>1
    <2> QED
      BY <1>n, <2>2
  <1>11. w2 = <<>> => f = w[n]
    BY <1>n, <1>10
  <1> QED
    BY <1>5, <1>6, <1>7, <1>8, <1>9, <1>10, <1>11 DEF Behind, w, n

\* What reading a frame leaves of the frames on their way.
LEMMA FrameRead ==
  ASSUME TypeOK, NEW r \in Receivers, WireInv(r), wire[r] # <<>>,
         NEW f, f = Head(wire[r]), wire'[r] = Tail(wire[r]),
         starved \subseteq starved',
         \A q \in Payloads \ {f.p} : Fresh(r, q) => Fresh(r, q)',
         Passing(f) => At(r, f.p, f.offset + 1)'
  PROVE  /\ WireInv(r)'
         /\ \A p : NoneOnWire(r, p) => NoneOnWire(r, p)' /\ p # f.p
         /\ ~Passing(f) => NoneOnWire(r, f.p)'
         /\ \A p : AllPassing(r, p) => AllPassing(r, p)' /\ (f.p = p => Passing(f))
         /\ \A p \in Payloads, n \in Int : SentUpTo(r, p, n) => SentUpTo(r, p, n)'
  <1> DEFINE w == wire[r]
  <1>p. PICK w2 : w2 = wire'[r]
    OBVIOUS
  <1>0. /\ f \in Data \cup Control /\ f = w[1] /\ 1 \in DOMAIN w
        /\ \A i \in DOMAIN w2 : i \in Nat \ {0} /\ i + 1 \in DOMAIN w /\ w2[i] = w[i + 1]
        /\ \A i \in DOMAIN w2 : i # 1 => i - 1 \in DOMAIN w2 /\ w2[i - 1] = w[i]
        /\ \A i \in DOMAIN w2 : w2[i].p = f.p =>
             Passing(f) /\ (w2[i].type = "data" => w2[i].offset # 0)
        /\ w2 # <<>> /\ w2[1].type = "data" /\ w2[1].offset # 0 =>
             Passing(f) /\ f.p = w2[1].p /\ f.offset = w2[1].offset - 1
        /\ w2 # <<>> => w2[Len(w2)] = w[Len(w)]
        /\ w2 = <<>> => f = w[Len(w)]
    <2>1. Behind(w, f, w2)
      BY <1>p, WireTail
    <2> QED
      BY <2>1 DEF Behind
  <1>t. w \in Seq(Data \cup Control) /\ w # <<>> /\ \A i \in DOMAIN w : w[i].p \in Payloads
    <2>1. w \in Seq(Data \cup Control) /\ w # <<>>
      BY DEF TypeOK
    <2> QED
      BY <2>1, FrameShape
  <1>1. WireInv(r)'
    <2>1. \A i \in DOMAIN w2 : ChunkInv(w2[i])'
      <3>1. \A g : ChunkInv(g) => ChunkInv(g)'
        BY DEF ChunkInv, Whole
      <3>2. \A i \in DOMAIN w : ChunkInv(w[i])
        BY DEF WireInv
      <3> HIDE DEF w
      <3>3. \A i \in DOMAIN w2 : ChunkInv(w2[i])
        BY <1>0, <3>2
      <3> QED
        BY <3>1, <3>3
    <2>2. \A i \in DOMAIN w2 : w2[i].type = "data" /\ w2[i].offset = 0 => Fresh(r, w2[i].p)'
      <3>1. \A i \in DOMAIN w : w[i].type = "data" /\ w[i].offset = 0 => Fresh(r, w[i].p)
        BY DEF WireInv
      <3> HIDE DEF w
      <3>2. ASSUME NEW i \in DOMAIN w2, w2[i].type = "data", w2[i].offset = 0
            PROVE  Fresh(r, w2[i].p)'
        <4>1. Fresh(r, w2[i].p) /\ w2[i].p \in Payloads /\ w2[i].p # f.p
          BY <1>0, <1>t, <3>1, <3>2
        <4> QED
          BY <4>1
      <3> QED
        BY <3>2
    <2>3. \A i, j \in DOMAIN w2 : i < j /\ w2[i].p = w2[j].p
            => Passing(w2[i]) /\ (w2[j].type = "data" => w2[j].offset # 0)
      <3>1. \A i, j \in DOMAIN w : i < j /\ w[i].p = w[j].p
              => Passing(w[i]) /\ (w[j].type = "data" => w[j].offset # 0)
        BY DEF WireInv
      <3> HIDE DEF w
      <3>2. ASSUME NEW i \in DOMAIN w2, NEW j \in DOMAIN w2, i < j, w2[i].p = w2[j].p
            PROVE  Passing(w2[i]) /\ (w2[j].type = "data" => w2[j].offset # 0)
        <4>1. i + 1 \in DOMAIN w /\ j + 1 \in DOMAIN w /\ i + 1 < j + 1
              /\ w2[i] = w[i + 1] /\ w2[j] = w[j + 1]
          BY <1>0, <3>2
        <4> QED
          BY <3>1, <3>2, <4>1
      <3> QED
        BY <3>2
    <2>4. \A i \in DOMAIN w2 : i # 1 /\ w2[i].type = "data" /\ w2[i].offset # 0 =>
            Passing(w2[i - 1]) /\ w2[i - 1].p = w2[i].p /\ w2[i - 1].offset = w2[i].offset - 1
      <3>1. \A i \in DOMAIN w : i # 1 /\ w[i].type = "data" /\ w[i].offset # 0 =>
              Passing(w[i - 1]) /\ w[i - 1].p = w[i].p /\ w[i - 1].offset = w[i].offset - 1
        BY DEF WireInv
      <3> HIDE DEF w
      <3>2. ASSUME NEW i \in DOMAIN w2, i # 1, w2[i].type = "data", w2[i].offset # 0
            PROVE  Passing(w2[i - 1]) /\ w2[i - 1].p = w2[i].p
                     /\ w2[i - 1].offset = w2[i].offset - 1
        <4>1. i \in Nat \ {0} /\ i + 1 \in DOMAIN w /\ w2[i] = w[i + 1] /\ i + 1 # 1
              /\ w2[i - 1] = w[i] /\ i + 1 - 1 = i
          BY <1>0, <3>2
        <4> QED
          BY <3>1, <3>2, <4>1
      <3> QED
        BY <3>2
    <2>5. w2 # <<>> /\ w2[1].type = "data" /\ w2[1].offset # 0 => At(r, w2[1].p, w2[1].offset)'
      <3> SUFFICES ASSUME w2 # <<>>, w2[1].type = "data", w2[1].offset # 0
                   PROVE  At(r, w2[1].p, w2[1].offset)'
        OBVIOUS
      <3>1. Passing(f) /\ f.p = w2[1].p /\ f.offset = w2[1].offset - 1
        BY <1>0
      <3>2. f.offset + 1 = w2[1].offset
        <4>1. w2 \in Seq(Data \cup Control)
          BY <1>p, <1>t
        <4>2. w2[1] \in Data
          BY <4>1, FrameShape
        <4>3. w2[1].offset \in Nat
          BY <4>2, DataShape
        <4> QED
          BY <3>1, <4>3
      <3> QED
        BY <3>1, <3>2
    <2> QED
      BY <1>p, <2>1, <2>2, <2>3, <2>4, <2>5 DEF WireInv
  <1>2. \A p : NoneOnWire(r, p) => NoneOnWire(r, p)' /\ p # f.p
    BY <1>p, <1>0 DEF NoneOnWire
  <1>3. ~Passing(f) => NoneOnWire(r, f.p)'
    BY <1>p, <1>0 DEF NoneOnWire
  <1>4. ASSUME NEW p \in Payloads, NEW n \in Int, SentUpTo(r, p, n)
        PROVE  SentUpTo(r, p, n)'
    <2>1. CASE n = 0
      BY <1>2, <1>4, <2>1 DEF SentUpTo
    <2>2. CASE n # 0
      <3>1. Passing(w[Len(w)]) /\ w[Len(w)].p = p /\ w[Len(w)].offset = n - 1
        BY <1>4, <2>2, <1>t DEF SentUpTo
      <3>2. CASE w2 = <<>>
        <4>1. Passing(f) /\ f.p = p /\ f.offset = n - 1
          BY <1>0, <3>1, <3>2
        <4>2. f.offset + 1 = n
          BY <4>1
        <4> QED
          BY <1>p, <2>2, <3>2, <4>1, <4>2 DEF SentUpTo
      <3>3. CASE w2 # <<>>
        BY <1>p, <1>0, <2>2, <3>1, <3>3 DEF SentUpTo
      <3> QED
        BY <3>2, <3>3
    <2> QED
      BY <2>1, <2>2
  <1>5. \A p : AllPassing(r, p) => AllPassing(r, p)' /\ (f.p = p => Passing(f))
    BY <1>p, <1>0 DEF AllPassing
  <1> QED
    BY <1>1, <1>2, <1>3, <1>4, <1>5

----------------------------------------------------------------------------
(* Payloads that a step is not about *)

\* The jobs q2 are the jobs q moved by d places, but for one job at the end that
\* is not about p; no job about p is lost.
Shifted(q, q2, d, p) ==
  /\ d \in {0, 1} /\ DOMAIN q \subseteq Int /\ DOMAIN q2 \subseteq Int
  /\ \A i \in DOMAIN q2 :
       \/ i + d \in DOMAIN q /\ q[i + d] = q2[i]
       \/ ~JobOf(q2[i], p) /\ \A j \in DOMAIN q2 : j <= i
  /\ \A i \in DOMAIN q : JobOf(q[i], p) => i - d \in DOMAIN q2 /\ q2[i - d] = q[i]

\* A job about another payload is posted.
LEMMA AppendShifts ==
  ASSUME NEW q \in Seq(ReceiverJob), NEW job \in ReceiverJob, NEW p, ~JobOf(job, p)
  PROVE  Shifted(q, Append(q, job), 0, p)
  <1> DEFINE q2 == Append(q, job)
  <1>1. /\ Len(q) \in Nat /\ DOMAIN q = 1 .. Len(q)
        /\ DOMAIN q2 = 1 .. Len(q) + 1
        /\ \A i \in 1 .. Len(q) : q2[i] = q[i]
        /\ q2[Len(q) + 1] = job
    BY AppendIndex
  <1> HIDE DEF q2
  <1>2. \A i \in DOMAIN q2 : \/ i + 0 \in DOMAIN q /\ q[i + 0] = q2[i]
                             \/ ~JobOf(q2[i], p) /\ \A j \in DOMAIN q2 : j <= i
    BY <1>1
  <1>3. \A i \in DOMAIN q : i - 0 \in DOMAIN q2 /\ q2[i - 0] = q[i]
    BY <1>1
  <1>4. Shifted(q, q2, 0, p)
    BY <1>1, <1>2, <1>3 DEF Shifted
  <1> QED
    BY <1>4 DEF q2

\* The queue is left alone.
LEMMA SameShifts ==
  ASSUME NEW q \in Seq(ReceiverJob), NEW p
  PROVE  Shifted(q, q, 0, p)
  BY DEF Shifted

\* A job about another payload is done.
LEMMA TailShifts ==
  ASSUME NEW q \in Seq(ReceiverJob), q # <<>>, NEW p, ~JobOf(Head(q), p)
  PROVE  Shifted(q, Tail(q), 1, p)
  <1> DEFINE q2 == Tail(q)
  <1>1. /\ Len(q) \in Nat \ {0} /\ DOMAIN q = 1 .. Len(q) /\ Head(q) = q[1]
        /\ DOMAIN q2 = 1 .. Len(q) - 1
        /\ \A i \in 1 .. Len(q) - 1 : q2[i] = q[i + 1]
    BY TailIndex
  <1> HIDE DEF q2
  <1>2. \A i \in DOMAIN q2 : i + 1 \in DOMAIN q /\ q[i + 1] = q2[i]
    BY <1>1
  <1>3. ASSUME NEW i \in DOMAIN q, JobOf(q[i], p) PROVE i - 1 \in DOMAIN q2 /\ q2[i - 1] = q[i]
    <2>1. i # 1
      BY <1>1, <1>3
    <2>2. i - 1 \in DOMAIN q2 /\ i - 1 + 1 = i
      BY <1>1, <2>1
    <2> QED
      BY <1>2, <2>2
  <1>4. DOMAIN q \subseteq Int /\ DOMAIN q2 \subseteq Int
    BY <1>1
  <1>5. Shifted(q, q2, 1, p)
    BY <1>2, <1>3, <1>4 DEF Shifted
  <1> QED
    BY <1>5 DEF q2

\* A step that, as far as p goes, leaves the receiver alone but for the frames it
\* reads and the places of the jobs.
SamePayload(r, p) ==
  /\ p \in r_tracked'[r] <=> p \in r_tracked[r]
  /\ p \in r_ended'[r] <=> p \in r_ended[r]
  /\ r_got'[r][p] = r_got[r][p]
  /\ r_told'[r][p] = r_told[r][p]
  /\ Holds(r, p)' <=> Holds(r, p)
  /\ Holds(r, p) => r_frame'[r] = r_frame[r]
  /\ NoneOnWire(r, p) => NoneOnWire(r, p)'
  /\ r \in r_channel' <=> r \in r_channel
  /\ r \in r_connected' => r \in r_connected
  /\ starved' = starved

\* A step of the receiver about another payload.
LEMMA OtherPayload ==
  ASSUME NEW r \in Receivers, NEW p \in Payloads,
         QueueInv(r, p), LogInv(r, p), GotInv(r, p), SamePayload(r, p),
         NEW d, Shifted(r_queue[r], r_queue'[r], d, p)
  PROVE  /\ QueueInv(r, p)' /\ LogInv(r, p)' /\ GotInv(r, p)'
         /\ Fresh(r, p) => Fresh(r, p)'
         /\ Open(r, p) /\ AllPassing(r, p)' => Open(r, p)'
  <1> DEFINE q == r_queue[r]
  <1>p. PICK q2 : q2 = r_queue'[r]
    OBVIOUS
  <1>s. /\ d \in {0, 1} /\ DOMAIN q \subseteq Int /\ DOMAIN q2 \subseteq Int
        /\ \A i \in DOMAIN q2 : \/ i + d \in DOMAIN q /\ q[i + d] = q2[i]
                                \/ ~JobOf(q2[i], p) /\ \A j \in DOMAIN q2 : j <= i
        /\ \A i \in DOMAIN q : JobOf(q[i], p) => i - d \in DOMAIN q2 /\ q2[i - d] = q[i]
    BY <1>p DEF Shifted
  <1>j. \A j : EndJob(j, p) => JobOf(j, p)
    BY DEF EndJob
  <1>k. \A j : (j.op = "payload" \/ j.op = "finished") /\ j.p = p => JobOf(j, p)
    BY DEF JobOf
  <1>w. \A n : Whole(p, n)' <=> Whole(p, n)
    BY DEF Whole, SamePayload
  <1>1. QueueInv(r, p)'
    <2>1. ASSUME NEW i \in DOMAIN q2, EndJob(q2[i], p), p \notin r_ended'[r]
          PROVE  /\ NoneOnWire(r, p)' /\ ~Holds(r, p)'
                 /\ \A j \in DOMAIN q2 : JobOf(q2[j], p) => j <= i
                 /\ q2[i].op = "chunk" => Whole(p, Len(r_got[r][p]))'
      <3>1. i + d \in DOMAIN q /\ q[i + d] = q2[i] /\ p \notin r_ended[r]
        BY <1>s, <1>j, <2>1 DEF SamePayload
      <3>2. /\ NoneOnWire(r, p) /\ ~Holds(r, p)
            /\ \A j \in DOMAIN q : JobOf(q[j], p) => j <= i + d
            /\ q2[i].op = "chunk" => Whole(p, Len(r_got[r][p]))
        BY <2>1, <3>1 DEF QueueInv
      <3>3. \A j \in DOMAIN q2 : JobOf(q2[j], p) => j <= i
        <4>1. \A j \in DOMAIN q2 : JobOf(q2[j], p) => j + d <= i + d
          BY <1>s, <3>2
        <4> QED
          BY <1>s, <4>1
      <3> QED
        BY <1>w, <3>2, <3>3 DEF SamePayload
    <2>2. ASSUME p \in r_ended'[r], p \in r_tracked'[r]
          PROVE  \E k \in DOMAIN q2 : /\ q2[k].op = "finished" /\ q2[k].p = p
                                      /\ \A i \in DOMAIN q2 : i < k => ~EndJob(q2[i], p)
      <3>1. PICK k \in DOMAIN q : /\ q[k].op = "finished" /\ q[k].p = p
                                  /\ \A i \in DOMAIN q : i < k => ~EndJob(q[i], p)
        BY <2>2 DEF QueueInv, SamePayload
      <3>2. k - d \in DOMAIN q2 /\ q2[k - d] = q[k]
        BY <1>s, <1>k, <3>1
      <3>3. \A i \in DOMAIN q2 : i < k - d => ~EndJob(q2[i], p)
        BY <1>s, <1>j, <3>1
      <3> QED
        BY <3>1, <3>2, <3>3
    <2>3. ASSUME NEW i \in DOMAIN q2, q2[i].op = "payload", q2[i].p = p
          PROVE  /\ r_told'[r][p] = <<>>
                 /\ \A j \in DOMAIN q2 : j < i => q2[j].op # "disconnect" /\ ~JobOf(q2[j], p)
      <3>1. i + d \in DOMAIN q /\ q[i + d] = q2[i]
        BY <1>s, <1>k, <2>3
      <3>2. /\ r_told[r][p] = <<>>
            /\ \A j \in DOMAIN q : j < i + d => q[j].op # "disconnect" /\ ~JobOf(q[j], p)
        BY <2>3, <3>1 DEF QueueInv
      <3>3. ASSUME NEW j \in DOMAIN q2, j < i
            PROVE  q2[j].op # "disconnect" /\ ~JobOf(q2[j], p)
        <4>1. j + d \in DOMAIN q /\ q[j + d] = q2[j] /\ j + d < i + d
          BY <1>s, <3>3
        <4> QED
          BY <3>2, <4>1
      <3> QED
        BY <3>2, <3>3 DEF SamePayload
    <2>4. ASSUME p \in r_tracked'[r], r \in r_connected', r_told'[r][p] = <<>>
          PROVE  \E k \in DOMAIN q2 : q2[k].op = "payload" /\ q2[k].p = p
      <3>1. PICK k \in DOMAIN q : q[k].op = "payload" /\ q[k].p = p
        BY <2>4 DEF QueueInv, SamePayload
      <3> QED
        BY <1>s, <1>k, <3>1
    <2> QED
      BY <1>p, <2>1, <2>2, <2>3, <2>4 DEF QueueInv
  <1>2. LogInv(r, p)'
    <2>1. (\A i \in DOMAIN q : ~JobOf(q[i], p)) => \A i \in DOMAIN q2 : ~JobOf(q2[i], p)
      BY <1>s
    <2> QED
      BY <1>p, <1>w, <2>1 DEF LogInv, SamePayload
  <1>3. GotInv(r, p)'
    BY DEF GotInv, SamePayload
  <1>4. Fresh(r, p) => Fresh(r, p)'
    BY <1>p, <1>s DEF Fresh, SamePayload
  <1>5. ASSUME Open(r, p), AllPassing(r, p)'
        PROVE  Open(r, p)'
    <2>1. (\A i \in DOMAIN q : ~EndJob(q[i], p)) => \A i \in DOMAIN q2 : ~EndJob(q2[i], p)
      BY <1>s, <1>j
    <2> QED
      BY <1>p, <1>5, <2>1 DEF Open, AllPassing, SamePayload
  <1> QED
    BY <1>1, <1>2, <1>3, <1>4, <1>5

----------------------------------------------------------------------------
(* The reader: OnIncomingFrame *)

\* What was sent of p stays behind us when the receiver takes a step.
LEMMA SendKept ==
  ASSUME TypeOK, NEW r \in Receivers, NEW p \in Payloads, Unmoved(r), SendInv(r, p),
         Sending(r, p) => \A n \in Int : SentUpTo(r, p, n) => SentUpTo(r, p, n)',
         Sending(r, p) /\ Open(r, p) => Open(r, p)'
  PROVE  SendInv(r, p)'
  <1> SUFFICES ASSUME Sending(r, p)' PROVE SendInv(r, p)'
    BY DEF SendInv
  <1>1. Sending(r, p) /\ NextOffset(p)' = NextOffset(p)
    BY DEF Unmoved
  <1>2. SentUpTo(r, p, NextOffset(p)) /\ Open(r, p)
    BY <1>1 DEF SendInv
  <1>n. PICK n : n = NextOffset(p)
    OBVIOUS
  <1>3. n \in Int
    <2>1. CASE NotBegun(p)
      BY <1>n, <2>1 DEF NextOffset
    <2>2. CASE Running(p)
      <3>1. loop.offset \in 0 .. Size
        BY <2>2, LoopShape DEF TypeOK, Running
      <3> QED
        BY <1>n, <3>1, PayloadConstants DEF NextOffset
    <2> QED
      BY <1>1, <2>1, <2>2 DEF Sending
  <1>4. SentUpTo(r, p, n)'
    BY <1>1, <1>2, <1>3, <1>n
  <1> QED
    BY <1>1, <1>2, <1>4, <1>n DEF SendInv

\* The reader takes a frame.
ReadStep(r, f) ==
  /\ wire[r] # <<>> /\ f = Head(wire[r]) /\ wire'[r] = Tail(wire[r])
  /\ r \in r_channel /\ r_channel' = r_channel /\ r_connected' = r_connected
  /\ r_frame[r] = NoFrame /\ starved' = starved /\ links' = links
  /\ r_told' = r_told /\ r_ended' = r_ended

\* What every read of a frame does.
LEMMA RReceiveFacts ==
  ASSUME TypeOK, SenderInv, NEW r \in Receivers, RReceive(r)
  PROVE  ReadStep(r, Head(wire[r])) /\ Unmoved(r)
  <1>1. wire'[r] = Tail(wire[r])
    BY DEF RReceive, TypeOK
  <1>2. ReadStep(r, Head(wire[r]))
    BY <1>1 DEF RReceive, ReadStep, sendVars
  <1>3. Unmoved(r)
    BY QuietUnmoved DEF RReceive, sendVars, loopVars, trackVars, SenderInv
  <1> QED
    BY <1>2, <1>3

\* A job about p is posted.
LEMMA AppendQueue ==
  ASSUME TypeOK, NEW r \in Receivers, NEW p \in Payloads, QueueInv(r, p),
         NEW job \in ReceiverJob, job.op # "disconnect", job.p = p,
         r_queue'[r] = Append(r_queue[r], job), r_told'[r][p] = r_told[r][p],
         p \notin r_ended'[r] => \A i \in DOMAIN r_queue[r] : ~EndJob(r_queue[r][i], p),
         EndJob(job, p) /\ p \notin r_ended'[r] =>
           /\ NoneOnWire(r, p)' /\ ~Holds(r, p)'
           /\ job.op = "chunk" => Whole(p, Len(r_got[r][p]))',
         p \in r_ended'[r] /\ p \in r_tracked'[r] =>
           \/ p \in r_ended[r] /\ p \in r_tracked[r]
           \/ job.op = "finished" /\ \A i \in DOMAIN r_queue[r] : ~EndJob(r_queue[r][i], p),
         job.op = "payload" =>
           /\ r_told[r][p] = <<>>
           /\ \A j \in DOMAIN r_queue[r] :
                r_queue[r][j].op # "disconnect" /\ ~JobOf(r_queue[r][j], p),
         p \in r_tracked'[r] /\ r \in r_connected' =>
           (p \in r_tracked[r] /\ r \in r_connected) \/ job.op = "payload"
  PROVE  QueueInv(r, p)'
  <1> DEFINE q == r_queue[r]
             n == Len(q)
  <1>p. PICK q2 : q2 = r_queue'[r]
    OBVIOUS
  <1>q. /\ n \in Nat /\ DOMAIN q = 1 .. n /\ DOMAIN q2 = 1 .. n + 1
        /\ \A i \in 1 .. n : q2[i] = q[i]
        /\ q2[n + 1] = job
    <2>1. q \in Seq(ReceiverJob) /\ q2 = Append(q, job)
      BY <1>p DEF TypeOK
    <2> QED
      BY <2>1, AppendIndex
  <1>1. ASSUME NEW i \in DOMAIN q2, EndJob(q2[i], p), p \notin r_ended'[r]
        PROVE  /\ NoneOnWire(r, p)' /\ ~Holds(r, p)'
               /\ \A j \in DOMAIN q2 : JobOf(q2[j], p) => j <= i
               /\ q2[i].op = "chunk" => Whole(p, Len(r_got[r][p]))'
    <2>1. i = n + 1
      BY <1>q, <1>1
    <2> QED
      BY <1>q, <1>1, <2>1
  <1>2. ASSUME p \in r_ended'[r], p \in r_tracked'[r]
        PROVE  \E k \in DOMAIN q2 : /\ q2[k].op = "finished" /\ q2[k].p = p
                                    /\ \A i \in DOMAIN q2 : i < k => ~EndJob(q2[i], p)
    <2>1. CASE p \in r_ended[r] /\ p \in r_tracked[r]
      <3>1. PICK k \in DOMAIN q : /\ q[k].op = "finished" /\ q[k].p = p
                                  /\ \A i \in DOMAIN q : i < k => ~EndJob(q[i], p)
        BY <2>1 DEF QueueInv
      <3>2. k \in DOMAIN q2 /\ q2[k] = q[k]
        BY <1>q
      <3>3. \A i \in DOMAIN q2 : i < k => ~EndJob(q2[i], p)
        BY <1>q, <3>1
      <3> QED
        BY <3>1, <3>2, <3>3
    <2>2. CASE job.op = "finished" /\ \A i \in DOMAIN q : ~EndJob(q[i], p)
      BY <1>q, <2>2
    <2> QED
      BY <1>2, <2>1, <2>2
  <1>3. ASSUME NEW i \in DOMAIN q2, q2[i].op = "payload", q2[i].p = p
        PROVE  /\ r_told'[r][p] = <<>>
               /\ \A j \in DOMAIN q2 : j < i => q2[j].op # "disconnect" /\ ~JobOf(q2[j], p)
    <2>1. CASE i \in DOMAIN q
      <3>1. /\ r_told[r][p] = <<>>
            /\ \A j \in DOMAIN q : j < i => q[j].op # "disconnect" /\ ~JobOf(q[j], p)
        BY <1>q, <1>3, <2>1 DEF QueueInv
      <3> QED
        BY <1>q, <2>1, <3>1
    <2>2. CASE i = n + 1
      BY <1>q, <1>3, <2>2
    <2> QED
      BY <1>q, <2>1, <2>2
  <1>4. ASSUME p \in r_tracked'[r], r \in r_connected', r_told'[r][p] = <<>>
        PROVE  \E k \in DOMAIN q2 : q2[k].op = "payload" /\ q2[k].p = p
    <2>1. CASE job.op = "payload"
      BY <1>q, <2>1
    <2>2. CASE job.op # "payload"
      <3>1. PICK k \in DOMAIN q : q[k].op = "payload" /\ q[k].p = p
        BY <1>4, <2>2 DEF QueueInv
      <3> QED
        BY <1>q, <3>1
    <2> QED
      BY <2>1, <2>2
  <1> QED
    BY <1>p, <1>1, <1>2, <1>3, <1>4 DEF QueueInv

\* A control message: the payload, if it is tracked, is looked up.
LEMMA RControlKeeps ==
  ASSUME TypeOK, NEW r \in Receivers, ReceiverInv(r), Unmoved(r),
         NEW f, ReadStep(r, f), f.type # "data", RControl(r, f)
  PROVE  ReceiverInv(r)'
  <1>t. /\ r_frame \in [Receivers -> Data \cup Control \cup Line \cup {NoFrame}]
        /\ r_queue[r] \in Seq(ReceiverJob) /\ wire[r] \in Seq(Data \cup Control)
    BY DEF TypeOK
  <1>f. f \in Data \cup Control /\ f.p \in Payloads /\ f.type \in {"canceled", "error"}
        /\ f = wire[r][1] /\ 1 \in DOMAIN wire[r]
    <2>1. f \in Data \cup Control /\ f = wire[r][1] /\ 1 \in DOMAIN wire[r]
      BY <1>t, TailIndex DEF ReadStep
    <2> QED
      BY <2>1, FrameShape
  <1>u. /\ UNCHANGED <<r_tracked, r_endpoint, r_got, r_queue>>
        /\ r_frame'[r] = IF f.p \in r_tracked[r] THEN f ELSE NoFrame
    BY <1>t DEF RControl, ReadStep
  <1>h. /\ \A p : ~Holds(r, p)
        /\ \A p : Holds(r, p)' <=> p = f.p /\ p \in r_tracked[r]
        /\ ~Passing(f)
    BY <1>u, <1>f DEF Holds, ReadStep, Passing, NoFrame
  <1>w. WireInv(r) /\ wire[r] # <<>> /\ f = Head(wire[r]) /\ wire'[r] = Tail(wire[r])
        /\ starved \subseteq starved'
    BY DEF ReceiverInv, ReadStep
  <1>2. \A p \in Payloads \ {f.p} : Fresh(r, p) => Fresh(r, p)'
    BY <1>u, <1>h DEF Fresh, ReadStep
  <1>3. /\ WireInv(r)'
        /\ \A p : NoneOnWire(r, p) => NoneOnWire(r, p)' /\ p # f.p
        /\ ~Passing(f) => NoneOnWire(r, f.p)'
        /\ \A p : AllPassing(r, p) => AllPassing(r, p)' /\ (f.p = p => Passing(f))
        /\ \A p \in Payloads, n \in Int : SentUpTo(r, p, n) => SentUpTo(r, p, n)'
    BY <1>w, <1>h, <1>2, FrameRead
  <1>4. FrameInv(r)'
    <2>1. CASE f.p \in r_tracked[r]
      <3>1. r_frame'[r] = f /\ NoneOnWire(r, f.p)' /\ f.p \in r_tracked'[r]
        BY <1>u, <1>h, <1>3, <2>1
      <3> QED
        BY <1>f, <3>1 DEF FrameInv
    <2>2. CASE f.p \notin r_tracked[r]
      BY <1>u, <2>2, EmptyHandsAfter DEF NoFrame
    <2> QED
      BY <2>1, <2>2
  <1>5. EndpointInv(r)'
    BY <1>u DEF ReceiverInv, EndpointInv, ReadStep
  <1>6. ASSUME NEW p \in Payloads PROVE PayloadInv(r, p)'
    <2>0. SendInv(r, p) /\ QueueInv(r, p) /\ LogInv(r, p) /\ GotInv(r, p)
      BY DEF ReceiverInv, PayloadInv
    <2>1. CASE p # f.p
      <3>1. SamePayload(r, p)
        BY <1>u, <1>h, <1>3, <2>1 DEF SamePayload, ReadStep
      <3>s. Shifted(r_queue[r], r_queue'[r], 0, p)
        BY <1>t, <1>u, SameShifts
      <3>2. /\ QueueInv(r, p)' /\ LogInv(r, p)' /\ GotInv(r, p)'
            /\ Open(r, p) /\ AllPassing(r, p)' => Open(r, p)'
        BY <2>0, <3>1, <3>s, OtherPayload
      <3>3. Open(r, p) => Open(r, p)'
        BY <1>3, <3>2 DEF Open, AllPassing
      <3> QED
        BY <1>3, <2>0, <3>2, <3>3, SendKept DEF PayloadInv
    <2>2. CASE p = f.p
      <3>1. ~NoneOnWire(r, p) /\ ~AllPassing(r, p) /\ NoneOnWire(r, p)'
        BY <1>3, <1>h, <2>2
      <3>2. SendInv(r, p)'
        BY <1>3, <2>0, <3>1, SendKept DEF Open, AllPassing
      <3>3. QueueInv(r, p)'
        BY <1>u, <2>0, <3>1 DEF QueueInv, ReadStep
      <3>4. LogInv(r, p)'
        BY <1>u, <2>0, <3>1 DEF LogInv, ReadStep
      <3>5. GotInv(r, p)'
        BY <1>u, <2>0 DEF GotInv, ReadStep
      <3> QED
        BY <3>2, <3>3, <3>4, <3>5 DEF PayloadInv
    <2> QED
      BY <2>1, <2>2
  <1> QED
    BY <1>3, <1>4, <1>5, <1>6 DEF ReceiverInv

\* What is known of a data frame that is read.
LEMMA ReadFrame ==
  ASSUME TypeOK, NEW r \in Receivers, ReceiverInv(r), NEW f, ReadStep(r, f), f.type = "data"
  PROVE  /\ f \in Data /\ f.p \in Payloads /\ f.offset \in Nat
         /\ f = wire[r][1] /\ 1 \in DOMAIN wire[r] /\ wire[r] # <<>>
         /\ ~NoneOnWire(r, f.p)
         /\ ChunkInv(f)
         /\ f.offset = 0 => Fresh(r, f.p)
         /\ f.offset # 0 => At(r, f.p, f.offset)
         /\ \A p : ~Holds(r, p)
  <1>1. wire[r] \in Seq(Data \cup Control)
    BY DEF TypeOK
  <1>2. f \in Data \cup Control /\ f = wire[r][1] /\ 1 \in DOMAIN wire[r] /\ wire[r] # <<>>
    BY <1>1, TailIndex DEF ReadStep
  <1>3. f \in Data /\ f.p \in Payloads /\ f.offset \in Nat
    BY <1>2, FrameShape, DataShape
  <1>4. /\ ChunkInv(f)
        /\ f.offset = 0 => Fresh(r, f.p)
        /\ f.offset # 0 => At(r, f.p, f.offset)
    BY <1>2 DEF ReceiverInv, WireInv
  <1>5. ~NoneOnWire(r, f.p)
    BY <1>2 DEF NoneOnWire
  <1>6. \A p : ~Holds(r, p)
    BY DEF Holds, ReadStep, NoFrame
  <1> QED
    BY <1>2, <1>3, <1>4, <1>5, <1>6

\* The first chunk: the payload is tracked from here on.
LEMMA RStartKeeps ==
  ASSUME TypeOK, NEW r \in Receivers, ReceiverInv(r), Unmoved(r),
         NEW f, ReadStep(r, f), f.type = "data", f.offset = 0, RStart(r, f)
  PROVE  ReceiverInv(r)'
  <1> DEFINE q == r_queue[r]
             job == [op |-> "payload", p |-> f.p]
  <1>t. /\ r_queue \in [Receivers -> Seq(ReceiverJob)] /\ q \in Seq(ReceiverJob)
        /\ r_tracked \in [Receivers -> SUBSET Payloads]
        /\ r_endpoint \in [Receivers -> SUBSET Payloads]
        /\ r_got \in [Receivers -> [Payloads -> Seq(1 .. Size)]]
        /\ r_frame \in [Receivers -> Data \cup Control \cup Line \cup {NoFrame}]
    BY DEF TypeOK
  <1>f. /\ f \in Data /\ f.p \in Payloads /\ f # NoFrame
        /\ ~NoneOnWire(r, f.p) /\ ChunkInv(f) /\ Fresh(r, f.p) /\ \A p : ~Holds(r, p)
    BY ReadFrame, DataShape
  <1>j. job \in ReceiverJob /\ job.op = "payload" /\ job.p = f.p
    BY <1>f, ReceiverJobTypes
  <1>u. /\ r_tracked'[r] = r_tracked[r] \cup {f.p} /\ r_endpoint'[r] = r_endpoint[r] \cup {f.p}
        /\ r_queue'[r] = Append(q, job) /\ r_frame'[r] = f
    BY <1>t DEF RStart, Post
  <1>g. /\ \A p \in Payloads \ {f.p} : r_got'[r][p] = r_got[r][p]
        /\ r_got'[r][f.p] = <<>>
    BY <1>t, <1>f DEF RStart
  <1> HIDE DEF job
  <1>h. \A p : Holds(r, p)' <=> p = f.p
    BY <1>u, <1>f DEF Holds
  <1>w. WireInv(r) /\ wire[r] # <<>> /\ f = Head(wire[r]) /\ wire'[r] = Tail(wire[r])
        /\ starved \subseteq starved'
    BY DEF ReceiverInv, ReadStep
  <1>1. \A p \in Payloads \ {f.p} : Shifted(q, r_queue'[r], 0, p)
    <2> SUFFICES ASSUME NEW p \in Payloads \ {f.p} PROVE Shifted(q, r_queue'[r], 0, p)
      OBVIOUS
    <2>1. ~JobOf(job, p)
      BY <1>j DEF JobOf
    <2> QED
      BY <1>t, <1>u, <1>j, <2>1, AppendShifts
  <1>2. \A p \in Payloads \ {f.p} : Fresh(r, p) => Fresh(r, p)'
    <2>1. \A p \in Payloads \ {f.p} :
            (\A i \in DOMAIN q : ~JobOf(q[i], p)) =>
              (\A i \in DOMAIN r_queue'[r] : ~JobOf(r_queue'[r][i], p))
      BY <1>1 DEF Shifted
    <2> QED
      BY <1>u, <1>h, <2>1 DEF Fresh, ReadStep
  <1>a. Passing(f) => At(r, f.p, f.offset + 1)'
    BY <1>u, <1>h, <1>f DEF At
  <1>3. /\ WireInv(r)'
        /\ \A p : NoneOnWire(r, p) => NoneOnWire(r, p)' /\ p # f.p
        /\ ~Passing(f) => NoneOnWire(r, f.p)'
        /\ \A p : AllPassing(r, p) => AllPassing(r, p)' /\ (f.p = p => Passing(f))
        /\ \A p \in Payloads, n \in Int : SentUpTo(r, p, n) => SentUpTo(r, p, n)'
    BY <1>w, <1>2, <1>a, FrameRead
  <1>4. FrameInv(r)'
    <2>1. ChunkInv(f)'
      BY <1>f DEF ChunkInv, Whole, ReadStep
    <2>2. Len(r_got'[r][f.p]) = f.offset
      BY <1>g
    <2> QED
      BY <1>u, <1>3, <2>1, <2>2 DEF FrameInv, Passing
  <1>q. /\ Len(q) \in Nat /\ DOMAIN q = 1 .. Len(q)
        /\ DOMAIN r_queue'[r] = 1 .. Len(q) + 1
        /\ \A i \in 1 .. Len(q) : r_queue'[r][i] = q[i]
        /\ r_queue'[r][Len(q) + 1] = job
    BY <1>t, <1>u, <1>j, AppendIndex
  <1>5. EndpointInv(r)'
    BY <1>u, <1>q, <1>j DEF ReceiverInv, EndpointInv, ReadStep
  <1>6. ASSUME NEW p \in Payloads PROVE PayloadInv(r, p)'
    <2>0. SendInv(r, p) /\ QueueInv(r, p) /\ LogInv(r, p) /\ GotInv(r, p)
      BY DEF ReceiverInv, PayloadInv
    <2>1. CASE p # f.p
      <3>1. SamePayload(r, p)
        BY <1>u, <1>g, <1>h, <1>f, <1>3, <2>1 DEF SamePayload, ReadStep
      <3>2. /\ QueueInv(r, p)' /\ LogInv(r, p)' /\ GotInv(r, p)'
            /\ Open(r, p) /\ AllPassing(r, p)' => Open(r, p)'
        BY <1>1, <2>0, <2>1, <3>1, OtherPayload
      <3>3. Open(r, p) => Open(r, p)'
        BY <1>3, <3>2 DEF Open, AllPassing
      <3> QED
        BY <1>3, <2>0, <3>2, <3>3, SendKept DEF PayloadInv
    <2>2. CASE p = f.p
      <3>0. /\ Fresh(r, p) /\ r_told'[r][p] = <<>> /\ p \notin r_ended'[r]
            /\ \A i \in DOMAIN q : ~JobOf(q[i], p) /\ ~EndJob(q[i], p)
        BY <1>f, <2>2 DEF Fresh, ReadStep, EndJob
      <3>1. ~EndJob(job, p)
        BY <1>j DEF EndJob
      <3>2. Open(r, p) => Open(r, p)'
        <4> SUFFICES ASSUME Open(r, p) PROVE Open(r, p)'
          OBVIOUS
        <4>1. AllPassing(r, p)' /\ Passing(f)
          BY <1>3, <2>2 DEF Open, AllPassing
        <4>2. \A i \in DOMAIN r_queue'[r] : ~EndJob(r_queue'[r][i], p)
          BY <1>q, <3>0, <3>1
        <4>3. ~Ends(<<>>) /\ \A i \in DOMAIN <<>> : <<>>[i] # "success"
          BY DEF Ends
        <4> QED
          BY <1>u, <3>0, <4>1, <4>2, <4>3 DEF Open, AllPassing
      <3>3. SendInv(r, p)'
        BY <1>3, <2>0, <3>2, SendKept
      <3>4. QueueInv(r, p)'
        <4>1. \A j \in DOMAIN q : q[j].op # "disconnect"
          BY DEF ReceiverInv, EndpointInv, ReadStep
        <4> QED
          BY <1>j, <1>u, <2>0, <2>2, <3>0, <3>1, <4>1, AppendQueue DEF Fresh
      <3>5. LogInv(r, p)'
        BY <3>0 DEF LogInv, Ends, EndsLast
      <3>6. GotInv(r, p)'
        BY <1>g, <2>2 DEF GotInv
      <3> QED
        BY <3>3, <3>4, <3>5, <3>6 DEF PayloadInv
    <2> QED
      BY <2>1, <2>2
  <1> QED
    BY <1>3, <1>4, <1>5, <1>6 DEF ReceiverInv

\* A later chunk: of a payload that is tracked, or of one that was given up.
LEMMA RDataKeeps ==
  ASSUME TypeOK, NEW r \in Receivers, ReceiverInv(r), Unmoved(r),
         NEW f, ReadStep(r, f), f.type = "data", f.offset # 0, RData(r, f)
  PROVE  ReceiverInv(r)'
  <1>t. /\ r_frame \in [Receivers -> Data \cup Control \cup Line \cup {NoFrame}]
        /\ r_queue[r] \in Seq(ReceiverJob)
    BY DEF TypeOK
  <1>f. /\ f \in Data /\ f.p \in Payloads /\ f # NoFrame /\ f.offset \in Nat
        /\ ~NoneOnWire(r, f.p) /\ ChunkInv(f) /\ At(r, f.p, f.offset) /\ \A p : ~Holds(r, p)
    BY ReadFrame, DataShape
  <1>u. /\ UNCHANGED <<r_tracked, r_endpoint, r_got, r_queue>>
        /\ r_frame'[r] = IF f.p \in r_tracked[r] THEN f ELSE r_frame[r]
    BY <1>t DEF RData
  <1>h. \A p : Holds(r, p)' <=> p = f.p /\ p \in r_tracked[r]
    BY <1>u, <1>f DEF Holds, ReadStep
  <1>a. /\ f.p \in r_ended[r] \/ (f.p \in r_tracked[r] /\ Len(r_got[r][f.p]) = f.offset)
        /\ Passing(f) => At(r, f.p, f.offset + 1)'
    <2>1. f.p \in r_ended[r] \/ (f.p \in r_tracked[r] /\ Len(r_got[r][f.p]) = f.offset)
      BY <1>f DEF At
    <2>2. CASE f.p \in r_ended[r]
      BY <2>1, <2>2 DEF At, ReadStep
    <2>3. CASE f.p \in r_tracked[r]
      <3>1. f.offset + 1 - 1 = f.offset
        BY <1>f
      <3>2. Holds(r, f.p)' /\ r_frame'[r] = f /\ f.p \in r_tracked'[r]
        BY <1>u, <1>h, <2>3
      <3> QED
        <4> SUFFICES ASSUME Passing(f) PROVE At(r, f.p, f.offset + 1)'
          BY <2>1
        <4>m. PICK m : m = f.offset + 1
          OBVIOUS
        <4>1. r_frame'[r].offset = m - 1
          <5>1. f.offset = m - 1
            BY <1>f, <4>m
          <5> QED
            BY <3>2, <5>1
        <4>2. Passing(r_frame[r])'
          BY <3>2 DEF Passing
        <4>3. At(r, f.p, m)'
          BY <3>2, <4>1, <4>2 DEF At
        <4> QED
          BY <4>3, <4>m
    <2> QED
      BY <2>1, <2>2, <2>3
  <1>w. WireInv(r) /\ wire[r] # <<>> /\ f = Head(wire[r]) /\ wire'[r] = Tail(wire[r])
        /\ starved \subseteq starved'
    BY DEF ReceiverInv, ReadStep
  <1>2. \A p \in Payloads \ {f.p} : Fresh(r, p) => Fresh(r, p)'
    BY <1>u, <1>h DEF Fresh, ReadStep
  <1>3. /\ WireInv(r)'
        /\ \A p : NoneOnWire(r, p) => NoneOnWire(r, p)' /\ p # f.p
        /\ ~Passing(f) => NoneOnWire(r, f.p)'
        /\ \A p : AllPassing(r, p) => AllPassing(r, p)' /\ (f.p = p => Passing(f))
        /\ \A p \in Payloads, n \in Int : SentUpTo(r, p, n) => SentUpTo(r, p, n)'
    BY <1>w, <1>2, <1>a, FrameRead
  <1>4. FrameInv(r)'
    <2>1. ChunkInv(f)'
      BY <1>f DEF ChunkInv, Whole, ReadStep
    <2>2. CASE f.p \in r_tracked[r]
      <3>1. r_frame'[r] = f
        BY <1>u, <2>2
      <3> QED
        BY <1>u, <1>f, <1>a, <1>3, <2>1, <3>1, DataShape DEF FrameInv, Passing, ReadStep
    <2>3. CASE f.p \notin r_tracked[r]
      BY <1>u, <2>3, EmptyHandsAfter DEF ReadStep, NoFrame
    <2> QED
      BY <2>2, <2>3
  <1>5. EndpointInv(r)'
    BY <1>u DEF ReceiverInv, EndpointInv, ReadStep
  <1>6. ASSUME NEW p \in Payloads PROVE PayloadInv(r, p)'
    <2>0. SendInv(r, p) /\ QueueInv(r, p) /\ LogInv(r, p) /\ GotInv(r, p)
      BY DEF ReceiverInv, PayloadInv
    <2>1. CASE p # f.p
      <3>1. SamePayload(r, p)
        BY <1>u, <1>h, <1>f, <1>3, <2>1 DEF SamePayload, ReadStep
      <3>s. Shifted(r_queue[r], r_queue'[r], 0, p)
        BY <1>t, <1>u, SameShifts
      <3>2. /\ QueueInv(r, p)' /\ LogInv(r, p)' /\ GotInv(r, p)'
            /\ Open(r, p) /\ AllPassing(r, p)' => Open(r, p)'
        BY <2>0, <3>1, <3>s, OtherPayload
      <3>3. Open(r, p) => Open(r, p)'
        BY <1>3, <3>2 DEF Open, AllPassing
      <3> QED
        BY <1>3, <2>0, <3>2, <3>3, SendKept DEF PayloadInv
    <2>2. CASE p = f.p
      <3>1. ~NoneOnWire(r, p)
        BY <1>f, <2>2
      <3>2. Open(r, p) => Open(r, p)'
        <4> SUFFICES ASSUME Open(r, p) PROVE Open(r, p)'
          OBVIOUS
        <4>1. AllPassing(r, p)' /\ Passing(f)
          BY <1>3, <2>2 DEF Open, AllPassing
        <4> QED
          BY <1>u, <1>h, <2>2, <4>1 DEF Open, AllPassing, ReadStep
      <3>3. SendInv(r, p)'
        BY <1>3, <2>0, <3>2, SendKept
      <3>4. QueueInv(r, p)'
        BY <1>u, <2>0, <3>1 DEF QueueInv, ReadStep
      <3>5. LogInv(r, p)'
        BY <1>u, <2>0, <3>1 DEF LogInv, ReadStep
      <3>6. GotInv(r, p)'
        BY <1>u, <2>0 DEF GotInv, ReadStep
      <3> QED
        BY <3>3, <3>4, <3>5, <3>6 DEF PayloadInv
    <2> QED
      BY <2>1, <2>2
  <1> QED
    BY <1>3, <1>4, <1>5, <1>6 DEF ReceiverInv

\* OnIncomingFrame keeps the receiver's invariant.
LEMMA RReceiveKeeps ==
  ASSUME TypeOK, SenderInv, NEW r \in Receivers, ReceiverInv(r), RReceive(r)
  PROVE  ReceiverInv(r)'
  <1>1. PICK f : f = Head(wire[r])
    OBVIOUS
  <1>2. ReadStep(r, f) /\ Unmoved(r)
    BY <1>1, RReceiveFacts
  <1>3. CASE f.type # "data" /\ RControl(r, f)
    BY <1>2, <1>3, RControlKeeps
  <1>4. CASE f.type = "data" /\ f.offset = 0 /\ RStart(r, f)
    BY <1>2, <1>4, RStartKeeps
  <1>5. CASE f.type = "data" /\ f.offset # 0 /\ RData(r, f)
    BY <1>2, <1>5, RDataKeeps
  <1> QED
    BY <1>1, <1>3, <1>4, <1>5 DEF RReceive, RData

----------------------------------------------------------------------------
(* The reader: a chunk is attached, a control message is acted on *)

\* The reader is done with a frame f; wire and logs stay as they are.
AttachStep(r, f) ==
  /\ r_frame[r] = f /\ r_frame'[r].type \in {"none", "line"}
  /\ wire' = wire /\ links' = links /\ starved' = starved
  /\ r_channel' = r_channel /\ r_connected' = r_connected
  /\ r_tracked' = r_tracked /\ r_endpoint' = r_endpoint /\ r_told' = r_told

\* What every end of ProcessDataPacket does.
LEMMA AttachFacts ==
  ASSUME TypeOK, SenderInv, NEW r \in Receivers, ReceiverInv(r), RAttach(r)
  PROVE  /\ AttachStep(r, r_frame[r]) /\ Unmoved(r) /\ r_frame[r] \in Data
  <1>1. r_frame \in [Receivers -> Data \cup Control \cup Line \cup {NoFrame}]
    BY DEF TypeOK
  <1>2. r_frame'[r] = NoFrame /\ r_frame[r] \in Data
    BY <1>1, HeldShape DEF RAttach
  <1>3. AttachStep(r, r_frame[r])
    BY <1>2 DEF RAttach, AttachStep, sendVars, NoFrame
  <1>4. Unmoved(r)
    BY QuietUnmoved DEF RAttach, sendVars, loopVars, trackVars, SenderInv
  <1> QED
    BY <1>2, <1>3, <1>4

\* What is left to show of an attached frame, whatever became of its payload.
LEMMA Attached ==
  ASSUME TypeOK, NEW r \in Receivers, ReceiverInv(r), Unmoved(r),
         NEW f \in Data \cup Control, AttachStep(r, f), NEW job \in ReceiverJob,
         r_queue'[r] = Append(r_queue[r], job) \/ r_queue'[r] = r_queue[r],
         job.op \in {"chunk", "finished"}, job.p = f.p,
         job.op = "finished" => job.what # "success",
         \A p \in Payloads \ {f.p} :
           r_got'[r][p] = r_got[r][p] /\ (p \in r_ended'[r] <=> p \in r_ended[r]),
         \A n \in Int : At(r, f.p, n) => At(r, f.p, n)',
         Open(r, f.p) => Open(r, f.p)',
         QueueInv(r, f.p)', GotInv(r, f.p)'
  PROVE  ReceiverInv(r)'
  <1> DEFINE q == r_queue[r]
  <1>t. q \in Seq(ReceiverJob) /\ wire[r] \in Seq(Data \cup Control)
    BY DEF TypeOK
  <1>f. f.p \in Payloads /\ f.type \in {"data", "canceled", "error"}
    BY FrameShape, DataShape
  <1>h. FrameInv(r)' /\ \A p : (Holds(r, p) <=> p = f.p) /\ ~Holds(r, p)'
    BY <1>f, EmptyHandsAfter DEF Holds, AttachStep
  <1>n. \A p : NoneOnWire(r, p)' <=> NoneOnWire(r, p)
    BY DEF NoneOnWire, AttachStep
  <1>q. \A i \in DOMAIN r_queue'[r] :
          (i \in DOMAIN q /\ r_queue'[r][i] = q[i]) \/ r_queue'[r][i] = job
    BY <1>t, AppendIndex
  <1>o. ASSUME NEW p \in Payloads \ {f.p}
        PROVE  /\ QueueInv(r, p)' /\ LogInv(r, p)' /\ GotInv(r, p)'
               /\ Fresh(r, p) => Fresh(r, p)'
               /\ Open(r, p) => Open(r, p)'
    <2>1. Shifted(q, r_queue'[r], 0, p)
      <3>1. ~JobOf(job, p)
        BY DEF JobOf
      <3> QED
        BY <1>t, <3>1, AppendShifts, SameShifts
    <2>2. SamePayload(r, p)
      BY <1>h, <1>n DEF SamePayload, AttachStep
    <2>3. QueueInv(r, p) /\ LogInv(r, p) /\ GotInv(r, p)
      BY DEF ReceiverInv, PayloadInv
    <2>4. /\ QueueInv(r, p)' /\ LogInv(r, p)' /\ GotInv(r, p)'
          /\ Fresh(r, p) => Fresh(r, p)'
          /\ Open(r, p) /\ AllPassing(r, p)' => Open(r, p)'
      BY <2>1, <2>2, <2>3, OtherPayload
    <2>5. Open(r, p) => AllPassing(r, p)'
      BY DEF Open, AllPassing, AttachStep
    <2> QED
      BY <2>4, <2>5
  <1>a. /\ \A p \in Payloads : Fresh(r, p) => Fresh(r, p)'
        /\ \A p \in Payloads, n \in Int : At(r, p, n) => At(r, p, n)'
    <2>1. ~Fresh(r, f.p)
      BY <1>h DEF Fresh
    <2>2. ASSUME NEW p \in Payloads \ {f.p}, NEW n \in Int, At(r, p, n)
          PROVE  At(r, p, n)'
      BY <1>h, <2>2 DEF At, AttachStep
    <2> QED
      BY <1>o, <2>1, <2>2
  <1>1. WireInv(r)'
    <2>1. \A i \in DOMAIN wire[r] : wire[r][i] \in Data \cup Control
      BY <1>t
    <2>2. \A i \in DOMAIN wire[r] : /\ wire[r][i].p \in Payloads
                                    /\ wire[r][i].type = "data" => wire[r][i].offset \in Int
      BY <2>1, FrameShape, DataShape
    <2>3. \A g : ChunkInv(g)' <=> ChunkInv(g)
      BY DEF ChunkInv, Whole, AttachStep
    <2>4. wire[r] # <<>> => 1 \in DOMAIN wire[r]
      BY <1>t
    <2>5. WireInv(r) /\ wire' = wire
      BY DEF ReceiverInv, AttachStep
    <2> QED
      BY <1>a, <2>2, <2>3, <2>4, <2>5 DEF WireInv
  <1>2. FrameInv(r)'
    BY <1>h
  <1>3. EndpointInv(r)'
    BY <1>q DEF ReceiverInv, EndpointInv, AttachStep
  <1>4. ASSUME NEW p \in Payloads PROVE PayloadInv(r, p)'
    <2>1. \A n \in Int : SentUpTo(r, p, n) => SentUpTo(r, p, n)'
      BY <1>a, <1>n DEF SentUpTo, AttachStep
    <2>2. Open(r, p) => Open(r, p)'
      BY <1>o
    <2>3. SendInv(r, p)'
      BY <2>1, <2>2, SendKept DEF ReceiverInv, PayloadInv
    <2>4. LogInv(r, p)'
      <3>1. CASE p = f.p
        <4>1. LogInv(r, p) /\ Holds(r, p)
          BY <1>h, <3>1 DEF ReceiverInv, PayloadInv
        <4> QED
          BY <4>1 DEF LogInv, AttachStep
      <3>2. CASE p # f.p
        BY <1>o, <3>2
      <3> QED
        BY <3>1, <3>2
    <2> QED
      BY <1>o, <2>3, <2>4 DEF PayloadInv
  <1> QED
    BY <1>1, <1>2, <1>3, <1>4 DEF ReceiverInv

\* The receiver gives the payload up.
LEMMA GivesUpKeeps ==
  ASSUME TypeOK, NEW r \in Receivers, ReceiverInv(r), Unmoved(r),
         NEW f \in Data, AttachStep(r, f),
         NEW what \in {"canceled", "failure"}, NEW answer, RGivesUp(r, f.p, what, answer)
  PROVE  ReceiverInv(r)'
  <1> DEFINE q == r_queue[r]
             job == [op |-> "finished", p |-> f.p, what |-> what]
  <1>t. /\ r_queue \in [Receivers -> Seq(ReceiverJob)] /\ q \in Seq(ReceiverJob)
        /\ r_ended \in [Receivers -> SUBSET Payloads]
    BY DEF TypeOK
  <1>f. f.p \in Payloads /\ Holds(r, f.p)
    BY DataShape DEF Holds, AttachStep
  <1>j. job \in ReceiverJob /\ job.op = "finished" /\ job.p = f.p /\ job.what # "success"
    <2>1. what \in Final
      BY DEF Final
    <2> QED
      BY <1>f, <2>1, ReceiverJobTypes
  <1>u. /\ r_queue'[r] = Append(q, job) /\ r_got' = r_got
        /\ r_ended'[r] = r_ended[r] \cup ({f.p} \cap r_tracked[r])
    BY <1>t DEF RGivesUp, Post
  <1> HIDE DEF job
  <1>0. QueueInv(r, f.p) /\ FrameInv(r)
    BY <1>f DEF ReceiverInv, PayloadInv
  <1>1. f.p \in r_ended'[r]
    BY <1>u, <1>0, DataShape DEF FrameInv, AttachStep
  <1>2. \A n \in Int : At(r, f.p, n) => At(r, f.p, n)'
    BY <1>1 DEF At
  <1>3. Open(r, f.p) => Open(r, f.p)'
    <2>1. ~Holds(r, f.p)'
      BY EmptyHandsAfter DEF AttachStep
    <2> QED
      BY <1>1, <2>1 DEF Open, AttachStep
  <1>4. QueueInv(r, f.p)'
    <2>1. f.p \in r_ended[r] \/ \A i \in DOMAIN q : ~EndJob(q[i], f.p)
      BY <1>0, <1>f DEF QueueInv
    <2> QED
      BY <1>0, <1>1, <1>f, <1>j, <1>u, <2>1, AppendQueue DEF AttachStep
  <1>5. GotInv(r, f.p)'
    BY <1>1 DEF GotInv
  <1> QED
    BY <1>j, <1>u, <1>1, <1>2, <1>3, <1>4, <1>5, Attached

\* The chunk is attached to its payload.
LEMMA AttachesKeeps ==
  ASSUME TypeOK, NEW r \in Receivers, ReceiverInv(r), Unmoved(r),
         NEW f \in Data, AttachStep(r, f), f.p \in r_tracked[r],
         Post(r, [op |-> "chunk", p |-> f.p, chunk |-> f.chunk]),
         r_got' = IF f.chunk = Last THEN r_got
                  ELSE [r_got EXCEPT ![r][f.p] = Append(@, f.chunk)],
         r_ended' = r_ended
  PROVE  ReceiverInv(r)'
  <1> DEFINE q == r_queue[r]
             p == f.p
             job == [op |-> "chunk", p |-> f.p, chunk |-> f.chunk]
  <1>t. /\ r_queue \in [Receivers -> Seq(ReceiverJob)] /\ q \in Seq(ReceiverJob)
        /\ r_got \in [Receivers -> [Payloads -> Seq(1 .. Size)]]
    BY DEF TypeOK
  <1>f. p \in Payloads /\ Holds(r, p) /\ f.offset \in Nat /\ f.chunk \in 0 .. Size
    BY DataShape DEF Holds, AttachStep
  <1>j. job \in ReceiverJob /\ job.op = "chunk" /\ job.p = p /\ job.chunk = f.chunk
    BY <1>f, ReceiverJobTypes
  <1>u. r_queue'[r] = Append(q, job)
    BY <1>t DEF Post
  <1> HIDE DEF job
  <1>g. /\ \A s \in Payloads \ {p} : r_got'[r][s] = r_got[r][s]
        /\ r_got'[r][p] = IF f.chunk = Last THEN r_got[r][p] ELSE Append(r_got[r][p], f.chunk)
    BY <1>t, <1>f
  <1>0. QueueInv(r, p) /\ FrameInv(r) /\ GotInv(r, p)
    BY <1>f DEF ReceiverInv, PayloadInv
  <1>1. /\ ChunkInv(f)
        /\ p \notin r_ended[r] => Len(r_got[r][p]) = f.offset
        /\ f.chunk = Last => NoneOnWire(r, p)
    BY <1>0, DataShape DEF FrameInv, AttachStep
  <1>h. ~Holds(r, p)'
    BY EmptyHandsAfter DEF AttachStep
  <1>l. f.chunk # Last =>
          /\ r_got[r][p] \in Seq(1 .. Size)
          /\ Len(r_got'[r][p]) = Len(r_got[r][p]) + 1
          /\ DOMAIN r_got'[r][p] = 1 .. Len(r_got[r][p]) + 1
          /\ \A i \in 1 .. Len(r_got[r][p]) : r_got'[r][p][i] = r_got[r][p][i]
          /\ r_got'[r][p][Len(r_got[r][p]) + 1] = f.chunk
    BY <1>t, <1>f, <1>g
  <1>2. ASSUME NEW n \in Int, At(r, p, n) PROVE At(r, p, n)'
    <2>1. CASE p \in r_ended[r]
      BY <2>1 DEF At
    <2>2. CASE p \notin r_ended[r]
      <3>1. r_frame[r].offset = n - 1 /\ Passing(r_frame[r])
        BY <1>2, <1>f, <2>2 DEF At
      <3>2. f.offset = n - 1 /\ f.chunk # Last
        BY <3>1 DEF AttachStep, Passing
      <3>3. Len(r_got'[r][p]) = n
        BY <1>f, <1>1, <1>l, <2>2, <3>2
      <3> QED
        BY <1>h, <3>3 DEF At, AttachStep
    <2> QED
      BY <2>1, <2>2
  <1>q. /\ Len(q) \in Nat /\ DOMAIN q = 1 .. Len(q)
        /\ DOMAIN r_queue'[r] = 1 .. Len(q) + 1
        /\ \A i \in 1 .. Len(q) : r_queue'[r][i] = q[i]
        /\ r_queue'[r][Len(q) + 1] = job
    BY <1>t, <1>u, <1>j, AppendIndex
  <1>3. ASSUME Open(r, p) PROVE Open(r, p)'
    <2>1. f.chunk # Last
      BY <1>3, <1>f DEF Open, Passing, AttachStep
    <2>2. ~EndJob(job, p)
      BY <1>j, <2>1 DEF EndJob
    <2>3. p \notin r_ended[r] => \A i \in DOMAIN r_queue'[r] : ~EndJob(r_queue'[r][i], p)
      BY <1>3, <1>q, <2>2 DEF Open
    <2> QED
      BY <1>3, <1>h, <2>3 DEF Open, AttachStep
  <1>4. QueueInv(r, p)'
    <2>1. p \notin r_ended[r] => \A i \in DOMAIN q : ~EndJob(q[i], p)
      BY <1>0, <1>f DEF QueueInv
    <2>2. ASSUME EndJob(job, p), p \notin r_ended[r]
          PROVE  NoneOnWire(r, p)' /\ Whole(p, Len(r_got[r][p]))'
      <3>1. f.chunk = Last
        BY <1>j, <2>2 DEF EndJob
      <3>2. Whole(p, Len(r_got[r][p]))
        BY <1>1, <2>2, <3>1, DataShape DEF ChunkInv
      <3>3. r_got'[r][p] = r_got[r][p]
        BY <1>g, <3>1
      <3> QED
        BY <1>1, <3>1, <3>2, <3>3 DEF Whole, NoneOnWire, AttachStep
    <2> QED
      BY <1>0, <1>f, <1>h, <1>j, <1>u, <2>1, <2>2, AppendQueue DEF AttachStep
  <1>5. GotInv(r, p)'
    <2> SUFFICES ASSUME p \notin r_ended[r] PROVE GotInv(r, p)'
      BY DEF GotInv
    <2>1. \A i \in DOMAIN r_got[r][p] : r_got[r][p][i] = ResumeOffset + i
      BY <1>0 DEF GotInv
    <2>2. CASE f.chunk = Last
      BY <1>g, <2>1, <2>2 DEF GotInv
    <2>3. CASE f.chunk # Last
      <3>0. f.chunk = f.offset + ResumeOffset + 1
        BY <1>1, <2>3, DataShape, Zenon DEF ChunkInv
      <3>1. f.chunk = ResumeOffset + (Len(r_got[r][p]) + 1)
        <4>1. Len(r_got[r][p]) = f.offset /\ f.offset \in Nat /\ ResumeOffset \in Int
          BY <1>1, <1>f, PayloadConstants
        <4> HIDE DEF p
        <4> QED
          BY <3>0, <4>1
      <3>2. \A i \in DOMAIN r_got'[r][p] : r_got'[r][p][i] = ResumeOffset + i
        BY <1>l, <2>1, <2>3, <3>1
      <3> QED
        BY <3>2 DEF GotInv
    <2> QED
      BY <2>2, <2>3
  <1> QED
    BY <1>j, <1>u, <1>g, <1>2, <1>3, <1>4, <1>5, Attached

\* The second half of ProcessDataPacket keeps the receiver's invariant.
LEMMA RAttachKeeps ==
  ASSUME TypeOK, SenderInv, NEW r \in Receivers, ReceiverInv(r), RAttach(r)
  PROVE  ReceiverInv(r)'
  <1>1. PICK f : f = r_frame[r]
    OBVIOUS
  <1>2. AttachStep(r, f) /\ Unmoved(r) /\ f \in Data
    BY <1>1, AttachFacts
  <1>3. ASSUME NEW what \in {"canceled", "failure"}, NEW answer, RGivesUp(r, f.p, what, answer)
        PROVE  ReceiverInv(r)'
    BY <1>2, <1>3, GivesUpKeeps
  <1>4. CASE /\ f.p \in r_tracked[r]
             /\ IF f.chunk = Last THEN UNCHANGED r_got
                ELSE r_got' = [r_got EXCEPT ![r][f.p] = Append(@, f.chunk)]
             /\ Post(r, [op |-> "chunk", p |-> f.p, chunk |-> f.chunk])
             /\ UNCHANGED r_ended
    <2>1. r_got' = IF f.chunk = Last THEN r_got
                   ELSE [r_got EXCEPT ![r][f.p] = Append(@, f.chunk)]
      BY <1>4
    <2> QED
      BY <1>2, <1>4, <2>1, AttachesKeeps
  <1>5. \/ \E what \in {"canceled", "failure"}, answer \in {"canceled", "error"} :
             RGivesUp(r, f.p, what, answer)
        \/ /\ f.p \in r_tracked[r]
           /\ IF f.chunk = Last THEN UNCHANGED r_got
              ELSE r_got' = [r_got EXCEPT ![r][f.p] = Append(@, f.chunk)]
           /\ Post(r, [op |-> "chunk", p |-> f.p, chunk |-> f.chunk])
           /\ UNCHANGED r_ended
    BY <1>1 DEF RAttach, Freed
  <1> QED
    BY <1>3, <1>4, <1>5

\* A control message is acted on: the payload is to be finished, unless it was
\* freed, and then it was given up.
LEMMA ROnControlKeeps ==
  ASSUME TypeOK, SenderInv, NEW r \in Receivers, ReceiverInv(r), ROnControl(r)
  PROVE  ReceiverInv(r)'
  <1>p. PICK f, p : f = r_frame[r] /\ p = f.p
    OBVIOUS
  <1> DEFINE q == r_queue[r]
             job == [op |-> "finished", p |-> p, what |-> RemoteEnd(f.type)]
  <1>t. /\ r_queue \in [Receivers -> Seq(ReceiverJob)] /\ q \in Seq(ReceiverJob)
        /\ r_frame \in [Receivers -> Data \cup Control \cup Line \cup {NoFrame}]
    BY DEF TypeOK
  <1>f. /\ f \in Control /\ p \in Payloads /\ f.type \in {"canceled", "error"}
        /\ Holds(r, p) /\ ~Passing(f)
    <2>1. f.type \in {"canceled", "error"}
      BY <1>p DEF ROnControl
    <2>2. f \in Control
      BY <1>p, <2>1, HeldShape
    <2> QED
      BY <1>p, <2>1, <2>2, FrameShape DEF Holds, Passing
  <1>j. job \in ReceiverJob /\ job.op = "finished" /\ job.p = p /\ job.what # "success"
    <2>1. RemoteEnd(f.type) \in Final /\ RemoteEnd(f.type) # "success"
      BY DEF RemoteEnd, Final
    <2> QED
      BY <1>f, <2>1, ReceiverJobTypes
  <1>s. AttachStep(r, f)
    <2>1. r_frame'[r].type \in {"none", "line"}
      BY <1>t DEF ROnControl, NoFrame
    <2> QED
      BY <1>p, <2>1 DEF ROnControl, AttachStep, sendVars, wireVars
  <1>u. /\ r_got' = r_got /\ r_ended' = r_ended /\ r_tracked' = r_tracked
        /\ \/ r_queue'[r] = Append(q, job)
           \/ p \notin r_tracked[r] /\ r_queue'[r] = q
    BY <1>t, <1>p DEF ROnControl, Post, Freed
  <1>m. Unmoved(r)
    BY QuietUnmoved DEF ROnControl, sendVars, wireVars, loopVars, trackVars, SenderInv
  <1> HIDE DEF job
  <1>0. /\ QueueInv(r, p) /\ GotInv(r, p)
        /\ p \in r_ended[r] \/ p \in r_tracked[r]
        /\ NoneOnWire(r, p)
    BY <1>f, <1>p DEF ReceiverInv, PayloadInv, FrameInv
  <1>h. ~Holds(r, p)' /\ NoneOnWire(r, p)'
    BY <1>0, <1>s, EmptyHandsAfter DEF AttachStep, NoneOnWire
  <1>1. ~Open(r, p)
    BY <1>f, <1>p DEF Open
  <1>2. \A n \in Int : At(r, p, n) => At(r, p, n)'
    BY <1>f, <1>p, <1>u DEF At
  <1>3. QueueInv(r, p)'
    <2>1. p \notin r_ended[r] => \A i \in DOMAIN q : ~EndJob(q[i], p)
      BY <1>0, <1>f DEF QueueInv
    <2>2. CASE r_queue'[r] = Append(q, job)
      BY <1>0, <1>f, <1>h, <1>j, <1>s, <1>u, <2>1, <2>2, AppendQueue DEF AttachStep
    <2>3. CASE p \notin r_tracked[r] /\ r_queue'[r] = q
      BY <1>0, <1>s, <1>u, <2>3 DEF QueueInv, AttachStep
    <2> QED
      BY <1>u, <2>2, <2>3
  <1>4. GotInv(r, p)'
    BY <1>0, <1>u DEF GotInv
  <1> QED
    <2>1. f \in Data \cup Control /\ f.p = p
      BY <1>f, <1>p
    <2>2. r_queue'[r] = Append(r_queue[r], job) \/ r_queue'[r] = r_queue[r]
      BY <1>u
    <2> QED
      BY <1>f, <1>j, <1>m, <1>s, <1>u, <1>1, <1>2, <1>3, <1>4, <2>1, <2>2,
         Attached

\* The line is logged: nothing that the invariant speaks of changes.
LEMMA RLogsKeeps ==
  ASSUME TypeOK, SenderInv, NEW r \in Receivers, ReceiverInv(r), RLogs(r)
  PROVE  ReceiverInv(r)'
  <1>t. r_frame \in [Receivers -> Data \cup Control \cup Line \cup {NoFrame}]
    BY DEF TypeOK
  <1>u. UNCHANGED <<wire, links, starved, r_channel, r_connected, r_tracked, r_endpoint,
                    r_got, r_queue, r_told, r_ended>>
    BY DEF RLogs, sendVars, wireVars
  <1>h. FrameInv(r)' /\ \A p : ~Holds(r, p) /\ ~Holds(r, p)'
    <2>1. r_frame'[r].type \in {"none", "line"} /\ EmptyHanded(r)
      BY <1>t DEF RLogs, NoFrame, EmptyHanded
    <2> QED
      BY <2>1, EmptyHands, EmptyHandsAfter
  <1>m. Unmoved(r)
    BY QuietUnmoved DEF RLogs, sendVars, wireVars, loopVars, trackVars, SenderInv
  <1>1. /\ \A p : Fresh(r, p)' <=> Fresh(r, p)
        /\ \A p, n : At(r, p, n)' <=> At(r, p, n)
        /\ \A p : NoneOnWire(r, p)' <=> NoneOnWire(r, p)
        /\ \A g : ChunkInv(g)' <=> ChunkInv(g)
        /\ \A p : Open(r, p)' <=> Open(r, p)
    BY <1>u, <1>h DEF Fresh, At, NoneOnWire, ChunkInv, Whole, Open
  <1>2. WireInv(r)'
    BY <1>u, <1>1 DEF ReceiverInv, WireInv
  <1>3. EndpointInv(r)'
    BY <1>u DEF ReceiverInv, EndpointInv
  <1>4. ASSUME NEW p \in Payloads PROVE PayloadInv(r, p)'
    <2>0. SendInv(r, p) /\ QueueInv(r, p) /\ LogInv(r, p) /\ GotInv(r, p)
      BY DEF ReceiverInv, PayloadInv
    <2>1. \A n : SentUpTo(r, p, n) => SentUpTo(r, p, n)'
      BY <1>u, <1>1 DEF SentUpTo
    <2>2. SendInv(r, p)'
      BY <1>m, <1>1, <2>0, <2>1, SendKept
    <2>3. QueueInv(r, p)' /\ LogInv(r, p)' /\ GotInv(r, p)'
      BY <1>u, <1>h, <1>1, <2>0 DEF QueueInv, LogInv, GotInv, Whole
    <2> QED
      BY <2>2, <2>3 DEF PayloadInv
  <1> QED
    BY <1>h, <1>2, <1>3, <1>4 DEF ReceiverInv

----------------------------------------------------------------------------
(* The status thread *)

\* The status thread takes a job; the reader and the wire stay as they are.
JobStep(r, job) ==
  /\ r_queue[r] # <<>> /\ job = Head(r_queue[r]) /\ r_queue'[r] = Tail(r_queue[r])
  /\ wire' = wire /\ links' = links /\ starved' = starved
  /\ r_channel' = r_channel /\ r_connected' = r_connected
  /\ r_got' = r_got /\ r_frame' = r_frame /\ r_ended' = r_ended

\* What every job does.
LEMMA JobFacts ==
  ASSUME TypeOK, SenderInv, NEW r \in Receivers, RStatusThread(r)
  PROVE  /\ JobStep(r, Head(r_queue[r])) /\ Unmoved(r) /\ Head(r_queue[r]) \in ReceiverJob
  <1>1. r_queue \in [Receivers -> Seq(ReceiverJob)]
    BY DEF TypeOK
  <1>2. r_queue'[r] = Tail(r_queue[r]) /\ r_queue[r] # <<>>
    BY <1>1 DEF RStatusThread
  <1>3. JobStep(r, Head(r_queue[r]))
    BY <1>2 DEF RStatusThread, JobStep, sendVars, wireVars
  <1>4. Unmoved(r)
    BY QuietUnmoved DEF RStatusThread, sendVars, wireVars, loopVars, trackVars, SenderInv
  <1> QED
    BY <1>1, <1>2, <1>3, <1>4, TailIndex

\* The places of the jobs that are left.
LEMMA JobIndex ==
  ASSUME TypeOK, NEW r \in Receivers, NEW job, JobStep(r, job)
  PROVE  /\ DOMAIN r_queue[r] \subseteq Int /\ DOMAIN r_queue'[r] \subseteq Int
         /\ 1 \in DOMAIN r_queue[r] /\ r_queue[r][1] = job
         /\ \A i \in DOMAIN r_queue'[r] :
              /\ 1 < i + 1 /\ i + 1 \in DOMAIN r_queue[r]
              /\ r_queue'[r][i] = r_queue[r][i + 1]
         /\ \A i \in DOMAIN r_queue[r] : i # 1 =>
              /\ 1 < i /\ i - 1 \in DOMAIN r_queue'[r]
              /\ r_queue'[r][i - 1] = r_queue[r][i]
  <1> DEFINE q == r_queue[r]
             n == Len(q)
  <1>p. PICK q2 : q2 = r_queue'[r]
    OBVIOUS
  <1>1. q \in Seq(ReceiverJob) /\ q # <<>> /\ q2 = Tail(q) /\ job = Head(q)
    BY <1>p DEF TypeOK, JobStep
  <1>2. /\ n \in Nat \ {0} /\ DOMAIN q = 1 .. n /\ job = q[1]
        /\ DOMAIN q2 = 1 .. n - 1
        /\ \A i \in 1 .. n - 1 : q2[i] = q[i + 1]
    BY <1>1, TailIndex
  <1> HIDE DEF q, n
  <1>3. \A i \in DOMAIN q2 : 1 < i + 1 /\ i + 1 \in DOMAIN q /\ q2[i] = q[i + 1]
    BY <1>2
  <1>4. ASSUME NEW i \in DOMAIN q, i # 1
        PROVE  1 < i /\ i - 1 \in DOMAIN q2 /\ q2[i - 1] = q[i]
    <2>1. 1 < i /\ i - 1 \in DOMAIN q2 /\ i - 1 + 1 = i
      BY <1>2, <1>4
    <2> QED
      BY <1>3, <2>1
  <1>5. DOMAIN q \subseteq Int /\ DOMAIN q2 \subseteq Int /\ 1 \in DOMAIN q /\ q[1] = job
    BY <1>2
  <1> QED
    BY <1>p, <1>3, <1>4, <1>5 DEF q

\* The queue, when a job about p is done.
LEMMA TailQueue ==
  ASSUME TypeOK, NEW r \in Receivers, NEW p \in Payloads, QueueInv(r, p),
         NEW job, JobStep(r, job), JobOf(job, p),
         p \in r_tracked'[r] => p \in r_tracked[r],
         job.op = "finished" => p \notin r_tracked'[r],
         r_told'[r][p] = <<>> => r_told[r][p] = <<>>,
         job.op = "payload" /\ r \in r_connected' => r_told'[r][p] # <<>>
  PROVE  QueueInv(r, p)'
  <1> DEFINE q == r_queue[r]
  <1>p. PICK q2 : q2 = r_queue'[r]
    OBVIOUS
  <1>q. /\ DOMAIN q \subseteq Int /\ DOMAIN q2 \subseteq Int
        /\ 1 \in DOMAIN q /\ q[1] = job
        /\ \A i \in DOMAIN q2 : 1 < i + 1 /\ i + 1 \in DOMAIN q /\ q2[i] = q[i + 1]
        /\ \A i \in DOMAIN q : i # 1 => 1 < i /\ i - 1 \in DOMAIN q2 /\ q2[i - 1] = q[i]
    BY <1>p, JobIndex
  <1>s. /\ NoneOnWire(r, p)' <=> NoneOnWire(r, p)
        /\ Holds(r, p)' <=> Holds(r, p)
        /\ Whole(p, Len(r_got[r][p]))' <=> Whole(p, Len(r_got[r][p]))
    BY DEF NoneOnWire, Holds, Whole, JobStep
  <1>1. ASSUME NEW i \in DOMAIN q2, EndJob(q2[i], p), p \notin r_ended'[r]
        PROVE  /\ NoneOnWire(r, p)' /\ ~Holds(r, p)'
               /\ \A j \in DOMAIN q2 : JobOf(q2[j], p) => j <= i
               /\ q2[i].op = "chunk" => Whole(p, Len(r_got[r][p]))'
    <2>1. i + 1 \in DOMAIN q /\ q2[i] = q[i + 1] /\ p \notin r_ended[r]
      BY <1>q, <1>1 DEF JobStep
    <2>2. /\ NoneOnWire(r, p) /\ ~Holds(r, p)
          /\ \A j \in DOMAIN q : JobOf(q[j], p) => j <= i + 1
          /\ q2[i].op = "chunk" => Whole(p, Len(r_got[r][p]))
      BY <1>1, <2>1 DEF QueueInv
    <2>3. \A j \in DOMAIN q2 : JobOf(q2[j], p) => j + 1 <= i + 1
      BY <1>q, <2>2
    <2>4. \A j \in DOMAIN q2 : JobOf(q2[j], p) => j <= i
      BY <1>q, <2>3
    <2> QED
      BY <1>s, <2>2, <2>4
  <1>2. ASSUME p \in r_ended'[r], p \in r_tracked'[r]
        PROVE  \E k \in DOMAIN q2 : /\ q2[k].op = "finished" /\ q2[k].p = p
                                    /\ \A i \in DOMAIN q2 : i < k => ~EndJob(q2[i], p)
    <2>1. PICK k \in DOMAIN q : /\ q[k].op = "finished" /\ q[k].p = p
                                /\ \A i \in DOMAIN q : i < k => ~EndJob(q[i], p)
      BY <1>2 DEF QueueInv, JobStep
    <2>2. k # 1
      BY <1>q, <1>2, <2>1
    <2>3. k - 1 \in DOMAIN q2 /\ q2[k - 1] = q[k]
      BY <1>q, <2>2
    <2>4. \A i \in DOMAIN q2 : i < k - 1 => ~EndJob(q2[i], p)
      BY <1>q, <2>1
    <2> QED
      BY <2>1, <2>3, <2>4
  <1>3. \A i \in DOMAIN q2 : ~(q2[i].op = "payload" /\ q2[i].p = p)
    BY <1>q DEF QueueInv
  <1>4. ASSUME p \in r_tracked'[r], r \in r_connected', r_told'[r][p] = <<>>
        PROVE  \E k \in DOMAIN q2 : q2[k].op = "payload" /\ q2[k].p = p
    <2>1. PICK k \in DOMAIN q : q[k].op = "payload" /\ q[k].p = p
      BY <1>4 DEF QueueInv, JobStep
    <2>2. k # 1
      BY <1>q, <1>4, <2>1
    <2> QED
      BY <1>q, <2>1, <2>2
  <1> QED
    BY <1>p, <1>1, <1>2, <1>3, <1>4 DEF QueueInv

\* What is left to show of a job about a payload.
LEMMA JobDone ==
  ASSUME TypeOK, NEW r \in Receivers, ReceiverInv(r), Unmoved(r),
         NEW job \in ReceiverJob, JobStep(r, job), job.op # "disconnect",
         \A p \in Payloads \ {job.p} :
           r_told'[r][p] = r_told[r][p] /\ (p \in r_tracked'[r] <=> p \in r_tracked[r]),
         r_endpoint'[r] \subseteq r_tracked'[r],
         \/ job.p \in r_ended[r] \/ job.p \in r_tracked'[r] \/ job.p \notin r_tracked[r]
         \/ NoneOnWire(r, job.p) /\ ~Holds(r, job.p),
         Open(r, job.p) =>
           job.p \in r_ended[r] \/ job.p \in r_tracked'[r] \/ job.p \notin r_tracked[r],
         Open(r, job.p) => Open(r, job.p)',
         QueueInv(r, job.p)', LogInv(r, job.p)'
  PROVE  ReceiverInv(r)'
  <1> DEFINE q == r_queue[r]
  <1>t. /\ q \in Seq(ReceiverJob) /\ wire[r] \in Seq(Data \cup Control)
        /\ r_frame[r] \in Data \cup Control \cup Line \cup {NoFrame}
    BY DEF TypeOK
  <1>f. job.p \in Payloads
    BY ReceiverJobShape
  <1>s. /\ \A p : NoneOnWire(r, p)' <=> NoneOnWire(r, p)
        /\ \A p : Holds(r, p)' <=> Holds(r, p)
        /\ \A g : ChunkInv(g)' <=> ChunkInv(g)
    BY DEF NoneOnWire, Holds, ChunkInv, Whole, JobStep
  <1>q. /\ 1 \in DOMAIN q /\ q[1] = job
        /\ \A i \in DOMAIN r_queue'[r] :
             i + 1 \in DOMAIN q /\ r_queue'[r][i] = q[i + 1]
    BY JobIndex
  <1>o. ASSUME NEW p \in Payloads \ {job.p}
        PROVE  /\ QueueInv(r, p)' /\ LogInv(r, p)' /\ GotInv(r, p)'
               /\ Fresh(r, p) => Fresh(r, p)'
               /\ Open(r, p) => Open(r, p)'
    <2>1. Shifted(q, r_queue'[r], 1, p)
      <3>1. ~JobOf(job, p)
        BY DEF JobOf
      <3> QED
        BY <1>t, <3>1, TailShifts DEF JobStep
    <2>2. SamePayload(r, p)
      BY <1>s DEF SamePayload, JobStep
    <2>3. QueueInv(r, p) /\ LogInv(r, p) /\ GotInv(r, p)
      BY DEF ReceiverInv, PayloadInv
    <2>4. /\ QueueInv(r, p)' /\ LogInv(r, p)' /\ GotInv(r, p)'
          /\ Fresh(r, p) => Fresh(r, p)'
          /\ Open(r, p) /\ AllPassing(r, p)' => Open(r, p)'
      BY <2>1, <2>2, <2>3, OtherPayload
    <2>5. Open(r, p) => AllPassing(r, p)'
      BY DEF Open, AllPassing, JobStep
    <2> QED
      BY <2>4, <2>5
  <1>g. ~Fresh(r, job.p)
    BY <1>q DEF Fresh, JobOf
  <1>a. /\ \A p \in Payloads : \A n : p # job.p /\ At(r, p, n) => At(r, p, n)'
        /\ \A n : At(r, job.p, n) /\ (job.p \in r_ended[r] \/ job.p \in r_tracked'[r]
                                        \/ job.p \notin r_tracked[r]) => At(r, job.p, n)'
    BY <1>s DEF At, JobStep
  <1>1. WireInv(r)'
    <2>1. \A i \in DOMAIN wire[r] : wire[r][i] \in Data \cup Control
      BY <1>t
    <2>2. \A i \in DOMAIN wire[r] : wire[r][i].p \in Payloads
      BY <2>1, FrameShape
    <2>4. wire[r] # <<>> => 1 \in DOMAIN wire[r]
      BY <1>t
    <2>5. WireInv(r) /\ wire' = wire
      BY DEF ReceiverInv, JobStep
    <2>6. \A p \in Payloads : Fresh(r, p) => Fresh(r, p)'
      BY <1>o, <1>g
    <2>7. \A p \in Payloads : \A n : ~NoneOnWire(r, p) /\ At(r, p, n) => At(r, p, n)'
      BY <1>a
    <2>8. \A i \in DOMAIN wire[r] : ~NoneOnWire(r, wire[r][i].p)
      BY DEF NoneOnWire
    <2> QED
      BY <1>s, <2>2, <2>4, <2>5, <2>6, <2>7, <2>8 DEF WireInv
  <1>2. FrameInv(r)'
    <2>1. FrameInv(r) /\ r_frame'[r] = r_frame[r]
      BY DEF ReceiverInv, JobStep
    <2>2. CASE r_frame[r].type = "data"
      <3>1. r_frame[r].p \in Payloads /\ Holds(r, r_frame[r].p)
        BY <2>2, HeldShape DEF Holds, NoFrame
      <3>2. \/ r_frame[r].p \in r_ended[r]
            \/ r_frame[r].p \in r_tracked'[r] /\ Len(r_got[r][r_frame[r].p]) = r_frame[r].offset
        BY <2>1, <2>2, <3>1 DEF FrameInv
      <3> QED
        BY <1>s, <2>1, <2>2, <3>2 DEF FrameInv, JobStep
    <2>3. CASE r_frame[r].type \in {"canceled", "error"}
      <3>1. r_frame[r].p \in Payloads /\ Holds(r, r_frame[r].p)
        BY <2>3, HeldShape DEF Holds, NoFrame
      <3>2. r_frame[r].p \in r_ended[r] \/ r_frame[r].p \in r_tracked'[r]
        BY <2>1, <2>3, <3>1 DEF FrameInv
      <3> QED
        BY <1>s, <2>1, <2>3, <3>2 DEF FrameInv, JobStep
    <2> QED
      BY <2>1, <2>2, <2>3 DEF FrameInv
  <1>3. EndpointInv(r)'
    BY <1>q DEF ReceiverInv, EndpointInv, JobStep
  <1>4. ASSUME NEW p \in Payloads PROVE PayloadInv(r, p)'
    <2>0. SendInv(r, p)
      BY DEF ReceiverInv, PayloadInv
    <2>1. ASSUME Sending(r, p), NEW n \in Int, SentUpTo(r, p, n) PROVE SentUpTo(r, p, n)'
      <3>1. Open(r, p)
        BY <2>0, <2>1 DEF SendInv
      <3>2. At(r, p, n) => At(r, p, n)'
        BY <1>a, <3>1
      <3>3. Fresh(r, p) => Fresh(r, p)'
        BY <1>o, <1>g
      <3> QED
        BY <1>s, <2>1, <3>2, <3>3 DEF SentUpTo, JobStep
    <2>2. Open(r, p) => Open(r, p)'
      BY <1>o
    <2>3. SendInv(r, p)'
      BY <2>0, <2>1, <2>2, SendKept
    <2>4. GotInv(r, p)'
      BY DEF ReceiverInv, PayloadInv, GotInv, JobStep
    <2> QED
      BY <1>o, <2>3, <2>4 DEF PayloadInv
  <1> QED
    BY <1>1, <1>2, <1>3, <1>4 DEF ReceiverInv

\* What the client was told of p after an update.
LEMMA RTellEffect ==
  ASSUME TypeOK, NEW r \in Receivers, NEW ps, NEW u, RTell(r, ps, u), NEW p \in Payloads
  PROVE  /\ r_told'[r][p] = IF r \in r_connected /\ p \in ps THEN Reported(r_told[r][p], u)
                            ELSE r_told[r][p]
         /\ r_told[r][p] \in Seq(Update \cup {"payload"})
  <1>1. r_told \in [Receivers -> [Payloads -> Seq(Update \cup {"payload"})]]
    BY DEF TypeOK
  <1> QED
    BY <1>1 DEF RTell

\* Before anything else about p is done, the client has been told of p.
LEMMA ToldOf ==
  ASSUME TypeOK, NEW r \in Receivers, ReceiverInv(r), NEW job, JobStep(r, job),
         NEW p \in Payloads, p \in r_tracked[r], r \in r_connected,
         job.op = "disconnect" \/ (JobOf(job, p) /\ job.op # "payload")
  PROVE  r_told[r][p] # <<>>
  <1>q. 1 \in DOMAIN r_queue[r] /\ r_queue[r][1] = job
        /\ \A i \in DOMAIN r_queue[r] : i # 1 => 1 < i
    BY JobIndex
  <1>1. QueueInv(r, p)
    BY DEF ReceiverInv, PayloadInv
  <1>2. SUFFICES ASSUME r_told[r][p] = <<>> PROVE FALSE
    OBVIOUS
  <1>3. PICK k \in DOMAIN r_queue[r] : r_queue[r][k].op = "payload" /\ r_queue[r][k].p = p
    BY <1>1, <1>2 DEF QueueInv
  <1>4. k # 1
    BY <1>3, <1>q
  <1> QED
    BY <1>1, <1>3, <1>4, <1>q DEF QueueInv

\* The log after an update, when it has not ended.
LEMMA LogGrows ==
  ASSUME NEW S, NEW log \in Seq(S), NEW u \in S, ~Ends(log), NEW log2, log2 = Reported(log, u)
  PROVE  /\ EndsLast(log2) /\ log2 # <<>>
         /\ u \notin Final => ~Ends(log2)
         /\ log # <<>> => log2[1] = log[1]
         /\ log = <<>> => log2[1] = u
         /\ (\E i \in DOMAIN log2 : log2[i] = "success") => u = "success"
  <1>1. /\ EndsLast(log2) /\ (u \notin Final => ~Ends(log2))
    BY ReportedEnds
  <1>2. /\ log2 # <<>>
        /\ log # <<>> => log2[1] = log[1]
        /\ log = <<>> => log2[1] = u
        /\ \A i \in DOMAIN log2 : log2[i] = u \/ (i \in DOMAIN log /\ log2[i] = log[i])
    BY ReportedLog
  <1>3. \A i \in DOMAIN log : log[i] # "success"
    BY DEF Ends, Final
  <1> QED
    BY <1>1, <1>2, <1>3

\* The client is told of the payload.
LEMMA PayloadJobKeeps ==
  ASSUME TypeOK, NEW r \in Receivers, ReceiverInv(r), Unmoved(r),
         NEW job \in ReceiverJob, JobStep(r, job), job.op = "payload",
         RTell(r, {job.p}, "payload"), UNCHANGED <<r_tracked, r_endpoint>>
  PROVE  ReceiverInv(r)'
  <1> DEFINE log == r_told[r][job.p]
  <1>p. PICK p \in Payloads : p = job.p
    BY ReceiverJobShape
  <1>j. JobOf(job, p)
    BY <1>p DEF JobOf
  <1>q. 1 \in DOMAIN r_queue[r] /\ r_queue[r][1] = job
        /\ \A i \in DOMAIN r_queue'[r] :
             i + 1 \in DOMAIN r_queue[r] /\ r_queue'[r][i] = r_queue[r][i + 1]
    BY JobIndex
  <1>0. QueueInv(r, p) /\ LogInv(r, p) /\ EndpointInv(r)
    BY DEF ReceiverInv, PayloadInv
  <1>1. r_told[r][p] = <<>>
    BY <1>0, <1>p, <1>q DEF QueueInv
  <1>2. /\ \A s \in Payloads \ {p} : r_told'[r][s] = r_told[r][s]
        /\ r_told'[r][p] = IF r \in r_connected THEN Reported(r_told[r][p], "payload")
                           ELSE r_told[r][p]
        /\ r_told[r][p] \in Seq(Update \cup {"payload"})
    BY <1>p, RTellEffect
  <1>3. ~Ends(r_told[r][p])
    BY <1>1 DEF Ends
  <1>4. /\ EndsLast(r_told'[r][p]) /\ ~Ends(r_told'[r][p])
        /\ r \in r_connected => r_told'[r][p] # <<>>
        /\ r_told'[r][p] # <<>> => r_told'[r][p][1] = "payload"
        /\ \A i \in DOMAIN r_told'[r][p] : r_told'[r][p][i] # "success"
    <2>1. CASE r \notin r_connected
      BY <1>1, <1>2, <2>1 DEF Ends, EndsLast
    <2>2. CASE r \in r_connected
      <3>1. "payload" \notin Final /\ "payload" \in Update \cup {"payload"}
        BY DEF Final
      <3>2. r_told'[r][p] = Reported(r_told[r][p], "payload")
        BY <1>2, <2>2
      <3>3. PICK log2 : log2 = r_told'[r][p]
        OBVIOUS
      <3>a. /\ EndsLast(log2) /\ log2 # <<>>
            /\ "payload" \notin Final => ~Ends(log2)
            /\ r_told[r][p] = <<>> => log2[1] = "payload"
            /\ (\E i \in DOMAIN log2 : log2[i] = "success") => "payload" = "success"
        BY <1>2, <1>3, <3>1, <3>2, <3>3, LogGrows
      <3>4. /\ EndsLast(log2) /\ log2 # <<>> /\ ~Ends(log2) /\ log2[1] = "payload"
            /\ \A i \in DOMAIN log2 : log2[i] # "success"
        BY <1>1, <3>1, <3>a
      <3> QED
        BY <3>3, <3>4
    <2> QED
      BY <2>1, <2>2
  <1>5. QueueInv(r, p)'
    BY <1>0, <1>1, <1>4, <1>j, TailQueue DEF JobStep
  <1>6. LogInv(r, p)'
    BY <1>4 DEF LogInv, Ends, EndsLast
  <1>7. Open(r, p) => Open(r, p)'
    <2>1. ~Holds(r, p)' <=> ~Holds(r, p)
      BY DEF Holds, JobStep
    <2>2. (\A i \in DOMAIN r_queue[r] : ~EndJob(r_queue[r][i], p)) =>
            (\A i \in DOMAIN r_queue'[r] : ~EndJob(r_queue'[r][i], p))
      BY <1>q
    <2> QED
      BY <1>4, <2>1, <2>2 DEF Open, JobStep, Ends
  <1>8. r_endpoint'[r] \subseteq r_tracked'[r]
    BY <1>0 DEF EndpointInv
  <1> QED
    BY <1>p, <1>2, <1>5, <1>6, <1>7, <1>8, JobDone

\* The client is told of a chunk.
LEMMA ChunkJobKeeps ==
  ASSUME TypeOK, NEW r \in Receivers, ReceiverInv(r), Unmoved(r),
         NEW job \in ReceiverJob, JobStep(r, job), job.op = "chunk",
         RTell(r, {job.p} \cap r_tracked[r], IF job.chunk = Last THEN "success" ELSE "progress"),
         UNCHANGED <<r_tracked, r_endpoint>>
  PROVE  ReceiverInv(r)'
  <1>p. PICK p \in Payloads : p = job.p
    BY ReceiverJobShape
  <1>c. PICK u : u = IF job.chunk = Last THEN "success" ELSE "progress"
    OBVIOUS
  <1>v. u \in Update \cup {"payload"} /\ ("progress" \notin Final)
    BY <1>c DEF Update, Final
  <1>j. JobOf(job, p) /\ (u = "success" <=> EndJob(job, p)) /\ (u # "success" => u = "progress")
    BY <1>p, <1>c DEF JobOf, EndJob
  <1>r. PICK q2 : q2 = r_queue'[r]
    OBVIOUS
  <1>b. \A i \in DOMAIN q2 : i + 1 \in DOMAIN r_queue[r] /\ q2[i] = r_queue[r][i + 1]
    BY <1>r, JobIndex
  <1>i. \A i \in DOMAIN q2 : ~(i + 1 <= 1)
    <2>1. \A i \in DOMAIN q2 : i \in Int /\ 1 < i + 1
      BY <1>r, JobIndex
    <2> QED
      BY <2>1
  <1>q. 1 \in DOMAIN r_queue[r] /\ r_queue[r][1] = job
        /\ DOMAIN r_queue[r] \subseteq Int
        /\ \A i \in DOMAIN r_queue[r] : i # 1 => 1 < i
    BY JobIndex
  <1>0. QueueInv(r, p) /\ LogInv(r, p) /\ EndpointInv(r)
    BY DEF ReceiverInv, PayloadInv
  <1>2. /\ \A s \in Payloads \ {p} : r_told'[r][s] = r_told[r][s]
        /\ r_told'[r][p] = IF r \in r_connected /\ p \in r_tracked[r]
                           THEN Reported(r_told[r][p], u) ELSE r_told[r][p]
        /\ r_told[r][p] \in Seq(Update \cup {"payload"})
    BY <1>p, <1>c, RTellEffect
  <1>s. /\ NoneOnWire(r, p)' <=> NoneOnWire(r, p)
        /\ Holds(r, p)' <=> Holds(r, p)
        /\ Whole(p, Len(r_got[r][p]))' <=> Whole(p, Len(r_got[r][p]))
    BY DEF NoneOnWire, Holds, Whole, JobStep
  <1>e. ASSUME p \in r_tracked[r], u = "success"
        PROVE  /\ p \notin r_ended[r] /\ NoneOnWire(r, p) /\ ~Holds(r, p)
               /\ \A j \in DOMAIN r_queue[r] : JobOf(r_queue[r][j], p) => j <= 1
               /\ Whole(p, Len(r_got[r][p]))
    <2>1. EndJob(r_queue[r][1], p)
      BY <1>e, <1>j, <1>q
    <2>2. p \notin r_ended[r]
      <3>1. SUFFICES ASSUME p \in r_ended[r] PROVE FALSE
        OBVIOUS
      <3>2. PICK k \in DOMAIN r_queue[r] :
              /\ r_queue[r][k].op = "finished"
              /\ \A i \in DOMAIN r_queue[r] : i < k => ~EndJob(r_queue[r][i], p)
        BY <1>0, <1>e, <3>1 DEF QueueInv
      <3>3. k # 1
        BY <1>q, <3>2
      <3> QED
        BY <1>q, <2>1, <3>2, <3>3
    <2> QED
      BY <1>0, <1>q, <2>1, <2>2 DEF QueueInv
  <1>n. r \in r_channel /\ p \in r_tracked[r] => ~Ends(r_told[r][p])
    BY <1>0, <1>j, <1>q DEF LogInv
  <1>3. CASE r \in r_connected /\ p \in r_tracked[r]
    <2>0. r_told'[r][p] = Reported(r_told[r][p], u)
      BY <1>2, <1>3
    <2>1. r_told[r][p] # <<>>
      BY <1>3, <1>j, ToldOf
    <2>2. /\ r_told'[r][p] # <<>> /\ r_told'[r][p][1] = r_told[r][p][1]
          /\ \A i \in DOMAIN r_told'[r][p] : r_told'[r][p][i] = u \/
               (i \in DOMAIN r_told[r][p] /\ r_told'[r][p][i] = r_told[r][p][i])
      BY <1>2, <1>v, <2>0, <2>1, ReportedLog
    <2>3. r \in r_channel => EndsLast(r_told'[r][p])
                               /\ (u # "success" => ~Ends(r_told'[r][p]))
      BY <1>2, <1>3, <1>n, <1>v, <1>j, <2>0, ReportedEnds
    <2>5. QueueInv(r, p)'
      BY <1>0, <1>j, <2>2, TailQueue
    <2>6. LogInv(r, p)'
      <3>1. r_told'[r][p][1] = "payload"
        BY <1>0, <2>1, <2>2 DEF LogInv
      <3>2. ASSUME r \in r_channel', Ends(r_told[r][p])', p \in r_tracked'[r]
            PROVE  /\ p \notin r_ended'[r] /\ NoneOnWire(r, p)' /\ ~Holds(r, p)'
                   /\ \A i \in DOMAIN r_queue'[r] : ~JobOf(r_queue'[r][i], p)
        <4>1. r \in r_channel /\ Ends(r_told'[r][p])
          BY <3>2 DEF JobStep, Ends
        <4>2. u = "success"
          BY <2>3, <4>1
        <4>3. /\ p \notin r_ended[r] /\ NoneOnWire(r, p) /\ ~Holds(r, p)
              /\ \A j \in DOMAIN r_queue[r] : JobOf(r_queue[r][j], p) => j <= 1
          BY <1>e, <1>3, <4>2
        <4>4. \A i \in DOMAIN q2 : ~JobOf(q2[i], p)
          BY <1>b, <1>i, <4>3
        <4> QED
          BY <1>r, <1>s, <4>3, <4>4 DEF JobStep
      <3>3. ASSUME \E i \in DOMAIN r_told'[r][p] : r_told'[r][p][i] = "success"
            PROVE  NoneOnWire(r, p)' /\ ~Holds(r, p)' /\ Whole(p, Len(r_got[r][p]))'
        <4>1. CASE u = "success"
          BY <1>e, <1>s, <1>3, <4>1
        <4>2. CASE u # "success"
          BY <1>0, <1>s, <2>2, <3>3, <4>2 DEF LogInv
        <4> QED
          BY <4>1, <4>2
      <3>4. r \in r_channel' => EndsLast(r_told[r][p])'
        BY <2>3 DEF EndsLast, JobStep
      <3> QED
        BY <2>2, <3>1, <3>2, <3>3, <3>4 DEF LogInv
    <2>7. Open(r, p) => Open(r, p)'
      <3> SUFFICES ASSUME Open(r, p) PROVE Open(r, p)'
        OBVIOUS
      <3>1. u # "success"
        BY <1>e, <1>j, <1>q, <1>3 DEF Open
      <3>2. r \in r_channel => ~Ends(r_told'[r][p])
        BY <2>3, <3>1
      <3>3. \A i \in DOMAIN r_told'[r][p] : r_told'[r][p][i] # "success"
        BY <2>2, <3>1 DEF Open
      <3>4. p \notin r_ended'[r] => \A i \in DOMAIN q2 : ~EndJob(q2[i], p)
        BY <1>b DEF Open, JobStep
      <3>5. r \in r_channel' => ~Ends(r_told[r][p])'
        BY <3>2 DEF JobStep, Ends
      <3> QED
        BY <1>r, <1>s, <3>3, <3>4, <3>5 DEF Open, JobStep
    <2>8. r_endpoint'[r] \subseteq r_tracked'[r]
      BY <1>0 DEF EndpointInv
    <2> QED
      BY <1>p, <1>2, <1>3, <2>5, <2>6, <2>7, <2>8, JobDone
  <1>4. CASE ~(r \in r_connected /\ p \in r_tracked[r])
    <2>0. r_told'[r][p] = r_told[r][p]
      BY <1>2, <1>4
    <2>5. QueueInv(r, p)'
      BY <1>0, <1>j, <2>0, TailQueue
    <2>6. LogInv(r, p)'
      <3>1. (\A i \in DOMAIN r_queue[r] : ~JobOf(r_queue[r][i], p)) =>
              (\A i \in DOMAIN q2 : ~JobOf(q2[i], p))
        BY <1>b
      <3> QED
        BY <1>0, <1>r, <1>s, <2>0, <3>1 DEF LogInv, JobStep
    <2>7. Open(r, p) => Open(r, p)'
      <3>1. (\A i \in DOMAIN r_queue[r] : ~EndJob(r_queue[r][i], p)) =>
              (\A i \in DOMAIN q2 : ~EndJob(q2[i], p))
        BY <1>b
      <3> QED
        BY <1>r, <1>s, <2>0, <3>1 DEF Open, JobStep
    <2>8. r_endpoint'[r] \subseteq r_tracked'[r]
      BY <1>0 DEF EndpointInv
    <2> QED
      BY <1>p, <1>2, <2>5, <2>6, <2>7, <2>8, JobDone
  <1> QED
    BY <1>3, <1>4

\* The payload is finished and destroyed.
LEMMA FinishedJobKeeps ==
  ASSUME TypeOK, NEW r \in Receivers, ReceiverInv(r), Unmoved(r),
         NEW job \in ReceiverJob, JobStep(r, job), job.op = "finished", RFinishedJob(r, job)
  PROVE  ReceiverInv(r)'
  <1>p. PICK p \in Payloads : p = job.p
    BY ReceiverJobShape
  <1>c. PICK u : u = job.what
    OBVIOUS
  <1>j. JobOf(job, p) /\ EndJob(job, p)
    BY <1>p DEF JobOf, EndJob
  <1>r. PICK q2 : q2 = r_queue'[r]
    OBVIOUS
  <1>b. \A i \in DOMAIN q2 : i + 1 \in DOMAIN r_queue[r] /\ q2[i] = r_queue[r][i + 1]
    BY <1>r, JobIndex
  <1>q. 1 \in DOMAIN r_queue[r] /\ r_queue[r][1] = job
    BY JobIndex
  <1>0. QueueInv(r, p) /\ LogInv(r, p) /\ EndpointInv(r)
    BY DEF ReceiverInv, PayloadInv
  <1>v. u \in Update \cup {"payload"} /\ u # "success"
    <2>1. u \in Final
      BY <1>c, ReceiverJobShape
    <2>2. u # "success"
      BY <1>0, <1>c, <1>q DEF EndpointInv
    <2> QED
      BY <2>1, <2>2 DEF Update
  <1>u. r_tracked'[r] = r_tracked[r] \ {p} /\ r_endpoint'[r] = r_endpoint[r] \ {p}
    <2>1. /\ r_tracked \in [Receivers -> SUBSET Payloads]
          /\ r_endpoint \in [Receivers -> SUBSET Payloads]
      BY DEF TypeOK
    <2> QED
      BY <1>p, <2>1 DEF RFinishedJob
  <1>2. /\ \A s \in Payloads \ {p} : r_told'[r][s] = r_told[r][s]
        /\ r_told'[r][p] = IF r \in r_connected /\ p \in r_tracked[r]
                           THEN Reported(r_told[r][p], u) ELSE r_told[r][p]
        /\ r_told[r][p] \in Seq(Update \cup {"payload"})
    <2>1. RTell(r, {p} \cap r_tracked[r], u)
      BY <1>p, <1>c DEF RFinishedJob
    <2> QED
      BY <2>1, RTellEffect
  <1>s. /\ NoneOnWire(r, p)' <=> NoneOnWire(r, p)
        /\ Holds(r, p)' <=> Holds(r, p)
        /\ Whole(p, Len(r_got[r][p]))' <=> Whole(p, Len(r_got[r][p]))
    BY DEF NoneOnWire, Holds, Whole, JobStep
  <1>n. r \in r_channel /\ p \in r_tracked[r] => ~Ends(r_told[r][p])
    BY <1>0, <1>j, <1>q DEF LogInv
  <1>l. /\ r_told'[r][p] = <<>> => r_told[r][p] = <<>>
        /\ r_told'[r][p] # <<>> => r_told'[r][p][1] = "payload"
        /\ r \in r_channel => EndsLast(r_told'[r][p])
        /\ (\E i \in DOMAIN r_told'[r][p] : r_told'[r][p][i] = "success") =>
             \E i \in DOMAIN r_told[r][p] : r_told[r][p][i] = "success"
    <2>1. CASE r \in r_connected /\ p \in r_tracked[r]
      <3>0. r_told'[r][p] = Reported(r_told[r][p], u)
        BY <1>2, <2>1
      <3>1. r_told[r][p] # <<>>
        BY <1>j, <2>1, ToldOf
      <3>2. r_told[r][p][1] = "payload"
        BY <1>0, <3>1 DEF LogInv
      <3>3. /\ r_told'[r][p] # <<>> /\ r_told'[r][p][1] = r_told[r][p][1]
            /\ \A i \in DOMAIN r_told'[r][p] : r_told'[r][p][i] = u \/
                 (i \in DOMAIN r_told[r][p] /\ r_told'[r][p][i] = r_told[r][p][i])
        BY <1>2, <1>v, <3>0, <3>1, ReportedLog
      <3>4. r \in r_channel => EndsLast(r_told'[r][p])
        BY <1>2, <1>n, <1>v, <2>1, <3>0, ReportedEnds
      <3> QED
        BY <1>v, <3>1, <3>2, <3>3, <3>4
    <2>2. CASE ~(r \in r_connected /\ p \in r_tracked[r])
      <3>1. r_told'[r][p] = r_told[r][p]
        BY <1>2, <2>2
      <3> QED
        BY <1>0, <3>1 DEF LogInv
    <2> QED
      BY <2>1, <2>2
  <1>5. QueueInv(r, p)'
    BY <1>0, <1>j, <1>l, <1>u, TailQueue
  <1>6. LogInv(r, p)'
    <2>1. r \in r_channel' => EndsLast(r_told[r][p])'
      BY <1>l DEF EndsLast, JobStep
    <2> QED
      BY <1>0, <1>l, <1>s, <1>u, <2>1 DEF LogInv
  <1>7. Open(r, p) => Open(r, p)'
    <2> SUFFICES ASSUME Open(r, p) PROVE Open(r, p)'
      OBVIOUS
    <2>1. p \in r_ended[r]
      BY <1>j, <1>q DEF Open
    <2>2. \A i \in DOMAIN r_told'[r][p] : r_told'[r][p][i] # "success"
      BY <1>l DEF Open
    <2> QED
      BY <1>s, <1>u, <2>1, <2>2 DEF Open, JobStep
  <1>8. r_endpoint'[r] \subseteq r_tracked'[r]
    BY <1>0, <1>u DEF EndpointInv
  <1>9. /\ p \in r_ended[r] \/ (NoneOnWire(r, p) /\ ~Holds(r, p))
        /\ Open(r, p) => p \in r_ended[r]
    BY <1>0, <1>j, <1>q DEF QueueInv, Open
  <1>10. \A s \in Payloads \ {p} : s \in r_tracked'[r] <=> s \in r_tracked[r]
    BY <1>u
  <1> QED
    BY <1>p, <1>2, <1>5, <1>6, <1>7, <1>8, <1>9, <1>10, JobDone

\* The endpoint is gone.
LEMMA DisconnectJobKeeps ==
  ASSUME TypeOK, NEW r \in Receivers, ReceiverInv(r), Unmoved(r),
         NEW job \in ReceiverJob, JobStep(r, job), job.op = "disconnect", RDisconnectJob(r)
  PROVE  ReceiverInv(r)'
  <1>q. 1 \in DOMAIN r_queue[r] /\ r_queue[r][1] = job
    BY JobIndex
  <1>r. PICK q2 : q2 = r_queue'[r]
    OBVIOUS
  <1>b. \A i \in DOMAIN q2 : i + 1 \in DOMAIN r_queue[r] /\ q2[i] = r_queue[r][i + 1]
    BY <1>r, JobIndex
  <1>i. \A i \in DOMAIN q2 : 1 < i + 1
    BY <1>r, JobIndex
  <1>0. EndpointInv(r) /\ FrameInv(r)
    BY DEF ReceiverInv
  <1>1. r \notin r_channel /\ r \notin links /\ wire[r] = <<>>
    BY <1>0, <1>q DEF EndpointInv
  <1>u. r_endpoint'[r] = {} /\ r_tracked' = r_tracked
    <2>1. r_endpoint \in [Receivers -> SUBSET Payloads]
      BY DEF TypeOK
    <2> QED
      BY <2>1 DEF RDisconnectJob
  <1>2. WireInv(r)'
    BY <1>1 DEF WireInv, JobStep
  <1>3. FrameInv(r)'
    BY <1>0, <1>u DEF FrameInv, JobStep, ChunkInv, Whole, NoneOnWire
  <1>4. EndpointInv(r)'
    BY <1>0, <1>1, <1>u, <1>r, <1>b DEF EndpointInv, JobStep
  <1>5. ASSUME NEW p \in Payloads PROVE PayloadInv(r, p)'
    <2>0. QueueInv(r, p) /\ LogInv(r, p) /\ GotInv(r, p)
      BY DEF ReceiverInv, PayloadInv
    <2>1. SendInv(r, p)'
      BY <1>1 DEF SendInv, Sending, Live, JobStep
    <2>s. /\ NoneOnWire(r, p)' /\ (Holds(r, p)' <=> Holds(r, p))
          /\ \A n : Whole(p, n)' <=> Whole(p, n)
      BY <1>1 DEF NoneOnWire, Holds, Whole, JobStep
    <2>2. /\ r_told'[r][p] = IF r \in r_connected /\ p \in r_endpoint[r]
                             THEN Reported(r_told[r][p], "failure") ELSE r_told[r][p]
          /\ r_told[r][p] \in Seq(Update \cup {"payload"})
      <3>1. RTell(r, r_endpoint[r], "failure")
        BY DEF RDisconnectJob
      <3> QED
        BY <3>1, RTellEffect
    <2>3. /\ r_told'[r][p] = <<>> => r_told[r][p] = <<>>
          /\ r_told'[r][p] # <<>> => r_told'[r][p][1] = "payload"
          /\ (\E i \in DOMAIN r_told'[r][p] : r_told'[r][p][i] = "success") =>
               \E i \in DOMAIN r_told[r][p] : r_told[r][p][i] = "success"
          /\ r_told[r][p] = <<>> => r_told'[r][p] = <<>>
      <3>1. CASE r \in r_connected /\ p \in r_endpoint[r]
        <4>0. r_told'[r][p] = Reported(r_told[r][p], "failure")
          BY <2>2, <3>1
        <4>1. r_told[r][p] # <<>>
          BY <1>0, <3>1, ToldOf DEF EndpointInv
        <4>2. r_told[r][p][1] = "payload"
          BY <2>0, <4>1 DEF LogInv
        <4>v. "failure" \in Update \cup {"payload"}
          BY DEF Update, Final
        <4>3. /\ r_told'[r][p] # <<>> /\ r_told'[r][p][1] = r_told[r][p][1]
              /\ \A i \in DOMAIN r_told'[r][p] : r_told'[r][p][i] = "failure" \/
                   (i \in DOMAIN r_told[r][p] /\ r_told'[r][p][i] = r_told[r][p][i])
          BY <2>2, <4>v, <4>0, <4>1, ReportedLog
        <4> QED
          BY <4>1, <4>2, <4>3
      <3>2. CASE ~(r \in r_connected /\ p \in r_endpoint[r])
        <4>1. r_told'[r][p] = r_told[r][p]
          BY <2>2, <3>2
        <4> QED
          BY <2>0, <4>1 DEF LogInv
      <3> QED
        BY <3>1, <3>2
    <2>4. LogInv(r, p)'
      BY <1>1, <2>0, <2>3, <2>s DEF LogInv, JobStep
    <2>5. GotInv(r, p)'
      BY <2>0 DEF GotInv, JobStep
    <2>6. QueueInv(r, p)'
      <3>s. Shifted(r_queue[r], q2, 1, p)
        <4>1. ~JobOf(job, p)
          BY DEF JobOf
        <4>2. r_queue[r] \in Seq(ReceiverJob)
          BY DEF TypeOK
        <4> QED
          BY <1>r, <4>1, <4>2, TailShifts DEF JobStep
      <3>1. ASSUME NEW i \in DOMAIN q2, EndJob(q2[i], p), p \notin r_ended'[r]
            PROVE  /\ NoneOnWire(r, p)' /\ ~Holds(r, p)'
                   /\ \A j \in DOMAIN q2 : JobOf(q2[j], p) => j <= i
                   /\ q2[i].op = "chunk" => Whole(p, Len(r_got[r][p]))'
        <4>1. i + 1 \in DOMAIN r_queue[r] /\ q2[i] = r_queue[r][i + 1] /\ p \notin r_ended[r]
          BY <1>b, <3>1 DEF JobStep
        <4>2. /\ ~Holds(r, p)
              /\ \A j \in DOMAIN r_queue[r] : JobOf(r_queue[r][j], p) => j <= i + 1
              /\ q2[i].op = "chunk" => Whole(p, Len(r_got[r][p]))
          BY <2>0, <3>1, <4>1 DEF QueueInv
        <4>3. \A j \in DOMAIN q2 : JobOf(q2[j], p) => j + 1 <= i + 1
          BY <1>b, <4>2
        <4>4. DOMAIN q2 \subseteq Int
          BY <3>s DEF Shifted
        <4>5. \A j \in DOMAIN q2 : JobOf(q2[j], p) => j <= i
          BY <4>3, <4>4
        <4> QED
          BY <2>s, <4>2, <4>5 DEF JobStep
      <3>2. ASSUME p \in r_ended'[r], p \in r_tracked'[r]
            PROVE  \E k \in DOMAIN q2 : /\ q2[k].op = "finished" /\ q2[k].p = p
                                        /\ \A i \in DOMAIN q2 : i < k => ~EndJob(q2[i], p)
        <4>1. PICK k \in DOMAIN r_queue[r] :
                /\ r_queue[r][k].op = "finished" /\ r_queue[r][k].p = p
                /\ \A i \in DOMAIN r_queue[r] : i < k => ~EndJob(r_queue[r][i], p)
          BY <1>u, <2>0, <3>2 DEF QueueInv, JobStep
        <4>2. JobOf(r_queue[r][k], p)
          BY <4>1 DEF JobOf
        <4>3. k - 1 \in DOMAIN q2 /\ q2[k - 1] = r_queue[r][k]
              /\ DOMAIN q2 \subseteq Int /\ k \in Int
          BY <3>s, <4>2 DEF Shifted
        <4>4. \A i \in DOMAIN q2 : i < k - 1 => ~EndJob(q2[i], p)
          BY <1>b, <4>1, <4>3
        <4> QED
          BY <4>1, <4>3, <4>4
      <3>3. \A i \in DOMAIN q2 : ~(q2[i].op = "payload" /\ q2[i].p = p)
        BY <1>b, <1>i, <1>q, <2>0 DEF QueueInv
      <3>4. ASSUME p \in r_tracked'[r], r \in r_connected', r_told'[r][p] = <<>>
            PROVE  \E k \in DOMAIN q2 : q2[k].op = "payload" /\ q2[k].p = p
        <4>1. PICK k \in DOMAIN r_queue[r] : r_queue[r][k].op = "payload" /\ r_queue[r][k].p = p
          BY <1>u, <2>0, <2>3, <3>4 DEF QueueInv, JobStep
        <4>2. JobOf(r_queue[r][k], p)
          BY <4>1 DEF JobOf
        <4>3. k - 1 \in DOMAIN q2 /\ q2[k - 1] = r_queue[r][k]
          BY <3>s, <4>2 DEF Shifted
        <4> QED
          BY <4>1, <4>3
      <3> QED
        BY <1>r, <3>1, <3>2, <3>3, <3>4 DEF QueueInv
    <2> QED
      BY <2>1, <2>4, <2>5, <2>6 DEF PayloadInv
  <1> QED
    BY <1>2, <1>3, <1>4, <1>5 DEF ReceiverInv

\* The receiver's status thread keeps the receiver's invariant.
LEMMA RStatusThreadKeeps ==
  ASSUME TypeOK, SenderInv, NEW r \in Receivers, ReceiverInv(r), RStatusThread(r)
  PROVE  ReceiverInv(r)'
  <1>1. PICK job : job = Head(r_queue[r])
    OBVIOUS
  <1>2. JobStep(r, job) /\ Unmoved(r) /\ job \in ReceiverJob
    BY <1>1, JobFacts
  <1>3. CASE /\ job.op = "payload" /\ RTell(r, {job.p}, "payload")
             /\ UNCHANGED <<r_tracked, r_endpoint>>
    BY <1>2, <1>3, PayloadJobKeeps
  <1>4. CASE /\ job.op = "chunk"
             /\ RTell(r, {job.p} \cap r_tracked[r],
                      IF job.chunk = Last THEN "success" ELSE "progress")
             /\ UNCHANGED <<r_tracked, r_endpoint>>
    BY <1>2, <1>4, ChunkJobKeeps
  <1>5. CASE job.op = "finished" /\ RFinishedJob(r, job)
    BY <1>2, <1>5, FinishedJobKeeps
  <1>6. CASE job.op = "disconnect" /\ RDisconnectJob(r)
    BY <1>2, <1>6, DisconnectJobKeeps
  <1> QED
    BY <1>1, <1>3, <1>4, <1>5, <1>6 DEF RStatusThread

----------------------------------------------------------------------------
(* The invariant, and what it shows *)

\* The receiver's invariant holds at the start ...
LEMMA ReceiverInit ==
  ASSUME Init, NEW r \in Receivers
  PROVE  ReceiverInv(r)
  <1>1. /\ wire[r] = <<>> /\ r_frame[r] = NoFrame /\ r_queue[r] = <<>>
        /\ r_tracked[r] = {} /\ r_endpoint[r] = {} /\ r_ended[r] = {} /\ r \in r_channel
        /\ \A p \in Payloads : r_got[r][p] = <<>> /\ r_told[r][p] = <<>>
        /\ \A p \in Payloads : pending[p] = "unsent"
    BY DEF Init
  <1> HIDE DEF Init
  <1>e. DOMAIN <<>> = {}
    OBVIOUS
  <1>2. WireInv(r) /\ FrameInv(r) /\ EndpointInv(r)
    BY <1>1, <1>e DEF WireInv, FrameInv, EndpointInv, NoFrame
  <1>3. ASSUME NEW p \in Payloads PROVE PayloadInv(r, p)
    <2>1. NextOffset(p) = 0
      BY <1>1 DEF NextOffset, NotBegun
    <2>2. Fresh(r, p) /\ NoneOnWire(r, p) /\ ~Holds(r, p)
      BY <1>1, <1>e DEF Fresh, NoneOnWire, Holds, NoFrame
    <2>3. SentUpTo(r, p, 0) /\ Open(r, p)
      BY <1>1, <1>e, <2>2 DEF SentUpTo, Open, Ends
    <2>4. SendInv(r, p)
      BY <2>1, <2>3 DEF SendInv
    <2>5. QueueInv(r, p) /\ LogInv(r, p) /\ GotInv(r, p)
      BY <1>1, <1>e DEF QueueInv, LogInv, GotInv, EndsLast
    <2> QED
      BY <2>4, <2>5 DEF PayloadInv
  <1> QED
    BY <1>2, <1>3 DEF ReceiverInv

\* ... and is kept by every step, of the sender or of a receiver.
LEMMA ReceiverStep ==
  ASSUME TypeOK, LoopOffset, SenderInv, NEW r \in Receivers, ReceiverInv(r), [Next]_vars
  PROVE  ReceiverInv(r)'
  <1>1. CASE UNCHANGED vars
    <2>1. UNCHANGED <<file_queue, loop, pending, status, starved, channels, wireVars, recvVars>>
      BY <1>1 DEF vars, sendVars, loopVars, trackVars
    <2>2. SameButWire(r) /\ wire'[r] = wire[r]
      BY <2>1 DEF SameButWire, wireVars, recvVars
    <2>3. Unmoved(r)
      BY <2>1, QuietUnmoved DEF SenderInv, wireVars
    <2> QED
      BY <2>2, <2>3, NothingReceived DEF Unmoved
  <1>2. CASE \E p \in Payloads, to \in SUBSET Receivers \ {{}} : SendPayload(p, to)
    BY <1>2, SendPayloadReaches
  <1>3. CASE StartLoop \/ LoopTop \/ Detach \/ WriteChunk \/ PostResults
    BY <1>3, StartLoopReaches, LoopTopReaches, DetachReaches, WriteChunkReaches,
       PostResultsReaches
  <1>4. CASE \/ \E p \in Payloads : CancelPayload(p)
             \/ StatusThread
             \/ \E q \in Receivers : RemoveEndpoint(q) \/ OnDisconnected(q)
                                       \/ ReceiveControl(q) \/ Break(q)
             \/ Stop \/ CancelAllPayloads \/ AwaitBarrier \/ CloseDown
    BY <1>4, OtherSenderReaches
  <1>5. CASE \E q \in Receivers :
                \/ RReceive(q) \/ ROnControl(q) \/ RLogs(q) \/ RAttach(q)
                \/ RStatusThread(q) \/ RRemoveEndpoint(q) \/ ROnDisconnected(q)
                \/ \E p \in Payloads : RCancelPayload(q, p)
    <2>1. PICK q \in Receivers :
                \/ RReceive(q) \/ ROnControl(q) \/ RLogs(q) \/ RAttach(q)
                \/ RStatusThread(q) \/ RRemoveEndpoint(q) \/ ROnDisconnected(q)
                \/ \E p \in Payloads : RCancelPayload(q, p)
      BY <1>5
    <2>2. CASE q # r
      BY <2>1, <2>2, OtherReceiverReaches
    <2>3. CASE q = r
      BY <2>1, <2>3, RReceiveKeeps, ROnControlKeeps, RLogsKeeps, RAttachKeeps,
         RStatusThreadKeeps, RRemoveKeeps, RCancelKeeps
    <2> QED
      BY <2>2, <2>3
  <1> QED
    BY <1>1, <1>2, <1>3, <1>4, <1>5 DEF Next

\* A payload that is freed under the reader was given up: FrameInv.
LEMMA FreedStep ==
  ASSUME TypeOK, FreedOnlyAfterGivingUp, \A r \in Receivers : ReceiverInv(r), [Next]_vars
  PROVE  FreedOnlyAfterGivingUp'
  <1>1. CASE UNCHANGED <<r_freed, r_ended>>
    BY <1>1 DEF FreedOnlyAfterGivingUp
  <1>2. CASE \E r \in Receivers : RAttach(r) \/ ROnControl(r)
    <2>1. PICK r \in Receivers : RAttach(r) \/ ROnControl(r)
      BY <1>2
    <2>t. r_ended \in [Receivers -> SUBSET Payloads]
      BY DEF TypeOK
    <2>2. \A q \in Receivers : r_ended[q] \subseteq r_ended'[q]
      BY <2>1, <2>t DEF RAttach, RGivesUp, ROnControl
    <2>3. PICK f : f = r_frame[r]
      OBVIOUS
    <2>4. f.p \notin r_tracked[r] => f.p \in r_ended[r]
      <3>1. FrameInv(r) /\ f.type \in {"data", "canceled", "error"}
        BY <2>1, <2>3 DEF RAttach, ROnControl, ReceiverInv
      <3> QED
        BY <2>3, <3>1 DEF FrameInv
    <2>5. \/ r_freed' = r_freed
          \/ f.p \notin r_tracked[r] /\ r_freed' = r_freed \cup {<<r, f.p, f.type>>}
      BY <2>1, <2>3 DEF RAttach, ROnControl, RUses, Freed
    <2> SUFFICES ASSUME NEW q \in Receivers, NEW p \in Payloads,
                        NEW type \in {"data", "canceled", "error"}, <<q, p, type>> \in r_freed'
                 PROVE  p \in r_ended'[q]
      BY DEF FreedOnlyAfterGivingUp
    <2>6. <<q, p, type>> \in r_freed \/ (q = r /\ p = f.p /\ f.p \notin r_tracked[r])
      BY <2>5
    <2> QED
      BY <2>2, <2>4, <2>6 DEF FreedOnlyAfterGivingUp
  <1>5. CASE \E r \in Receivers : RLogs(r)
    <2>1. PICK r \in Receivers : RLogs(r)
      BY <1>5
    <2>2. r_ended' = r_ended
      BY <2>1 DEF RLogs
    <2>3. r_freed' = r_freed \/ r_freed' = r_freed \cup {<<r, r_frame[r].p, "line">>}
      BY <2>1 DEF RLogs, RUses
    <2>4. \A q, p : \A type \in {"data", "canceled", "error"} :
            <<q, p, type>> \in r_freed' => <<q, p, type>> \in r_freed
      BY <2>3
    <2> QED
      BY <2>2, <2>4 DEF FreedOnlyAfterGivingUp
  <1>3. CASE Next /\ ~ \E r \in Receivers : RAttach(r) \/ ROnControl(r) \/ RLogs(r)
    <2>1. UNCHANGED <<r_freed, r_ended>>
      BY <1>3 DEF Next, SendPayload, CancelPayload, StartLoop, LoopTop, Detach, WriteChunk,
         PostResults, StatusThread, RemoveEndpoint, OnDisconnected, ReceiveControl, Break,
         Stop, CancelAllPayloads, AwaitBarrier, CloseDown, RReceive, RStatusThread,
         RCancelPayload, RRemoveEndpoint, ROnDisconnected, recvVars
    <2> QED
      BY <1>1, <2>1
  <1>4. CASE UNCHANGED vars
    BY <1>1, <1>4 DEF vars, recvVars
  <1> QED
    BY <1>2, <1>3, <1>4, <1>5

\* The inductive invariant of the transfer.
IndInv ==
  /\ TypeOK /\ LoopOffset /\ SenderInv
  /\ \A r \in Receivers : ReceiverInv(r)
  /\ FreedOnlyAfterGivingUp

\* PayloadManager's transfer keeps its invariant: the sender's loops and jobs,
\* what is on the connections and each receiver's jobs, logs and files agree.
THEOREM Inductive == Spec => []IndInv
  <1>1. Init => IndInv
    BY TypesInit, SenderInit, ReceiverInit DEF IndInv, FreedOnlyAfterGivingUp, Init
  <1>2. IndInv /\ [Next]_vars => IndInv'
    <2> SUFFICES ASSUME IndInv, [Next]_vars PROVE IndInv'
      OBVIOUS
    <2>1. TypeOK' /\ LoopOffset'
      BY TypesStep DEF IndInv
    <2>2. SenderInv'
      BY SenderStep DEF IndInv
    <2>3. \A r \in Receivers : ReceiverInv(r)'
      BY ReceiverStep DEF IndInv
    <2>4. FreedOnlyAfterGivingUp'
      BY FreedStep DEF IndInv
    <2> QED
      BY <2>1, <2>2, <2>3, <2>4 DEF IndInv
  <1> QED
    BY <1>1, <1>2, PTL DEF Spec

\* A receiver's client hears of a payload (OnPayload) before any progress of it,
\* and nothing after its end while the sender's channel stands, whatever the
\* reader, the status-update thread and the endpoint manager do meanwhile.
THEOREM IncomingUpdatesHold == Spec => []IncomingUpdates
  <1>1. IndInv => IncomingUpdates
    BY DEF IndInv, ReceiverInv, PayloadInv, LogInv, EndsLast, IncomingUpdates
  <1> QED
    BY <1>1, Inductive, PTL

\* The chunks a receiver wrote are in order and without a gap until it gives the
\* payload up, and a payload reported as received is whole, unless the sender asked
\* a chunk size of an endpoint without a channel (GetOptimalChunkSize).
THEOREM ReceivedWholeHolds == Spec => []ReceivedWhole
  <1>1. IndInv => ReceivedWhole
    BY DEF IndInv, ReceiverInv, PayloadInv, LogInv, GotInv, Whole, ReceivedWhole
  <1> QED
    BY <1>1, Inductive, PTL

\* ProcessDataPacket and ProcessControlPacket use the pending payload they have
\* looked up without a lock; the status-update thread frees it before they have
\* posted a job only if this reader had given the payload up before.  (After the
\* job of a cancellation is posted nothing keeps the payload from being freed under
\* the line that ProcessControlPacket still logs.)
THEOREM FreedOnlyAfterGivingUpHolds == Spec => []FreedOnlyAfterGivingUp
  <1>1. IndInv => FreedOnlyAfterGivingUp
    BY DEF IndInv
  <1> QED
    BY <1>1, Inductive, PTL
============================================================================
