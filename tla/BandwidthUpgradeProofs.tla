---------------------- MODULE BandwidthUpgradeProofs ----------------------
(***************************************************************************)
(* Theorems about BandwidthUpgrade: the types, that a channel is paused    *)
(* only during an upgrade, and that the mediums of the two clients agree.  *)
(* All hold for any number of mediums, frames, retries and faults.         *)
(*                                                                         *)
(* The second rests on RequestInv. A side that has written                 *)
(* UPGRADE_PATH_AVAILABLE waits for one answer, which is somewhere on its  *)
(* way: the request itself, the refusal, or the new channel. As long as it *)
(* is, the side is in progress and does nothing else, so that neither      *)
(* answer finds a paused channel. Each action has a lemma that it keeps    *)
(* the invariant, which says for each side whether the step brings a frame *)
(* or a job of a request (Thins, JobsThin) and where the request goes      *)
(* (Kept).                                                                 *)
(*                                                                         *)
(* The third rests on AgreeInv as well. LeftInv follows                    *)
(* SAFE_TO_CLOSE_PRIOR_CHANNEL back to a side that has left the first      *)
(* channel; PhaseInv says that one channel is connected only, and that all *)
(* that is proposed, accepted and registered from then on is about its     *)
(* medium.                                                                 *)
(***************************************************************************)
EXTENDS BandwidthUpgrade, SequenceTheorems, TLAPS

----------------------------------------------------------------------------
(* Types *)

\* TypeOK in parts, by what a step may leave alone: the channels,
ChannelType ==
  /\ channel \in [Side -> 0 .. LastMedium]
  /\ paused \in [Side -> SUBSET Mediums]
  /\ crypto \in [Side -> SUBSET Mediums]
  /\ closed \in [Side -> SUBSET Mediums]
  /\ broken \subseteq Mediums
  /\ made \subseteq Mediums
  /\ arriving \in [Side -> SUBSET Mediums]
  /\ bandwidth \in [Side -> 0 .. LastMedium]
\* what is on its way,
WireType ==
  /\ wire \in [Side -> [Mediums -> Seq(Frame)]]
  /\ encoded \in [Side -> Nat]
\* the BwuManager's thread,
JobType ==
  /\ jobs \in [Side -> Seq(Job)]
  /\ at \in [Side -> Steps \cup {Idle}]
\* the BwuManager's tables,
EntryType ==
  /\ medium \in [Side -> 0 .. LastMedium]
  /\ previous \in [Side -> SUBSET (0 .. LastMedium)]
  /\ \A s \in Side : \A c, d \in previous[s] : c = d
  /\ early \subseteq Side /\ in_progress \subseteq Side /\ alarm \subseteq Side
\* the endpoint's workers and what was read and written,
WorkerType ==
  /\ decoded \in [Side -> Nat]
  /\ reader \in [Side -> Worker]
  /\ writer \in [Side -> Worker]
  /\ discard \subseteq Side
  /\ removal \in [Side -> Removal]
  /\ sent \in [Side -> 0 .. MaxData]
  /\ got \in [Side -> Seq(1 .. MaxData)]
  /\ late \subseteq Side
\* and the bounds and the history.
BoundType ==
  /\ asked \subseteq Side /\ alarms \in 0 .. MaxAlarms
  /\ undefined \subseteq Side
  /\ faults \subseteq {"break", "disconnect", "init", "connect", "timeout", "duplicate",
                       "silence"}

\* Together they are TypeOK.
LEMMA TypeParts ==
  TypeOK <=> /\ ChannelType /\ WireType /\ JobType
             /\ EntryType /\ WorkerType /\ BoundType
  BY DEF TypeOK, ChannelType, WireType, JobType, EntryType, WorkerType, BoundType

\* There are two sides.
LEMMA PeerSide == ASSUME NEW s \in Side PROVE Peer(s) \in Side /\ Peer(s) # s
  BY DEF Side, Peer

\* None is no medium, and the mediums to upgrade to are mediums.
LEMMA MediumsNat == /\ Mediums \subseteq Nat \ {0} /\ Mediums \subseteq 0 .. LastMedium
                    /\ (0 .. LastMedium) \ {None} = Mediums /\ 1 \in Mediums
                    /\ 2 .. LastMedium \subseteq Mediums
                    /\ \A c : c \in 0 .. LastMedium /\ c # None => c \in Mediums
  BY UpgradeConstants DEF Mediums, None

\* A connection starts with the types right.
LEMMA InitType == Init => TypeOK
<1> SUFFICES ASSUME Init PROVE TypeOK
  OBVIOUS
<1>1. ChannelType
  BY MediumsNat DEF Init, ChannelType, AllOpen
<1>2. WireType
  <2>1. <<>> \in Seq(Frame)
    OBVIOUS
  <2> QED BY <2>1 DEF Init, WireType
<1>3. JobType
  <2>1. <<>> \in Seq(Job)
    OBVIOUS
  <2> QED BY <2>1 DEF Init, JobType
<1>4. EntryType
  BY MediumsNat, UpgradeConstants DEF Init, EntryType, None
<1>5. WorkerType
  <2>1. <<>> \in Seq(1 .. MaxData)
    OBVIOUS
  <2> QED BY <2>1, MediumsNat, UpgradeConstants DEF Init, WorkerType, Worker, Removal, None
<1>6. BoundType
  BY UpgradeConstants DEF Init, BoundType
<1> QED BY <1>1, <1>2, <1>3, <1>4, <1>5, <1>6, TypeParts

\* A thread that is in a job is on a channel, and knows of a medium where a job is about one.
LEMMA StepFacts ==
  ASSUME JobType, NEW s \in Side
  PROVE  /\ at[s].step # "idle" => at[s].on \in Mediums
         /\ at[s].step \in {"path", "ack", "failure", "replace"} => at[s].of \in Mediums
         /\ at[s].step \in {"last", "safe", "bye", "drain"} => at[s].of = None
         /\ at[s].step = "idle" <=> at[s] = Idle
<1>1. CASE at[s] = Idle
  BY <1>1 DEF Idle
<1>2. CASE at[s] \in Steps
  BY <1>2 DEF Steps, Idle
<1> QED BY <1>1, <1>2 DEF JobType

\* What a thread takes from its queue is a job of the type it looked for.
LEMMA TakesFacts ==
  ASSUME JobType, NEW s \in Side, NEW type, Takes(s, type)
  PROVE  /\ jobs[s] # <<>> /\ at[s] = Idle
         /\ Head(jobs[s]) \in Job /\ Head(jobs[s]).type = type
         /\ Of(s) \in 0 .. LastMedium
         /\ type \in {"incoming", "path", "failure"} => Of(s) \in Mediums
         /\ Rest(s) \in [Side -> Seq(Job)]
<1>1. jobs[s] \in Seq(Job) /\ jobs[s] # <<>> /\ at[s] = Idle /\ Head(jobs[s]).type = type
  BY DEF JobType, Takes
<1>2. Head(jobs[s]) \in Job /\ Tail(jobs[s]) \in Seq(Job)
  BY <1>1
<1>3. /\ Head(jobs[s]).of \in 0 .. LastMedium
      /\ type \in {"incoming", "path", "failure"} => Head(jobs[s]).of \in Mediums
  BY <1>1, <1>2, MediumsNat, UpgradeConstants DEF Job, None
<1>4. Rest(s) \in [Side -> Seq(Job)]
  BY <1>2 DEF Rest, JobType
<1> QED BY <1>1, <1>2, <1>3, <1>4 DEF Of

\* BaseEndpointChannel::Write keeps the types,
LEMMA WriteType ==
  ASSUME WireType, NEW s \in Side, NEW c \in Mediums, NEW type, NEW of, NEW ok,
         \A n \in Nat : [type |-> type, of |-> of, seq |-> n] \in Frame,
         Write(s, c, type, of, ok)
  PROVE  WireType'
<1>1. encoded' \in [Side -> Nat]
  BY DEF Write, Encodes, WireType
<1> DEFINE seq == IF c \in crypto[s] THEN encoded'[s] ELSE 0
           new == [type |-> type, of |-> of, seq |-> seq]
<1>2. new \in Frame
  BY <1>1
<1>3. wire' = IF ~Up(c) THEN wire ELSE [wire EXCEPT ![Peer(s)][c] = Append(@, new)]
  BY DEF Write
<1> HIDE DEF new
<1>4. wire' \in [Side -> [Mediums -> Seq(Frame)]]
  BY <1>2, <1>3, PeerSide DEF WireType
<1> QED BY <1>1, <1>4 DEF WireType

\* and so do Close,
LEMMA CloseType ==
  ASSUME ChannelType, WireType, NEW s \in Side, NEW cs, Close(s, cs), cs \subseteq Mediums
  PROVE  /\ paused' \in [Side -> SUBSET Mediums]
         /\ closed' \in [Side -> SUBSET Mediums]
         /\ wire' \in [Side -> [Mediums -> Seq(Frame)]]
<1>1. /\ paused' \in [Side -> SUBSET Mediums]
      /\ closed' \in [Side -> SUBSET Mediums]
  BY DEF Close, ChannelType
<1>2. PICK lost \in BOOLEAN :
        wire' = [t \in Side |-> [c \in Mediums |->
                  IF c \in cs /\ (t = s \/ lost) THEN <<>> ELSE wire[t][c]]]
  BY DEF Close
<1>3. <<>> \in Seq(Frame)
  OBVIOUS
<1>4. wire' \in [Side -> [Mediums -> Seq(Frame)]]
  BY <1>2, <1>3 DEF WireType
<1> QED BY <1>1, <1>4

\* a frame that is read,
LEMMA TookType ==
  ASSUME WireType, NEW s \in Side, NEW c \in Mediums, wire[s][c] # <<>>, Took(s, c)
  PROVE  wire' \in [Side -> [Mediums -> Seq(Frame)]]
<1>1. Tail(wire[s][c]) \in Seq(Frame)
  BY DEF WireType
<1> QED BY <1>1 DEF WireType, Took

\* a job that is posted,
LEMMA PostType ==
  ASSUME JobType, NEW s \in Side, NEW type, NEW of, [type |-> type, of |-> of] \in Job
  PROVE  [jobs EXCEPT ![s] = Post(s, type, of)] \in [Side -> Seq(Job)]
  BY DEF JobType, Post

\* a thread that goes on in a job
LEMMA GoesType ==
  ASSUME JobType, NEW s \in Side, NEW step, NEW on \in Mediums, NEW of,
         \/ step \in {"path", "ack", "failure", "replace"} /\ of \in Mediums
         \/ step \in {"last", "safe", "bye", "drain"} /\ of = None,
         Goes(s, step, on, of)
  PROVE  at' \in [Side -> Steps \cup {Idle}]
<1>1. [step |-> step, on |-> on, of |-> of] \in Steps
  BY DEF Steps
<1> QED BY <1>1 DEF JobType, Goes

\* and one that is done with it.
LEMMA EndsType ==
  ASSUME JobType, NEW s \in Side, Ends(s)
  PROVE  at' \in [Side -> Steps \cup {Idle}]
  BY DEF JobType, Ends

\* ChooseBestUpgradeMedium returns a medium, or none.
LEMMA ChooseType ==
  ASSUME EntryType, NEW s \in Side
  PROVE  ChooseBestUpgradeMedium(s, Preferred) \in 0 .. LastMedium
<1>1. None \in 0 .. LastMedium
  BY UpgradeConstants DEF None
<1>2. Preferred # <<>> => Preferred[1] \in 0 .. LastMedium
  BY UpgradeConstants
<1> QED BY <1>1, <1>2 DEF ChooseBestUpgradeMedium, EntryType

\* The mediums still to be tried are mediums to upgrade to.
LEMMA UntriedType ==
  ASSUME NEW m
  PROVE  Untried(m) \in Seq(2 .. LastMedium)
<1>1. CASE m \notin ListOf(Preferred)
  BY <1>1 DEF Untried
<1>2. CASE m \in ListOf(Preferred)
  <2> DEFINE i == CHOOSE j \in DOMAIN Preferred : Preferred[j] = m
  <2>1. \E j \in DOMAIN Preferred : Preferred[j] = m
    BY <1>2 DEF ListOf
  <2>2. i \in DOMAIN Preferred
    BY <2>1
  <2>3. Untried(m) = SubSeq(Preferred, i + 1, Len(Preferred))
    BY <1>2 DEF Untried
  <2>4. i \in 1 .. Len(Preferred) /\ Len(Preferred) \in Nat
    BY <2>2, UpgradeConstants
  <2> HIDE DEF i
  <2>5. SubSeq(Preferred, i + 1, Len(Preferred)) \in Seq(2 .. LastMedium)
    BY <2>4, UpgradeConstants, SubSeqProperties
  <2> QED BY <2>3, <2>5
<1> QED BY <1>1, <1>2

\* RetryUpgradeMediums posts a job, or sets an alarm,
LEMMA RetryType ==
  ASSUME JobType, NEW s \in Side, NEW next \in 0 .. LastMedium,
         NEW rest \in [Side -> Seq(Job)], NEW set \in SUBSET Side,
         RetryUpgradeMediums(s, next, rest, set)
  PROVE  jobs' \in [Side -> Seq(Job)] /\ alarm' \subseteq Side
<1>1. [type |-> "init", of |-> next] \in Job
  BY DEF Job
<1>2. [rest EXCEPT ![s] = Append(@, [type |-> "init", of |-> next])] \in [Side -> Seq(Job)]
  BY <1>1
<1> QED BY <1>2 DEF RetryUpgradeMediums

\* and ProcessUpgradeFailureEvent names the next medium.
LEMMA FailureEventType ==
  ASSUME JobType, EntryType, NEW s \in Side, NEW m, NEW set \in SUBSET Side,
         Rest(s) \in [Side -> Seq(Job)],
         ProcessUpgradeFailureEvent(s, m, set)
  PROVE  /\ jobs' \in [Side -> Seq(Job)] /\ alarm' \subseteq Side
         /\ in_progress' \subseteq Side /\ medium' \in [Side -> 0 .. LastMedium]
<1> DEFINE next == IF Untried(m) = <<>> THEN None ELSE Untried(m)[1]
<1>1. next \in 0 .. LastMedium
  BY UntriedType, MediumsNat, UpgradeConstants DEF None
<1>2. /\ in_progress' = in_progress \ {s}
      /\ RetryUpgradeMediums(s, next, Rest(s), set)
      /\ medium' = [medium EXCEPT ![s] =
                      IF channel[s] # WifiLan /\ next = channel[s] THEN None ELSE next]
  BY DEF ProcessUpgradeFailureEvent
<1>3. None \in 0 .. LastMedium
  BY UpgradeConstants DEF None
<1> HIDE DEF next
<1>4. jobs' \in [Side -> Seq(Job)] /\ alarm' \subseteq Side
  BY <1>1, <1>2, RetryType
<1> QED BY <1>1, <1>2, <1>3, <1>4 DEF EntryType

\* RunUpgradeProtocol pauses the new channel, or closes it.
LEMMA RunUpgradeType ==
  ASSUME ChannelType, JobType, NEW s \in Side, NEW m \in Mediums, RunUpgradeProtocol(s, m)
  PROVE  /\ paused' \in [Side -> SUBSET Mediums]
         /\ closed' \in [Side -> SUBSET Mediums]
         /\ at' \in [Side -> Steps \cup {Idle}]
<1>1. CASE channel[s] = None
  BY <1>1, EndsType DEF RunUpgradeProtocol, ChannelType
<1>2. CASE channel[s] # None
  <2>1. channel[s] \in Mediums
    BY <1>2, MediumsNat DEF ChannelType
  <2>2. Goes(s, "replace", channel[s], m) /\ closed' = closed
    BY <1>2 DEF RunUpgradeProtocol
  <2>3. at' \in [Side -> Steps \cup {Idle}]
    BY <2>1, <2>2, GoesType
  <2>4. paused' = [paused EXCEPT ![s] = @ \cup {m}]
    BY <1>2 DEF RunUpgradeProtocol
  <2>5. paused' \in [Side -> SUBSET Mediums]
    BY <2>4 DEF ChannelType
  <2> QED BY <2>2, <2>3, <2>5 DEF ChannelType
<1> QED BY <1>1, <1>2

\* ProcessLastWriteToPriorChannelEvent leaves one entry at most.
LEMMA LastWriteType ==
  ASSUME JobType, EntryType, NEW s \in Side, NEW entry \in SUBSET (0 .. LastMedium),
         \A c, d \in entry : c = d, ProcessLastWriteToPriorChannelEvent(s, entry)
  PROVE  /\ previous' \in [Side -> SUBSET (0 .. LastMedium)]
         /\ \A t \in Side : \A c, d \in previous'[t] : c = d
         /\ early' \subseteq Side
         /\ at' \in [Side -> Steps \cup {Idle}]
<1>1. None \in 0 .. LastMedium
  BY UpgradeConstants DEF None
<1>2. CASE entry \subseteq {None}
  BY <1>1, <1>2, EndsType DEF ProcessLastWriteToPriorChannelEvent, EntryType
<1>3. CASE ~(entry \subseteq {None})
  <2>1. PICK c \in entry : Goes(s, "safe", c, None)
    BY <1>3 DEF ProcessLastWriteToPriorChannelEvent
  <2>2. c \in Mediums
    BY <1>3, MediumsNat
  <2>3. at' \in [Side -> Steps \cup {Idle}]
    BY <2>1, <2>2, GoesType
  <2>4. previous' = [previous EXCEPT ![s] = entry] /\ early' = early \ {s}
    BY <1>3 DEF ProcessLastWriteToPriorChannelEvent
  <2> QED BY <2>3, <2>4 DEF EntryType
<1> QED BY <1>2, <1>3

\* A worker that has ended is a worker,
LEMMA EndedType == Ended \in Worker
  BY UpgradeConstants DEF Ended, Worker, None

\* and so is one whose channel failed.
LEMMA FailedType ==
  ASSUME NEW w \in Worker
  PROVE  Failed(w) \in Worker
<1> DEFINE f == [w EXCEPT !.failed = w.on]
<1>1. w.on \in 0 .. LastMedium /\ None \in 0 .. LastMedium
  BY UpgradeConstants DEF Worker, None
<1>2. f \in Worker
  BY <1>1 DEF Worker
<1>3. Failed(w) = [f EXCEPT !.on = None]
  BY DEF Failed
<1> HIDE DEF f
<1>4. [f EXCEPT !.on = None] \in Worker
  BY <1>1, <1>2 DEF Worker
<1> QED BY <1>3, <1>4

\* InitiateBwuForEndpoint only posts a job: types.
LEMMA InitiateBwuForEndpointType ==
  ASSUME TypeOK, NEW s \in Side, InitiateBwuForEndpoint(s)
  PROVE  TypeOK'
<1>0. ChannelType /\ WireType /\ JobType /\ EntryType /\ WorkerType /\ BoundType
  BY TypeParts
<1>1. ChannelType'
  BY <1>0 DEF InitiateBwuForEndpoint, ChannelType, channelVars, entryVars, bwuVars,
     workerVars, boundVars
<1>2. WireType'
  BY <1>0 DEF InitiateBwuForEndpoint, WireType, channelVars, entryVars, bwuVars, workerVars,
     boundVars
<1>3. JobType'
  <2>1. [type |-> "init", of |-> None] \in Job
    BY UpgradeConstants DEF Job, None
  <2> QED BY <1>0, <2>1, PostType DEF InitiateBwuForEndpoint, JobType
<1>4. EntryType'
  BY <1>0 DEF InitiateBwuForEndpoint, EntryType, channelVars, entryVars, bwuVars, workerVars,
     boundVars
<1>5. WorkerType'
  BY <1>0 DEF InitiateBwuForEndpoint, WorkerType, channelVars, entryVars, bwuVars,
     workerVars, boundVars
<1>6. BoundType'
  BY <1>0 DEF InitiateBwuForEndpoint, BoundType
<1> QED BY <1>1, <1>2, <1>3, <1>4, <1>5, <1>6
       DEF TypeOK, ChannelType, WireType, JobType, EntryType, WorkerType, BoundType

\* The alarm of RetryUpgradesAfterDelay only posts a job: types.
LEMMA AlarmFiresType ==
  ASSUME TypeOK, NEW s \in Side, AlarmFires(s)
  PROVE  TypeOK'
<1>0. ChannelType /\ WireType /\ JobType /\ EntryType /\ WorkerType /\ BoundType
  BY TypeParts
<1>1. ChannelType'
  BY <1>0 DEF AlarmFires, ChannelType, channelVars, entryVars, bwuVars, workerVars, boundVars
<1>2. WireType'
  BY <1>0 DEF AlarmFires, WireType, channelVars, entryVars, bwuVars, workerVars, boundVars
<1>3. JobType'
  <2>1. [type |-> "retry", of |-> None] \in Job
    BY DEF Job
  <2> QED BY <1>0, <2>1, PostType DEF AlarmFires, JobType
<1>4. EntryType'
  BY <1>0 DEF AlarmFires, EntryType, channelVars, entryVars, bwuVars, workerVars, boundVars
<1>5. WorkerType'
  BY <1>0 DEF AlarmFires, WorkerType, channelVars, entryVars, bwuVars, workerVars, boundVars
<1>6. BoundType'
  BY <1>0, UpgradeConstants DEF AlarmFires, BoundType
<1> QED BY <1>1, <1>2, <1>3, <1>4, <1>5, <1>6
       DEF TypeOK, ChannelType, WireType, JobType, EntryType, WorkerType, BoundType

\* The job of InitiateBwuForEndpoint runs up to its write: types.
LEMMA InitJobType ==
  ASSUME TypeOK, NEW s \in Side, InitJob(s)
  PROVE  TypeOK'
<1>0. ChannelType /\ WireType /\ JobType /\ EntryType /\ WorkerType /\ BoundType
  BY TypeParts
<1> DEFINE proposed == IF Of(s) # None THEN Of(s) ELSE ChooseBestUpgradeMedium(s, Preferred)
<1>7. /\ Of(s) \in 0 .. LastMedium /\ Rest(s) \in [Side -> Seq(Job)]
      /\ proposed \in 0 .. LastMedium
  BY <1>0, TakesFacts, ChooseType DEF InitJob
<1>8. \/ /\ medium' = [medium EXCEPT ![s] = proposed]
         /\ jobs' = Rest(s)
         /\ UNCHANGED <<at, in_progress, faults>> /\ alarm' \in {alarm, alarm \ {s}}
      \/ /\ faults' = faults \cup {"init"}
         /\ ProcessUpgradeFailureEvent(s, proposed, alarm \ {s})
         /\ UNCHANGED at
      \/ /\ proposed # None /\ channel[s] # None
         /\ medium' = [medium EXCEPT ![s] = proposed]
         /\ alarm' = alarm \ {s}
         /\ jobs' = Rest(s)
         /\ Goes(s, "path", channel[s], proposed)
         /\ UNCHANGED <<in_progress, faults>>
  BY DEF InitJob
<1> HIDE DEF proposed
<1>1. ChannelType'
  BY <1>0 DEF InitJob, ChannelType, channelVars, entryVars, bwuVars, workerVars, boundVars
<1>2. WireType'
  BY <1>0 DEF InitJob, WireType, channelVars, entryVars, bwuVars, workerVars, boundVars
<1>3. JobType'
  <2>1. CASE ProcessUpgradeFailureEvent(s, proposed, alarm \ {s}) /\ UNCHANGED at
    <3>1. alarm \ {s} \in SUBSET Side
      BY <1>0 DEF EntryType
    <3> QED BY <1>0, <1>7, <2>1, <3>1, FailureEventType DEF JobType
  <2>2. CASE /\ jobs' = Rest(s) /\ proposed # None /\ channel[s] # None
             /\ Goes(s, "path", channel[s], proposed)
    <3>1. proposed \in Mediums /\ channel[s] \in Mediums
      BY <1>0, <1>7, <2>2, MediumsNat DEF ChannelType
    <3> QED BY <1>0, <1>7, <2>2, <3>1, GoesType DEF JobType
  <2> QED BY <1>0, <1>7, <1>8, <2>1, <2>2 DEF JobType
<1>4. EntryType'
  <2>0. previous' = previous /\ early' = early
    BY DEF InitJob
  <2>1. CASE ProcessUpgradeFailureEvent(s, proposed, alarm \ {s})
    <3>1. alarm \ {s} \in SUBSET Side
      BY <1>0 DEF EntryType
    <3> QED BY <1>0, <1>7, <2>0, <2>1, <3>1, FailureEventType DEF EntryType
  <2>2. CASE /\ medium' = [medium EXCEPT ![s] = proposed]
             /\ alarm' \in {alarm, alarm \ {s}} /\ in_progress' = in_progress
    BY <1>0, <1>7, <2>0, <2>2 DEF EntryType
  <2> QED BY <1>8, <2>1, <2>2
<1>5. WorkerType'
  BY <1>0 DEF InitJob, WorkerType, channelVars, entryVars, bwuVars, workerVars, boundVars
<1>6. BoundType'
  <2>1. faults' \in {faults, faults \cup {"init"}} /\ UNCHANGED <<asked, alarms, undefined>>
    BY <1>8 DEF InitJob
  <2> QED BY <1>0, <2>1 DEF BoundType
<1> QED BY <1>1, <1>2, <1>3, <1>4, <1>5, <1>6
       DEF TypeOK, ChannelType, WireType, JobType, EntryType, WorkerType, BoundType

\* The retry after a delay runs: types.
LEMMA RetryJobType ==
  ASSUME TypeOK, NEW s \in Side, RetryJob(s)
  PROVE  TypeOK'
<1>0. ChannelType /\ WireType /\ JobType /\ EntryType /\ WorkerType /\ BoundType
  BY TypeParts
<1> DEFINE next == ChooseBestUpgradeMedium(s, Preferred)
<1>7. Rest(s) \in [Side -> Seq(Job)] /\ next \in 0 .. LastMedium
  BY <1>0, TakesFacts, ChooseType DEF RetryJob
<1>8. \/ jobs' = Rest(s) /\ UNCHANGED <<medium, alarm>>
      \/ /\ RetryUpgradeMediums(s, next, Rest(s), alarm)
         /\ medium' \in {medium, [medium EXCEPT ![s] = next]}
  BY DEF RetryJob
<1> HIDE DEF next
<1>9. jobs' \in [Side -> Seq(Job)] /\ alarm' \subseteq Side
  BY <1>0, <1>7, <1>8, RetryType DEF EntryType
<1>1. ChannelType'
  BY <1>0 DEF RetryJob, ChannelType, channelVars, entryVars, bwuVars, workerVars, boundVars
<1>2. WireType'
  BY <1>0 DEF RetryJob, WireType, channelVars, entryVars, bwuVars, workerVars, boundVars
<1>3. JobType'
  BY <1>0, <1>9 DEF RetryJob, JobType
<1>4. EntryType'
  <2>1. previous' = previous /\ early' = early /\ in_progress' = in_progress
    BY DEF RetryJob, entryVars
  <2> QED BY <1>0, <1>7, <1>8, <1>9, <2>1 DEF EntryType
<1>5. WorkerType'
  BY <1>0 DEF RetryJob, WorkerType, channelVars, entryVars, bwuVars, workerVars, boundVars
<1>6. BoundType'
  BY <1>0 DEF RetryJob, BoundType, channelVars, entryVars, bwuVars, workerVars, boundVars
<1> QED BY <1>1, <1>2, <1>3, <1>4, <1>5, <1>6
       DEF TypeOK, ChannelType, WireType, JobType, EntryType, WorkerType, BoundType

\* ProcessUpgradeFailureEvent runs: types.
LEMMA FailureJobType ==
  ASSUME TypeOK, NEW s \in Side, FailureJob(s)
  PROVE  TypeOK'
<1>0. ChannelType /\ WireType /\ JobType /\ EntryType /\ WorkerType /\ BoundType
  BY TypeParts
<1>7. Rest(s) \in [Side -> Seq(Job)] /\ alarm \in SUBSET Side
  BY <1>0, TakesFacts DEF FailureJob, EntryType
<1>8. /\ jobs' \in [Side -> Seq(Job)] /\ alarm' \subseteq Side
      /\ in_progress' \subseteq Side /\ medium' \in [Side -> 0 .. LastMedium]
  BY <1>0, <1>7, FailureEventType DEF FailureJob
<1>1. ChannelType'
  BY <1>0 DEF FailureJob, ChannelType, channelVars, entryVars, bwuVars, workerVars, boundVars
<1>2. WireType'
  BY <1>0 DEF FailureJob, WireType, channelVars, entryVars, bwuVars, workerVars, boundVars
<1>3. JobType'
  BY <1>0, <1>8 DEF FailureJob, JobType
<1>4. EntryType'
  BY <1>0, <1>8 DEF FailureJob, EntryType
<1>5. WorkerType'
  BY <1>0 DEF FailureJob, WorkerType, channelVars, entryVars, bwuVars, workerVars, boundVars
<1>6. BoundType'
  BY <1>0 DEF FailureJob, BoundType, channelVars, entryVars, bwuVars, workerVars, boundVars
<1> QED BY <1>1, <1>2, <1>3, <1>4, <1>5, <1>6
       DEF TypeOK, ChannelType, WireType, JobType, EntryType, WorkerType, BoundType

\* ProcessBwuPathAvailableEvent runs: types.
LEMMA PathJobType ==
  ASSUME TypeOK, NEW s \in Side, PathJob(s)
  PROVE  TypeOK'
<1>0. ChannelType /\ WireType /\ JobType /\ EntryType /\ WorkerType /\ BoundType
  BY TypeParts
<1>7. /\ Of(s) \in Mediums /\ Rest(s) \in [Side -> Seq(Job)]
      /\ Peer(s) \in Side /\ None \in 0 .. LastMedium /\ Of(s) \in 0 .. LastMedium
  BY <1>0, TakesFacts, PeerSide, UpgradeConstants DEF PathJob, None
<1>8. (previous[s] \cup {channel[s]}) \ {None} \subseteq Mediums
  BY <1>0, MediumsNat DEF ChannelType, EntryType
<1>9. \/ /\ Close(s, (previous[s] \cup {channel[s]}) \ {None})
         /\ UNCHANGED <<made, arriving>>
      \/ UNCHANGED <<paused, closed, wire, made, arriving>>
      \/ /\ UNCHANGED <<paused, closed, wire>>
         /\ made' = made \cup {Of(s)}
         /\ arriving' = [arriving EXCEPT ![Peer(s)] = @ \cup {Of(s)}]
  BY DEF PathJob
<1>1. ChannelType'
  <2>1. UNCHANGED <<channel, crypto, broken, bandwidth>>
    BY DEF PathJob
  <2>2. paused' \in [Side -> SUBSET Mediums] /\ closed' \in [Side -> SUBSET Mediums]
    <3>1. CASE Close(s, (previous[s] \cup {channel[s]}) \ {None})
      BY <1>0, <1>8, <3>1, CloseType
    <3> QED BY <1>0, <1>9, <3>1 DEF ChannelType
  <2>3. made' \subseteq Mediums /\ arriving' \in [Side -> SUBSET Mediums]
    BY <1>0, <1>7, <1>9 DEF ChannelType
  <2> QED BY <1>0, <2>1, <2>2, <2>3 DEF ChannelType
<1>2. WireType'
  <2>1. CASE Close(s, (previous[s] \cup {channel[s]}) \ {None})
    BY <1>0, <1>8, <2>1, CloseType DEF PathJob, WireType
  <2> QED BY <1>0, <1>9, <2>1 DEF PathJob, WireType
<1>3. JobType'
  <2>1. jobs' = Rest(s)
    BY DEF PathJob
  <2>2. \/ at' = at \/ Ends(s)
        \/ channel[s] # None /\ Goes(s, "failure", channel[s], Of(s))
        \/ Goes(s, "ack", Of(s), Of(s))
    BY DEF PathJob
  <2>3. CASE channel[s] # None /\ Goes(s, "failure", channel[s], Of(s))
    <3>1. channel[s] \in Mediums
      BY <1>0, <2>3, MediumsNat DEF ChannelType
    <3> QED BY <1>0, <1>7, <2>1, <2>3, <3>1, GoesType DEF JobType
  <2>4. CASE Goes(s, "ack", Of(s), Of(s))
    BY <1>0, <1>7, <2>1, <2>4, GoesType DEF JobType
  <2> QED BY <1>0, <1>7, <2>1, <2>2, <2>3, <2>4, EndsType DEF JobType
<1>4. EntryType'
  <2>1. /\ medium' \in {medium, [medium EXCEPT ![s] = Of(s)]}
        /\ previous' \in {previous, [previous EXCEPT ![s] = {}]}
        /\ UNCHANGED <<early, in_progress, alarm>>
    BY DEF PathJob
  <2> QED BY <1>0, <1>7, <2>1 DEF EntryType
<1>5. WorkerType'
  BY <1>0 DEF PathJob, WorkerType, channelVars, entryVars, bwuVars, workerVars, boundVars
<1>6. BoundType'
  <2>1. /\ faults' \in {faults, faults \cup {"duplicate"}, faults \cup {"connect"}}
        /\ UNCHANGED <<asked, alarms, undefined>>
    BY DEF PathJob
  <2> QED BY <1>0, <2>1 DEF BoundType
<1> QED BY <1>1, <1>2, <1>3, <1>4, <1>5, <1>6
       DEF TypeOK, ChannelType, WireType, JobType, EntryType, WorkerType, BoundType

\* OnIncomingConnection runs: types.
LEMMA IncomingJobType ==
  ASSUME TypeOK, NEW s \in Side, IncomingJob(s)
  PROVE  TypeOK'
<1>0. ChannelType /\ WireType /\ JobType /\ EntryType /\ WorkerType /\ BoundType
  BY TypeParts
<1> DEFINE m == Of(s)
           ack == [type |-> "ack", of |-> None, seq |-> 0]
           acknowledged == [wire EXCEPT ![Peer(s)][m] = <<ack>>]
<1>7. m \in Mediums /\ Rest(s) \in [Side -> Seq(Job)] /\ Peer(s) \in Side
  BY <1>0, TakesFacts, PeerSide DEF IncomingJob
<1>8. \/ Close(s, {m}) /\ UNCHANGED <<at, alarm>>
      \/ /\ closed' = [closed EXCEPT ![s] = @ \cup {m}]
         /\ wire' \in {wire, acknowledged}
         /\ UNCHANGED <<paused, at, alarm>>
      \/ /\ wire' \in {wire, acknowledged}
         /\ alarm' = alarm \ {s}
         /\ RunUpgradeProtocol(s, m)
  BY DEF IncomingJob
<1>9. UNCHANGED <<channel, crypto, broken, made, arriving, bandwidth, encoded>> /\ jobs' = Rest(s)
  BY DEF IncomingJob
<1>10. acknowledged \in [Side -> [Mediums -> Seq(Frame)]]
  <2>1. <<ack>> \in Seq(Frame)
    <3>1. ack \in Frame
      BY DEF Frame
    <3> QED BY <3>1
  <2> QED BY <1>0, <1>7, <2>1 DEF WireType
<1> HIDE DEF m, acknowledged
<1>1. ChannelType'
  <2>1. CASE Close(s, {m})
    <3>1. paused' \in [Side -> SUBSET Mediums] /\ closed' \in [Side -> SUBSET Mediums]
      BY <1>0, <1>7, <2>1, CloseType
    <3> QED BY <1>0, <1>9, <2>1, <3>1 DEF ChannelType
  <2>2. CASE RunUpgradeProtocol(s, m)
    BY <1>0, <1>7, <1>9, <2>2, RunUpgradeType DEF ChannelType
  <2> QED BY <1>0, <1>7, <1>8, <1>9, <2>1, <2>2 DEF ChannelType
<1>2. WireType'
  <2>1. CASE Close(s, {m})
    BY <1>0, <1>7, <1>9, <2>1, CloseType DEF WireType
  <2> QED BY <1>0, <1>8, <1>9, <1>10, <2>1 DEF WireType
<1>3. JobType'
  <2>1. CASE RunUpgradeProtocol(s, m)
    BY <1>0, <1>7, <1>9, <2>1, RunUpgradeType DEF JobType
  <2> QED BY <1>0, <1>7, <1>8, <1>9, <2>1 DEF JobType
<1>4. EntryType'
  <2>1. alarm' \in {alarm, alarm \ {s}}
    BY <1>8
  <2> QED BY <1>0, <2>1 DEF IncomingJob, EntryType, entryVars
<1>5. WorkerType'
  BY <1>0 DEF IncomingJob, WorkerType, channelVars, entryVars, bwuVars, workerVars, boundVars
<1>6. BoundType'
  BY <1>0 DEF IncomingJob, BoundType, channelVars, entryVars, bwuVars, workerVars, boundVars
<1> QED BY <1>1, <1>2, <1>3, <1>4, <1>5, <1>6
       DEF TypeOK, ChannelType, WireType, JobType, EntryType, WorkerType, BoundType

\* ProcessLastWriteToPriorChannelEvent runs: types.
LEMMA LastJobType ==
  ASSUME TypeOK, NEW s \in Side, LastJob(s)
  PROVE  TypeOK'
<1>0. ChannelType /\ WireType /\ JobType /\ EntryType /\ WorkerType /\ BoundType
  BY TypeParts
<1>7. Rest(s) \in [Side -> Seq(Job)] /\ jobs' = Rest(s)
  BY <1>0, TakesFacts DEF LastJob
<1>8. /\ previous' \in [Side -> SUBSET (0 .. LastMedium)]
      /\ \A t \in Side : \A c, d \in previous'[t] : c = d
      /\ early' \subseteq Side
      /\ at' \in [Side -> Steps \cup {Idle}]
  BY <1>0, LastWriteType DEF LastJob, EntryType
<1>1. ChannelType'
  BY <1>0 DEF LastJob, ChannelType, channelVars, entryVars, bwuVars, workerVars, boundVars
<1>2. WireType'
  BY <1>0 DEF LastJob, WireType, channelVars, entryVars, bwuVars, workerVars, boundVars
<1>3. JobType'
  BY <1>7, <1>8 DEF JobType
<1>4. EntryType'
  BY <1>0, <1>8 DEF LastJob, EntryType
<1>5. WorkerType'
  BY <1>0 DEF LastJob, WorkerType, channelVars, entryVars, bwuVars, workerVars, boundVars
<1>6. BoundType'
  BY <1>0 DEF LastJob, BoundType, channelVars, entryVars, bwuVars, workerVars, boundVars
<1> QED BY <1>1, <1>2, <1>3, <1>4, <1>5, <1>6
       DEF TypeOK, ChannelType, WireType, JobType, EntryType, WorkerType, BoundType

\* ProcessSafeToClosePriorChannelEvent runs up to its goodbye: types.
LEMMA SafeJobType ==
  ASSUME TypeOK, NEW s \in Side, SafeJob(s)
  PROVE  TypeOK'
<1>0. ChannelType /\ WireType /\ JobType /\ EntryType /\ WorkerType /\ BoundType
  BY TypeParts
<1>7. Rest(s) \in [Side -> Seq(Job)] /\ jobs' = Rest(s)
  BY <1>0, TakesFacts DEF SafeJob
<1>8. \/ UNCHANGED <<crypto, at>>
      \/ \E c \in previous[s] \ {None} :
            /\ crypto' = [crypto EXCEPT ![s] = @ \ {c}]
            /\ Goes(s, "bye", c, None)
  BY <1>0 DEF SafeJob, EntryType
<1>1. ChannelType'
  <2>1. crypto' \in [Side -> SUBSET Mediums]
    BY <1>0, <1>8 DEF ChannelType
  <2> QED BY <1>0, <2>1 DEF SafeJob, ChannelType
<1>2. WireType'
  BY <1>0 DEF SafeJob, WireType, channelVars, entryVars, bwuVars, workerVars, boundVars
<1>3. JobType'
  <2>1. CASE UNCHANGED at
    BY <1>0, <1>7, <2>1 DEF JobType
  <2>2. CASE \E c \in previous[s] \ {None} : Goes(s, "bye", c, None)
    <3>1. PICK c \in previous[s] \ {None} : Goes(s, "bye", c, None)
      BY <2>2
    <3>2. c \in Mediums
      BY <1>0, MediumsNat DEF EntryType
    <3> QED BY <1>0, <1>7, <3>1, <3>2, GoesType DEF JobType
  <2> QED BY <1>8, <2>1, <2>2
<1>4. EntryType'
  <2>1. previous' = [previous EXCEPT ![s] = {}] /\ UNCHANGED <<medium, early, in_progress, alarm>>
    BY DEF SafeJob
  <2> QED BY <1>0, <2>1 DEF EntryType
<1>5. WorkerType'
  BY <1>0 DEF SafeJob, WorkerType, channelVars, entryVars, bwuVars, workerVars, boundVars
<1>6. BoundType'
  BY <1>0 DEF SafeJob, BoundType, boundVars
<1> QED BY <1>1, <1>2, <1>3, <1>4, <1>5, <1>6
       DEF TypeOK, ChannelType, WireType, JobType, EntryType, WorkerType, BoundType

\* OnEndpointDisconnect runs: types.
LEMMA DisconnectJobType ==
  ASSUME TypeOK, NEW s \in Side, DisconnectJob(s)
  PROVE  TypeOK'
<1>0. ChannelType /\ WireType /\ JobType /\ EntryType /\ WorkerType /\ BoundType
  BY TypeParts
<1>7. Rest(s) \in [Side -> Seq(Job)] /\ jobs' = Rest(s) /\ None \in 0 .. LastMedium
  BY <1>0, TakesFacts, UpgradeConstants DEF DisconnectJob, None
<1>8. \/ UNCHANGED <<paused, closed, wire, medium, previous, early, in_progress, alarm>>
      \/ /\ Close(s, previous[s] \ {None})
         /\ previous' = [previous EXCEPT ![s] = {}]
         /\ early' = early \ {s}
         /\ in_progress' = in_progress \ {s}
         /\ alarm' = alarm \ {s}
         /\ medium' = [medium EXCEPT ![s] = None]
  BY DEF DisconnectJob, entryVars
<1>9. previous[s] \ {None} \subseteq Mediums
  BY <1>0, MediumsNat DEF EntryType
<1>10. /\ paused' \in [Side -> SUBSET Mediums] /\ closed' \in [Side -> SUBSET Mediums]
       /\ wire' \in [Side -> [Mediums -> Seq(Frame)]]
  <2>1. CASE Close(s, previous[s] \ {None})
    BY <1>0, <1>9, <2>1, CloseType
  <2> QED BY <1>0, <1>8, <2>1 DEF ChannelType, WireType
<1>1. ChannelType'
  BY <1>0, <1>10 DEF DisconnectJob, ChannelType
<1>2. WireType'
  BY <1>0, <1>10 DEF DisconnectJob, WireType
<1>3. JobType'
  BY <1>0, <1>7 DEF DisconnectJob, JobType
<1>4. EntryType'
  BY <1>0, <1>7, <1>8 DEF EntryType
<1>5. WorkerType'
  BY <1>0 DEF DisconnectJob, WorkerType, channelVars, entryVars, bwuVars, workerVars, boundVars
<1>6. BoundType'
  BY <1>0 DEF DisconnectJob, BoundType, channelVars, entryVars, bwuVars, workerVars, boundVars
<1> QED BY <1>1, <1>2, <1>3, <1>4, <1>5, <1>6
       DEF TypeOK, ChannelType, WireType, JobType, EntryType, WorkerType, BoundType

\* UPGRADE_PATH_AVAILABLE is written, which begins a request: types.
LEMMA WritePathType ==
  ASSUME TypeOK, NEW s \in Side, WritePath(s)
  PROVE  TypeOK'
<1>0. ChannelType /\ WireType /\ JobType /\ EntryType /\ WorkerType /\ BoundType
  BY TypeParts
<1>7. at[s].on \in Mediums /\ at[s].of \in Mediums
  BY <1>0, StepFacts DEF WritePath
<1>8. \A n \in Nat : [type |-> "path", of |-> at[s].of, seq |-> n] \in Frame
  BY <1>7 DEF Frame
<1>1. ChannelType'
  BY <1>0 DEF WritePath, ChannelType, channelVars, entryVars, bwuVars, workerVars, boundVars
<1>2. WireType'
  <2>1. \E ok \in BOOLEAN : Write(s, at[s].on, "path", at[s].of, ok)
    BY DEF WritePath
  <2> QED BY <1>0, <1>7, <1>8, <2>1, WriteType
<1>3. JobType'
  BY <1>0, EndsType DEF WritePath, JobType
<1>4. EntryType'
  <2>1. in_progress' \in {in_progress, in_progress \cup {s}}
    BY DEF WritePath
  <2> QED BY <1>0, <2>1 DEF WritePath, EntryType
<1>5. WorkerType'
  BY <1>0 DEF WritePath, WorkerType, channelVars, entryVars, bwuVars, workerVars, boundVars
<1>6. BoundType'
  BY <1>0 DEF WritePath, BoundType, channelVars, entryVars, bwuVars, workerVars, boundVars
<1> QED BY <1>1, <1>2, <1>3, <1>4, <1>5, <1>6
       DEF TypeOK, ChannelType, WireType, JobType, EntryType, WorkerType, BoundType

\* UPGRADE_FAILURE is written: types.
LEMMA WriteFailureType ==
  ASSUME TypeOK, NEW s \in Side, WriteFailure(s)
  PROVE  TypeOK'
<1>0. ChannelType /\ WireType /\ JobType /\ EntryType /\ WorkerType /\ BoundType
  BY TypeParts
<1>7. at[s].on \in Mediums /\ at[s].of \in Mediums /\ None \in 0 .. LastMedium
  BY <1>0, StepFacts, UpgradeConstants DEF WriteFailure, None
<1>8. \A n \in Nat : [type |-> "failure", of |-> at[s].of, seq |-> n] \in Frame
  BY <1>7 DEF Frame
<1>9. \/ /\ Write(s, at[s].on, "failure", at[s].of, TRUE)
         /\ UNCHANGED <<paused, closed>>
      \/ Encodes(s, at[s].on) /\ Close(s, {at[s].on})
  BY DEF WriteFailure
<1>10. paused' \in [Side -> SUBSET Mediums] /\ closed' \in [Side -> SUBSET Mediums]
  <2>1. CASE Close(s, {at[s].on})
    BY <1>0, <1>7, <2>1, CloseType
  <2> QED BY <1>0, <1>9, <2>1 DEF ChannelType
<1>1. ChannelType'
  BY <1>0, <1>10 DEF WriteFailure, ChannelType
<1>2. WireType'
  <2>1. CASE Write(s, at[s].on, "failure", at[s].of, TRUE)
    BY <1>0, <1>7, <1>8, <2>1, WriteType
  <2>2. CASE Encodes(s, at[s].on) /\ Close(s, {at[s].on})
    <3>1. wire' \in [Side -> [Mediums -> Seq(Frame)]]
      BY <1>0, <1>7, <2>2, CloseType
    <3> QED BY <1>0, <2>2, <3>1 DEF WireType, Encodes
  <2> QED BY <1>9, <2>1, <2>2
<1>3. JobType'
  BY <1>0, EndsType DEF WriteFailure, JobType
<1>4. EntryType'
  <2>1. /\ in_progress' \in {in_progress, in_progress \ {s}}
        /\ medium' \in {medium, [medium EXCEPT ![s] = None]}
        /\ UNCHANGED <<previous, early, alarm>>
    BY DEF WriteFailure
  <2> QED BY <1>0, <1>7, <2>1 DEF EntryType
<1>5. WorkerType'
  BY <1>0 DEF WriteFailure, WorkerType, channelVars, entryVars, bwuVars, workerVars, boundVars
<1>6. BoundType'
  BY <1>0 DEF WriteFailure, BoundType, channelVars, entryVars, bwuVars, workerVars, boundVars
<1> QED BY <1>1, <1>2, <1>3, <1>4, <1>5, <1>6
       DEF TypeOK, ChannelType, WireType, JobType, EntryType, WorkerType, BoundType

\* The acknowledgement of the introduction is read: types.
LEMMA ReadAckType ==
  ASSUME TypeOK, NEW s \in Side, ReadAck(s)
  PROVE  TypeOK'
<1>0. ChannelType /\ WireType /\ JobType /\ EntryType /\ WorkerType /\ BoundType
  BY TypeParts
<1> DEFINE m == at[s].on
<1>7. m \in Mediums
  BY <1>0, StepFacts DEF ReadAck
<1>8. \/ /\ wire[s][m] # <<>>
         /\ Took(s, m)
         /\ in_progress' = in_progress \cup {s}
         /\ RunUpgradeProtocol(s, m)
         /\ UNCHANGED faults
      \/ /\ Close(s, {m})
         /\ faults' = faults \cup {"timeout"}
         /\ Ends(s) \/ (channel[s] # None /\ Goes(s, "failure", channel[s], m))
         /\ UNCHANGED in_progress
  BY DEF ReadAck
<1>9. UNCHANGED <<channel, crypto, broken, made, arriving, bandwidth, encoded, jobs>>
  BY DEF ReadAck
<1> HIDE DEF m
<1>1. ChannelType'
  <2>1. CASE Close(s, {m})
    <3>1. paused' \in [Side -> SUBSET Mediums] /\ closed' \in [Side -> SUBSET Mediums]
      BY <1>0, <1>7, <2>1, CloseType
    <3> QED BY <1>0, <1>9, <2>1, <3>1 DEF ChannelType
  <2>2. CASE RunUpgradeProtocol(s, m)
    BY <1>0, <1>7, <1>9, <2>2, RunUpgradeType DEF ChannelType
  <2> QED BY <1>8, <2>1, <2>2
<1>2. WireType'
  <2>1. CASE Close(s, {m})
    BY <1>0, <1>7, <1>9, <2>1, CloseType DEF WireType
  <2>2. CASE wire[s][m] # <<>> /\ Took(s, m)
    BY <1>0, <1>7, <1>9, <2>2, TookType DEF WireType
  <2> QED BY <1>8, <2>1, <2>2
<1>3. JobType'
  <2>1. CASE RunUpgradeProtocol(s, m)
    BY <1>0, <1>7, <1>9, <2>1, RunUpgradeType DEF JobType
  <2>2. CASE Ends(s)
    BY <1>0, <1>9, <2>2, EndsType DEF JobType
  <2>3. CASE channel[s] # None /\ Goes(s, "failure", channel[s], m)
    <3>1. channel[s] \in Mediums
      BY <1>0, <2>3, MediumsNat DEF ChannelType
    <3> QED BY <1>0, <1>7, <1>9, <2>3, <3>1, GoesType DEF JobType
  <2> QED BY <1>8, <2>1, <2>2, <2>3
<1>4. EntryType'
  <2>1. in_progress' \in {in_progress, in_progress \cup {s}}
    BY <1>8
  <2> QED BY <1>0, <2>1 DEF ReadAck, EntryType
<1>5. WorkerType'
  BY <1>0 DEF ReadAck, WorkerType, channelVars, entryVars, bwuVars, workerVars, boundVars
<1>6. BoundType'
  <2>1. faults' \in {faults, faults \cup {"timeout"}}
    BY <1>8
  <2> QED BY <1>0, <2>1 DEF ReadAck, BoundType
<1> QED BY <1>1, <1>2, <1>3, <1>4, <1>5, <1>6
       DEF TypeOK, ChannelType, WireType, JobType, EntryType, WorkerType, BoundType

\* LAST_WRITE_TO_PRIOR_CHANNEL is written: types.
LEMMA WriteLastType ==
  ASSUME TypeOK, NEW s \in Side, WriteLast(s)
  PROVE  TypeOK'
<1>0. ChannelType /\ WireType /\ JobType /\ EntryType /\ WorkerType /\ BoundType
  BY TypeParts
<1> DEFINE c == at[s].on
           entry == IF previous[s] = {} THEN {c} ELSE previous[s]
<1>7. c \in Mediums /\ c \in 0 .. LastMedium
  BY <1>0, StepFacts, MediumsNat DEF WriteLast
<1>8. entry \in SUBSET (0 .. LastMedium) /\ \A x, y \in entry : x = y
  BY <1>0, <1>7 DEF EntryType
<1>9. \A n \in Nat : [type |-> "last", of |-> None, seq |-> n] \in Frame
  BY DEF Frame
<1>10. \/ ProcessLastWriteToPriorChannelEvent(s, entry)
       \/ /\ previous' = [previous EXCEPT ![s] = entry]
          /\ Ends(s)
          /\ UNCHANGED early
       \/ Ends(s) /\ UNCHANGED <<previous, early>>
  BY DEF WriteLast
<1>11. \E ok \in BOOLEAN : Write(s, c, "last", None, ok)
  BY DEF WriteLast
<1> HIDE DEF c, entry
<1>1. ChannelType'
  BY <1>0 DEF WriteLast, ChannelType, channelVars, entryVars, bwuVars, workerVars, boundVars
<1>2. WireType'
  BY <1>0, <1>7, <1>9, <1>11, WriteType
<1>3. JobType'
  <2>1. at' \in [Side -> Steps \cup {Idle}]
    <3>1. CASE ProcessLastWriteToPriorChannelEvent(s, entry)
      BY <1>0, <1>8, <3>1, LastWriteType
    <3> QED BY <1>0, <1>10, <3>1, EndsType
  <2> QED BY <1>0, <2>1 DEF WriteLast, JobType
<1>4. EntryType'
  <2>0. UNCHANGED <<medium, in_progress, alarm>>
    BY DEF WriteLast
  <2>1. CASE ProcessLastWriteToPriorChannelEvent(s, entry)
    BY <1>0, <1>8, <2>0, <2>1, LastWriteType DEF EntryType
  <2>2. CASE previous' = [previous EXCEPT ![s] = entry] /\ UNCHANGED early
    BY <1>0, <1>8, <2>0, <2>2 DEF EntryType
  <2> QED BY <1>0, <1>10, <2>0, <2>1, <2>2 DEF EntryType
<1>5. WorkerType'
  BY <1>0 DEF WriteLast, WorkerType, channelVars, entryVars, bwuVars, workerVars, boundVars
<1>6. BoundType'
  BY <1>0 DEF WriteLast, BoundType, channelVars, entryVars, bwuVars, workerVars, boundVars
<1> QED BY <1>1, <1>2, <1>3, <1>4, <1>5, <1>6
       DEF TypeOK, ChannelType, WireType, JobType, EntryType, WorkerType, BoundType

\* SAFE_TO_CLOSE_PRIOR_CHANNEL is written: types.
LEMMA WriteSafeType ==
  ASSUME TypeOK, NEW s \in Side, WriteSafe(s)
  PROVE  TypeOK'
<1>0. ChannelType /\ WireType /\ JobType /\ EntryType /\ WorkerType /\ BoundType
  BY TypeParts
<1>7. at[s].on \in Mediums
  BY <1>0, StepFacts DEF WriteSafe
<1>8. \A n \in Nat : [type |-> "safe", of |-> None, seq |-> n] \in Frame
  BY DEF Frame
<1>9. \/ /\ Write(s, at[s].on, "safe", None, TRUE)
         /\ UNCHANGED <<paused, closed>>
      \/ Encodes(s, at[s].on) /\ Close(s, {at[s].on})
  BY DEF WriteSafe
<1>10. paused' \in [Side -> SUBSET Mediums] /\ closed' \in [Side -> SUBSET Mediums]
  <2>1. CASE Close(s, {at[s].on})
    BY <1>0, <1>7, <2>1, CloseType
  <2> QED BY <1>0, <1>9, <2>1 DEF ChannelType
<1>1. ChannelType'
  BY <1>0, <1>10 DEF WriteSafe, ChannelType
<1>2. WireType'
  <2>1. CASE Write(s, at[s].on, "safe", None, TRUE)
    BY <1>0, <1>7, <1>8, <2>1, WriteType
  <2>2. CASE Encodes(s, at[s].on) /\ Close(s, {at[s].on})
    <3>1. wire' \in [Side -> [Mediums -> Seq(Frame)]]
      BY <1>0, <1>7, <2>2, CloseType
    <3> QED BY <1>0, <2>2, <3>1 DEF WireType, Encodes
  <2> QED BY <1>9, <2>1, <2>2
<1>3. JobType'
  BY <1>0, EndsType DEF WriteSafe, JobType
<1>4. EntryType'
  <2>1. previous' \in {previous, [previous EXCEPT ![s] = {}]} /\ UNCHANGED <<medium, early, in_progress, alarm>>
    BY DEF WriteSafe
  <2> QED BY <1>0, <2>1 DEF EntryType
<1>5. WorkerType'
  BY <1>0 DEF WriteSafe, WorkerType, channelVars, entryVars, bwuVars, workerVars, boundVars
<1>6. BoundType'
  BY <1>0 DEF WriteSafe, BoundType, channelVars, entryVars, bwuVars, workerVars, boundVars
<1> QED BY <1>1, <1>2, <1>3, <1>4, <1>5, <1>6
       DEF TypeOK, ChannelType, WireType, JobType, EntryType, WorkerType, BoundType

\* The goodbye is written to the old channel: types.
LEMMA WriteByeType ==
  ASSUME TypeOK, NEW s \in Side, WriteBye(s)
  PROVE  TypeOK'
<1>0. ChannelType /\ WireType /\ JobType /\ EntryType /\ WorkerType /\ BoundType
  BY TypeParts
<1>7. at[s].on \in Mediums
  BY <1>0, StepFacts DEF WriteBye
<1>8. \A n \in Nat : [type |-> "bye", of |-> None, seq |-> n] \in Frame
  BY DEF Frame
<1>1. ChannelType'
  BY <1>0 DEF WriteBye, ChannelType, channelVars, entryVars, bwuVars, workerVars, boundVars
<1>2. WireType'
  BY <1>0, <1>7, <1>8, WriteType DEF WriteBye
<1>3. JobType'
  BY <1>0, <1>7, GoesType DEF WriteBye, JobType
<1>4. EntryType'
  BY <1>0 DEF WriteBye, EntryType, channelVars, entryVars, bwuVars, workerVars, boundVars
<1>5. WorkerType'
  BY <1>0 DEF WriteBye, WorkerType, channelVars, entryVars, bwuVars, workerVars, boundVars
<1>6. BoundType'
  BY <1>0 DEF WriteBye, BoundType, channelVars, entryVars, bwuVars, workerVars, boundVars
<1> QED BY <1>1, <1>2, <1>3, <1>4, <1>5, <1>6
       DEF TypeOK, ChannelType, WireType, JobType, EntryType, WorkerType, BoundType

\* The last read of an upgrade returns and the new channel is resumed: types.
LEMMA DrainType ==
  ASSUME TypeOK, NEW s \in Side, Drain(s)
  PROVE  TypeOK'
<1>0. ChannelType /\ WireType /\ JobType /\ EntryType /\ WorkerType /\ BoundType
  BY TypeParts
<1>7. at[s].on \in Mediums
  BY <1>0, StepFacts DEF Drain
<1>1. ChannelType'
  <2>1. closed' \in [Side -> SUBSET Mediums] /\ paused' \in [Side -> SUBSET Mediums]
    BY <1>0, <1>7 DEF Drain, ChannelType
  <2>2. bandwidth' \in [Side -> 0 .. LastMedium]
    BY <1>0 DEF Drain, ChannelType
  <2> QED BY <1>0, <2>1, <2>2 DEF Drain, ChannelType
<1>2. WireType'
  <2>1. PICK lost \in BOOLEAN :
          wire' = [t \in Side |-> [wire[t] EXCEPT ![at[s].on] = IF t = s \/ lost THEN <<>> ELSE @]]
    BY DEF Drain
  <2>2. <<>> \in Seq(Frame)
    OBVIOUS
  <2>3. wire' \in [Side -> [Mediums -> Seq(Frame)]]
    BY <1>0, <1>7, <2>1, <2>2 DEF WireType
  <2> QED BY <1>0, <2>3 DEF Drain, WireType
<1>3. JobType'
  BY <1>0, EndsType DEF Drain, JobType
<1>4. EntryType'
  <2>1. in_progress' \in {in_progress, in_progress \ {s}}
    BY DEF Drain
  <2> QED BY <1>0, <2>1 DEF Drain, EntryType
<1>5. WorkerType'
  BY <1>0 DEF Drain, WorkerType, channelVars, entryVars, bwuVars, workerVars, boundVars
<1>6. BoundType'
  BY <1>0 DEF Drain, BoundType, channelVars, entryVars, bwuVars, workerVars, boundVars
<1> QED BY <1>1, <1>2, <1>3, <1>4, <1>5, <1>6
       DEF TypeOK, ChannelType, WireType, JobType, EntryType, WorkerType, BoundType

\* EndpointChannelLoopRunnable looks for a channel to read from: types.
LEMMA ReaderFetchesType ==
  ASSUME TypeOK, NEW s \in Side, ReaderFetches(s)
  PROVE  TypeOK'
<1>0. ChannelType /\ WireType /\ JobType /\ EntryType /\ WorkerType /\ BoundType
  BY TypeParts
<1>1. ChannelType'
  <2>1. {reader[s].failed} \ {None} \subseteq Mediums
    BY <1>0, MediumsNat DEF WorkerType, Worker
  <2>2. closed' \in [Side -> SUBSET Mediums]
    BY <1>0, <2>1 DEF ReaderFetches, ChannelType
  <2> QED BY <1>0, <2>2 DEF ReaderFetches, ChannelType
<1>2. WireType'
  BY <1>0 DEF ReaderFetches, WireType, channelVars, entryVars, bwuVars, workerVars, boundVars
<1>3. JobType'
  BY <1>0 DEF ReaderFetches, JobType, channelVars, entryVars, bwuVars, workerVars, boundVars
<1>4. EntryType'
  BY <1>0 DEF ReaderFetches, EntryType, channelVars, entryVars, bwuVars, workerVars, boundVars
<1>5. WorkerType'
  <2>1. Fetched(s, reader[s]) \in Worker
    BY <1>0, EndedType DEF Fetched, Worker, WorkerType, ChannelType
  <2>2. discard' \in {discard, discard \cup {s}} /\ reader' = [reader EXCEPT ![s] = Fetched(s, @)]
    BY DEF ReaderFetches, Fetch
  <2>3. reader' \in [Side -> Worker] /\ discard' \subseteq Side
    BY <1>0, <2>1, <2>2 DEF WorkerType
  <2> QED BY <1>0, <2>3 DEF ReaderFetches, WorkerType
<1>6. BoundType'
  BY <1>0 DEF ReaderFetches, BoundType, channelVars, entryVars, bwuVars, workerVars, boundVars
<1> QED BY <1>1, <1>2, <1>3, <1>4, <1>5, <1>6
       DEF TypeOK, ChannelType, WireType, JobType, EntryType, WorkerType, BoundType

\* HandleData reads a frame: types.
LEMMA ReadsType ==
  ASSUME TypeOK, NEW s \in Side, Reads(s)
  PROVE  TypeOK'
<1>0. ChannelType /\ WireType /\ JobType /\ EntryType /\ WorkerType /\ BoundType
  BY TypeParts
<1> DEFINE c == reader[s].on
           frame == Head(wire[s][c])
<1>7. c \in Mediums /\ c # None
  BY <1>0, MediumsNat DEF Reads, WorkerType, Worker
<1>8. wire[s][c] # <<>> => frame \in Frame
  BY <1>0, <1>7 DEF WireType
<1>9. \/ /\ reader' = [reader EXCEPT ![s] = Failed(@)]
         /\ UNCHANGED <<paused, closed, wire, decoded, jobs, got>>
      \/ /\ wire[s][c] # <<>>
         /\ Took(s, c)
         /\ reader' \in {reader, [reader EXCEPT ![s] = Failed(@)]}
         /\ UNCHANGED <<paused, closed, decoded, jobs, got>>
      \/ /\ wire[s][c] # <<>>
         /\ decoded' \in {decoded, [decoded EXCEPT ![s] = @ + 1]}
         /\ \/ /\ frame.type \in {"path", "failure", "last", "safe"}
               /\ Took(s, c)
               /\ jobs' = [jobs EXCEPT ![s] = Post(s, frame.type, frame.of)]
               /\ UNCHANGED <<paused, closed, got>>
            \/ /\ frame.type = "data"
               /\ Took(s, c)
               /\ got' = [got EXCEPT ![s] = Append(@, frame.of)]
               /\ UNCHANGED <<paused, closed, jobs>>
            \/ /\ frame.type = "bye"
               /\ Close(s, {c})
               /\ UNCHANGED <<jobs, got>>
         /\ UNCHANGED reader
  BY DEF Reads
<1>10. UNCHANGED <<channel, crypto, broken, made, arriving, bandwidth, encoded, at, writer,
                   discard, removal, sent, late>>
  BY DEF Reads
<1> HIDE DEF c, frame
<1>1. ChannelType'
  <2>1. CASE Close(s, {c})
    <3>1. paused' \in [Side -> SUBSET Mediums] /\ closed' \in [Side -> SUBSET Mediums]
      BY <1>0, <1>7, <2>1, CloseType
    <3> QED BY <1>0, <1>10, <3>1 DEF ChannelType
  <2>2. CASE UNCHANGED <<paused, closed>>
    BY <1>0, <1>10, <2>2 DEF ChannelType
  <2> QED BY <1>9, <2>1, <2>2
<1>2. WireType'
  <2>1. CASE Close(s, {c})
    BY <1>0, <1>7, <1>10, <2>1, CloseType DEF WireType
  <2>2. CASE wire[s][c] # <<>> /\ Took(s, c)
    BY <1>0, <1>7, <1>10, <2>2, TookType DEF WireType
  <2>3. CASE UNCHANGED wire
    BY <1>0, <1>10, <2>3 DEF WireType
  <2> QED BY <1>9, <2>1, <2>2, <2>3
<1>3. JobType'
  <2>1. CASE /\ wire[s][c] # <<>> /\ frame.type \in {"path", "failure", "last", "safe"}
             /\ jobs' = [jobs EXCEPT ![s] = Post(s, frame.type, frame.of)]
    <3>1. [type |-> frame.type, of |-> frame.of] \in Job
      BY <1>8, <2>1 DEF Frame, Job
    <3> QED BY <1>0, <1>10, <2>1, <3>1, PostType DEF JobType
  <2>2. CASE UNCHANGED jobs
    BY <1>0, <1>10, <2>2 DEF JobType
  <2> QED BY <1>9, <2>1, <2>2
<1>4. EntryType'
  BY <1>0 DEF Reads, EntryType, channelVars, entryVars, bwuVars, workerVars, boundVars
<1>5. WorkerType'
  <2>1. Failed(reader[s]) \in Worker
    BY <1>0, FailedType DEF WorkerType
  <2>2. reader' \in [Side -> Worker]
    BY <1>0, <1>9, <2>1 DEF WorkerType
  <2>3. decoded' \in [Side -> Nat]
    BY <1>0, <1>9 DEF WorkerType
  <2>4. got' \in [Side -> Seq(1 .. MaxData)]
    <3>1. CASE /\ wire[s][c] # <<>> /\ frame.type = "data"
               /\ got' = [got EXCEPT ![s] = Append(@, frame.of)]
      <4>1. frame.of \in 1 .. MaxData
        BY <1>8, <3>1 DEF Frame
      <4> QED BY <1>0, <3>1, <4>1 DEF WorkerType
    <3>2. CASE UNCHANGED got
      BY <1>0, <3>2 DEF WorkerType
    <3> QED BY <1>9, <3>1, <3>2
  <2> QED BY <1>0, <1>10, <2>2, <2>3, <2>4 DEF WorkerType
<1>6. BoundType'
  BY <1>0 DEF Reads, BoundType, channelVars, entryVars, bwuVars, workerVars, boundVars
<1> QED BY <1>1, <1>2, <1>3, <1>4, <1>5, <1>6
       DEF TypeOK, ChannelType, WireType, JobType, EntryType, WorkerType, BoundType

\* EndpointChannelLoopRunnable looks for a channel to write to: types.
LEMMA WriterFetchesType ==
  ASSUME TypeOK, NEW s \in Side, WriterFetches(s)
  PROVE  TypeOK'
<1>0. ChannelType /\ WireType /\ JobType /\ EntryType /\ WorkerType /\ BoundType
  BY TypeParts
<1>1. ChannelType'
  BY <1>0 DEF WriterFetches, ChannelType, channelVars, entryVars, bwuVars, workerVars, boundVars
<1>2. WireType'
  BY <1>0 DEF WriterFetches, WireType, channelVars, entryVars, bwuVars, workerVars, boundVars
<1>3. JobType'
  BY <1>0 DEF WriterFetches, JobType, channelVars, entryVars, bwuVars, workerVars, boundVars
<1>4. EntryType'
  BY <1>0 DEF WriterFetches, EntryType, channelVars, entryVars, bwuVars, workerVars, boundVars
<1>5. WorkerType'
  <2>1. Fetched(s, writer[s]) \in Worker
    BY <1>0, EndedType DEF Fetched, Worker, WorkerType, ChannelType
  <2>2. discard' \in {discard, discard \cup {s}} /\ writer' = [writer EXCEPT ![s] = Fetched(s, @)]
    BY DEF WriterFetches, Fetch
  <2>3. writer' \in [Side -> Worker] /\ discard' \subseteq Side
    BY <1>0, <2>1, <2>2 DEF WorkerType
  <2> QED BY <1>0, <2>3 DEF WriterFetches, WorkerType
<1>6. BoundType'
  BY <1>0 DEF WriterFetches, BoundType, channelVars, entryVars, bwuVars, workerVars, boundVars
<1> QED BY <1>1, <1>2, <1>3, <1>4, <1>5, <1>6
       DEF TypeOK, ChannelType, WireType, JobType, EntryType, WorkerType, BoundType

\* HandleKeepAlive or SendTransferFrameBytes writes: types.
LEMMA WritesType ==
  ASSUME TypeOK, NEW s \in Side, Writes(s)
  PROVE  TypeOK'
<1>0. ChannelType /\ WireType /\ JobType /\ EntryType /\ WorkerType /\ BoundType
  BY TypeParts
<1>7. writer[s].on \in Mediums
  BY <1>0, MediumsNat DEF Writes, WorkerType, Worker
<1>1. ChannelType'
  BY <1>0 DEF Writes, ChannelType, channelVars, entryVars, bwuVars, workerVars, boundVars
<1>2. WireType'
  <2>1. CASE \E ok \in BOOLEAN : /\ sent[s] < MaxData
                                 /\ Write(s, writer[s].on, "data", sent[s] + 1, ok)
    <3>1. sent[s] + 1 \in 1 .. MaxData
      BY <1>0, <2>1, UpgradeConstants DEF WorkerType
    <3>2. \A n \in Nat : [type |-> "data", of |-> sent[s] + 1, seq |-> n] \in Frame
      BY <3>1 DEF Frame
    <3> QED BY <1>0, <1>7, <2>1, <3>2, WriteType
  <2>2. CASE UNCHANGED <<encoded, wire>>
    BY <1>0, <2>2 DEF WireType
  <2> QED BY <2>1, <2>2 DEF Writes
<1>3. JobType'
  BY <1>0 DEF Writes, JobType, channelVars, entryVars, bwuVars, workerVars, boundVars
<1>4. EntryType'
  BY <1>0 DEF Writes, EntryType, channelVars, entryVars, bwuVars, workerVars, boundVars
<1>5. WorkerType'
  <2>1. sent' \in [Side -> 0 .. MaxData]
    <3>1. sent[s] < MaxData => sent[s] + 1 \in 0 .. MaxData
      BY <1>0, UpgradeConstants DEF WorkerType
    <3>2. \/ sent[s] < MaxData /\ sent' = [sent EXCEPT ![s] = @ + 1]
          \/ sent' = sent
      BY DEF Writes
    <3> QED BY <1>0, <3>1, <3>2 DEF WorkerType
  <2>2. writer' \in [Side -> Worker]
    <3>1. Failed(writer[s]) \in Worker /\ [writer[s] EXCEPT !.on = None] \in Worker
      <4>1. Failed(writer[s]) \in Worker
        BY <1>0, FailedType DEF WorkerType
      <4>2. [writer[s] EXCEPT !.on = None] \in Worker
        <5>1. writer[s] \in Worker /\ None \in 0 .. LastMedium
          BY <1>0, UpgradeConstants DEF WorkerType, None
        <5> QED BY <5>1 DEF Worker
      <4> QED BY <4>1, <4>2
    <3>2. \/ writer' = [writer EXCEPT ![s] = [@ EXCEPT !.on = None]]
          \/ writer' = [writer EXCEPT ![s] = Failed(@)]
      BY DEF Writes
    <3> QED BY <1>0, <3>1, <3>2 DEF WorkerType
  <2>3. late' \in {late, late \cup {s}}
    BY DEF Writes
  <2> QED BY <1>0, <2>1, <2>2, <2>3 DEF Writes, WorkerType
<1>6. BoundType'
  BY <1>0 DEF Writes, BoundType, channelVars, entryVars, bwuVars, workerVars, boundVars
<1> QED BY <1>1, <1>2, <1>3, <1>4, <1>5, <1>6
       DEF TypeOK, ChannelType, WireType, JobType, EntryType, WorkerType, BoundType

\* HandleKeepAlive finds that nothing was read for too long: types.
LEMMA KeepAliveTimesOutType ==
  ASSUME TypeOK, NEW s \in Side, KeepAliveTimesOut(s)
  PROVE  TypeOK'
<1>0. ChannelType /\ WireType /\ JobType /\ EntryType /\ WorkerType /\ BoundType
  BY TypeParts
<1>1. ChannelType'
  BY <1>0 DEF KeepAliveTimesOut, ChannelType, channelVars, entryVars, bwuVars, workerVars, boundVars
<1>2. WireType'
  BY <1>0 DEF KeepAliveTimesOut, WireType, channelVars, entryVars, bwuVars, workerVars, boundVars
<1>3. JobType'
  BY <1>0 DEF KeepAliveTimesOut, JobType, channelVars, entryVars, bwuVars, workerVars, boundVars
<1>4. EntryType'
  BY <1>0 DEF KeepAliveTimesOut, EntryType, channelVars, entryVars, bwuVars, workerVars, boundVars
<1>5. WorkerType'
  <2>1. writer' = [writer EXCEPT ![s] = Ended] /\ discard' = discard \cup {s}
    BY DEF KeepAliveTimesOut
  <2> QED BY <1>0, <2>1, EndedType DEF KeepAliveTimesOut, WorkerType
<1>6. BoundType'
  BY <1>0 DEF KeepAliveTimesOut, BoundType
<1> QED BY <1>1, <1>2, <1>3, <1>4, <1>5, <1>6
       DEF TypeOK, ChannelType, WireType, JobType, EntryType, WorkerType, BoundType

\* The new channel is registered: types.
LEMMA ReplaceType ==
  ASSUME TypeOK, NEW s \in Side, Replace(s)
  PROVE  TypeOK'
<1>0. ChannelType /\ WireType /\ JobType /\ EntryType /\ WorkerType /\ BoundType
  BY TypeParts
<1>7. at[s].of \in Mediums /\ at[s].of \in 0 .. LastMedium /\ at[s].on \in Mediums
  BY <1>0, StepFacts, MediumsNat DEF Replace
<1>1. ChannelType'
  <2>1. channel' \in [Side -> 0 .. LastMedium]
    BY <1>0, <1>7 DEF Replace, ChannelType
  <2>2. crypto' \in [Side -> SUBSET Mediums]
    BY <1>0, <1>7 DEF Replace, ChannelType
  <2> QED BY <1>0, <2>1, <2>2 DEF Replace, ChannelType
<1>2. WireType'
  BY <1>0 DEF Replace, WireType
<1>3. JobType'
  BY <1>0, <1>7, GoesType DEF Replace, JobType
<1>4. EntryType'
  BY <1>0 DEF Replace, EntryType, entryVars
<1>5. WorkerType'
  BY <1>0 DEF Replace, WorkerType, workerVars
<1>6. BoundType'
  BY <1>0 DEF Replace, BoundType, boundVars
<1> QED BY <1>1, <1>2, <1>3, <1>4, <1>5, <1>6
       DEF TypeOK, ChannelType, WireType, JobType, EntryType, WorkerType, BoundType

\* A channel that is told goodbye before it is unregistered.
LEMMA GoodbyeType ==
  ASSUME ChannelType, WireType, WorkerType, NEW s \in Side, channel[s] # None,
         NEW step \in {"closing", "last"}, SaysGoodbye(s, step)
  PROVE  /\ paused' \in [Side -> SUBSET Mediums] /\ WireType'
         /\ removal' \in [Side -> Removal]
<1>1. channel[s] \in Mediums /\ Peer(s) \in Side
  BY MediumsNat, PeerSide DEF ChannelType
<1>2. paused' \in [Side -> SUBSET Mediums]
  BY DEF SaysGoodbye, ChannelType
<1>3. encoded' \in [Side -> Nat]
  BY DEF SaysGoodbye, Encodes, WireType
<1> DEFINE bye == [type |-> "bye", of |-> None,
                   seq |-> IF channel[s] \in crypto[s] THEN encoded'[s] ELSE 0]
<1>4. bye \in Frame
  BY <1>3 DEF Frame
<1>5. wire' = IF Up(channel[s]) THEN [wire EXCEPT ![Peer(s)][channel[s]] = Append(@, bye)]
              ELSE wire
  BY DEF SaysGoodbye
<1> HIDE DEF bye
<1>6. wire' \in [Side -> [Mediums -> Seq(Frame)]]
  BY <1>1, <1>4, <1>5 DEF WireType
<1>7. removal' \in [Side -> Removal]
  BY DEF SaysGoodbye, WorkerType, Removal
<1> QED BY <1>2, <1>3, <1>6, <1>7 DEF WireType

\* RemoveEndpoint begins: types.
LEMMA RemoveEndpointType ==
  ASSUME TypeOK, NEW s \in Side, RemoveEndpoint(s)
  PROVE  TypeOK'
<1>0. ChannelType /\ WireType /\ JobType /\ EntryType /\ WorkerType /\ BoundType
  BY TypeParts
<1>7. /\ paused' \in [Side -> SUBSET Mediums] /\ WireType'
      /\ removal' \in [Side -> Removal]
  BY <1>0, GoodbyeType DEF RemoveEndpoint
<1>1. ChannelType'
  BY <1>0, <1>7 DEF RemoveEndpoint, ChannelType
<1>3. JobType'
  BY <1>0 DEF RemoveEndpoint, JobType, bwuVars
<1>4. EntryType'
  BY <1>0 DEF RemoveEndpoint, EntryType, entryVars, bwuVars
<1>5. WorkerType'
  BY <1>0, <1>7 DEF RemoveEndpoint, WorkerType
<1>6. BoundType'
  <2>1. faults' \in {faults, faults \cup {"disconnect"}}
    BY DEF RemoveEndpoint
  <2> QED BY <1>0, <2>1 DEF RemoveEndpoint, BoundType
<1> QED BY <1>1, <1>7, <1>3, <1>4, <1>5, <1>6
       DEF TypeOK, ChannelType, WireType, JobType, EntryType, WorkerType, BoundType

\* The channel is unregistered after the delay: types.
LEMMA UnregisterType ==
  ASSUME TypeOK, NEW s \in Side, Unregister(s)
  PROVE  TypeOK'
<1>0. ChannelType /\ WireType /\ JobType /\ EntryType /\ WorkerType /\ BoundType
  BY TypeParts
<1>7. /\ paused' \in [Side -> SUBSET Mediums]
      /\ closed' \in [Side -> SUBSET Mediums]
      /\ wire' \in [Side -> [Mediums -> Seq(Frame)]]
  <2>1. {channel[s]} \ {None} \subseteq Mediums
    BY <1>0, MediumsNat DEF ChannelType
  <2> QED BY <1>0, <2>1, CloseType DEF Unregister
<1>1. ChannelType'
  <2>1. None \in 0 .. LastMedium
    BY UpgradeConstants DEF None
  <2> QED BY <1>0, <1>7, <2>1 DEF Unregister, ChannelType
<1>2. WireType'
  BY <1>0, <1>7 DEF Unregister, WireType
<1>3. JobType'
  <2>1. [type |-> "disconnect", of |-> None] \in Job
    BY DEF Job
  <2>2. CASE jobs' = [jobs EXCEPT ![s] = Post(s, "disconnect", None)]
    <3>1. jobs' \in [Side -> Seq(Job)]
      BY <1>0, <2>1, <2>2, PostType DEF JobType
    <3> QED BY <1>0, <3>1 DEF Unregister, JobType
  <2>3. CASE UNCHANGED jobs
    BY <1>0, <2>3 DEF Unregister, JobType
  <2> QED BY <2>2, <2>3 DEF Unregister
<1>4. EntryType'
  BY <1>0 DEF Unregister, EntryType, entryVars
<1>5. WorkerType'
  <2>1. [removal[s] EXCEPT !.step = "waiting"] \in Removal
    BY <1>0 DEF WorkerType, Removal
  <2>2. [step |-> "none", state |-> FALSE] \in Removal
    BY DEF Removal
  <2>3. CASE removal' = [removal EXCEPT ![s].step = "waiting"]
    <3>1. removal' = [removal EXCEPT ![s] = [removal[s] EXCEPT !.step = "waiting"]]
      BY <1>0, <2>3 DEF WorkerType
    <3>2. removal' \in [Side -> Removal]
      BY <1>0, <2>1, <3>1 DEF WorkerType
    <3> QED BY <1>0, <3>2 DEF Unregister, WorkerType
  <2>4. CASE removal' = [removal EXCEPT ![s] = [step |-> "none", state |-> FALSE]]
    <3>1. removal' \in [Side -> Removal]
      BY <1>0, <2>2, <2>4 DEF WorkerType
    <3> QED BY <1>0, <3>1 DEF Unregister, WorkerType
  <2> QED BY <2>3, <2>4 DEF Unregister
<1>6. BoundType'
  BY <1>0 DEF Unregister, BoundType, boundVars
<1> QED BY <1>1, <1>2, <1>3, <1>4, <1>5, <1>6
       DEF TypeOK, ChannelType, WireType, JobType, EntryType, WorkerType, BoundType

\* RemoveEndpointState goes on or ends: types.
LEMMA RemoveEndpointStateType ==
  ASSUME TypeOK, NEW s \in Side, RemoveEndpointState(s)
  PROVE  TypeOK'
<1>0. ChannelType /\ WireType /\ JobType /\ EntryType /\ WorkerType /\ BoundType
  BY TypeParts
<1>7. /\ paused' \in [Side -> SUBSET Mediums] /\ WireType'
      /\ removal' \in [Side -> Removal]
  <2>1. CASE channel[s] # None /\ SaysGoodbye(s, "last")
    BY <1>0, <2>1, GoodbyeType
  <2>2. CASE /\ removal' = [removal EXCEPT ![s] = [step |-> "none", state |-> FALSE]]
             /\ UNCHANGED <<paused, wire, encoded>>
    <3>1. [step |-> "none", state |-> FALSE] \in Removal
      BY DEF Removal
    <3> QED BY <1>0, <2>2, <3>1 DEF ChannelType, WireType, WorkerType
  <2> QED BY <2>1, <2>2 DEF RemoveEndpointState
<1>1. ChannelType'
  BY <1>0, <1>7 DEF RemoveEndpointState, ChannelType
<1>3. JobType'
  BY <1>0 DEF RemoveEndpointState, JobType, bwuVars
<1>4. EntryType'
  BY <1>0 DEF RemoveEndpointState, EntryType, entryVars, bwuVars
<1>5. WorkerType'
  BY <1>0, <1>7 DEF RemoveEndpointState, WorkerType
<1>6. BoundType'
  <2>1. faults' \in {faults, faults \cup {"timeout"}}
    BY DEF RemoveEndpointState
  <2> QED BY <1>0, <2>1 DEF RemoveEndpointState, BoundType
<1> QED BY <1>1, <1>7, <1>3, <1>4, <1>5, <1>6
       DEF TypeOK, ChannelType, WireType, JobType, EntryType, WorkerType, BoundType

\* A new channel is accepted and its introduction read: types.
LEMMA AcceptType ==
  ASSUME TypeOK, NEW s \in Side, NEW m \in Mediums, Accept(s, m)
  PROVE  TypeOK'
<1>0. ChannelType /\ WireType /\ JobType /\ EntryType /\ WorkerType /\ BoundType
  BY TypeParts
<1>1. ChannelType'
  BY <1>0 DEF Accept, ChannelType
<1>2. WireType'
  BY <1>0 DEF Accept, WireType, channelVars, entryVars, bwuVars, workerVars, boundVars
<1>3. JobType'
  <2>1. [type |-> "incoming", of |-> m] \in Job
    BY DEF Job
  <2> QED BY <1>0, <2>1, PostType DEF Accept, JobType
<1>4. EntryType'
  BY <1>0 DEF Accept, EntryType, channelVars, entryVars, bwuVars, workerVars, boundVars
<1>5. WorkerType'
  BY <1>0 DEF Accept, WorkerType, channelVars, entryVars, bwuVars, workerVars, boundVars
<1>6. BoundType'
  BY <1>0 DEF Accept, BoundType, channelVars, entryVars, bwuVars, workerVars, boundVars
<1> QED BY <1>1, <1>2, <1>3, <1>4, <1>5, <1>6
       DEF TypeOK, ChannelType, WireType, JobType, EntryType, WorkerType, BoundType

\* A connection breaks: types.
LEMMA BreakType ==
  ASSUME TypeOK, NEW c \in Mediums, Break(c)
  PROVE  TypeOK'
<1>0. ChannelType /\ WireType /\ JobType /\ EntryType /\ WorkerType /\ BoundType
  BY TypeParts
<1>1. ChannelType'
  BY <1>0 DEF Break, ChannelType
<1>2. WireType'
  <2>1. <<>> \in Seq(Frame)
    OBVIOUS
  <2>2. wire' = [s \in Side |-> [wire[s] EXCEPT ![c] = <<>>]] /\ encoded' = encoded
    BY DEF Break
  <2>3. wire' \in [Side -> [Mediums -> Seq(Frame)]]
    BY <1>0, <2>1, <2>2 DEF WireType
  <2> QED BY <1>0, <2>2, <2>3 DEF WireType
<1>3. JobType'
  BY <1>0 DEF Break, JobType, channelVars, entryVars, bwuVars, workerVars, boundVars
<1>4. EntryType'
  BY <1>0 DEF Break, EntryType, channelVars, entryVars, bwuVars, workerVars, boundVars
<1>5. WorkerType'
  BY <1>0 DEF Break, WorkerType, channelVars, entryVars, bwuVars, workerVars, boundVars
<1>6. BoundType'
  BY <1>0 DEF Break, BoundType
<1> QED BY <1>1, <1>2, <1>3, <1>4, <1>5, <1>6
       DEF TypeOK, ChannelType, WireType, JobType, EntryType, WorkerType, BoundType

\* Every step keeps the types.
LEMMA NextType == TypeOK /\ [Next]_vars => TypeOK'
<1> SUFFICES ASSUME TypeOK, [Next]_vars PROVE TypeOK'
  OBVIOUS
<1>1. CASE UNCHANGED vars
  BY <1>1 DEF TypeOK, vars, channelVars, entryVars, bwuVars, workerVars, boundVars
<1>2. ASSUME NEW s \in Side, InitiateBwuForEndpoint(s) \/ AlarmFires(s) \/ BwuThread(s)
      PROVE  TypeOK'
  BY <1>2, InitiateBwuForEndpointType, AlarmFiresType, InitJobType, RetryJobType,
     FailureJobType, PathJobType, IncomingJobType, LastJobType, SafeJobType,
     DisconnectJobType, WritePathType, WriteFailureType, ReadAckType, ReplaceType,
     WriteLastType, WriteSafeType, WriteByeType, DrainType DEF BwuThread
<1>3. ASSUME NEW s \in Side, Reader(s) \/ KeepAlive(s) \/ Manager(s)
      PROVE  TypeOK'
  BY <1>3, ReadsType, ReaderFetchesType, WriterFetchesType, WritesType,
     KeepAliveTimesOutType, RemoveEndpointType, UnregisterType, RemoveEndpointStateType
     DEF Reader, KeepAlive, Manager
<1>4. ASSUME NEW s \in Side, NEW m \in Mediums, Accept(s, m) PROVE TypeOK'
  BY <1>4, AcceptType
<1>5. ASSUME NEW c \in Mediums, Break(c) PROVE TypeOK'
  BY <1>5, BreakType
<1> QED BY <1>1, <1>2, <1>3, <1>4, <1>5 DEF Next

\* The sides, their threads, workers and channels keep their types, for any number of
\* mediums and frames, any order of preference and anything that may go wrong; in particular
\* previous_endpoint_channels_ has one entry at most for the endpoint, and every frame and job
\* of BwuManager that is about a medium names one.
THEOREM TypeCorrect == Spec => []TypeOK
<1>1. Init => TypeOK
  BY InitType
<1>2. TypeOK /\ [Next]_vars => TypeOK'
  BY NextType
<1> QED BY <1>1, <1>2, PTL DEF Spec

----------------------------------------------------------------------------
(* Requests *)

\* A queue has an entry of a type,
HasType(q, t) == \E i \in DOMAIN q : q[i].type = t
\* and has one at most.
OnlyOne(q, t) == \A i, j \in DOMAIN q : q[i].type = t /\ q[j].type = t => i = j

\* A frame of a type is on its way to a side over some channel,
FrameOn(s, t) == \E c \in Mediums : HasType(wire[s][c], t)
\* and only one is, over one channel.
OneFrameOn(s, t) ==
  /\ \A c \in Mediums : OnlyOne(wire[s][c], t)
  /\ \A c, d \in Mediums : HasType(wire[s][c], t) /\ HasType(wire[s][d], t) => c = d

\* The stages of a request for an upgrade, after UPGRADE_PATH_AVAILABLE was written.
Stages == {"sent", "received", "refusing", "refused", "failed", "arriving", "arrived"}
\* The request of side s is at stage g: its frame is on its way; the peer has read it; the
\* peer is about to write UPGRADE_FAILURE; that is on its way; the side has read it; or the peer
\* has connected the new channel, the side has not accepted it yet, or has and waits for its
\* BwuManager's thread.
Request(s, g) ==
  \/ g = "sent" /\ FrameOn(Peer(s), "path")
  \/ g = "received" /\ HasType(jobs[Peer(s)], "path")
  \/ g = "refusing" /\ at[Peer(s)].step = "failure"
  \/ g = "refused" /\ FrameOn(s, "failure")
  \/ g = "failed" /\ HasType(jobs[s], "failure")
  \/ g = "arriving" /\ arriving[s] # {}
  \/ g = "arrived" /\ HasType(jobs[s], "incoming")
\* A side has a request under way.
Asks(s) == \E g \in Stages : Request(s, g)
\* It is at one stage only,
OneStage(s) == \A g, h \in Stages : Request(s, g) /\ Request(s, h) => g = h
\* and there is one of it there.
OneOfEach(s) ==
  /\ OneFrameOn(Peer(s), "path") /\ OnlyOne(jobs[Peer(s)], "path")
  /\ OneFrameOn(s, "failure") /\ OnlyOne(jobs[s], "failure")
  /\ \A c, d \in arriving[s] : c = d
  /\ OnlyOne(jobs[s], "incoming")

\* A side has registered the new channel and is not done with the old one.
Moved(s) == at[s].step \in {"last", "safe", "bye", "drain"} \/ ~(previous[s] \subseteq {None})
\* Whatever goes wrong: only an endpoint that is removed has no channel, and of such a one only
\* OnEndpointDisconnect is told; the entry of the old channel is taken out before the goodbye,
\* and a request is written only by a side that is not in progress.
ThreadInv(s) ==
  /\ channel[s] = None => Gone(s)
  /\ HasType(jobs[s], "disconnect") => Gone(s)
  /\ at[s].step \in {"bye", "drain"} => previous[s] = {}
  /\ at[s].step = "path" => s \notin in_progress
\* The channel that is registered, or is about to be.
Newest(s) == IF at[s].step = "replace" THEN at[s].of ELSE channel[s]
\* A side that asks is in progress, has nothing paused, no old channel, and a thread that does
\* nothing; a side that moves, or has moved, is in progress.  It may pause the newest channel
\* only.  Once its endpoint is being removed nothing of this holds.
OwnInv(s) ==
  /\ at[s].step \in {"ack", "failure"} => s \notin in_progress
  /\ ~Gone(s) => paused[s] \subseteq {Newest(s)} /\ (paused[s] # {} => s \in in_progress)
  /\ ~Gone(s) /\ Asks(s) =>
       s \in in_progress /\ paused[s] = {} /\ at[s] = Idle /\ previous[s] \subseteq {None}
  /\ ~Gone(s) /\ (Moved(s) \/ at[s].step = "replace") => s \in in_progress
\* Its request is at one stage.
AskInv(s) == ~Gone(s) => OneStage(s) /\ OneOfEach(s)
\* The inductive invariant.  Without RequestInv nothing keeps an UPGRADE_FAILURE, or a channel
\* that arrives, from meeting a side in the midst of another upgrade, where in_progress_upgrades_
\* would be cleared, or the channel replaced, while it is paused.
RequestInv ==
  /\ \A s \in Side : ThreadInv(s)
  /\ "timeout" \notin faults => \A s \in Side : OwnInv(s) /\ AskInv(s)

----------------------------------------------------------------------------
\* An entry that is appended is the only new one,
LEMMA HasAppend ==
  ASSUME NEW S, NEW q \in Seq(S), NEW e \in S, NEW t
  PROVE  HasType(Append(q, e), t) <=> HasType(q, t) \/ e.type = t
<1> DEFINE r == Append(q, e)
<1>1. /\ Len(q) \in Nat /\ DOMAIN q = 1 .. Len(q) /\ DOMAIN r = 1 .. Len(q) + 1
      /\ r[Len(q) + 1] = e /\ \A i \in 1 .. Len(q) : r[i] = q[i]
  OBVIOUS
<1> HIDE DEF r
<1>2. ASSUME HasType(r, t) PROVE HasType(q, t) \/ e.type = t
  <2>1. PICK i \in DOMAIN r : r[i].type = t
    BY <1>2 DEF HasType
  <2>2. i \in 1 .. Len(q) \/ i = Len(q) + 1
    BY <1>1
  <2> QED BY <1>1, <2>1, <2>2 DEF HasType
<1>3. ASSUME HasType(q, t) PROVE HasType(r, t)
  <2>1. PICK i \in DOMAIN q : q[i].type = t
    BY <1>3 DEF HasType
  <2>2. i \in DOMAIN r /\ r[i] = q[i]
    BY <1>1
  <2> QED BY <2>1, <2>2 DEF HasType
<1>4. ASSUME e.type = t PROVE HasType(r, t)
  <2>1. Len(q) + 1 \in DOMAIN r
    BY <1>1
  <2> QED BY <1>1, <1>4, <2>1 DEF HasType
<1> QED BY <1>2, <1>3, <1>4 DEF r

\* and the only one of its type if there was none.
LEMMA OneAppend ==
  ASSUME NEW S, NEW q \in Seq(S), NEW e \in S, NEW t, OnlyOne(q, t),
         e.type # t \/ ~HasType(q, t)
  PROVE  OnlyOne(Append(q, e), t)
<1> DEFINE r == Append(q, e)
<1>1. /\ Len(q) \in Nat /\ DOMAIN q = 1 .. Len(q) /\ DOMAIN r = 1 .. Len(q) + 1
      /\ r[Len(q) + 1] = e /\ \A i \in 1 .. Len(q) : r[i] = q[i]
  OBVIOUS
<1> HIDE DEF r
<1>2. SUFFICES ASSUME NEW i \in DOMAIN r, NEW j \in DOMAIN r, r[i].type = t, r[j].type = t
               PROVE  i = j
  BY DEF OnlyOne, r
<1>3. \A k \in DOMAIN r : (k \in DOMAIN q /\ r[k] = q[k]) \/ k = Len(q) + 1
  BY <1>1
<1>4. CASE i \in DOMAIN q /\ r[i] = q[i] /\ j \in DOMAIN q /\ r[j] = q[j]
  BY <1>2, <1>4 DEF OnlyOne
<1>5. CASE i = Len(q) + 1 \/ j = Len(q) + 1
  <2>1. e.type = t
    BY <1>1, <1>2, <1>5
  <2>2. \A k \in DOMAIN q : q[k].type # t
    BY <2>1 DEF HasType
  <2> QED BY <1>2, <1>3, <2>2
<1> QED BY <1>3, <1>4, <1>5

\* One that is taken from the head is there no more.
LEMMA TailFacts ==
  ASSUME NEW S, NEW q \in Seq(S), q # <<>>, NEW t
  PROVE  /\ HasType(Tail(q), t) => HasType(q, t)
         /\ OnlyOne(q, t) => OnlyOne(Tail(q), t)
         /\ OnlyOne(q, t) /\ Head(q).type = t => ~HasType(Tail(q), t)
         /\ Head(q).type = t => HasType(q, t)
<1> DEFINE r == Tail(q)
<1>1. /\ Len(q) \in Nat \ {0} /\ DOMAIN q = 1 .. Len(q) /\ DOMAIN r = 1 .. Len(q) - 1
      /\ Head(q) = q[1] /\ \A i \in 1 .. Len(q) - 1 : r[i] = q[i + 1]
  OBVIOUS
<1> HIDE DEF r
<1>2. \A i \in DOMAIN r : i \in Nat \ {0} /\ i + 1 \in DOMAIN q /\ r[i] = q[i + 1]
  BY <1>1
<1>3. 1 \in DOMAIN q
  BY <1>1
<1>4. HasType(r, t) => HasType(q, t)
  BY <1>2 DEF HasType
<1>5. ASSUME OnlyOne(q, t) PROVE OnlyOne(r, t)
  <2> SUFFICES ASSUME NEW i \in DOMAIN r, NEW j \in DOMAIN r, r[i].type = t, r[j].type = t
               PROVE  i = j
    BY DEF OnlyOne
  <2>1. i + 1 = j + 1
    BY <1>2, <1>5 DEF OnlyOne
  <2> QED BY <1>2, <2>1
<1>6. ASSUME OnlyOne(q, t), Head(q).type = t, HasType(r, t) PROVE FALSE
  <2>1. PICK i \in DOMAIN r : r[i].type = t
    BY <1>6 DEF HasType
  <2>2. i + 1 = 1
    BY <1>1, <1>2, <1>3, <1>6, <2>1 DEF OnlyOne
  <2> QED BY <1>2, <2>1, <2>2
<1>7. Head(q).type = t => HasType(q, t)
  BY <1>1, <1>3 DEF HasType
<1> QED BY <1>4, <1>5, <1>6, <1>7 DEF r

\* Nothing is in an empty queue.
LEMMA EmptyFacts ==
  ASSUME NEW t
  PROVE  ~HasType(<<>>, t) /\ OnlyOne(<<>>, t)
<1>1. DOMAIN << >> = {}
  OBVIOUS
<1> QED BY <1>1 DEF HasType, OnlyOne

----------------------------------------------------------------------------
\* A step brings no frame of type t to side x,
Thins(x, t) ==
  \A c \in Mediums : /\ HasType(wire'[x][c], t) => HasType(wire[x][c], t)
                     /\ OnlyOne(wire[x][c], t) => OnlyOne(wire'[x][c], t)
\* and no job.
JobsThin(x, t) ==
  /\ HasType(jobs'[x], t) => HasType(jobs[x], t)
  /\ OnlyOne(jobs[x], t) => OnlyOne(jobs'[x], t)

\* Then there is no more of them over all channels.
LEMMA ThinsFrames ==
  ASSUME NEW x, NEW t, Thins(x, t)
  PROVE  /\ FrameOn(x, t)' => FrameOn(x, t)
         /\ OneFrameOn(x, t) => OneFrameOn(x, t)'
<1>1. FrameOn(x, t)' => FrameOn(x, t)
  BY Zenon DEF FrameOn, Thins
<1>2. OneFrameOn(x, t) => OneFrameOn(x, t)'
  BY Zenon DEF OneFrameOn, Thins
<1> QED BY <1>1, <1>2

\* Nothing is brought if the wire stays,
LEMMA SameWireThins ==
  ASSUME NEW x, wire'[x] = wire[x]
  PROVE  \A t : Thins(x, t)
  BY Zenon DEF Thins

\* if channels are emptied:
LEMMA EmptiedThins ==
  ASSUME NEW x, \A c \in Mediums : wire'[x][c] = wire[x][c] \/ wire'[x][c] = <<>>
  PROVE  \A t : Thins(x, t)
<1> SUFFICES ASSUME NEW t, NEW c \in Mediums
             PROVE  /\ HasType(wire'[x][c], t) => HasType(wire[x][c], t)
                    /\ OnlyOne(wire[x][c], t) => OnlyOne(wire'[x][c], t)
  BY Zenon DEF Thins
<1>1. CASE wire'[x][c] = wire[x][c]
  BY <1>1, Zenon
<1>2. CASE wire'[x][c] = <<>>
  BY <1>2, EmptyFacts, Zenon
<1> QED BY <1>1, <1>2

\* by Close,
LEMMA CloseThins ==
  ASSUME WireType, NEW s \in Side, NEW cs, Close(s, cs)
  PROVE  \A x \in Side : \A t : Thins(x, t)
<1>1. PICK lost \in BOOLEAN :
        wire' = [t \in Side |-> [c \in Mediums |->
                  IF c \in cs /\ (t = s \/ lost) THEN <<>> ELSE wire[t][c]]]
  BY DEF Close
<1>2. \A x \in Side : \A c \in Mediums : wire'[x][c] = wire[x][c] \/ wire'[x][c] = <<>>
  BY <1>1
<1> QED BY <1>2, EmptiedThins

\* by the last read of an upgrade,
LEMMA DrainThins ==
  ASSUME WireType, NEW s \in Side, Drain(s)
  PROVE  \A x \in Side : \A t : Thins(x, t)
<1>1. PICK lost \in BOOLEAN :
        wire' = [t \in Side |-> [wire[t] EXCEPT ![at[s].on] = IF t = s \/ lost THEN <<>> ELSE @]]
  BY DEF Drain
<1>2. \A x \in Side : \A c \in Mediums : wire'[x][c] = wire[x][c] \/ wire'[x][c] = <<>>
  BY <1>1 DEF WireType
<1> QED BY <1>2, EmptiedThins

\* and when a connection breaks.
LEMMA BreakThins ==
  ASSUME WireType, NEW b \in Mediums, Break(b)
  PROVE  \A x \in Side : \A t : Thins(x, t)
<1>1. wire' = [s \in Side |-> [wire[s] EXCEPT ![b] = <<>>]]
  BY DEF Break
<1>2. \A x \in Side : \A c \in Mediums : wire'[x][c] = wire[x][c] \/ wire'[x][c] = <<>>
  BY <1>1 DEF WireType
<1> QED BY <1>2, EmptiedThins

\* A frame that is read is gone from the wire.
LEMMA TookThins ==
  ASSUME WireType, NEW s \in Side, NEW b \in Mediums, wire[s][b] # <<>>, Took(s, b)
  PROVE  /\ \A x \in Side : \A t : Thins(x, t)
         /\ \A t : FrameOn(s, t) \/ Head(wire[s][b]).type # t
         /\ \A t : OneFrameOn(s, t) /\ Head(wire[s][b]).type = t => ~FrameOn(s, t)'
<1>0. wire[s][b] \in Seq(Frame)
  BY DEF WireType
<1>1. /\ wire'[s][b] = Tail(wire[s][b])
      /\ \A c \in Mediums : c # b => wire'[s][c] = wire[s][c]
      /\ \A x \in Side : x # s => wire'[x] = wire[x]
  BY DEF Took, WireType
<1>2. ASSUME NEW x \in Side, NEW t PROVE Thins(x, t)
  <2>1. CASE x # s
    BY <1>1, <2>1, SameWireThins
  <2>2. CASE x = s
    <3> SUFFICES ASSUME NEW c \in Mediums
                 PROVE  /\ HasType(wire'[s][c], t) => HasType(wire[s][c], t)
                        /\ OnlyOne(wire[s][c], t) => OnlyOne(wire'[s][c], t)
      BY <2>2, Zenon DEF Thins
    <3>1. CASE c = b
      BY <1>0, <1>1, <3>1, TailFacts, Zenon
    <3>2. CASE c # b
      BY <1>1, <3>2, Zenon
    <3> QED BY <3>1, <3>2
  <2> QED BY <2>1, <2>2
<1>3. ASSUME NEW t, Head(wire[s][b]).type = t PROVE FrameOn(s, t)
  <2>1. HasType(wire[s][b], t)
    BY <1>0, <1>3, TailFacts, Zenon
  <2> QED BY <2>1, Zenon DEF FrameOn
<1>4. ASSUME NEW t, OneFrameOn(s, t), Head(wire[s][b]).type = t, FrameOn(s, t)' PROVE FALSE
  <2>1. PICK c \in Mediums : HasType(wire'[s][c], t)
    BY <1>4, Zenon DEF FrameOn
  <2>2. HasType(wire[s][b], t) /\ ~HasType(wire'[s][b], t)
    <3>1. OnlyOne(wire[s][b], t)
      BY <1>4, Zenon DEF OneFrameOn
    <3>2. HasType(wire[s][b], t) /\ ~HasType(Tail(wire[s][b]), t)
      BY <1>0, <1>4, <3>1, TailFacts, Zenon
    <3> QED BY <1>1, <3>2, Zenon
  <2>3. c # b /\ HasType(wire[s][c], t)
    BY <1>1, <2>1, <2>2, Zenon
  <2> QED BY <1>4, <2>2, <2>3, Zenon DEF OneFrameOn
<1> QED BY <1>2, <1>3, <1>4, Zenon

\* A frame that is sent is new to the peer only,
LEMMA SendThins ==
  ASSUME WireType, NEW p \in Side, NEW b \in Mediums, NEW f \in Frame,
         wire' = [wire EXCEPT ![p][b] = Append(@, f)]
  PROVE  /\ \A x \in Side : \A t : x # p \/ f.type # t => Thins(x, t)
         /\ ~FrameOn(p, f.type) => OneFrameOn(p, f.type)'
<1>0. wire[p][b] \in Seq(Frame)
  BY DEF WireType
<1>1. /\ wire'[p][b] = Append(wire[p][b], f)
      /\ \A c \in Mediums : c # b => wire'[p][c] = wire[p][c]
      /\ \A x \in Side : x # p => wire'[x] = wire[x]
  BY DEF WireType
<1>2. ASSUME NEW x \in Side, NEW t, x # p \/ f.type # t PROVE Thins(x, t)
  <2>1. CASE x # p
    BY <1>1, <2>1, SameWireThins
  <2>2. CASE x = p
    <3> SUFFICES ASSUME NEW c \in Mediums
                 PROVE  /\ HasType(wire'[p][c], t) => HasType(wire[p][c], t)
                        /\ OnlyOne(wire[p][c], t) => OnlyOne(wire'[p][c], t)
      BY <2>2, Zenon DEF Thins
    <3>1. CASE c = b
      <4>1. HasType(wire'[p][c], t) => HasType(wire[p][c], t)
        <5>1. HasType(Append(wire[p][b], f), t) <=> HasType(wire[p][b], t) \/ f.type = t
          BY <1>0, HasAppend, Zenon
        <5> QED BY <1>1, <1>2, <2>2, <3>1, <5>1, Zenon
      <4>2. OnlyOne(wire[p][c], t) => OnlyOne(wire'[p][c], t)
        <5>1. f.type # t
          BY <1>2, <2>2, Zenon
        <5>2. OnlyOne(wire[p][b], t) => OnlyOne(Append(wire[p][b], f), t)
          BY <1>0, <5>1, OneAppend, Zenon
        <5> QED BY <1>1, <3>1, <5>2, Zenon
      <4> QED BY <4>1, <4>2
    <3>2. CASE c # b
      BY <1>1, <3>2, Zenon
    <3> QED BY <3>1, <3>2
  <2> QED BY <2>1, <2>2
<1>3. ASSUME ~FrameOn(p, f.type) PROVE OneFrameOn(p, f.type)'
  <2>1. \A c \in Mediums : ~HasType(wire[p][c], f.type)
    BY <1>3, Zenon DEF FrameOn
  <2>2. \A c \in Mediums : OnlyOne(wire[p][c], f.type)
    BY <2>1, Zenon DEF OnlyOne, HasType
  <2>3. \A c \in Mediums : c # b => ~HasType(wire'[p][c], f.type)
    BY <1>1, <2>1, Zenon
  <2>4. \A c \in Mediums : OnlyOne(wire'[p][c], f.type)
    <3> SUFFICES ASSUME NEW c \in Mediums PROVE OnlyOne(wire'[p][c], f.type)
      OBVIOUS
    <3>1. CASE c = b
      <4>1. OnlyOne(wire[p][b], f.type) /\ ~HasType(wire[p][b], f.type)
        BY <2>1, <2>2, Zenon
      <4>2. OnlyOne(Append(wire[p][b], f), f.type)
        BY <1>0, <4>1, OneAppend, Zenon
      <4> QED BY <1>1, <3>1, <4>2, Zenon
    <3>2. CASE c # b
      BY <1>1, <2>2, <3>2, Zenon
    <3> QED BY <3>1, <3>2
  <2>5. \A c, d \in Mediums :
          HasType(wire'[p][c], f.type) /\ HasType(wire'[p][d], f.type) => c = d
    BY <2>3, Zenon
  <2> QED BY <2>4, <2>5, Zenon DEF OneFrameOn
<1> QED BY <1>2, <1>3, Zenon

\* if Write puts it on the wire at all.
LEMMA WriteThins ==
  ASSUME WireType, NEW s \in Side, NEW c \in Mediums, NEW type, NEW of, NEW ok,
         \A n \in Nat : [type |-> type, of |-> of, seq |-> n] \in Frame,
         Write(s, c, type, of, ok)
  PROVE  /\ \A x \in Side : \A t : x # Peer(s) \/ type # t => Thins(x, t)
         /\ ~FrameOn(Peer(s), type) => OneFrameOn(Peer(s), type)'
         /\ ok = FALSE => wire' = wire
<1>1. encoded' \in [Side -> Nat]
  BY DEF Write, Encodes, WireType
<1> DEFINE f == [type |-> type, of |-> of, seq |-> IF c \in crypto[s] THEN encoded'[s] ELSE 0]
<1>2. f \in Frame /\ f.type = type
  BY <1>1
<1>3. wire' = wire \/ wire' = [wire EXCEPT ![Peer(s)][c] = Append(@, f)]
  <2>1. wire' = IF ~Up(c) THEN wire ELSE [wire EXCEPT ![Peer(s)][c] = Append(@, f)]
    BY Zenon DEF Write
  <2> HIDE DEF f
  <2> QED BY <2>1, Zenon
<1>4. ok = FALSE => wire' = wire
  BY DEF Write, Outcomes, Up
<1> HIDE DEF f
<1>5. CASE wire' = wire
  <2>1. \A x \in Side : \A t : Thins(x, t)
    BY <1>5, SameWireThins
  <2>2. ~FrameOn(Peer(s), type) => OneFrameOn(Peer(s), type)
    BY Zenon DEF FrameOn, OneFrameOn, HasType, OnlyOne
  <2>3. OneFrameOn(Peer(s), type) => OneFrameOn(Peer(s), type)'
    BY <2>1, PeerSide, ThinsFrames
  <2> QED BY <1>4, <2>1, <2>2, <2>3
<1>6. CASE wire' = [wire EXCEPT ![Peer(s)][c] = Append(@, f)]
  BY <1>2, <1>4, <1>6, PeerSide, SendThins
<1> QED BY <1>3, <1>5, <1>6

\* Taking a job brings none, and the job is gone;
LEMMA RestThins ==
  ASSUME JobType, NEW s \in Side, NEW u, Takes(s, u), NEW next,
         next \in 0 .. LastMedium,
         \/ jobs' = Rest(s)
         \/ jobs' = [Rest(s) EXCEPT ![s] = Append(@, [type |-> "init", of |-> next])]
  PROVE  /\ \A x \in Side : \A t : jobs' = Rest(s) \/ t # "init" => JobsThin(x, t)
         /\ u # "init" /\ OnlyOne(jobs[s], u) => ~HasType(jobs'[s], u)
         /\ HasType(jobs[s], u)
<1> DEFINE e == [type |-> "init", of |-> next]
<1>0. e \in Job /\ e.type = "init"
  BY DEF Job
<1>1. jobs[s] \in Seq(Job) /\ jobs[s] # <<>> /\ Head(jobs[s]).type = u
  BY DEF Takes, JobType
<1>2. Tail(jobs[s]) \in Seq(Job)
  BY <1>1
<1>3. /\ \A x \in Side : x # s => jobs'[x] = jobs[x]
      /\ \/ jobs'[s] = Tail(jobs[s])
         \/ jobs' # Rest(s) /\ jobs'[s] = Append(Tail(jobs[s]), e)
  BY DEF Rest, JobType
<1> HIDE DEF e
<1>4. HasType(jobs[s], u)
  BY <1>1, TailFacts, Zenon
<1>5. ASSUME u # "init", OnlyOne(jobs[s], u) PROVE ~HasType(jobs'[s], u)
  <2>1. ~HasType(Tail(jobs[s]), u)
    BY <1>1, <1>5, TailFacts, Zenon
  <2>2. CASE jobs'[s] = Tail(jobs[s])
    BY <2>1, <2>2, Zenon
  <2>3. CASE jobs'[s] = Append(Tail(jobs[s]), e)
    BY <1>0, <1>2, <1>5, <2>1, <2>3, HasAppend, Zenon
  <2> QED BY <1>3, <2>2, <2>3
<1>6. ASSUME NEW x \in Side, NEW t, jobs' = Rest(s) \/ t # "init" PROVE JobsThin(x, t)
  <2>1. CASE x # s
    BY <1>3, <2>1, Zenon DEF JobsThin
  <2>2. CASE x = s /\ jobs'[s] = Tail(jobs[s])
    BY <1>1, <2>2, TailFacts, Zenon DEF JobsThin
  <2>3. CASE x = s /\ t # "init" /\ jobs'[s] = Append(Tail(jobs[s]), e)
    <3>1. HasType(jobs'[s], t) => HasType(Tail(jobs[s]), t)
      BY <1>0, <1>2, <2>3, HasAppend, Zenon
    <3>2. OnlyOne(Tail(jobs[s]), t) => OnlyOne(jobs'[s], t)
      <4>1. e.type # t
        BY <1>0, <2>3, Zenon
      <4>2. OnlyOne(Tail(jobs[s]), t) => OnlyOne(Append(Tail(jobs[s]), e), t)
        BY <1>0, <1>2, <4>1, OneAppend, Zenon
      <4> QED BY <2>3, <4>2, Zenon
    <3> QED BY <1>1, <2>3, <3>1, <3>2, TailFacts, Zenon DEF JobsThin
  <2> QED BY <1>3, <1>6, <2>1, <2>2, <2>3
<1> QED BY <1>4, <1>5, <1>6, Zenon

\* posting one brings this one only;
LEMMA PostThins ==
  ASSUME JobType, NEW s \in Side, NEW u, NEW of, [type |-> u, of |-> of] \in Job,
         jobs' = [jobs EXCEPT ![s] = Post(s, u, of)]
  PROVE  /\ \A x \in Side : \A t : x # s \/ t # u => JobsThin(x, t)
         /\ ~HasType(jobs[s], u) => OnlyOne(jobs'[s], u)
<1> DEFINE e == [type |-> u, of |-> of]
<1>0. e \in Job /\ e.type = u
  OBVIOUS
<1>1. jobs[s] \in Seq(Job)
  BY DEF JobType
<1>2. /\ \A x \in Side : x # s => jobs'[x] = jobs[x]
      /\ jobs'[s] = Append(jobs[s], e)
  BY DEF Post, JobType
<1> HIDE DEF e
<1>3. ASSUME ~HasType(jobs[s], u) PROVE OnlyOne(jobs'[s], u)
  <2>1. OnlyOne(jobs[s], u)
    BY <1>3, Zenon DEF OnlyOne, HasType
  <2> QED BY <1>0, <1>1, <1>2, <1>3, <2>1, OneAppend, Zenon
<1>4. ASSUME NEW x \in Side, NEW t, x # s \/ t # u PROVE JobsThin(x, t)
  <2>1. CASE x # s
    BY <1>2, <2>1, Zenon DEF JobsThin
  <2>2. CASE x = s
    <3>1. HasType(jobs'[s], t) => HasType(jobs[s], t)
      <4>1. HasType(Append(jobs[s], e), t) <=> HasType(jobs[s], t) \/ e.type = t
        BY <1>0, <1>1, HasAppend, Zenon
      <4> QED BY <1>0, <1>2, <1>4, <2>2, <4>1, Zenon
    <3>2. OnlyOne(jobs[s], t) => OnlyOne(jobs'[s], t)
      <4>1. e.type # t
        BY <1>0, <1>4, <2>2, Zenon
      <4>2. OnlyOne(jobs[s], t) => OnlyOne(Append(jobs[s], e), t)
        BY <1>0, <1>1, <4>1, OneAppend, Zenon
      <4> QED BY <1>2, <4>2, Zenon
    <3> QED BY <2>2, <3>1, <3>2, Zenon DEF JobsThin
  <2> QED BY <2>1, <2>2
<1> QED BY <1>3, <1>4, Zenon

\* and nothing is brought if the jobs stay.
LEMMA SameJobsThin ==
  ASSUME jobs' = jobs
  PROVE  \A x : \A t : JobsThin(x, t)
  BY Zenon DEF JobsThin

\* The head of the queue is gone once it is taken.
LEMMA TakenThins ==
  ASSUME JobType, NEW s \in Side, NEW u, Takes(s, u), jobs' = Rest(s)
  PROVE  /\ \A x \in Side : \A t : JobsThin(x, t)
         /\ u # "init" /\ OnlyOne(jobs[s], u) => ~HasType(jobs'[s], u)
         /\ HasType(jobs[s], u)
<1>1. 0 \in 0 .. LastMedium
  BY UpgradeConstants
<1> QED BY <1>1, RestThins

\* The peer of the peer is the side itself, and there is no third.
LEMMA PeerFacts ==
  ASSUME NEW s \in Side
  PROVE  /\ Peer(s) \in Side /\ Peer(s) # s /\ Peer(Peer(s)) = s
         /\ \A x \in Side : x = s \/ x = Peer(s)
  BY DEF Side, Peer

\* The stages one by one,
LEMMA RequestStages ==
  ASSUME NEW x
  PROVE  /\ Request(x, "sent") <=> FrameOn(Peer(x), "path")
         /\ Request(x, "received") <=> HasType(jobs[Peer(x)], "path")
         /\ Request(x, "refusing") <=> at[Peer(x)].step = "failure"
         /\ Request(x, "refused") <=> FrameOn(x, "failure")
         /\ Request(x, "failed") <=> HasType(jobs[x], "failure")
         /\ Request(x, "arriving") <=> arriving[x] # {}
         /\ Request(x, "arrived") <=> HasType(jobs[x], "incoming")
  BY DEF Request

\* and after a step.
LEMMA RequestStagesNext ==
  ASSUME NEW x
  PROVE  /\ Request(x, "sent")' <=> FrameOn(Peer(x), "path")'
         /\ Request(x, "received")' <=> HasType(jobs'[Peer(x)], "path")
         /\ Request(x, "refusing")' <=> at'[Peer(x)].step = "failure"
         /\ Request(x, "refused")' <=> FrameOn(x, "failure")'
         /\ Request(x, "failed")' <=> HasType(jobs'[x], "failure")
         /\ Request(x, "arriving")' <=> arriving'[x] # {}
         /\ Request(x, "arrived")' <=> HasType(jobs'[x], "incoming")
<1>1. /\ Request(x, "sent")' <=> FrameOn(Peer(x), "path")'
      /\ Request(x, "refused")' <=> FrameOn(x, "failure")'
  BY DEF Request
<1>2. /\ Request(x, "received")' <=> HasType(jobs'[Peer(x)], "path")
      /\ Request(x, "refusing")' <=> at'[Peer(x)].step = "failure"
      /\ Request(x, "failed")' <=> HasType(jobs'[x], "failure")
      /\ Request(x, "arriving")' <=> arriving'[x] # {}
      /\ Request(x, "arrived")' <=> HasType(jobs'[x], "incoming")
  BY DEF Request, HasType
<1> QED BY <1>1, <1>2

\* A step leaves the request of x where it is, or withdraws it,
Kept(x) ==
  ~Gone(x) /\ OneStage(x) /\ OneOfEach(x) =>
    OneStage(x)' /\ OneOfEach(x)' /\ (Asks(x)' => Asks(x))
\* and leaves alone what x itself holds.
SameOwn(x) ==
  /\ at'[x] = at[x] /\ previous'[x] = previous[x]
  /\ paused'[x] = paused[x] /\ channel'[x] = channel[x] /\ removal'[x] = removal[x]
  /\ x \in in_progress' <=> x \in in_progress
  /\ HasType(jobs'[x], "disconnect") => HasType(jobs[x], "disconnect")

\* A step that brings none of its frames and jobs keeps a request.
LEMMA QuietKept ==
  ASSUME NEW x \in Side,
         Thins(Peer(x), "path"), JobsThin(Peer(x), "path"),
         at'[Peer(x)].step = "failure" => at[Peer(x)].step = "failure",
         Thins(x, "failure"), JobsThin(x, "failure"),
         arriving'[x] \subseteq arriving[x], JobsThin(x, "incoming")
  PROVE  /\ Kept(x)
         /\ \A g \in Stages : Request(x, g)' => Request(x, g)
<1>1. /\ FrameOn(Peer(x), "path")' => FrameOn(Peer(x), "path")
      /\ FrameOn(x, "failure")' => FrameOn(x, "failure")
      /\ OneFrameOn(Peer(x), "path") => OneFrameOn(Peer(x), "path")'
      /\ OneFrameOn(x, "failure") => OneFrameOn(x, "failure")'
  BY ThinsFrames
<1>2. \A g \in Stages : Request(x, g)' => Request(x, g)
  BY <1>1, RequestStages, RequestStagesNext DEF Stages, JobsThin
<1>3. OneStage(x) => OneStage(x)'
  BY <1>2, Zenon DEF OneStage
<1>4. Asks(x)' => Asks(x)
  BY <1>2, Zenon DEF Asks
<1>5. OneOfEach(x) => OneOfEach(x)'
  <2> SUFFICES ASSUME OneOfEach(x) PROVE OneOfEach(x)'
    OBVIOUS
  <2>1. OneFrameOn(Peer(x), "path")' /\ OneFrameOn(x, "failure")'
    BY <1>1 DEF OneOfEach
  <2>2. /\ OnlyOne(jobs'[Peer(x)], "path") /\ OnlyOne(jobs'[x], "failure")
        /\ OnlyOne(jobs'[x], "incoming")
    BY Zenon DEF OneOfEach, JobsThin
  <2>3. \A c, d \in arriving'[x] : c = d
    BY DEF OneOfEach
  <2> QED BY <2>1, <2>2, <2>3 DEF OneOfEach, OnlyOne
<1> QED BY <1>2, <1>3, <1>4, <1>5 DEF Kept

\* So does one that moves it from stage h to stage k.
LEMMA MoveKept ==
  ASSUME NEW x \in Side, NEW h \in Stages, NEW k \in Stages,
         ~Gone(x) /\ OneStage(x) /\ OneOfEach(x) =>
           /\ Request(x, h)
           /\ \A g \in Stages \ {k} : Request(x, g)' => Request(x, g) /\ g # h
           /\ OneOfEach(x)'
  PROVE  Kept(x)
  BY Zenon DEF Kept, OneStage, Asks

\* It is enough to look at the side that takes a step, and at the request of its peer.
LEMMA SidesKept ==
  ASSUME RequestInv, NEW s \in Side, "timeout" \in faults => "timeout" \in faults',
         SameOwn(Peer(s)), ThreadInv(s)',
         "timeout" \notin faults' => OwnInv(s)' /\ AskInv(s)',
         "timeout" \notin faults' => Kept(Peer(s))
  PROVE  RequestInv'
<1> DEFINE p == Peer(s)
<1>0. p \in Side /\ \A x \in Side : x = s \/ x = p
  BY PeerFacts
<1>00. SameOwn(p) /\ ("timeout" \notin faults' => Kept(p))
  OBVIOUS
<1> HIDE DEF p
<1>1. ThreadInv(p)'
  <2>1. ThreadInv(p)
    BY <1>0 DEF RequestInv
  <2> QED BY <1>00, <2>1 DEF ThreadInv, SameOwn, HasType, Gone
<1>2. ASSUME "timeout" \notin faults' PROVE OwnInv(p)' /\ AskInv(p)'
  <2>1. OwnInv(p) /\ AskInv(p) /\ Kept(p)
    BY <1>0, <1>00, <1>2 DEF RequestInv
  <2>2. Moved(p)' <=> Moved(p)
    BY <1>00 DEF Moved, SameOwn
  <2>3. ~Gone(p) => OneStage(p)' /\ OneOfEach(p)' /\ (Asks(p)' => Asks(p))
    BY <2>1 DEF AskInv, Kept, Gone
  <2>4. AskInv(p)'
    BY <1>00, <2>3 DEF AskInv, SameOwn, Gone
  <2>5. OwnInv(p)'
    BY <1>00, <2>1, <2>2, <2>3 DEF OwnInv, SameOwn, Gone, Newest
  <2> QED BY <2>4, <2>5
<1>3. \A x \in Side : ThreadInv(x)'
  BY <1>0, <1>1
<1>4. "timeout" \notin faults' => \A x \in Side : OwnInv(x)' /\ AskInv(x)'
  BY <1>0, <1>2
<1> QED BY <1>3, <1>4 DEF RequestInv

\* Nobody asks for an upgrade at first.
LEMMA InitRequest == ASSUME Init PROVE RequestInv
<1>1. /\ \A s \in Side : jobs[s] = <<>> /\ \A c \in Mediums : wire[s][c] = <<>>
      /\ \A s \in Side : at[s] = Idle /\ paused[s] = {} /\ previous[s] = {} /\ arriving[s] = {}
      /\ \A s \in Side : channel[s] # None
  BY DEF Init, AllOpen, None
<1> SUFFICES ASSUME NEW s \in Side PROVE ThreadInv(s) /\ OwnInv(s) /\ AskInv(s)
  BY DEF RequestInv
<1>2. \A x \in Side : \A t : /\ ~HasType(jobs[x], t) /\ OnlyOne(jobs[x], t)
                            /\ ~FrameOn(x, t) /\ OneFrameOn(x, t)
  BY <1>1, EmptyFacts, Zenon DEF FrameOn, OneFrameOn
<1>3. at[s].step = "idle" /\ at[Peer(s)].step = "idle" /\ Peer(s) \in Side
  BY <1>1, PeerFacts DEF Idle
<1>4. ~Asks(s)
  BY <1>1, <1>2, <1>3, RequestStages DEF Asks, Stages
<1>5. ThreadInv(s)
  BY <1>1, <1>2, <1>3 DEF ThreadInv
<1>6. OwnInv(s)
  BY <1>1, <1>3, <1>4 DEF OwnInv, Moved, Gone, Newest
<1>7. OneStage(s)
  BY <1>4, Zenon DEF OneStage, Asks
<1>8. OneOfEach(s)
  BY <1>1, <1>2, <1>3 DEF OneOfEach
<1> QED BY <1>5, <1>6, <1>7, <1>8 DEF AskInv, Gone

\* A side that is left alone, and its request, keep the invariant,
LEMMA SideKept ==
  ASSUME RequestInv, NEW p \in Side, SameOwn(p), "timeout" \in faults => "timeout" \in faults',
         Kept(p)
  PROVE  ThreadInv(p)' /\ ("timeout" \notin faults' => OwnInv(p)' /\ AskInv(p)')
<1>1. ThreadInv(p)'
  <2>1. ThreadInv(p)
    BY DEF RequestInv
  <2> QED BY <2>1 DEF ThreadInv, SameOwn, HasType, Gone
<1>2. ASSUME "timeout" \notin faults' PROVE OwnInv(p)' /\ AskInv(p)'
  <2>1. OwnInv(p) /\ AskInv(p) /\ Kept(p)
    BY <1>2 DEF RequestInv
  <2>2. Moved(p)' <=> Moved(p)
    BY DEF Moved, SameOwn
  <2>3. ~Gone(p) => OneStage(p)' /\ OneOfEach(p)' /\ (Asks(p)' => Asks(p))
    BY <2>1 DEF AskInv, Kept, Gone
  <2>4. AskInv(p)'
    BY <2>3 DEF AskInv, SameOwn, Gone
  <2>5. OwnInv(p)'
    BY <2>1, <2>2, <2>3 DEF OwnInv, SameOwn, Gone, Newest
  <2> QED BY <2>4, <2>5
<1> QED BY <1>1, <1>2

\* and a step that leaves both alone does.
LEMMA QuietStep ==
  ASSUME RequestInv, \A x \in Side : SameOwn(x) /\ Kept(x),
         "timeout" \in faults => "timeout" \in faults'
  PROVE  RequestInv'
<1>1. \A x \in Side : ThreadInv(x)'
  BY SideKept
<1>2. "timeout" \notin faults' => \A x \in Side : OwnInv(x)' /\ AskInv(x)'
  BY SideKept
<1> QED BY <1>1, <1>2 DEF RequestInv

\* A step that brings nothing of a request to either side keeps both requests.
LEMMA AllKept ==
  ASSUME \A x \in Side : Thins(x, "path") /\ Thins(x, "failure"),
         \A x \in Side : JobsThin(x, "path") /\ JobsThin(x, "failure") /\ JobsThin(x, "incoming"),
         \A x \in Side : at'[x].step = "failure" => at[x].step = "failure",
         \A x \in Side : arriving'[x] \subseteq arriving[x]
  PROVE  \A x \in Side : Kept(x) /\ (Asks(x)' => Asks(x))
<1> SUFFICES ASSUME NEW x \in Side PROVE Kept(x) /\ (Asks(x)' => Asks(x))
  OBVIOUS
<1>1. Peer(x) \in Side
  BY PeerFacts
<1>2. Kept(x) /\ \A g \in Stages : Request(x, g)' => Request(x, g)
  BY <1>1, QuietKept
<1> QED BY <1>2, Zenon DEF Asks

\* The request of the side that steps is still at one stage.
LEMMA ActorAsks ==
  ASSUME RequestInv, NEW s \in Side, Kept(s), "timeout" \notin faults,
         removal' = removal
  PROVE  AskInv(s)'
<1>1. AskInv(s)
  BY DEF RequestInv
<1> QED BY <1>1 DEF AskInv, Kept, Gone

\* RetryUpgradeMediums posts an init job, or none.
LEMMA RetryJobs ==
  ASSUME NEW s, NEW next, NEW set, RetryUpgradeMediums(s, next, Rest(s), set)
  PROVE  \/ jobs' = Rest(s)
         \/ jobs' = [Rest(s) EXCEPT ![s] = Append(@, [type |-> "init", of |-> next])]
  BY DEF RetryUpgradeMediums

\* The medium to be tried next is a medium, or none.
LEMMA NextMedium ==
  ASSUME NEW m
  PROVE  (IF Untried(m) = <<>> THEN None ELSE Untried(m)[1]) \in 0 .. LastMedium
  BY UntriedType, MediumsNat, UpgradeConstants DEF None

\* InitiateBwuForEndpoint only posts a job.
LEMMA InitiateBwuForEndpointKeeps ==
  ASSUME TypeOK, RequestInv, NEW s \in Side, InitiateBwuForEndpoint(s)
  PROVE  RequestInv'
<1>0. JobType
  BY TypeParts
<1>1. [type |-> "init", of |-> None] \in Job
  BY UpgradeConstants DEF Job, None
<1>2. \A x \in Side : \A t : t # "init" => JobsThin(x, t)
  BY <1>0, <1>1, PostThins DEF InitiateBwuForEndpoint
<1>3. \A x \in Side : \A t : Thins(x, t)
  BY SameWireThins DEF InitiateBwuForEndpoint, channelVars
<1>4. \A x \in Side : Kept(x)
  BY <1>2, <1>3, AllKept DEF InitiateBwuForEndpoint, channelVars
<1>5. \A x \in Side : SameOwn(x)
  BY <1>2 DEF SameOwn, InitiateBwuForEndpoint, channelVars, entryVars, workerVars, JobsThin
<1> QED BY <1>4, <1>5, QuietStep DEF InitiateBwuForEndpoint

\* The alarm of RetryUpgradesAfterDelay only posts a job.
LEMMA AlarmFiresKeeps ==
  ASSUME TypeOK, RequestInv, NEW s \in Side, AlarmFires(s)
  PROVE  RequestInv'
<1>0. JobType
  BY TypeParts
<1>1. [type |-> "retry", of |-> None] \in Job
  BY DEF Job
<1>2. \A x \in Side : \A t : t # "retry" => JobsThin(x, t)
  BY <1>0, <1>1, PostThins DEF AlarmFires
<1>3. \A x \in Side : \A t : Thins(x, t)
  BY SameWireThins DEF AlarmFires, channelVars
<1>4. \A x \in Side : Kept(x)
  BY <1>2, <1>3, AllKept DEF AlarmFires, channelVars
<1>5. \A x \in Side : SameOwn(x)
  BY <1>2 DEF SameOwn, AlarmFires, channelVars, entryVars, workerVars, JobsThin
<1> QED BY <1>4, <1>5, QuietStep DEF AlarmFires

\* Steps that leave the BwuManagers alone keep the invariant.
LEMMA IdleStepKeeps ==
  ASSUME RequestInv, jobs' = jobs, at' = at, arriving' = arriving, previous' = previous,
         paused' = paused, channel' = channel, in_progress' = in_progress,
         removal' = removal,
         "timeout" \in faults => "timeout" \in faults',
         \A x \in Side : Thins(x, "path") /\ Thins(x, "failure")
  PROVE  RequestInv'
<1>2. \A x \in Side : \A t : JobsThin(x, t)
  BY SameJobsThin
<1>4. \A x \in Side : Kept(x)
  BY <1>2, AllKept
<1>5. \A x \in Side : SameOwn(x)
  BY <1>2 DEF SameOwn
<1> QED BY <1>4, <1>5, QuietStep

\* EndpointChannelLoopRunnable looks for a channel to read from.
LEMMA ReaderFetchesKeeps ==
  ASSUME TypeOK, RequestInv, NEW s \in Side, ReaderFetches(s)
  PROVE  RequestInv'
<1>1. \A x \in Side : \A t : Thins(x, t)
  BY SameWireThins DEF ReaderFetches
<1> QED BY <1>1, IdleStepKeeps DEF ReaderFetches, bwuVars, entryVars, boundVars

\* EndpointChannelLoopRunnable looks for a channel to write to.
LEMMA WriterFetchesKeeps ==
  ASSUME TypeOK, RequestInv, NEW s \in Side, WriterFetches(s)
  PROVE  RequestInv'
<1>1. \A x \in Side : \A t : Thins(x, t)
  BY SameWireThins DEF WriterFetches, channelVars
<1> QED BY <1>1, IdleStepKeeps DEF WriterFetches, channelVars, bwuVars, entryVars, boundVars

\* HandleKeepAlive finds that nothing was read for too long.
LEMMA KeepAliveTimesOutKeeps ==
  ASSUME TypeOK, RequestInv, NEW s \in Side, KeepAliveTimesOut(s)
  PROVE  RequestInv'
<1>1. \A x \in Side : \A t : Thins(x, t)
  BY SameWireThins DEF KeepAliveTimesOut, channelVars
<1> QED BY <1>1, IdleStepKeeps DEF KeepAliveTimesOut, channelVars, bwuVars, entryVars

\* A connection breaks.
LEMMA BreakKeeps ==
  ASSUME TypeOK, RequestInv, NEW c \in Mediums, Break(c)
  PROVE  RequestInv'
<1>1. \A x \in Side : \A t : Thins(x, t)
  BY TypeParts, BreakThins
<1> QED BY <1>1, IdleStepKeeps DEF Break, bwuVars, entryVars, workerVars

\* What Writes sends is a frame.
LEMMA DataFrame ==
  ASSUME WorkerType, NEW s \in Side, sent[s] < MaxData
  PROVE  \A n \in Nat : [type |-> "data", of |-> sent[s] + 1, seq |-> n] \in Frame
<1>1. sent[s] + 1 \in 1 .. MaxData
  BY UpgradeConstants DEF WorkerType
<1> QED BY <1>1 DEF Frame

\* HandleKeepAlive or SendTransferFrameBytes writes.
LEMMA WritesKeeps ==
  ASSUME TypeOK, RequestInv, NEW s \in Side, Writes(s)
  PROVE  RequestInv'
<1>0. WireType /\ WorkerType /\ writer[s].on \in Mediums
  BY TypeParts, MediumsNat DEF Writes, WorkerType, Worker
<1>1. \A x \in Side : Thins(x, "path") /\ Thins(x, "failure")
  <2>1. CASE \E ok \in BOOLEAN : /\ sent[s] < MaxData
                                 /\ Write(s, writer[s].on, "data", sent[s] + 1, ok)
    <3>1. \A n \in Nat : [type |-> "data", of |-> sent[s] + 1, seq |-> n] \in Frame
      BY <1>0, <2>1, DataFrame
    <3> DEFINE c == writer[s].on
               of == sent[s] + 1
    <3>2. PICK ok \in BOOLEAN : Write(s, c, "data", of, ok)
      BY <2>1
    <3>3. c \in Mediums /\ \A n \in Nat : [type |-> "data", of |-> of, seq |-> n] \in Frame
      BY <1>0, <3>1
    <3> HIDE DEF c, of
    <3>4. \A x \in Side : \A t : x # Peer(s) \/ "data" # t => Thins(x, t)
      BY <1>0, <3>2, <3>3, WriteThins
    <3> QED BY <3>4
  <2>2. CASE wire' = wire
    BY <2>2, SameWireThins
  <2> QED BY <2>1, <2>2 DEF Writes
<1> QED BY <1>1, IdleStepKeeps DEF Writes, bwuVars, entryVars, boundVars

\* The retry after a delay runs.
LEMMA RetryJobKeeps ==
  ASSUME TypeOK, RequestInv, NEW s \in Side, RetryJob(s)
  PROVE  RequestInv'
<1>0. JobType /\ EntryType
  BY TypeParts
<1> DEFINE next == ChooseBestUpgradeMedium(s, Preferred)
<1>1. next \in 0 .. LastMedium
  BY <1>0, ChooseType
<1>2. jobs' = Rest(s) \/ RetryUpgradeMediums(s, next, Rest(s), alarm)
  BY DEF RetryJob
<1> HIDE DEF next
<1>3. \/ jobs' = Rest(s)
      \/ jobs' = [Rest(s) EXCEPT ![s] = Append(@, [type |-> "init", of |-> next])]
  BY <1>2, RetryJobs
<1>4. \A x \in Side : \A t : t # "init" => JobsThin(x, t)
  BY <1>0, <1>1, <1>3, RestThins DEF RetryJob
<1>5. \A x \in Side : \A t : Thins(x, t)
  BY SameWireThins DEF RetryJob, channelVars
<1>6. \A x \in Side : Kept(x)
  BY <1>4, <1>5, AllKept DEF RetryJob, channelVars
<1>7. \A x \in Side : SameOwn(x)
  BY <1>4 DEF SameOwn, RetryJob, channelVars, entryVars, workerVars, JobsThin
<1> QED BY <1>6, <1>7, QuietStep DEF RetryJob, boundVars

\* The job of InitiateBwuForEndpoint runs up to its write.
LEMMA InitJobKeeps ==
  ASSUME TypeOK, RequestInv, NEW s \in Side, InitJob(s)
  PROVE  RequestInv'
<1>0. JobType /\ EntryType /\ Takes(s, "init")
  BY TypeParts DEF InitJob
<1> DEFINE proposed == IF Of(s) # None THEN Of(s) ELSE ChooseBestUpgradeMedium(s, Preferred)
           next == IF Untried(proposed) = <<>> THEN None ELSE Untried(proposed)[1]
<1>1. next \in 0 .. LastMedium
  BY NextMedium
<1>2. \/ jobs' = Rest(s) /\ UNCHANGED <<at, in_progress>>
      \/ /\ jobs' = Rest(s) /\ in_progress' = in_progress /\ s \notin in_progress
         /\ Goes(s, "path", channel[s], proposed)
      \/ /\ RetryUpgradeMediums(s, next, Rest(s), alarm \ {s})
         /\ s \notin in_progress /\ in_progress' = in_progress \ {s} /\ at' = at
  BY DEF InitJob, ProcessUpgradeFailureEvent
<1> HIDE DEF proposed, next
<1>3. \/ jobs' = Rest(s)
      \/ jobs' = [Rest(s) EXCEPT ![s] = Append(@, [type |-> "init", of |-> next])]
  BY <1>2, RetryJobs
<1>4. \A x \in Side : \A t : t # "init" => JobsThin(x, t)
  BY <1>0, <1>1, <1>3, RestThins
<1>5. \A x \in Side : \A t : Thins(x, t)
  BY SameWireThins DEF InitJob, channelVars
<1>6. /\ UNCHANGED <<arriving, channel, paused, previous, removal>>
      /\ "timeout" \in faults => "timeout" \in faults'
      /\ "timeout" \in faults' => "timeout" \in faults
      /\ in_progress' = in_progress
      /\ \/ at' = at
         \/ /\ s \notin in_progress
            /\ at' = [at EXCEPT ![s] = [step |-> "path", on |-> channel[s], of |-> proposed]]
  BY <1>2 DEF InitJob, channelVars, workerVars, Goes
<1>7. \A x \in Side : at'[x].step = "failure" => at[x].step = "failure"
  BY <1>0, <1>6 DEF JobType
<1>8. \A x \in Side : Kept(x) /\ (Asks(x)' => Asks(x))
  BY <1>4, <1>5, <1>6, <1>7, AllKept
<1>9. SameOwn(Peer(s))
  BY <1>0, <1>4, <1>6, PeerFacts DEF SameOwn, JobsThin, JobType
<1>10. /\ at'[s] = at[s] \/ (at'[s].step = "path" /\ s \notin in_progress)
       /\ at[s] = Idle
  BY <1>0, <1>6 DEF JobType, Takes
<1>11. ThreadInv(s) /\ (HasType(jobs[s], "disconnect")' => HasType(jobs[s], "disconnect"))
  BY <1>4 DEF RequestInv, JobsThin
<1>12. ThreadInv(s)'
  BY <1>6, <1>10, <1>11 DEF ThreadInv, Gone
<1>13. ASSUME "timeout" \notin faults' PROVE OwnInv(s)' /\ AskInv(s)'
  <2>1. OwnInv(s) /\ "timeout" \notin faults
    BY <1>6, <1>13 DEF RequestInv
  <2>2. AskInv(s)'
    BY <1>6, <1>8, <2>1, ActorAsks
  <2>3. Moved(s)' => Moved(s)
    BY <1>6, <1>10 DEF Moved
  <2>4. OwnInv(s)'
    BY <1>6, <1>8, <1>10, <2>1, <2>3 DEF OwnInv, Gone, Newest
  <2> QED BY <2>2, <2>4
<1> QED BY <1>6, <1>8, <1>9, <1>12, <1>13, PeerFacts, SidesKept

\* Only the side that takes the step can spoil the invariant if no request is brought.
LEMMA ActorQuiet ==
  ASSUME RequestInv, NEW s \in Side, "timeout" \in faults => "timeout" \in faults',
         \A x \in Side : Kept(x) /\ (Asks(x)' => Asks(x)),
         SameOwn(Peer(s)), ThreadInv(s)',
         "timeout" \notin faults' => OwnInv(s)',
         removal' = removal
  PROVE  RequestInv'
<1>1. "timeout" \notin faults' => AskInv(s)'
  BY ActorAsks
<1>2. Kept(Peer(s))
  BY PeerFacts
<1> QED BY <1>1, <1>2, SidesKept

\* What holds for a side before a step.
LEMMA OwnBefore ==
  ASSUME RequestInv, NEW s \in Side, "timeout" \in faults => "timeout" \in faults'
  PROVE  ThreadInv(s) /\ ("timeout" \notin faults' => OwnInv(s) /\ AskInv(s))
  BY DEF RequestInv

\* ProcessLastWriteToPriorChannelEvent runs.
LEMMA LastJobKeeps ==
  ASSUME TypeOK, RequestInv, NEW s \in Side, LastJob(s)
  PROVE  RequestInv'
<1>0. JobType /\ EntryType /\ Takes(s, "last") /\ jobs' = Rest(s) /\ at[s] = Idle
  BY TypeParts DEF LastJob, Takes
<1>1. \A x \in Side : \A t : JobsThin(x, t)
  BY <1>0, TakenThins
<1>2. \A x \in Side : \A t : Thins(x, t)
  BY SameWireThins DEF LastJob, channelVars
<1>3. UNCHANGED <<arriving, channel, paused, in_progress, faults, removal>>
  BY DEF LastJob, channelVars, boundVars, workerVars
<1>4. \/ /\ previous[s] \subseteq {None}
         /\ previous' = [previous EXCEPT ![s] = {None}] /\ Ends(s)
      \/ /\ ~(previous[s] \subseteq {None}) /\ previous' = [previous EXCEPT ![s] = previous[s]]
         /\ \E c \in previous[s] : Goes(s, "safe", c, None)
  BY DEF LastJob, ProcessLastWriteToPriorChannelEvent
<1>5. /\ \/ previous[s] \subseteq {None} /\ previous'[s] = {None} /\ at'[s] = Idle
         \/ ~(previous[s] \subseteq {None}) /\ previous'[s] = previous[s] /\ at'[s].step = "safe"
      /\ \A x \in Side : x # s => at'[x] = at[x] /\ previous'[x] = previous[x]
  BY <1>0, <1>4 DEF Ends, Goes, JobType, EntryType
<1>6. \A x \in Side : at'[x].step = "failure" => at[x].step = "failure"
  BY <1>0, <1>5 DEF Idle
<1>7. \A x \in Side : Kept(x) /\ (Asks(x)' => Asks(x))
  BY <1>1, <1>2, <1>3, <1>6, AllKept
<1>8. SameOwn(Peer(s))
  BY <1>1, <1>3, <1>5, PeerFacts DEF SameOwn, JobsThin
<1>9. ThreadInv(s) /\ ("timeout" \notin faults' => OwnInv(s))
  BY <1>3, OwnBefore
<1>10. ThreadInv(s)'
  BY <1>0, <1>1, <1>3, <1>5, <1>9 DEF ThreadInv, JobsThin, Idle, Gone
<1>11. ASSUME "timeout" \notin faults' PROVE OwnInv(s)'
  <2>1. Moved(s)' => Moved(s)
    BY <1>0, <1>5 DEF Moved, Idle
  <2>2. at'[s].step \notin {"ack", "failure", "replace"} /\ Newest(s)' = Newest(s)
    BY <1>0, <1>3, <1>5 DEF Idle, Newest
  <2> QED BY <1>3, <1>5, <1>7, <1>9, <1>11, <2>1, <2>2 DEF OwnInv, Gone
<1> QED BY <1>3, <1>7, <1>8, <1>10, <1>11, ActorQuiet

\* ProcessSafeToClosePriorChannelEvent runs up to its goodbye.
LEMMA SafeJobKeeps ==
  ASSUME TypeOK, RequestInv, NEW s \in Side, SafeJob(s)
  PROVE  RequestInv'
<1>0. JobType /\ EntryType /\ Takes(s, "safe") /\ jobs' = Rest(s) /\ at[s] = Idle
  BY TypeParts DEF SafeJob, Takes
<1>1. \A x \in Side : \A t : JobsThin(x, t)
  BY <1>0, TakenThins
<1>2. \A x \in Side : \A t : Thins(x, t)
  BY SameWireThins DEF SafeJob
<1>3. UNCHANGED <<arriving, channel, paused, in_progress, faults, removal>>
  BY DEF SafeJob, boundVars, workerVars
<1>4. /\ \/ previous[s] \subseteq {None} /\ at'[s] = at[s]
         \/ ~(previous[s] \subseteq {None}) /\ at'[s].step = "bye"
      /\ previous'[s] = {}
      /\ \A x \in Side : x # s => at'[x] = at[x] /\ previous'[x] = previous[x]
  BY <1>0 DEF SafeJob, Goes, JobType, EntryType
<1>6. \A x \in Side : at'[x].step = "failure" => at[x].step = "failure"
  BY <1>0, <1>4 DEF Idle
<1>7. \A x \in Side : Kept(x) /\ (Asks(x)' => Asks(x))
  BY <1>1, <1>2, <1>3, <1>6, AllKept
<1>8. SameOwn(Peer(s))
  BY <1>1, <1>3, <1>4, PeerFacts DEF SameOwn, JobsThin
<1>9. ThreadInv(s) /\ ("timeout" \notin faults' => OwnInv(s))
  BY <1>3, OwnBefore
<1>10. ThreadInv(s)'
  BY <1>0, <1>1, <1>3, <1>4, <1>9 DEF ThreadInv, JobsThin, Idle, Gone
<1>11. ASSUME "timeout" \notin faults' PROVE OwnInv(s)'
  <2>1. Moved(s)' => Moved(s)
    BY <1>0, <1>4 DEF Moved, Idle
  <2>2. at'[s].step \notin {"ack", "failure", "replace"} /\ Newest(s)' = Newest(s)
    BY <1>0, <1>3, <1>4 DEF Idle, Newest
  <2> QED BY <1>3, <1>4, <1>7, <1>9, <1>11, <2>1, <2>2 DEF OwnInv, Gone
<1> QED BY <1>3, <1>7, <1>8, <1>10, <1>11, ActorQuiet

\* OnEndpointDisconnect runs.
LEMMA DisconnectJobKeeps ==
  ASSUME TypeOK, RequestInv, NEW s \in Side, DisconnectJob(s)
  PROVE  RequestInv'
<1>0. /\ ChannelType /\ WireType /\ JobType /\ EntryType
      /\ Takes(s, "disconnect") /\ jobs' = Rest(s) /\ at[s] = Idle
  BY TypeParts DEF DisconnectJob, Takes
<1>1. (\A x \in Side : \A t : JobsThin(x, t)) /\ HasType(jobs[s], "disconnect")
  BY <1>0, TakenThins
<1>2. \A x \in Side : \A t : Thins(x, t)
  <2>1. CASE Close(s, previous[s] \ {None})
    BY <1>0, <2>1, CloseThins
  <2>2. CASE wire' = wire
    BY <2>2, SameWireThins
  <2> QED BY <2>1, <2>2 DEF DisconnectJob
<1>3. UNCHANGED <<arriving, channel, at, faults, removal>>
  BY DEF DisconnectJob, boundVars, workerVars
<1>4. /\ paused'[s] \subseteq paused[s]
      /\ \A x \in Side : x # s => /\ paused'[x] = paused[x] /\ previous'[x] = previous[x]
                                  /\ x \in in_progress' <=> x \in in_progress
      /\ s \in in_progress' => s \in in_progress
  BY <1>0 DEF DisconnectJob, Close, entryVars, ChannelType, EntryType
<1>7. \A x \in Side : Kept(x) /\ (Asks(x)' => Asks(x))
  BY <1>1, <1>2, <1>3, AllKept
<1>8. SameOwn(Peer(s))
  BY <1>1, <1>3, <1>4, PeerFacts DEF SameOwn, JobsThin
<1>9. /\ ThreadInv(s) /\ ("timeout" \notin faults' => OwnInv(s))
      /\ Gone(s)
  BY <1>1, <1>3, OwnBefore DEF ThreadInv, Gone
<1>10. ThreadInv(s)'
  BY <1>0, <1>3, <1>9 DEF ThreadInv, Idle, Gone
<1>11. ASSUME "timeout" \notin faults' PROVE OwnInv(s)'
  BY <1>0, <1>3, <1>4, <1>9, <1>11 DEF OwnInv, Idle, Gone, Newest
<1> QED BY <1>3, <1>7, <1>8, <1>10, <1>11, ActorQuiet

\* A step of RemoveEndpoint says goodbye, closes the channel, or neither.
LEMMA GoodbyeThins ==
  ASSUME ChannelType, WireType, NEW s \in Side, channel[s] # None, NEW step,
         SaysGoodbye(s, step)
  PROVE  \A x \in Side : \A t : t # "bye" => Thins(x, t)
<1>0. channel[s] \in Mediums /\ Peer(s) \in Side
  BY MediumsNat, PeerFacts DEF ChannelType
<1>1. encoded' \in [Side -> Nat]
  BY DEF SaysGoodbye, Encodes, WireType
<1> DEFINE bye == [type |-> "bye", of |-> None,
                   seq |-> IF channel[s] \in crypto[s] THEN encoded'[s] ELSE 0]
<1>2. bye \in Frame /\ bye.type = "bye"
  BY <1>1 DEF Frame
<1>3. wire' = IF Up(channel[s]) THEN [wire EXCEPT ![Peer(s)][channel[s]] = Append(@, bye)]
              ELSE wire
  BY DEF SaysGoodbye
<1> DEFINE b == channel[s]
           p == Peer(s)
<1> HIDE DEF bye
<1>4. CASE wire' = wire
  BY <1>4, SameWireThins
<1>5. CASE wire' = [wire EXCEPT ![Peer(s)][channel[s]] = Append(@, bye)]
  <2>1. wire' = [wire EXCEPT ![p][b] = Append(@, bye)] /\ p \in Side /\ b \in Mediums
    BY <1>0, <1>5
  <2> HIDE DEF b, p
  <2>2. \A x \in Side : \A t : x # p \/ bye.type # t => Thins(x, t)
    BY <1>2, <2>1, SendThins
  <2> QED BY <1>2, <2>2
<1> QED BY <1>3, <1>4, <1>5

\* The steps of RemoveEndpoint: of the side's own, only the channel and what is paused changes,
\* a disconnect job may come, and the endpoint counts as removed from then on.
LEMMA LeavingFacts ==
  ASSUME TypeOK, NEW s \in Side, Manager(s)
  PROVE  /\ \A x \in Side : \A t : t # "disconnect" \/ x # s => JobsThin(x, t)
         /\ \A x \in Side : \A t : t # "bye" => Thins(x, t)
         /\ UNCHANGED <<at, arriving, previous, in_progress, medium, made, bandwidth, early>>
         /\ Gone(s)'
         /\ channel'[s] \in {channel[s], None}
         /\ \A x \in Side : x # s => /\ channel'[x] = channel[x] /\ paused'[x] = paused[x]
                                     /\ removal'[x] = removal[x]
         /\ "timeout" \in faults => "timeout" \in faults'
<1>0. ChannelType /\ WireType /\ JobType /\ WorkerType
  BY TypeParts
<1>1. UNCHANGED <<at, arriving, previous, in_progress, medium, made, bandwidth, early>>
  BY DEF Manager, RemoveEndpoint, Unregister, RemoveEndpointState, bwuVars, entryVars
<1>2. "timeout" \in faults => "timeout" \in faults'
  BY DEF Manager, RemoveEndpoint, Unregister, RemoveEndpointState, boundVars
<1>3. CASE \E step \in {"closing", "last"} :
             channel[s] # None /\ SaysGoodbye(s, step) /\ UNCHANGED <<jobs, channel>>
  <2>1. PICK step \in {"closing", "last"} : channel[s] # None /\ SaysGoodbye(s, step)
    BY <1>3
  <2>2. \A x \in Side : \A t : t # "bye" => Thins(x, t)
    BY <1>0, <2>1, GoodbyeThins
  <2>3. \A x \in Side : \A t : JobsThin(x, t)
    BY <1>3, SameJobsThin
  <2>4. /\ removal'[s].step = step
        /\ \A x \in Side : x # s => removal'[x] = removal[x] /\ paused'[x] = paused[x]
    BY <1>0, <2>1 DEF SaysGoodbye, WorkerType, Removal, ChannelType
  <2>5. Gone(s)'
    BY <2>4 DEF Gone
  <2> QED BY <1>1, <1>2, <1>3, <2>2, <2>3, <2>4, <2>5
<1>4. CASE Unregister(s)
  <2>1. \A x \in Side : \A t : Thins(x, t)
    BY <1>0, <1>4, CloseThins DEF Unregister
  <2>2. \A x \in Side : \A t : t # "disconnect" \/ x # s => JobsThin(x, t)
    <3>1. CASE jobs' = [jobs EXCEPT ![s] = Post(s, "disconnect", None)]
      <4>1. [type |-> "disconnect", of |-> None] \in Job
        BY DEF Job
      <4> QED BY <1>0, <3>1, <4>1, PostThins
    <3>2. CASE UNCHANGED jobs
      BY <3>2, SameJobsThin
    <3> QED BY <1>4, <3>1, <3>2 DEF Unregister
  <2>3. /\ channel'[s] = None
        /\ \A x \in Side : x # s => channel'[x] = channel[x] /\ paused'[x] = paused[x]
    BY <1>0, <1>4 DEF Unregister, Close, ChannelType
  <2>4. /\ removal'[s].step = "waiting" \/ removal'[s].state = FALSE
        /\ \A x \in Side : x # s => removal'[x] = removal[x]
    BY <1>0, <1>4 DEF Unregister, WorkerType, Removal
  <2>5. Gone(s)'
    BY <2>4 DEF Gone
  <2> QED BY <1>1, <1>2, <2>1, <2>2, <2>3, <2>4, <2>5
<1>5. CASE /\ removal' = [removal EXCEPT ![s] = [step |-> "none", state |-> FALSE]]
           /\ UNCHANGED <<paused, wire, encoded, jobs, channel>>
  <2>1. \A x \in Side : \A t : JobsThin(x, t)
    BY <1>5, SameJobsThin
  <2>2. \A x \in Side : \A t : Thins(x, t)
    BY <1>5, SameWireThins
  <2>3. /\ removal'[s].state = FALSE
        /\ \A x \in Side : x # s => removal'[x] = removal[x]
    BY <1>0, <1>5 DEF WorkerType
  <2>4. Gone(s)'
    BY <2>3 DEF Gone
  <2> QED BY <1>1, <1>2, <1>5, <2>1, <2>2, <2>3, <2>4
<1>6. CASE RemoveEndpoint(s)
  <2>1. channel[s] # None /\ SaysGoodbye(s, "closing") /\ UNCHANGED <<jobs, channel>>
    BY <1>6 DEF RemoveEndpoint, bwuVars
  <2> QED BY <1>3, <2>1
<1>7. CASE RemoveEndpointState(s)
  <2>1. UNCHANGED <<jobs, channel>>
    BY <1>7 DEF RemoveEndpointState, bwuVars
  <2>2. \/ channel[s] # None /\ SaysGoodbye(s, "last")
        \/ /\ removal' = [removal EXCEPT ![s] = [step |-> "none", state |-> FALSE]]
           /\ UNCHANGED <<paused, wire, encoded>>
    BY <1>7 DEF RemoveEndpointState
  <2> QED BY <1>3, <1>5, <2>1, <2>2
<1> QED BY <1>4, <1>6, <1>7 DEF Manager

\* RemoveEndpoint goes on: nothing is asked of a side whose endpoint is being removed.
LEMMA LeavingKeeps ==
  ASSUME TypeOK, RequestInv, NEW s \in Side, Manager(s)
  PROVE  RequestInv'
<1>1. /\ \A x \in Side : \A t : t # "disconnect" \/ x # s => JobsThin(x, t)
      /\ \A x \in Side : \A t : t # "bye" => Thins(x, t)
      /\ UNCHANGED <<at, arriving, previous, in_progress>>
      /\ Gone(s)'
      /\ \A x \in Side : x # s => /\ channel'[x] = channel[x] /\ paused'[x] = paused[x]
                                  /\ removal'[x] = removal[x]
      /\ "timeout" \in faults => "timeout" \in faults'
  BY LeavingFacts
<1>2. Kept(Peer(s))
  <2>1. \A x \in Side : JobsThin(x, "path") /\ JobsThin(x, "failure") /\ JobsThin(x, "incoming")
    BY <1>1
  <2>2. \A x \in Side : Thins(x, "path") /\ Thins(x, "failure")
    BY <1>1
  <2>3. \A x \in Side : Kept(x)
    BY <1>1, <2>1, <2>2, AllKept
  <2> QED BY <2>3, PeerFacts
<1>3. SameOwn(Peer(s))
  BY <1>1, PeerFacts DEF SameOwn, JobsThin
<1>4. ThreadInv(s) /\ ("timeout" \notin faults' => OwnInv(s))
  BY <1>1, OwnBefore
<1>5. ThreadInv(s)'
  BY <1>1, <1>4 DEF ThreadInv
<1>6. ASSUME "timeout" \notin faults' PROVE OwnInv(s)' /\ AskInv(s)'
  <2>1. OwnInv(s)'
    BY <1>1, <1>4, <1>6 DEF OwnInv
  <2>2. AskInv(s)'
    BY <1>1 DEF AskInv
  <2> QED BY <2>1, <2>2
<1> QED BY <1>1, <1>2, <1>3, <1>5, <1>6, SidesKept

\* LAST_WRITE_TO_PRIOR_CHANNEL is written.
LEMMA WriteLastKeeps ==
  ASSUME TypeOK, RequestInv, NEW s \in Side, WriteLast(s)
  PROVE  RequestInv'
<1>0. /\ WireType /\ JobType /\ EntryType
      /\ at[s].step = "last" /\ at[s].on \in Mediums
  BY TypeParts, StepFacts DEF WriteLast
<1>1. \A x \in Side : \A t : JobsThin(x, t)
  BY SameJobsThin DEF WriteLast
<1>2. \A x \in Side : \A t : t # "last" => Thins(x, t)
  <2>1. \A n \in Nat : [type |-> "last", of |-> None, seq |-> n] \in Frame
    BY DEF Frame
  <2> DEFINE c == at[s].on
  <2>2. PICK ok \in BOOLEAN : Write(s, c, "last", None, ok)
    BY DEF WriteLast
  <2>3. c \in Mediums
    BY <1>0
  <2> HIDE DEF c
  <2> QED BY <1>0, <2>1, <2>2, <2>3, WriteThins
<1>3. UNCHANGED <<arriving, channel, paused, in_progress, faults, jobs, removal>>
  BY DEF WriteLast, boundVars, workerVars
<1>4. /\ at'[s].step \in {"idle", "safe"}
      /\ \A x \in Side : x # s => at'[x] = at[x] /\ previous'[x] = previous[x]
  BY <1>0 DEF WriteLast, ProcessLastWriteToPriorChannelEvent, Ends, Goes, JobType, EntryType, Idle
<1>6. \A x \in Side : at'[x].step = "failure" => at[x].step = "failure"
  BY <1>4
<1>7. \A x \in Side : Kept(x) /\ (Asks(x)' => Asks(x))
  BY <1>1, <1>2, <1>3, <1>6, AllKept
<1>8. SameOwn(Peer(s))
  BY <1>1, <1>3, <1>4, PeerFacts DEF SameOwn, JobsThin
<1>9. ThreadInv(s) /\ ("timeout" \notin faults' => OwnInv(s))
  BY <1>3, OwnBefore
<1>10. ThreadInv(s)'
  BY <1>3, <1>4, <1>9 DEF ThreadInv, Gone
<1>11. ASSUME "timeout" \notin faults' PROVE OwnInv(s)'
  <2>1. Moved(s) /\ at[s] # Idle
    BY <1>0 DEF Moved, Idle
  <2>2. at'[s].step \notin {"ack", "failure", "replace"} /\ Newest(s)' = Newest(s)
    BY <1>0, <1>3, <1>4 DEF Newest
  <2> QED BY <1>3, <1>4, <1>7, <1>9, <1>11, <2>1, <2>2 DEF OwnInv, Gone
<1> QED BY <1>3, <1>7, <1>8, <1>10, <1>11, ActorQuiet

\* SAFE_TO_CLOSE_PRIOR_CHANNEL is written.
LEMMA WriteSafeKeeps ==
  ASSUME TypeOK, RequestInv, NEW s \in Side, WriteSafe(s)
  PROVE  RequestInv'
<1>0. /\ ChannelType /\ WireType /\ JobType /\ EntryType
      /\ at[s].step = "safe" /\ at[s].on \in Mediums
  BY TypeParts, StepFacts DEF WriteSafe
<1>1. \A x \in Side : \A t : JobsThin(x, t)
  BY SameJobsThin DEF WriteSafe
<1>2. \A x \in Side : \A t : t # "safe" => Thins(x, t)
  <2>1. \A n \in Nat : [type |-> "safe", of |-> None, seq |-> n] \in Frame
    BY DEF Frame
  <2> DEFINE c == at[s].on
  <2>2. Write(s, c, "safe", None, TRUE) \/ Close(s, {c})
    BY DEF WriteSafe
  <2>3. c \in Mediums
    BY <1>0
  <2> HIDE DEF c
  <2>4. CASE Write(s, c, "safe", None, TRUE)
    BY <1>0, <2>1, <2>3, <2>4, WriteThins
  <2>5. CASE Close(s, {c})
    BY <1>0, <2>5, CloseThins
  <2> QED BY <2>2, <2>4, <2>5
<1>3. UNCHANGED <<arriving, channel, in_progress, faults, jobs, removal>>
  BY DEF WriteSafe, boundVars, workerVars
<1>4. /\ at'[s].step = "idle" /\ (previous'[s] = previous[s] \/ previous'[s] = {})
      /\ paused'[s] \subseteq paused[s]
      /\ \A x \in Side : x # s => /\ at'[x] = at[x] /\ previous'[x] = previous[x]
                                  /\ paused'[x] = paused[x]
  <2>1. /\ at' = [at EXCEPT ![s] = Idle]
        /\ previous' = previous \/ previous' = [previous EXCEPT ![s] = {}]
        /\ paused' = paused \/ paused' = [paused EXCEPT ![s] = @ \ {at[s].on}]
    BY DEF WriteSafe, Ends, Close
  <2> QED BY <1>0, <2>1 DEF JobType, EntryType, ChannelType, Idle
<1>6. \A x \in Side : at'[x].step = "failure" => at[x].step = "failure"
  BY <1>4
<1>7. \A x \in Side : Kept(x) /\ (Asks(x)' => Asks(x))
  BY <1>1, <1>2, <1>3, <1>6, AllKept
<1>8. SameOwn(Peer(s))
  BY <1>1, <1>3, <1>4, PeerFacts DEF SameOwn, JobsThin
<1>9. ThreadInv(s) /\ ("timeout" \notin faults' => OwnInv(s))
  BY <1>3, OwnBefore
<1>10. ThreadInv(s)'
  BY <1>3, <1>4, <1>9 DEF ThreadInv, Gone
<1>11. ASSUME "timeout" \notin faults' PROVE OwnInv(s)'
  <2>1. Moved(s) /\ at[s] # Idle
    BY <1>0 DEF Moved, Idle
  <2>2. at'[s].step \notin {"ack", "failure", "replace"} /\ Newest(s)' = Newest(s)
    BY <1>0, <1>3, <1>4 DEF Newest
  <2> QED BY <1>3, <1>4, <1>7, <1>9, <1>11, <2>1, <2>2 DEF OwnInv, Gone
<1> QED BY <1>3, <1>7, <1>8, <1>10, <1>11, ActorQuiet

\* The goodbye is written to the old channel.
LEMMA WriteByeKeeps ==
  ASSUME TypeOK, RequestInv, NEW s \in Side, WriteBye(s)
  PROVE  RequestInv'
<1>0. /\ WireType /\ JobType /\ EntryType
      /\ at[s].step = "bye" /\ at[s].on \in Mediums
  BY TypeParts, StepFacts DEF WriteBye
<1>1. \A x \in Side : \A t : JobsThin(x, t)
  BY SameJobsThin DEF WriteBye
<1>2. \A x \in Side : \A t : t # "bye" => Thins(x, t)
  <2>1. \A n \in Nat : [type |-> "bye", of |-> None, seq |-> n] \in Frame
    BY DEF Frame
  <2> DEFINE c == at[s].on
  <2>2. PICK ok \in BOOLEAN : Write(s, c, "bye", None, ok)
    BY DEF WriteBye
  <2>3. c \in Mediums
    BY <1>0
  <2> HIDE DEF c
  <2> QED BY <1>0, <2>1, <2>2, <2>3, WriteThins
<1>3. UNCHANGED <<arriving, channel, paused, previous, in_progress, faults, jobs, removal>>
  BY DEF WriteBye, boundVars, entryVars, workerVars
<1>4. /\ at'[s].step = "drain"
      /\ \A x \in Side : x # s => at'[x] = at[x]
  BY <1>0 DEF WriteBye, Goes, JobType
<1>6. \A x \in Side : at'[x].step = "failure" => at[x].step = "failure"
  BY <1>4
<1>7. \A x \in Side : Kept(x) /\ (Asks(x)' => Asks(x))
  BY <1>1, <1>2, <1>3, <1>6, AllKept
<1>8. SameOwn(Peer(s))
  BY <1>1, <1>3, <1>4, PeerFacts DEF SameOwn, JobsThin
<1>9. ThreadInv(s) /\ ("timeout" \notin faults' => OwnInv(s))
  BY <1>3, OwnBefore
<1>10. ThreadInv(s)'
  BY <1>0, <1>3, <1>4, <1>9 DEF ThreadInv, Gone
<1>11. ASSUME "timeout" \notin faults' PROVE OwnInv(s)'
  <2>1. Moved(s) /\ at[s] # Idle
    BY <1>0 DEF Moved, Idle
  <2>2. at'[s].step \notin {"ack", "failure", "replace"} /\ Newest(s)' = Newest(s)
    BY <1>0, <1>3, <1>4 DEF Newest
  <2> QED BY <1>3, <1>4, <1>7, <1>9, <1>11, <2>1, <2>2 DEF OwnInv, Gone
<1> QED BY <1>3, <1>7, <1>8, <1>10, <1>11, ActorQuiet

\* The last read of an upgrade returns and the new channel is resumed.
LEMMA DrainKeeps ==
  ASSUME TypeOK, RequestInv, NEW s \in Side, Drain(s)
  PROVE  RequestInv'
<1>0. /\ ChannelType /\ WireType /\ JobType /\ EntryType
      /\ at[s].step = "drain" /\ at[s].on \in Mediums
  BY TypeParts, StepFacts DEF Drain
<1>1. \A x \in Side : \A t : JobsThin(x, t)
  BY SameJobsThin DEF Drain
<1>2. \A x \in Side : \A t : Thins(x, t)
  BY <1>0, DrainThins
<1>3. UNCHANGED <<arriving, channel, previous, faults, jobs, removal>>
  BY DEF Drain, boundVars, workerVars
<1>4. /\ at'[s].step = "idle" /\ paused'[s] = paused[s] \ {at[s].on, channel[s]}
      /\ channel[s] = None => in_progress' = in_progress
      /\ in_progress' = in_progress \/ in_progress' = in_progress \ {s}
      /\ \A x \in Side : x # s => at'[x] = at[x] /\ paused'[x] = paused[x]
  <2>1. /\ at' = [at EXCEPT ![s] = Idle]
        /\ paused' = [paused EXCEPT ![s] = @ \ {at[s].on, channel[s]}]
        /\ channel[s] = None => in_progress' = in_progress
        /\ in_progress' = in_progress \/ in_progress' = in_progress \ {s}
    BY DEF Drain, Ends
  <2> QED BY <1>0, <2>1 DEF JobType, ChannelType, Idle
<1>6. \A x \in Side : at'[x].step = "failure" => at[x].step = "failure"
  BY <1>4
<1>7. \A x \in Side : Kept(x) /\ (Asks(x)' => Asks(x))
  BY <1>1, <1>2, <1>3, <1>6, AllKept
<1>8. SameOwn(Peer(s))
  BY <1>1, <1>3, <1>4, PeerFacts DEF SameOwn, JobsThin
<1>9. ThreadInv(s) /\ ("timeout" \notin faults' => OwnInv(s))
  BY <1>3, OwnBefore
<1>10. ThreadInv(s)'
  BY <1>0, <1>3, <1>4, <1>9 DEF ThreadInv, Gone
<1>11. ASSUME "timeout" \notin faults' PROVE OwnInv(s)'
  <2>1. at[s] # Idle /\ previous[s] = {}
    BY <1>0, <1>9 DEF Idle, ThreadInv, Gone
  <2>2. ~Moved(s)'
    BY <1>3, <1>4, <2>1 DEF Moved
  <2>3. ~Gone(s) => paused'[s] = {}
    BY <1>0, <1>4, <1>9, <1>11 DEF OwnInv, Newest
  <2>4. ~Gone(s) => ~Asks(s)'
    BY <1>7, <1>9, <1>11, <2>1 DEF OwnInv, Gone, Newest
  <2> QED BY <1>3, <1>4, <2>2, <2>3, <2>4 DEF OwnInv, Gone, Newest
<1> QED BY <1>3, <1>7, <1>8, <1>10, <1>11, ActorQuiet

\* UPGRADE_PATH_AVAILABLE is written, which begins a request.
LEMMA WritePathKeeps ==
  ASSUME TypeOK, RequestInv, NEW s \in Side, WritePath(s)
  PROVE  RequestInv'
<1>0. /\ WireType /\ JobType /\ EntryType
      /\ at[s].step = "path" /\ at[s].on \in Mediums /\ at[s].of \in Mediums
  BY TypeParts, StepFacts DEF WritePath
<1>1. \A x \in Side : \A t : JobsThin(x, t)
  BY SameJobsThin DEF WritePath
<1> DEFINE c == at[s].on
           of == at[s].of
<1>2. PICK ok \in BOOLEAN : /\ Write(s, c, "path", of, ok)
                            /\ in_progress' = IF ok THEN in_progress \cup {s} ELSE in_progress
  BY DEF WritePath
<1>3. c \in Mediums /\ \A n \in Nat : [type |-> "path", of |-> of, seq |-> n] \in Frame
  BY <1>0 DEF Frame
<1> HIDE DEF c, of
<1>4. /\ \A x \in Side : \A t : x # Peer(s) \/ "path" # t => Thins(x, t)
      /\ ~FrameOn(Peer(s), "path") => OneFrameOn(Peer(s), "path")'
      /\ ok = FALSE => wire' = wire
  BY <1>0, <1>2, <1>3, WriteThins
<1>5. UNCHANGED <<arriving, channel, paused, previous, faults, jobs, removal>>
  BY DEF WritePath, boundVars, workerVars
<1>6. /\ at'[s] = Idle /\ at'[s].step = "idle"
      /\ \A x \in Side : x # s => at'[x] = at[x]
  BY <1>0 DEF WritePath, Ends, JobType, Idle
<1>7. Kept(Peer(s))
  <2>1. /\ Peer(s) \in Side /\ Peer(Peer(s)) = s /\ s # Peer(s)
    BY PeerFacts
  <2>2. Thins(s, "path") /\ Thins(Peer(s), "failure")
    BY <1>4, <2>1
  <2> QED BY <1>1, <1>5, <1>6, <2>1, <2>2, QuietKept
<1>8. SameOwn(Peer(s))
  BY <1>1, <1>2, <1>5, <1>6, PeerFacts DEF SameOwn, JobsThin
<1>9. ThreadInv(s) /\ ("timeout" \notin faults' => OwnInv(s) /\ AskInv(s)) /\ s \notin in_progress
  BY <1>0, <1>5, OwnBefore DEF ThreadInv, Gone
<1>10. ThreadInv(s)'
  BY <1>5, <1>6, <1>9 DEF ThreadInv, Gone
<1>11. ASSUME "timeout" \notin faults' PROVE OwnInv(s)' /\ AskInv(s)'
  <2>1. CASE Gone(s)
    BY <1>5, <1>6, <1>9, <1>11, <2>1 DEF OwnInv, AskInv, Gone, Newest
  <2>2. CASE ~Gone(s)
    <3>1. OneOfEach(s) /\ ~Asks(s) /\ ~Moved(s) /\ paused[s] = {}
      BY <1>9, <1>11, <2>2 DEF OwnInv, AskInv, Gone, Newest
    <3>2. \A g \in Stages : ~Request(s, g)
      BY <3>1 DEF Asks
    <3>3. ~FrameOn(Peer(s), "path")
      BY <3>2, RequestStages DEF Stages
    <3>4. /\ ~HasType(jobs[Peer(s)], "path") /\ at[Peer(s)].step # "failure"
          /\ ~FrameOn(s, "failure") /\ ~HasType(jobs[s], "failure")
          /\ arriving[s] = {} /\ ~HasType(jobs[s], "incoming")
      BY <3>2, RequestStages DEF Stages
    <3>5. Thins(s, "failure")
      BY <1>4
    <3>6. at'[Peer(s)].step # "failure" /\ ~FrameOn(s, "failure")'
      BY <1>6, <3>4, <3>5, PeerFacts, ThinsFrames
    <3>7. \A g \in Stages : Request(s, g)' => g = "sent"
      BY <1>5, <3>4, <3>6, RequestStagesNext DEF Stages
    <3>8. OneStage(s)'
      BY <3>7, Zenon DEF OneStage
    <3>9. OneOfEach(s)'
      <4>1. OneFrameOn(Peer(s), "path")' /\ OneFrameOn(s, "failure")'
        BY <1>4, <3>1, <3>3, <3>5, ThinsFrames DEF OneOfEach
      <4> QED BY <1>5, <3>1, <4>1 DEF OneOfEach
    <3>10. Asks(s)' => s \in in_progress'
      <4>1. CASE ok = FALSE
        <5>1. \A x \in Side : \A t : Thins(x, t)
          BY <1>4, <4>1, SameWireThins
        <5>2. ~FrameOn(Peer(s), "path")'
          BY <3>3, <5>1, PeerFacts, ThinsFrames
        <5>3. ~Request(s, "sent")'
          BY <5>2, RequestStagesNext
        <5>4. ~Asks(s)'
          BY <3>7, <5>3, Zenon DEF Asks
        <5> QED BY <5>4
      <4>2. CASE ok = TRUE
        BY <1>2, <4>2
      <4> QED BY <4>1, <4>2
    <3>11. ~Moved(s)' /\ previous[s] \subseteq {None}
      BY <1>5, <1>6, <3>1 DEF Moved
    <3>12. OwnInv(s)'
      BY <1>5, <1>6, <3>1, <3>10, <3>11 DEF OwnInv, Gone, Newest
    <3> QED BY <3>8, <3>9, <3>12 DEF AskInv, Gone
  <2> QED BY <2>1, <2>2
<1> QED BY <1>5, <1>7, <1>8, <1>10, <1>11, SidesKept

\* A new channel is accepted and its introduction read.
LEMMA AcceptKeeps ==
  ASSUME TypeOK, RequestInv, NEW s \in Side, NEW m \in Mediums, Accept(s, m)
  PROVE  RequestInv'
<1>0. ChannelType /\ JobType
  BY TypeParts
<1>1. /\ \A x \in Side : \A t : x # s \/ t # "incoming" => JobsThin(x, t)
      /\ ~HasType(jobs[s], "incoming") => OnlyOne(jobs'[s], "incoming")
  <2>1. [type |-> "incoming", of |-> m] \in Job
    BY DEF Job
  <2> QED BY <1>0, <2>1, PostThins DEF Accept
<1>2. \A x \in Side : \A t : Thins(x, t)
  BY SameWireThins DEF Accept
<1>3. UNCHANGED <<at, channel, paused, previous, in_progress, faults, removal>>
  BY DEF Accept, entryVars, boundVars, workerVars
<1>4. /\ m \in arriving[s] /\ arriving'[s] = arriving[s] \ {m}
      /\ \A x \in Side : x # s => arriving'[x] = arriving[x]
  BY <1>0 DEF Accept, ChannelType
<1>5. Peer(s) \in Side /\ Peer(s) # s /\ Peer(Peer(s)) = s
  BY PeerFacts
<1>6. Kept(Peer(s))
  BY <1>1, <1>2, <1>3, <1>4, <1>5, QuietKept
<1>7. Kept(s)
  <2> SUFFICES ASSUME ~Gone(s), OneStage(s), OneOfEach(s)
               PROVE  /\ Request(s, "arriving")
                      /\ \A g \in Stages \ {"arrived"} :
                           Request(s, g)' => Request(s, g) /\ g # "arriving"
                      /\ OneOfEach(s)'
    BY MoveKept DEF Stages
  <2>1. Request(s, "arriving")
    BY <1>4, RequestStages
  <2>2. arriving'[s] = {}
    BY <1>4 DEF OneOfEach
  <2>3. /\ FrameOn(Peer(s), "path")' => FrameOn(Peer(s), "path")
        /\ FrameOn(s, "failure")' => FrameOn(s, "failure")
        /\ OneFrameOn(Peer(s), "path") => OneFrameOn(Peer(s), "path")'
        /\ OneFrameOn(s, "failure") => OneFrameOn(s, "failure")'
    BY <1>2, <1>5, ThinsFrames
  <2>4. JobsThin(Peer(s), "path") /\ JobsThin(s, "failure")
    BY <1>1, <1>5
  <2>5. \A g \in Stages \ {"arrived"} : Request(s, g)' => Request(s, g) /\ g # "arriving"
    BY <1>3, <2>2, <2>3, <2>4, RequestStages, RequestStagesNext DEF Stages, JobsThin
  <2>6. ~HasType(jobs[s], "incoming")
    BY <2>1, RequestStages DEF OneStage, Stages
  <2>7. OneOfEach(s)'
    <3>1. OneFrameOn(Peer(s), "path")' /\ OneFrameOn(s, "failure")'
      BY <2>3 DEF OneOfEach
    <3>2. /\ OnlyOne(jobs'[Peer(s)], "path") /\ OnlyOne(jobs'[s], "failure")
          /\ OnlyOne(jobs'[s], "incoming")
      BY <1>1, <2>4, <2>6, Zenon DEF OneOfEach, JobsThin
    <3> QED BY <2>2, <3>1, <3>2 DEF OneOfEach, OnlyOne
  <2> QED BY <2>1, <2>5, <2>7
<1>8. \A x \in Side : SameOwn(x)
  <2>1. \A x \in Side : JobsThin(x, "disconnect")
    BY <1>1
  <2> QED BY <1>3, <2>1 DEF SameOwn, JobsThin
<1>9. \A x \in Side : Kept(x)
  BY <1>6, <1>7, PeerFacts
<1> QED BY <1>3, <1>8, <1>9, QuietStep

\* ProcessUpgradeFailureEvent runs.
LEMMA FailureJobKeeps ==
  ASSUME TypeOK, RequestInv, NEW s \in Side, FailureJob(s)
  PROVE  RequestInv'
<1>0. JobType /\ Takes(s, "failure") /\ at[s] = Idle
  BY TypeParts DEF FailureJob, Takes
<1> DEFINE next == IF Untried(Of(s)) = <<>> THEN None ELSE Untried(Of(s))[1]
<1>1. next \in 0 .. LastMedium
  BY NextMedium
<1>2. RetryUpgradeMediums(s, next, Rest(s), alarm) /\ in_progress' = in_progress \ {s}
  BY DEF FailureJob, ProcessUpgradeFailureEvent
<1> HIDE DEF next
<1>3. \/ jobs' = Rest(s)
      \/ jobs' = [Rest(s) EXCEPT ![s] = Append(@, [type |-> "init", of |-> next])]
  BY <1>2, RetryJobs
<1>4. /\ \A x \in Side : \A t : t # "init" => JobsThin(x, t)
      /\ OnlyOne(jobs[s], "failure") => ~HasType(jobs'[s], "failure")
      /\ HasType(jobs[s], "failure")
  BY <1>0, <1>1, <1>3, RestThins
<1>5. \A x \in Side : \A t : Thins(x, t)
  BY SameWireThins DEF FailureJob, channelVars
<1>6. UNCHANGED <<arriving, channel, paused, previous, at, faults, removal>>
  BY DEF FailureJob, channelVars, boundVars, workerVars
<1>7. \A x \in Side : Kept(x) /\ (Asks(x)' => Asks(x))
  BY <1>4, <1>5, <1>6, AllKept
<1>8. SameOwn(Peer(s))
  BY <1>2, <1>4, <1>6, PeerFacts DEF SameOwn, JobsThin
<1>9. ThreadInv(s) /\ ("timeout" \notin faults' => OwnInv(s) /\ AskInv(s))
  BY <1>6, OwnBefore
<1>10. ThreadInv(s)'
  BY <1>2, <1>4, <1>6, <1>9 DEF ThreadInv, JobsThin, Gone
<1>11. ASSUME "timeout" \notin faults' PROVE OwnInv(s)'
  <2>0. at[s].step = "idle"
    BY <1>0 DEF Idle
  <2>1. CASE Gone(s)
    BY <1>6, <1>9, <1>11, <2>0, <2>1 DEF OwnInv, Gone, Newest
  <2>2. CASE ~Gone(s)
    <3>1. OneStage(s) /\ OneOfEach(s) /\ Request(s, "failed")
      BY <1>4, <1>9, <1>11, <2>2, RequestStages DEF AskInv, Gone
    <3>2. Asks(s) /\ "failed" \in Stages
      BY <3>1 DEF Asks, Stages
    <3>3. paused[s] = {} /\ previous[s] \subseteq {None}
      BY <1>9, <1>11, <2>2, <3>2 DEF OwnInv, Gone, Newest
    <3>4. ~Request(s, "failed")'
      BY <1>4, <3>1, RequestStagesNext DEF OneOfEach
    <3>5. \A g \in Stages : Request(s, g)' => Request(s, g)
      <4>1. Peer(s) \in Side
        BY PeerFacts
      <4> QED BY <1>4, <1>5, <1>6, <4>1, QuietKept
    <3>6. ~Asks(s)'
      BY <3>1, <3>2, <3>4, <3>5, Zenon DEF Asks, OneStage
    <3>7. ~Moved(s)'
      BY <1>6, <2>0, <3>3 DEF Moved
    <3> QED BY <1>6, <2>0, <3>3, <3>6, <3>7 DEF OwnInv, Gone, Newest
  <2> QED BY <2>1, <2>2
<1> QED BY <1>6, <1>7, <1>8, <1>10, <1>11, ActorQuiet

\* UPGRADE_FAILURE is written.
LEMMA WriteFailureKeeps ==
  ASSUME TypeOK, RequestInv, NEW s \in Side, WriteFailure(s)
  PROVE  RequestInv'
<1>0. /\ ChannelType /\ WireType /\ JobType /\ EntryType
      /\ at[s].step = "failure" /\ at[s].on \in Mediums /\ at[s].of \in Mediums
  BY TypeParts, StepFacts DEF WriteFailure
<1> DEFINE p == Peer(s)
<1>p. p \in Side /\ p # s /\ Peer(p) = s
  BY PeerFacts
<1>1. \A x \in Side : \A t : JobsThin(x, t)
  BY SameJobsThin DEF WriteFailure
<1>2. /\ \A x \in Side : \A t : x # p \/ "failure" # t => Thins(x, t)
      /\ ~FrameOn(p, "failure") => OneFrameOn(p, "failure")'
  <2>1. \A n \in Nat : [type |-> "failure", of |-> at[s].of, seq |-> n] \in Frame
    BY <1>0 DEF Frame
  <2> DEFINE c == at[s].on
             of == at[s].of
  <2>2. Write(s, c, "failure", of, TRUE) \/ Close(s, {c})
    BY DEF WriteFailure
  <2>3. c \in Mediums /\ \A n \in Nat : [type |-> "failure", of |-> of, seq |-> n] \in Frame
    BY <1>0, <2>1
  <2> HIDE DEF c, of
  <2>4. CASE Write(s, c, "failure", of, TRUE)
    BY <1>0, <2>3, <2>4, WriteThins
  <2>5. CASE Close(s, {c})
    <3>1. \A x \in Side : \A t : Thins(x, t)
      BY <1>0, <2>5, CloseThins
    <3>2. ~FrameOn(p, "failure") => OneFrameOn(p, "failure")
      BY Zenon DEF FrameOn, OneFrameOn, HasType, OnlyOne
    <3>3. Thins(p, "failure")
      BY <1>p, <3>1
    <3> QED BY <3>1, <3>2, <3>3, ThinsFrames
  <2> QED BY <2>2, <2>4, <2>5
<1>3. UNCHANGED <<arriving, channel, previous, faults, jobs, removal>>
  BY DEF WriteFailure, boundVars, workerVars
<1>4. /\ at'[s].step = "idle" /\ at'[s] = Idle /\ paused'[s] \subseteq paused[s]
      /\ in_progress' = in_progress \/ in_progress' = in_progress \ {s}
      /\ \A x \in Side : x # s => at'[x] = at[x] /\ paused'[x] = paused[x]
  <2>1. /\ at' = [at EXCEPT ![s] = Idle]
        /\ paused' = paused \/ paused' = [paused EXCEPT ![s] = @ \ {at[s].on}]
        /\ in_progress' = in_progress \/ in_progress' = in_progress \ {s}
    BY DEF WriteFailure, Ends, Close
  <2> QED BY <1>0, <2>1 DEF JobType, ChannelType, Idle
<1>5. Kept(p)
  <2> SUFFICES ASSUME ~Gone(p), OneStage(p), OneOfEach(p)
               PROVE  /\ Request(p, "refusing")
                      /\ \A g \in Stages \ {"refused"} :
                           Request(p, g)' => Request(p, g) /\ g # "refusing"
                      /\ OneOfEach(p)'
    BY <1>p, MoveKept DEF Stages
  <2>1. Request(p, "refusing")
    BY <1>0, <1>p, RequestStages
  <2>2. ~FrameOn(p, "failure")
    BY <2>1, RequestStages DEF OneStage, Stages
  <2>3. /\ FrameOn(s, "path")' => FrameOn(s, "path")
        /\ OneFrameOn(s, "path") => OneFrameOn(s, "path")'
        /\ OneFrameOn(p, "failure")'
    BY <1>p, <1>2, <2>2, ThinsFrames
  <2>4. \A g \in Stages \ {"refused"} : Request(p, g)' => Request(p, g) /\ g # "refusing"
    BY <1>p, <1>3, <1>4, <2>3, RequestStages, RequestStagesNext DEF Stages
  <2>5. OneOfEach(p)'
    BY <1>p, <1>3, <2>3 DEF OneOfEach
  <2> QED BY <2>1, <2>4, <2>5
<1>6. Kept(s) /\ (Asks(s)' => Asks(s))
  <2>1. Kept(s) /\ \A g \in Stages : Request(s, g)' => Request(s, g)
    BY <1>p, <1>1, <1>2, <1>3, <1>4, QuietKept
  <2> QED BY <2>1, Zenon DEF Asks
<1>8. SameOwn(p)
  BY <1>p, <1>1, <1>3, <1>4 DEF SameOwn, JobsThin
<1>9. ThreadInv(s) /\ ("timeout" \notin faults' => OwnInv(s))
  BY <1>3, OwnBefore
<1>10. ThreadInv(s)'
  BY <1>3, <1>4, <1>9 DEF ThreadInv, Gone
<1>11. ASSUME "timeout" \notin faults' PROVE OwnInv(s)' /\ AskInv(s)'
  <2>1. s \notin in_progress /\ at[s] # Idle
    BY <1>0, <1>9, <1>11 DEF OwnInv, Idle, Gone, Newest
  <2>2. Moved(s)' => Moved(s)
    BY <1>3, <1>4 DEF Moved
  <2>3. s \notin in_progress'
    BY <1>4, <2>1
  <2>4. OwnInv(s)'
    BY <1>3, <1>4, <1>6, <1>9, <1>11, <2>1, <2>2, <2>3 DEF OwnInv, Gone, Newest
  <2> QED BY <1>3, <1>6, <1>11, <2>4, ActorAsks
<1> QED BY <1>3, <1>5, <1>8, <1>10, <1>11, SidesKept

\* HandleData reads a frame.
LEMMA ReadsKeeps ==
  ASSUME TypeOK, RequestInv, NEW s \in Side, Reads(s)
  PROVE  RequestInv'
<1>0. ChannelType /\ WireType /\ JobType /\ WorkerType
  BY TypeParts
<1> DEFINE c == reader[s].on
           frame == Head(wire[s][c])
           p == Peer(s)
<1>p. p \in Side /\ p # s /\ Peer(p) = s
  BY PeerFacts
<1>1. c \in Mediums
  BY <1>0, MediumsNat DEF Reads, WorkerType, Worker
<1>2. wire[s][c] # <<>> => frame \in Frame
  BY <1>0, <1>1 DEF WireType
<1>3. \/ UNCHANGED <<wire, jobs, paused>>
      \/ wire[s][c] # <<>> /\ Took(s, c) /\ UNCHANGED <<jobs, paused>>
      \/ /\ wire[s][c] # <<>> /\ Took(s, c) /\ UNCHANGED paused
         /\ frame.type \in {"path", "failure", "last", "safe"}
         /\ jobs' = [jobs EXCEPT ![s] = Post(s, frame.type, frame.of)]
      \/ Close(s, {c}) /\ UNCHANGED jobs
  BY DEF Reads
<1>4. UNCHANGED <<at, channel, previous, in_progress, faults, arriving, removal>>
  BY DEF Reads, entryVars, boundVars
<1> HIDE DEF c, frame, p
<1>5. /\ paused'[s] \subseteq paused[s]
      /\ \A x \in Side : x # s => paused'[x] = paused[x]
  BY <1>0, <1>3 DEF Close, ChannelType
<1>6. ASSUME \A x \in Side : Kept(x) /\ (Asks(x)' => Asks(x)),
             \A x \in Side : JobsThin(x, "disconnect")
      PROVE  RequestInv'
  <2>1. SameOwn(Peer(s))
    BY <1>4, <1>5, <1>6, PeerFacts DEF SameOwn, JobsThin
  <2>2. ThreadInv(s) /\ ("timeout" \notin faults' => OwnInv(s))
    BY <1>4, OwnBefore
  <2>3. ThreadInv(s)'
    BY <1>4, <1>6, <2>2 DEF ThreadInv, JobsThin, Gone
  <2>4. ASSUME "timeout" \notin faults' PROVE OwnInv(s)'
    <3>1. Moved(s)' <=> Moved(s)
      BY <1>4 DEF Moved
    <3> QED BY <1>4, <1>5, <1>6, <2>2, <2>4, <3>1 DEF OwnInv, Gone, Newest
  <2> QED BY <1>4, <1>6, <2>1, <2>3, <2>4, ActorQuiet
<1>7. CASE UNCHANGED jobs
  <2>1. \A x \in Side : \A t : Thins(x, t)
    <3>1. CASE wire' = wire
      BY <3>1, SameWireThins
    <3>2. CASE wire[s][c] # <<>> /\ Took(s, c)
      BY <1>0, <1>1, <3>2, TookThins
    <3>3. CASE Close(s, {c})
      BY <1>0, <3>3, CloseThins
    <3>4. wire' = wire \/ (wire[s][c] # <<>> /\ Took(s, c)) \/ Close(s, {c})
      BY <1>3
    <3> QED BY <3>1, <3>2, <3>3, <3>4
  <2>2. \A x \in Side : \A t : JobsThin(x, t)
    BY <1>7, SameJobsThin
  <2>3. \A x \in Side : Kept(x) /\ (Asks(x)' => Asks(x))
    BY <1>4, <2>1, <2>2, AllKept
  <2> QED BY <1>6, <2>2, <2>3
<1>8. ASSUME wire[s][c] # <<>>, Took(s, c), frame.type \in {"path", "failure", "last", "safe"},
             jobs' = [jobs EXCEPT ![s] = Post(s, frame.type, frame.of)]
      PROVE  RequestInv'
  <2>1. [type |-> frame.type, of |-> frame.of] \in Job
    BY <1>2, <1>8 DEF Frame, Job
  <2>2. /\ \A x \in Side : \A t : x # s \/ t # frame.type => JobsThin(x, t)
        /\ ~HasType(jobs[s], frame.type) => OnlyOne(jobs'[s], frame.type)
    BY <1>0, <1>8, <2>1, PostThins
  <2>3. /\ \A x \in Side : \A t : Thins(x, t)
        /\ FrameOn(s, frame.type)
    <3>1. /\ \A x \in Side : \A t : Thins(x, t)
          /\ \A t : FrameOn(s, t) \/ Head(wire[s][c]).type # t
          /\ \A t : OneFrameOn(s, t) /\ Head(wire[s][c]).type = t => ~FrameOn(s, t)'
      BY <1>0, <1>1, <1>8, TookThins
    <3>2. Head(wire[s][c]).type = frame.type
      BY DEF frame
    <3>3. FrameOn(s, frame.type)
      BY <3>1, <3>2
    <3> QED BY <3>1, <3>3
  <2>4. \A x \in Side : JobsThin(x, "disconnect")
    BY <1>8, <2>2
  <2>5. CASE frame.type \in {"last", "safe"}
    <3>1. \A x \in Side : JobsThin(x, "path") /\ JobsThin(x, "failure") /\ JobsThin(x, "incoming")
      BY <2>2, <2>5
    <3>2. \A x \in Side : Kept(x) /\ (Asks(x)' => Asks(x))
      BY <1>4, <2>3, <3>1, AllKept
    <3> QED BY <1>6, <2>4, <3>2
  <2>6. CASE frame.type = "path"
    <3>1. JobsThin(p, "path") /\ JobsThin(p, "failure") /\ JobsThin(p, "incoming")
      BY <1>p, <2>2
    <3>2. JobsThin(s, "failure") /\ JobsThin(s, "incoming")
      BY <2>2, <2>6
    <3>3. Kept(s) /\ \A g \in Stages : Request(s, g)' => Request(s, g)
      BY <1>4, <1>p, <2>3, <3>1, <3>2, QuietKept DEF p
    <3>4. ASSUME ~Gone(p), OneStage(p), OneOfEach(p)
          PROVE  /\ Request(p, "sent")
                 /\ \A g \in Stages \ {"received"} : Request(p, g)' => Request(p, g) /\ g # "sent"
                 /\ OneOfEach(p)'
      <4>1. Request(p, "sent")
        BY <1>p, <2>3, <2>6, RequestStages
      <4>2. OneFrameOn(s, "path") /\ ~HasType(jobs[s], "path")
        BY <1>p, <3>4, <4>1, RequestStages DEF OneStage, OneOfEach, Stages
      <4>3. ~FrameOn(s, "path")'
        <5>1. \A t : t = frame.type /\ OneFrameOn(s, t) => ~FrameOn(s, t)'
          BY <1>0, <1>1, <1>8, TookThins DEF frame
        <5> QED BY <2>6, <4>2, <5>1
      <4>4. /\ FrameOn(p, "failure")' => FrameOn(p, "failure")
            /\ OneFrameOn(p, "failure") => OneFrameOn(p, "failure")'
            /\ OneFrameOn(s, "path") => OneFrameOn(s, "path")'
        BY <1>p, <2>3, ThinsFrames
      <4>5. \A g \in Stages \ {"received"} : Request(p, g)' => Request(p, g) /\ g # "sent"
        BY <1>p, <1>4, <3>1, <4>3, <4>4, RequestStages, RequestStagesNext DEF Stages, JobsThin
      <4>6. OneFrameOn(Peer(p), "path")' /\ OneFrameOn(p, "failure")'
        BY <1>p, <3>4, <4>4 DEF OneOfEach
      <4>7. /\ OnlyOne(jobs'[Peer(p)], "path") /\ OnlyOne(jobs'[p], "failure")
            /\ OnlyOne(jobs'[p], "incoming")
        BY <1>p, <2>2, <2>6, <3>1, <3>4, <4>2 DEF OneOfEach, JobsThin
      <4>8. OneOfEach(p)'
        BY <1>4, <3>4, <4>6, <4>7 DEF OneOfEach, OnlyOne
      <4> QED BY <4>1, <4>5, <4>8
    <3>5. Kept(p)
      BY <1>p, <3>4, MoveKept DEF Stages
    <3>6. Asks(s)' => Asks(s)
      BY <3>3, Zenon DEF Asks
    <3>7. SameOwn(p)
      BY <1>p, <1>4, <1>5, <2>4 DEF SameOwn, JobsThin
    <3>8. ThreadInv(s) /\ ("timeout" \notin faults' => OwnInv(s))
      BY <1>4, OwnBefore
    <3>9. ThreadInv(s)'
      BY <1>4, <2>4, <3>8 DEF ThreadInv, JobsThin, Gone
    <3>10. ASSUME "timeout" \notin faults' PROVE OwnInv(s)' /\ AskInv(s)'
      <4>1. Moved(s)' <=> Moved(s)
        BY <1>4 DEF Moved
      <4>2. OwnInv(s)'
        BY <1>4, <1>5, <3>6, <3>8, <3>10, <4>1 DEF OwnInv, Gone, Newest
      <4> QED BY <1>4, <3>3, <3>10, <4>2, ActorAsks
    <3> QED BY <1>4, <3>5, <3>7, <3>9, <3>10, SidesKept DEF p
  <2>7. CASE frame.type = "failure"
    <3>1. JobsThin(s, "path") /\ JobsThin(s, "incoming") /\ JobsThin(p, "path")
      BY <1>p, <2>2, <2>7
    <3>2. JobsThin(p, "failure") /\ JobsThin(p, "incoming")
      BY <1>p, <2>2
    <3>3. Kept(p) /\ \A g \in Stages : Request(p, g)' => Request(p, g)
      BY <1>4, <1>p, <2>3, <3>1, <3>2, QuietKept
    <3>4. ASSUME ~Gone(s), OneStage(s), OneOfEach(s)
          PROVE  /\ Request(s, "refused")
                 /\ \A g \in Stages \ {"failed"} : Request(s, g)' => Request(s, g) /\ g # "refused"
                 /\ OneOfEach(s)'
      <4>1. Request(s, "refused")
        BY <2>3, <2>7, RequestStages
      <4>2. OneFrameOn(s, "failure") /\ ~HasType(jobs[s], "failure")
        BY <3>4, <4>1, RequestStages DEF OneStage, OneOfEach, Stages
      <4>3. ~FrameOn(s, "failure")'
        <5>1. \A t : t = frame.type /\ OneFrameOn(s, t) => ~FrameOn(s, t)'
          BY <1>0, <1>1, <1>8, TookThins DEF frame
        <5> QED BY <2>7, <4>2, <5>1
      <4>4. /\ FrameOn(p, "path")' => FrameOn(p, "path")
            /\ OneFrameOn(p, "path") => OneFrameOn(p, "path")'
            /\ OneFrameOn(s, "failure") => OneFrameOn(s, "failure")'
        BY <1>p, <2>3, ThinsFrames
      <4>5. \A g \in Stages \ {"failed"} : Request(s, g)' => Request(s, g) /\ g # "refused"
        BY <1>4, <3>1, <4>3, <4>4, RequestStages, RequestStagesNext DEF Stages, JobsThin, p
      <4>6. OneFrameOn(Peer(s), "path")' /\ OneFrameOn(s, "failure")'
        BY <3>4, <4>4 DEF OneOfEach, p
      <4>7. /\ OnlyOne(jobs'[p], "path") /\ OnlyOne(jobs'[s], "failure")
            /\ OnlyOne(jobs'[s], "incoming")
        BY <2>2, <2>7, <3>1, <3>4, <4>2 DEF OneOfEach, JobsThin, p
      <4>8. OneOfEach(s)'
        BY <1>4, <3>4, <4>6, <4>7 DEF OneOfEach, OnlyOne, p
      <4> QED BY <4>1, <4>5, <4>8
    <3>5. Kept(s) /\ (Asks(s)' => Asks(s))
      <4>1. Kept(s)
        BY <3>4, MoveKept DEF Stages
      <4>2. Asks(s)
        BY <2>3, <2>7, RequestStages DEF Asks, Stages
      <4> QED BY <4>1, <4>2
    <3>6. Asks(p)' => Asks(p)
      BY <3>3, Zenon DEF Asks
    <3>7. \A x \in Side : Kept(x) /\ (Asks(x)' => Asks(x))
      BY <3>3, <3>5, <3>6, PeerFacts DEF p
    <3> QED BY <1>6, <2>4, <3>7
  <2> QED BY <1>8, <2>5, <2>6, <2>7
<1> QED BY <1>3, <1>7, <1>8

\* ProcessBwuPathAvailableEvent runs.
LEMMA PathJobKeeps ==
  ASSUME TypeOK, RequestInv, NEW s \in Side, PathJob(s)
  PROVE  RequestInv'
<1>0. /\ ChannelType /\ WireType /\ JobType /\ EntryType
      /\ Takes(s, "path") /\ jobs' = Rest(s) /\ at[s] = Idle /\ Of(s) \in Mediums
  BY TypeParts, TakesFacts DEF PathJob, Takes
<1> DEFINE p == Peer(s)
           m == Of(s)
<1>p. p \in Side /\ p # s /\ Peer(p) = s
  BY PeerFacts
<1>1. /\ \A x \in Side : \A t : JobsThin(x, t)
      /\ OnlyOne(jobs[s], "path") => ~HasType(jobs'[s], "path")
      /\ HasType(jobs[s], "path")
  BY <1>0, TakenThins
<1>2. /\ UNCHANGED <<channel, in_progress, removal>>
      /\ "timeout" \in faults' <=> "timeout" \in faults
  BY DEF PathJob, workerVars
<1>3. \/ /\ Close(s, (previous[s] \cup {channel[s]}) \ {None})
         /\ previous' = [previous EXCEPT ![s] = {}] /\ UNCHANGED <<at, arriving>>
      \/ /\ s \notin in_progress /\ UNCHANGED <<paused, wire, previous, arriving>>
         /\ Ends(s) \/ Goes(s, "failure", channel[s], m)
      \/ /\ s \notin in_progress /\ UNCHANGED <<paused, wire, previous>>
         /\ arriving' = [arriving EXCEPT ![p] = @ \cup {m}]
         /\ Goes(s, "ack", m, m)
  BY DEF PathJob
<1> HIDE DEF p, m
<1>4. \A x \in Side : \A t : Thins(x, t)
  <2>1. CASE wire' = wire
    BY <2>1, SameWireThins
  <2>2. CASE Close(s, (previous[s] \cup {channel[s]}) \ {None})
    BY <1>0, <2>2, CloseThins
  <2> QED BY <1>3, <2>1, <2>2
<1>5. /\ at[s].step = "idle" /\ at'[s].step \in {"idle", "failure", "ack"}
      /\ s \in in_progress => at'[s] = at[s]
      /\ \A x \in Side : x # s => at'[x] = at[x]
  BY <1>0, <1>3 DEF JobType, Idle, Ends, Goes
<1>6. /\ paused'[s] \subseteq paused[s] /\ (previous'[s] = previous[s] \/ previous'[s] = {})
      /\ \A x \in Side : x # s => paused'[x] = paused[x] /\ previous'[x] = previous[x]
  BY <1>0, <1>3 DEF Close, ChannelType, EntryType
<1>7. /\ arriving'[s] = arriving[s]
      /\ \/ arriving'[p] = arriving[p]
         \/ at'[s].step = "ack" /\ arriving'[p] = arriving[p] \cup {m}
  BY <1>0, <1>p, <1>3 DEF ChannelType, Goes, JobType
<1>8. Kept(s) /\ \A g \in Stages : Request(s, g)' => Request(s, g)
  <2>1. at'[p] = at[p]
    BY <1>p, <1>5
  <2> QED BY <1>p, <1>1, <1>4, <1>7, <2>1, QuietKept DEF p
<1>9. Kept(p)
  <2> SUFFICES ASSUME ~Gone(p), OneStage(p), OneOfEach(p)
               PROVE  OneStage(p)' /\ OneOfEach(p)' /\ (Asks(p)' => Asks(p))
    BY DEF Kept
  <2>1. Request(p, "received")
    BY <1>p, <1>1, RequestStages
  <2>2. \A g \in Stages : Request(p, g) => g = "received"
    BY <2>1 DEF OneStage, Stages
  <2>3. arriving[p] = {}
    BY <2>2, RequestStages DEF Stages
  <2>4. ~HasType(jobs'[s], "path")
    BY <1>p, <1>1 DEF OneOfEach
  <2>5. /\ FrameOn(s, "path")' => FrameOn(s, "path")
        /\ OneFrameOn(s, "path") => OneFrameOn(s, "path")'
        /\ FrameOn(p, "failure")' => FrameOn(p, "failure")
        /\ OneFrameOn(p, "failure") => OneFrameOn(p, "failure")'
    BY <1>p, <1>4, ThinsFrames
  <2>6. /\ ~FrameOn(s, "path") /\ ~FrameOn(p, "failure")
        /\ ~HasType(jobs[p], "failure") /\ ~HasType(jobs[p], "incoming")
    BY <1>p, <2>2, RequestStages DEF Stages
  <2>7. /\ ~HasType(jobs'[p], "failure") /\ ~HasType(jobs'[p], "incoming")
    BY <1>p, <1>1, <2>6 DEF JobsThin
  <2>8. \A g \in Stages : Request(p, g)' =>
          \/ g = "refusing" /\ at'[s].step = "failure"
          \/ g = "arriving" /\ at'[s].step = "ack"
    BY <1>p, <1>7, <2>3, <2>4, <2>5, <2>6, <2>7, RequestStagesNext DEF Stages
  <2>9. OneStage(p)'
    BY <2>8 DEF OneStage
  <2>10. Asks(p)
    BY <2>1 DEF Asks, Stages
  <2>11. OneFrameOn(Peer(p), "path")' /\ OneFrameOn(p, "failure")'
    BY <1>p, <2>5 DEF OneOfEach
  <2>12. /\ OnlyOne(jobs'[Peer(p)], "path") /\ OnlyOne(jobs'[p], "failure")
         /\ OnlyOne(jobs'[p], "incoming")
    BY <1>p, <1>1 DEF OneOfEach, JobsThin
  <2>13. \A c, d \in arriving'[p] : c = d
    BY <1>7, <2>3
  <2>14. OneOfEach(p)'
    BY <2>11, <2>12, <2>13 DEF OneOfEach, OnlyOne
  <2> QED BY <2>9, <2>10, <2>14
<1>10. SameOwn(p)
  BY <1>p, <1>1, <1>2, <1>5, <1>6 DEF SameOwn, JobsThin
<1>11. ThreadInv(s) /\ ("timeout" \notin faults' => OwnInv(s))
  BY <1>2, OwnBefore
<1>12. ThreadInv(s)'
  BY <1>1, <1>2, <1>5, <1>11 DEF ThreadInv, JobsThin, Gone
<1>13. ASSUME "timeout" \notin faults' PROVE OwnInv(s)' /\ AskInv(s)'
  <2>1. Moved(s)' => Moved(s)
    BY <1>5, <1>6 DEF Moved
  <2>2. Asks(s)' => Asks(s)
    BY <1>8, Zenon DEF Asks
  <2>3. s \in in_progress => at'[s].step = "idle"
    BY <1>5
  <2>4. OwnInv(s)'
    BY <1>2, <1>5, <1>6, <1>11, <1>13, <2>1, <2>2, <2>3 DEF OwnInv, Gone, Newest
  <2> QED BY <1>2, <1>8, <1>13, <2>4, ActorAsks
<1> QED BY <1>2, <1>9, <1>10, <1>12, <1>13, SidesKept DEF p

\* RunUpgradeProtocol pauses the new channel, which is registered next, unless there is none to
\* replace.
LEMMA RunUpgradeFacts ==
  ASSUME ChannelType, JobType, NEW s \in Side, NEW m \in Mediums, RunUpgradeProtocol(s, m)
  PROVE  /\ \A x \in Side : x # s => paused'[x] = paused[x] /\ at'[x] = at[x]
         /\ \/ channel[s] = None /\ at'[s] = Idle /\ paused'[s] = paused[s]
            \/ /\ channel[s] # None /\ paused'[s] = paused[s] \cup {m}
               /\ at'[s].step = "replace" /\ at'[s].of = m
<1>1. CASE channel[s] = None
  BY <1>1 DEF RunUpgradeProtocol, Ends, ChannelType, JobType
<1>2. CASE channel[s] # None
  BY <1>2 DEF RunUpgradeProtocol, Goes, ChannelType, JobType
<1> QED BY <1>1, <1>2

\* OnIncomingConnection runs.
LEMMA IncomingJobKeeps ==
  ASSUME TypeOK, RequestInv, NEW s \in Side, IncomingJob(s)
  PROVE  RequestInv'
<1>0. /\ ChannelType /\ WireType /\ JobType /\ EntryType
      /\ Takes(s, "incoming") /\ jobs' = Rest(s) /\ at[s] = Idle /\ Of(s) \in Mediums
  BY TypeParts, TakesFacts DEF IncomingJob, Takes
<1> DEFINE p == Peer(s)
           m == Of(s)
           ack == [type |-> "ack", of |-> None, seq |-> 0]
           acknowledged == [wire EXCEPT ![p][m] = <<ack>>]
<1>p. p \in Side /\ p # s /\ Peer(p) = s
  BY PeerFacts
<1>1. /\ \A x \in Side : \A t : JobsThin(x, t)
      /\ OnlyOne(jobs[s], "incoming") => ~HasType(jobs'[s], "incoming")
      /\ HasType(jobs[s], "incoming")
  BY <1>0, TakenThins
<1>2. UNCHANGED <<channel, arriving, previous, in_progress, faults, removal>>
  BY DEF IncomingJob, entryVars, boundVars, workerVars
<1>3. \/ Close(s, {m}) /\ UNCHANGED at
      \/ wire' \in {wire, acknowledged} /\ UNCHANGED <<paused, at>>
      \/ /\ s \in in_progress /\ wire' \in {wire, acknowledged}
         /\ RunUpgradeProtocol(s, m)
  BY DEF IncomingJob
<1>4. \A t : t # "ack" => ~HasType(<<ack>>, t) /\ OnlyOne(<<ack>>, t)
  <2>1. DOMAIN <<ack>> = {1} /\ <<ack>>[1] = ack /\ ack.type = "ack"
    OBVIOUS
  <2> HIDE DEF ack
  <2> QED BY <2>1 DEF HasType, OnlyOne
<1>5. ASSUME wire' = acknowledged, NEW x \in Side, NEW t, t # "ack" PROVE Thins(x, t)
  <2>1. /\ wire'[p][m] = <<ack>>
        /\ \A y \in Side : \A c \in Mediums : ~(y = p /\ c = m) => wire'[y][c] = wire[y][c]
    BY <1>0, <1>p, <1>5 DEF WireType
  <2> HIDE DEF ack, acknowledged, p, m
  <2> SUFFICES ASSUME NEW c \in Mediums
               PROVE  /\ HasType(wire'[x][c], t) => HasType(wire[x][c], t)
                      /\ OnlyOne(wire[x][c], t) => OnlyOne(wire'[x][c], t)
    BY Zenon DEF Thins
  <2>2. CASE x = p /\ c = m
    BY <1>4, <1>5, <2>1, <2>2, Zenon
  <2>3. CASE ~(x = p /\ c = m)
    BY <2>1, <2>3, Zenon
  <2> QED BY <2>2, <2>3
<1> HIDE DEF p, m, ack, acknowledged
<1>6. \A x \in Side : \A t : t # "ack" => Thins(x, t)
  <2>1. CASE wire' = wire
    BY <2>1, SameWireThins
  <2>2. CASE Close(s, {m})
    BY <1>0, <2>2, CloseThins
  <2>3. CASE wire' = acknowledged
    BY <1>5, <2>3
  <2> QED BY <1>3, <2>1, <2>2, <2>3
<1>7. /\ \A x \in Side : x # s => paused'[x] = paused[x] /\ at'[x] = at[x]
      /\ \/ at'[s] = at[s] /\ paused'[s] \subseteq paused[s]
         \/ channel[s] = None /\ at'[s] = Idle /\ paused'[s] = paused[s]
         \/ /\ s \in in_progress /\ paused'[s] = paused[s] \cup {m}
            /\ at'[s].step = "replace" /\ at'[s].of = m
  <2>1. CASE Close(s, {m}) /\ UNCHANGED at
    BY <1>0, <2>1 DEF Close, ChannelType
  <2>2. CASE UNCHANGED <<paused, at>>
    BY <2>2
  <2>3. CASE s \in in_progress /\ RunUpgradeProtocol(s, m)
    BY <1>0, <2>3, RunUpgradeFacts DEF m
  <2> QED BY <1>3, <2>1, <2>2, <2>3
<1>8. \A x \in Side : at'[x].step = "failure" => at[x].step = "failure"
  BY <1>0, <1>7 DEF Idle
<1>9. \A x \in Side : Kept(x) /\ (Asks(x)' => Asks(x))
  BY <1>1, <1>2, <1>6, <1>8, AllKept
<1>10. SameOwn(Peer(s))
  BY <1>1, <1>2, <1>7, PeerFacts DEF SameOwn, JobsThin
<1>11. ThreadInv(s) /\ ("timeout" \notin faults' => OwnInv(s) /\ AskInv(s))
  BY <1>2, OwnBefore
<1>12. ThreadInv(s)'
  BY <1>0, <1>1, <1>2, <1>7, <1>11 DEF ThreadInv, JobsThin, Idle, Gone
<1>13. ASSUME "timeout" \notin faults' PROVE OwnInv(s)'
  <2>0. at[s].step = "idle"
    BY <1>0 DEF Idle
  <2>1. CASE Gone(s)
    <3>1. at'[s].step \notin {"ack", "failure"}
      BY <1>7, <2>0 DEF Idle
    <3> QED BY <1>2, <2>1, <3>1 DEF OwnInv, Gone
  <2>2. CASE ~Gone(s)
    <3>1. OneStage(s) /\ OneOfEach(s) /\ Request(s, "arrived")
      BY <1>1, <1>11, <1>13, <2>2, RequestStages DEF AskInv, Gone
    <3>2. Asks(s) /\ "arrived" \in Stages
      BY <3>1 DEF Asks, Stages
    <3>3. paused[s] = {} /\ previous[s] \subseteq {None} /\ s \in in_progress
      BY <1>11, <1>13, <2>2, <3>2 DEF OwnInv, Gone, Newest
    <3>4. ~Request(s, "arrived")'
      BY <1>1, <3>1, RequestStagesNext DEF OneOfEach
    <3>5. \A g \in Stages : Request(s, g)' => Request(s, g)
      <4>1. Peer(s) \in Side
        BY PeerFacts
      <4> QED BY <1>1, <1>2, <1>6, <1>8, <4>1, QuietKept
    <3>6. ~Asks(s)'
      BY <3>1, <3>2, <3>4, <3>5, Zenon DEF Asks, OneStage
    <3>7. at'[s].step \in {"idle", "replace"}
      BY <1>7, <2>0 DEF Idle
    <3>8. paused'[s] \subseteq {Newest(s)'}
      BY <1>7, <2>0, <3>3 DEF Newest, Idle
    <3> QED BY <1>2, <3>3, <3>6, <3>7, <3>8 DEF OwnInv, Gone, Newest
  <2> QED BY <2>1, <2>2
<1> QED BY <1>2, <1>7, <1>9, <1>10, <1>12, <1>13, ActorQuiet

\* The acknowledgement of the introduction is read.
LEMMA ReadAckKeeps ==
  ASSUME TypeOK, RequestInv, NEW s \in Side, ReadAck(s)
  PROVE  RequestInv'
<1>0. /\ ChannelType /\ WireType /\ JobType /\ EntryType
      /\ at[s].step = "ack" /\ at[s].on \in Mediums
  BY TypeParts, StepFacts DEF ReadAck
<1> DEFINE m == at[s].on
<1>1. \A x \in Side : \A t : JobsThin(x, t)
  BY SameJobsThin DEF ReadAck
<1>2. UNCHANGED <<channel, arriving, previous, jobs, removal>>
  BY DEF ReadAck, workerVars
<1>3. \/ /\ wire[s][m] # <<>> /\ Took(s, m) /\ RunUpgradeProtocol(s, m)
         /\ in_progress' = in_progress \cup {s} /\ UNCHANGED faults
      \/ /\ Close(s, {m}) /\ faults' = faults \cup {"timeout"}
         /\ Ends(s) \/ Goes(s, "failure", channel[s], m)
         /\ UNCHANGED in_progress
  BY DEF ReadAck
<1>m. m \in Mediums
  BY <1>0
<1> HIDE DEF m
<1>4. ThreadInv(s)
  BY DEF RequestInv
<1>5. CASE /\ Close(s, {m}) /\ faults' = faults \cup {"timeout"}
           /\ Ends(s) \/ Goes(s, "failure", channel[s], m)
           /\ UNCHANGED in_progress
  <2>1. /\ at'[s].step \in {"idle", "failure"}
        /\ \A x \in Side : x # s => at'[x] = at[x] /\ paused'[x] = paused[x]
    BY <1>0, <1>5 DEF Ends, Goes, Close, JobType, ChannelType, Idle
  <2>2. ThreadInv(s)'
    BY <1>2, <1>4, <1>5, <2>1 DEF ThreadInv, Gone
  <2>3. SameOwn(Peer(s))
    BY <1>1, <1>2, <1>5, <2>1, PeerFacts DEF SameOwn, JobsThin
  <2> QED BY <1>5, <2>2, <2>3, SidesKept
<1>6. CASE /\ wire[s][m] # <<>> /\ Took(s, m) /\ RunUpgradeProtocol(s, m)
           /\ in_progress' = in_progress \cup {s} /\ UNCHANGED faults
  <2>1. \A x \in Side : \A t : Thins(x, t)
    BY <1>0, <1>m, <1>6, TookThins
  <2>2. /\ \A x \in Side : x # s => paused'[x] = paused[x] /\ at'[x] = at[x]
        /\ \/ channel[s] = None /\ at'[s] = Idle /\ paused'[s] = paused[s]
           \/ /\ channel[s] # None /\ paused'[s] = paused[s] \cup {m}
              /\ at'[s].step = "replace" /\ at'[s].of = m
    BY <1>0, <1>m, <1>6, RunUpgradeFacts
  <2>3. \A x \in Side : at'[x].step = "failure" => at[x].step = "failure"
    BY <2>2 DEF Idle
  <2>4. \A x \in Side : Kept(x) /\ (Asks(x)' => Asks(x))
    BY <1>1, <1>2, <2>1, <2>3, AllKept
  <2>5. SameOwn(Peer(s))
    BY <1>1, <1>2, <1>6, <2>2, PeerFacts DEF SameOwn, JobsThin
  <2>6. "timeout" \notin faults' => OwnInv(s)
    BY <1>6, OwnBefore
  <2>7. ThreadInv(s)'
    BY <1>2, <1>4, <2>2 DEF ThreadInv, Gone, Idle
  <2>8. ASSUME "timeout" \notin faults' PROVE OwnInv(s)'
    <3>1. s \notin in_progress
      BY <1>0, <2>6, <2>8 DEF OwnInv
    <3>2. ~Gone(s) => paused[s] = {} /\ ~Asks(s)'
      BY <2>4, <2>6, <2>8, <3>1 DEF OwnInv
    <3>3. s \in in_progress'
      BY <1>6
    <3>4. Gone(s)' <=> Gone(s)
      BY <1>2 DEF Gone
    <3>5. at'[s].step \in {"idle", "replace"}
      BY <2>2 DEF Idle
    <3>6. ~Gone(s) => paused'[s] \subseteq {Newest(s)'}
      BY <2>2, <3>2 DEF Newest, Idle
    <3> QED BY <3>2, <3>3, <3>4, <3>5, <3>6 DEF OwnInv
  <2> QED BY <1>2, <1>6, <2>2, <2>4, <2>5, <2>7, <2>8, ActorQuiet
<1> QED BY <1>3, <1>5, <1>6

\* The new channel is registered.
LEMMA ReplaceKeeps ==
  ASSUME TypeOK, RequestInv, NEW s \in Side, Replace(s)
  PROVE  RequestInv'
<1>0. /\ ChannelType /\ JobType /\ at[s].step = "replace" /\ at[s].of \in Mediums
      /\ at[s].of # None
  BY TypeParts, StepFacts, MediumsNat DEF Replace, None
<1>1. \A x \in Side : \A t : JobsThin(x, t)
  BY SameJobsThin DEF Replace
<1>2. \A x \in Side : \A t : Thins(x, t)
  BY SameWireThins DEF Replace
<1>3. UNCHANGED <<arriving, paused, previous, in_progress, faults, jobs, removal>>
  BY DEF Replace, entryVars, boundVars, workerVars
<1>4. /\ channel'[s] = at[s].of /\ at'[s].step = "last"
      /\ \A x \in Side : x # s => channel'[x] = channel[x] /\ at'[x] = at[x]
  BY <1>0 DEF Replace, Goes, ChannelType, JobType
<1>6. \A x \in Side : at'[x].step = "failure" => at[x].step = "failure"
  BY <1>4
<1>7. \A x \in Side : Kept(x) /\ (Asks(x)' => Asks(x))
  BY <1>1, <1>2, <1>3, <1>6, AllKept
<1>8. SameOwn(Peer(s))
  BY <1>1, <1>3, <1>4, PeerFacts DEF SameOwn, JobsThin
<1>9. ThreadInv(s) /\ ("timeout" \notin faults' => OwnInv(s))
  BY <1>3, OwnBefore
<1>10. ThreadInv(s)'
  BY <1>0, <1>3, <1>4, <1>9 DEF ThreadInv, Gone
<1>11. ASSUME "timeout" \notin faults' PROVE OwnInv(s)'
  <2>1. at[s] # Idle /\ (Gone(s)' <=> Gone(s))
    BY <1>0, <1>3 DEF Idle, Gone
  <2>2. Newest(s)' = Newest(s)
    BY <1>0, <1>4 DEF Newest
  <2>3. ~Gone(s) => ~Asks(s)' /\ s \in in_progress
    BY <1>0, <1>7, <1>9, <1>11, <2>1 DEF OwnInv
  <2> QED BY <1>3, <1>4, <1>9, <1>11, <2>1, <2>2, <2>3 DEF OwnInv
<1> QED BY <1>3, <1>7, <1>8, <1>10, <1>11, ActorQuiet

\* Every step keeps the invariant.
LEMMA NextRequest == TypeOK /\ RequestInv /\ [Next]_vars => RequestInv'
<1> SUFFICES ASSUME TypeOK, RequestInv, [Next]_vars PROVE RequestInv'
  OBVIOUS
<1>1. CASE UNCHANGED vars
  <2>1. \A x \in Side : \A t : Thins(x, t)
    BY <1>1, SameWireThins DEF vars, channelVars
  <2> QED BY <1>1, <2>1, IdleStepKeeps DEF vars, channelVars, bwuVars, entryVars, workerVars, boundVars
<1>2. ASSUME NEW s \in Side, InitiateBwuForEndpoint(s) \/ AlarmFires(s) \/ BwuThread(s)
      PROVE  RequestInv'
  BY <1>2, InitiateBwuForEndpointKeeps, AlarmFiresKeeps, InitJobKeeps, RetryJobKeeps,
     PathJobKeeps, FailureJobKeeps, IncomingJobKeeps, LastJobKeeps, SafeJobKeeps,
     DisconnectJobKeeps, WritePathKeeps, WriteFailureKeeps, ReadAckKeeps, ReplaceKeeps, WriteLastKeeps,
     WriteSafeKeeps, WriteByeKeeps, DrainKeeps DEF BwuThread
<1>3. ASSUME NEW s \in Side, Reader(s) \/ KeepAlive(s) \/ Manager(s)
      PROVE  RequestInv'
  BY <1>3, ReaderFetchesKeeps, ReadsKeeps, WriterFetchesKeeps, WritesKeeps,
     KeepAliveTimesOutKeeps, LeavingKeeps DEF Reader, KeepAlive
<1>4. ASSUME NEW s \in Side, NEW m \in Mediums, Accept(s, m) PROVE RequestInv'
  BY <1>4, AcceptKeeps
<1>5. ASSUME NEW c \in Mediums, Break(c) PROVE RequestInv'
  BY <1>5, BreakKeeps
<1> QED BY <1>1, <1>2, <1>3, <1>4, <1>5 DEF Next

\* A channel is paused only while in_progress_upgrades_ has the endpoint, so that the end of the
\* upgrade, which resumes it, is still to come: no refusal, no second channel, no retry and no
\* broken connection takes the endpoint out of the set, or registers another channel, in between;
\* nor is it out of the set between the moment the new channel is paused and that at which it is
\* registered.  Excluded are the acknowledgement of the introduction that is not read in time,
\* after which the thread goes on although the other side may have changed over, and an endpoint
\* that is being removed, for which OnEndpointDisconnect and the registration of the new channel
\* race.
THEOREM PausedOnlyInProgress == Spec => []PausedInProgress
<1>1. Init => TypeOK /\ RequestInv
  BY InitType, InitRequest
<1>2. TypeOK /\ RequestInv /\ [Next]_vars => (TypeOK /\ RequestInv)'
  BY NextType, NextRequest
<1>3. RequestInv => PausedInProgress
  BY DEF RequestInv, OwnInv, PausedInProgress
<1> QED BY <1>1, <1>2, <1>3, PTL DEF Spec
----------------------------------------------------------------------------
(* The mediums of frames and jobs *)

\* The entries of a type in a queue are about mediums of a set,
About(q, t, A) == \A i \in DOMAIN q : q[i].type = t => q[i].of \in A
\* the frames on their way to a side are,
WireAbout(s, t, A) == \A c \in Mediums : About(wire[s][c], t, A)
\* and an init job that waits behind a path job is about medium m, or about none.
Ordered(q, m) ==
  \A i, j \in DOMAIN q :
    i < j /\ q[i].type = "path" /\ q[j].type = "init" => q[j].of \in {None, m}

\* What is appended is about one of them,
LEMMA AboutAppend ==
  ASSUME NEW S, NEW q \in Seq(S), NEW e \in S, NEW t, NEW A, About(q, t, A),
         e.type # t \/ e.of \in A
  PROVE  About(Append(q, e), t, A)
<1> DEFINE r == Append(q, e)
<1>1. /\ Len(q) \in Nat /\ DOMAIN q = 1 .. Len(q) /\ DOMAIN r = 1 .. Len(q) + 1
      /\ r[Len(q) + 1] = e /\ \A i \in 1 .. Len(q) : r[i] = q[i]
  OBVIOUS
<1> HIDE DEF r
<1>2. \A k \in DOMAIN r : (k \in DOMAIN q /\ r[k] = q[k]) \/ r[k] = e
  BY <1>1
<1>3. About(r, t, A)
  BY <1>2 DEF About
<1> QED BY <1>3 DEF r

\* and what is taken was.
LEMMA AboutTail ==
  ASSUME NEW S, NEW q \in Seq(S), q # <<>>, NEW t, NEW A, About(q, t, A)
  PROVE  About(Tail(q), t, A) /\ (Head(q).type = t => Head(q).of \in A)
<1> DEFINE r == Tail(q)
<1>1. /\ Len(q) \in Nat \ {0} /\ DOMAIN q = 1 .. Len(q) /\ DOMAIN r = 1 .. Len(q) - 1
      /\ Head(q) = q[1] /\ \A i \in 1 .. Len(q) - 1 : r[i] = q[i + 1]
  OBVIOUS
<1> HIDE DEF r
<1>2. \A i \in DOMAIN r : i + 1 \in DOMAIN q /\ r[i] = q[i + 1]
  BY <1>1
<1>3. 1 \in DOMAIN q
  BY <1>1
<1>4. About(r, t, A)
  BY <1>2 DEF About
<1>5. Head(q).type = t => Head(q).of \in A
  BY <1>1, <1>3 DEF About
<1> QED BY <1>4, <1>5 DEF r

\* Nothing in an empty queue is about another.
LEMMA AboutEmpty == ASSUME NEW t, NEW A PROVE About(<<>>, t, A)
<1>1. DOMAIN << >> = {}
  OBVIOUS
<1> QED BY <1>1 DEF About

\* A set may be replaced by a larger one, if there is an entry at all.
LEMMA AboutMore ==
  ASSUME NEW q, NEW t, NEW A, NEW B, About(q, t, A) \/ ~HasType(q, t), A \subseteq B
  PROVE  About(q, t, B)
  BY DEF About, HasType

\* The order is kept by what is appended
LEMMA OrderedAppend ==
  ASSUME NEW S, NEW q \in Seq(S), NEW e \in S, NEW m, Ordered(q, m),
         e.type # "init" \/ e.of \in {None, m}
  PROVE  Ordered(Append(q, e), m)
<1> DEFINE r == Append(q, e)
<1>1. /\ Len(q) \in Nat /\ DOMAIN q = 1 .. Len(q) /\ DOMAIN r = 1 .. Len(q) + 1
      /\ r[Len(q) + 1] = e /\ \A i \in 1 .. Len(q) : r[i] = q[i]
  OBVIOUS
<1> HIDE DEF r
<1>2. SUFFICES ASSUME NEW i \in DOMAIN r, NEW j \in DOMAIN r, i < j, r[i].type = "path",
                      r[j].type = "init"
               PROVE  r[j].of \in {None, m}
  BY DEF Ordered, r
<1>3. CASE j = Len(q) + 1
  BY <1>1, <1>2, <1>3
<1>4. CASE j # Len(q) + 1
  <2>1. i \in DOMAIN q /\ j \in DOMAIN q /\ r[i] = q[i] /\ r[j] = q[j]
    BY <1>1, <1>2, <1>4
  <2> QED BY <1>2, <2>1 DEF Ordered
<1> QED BY <1>3, <1>4

\* and when the head is taken; behind a path job at the head all are in order.
LEMMA OrderedTail ==
  ASSUME NEW S, NEW q \in Seq(S), q # <<>>, NEW m, Ordered(q, m)
  PROVE  /\ Ordered(Tail(q), m)
         /\ Head(q).type = "path" => About(q, "init", {None, m})
<1> DEFINE r == Tail(q)
<1>1. /\ Len(q) \in Nat \ {0} /\ DOMAIN q = 1 .. Len(q) /\ DOMAIN r = 1 .. Len(q) - 1
      /\ Head(q) = q[1] /\ \A i \in 1 .. Len(q) - 1 : r[i] = q[i + 1]
  OBVIOUS
<1> HIDE DEF r
<1>2. Ordered(r, m)
  <2> SUFFICES ASSUME NEW i \in DOMAIN r, NEW j \in DOMAIN r, i < j, r[i].type = "path",
                      r[j].type = "init"
               PROVE  r[j].of \in {None, m}
    BY DEF Ordered
  <2>1. /\ i + 1 \in DOMAIN q /\ j + 1 \in DOMAIN q /\ i + 1 < j + 1
        /\ r[i] = q[i + 1] /\ r[j] = q[j + 1]
    BY <1>1
  <2> QED BY <2>1 DEF Ordered
<1>3. ASSUME Head(q).type = "path" PROVE About(q, "init", {None, m})
  <2> SUFFICES ASSUME NEW j \in DOMAIN q, q[j].type = "init" PROVE q[j].of \in {None, m}
    BY DEF About
  <2>1. j # 1
    BY <1>1, <1>3
  <2>2. 1 \in DOMAIN q /\ 1 < j /\ q[1].type = "path"
    BY <1>1, <1>3, <2>1
  <2> QED BY <2>2 DEF Ordered
<1> QED BY <1>2, <1>3 DEF r

\* Without path jobs there is no order to keep, nor without init jobs.
LEMMA OrderedNone ==
  ASSUME NEW q, NEW m, ~HasType(q, "path") \/ ~HasType(q, "init")
  PROVE  Ordered(q, m)
  BY DEF Ordered, HasType

\* A step leaves the order and the mediums of the jobs of side x, but for those of type t.
JobsSame(x, t) ==
  /\ \A u : \A A : u # t /\ About(jobs[x], u, A) => About(jobs'[x], u, A)
  /\ t # "init" => \A m : Ordered(jobs[x], m) => Ordered(jobs'[x], m)

\* Taking a job leaves them,
LEMMA RestAbout ==
  ASSUME JobType, NEW s \in Side, NEW u, Takes(s, u), jobs' = Rest(s)
  PROVE  \A x \in Side : \A t : JobsSame(x, t)
<1>1. jobs[s] \in Seq(Job) /\ jobs[s] # <<>>
  BY DEF Takes, JobType
<1>2. /\ \A x \in Side : x # s => jobs'[x] = jobs[x]
      /\ jobs'[s] = Tail(jobs[s])
  BY DEF Rest, JobType
<1> SUFFICES ASSUME NEW x \in Side, NEW t PROVE JobsSame(x, t)
  OBVIOUS
<1>3. CASE x # s
  BY <1>2, <1>3, Zenon DEF JobsSame
<1>4. CASE x = s
  BY <1>1, <1>2, <1>4, AboutTail, OrderedTail, Zenon DEF JobsSame
<1> QED BY <1>3, <1>4

\* and so does posting one, of another type,
LEMMA PostAbout ==
  ASSUME JobType, NEW s \in Side, NEW u, NEW of, [type |-> u, of |-> of] \in Job,
         jobs' = [jobs EXCEPT ![s] = Post(s, u, of)]
  PROVE  /\ \A x \in Side : JobsSame(x, u) /\ (x # s => jobs'[x] = jobs[x])
         /\ \A A : About(jobs[s], u, A) /\ of \in A => About(jobs'[s], u, A)
         /\ \A m : Ordered(jobs[s], m) /\ of \in {None, m} => Ordered(jobs'[s], m)
<1> DEFINE e == [type |-> u, of |-> of]
<1>0. e \in Job /\ e.type = u /\ e.of = of
  OBVIOUS
<1>1. jobs[s] \in Seq(Job)
  BY DEF JobType
<1>2. /\ \A x \in Side : x # s => jobs'[x] = jobs[x]
      /\ jobs'[s] = Append(jobs[s], e)
  BY DEF Post, JobType
<1> HIDE DEF e
<1>3. ASSUME NEW v, NEW A, v # u, About(jobs[s], v, A) PROVE About(jobs'[s], v, A)
  BY <1>0, <1>1, <1>2, <1>3, AboutAppend
<1>4. ASSUME NEW m, u # "init", Ordered(jobs[s], m) PROVE Ordered(jobs'[s], m)
  BY <1>0, <1>1, <1>2, <1>4, OrderedAppend
<1>5. JobsSame(s, u)
  BY <1>3, <1>4, Zenon DEF JobsSame
<1>6. \A x \in Side : x # s => JobsSame(x, u)
  BY <1>2, Zenon DEF JobsSame
<1>7. ASSUME NEW A, About(jobs[s], u, A), of \in A PROVE About(jobs'[s], u, A)
  BY <1>0, <1>1, <1>2, <1>7, AboutAppend
<1>8. ASSUME NEW m, Ordered(jobs[s], m), of \in {None, m} PROVE Ordered(jobs'[s], m)
  <2>1. e.of \in {None, m}
    BY <1>0, <1>8, Zenon
  <2>2. Ordered(Append(jobs[s], e), m)
    BY <1>0, <1>1, <1>8, <2>1, OrderedAppend, Zenon
  <2> QED BY <1>2, <2>2, Zenon
<1> QED BY <1>2, <1>5, <1>6, <1>7, <1>8, Zenon

\* a job and then an init job.
LEMMA RestPostAbout ==
  ASSUME JobType, NEW s \in Side, NEW u, Takes(s, u), NEW next, next \in 0 .. LastMedium,
         jobs' = [Rest(s) EXCEPT ![s] = Append(@, [type |-> "init", of |-> next])]
  PROVE  /\ \A x \in Side : JobsSame(x, "init") /\ (x # s => jobs'[x] = jobs[x])
         /\ \A A : About(jobs[s], "init", A) /\ next \in A => About(jobs'[s], "init", A)
         /\ \A m : Ordered(jobs[s], m) /\ next \in {None, m} => Ordered(jobs'[s], m)
         /\ \A m : next = m /\ OnlyOne(jobs[s], "init") /\ (u = "init" \/ ~HasType(jobs[s], "init")) =>
              OnlyOne(jobs'[s], "init") /\ Ordered(jobs'[s], m)
<1> DEFINE e == [type |-> "init", of |-> next]
           q == Tail(jobs[s])
<1>0. e \in Job /\ e.type = "init" /\ e.of = next
  BY DEF Job
<1>1. jobs[s] \in Seq(Job) /\ jobs[s] # <<>> /\ Head(jobs[s]).type = u
  BY DEF Takes, JobType
<1>2. /\ \A x \in Side : x # s => jobs'[x] = jobs[x]
      /\ jobs'[s] = Append(q, e)
  BY DEF Rest, JobType
<1>3. q \in Seq(Job)
  BY <1>1
<1>4. /\ \A v : \A A : About(jobs[s], v, A) => About(q, v, A)
      /\ \A m : Ordered(jobs[s], m) => Ordered(q, m)
      /\ OnlyOne(jobs[s], "init") => OnlyOne(q, "init")
      /\ OnlyOne(jobs[s], "init") /\ u = "init" => ~HasType(q, "init")
      /\ HasType(q, "init") => HasType(jobs[s], "init")
  BY <1>1, AboutTail, OrderedTail, TailFacts, Zenon
<1> HIDE DEF e, q
<1>5. ASSUME NEW v, NEW A, v # "init", About(q, v, A) PROVE About(jobs'[s], v, A)
  <2>1. About(Append(q, e), v, A)
    BY <1>0, <1>3, <1>5, AboutAppend, Zenon
  <2> QED BY <1>2, <2>1, Zenon
<1>6. JobsSame(s, "init")
  BY <1>4, <1>5, Zenon DEF JobsSame
<1>7. \A x \in Side : x # s => JobsSame(x, "init")
  BY <1>2, Zenon DEF JobsSame
<1>8. ASSUME NEW A, About(q, "init", A), next \in A PROVE About(jobs'[s], "init", A)
  <2>1. About(Append(q, e), "init", A)
    BY <1>0, <1>3, <1>8, AboutAppend, Zenon
  <2> QED BY <1>2, <2>1, Zenon
<1>9. ASSUME NEW m, Ordered(q, m), next \in {None, m} PROVE Ordered(jobs'[s], m)
  <2>1. e.of \in {None, m}
    BY <1>0, <1>9, Zenon
  <2>2. Ordered(Append(q, e), m)
    BY <1>0, <1>3, <1>9, <2>1, OrderedAppend, Zenon
  <2> QED BY <1>2, <2>2, Zenon
<1>10. ASSUME NEW m, next = m, OnlyOne(q, "init"), ~HasType(q, "init")
       PROVE  OnlyOne(jobs'[s], "init") /\ Ordered(jobs'[s], m)
  <2>1. OnlyOne(jobs'[s], "init")
    BY <1>0, <1>2, <1>3, <1>10, OneAppend
  <2>2. Ordered(q, m) /\ next \in {None, m}
    BY <1>10, OrderedNone
  <2> QED BY <1>9, <2>1, <2>2
<1> QED BY <1>2, <1>4, <1>6, <1>7, <1>8, <1>9, <1>10, Zenon

\* A step brings no frame of type t to side x that is not about the mediums of a set A that the
\* others are about.
WireSame(x, t) == \A A : WireAbout(x, t, A) => WireAbout(x, t, A)'

\* Nothing is brought if the wire stays,
LEMMA SameWireAbout ==
  ASSUME NEW x, wire'[x] = wire[x]
  PROVE  \A t : WireSame(x, t)
  BY Zenon DEF WireSame, WireAbout

\* if channels are emptied,
LEMMA EmptiedAbout ==
  ASSUME NEW x, \A c \in Mediums : wire'[x][c] = wire[x][c] \/ wire'[x][c] = <<>>
  PROVE  \A t : WireSame(x, t)
<1> SUFFICES ASSUME NEW t, NEW A, WireAbout(x, t, A), NEW c \in Mediums
             PROVE  About(wire'[x][c], t, A)
  BY Zenon DEF WireSame, WireAbout
<1>1. About(wire[x][c], t, A)
  BY Zenon DEF WireAbout
<1>2. CASE wire'[x][c] = wire[x][c]
  BY <1>1, <1>2, Zenon
<1>3. CASE wire'[x][c] = <<>>
  BY <1>3, AboutEmpty, Zenon
<1> QED BY <1>2, <1>3

\* or if a frame is read,
LEMMA TookAbout ==
  ASSUME WireType, NEW s \in Side, NEW b \in Mediums, wire[s][b] # <<>>, Took(s, b)
  PROVE  /\ \A x \in Side : \A t : WireSame(x, t)
         /\ \A t : \A A : WireAbout(s, t, A) /\ Head(wire[s][b]).type = t =>
                            Head(wire[s][b]).of \in A
<1>0. wire[s][b] \in Seq(Frame)
  BY DEF WireType
<1>1. /\ wire'[s][b] = Tail(wire[s][b])
      /\ \A c \in Mediums : c # b => wire'[s][c] = wire[s][c]
      /\ \A x \in Side : x # s => wire'[x] = wire[x]
  BY DEF Took, WireType
<1>2. ASSUME NEW t, NEW A, WireAbout(s, t, A)
      PROVE  WireAbout(s, t, A)' /\ (Head(wire[s][b]).type = t => Head(wire[s][b]).of \in A)
  <2>1. About(wire[s][b], t, A)
    BY <1>2, Zenon DEF WireAbout
  <2>2. About(Tail(wire[s][b]), t, A) /\ (Head(wire[s][b]).type = t => Head(wire[s][b]).of \in A)
    BY <1>0, <2>1, AboutTail, Zenon
  <2>3. ASSUME NEW c \in Mediums PROVE About(wire'[s][c], t, A)
    <3>1. CASE c = b
      BY <1>1, <2>2, <3>1, Zenon
    <3>2. CASE c # b
      BY <1>1, <1>2, <3>2, Zenon DEF WireAbout
    <3> QED BY <3>1, <3>2
  <2> QED BY <2>2, <2>3, Zenon DEF WireAbout
<1>3. \A t : WireSame(s, t)
  BY <1>2, Zenon DEF WireSame
<1>4. \A x \in Side : x # s => \A t : WireSame(x, t)
  BY <1>1, SameWireAbout, Zenon
<1> QED BY <1>2, <1>3, <1>4, Zenon

\* and a frame that is sent is about its own.
LEMMA SendAbout ==
  ASSUME WireType, NEW p \in Side, NEW b \in Mediums, NEW f \in Frame,
         wire' = [wire EXCEPT ![p][b] = Append(@, f)]
  PROVE  /\ \A x \in Side : \A t : x # p \/ f.type # t => WireSame(x, t)
         /\ \A t : \A A : WireAbout(p, t, A) /\ f.of \in A => WireAbout(p, t, A)'
<1>0. wire[p][b] \in Seq(Frame)
  BY DEF WireType
<1>1. /\ wire'[p][b] = Append(wire[p][b], f)
      /\ \A c \in Mediums : c # b => wire'[p][c] = wire[p][c]
      /\ \A x \in Side : x # p => wire'[x] = wire[x]
  BY DEF WireType
<1>2. ASSUME NEW t, NEW A, WireAbout(p, t, A), f.type # t \/ f.of \in A
      PROVE  WireAbout(p, t, A)'
  <2>1. About(wire[p][b], t, A)
    BY <1>2, Zenon DEF WireAbout
  <2>2. About(Append(wire[p][b], f), t, A)
    BY <1>0, <1>2, <2>1, AboutAppend
  <2>3. ASSUME NEW c \in Mediums PROVE About(wire'[p][c], t, A)
    <3>1. CASE c = b
      BY <1>1, <2>2, <3>1, Zenon
    <3>2. CASE c # b
      BY <1>1, <1>2, <3>2, Zenon DEF WireAbout
    <3> QED BY <3>1, <3>2
  <2> QED BY <2>3, Zenon DEF WireAbout
<1>3. \A t : f.type # t => WireSame(p, t)
  BY <1>2, Zenon DEF WireSame
<1>4. \A x \in Side : x # p => \A t : WireSame(x, t)
  BY <1>1, SameWireAbout, Zenon
<1> QED BY <1>2, <1>3, <1>4, Zenon

----------------------------------------------------------------------------
(* What a step does to the wire and to the queues *)

\* A step brings no frame,
NoFrame == \A x \in Side : \A t : Thins(x, t) /\ WireSame(x, t)
\* or one of type u about "of", to side p,
FrameTo(p, u, of) ==
  /\ \A x \in Side : \A t : x # p \/ t # u => Thins(x, t) /\ WireSame(x, t)
  /\ \A A : WireAbout(p, u, A) /\ of \in A => WireAbout(p, u, A)'
\* It brings no job,
NoJob == \A x \in Side : \A t : JobsThin(x, t) /\ JobsSame(x, t)
\* or one of type u about "of", to side s.
JobTo(s, u, of) ==
  /\ \A x \in Side : \A t : x # s \/ t # u => JobsThin(x, t)
  /\ \A x \in Side : JobsSame(x, u) /\ (x # s => jobs'[x] = jobs[x])
  /\ \A A : About(jobs[s], u, A) /\ of \in A => About(jobs'[s], u, A)
  /\ \A m : Ordered(jobs[s], m) /\ of \in {None, m} => Ordered(jobs'[s], m)

\* No frame is brought if the wire stays,
LEMMA SameNoFrame == ASSUME wire' = wire PROVE NoFrame
  BY SameWireThins, SameWireAbout, Zenon DEF NoFrame

\* by Close,
LEMMA CloseNoFrame == ASSUME WireType, NEW s \in Side, NEW cs, Close(s, cs) PROVE NoFrame
<1>1. PICK lost \in BOOLEAN :
        wire' = [t \in Side |-> [c \in Mediums |->
                  IF c \in cs /\ (t = s \/ lost) THEN <<>> ELSE wire[t][c]]]
  BY DEF Close
<1>2. \A x \in Side : \A c \in Mediums : wire'[x][c] = wire[x][c] \/ wire'[x][c] = <<>>
  BY <1>1
<1> QED BY <1>2, EmptiedThins, EmptiedAbout, Zenon DEF NoFrame

\* by the last read of an upgrade,
LEMMA DrainNoFrame == ASSUME WireType, NEW s \in Side, Drain(s) PROVE NoFrame
<1>1. PICK lost \in BOOLEAN :
        wire' = [t \in Side |-> [wire[t] EXCEPT ![at[s].on] = IF t = s \/ lost THEN <<>> ELSE @]]
  BY DEF Drain
<1>2. \A x \in Side : \A c \in Mediums : wire'[x][c] = wire[x][c] \/ wire'[x][c] = <<>>
  BY <1>1 DEF WireType
<1> QED BY <1>2, EmptiedThins, EmptiedAbout, Zenon DEF NoFrame

\* when a connection breaks,
LEMMA BreakNoFrame == ASSUME WireType, NEW b \in Mediums, Break(b) PROVE NoFrame
<1>1. wire' = [s \in Side |-> [wire[s] EXCEPT ![b] = <<>>]]
  BY DEF Break
<1>2. \A x \in Side : \A c \in Mediums : wire'[x][c] = wire[x][c] \/ wire'[x][c] = <<>>
  BY <1>1 DEF WireType
<1> QED BY <1>2, EmptiedThins, EmptiedAbout, Zenon DEF NoFrame

\* or when a frame is read.
LEMMA TookNoFrame ==
  ASSUME WireType, NEW s \in Side, NEW b \in Mediums, wire[s][b] # <<>>, Took(s, b)
  PROVE  NoFrame
  BY TookThins, TookAbout, Zenon DEF NoFrame

\* Write brings one, if any.
LEMMA WriteFrame ==
  ASSUME WireType, NEW s \in Side, NEW c \in Mediums, NEW type, NEW of, NEW ok,
         \A n \in Nat : [type |-> type, of |-> of, seq |-> n] \in Frame,
         Write(s, c, type, of, ok)
  PROVE  FrameTo(Peer(s), type, of)
<1>1. CASE wire' = wire
  <2>1. \A x \in Side : \A t : Thins(x, t) /\ WireSame(x, t)
    BY <1>1, SameNoFrame, Zenon DEF NoFrame
  <2>2. Peer(s) \in Side
    BY PeerSide
  <2> QED BY <2>1, <2>2, Zenon DEF FrameTo, WireSame
<1>2. CASE wire' # wire
  <2> DEFINE n == IF c \in crypto[s] THEN encoded'[s] ELSE 0
             f == [type |-> type, of |-> of, seq |-> n]
  <2>1. n \in Nat
    BY DEF Write, Encodes, WireType
  <2>2. f \in Frame /\ f.type = type /\ f.of = of
    BY <2>1
  <2>3. wire' = [wire EXCEPT ![Peer(s)][c] = Append(@, f)]
    BY <1>2 DEF Write
  <2>4. Peer(s) \in Side
    BY PeerSide
  <2> HIDE DEF f
  <2>5. /\ \A x \in Side : \A t : x # Peer(s) \/ f.type # t => Thins(x, t)
        /\ \A x \in Side : \A t : x # Peer(s) \/ f.type # t => WireSame(x, t)
        /\ \A t : \A A : WireAbout(Peer(s), t, A) /\ f.of \in A => WireAbout(Peer(s), t, A)'
    BY <2>2, <2>3, <2>4, SendThins, SendAbout
  <2> QED BY <2>2, <2>5, Zenon DEF FrameTo
<1> QED BY <1>1, <1>2

\* No job is brought if the jobs stay.
LEMMA SameNoJob == ASSUME jobs' = jobs PROVE NoJob
<1>1. \A x \in Side : \A t : JobsThin(x, t)
  BY SameJobsThin
<1>2. \A x \in Side : \A t : JobsSame(x, t)
  BY Zenon DEF JobsSame
<1> QED BY <1>1, <1>2, Zenon DEF NoJob

\* The same if a job is taken.
LEMMA RestNoJob ==
  ASSUME JobType, NEW s \in Side, NEW u, Takes(s, u), jobs' = Rest(s)
  PROVE  NoJob
  BY TakenThins, RestAbout, Zenon DEF NoJob

\* One is brought if it is posted,
LEMMA PostJob ==
  ASSUME JobType, NEW s \in Side, NEW u, NEW of, [type |-> u, of |-> of] \in Job,
         jobs' = [jobs EXCEPT ![s] = Post(s, u, of)]
  PROVE  JobTo(s, u, of)
<1>1. \A x \in Side : \A t : x # s \/ t # u => JobsThin(x, t)
  BY PostThins
<1>2. /\ \A x \in Side : JobsSame(x, u) /\ (x # s => jobs'[x] = jobs[x])
      /\ \A A : About(jobs[s], u, A) /\ of \in A => About(jobs'[s], u, A)
      /\ \A m : Ordered(jobs[s], m) /\ of \in {None, m} => Ordered(jobs'[s], m)
  BY PostAbout
<1> QED BY <1>1, <1>2, Zenon DEF JobTo

\* or if an init job is posted when another is taken.
LEMMA RestPostJob ==
  ASSUME JobType, NEW s \in Side, NEW u, Takes(s, u), NEW next, next \in 0 .. LastMedium,
         jobs' = [Rest(s) EXCEPT ![s] = Append(@, [type |-> "init", of |-> next])]
  PROVE  JobTo(s, "init", next)
<1>0. \/ jobs' = Rest(s)
      \/ jobs' = [Rest(s) EXCEPT ![s] = Append(@, [type |-> "init", of |-> next])]
  OBVIOUS
<1>1. \A x \in Side : \A t : t # "init" => JobsThin(x, t)
  <2>1. \A x \in Side : \A t : jobs' = Rest(s) \/ t # "init" => JobsThin(x, t)
    BY <1>0, RestThins, Zenon
  <2> QED BY <2>1, Zenon
<1>2. /\ \A x \in Side : JobsSame(x, "init") /\ (x # s => jobs'[x] = jobs[x])
      /\ \A A : About(jobs[s], "init", A) /\ next \in A => About(jobs'[s], "init", A)
      /\ \A m : Ordered(jobs[s], m) /\ next \in {None, m} => Ordered(jobs'[s], m)
  BY RestPostAbout
<1>3. \A x \in Side : \A t : x # s => JobsThin(x, t)
  BY <1>2, Zenon DEF JobsThin
<1> QED BY <1>1, <1>2, <1>3, Zenon DEF JobTo

----------------------------------------------------------------------------
(* Who has left the first channel *)

\* A side knows that its peer has registered a new channel: SAFE_TO_CLOSE_PRIOR_CHANNEL is on
\* its way, was read or is acted upon, or its client was told of the new medium.
Answered(s) ==
  \/ HasType(jobs[s], "safe") \/ FrameOn(s, "safe") \/ at[s].step \in {"bye", "drain"}
  \/ bandwidth[s] # 1
\* The channels that are made are not the first,
NewInv(s) ==
  /\ 1 \notin arriving[s] /\ About(jobs[s], "incoming", Mediums \ {1})
  /\ at[s].step = "ack" => at[s].on # 1
  /\ at[s].step = "replace" => at[s].of # 1
\* a side that has an old channel has left the first, and so has the peer of one that knows it.
LeftInv ==
  /\ 1 \in made
  /\ \A s \in Side : /\ NewInv(s)
                     /\ Moved(s) => channel[s] # 1
                     /\ Answered(s) => channel[Peer(s)] # 1

\* A side that has left the first channel does not come back to it.
LEMMA LeftKept ==
  ASSUME LeftInv, made \subseteq made',
         \A x \in Side : channel[x] # 1 => channel'[x] # 1,
         \A x \in Side : NewInv(x)',
         \A x \in Side : Moved(x)' => Moved(x) \/ channel'[x] # 1,
         \A x \in Side : Answered(x)' => Answered(x) \/ channel'[Peer(x)] # 1
  PROVE  LeftInv'
<1>1. \A x \in Side : Peer(x) \in Side
  BY PeerSide
<1>2. ASSUME NEW x \in Side
      PROVE  (Moved(x)' => channel'[x] # 1) /\ (Answered(x)' => channel'[Peer(x)] # 1)
  BY <1>1 DEF LeftInv
<1>3. 1 \in made'
  BY DEF LeftInv
<1> QED BY <1>2, <1>3, Zenon DEF LeftInv

\* Nothing changes for a side whose thread does not change over.
LEMMA LeftQuiet ==
  ASSUME LeftInv, made' = made, channel' = channel, bandwidth' = bandwidth,
         \A x \in Side : arriving'[x] \subseteq arriving[x],
         \A x \in Side : previous'[x] \subseteq previous[x] \cup {None},
         \A x \in Side : at'[x] = at[x] \/ at'[x].step \in {"idle", "path", "failure"},
         \A x \in Side : Thins(x, "safe") /\ JobsThin(x, "safe"),
         \A x \in Side : About(jobs[x], "incoming", Mediums \ {1}) =>
                           About(jobs'[x], "incoming", Mediums \ {1})
  PROVE  LeftInv'
<1>1. ASSUME NEW x \in Side PROVE NewInv(x)'
  BY DEF LeftInv, NewInv
<1>2. ASSUME NEW x \in Side PROVE Moved(x)' => Moved(x)
  BY DEF Moved
<1>3. ASSUME NEW x \in Side PROVE Answered(x)' => Answered(x)
  <2>1. FrameOn(x, "safe")' => FrameOn(x, "safe")
    BY ThinsFrames, Zenon
  <2>2. HasType(jobs'[x], "safe") => HasType(jobs[x], "safe")
    BY Zenon DEF JobsThin
  <2>3. at'[x].step \in {"bye", "drain"} => at[x].step \in {"bye", "drain"}
    OBVIOUS
  <2> QED BY <2>1, <2>2, <2>3 DEF Answered
<1> QED BY <1>1, <1>2, <1>3, LeftKept

\* Nobody has left it at first.
LEMMA InitLeft == ASSUME Init PROVE LeftInv
<1>1. ASSUME NEW s \in Side PROVE NewInv(s) /\ ~Moved(s) /\ ~Answered(s)
  <2>1. /\ jobs[s] = <<>> /\ arriving[s] = {} /\ at[s].step = "idle" /\ previous[s] = {}
        /\ bandwidth[s] = 1 /\ \A c \in Mediums : wire[s][c] = <<>>
    BY DEF Init, Idle
  <2>2. ~HasType(jobs[s], "safe") /\ ~FrameOn(s, "safe")
    BY <2>1, EmptyFacts, Zenon DEF FrameOn
  <2>3. About(jobs[s], "incoming", Mediums \ {1})
    BY <2>1, AboutEmpty, Zenon
  <2> QED BY <2>1, <2>2, <2>3 DEF NewInv, Moved, Answered
<1>2. 1 \in made
  BY DEF Init
<1> QED BY <1>1, <1>2 DEF LeftInv

\* The steps of the workers, and a connection that breaks, bring no frame or job of an upgrade.
WorkerStep ==
  /\ UNCHANGED <<jobs, at, arriving, previous, channel, in_progress, made, bandwidth, medium,
                 alarm, asked, removal>>
  /\ "timeout" \in faults <=> "timeout" \in faults'
  /\ \A x \in Side : \A t : t # "data" => Thins(x, t) /\ WireSame(x, t)

\* They are such steps.
LEMMA WorkerSteps ==
  ASSUME TypeOK,
         \/ UNCHANGED vars \/ \E c \in Mediums : Break(c)
         \/ \E s \in Side : ReaderFetches(s) \/ WriterFetches(s) \/ KeepAliveTimesOut(s) \/ Writes(s)
  PROVE  WorkerStep
<1>0. ChannelType /\ WireType /\ WorkerType
  BY TypeParts
<1>1. CASE UNCHANGED vars
  <2>1. NoFrame
    BY <1>1, SameNoFrame DEF vars, channelVars
  <2>2. \A x \in Side : \A t : t # "data" => Thins(x, t) /\ WireSame(x, t)
    BY <2>1, Zenon DEF NoFrame
  <2> QED BY <1>1, <2>2 DEF WorkerStep, vars, channelVars, bwuVars, entryVars, workerVars, boundVars
<1>2. ASSUME NEW c \in Mediums, Break(c) PROVE WorkerStep
  <2>1. NoFrame
    BY <1>0, <1>2, BreakNoFrame
  <2>2. \A x \in Side : \A t : t # "data" => Thins(x, t) /\ WireSame(x, t)
    BY <2>1, Zenon DEF NoFrame
  <2> QED BY <1>2, <2>2 DEF WorkerStep, Break, bwuVars, entryVars, workerVars
<1>3. ASSUME NEW s \in Side, ReaderFetches(s) \/ WriterFetches(s) \/ KeepAliveTimesOut(s)
      PROVE  WorkerStep
  <2>1. wire' = wire
    BY <1>3 DEF ReaderFetches, WriterFetches, KeepAliveTimesOut, channelVars
  <2>2. \A x \in Side : \A t : t # "data" => Thins(x, t) /\ WireSame(x, t)
    BY <2>1, SameNoFrame, Zenon DEF NoFrame
  <2> QED BY <1>3, <2>2 DEF WorkerStep, ReaderFetches, WriterFetches, KeepAliveTimesOut,
                            channelVars, bwuVars, entryVars, boundVars
<1>4. ASSUME NEW s \in Side, Writes(s) PROVE WorkerStep
  <2>1. /\ UNCHANGED <<jobs, at, arriving, previous, channel, in_progress, made, bandwidth, medium,
                       alarm, asked, faults, removal>>
    BY <1>4 DEF Writes, bwuVars, entryVars, boundVars
  <2>2. \A x \in Side : \A t : t # "data" => Thins(x, t) /\ WireSame(x, t)
    <3>1. CASE wire' = wire
      BY <3>1, SameNoFrame, Zenon DEF NoFrame
    <3>2. CASE wire' # wire
      <4>1. writer[s].on \in Mediums
        BY <1>0, <1>4, MediumsNat DEF Writes, WorkerType, Worker
      <4>2. PICK ok \in BOOLEAN : sent[s] < MaxData /\ Write(s, writer[s].on, "data", sent[s] + 1, ok)
        BY <1>4, <3>2 DEF Writes
      <4>3. \A n \in Nat : [type |-> "data", of |-> sent[s] + 1, seq |-> n] \in Frame
        BY <1>0, <4>2, DataFrame
      <4>4. FrameTo(Peer(s), "data", sent[s] + 1)
        BY <1>0, <4>1, <4>2, <4>3, WriteFrame
      <4> QED BY <4>4, SMT DEF FrameTo
    <3> QED BY <3>1, <3>2
  <2> QED BY <2>1, <2>2 DEF WorkerStep
<1> QED BY <1>1, <1>2, <1>3, <1>4, Zenon


----------------------------------------------------------------------------
(* The phases of an upgrade *)

\* GetUpgradeMediums: only these are proposed.
Wanted == ListOf(Preferred)
PrefInv ==
  \A s \in Side :
    /\ medium[s] \in Wanted \cup {None}
    /\ About(jobs[s], "init", Wanted \cup {None}) /\ About(jobs[s], "path", Wanted)
    /\ WireAbout(s, "path", Wanted)
    /\ at[s].step = "path" => at[s].of \in Wanted

\* The wish of a side for an upgrade: a job of InitiateBwuForEndpoint, the write that follows, a
\* request under way, an alarm, or the job of one.
Wishes == {"init", "path", "asks", "alarm", "retry"}
Wish(s, w) ==
  \/ w = "init" /\ HasType(jobs[s], "init")
  \/ w = "path" /\ at[s].step = "path"
  \/ w = "asks" /\ Asks(s)
  \/ w = "alarm" /\ s \in alarm
  \/ w = "retry" /\ HasType(jobs[s], "retry")
\* There is one at most, and of a side only that has asked.
WishInv(s) ==
  /\ \A v, w \in Wishes : Wish(s, v) /\ Wish(s, w) => v = w /\ s \in asked
  /\ OnlyOne(jobs[s], "init") /\ OnlyOne(jobs[s], "retry")

\* No channel was connected yet: both sides use the first.
Before ==
  /\ made = {1}
  /\ \A s \in Side :
       /\ channel[s] = 1 /\ bandwidth[s] = 1
       /\ arriving[s] = {} /\ ~HasType(jobs[s], "incoming")
       /\ at[s].step \in {"idle", "path", "failure"} /\ previous[s] \subseteq {None}
       /\ WishInv(s) /\ Ordered(jobs[s], medium[s])
\* Neither side has begun to remove the endpoint.
Together == \A s \in Side : ~Gone(s)
\* A channel was connected over medium m: nothing is proposed or refused any more, and both sides
\* use the medium; a side that has not changed over is in progress, or waits to be.
SettledSide(s, m) ==
  /\ \A t \in {"path", "failure"} : ~FrameOn(s, t) /\ ~HasType(jobs[s], t)
  /\ at[s].step \notin {"path", "failure"}
  /\ channel[s] \in {1, m, None} /\ bandwidth[s] \in {1, m}
  /\ arriving[s] \subseteq {m} /\ About(jobs[s], "incoming", {m})
  /\ at[s].step = "ack" => at[s].on = m
  /\ at[s].step = "replace" => at[s].of = m
  /\ channel[s] # None =>
       /\ medium[s] = m /\ About(jobs[s], "init", {m, None})
       /\ channel[s] = 1 => s \in in_progress \/ at[s].step = "ack"
SettledOn(m) == made = {1, m} /\ \A s \in Side : SettledSide(s, m)
\* An acknowledgement that is not received in time ends this, and a side that removes the endpoint,
\* whose BwuManager forgets the medium while its thread may be about to register the channel.
PhaseInv == "timeout" \notin faults /\ Together => Before \/ \E m \in Wanted : SettledOn(m)

AgreeInv == LeftInv /\ PrefInv /\ PhaseInv

\* An endpoint that is removed does not come back; so the phases are kept if Before is, or turns into
\* another, and if Settled is.
LEMMA PhaseKept ==
  ASSUME PhaseInv, "timeout" \in faults => "timeout" \in faults', Together' => Together,
         Before /\ "timeout" \notin faults' /\ Together' =>
           Before' \/ \E m \in Wanted : SettledOn(m)',
         \A m \in Wanted : SettledOn(m) /\ "timeout" \notin faults' /\ Together' => SettledOn(m)'
  PROVE  PhaseInv'
<1> SUFFICES ASSUME "timeout" \notin faults', Together'
             PROVE  Before' \/ \E m \in Wanted : SettledOn(m)'
  BY Zenon DEF PhaseInv
<1>1. Before \/ \E m \in Wanted : SettledOn(m)
  BY Zenon DEF PhaseInv
<1>2. CASE Before
  BY <1>2, Zenon
<1>3. CASE \E m \in Wanted : SettledOn(m)
  BY <1>3, Zenon
<1> QED BY <1>1, <1>2, <1>3, Zenon

\* The wish of a side stays if nothing of it is brought,
LEMMA WishQuiet ==
  ASSUME NEW x \in Side, WishInv(x), JobsThin(x, "init"), JobsThin(x, "retry"),
         at'[x].step = "path" => at[x].step = "path", Asks(x)' => Asks(x),
         x \in alarm' => x \in alarm, asked \subseteq asked'
  PROVE  WishInv(x)'
<1>1. HasType(jobs'[x], "init") => HasType(jobs[x], "init")
  BY Zenon DEF JobsThin
<1>2. HasType(jobs'[x], "retry") => HasType(jobs[x], "retry")
  BY Zenon DEF JobsThin
<1>3. \A w \in Wishes : Wish(x, w)' => Wish(x, w)
  BY <1>1, <1>2, Zenon DEF Wish
<1>4. \A v, w \in Wishes : Wish(x, v)' /\ Wish(x, w)' => v = w /\ x \in asked'
  BY <1>3, Zenon DEF WishInv
<1>5. OnlyOne(jobs'[x], "init") /\ OnlyOne(jobs'[x], "retry")
  BY Zenon DEF WishInv, JobsThin
<1> QED BY <1>4, <1>5, Zenon DEF WishInv

\* The forms one by one.
LEMMA WishForms ==
  ASSUME NEW x
  PROVE  /\ Wish(x, "init") <=> HasType(jobs[x], "init")
         /\ Wish(x, "path") <=> at[x].step = "path"
         /\ Wish(x, "asks") <=> Asks(x)
         /\ Wish(x, "alarm") <=> x \in alarm
         /\ Wish(x, "retry") <=> HasType(jobs[x], "retry")
  BY DEF Wish

\* The same after the step.
LEMMA WishFormsNext ==
  ASSUME NEW x
  PROVE  /\ Wish(x, "init")' <=> HasType(jobs'[x], "init")
         /\ Wish(x, "path")' <=> at'[x].step = "path"
         /\ Wish(x, "asks")' <=> Asks(x)'
         /\ Wish(x, "alarm")' <=> x \in alarm'
         /\ Wish(x, "retry")' <=> HasType(jobs'[x], "retry")
<1>1. /\ Wish(x, "path")' <=> at'[x].step = "path"
      /\ Wish(x, "asks")' <=> Asks(x)'
      /\ Wish(x, "alarm")' <=> x \in alarm'
  BY DEF Wish
<1>2. /\ Wish(x, "init")' <=> HasType(jobs'[x], "init")
      /\ Wish(x, "retry")' <=> HasType(jobs'[x], "retry")
  BY DEF Wish, HasType
<1> QED BY <1>1, <1>2

\* A side that has one has no other,
LEMMA WishOne ==
  ASSUME NEW x, WishInv(x), NEW h \in Wishes, Wish(x, h)
  PROVE  /\ x \in asked /\ OnlyOne(jobs[x], "init") /\ OnlyOne(jobs[x], "retry")
         /\ h # "init" => ~HasType(jobs[x], "init")
         /\ h # "path" => at[x].step # "path"
         /\ h # "asks" => ~Asks(x)
         /\ h # "alarm" => x \notin alarm
         /\ h # "retry" => ~HasType(jobs[x], "retry")
<1>1. \A w \in Wishes : Wish(x, w) => w = h /\ x \in asked
  BY Zenon DEF WishInv
<1>2. {"init", "path", "asks", "alarm", "retry"} \subseteq Wishes
  BY DEF Wishes
<1>3. /\ h # "init" => ~Wish(x, "init")
      /\ h # "path" => ~Wish(x, "path")
      /\ h # "asks" => ~Wish(x, "asks")
      /\ h # "alarm" => ~Wish(x, "alarm")
      /\ h # "retry" => ~Wish(x, "retry")
  BY <1>1, <1>2
<1> QED BY <1>1, <1>3, WishForms, Zenon DEF WishInv

\* and one that has not asked has none.
LEMMA WishNone ==
  ASSUME NEW x, WishInv(x), x \notin asked
  PROVE  /\ ~HasType(jobs[x], "init") /\ at[x].step # "path" /\ ~Asks(x)
         /\ x \notin alarm /\ ~HasType(jobs[x], "retry")
<1>1. \A w \in Wishes : ~Wish(x, w)
  BY Zenon DEF WishInv
<1>2. {"init", "path", "asks", "alarm", "retry"} \subseteq Wishes
  BY DEF Wishes
<1> QED BY <1>1, <1>2, WishForms

\* A step leaves one at most.
LEMMA WishOnly ==
  ASSUME NEW x, x \in asked', OnlyOne(jobs'[x], "init"), OnlyOne(jobs'[x], "retry"), NEW k,
         k # "init" => ~HasType(jobs'[x], "init"),
         k # "path" => at'[x].step # "path",
         k # "asks" => ~Asks(x)',
         k # "alarm" => x \notin alarm',
         k # "retry" => ~HasType(jobs'[x], "retry")
  PROVE  WishInv(x)'
<1>1. \A w \in Wishes : Wish(x, w)' => w = k
  <2> SUFFICES ASSUME NEW w \in Wishes, Wish(x, w)', w # k PROVE FALSE
    BY Zenon
  <2>1. w \in {"init", "path", "asks", "alarm", "retry"}
    BY DEF Wishes
  <2> QED BY <2>1, WishFormsNext
<1> QED BY <1>1, Zenon DEF WishInv

\* Before is kept by a step that connects nothing and changes no channel.
LEMMA BeforeQuiet ==
  ASSUME Before, made' = made, channel' = channel, bandwidth' = bandwidth, arriving' = arriving,
         \A x \in Side :
           /\ JobsThin(x, "incoming")
           /\ at'[x] = at[x] \/ at'[x].step \in {"idle", "path", "failure"}
           /\ previous'[x] \subseteq previous[x] \cup {None}
           /\ WishInv(x)' /\ Ordered(jobs'[x], medium'[x])
  PROVE  Before'
<1>1. ASSUME NEW x \in Side
      PROVE  /\ channel'[x] = 1 /\ bandwidth'[x] = 1 /\ arriving'[x] = {}
             /\ at'[x].step \in {"idle", "path", "failure"} /\ previous'[x] \subseteq {None}
  BY DEF Before
<1>2. ASSUME NEW x \in Side
      PROVE  ~HasType(jobs'[x], "incoming") /\ WishInv(x)' /\ Ordered(jobs'[x], medium'[x])
  BY Zenon DEF Before, JobsThin
<1>3. made' = {1}
  BY DEF Before
<1> QED BY <1>1, <1>2, <1>3, Zenon DEF Before

\* It is kept by a step that leaves the wishes too.
LEMMA BeforeSame ==
  ASSUME Before, made' = made, channel' = channel, bandwidth' = bandwidth, arriving' = arriving,
         asked \subseteq asked', alarm' \subseteq alarm,
         \A x \in Side :
           /\ JobsThin(x, "incoming") /\ JobsThin(x, "init") /\ JobsThin(x, "retry")
           /\ at'[x] = at[x] \/ at'[x].step \in {"idle", "failure"}
           /\ previous'[x] \subseteq previous[x] \cup {None}
           /\ Asks(x)' => Asks(x)
           /\ Ordered(jobs'[x], medium'[x])
  PROVE  Before'
<1>1. ASSUME NEW x \in Side PROVE WishInv(x)'
  <2>1. WishInv(x)
    BY DEF Before
  <2>2. at'[x].step = "path" => at[x].step = "path"
    OBVIOUS
  <2> QED BY <2>1, <2>2, WishQuiet
<1>2. \A x \in Side : at'[x] = at[x] \/ at'[x].step \in {"idle", "path", "failure"}
  OBVIOUS
<1> QED BY <1>1, <1>2, BeforeQuiet, Zenon

\* Settled is kept by a step that brings nothing and changes over to the same medium only.
LEMMA SettledQuiet ==
  ASSUME NEW m, SettledOn(m), made' = made,
         \A x \in Side :
           /\ \A t \in {"path", "failure"} : Thins(x, t) /\ JobsThin(x, t)
           /\ at'[x] = at[x] \/ at'[x].step \notin {"path", "failure", "ack"}
           /\ at'[x] = at[x] \/ at'[x].step # "replace" \/ at'[x].of = m
           /\ channel'[x] \in {channel[x], m, None} /\ bandwidth'[x] \in {bandwidth[x], m}
           /\ arriving'[x] \subseteq arriving[x]
           /\ About(jobs'[x], "incoming", {m})
           /\ channel'[x] # None =>
                /\ medium'[x] = m /\ About(jobs'[x], "init", {m, None})
                /\ channel'[x] = 1 => x \in in_progress' \/ at'[x].step = "ack"
  PROVE  SettledOn(m)'
<1>1. ASSUME NEW x \in Side PROVE SettledSide(x, m)'
  <2>0. SettledSide(x, m)
    BY DEF SettledOn
  <2>1. ASSUME NEW t \in {"path", "failure"} PROVE ~FrameOn(x, t)' /\ ~HasType(jobs'[x], t)
    <3>1. Thins(x, t) /\ JobsThin(x, t) /\ ~FrameOn(x, t) /\ ~HasType(jobs[x], t)
      BY <2>0 DEF SettledSide
    <3> QED BY <3>1, ThinsFrames, Zenon DEF JobsThin
  <2>2. /\ at'[x].step \notin {"path", "failure"}
        /\ channel'[x] \in {1, m, None} /\ bandwidth'[x] \in {1, m}
        /\ arriving'[x] \subseteq {m}
        /\ at'[x].step = "ack" => at'[x].on = m
        /\ at'[x].step = "replace" => at'[x].of = m
    BY <2>0 DEF SettledSide
  <2> QED BY <2>1, <2>2, Zenon DEF SettledSide
<1> QED BY <1>1, Zenon DEF SettledOn

\* Only mediums that are wanted are proposed by a step that proposes none.
LEMMA PrefQuiet ==
  ASSUME PrefInv,
         \A x \in Side :
           /\ medium'[x] \in {medium[x], None} \cup Wanted
           /\ About(jobs[x], "init", Wanted \cup {None}) => About(jobs'[x], "init", Wanted \cup {None})
           /\ About(jobs[x], "path", Wanted) => About(jobs'[x], "path", Wanted)
           /\ WireSame(x, "path")
           /\ at'[x] = at[x] \/ at'[x].step # "path" \/ at'[x].of \in Wanted
  PROVE  PrefInv'
<1>1. ASSUME NEW x \in Side
      PROVE  medium'[x] \in Wanted \cup {None} /\ (at'[x].step = "path" => at'[x].of \in Wanted)
  BY DEF PrefInv
<1>2. ASSUME NEW x \in Side
      PROVE  /\ About(jobs'[x], "init", Wanted \cup {None}) /\ About(jobs'[x], "path", Wanted)
             /\ WireAbout(x, "path", Wanted)'
  BY Zenon DEF PrefInv, WireSame
<1> QED BY <1>1, <1>2, Zenon DEF PrefInv

\* If all init jobs are about m or about none, they are in order.
LEMMA AboutOrdered ==
  ASSUME NEW q, NEW m, About(q, "init", {None, m})
  PROVE  Ordered(q, m)
  BY DEF About, Ordered

\* A step brings jobs of type u only,
JobsBut(u) == \A x \in Side : JobsSame(x, u) /\ \A t : t # u => JobsThin(x, t)
\* and frames of type v only.
FramesBut(v) == \A x \in Side : \A t : t # v => Thins(x, t) /\ WireSame(x, t)

\* A step that brings one job at most, of a type, is such a step,
LEMMA ButJobs ==
  ASSUME NEW u, NoJob \/ \E s \in Side : \E of : JobTo(s, u, of)
  PROVE  JobsBut(u)
<1>1. CASE NoJob
  BY <1>1, Zenon DEF NoJob, JobsBut
<1>2. ASSUME NEW s \in Side, NEW of, JobTo(s, u, of) PROVE JobsBut(u)
  BY <1>2 DEF JobTo, JobsBut
<1> QED BY <1>1, <1>2, Zenon

\* and so is one that brings one frame at most.
LEMMA ButFrames ==
  ASSUME NEW v, NoFrame \/ \E p : \E of : FrameTo(p, v, of)
  PROVE  FramesBut(v)
<1>1. CASE NoFrame
  BY <1>1, Zenon DEF NoFrame, FramesBut
<1>2. ASSUME NEW p, NEW of, FrameTo(p, v, of) PROVE FramesBut(v)
  BY <1>2 DEF FrameTo, FramesBut
<1> QED BY <1>1, <1>2, Zenon

\* What is known of other types.
LEMMA JobsButFacts ==
  ASSUME NEW u, JobsBut(u), NEW x \in Side, NEW t, t # u
  PROVE  JobsThin(x, t) /\ \A A : About(jobs[x], t, A) => About(jobs'[x], t, A)
  BY DEF JobsBut, JobsSame

\* The order stays if no init job is brought,
LEMMA OrderedBut ==
  ASSUME NEW u, JobsBut(u), u # "init", NEW x \in Side, NEW m, Ordered(jobs[x], m)
  PROVE  Ordered(jobs'[x], m)
  BY Zenon DEF JobsBut, JobsSame

\* and the frames of other types stay.
LEMMA FramesButFacts ==
  ASSUME NEW v, FramesBut(v), NEW x \in Side, NEW t, t # v
  PROVE  Thins(x, t) /\ WireSame(x, t)
  BY DEF FramesBut

\* Then no request is made,
LEMMA AsksBut ==
  ASSUME NEW u, NEW v, JobsBut(u), FramesBut(v), u \notin {"path", "failure", "incoming"},
         v \notin {"path", "failure"},
         \A x \in Side : at'[x].step = "failure" => at[x].step = "failure",
         \A x \in Side : arriving'[x] \subseteq arriving[x]
  PROVE  \A x \in Side : Asks(x)' => Asks(x)
<1>1. u # "path" /\ u # "failure" /\ u # "incoming" /\ v # "path" /\ v # "failure"
  OBVIOUS
<1>2. \A x \in Side : JobsThin(x, "path") /\ JobsThin(x, "failure") /\ JobsThin(x, "incoming")
  BY <1>1, JobsButFacts, Zenon
<1>3. \A x \in Side : Thins(x, "path") /\ Thins(x, "failure")
  BY <1>1, FramesButFacts
<1> QED BY <1>2, <1>3, AllKept, Zenon

\* nobody leaves the first channel,
LEMMA LeftBut ==
  ASSUME LeftInv, made' = made, channel' = channel, bandwidth' = bandwidth,
         NEW u, NEW v, JobsBut(u), FramesBut(v), u \notin {"safe", "incoming"}, v # "safe",
         \A x \in Side : arriving'[x] \subseteq arriving[x],
         \A x \in Side : previous'[x] \subseteq previous[x] \cup {None},
         \A x \in Side : at'[x] = at[x] \/ at'[x].step \in {"idle", "path", "failure"}
  PROVE  LeftInv'
<1>1. u # "safe" /\ u # "incoming"
  OBVIOUS
<1>2. ASSUME NEW x \in Side
      PROVE  JobsThin(x, "safe") /\ (About(jobs[x], "incoming", Mediums \ {1}) =>
                                       About(jobs'[x], "incoming", Mediums \ {1}))
  BY <1>1, JobsButFacts, Zenon
<1>3. \A x \in Side : Thins(x, "safe")
  BY FramesButFacts
<1> QED BY <1>2, <1>3, LeftQuiet

\* nothing new is wanted,
LEMMA PrefBut ==
  ASSUME PrefInv, NEW u, NEW v, JobsBut(u), FramesBut(v), v # "path",
         \A x \in Side : medium'[x] \in {medium[x], None} \cup Wanted,
         \A x \in Side : at'[x] = at[x] \/ at'[x].step # "path" \/ at'[x].of \in Wanted,
         u = "init" => \A x \in Side : About(jobs[x], "init", Wanted \cup {None}) =>
                                         About(jobs'[x], "init", Wanted \cup {None}),
         u = "path" => \A x \in Side : About(jobs[x], "path", Wanted) => About(jobs'[x], "path", Wanted)
  PROVE  PrefInv'
<1>1. ASSUME NEW x \in Side
      PROVE  About(jobs[x], "init", Wanted \cup {None}) => About(jobs'[x], "init", Wanted \cup {None})
  <2>1. CASE u = "init"
    BY <2>1, Zenon
  <2>2. CASE u # "init"
    BY <2>2, JobsButFacts, Zenon
  <2> QED BY <2>1, <2>2
<1>2. ASSUME NEW x \in Side
      PROVE  About(jobs[x], "path", Wanted) => About(jobs'[x], "path", Wanted)
  <2>1. CASE u = "path"
    BY <2>1, Zenon
  <2>2. CASE u # "path"
    BY <2>2, JobsButFacts, Zenon
  <2> QED BY <2>1, <2>2
<1>3. \A x \in Side : WireSame(x, "path")
  BY FramesButFacts
<1> QED BY <1>1, <1>2, <1>3, PrefQuiet, Zenon

\* and the phase stays.
LEMMA BeforeBut ==
  ASSUME Before, made' = made, channel' = channel, bandwidth' = bandwidth, arriving' = arriving,
         medium' = medium, asked \subseteq asked', alarm' \subseteq alarm,
         NEW u, JobsBut(u), u \notin {"init", "retry", "incoming"},
         \A x \in Side : at'[x] = at[x] \/ at'[x].step \in {"idle", "failure"},
         \A x \in Side : previous'[x] \subseteq previous[x] \cup {None},
         \A x \in Side : Asks(x)' => Asks(x)
  PROVE  Before'
<1>1. u # "init" /\ u # "retry" /\ u # "incoming"
  OBVIOUS
<1>2. \A x \in Side : JobsThin(x, "incoming") /\ JobsThin(x, "init") /\ JobsThin(x, "retry")
  BY <1>1, JobsButFacts, Zenon
<1>3. \A x \in Side : Ordered(jobs'[x], medium'[x])
  BY <1>1, OrderedBut, Zenon DEF Before
<1> QED BY <1>2, <1>3, BeforeSame, Zenon

\* and so is SettledOn, if no proposal, refusal or connection is brought.
LEMMA SettledBut ==
  ASSUME NEW m, SettledOn(m), made' = made, NEW u, NEW v, JobsBut(u), FramesBut(v),
         u \notin {"path", "failure", "incoming"}, v \notin {"path", "failure"},
         \A x \in Side : at'[x] = at[x] \/ at'[x].step \notin {"path", "failure", "ack"},
         \A x \in Side : at'[x] = at[x] \/ at'[x].step # "replace" \/ at'[x].of = m,
         \A x \in Side : channel'[x] \in {channel[x], m, None} /\ bandwidth'[x] \in {bandwidth[x], m},
         \A x \in Side : arriving'[x] \subseteq arriving[x],
         \A x \in Side : channel'[x] # None =>
                /\ medium'[x] = m
                /\ u = "init" => About(jobs'[x], "init", {m, None})
                /\ channel[x] # None
                /\ channel'[x] = 1 => x \in in_progress' \/ at'[x].step = "ack"
  PROVE  SettledOn(m)'
<1>0. u # "path" /\ u # "failure" /\ u # "incoming" /\ v # "path" /\ v # "failure"
  OBVIOUS
<1>1. \A x \in Side : \A t \in {"path", "failure"} : Thins(x, t) /\ JobsThin(x, t)
  BY <1>0, JobsButFacts, FramesButFacts
<1>2. \A x \in Side : About(jobs'[x], "incoming", {m})
  BY <1>0, JobsButFacts, Zenon DEF SettledOn, SettledSide
<1>3. ASSUME NEW x \in Side, channel'[x] # None PROVE About(jobs'[x], "init", {m, None})
  <2>1. CASE u = "init"
    BY <1>3, <2>1, Zenon
  <2>2. CASE u # "init"
    <3>1. About(jobs[x], "init", {m, None})
      BY <1>3, Zenon DEF SettledOn, SettledSide
    <3> QED BY <2>2, <3>1, JobsButFacts, Zenon
  <2> QED BY <2>1, <2>2
<1> QED BY <1>1, <1>2, <1>3, SettledQuiet

\* Nothing changes if the threads of BwuManager stay where they are, and no job or frame of an
\* upgrade is brought but LAST_WRITE_TO_PRIOR_CHANNEL.
LEMMA CalmAgrees ==
  ASSUME AgreeInv, made' = made, channel' = channel, bandwidth' = bandwidth, arriving' = arriving,
         medium' = medium, in_progress' = in_progress, at' = at, removal' = removal, asked \subseteq asked',
         alarm' \subseteq alarm, "timeout" \in faults => "timeout" \in faults',
         \A x \in Side : previous'[x] \subseteq previous[x] \cup {None},
         NEW u, NEW v, JobsBut(u), FramesBut(v),
         u \notin {"init", "retry", "path", "failure", "incoming", "safe"},
         v \notin {"path", "failure", "safe"}
  PROVE  AgreeInv'
<1>1. LeftInv'
  BY LeftBut DEF AgreeInv
<1>2. PrefInv'
  <2>1. u # "init" /\ u # "path" /\ v # "path"
    OBVIOUS
  <2>2. PrefInv /\ \A x \in Side : medium'[x] \in {medium[x], None} \cup Wanted
    BY DEF AgreeInv
  <2> QED BY <2>1, <2>2, PrefBut, Zenon
<1>3. PhaseInv'
  <2>1. Before => Before'
    <3>1. \A x \in Side : Asks(x)' => Asks(x)
      BY AsksBut
    <3> QED BY <3>1, BeforeBut
  <2>2. ASSUME NEW m \in Wanted, SettledOn(m) PROVE SettledOn(m)'
    <3>1. \A x \in Side : channel[x] # None =>
            medium[x] = m /\ (channel[x] = 1 => x \in in_progress \/ at[x].step = "ack")
      BY <2>2 DEF SettledOn, SettledSide
    <3> QED BY <2>2, <3>1, SettledBut
  <2>3. PhaseInv /\ (Together' => Together)
    BY DEF AgreeInv, Together, Gone
  <2> QED BY <2>1, <2>2, <2>3, PhaseKept, Zenon
<1> QED BY <1>1, <1>2, <1>3, Zenon DEF AgreeInv

\* The workers keep it.
LEMMA WorkerAgrees == ASSUME AgreeInv, WorkerStep PROVE AgreeInv'
<1>1. JobsBut("none")
  BY SameNoJob, ButJobs, Zenon DEF WorkerStep
<1>2. FramesBut("data")
  BY Zenon DEF WorkerStep, FramesBut
<1> QED BY <1>1, <1>2, CalmAgrees DEF WorkerStep

\* A side asks if its request is at some stage.
LEMMA AskStages ==
  ASSUME NEW x
  PROVE  Asks(x) <=> \/ FrameOn(Peer(x), "path") \/ HasType(jobs[Peer(x)], "path")
                     \/ at[Peer(x)].step = "failure"
                     \/ FrameOn(x, "failure") \/ HasType(jobs[x], "failure")
                     \/ arriving[x] # {} \/ HasType(jobs[x], "incoming")
  BY RequestStages DEF Asks, Stages

\* The same after the step.
LEMMA AskStagesNext ==
  ASSUME NEW x
  PROVE  Asks(x)' <=> \/ FrameOn(Peer(x), "path")' \/ HasType(jobs'[Peer(x)], "path")
                      \/ at'[Peer(x)].step = "failure"
                      \/ FrameOn(x, "failure")' \/ HasType(jobs'[x], "failure")
                      \/ arriving'[x] # {} \/ HasType(jobs'[x], "incoming")
  BY RequestStagesNext DEF Asks, Stages

\* A frame that is read becomes a job, and the request it belongs to goes on.
LEMMA ReadsAgrees ==
  ASSUME TypeOK, AgreeInv, NEW s \in Side, Reads(s)
  PROVE  AgreeInv'
<1> DEFINE c == reader[s].on
           frame == Head(wire[s][c])
<1>0. ChannelType /\ WireType /\ JobType /\ WorkerType
  BY TypeParts
<1>1. UNCHANGED <<removal, made, channel, bandwidth, arriving, medium, in_progress, at, asked, alarm, faults,
                  previous>>
  BY DEF Reads, entryVars, boundVars
<1>2. c \in Mediums
  BY <1>0, MediumsNat DEF Reads, WorkerType, Worker
<1>3. CASE jobs' = jobs
  <2>1. NoFrame
    <3>1. CASE wire' = wire
      BY <3>1, SameNoFrame
    <3>2. CASE Close(s, {c})
      BY <1>0, <3>2, CloseNoFrame
    <3>3. CASE wire[s][c] # <<>> /\ Took(s, c)
      BY <1>0, <1>2, <3>3, TookNoFrame
    <3> QED BY <3>1, <3>2, <3>3 DEF Reads
  <2>2. JobsBut("none") /\ FramesBut("none")
    BY <1>3, <2>1, SameNoJob, ButJobs, ButFrames, Zenon
  <2> QED BY <1>1, <2>2, CalmAgrees
<1>4. CASE jobs' # jobs
  <2>1. /\ wire[s][c] # <<>> /\ Took(s, c) /\ frame.type \in {"path", "failure", "last", "safe"}
        /\ jobs' = [jobs EXCEPT ![s] = Post(s, frame.type, frame.of)]
    BY <1>4 DEF Reads
  <2>2. frame \in Frame
    BY <1>0, <1>2, <2>1 DEF WireType
  <2>3. [type |-> frame.type, of |-> frame.of] \in Job
    BY <2>1, <2>2 DEF Frame, Job
  <2> HIDE DEF frame, c
  <2>4. JobTo(s, frame.type, frame.of) /\ NoFrame
    BY <1>0, <1>2, <2>1, <2>3, PostJob, TookNoFrame
  <2>5. JobsBut(frame.type) /\ \A v : FramesBut(v)
    BY <2>4, ButJobs, ButFrames, Zenon
  <2>6. FrameOn(s, frame.type)
    BY <1>0, <1>2, <2>1, TookThins DEF frame, c
  <2>7. CASE frame.type = "last"
    <3>1. JobsBut("last") /\ FramesBut("none")
      BY <2>5, <2>7
    <3> QED BY <1>1, <3>1, CalmAgrees
  <2>8. CASE frame.type # "last"
    <3>1. LeftInv'
      <4>1. CASE frame.type # "safe"
        <5>1. frame.type \notin {"safe", "incoming"} /\ JobsBut(frame.type) /\ FramesBut("none")
          BY <2>1, <2>5, <4>1
        <5> QED BY <1>1, <5>1, LeftBut DEF AgreeInv
      <4>2. CASE frame.type = "safe"
        <5>1. Answered(s) /\ LeftInv
          BY <2>6, <4>2 DEF Answered, AgreeInv
        <5>2. \A x \in Side : NewInv(x)'
          <6>1. JobsBut("safe")
            BY <2>5, <4>2
          <6>2. \A x \in Side : About(jobs'[x], "incoming", Mediums \ {1})
            BY <5>1, <6>1, JobsButFacts DEF LeftInv, NewInv
          <6> QED BY <1>1, <5>1, <6>2 DEF LeftInv, NewInv
        <5>3. ASSUME NEW x \in Side PROVE Answered(x)' => Answered(x)
          <6>1. FrameOn(x, "safe")' => FrameOn(x, "safe")
            BY <2>4, ThinsFrames, Zenon DEF NoFrame
          <6>2. x # s => jobs'[x] = jobs[x]
            BY <2>4 DEF JobTo
          <6> QED BY <1>1, <5>1, <6>1, <6>2 DEF Answered
        <5>4. \A x \in Side : Moved(x)' => Moved(x)
          BY <1>1 DEF Moved
        <5> QED BY <1>1, <5>1, <5>2, <5>3, <5>4, LeftKept
      <4> QED BY <4>1, <4>2
    <3>2. PrefInv'
      <4>1. PrefInv /\ WireAbout(s, "path", Wanted)
        BY DEF AgreeInv, PrefInv
      <4>2. frame.type = "path" => frame.of \in Wanted
        BY <1>0, <1>2, <2>1, <4>1, TookAbout DEF frame, c
      <4>3. frame.type = "path" => \A x \in Side : About(jobs[x], "path", Wanted) => About(jobs'[x], "path", Wanted)
        BY <2>4, <4>2 DEF JobTo
      <4>4. JobsBut(frame.type) /\ FramesBut("none") /\ frame.type # "init"
        BY <2>1, <2>5
      <4>5. \A x \in Side : medium'[x] \in {medium[x], None} \cup Wanted
        BY <1>1
      <4> QED BY <1>1, <4>1, <4>3, <4>4, <4>5, PrefBut
    <3>3. PhaseInv'
      <4>1. ASSUME Before PROVE Before'
        <5>0. Peer(s) \in Side /\ Peer(s) # s /\ Peer(Peer(s)) = s
          BY PeerFacts
        <5>a. jobs'[Peer(s)] = jobs[Peer(s)]
          BY <2>4, <5>0, Zenon DEF JobTo
        <5>b. \A x \in Side : \A t : FrameOn(x, t)' => FrameOn(x, t)
          BY <2>4, ThinsFrames, Zenon DEF NoFrame
        <5>c. \A t : HasType(jobs'[s], t) => HasType(jobs[s], t) \/ FrameOn(s, t)
          BY <2>4, <2>6 DEF JobTo, JobsThin
        <5>d. ~HasType(jobs'[s], "incoming")
          BY <4>1, <2>1, <2>5, JobsButFacts DEF Before, JobsThin
        <5>1. Asks(s)' => Asks(s)
          BY <1>1, <5>0, <5>a, <5>b, <5>c, <5>d, AskStages, AskStagesNext
        <5>2. Asks(Peer(s))' => Asks(Peer(s))
          BY <1>1, <5>0, <5>a, <5>b, <5>c, AskStages, AskStagesNext
        <5>3. \A x \in Side : Asks(x)' => Asks(x)
          BY <5>1, <5>2, PeerFacts
        <5>4. JobsBut(frame.type) /\ frame.type \notin {"init", "retry", "incoming"}
          BY <2>1, <2>5
        <5> QED BY <1>1, <4>1, <5>3, <5>4, BeforeBut
      <4>2. ASSUME NEW m \in Wanted, SettledOn(m) PROVE SettledOn(m)'
        <5>1. frame.type \notin {"path", "failure"}
          BY <2>6, <4>2 DEF SettledOn, SettledSide
        <5>2. JobsBut(frame.type) /\ FramesBut("none") /\ frame.type \notin {"path", "failure", "incoming"}
              /\ frame.type # "init"
          BY <2>1, <2>5, <5>1
        <5>3. \A x \in Side : channel[x] # None =>
                medium[x] = m /\ (channel[x] = 1 => x \in in_progress \/ at[x].step = "ack")
          BY <4>2 DEF SettledOn, SettledSide
        <5> QED BY <1>1, <4>2, <5>2, <5>3, SettledBut
      <4>3. PhaseInv /\ (Together' => Together)
        BY <1>1 DEF AgreeInv, Together, Gone
      <4> QED BY <1>1, <4>1, <4>2, <4>3, PhaseKept, Zenon
    <3> QED BY <3>1, <3>2, <3>3, Zenon DEF AgreeInv
  <2> QED BY <2>7, <2>8
<1> QED BY <1>3, <1>4

----------------------------------------------------------------------------
(* The channels are exchanged *)

\* A side's thread goes on with the exchange, or ends it, without a change of channels.
LEMMA ThreadAgrees ==
  ASSUME AgreeInv, NEW s \in Side,
         UNCHANGED <<made, channel, bandwidth, arriving, medium, in_progress, alarm, asked, faults, removal>>,
         at[s].step # "ack", \A x \in Side : x # s => at'[x] = at[x],
         at'[s].step \in {"idle", "last", "safe", "bye", "drain"},
         NEW v, JobsBut("none"), FramesBut(v), v \notin {"path", "failure"},
         Before => /\ at'[s].step = "idle"
                   /\ \A x \in Side : previous'[x] \subseteq previous[x] \cup {None},
         \A x \in Side : Moved(x)' => Moved(x),
         \A x \in Side : Answered(x)' => Answered(x) \/ channel[Peer(x)] # 1
  PROVE  AgreeInv'
<1>0. LeftInv /\ PrefInv /\ PhaseInv
  BY DEF AgreeInv
<1>1. LeftInv'
  <2>0. "incoming" # "none" /\ \A x \in Side : About(jobs[x], "incoming", Mediums \ {1})
    BY <1>0 DEF LeftInv, NewInv
  <2>1. \A x \in Side : About(jobs'[x], "incoming", Mediums \ {1})
    BY <2>0, JobsButFacts, Zenon
  <2>2. \A x \in Side : NewInv(x)'
    BY <1>0, <2>1 DEF LeftInv, NewInv
  <2> QED BY <1>0, <2>2, LeftKept
<1>2. PrefInv'
  <2>1. \A x \in Side : at'[x] = at[x] \/ at'[x].step # "path"
    OBVIOUS
  <2>2. v # "path" /\ \A x \in Side : medium'[x] \in {medium[x], None} \cup Wanted
    OBVIOUS
  <2> QED BY <1>0, <2>1, <2>2, PrefBut
<1>3. PhaseInv'
  <2>1. ASSUME Before PROVE Before'
    <3>1. \A x \in Side : at'[x] = at[x] \/ at'[x].step \in {"idle", "failure"}
      BY <2>1
    <3>2. \A x \in Side : at'[x].step = "failure" => at[x].step = "failure"
      BY <2>1
    <3>3. \A x \in Side : Asks(x)' => Asks(x)
      BY <3>2, AsksBut
    <3> QED BY <2>1, <3>1, <3>3, BeforeBut
  <2>2. ASSUME NEW m \in Wanted, SettledOn(m) PROVE SettledOn(m)'
    <3>1. \A x \in Side : channel[x] # None =>
            medium[x] = m /\ (channel[x] = 1 => x \in in_progress \/ at[x].step = "ack")
      BY <2>2 DEF SettledOn, SettledSide
    <3>2. \A x \in Side : at[x].step = "ack" => at'[x].step = "ack"
      OBVIOUS
    <3>3. /\ \A x \in Side : at'[x] = at[x] \/ at'[x].step \notin {"path", "failure", "ack"}
          /\ \A x \in Side : at'[x] = at[x] \/ at'[x].step # "replace"
      OBVIOUS
    <3> QED BY <2>2, <3>1, <3>2, <3>3, SettledBut
  <2>3. Together' => Together
    BY DEF Together, Gone
  <2> QED BY <1>0, <2>1, <2>2, <2>3, PhaseKept, Zenon
<1> QED BY <1>1, <1>2, <1>3, Zenon DEF AgreeInv

\* No side is told anything by a step without frames and jobs.
LEMMA AnsweredQuiet ==
  ASSUME NEW v, JobsBut("none"), FramesBut(v), v # "safe", NEW x \in Side,
         bandwidth' = bandwidth,
         at'[x].step \in {"bye", "drain"} => Answered(x)
  PROVE  Answered(x)' => Answered(x)
<1>1. FrameOn(x, "safe")' => FrameOn(x, "safe")
  <2>1. Thins(x, "safe")
    BY FramesButFacts
  <2> QED BY <2>1, ThinsFrames, Zenon
<1>2. HasType(jobs'[x], "safe") => HasType(jobs[x], "safe")
  BY JobsButFacts DEF JobsThin
<1> QED BY <1>1, <1>2 DEF Answered

\* The peer's last write is answered over the old channel only, if there is one.
LEMMA LastJobAgrees ==
  ASSUME TypeOK, AgreeInv, NEW s \in Side, LastJob(s)
  PROVE  AgreeInv'
<1>0. WireType /\ JobType /\ EntryType
  BY TypeParts
<1>1. UNCHANGED <<removal, made, channel, bandwidth, arriving, medium, in_progress, alarm, asked, faults, wire>>
  BY DEF LastJob, channelVars, boundVars, workerVars
<1>2. Takes(s, "last") /\ jobs' = Rest(s) /\ at[s].step = "idle"
  BY DEF LastJob, Takes, Idle
<1>3. JobsBut("none") /\ FramesBut("none")
  BY <1>0, <1>1, <1>2, RestNoJob, SameNoFrame, ButJobs, ButFrames, Zenon
<1>4. /\ \A x \in Side : x # s => at'[x] = at[x] /\ previous'[x] = previous[x]
      /\ \/ previous[s] \subseteq {None} /\ previous'[s] = {None} /\ at'[s].step = "idle"
         \/ ~(previous[s] \subseteq {None}) /\ previous'[s] = previous[s] /\ at'[s].step = "safe"
  BY <1>0 DEF LastJob, ProcessLastWriteToPriorChannelEvent, JobType, EntryType, Ends, Goes, Idle
<1>5. \A x \in Side : Moved(x)' => Moved(x)
  BY <1>4 DEF Moved
<1>6. \A x \in Side : at'[x].step \in {"bye", "drain"} => at[x].step \in {"bye", "drain"}
  BY <1>4
<1>7. \A x \in Side : Answered(x)' => Answered(x)
  BY <1>1, <1>3, <1>6, AnsweredQuiet DEF Answered
<1>8. ASSUME Before
      PROVE  at'[s].step = "idle" /\ \A x \in Side : previous'[x] \subseteq previous[x] \cup {None}
  BY <1>4, <1>8 DEF Before
<1> QED BY <1>1, <1>2, <1>3, <1>4, <1>5, <1>7, <1>8, ThreadAgrees

\* The old channel is taken out when the peer has answered.
LEMMA SafeJobAgrees ==
  ASSUME TypeOK, AgreeInv, NEW s \in Side, SafeJob(s)
  PROVE  AgreeInv'
<1>0. WireType /\ JobType /\ EntryType
  BY TypeParts
<1>1. UNCHANGED <<removal, made, channel, bandwidth, arriving, medium, in_progress, alarm, asked, faults, wire>>
  BY DEF SafeJob, boundVars, workerVars
<1>2. Takes(s, "safe") /\ jobs' = Rest(s) /\ at[s].step = "idle"
  BY DEF SafeJob, Takes, Idle
<1>3. JobsBut("none") /\ FramesBut("none")
  BY <1>0, <1>1, <1>2, RestNoJob, SameNoFrame, ButJobs, ButFrames, Zenon
<1>4. /\ \A x \in Side : x # s => at'[x] = at[x] /\ previous'[x] = previous[x]
      /\ previous'[s] = {}
      /\ \/ previous[s] \subseteq {None} /\ at'[s].step = "idle"
         \/ ~(previous[s] \subseteq {None}) /\ at'[s].step = "bye"
  BY <1>0, <1>2 DEF SafeJob, JobType, EntryType, Goes
<1>5. \A x \in Side : Moved(x)' => Moved(x)
  BY <1>4 DEF Moved
<1>6. \A x \in Side : at'[x].step \in {"bye", "drain"} => Answered(x)
  <2>1. HasType(jobs[s], "safe")
    BY <1>0, <1>2, TakenThins
  <2> QED BY <1>4, <2>1 DEF Answered
<1>7. \A x \in Side : Answered(x)' => Answered(x)
  BY <1>1, <1>3, <1>6, AnsweredQuiet
<1>8. ASSUME Before
      PROVE  at'[s].step = "idle" /\ \A x \in Side : previous'[x] \subseteq previous[x] \cup {None}
  BY <1>4, <1>8 DEF Before
<1> QED BY <1>1, <1>2, <1>3, <1>4, <1>5, <1>7, <1>8, ThreadAgrees

\* The last write to the old channel,
LEMMA WriteLastAgrees ==
  ASSUME TypeOK, AgreeInv, NEW s \in Side, WriteLast(s)
  PROVE  AgreeInv'
<1>0. WireType /\ JobType /\ EntryType
  BY TypeParts
<1>1. UNCHANGED <<removal, made, channel, bandwidth, arriving, medium, in_progress, alarm, asked, faults, jobs>>
  BY DEF WriteLast, boundVars, workerVars
<1>2. at[s].step = "last" /\ at[s].on \in Mediums
  BY <1>0, StepFacts DEF WriteLast
<1>3. JobsBut("none") /\ FramesBut("last")
  <2>1. PICK ok \in BOOLEAN : Write(s, at[s].on, "last", None, ok)
    BY DEF WriteLast
  <2>2. \A n \in Nat : [type |-> "last", of |-> None, seq |-> n] \in Frame
    BY DEF Frame
  <2>3. FrameTo(Peer(s), "last", None)
    BY <1>0, <1>2, <2>1, <2>2, WriteFrame
  <2> QED BY <1>1, <2>3, SameNoJob, ButJobs, ButFrames, Zenon
<1>4. /\ \A x \in Side : x # s => at'[x] = at[x] /\ previous'[x] = previous[x]
      /\ at'[s].step \in {"idle", "safe"}
  BY <1>0 DEF WriteLast, ProcessLastWriteToPriorChannelEvent, JobType, EntryType, Ends, Goes, Idle
<1>5. \A x \in Side : Moved(x)' => Moved(x)
  BY <1>2, <1>4 DEF Moved
<1>6. \A x \in Side : at'[x].step \in {"bye", "drain"} => Answered(x)
  BY <1>4 DEF Answered
<1>7. \A x \in Side : Answered(x)' => Answered(x)
  BY <1>1, <1>3, <1>6, AnsweredQuiet
<1>8. ~Before
  BY <1>2 DEF Before
<1> QED BY <1>1, <1>2, <1>3, <1>4, <1>5, <1>7, <1>8, ThreadAgrees

\* the answer to the peer's, from a side that has left the first channel,
LEMMA WriteSafeAgrees ==
  ASSUME TypeOK, AgreeInv, NEW s \in Side, WriteSafe(s)
  PROVE  AgreeInv'
<1>0. WireType /\ JobType /\ EntryType /\ LeftInv
  BY TypeParts DEF AgreeInv
<1>1. UNCHANGED <<removal, made, channel, bandwidth, arriving, medium, in_progress, alarm, asked, faults, jobs>>
  BY DEF WriteSafe, boundVars, workerVars
<1>2. at[s].step = "safe" /\ at[s].on \in Mediums
  BY <1>0, StepFacts DEF WriteSafe
<1>3. NoFrame \/ FrameTo(Peer(s), "safe", None)
  <2>1. CASE Write(s, at[s].on, "safe", None, TRUE)
    <3>1. \A n \in Nat : [type |-> "safe", of |-> None, seq |-> n] \in Frame
      BY DEF Frame
    <3>2. FrameTo(Peer(s), "safe", None)
      BY <1>0, <1>2, <2>1, <3>1, WriteFrame
    <3> QED BY <3>2
  <2>2. CASE Close(s, {at[s].on})
    BY <1>0, <2>2, CloseNoFrame
  <2> QED BY <2>1, <2>2 DEF WriteSafe
<1>4. /\ \A x \in Side : x # s => at'[x] = at[x] /\ previous'[x] = previous[x]
      /\ at'[s].step = "idle"
  BY <1>0 DEF WriteSafe, JobType, EntryType, Ends, Idle
<1>5. \A x \in Side : Moved(x)' => Moved(x)
  BY <1>2, <1>4 DEF Moved
<1>6. JobsBut("none") /\ FramesBut("safe")
  BY <1>1, <1>3, SameNoJob, ButJobs, ButFrames, Zenon
<1>7. \A x \in Side : Answered(x)' => Answered(x) \/ channel[Peer(x)] # 1
  <2>1. channel[s] # 1 /\ Peer(Peer(s)) = s
    BY <1>0, <1>2, PeerFacts DEF LeftInv, Moved
  <2>2. FrameOn(s, "safe")' => FrameOn(s, "safe")
    <3>1. Thins(s, "safe")
      BY <1>3, PeerFacts DEF NoFrame, FrameTo
    <3> QED BY <3>1, ThinsFrames, Zenon
  <2>3. Answered(s)' => Answered(s)
    BY <1>1, <1>4, <2>2 DEF Answered
  <2> QED BY <2>1, <2>3, PeerFacts
<1>8. ~Before
  BY <1>2 DEF Before
<1> QED BY <1>1, <1>2, <1>4, <1>5, <1>6, <1>7, <1>8, ThreadAgrees

\* and the goodbye.
LEMMA WriteByeAgrees ==
  ASSUME TypeOK, AgreeInv, NEW s \in Side, WriteBye(s)
  PROVE  AgreeInv'
<1>0. WireType /\ JobType
  BY TypeParts
<1>1. UNCHANGED <<removal, made, channel, bandwidth, arriving, medium, in_progress, alarm, asked, faults, jobs,
                  previous>>
  BY DEF WriteBye, boundVars, entryVars, workerVars
<1>2. at[s].step = "bye" /\ at[s].on \in Mediums
  BY <1>0, StepFacts DEF WriteBye
<1>3. JobsBut("none") /\ FramesBut("bye")
  <2>1. PICK ok \in BOOLEAN : Write(s, at[s].on, "bye", None, ok)
    BY DEF WriteBye
  <2>2. \A n \in Nat : [type |-> "bye", of |-> None, seq |-> n] \in Frame
    BY DEF Frame
  <2>3. FrameTo(Peer(s), "bye", None)
    BY <1>0, <1>2, <2>1, <2>2, WriteFrame
  <2> QED BY <1>1, <2>3, SameNoJob, ButJobs, ButFrames, Zenon
<1>4. (\A x \in Side : x # s => at'[x] = at[x]) /\ at'[s].step = "drain"
  BY <1>0 DEF WriteBye, JobType, Goes
<1>5. \A x \in Side : Moved(x)' => Moved(x)
  BY <1>1, <1>2, <1>4 DEF Moved
<1>6. \A x \in Side : at'[x].step \in {"bye", "drain"} => Answered(x)
  BY <1>2, <1>4 DEF Answered
<1>7. \A x \in Side : Answered(x)' => Answered(x)
  BY <1>1, <1>3, <1>6, AnsweredQuiet
<1>8. ~Before
  BY <1>2 DEF Before
<1> QED BY <1>1, <1>2, <1>3, <1>4, <1>5, <1>7, <1>8, ThreadAgrees

\* The upgrade ends: the client is told of the channel that is registered, which is not the first.
LEMMA DrainAgrees ==
  ASSUME TypeOK, AgreeInv, NEW s \in Side, Drain(s)
  PROVE  AgreeInv'
<1>0. ChannelType /\ WireType /\ JobType /\ LeftInv /\ PrefInv /\ PhaseInv
  BY TypeParts DEF AgreeInv
<1>1. UNCHANGED <<removal, made, channel, arriving, medium, alarm, asked, faults, jobs, previous>>
  BY DEF Drain, boundVars, workerVars
<1>2. at[s].step = "drain"
  BY DEF Drain
<1>3. JobsBut("none") /\ FramesBut("none")
  BY <1>0, <1>1, DrainNoFrame, SameNoJob, ButJobs, ButFrames, Zenon
<1>4. (\A x \in Side : x # s => at'[x] = at[x]) /\ at'[s].step = "idle"
  BY <1>0 DEF Drain, JobType, Ends, Idle
<1>5. /\ \A x \in Side : x # s => bandwidth'[x] = bandwidth[x] /\ (x \in in_progress' <=> x \in in_progress)
      /\ \/ channel[s] = None /\ bandwidth'[s] = bandwidth[s]
         \/ channel[s] # None /\ bandwidth'[s] = channel[s]
  BY <1>0 DEF Drain, ChannelType
<1>6. Moved(s) /\ Answered(s)
  BY <1>2 DEF Moved, Answered
<1>7. channel[s] # 1 /\ channel[Peer(s)] # 1
  BY <1>0, <1>6 DEF LeftInv
<1>8. LeftInv'
  <2>1. \A x \in Side : NewInv(x)'
    BY <1>0, <1>1, <1>4 DEF LeftInv, NewInv
  <2>2. \A x \in Side : Moved(x)' => Moved(x)
    BY <1>1, <1>4 DEF Moved
  <2>3. ASSUME NEW x \in Side PROVE Answered(x)' => Answered(x) \/ channel'[Peer(x)] # 1
    <3>1. Thins(x, "safe")
      BY <1>3, FramesButFacts
    <3>2. FrameOn(x, "safe")' => FrameOn(x, "safe")
      BY <3>1, ThinsFrames, Zenon
    <3> QED BY <1>1, <1>4, <1>5, <1>7, <3>2 DEF Answered
  <2> QED BY <1>0, <1>1, <2>1, <2>2, <2>3, LeftKept
<1>9. PrefInv'
  <2>1. \A x \in Side : at'[x] = at[x] \/ at'[x].step # "path"
    BY <1>4
  <2>2. \A x \in Side : medium'[x] \in {medium[x], None} \cup Wanted
    BY <1>1
  <2> QED BY <1>0, <1>3, <2>1, <2>2, PrefBut
<1>10. PhaseInv'
  <2>1. ~Before
    BY <1>2 DEF Before
  <2>2. ASSUME NEW m \in Wanted, SettledOn(m) PROVE SettledOn(m)'
    <3>1. \A x \in Side : channel[x] # None =>
            medium[x] = m /\ (channel[x] = 1 => x \in in_progress \/ at[x].step = "ack")
      BY <2>2 DEF SettledOn, SettledSide
    <3>2. /\ \A x \in Side : at'[x] = at[x] \/ at'[x].step \notin {"path", "failure", "ack"}
          /\ \A x \in Side : at'[x] = at[x] \/ at'[x].step # "replace"
      BY <1>4
    <3>3. channel[s] \in {m, None}
      BY <1>7, <2>2 DEF SettledOn, SettledSide
    <3>4. \A x \in Side : channel'[x] \in {channel[x], m, None} /\ bandwidth'[x] \in {bandwidth[x], m}
      BY <1>1, <1>5, <3>3
    <3>5. \A x \in Side : channel'[x] # None =>
            /\ medium'[x] = m /\ channel[x] # None
            /\ channel'[x] = 1 => x \in in_progress' \/ at'[x].step = "ack"
      BY <1>1, <1>4, <1>5, <1>7, <3>1
    <3> QED BY <1>1, <1>3, <2>2, <3>2, <3>4, <3>5, SettledBut
  <2>3. Together' => Together
    BY <1>1 DEF Together, Gone
  <2> QED BY <1>0, <1>1, <2>1, <2>2, <2>3, PhaseKept, Zenon
<1> QED BY <1>8, <1>9, <1>10, Zenon DEF AgreeInv

\* OnEndpointDisconnect runs for an endpoint that was removed.
LEMMA DisconnectJobAgrees ==
  ASSUME TypeOK, RequestInv, AgreeInv, NEW s \in Side, DisconnectJob(s)
  PROVE  AgreeInv'
<1>0. WireType /\ JobType /\ EntryType /\ LeftInv /\ PrefInv /\ PhaseInv
  BY TypeParts DEF AgreeInv
<1>1. UNCHANGED <<removal, made, channel, bandwidth, arriving, asked, faults, at>>
  BY DEF DisconnectJob, boundVars, workerVars
<1>2. Takes(s, "disconnect") /\ jobs' = Rest(s)
  BY DEF DisconnectJob
<1>3. Gone(s)'
  BY <1>0, <1>1, <1>2, TakenThins DEF RequestInv, ThreadInv, Gone
<1>4. NoFrame
  <2>1. CASE wire' = wire
    BY <2>1, SameNoFrame
  <2>2. CASE Close(s, previous[s] \ {None})
    BY <1>0, <2>2, CloseNoFrame
  <2> QED BY <2>1, <2>2 DEF DisconnectJob
<1>5. JobsBut("none") /\ FramesBut("none")
  BY <1>0, <1>2, <1>4, RestNoJob, ButJobs, ButFrames, Zenon
<1>6. /\ \A x \in Side : medium'[x] \in {medium[x], None} \cup Wanted
      /\ \A x \in Side : previous'[x] \subseteq previous[x] \cup {None}
      /\ \A x \in Side : x # s => medium'[x] = medium[x] /\ (x \in in_progress => x \in in_progress')
  BY <1>0 DEF DisconnectJob, EntryType, entryVars
<1>7. LeftInv'
  BY <1>0, <1>1, <1>5, <1>6, LeftBut
<1>8. PrefInv'
  BY <1>0, <1>1, <1>5, <1>6, PrefBut
<1>9. PhaseInv'
  BY <1>3 DEF PhaseInv, Together
<1> QED BY <1>7, <1>8, <1>9, Zenon DEF AgreeInv

\* The frames and jobs of RemoveEndpoint.
LEMMA LeavingBut ==
  ASSUME TypeOK, NEW s \in Side, Manager(s)
  PROVE  JobsBut("disconnect") /\ FramesBut("bye")
<1>0. ChannelType /\ WireType /\ JobType
  BY TypeParts
<1>1. CASE \E step \in {"closing", "last"} :
             channel[s] # None /\ SaysGoodbye(s, step) /\ UNCHANGED jobs
  <2>1. PICK step \in {"closing", "last"} : channel[s] # None /\ SaysGoodbye(s, step)
    BY <1>1
  <2>2. CASE wire' = wire
    BY <1>1, <2>2, SameNoFrame, SameNoJob, ButJobs, ButFrames, Zenon
  <2>3. CASE wire' # wire
    <3> DEFINE n == IF channel[s] \in crypto[s] THEN encoded'[s] ELSE 0
               f == [type |-> "bye", of |-> None, seq |-> n]
               c == channel[s]
               p == Peer(s)
    <3>1. n \in Nat
      BY <1>0, <2>1 DEF SaysGoodbye, Encodes, WireType
    <3>2. f \in Frame /\ f.type = "bye" /\ f.of = None
      BY <3>1 DEF Frame
    <3>3. wire' = [wire EXCEPT ![p][c] = Append(@, f)]
      BY <2>1, <2>3 DEF SaysGoodbye
    <3>4. p \in Side /\ c \in Mediums
      BY <1>0, <2>1, PeerSide, MediumsNat DEF ChannelType
    <3> HIDE DEF n, f, c, p
    <3>5. /\ \A x \in Side : \A t : x # p \/ f.type # t => Thins(x, t)
          /\ \A x \in Side : \A t : x # p \/ f.type # t => WireSame(x, t)
          /\ \A t : \A M : WireAbout(p, t, M) /\ f.of \in M => WireAbout(p, t, M)'
      BY <1>0, <3>2, <3>3, <3>4, SendThins, SendAbout
    <3>6. FrameTo(p, "bye", None)
      BY <3>2, <3>5, Zenon DEF FrameTo
    <3> QED BY <1>1, <3>6, SameNoJob, ButJobs, ButFrames, Zenon
  <2> QED BY <2>2, <2>3
<1>2. CASE Unregister(s)
  <2>1. NoFrame
    BY <1>0, <1>2, CloseNoFrame DEF Unregister
  <2>2. CASE jobs' = [jobs EXCEPT ![s] = Post(s, "disconnect", None)]
    <3>1. [type |-> "disconnect", of |-> None] \in Job
      BY DEF Job
    <3>2. JobTo(s, "disconnect", None)
      BY <1>0, <2>2, <3>1, PostJob
    <3> QED BY <2>1, <3>2, ButJobs, ButFrames, Zenon
  <2>3. CASE UNCHANGED jobs
    BY <2>1, <2>3, SameNoJob, ButJobs, ButFrames, Zenon
  <2> QED BY <1>2, <2>2, <2>3 DEF Unregister
<1>3. CASE UNCHANGED <<wire, jobs>>
  BY <1>3, SameNoFrame, SameNoJob, ButJobs, ButFrames, Zenon
<1>4. CASE RemoveEndpoint(s)
  <2>1. channel[s] # None /\ SaysGoodbye(s, "closing") /\ UNCHANGED jobs
    BY <1>4 DEF RemoveEndpoint, bwuVars
  <2> QED BY <1>1, <2>1
<1>5. CASE RemoveEndpointState(s)
  <2>1. UNCHANGED jobs
    BY <1>5 DEF RemoveEndpointState, bwuVars
  <2>2. (channel[s] # None /\ SaysGoodbye(s, "last")) \/ UNCHANGED wire
    BY <1>5 DEF RemoveEndpointState
  <2> QED BY <1>1, <1>3, <2>1, <2>2
<1> QED BY <1>2, <1>4, <1>5 DEF Manager

\* An endpoint is removed: from then on nothing is said of it but that the first channel was left.
LEMMA LeavingAgrees ==
  ASSUME TypeOK, AgreeInv, NEW s \in Side, Manager(s)
  PROVE  AgreeInv'
<1>0. LeftInv /\ PrefInv
  BY DEF AgreeInv
<1>1. /\ UNCHANGED <<at, arriving, previous, medium, made, bandwidth>>
      /\ Gone(s)' /\ channel'[s] \in {channel[s], None}
      /\ \A x \in Side : x # s => channel'[x] = channel[x]
  BY LeavingFacts
<1>2. JobsBut("disconnect") /\ FramesBut("bye")
  BY LeavingBut
<1>3. LeftInv'
  <2>0. "incoming" # "disconnect" /\ \A x \in Side : About(jobs[x], "incoming", Mediums \ {1})
    BY <1>0 DEF LeftInv, NewInv
  <2>1. \A x \in Side : About(jobs'[x], "incoming", Mediums \ {1})
    BY <1>2, <2>0, JobsButFacts
  <2>2. \A x \in Side : NewInv(x)'
    BY <1>0, <1>1, <2>1 DEF LeftInv, NewInv
  <2>3. \A x \in Side : Moved(x)' => Moved(x)
    BY <1>1 DEF Moved
  <2>4. ASSUME NEW x \in Side PROVE Answered(x)' => Answered(x)
    <3>1. Thins(x, "safe") /\ JobsThin(x, "safe")
      BY <1>2, FramesButFacts, JobsButFacts
    <3>2. FrameOn(x, "safe")' => FrameOn(x, "safe")
      BY <3>1, ThinsFrames, Zenon
    <3>3. HasType(jobs'[x], "safe") => HasType(jobs[x], "safe")
      BY <3>1, Zenon DEF JobsThin
    <3> QED BY <1>1, <3>2, <3>3 DEF Answered
  <2>5. \A x \in Side : channel[x] # 1 => channel'[x] # 1
    BY <1>1 DEF None
  <2> QED BY <1>0, <1>1, <2>2, <2>3, <2>4, <2>5, LeftKept
<1>4. PrefInv'
  <2>1. \A x \in Side : medium'[x] \in {medium[x], None} \cup Wanted
    BY <1>1
  <2> QED BY <1>0, <1>1, <1>2, <2>1, PrefBut
<1>5. PhaseInv'
  BY <1>1 DEF PhaseInv, Together
<1> QED BY <1>3, <1>4, <1>5, Zenon DEF AgreeInv
\* The acknowledgement is the only frame that is brought.
LEMMA AckFrame ==
  ASSUME WireType, NEW p \in Side, NEW m \in Mediums, NEW a, a.type = "ack",
         wire' = [wire EXCEPT ![p][m] = <<a>>]
  PROVE  FramesBut("ack")
<1>1. DOMAIN <<a>> = {1} /\ <<a>>[1] = a
  OBVIOUS
<1>2. \A t : t # "ack" => /\ ~HasType(<<a>>, t) /\ OnlyOne(<<a>>, t)
                          /\ \A A : About(<<a>>, t, A)
  BY <1>1 DEF HasType, OnlyOne, About
<1>3. /\ wire'[p][m] = <<a>>
      /\ \A y \in Side : \A c \in Mediums : ~(y = p /\ c = m) => wire'[y][c] = wire[y][c]
  BY DEF WireType
<1> SUFFICES ASSUME NEW x \in Side, NEW t, t # "ack" PROVE Thins(x, t) /\ WireSame(x, t)
  BY DEF FramesBut
<1>4. ASSUME NEW c \in Mediums
      PROVE  /\ HasType(wire'[x][c], t) => HasType(wire[x][c], t)
             /\ OnlyOne(wire[x][c], t) => OnlyOne(wire'[x][c], t)
             /\ \A A : About(wire[x][c], t, A) => About(wire'[x][c], t, A)
  <2>1. CASE x = p /\ c = m
    <3>1. wire'[x][c] = <<a>>
      BY <1>3, <2>1
    <3>2. ~HasType(<<a>>, t) /\ OnlyOne(<<a>>, t) /\ \A A : About(<<a>>, t, A)
      BY <1>2
    <3> QED BY <3>1, <3>2, Zenon
  <2>2. CASE ~(x = p /\ c = m)
    <3>1. wire'[x][c] = wire[x][c]
      BY <1>3, <2>2
    <3> QED BY <3>1, Zenon
  <2> QED BY <2>1, <2>2
<1> QED BY <1>4, Zenon DEF Thins, WireSame, WireAbout

\* A job that is taken is about a medium of the set.
LEMMA HeadAbout ==
  ASSUME JobType, NEW s \in Side, NEW u, NEW A, Takes(s, u), About(jobs[s], u, A)
  PROVE  Of(s) \in A
<1>1. jobs[s] \in Seq(Job) /\ jobs[s] # <<>> /\ Head(jobs[s]).type = u
  BY DEF Takes, JobType
<1>2. Head(jobs[s]).type = u => Head(jobs[s]).of \in A
  BY <1>1, AboutTail, Zenon
<1> QED BY <1>1, <1>2 DEF Of

\* The accepting thread hands over a connection.
LEMMA AcceptAgrees ==
  ASSUME TypeOK, AgreeInv, NEW s \in Side, NEW m \in Mediums, Accept(s, m)
  PROVE  AgreeInv'
<1>0. ChannelType /\ WireType /\ JobType /\ LeftInv /\ PrefInv /\ PhaseInv
  BY TypeParts DEF AgreeInv
<1>1. /\ UNCHANGED <<removal, made, channel, bandwidth, asked, faults, at, medium, in_progress, alarm, previous, wire>>
      /\ \A x \in Side : arriving'[x] \subseteq arriving[x]
      /\ m \in arriving[s]
  BY <1>0 DEF Accept, entryVars, boundVars, ChannelType, workerVars
<1>2. JobTo(s, "incoming", m)
  <2>1. [type |-> "incoming", of |-> m] \in Job
    BY DEF Job
  <2> QED BY <1>0, <2>1, PostJob DEF Accept
<1>3. JobsBut("incoming") /\ FramesBut("none")
  BY <1>1, <1>2, SameNoFrame, ButJobs, ButFrames, Zenon
<1>4. ASSUME NEW A, m \in A, NEW x \in Side, About(jobs[x], "incoming", A)
      PROVE  About(jobs'[x], "incoming", A)
  BY <1>2, <1>4 DEF JobTo
<1>5. LeftInv'
  <2>0. m \in Mediums \ {1} /\ \A x \in Side : About(jobs[x], "incoming", Mediums \ {1})
    BY <1>0, <1>1 DEF LeftInv, NewInv
  <2>1. \A x \in Side : About(jobs'[x], "incoming", Mediums \ {1})
    BY <1>4, <2>0
  <2>2. \A x \in Side : Thins(x, "safe") /\ JobsThin(x, "safe")
    BY <1>3, FramesButFacts, JobsButFacts
  <2> QED BY <1>0, <1>1, <2>1, <2>2, LeftQuiet
<1>6. PrefInv'
  <2>1. \A x \in Side : medium'[x] \in {medium[x], None} \cup Wanted
    BY <1>1
  <2> QED BY <1>0, <1>1, <1>3, <2>1, PrefBut
<1>7. PhaseInv'
  <2>1. ~Before
    BY <1>1 DEF Before
  <2>2. ASSUME NEW k \in Wanted, SettledOn(k) PROVE SettledOn(k)'
    <3>1. \A x \in Side : /\ arriving[x] \subseteq {k} /\ About(jobs[x], "incoming", {k})
                          /\ channel[x] # None =>
                               /\ medium[x] = k /\ About(jobs[x], "init", {k, None})
                               /\ channel[x] = 1 => x \in in_progress \/ at[x].step = "ack"
      BY <2>2 DEF SettledOn, SettledSide
    <3>2. \A x \in Side : About(jobs'[x], "incoming", {k})
      BY <1>1, <1>4, <3>1
    <3>3. \A x \in Side : \A t \in {"path", "failure"} : Thins(x, t) /\ JobsThin(x, t)
      BY <1>3, FramesButFacts, JobsButFacts
    <3>4. \A x \in Side : channel[x] # None => About(jobs'[x], "init", {k, None})
      BY <1>3, <3>1, JobsButFacts
    <3> QED BY <1>1, <2>2, <3>1, <3>2, <3>3, <3>4, SettledQuiet
  <2>3. Together' => Together
    BY <1>1 DEF Together, Gone
  <2> QED BY <1>0, <1>1, <2>1, <2>2, <2>3, PhaseKept, Zenon
<1> QED BY <1>5, <1>6, <1>7, Zenon DEF AgreeInv

\* A side changes over to the channel whose introduction it has read, or acknowledged.
LEMMA IncomingJobAgrees ==
  ASSUME TypeOK, AgreeInv, NEW s \in Side, IncomingJob(s)
  PROVE  AgreeInv'
<1>0. /\ ChannelType /\ WireType /\ JobType /\ LeftInv /\ PrefInv /\ PhaseInv
      /\ Takes(s, "incoming") /\ jobs' = Rest(s) /\ at[s].step = "idle" /\ Of(s) \in Mediums
  BY TypeParts, TakesFacts DEF AgreeInv, IncomingJob, Takes, Idle
<1> DEFINE m == Of(s)
           ack == [type |-> "ack", of |-> None, seq |-> 0]
           acknowledged == [wire EXCEPT ![Peer(s)][m] = <<ack>>]
<1>1. UNCHANGED <<removal, channel, made, bandwidth, arriving, asked, faults, medium, in_progress, previous>>
  BY DEF IncomingJob, entryVars, boundVars, workerVars
<1>2. \/ Close(s, {m}) /\ UNCHANGED at
      \/ wire' \in {wire, acknowledged} /\ UNCHANGED at
      \/ wire' \in {wire, acknowledged} /\ RunUpgradeProtocol(s, m)
  BY DEF IncomingJob
<1>3. FramesBut("ack") /\ JobsBut("none")
  <2>1. JobsBut("none")
    BY <1>0, RestNoJob, ButJobs, Zenon
  <2>2. CASE wire' = wire
    BY <2>1, <2>2, SameNoFrame, ButFrames, Zenon
  <2>3. CASE Close(s, {m})
    BY <1>0, <2>1, <2>3, CloseNoFrame, ButFrames, Zenon
  <2>4. CASE wire' = acknowledged
    <3>1. ack.type = "ack" /\ Peer(s) \in Side
      BY PeerSide
    <3> HIDE DEF ack
    <3> QED BY <1>0, <2>1, <2>4, <3>1, AckFrame
  <2> QED BY <1>2, <2>2, <2>3, <2>4
<1>4. /\ \A x \in Side : x # s => at'[x] = at[x]
      /\ at'[s].step = "idle" \/ (at'[s].step = "replace" /\ at'[s].of = m)
  <2>1. CASE UNCHANGED at
    BY <1>0, <2>1
  <2>2. CASE RunUpgradeProtocol(s, m)
    BY <1>0, <2>2, RunUpgradeFacts DEF Idle
  <2> QED BY <1>2, <2>1, <2>2
<1> HIDE DEF m, ack, acknowledged
<1>5. LeftInv'
  <2>0. /\ About(jobs[s], "incoming", Mediums \ {1})
        /\ \A x \in Side : About(jobs[x], "incoming", Mediums \ {1})
    BY <1>0 DEF LeftInv, NewInv
  <2>1. m # 1
    BY <1>0, <2>0, HeadAbout DEF m
  <2>2. \A x \in Side : About(jobs'[x], "incoming", Mediums \ {1})
    BY <1>3, <2>0, JobsButFacts
  <2>3. \A x \in Side : NewInv(x)'
    BY <1>0, <1>1, <1>4, <2>1, <2>2 DEF LeftInv, NewInv
  <2>4. \A x \in Side : Moved(x)' => Moved(x)
    BY <1>1, <1>4 DEF Moved
  <2>5. \A x \in Side : at'[x].step \in {"bye", "drain"} => Answered(x)
    BY <1>4 DEF Answered
  <2>6. \A x \in Side : Answered(x)' => Answered(x)
    BY <1>1, <1>3, <2>5, AnsweredQuiet
  <2> QED BY <1>0, <1>1, <2>3, <2>4, <2>6, LeftKept
<1>6. PrefInv'
  <2>1. \A x \in Side : medium'[x] \in {medium[x], None} \cup Wanted
    BY <1>1
  <2>2. \A x \in Side : at'[x] = at[x] \/ at'[x].step # "path"
    BY <1>4
  <2> QED BY <1>0, <1>3, <2>1, <2>2, PrefBut
<1>7. PhaseInv'
  <2>1. ~Before
    BY <1>0, TakenThins DEF Before
  <2>2. ASSUME NEW k \in Wanted, SettledOn(k) PROVE SettledOn(k)'
    <3>1. \A x \in Side : /\ About(jobs[x], "incoming", {k})
                          /\ channel[x] # None =>
                               /\ medium[x] = k
                               /\ channel[x] = 1 => x \in in_progress \/ at[x].step = "ack"
      BY <2>2 DEF SettledOn, SettledSide
    <3>2. m = k
      BY <1>0, <3>1, HeadAbout DEF m
    <3>4. \A x \in Side : channel'[x] \in {channel[x], k, None}
      BY <1>1
    <3>5. /\ \A x \in Side : at'[x] = at[x] \/ at'[x].step \notin {"path", "failure", "ack"}
          /\ \A x \in Side : at'[x] = at[x] \/ at'[x].step # "replace" \/ at'[x].of = k
      BY <1>4, <3>2
    <3>6. \A x \in Side : channel'[x] # None =>
            /\ medium'[x] = k /\ channel[x] # None
            /\ channel'[x] = 1 => x \in in_progress' \/ at'[x].step = "ack"
      BY <1>0, <1>1, <1>4, <3>1
    <3> QED BY <1>1, <1>3, <2>2, <3>4, <3>5, <3>6, SettledBut
  <2>3. Together' => Together
    BY <1>1 DEF Together, Gone
  <2> QED BY <1>0, <1>1, <2>1, <2>2, <2>3, PhaseKept, Zenon
<1> QED BY <1>5, <1>6, <1>7, Zenon DEF AgreeInv

\* The other side does when it has read the acknowledgement.
LEMMA ReadAckAgrees ==
  ASSUME TypeOK, AgreeInv, NEW s \in Side, ReadAck(s)
  PROVE  AgreeInv'
<1>0. /\ ChannelType /\ WireType /\ JobType /\ LeftInv /\ PrefInv /\ PhaseInv
      /\ at[s].step = "ack" /\ at[s].on \in Mediums
  BY TypeParts, StepFacts DEF AgreeInv, ReadAck
<1> DEFINE m == at[s].on
<1>1. UNCHANGED <<removal, channel, made, bandwidth, arriving, asked, medium, previous, jobs>>
  BY DEF ReadAck, workerVars
<1>2. \/ /\ wire[s][m] # <<>> /\ Took(s, m) /\ RunUpgradeProtocol(s, m)
         /\ in_progress' = in_progress \cup {s} /\ faults' = faults
      \/ /\ Close(s, {m}) /\ UNCHANGED in_progress /\ faults' = faults \cup {"timeout"}
         /\ Ends(s) \/ Goes(s, "failure", channel[s], m)
  BY DEF ReadAck
<1>3. FramesBut("none") /\ JobsBut("none")
  <2>1. NoFrame
    BY <1>0, <1>2, TookNoFrame, CloseNoFrame
  <2> QED BY <1>1, <2>1, SameNoJob, ButJobs, ButFrames, Zenon
<1>4. /\ \A x \in Side : x # s => at'[x] = at[x]
      /\ at'[s].step \in {"idle", "failure"} \/ (at'[s].step = "replace" /\ at'[s].of = m)
  <2>1. CASE Ends(s) \/ Goes(s, "failure", channel[s], m)
    BY <1>0, <2>1 DEF Ends, Goes, JobType, Idle
  <2>2. CASE RunUpgradeProtocol(s, m)
    BY <1>0, <2>2, RunUpgradeFacts DEF Idle
  <2> QED BY <1>2, <2>1, <2>2
<1>a. /\ in_progress \subseteq in_progress'
      /\ "timeout" \notin faults' => /\ s \in in_progress' \/ channel[s] = None
                                     /\ at'[s].step \in {"idle", "replace"}
  <2>1. CASE faults' = faults \cup {"timeout"} /\ in_progress' = in_progress
    BY <2>1
  <2>2. CASE faults' = faults /\ RunUpgradeProtocol(s, m) /\ in_progress' = in_progress \cup {s}
    BY <1>0, <2>2, RunUpgradeFacts DEF Idle
  <2> QED BY <1>2, <2>1, <2>2
<1> HIDE DEF m
<1>5. LeftInv'
  <2>1. m # 1
    BY <1>0 DEF m, LeftInv, NewInv
  <2>2. \A x \in Side : NewInv(x)'
    BY <1>0, <1>1, <1>4, <2>1 DEF LeftInv, NewInv
  <2>4. \A x \in Side : Moved(x)' => Moved(x)
    BY <1>1, <1>4 DEF Moved
  <2>5. \A x \in Side : at'[x].step \in {"bye", "drain"} => Answered(x)
    BY <1>4 DEF Answered
  <2>6. \A x \in Side : Answered(x)' => Answered(x)
    BY <1>1, <1>3, <2>5, AnsweredQuiet
  <2> QED BY <1>0, <1>1, <2>2, <2>4, <2>6, LeftKept
<1>6. PrefInv'
  <2>1. \A x \in Side : medium'[x] \in {medium[x], None} \cup Wanted
    BY <1>1
  <2>2. \A x \in Side : at'[x] = at[x] \/ at'[x].step # "path"
    BY <1>4
  <2> QED BY <1>0, <1>3, <2>1, <2>2, PrefBut
<1>7. PhaseInv'
  <2>1. ~Before
    BY <1>0 DEF Before
  <2>2. ASSUME NEW k \in Wanted, SettledOn(k), "timeout" \notin faults' PROVE SettledOn(k)'
    <3>1. \A x \in Side : /\ at[x].step = "ack" => at[x].on = k
                          /\ channel[x] # None =>
                               /\ medium[x] = k
                               /\ channel[x] = 1 => x \in in_progress \/ at[x].step = "ack"
      BY <2>2 DEF SettledOn, SettledSide
    <3>2. m = k
      BY <1>0, <3>1 DEF m
    <3>4. \A x \in Side : channel'[x] \in {channel[x], k, None}
      BY <1>1
    <3>5. /\ \A x \in Side : at'[x] = at[x] \/ at'[x].step \notin {"path", "failure", "ack"}
          /\ \A x \in Side : at'[x] = at[x] \/ at'[x].step # "replace" \/ at'[x].of = k
      BY <1>4, <1>a, <2>2, <3>2
    <3>6. \A x \in Side : channel'[x] # None =>
            /\ medium'[x] = k /\ channel[x] # None
            /\ channel'[x] = 1 => x \in in_progress' \/ at'[x].step = "ack"
      BY <1>0, <1>1, <1>4, <1>a, <2>2, <3>1
    <3> QED BY <1>1, <1>3, <2>2, <3>4, <3>5, <3>6, SettledBut
  <2>3. Together' => Together
    BY <1>1 DEF Together, Gone
  <2>4. "timeout" \in faults => "timeout" \in faults'
    BY <1>2
  <2> QED BY <1>0, <2>1, <2>2, <2>3, <2>4, PhaseKept, Zenon
<1> QED BY <1>5, <1>6, <1>7, Zenon DEF AgreeInv

\* The new channel is registered: its medium is the one that was agreed on.
LEMMA ReplaceAgrees ==
  ASSUME TypeOK, RequestInv, AgreeInv, NEW s \in Side, Replace(s)
  PROVE  AgreeInv'
<1>0. /\ ChannelType /\ JobType /\ LeftInv /\ PrefInv /\ PhaseInv
      /\ at[s].step = "replace" /\ at[s].of # 1
  BY TypeParts DEF AgreeInv, Replace, LeftInv, NewInv
<1>1. UNCHANGED <<removal, made, bandwidth, arriving, asked, medium, previous, jobs, in_progress, faults,
                  wire>>
  BY DEF Replace, entryVars, boundVars, workerVars
<1>2. /\ channel'[s] = at[s].of /\ at'[s].step = "last"
      /\ \A x \in Side : x # s => channel'[x] = channel[x] /\ at'[x] = at[x]
  BY <1>0 DEF Replace, Goes, ChannelType, JobType
<1>3. FramesBut("none") /\ JobsBut("none")
  BY <1>1, SameNoFrame, SameNoJob, ButJobs, ButFrames, Zenon
<1>4. LeftInv'
  <2>1. \A x \in Side : NewInv(x)'
    BY <1>0, <1>1, <1>2 DEF LeftInv, NewInv
  <2>2. \A x \in Side : Moved(x)' => Moved(x) \/ channel'[x] # 1
    BY <1>0, <1>1, <1>2 DEF Moved
  <2>3. \A x \in Side : at'[x].step \in {"bye", "drain"} => Answered(x)
    BY <1>2 DEF Answered
  <2>4. \A x \in Side : Answered(x)' => Answered(x)
    BY <1>1, <1>3, <2>3, AnsweredQuiet
  <2>5. \A x \in Side : channel[x] # 1 => channel'[x] # 1
    BY <1>0, <1>2
  <2> QED BY <1>0, <1>1, <2>1, <2>2, <2>4, <2>5, LeftKept
<1>5. PrefInv'
  <2>1. \A x \in Side : medium'[x] \in {medium[x], None} \cup Wanted
    BY <1>1
  <2>2. \A x \in Side : at'[x] = at[x] \/ at'[x].step # "path"
    BY <1>2
  <2> QED BY <1>0, <1>3, <2>1, <2>2, PrefBut
<1>6. PhaseInv'
  <2>1. ~Before
    BY <1>0 DEF Before
  <2>2. Together' => Together
    BY <1>1 DEF Together, Gone
  <2>3. ASSUME NEW m \in Wanted, SettledOn(m), Together' PROVE SettledOn(m)'
    <3>1. \A x \in Side : channel[x] # None
      BY <2>2, <2>3 DEF Together, RequestInv, ThreadInv
    <3>2. at[s].of = m
      BY <1>0, <2>3 DEF SettledOn, SettledSide
    <3>3. \A x \in Side : medium[x] = m /\ (channel[x] = 1 => x \in in_progress \/ at[x].step = "ack")
      BY <2>3, <3>1 DEF SettledOn, SettledSide
    <3>4. \A x \in Side : channel'[x] \in {channel[x], m, None}
      BY <1>2, <3>2
    <3>5. /\ \A x \in Side : at'[x] = at[x] \/ at'[x].step \notin {"path", "failure", "ack"}
          /\ \A x \in Side : at'[x] = at[x] \/ at'[x].step # "replace" \/ at'[x].of = m
      BY <1>2
    <3>6. \A x \in Side : channel'[x] # None =>
            /\ medium'[x] = m /\ channel[x] # None
            /\ channel'[x] = 1 => x \in in_progress' \/ at'[x].step = "ack"
      BY <1>0, <1>1, <1>2, <3>1, <3>3
    <3> QED BY <1>1, <1>3, <2>3, <3>4, <3>5, <3>6, SettledBut
  <2> QED BY <1>0, <1>1, <2>1, <2>2, <2>3, PhaseKept, Zenon
<1> QED BY <1>4, <1>5, <1>6, Zenon DEF AgreeInv

----------------------------------------------------------------------------
(* Upgrades are asked for *)

\* A job that is taken was there.
LEMMA TakesHas ==
  ASSUME JobType, NEW s \in Side, NEW u, Takes(s, u)
  PROVE  HasType(jobs[s], u)
<1>1. jobs[s] \in Seq(Job) /\ jobs[s] # <<>> /\ Head(jobs[s]).type = u
  BY DEF Takes, JobType
<1> QED BY <1>1, TailFacts, Zenon

\* What is proposed is wanted.
LEMMA ChooseWanted ==
  ASSUME NEW s \in Side, medium[s] \in Wanted \cup {None}
  PROVE  /\ ChooseBestUpgradeMedium(s, Preferred) \in Wanted \cup {None}
         /\ medium[s] # None => ChooseBestUpgradeMedium(s, Preferred) = medium[s]
  BY UpgradeConstants DEF ChooseBestUpgradeMedium, Wanted, ListOf

\* The next medium of a retry is wanted as well.
LEMMA NextWanted ==
  ASSUME NEW m
  PROVE  (IF Untried(m) = <<>> THEN None ELSE Untried(m)[1]) \in Wanted \cup {None}
<1> SUFFICES ASSUME Untried(m) # <<>>, m \in Wanted PROVE Untried(m)[1] \in Wanted
  BY DEF Untried, Wanted
<1> DEFINE i == CHOOSE j \in DOMAIN Preferred : Preferred[j] = m
           n == Len(Preferred)
<1>1. Preferred \in Seq(2 .. LastMedium) /\ n \in Nat /\ DOMAIN Preferred = 1 .. n
  BY UpgradeConstants
<1>2. i \in 1 .. n
  BY <1>1 DEF Wanted, ListOf
<1>3. Untried(m) = SubSeq(Preferred, i + 1, n)
  BY DEF Untried, Wanted
<1> HIDE DEF i
<1>4. CASE i + 1 \in 1 .. n
  <2>1. Untried(m)[1] = Preferred[i + 1]
    BY <1>1, <1>2, <1>3, <1>4
  <2> QED BY <1>1, <1>4, <2>1 DEF Wanted, ListOf
<1>5. CASE i + 1 \notin 1 .. n
  <2>1. Untried(m) = <<>>
    BY <1>1, <1>2, <1>3, <1>5
  <2> QED BY <2>1
<1> QED BY <1>4, <1>5

\* When a side retries, its wish is a new job of InitiateBwuForEndpoint, or an alarm, or none.
LEMMA RetryWish ==
  ASSUME JobType, NEW s \in Side, NEW u, Takes(s, u), NEW next \in 0 .. LastMedium, NEW set,
         RetryUpgradeMediums(s, next, Rest(s), set), s \notin set,
         NEW h \in Wishes, Wish(s, h), WishInv(s), h = "init" => u = "init", h = "retry" => u = "retry",
         at'[s].step # "path", ~Asks(s)', asked \subseteq asked'
  PROVE  /\ WishInv(s)'
         /\ \/ ~HasType(jobs'[s], "init")
            \/ /\ next # None /\ (channel[s] # WifiLan => next # channel[s])
               /\ Ordered(jobs'[s], next)
<1>1. /\ s \in asked /\ OnlyOne(jobs[s], "init") /\ OnlyOne(jobs[s], "retry")
      /\ h # "init" => ~HasType(jobs[s], "init")
      /\ h # "retry" => ~HasType(jobs[s], "retry")
  BY WishOne
<1>2. jobs[s] \in Seq(Job) /\ jobs[s] # <<>> /\ Head(jobs[s]).type = u
  BY DEF Takes, JobType
<1>3. /\ ~HasType(Tail(jobs[s]), "init") /\ OnlyOne(Tail(jobs[s]), "init")
      /\ ~HasType(Tail(jobs[s]), "retry") /\ OnlyOne(Tail(jobs[s]), "retry")
  BY <1>1, <1>2, TailFacts
<1>4. CASE jobs' = Rest(s)
  <2>1. jobs'[s] = Tail(jobs[s])
    BY <1>4 DEF Rest, JobType
  <2>2. /\ ~HasType(jobs'[s], "init") /\ OnlyOne(jobs'[s], "init")
        /\ ~HasType(jobs'[s], "retry") /\ OnlyOne(jobs'[s], "retry")
    BY <1>3, <2>1, Zenon
  <2>3. s \in asked'
    BY <1>1
  <2>4. WishInv(s)'
    BY <2>2, <2>3, WishOnly
  <2> QED BY <2>2, <2>4
<1>5. CASE jobs' # Rest(s)
  <2>1. /\ next # None /\ (channel[s] # WifiLan => next # channel[s]) /\ alarm' = set
        /\ jobs' = [Rest(s) EXCEPT ![s] = Append(@, [type |-> "init", of |-> next])]
    BY <1>5 DEF RetryUpgradeMediums
  <2>2. u = "init" \/ ~HasType(jobs[s], "init")
    BY <1>1
  <2>3. OnlyOne(jobs'[s], "init") /\ Ordered(jobs'[s], next)
    BY <1>1, <2>1, <2>2, RestPostAbout
  <2>4. ~HasType(jobs'[s], "retry") /\ OnlyOne(jobs'[s], "retry")
    <3> DEFINE q == Tail(jobs[s])
               e == [type |-> "init", of |-> next]
    <3>1. jobs'[s] = Append(q, e)
      BY <2>1 DEF Rest, JobType
    <3>2. q \in Seq(Job) /\ e \in Job /\ e.type # "retry"
      BY <1>2 DEF Job
    <3>3. ~HasType(q, "retry") /\ OnlyOne(q, "retry")
      BY <1>3
    <3> HIDE DEF q, e
    <3>4. ~HasType(Append(q, e), "retry") /\ OnlyOne(Append(q, e), "retry")
      BY <3>2, <3>3, HasAppend, OneAppend
    <3> QED BY <3>1, <3>4, Zenon
  <2>5. s \in asked' /\ s \notin alarm'
    BY <1>1, <2>1
  <2>6. WishInv(s)'
    BY <2>3, <2>4, <2>5, WishOnly
  <2> QED BY <2>1, <2>3, <2>6
<1> QED BY <1>4, <1>5

\* The jobs of a retry.
LEMMA RetryJobsBut ==
  ASSUME JobType, NEW s \in Side, NEW u, Takes(s, u), NEW next \in 0 .. LastMedium, NEW set,
         RetryUpgradeMediums(s, next, Rest(s), set)
  PROVE  /\ JobsBut("init") /\ \A x \in Side : x # s => jobs'[x] = jobs[x] /\ (x \in alarm' => x \in set)
         /\ \A A : About(jobs[s], "init", A) /\ next \in A => About(jobs'[s], "init", A)
<1>1. CASE jobs' = Rest(s)
  <2>1. NoJob
    BY <1>1, RestNoJob
  <2>2. JobsBut("init") /\ \A A : About(jobs[s], "init", A) => About(jobs'[s], "init", A)
    <3>1. JobsBut("init")
      BY <2>1, ButJobs
    <3>2. JobsBut("none")
      BY <2>1, ButJobs
    <3> QED BY <3>1, <3>2, JobsButFacts
  <2>3. \A x \in Side : x # s => jobs'[x] = jobs[x] /\ (x \in alarm' => x \in set)
    BY <1>1 DEF Rest, JobType, RetryUpgradeMediums
  <2> QED BY <2>2, <2>3
<1>2. CASE jobs' # Rest(s)
  <2>1. /\ alarm' = set
        /\ jobs' = [Rest(s) EXCEPT ![s] = Append(@, [type |-> "init", of |-> next])]
    BY <1>2 DEF RetryUpgradeMediums
  <2>2. JobTo(s, "init", next)
    BY <2>1, RestPostJob
  <2>3. JobsBut("init")
    BY <2>2, ButJobs
  <2> QED BY <2>1, <2>2, <2>3, Zenon DEF JobTo
<1> QED BY <1>1, <1>2

\* The wish of the peer stays, and the order of its jobs.
LEMMA PeerSame ==
  ASSUME Before, NEW s \in Side, NEW p \in Side, p # s, jobs'[p] = jobs[p], at'[p] = at[p],
         p \in alarm' => p \in alarm, Asks(p)' => Asks(p), medium'[p] = medium[p],
         asked \subseteq asked'
  PROVE  WishInv(p)' /\ Ordered(jobs'[p], medium'[p])
<1>1. WishInv(p) /\ Ordered(jobs[p], medium[p])
  BY DEF Before
<1>2. JobsThin(p, "init") /\ JobsThin(p, "retry")
  BY Zenon DEF JobsThin
<1>3. WishInv(p)'
  BY <1>1, <1>2, WishQuiet
<1> QED BY <1>1, <1>3, Zenon

\* InitiateBwuForEndpoint is called once.
LEMMA InitiateBwuForEndpointAgrees ==
  ASSUME TypeOK, AgreeInv, NEW s \in Side, InitiateBwuForEndpoint(s)
  PROVE  AgreeInv'
<1>0. JobType /\ LeftInv /\ PrefInv /\ PhaseInv
  BY TypeParts DEF AgreeInv
<1>1. UNCHANGED <<removal, made, channel, bandwidth, arriving, faults, at, medium, in_progress, alarm, previous, wire>>
  BY DEF InitiateBwuForEndpoint, channelVars, entryVars, workerVars
<1>2. s \notin asked /\ asked' = asked \cup {s} /\ jobs' = [jobs EXCEPT ![s] = Post(s, "init", None)]
  BY DEF InitiateBwuForEndpoint
<1>3. [type |-> "init", of |-> None] \in Job
  BY UpgradeConstants DEF Job, None
<1>4. JobTo(s, "init", None) /\ (~HasType(jobs[s], "init") => OnlyOne(jobs'[s], "init"))
  BY <1>0, <1>2, <1>3, PostJob, PostThins
<1>5. JobsBut("init") /\ FramesBut("none")
  BY <1>1, <1>4, SameNoFrame, ButJobs, ButFrames, Zenon
<1>6. LeftInv'
  BY <1>0, <1>1, <1>5, LeftBut
<1>7. ASSUME NEW A, None \in A, NEW x \in Side, About(jobs[x], "init", A) PROVE About(jobs'[x], "init", A)
  BY <1>4, <1>7 DEF JobTo
<1>8. PrefInv'
  <2>1. \A x \in Side : medium'[x] \in {medium[x], None} \cup Wanted
    BY <1>1
  <2>2. \A x \in Side : About(jobs[x], "init", Wanted \cup {None}) => About(jobs'[x], "init", Wanted \cup {None})
    BY <1>7
  <2> QED BY <1>0, <1>1, <1>5, <2>1, <2>2, PrefBut
<1>9. PhaseInv'
  <2>1. ASSUME Before PROVE Before'
    <3>1. \A x \in Side : Asks(x)' => Asks(x)
      BY <1>1, <1>5, AsksBut
    <3>2. WishInv(s) /\ Ordered(jobs[s], medium[s])
      BY <2>1 DEF Before
    <3>3. /\ ~HasType(jobs[s], "init") /\ at[s].step # "path" /\ ~Asks(s)
          /\ s \notin alarm /\ ~HasType(jobs[s], "retry")
      BY <1>2, <3>2, WishNone
    <3>4. JobsThin(s, "retry") /\ OnlyOne(jobs[s], "retry")
      BY <1>5, <3>2, JobsButFacts DEF WishInv
    <3>5. WishInv(s)'
      BY <1>1, <1>2, <1>4, <3>1, <3>3, <3>4, WishOnly DEF JobsThin
    <3>6. Ordered(jobs'[s], medium'[s])
      <4>1. None \in {None, medium[s]}
        OBVIOUS
      <4> QED BY <1>1, <1>4, <3>2, <4>1, Zenon DEF JobTo
    <3>7. ASSUME NEW x \in Side, x # s PROVE WishInv(x)' /\ Ordered(jobs'[x], medium'[x])
      <4>1. jobs'[x] = jobs[x]
        BY <1>4, <3>7, Zenon DEF JobTo
      <4> QED BY <1>1, <1>2, <2>1, <3>1, <3>7, <4>1, PeerSame
    <3>8. \A x \in Side : JobsThin(x, "incoming")
      BY <1>5, JobsButFacts
    <3>9. \A x \in Side : WishInv(x)' /\ Ordered(jobs'[x], medium'[x])
      BY <3>5, <3>6, <3>7, Zenon
    <3> QED BY <1>1, <2>1, <3>8, <3>9, BeforeQuiet
  <2>2. ASSUME NEW m \in Wanted, SettledOn(m) PROVE SettledOn(m)'
    <3>1. \A x \in Side : channel[x] # None =>
            /\ medium[x] = m /\ About(jobs[x], "init", {m, None})
            /\ channel[x] = 1 => x \in in_progress \/ at[x].step = "ack"
      BY <2>2 DEF SettledOn, SettledSide
    <3>2. \A x \in Side : channel[x] # None => About(jobs'[x], "init", {m, None})
      BY <1>7, <3>1
    <3> QED BY <1>1, <1>5, <2>2, <3>1, <3>2, SettledBut
  <2>3. Together' => Together
    BY <1>1 DEF Together, Gone
  <2> QED BY <1>0, <1>1, <2>1, <2>2, <2>3, PhaseKept, Zenon
<1> QED BY <1>6, <1>8, <1>9, Zenon DEF AgreeInv

\* An alarm becomes a job.
LEMMA AlarmFiresAgrees ==
  ASSUME TypeOK, AgreeInv, NEW s \in Side, AlarmFires(s)
  PROVE  AgreeInv'
<1>0. JobType /\ LeftInv /\ PrefInv /\ PhaseInv
  BY TypeParts DEF AgreeInv
<1>1. UNCHANGED <<removal, made, channel, bandwidth, arriving, faults, at, medium, in_progress, asked, previous, wire>>
  BY DEF AlarmFires, channelVars, entryVars, workerVars
<1>2. s \in alarm /\ alarm' = alarm \ {s} /\ jobs' = [jobs EXCEPT ![s] = Post(s, "retry", None)]
  BY DEF AlarmFires
<1>3. [type |-> "retry", of |-> None] \in Job
  BY DEF Job
<1>4. JobTo(s, "retry", None) /\ (~HasType(jobs[s], "retry") => OnlyOne(jobs'[s], "retry"))
  BY <1>0, <1>2, <1>3, PostJob, PostThins
<1>5. JobsBut("retry") /\ FramesBut("none")
  BY <1>1, <1>4, SameNoFrame, ButJobs, ButFrames, Zenon
<1>6. LeftInv'
  BY <1>0, <1>1, <1>5, LeftBut
<1>8. PrefInv'
  <2>1. \A x \in Side : medium'[x] \in {medium[x], None} \cup Wanted
    BY <1>1
  <2> QED BY <1>0, <1>1, <1>5, <2>1, PrefBut
<1>9. PhaseInv'
  <2>1. ASSUME Before PROVE Before'
    <3>1. \A x \in Side : Asks(x)' => Asks(x)
      BY <1>1, <1>5, AsksBut
    <3>2. WishInv(s) /\ Ordered(jobs[s], medium[s])
      BY <2>1 DEF Before
    <3>3. Wish(s, "alarm") /\ "alarm" \in Wishes
      BY <1>2 DEF Wish, Wishes
    <3>4. /\ ~HasType(jobs[s], "init") /\ at[s].step # "path" /\ ~Asks(s) /\ ~HasType(jobs[s], "retry")
          /\ OnlyOne(jobs[s], "init") /\ s \in asked
      BY <3>2, <3>3, WishOne
    <3>a. JobsThin(s, "init")
      BY <1>5, JobsButFacts
    <3>5. WishInv(s)'
      BY <1>1, <1>2, <1>4, <3>1, <3>4, <3>a, WishOnly DEF JobsThin
    <3>6. Ordered(jobs'[s], medium'[s])
      BY <1>1, <1>5, <3>2, OrderedBut
    <3>7. ASSUME NEW x \in Side, x # s PROVE WishInv(x)' /\ Ordered(jobs'[x], medium'[x])
      <4>1. jobs'[x] = jobs[x]
        BY <1>4, <3>7, Zenon DEF JobTo
      <4> QED BY <1>1, <1>2, <2>1, <3>1, <3>7, <4>1, PeerSame
    <3>8. \A x \in Side : JobsThin(x, "incoming")
      BY <1>5, JobsButFacts
    <3>9. \A x \in Side : WishInv(x)' /\ Ordered(jobs'[x], medium'[x])
      BY <3>5, <3>6, <3>7, Zenon
    <3> QED BY <1>1, <2>1, <3>8, <3>9, BeforeQuiet
  <2>2. ASSUME NEW m \in Wanted, SettledOn(m) PROVE SettledOn(m)'
    <3>1. \A x \in Side : channel[x] # None =>
            /\ medium[x] = m
            /\ channel[x] = 1 => x \in in_progress \/ at[x].step = "ack"
      BY <2>2 DEF SettledOn, SettledSide
    <3> QED BY <1>1, <1>5, <2>2, <3>1, SettledBut
  <2>3. Together' => Together
    BY <1>1 DEF Together, Gone
  <2> QED BY <1>0, <1>1, <2>1, <2>2, <2>3, PhaseKept, Zenon
<1> QED BY <1>6, <1>8, <1>9, Zenon DEF AgreeInv

\* The job of InitiateBwuForEndpoint proposes a medium, or retries; once a channel is connected it
\* does neither.
LEMMA InitJobAgrees ==
  ASSUME TypeOK, AgreeInv, NEW s \in Side, InitJob(s)
  PROVE  AgreeInv'
<1>0. ChannelType /\ JobType /\ EntryType /\ LeftInv /\ PrefInv /\ PhaseInv /\ Takes(s, "init")
  BY TypeParts DEF AgreeInv, InitJob
<1> DEFINE proposed == IF Of(s) # None THEN Of(s) ELSE ChooseBestUpgradeMedium(s, Preferred)
           ignored == proposed = None \/ s \in in_progress
           useless == channel[s] \in {None, proposed}
           next == IF Untried(proposed) = <<>> THEN None ELSE Untried(proposed)[1]
           Asked == /\ ~ignored /\ jobs' = Rest(s) /\ medium' = [medium EXCEPT ![s] = proposed]
                    /\ Goes(s, "path", channel[s], proposed) /\ alarm' = alarm \ {s}
           Retried == /\ RetryUpgradeMediums(s, next, Rest(s), alarm \ {s}) /\ at' = at
                      /\ medium' = [medium EXCEPT ![s] =
                                      IF channel[s] # WifiLan /\ next = channel[s] THEN None ELSE next]
<1>1. /\ UNCHANGED <<removal, made, channel, bandwidth, arriving, previous, asked, wire>>
      /\ "timeout" \in faults => "timeout" \in faults'
  BY DEF InitJob, channelVars, workerVars
<1>2. (ignored \/ useless => jobs' = Rest(s) /\ medium' = [medium EXCEPT ![s] = proposed] /\ at' = at
                             /\ alarm' \subseteq alarm /\ in_progress' = in_progress)
      /\ (~ignored /\ ~useless => Asked \/ Retried)
  BY DEF InitJob, ProcessUpgradeFailureEvent
<1>3. proposed \in Wanted \cup {None} /\ next \in Wanted \cup {None} /\ next \in 0 .. LastMedium
  <2>1. /\ medium[s] \in Wanted \cup {None} /\ About(jobs[s], "init", Wanted \cup {None})
    BY <1>0 DEF PrefInv
  <2>2. Of(s) \in Wanted \cup {None}
    BY <1>0, <2>1, HeadAbout
  <2>3. ChooseBestUpgradeMedium(s, Preferred) \in Wanted \cup {None}
    BY <2>1, ChooseWanted
  <2> QED BY <2>2, <2>3, NextWanted, NextMedium
<1>4. \A m : channel[s] # None /\ medium[s] = m /\ m \in Wanted /\ Of(s) \in {m, None} => proposed = m
  <2>1. \A m \in Wanted : m # None
    BY UpgradeConstants DEF Wanted, ListOf, None
  <2> QED BY <2>1, ChooseWanted
<1> HIDE DEF proposed, next
<1>5. /\ JobsBut("init") /\ FramesBut("none")
      /\ \A x \in Side : x # s => /\ jobs'[x] = jobs[x] /\ (x \in alarm' => x \in alarm)
                                  /\ at'[x] = at[x] /\ medium'[x] = medium[x]
      /\ \A x \in Side : About(jobs[x], "init", Wanted \cup {None}) => About(jobs'[x], "init", Wanted \cup {None})
  <2>1. FramesBut("none")
    BY <1>1, SameNoFrame, ButFrames, Zenon
  <2>2. CASE Retried
    <3>1. /\ JobsBut("init") /\ \A x \in Side : x # s => jobs'[x] = jobs[x] /\ (x \in alarm' => x \in alarm \ {s})
          /\ \A A : About(jobs[s], "init", A) /\ next \in A => About(jobs'[s], "init", A)
      BY <1>0, <1>3, <2>2, RetryJobsBut
    <3>2. \A x \in Side : x # s => at'[x] = at[x] /\ medium'[x] = medium[x]
      BY <1>0, <2>2 DEF EntryType
    <3> QED BY <1>3, <2>1, <3>1, <3>2
  <2>3. CASE jobs' = Rest(s) /\ medium' = [medium EXCEPT ![s] = proposed] /\ alarm' \subseteq alarm
             /\ (at' = at \/ Goes(s, "path", channel[s], proposed))
    <3>1. NoJob
      BY <1>0, <2>3, RestNoJob
    <3>2. JobsBut("init") /\ JobsBut("none")
      BY <3>1, ButJobs, Zenon
    <3>3. \A x \in Side : x # s => /\ jobs'[x] = jobs[x] /\ (x \in alarm' => x \in alarm)
                                   /\ at'[x] = at[x] /\ medium'[x] = medium[x]
      BY <1>0, <2>3 DEF Rest, Goes, JobType, EntryType
    <3>4. \A x \in Side : About(jobs[x], "init", Wanted \cup {None}) => About(jobs'[x], "init", Wanted \cup {None})
      BY <3>2, JobsButFacts
    <3> QED BY <2>1, <3>2, <3>3, <3>4
  <2> QED BY <1>2, <2>2, <2>3
<1>6. /\ at'[s] = at[s] \/ (at'[s].step = "path" /\ at'[s].of \in Wanted)
      /\ medium'[s] \in Wanted \cup {None}
  BY <1>0, <1>2, <1>3 DEF Goes, JobType, EntryType
<1>7. LeftInv'
  BY <1>0, <1>1, <1>5, <1>6, LeftBut
<1>8. PrefInv'
  <2>1. \A x \in Side : medium'[x] \in {medium[x], None} \cup Wanted
    BY <1>5, <1>6
  <2>2. \A x \in Side : at'[x] = at[x] \/ at'[x].step # "path" \/ at'[x].of \in Wanted
    BY <1>5, <1>6
  <2> QED BY <1>0, <1>5, <2>1, <2>2, PrefBut
<1>9. PhaseInv'
  <2>1. ASSUME Before PROVE Before'
    <3>0. \A x \in Side : at'[x].step = "failure" => at[x].step = "failure"
      BY <1>5, <1>6
    <3>1. \A x \in Side : Asks(x)' => Asks(x)
      BY <1>1, <1>5, <3>0, AsksBut
    <3>2. WishInv(s)
      BY <2>1 DEF Before
    <3>3. Wish(s, "init") /\ "init" \in Wishes
      BY <1>0, TakesHas, WishForms DEF Wishes
    <3>4. /\ at[s].step # "path" /\ ~Asks(s) /\ s \notin alarm /\ ~HasType(jobs[s], "retry")
          /\ OnlyOne(jobs[s], "init") /\ OnlyOne(jobs[s], "retry") /\ s \in asked
      BY <3>2, <3>3, WishOne
    <3>5. WishInv(s)' /\ Ordered(jobs'[s], medium'[s])
      <4>1. CASE Retried
        <5>1. s \notin alarm \ {s} /\ at'[s].step # "path" /\ ~Asks(s)' /\ asked \subseteq asked'
          BY <1>1, <3>1, <3>4, <4>1
        <5>2. /\ WishInv(s)'
              /\ \/ ~HasType(jobs'[s], "init")
                 \/ /\ next # None /\ (channel[s] # WifiLan => next # channel[s])
                    /\ Ordered(jobs'[s], next)
          BY <1>0, <1>3, <3>2, <3>3, <4>1, <5>1, RetryWish
        <5>3. CASE ~HasType(jobs'[s], "init")
          BY <5>2, <5>3, OrderedNone
        <5>4. CASE (channel[s] # WifiLan => next # channel[s]) /\ Ordered(jobs'[s], next)
          <6>1. medium'[s] = next
            BY <1>0, <4>1, <5>4 DEF EntryType
          <6> QED BY <5>2, <5>4, <6>1
        <5> QED BY <5>2, <5>3, <5>4
      <4>2. CASE jobs' = Rest(s) /\ alarm' \subseteq alarm
        <5>1. ~HasType(jobs'[s], "init") /\ OnlyOne(jobs'[s], "init")
          <6>1. jobs[s] \in Seq(Job) /\ jobs[s] # <<>> /\ Head(jobs[s]).type = "init" /\ jobs'[s] = Tail(jobs[s])
            BY <1>0, <4>2 DEF Takes, JobType, Rest
          <6>2. ~HasType(Tail(jobs[s]), "init") /\ OnlyOne(Tail(jobs[s]), "init")
            BY <3>4, <6>1, TailFacts
          <6> QED BY <6>1, <6>2, Zenon
        <5>2. JobsThin(s, "retry")
          BY <1>5, JobsButFacts
        <5>3. ~HasType(jobs'[s], "retry") /\ OnlyOne(jobs'[s], "retry")
          BY <3>4, <5>2, Zenon DEF JobsThin
        <5>4. s \in asked' /\ s \notin alarm' /\ ~Asks(s)'
          BY <1>1, <3>1, <3>4, <4>2
        <5>5. WishInv(s)'
          BY <5>1, <5>3, <5>4, WishOnly
        <5> QED BY <5>1, <5>5, OrderedNone
      <4> QED BY <1>2, <4>1, <4>2
    <3>6. \A x \in Side : WishInv(x)' /\ Ordered(jobs'[x], medium'[x])
      BY <1>1, <1>5, <2>1, <3>1, <3>5, PeerSame
    <3>7. \A x \in Side : JobsThin(x, "incoming")
      BY <1>5, JobsButFacts
    <3>8. \A x \in Side : at'[x] = at[x] \/ at'[x].step \in {"idle", "path", "failure"}
      BY <1>5, <1>6
    <3> QED BY <1>1, <2>1, <3>6, <3>7, <3>8, BeforeQuiet
  <2>2. ASSUME NEW m \in Wanted, SettledOn(m) PROVE SettledOn(m)'
    <3>1. \A x \in Side : channel[x] # None =>
            /\ channel[x] \in {1, m} /\ medium[x] = m /\ About(jobs[x], "init", {m, None})
            /\ channel[x] = 1 => x \in in_progress \/ at[x].step = "ack"
      BY <2>2 DEF SettledOn, SettledSide
    <3>2. channel[s] # None => proposed = m
      BY <1>0, <1>4, <2>2, <3>1, HeadAbout
    <3>3. at[s].step = "idle"
      BY <1>0 DEF Takes, Idle
    <3>4. ignored \/ useless
      BY <3>1, <3>2, <3>3
    <3>5. /\ jobs' = Rest(s) /\ at' = at /\ in_progress' = in_progress
          /\ channel[s] # None => medium'[s] = m
      BY <1>0, <1>2, <3>2, <3>4 DEF EntryType
    <3>6. JobsBut("none")
      BY <1>0, <3>5, RestNoJob, ButJobs, Zenon
    <3>7. \A x \in Side : channel'[x] # None =>
            /\ medium'[x] = m /\ channel[x] # None
            /\ channel'[x] = 1 => x \in in_progress' \/ at'[x].step = "ack"
      BY <1>1, <1>5, <3>1, <3>5
    <3> QED BY <1>1, <1>5, <2>2, <3>5, <3>6, <3>7, SettledBut
  <2>3. Together' => Together
    BY <1>1 DEF Together, Gone
  <2> QED BY <1>0, <1>1, <2>1, <2>2, <2>3, PhaseKept, Zenon
<1> QED BY <1>7, <1>8, <1>9, Zenon DEF AgreeInv

\* The job of an alarm tries again.
LEMMA RetryJobAgrees ==
  ASSUME TypeOK, AgreeInv, NEW s \in Side, RetryJob(s)
  PROVE  AgreeInv'
<1>0. ChannelType /\ JobType /\ EntryType /\ LeftInv /\ PrefInv /\ PhaseInv /\ Takes(s, "retry")
  BY TypeParts DEF AgreeInv, RetryJob
<1> DEFINE next == ChooseBestUpgradeMedium(s, Preferred)
           Retried == /\ channel[s] # None /\ RetryUpgradeMediums(s, next, Rest(s), alarm)
                      /\ medium' = IF channel[s] # WifiLan /\ next \in {channel[s], None} THEN medium
                                   ELSE [medium EXCEPT ![s] = next]
<1>1. UNCHANGED <<removal, made, channel, bandwidth, arriving, previous, asked, wire, faults, at, in_progress>>
  BY DEF RetryJob, channelVars, entryVars, boundVars, workerVars
<1>2. (channel[s] = None /\ jobs' = Rest(s) /\ medium' = medium /\ alarm' = alarm) \/ Retried
  BY DEF RetryJob
<1>3. next \in Wanted \cup {None} /\ next \in 0 .. LastMedium /\ (medium[s] # None => next = medium[s])
  BY <1>0, ChooseWanted, ChooseType DEF PrefInv
<1> HIDE DEF next
<1>5. /\ JobsBut("init") /\ FramesBut("none")
      /\ \A x \in Side : x # s => /\ jobs'[x] = jobs[x] /\ (x \in alarm' => x \in alarm)
                                  /\ medium'[x] = medium[x]
      /\ \A A : About(jobs[s], "init", A) /\ next \in A => About(jobs'[s], "init", A)
      /\ medium'[s] \in {medium[s], next}
  <2>1. FramesBut("none")
    BY <1>1, SameNoFrame, ButFrames, Zenon
  <2>2. CASE Retried
    <3>1. /\ JobsBut("init") /\ \A x \in Side : x # s => jobs'[x] = jobs[x] /\ (x \in alarm' => x \in alarm)
          /\ \A A : About(jobs[s], "init", A) /\ next \in A => About(jobs'[s], "init", A)
      BY <1>0, <1>3, <2>2, RetryJobsBut
    <3>2. (\A x \in Side : x # s => medium'[x] = medium[x]) /\ medium'[s] \in {medium[s], next}
      BY <1>0, <2>2 DEF EntryType
    <3> QED BY <2>1, <3>1, <3>2
  <2>3. CASE jobs' = Rest(s) /\ medium' = medium /\ alarm' = alarm
    <3>1. NoJob
      BY <1>0, <2>3, RestNoJob
    <3>2. JobsBut("init") /\ JobsBut("none")
      BY <3>1, ButJobs, Zenon
    <3>3. \A x \in Side : x # s => jobs'[x] = jobs[x]
      BY <1>0, <2>3 DEF Rest, JobType
    <3>4. \A A : About(jobs[s], "init", A) => About(jobs'[s], "init", A)
      BY <3>2, JobsButFacts
    <3> QED BY <2>1, <2>3, <3>2, <3>3, <3>4
  <2> QED BY <1>2, <2>2, <2>3
<1>6. LeftInv'
  BY <1>0, <1>1, <1>5, LeftBut
<1>7. PrefInv'
  <2>1. \A x \in Side : medium'[x] \in {medium[x], None} \cup Wanted
    BY <1>3, <1>5
  <2>2. \A x \in Side : About(jobs[x], "init", Wanted \cup {None}) => About(jobs'[x], "init", Wanted \cup {None})
    BY <1>3, <1>5
  <2> QED BY <1>0, <1>1, <1>5, <2>1, <2>2, PrefBut
<1>8. PhaseInv'
  <2>1. ASSUME Before PROVE Before'
    <3>1. \A x \in Side : Asks(x)' => Asks(x)
      BY <1>1, <1>5, AsksBut
    <3>2. WishInv(s) /\ channel[s] # None
      BY <2>1 DEF Before, None
    <3>3. Wish(s, "retry") /\ "retry" \in Wishes
      BY <1>0, TakesHas, WishForms DEF Wishes
    <3>4. at[s].step # "path" /\ ~Asks(s) /\ s \notin alarm
      BY <3>2, <3>3, WishOne
    <3>5. Retried
      BY <1>2, <3>2
    <3>6. WishInv(s)' /\ Ordered(jobs'[s], medium'[s])
      <4>1. at'[s].step # "path" /\ ~Asks(s)' /\ asked \subseteq asked'
        BY <1>1, <3>1, <3>4
      <4>2. /\ WishInv(s)'
            /\ \/ ~HasType(jobs'[s], "init")
               \/ /\ next # None /\ (channel[s] # WifiLan => next # channel[s])
                  /\ Ordered(jobs'[s], next)
        BY <1>0, <1>3, <3>2, <3>3, <3>4, <3>5, <4>1, RetryWish
      <4>3. CASE ~HasType(jobs'[s], "init")
        BY <4>2, <4>3, OrderedNone
      <4>4. CASE next # None /\ (channel[s] # WifiLan => next # channel[s]) /\ Ordered(jobs'[s], next)
        <5>1. medium'[s] = next
          BY <1>0, <3>5, <4>4 DEF EntryType
        <5> QED BY <4>2, <4>4, <5>1
      <4> QED BY <4>2, <4>3, <4>4
    <3>7. \A x \in Side : WishInv(x)' /\ Ordered(jobs'[x], medium'[x])
      BY <1>1, <1>5, <2>1, <3>1, <3>6, PeerSame
    <3>8. \A x \in Side : JobsThin(x, "incoming")
      BY <1>5, JobsButFacts
    <3> QED BY <1>1, <2>1, <3>7, <3>8, BeforeQuiet
  <2>2. ASSUME NEW m \in Wanted, SettledOn(m) PROVE SettledOn(m)'
    <3>0. m # None
      BY UpgradeConstants DEF Wanted, ListOf, None
    <3>1. \A x \in Side : channel[x] # None =>
            /\ medium[x] = m /\ About(jobs[x], "init", {m, None})
            /\ channel[x] = 1 => x \in in_progress \/ at[x].step = "ack"
      BY <2>2 DEF SettledOn, SettledSide
    <3>2. channel[s] # None => next = m
      BY <1>3, <3>0, <3>1
    <3>3. ASSUME NEW x \in Side, channel[x] # None PROVE About(jobs'[x], "init", {m, None}) /\ medium'[x] = m
      <4>1. CASE x = s
        <5>1. About(jobs[s], "init", {m, None}) /\ next \in {m, None} /\ medium[s] = m /\ next = m
          BY <3>1, <3>2, <3>3, <4>1
        <5> QED BY <1>5, <4>1, <5>1
      <4>2. CASE x # s
        BY <1>5, <3>1, <3>3, <4>2
      <4> QED BY <4>1, <4>2
    <3> QED BY <1>1, <1>5, <2>2, <3>1, <3>3, SettledBut
  <2>3. Together' => Together
    BY <1>1 DEF Together, Gone
  <2> QED BY <1>0, <1>1, <2>1, <2>2, <2>3, PhaseKept, Zenon
<1> QED BY <1>6, <1>7, <1>8, Zenon DEF AgreeInv

\* A request that was refused is taken back, and the next medium tried.
LEMMA FailureJobAgrees ==
  ASSUME TypeOK, RequestInv', AgreeInv, NEW s \in Side, FailureJob(s)
  PROVE  AgreeInv'
<1>0. ChannelType /\ JobType /\ EntryType /\ LeftInv /\ PrefInv /\ PhaseInv /\ Takes(s, "failure")
  BY TypeParts DEF AgreeInv, FailureJob
<1> DEFINE next == IF Untried(Of(s)) = <<>> THEN None ELSE Untried(Of(s))[1]
<1>1. UNCHANGED <<removal, made, channel, bandwidth, arriving, previous, asked, wire, faults, at>>
  BY DEF FailureJob, channelVars, boundVars, workerVars
<1>2. /\ RetryUpgradeMediums(s, next, Rest(s), alarm) /\ in_progress' = in_progress \ {s}
      /\ medium' = [medium EXCEPT ![s] =
                      IF channel[s] # WifiLan /\ next = channel[s] THEN None ELSE next]
  BY DEF FailureJob, ProcessUpgradeFailureEvent
<1>3. next \in Wanted \cup {None} /\ next \in 0 .. LastMedium
  BY NextWanted, NextMedium
<1> HIDE DEF next
<1>4. /\ JobsBut("init") /\ \A x \in Side : x # s => jobs'[x] = jobs[x] /\ (x \in alarm' => x \in alarm)
      /\ \A A : About(jobs[s], "init", A) /\ next \in A => About(jobs'[s], "init", A)
  BY <1>0, <1>2, <1>3, RetryJobsBut
<1>5. FramesBut("none")
  BY <1>1, SameNoFrame, ButFrames, Zenon
<1>6. LeftInv'
  BY <1>0, <1>1, <1>4, <1>5, LeftBut
<1>7. PrefInv'
  <2>1. \A x \in Side : medium'[x] \in {medium[x], None} \cup Wanted
    BY <1>0, <1>2, <1>3 DEF EntryType
  <2>2. \A x \in Side : About(jobs[x], "init", Wanted \cup {None}) => About(jobs'[x], "init", Wanted \cup {None})
    BY <1>3, <1>4
  <2> QED BY <1>0, <1>1, <1>4, <1>5, <2>1, <2>2, PrefBut
<1>8. PhaseInv'
  <2>1. ASSUME Before, "timeout" \notin faults', Together' PROVE Before'
    <3>1. \A x \in Side : Asks(x)' => Asks(x)
      BY <1>1, <1>4, <1>5, AsksBut
    <3>2. WishInv(s) /\ channel'[s] # None
      BY <1>1, <2>1 DEF Before, None
    <3>3. Asks(s)
      BY <1>0, TakesHas, AskStages
    <3>4. Wish(s, "asks") /\ "asks" \in Wishes
      BY <3>3, WishForms DEF Wishes
    <3>5. at[s].step # "path" /\ s \notin alarm
      BY <3>2, <3>4, WishOne
    <3>6. ~Asks(s)'
      <4>1. OwnInv(s)' /\ ~Gone(s)'
        BY <2>1 DEF RequestInv, Together
      <4>2. s \notin in_progress'
        BY <1>2
      <4> QED BY <4>1, <4>2 DEF OwnInv
    <3>7. WishInv(s)' /\ Ordered(jobs'[s], medium'[s])
      <4>1. at'[s].step # "path" /\ asked \subseteq asked'
        BY <1>1, <3>5
      <4>2. /\ WishInv(s)'
            /\ \/ ~HasType(jobs'[s], "init")
               \/ /\ next # None /\ (channel[s] # WifiLan => next # channel[s])
                  /\ Ordered(jobs'[s], next)
        BY <1>0, <1>2, <1>3, <3>2, <3>4, <3>5, <3>6, <4>1, RetryWish
      <4>3. CASE ~HasType(jobs'[s], "init")
        BY <4>2, <4>3, OrderedNone
      <4>4. CASE next # None /\ (channel[s] # WifiLan => next # channel[s]) /\ Ordered(jobs'[s], next)
        <5>1. medium'[s] = next
          BY <1>0, <1>2, <4>4 DEF EntryType
        <5> QED BY <4>2, <4>4, <5>1
      <4> QED BY <4>2, <4>3, <4>4
    <3>8. \A x \in Side : x # s => medium'[x] = medium[x]
      BY <1>0, <1>2 DEF EntryType
    <3>9. \A x \in Side : WishInv(x)' /\ Ordered(jobs'[x], medium'[x])
      BY <1>1, <1>4, <2>1, <3>1, <3>7, <3>8, PeerSame
    <3>10. \A x \in Side : JobsThin(x, "incoming")
      BY <1>4, JobsButFacts
    <3> QED BY <1>1, <2>1, <3>9, <3>10, BeforeQuiet
  <2>2. \A m \in Wanted : ~SettledOn(m)
    BY <1>0, TakesHas DEF SettledOn, SettledSide
  <2>3. Together' => Together
    BY <1>1 DEF Together, Gone
  <2> QED BY <1>0, <1>1, <2>1, <2>2, <2>3, PhaseKept, Zenon
<1> QED BY <1>6, <1>7, <1>8, Zenon DEF AgreeInv

\* UPGRADE_PATH_AVAILABLE is written.
LEMMA WritePathAgrees ==
  ASSUME TypeOK, AgreeInv, NEW s \in Side, WritePath(s)
  PROVE  AgreeInv'
<1>0. /\ ChannelType /\ WireType /\ JobType /\ LeftInv /\ PrefInv /\ PhaseInv
      /\ at[s].step = "path" /\ at[s].on \in Mediums /\ at[s].of \in Mediums
  BY TypeParts, StepFacts DEF AgreeInv, WritePath
<1>1. UNCHANGED <<removal, made, channel, bandwidth, arriving, previous, asked, faults, medium, alarm, jobs>>
  BY DEF WritePath, boundVars, workerVars
<1>2. FrameTo(Peer(s), "path", at[s].of)
  <2>1. PICK ok \in BOOLEAN : Write(s, at[s].on, "path", at[s].of, ok)
    BY DEF WritePath
  <2>2. \A n \in Nat : [type |-> "path", of |-> at[s].of, seq |-> n] \in Frame
    BY <1>0 DEF Frame
  <2> DEFINE c == at[s].on
             of == at[s].of
  <2>3. Write(s, c, "path", of, ok) /\ c \in Mediums /\ \A n \in Nat : [type |-> "path", of |-> of, seq |-> n] \in Frame
    BY <1>0, <2>1, <2>2
  <2> HIDE DEF c, of
  <2>4. FrameTo(Peer(s), "path", of)
    BY <1>0, <2>3, WriteFrame
  <2> QED BY <2>4 DEF of
<1>3. (\A x \in Side : x # s => at'[x] = at[x]) /\ at'[s].step = "idle"
  BY <1>0 DEF WritePath, Ends, JobType, Idle
<1>4. JobsBut("none") /\ FramesBut("path")
  BY <1>1, <1>2, SameNoJob, ButJobs, ButFrames, Zenon
<1>5. LeftInv'
  BY <1>0, <1>1, <1>3, <1>4, LeftBut
<1>6. PrefInv'
  <2>1. at[s].of \in Wanted /\ Peer(s) \in Side /\ \A x \in Side : WireAbout(x, "path", Wanted)
    BY <1>0, PeerSide DEF PrefInv
  <2>2. ASSUME NEW x \in Side PROVE WireAbout(x, "path", Wanted)'
    <3>1. CASE x = Peer(s)
      BY <1>2, <2>1, <3>1, Zenon DEF FrameTo
    <3>2. CASE x # Peer(s)
      <4>1. WireSame(x, "path")
        BY <1>2, <3>2, Zenon DEF FrameTo
      <4> QED BY <2>1, <4>1, Zenon DEF WireSame
    <3> QED BY <3>1, <3>2
  <2>3. \A x \in Side : at'[x].step = "path" => at'[x].of \in Wanted
    BY <1>0, <1>3 DEF PrefInv
  <2>4. \A x \in Side : /\ medium'[x] \in Wanted \cup {None}
                        /\ About(jobs'[x], "init", Wanted \cup {None}) /\ About(jobs'[x], "path", Wanted)
    BY <1>0, <1>1 DEF PrefInv
  <2> QED BY <2>2, <2>3, <2>4, Zenon DEF PrefInv
<1>7. PhaseInv'
  <2>1. ASSUME Before PROVE Before'
    <3>0. Peer(s) \in Side /\ Peer(s) # s /\ Peer(Peer(s)) = s
      BY PeerFacts
    <3>1. Asks(Peer(s))' => Asks(Peer(s))
      <4>1. Thins(s, "path") /\ Thins(Peer(s), "failure")
        BY <1>2, <3>0 DEF FrameTo
      <4>2. (FrameOn(s, "path")' => FrameOn(s, "path")) /\ (FrameOn(Peer(s), "failure")' => FrameOn(Peer(s), "failure"))
        BY <4>1, ThinsFrames, Zenon
      <4> QED BY <1>1, <1>3, <3>0, <4>2, AskStages, AskStagesNext
    <3>2. WishInv(s) /\ Ordered(jobs[s], medium[s])
      BY <2>1 DEF Before
    <3>3. Wish(s, "path") /\ "path" \in Wishes
      BY <1>0, WishForms DEF Wishes
    <3>4. /\ s \notin alarm /\ ~HasType(jobs[s], "init") /\ ~HasType(jobs[s], "retry")
          /\ OnlyOne(jobs[s], "init") /\ OnlyOne(jobs[s], "retry") /\ s \in asked
      BY <3>2, <3>3, WishOne
    <3>5. WishInv(s)'
      <4>1. /\ s \notin alarm' /\ ~HasType(jobs'[s], "init") /\ ~HasType(jobs'[s], "retry")
            /\ OnlyOne(jobs'[s], "init") /\ OnlyOne(jobs'[s], "retry") /\ s \in asked'
            /\ at'[s].step # "path"
        BY <1>1, <1>3, <3>4
      <4> QED BY <4>1, WishOnly
    <3>6. WishInv(Peer(s))' /\ Ordered(jobs'[Peer(s)], medium'[Peer(s)])
      BY <1>1, <1>3, <2>1, <3>0, <3>1, PeerSame
    <3>7. \A x \in Side : WishInv(x)' /\ Ordered(jobs'[x], medium'[x])
      BY <1>1, <3>2, <3>5, <3>6, PeerFacts
    <3>8. \A x \in Side : JobsThin(x, "incoming")
      BY <1>4, JobsButFacts
    <3>9. \A x \in Side : at'[x] = at[x] \/ at'[x].step \in {"idle", "path", "failure"}
      BY <1>3
    <3> QED BY <1>1, <2>1, <3>7, <3>8, <3>9, BeforeQuiet
  <2>2. \A m \in Wanted : ~SettledOn(m)
    BY <1>0 DEF SettledOn, SettledSide
  <2>3. Together' => Together
    BY <1>1 DEF Together, Gone
  <2> QED BY <1>0, <1>1, <2>1, <2>2, <2>3, PhaseKept, Zenon
<1> QED BY <1>5, <1>6, <1>7, Zenon DEF AgreeInv

\* UPGRADE_FAILURE is written: the medium is given up.
LEMMA WriteFailureAgrees ==
  ASSUME TypeOK, RequestInv, AgreeInv, NEW s \in Side, WriteFailure(s)
  PROVE  AgreeInv'
<1>0. /\ ChannelType /\ WireType /\ JobType /\ EntryType /\ LeftInv /\ PrefInv /\ PhaseInv
      /\ at[s].step = "failure" /\ at[s].on \in Mediums /\ at[s].of \in Mediums
  BY TypeParts, StepFacts DEF AgreeInv, WriteFailure
<1>1. UNCHANGED <<removal, made, channel, bandwidth, arriving, previous, asked, faults, alarm, jobs>>
  BY DEF WriteFailure, boundVars, workerVars
<1>2. NoFrame \/ FrameTo(Peer(s), "failure", at[s].of)
  <2>1. CASE Write(s, at[s].on, "failure", at[s].of, TRUE)
    <3>1. \A n \in Nat : [type |-> "failure", of |-> at[s].of, seq |-> n] \in Frame
      BY <1>0 DEF Frame
    <3> DEFINE c == at[s].on
               of == at[s].of
    <3>2. Write(s, c, "failure", of, TRUE) /\ c \in Mediums /\ \A n \in Nat : [type |-> "failure", of |-> of, seq |-> n] \in Frame
      BY <1>0, <2>1, <3>1
    <3> HIDE DEF c, of
    <3>3. FrameTo(Peer(s), "failure", of)
      BY <1>0, <3>2, WriteFrame
    <3> QED BY <3>3 DEF of
  <2>2. CASE Close(s, {at[s].on})
    BY <1>0, <2>2, CloseNoFrame
  <2> QED BY <2>1, <2>2 DEF WriteFailure
<1>3. /\ (\A x \in Side : x # s => at'[x] = at[x] /\ medium'[x] = medium[x]) /\ at'[s].step = "idle"
      /\ medium'[s] \in {medium[s], None}
  BY <1>0 DEF WriteFailure, Ends, JobType, Idle, EntryType
<1>4. JobsBut("none") /\ FramesBut("failure")
  BY <1>1, <1>2, SameNoJob, ButJobs, ButFrames, Zenon
<1>5. LeftInv'
  BY <1>0, <1>1, <1>3, <1>4, LeftBut
<1>6. PrefInv'
  <2>1. \A x \in Side : medium'[x] \in {medium[x], None} \cup Wanted
    BY <1>3
  <2>2. \A x \in Side : at'[x] = at[x] \/ at'[x].step # "path" \/ at'[x].of \in Wanted
    BY <1>3
  <2> QED BY <1>0, <1>4, <2>1, <2>2, PrefBut
<1>7. PhaseInv'
  <2>1. ASSUME Before, "timeout" \notin faults', Together' PROVE Before'
    <3>0. Peer(s) \in Side /\ Peer(s) # s /\ Peer(Peer(s)) = s
      BY PeerFacts
    <3>1. Asks(Peer(s))
      BY <1>0, <3>0, AskStages
    <3>2. Asks(s)' => Asks(s)
      <4>1. Thins(Peer(s), "path") /\ Thins(s, "failure")
        BY <1>2, <3>0 DEF FrameTo, NoFrame
      <4>2. (FrameOn(Peer(s), "path")' => FrameOn(Peer(s), "path")) /\ (FrameOn(s, "failure")' => FrameOn(s, "failure"))
        BY <4>1, ThinsFrames, Zenon
      <4> QED BY <1>1, <1>3, <3>0, <4>2, AskStages, AskStagesNext
    <3>3. \A x \in Side : Asks(x)' => Asks(x)
      BY <3>1, <3>2, PeerFacts
    <3>4. ~HasType(jobs[s], "path")
      <4>1. AskInv(Peer(s)) /\ ~Gone(Peer(s))
        BY <1>1, <2>1, <3>0 DEF RequestInv, Together, Gone
      <4>2. OneStage(Peer(s)) /\ Request(Peer(s), "refusing") /\ {"refusing", "received"} \subseteq Stages
        BY <1>0, <3>0, <4>1, RequestStages DEF AskInv, Stages
      <4>3. ~Request(Peer(s), "received")
        BY <4>2 DEF OneStage
      <4> QED BY <3>0, <4>3, RequestStages
    <3>5. Ordered(jobs'[s], medium'[s])
      BY <1>1, <3>4, OrderedNone
    <3>6. \A x \in Side : Ordered(jobs'[x], medium'[x])
      BY <1>1, <1>3, <2>1, <3>5 DEF Before
    <3>7. \A x \in Side : JobsThin(x, "incoming") /\ JobsThin(x, "init") /\ JobsThin(x, "retry")
      BY <1>4, JobsButFacts
    <3>8. \A x \in Side : at'[x] = at[x] \/ at'[x].step \in {"idle", "failure"}
      BY <1>3
    <3> QED BY <1>1, <2>1, <3>3, <3>6, <3>7, <3>8, BeforeSame
  <2>2. \A m \in Wanted : ~SettledOn(m)
    BY <1>0 DEF SettledOn, SettledSide
  <2>3. Together' => Together
    BY <1>1 DEF Together, Gone
  <2> QED BY <1>0, <1>1, <2>1, <2>2, <2>3, PhaseKept, Zenon
<1> QED BY <1>5, <1>6, <1>7, Zenon DEF AgreeInv

\* What the peer's request lets a side know when it acts upon it, while no channel is connected: it
\* has none of its own, and the peer's is nowhere else.
LEMMA RequestReceived ==
  ASSUME JobType, RequestInv, Before, Together, "timeout" \notin faults, NEW s \in Side, Takes(s, "path"),
         s \notin in_progress, jobs' = Rest(s)
  PROVE  /\ Peer(s) \in in_progress
         /\ \A x \in Side : \A t \in {"path", "failure"} : ~FrameOn(x, t) /\ ~HasType(jobs'[x], t)
         /\ at[Peer(s)].step \notin {"path", "failure"}
         /\ ~HasType(jobs'[Peer(s)], "init")
<1> DEFINE p == Peer(s)
<1>0. p \in Side /\ p # s /\ Peer(p) = s /\ \A x \in Side : x = s \/ x = p
  BY PeerFacts
<1>1. HasType(jobs[s], "path")
  BY TakesHas
<1> HIDE DEF p
<1>2. Asks(p)
  BY <1>0, <1>1, AskStages
<1>3. /\ OwnInv(s) /\ OwnInv(p) /\ AskInv(p) /\ ~Gone(s) /\ ~Gone(p)
      /\ WishInv(p)
  BY <1>0 DEF RequestInv, Before, Together
<1>4. ~Asks(s) /\ p \in in_progress
  BY <1>2, <1>3 DEF OwnInv
<1>5. /\ ~FrameOn(p, "path") /\ ~HasType(jobs[p], "path") /\ at[p].step # "failure"
      /\ ~FrameOn(s, "failure") /\ ~HasType(jobs[s], "failure")
  BY <1>4, AskStages DEF p
<1>6. /\ ~FrameOn(s, "path") /\ ~FrameOn(p, "failure") /\ ~HasType(jobs[p], "failure")
  <2>1. OneStage(p) /\ Request(p, "received") /\ {"sent", "received", "refused", "failed"} \subseteq Stages
    BY <1>0, <1>1, <1>3, RequestStages DEF AskInv, Stages
  <2>2. ~Request(p, "sent") /\ ~Request(p, "refused") /\ ~Request(p, "failed")
    BY <2>1 DEF OneStage
  <2> QED BY <1>0, <2>2, RequestStages
<1>7. OnlyOne(jobs[s], "path")
  BY <1>0, <1>3 DEF AskInv, OneOfEach
<1>8. ~HasType(jobs'[s], "path") /\ (HasType(jobs'[s], "failure") => HasType(jobs[s], "failure"))
      /\ jobs'[p] = jobs[p]
  <2>1. JobsThin(s, "failure") /\ ~HasType(jobs'[s], "path")
    BY <1>7, TakenThins
  <2>2. jobs'[p] = jobs[p]
    BY <1>0 DEF Rest, JobType
  <2> QED BY <2>1, <2>2, Zenon DEF JobsThin
<1>9. ~HasType(jobs[p], "init") /\ at[p].step # "path"
  <2>1. Wish(p, "asks") /\ "asks" \in Wishes
    BY <1>2, WishForms DEF Wishes
  <2> QED BY <1>3, <2>1, WishOne
<1>10. \A x \in Side : \A t \in {"path", "failure"} : ~FrameOn(x, t) /\ ~HasType(jobs'[x], t)
  BY <1>0, <1>5, <1>6, <1>8
<1> QED BY <1>4, <1>5, <1>8, <1>9, <1>10 DEF p

\* UPGRADE_PATH_AVAILABLE is acted upon: it is refused, or the new channel is connected.
LEMMA PathJobAgrees ==
  ASSUME TypeOK, RequestInv, AgreeInv, NEW s \in Side, PathJob(s)
  PROVE  AgreeInv'
<1>0. /\ ChannelType /\ WireType /\ JobType /\ EntryType /\ LeftInv /\ PrefInv /\ PhaseInv
      /\ Takes(s, "path") /\ jobs' = Rest(s) /\ at[s].step = "idle" /\ Of(s) \in Mediums
  BY TypeParts, TakesFacts DEF AgreeInv, PathJob, Takes, Idle
<1>m. PICK m \in Wanted : m = Of(s)
  BY <1>0, HeadAbout DEF PrefInv
<1> DEFINE Twice == Close(s, (previous[s] \cup {channel[s]}) \ {None})
                    /\ previous' = [previous EXCEPT ![s] = {}] /\ faults' = faults \cup {"duplicate"}
                    /\ UNCHANGED <<at, medium, made, arriving>>
           Refuses == /\ Ends(s) \/ Goes(s, "failure", channel[s], m)
                      /\ medium' = medium \/ (medium' = [medium EXCEPT ![s] = m] /\ medium[s] \in {None, m})
                      /\ UNCHANGED <<wire, previous, made, arriving>> /\ faults' \in {faults, faults \cup {"connect"}}
           Connects == /\ s \notin in_progress /\ medium[s] \in {None, m} /\ medium[Peer(s)] = m
                       /\ medium' = [medium EXCEPT ![s] = m] /\ made' = made \cup {m}
                       /\ arriving' = [arriving EXCEPT ![Peer(s)] = @ \cup {m}]
                       /\ Goes(s, "ack", m, m) /\ UNCHANGED <<wire, previous, faults>>
<1>1. UNCHANGED <<removal, channel, bandwidth, in_progress, alarm, asked>>
  BY DEF PathJob, workerVars
<1>2. Twice \/ Refuses \/ Connects
  BY <1>m DEF PathJob
<1>3. NoJob
  BY <1>0, RestNoJob
<1>4. JobsBut("none")
  BY <1>3, ButJobs
<1>5. m # 1 /\ m # None
  BY UpgradeConstants DEF Wanted, ListOf, None
<1>6. "timeout" \in faults <=> "timeout" \in faults'
  BY <1>2
<1>7. CASE Twice
  <2>1. FramesBut("none")
    BY <1>0, <1>7, CloseNoFrame, ButFrames, Zenon
  <2>2. \A x \in Side : previous'[x] \subseteq previous[x] \cup {None}
    BY <1>0, <1>7 DEF EntryType
  <2> QED BY <1>1, <1>4, <1>6, <1>7, <2>1, <2>2, CalmAgrees
<1>8. ASSUME Refuses \/ Connects PROVE LeftInv' /\ PrefInv'
  <2>1. FramesBut("none") /\ previous' = previous /\ made \subseteq made'
    BY <1>8, SameNoFrame, ButFrames
  <2>2. /\ \A x \in Side : x # s => at'[x] = at[x] /\ medium'[x] = medium[x]
        /\ at'[s].step \in {"idle", "failure", "ack"} /\ medium'[s] \in {medium[s], m}
        /\ at'[s].step = "ack" => at'[s].on = m
    BY <1>0, <1>8 DEF Ends, Goes, JobType, EntryType, Idle
  <2>3. LeftInv'
    <3>0. "incoming" # "none" /\ \A x \in Side : About(jobs[x], "incoming", Mediums \ {1})
      BY <1>0 DEF LeftInv, NewInv
    <3>1. \A x \in Side : About(jobs'[x], "incoming", Mediums \ {1})
      BY <1>4, <3>0, JobsButFacts
    <3>2. \A x \in Side : 1 \notin arriving'[x]
      BY <1>0, <1>5, <1>8 DEF LeftInv, NewInv, ChannelType
    <3>3. \A x \in Side : NewInv(x)'
      BY <1>0, <1>5, <2>2, <3>1, <3>2 DEF LeftInv, NewInv
    <3>4. \A x \in Side : Moved(x)' => Moved(x)
      BY <2>1, <2>2 DEF Moved
    <3>5. \A x \in Side : at'[x].step \in {"bye", "drain"} => Answered(x)
      BY <2>2 DEF Answered
    <3>6. \A x \in Side : Answered(x)' => Answered(x)
      BY <1>1, <1>4, <2>1, <3>5, AnsweredQuiet
    <3> QED BY <1>0, <1>1, <2>1, <3>3, <3>4, <3>6, LeftKept
  <2>4. PrefInv'
    <3>1. \A x \in Side : medium'[x] \in {medium[x], None} \cup Wanted
      BY <1>5, <2>2
    <3>2. \A x \in Side : at'[x] = at[x] \/ at'[x].step # "path" \/ at'[x].of \in Wanted
      BY <2>2
    <3> QED BY <1>0, <1>4, <2>1, <3>1, <3>2, PrefBut
  <2> QED BY <2>3, <2>4
<1>9. \A k \in Wanted : ~SettledOn(k)
  BY <1>0, TakesHas DEF SettledOn, SettledSide
<1>10. Together' => Together
  BY <1>1 DEF Together, Gone
<1>11. Before => About(jobs[s], "init", {None, medium[s]})
  <2> SUFFICES ASSUME Ordered(jobs[s], medium[s]) PROVE About(jobs[s], "init", {None, medium[s]})
    BY DEF Before
  <2>1. jobs[s] \in Seq(Job) /\ jobs[s] # <<>> /\ Head(jobs[s]).type = "path"
    BY <1>0 DEF Takes, JobType
  <2> QED BY <2>1, OrderedTail, Zenon
<1>12. CASE Refuses
  <2>1. ASSUME Before PROVE Before'
    <3>0. Peer(s) \in Side /\ Peer(s) # s /\ Peer(Peer(s)) = s
      BY PeerFacts
    <3>1. \A x \in Side : x # s => at'[x] = at[x] /\ medium'[x] = medium[x]
      BY <1>0, <1>12 DEF Ends, Goes, JobType, EntryType
    <3>2. at'[s].step \in {"idle", "failure"} /\ (medium'[s] = medium[s] \/ (medium'[s] = m /\ medium[s] \in {None, m}))
      BY <1>0, <1>12 DEF Ends, Goes, JobType, EntryType, Idle
    <3>3. Asks(Peer(s))
      BY <1>0, <3>0, TakesHas, AskStages
    <3>4. Asks(s)' => Asks(s)
      <4>1. /\ JobsThin(Peer(s), "path") /\ JobsThin(s, "failure") /\ JobsThin(s, "incoming")
        BY <1>4, <3>0, JobsButFacts
      <4>2. NoFrame
        BY <1>12, SameNoFrame
      <4>3. (FrameOn(Peer(s), "path")' => FrameOn(Peer(s), "path")) /\ (FrameOn(s, "failure")' => FrameOn(s, "failure"))
        BY <3>0, <4>2, ThinsFrames, Zenon DEF NoFrame
      <4> QED BY <1>12, <3>0, <3>1, <4>1, <4>3, AskStages, AskStagesNext DEF JobsThin
    <3>5. \A x \in Side : Asks(x)' => Asks(x)
      BY <3>3, <3>4, PeerFacts
    <3>6. Ordered(jobs'[s], medium'[s])
      <4>1. About(jobs'[s], "init", {None, medium[s]})
        BY <1>4, <1>11, <2>1, JobsButFacts
      <4>2. {None, medium[s]} \subseteq {None, medium'[s]}
        BY <3>2
      <4>3. About(jobs'[s], "init", {None, medium'[s]})
        BY <4>1, <4>2, AboutMore
      <4> QED BY <4>3, AboutOrdered
    <3>7. ASSUME NEW x \in Side PROVE Ordered(jobs'[x], medium'[x])
      <4>1. CASE x = s
        BY <3>6, <4>1
      <4>2. CASE x # s
        BY <1>4, <2>1, <3>1, <4>2, OrderedBut DEF Before
      <4> QED BY <4>1, <4>2
    <3>8. \A x \in Side : JobsThin(x, "incoming") /\ JobsThin(x, "init") /\ JobsThin(x, "retry")
      BY <1>4, JobsButFacts
    <3>9. \A x \in Side : at'[x] = at[x] \/ at'[x].step \in {"idle", "failure"}
      BY <3>1, <3>2
    <3> QED BY <1>1, <1>12, <2>1, <3>5, <3>7, <3>8, <3>9, BeforeSame
  <2>2. PhaseInv'
    BY <1>0, <1>6, <1>9, <1>10, <2>1, PhaseKept, Zenon
  <2> QED BY <1>8, <1>12, <2>2, Zenon DEF AgreeInv
<1>13. CASE Connects
  <2>1. ASSUME Before, "timeout" \notin faults', Together' PROVE SettledOn(m)'
    <3>0. Peer(s) \in Side /\ Peer(s) # s /\ \A x \in Side : x = s \/ x = Peer(s)
      BY PeerFacts
    <3>1. /\ Peer(s) \in in_progress
          /\ \A x \in Side : \A t \in {"path", "failure"} : ~FrameOn(x, t) /\ ~HasType(jobs'[x], t)
          /\ at[Peer(s)].step \notin {"path", "failure"}
          /\ ~HasType(jobs'[Peer(s)], "init")
      BY <1>0, <1>6, <1>10, <1>13, <2>1, RequestReceived
    <3>2. /\ made' = {1, m} /\ at'[Peer(s)] = at[Peer(s)] /\ medium'[Peer(s)] = m
          /\ at'[s].step = "ack" /\ at'[s].on = m /\ medium'[s] = m
          /\ \A x \in Side : arriving'[x] \subseteq {m}
      BY <1>0, <1>13, <2>1, <3>0 DEF Before, Goes, JobType, EntryType, ChannelType
    <3>3. ASSUME NEW x \in Side, NEW t \in {"path", "failure"} PROVE ~FrameOn(x, t)' /\ ~HasType(jobs'[x], t)
      <4>1. NoFrame
        BY <1>13, SameNoFrame
      <4>2. FrameOn(x, t)' => FrameOn(x, t)
        BY <4>1, ThinsFrames, Zenon DEF NoFrame
      <4> QED BY <3>1, <4>2
    <3>4. \A x \in Side : About(jobs'[x], "incoming", {m})
      <4>1. \A x \in Side : ~HasType(jobs'[x], "incoming")
        BY <1>4, <2>1, JobsButFacts DEF Before, JobsThin
      <4> QED BY <4>1 DEF About, HasType
    <3>5. \A x \in Side : About(jobs'[x], "init", {m, None})
      <4>1. About(jobs'[s], "init", {None, medium[s]})
        BY <1>4, <1>11, <2>1, JobsButFacts
      <4>2. {None, medium[s]} \subseteq {m, None}
        BY <1>13
      <4>3. About(jobs'[s], "init", {m, None})
        BY <4>1, <4>2, AboutMore
      <4>4. About(jobs'[Peer(s)], "init", {m, None})
        BY <3>1, AboutMore
      <4> QED BY <3>0, <4>3, <4>4, Zenon
    <3>6. ASSUME NEW x \in Side
          PROVE  /\ at'[x].step \notin {"path", "failure"}
                 /\ channel'[x] \in {1, m, None} /\ bandwidth'[x] \in {1, m}
                 /\ at'[x].step = "ack" => at'[x].on = m
                 /\ at'[x].step = "replace" => at'[x].of = m
                 /\ medium'[x] = m /\ (x \in in_progress' \/ at'[x].step = "ack")
      <4>1. channel[x] = 1 /\ bandwidth[x] = 1 /\ at[x].step \in {"idle", "path", "failure"}
        BY <2>1 DEF Before
      <4> QED BY <1>1, <3>0, <3>1, <3>2, <4>1
    <3>7. \A x \in Side : SettledSide(x, m)'
      BY <3>2, <3>3, <3>4, <3>5, <3>6, Zenon DEF SettledSide
    <3> QED BY <3>2, <3>7 DEF SettledOn
  <2>2. PhaseInv'
    BY <1>0, <1>5, <1>6, <1>9, <1>10, <2>1, PhaseKept, Zenon
  <2> QED BY <1>8, <1>13, <2>2, Zenon DEF AgreeInv
<1> QED BY <1>2, <1>7, <1>12, <1>13

----------------------------------------------------------------------------
(* The mediums agree *)

\* At first nothing is asked for, and both sides use the first channel.
LEMMA InitAgrees == ASSUME Init PROVE AgreeInv
<1>1. ASSUME NEW s \in Side
      PROVE  /\ jobs[s] = <<>> /\ at[s].step = "idle" /\ previous[s] = {} /\ arriving[s] = {}
             /\ \A c \in Mediums : wire[s][c] = <<>>
             /\ channel[s] = 1 /\ bandwidth[s] = 1 /\ medium[s] = None /\ s \notin alarm
  BY DEF Init, Idle
<1>2. \A x \in Side : \A t : ~HasType(jobs[x], t) /\ OnlyOne(jobs[x], t) /\ ~FrameOn(x, t)
  BY <1>1, EmptyFacts, Zenon DEF FrameOn
<1>3. \A x \in Side : \A t, A : About(jobs[x], t, A) /\ WireAbout(x, t, A)
  BY <1>1, AboutEmpty, Zenon DEF WireAbout
<1>4. PrefInv
  BY <1>1, <1>3 DEF PrefInv
<1>5. Before
  <2>1. made = {1}
    BY DEF Init
  <2>2. ASSUME NEW s \in Side PROVE WishInv(s)
    <3>1. at[s].step = "idle" /\ at[Peer(s)].step = "idle" /\ Peer(s) \in Side
      BY <1>1, PeerFacts
    <3>2. ~Asks(s)
      BY <1>1, <1>2, <3>1, RequestStages DEF Asks, Stages
    <3>3. \A w \in Wishes : ~Wish(s, w)
      BY <1>1, <1>2, <3>2 DEF Wish
    <3> QED BY <1>2, <3>3, Zenon DEF WishInv
  <2>3. \A s \in Side : Ordered(jobs[s], medium[s])
    BY <1>2, OrderedNone, Zenon
  <2>4. ASSUME NEW s \in Side
        PROVE  at[s].step \in {"idle", "path", "failure"} /\ previous[s] \subseteq {None}
    BY <1>1
  <2> QED BY <1>1, <1>2, <2>1, <2>2, <2>3, <2>4, Zenon DEF Before
<1> QED BY <1>4, <1>5, InitLeft, Zenon DEF AgreeInv, PhaseInv

\* Every step keeps the invariant.
LEMMA NextAgrees == TypeOK /\ RequestInv /\ AgreeInv /\ [Next]_vars => AgreeInv'
<1> SUFFICES ASSUME TypeOK, RequestInv, AgreeInv, [Next]_vars PROVE AgreeInv'
  OBVIOUS
<1>0. RequestInv'
  BY NextRequest
<1>1. CASE UNCHANGED vars
  BY <1>1, WorkerSteps, WorkerAgrees
<1>2. ASSUME NEW s \in Side, InitiateBwuForEndpoint(s) \/ AlarmFires(s) \/ BwuThread(s)
      PROVE  AgreeInv'
  BY <1>0, <1>2, InitiateBwuForEndpointAgrees, AlarmFiresAgrees, InitJobAgrees, RetryJobAgrees,
     PathJobAgrees, FailureJobAgrees, IncomingJobAgrees, LastJobAgrees, SafeJobAgrees,
     DisconnectJobAgrees, WritePathAgrees, WriteFailureAgrees, ReadAckAgrees, WriteLastAgrees,
     WriteSafeAgrees, WriteByeAgrees, DrainAgrees, ReplaceAgrees DEF BwuThread
<1>3. ASSUME NEW s \in Side, Reader(s) \/ KeepAlive(s) \/ Manager(s)
      PROVE  AgreeInv'
  BY <1>3, WorkerSteps, WorkerAgrees, ReadsAgrees, LeavingAgrees DEF Reader, KeepAlive
<1>4. ASSUME NEW s \in Side, NEW m \in Mediums, Accept(s, m) PROVE AgreeInv'
  BY <1>4, AcceptAgrees
<1>5. ASSUME NEW c \in Mediums, Break(c) PROVE AgreeInv'
  BY <1>5, WorkerSteps, WorkerAgrees
<1> QED BY <1>1, <1>2, <1>3, <1>4, <1>5 DEF Next

\* The phases tell the mediums that clients were told of.
LEMMA AgreeEnough == RequestInv /\ AgreeInv => MediumsAgree
<1> SUFFICES ASSUME RequestInv, AgreeInv, NEW s \in Side, bandwidth[s] # 1
             PROVE  /\ channel[Peer(s)] # 1
                    /\ "timeout" \notin faults /\ ~Gone(s) /\ ~Gone(Peer(s)) =>
                         channel[Peer(s)] = bandwidth[s]
  BY DEF MediumsAgree
<1>1. channel[Peer(s)] # 1
  BY DEF AgreeInv, LeftInv, Answered
<1>2. ASSUME "timeout" \notin faults, ~Gone(s), ~Gone(Peer(s))
      PROVE  channel[Peer(s)] = bandwidth[s]
  <2>1. Together
    BY <1>2, PeerFacts DEF Together
  <2>2. \E m \in Wanted : SettledOn(m)
    BY <1>2, <2>1 DEF AgreeInv, PhaseInv, Before
  <2>3. PICK m \in Wanted : SettledSide(s, m) /\ SettledSide(Peer(s), m)
    BY <2>2, PeerFacts DEF SettledOn
  <2>4. channel[Peer(s)] # None
    BY <1>2, PeerFacts DEF RequestInv, ThreadInv
  <2> QED BY <1>1, <2>3, <2>4 DEF SettledSide
<1> QED BY <1>1, <1>2

\* A client is told of a new medium only when the other side has left the first one: whatever
\* connection breaks, write fails, endpoint is removed or acknowledgement is late, the
\* SAFE_TO_CLOSE_PRIOR_CHANNEL that completes an upgrade comes from a side that has registered a
\* new channel.  If no acknowledgement is late it is the channel of the same medium, as long as
\* neither side removes the endpoint.
THEOREM MediumsAlwaysAgree == Spec => []MediumsAgree
<1>1. Init => TypeOK /\ RequestInv /\ AgreeInv
  BY InitType, InitRequest, InitAgrees
<1>2. TypeOK /\ RequestInv /\ AgreeInv /\ [Next]_vars => (TypeOK /\ RequestInv /\ AgreeInv)'
  BY NextType, NextRequest, NextAgrees
<1> QED BY <1>1, <1>2, AgreeEnough, PTL DEF Spec

=============================================================================
