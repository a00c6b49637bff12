-------------------------- MODULE BandwidthUpgrade --------------------------
(***************************************************************************)
(* BwuManager (bwu_manager.cc): a connection between two devices moves from *)
(* the channel it was made on to one over a better medium.                 *)
(*                                                                         *)
(* A side has the serial thread of its BwuManager, with a queue of jobs;    *)
(* the endpoint's reader, and its keep-alive worker, which stands for all   *)
(* that write to the endpoint; and the EndpointManager thread.  The new     *)
(* channel is registered in place of the old one and paused until the old   *)
(* one is drained: both use one encryption context, whose messages must be  *)
(* decoded in the order in which they were encoded.                        *)
(*                                                                         *)
(* A channel is named by its medium.  The two devices have no other         *)
(* connection.                                                             *)
(***************************************************************************)
EXTENDS Integers, Sequences, FiniteSets

CONSTANTS
  LastMedium, \* the mediums are 1 .. LastMedium; the connection is made over 1
  Preferred,  \* GetUpgradeMediums: what both sides can do, the best first
  WifiLan,    \* the medium after which no upgrade is retried
  Initiators, \* the sides that ask for an upgrade
  Talkers,    \* the sides whose frames are told apart
  Pingers,    \* bound: the sides whose keep-alive worker writes and looks at the time
  Faults,     \* what may go wrong or be asked for
  MaxFaults,  \* bound: kinds of things that go wrong in one behaviour
  MaxData,    \* bound: frames of a talker, besides those of the upgrade
  MaxAlarms   \* bound: retries after a delay

Side == {"a", "b"}
Peer(s) == IF s = "a" THEN "b" ELSE "a"
Mediums == 1 .. LastMedium
None == 0                    \* no channel, no medium, a null pointer

ASSUME UpgradeConstants ==
  /\ LastMedium \in Nat \ {0}
  /\ Preferred \in Seq(2 .. LastMedium)
  /\ WifiLan \in Nat
  /\ Initiators \subseteq Side /\ Talkers \subseteq Side /\ Pingers \subseteq Side
  /\ Faults \subseteq {"break", "disconnect", "init", "connect", "timeout", "silence"}
  /\ MaxFaults \in Nat
  /\ MaxData \in Nat
  /\ MaxAlarms \in Nat

VARIABLES
  (* the channels *)
  channel,     \* EndpointChannelManager: the endpoint's channel, or None
  paused,      \* channels that is_paused_
  crypto,      \* channels that have a crypto_context_
  closed,      \* channels whose own end is closed
  broken,      \* channels whose connection broke
  made,        \* channels that were ever connected
  arriving,    \* those the side that is to accept them has not yet accepted
  wire,        \* frames on their way to a side
  encoded,     \* messages the side's context has encoded
  decoded,     \* messages it has decoded
  (* BwuManager *)
  jobs,        \* the jobs of its thread
  at,          \* where its thread is in a job
  medium,      \* medium_
  previous,    \* previous_endpoint_channels_: no entry, or one that may be null
  early,       \* successfully_upgraded_endpoints_
  in_progress, \* in_progress_upgrades_
  alarm,       \* sides that have a retry alarm
  (* EndpointManager *)
  reader,      \* the worker that reads
  writer,      \* the worker that writes
  discard,     \* sides whose endpoint is to be discarded
  removal,     \* how far RemoveEndpoint is, and if there is an EndpointState
  (* what the clients see *)
  bandwidth,   \* the medium last reported by OnBandwidthChanged
  sent,        \* how many frames a side has written
  got,         \* the frames a side has received
  (* bounds and history *)
  asked,       \* sides that have asked for an upgrade
  alarms,      \* retries there were
  late,        \* sides that wrote to a channel after its last write
  faults,      \* what did go wrong
  undefined    \* sides that used the node handle of no entry

channelVars == <<channel, paused, crypto, closed, broken, made, arriving, wire, encoded>>
entryVars == <<previous, early, in_progress>>
bwuVars == <<jobs, at, medium, entryVars, alarm>>
workerVars == <<decoded, reader, writer, discard, removal, sent, got, late>>
boundVars == <<asked, alarms, faults>>
vars == <<channelVars, bwuVars, workerVars, bandwidth, boundVars, undefined>>

----------------------------------------------------------------------------
(* Types *)

Frame ==
  [type : {"path", "failure"}, of : Mediums, seq : Nat]
    \cup [type : {"last", "safe", "bye", "ack"}, of : {None}, seq : Nat]
    \cup [type : {"data"}, of : 1 .. MaxData, seq : Nat]
Job ==
  [type : {"incoming", "path", "failure"}, of : Mediums]
    \cup [type : {"init"}, of : 0 .. LastMedium]
    \cup [type : {"retry", "disconnect", "last", "safe"}, of : {None}]
Idle == [step |-> "idle", on |-> None, of |-> None]
Steps ==
  [step : {"path", "ack", "failure", "replace"}, on : Mediums, of : Mediums]
    \cup [step : {"last", "safe", "bye", "drain"}, on : Mediums, of : {None}]
Worker == [on : 0 .. LastMedium, failed : 0 .. LastMedium, runs : BOOLEAN]
Removal == [step : {"none", "closing", "waiting", "last"}, state : BOOLEAN]

AllOpen == [s \in Side |-> {}]
Init ==
  /\ channel = [s \in Side |-> 1]
  /\ paused = AllOpen
  /\ crypto = [s \in Side |-> {1}]
  /\ closed = AllOpen
  /\ broken = {}
  /\ made = {1}
  /\ arriving = [s \in Side |-> {}]
  /\ wire = [s \in Side |-> [c \in Mediums |-> <<>>]]
  /\ encoded = [s \in Side |-> 0]
  /\ decoded = [s \in Side |-> 0]
  /\ jobs = [s \in Side |-> <<>>]
  /\ at = [s \in Side |-> Idle]
  /\ medium = [s \in Side |-> None]
  /\ previous = [s \in Side |-> {}]
  /\ early = {} /\ in_progress = {} /\ alarm = {}
  /\ reader = [s \in Side |-> [on |-> 1, failed |-> None, runs |-> TRUE]]
  /\ writer = [s \in Side |-> [on |-> None, failed |-> None, runs |-> TRUE]]
  /\ discard = {}
  /\ removal = [s \in Side |-> [step |-> "none", state |-> TRUE]]
  /\ bandwidth = [s \in Side |-> 1]
  /\ sent = [s \in Side |-> 0]
  /\ got = [s \in Side |-> <<>>]
  /\ asked = {} /\ alarms = 0 /\ late = {} /\ faults = {} /\ undefined = {}

----------------------------------------------------------------------------
(* BaseEndpointChannel *)

\* A fault may happen.
May(fault) ==
  fault \in Faults /\ (fault \in faults \/ Cardinality(faults) < MaxFaults)

Up(c) == c \notin broken /\ \A s \in Side : c \notin closed[s]

Encodes(s, c) ==
  encoded' = IF c \in crypto[s] THEN [encoded EXCEPT ![s] = @ + 1] ELSE encoded

\* A write to a channel that the other end has closed, or that broke, may still
\* seem to succeed.
Outcomes(s, c) ==
  IF c \in closed[s] THEN {FALSE} ELSE IF Up(c) THEN {TRUE} ELSE BOOLEAN

\* Write: blocks while the channel is paused, encodes, and then writes.
Write(s, c, type, of, ok) ==
  /\ c \notin paused[s]
  /\ ok \in Outcomes(s, c)
  /\ Encodes(s, c)
  /\ wire' = IF ~Up(c) THEN wire
             ELSE [wire EXCEPT ![Peer(s)][c] =
                     Append(@, [type |-> type, of |-> of,
                                seq |-> IF c \in crypto[s] THEN encoded'[s] ELSE 0])]

\* Close: lets the blocked writers go.  What the other end has not read by then
\* may be lost.
Close(s, cs) ==
  /\ paused' = [paused EXCEPT ![s] = @ \ cs]
  /\ closed' = [closed EXCEPT ![s] = @ \cup cs]
  /\ \E lost \in BOOLEAN :
       wire' = [t \in Side |-> [c \in Mediums |->
                  IF c \in cs /\ (t = s \/ lost) THEN <<>> ELSE wire[t][c]]]

\* A read fails: this end or, with nothing left to read, the other is down.
ReadFails(s, c) == c \in closed[s] \/ (wire[s][c] = <<>> /\ ~Up(c))

\* The first frame on a channel decodes if it is the next the peer encoded.
Decodes(s, c) ==
  Head(wire[s][c]).seq = IF c \in crypto[s] THEN decoded[s] + 1 ELSE 0

Took(s, c) == wire' = [wire EXCEPT ![s][c] = Tail(@)]

----------------------------------------------------------------------------
(* EndpointChannelManager *)

\* The removal of the endpoint has begun.
Gone(s) == removal[s].step # "none" \/ ~removal[s].state

\* mutex_, which UnregisterChannelForEndpoint holds while it waits for the goodbye
\* to be sent, is free: the endpoint's channel can be looked up and replaced.
Unlocked(s) == removal[s].step \notin {"closing", "last"}

----------------------------------------------------------------------------
(* BwuManager: jobs *)

Takes(s, type) == at[s] = Idle /\ jobs[s] # <<>> /\ Head(jobs[s]).type = type
Rest(s) == [jobs EXCEPT ![s] = Tail(@)]
Of(s) == Head(jobs[s]).of
Goes(s, step, on, of) == at' = [at EXCEPT ![s] = [step |-> step, on |-> on, of |-> of]]
Ends(s) == at' = [at EXCEPT ![s] = Idle]
Post(s, type, of) == Append(jobs[s], [type |-> type, of |-> of])

ListOf(seq) == {seq[i] : i \in DOMAIN seq}

\* ChooseBestUpgradeMedium: the medium in use, if the list has it; the first of
\* the list if none is in use.
ChooseBestUpgradeMedium(s, list) ==
  IF medium[s] = None THEN (IF list = <<>> THEN None ELSE list[1])
  ELSE IF medium[s] \in ListOf(list) THEN medium[s] ELSE None

\* InitiateBwuForEndpoint, from the API or from a retry.
InitiateBwuForEndpoint(s) ==
  /\ s \in Initiators \ asked
  /\ asked' = asked \cup {s}
  /\ jobs' = [jobs EXCEPT ![s] = Post(s, "init", None)]
  /\ UNCHANGED <<channelVars, at, medium, entryVars, alarm, workerVars, bandwidth,
                 alarms, faults, undefined>>

\* RetryUpgradeMediums: the next medium is tried, or all of them after a delay.
\* rest are the jobs, and set the alarms, before it.
RetryUpgradeMediums(s, next, rest, set) ==
  \/ /\ channel[s] # WifiLan /\ next \in {channel[s], None}
     /\ alarm' = set \cup {s}
     /\ jobs' = rest
  \/ /\ channel[s] = WifiLan /\ next = None
     /\ jobs' = rest
     /\ alarm' = set
  \/ /\ next # None /\ (channel[s] # WifiLan => next # channel[s])
     /\ jobs' = [rest EXCEPT ![s] = Append(@, [type |-> "init", of |-> next])]
     /\ alarm' = set

\* The mediums that come after one in the order of preference.
Untried(m) ==
  IF m \notin ListOf(Preferred) THEN <<>>
  ELSE LET i == CHOOSE j \in DOMAIN Preferred : Preferred[j] = m
       IN SubSeq(Preferred, i + 1, Len(Preferred))

\* ProcessUpgradeFailureEvent: the endpoint is the only one, so the medium is
\* given up and the next one is tried.
ProcessUpgradeFailureEvent(s, m, set) ==
  LET next == IF Untried(m) = <<>> THEN None ELSE Untried(m)[1] IN
  /\ in_progress' = in_progress \ {s}
  /\ RetryUpgradeMediums(s, next, Rest(s), set)
  /\ medium' = [medium EXCEPT ![s] =
                  IF channel[s] # WifiLan /\ next = channel[s] THEN None ELSE next]

\* The job of InitiateBwuForEndpoint up to the write.  The medium is set first,
\* even if the request is then ignored.
InitJob(s) ==
  LET proposed == IF Of(s) # None THEN Of(s) ELSE ChooseBestUpgradeMedium(s, Preferred)
      ignored == proposed = None \/ s \in in_progress
      useless == channel[s] \in {None, proposed}
  IN
  /\ Takes(s, "init") /\ Unlocked(s)
  /\ \/ /\ ignored
        /\ medium' = [medium EXCEPT ![s] = proposed]
        /\ jobs' = Rest(s)
        /\ UNCHANGED <<at, alarm, in_progress, faults>>
     \/ /\ ~ignored /\ useless
        /\ medium' = [medium EXCEPT ![s] = proposed]
        /\ alarm' = alarm \ {s}
        /\ jobs' = Rest(s)
        /\ UNCHANGED <<at, in_progress, faults>>
     \/ /\ ~ignored /\ ~useless /\ May("init")
        /\ faults' = faults \cup {"init"}
        /\ ProcessUpgradeFailureEvent(s, proposed, alarm \ {s})
        /\ UNCHANGED at
     \/ /\ ~ignored /\ ~useless
        /\ medium' = [medium EXCEPT ![s] = proposed]
        /\ alarm' = alarm \ {s}
        /\ jobs' = Rest(s)
        /\ Goes(s, "path", channel[s], proposed)
        /\ UNCHANGED <<in_progress, faults>>
  /\ UNCHANGED <<channelVars, previous, early, workerVars, bandwidth, asked, alarms,
                 undefined>>

\* UPGRADE_PATH_AVAILABLE is written; only then is the upgrade in progress.
WritePath(s) ==
  /\ at[s].step = "path"
  /\ \E ok \in BOOLEAN :
       /\ Write(s, at[s].on, "path", at[s].of, ok)
       /\ in_progress' = IF ok THEN in_progress \cup {s} ELSE in_progress
  /\ Ends(s)
  /\ UNCHANGED <<channel, paused, crypto, closed, broken, made, arriving, jobs, medium, previous,
                 early, alarm, workerVars, bandwidth, boundVars, undefined>>

\* The alarm of RetryUpgradesAfterDelay.
AlarmFires(s) ==
  /\ s \in alarm /\ alarms < MaxAlarms
  /\ alarm' = alarm \ {s}
  /\ alarms' = alarms + 1
  /\ jobs' = [jobs EXCEPT ![s] = Post(s, "retry", None)]
  /\ UNCHANGED <<channelVars, at, medium, entryVars, workerVars, bandwidth, asked,
                 faults, undefined>>

RetryJob(s) ==
  LET next == ChooseBestUpgradeMedium(s, Preferred) IN
  /\ Takes(s, "retry") /\ Unlocked(s)
  /\ \/ /\ channel[s] = None
        /\ jobs' = Rest(s)
        /\ UNCHANGED <<medium, alarm>>
     \/ /\ channel[s] # None
        /\ RetryUpgradeMediums(s, next, Rest(s), alarm)
        /\ medium' = IF channel[s] # WifiLan /\ next \in {channel[s], None} THEN medium
                     ELSE [medium EXCEPT ![s] = next]
  /\ UNCHANGED <<channelVars, at, entryVars, workerVars, bandwidth, boundVars, undefined>>

FailureJob(s) ==
  /\ Takes(s, "failure") /\ Unlocked(s)
  /\ ProcessUpgradeFailureEvent(s, Of(s), alarm)
  /\ UNCHANGED <<channelVars, at, previous, early, workerVars, bandwidth, boundVars,
                 undefined>>

----------------------------------------------------------------------------
(* BwuManager: the channels are exchanged *)

\* Wrong on purpose: the new channel is not paused.
RunUpgradeProtocolUnpaused(s, m) ==
  /\ Goes(s, "replace", channel[s], m)
  /\ UNCHANGED <<paused, closed>>

\* RunUpgradeProtocol: the new channel is paused and the old one fetched.  If the
\* endpoint has none any more, the new one is destroyed ...
RunUpgradeProtocol(s, m) ==
  IF channel[s] = None
    THEN /\ closed' = [closed EXCEPT ![s] = @ \cup {m}]
         /\ Ends(s)
         /\ UNCHANGED paused
    ELSE /\ paused' = [paused EXCEPT ![s] = @ \cup {m}]
         /\ Goes(s, "replace", channel[s], m)
         /\ UNCHANGED closed

\* ... and then the new one registered in its place (ReplaceChannelForEndpoint).
\* An endpoint that was removed in between gets an entry again, which has no
\* encryption context.
Replace(s) ==
  LET m == at[s].of IN
  /\ at[s].step = "replace" /\ Unlocked(s)
  /\ channel' = [channel EXCEPT ![s] = m]
  /\ crypto' = IF channel[s] = None THEN crypto ELSE [crypto EXCEPT ![s] = @ \cup {m}]
  /\ Goes(s, "last", at[s].on, None)
  /\ UNCHANGED <<paused, closed, broken, made, arriving, wire, encoded, jobs, medium,
                 entryVars, alarm, workerVars, bandwidth, boundVars, undefined>>

\* ProcessBwuPathAvailableEvent.  A second path closes everything; a medium
\* other than the one in use is refused; else the new channel is connected, and
\* the other side's BwuManager gets it with the introduction on it.
PathJob(s) ==
  LET m == Of(s)
      refused == medium[s] \notin {None, m}
      fails == IF channel[s] = None THEN Ends(s) ELSE Goes(s, "failure", channel[s], m)
  IN
  /\ Takes(s, "path") /\ Unlocked(s)
  /\ \/ /\ s \in in_progress
        /\ Close(s, (previous[s] \cup {channel[s]}) \ {None})
        /\ previous' = [previous EXCEPT ![s] = {}]
        /\ faults' = faults \cup {"duplicate"}
        /\ jobs' = Rest(s)
        /\ UNCHANGED <<at, medium, made, arriving>>
     \/ /\ s \notin in_progress /\ refused
        /\ fails
        /\ jobs' = Rest(s)
        /\ UNCHANGED <<medium, paused, closed, wire, previous, made, arriving, faults>>
     \/ /\ s \notin in_progress /\ ~refused
        /\ May("connect") \/ medium[Peer(s)] # m \/ m \in made
        /\ medium' = [medium EXCEPT ![s] = m]
        /\ fails
        /\ faults' = faults \cup {"connect"}
        /\ jobs' = Rest(s)
        /\ UNCHANGED <<paused, closed, wire, previous, made, arriving>>
     \/ /\ s \notin in_progress /\ ~refused
        /\ medium[Peer(s)] = m /\ m \notin made
        /\ medium' = [medium EXCEPT ![s] = m]
        /\ made' = made \cup {m}
        /\ arriving' = [arriving EXCEPT ![Peer(s)] = @ \cup {m}]
        /\ jobs' = Rest(s)
        /\ Goes(s, "ack", m, m)
        /\ UNCHANGED <<paused, closed, wire, previous, faults>>
  /\ UNCHANGED <<channel, crypto, broken, encoded, early, in_progress, alarm, workerVars,
                 bandwidth, asked, alarms, undefined>>

\* RunUpgradeFailedProtocol: UPGRADE_FAILURE is written and the medium given up.
WriteFailure(s) ==
  LET c == at[s].on IN
  /\ at[s].step = "failure"
  /\ \/ /\ Write(s, c, "failure", at[s].of, TRUE)
        /\ medium' = [medium EXCEPT ![s] = None]
        /\ in_progress' = in_progress \ {s}
        /\ UNCHANGED <<paused, closed>>
     \/ /\ c \notin paused[s] /\ ~Up(c)
        /\ Encodes(s, c)
        /\ Close(s, {c})
        /\ UNCHANGED <<medium, in_progress>>
  /\ Ends(s)
  /\ UNCHANGED <<channel, crypto, broken, made, arriving, jobs, previous, early, alarm, workerVars,
                 bandwidth, boundVars, undefined>>

\* The accepting thread hands the new connection to the BwuManager.
Accept(s, m) ==
  /\ m \in arriving[s]
  /\ arriving' = [arriving EXCEPT ![s] = @ \ {m}]
  /\ jobs' = [jobs EXCEPT ![s] = Post(s, "incoming", m)]
  /\ UNCHANGED <<channel, paused, crypto, closed, broken, made, wire, encoded, at, medium,
                 entryVars, alarm, workerVars, bandwidth, boundVars, undefined>>

\* OnIncomingConnection: the introduction is read and acknowledged, and only
\* then is it asked whether an upgrade is in progress.
IncomingJob(s) ==
  LET m == Of(s)
      ack == [type |-> "ack", of |-> None, seq |-> 0]
      acknowledged == [wire EXCEPT ![Peer(s)][m] = <<ack>>]
  IN
  /\ Takes(s, "incoming") /\ Unlocked(s)
  /\ jobs' = Rest(s)
  /\ \/ /\ ~Up(m)
        /\ Close(s, {m})
        /\ UNCHANGED <<at, alarm>>
     \/ /\ s \notin in_progress
        /\ closed' = [closed EXCEPT ![s] = @ \cup {m}]
        /\ wire' \in {wire, IF Up(m) THEN acknowledged ELSE wire}
        /\ UNCHANGED <<paused, at, alarm>>
     \/ /\ s \in in_progress
        /\ wire' = IF Up(m) THEN acknowledged ELSE wire
        /\ alarm' = alarm \ {s}
        /\ RunUpgradeProtocol(s, m)
  /\ UNCHANGED <<channel, crypto, broken, made, arriving, encoded, medium, entryVars,
                 workerVars, bandwidth, boundVars, undefined>>

\* Wrong on purpose: nobody waits for the acknowledgement.
ReadAckSkipped(s) ==
  /\ at[s].step = "ack" /\ Unlocked(s)
  /\ in_progress' = in_progress \cup {s}
  /\ RunUpgradeProtocol(s, at[s].on)
  /\ UNCHANGED <<channel, crypto, broken, made, arriving, wire, encoded, jobs, medium,
                 previous, early, alarm, workerVars, bandwidth, boundVars, undefined>>

\* The other side waits for the acknowledgement, for a while, before it starts
\* the upgrade; without it the new channel is closed.
ReadAck(s) ==
  LET m == at[s].on IN
  /\ at[s].step = "ack" /\ Unlocked(s)
  /\ \/ /\ wire[s][m] # <<>> /\ m \notin closed[s]
        /\ Took(s, m)
        /\ in_progress' = in_progress \cup {s}
        /\ RunUpgradeProtocol(s, m)
        /\ UNCHANGED faults
     \/ /\ ReadFails(s, m) \/ (wire[s][m] = <<>> /\ May("timeout"))
        /\ Close(s, {m})
        /\ faults' = faults \cup {"timeout"}
        /\ IF channel[s] = None THEN Ends(s) ELSE Goes(s, "failure", channel[s], m)
        /\ UNCHANGED in_progress
  /\ UNCHANGED <<channel, crypto, broken, made, arriving, encoded, jobs, medium, previous,
                 early, alarm, workerVars, bandwidth, asked, alarms, undefined>>

\* Wrong on purpose: the null pointer is used.
ProcessLastWriteUnchecked(s, entry) ==
  /\ previous' = [previous EXCEPT ![s] = entry]
  /\ early' = early \ {s}
  /\ \E c \in IF entry = {} THEN {None} ELSE entry : Goes(s, "safe", c, None)

\* Wrong on purpose: without an old channel the answer goes over the current one.
ProcessLastWriteAnswers(s, entry) ==
  /\ previous' = [previous EXCEPT ![s] = entry]
  /\ early' = early \ {s}
  /\ IF entry \subseteq {None}
       THEN IF channel[s] = None THEN Ends(s) ELSE Goes(s, "safe", channel[s], None)
       ELSE \E c \in entry : Goes(s, "safe", c, None)

\* Wrong on purpose: the entry is removed when the peer's last write is processed.
ProcessLastWriteRemoves(s, entry) ==
  IF entry \subseteq {None}
    THEN /\ previous' = [previous EXCEPT ![s] = {None}]
         /\ early' = early \cup {s}
         /\ Ends(s)
    ELSE /\ previous' = [previous EXCEPT ![s] = {}]
         /\ early' = early \ {s}
         /\ \E c \in entry : Goes(s, "safe", c, None)

\* What becomes of the thread, and of the entry, when the peer's last write is
\* processed: SAFE_TO_CLOSE is next, unless there is no old channel yet.
ProcessLastWriteToPriorChannelEvent(s, entry) ==
  IF entry \subseteq {None}
    THEN /\ previous' = [previous EXCEPT ![s] = {None}]
         /\ early' = early \cup {s}
         /\ Ends(s)
    ELSE /\ previous' = [previous EXCEPT ![s] = entry]
         /\ early' = early \ {s}
         /\ \E c \in entry : Goes(s, "safe", c, None)

\* Wrong on purpose: the old channel is not kept.
WriteLastForgets(s) ==
  /\ at[s].step = "last"
  /\ \E ok \in BOOLEAN : Write(s, at[s].on, "last", None, ok)
  /\ Ends(s)
  /\ UNCHANGED <<channel, paused, crypto, closed, broken, made, arriving, jobs, medium,
                 entryVars, alarm, workerVars, bandwidth, boundVars, undefined>>

\* The end of RunUpgradeProtocol: LAST_WRITE_TO_PRIOR_CHANNEL is written, and
\* the old channel kept, unless there is an entry already.
WriteLast(s) ==
  LET c == at[s].on
      entry == IF previous[s] = {} THEN {c} ELSE previous[s]
  IN
  /\ at[s].step = "last"
  /\ \E ok \in BOOLEAN :
       /\ Write(s, c, "last", None, ok)
       /\ \/ /\ ok /\ s \in early
             /\ ProcessLastWriteToPriorChannelEvent(s, entry)
          \/ /\ ok /\ s \notin early
             /\ previous' = [previous EXCEPT ![s] = entry]
             /\ Ends(s)
             /\ UNCHANGED early
          \/ ~ok /\ Ends(s) /\ UNCHANGED <<previous, early>>
  /\ UNCHANGED <<channel, paused, crypto, closed, broken, made, arriving, jobs, medium, in_progress,
                 alarm, workerVars, bandwidth, boundVars, undefined>>

LastJob(s) ==
  /\ Takes(s, "last")
  /\ jobs' = Rest(s)
  /\ ProcessLastWriteToPriorChannelEvent(s, previous[s])
  /\ UNCHANGED <<channelVars, medium, in_progress, alarm, workerVars, bandwidth, boundVars,
                 undefined>>

\* SAFE_TO_CLOSE_PRIOR_CHANNEL is written, or the old channel is given up.
WriteSafe(s) ==
  LET c == at[s].on IN
  /\ at[s].step = "safe"
  /\ \/ /\ Write(s, c, "safe", None, TRUE)
        /\ UNCHANGED <<paused, closed, previous>>
     \/ /\ c \notin paused[s] /\ ~Up(c)
        /\ Encodes(s, c)
        /\ Close(s, {c})
        /\ previous' = [previous EXCEPT ![s] = {}]
  /\ Ends(s)
  /\ UNCHANGED <<channel, crypto, broken, made, arriving, jobs, medium, early, in_progress, alarm,
                 workerVars, bandwidth, boundVars, undefined>>

\* Wrong on purpose: no goodbye is said.
SafeJobSilent(s) ==
  /\ Takes(s, "safe")
  /\ jobs' = Rest(s)
  /\ previous' = [previous EXCEPT ![s] = {}]
  /\ IF previous[s] \subseteq {None} THEN UNCHANGED <<crypto, at>>
     ELSE \E c \in previous[s] :
            /\ crypto' = [crypto EXCEPT ![s] = @ \ {c}]
            /\ Goes(s, "drain", c, None)
  /\ UNCHANGED <<channel, paused, closed, broken, made, arriving, wire, encoded, medium,
                 early, in_progress, alarm, workerVars, bandwidth, boundVars, undefined>>

\* ProcessSafeToClosePriorChannelEvent: takes the old channel out and stops
\* encrypting on it.  If there is no entry, the mapped value of an empty node
\* handle is used; what it holds is not defined, and is taken for null.
SafeJob(s) ==
  /\ Takes(s, "safe")
  /\ jobs' = Rest(s)
  /\ previous' = [previous EXCEPT ![s] = {}]
  /\ undefined' = IF previous[s] = {} THEN undefined \cup {s} ELSE undefined
  /\ IF previous[s] \subseteq {None} THEN UNCHANGED <<crypto, at>>
     ELSE \E c \in previous[s] :
            /\ crypto' = [crypto EXCEPT ![s] = @ \ {c}]
            /\ Goes(s, "bye", c, None)
  /\ UNCHANGED <<channel, paused, closed, broken, made, arriving, wire, encoded, medium, early,
                 in_progress, alarm, workerVars, bandwidth, boundVars>>

\* ... says goodbye on it in the clear, whether or not that succeeds ...
WriteBye(s) ==
  /\ at[s].step = "bye"
  /\ \E ok \in BOOLEAN : Write(s, at[s].on, "bye", None, ok)
  /\ Goes(s, "drain", at[s].on, None)
  /\ UNCHANGED <<channel, paused, crypto, closed, broken, made, arriving, jobs, medium, entryVars,
                 alarm, workerVars, bandwidth, boundVars, undefined>>

\* Wrong on purpose: the new channel is not resumed.
DrainKeepsPaused(s) ==
  LET c == at[s].on IN
  /\ at[s].step = "drain" /\ Unlocked(s)
  /\ wire[s][c] # <<>> \/ ReadFails(s, c)
  /\ Close(s, {c})
  /\ bandwidth' = [bandwidth EXCEPT ![s] = channel[s]]
  /\ in_progress' = in_progress \ {s}
  /\ Ends(s)
  /\ UNCHANGED <<channel, crypto, broken, made, arriving, encoded, jobs, medium, previous,
                 early, alarm, workerVars, boundVars, undefined>>

\* ... and reads once more, whatever comes, before the old channel is closed and
\* the new one resumed.
Drain(s) ==
  LET c == at[s].on IN
  /\ at[s].step = "drain" /\ Unlocked(s)
  /\ wire[s][c] # <<>> \/ ReadFails(s, c)
  /\ closed' = [closed EXCEPT ![s] = @ \cup {c}]
  /\ paused' = [paused EXCEPT ![s] = @ \ {c, channel[s]}]
  /\ \E lost \in BOOLEAN :
       wire' = [t \in Side |-> [wire[t] EXCEPT ![c] = IF t = s \/ lost THEN <<>> ELSE @]]
  /\ IF channel[s] = None THEN UNCHANGED <<bandwidth, in_progress>>
     ELSE /\ bandwidth' = [bandwidth EXCEPT ![s] = channel[s]]
          /\ in_progress' = in_progress \ {s}
  /\ Ends(s)
  /\ UNCHANGED <<channel, crypto, broken, made, arriving, encoded, jobs, medium, previous, early,
                 alarm, workerVars, boundVars, undefined>>

\* OnEndpointDisconnect: nothing is cleaned up if no medium is in use.
DisconnectJob(s) ==
  /\ Takes(s, "disconnect") /\ Unlocked(s)
  /\ jobs' = Rest(s)
  /\ IF medium[s] = None THEN UNCHANGED <<paused, closed, wire, medium, entryVars, alarm>>
     ELSE /\ Close(s, previous[s] \ {None})
          /\ previous' = [previous EXCEPT ![s] = {}]
          /\ early' = early \ {s}
          /\ in_progress' = in_progress \ {s}
          /\ alarm' = alarm \ {s}
          /\ medium' = [medium EXCEPT ![s] = None]
  /\ UNCHANGED <<channel, crypto, broken, made, arriving, encoded, at, workerVars, bandwidth,
                 boundVars, undefined>>

----------------------------------------------------------------------------
(* EndpointManager: the workers of the endpoint *)

\* EndpointChannelLoopRunnable fetches the channel; it ends if there is none, or
\* only the one that failed, and the endpoint is discarded.
Fetch(s, worker) ==
  LET ends == channel[s] \in {None, worker.failed} IN
  /\ worker.runs /\ worker.on = None /\ Unlocked(s)
  /\ discard' = IF ends THEN discard \cup {s} ELSE discard

Ended == [on |-> None, failed |-> None, runs |-> FALSE]

Fetched(s, worker) ==
  IF channel[s] \in {None, worker.failed} THEN Ended
  ELSE [worker EXCEPT !.on = channel[s]]

Failed(worker) == [worker EXCEPT !.failed = worker.on, !.on = None]

\* The reader drops the channel that failed, which ends with its last user.
ReaderFetches(s) ==
  LET users == {None, channel[s], writer[s].on, at[s].on} \cup previous[s] IN
  /\ Fetch(s, reader[s])
  /\ reader' = [reader EXCEPT ![s] = Fetched(s, @)]
  /\ closed' = [closed EXCEPT ![s] = @ \cup ({reader[s].failed} \ users)]
  /\ UNCHANGED <<channel, paused, crypto, broken, made, arriving, wire, encoded, bwuVars,
                 decoded, writer, removal, sent, got, late, bandwidth, boundVars, undefined>>

\* HandleData.  A frame of the upgrade becomes a job; a goodbye closes the
\* channel; what cannot be decoded on an encrypted channel sends the reader back
\* to look for another, and on one that is not it is skipped.
Reads(s) ==
  LET c == reader[s].on
      frame == Head(wire[s][c])
  IN
  /\ reader[s].runs /\ c # None
  /\ \/ /\ ReadFails(s, c)
        /\ reader' = [reader EXCEPT ![s] = Failed(@)]
        /\ UNCHANGED <<paused, closed, wire, decoded, jobs, got>>
     \/ /\ c \notin closed[s] /\ wire[s][c] # <<>> /\ ~Decodes(s, c)
        /\ Took(s, c)
        /\ reader' = IF c \in crypto[s] THEN [reader EXCEPT ![s] = Failed(@)] ELSE reader
        /\ UNCHANGED <<paused, closed, decoded, jobs, got>>
     \/ /\ c \notin closed[s] /\ wire[s][c] # <<>> /\ Decodes(s, c)
        /\ decoded' = IF c \in crypto[s] THEN [decoded EXCEPT ![s] = @ + 1] ELSE decoded
        /\ \/ /\ frame.type \in {"path", "failure", "last", "safe"}
              /\ Took(s, c)
              /\ jobs' = [jobs EXCEPT ![s] = Post(s, frame.type, frame.of)]
              /\ UNCHANGED <<paused, closed, got>>
           \/ /\ frame.type = "data"
              /\ Took(s, c)
              /\ got' = [got EXCEPT ![s] = Append(@, frame.of)]
              /\ UNCHANGED <<paused, closed, jobs>>
           \/ /\ frame.type = "bye"
              /\ Close(s, {c})
              /\ UNCHANGED <<jobs, got>>
        /\ UNCHANGED reader
  /\ UNCHANGED <<channel, crypto, broken, made, arriving, encoded, at, medium, entryVars, alarm,
                 writer, discard, removal, sent, late, bandwidth, boundVars, undefined>>

WriterFetches(s) ==
  /\ s \in Pingers
  /\ Fetch(s, writer[s])
  /\ writer' = [writer EXCEPT ![s] = Fetched(s, @)]
  /\ UNCHANGED <<channelVars, bwuVars, decoded, reader, removal, sent, got, late,
                 bandwidth, boundVars, undefined>>

\* The write of HandleKeepAlive or of SendTransferFrameBytes, on the channel that
\* was fetched before; beyond the bound the worker writes nothing, but blocks and
\* fails as before.
Writes(s) ==
  LET c == writer[s].on IN
  /\ c # None
  /\ \E ok \in BOOLEAN :
       /\ \/ /\ s \in Talkers /\ sent[s] < MaxData
             /\ Write(s, c, "data", sent[s] + 1, ok)
             /\ sent' = [sent EXCEPT ![s] = @ + 1]
             /\ late' = IF c # channel[s] /\ at[s].step # "last" THEN late \cup {s} ELSE late
          \/ /\ s \notin Talkers \/ sent[s] = MaxData
             /\ c \notin paused[s] /\ ok \in Outcomes(s, c)
             /\ UNCHANGED <<encoded, wire, sent, late>>
       /\ writer' = [writer EXCEPT ![s] = IF ok THEN [@ EXCEPT !.on = None] ELSE Failed(@)]
  /\ UNCHANGED <<channel, paused, crypto, closed, broken, made, arriving, bwuVars, decoded,
                 reader, discard, removal, got, bandwidth, boundVars, undefined>>

\* The other side can write to the channel, or has.
Heard(s, c) ==
  \/ wire[s][c] # <<>>
  \/ writer[Peer(s)].runs /\ channel[Peer(s)] = c /\ c \notin paused[Peer(s)] /\ Up(c)

\* HandleKeepAlive finds, before it writes, that nothing was read for too long.
KeepAliveTimesOut(s) ==
  /\ May("silence") /\ s \in Pingers
  /\ writer[s].runs /\ writer[s].on = None /\ Unlocked(s)
  /\ channel[s] # None /\ ~Heard(s, channel[s])
  /\ writer' = [writer EXCEPT ![s] = Ended]
  /\ discard' = discard \cup {s}
  /\ faults' = faults \cup {"silence"}
  /\ UNCHANGED <<channelVars, bwuVars, decoded, reader, removal, sent, got, late, bandwidth,
                 asked, alarms, undefined>>

\* UnregisterChannelForEndpoint up to its delay: the channel is resumed and told
\* goodbye.
SaysGoodbye(s, step) ==
  LET c == channel[s] IN
  /\ paused' = [paused EXCEPT ![s] = @ \ {c}]
  /\ Encodes(s, c)
  /\ wire' = IF Up(c) THEN [wire EXCEPT ![Peer(s)][c] =
                              Append(@, [type |-> "bye", of |-> None,
                                         seq |-> IF c \in crypto[s] THEN encoded'[s] ELSE 0])]
             ELSE wire
  /\ removal' = [removal EXCEPT ![s].step = step]

\* RemoveEndpoint, of an endpoint that is discarded or that the client leaves.
RemoveEndpoint(s) ==
  /\ removal[s].step = "none" /\ channel[s] # None
  /\ s \in discard \/ (May("disconnect") /\ "disconnect" \notin faults)
  /\ SaysGoodbye(s, "closing")
  /\ faults' = IF s \in discard THEN faults ELSE faults \cup {"disconnect"}
  /\ UNCHANGED <<channel, crypto, closed, broken, made, arriving, bwuVars, decoded, reader,
                 writer, discard, sent, got, late, bandwidth, asked, alarms, undefined>>

\* After the delay the entry is erased and the channel closed, whoever still uses
\* it; the first time, the BwuManager is told.
Unregister(s) ==
  /\ ~Unlocked(s)
  /\ Close(s, {channel[s]} \ {None})
  /\ channel' = [channel EXCEPT ![s] = None]
  /\ IF removal[s].step = "closing"
       THEN /\ removal' = [removal EXCEPT ![s].step = "waiting"]
            /\ jobs' = [jobs EXCEPT ![s] = Post(s, "disconnect", None)]
       ELSE /\ removal' = [removal EXCEPT ![s] = [step |-> "none", state |-> FALSE]]
            /\ UNCHANGED jobs
  /\ UNCHANGED <<crypto, broken, made, arriving, encoded, at, medium, entryVars, alarm,
                 decoded, reader, writer, discard, sent, got, late, bandwidth, boundVars,
                 undefined>>

\* Wrong on purpose: the channel is not unregistered a second time.
RemoveEndpointStateOnly(s) ==
  /\ removal[s].step = "waiting"
  /\ \/ (\A i \in DOMAIN jobs[s] : jobs[s][i].type # "disconnect") /\ UNCHANGED faults
     \/ May("timeout") /\ faults' = faults \cup {"timeout"}
  /\ removal' = [removal EXCEPT ![s] = [step |-> "none", state |-> FALSE]]
  /\ UNCHANGED <<channelVars, bwuVars, decoded, reader, writer, discard, sent, got, late,
                 bandwidth, asked, alarms, undefined>>

\* RemoveEndpointState, once the BwuManager has done its job, or is no longer waited
\* for: the destructor of EndpointState unregisters the channel once more.  It finds
\* one if RunUpgradeProtocol has registered it meanwhile.
RemoveEndpointState(s) ==
  /\ removal[s].step = "waiting"
  /\ \/ (\A i \in DOMAIN jobs[s] : jobs[s][i].type # "disconnect") /\ UNCHANGED faults
     \/ May("timeout") /\ faults' = faults \cup {"timeout"}
  /\ \/ removal[s].state /\ channel[s] # None /\ SaysGoodbye(s, "last")
     \/ /\ ~removal[s].state \/ channel[s] = None
        /\ removal' = [removal EXCEPT ![s] = [step |-> "none", state |-> FALSE]]
        /\ UNCHANGED <<paused, wire, encoded>>
  /\ UNCHANGED <<channel, crypto, closed, broken, made, arriving, bwuVars, decoded, reader,
                 writer, discard, sent, got, late, bandwidth, asked, alarms, undefined>>

\* The connection of a channel breaks.
Break(c) ==
  /\ May("break") /\ c \in made \ broken
  /\ Up(c)
  /\ broken' = broken \cup {c}
  /\ wire' = [s \in Side |-> [wire[s] EXCEPT ![c] = <<>>]]
  /\ faults' = faults \cup {"break"}
  /\ UNCHANGED <<channel, paused, crypto, closed, made, arriving, encoded, bwuVars, workerVars,
                 bandwidth, asked, alarms, undefined>>

----------------------------------------------------------------------------
BwuThread(s) ==
  \/ InitJob(s) \/ RetryJob(s) \/ PathJob(s) \/ FailureJob(s) \/ IncomingJob(s)
  \/ LastJob(s) \/ SafeJob(s) \/ DisconnectJob(s)
  \/ WritePath(s) \/ WriteFailure(s) \/ ReadAck(s) \/ Replace(s)
  \/ WriteLast(s) \/ WriteSafe(s) \/ WriteBye(s) \/ Drain(s)
Reader(s) == ReaderFetches(s) \/ Reads(s)
KeepAlive(s) == WriterFetches(s) \/ Writes(s) \/ KeepAliveTimesOut(s)
Manager(s) == RemoveEndpoint(s) \/ Unregister(s) \/ RemoveEndpointState(s)

Next ==
  \/ \E s \in Side : InitiateBwuForEndpoint(s) \/ AlarmFires(s) \/ BwuThread(s)
  \/ \E s \in Side : Reader(s) \/ KeepAlive(s) \/ Manager(s)
  \/ \E s \in Side, m \in Mediums : Accept(s, m)
  \/ \E c \in Mediums : Break(c)

Spec == Init /\ [][Next]_vars

\* The threads go on: that of BwuManager, the endpoint's workers, the one that
\* accepts connections, and that of EndpointManager with the endpoints that are
\* to be discarded.  Nothing is
\* assumed of the alarm, whose retries are bounded.
Fairness ==
  \A s \in Side :
    /\ WF_vars(BwuThread(s)) /\ WF_vars(Reader(s)) /\ WF_vars(KeepAlive(s))
    /\ WF_vars((s \in discard \/ removal[s].step # "none") /\ Manager(s))
    /\ WF_vars(\E m \in Mediums : Accept(s, m))

FairSpec == Spec /\ Fairness

----------------------------------------------------------------------------
(* Properties *)

TypeOK ==
  /\ channel \in [Side -> 0 .. LastMedium]
  /\ paused \in [Side -> SUBSET Mediums]
  /\ crypto \in [Side -> SUBSET Mediums]
  /\ closed \in [Side -> SUBSET Mediums]
  /\ broken \subseteq Mediums
  /\ made \subseteq Mediums
  /\ arriving \in [Side -> SUBSET Mediums]
  /\ wire \in [Side -> [Mediums -> Seq(Frame)]]
  /\ encoded \in [Side -> Nat]
  /\ decoded \in [Side -> Nat]
  /\ jobs \in [Side -> Seq(Job)]
  /\ at \in [Side -> Steps \cup {Idle}]
  /\ medium \in [Side -> 0 .. LastMedium]
  /\ previous \in [Side -> SUBSET (0 .. LastMedium)]
  /\ \A s \in Side : \A c, d \in previous[s] : c = d
  /\ early \subseteq Side /\ in_progress \subseteq Side /\ alarm \subseteq Side
  /\ reader \in [Side -> Worker]
  /\ writer \in [Side -> Worker]
  /\ discard \subseteq Side
  /\ removal \in [Side -> Removal]
  /\ bandwidth \in [Side -> 0 .. LastMedium]
  /\ sent \in [Side -> 0 .. MaxData]
  /\ got \in [Side -> Seq(1 .. MaxData)]
  /\ asked \subseteq Side /\ alarms \in 0 .. MaxAlarms
  /\ late \subseteq Side /\ undefined \subseteq Side
  /\ faults \subseteq {"break", "disconnect", "init", "connect", "timeout", "duplicate",
                       "silence"}

\* The data on their way to a side, over the older channels first.
OnWire(s) ==
  LET data(c) == SelectSeq(wire[s][c], LAMBDA f : f.type = "data")
      upto[c \in 0 .. LastMedium] == IF c = 0 THEN <<>> ELSE upto[c - 1] \o data(c)
  IN [i \in DOMAIN upto[LastMedium] |-> upto[LastMedium][i].of]

\* What is sent is received, once and in order, although frames are on their way
\* over the old channel when the new one is already registered: of the frames
\* sent, the first have been read, the next are on the old channel and the rest
\* on the new one.  Only a writer that had fetched the old channel before, and
\* writes to it after its last write, spoils this.
FramesKept ==
  \A s \in Side :
    faults \subseteq {"init", "connect"} /\ late = {} =>
      got[s] \o OnWire(s) = [i \in 1 .. sent[Peer(s)] |-> i]

\* A client is told of a new medium only when the other side has left the first one
\* as well, whatever failed before: the answers that complete an upgrade come from a
\* side that has changed over.  It has changed over to the same medium, unless a side
\* removes the endpoint or an acknowledgement was not received in time: then a
\* connection that was given up may be accepted late, for the upgrade to another
\* medium.
MediumsAgree ==
  \A s \in Side : bandwidth[s] # 1 =>
    /\ channel[Peer(s)] # 1
    /\ "timeout" \notin faults /\ ~Gone(s) /\ ~Gone(Peer(s)) => channel[Peer(s)] = bandwidth[s]

\* SAFE_TO_CLOSE_PRIOR_CHANNEL finds the entry of the old channel, so that the
\* node handle it takes out is not empty, unless the channel broke or a side has
\* disconnected, which may both take the entry away while the frame waits.
SafeFindsEntry ==
  faults \cap {"break", "disconnect", "silence"} = {} => undefined = {}

\* LAST_WRITE_TO_PRIOR_CHANNEL finds the entry of the old channel, although the
\* two sides change over on their own: the acknowledgement keeps one side from
\* writing it before the other knows of the new channel.  It comes too early only
\* if that was not received in time, or something broke.
LastFindsEntry ==
  faults \cap {"break", "disconnect", "silence", "timeout"} = {} => early = {}

\* A channel is paused only during an upgrade, whose end will resume it, unless
\* the endpoint is removed or the acknowledgement of its introduction was not
\* received in time.
PausedInProgress ==
  "timeout" \notin faults => \A s \in Side : paused[s] # {} => s \in in_progress \/ Gone(s)

\* When an endpoint has been removed, no channel of it is left paused outside an
\* upgrade, although the upgrade may have registered a channel after the endpoint's
\* was unregistered, unless the BwuManager was not waited for.
RemovedIsResumed ==
  "timeout" \notin faults => \A s \in Side :
    removal[s] = [step |-> "none", state |-> FALSE] /\ paused[s] # {} => s \in in_progress

\* The read that ends an upgrade returns: the goodbye it waits for may be taken by
\* the endpoint's reader, but then one of the two sides closes the channel.
DrainEnds == \A s \in Side : at[s].step = "drain" ~> at[s].step # "drain"

\* A new channel is resumed, unless something went wrong or a late write was
\* taken for the goodbye.
UpgradeEnds ==
  \A s \in Side : paused[s] # {} ~> (paused[s] = {} \/ faults # {} \/ late # {})

\* "If it fails to send the ping, or if no pong is heard within
\* keep_alive_timeout, it initiates a disconnection": an endpoint whose channel
\* stays paused, over which nothing can be sent, is disconnected.
SilenceEnds == \A s \in Side : channel[s] \in paused[s] ~> channel[s] \notin paused[s]
=============================================================================
