--------------------------- MODULE FinalDelivery ---------------------------
(***************************************************************************)
(* How recognised text reaches the ledger: the capture node closes audio   *)
(* segments and dispatches them one at a time, the ASR process writes each *)
(* final to its outbox directory and sends it over the private socket, the *)
(* meeting host's server hands it to the ledger, and what a dead process   *)
(* left behind is replayed by its successor, before the transcript seals.  *)
(*                                                                         *)
(* The ledger is module SessionLedger: each step here takes its actions.   *)
(* The processes fail independently: the ASR may die at every step, a      *)
(* request or its reply may be lost, a late request may still be handled   *)
(* after its sender gave up or died, and a host may end at any time; the   *)
(* next one opens in recovery mode.                                        *)
(*                                                                         *)
(* Abstracted: one track; the text of a final is its status; a file of the *)
(* outbox is the event in it; the order of runs in the outbox (by random   *)
(* id) is arbitrary; the host's and the capture node's own outboxes, whose *)
(* events are taken to the ledger in one step.                             *)
(***************************************************************************)
EXTENDS SessionLedger

CONSTANTS
  MaxHost,   \* bound: meeting hosts of the session, the first one live
  MaxLoss    \* bound: lost requests, lost replies and failed deletions

Hosts == 1..MaxHost

(* A run of the ASR process has the number of the host that started it.    *)
ASSUME DeliveryAssumption ==
  /\ MaxHost \in Nat \ {0} /\ Runs = Hosts
  /\ MaxLoss \in Nat

VARIABLES
  journal,    \* segments closed in the recording journal, on disk
  host,       \* the current meeting host, numbered
  open,       \* does the current host still run?
  ready,      \* the host got the ready call of its ASR process
  network,    \* requests on the host's socket, oldest first
  delivery,   \* capture: the dispatched segment awaiting its final, if any
  plan,       \* capture: segment revisions dispatched, or to dispatch
  planned,    \* capture: the plan was made
  replayed,   \* host: replay_dispatch was received
  phase,      \* the ASR process, or "down"
  run,        \* the ASR process's run id: the host that started it
  seq,        \* its last producer sequence number
  accepted,   \* segment revisions it has written finals for
  runSealed,  \* its seal was acknowledged
  input,      \* audio on its way to it
  batch,      \* outbox events of the flush in progress
  call,       \* the request it waits for
  outbox,     \* its producer directory, on disk
  losses      \* counts lost messages

ledgerVars == vars
captureVars == <<journal, delivery, plan, planned>>
hostVars == <<host, open, ready, replayed>>
memoryVars == <<run, seq, accepted, runSealed>>
asrVars == <<phase, memoryVars, input, batch, call>>
processVars == <<captureVars, hostVars, network, asrVars, outbox, losses>>
deliveryVars == <<ledgerVars, processVars>>

----------------------------------------------------------------------------
Nothing == [kind |-> "nothing"]

(* Mutant: the producer's number is not advanced from final to final. *)
FinalOfSameNumber(s, revision, status, n) ==
  [kind |-> "final", run |-> run, seq |-> 1, segment |-> s,
   revision |-> revision, status |-> status]

Final(s, revision, status, n) ==
  [kind |-> "final", run |-> run, seq |-> n, segment |-> s,
   revision |-> revision, status |-> status]
Seal(n, segs) == [kind |-> "seal", run |-> run, seq |-> n, segments |-> segs]
Ready == [kind |-> "ready", run |-> run, seq |-> 0]

Idle == [event |-> Nothing, answer |-> "none"]
Connected == open /\ run = host

(* The ledger stored the event: it answers with the first receipt again. *)
Committed(e) ==
  IF e.kind = "final"
  THEN \E f \in finals[e.run] : f.seq = e.seq
  ELSE \E p \in producerSeals : p.run = e.run

(* Mutant: every missing result is taken for a first one. *)
AlwaysFirst(s) ==
  IF revisions[s] = <<>> \/ Current(revisions[s]).status = "failed" THEN 1 ELSE 0

(* recovery_revisions: the revision a segment still needs, or 0. *)
NextRevision(s) ==
  IF revisions[s] = <<>> THEN 1
  ELSE IF Current(revisions[s]).status = "failed" THEN Len(revisions[s]) + 1
  ELSE 0

(* final_is_durable: the ledger holds the dispatched revision. *)
Durable(d) == NextRevision(d.segment) = 0 \/ NextRevision(d.segment) > d.revision

----------------------------------------------------------------------------
(* The session was prepared, with its track, when the first host opened.   *)
Prepared ==
  /\ state = "preparing"
  /\ incomplete = FALSE
  /\ sealed = FALSE
  /\ \E t \in Tracks : tracks = {t}
  /\ captures = [s \in {} |-> 0]
  /\ revisions = [s \in Segments |-> <<>>]
  /\ gaps = {}
  /\ finals = [r \in Runs |-> {}]
  /\ producerSeals = {}
  /\ reconciliations = {}
  /\ captureSeals = {}

ProcessesInit ==
  /\ journal = {}
  /\ host = 1 /\ open = TRUE /\ ready = FALSE
  /\ network = <<>>
  /\ delivery = Nothing /\ plan = {} /\ planned = FALSE /\ replayed = FALSE
  /\ phase = "down" /\ run = 0 /\ seq = 0 /\ accepted = {} /\ runSealed = FALSE
  /\ input = {} /\ batch = {} /\ call = Idle
  /\ outbox = {} /\ losses = 0

DeliveryInit == Prepared /\ ProcessesInit

----------------------------------------------------------------------------
(* The ASR process. *)

Reset ==
  /\ phase' = "down"
  /\ seq' = 0 /\ accepted' = {} /\ runSealed' = FALSE
  /\ input' = {} /\ batch' = {} /\ call' = Idle
  /\ UNCHANGED run

(* One process per host; the lock of the directory keeps two apart. *)
Start ==
  /\ open
  /\ phase = "down"
  /\ run < host
  /\ run' = host
  /\ phase' = "replaying"
  /\ batch' = outbox
  /\ UNCHANGED <<seq, accepted, runSealed, input, call, ledgerVars, captureVars,
                 hostVars, network, outbox, losses>>

(* The process is killed or fails. *)
Die ==
  /\ phase # "down"
  /\ Reset
  /\ UNCHANGED <<ledgerVars, captureVars, hostVars, network, outbox, losses>>

(* Put a request on the socket; without a server the call fails at once. *)
Request(e) ==
  IF Connected
  THEN /\ call' = [event |-> e, answer |-> "none"]
       /\ network' = Append(network, e)
  ELSE /\ call' = [event |-> e, answer |-> "error"]
       /\ UNCHANGED network

(* flush_one: each run's events in the order of their numbers. *)
Flush(e) ==
  /\ phase # "down"
  /\ call = Idle
  /\ e \in batch
  /\ \A f \in batch : f.run = e.run => e.seq <= f.seq
  /\ Request(e)
  /\ UNCHANGED <<phase, memoryVars, input, batch, ledgerVars, captureVars, hostVars,
                 outbox, losses>>

(* Every event of earlier runs got its receipt: call ready. *)
Announce ==
  /\ phase = "replaying"
  /\ batch = {}
  /\ call = Idle
  /\ phase' = "announcing"
  /\ Request(Ready)
  /\ UNCHANGED <<memoryVars, input, batch, ledgerVars, captureVars, hostVars, outbox, losses>>

(* Mutant: the file is deleted when the request fails, too. *)
DropAnswered(e, answer) == outbox' = outbox \ {e}

(* The file of an event goes only with its receipt, and may outlive it. *)
CleanUp(e, answer) ==
  \/ answer = "ack" /\ outbox' = outbox \ {e}
  \/ answer = "error" /\ outbox' = outbox

(* The receipt arrived. *)
ReceiveAck ==
  LET e == call.event IN
  /\ call.answer = "ack"
  /\ \/ CleanUp(e, "ack") /\ UNCHANGED losses
     \/ /\ e \in outbox /\ losses < MaxLoss
        /\ losses' = losses + 1 /\ UNCHANGED outbox
  /\ IF phase = "closing"
     THEN Reset
     ELSE /\ call' = Idle
          /\ batch' = batch \ {e}
          /\ phase' = IF phase \in {"announcing", "sealing"} THEN "running" ELSE phase
          /\ runSealed' = (runSealed \/ phase = "sealing")
          /\ UNCHANGED <<run, seq, accepted, input>>
  /\ UNCHANGED <<ledgerVars, captureVars, hostVars, network>>

(* The call failed.  A running process keeps the file and ends the round;  *)
(* everywhere else the error ends the process.                             *)
ReceiveError ==
  /\ call.answer = "error"
  /\ CleanUp(call.event, "error")
  /\ IF phase = "running"
     THEN /\ call' = Idle
          /\ batch' = {}
          /\ UNCHANGED <<phase, memoryVars, input>>
     ELSE Reset
  /\ UNCHANGED <<ledgerVars, captureVars, hostVars, network, losses>>

AtLoop == phase = "running" /\ call = Idle /\ batch = {}

(* The 500 ms round over what is still pending. *)
RetryRound ==
  /\ AtLoop
  /\ outbox # {}
  /\ batch' = outbox
  /\ UNCHANGED <<phase, memoryVars, input, call, ledgerVars, captureVars, hostVars,
                 network, outbox, losses>>

AlreadyAccepted(d) == <<d.segment, d.revision>> \in accepted

(* Recognise an audio segment, write its final, then send it. *)
Recognise(d, status) ==
  /\ AtLoop
  /\ ~runSealed
  /\ d \in input
  /\ input' = input \ {d}
  /\ IF AlreadyAccepted(d)
     THEN UNCHANGED <<seq, accepted, outbox, batch>>
     ELSE /\ seq' = seq + 1
          /\ accepted' = accepted \cup {<<d.segment, d.revision>>}
          /\ outbox' = outbox \cup {Final(d.segment, d.revision, status, seq + 1)}
          /\ batch' = {Final(d.segment, d.revision, status, seq + 1)}
  /\ UNCHANGED <<phase, run, runSealed, call, ledgerVars, captureVars, hostVars,
                 network, losses>>

(* The append fails: the file may be there or not, the process ends.  *)
AppendFails(d, status) ==
  /\ AtLoop
  /\ d \in input
  /\ ~runSealed /\ ~AlreadyAccepted(d)
  /\ outbox' \in {outbox, outbox \cup {Final(d.segment, d.revision, status, seq + 1)}}
  /\ Reset
  /\ UNCHANGED <<ledgerVars, captureVars, hostVars, network, losses>>

(* ready_to_seal, from the status the host reports. *)
ReadyToSeal ==
  /\ CaptureStopped
  /\ \A s \in Captured : revisions[s] # <<>>
  /\ host > 1 => replayed /\ \A d \in plan : <<d.segment, d.revision>> \in accepted

WriteSeal(next) ==
  LET seal == Seal(seq + 1, {a[1] : a \in accepted}) IN
  /\ outbox' = outbox \cup {seal}
  /\ batch' = {seal}
  /\ phase' = next

SealRun ==
  /\ AtLoop
  /\ outbox = {}
  /\ ~runSealed
  /\ Connected
  /\ ReadyToSeal
  /\ WriteSeal("sealing")
  /\ UNCHANGED <<memoryVars, input, call, ledgerVars, captureVars, hostVars, network, losses>>

(* Dora stops the node: flush what is pending, then seal the run. *)
Stop ==
  /\ AtLoop
  /\ phase' = "stopping"
  /\ batch' = outbox
  /\ UNCHANGED <<memoryVars, input, call, ledgerVars, captureVars, hostVars, network,
                 outbox, losses>>

CloseRun ==
  /\ phase = "stopping"
  /\ call = Idle
  /\ batch = {}
  /\ IF runSealed
     THEN Reset /\ UNCHANGED outbox
     ELSE WriteSeal("closing") /\ UNCHANGED <<memoryVars, input, call>>
  /\ UNCHANGED <<ledgerVars, captureVars, hostVars, network, losses>>

----------------------------------------------------------------------------
(* The socket and the host's server: one request at a time. *)

(* The request the process still waits for is the newest on the socket. *)
Awaited == call # Idle /\ call.answer = "none"

Answer(verdict) ==
  call' = IF Len(network) = 1 /\ Awaited
          THEN [call EXCEPT !.answer = verdict]
          ELSE call

Handled ==
  /\ network' = Tail(network)
  /\ UNCHANGED <<captureVars, phase, memoryVars, input, batch, outbox, losses>>

(* What the ledger accepts as a new event. *)
Acceptable(e) ==
  /\ e.segment \in Captured
  /\ FreshEvent(e.run, e.seq)
  /\ SupersedesFailure(e.segment, e.revision)

SealAcceptable(e) ==
  /\ ~Settled(e.run)
  /\ IsLastSeq(e.run, e.seq - 1)
  /\ e.segments = {f.segment : f \in finals[e.run]}

HandleFinal ==
  LET e == Head(network) IN
  /\ network # <<>> /\ e.kind = "final"
  /\ IF Committed(e)
     THEN UNCHANGED ledgerVars /\ Answer("ack")
     ELSE IF Acceptable(e)
     THEN IngestFinal(e.run, e.seq, e.segment, e.revision, e.status) /\ Answer("ack")
     ELSE UNCHANGED ledgerVars /\ Answer("error")
  /\ Handled
  /\ UNCHANGED hostVars

HandleSeal ==
  LET e == Head(network) IN
  /\ network # <<>> /\ e.kind = "seal"
  /\ IF Committed(e)
     THEN UNCHANGED ledgerVars /\ Answer("ack")
     ELSE IF SealAcceptable(e)
     THEN SealProducer(e.run, e.seq - 1, e.segments) /\ Answer("ack")
     ELSE UNCHANGED ledgerVars /\ Answer("error")
  /\ Handled
  /\ UNCHANGED hostVars

HandleReady ==
  /\ network # <<>> /\ Head(network).kind = "ready"
  /\ ready' = TRUE
  /\ Answer("ack")
  /\ Handled
  /\ UNCHANGED <<ledgerVars, host, open, replayed>>

(* The request does not get through. *)
LoseRequest ==
  /\ Awaited
  /\ losses < MaxLoss
  /\ losses' = losses + 1
  /\ network' = SubSeq(network, 1, Len(network) - 1)
  /\ call' = [call EXCEPT !.answer = "error"]
  /\ UNCHANGED <<ledgerVars, captureVars, hostVars, phase, memoryVars, input, batch, outbox>>

(* The client's deadline passes first: the request stays with the server. *)
TimeOut ==
  /\ Awaited
  /\ losses < MaxLoss
  /\ losses' = losses + 1
  /\ call' = [call EXCEPT !.answer = "error"]
  /\ UNCHANGED <<ledgerVars, captureVars, hostVars, network, phase, memoryVars, input,
                 batch, outbox>>

(* The reply is lost after the server committed. *)
LoseReply ==
  /\ call.answer = "ack"
  /\ losses < MaxLoss
  /\ losses' = losses + 1
  /\ call' = [call EXCEPT !.answer = "error"]
  /\ UNCHANGED <<ledgerVars, captureVars, hostVars, network, phase, memoryVars, input,
                 batch, outbox>>

----------------------------------------------------------------------------
(* The meeting host. *)

(* activate_if_ready and mark_stopping. *)
Activate ==
  /\ open /\ host = 1 /\ ready
  /\ \/ state = "preparing" /\ TransitionSession("ready")
     \/ state = "ready" /\ TransitionSession("recording")
  /\ UNCHANGED processVars

MarkStopping ==
  /\ open /\ state = "recording"
  /\ TransitionSession("stopping")
  /\ UNCHANGED processVars

(* interrupt: a worker failed, or the meeting is abandoned. *)
Interrupt ==
  /\ open /\ state \notin {"completed", "interrupted"}
  /\ TransitionSession("interrupted")
  /\ UNCHANGED processVars

(* The host ends, with its application or without; what was on its socket  *)
(* is gone and the capture node with it.                                   *)
EndHost ==
  /\ open
  /\ open' = FALSE
  /\ ready' = FALSE /\ replayed' = FALSE
  /\ network' = <<>>
  /\ call' = IF Awaited THEN [call EXCEPT !.answer = "error"] ELSE call
  /\ input' = {} /\ delivery' = Nothing /\ plan' = {} /\ planned' = FALSE
  /\ UNCHANGED <<ledgerVars, journal, host, phase, memoryVars, batch, outbox, losses>>

(* A recovery host opens; an unfinished session is interrupted by then. *)
OpenRecovery ==
  /\ ~open
  /\ host < MaxHost
  /\ host' = host + 1
  /\ open' = TRUE
  /\ IF state \in {"completed", "interrupted"}
     THEN UNCHANGED ledgerVars
     ELSE TransitionSession("interrupted")
  /\ UNCHANGED <<captureVars, ready, replayed, network, asrVars, outbox, losses>>

(* In recovery the host waits for the planned revisions, too. *)
PlanCommitted ==
  host > 1 => /\ replayed
              /\ \A d \in plan : Len(revisions[d.segment]) >= d.revision

(* The run's process is gone: its journal names it, the system does not. *)
Gone(r) == r < run \/ phase = "down"

(* Runs named in the ready call, all of them older than the caller's. *)
Reconcile(r) ==
  /\ open /\ ready
  /\ PlanCommitted
  /\ r \in UnsealedRuns
  /\ r < host
  /\ Gone(r)
  /\ \E n \in 0..MaxSeq : ReconcileAbandonedProducer(r, n)
  /\ UNCHANGED processVars

HostSeals ==
  /\ open
  /\ PlanCommitted
  /\ SealTranscript
  /\ UNCHANGED processVars

----------------------------------------------------------------------------
(* The capture node. *)

captureOnly == <<hostVars, network, phase, memoryVars, batch, call, outbox, losses>>

(* models_ready: the status of an interrupted live meeting names no roles. *)
ModelsReady ==
  /\ open /\ ready
  /\ host > 1 \/ state \in {"recording", "stopping", "draining", "completed"}

(* close_segment: into the journal first, with the models ready. *)
CloseSegment(s) ==
  /\ ModelsReady
  /\ s \notin journal
  /\ AcceptsCapture
  /\ ~planned
  /\ journal' = journal \cup {s}
  /\ UNCHANGED <<delivery, plan, planned, input, ledgerVars, captureOnly>>

(* ... then into the ledger; a recovery repeats it for the whole journal. *)
RegisterSegment(s) ==
  /\ open /\ ready
  /\ s \in journal
  /\ \E t \in tracks : RegisterCapture(s, t, 1)
  /\ UNCHANGED <<captureVars, input, captureOnly>>

Dispatch(d) ==
  /\ delivery' = d
  /\ input' = input \cup {d}

(* Live: the next registered segment, when the one before it is durable. *)
DispatchLive(s) ==
  /\ open /\ ready /\ host = 1
  /\ delivery = Nothing
  /\ s \in Captured
  /\ \A d \in plan : d.segment # s
  /\ plan' = plan \cup {[segment |-> s, revision |-> 1]}
  /\ Dispatch([segment |-> s, revision |-> 1])
  /\ UNCHANGED <<journal, planned, ledgerVars, captureOnly>>

FinishDelivery ==
  /\ open
  /\ delivery # Nothing
  /\ Durable(delivery)
  /\ delivery' = Nothing
  /\ UNCHANGED <<journal, plan, planned, input, ledgerVars, captureOnly>>

(* Recovery: every journalled segment is registered, then the revisions    *)
(* they still need are read, once.                                         *)
MakePlan ==
  /\ open /\ ready /\ host > 1
  /\ ~planned
  /\ journal \subseteq Captured
  /\ planned' = TRUE
  /\ plan' = {[segment |-> s, revision |-> NextRevision(s)] :
                s \in {x \in journal : NextRevision(x) # 0}}
  /\ UNCHANGED <<journal, delivery, input, ledgerVars, captureOnly>>

(* ... and dispatched one by one. *)
DispatchReplay(d) ==
  /\ open /\ host > 1 /\ planned
  /\ ~replayed
  /\ delivery = Nothing
  /\ d \in plan
  /\ ~Durable(d)
  /\ Dispatch(d)
  /\ UNCHANGED <<journal, plan, planned, ledgerVars, captureOnly>>

(* seal_after_devices_released: live before, in recovery after dispatch. *)
SealCapture ==
  /\ open
  /\ journal \subseteq Captured
  /\ \/ host = 1
     \/ host > 1 /\ planned /\ \A d \in plan : Durable(d)
  /\ StopCapture([t \in tracks |-> Captured], [t \in tracks |-> 1])
  /\ UNCHANGED <<captureVars, input, captureOnly>>

AcknowledgeReplay ==
  /\ open /\ host > 1 /\ planned
  /\ ~replayed
  /\ \A d \in plan : Durable(d)
  /\ CaptureStopped
  /\ replayed' = TRUE
  /\ UNCHANGED <<captureVars, input, ledgerVars, host, open, ready, network, phase,
                 memoryVars, batch, call, outbox, losses>>

----------------------------------------------------------------------------
AsrStep ==
  \/ \E e \in outbox : Flush(e)
  \/ Announce
  \/ ReceiveAck
  \/ ReceiveError
  \/ RetryRound
  \/ \E d \in input, status \in Statuses : Recognise(d, status)
  \/ SealRun
  \/ CloseRun

ServerStep == HandleFinal \/ HandleSeal \/ HandleReady

HostStep == (\E r \in Hosts : Reconcile(r)) \/ HostSeals

CaptureStep ==
  \/ \E s \in Segments : RegisterSegment(s) \/ DispatchLive(s)
  \/ FinishDelivery
  \/ MakePlan
  \/ \E d \in plan : DispatchReplay(d)
  \/ SealCapture
  \/ AcknowledgeReplay

(* What the environment or the operator may do, and need not. *)
Disturbance ==
  \/ Start
  \/ Die
  \/ Stop
  \/ \E d \in input, status \in Statuses : AppendFails(d, status)
  \/ LoseRequest
  \/ TimeOut
  \/ LoseReply
  \/ Activate
  \/ MarkStopping
  \/ Interrupt
  \/ EndHost
  \/ OpenRecovery
  \/ \E s \in Segments : CloseSegment(s)

DeliveryNext == AsrStep \/ ServerStep \/ HostStep \/ CaptureStep \/ Disturbance

(* The loops of the four processes go on while they run. *)
Fairness ==
  /\ WF_deliveryVars(AsrStep)
  /\ WF_deliveryVars(ServerStep)
  /\ WF_deliveryVars(HostStep)
  /\ WF_deliveryVars(CaptureStep)

DeliverySpec == DeliveryInit /\ [][DeliveryNext]_deliveryVars
DeliveryFairSpec == DeliverySpec /\ Fairness

----------------------------------------------------------------------------
Segmented == [segment : Segments, revision : 1..MaxHost]

Events ==
  [kind : {"final"}, run : Hosts, seq : 1..MaxSeq, segment : Segments,
   revision : 1..MaxHost, status : Statuses]
  \cup [kind : {"seal"}, run : Hosts, seq : 1..(MaxSeq + 1), segments : SUBSET Segments]

Calls == Events \cup [kind : {"ready"}, run : Hosts, seq : {0}]

(* Every variable beside the ledger's holds what its part of the system    *)
(* keeps there, and no event is numbered past the bound.                   *)
DeliveryTypeOK ==
  /\ journal \subseteq Segments
  /\ host \in Hosts /\ {open, ready, planned, replayed, runSealed} \subseteq BOOLEAN
  /\ delivery \in Segmented \cup {Nothing}
  /\ plan \subseteq Segmented /\ input \subseteq Segmented
  /\ phase \in {"down", "replaying", "announcing", "running", "sealing", "stopping", "closing"}
  /\ run \in 0..MaxHost /\ seq \in 0..MaxSeq
  /\ accepted \subseteq Segments \X (1..MaxHost)
  /\ outbox \subseteq Events /\ batch \subseteq outbox
  /\ \A i \in DOMAIN network : network[i] \in Calls
  /\ call.event \in Calls \cup {Nothing} /\ call.answer \in {"none", "ack", "error"}
  /\ losses \in 0..MaxLoss

(* The ledger will take every final that waits in the outbox: its revision *)
(* is the one the segment still needs and its run is not settled.  A final *)
(* the ledger refuses would stay at the head of the outbox, stop every     *)
(* flush behind it and keep its run from ever being sealed.                *)
NeverPoisoned ==
  \A e \in outbox : e.kind = "final" => Committed(e) \/ Acceptable(e)

(* A run is sealed, or settled in its absence, only when the ledger holds  *)
(* all it ever wrote: nothing that arrives later is refused as late.       *)
SettledRunsDrained ==
  \A e \in outbox : Settled(e.run) => Committed(e)

(* A final that the ledger answers as known is known: what it stored under *)
(* that run and number is this final and no other.                         *)
KnownIsStored ==
  \A e \in outbox : e.kind = "final" /\ Committed(e) =>
    [seq |-> e.seq, segment |-> e.segment] \in finals[e.run]

(* No event stays in an outbox that the ledger would refuse for ever, none *)
(* is taken for another, and what is settled of a dead run covers all that *)
(* run ever wrote.                                                         *)
OutboxesSettle == NeverPoisoned /\ SettledRunsDrained /\ KnownIsStored

(* An event leaves the disk only after the ledger stored it, whatever was  *)
(* lost, answered late or answered to another process; and when the        *)
(* transcript is sealed no final is on its way any more, in the outbox of  *)
(* a living or a dead process.                                             *)
NothingLostOnTheWay ==
  [][\A e \in outbox :
       (e \notin outbox' \/ (~sealed /\ sealed' /\ e.kind = "final"))
         => Committed(e)]_deliveryVars

(* A connected ASR process gets rid of all it wrote, unless it or its host *)
(* ends first.                                                             *)
OutboxDrains ==
  (outbox # {} /\ phase = "running" /\ Connected)
    ~> (outbox = {} \/ phase = "down" \/ ~Connected)

(* After capture has stopped the transcript is sealed, with every final in *)
(* and every run settled, unless the ASR process or the host ends first.   *)
TranscriptSeals ==
  (CaptureStopped /\ phase = "running" /\ Connected)
    ~> (sealed \/ phase = "down" \/ ~Connected)
=============================================================================
