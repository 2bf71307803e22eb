# TLA+ models and proofs of Forum Agent

Forum Agent records a meeting on a desktop, recognises and translates the speech with local model
processes, keeps everything in one SQLite ledger, and shows chosen parts to participants and to
other devices. A Python prototype of the same idea lives beside it. This directory holds TLA+
modules of the parts whose correctness depends on order, concurrency, crashes and repeated
messages, the TLC instances that check them, and TLAPS proofs of their main safety properties.
Paths are relative to the root of the repository; crates and node packages are under
`src/desktop/`.

## 1. Inventory

| Component | State it keeps | Operations | What is hard | What makes it correct |
|---|---|---|---|---|
| **Session ledger** (forum-core `lib.rs`, `reliable.rs`) | sessions, tracks, captures, finals, revisions, gaps, capture / producer / transcript seals, reconciliations, ingested events; a sequence number for readers | create, transition, recover, register capture and gap, ingest final, revise, stop capture, seal producer, reconcile, seal transcript; paged snapshots | finals come in every session state, from several runs, repeated, after seals, after corrections, across restarts | a manifest stays exact; a sealed transcript is whole; seals stay true; recognition replaces only its own failures; the reader's archive only improves |
| **Translation bookkeeping** (`translation.rs`, `direction.rs`) | coverage rows, translations and attempts, directions and their boundaries | request, retry, finish, fail, invalidate, change direction at a place or retroactively | corrections and direction changes meet attempts in flight; late results; splitting of rows | each byte of a text is translated exactly once per language; nothing shown is of outdated text; the direction follows the audio |
| **Single-writer actor** (`actor.rs`) | bounded channel, writer thread, tickets | call, wait, shutdown, drop | full channel, time limits, panics, racing shutdowns | verdicts can be relied on; a confirmed shutdown released the database; everyone is answered |
| **Final delivery** (forum-runtime `outbox.rs`, `ipc.rs`; ASR node `reliable.rs`; shell `meeting.rs`; bridge `reliable_capture.rs`) | outbox files, requests on the private socket, the piece on its way, the host's progress | append, flush, replay, receipt, ready, seal; dispatch, replay dispatch; reconcile, seal | either side dies at any step, requests and receipts are lost or late, recoveries of recoveries | nothing recognised is lost, refused for ever or left behind a seal; runs are settled when drained |
| **Capture and recording journal** (`recording.rs`, `reliable_capture.rs`, `dual_capture.rs`) | samples, checkpoints, segments, gaps and directions on disk; the capture's outbox | read, record, close a segment, note a gap, change direction, stop, recover | a crash between any two writes; a full backlog; two sources; a stop at any moment | what is sealed accounts for every unit of audio; a recorded meeting ends with a result for every segment |
| **Analysis jobs** (`analysis.rs` of core and shell) | jobs, attempts, stop intents; the coordinator's place | create, claim, finish, fail, cancel, retry, recover; automatic insights | answers cross cancellations, restarts, preemption; texts that arrive after a snapshot | no text is skipped; a cancelled attempt has no result; every stop gets its minutes |
| **Analysis artifacts** (`analysis.rs`) | artifacts, revisions, evidence, reviews, publications | finish, edit, review, publish, hide; invalidation | artifacts made from artifacts, peers and labels; inputs that change | nothing out of date is public |
| **Peer mirrors** (`forum.rs`, forum-gateway `lan.rs`, shell `lan_manager.rs`) | the owner's change log; the mirror with its cursor; the manager's connection | pair, poll, page, snapshot, disconnect, revoke | answers that arrive late, pages of changes that change again, restarts | a mirror shows what its owner shows, up to its cursor, and catches up |
| **Speaker labels** (`forum.rs`, shell `speaker_manager.rs`) | versioned assignments; the thread with its page, worker and generation | assign, correct, enable, disable, shut down | a switch while results are on their way | an automatic label is welcome and never replaces a person's; the end of the analysis is its end |
| **Gateways** (forum-gateway `lib.rs`, `lan.rs`) | slots, grants, connections, readers | accept, ask, stream, revoke, drop | readers that never return, grants that end while a view streams | readers are bounded; a revoked view ends; a drop ends |
| **Runtime worker, processes, budget** (shell `runtime.rs`; bridge `dispatcher.rs`, `controller.rs`, `owned_runtime.rs`; forum-runtime `resource_budget.rs`, `worker.rs`) | command channel, flags, the meeting, child processes, permits | start, stop, quit, clean up, contain | flags overtake commands, cleanups fail half-way, background models exit late | live work goes first; a stopped meeting ends; the application ends only when all is gone |
| **Translator node** (`dora-qwen35-translator`) | queue, outbox, allowance of attempts | reserve, translate, store, recover | crashes with events in the outbox; refused and late events | every attempt is counted, every text ends translated or given up |
| **Model installer** (`hen-local-init`, shell `app.rs`) | lock, files, marker | start, probe, clear, download, check, mark | dying anywhere, two applications | a marked model is whole and of one provider |
| **Python forum agent** (`src/forum_agent`) | session, pipeline workers, live files and archives | start, stop, upload, append, archive | workers outlive their session | the lines of a meeting stay together |
| Insight schedule (`insight_wall.rs`), legacy import, ASR recognition, Python workers, generated contracts | | | | not modelled, see section 6 |

How they interact. The shell's runtime worker starts a meeting host (`forum-shell/src/meeting.rs`)
and the child processes of the meeting. The host owns a `CoreHandle`; every write to the ledger
is a closure for the actor's thread, so the ledger's transactions are serial but come in any
order. The capture registers audio with the host, the ASR process is a child that writes finals
to an outbox directory and flushes them over a private socket to the host, the translator asks
the ledger for texts and returns results under an attempt number. Analysis jobs, speaker labels,
the gateways and through them the peers read what the ledger has committed, and write their own
tables.

`PROJECT.json` lists every hazard at its line with the properties that cover it, and for every
definition the lines it stands for.

## 2. Modules

| Module | Models | Used by |
|---|---|---|
| `TranscriptArchive` | abstract specification: what the reader of a session is promised | `SessionLedger`, as a refinement |
| `SessionLedger` | one session in the ledger, one action per handler | `FinalDelivery`, `MCLedger` |
| `FinalDelivery` | capture, ASR process, socket and host over the ledger | `MCLedger` (safety), `MCCapture` (liveness) |
| `TranslationCoverage` | coverage, translations and directions of one session | `MCStore` |
| `CoreActor` | the writer thread and its callers | `MCProcesses` |
| `CaptureJournal` | one or two sources, the journal, the capture's outbox, the recovery | `MCCapture`, `MCNothingRefused`, `MCRecordingIsEnough` |
| `LiveRuntime` | the worker thread of the shell, processes, permits | `MCProcesses` |
| `TranslatorNode` | the durable mode of the translator | `MCProcesses` |
| `AnalysisJobs` | the job table, the coordinator thread, operator and meeting | `MCAnalysis`, `MCOccupationReleased`, `MCFreshSnapshotsCurrent` |
| `ReviewTables`, `ArtifactReview` | artifacts: their tables; their handlers | `MCAnalysis` |
| `PeerReplica` | owner, manager and mirror of one meeting's publications | `MCBackground`, `MCSnapshotsAccepted` |
| `SpeakerLabels` | the labels, their thread, the core and the operator | `MCBackground` |
| `ReadGateway` | two gateways with their threads, slots and grants | `MCStore`, `MCBackground` |
| `ModelInstall` | installers and the application that starts them | `MCBackground` |
| `ForumAgent` | sessions, pipelines and files of the Python agent | `MCStore`, `MCNoStaleResults` |
| `LedgerProofs` | theorems about `SessionLedger` and `FinalDelivery` | |
| `CaptureInvariant`, `CaptureProofs` | the inductive invariant of `CaptureJournal` with half of its steps; the other steps and the theorems | |
| `TranslationCoverageProofs`, `AnalysisJobsProofs` | theorems about the module in their name | |
| `ProcessProofs` | theorems about `CoreActor`, `LiveRuntime` and `TranslatorNode` | |
| `EdgeProofs` | theorems about `ReadGateway`, `ForumAgent` and `ArtifactReview` | |
| `BackgroundProofs` | theorems about `PeerReplica`, `SpeakerLabels` and `ModelInstall` | |

A step of a module is what the code does between two points at which another thread, a crash or
a lost message can come in: a handler of the store is one immediate transaction, hence one action,
with its error returns as guards and its trailing refresh as part of it; a thread that writes
several files or makes several calls takes several actions, and a variable (`at`, `phase`,
`todo`) says which is next.

An operator whose comment begins with "Mutant:" is a plausible wrong version of the definition
beside it. No action uses it; it stands there so that each property can be shown to fail when the
code is wrong in that way (`PROJECT.json`, "mutants").

### The ledger and the delivery

`SessionLedger`: `state`, `incomplete`, `sealed` are columns of `sessions` (`sealed` is
`sealed_seq IS NOT NULL`); `captures`, `revisions`, `gaps`, `finals` are `capture_segments`,
`segment_revisions`, `audio_gaps` and the finals among `ingested_events`; the three seal
variables are the tables of those names. `Settled` and `FreshEvent` are the refusal `LateResult`
and the deduplication of `register_event`; `Defective` is `refresh_integrity`. `ingest_final`
asks for no session state, so finals are taken during draining, after an interruption and after
the seal; only settled runs are protected. `ImplementsArchive` says that the ledger implements
`TranscriptArchive`: capture is open until there is a capture seal, results only improve
(nothing, failed or recognised, operator), and the transcript closes once with a result for every
announced segment.

`FinalDelivery` extends the ledger: each of its steps takes an action of it, so what the ledger
refuses is what the code refuses. `Start`, `Die`, `Stop` are the ASR process, whose memory is
lost at `Die` and whose outbox stays; `Flush`, `ReceiveAck`, `ReceiveError`, `Announce`,
`Recognise`, `AppendFails`, `RetryRound`, `SealRun`, `CloseRun` its loop, with one request at a
time and a file deleted after its receipt; `HandleFinal`, `HandleSeal`, `HandleReady` the
server's thread, which may handle a request whose sender gave up or died; `LoseRequest`,
`LoseReply`, `TimeOut` failures of the socket; `CloseSegment`, `RegisterSegment`, `DispatchLive`,
`FinishDelivery`, `MakePlan`, `DispatchReplay`, `SealCapture`, `AcknowledgeReplay` the capture,
live and in recovery; `Activate`, `MarkStopping`, `Interrupt`, `EndHost`, `OpenRecovery`,
`Reconcile`, `HostSeals` the host.
Abstracted: one track, the recovery plan read in one batch (the code reads pages of 256), the
host's and the capture's own outboxes delivered in one step (the capture's is in
`CaptureJournal`), the waits and the 10 000-event limit (each ends a process, which may happen
anywhere), no operator revision while the delivery runs.

### The capture

`CaptureJournal` is one thread whose code is a list of steps, each ending with one write or one
call; it may die between any two, and a call may fail or lose its answer. It takes one source or
two (`Dual`), with or without recording, and the recovery that replays the journal, closes the
unclosed tail, registers and dispatches what is missing and seals. Audio is counted in units.
What the code does for one thing after another (close the pieces of a turn, register the segments,
ask for the results, replay the directions) is a step that does the first and leaves a step for
the rest (`closing`, `registering`, `asking`, `replaying`), in the order of the code.

### Translations

A text is a revision and a length; a row of `coverage` is a byte span with its state and owner,
as in `translation_coverage`. A request's claim splits rows at both ends of each span; `Claim`
states the result of all spans at once. The spans of a request do not overlap, so the order in
which the code applies them does not matter; that this form equals `claim_span` applied to one
span after another was checked once with TLC over tables of one and two rows and up to three
spans of a text of five bytes.

### Threads

`CoreActor`: the thread in the order of the source (store dropped, receipt sent, channel
dropped, thread joinable); time limits are nondeterminism. `LiveRuntime`: the worker loop from
`Start` to containment, flags that overtake the channel, processes counted; the pressure of a
backlog and direction commands are left out. `TranslatorNode`: the ledger reduced to its verdict
on each event. `SpeakerLabels`: the thread, the core's queue of commits and the switches of the
operator; voices and clusters are left out. `ReadGateway`: the accepting thread, a thread per
connection, a thread per read which may never return. `ModelInstall`: one step per file system
operation that matters. `ForumAgent`: the manager's lock, the session's thread, two workers per
pipeline.

### Analysis and peers

`AnalysisJobs`: the store's transactions and the coordinator's place between them. `born`
identifies a text by the sequence number it was stored at. `ArtifactReview`: invalidation
reaches artifacts made from artifacts through `Closure`. `PeerReplica`: the owner's change log,
the requests on their way, the manager and the mirror; an answer is made at one step and read at
a later one, and anything may happen in between.

## 3. What the runs check

`PROJECT.json` names for each run its properties and says what they show. Parts that share no
state are put into one instance: an execution chooses `part` at its beginning and explores that
part only, the others stay as they are. So a run explores the sum, not the product, of its
parts. Symmetry is used in `MCLedger` only, over segment ids and over track ids, which the code
compares for equality only; where a run checks liveness one of two equivalent ids is taken to be
the first instead ("in turn"). Deadlock is not checked: a bounded session, an ended process or a
system that shut down stops.

| Run | Parts and bounds | Shows |
|---|---|---|
| `MCLedger` (1.9 million states) | *ledger*: 2 tracks, 2 segments, 1 gap, 2 runs, finals 1 to 2, 3 revisions; *delivery*: 3 hosts, 1 track, 2 segments, 1 loss | manifest, seal, traceability, integrity flag, settled runs, the archive; outboxes settle, nothing is lost on the way |
| `MCStore` (1.1 million) | *two* translations of one attempt with context and corrections; *one* translation with 2 requests, 2 attempts, 2 epochs, any direction; *gateways*: 1 slot, 2 gateways, 2 connections, 2 pieces; *agent*: 2 meetings, 1 final, 1 accident | translations fresh, partitioned, owned, following the audio, final; readers bounded, revocation cuts; meetings whole |
| `MCCapture` (692 thousand) | *one source*: 2 samples, 2 shared, backlog 2, 2 epochs, 2 accidents, 4 runs; *two sources*: 1 accident, 3 runs, recorded; *delivery*: 2 hosts, 1 loss, fair | what is sealed is accounted for, epochs agree, recordings end, the transcript seals |
| `MCProcesses` (400 thousand) | *actor*: 2 callers, 2 closers, capacity 2; *runtime*: 2 commands queued, 2 children, 3 starts, 1 stop, 1 fault; *translator*: "recoveries" (3 processes) and "accidents" (a correction and a loss) | verdicts, shutdown, everyone answered; priority, containment, the end of a stopped meeting; attempts counted, texts settle |
| `MCAnalysis` (4.1 million) | *jobs*: 2 places, 2 jobs, 2 attempts, 3 texts, 2 stops; *artifacts*: 2 artifacts of 2 kinds, 1 segment, label, gap and peer each, 2 revisions | insights miss nothing, cancellation is final, stop intents are served; public is current |
| `MCBackground` (780 thousand) | *texts* and *switches* of the labels; *peer*: 2 publications, 1 grant, 3 changes, pages of 1, 1 fault; *gateway*: 1 with 2 slots; *install*: 2 processes, 2 models of 2 files, 2 accidents | the mirror is faithful and catches up; labels welcome and settled, shutdown releases; marked models sound, installation completes; a drop ends |

Six more runs each find a counterexample to one statement of the repository (section 5).

**Why the bounds are enough.** Two segments let one be whole while the other is missing, and one
translation combine two. Two runs let one be settled while the other lives; a third host is the
first whose predecessors are two dead runs. Three revisions let a failure be recomputed and
corrected. Two tracks are needed for a manifest. One lost message lets a request be handled after
its sender gave up; a second one adds nothing that was found: the inductive invariant was checked
once with two losses and three numbers per run (4.2 million states). Two queued calls fill a
channel of two. Two publications and pages of one make a page boundary fall between two changes
of one publication. Two slots of a gateway let one reader hang while another works. Two installers
are an application left and started again. Larger instances were run once: the capture with three
units of one source (2.5 million states), the peer with two grants (4.0 million), labels with four
texts, two generations and an accident (2.9 million), the agent with two finals (20 million), three
model files (429 thousand) and three accidents (685 thousand), two slots with three connections
(332 thousand), the runtime with two faults (174 thousand), artifacts with rejected verdicts (3.8
million), all without an error. The theorems below hold for every value of the constants.

**Fairness.** Every liveness property names the loops that go on and no more:

- delivery: the four loops (ASR, server, host, capture) go on while their process runs; an end of
  the ASR process or the host is excused, it is the operator who starts the next;
- capture: the thread and recognition go on, the operator stops the meeting at some time, and a
  recovery is started while there is something to recover; accidents are bounded;
- actor: the thread and each caller that waits;
- runtime: only the worker thread; children and flags owe nothing, since it asks them with a
  time limit;
- translator: its loop, and each inference completes;
- peer: the manager's polling step and the owner's answer, both bounded by timeouts in the code;
- labels: the thread and the core; the analysis worker is ended after its 30 seconds;
- installer: each process, and an operator who asks again;
- gateway: the accepting thread, the drop, and each request, which has a deadline; a reader owes
  nothing. The gateway's drop waits for no reader.

The mark of a disconnection (`mark_peer_disconnected`) is a call of the receiver's store like any
other: it may be refused, once in the instance, and `disconnect` and `pair` then lose it. The history
variable `unmarked` of `PeerReplica` tells that state from the others, so that `MirrorFaithful` can
say that nothing else leaves a mirror live without a connection. Only the restart of the manager
always marks: without it there is no manager.

## 4. What is proved

All theorems are checked by TLAPS, for every value of the constants under the assumptions the
modules name. Those say that ids and sentinels differ, that outcome names are the known ones, that
bounds are natural numbers, that the capacity of the actor's channel is between 1 and 4096, that
channel, page, flush and slot limits and the allowance of attempts are positive where the code makes them so, and that an ASR run has
the number of the host that started it. Sets of ids need not be finite unless the code counts them.

Each proof module defines one inductive invariant, proves it for the initial states and for each
action in a lemma named after the action, and derives the checked properties from it. Before it
was proved each invariant was checked with TLC.

**`LedgerProofs`, ledger.** `LedgerInv` is the checked properties with `CompletedIsSealed` (a
session is completed exactly when it is sealed, without which a transition could seem to leave
completion) and `CapturesOnTracks`. `AppendRevisionInv` serves the two handlers that add a revision.
`LedgerImplementsArchive` is the refinement, step by step.

**`LedgerProofs`, delivery.** That the ledger will take every final in every outbox
(`OutboxesSettle`) depends on all four processes at once. `DeliveryInv` has a part for each
boundary between them:

- `SocketInv`: a request that is waited for is the last one on the socket; an event that was
  acknowledged is stored; an event on the socket is on disk or stored;
- `HostInv`: when `ready` is on its way or arrived, the host has the process it started and every
  event of older runs is in the ledger, which is what the replay before `ready` is for;
- `PlanInv`: a host plans one revision per segment, no later than the next one the segment can
  get, live the first one, and every final of its process is of a planned revision;
- `RunInv`: a process remembers what its run wrote, and no later run has left a trace;
- `FlushInv`: the replay and the last flush of a run leave nothing out, and a seal is in the outbox
  only when the finals of its run are stored;
- `DistinctInv`: at most one final of a segment is not stored yet, and run and number tell finals
  apart.

A final that still waited at the seal would be a recomputation; its host planned it, so in recovery
the host waits for it (`PlanCommitted`), and live no second revision is planned: this gives
`NothingLostTheorem`. `LedgerRests` and `Frames` say once which parts survive a step that does not
touch what they read.

The handlers are proved about without TLC's bounds (`LedgerStep`), so that the same lemmas serve
the delivery: `DeliveryUsesHandlers` shows that capture, ASR process, server and host reach the
tables through handlers with legal arguments only. With the ledger's refinement this gives
`DeliveryImplementsArchive` (the whole delivery, deaths and losses included, implements the
reader's archive) and `DeliveryKeepsLedger` (the tables keep all the ledger's invariants).

**`CaptureInvariant`, `CaptureProofs`.** What a sealed meeting accounts for was decided many crashes
earlier, and the state of the capture is mostly the list of steps it has still to take, so
`CaptureInv` says first which lists there can be, without an induction over them:

- `Program`: `Fits` says which steps a phase may have left, `May` which step may stand before
  which other one, `Ordered` that this is so for any two of the list, `Adjacent` that each seal
  comes right behind the flush of its outbox. A step puts a chain in its place (`Chain`), and a
  chain may go before the rest when each of its members may (`NextSteps`, `ChainJoin`);
- `Clock`: where the detector of a track is, seen from the end of its recording, at each place of
  a turn: equal between turns, behind it by the audio to push or by the gap to skip;
- `Pieces`, `Disk`: the segments that are to be closed lie apart from each other, from what is
  closed, from the gaps and behind the cursor; the same of what is on disk, with the checkpoint
  never ahead of the detector. This is what a recovery finds after a crash at any step;
- `Cover`: every voiced unit is in a segment, in one still to be closed, behind the start of the
  open one, or in the tail still to be pushed or recovered;
- `Announced`: a gap is in the ledger, in the outbox or among the steps left, or the recovery that
  meets it can never end, and then nothing is sealed;
- `Sealing`: a seal, wherever it is kept or on its way, is the manifest of closed journals, and a
  sealed ledger has registered the segments of the journals and no others;
- `Direction1`, `Direction2`: a boundary is in the outbox before it is in the journal and in the
  ledger before it is in force; a segment carries the epoch of the last boundary at or before its
  start, and a boundary sent but not noted, which a crash leaves behind, lies at the very end of
  the audio, where no segment starts yet.

`CaptureTheorem` is that invariant; `AccountedTheorem` and `EpochsTheorem` are `SealedIsAccounted`
and `EpochsAgree`, for any amount of audio, any batches, accidents and recoveries, one source or
two. A step that touches nothing an invariant part reads is dealt with by the lemmas named
`...Frame`, an end of the process at any step by `LeftKept`.

**`TranslationCoverageProofs`.** `DirectionTheorem`, `FreshTheorem` and `FinalTheorem` need the
directions and the requests only. The rows need `TablesOK`, `RowsInv`, `OwnersInv` and
`PartitionInv` together: a claim takes whole spans of current rows only because the rows are a
partition, and they stay one only because what is released or claimed agrees with the attempt
that owns it. That a claim splits each row once and leaves every byte in exactly one row is
`ClaimExists` and `ClaimUnique`, through least and greatest elements of sets of naturals.
`StaleTheorem` is the exact form of staleness that the others rest on.

**`AnalysisJobsProofs`.** `NothingSkipped` is the heart of `JobsInv`: a text no younger than the
youngest one in the snapshot of an insight is in that snapshot, or covered by an insight that
finished. `ResultsOver` and `RefusedOver` say that an attempt with a result, or refused one, is
over. `StopTheorem` adds `StopInv`: the stored intent is that of the last stop, and the coordinator
may hold that of an earlier one, whose job serves too little.

**`EdgeProofs`, artifacts.** What is offered or public rests on inputs that have not changed; the
closure over artifacts made from artifacts is handled by what one step of invalidation keeps, so
no induction over the length of the chain is needed.

**`ProcessProofs`, actor.** An operation is queued, running or answered, never two of these, and the
thread lets go of the store before the channel and of the channel before itself.

**`ProcessProofs`, runtime.** `WhereOK` says what the worker holds at each place of its loop, `StopsOK`
that a stop called after a Start is on the flag or has reached its meeting, `ResourcesOK` that
whoever owns a process or a device holds the live permit and that no background model has one
while a meeting prepares. `ContainedTheorem` and `ContainedForGood` are the receipt that lets the
application end.

**`ProcessProofs`, translator.** That no event ends the node, no text gets more than its attempts and no
recovery leaves a text behind (`NodeKeepsCount`) rests on the order of the outbox against the ledger's fences.
`NodeInv` says of every event on disk or on its way that the ledger takes it or refuses it as late,
now and after every other event (`Sound`); that at most one first request for a current text waits,
and that nothing claims its texts (`Unasked`); that what was refused for good stays refused
(`Refused`). `Limit` counts attempts over all processes: an action that has not looked at a text yet
keeps its grant in reserve. `Covered` and `Due` are the recovery: each request without a result
that lies before the page read last was asked by this process, has used up its ceiling, waits in
the page, or is the one in hand. `StepKeeps` says once what a step of the ledger
leaves true of all events; then there is one lemma per action.

**`EdgeProofs`, gateways and Python agent.** The gateways: the counter of slots is the number of connections that hold one or have a
reader that runs (`Counted`), which gives `ReadersAreBounded`; a view is read and sent for a grant
that was permitted when it was asked about, and a late piece is the last one, which gives
`RevocationIsCut`. The Python agent: only the thread of the manager or the upload that holds the
lock runs (`OneRuns`), and what a meeting wrote is archived, or is in the live files while no
session that would clear them is about to open (`Filed`); `MeetingsTheorem` follows.

**`BackgroundProofs`.** The mirror: an answer on its way is faithful to the log up to its own
cursor, whatever is done to the log afterwards (`Quiet`, `Frame`, `Carry`); a page leaves nothing
out behind the cursor it gives (if an entry were missing, take the least one); `ClientOK` says
that the mirror is live only with a connection or after a refused mark. The labels: the
lock of the status is held for a commit of the analysis that is on. `NothingLeftToCommit` is the
safety half of `ShutdownReleases`. The installers: a lone one knows that the files before its own
are whole and of its provider, that those after are not there, and that the models it has still
to download are empty (`Progress`); every step of a process advances that (`Advances`), and two
who work at once are the only ones about whom nothing is known, which is why `MarkedTheorem` is
about the others.

Theorems without a run: `CompletionTheorem`, `DeliveryCompletion`, `StaleTheorem`, `ContainedTheorem` and
`NothingLeftToCommit` state what was checked with TLC while it was developed and is now proved.

**Only model-checked.**

- All liveness: the provers reason neither about fairness nor about ENABLED.
  `EveryoneAnswered`, `StoppedMeetingEnds`, `ShutdownContains`, `EveryTextSettles`, `MirrorCatchesUp`,
  `ModelsArrive`, `DropEnds`, `LabelsSettle`, `ShutdownReleases`, `RecordingEnds`,
  `TranscriptSeals`.

Every safety property of a run, and every action property, has a theorem.

## 5. Findings

Six statements of the repository are refuted by what the code does. `PROJECT.json` quotes the
statements and the lines.

- `MCOccupationReleased`: a cancellation accepted while the worker's answer is on its way leaves
  the job `cancel_requested` with no worker; the queue stays occupied until the next start.
- `MCFreshSnapshotsCurrent`: a snapshot for an automatic insight counts gaps over another window
  than the check of its currency, and is out of date when it is made.
- `MCSnapshotsAccepted` (counterexample of 15 states): a revision hidden and shown again gets new
  evidence ids, and the mirror refuses the owner's batches and snapshots from then on.
- `MCNothingRefused` (20 states): a capture that dies between writing an event and noting it in
  its journal makes a second event for the segment in every recovery, which the ledger refuses.
- `MCRecordingIsEnough` (12 states): a capture that dies or loses a call while it announces a gap
  cannot be recovered, the recovery looks for the lost samples in the recording.
- `MCNoStaleResults` (12 states): a session of the Python agent that fails leaves its workers
  running, and they write into the files of the next meeting.

Smaller observations made while modelling, which no run states:

- `begin_shutdown` does not advance the generation, so a `Start` already queued may lower the
  flag; `ShutdownContains` holds all the same. An idle `Stop` dropped on a full channel is not
  acknowledged.
- A recovery with two sources leaves the shorter track without a gap for its missing tail,
  although the comment at `dual_capture.rs:97` promises one; a crash between the creation of the
  two journals cannot be recovered; a stop just after the barrier of a single source ends
  unsealed.
- An enabling of the speaker analysis in flight while its thread ends leaves it shown as enabled
  with no thread; an exit that times out after 45 s leaves the thread stopped for good.
- `_drain_and_close` of the Python agent waits only for an empty queue and drops the translation
  in flight; of two archives whose transcripts were last written in the same second the later
  overwrites the earlier; a refreshed insight may be stored in the archive of another meeting.
- Two installers can both hold the lock (one has created `bootstrap.lock` and not yet written its
  process id, or two remove a stale lock); a process that dies within the last required file
  leaves a truncated file that the next run takes for complete; the ModelScope manifest has no
  `tokenizer.json`, which `AutomaticAsrPaths::resolve` asks for.
- `LanClient::disconnect` gives up the connection before it tells the store, and a failed `pair`
  ignores the answer of the mark: if the core's channel is full then, the mirror stays live with no
  connection, and its texts go into new reports, until the operator disconnects again or the
  application starts again. `F09_F12_LOCAL_VALIDATION_ZH.md:30` says that a disconnection marks the
  peer stale and that only a new connection lets it into reports. `stop` that fails so leaves the
  peers after the first unmarked as well.
- A connection of the LAN gateway that goes on writing no longer holds its slot (the slot moved to
  its reader), and a new gateway may start while the old one is dropping.

## 6. Not modelled, and the plan

Not modelled for good: the user interface, audio devices and signal processing, model inference,
TLS and HTTP, prompts, the one-shot legacy import, generated code, the stateless Python workers,
database migrations. Inside modelled parts: the limit of 30 seconds of `load_range`, which a
segment of the default length does not reach; the reuse of the process id in a stale
`bootstrap.lock`, which keeps installers away for as long as the process that has it lives.
Left for later: `insight_wall.rs` (settings and due times of live insights),
backlog pressure in the budget, the mode of the translator without a ledger, insights and minutes
of the Python agent.
