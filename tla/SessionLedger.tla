--------------------------- MODULE SessionLedger ---------------------------
(***************************************************************************)
(* One meeting session in the SQLite ledger of forum-core: its lifecycle,  *)
(* the captured audio segments, the speech-recognition (ASR) finals and    *)
(* operator revisions of each segment, the audio gaps, and the three seals *)
(* that close a transcript (capture, producer runs, transcript).           *)
(*                                                                         *)
(* Every write handler of the Store is one immediate transaction: it       *)
(* commits as a whole or returns an error and changes nothing, so it is    *)
(* one action here and its error returns are its guards.  The host, the    *)
(* ASR processes and the operator call the handlers in any order.          *)
(*                                                                         *)
(* Abstracted: the text and the exact audio range of a segment (only the   *)
(* end sample is kept), the direction fields (module TranslationCoverage), *)
(* the store_seq that numbers committed events, and the message identity   *)
(* of the events whose producer run never emits a final: redelivering one  *)
(* of those is answered from ingested_events and changes nothing.          *)
(***************************************************************************)
EXTENDS Integers, Sequences

CONSTANTS
  Tracks,       \* ids a track may be created with
  Segments,     \* ids a capture may be registered with
  Gaps,         \* ids of audio gaps
  Runs,         \* producer runs: one per start of an ASR process
  NoRun,        \* stands in the rows an operator wrote
  Statuses,     \* the outcomes of recognition that occur
  MaxSeq,       \* bound: producer sequence numbers of finals are 1..MaxSeq
  MaxRevision,  \* bound: revisions of one segment
  MaxSample     \* bound: end samples are 1..MaxSample

ASSUME LedgerAssumption ==
  /\ NoRun \notin Runs
  /\ Statuses \subseteq {"success", "empty", "failed"}
  /\ MaxSeq \in Nat
  /\ MaxRevision \in Nat
  /\ MaxSample \in Nat

SessionState == {"created", "preparing", "ready", "recording", "stopping",
                 "draining", "completed", "interrupted"}

VARIABLES
  state,            \* sessions.state
  incomplete,       \* sessions.incomplete, the stored integrity flag
  sealed,           \* sessions.sealed_seq IS NOT NULL
  tracks,           \* table tracks
  captures,         \* segments and capture_segments: segment -> audio row
  revisions,        \* segment_revisions in order; the last one is current
  gaps,             \* table audio_gaps
  finals,           \* ingested_events of type transcript.final, by run
  producerSeals,    \* table producer_seals
  reconciliations,  \* table producer_reconciliations
  captureSeals      \* table capture_seals (at most one row)

vars == <<state, incomplete, sealed, tracks, captures, revisions, gaps,
          finals, producerSeals, reconciliations, captureSeals>>

lifecycleVars == <<state, sealed>>
sealVars == <<producerSeals, reconciliations, captureSeals>>

----------------------------------------------------------------------------
(* The tables' row types and what the handlers read from them.             *)

AudioRow    == [track : Tracks, endSample : Nat]
RevisionRow == [status : {"success", "empty", "failed"},
                origin : {"asr", "human"}, run : Runs \cup {NoRun}]
FinalEvent  == [seq : Nat, segment : Segments]

Captured == DOMAIN captures
CaptureStopped == captureSeals # {}
Current(rows) == rows[Len(rows)]

(* Mutant: only producer_seals is consulted. *)
SettledBySealOnly(run) == \E p \in producerSeals : p.run = run

(* register_event refuses every new event of a run that has a seal or a    *)
(* recovery record (LateResult).                                           *)
Settled(run) ==
  \/ \E p \in producerSeals : p.run = run
  \/ \E p \in reconciliations : p.run = run

FreshEvent(run, seq) ==
  /\ \A e \in finals[run] : e.seq # seq
  /\ ~Settled(run)

(* COALESCE(MAX(producer_seq), 0) of the run is n. *)
IsLastSeq(run, n) ==
  /\ \A e \in finals[run] : e.seq <= n
  /\ n = 0 \/ \E e \in finals[run] : e.seq = n

(* Mutant: NOT EXISTS without the producer_run_id correlation, so that one  *)
(* settled run stands for all.                                             *)
UnsealedRunsUncorrelated ==
  {run \in Runs : finals[run] # {} /\ producerSeals = {} /\ reconciliations = {}}

UnsealedRuns == {run \in Runs : finals[run] # {} /\ ~Settled(run)}

(* refresh_integrity: a gap, a segment without a result, or one whose      *)
(* current result is a failure.                                            *)
Defective(gapRows, segs, rows) ==
  \/ gapRows # {}
  \/ \E s \in segs : rows[s] = <<>> \/ Current(rows[s]).status = "failed"

(* Mutant: the capture seal is not looked at. *)
AcceptsCaptureAfterSeal == state \in {"recording", "stopping", "interrupted"}

AcceptsCapture ==
  /\ ~CaptureStopped
  /\ state \in {"recording", "stopping", "interrupted"}

(* Mutant: a completed session may be interrupted. *)
PermitsFromCompleted(from, to) ==
  \/ <<from, to>> \in {<<"created", "preparing">>, <<"preparing", "ready">>,
                       <<"ready", "recording">>, <<"recording", "stopping">>}
  \/ to = "interrupted" /\ from # "interrupted"

Permits(from, to) ==
  \/ <<from, to>> \in {<<"created", "preparing">>, <<"preparing", "ready">>,
                       <<"ready", "recording">>, <<"recording", "stopping">>}
  \/ to = "interrupted" /\ from \notin {"completed", "interrupted"}

----------------------------------------------------------------------------
Init ==
  /\ state = "created"
  /\ incomplete = FALSE
  /\ sealed = FALSE
  /\ tracks = {}
  /\ captures = [s \in {} |-> 0]
  /\ revisions = [s \in Segments |-> <<>>]
  /\ gaps = {}
  /\ finals = [run \in Runs |-> {}]
  /\ producerSeals = {}
  /\ reconciliations = {}
  /\ captureSeals = {}

CreateTrack(t) ==
  /\ t \notin tracks
  /\ tracks' = tracks \cup {t}
  /\ UNCHANGED <<lifecycleVars, incomplete, captures, revisions, gaps, finals, sealVars>>

(* The host's lifecycle commands, with the state they expect. *)
TransitionSession(next) ==
  /\ Permits(state, next)
  /\ next = "recording" => tracks # {}
  /\ state' = next
  /\ incomplete' = (incomplete \/ next = "interrupted")
  /\ UNCHANGED <<sealed, tracks, captures, revisions, gaps, finals, sealVars>>

(* The core process died and the database is opened again: a session that  *)
(* had begun and was not completed is marked interrupted.                  *)
RecoverInterrupted ==
  /\ state \in {"preparing", "ready", "recording", "stopping", "draining"}
  /\ TransitionSession("interrupted")

CaptureRow(t, end) == [track |-> t, endSample |-> end]

RegisterCapture(s, t, end) ==
  /\ AcceptsCapture
  /\ t \in tracks
  /\ s \notin Captured
  /\ captures' = [x \in Captured \cup {s} |-> IF x = s THEN CaptureRow(t, end) ELSE captures[x]]
  /\ incomplete' = Defective(gaps, Captured \cup {s}, revisions)
  /\ UNCHANGED <<lifecycleVars, tracks, revisions, gaps, finals, sealVars>>

RegisterGap(g, t) ==
  /\ g \notin gaps
  /\ t \in tracks
  /\ AcceptsCapture
  /\ gaps' = gaps \cup {g}
  /\ incomplete' = TRUE
  /\ UNCHANGED <<lifecycleVars, tracks, captures, revisions, finals, sealVars>>

(* Mutant: the status of the current revision is not looked at. *)
SupersedesAnything(s, revision) == revision = Len(revisions[s]) + 1

(* A final is the first result of its segment, or the recomputation of a   *)
(* failed ASR result under the next revision number.  It is accepted in    *)
(* every session state, after the transcript seal too.                     *)
SupersedesFailure(s, revision) ==
  IF revisions[s] = <<>>
  THEN revision = 1
  ELSE /\ Current(revisions[s]).status = "failed"
       /\ Current(revisions[s]).origin = "asr"
       /\ revision = Len(revisions[s]) + 1

(* Mutant: the handler forgets refresh_integrity. *)
AppendRevisionUnrefreshed(s, row) ==
  /\ revisions' = [revisions EXCEPT ![s] = Append(@, row)]
  /\ UNCHANGED incomplete

AppendRevision(s, row) ==
  /\ revisions' = [revisions EXCEPT ![s] = Append(@, row)]
  /\ incomplete' = Defective(gaps, Captured, revisions')

IngestFinal(run, seq, s, revision, status) ==
  /\ FreshEvent(run, seq)
  /\ s \in Captured
  /\ SupersedesFailure(s, revision)
  /\ AppendRevision(s, [status |-> status, origin |-> "asr", run |-> run])
  /\ finals' = [finals EXCEPT ![run] = @ \cup {[seq |-> seq, segment |-> s]}]
  /\ UNCHANGED <<lifecycleVars, tracks, captures, gaps, sealVars>>

(* Mutant: the row loaded as a template keeps its origin. *)
HumanRowKeepsOrigin == [status |-> "success", origin |-> "asr", run |-> NoRun]

HumanRow == [status |-> "success", origin |-> "human", run |-> NoRun]

(* An operator's correction, guarded by the revision the operator saw. *)
ReviseTranscript(s, expected) ==
  /\ s \in Captured
  /\ revisions[s] # <<>>
  /\ Len(revisions[s]) = expected
  /\ AppendRevision(s, HumanRow)
  /\ UNCHANGED <<lifecycleVars, tracks, captures, gaps, finals, sealVars>>

(* The host's manifest names every track with its segments and its final   *)
(* sample; it must match the registered captures exactly.                  *)
StopCapture(declared, finalSample) ==
  /\ ~CaptureStopped
  /\ state \in {"stopping", "interrupted"}
  /\ tracks # {}
  /\ \A t \in tracks :
       /\ declared[t] = {s \in Captured : captures[s].track = t}
       /\ \A s \in declared[t] : captures[s].endSample <= finalSample[t]
  /\ captureSeals' = {[segments |-> declared, finalSample |-> finalSample]}
  /\ state' = "draining"
  /\ incomplete' = Defective(gaps, Captured, revisions)
  /\ UNCHANGED <<sealed, tracks, captures, revisions, gaps, finals,
                 producerSeals, reconciliations>>

(* A producer run declares its last sequence number and the segments it    *)
(* reported on; a lost or rejected final makes the declaration differ.     *)
SealProducer(run, finalSeq, segs) ==
  /\ ~Settled(run)
  /\ IsLastSeq(run, finalSeq)
  /\ segs = {e.segment : e \in finals[run]}
  /\ producerSeals' = producerSeals \cup
       {[run |-> run, finalSeq |-> finalSeq, segments |-> segs]}
  /\ UNCHANGED <<lifecycleVars, incomplete, tracks, captures, revisions, gaps,
                 finals, reconciliations, captureSeals>>

(* The host settles the run of a dead process whose outbox was replayed. *)
ReconcileAbandonedProducer(run, finalSeq) ==
  /\ CaptureStopped
  /\ ~Settled(run)
  /\ IsLastSeq(run, finalSeq)
  /\ reconciliations' = reconciliations \cup {[run |-> run, finalSeq |-> finalSeq]}
  /\ UNCHANGED <<lifecycleVars, incomplete, tracks, captures, revisions, gaps,
                 finals, producerSeals, captureSeals>>

SealTranscript ==
  /\ CaptureStopped
  /\ ~sealed
  /\ state \in {"draining", "interrupted"}
  /\ \A s \in Captured : revisions[s] # <<>>
  /\ UnsealedRuns = {}
  /\ state' = "completed"
  /\ sealed' = TRUE
  /\ incomplete' = Defective(gaps, Captured, revisions)
  /\ UNCHANGED <<tracks, captures, revisions, gaps, finals, sealVars>>

----------------------------------------------------------------------------
Next ==
  \/ \E t \in Tracks : CreateTrack(t)
  \/ \E next \in SessionState : TransitionSession(next)
  \/ RecoverInterrupted
  \/ \E s \in Segments, t \in Tracks, end \in 1..MaxSample : RegisterCapture(s, t, end)
  \/ \E g \in Gaps, t \in Tracks : RegisterGap(g, t)
  \/ \E run \in Runs, seq \in 1..MaxSeq, s \in Segments,
        revision \in 1..MaxRevision, status \in Statuses :
          IngestFinal(run, seq, s, revision, status)
  \/ \E s \in Segments, expected \in 1..(MaxRevision - 1) : ReviseTranscript(s, expected)
  \/ \E declared \in [tracks -> SUBSET Segments], finalSample \in [tracks -> 0..MaxSample] :
          StopCapture(declared, finalSample)
  \/ \E run \in Runs, finalSeq \in 0..MaxSeq, segs \in SUBSET Segments :
          SealProducer(run, finalSeq, segs)
  \/ \E run \in Runs, finalSeq \in 0..MaxSeq : ReconcileAbandonedProducer(run, finalSeq)
  \/ SealTranscript

Spec == Init /\ [][Next]_vars

----------------------------------------------------------------------------
(* Every variable holds rows of its table. *)
TypeOK ==
  /\ state \in SessionState
  /\ incomplete \in BOOLEAN
  /\ sealed \in BOOLEAN
  /\ tracks \subseteq Tracks
  /\ Captured \subseteq Segments
  /\ captures \in [Captured -> AudioRow]
  /\ revisions \in [Segments -> Seq(RevisionRow)]
  /\ gaps \subseteq Gaps
  /\ finals \in [Runs -> SUBSET FinalEvent]
  /\ producerSeals \subseteq
       [run : Runs, finalSeq : Nat, segments : SUBSET Segments]
  /\ reconciliations \subseteq [run : Runs, finalSeq : Nat]
  /\ \A c \in captureSeals :
       /\ DOMAIN c.segments \subseteq tracks
       /\ DOMAIN c.finalSample = DOMAIN c.segments

(* Once the capture manifest is accepted it describes the captured audio   *)
(* exactly, for good: no segment appears beside it (a late registration,   *)
(* a restart that reopens capture), none lies beyond its final sample.     *)
ManifestStaysExact ==
  \A c \in captureSeals : \A s \in Segments, t \in Tracks :
     (t \in DOMAIN c.segments /\ s \in c.segments[t])
       <=> (s \in Captured /\ captures[s].track = t
            /\ t \in DOMAIN c.segments /\ captures[s].endSample <= c.finalSample[t])

ManifestListsEveryCapture ==
  \A c \in captureSeals : \A s \in Captured : captures[s].track \in DOMAIN c.segments

CaptureManifestExact == ManifestStaysExact /\ ManifestListsEveryCapture

(* Every text can be traced: a segment's first result is ASR's, an ASR row *)
(* has a stored final of its run for that segment, an operator's row has   *)
(* no run, and only captured segments have rows.                           *)
ResultsTraceable ==
  \A s \in Segments :
    /\ revisions[s] # <<>> => s \in Captured /\ revisions[s][1].origin = "asr"
    /\ \A i \in 1..Len(revisions[s]) :
         LET row == revisions[s][i] IN
           IF row.origin = "human"
           THEN row.run = NoRun
           ELSE row.run \in Runs /\ \E e \in finals[row.run] : e.segment = s

(* A sealed transcript is whole: capture had stopped, every captured       *)
(* segment has a result, and the first result of each came from a run that *)
(* is sealed or reconciled, whatever arrives after the seal.               *)
SealedTranscriptWhole ==
  sealed => /\ CaptureStopped
            /\ \A s \in Captured :
                 /\ revisions[s] # <<>>
                 /\ revisions[s][1].origin = "asr"
                 /\ Settled(revisions[s][1].run)

(* The stored integrity flag never hides a defect, and is exact once the   *)
(* session is completed (an interruption may raise it before that).        *)
IntegrityFlagHonest ==
  /\ Defective(gaps, Captured, revisions) => incomplete
  /\ sealed => (incomplete <=> Defective(gaps, Captured, revisions))

(* Recognition never replaces an operator's text or a result that stands:  *)
(* a later ASR revision only follows a failed ASR revision.                *)
AsrOnlyReplacesFailure ==
  \A s \in Segments : \A i \in 1..Len(revisions[s]) :
     revisions[s][i].origin = "asr" =>
       \/ i = 1
       \/ /\ revisions[s][i - 1].origin = "asr"
          /\ revisions[s][i - 1].status = "failed"

(* What a producer seal or a recovery record says of its run stays true:   *)
(* no final of that run is stored after it, and a run is settled once, by  *)
(* one of the two.                                                         *)
SettledRunsFrozen ==
  /\ \A p \in producerSeals :
       /\ IsLastSeq(p.run, p.finalSeq)
       /\ p.segments = {e.segment : e \in finals[p.run]}
       /\ \A q \in producerSeals : q.run = p.run => q = p
  /\ \A p \in reconciliations :
       /\ IsLastSeq(p.run, p.finalSeq)
       /\ \A q \in reconciliations : q.run = p.run => q = p
       /\ \A q \in producerSeals : q.run # p.run

(* Completion is final: no command, no restart and no late event leaves    *)
(* it, reopens capture or takes the seal back.                             *)
CompletionIsFinal ==
  [][sealed => /\ sealed' /\ state' = "completed"
               /\ captures' = captures /\ gaps' = gaps
               /\ captureSeals' = captureSeals]_vars

(* The reader's view: the kind of a segment's current result. *)
BestResult(rows) ==
  IF rows = <<>> THEN "none"
  ELSE IF Current(rows).origin = "human" THEN "operator"
  ELSE IF Current(rows).status = "failed" THEN "failed"
  ELSE "recognised"

Archive == INSTANCE TranscriptArchive WITH
  open <- ~CaptureStopped,
  expected <- Captured,
  result <- [s \in Segments |-> BestResult(revisions[s])],
  closed <- sealed

(* The ledger, whose handlers are called in any order by the host, the ASR *)
(* runs and the operator, implements the reader's archive.                 *)
ImplementsArchive == Archive!ArchiveSpec
=============================================================================
