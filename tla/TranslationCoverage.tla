------------------------ MODULE TranslationCoverage ------------------------
(***************************************************************************)
(* Translation bookkeeping of forum-core: which bytes of the current       *)
(* source text are still to be translated into which language, which       *)
(* translation request owns them, and what happens to both when a source   *)
(* is corrected, a result comes late, an attempt is retried or the meeting *)
(* changes its language direction.                                         *)
(*                                                                         *)
(* Each action is one committed transaction of the Store; its error        *)
(* returns are its guards.  Translation workers, the ASR, the operator and *)
(* the host interleave freely.                                             *)
(*                                                                         *)
(* Abstracted: a text is its revision and its length, so a quote is valid  *)
(* when the revision matches and the span fits; one track, on which the    *)
(* audio of segment s is the sample range [s - 1, s); only the current     *)
(* revision and attempt of a translation (the older ones are history);     *)
(* the session's lifecycle, which only narrows when captures and           *)
(* boundaries are accepted (module SessionLedger).                         *)
(***************************************************************************)
EXTENDS Integers, FiniteSets, FiniteSetsExt

CONSTANTS
  Segments,       \* a set of positive numbers: the order of their audio
  Translations,   \* translation ids
  NoTranslation,  \* the owner of a row nobody has claimed
  Targets,        \* target languages
  TargetChoices,  \* the target lists a direction or a final may carry
  Outcomes,       \* outcomes of recognition that occur
  Lengths,        \* lengths in bytes a text may have
  MaxContext,     \* bound: context spans of a request
  MaxRevision,    \* bound: revisions of a segment
  MaxRequest,     \* bound: revisions of a translation
  MaxAttempt,     \* bound: attempts of a translation revision
  MaxEpoch        \* bound: direction changes

ASSUME CoverageAssumption ==
  /\ Segments \subseteq Nat \ {0}
  /\ NoTranslation \notin Translations
  /\ TargetChoices \subseteq SUBSET Targets
  /\ Outcomes \subseteq {"success", "empty", "failed"}
  /\ Lengths \subseteq Nat \ {0}
  /\ MaxContext \in Nat /\ MaxRevision \in Nat
  /\ {MaxRequest, MaxAttempt, MaxEpoch} \subseteq Nat \ {0}

VARIABLES
  captures,      \* capture_segments: segment -> its direction
  text,          \* current segment_revisions row of every segment
  epoch,         \* sessions.direction_epoch
  base,          \* sessions.retroactive_epoch and retroactive_targets_json
  boundaries,    \* table direction_boundaries
  coverage,      \* table translation_coverage
  translations   \* translations with their current attempt

vars == <<captures, text, epoch, base, boundaries, coverage, translations>>
directionVars == <<captures, epoch, base, boundaries>>

----------------------------------------------------------------------------
(* A direction says for which epoch, and where its target languages come   *)
(* from: the ASR final itself, a retroactive change of the whole session,  *)
(* or a boundary in the audio.                                             *)
Direction == [epoch : 1..MaxEpoch, origin : {"asr", "retroactive", "boundary"},
              targets : SUBSET Targets]

Text == [revision : 0..MaxRevision, status : {"none", "success", "empty", "failed"},
         length : Lengths \cup {0}, targets : SUBSET Targets]

Span == [segment : Segments, revision : 1..MaxRevision,
         start : Nat, end : Nat]

Owner == [id : Translations \cup {NoTranslation}, revision : 0..MaxRequest,
          attempt : 0..MaxAttempt]

NoOwner == [id |-> NoTranslation, revision |-> 0, attempt |-> 0]

Row == [segment : Segments, revision : 1..MaxRevision, target : Targets,
        epoch : 1..MaxEpoch, start : Nat, end : Nat,
        state : {"pending", "requested", "final", "failed", "stale"}, owner : Owner]

Attempt == [revision : 1..MaxRequest, attempt : 1..MaxAttempt,
            state : {"requested", "final", "failed", "stale"},
            target : Targets, epoch : 1..MaxEpoch,
            sources : SUBSET Span, context : SUBSET Span]

Captured == DOMAIN captures
Known == DOMAIN translations

OwnerOf(id, t) == [id |-> id, revision |-> t.revision, attempt |-> t.attempt]

----------------------------------------------------------------------------
(* Directions. *)

(* capture_direction_at: the last boundary at or before the segment's      *)
(* audio that is newer than the last retroactive change.                   *)
DirectionAt(s) ==
  LET ahead == {b \in boundaries : b.start <= s - 1 /\ b.epoch > base.epoch}
  IN IF ahead = {}
     THEN base
     ELSE LET b == CHOOSE b \in ahead : \A c \in ahead : c.epoch <= b.epoch
          IN [epoch |-> b.epoch, origin |-> "boundary", targets |-> b.targets]

(* validate_final_direction: the final carries the direction of its        *)
(* capture, or an older one that a retroactive change replaced.            *)
FinalDirectionValid(s, finalEpoch, finalTargets) ==
  /\ \/ finalEpoch = captures[s].epoch
     \/ finalEpoch < captures[s].epoch /\ captures[s].epoch = base.epoch
  /\ captures[s].origin = "boundary" => finalTargets = captures[s].targets

(* The target languages of a text: its capture's, or the final's own. *)
TargetsOf(direction, t) ==
  IF direction.origin = "asr" THEN t.targets ELSE direction.targets

(* insert_coverage: the whole text is pending, once per target. *)
FreshRows(s, direction, t) ==
  IF t.status # "success" THEN {}
  ELSE {[segment |-> s, revision |-> t.revision, target |-> target,
         epoch |-> direction.epoch, start |-> 0, end |-> t.length,
         state |-> "pending", owner |-> NoOwner] : target \in TargetsOf(direction, t)}

----------------------------------------------------------------------------
(* Claims. *)

SpansOf(t) == t.sources \cup t.context

(* current_sources, for one span of a request of the given epoch. *)
CurrentSpan(span, requestEpoch) ==
  /\ span.segment \in Captured
  /\ captures[span.segment].epoch = requestEpoch
  /\ text[span.segment].revision = span.revision
  /\ text[span.segment].status = "success"
  /\ span.end <= text[span.segment].length

(* Context precedes the first translated span. *)
ContextPrecedes(context, first) ==
  \A c \in context : \/ c.segment = first.segment /\ c.end <= first.start
                     \/ c.segment < first.segment

Overlap(a, b) == a.segment = b.segment /\ a.start < b.end /\ b.start < a.end

WellFormedSpans(spans) ==
  /\ \A a \in spans : a.start < a.end
  /\ \A a, b \in spans : a # b => ~Overlap(a, b)

(* The coverage rows a span of the request touches. *)
Touches(r, span, t) ==
  /\ r.segment = span.segment /\ r.revision = span.revision
  /\ r.target = t.target /\ r.epoch = t.epoch
  /\ r.start < span.end /\ span.start < r.end

Touched(rows, span, t) == {r \in rows : Touches(r, span, t)}

(* claim_span fails unless pending rows cover the span without a hole. *)
Claimable(rows, span, t) ==
  /\ \A r \in Touched(rows, span, t) : r.state = "pending"
  /\ \A b \in span.start..(span.end - 1) :
       Cardinality({r \in Touched(rows, span, t) : r.start <= b /\ b < r.end}) = 1

(* Part of a row, in a state and with an owner of its own. *)
Piece(r, start, end, state, owner) ==
  [segment |-> r.segment, revision |-> r.revision, target |-> r.target, epoch |-> r.epoch,
   start |-> start, end |-> end, state |-> state, owner |-> owner]

(* coverage_piece: the claimed part of a row, and what lies before, after  *)
(* or between the spans that take from it, which stays as it is.  The      *)
(* spans do not overlap, so it does not matter which is claimed first.     *)
Taken(r, t) == {span \in t.sources : Touches(r, span, t)}

Later(a, b) == IF a > b THEN a ELSE b
Earlier(a, b) == IF a < b THEN a ELSE b

Claimed(r, span, owner) ==
  Piece(r, Later(r.start, span.start), Earlier(r.end, span.end), "requested", owner)

(* Mutant: the remainder to the right of a claimed piece is dropped. *)
HeadOnly(r, spans) == {r.start}

(* Where what is left of a row begins. *)
Heads(r, spans) == {r.start} \cup {span.end : span \in spans}
Tails(r, spans) == {r.end} \cup {span.start : span \in spans}

Between(r, spans, a, b) ==
  /\ r.start <= a /\ a < b /\ b <= r.end
  /\ \A span \in spans : span.end <= a \/ b <= span.start

PartsOf(r, t, owner) ==
  LET spans == Taken(r, t) IN
  {Claimed(r, span, owner) : span \in spans}
    \cup UNION {{Piece(r, a, b, r.state, r.owner) :
                    b \in {b \in Tails(r, spans) : Between(r, spans, a, b)}} : a \in Heads(r, spans)}
Claim(rows, id, t) == UNION {PartsOf(r, t, OwnerOf(id, t)) : r \in rows}

(* release_coverage: the rows of a translation revision go back to pending *)
(* if they still describe the current text and direction, else to stale.   *)
IsCurrentRow(r, directions, texts) ==
  r.epoch = directions[r.segment].epoch /\ r.revision = texts[r.segment].revision

(* The rows of these translations' current revisions lose their owner. *)
Release(rows, ids, directions, texts) ==
  {IF r.owner.id \in ids /\ r.owner.revision = translations[r.owner.id].revision
   THEN Piece(r, r.start, r.end,
              IF IsCurrentRow(r, directions, texts) THEN "pending" ELSE "stale", NoOwner)
   ELSE r : r \in rows}

----------------------------------------------------------------------------
Init ==
  /\ captures = [s \in {} |-> 0]
  /\ text = [s \in Segments |-> [revision |-> 0, status |-> "none", length |-> 0, targets |-> {}]]
  /\ epoch = 1
  /\ base = [epoch |-> 1, origin |-> "asr", targets |-> {}]
  /\ boundaries = {}
  /\ coverage = {}
  /\ translations = [id \in {} |-> 0]

RegisterCapture(s) ==
  /\ s \notin Captured
  /\ captures' = [x \in Captured \cup {s} |-> IF x = s THEN DirectionAt(s) ELSE captures[x]]
  /\ UNCHANGED <<text, epoch, base, boundaries, coverage, translations>>

(* The first result of a segment, or the recomputation of a failure. *)
IngestFinal(s, status, length, finalEpoch, finalTargets) ==
  LET final == [revision |-> text[s].revision + 1, status |-> status,
                length |-> IF status = "success" THEN length ELSE 0,
                targets |-> finalTargets]
  IN /\ s \in Captured
     /\ text[s].status \in {"none", "failed"}
     /\ FinalDirectionValid(s, finalEpoch, finalTargets)
     /\ text' = [text EXCEPT ![s] = final]
     /\ coverage' = coverage \cup FreshRows(s, captures[s], final)
     /\ UNCHANGED <<directionVars, translations>>

(* Mutant: only the translated sources are looked up. *)
UsersOfTranslatedSource(s, revision) ==
  {id \in Known : \E span \in translations[id].sources :
                     span.segment = s /\ span.revision = revision}

(* translation_sources holds the translated and the context spans. *)
UsersOfSource(s, revision) ==
  {id \in Known : \E span \in SpansOf(translations[id]) :
                     span.segment = s /\ span.revision = revision}

MakeStale(ids) ==
  [id \in Known |-> IF id \in ids THEN [translations[id] EXCEPT !.state = "stale"]
                                  ELSE translations[id]]

(* The operator replaces the text of a segment: coverage of the old text   *)
(* and every translation that used it become stale, the other sources of   *)
(* those translations are released, the new text is pending.               *)
ReviseTranscript(s, length) ==
  LET old == text[s].revision
      users == UsersOfSource(s, old)
      revised == [revision |-> old + 1, status |-> "success", length |-> length,
                  targets |-> text[s].targets]
      texts == [text EXCEPT ![s] = revised]
      staleRows == {IF r.segment = s /\ r.revision = old THEN [r EXCEPT !.state = "stale"] ELSE r :
                      r \in coverage}
  IN /\ s \in Captured
     /\ old \in 1..(MaxRevision - 1)
     /\ text' = texts
     /\ translations' = MakeStale(users)
     /\ coverage' = Release(staleRows, users, captures, texts)
                      \cup FreshRows(s, captures[s], revised)
     /\ UNCHANGED directionVars

----------------------------------------------------------------------------
Asked(revision, attempt, target, requestEpoch, sources, context) ==
  [revision |-> revision, attempt |-> attempt, state |-> "requested", target |-> target,
   epoch |-> requestEpoch, sources |-> sources, context |-> context]

(* What a request must satisfy whatever its revision and attempt. *)
ValidRequest(t) ==
  /\ t.sources # {}
  /\ WellFormedSpans(SpansOf(t))
  /\ t.sources \cap t.context = {}
  /\ \A span \in SpansOf(t) : CurrentSpan(span, t.epoch)
  /\ \E first \in t.sources : ContextPrecedes(t.context, first)

(* Store the request as the current attempt of id and claim its sources    *)
(* from the given coverage rows.                                           *)
StoreRequest(id, t, rows) ==
  /\ \A span \in t.sources : Claimable(rows, span, t)
  /\ coverage' = Claim(rows, id, t)
  /\ translations' = [x \in Known \cup {id} |-> IF x = id THEN t ELSE translations[x]]
  /\ UNCHANGED <<directionVars, text>>

RequestFirst(id, target, requestEpoch, sources, context) ==
  LET t == Asked(1, 1, target, requestEpoch, sources, context)
  IN /\ id \notin Known
     /\ ValidRequest(t)
     /\ StoreRequest(id, t, coverage)

(* Mutant: an attempt that was answered may be retried. *)
RetriableUnlessStale(id) == translations[id].state # "stale"

Retriable(id) == translations[id].state \in {"requested", "failed"}

(* The same request again, after a failure or a lost worker. *)
RetryRequest(id) ==
  LET old == translations[id]
      t == Asked(old.revision, old.attempt + 1, old.target, old.epoch, old.sources, old.context)
  IN /\ id \in Known
     /\ translations[id].attempt < MaxAttempt
     /\ Retriable(id)
     /\ ValidRequest(t)
     /\ StoreRequest(id, t, Release(coverage, {id}, captures, text))

(* A new revision of the translation, with sources of its own. *)
RequestNextRevision(id, target, requestEpoch, sources, context) ==
  LET t == Asked(translations[id].revision + 1, 1, target, requestEpoch, sources, context)
  IN /\ id \in Known
     /\ translations[id].revision < MaxRequest
     /\ ValidRequest(t)
     /\ StoreRequest(id, t, Release(coverage, {id}, captures, text))

(* Mutant: the attempt number of a result is not compared. *)
FenceIgnoringAttempt(id, revision, attempt) ==
  /\ id \in Known
  /\ translations[id].revision = revision
  /\ translations[id].state = "requested"
  /\ \A span \in SpansOf(translations[id]) : CurrentSpan(span, translations[id].epoch)

(* The fence every result passes: it answers the current attempt, which is *)
(* still open and whose sources are still current.                         *)
Fence(id, revision, attempt) ==
  /\ id \in Known
  /\ translations[id].revision = revision
  /\ translations[id].attempt = attempt
  /\ translations[id].state = "requested"
  /\ \A span \in SpansOf(translations[id]) : CurrentSpan(span, translations[id].epoch)

Owned(id, revision, attempt) ==
  {r \in coverage : /\ r.owner = [id |-> id, revision |-> revision, attempt |-> attempt]
                    /\ r.state = "requested"}

CloseAttempt(id, revision, attempt, outcome) ==
  /\ Fence(id, revision, attempt)
  /\ translations' = [translations EXCEPT ![id].state = outcome]
  /\ coverage' = {IF r \in Owned(id, revision, attempt) THEN [r EXCEPT !.state = outcome] ELSE r :
                    r \in coverage}
  /\ UNCHANGED <<directionVars, text>>

(* A result; final and passthrough are one outcome here. *)
FinishTranslation(id, revision, attempt) ==
  /\ CloseAttempt(id, revision, attempt, "final")
  /\ Owned(id, revision, attempt) # {}

FailTranslation(id, revision, attempt) == CloseAttempt(id, revision, attempt, "failed")

----------------------------------------------------------------------------
(* Mutant: an earlier boundary may be added behind captured audio. *)
BoundaryAnywhere(start) == \A b \in boundaries : b.start <= start

(* No captured audio ends after the boundary, no boundary lies after it. *)
BoundaryAhead(start) ==
  /\ \A s \in Captured : s <= start
  /\ \A b \in boundaries : b.start <= start

ChangeDirectionAt(start, targets) ==
  /\ BoundaryAhead(start)
  /\ epoch' = epoch + 1
  /\ boundaries' = boundaries \cup {[epoch |-> epoch + 1, start |-> start, targets |-> targets]}
  /\ UNCHANGED <<captures, text, base, coverage, translations>>

(* Retranslate the whole session: every capture, every current text. *)
ChangeDirectionRetroactively(targets) ==
  LET direction == [epoch |-> epoch + 1, origin |-> "retroactive", targets |-> targets]
  IN /\ epoch' = epoch + 1
     /\ base' = direction
     /\ captures' = [s \in Captured |-> direction]
     /\ translations' = MakeStale(Known)
     /\ coverage' = {[r EXCEPT !.state = "stale"] : r \in coverage}
                      \cup UNION {FreshRows(s, direction, text[s]) : s \in Captured}
     /\ UNCHANGED <<text, boundaries>>

(* The spans of current texts. *)
Spans ==
  {span \in UNION {[segment : {s}, revision : {text[s].revision},
                    start : 0..text[s].length, end : 0..text[s].length] : s \in Segments} :
     span.start < span.end}

SourceChoices == {sources \in SUBSET Spans : sources # {} /\ WellFormedSpans(sources)}

ContextChoices == UNION {kSubset(n, Spans) : n \in 0..MaxContext}

Next ==
  \/ \E s \in Segments : RegisterCapture(s)
  \/ \E s \in Segments, status \in Outcomes, length \in Lengths,
        finalEpoch \in 1..epoch, finalTargets \in TargetChoices :
          /\ text[s].revision < MaxRevision
          /\ IngestFinal(s, status, length, finalEpoch, finalTargets)
  \/ \E s \in Segments, length \in Lengths : ReviseTranscript(s, length)
  \/ \E id \in Translations, target \in Targets, requestEpoch \in 1..epoch,
        sources \in SourceChoices, context \in ContextChoices :
          \/ RequestFirst(id, target, requestEpoch, sources, context)
          \/ RequestNextRevision(id, target, requestEpoch, sources, context)
  \/ \E id \in Translations : RetryRequest(id)
  \/ \E id \in Translations, revision \in 1..MaxRequest, attempt \in 1..MaxAttempt :
        \/ FinishTranslation(id, revision, attempt)
        \/ FailTranslation(id, revision, attempt)
  \/ epoch < MaxEpoch /\ \E targets \in TargetChoices :
        \/ \E start \in Segments \cup {0} : ChangeDirectionAt(start, targets)
        \/ ChangeDirectionRetroactively(targets)

Spec == Init /\ [][Next]_vars

----------------------------------------------------------------------------
(* Every variable holds rows of its table. *)
TypeOK ==
  /\ Captured \subseteq Segments /\ captures \in [Captured -> Direction]
  /\ text \in [Segments -> Text]
  /\ epoch \in 1..MaxEpoch
  /\ base \in Direction
  /\ boundaries \subseteq [epoch : 1..MaxEpoch, start : Nat, targets : SUBSET Targets]
  /\ coverage \subseteq Row
  /\ Known \subseteq Translations /\ translations \in [Known -> Attempt]

(* Where the audio of a segment lies decides its direction, however late   *)
(* it is registered: the direction stored with a capture is the one a      *)
(* registration would find now, and boundaries follow the audio.           *)
DirectionFollowsAudio ==
  /\ \A s \in Captured : captures[s] = DirectionAt(s)
  /\ \A b, c \in boundaries : b.epoch < c.epoch => b.start <= c.start

(* A row is stale exactly when its text or its direction is outdated. *)
StaleMeansOutdated ==
  \A r \in coverage : (r.state = "stale") <=> ~IsCurrentRow(r, captures, text)

(* Every byte of every current text lies in exactly one row per target, so *)
(* splitting, claiming, releasing and correcting lose and duplicate none.  *)
CoveragePartitionsText ==
  \A s \in Captured : text[s].status = "success" =>
    \A target \in TargetsOf(captures[s], text[s]), b \in 0..(text[s].length - 1) :
      Cardinality({r \in coverage :
                     /\ r.segment = s /\ r.target = target
                     /\ r.revision = text[s].revision /\ r.epoch = captures[s].epoch
                     /\ r.start <= b /\ b < r.end}) = 1

(* A translation that is not stale is of the current text and direction of *)
(* everything it was made from, its context included: a reader never sees  *)
(* the translation of a text that was corrected.                           *)
FreshTranslation ==
  \A id \in Known : translations[id].state # "stale" =>
    \A span \in SpansOf(translations[id]) : CurrentSpan(span, translations[id].epoch)

(* Rows and attempts agree: a claimed row is owned by the current attempt  *)
(* of a translation in the same state, inside one of its sources, and an   *)
(* attempt that is not stale owns every byte of its sources.  So an open   *)
(* attempt can always be answered and a failed one always be retried.      *)
OwnershipExact ==
  /\ \A r \in coverage : r.state \in {"requested", "final", "failed"} =>
       /\ r.owner.id \in Known
       /\ r.owner = OwnerOf(r.owner.id, translations[r.owner.id])
       /\ r.state = translations[r.owner.id].state
       /\ r.target = translations[r.owner.id].target
       /\ \E span \in translations[r.owner.id].sources :
            /\ span.segment = r.segment /\ span.revision = r.revision
            /\ span.start <= r.start /\ r.end <= span.end
  /\ \A r \in coverage : r.state = "pending" => r.owner = NoOwner
  /\ \A id \in Known : translations[id].state # "stale" =>
       \A span \in translations[id].sources : \A b \in span.start..(span.end - 1) :
         \E r \in coverage : /\ r.owner = OwnerOf(id, translations[id])
                             /\ r.segment = span.segment
                             /\ r.start <= b /\ b < r.end

(* A text that was translated goes back to pending only because it, its    *)
(* context or the direction changed, or because the translation itself is  *)
(* requested anew; a late or failed result never undoes it.                *)
FinalOnlyUndoneBySuccessor ==
  [][\A id \in Known :
       (translations[id].state = "final" /\ translations'[id] # translations[id]) =>
          \/ translations'[id].revision > translations[id].revision
          \/ /\ translations'[id].state = "stale"
             /\ \/ epoch' # epoch
                \/ \E span \in SpansOf(translations[id]) :
                     text'[span.segment].revision > span.revision]_vars
=============================================================================
