--------------------- MODULE TranslationCoverageProofs ---------------------
(***************************************************************************)
(* Proofs about TranslationCoverage for every number of segments,          *)
(* translations, languages, revisions, requests and direction changes:     *)
(* about the translations and their directions first; then about the rows  *)
(* of the coverage table, which are current or stale, agree with the       *)
(* translations that own them, and together are every text exactly once in *)
(* every language.                                                         *)
(***************************************************************************)
EXTENDS TranslationCoverage, TLAPS, FiniteSetTheorems, WellFoundedInduction

(* Directions are numbered by the session's epoch. *)
EpochsOrdered ==
  /\ epoch \in Nat /\ base.epoch \in Nat /\ base.epoch <= epoch
  /\ \A b \in boundaries : b.epoch \in Nat /\ b.start \in Nat /\ b.epoch <= epoch

DirectionInv ==
  /\ Captured \subseteq Segments
  /\ EpochsOrdered
  /\ DirectionFollowsAudio

(* A direction depends on the boundaries ahead of it and the base only. *)
LEMMA DirectionDetermined ==
  ASSUME NEW s \in Segments, UNCHANGED base,
         {b \in boundaries' : b.start <= s - 1 /\ b.epoch > base'.epoch}
           = {b \in boundaries : b.start <= s - 1 /\ b.epoch > base.epoch}
  PROVE  DirectionAt(s)' = DirectionAt(s)
  BY DEF DirectionAt

(* A step that leaves captures, base and boundaries alone keeps the        *)
(* invariant.                                                              *)
LEMMA DirectionUntouched ==
  ASSUME DirectionInv, UNCHANGED directionVars PROVE DirectionInv'
  BY DEF DirectionInv, directionVars, EpochsOrdered, DirectionFollowsAudio,
         DirectionAt, Captured

(* The direction invariant is inductive. *)
LEMMA DirectionStep ==
  ASSUME DirectionInv, [Next]_vars PROVE DirectionInv'
<1> USE CoverageAssumption
<1>1. ASSUME NEW s \in Segments, RegisterCapture(s) PROVE DirectionInv'
  <2>1. /\ UNCHANGED <<epoch, base, boundaries>>
        /\ Captured' = Captured \cup {s}
        /\ \A x \in Captured' : captures'[x] = IF x = s THEN DirectionAt(s) ELSE captures[x]
    BY <1>1 DEF RegisterCapture, Captured
  <2>2. \A x \in Captured' : captures'[x] = DirectionAt(x)
    BY <2>1 DEF DirectionInv, DirectionFollowsAudio
  <2>3. \A x \in Captured' : DirectionAt(x)' = DirectionAt(x)
    BY <2>1 DEF DirectionAt
  <2>4. QED
    BY <2>1, <2>2, <2>3 DEF DirectionInv, EpochsOrdered, DirectionFollowsAudio
<1>2. ASSUME NEW start \in Segments \cup {0}, NEW targets \in TargetChoices,
             ChangeDirectionAt(start, targets)
      PROVE  DirectionInv'
  <2> DEFINE new == [epoch |-> epoch + 1, start |-> start, targets |-> targets]
  <2>1. /\ UNCHANGED <<captures, base, Captured>>
        /\ epoch' = epoch + 1
        /\ boundaries' = boundaries \cup {new}
        /\ \A s \in Captured : s <= start
        /\ \A b \in boundaries : b.start <= start
        /\ start \in Nat
    BY <1>2 DEF ChangeDirectionAt, BoundaryAhead, Captured
  <2>2. EpochsOrdered'
    BY <2>1 DEF DirectionInv, EpochsOrdered
  <2>3. ASSUME NEW s \in Captured PROVE captures'[s] = DirectionAt(s)'
    <3>1. s \in Segments /\ s \in Nat /\ ~(new.start <= s - 1)
      BY <2>1 DEF DirectionInv
    <3>2. DirectionAt(s)' = DirectionAt(s)
      BY <3>1, <2>1, DirectionDetermined
    <3>3. QED
      BY <3>2, <2>1 DEF DirectionInv, DirectionFollowsAudio
  <2>4. \A b, c \in boundaries' : b.epoch < c.epoch => b.start <= c.start
    BY <2>1 DEF DirectionInv, EpochsOrdered, DirectionFollowsAudio
  <2>5. QED
    BY <2>1, <2>2, <2>3, <2>4 DEF DirectionInv, DirectionFollowsAudio
<1>3. ASSUME NEW targets \in TargetChoices, ChangeDirectionRetroactively(targets)
      PROVE  DirectionInv'
  <2>1. /\ epoch' = epoch + 1 /\ base'.epoch = epoch + 1
        /\ boundaries' = boundaries /\ Captured' = Captured
        /\ \A s \in Captured : captures'[s] = base'
    BY <1>3 DEF ChangeDirectionRetroactively, Captured
  <2>2. EpochsOrdered'
    BY <2>1 DEF DirectionInv, EpochsOrdered
  <2>3. \A b \in boundaries' : ~(b.epoch > base'.epoch)
    BY <2>1 DEF DirectionInv, EpochsOrdered
  <2>4. \A s \in Captured' : captures'[s] = DirectionAt(s)'
    BY <2>1, <2>3 DEF DirectionAt
  <2>5. QED
    BY <2>1, <2>2, <2>4 DEF DirectionInv, DirectionFollowsAudio
<1>4. CASE UNCHANGED directionVars
  BY <1>4, DirectionUntouched
<1>5. ASSUME NEW id, NEW t, NEW rows, StoreRequest(id, t, rows) PROVE UNCHANGED directionVars
  BY <1>5 DEF StoreRequest
<1>6. \A id, target, requestEpoch, sources, context :
        \/ RequestFirst(id, target, requestEpoch, sources, context)
        \/ RequestNextRevision(id, target, requestEpoch, sources, context)
        \/ RetryRequest(id)
        => UNCHANGED directionVars
  BY <1>5 DEF RequestFirst, RequestNextRevision, RetryRequest, Retriable
<1>7. \A s, status, length, finalEpoch, finalTargets :
        \/ IngestFinal(s, status, length, finalEpoch, finalTargets)
        \/ ReviseTranscript(s, length)
        => UNCHANGED directionVars
  BY DEF IngestFinal, ReviseTranscript
<1>8. \A id, revision, attempt :
        \/ FinishTranslation(id, revision, attempt)
        \/ FailTranslation(id, revision, attempt)
        => UNCHANGED directionVars
  BY DEF FinishTranslation, FailTranslation, CloseAttempt
<1>9. UNCHANGED vars => UNCHANGED directionVars
  BY DEF vars, directionVars
<1>10. QED
  BY <1>1, <1>2, <1>3, <1>4, <1>6, <1>7, <1>8, <1>9 DEF Next

(* The direction of a captured segment is decided by where its audio lies, *)
(* whatever the order of registrations, boundaries and retroactive changes.*)
THEOREM DirectionTheorem == Spec => []DirectionFollowsAudio
<1>1. Init => DirectionInv
  BY DEF Init, DirectionInv, EpochsOrdered, DirectionFollowsAudio, Captured
<1>2. DirectionInv /\ [Next]_vars => DirectionInv'
  BY DirectionStep
<1>3. DirectionInv => DirectionFollowsAudio
  BY DEF DirectionInv
<1>4. QED
  BY <1>1, <1>2, <1>3, PTL DEF Spec

----------------------------------------------------------------------------
(* The rows of translations are records with these fields. *)
Fields == {"revision", "attempt", "state", "target", "epoch", "sources", "context"}

(* Only current texts that were recognised are ever translated, and a      *)
(* translation goes stale with the first of its spans that is replaced.    *)
FreshInv ==
  /\ epoch \in Nat
  /\ DOMAIN text = Segments
  /\ \A s \in Segments : text[s].revision \in Nat
  /\ \A id \in Known : DOMAIN translations[id] = Fields /\ translations[id].revision \in Nat
  /\ FreshTranslation

(* A change of state keeps the rest of the row. *)
LEMMA StateChange ==
  ASSUME NEW t, DOMAIN t = Fields, NEW new, NEW u, u = [t EXCEPT !.state = new]
  PROVE  /\ DOMAIN u = Fields /\ u.state = new
         /\ u.revision = t.revision /\ u.epoch = t.epoch
         /\ SpansOf(u) = SpansOf(t)
  BY DEF Fields, SpansOf

(* Storing a valid request keeps every translation fresh. *)
LEMMA StoreFresh ==
  ASSUME FreshInv, NEW id, NEW t, NEW rows, ValidRequest(t), StoreRequest(id, t, rows),
         DOMAIN t = Fields, t.revision \in Nat
  PROVE  FreshInv'
<1>1. /\ UNCHANGED <<captures, text, epoch, Captured>>
      /\ Known' = Known \cup {id}
      /\ \A x \in Known' : translations'[x] = IF x = id THEN t ELSE translations[x]
  BY DEF StoreRequest, directionVars, Captured, Known
<1>2. \A span \in SpansOf(t) : CurrentSpan(span, t.epoch)
  BY DEF ValidRequest
<1>3. ASSUME NEW x \in Known', translations'[x].state # "stale",
             NEW span \in SpansOf(translations'[x])
      PROVE  CurrentSpan(span, translations[x].epoch)'
  <2>1. CurrentSpan(span, translations'[x].epoch)
    BY <1>1, <1>2, <1>3 DEF FreshInv, FreshTranslation, SpansOf
  <2>2. QED
    BY <2>1, <1>1 DEF CurrentSpan
<1>4. QED
  BY <1>1, <1>3 DEF FreshInv, FreshTranslation, SpansOf

(* The freshness invariant is inductive. *)
LEMMA FreshStep ==
  ASSUME FreshInv, [Next]_vars PROVE FreshInv'
<1> USE CoverageAssumption
<1>1. ASSUME NEW s \in Segments, RegisterCapture(s) PROVE FreshInv'
  BY <1>1 DEF RegisterCapture, FreshInv, FreshTranslation, CurrentSpan, SpansOf,
     Captured, Known
<1>2. ASSUME NEW s \in Segments, NEW status, NEW length, NEW finalEpoch, NEW finalTargets,
             IngestFinal(s, status, length, finalEpoch, finalTargets)
      PROVE  FreshInv'
  <2>1. /\ text[s].status # "success"
        /\ DOMAIN text' = Segments
        /\ text'[s].revision = text[s].revision + 1
        /\ \A x \in DOMAIN text : x # s => text'[x] = text[x]
        /\ UNCHANGED <<captures, epoch, translations, Captured, Known>>
    BY <1>2 DEF IngestFinal, directionVars, Captured, Known, FreshInv
  <2>2. ASSUME NEW id \in Known', translations'[id].state # "stale",
               NEW span \in SpansOf(translations'[id])
        PROVE  CurrentSpan(span, translations[id].epoch)'
    <3>1. CurrentSpan(span, translations[id].epoch)
      BY <2>1, <2>2 DEF FreshInv, FreshTranslation, SpansOf
    <3>2. span.segment # s
      BY <2>1, <3>1 DEF CurrentSpan
    <3>3. text'[span.segment] = text[span.segment]
      BY <3>2, <1>2 DEF IngestFinal
    <3>4. QED
      BY <2>1, <3>1, <3>3 DEF CurrentSpan
  <2>3. \A x \in Segments : text'[x].revision \in Nat
    BY <2>1 DEF FreshInv
  <2>4. QED
    BY <2>1, <2>2, <2>3 DEF FreshInv, FreshTranslation, SpansOf
<1>3. ASSUME NEW s \in Segments, NEW length, ReviseTranscript(s, length) PROVE FreshInv'
  <2> DEFINE users == UsersOfSource(s, text[s].revision)
  <2>1. /\ DOMAIN text' = Segments
        /\ text'[s].revision = text[s].revision + 1
        /\ \A x \in Segments : x # s => text'[x] = text[x]
        /\ UNCHANGED <<captures, epoch, Captured>>
        /\ translations' = MakeStale(users)
    BY <1>3 DEF ReviseTranscript, directionVars, Captured, Known, FreshInv
  <2>2. /\ Known' = Known
        /\ \A id \in Known : translations'[id] =
             IF id \in users THEN [translations[id] EXCEPT !.state = "stale"] ELSE translations[id]
    BY <2>1 DEF MakeStale, Known
  <2>3. ASSUME NEW id \in Known
        PROVE  /\ DOMAIN translations'[id] = Fields
               /\ translations'[id].revision \in Nat
               /\ id \in users => translations'[id].state = "stale"
    <3>1. DOMAIN translations[id] = Fields /\ translations[id].revision \in Nat
      BY DEF FreshInv
    <3>2. CASE id \in users
      <4>1. translations'[id] = [translations[id] EXCEPT !.state = "stale"]
        BY <2>2, <3>2
      <4>2. QED
        BY <3>1, <4>1, StateChange
    <3>3. CASE id \notin users
      BY <2>2, <3>1, <3>3
    <3>4. QED
      BY <3>2, <3>3
  <2>4. ASSUME NEW id \in Known', translations'[id].state # "stale",
               NEW span \in SpansOf(translations'[id])
        PROVE  CurrentSpan(span, translations[id].epoch)'
    <3>1. translations'[id] = translations[id] /\ id \notin users /\ id \in Known
      BY <2>2, <2>3, <2>4
    <3>2. span \in SpansOf(translations[id]) /\ CurrentSpan(span, translations[id].epoch)
      BY <3>1, <2>4 DEF FreshInv, FreshTranslation, SpansOf
    <3>3. span.segment # s
      BY <3>1, <3>2 DEF UsersOfSource, CurrentSpan
    <3>4. text'[span.segment] = text[span.segment]
      BY <3>3, <1>3 DEF ReviseTranscript
    <3>5. QED
      BY <2>1, <3>1, <3>2, <3>4 DEF CurrentSpan
  <2>5. \A x \in Segments : text'[x].revision \in Nat
    BY <2>1 DEF FreshInv
  <2>6. QED
    BY <2>1, <2>2, <2>3, <2>4, <2>5 DEF FreshInv, FreshTranslation, SpansOf
<1>4. ASSUME NEW id, NEW target, NEW requestEpoch, NEW sources, NEW context,
             RequestFirst(id, target, requestEpoch, sources, context)
      PROVE  FreshInv'
  <2> DEFINE t == Asked(1, 1, target, requestEpoch, sources, context)
  <2>1. ValidRequest(t) /\ StoreRequest(id, t, coverage)
    BY <1>4 DEF RequestFirst
  <2>2. DOMAIN t = Fields /\ t.revision \in Nat
    BY DEF Fields, Asked
  <2> HIDE DEF t
  <2>3. QED
    BY <2>1, <2>2, StoreFresh
<1>5. ASSUME NEW id, NEW target, NEW requestEpoch, NEW sources, NEW context,
             RequestNextRevision(id, target, requestEpoch, sources, context)
      PROVE  FreshInv'
  <2> DEFINE t == Asked(translations[id].revision + 1, 1, target, requestEpoch, sources, context)
             rows == Release(coverage, {id}, captures, text)
  <2>1. id \in Known /\ ValidRequest(t) /\ StoreRequest(id, t, rows)
    BY <1>5 DEF RequestNextRevision
  <2>2. DOMAIN t = Fields /\ t.revision \in Nat
    BY <2>1 DEF Fields, FreshInv, Asked
  <2> HIDE DEF t, rows
  <2>3. QED
    BY <2>1, <2>2, StoreFresh
<1>6. ASSUME NEW id, RetryRequest(id) PROVE FreshInv'
  <2> DEFINE old == translations[id]
             t == Asked(old.revision, old.attempt + 1, old.target, old.epoch, old.sources,
                          old.context)
             rows == Release(coverage, {id}, captures, text)
  <2>1. id \in Known /\ ValidRequest(t) /\ StoreRequest(id, t, rows)
    BY <1>6 DEF RetryRequest, Retriable
  <2>2. DOMAIN t = Fields /\ t.revision \in Nat
    BY <2>1 DEF Fields, FreshInv, Asked
  <2> HIDE DEF t, rows
  <2>3. QED
    BY <2>1, <2>2, StoreFresh
<1>7. ASSUME NEW id, NEW revision, NEW attempt, NEW outcome,
             CloseAttempt(id, revision, attempt, outcome)
      PROVE  FreshInv'
  <2>1. /\ id \in Known /\ translations[id].state = "requested"
        /\ UNCHANGED <<captures, text, epoch, Captured>>
        /\ Known' = Known
        /\ \A x \in Known : translations'[x] =
             IF x = id THEN [translations[x] EXCEPT !.state = outcome] ELSE translations[x]
    BY <1>7 DEF CloseAttempt, Fence, directionVars, Captured, Known
  <2>2. \A x \in Known : /\ DOMAIN translations'[x] = Fields
                         /\ translations'[x].revision \in Nat
                         /\ translations'[x].epoch = translations[x].epoch
                         /\ SpansOf(translations'[x]) = SpansOf(translations[x])
                         /\ translations[x].state = "stale" => translations'[x].state = "stale"
    <3>1. ASSUME NEW x \in Known, x = id
          PROVE  /\ DOMAIN translations'[x] = Fields
                 /\ translations'[x].revision = translations[x].revision
                 /\ translations'[x].epoch = translations[x].epoch
                 /\ SpansOf(translations'[x]) = SpansOf(translations[x])
      <4>1. translations'[x] = [translations[x] EXCEPT !.state = outcome]
        BY <2>1, <3>1
      <4>2. DOMAIN translations[x] = Fields
        BY DEF FreshInv
      <4>3. QED
        BY <4>1, <4>2, StateChange
    <3>2. QED
      BY <2>1, <3>1 DEF FreshInv
  <2>3. ASSUME NEW x \in Known', translations'[x].state # "stale",
               NEW span \in SpansOf(translations'[x])
        PROVE  CurrentSpan(span, translations[x].epoch)'
    <3>1. CurrentSpan(span, translations'[x].epoch)
      BY <2>1, <2>2, <2>3 DEF FreshInv, FreshTranslation
    <3>2. QED
      BY <3>1, <2>1 DEF CurrentSpan
  <2>4. QED
    BY <2>1, <2>2, <2>3 DEF FreshInv, FreshTranslation, SpansOf
<1>8. ASSUME NEW targets, ChangeDirectionRetroactively(targets) PROVE FreshInv'
  <2>1. /\ UNCHANGED text /\ epoch' = epoch + 1
        /\ Known' = Known
        /\ \A id \in Known : translations'[id] = [translations[id] EXCEPT !.state = "stale"]
    BY <1>8 DEF ChangeDirectionRetroactively, MakeStale, Known
  <2>2. \A id \in Known : /\ DOMAIN translations'[id] = Fields
                          /\ translations'[id].revision \in Nat
                          /\ translations'[id].state = "stale"
    <3>1. ASSUME NEW id \in Known
          PROVE  /\ DOMAIN translations'[id] = Fields
                 /\ translations'[id].revision = translations[id].revision
                 /\ translations'[id].state = "stale"
      <4>1. DOMAIN translations[id] = Fields
        BY DEF FreshInv
      <4>2. translations'[id] = [translations[id] EXCEPT !.state = "stale"]
        BY <2>1
      <4>3. QED
        BY <4>1, <4>2, StateChange
    <3>2. QED
      BY <2>1, <3>1 DEF FreshInv
  <2>3. QED
    BY <2>1, <2>2 DEF FreshInv, FreshTranslation
<1>9. ASSUME NEW start, NEW targets, ChangeDirectionAt(start, targets) PROVE FreshInv'
  BY <1>9 DEF ChangeDirectionAt, FreshInv, FreshTranslation, CurrentSpan, SpansOf,
     Captured, Known
<1>10. CASE UNCHANGED vars
  <2>1. UNCHANGED <<captures, text, epoch, translations, Captured, Known>>
    BY <1>10 DEF vars, Captured, Known
  <2>2. FreshTranslation'
    BY <2>1 DEF FreshInv, FreshTranslation, CurrentSpan, SpansOf
  <2>3. QED
    BY <2>1, <2>2 DEF FreshInv
<1>11. QED
  BY <1>1, <1>2, <1>3, <1>4, <1>5, <1>6, <1>7, <1>8, <1>9, <1>10
  DEF Next, FinishTranslation, FailTranslation

(* The freshness invariant holds always. *)
LEMMA FreshInvariant == Spec => []FreshInv
<1>1. Init => FreshInv
  BY DEF Init, FreshInv, FreshTranslation, Known
<1>2. FreshInv /\ [Next]_vars => FreshInv'
  BY FreshStep
<1>3. QED
  BY <1>1, <1>2, PTL DEF Spec

(* No correction, retry, late result or direction change, in any order,    *)
(* leaves a translation that is not stale on an outdated span.             *)
THEOREM FreshTheorem == Spec => []FreshTranslation
<1>1. FreshInv => FreshTranslation
  BY DEF FreshInv
<1>2. QED
  BY <1>1, FreshInvariant, PTL

----------------------------------------------------------------------------
(* What a step may do to a translation that is final. *)
UndoneBySuccessor ==
  \A id \in Known :
    (translations[id].state = "final" /\ translations'[id] # translations[id]) =>
       \/ translations'[id].revision > translations[id].revision
       \/ /\ translations'[id].state = "stale"
          /\ \/ epoch' # epoch
             \/ \E span \in SpansOf(translations[id]) :
                  text'[span.segment].revision > span.revision

(* A final translation is only replaced by its next revision or outdated.  *)
LEMMA FinalStep ==
  ASSUME FreshInv, [Next]_vars PROVE UndoneBySuccessor
<1> SUFFICES ASSUME NEW id \in Known, translations[id].state = "final",
                    translations'[id] # translations[id]
             PROVE  \/ translations'[id].revision > translations[id].revision
                    \/ /\ translations'[id].state = "stale"
                       /\ \/ epoch' # epoch
                          \/ \E span \in SpansOf(translations[id]) :
                               text'[span.segment].revision > span.revision
  BY DEF UndoneBySuccessor
<1>1. ASSUME NEW s \in Segments, NEW length, ReviseTranscript(s, length)
      PROVE  /\ translations'[id].state = "stale"
             /\ \E span \in SpansOf(translations[id]) :
                  text'[span.segment].revision > span.revision
  <2> DEFINE users == UsersOfSource(s, text[s].revision)
  <2>1. /\ text'[s].revision = text[s].revision + 1
        /\ text[s].revision \in Nat
        /\ translations'[id] =
             IF id \in users THEN [translations[id] EXCEPT !.state = "stale"] ELSE translations[id]
    BY <1>1 DEF ReviseTranscript, MakeStale, FreshInv
  <2>2. id \in users /\ translations'[id].state = "stale"
    BY <2>1, StateChange DEF FreshInv
  <2>3. PICK span \in SpansOf(translations[id]) :
          span.segment = s /\ span.revision = text[s].revision
    BY <2>2 DEF UsersOfSource
  <2>4. QED
    BY <2>1, <2>2, <2>3
<1>2. ASSUME NEW x, NEW target, NEW requestEpoch, NEW sources, NEW context,
             RequestFirst(x, target, requestEpoch, sources, context)
      PROVE  FALSE
  BY <1>2 DEF RequestFirst, StoreRequest, Known
<1>3. ASSUME NEW x, NEW target, NEW requestEpoch, NEW sources, NEW context,
             RequestNextRevision(x, target, requestEpoch, sources, context)
      PROVE  translations'[id].revision > translations[id].revision
  <2>1. x = id /\ translations'[id].revision = translations[id].revision + 1
    BY <1>3 DEF RequestNextRevision, StoreRequest, Known, Asked
  <2>2. QED
    BY <2>1 DEF FreshInv
<1>4. ASSUME NEW x, RetryRequest(x) PROVE FALSE
  BY <1>4 DEF RetryRequest, Retriable, StoreRequest, Known
<1>5. ASSUME NEW x, NEW revision, NEW attempt, NEW outcome,
             CloseAttempt(x, revision, attempt, outcome)
      PROVE  FALSE
  BY <1>5 DEF CloseAttempt, Fence, Known
<1>6. ASSUME NEW targets, ChangeDirectionRetroactively(targets)
      PROVE  translations'[id].state = "stale" /\ epoch' # epoch
  <2>1. translations'[id] = [translations[id] EXCEPT !.state = "stale"] /\ epoch' = epoch + 1
    BY <1>6 DEF ChangeDirectionRetroactively, MakeStale
  <2>2. DOMAIN translations[id] = Fields /\ epoch \in Nat
    BY DEF FreshInv
  <2>3. QED
    BY <2>1, <2>2, StateChange
<1>7. CASE UNCHANGED translations
  BY <1>7
<1>8. QED
  BY <1>1, <1>2, <1>3, <1>4, <1>5, <1>6, <1>7
  DEF Next, vars, RegisterCapture, IngestFinal, FinishTranslation, FailTranslation,
      ChangeDirectionAt

(* A finished translation is undone only by its own next revision, or made *)
(* stale by a correction of something it was made from or by a change of   *)
(* direction; no late, repeated or failed result touches it.               *)
THEOREM FinalTheorem == Spec => FinalOnlyUndoneBySuccessor
<1>1. FreshInv /\ [Next]_vars => [UndoneBySuccessor]_vars
  BY FinalStep
<1>2. Spec => [][UndoneBySuccessor]_vars
  BY <1>1, FreshInvariant, PTL DEF Spec
<1>3. QED
  BY <1>2 DEF FinalOnlyUndoneBySuccessor, UndoneBySuccessor

----------------------------------------------------------------------------
(* Numbers.                                                                *)

(* A set of natural numbers has a least one.                               *)
LEMMA LeastNatural ==
  ASSUME NEW T, T \subseteq Nat, T # {}
  PROVE  \E n \in T : \A m \in T : n <= m
<1> DEFINE R == OpToRel(<, Nat)
<1>1. IsWellFoundedOn(R, Nat)
  BY NatLessThanWellFounded
<1>2. R = {ss \in Nat \X Nat : ss[1] < ss[2]}
  BY DEF OpToRel
<1> HIDE DEF R
<1>3. PICK n \in T : \A m \in T : ~(<<m, n>> \in R)
  BY <1>1, WFMin
<1>4. ASSUME NEW m \in T, m < n PROVE FALSE
  <2>1. m \in Nat /\ n \in Nat
    OBVIOUS
  <2>2. <<m, n>> \in R
    BY <1>2, <1>4, <2>1
  <2>3. QED
    BY <1>3, <2>2
<1>5. \A m \in T : n <= m
  BY <1>4
<1>6. QED
  BY <1>5

(* A bounded one has a greatest.                                           *)
LEMMA GreatestNatural ==
  ASSUME NEW T, T \subseteq Nat, T # {}, NEW b \in Nat, \A n \in T : n <= b
  PROVE  \E n \in T : \A m \in T : m <= n
<1> DEFINE below == {b - n : n \in T}
<1>1. \A n \in T : b - n \in Nat /\ b - n \in below
  OBVIOUS
<1>2. below \subseteq Nat
  BY <1>1
<1>3. below # {}
  BY <1>1
<1>4. PICK d \in below : \A e \in below : d <= e
  BY <1>2, <1>3, LeastNatural
<1>5. PICK n \in T : d = b - n
  BY <1>4
<1>6. ASSUME NEW m \in T PROVE m <= n
  <2>1. b - n <= b - m
    BY <1>1, <1>4, <1>5
  <2>2. QED
    BY <2>1
<1>7. QED
  BY <1>6

----------------------------------------------------------------------------
(* Types, and what goes with them: a text is as long as its status says,   *)
(* and a row is of a captured segment, not newer than its text and its     *)
(* direction, and of a text that was recognised.                           *)
TextOK ==
  \A s \in Segments : /\ text[s].status = "success" <=> text[s].length # 0
                      /\ text[s].status = "none" <=> text[s].revision = 0
                      /\ text[s].status # "none" => s \in Captured

RowOK(r) ==
  /\ r.segment \in Captured /\ r.start < r.end
  /\ r.revision <= text[r.segment].revision
  /\ r.revision = text[r.segment].revision => text[r.segment].status = "success"
  /\ r.epoch <= captures[r.segment].epoch

TablesOK ==
  /\ Captured \subseteq Segments /\ captures \in [Captured -> Direction]
  /\ text \in [Segments -> Text]
  /\ epoch \in 1..MaxEpoch
  /\ base \in Direction
  /\ boundaries \subseteq [epoch : 1..MaxEpoch, start : Nat, targets : SUBSET Targets]
  /\ Known \subseteq Translations /\ translations \in [Known -> Attempt]
  /\ \A s \in Captured : captures[s].epoch <= epoch
  /\ TextOK
  /\ DirectionInv

RowStates == {"pending", "requested", "final", "failed", "stale"}

(* A piece of a row is a row of the same text.                             *)
LEMMA PieceTyped ==
  ASSUME NEW r \in Row, NEW start \in Nat, NEW end \in Nat, NEW state \in RowStates,
         NEW owner \in Owner
  PROVE  LET p == Piece(r, start, end, state, owner)
         IN /\ p \in Row
            /\ p.segment = r.segment /\ p.revision = r.revision
            /\ p.target = r.target /\ p.epoch = r.epoch
            /\ p.start = start /\ p.end = end /\ p.state = state /\ p.owner = owner
  BY DEF Piece, Row, RowStates

(* So is a row with another state.                                         *)
LEMMA StateTyped ==
  ASSUME NEW r \in Row, NEW state \in RowStates
  PROVE  LET p == [r EXCEPT !.state = state]
         IN /\ p \in Row
            /\ p.segment = r.segment /\ p.revision = r.revision
            /\ p.target = r.target /\ p.epoch = r.epoch
            /\ p.start = r.start /\ p.end = r.end /\ p.state = state /\ p.owner = r.owner
  BY DEF Row, RowStates

(* Nobody may own a row.                                                   *)
LEMMA NobodyTyped == NoOwner \in Owner
  BY CoverageAssumption DEF NoOwner, Owner

(* A registration finds a direction of the session.                        *)
LEMMA DirectionTyped ==
  ASSUME TablesOK, NEW s \in Segments
  PROVE  DirectionAt(s) \in Direction /\ DirectionAt(s).epoch <= epoch
<1> DEFINE ahead == {b \in boundaries : b.start <= s - 1 /\ b.epoch > base.epoch}
           numbers == {b.epoch : b \in ahead}
<1>1. boundaries \subseteq [epoch : 1..MaxEpoch, start : Nat, targets : SUBSET Targets]
  BY DEF TablesOK
<1>2. CASE ahead = {}
  BY <1>2 DEF DirectionAt, TablesOK, DirectionInv, EpochsOrdered
<1>3. CASE ahead # {}
  <2>1. numbers \subseteq Nat /\ \A n \in numbers : n <= epoch
    BY <1>1, CoverageAssumption DEF TablesOK, DirectionInv, EpochsOrdered
  <2>2. numbers # {} /\ epoch \in Nat
    BY <1>3 DEF TablesOK, DirectionInv, EpochsOrdered
  <2>3. PICK n \in numbers : \A m \in numbers : m <= n
    BY <2>1, <2>2, GreatestNatural
  <2>4. PICK b \in ahead : b.epoch = n
    BY <2>3
  <2>5. \A c \in ahead : c.epoch <= b.epoch
    BY <2>3, <2>4
  <2> DEFINE last == CHOOSE x \in ahead : \A c \in ahead : c.epoch <= x.epoch
  <2>6. last \in ahead
    BY <2>5
  <2>7. DirectionAt(s) = [epoch |-> last.epoch, origin |-> "boundary", targets |-> last.targets]
    BY <1>3 DEF DirectionAt
  <2> HIDE DEF last
  <2>8. last \in boundaries
    BY <2>6
  <2>9. last.epoch <= epoch
    BY <2>8 DEF TablesOK, DirectionInv, EpochsOrdered
  <2>10. QED
    BY <1>1, <2>7, <2>8, <2>9 DEF Direction
<1>4. QED
  BY <1>2, <1>3

(* The rows of a text that is new: all of it, once for each language.      *)
LEMMA FreshTyped ==
  ASSUME NEW s \in Segments, NEW direction \in Direction, NEW t \in Text,
         t.status = "success" => t.revision # 0 /\ t.length # 0
  PROVE  /\ FreshRows(s, direction, t) \subseteq Row
         /\ \A r \in FreshRows(s, direction, t) :
              /\ r.segment = s /\ r.revision = t.revision /\ r.epoch = direction.epoch
              /\ r.start = 0 /\ r.end = t.length /\ r.start < r.end
              /\ r.state = "pending" /\ r.owner = NoOwner
              /\ t.status = "success" /\ r.target \in TargetsOf(direction, t)
         /\ t.status = "success" => \A target \in TargetsOf(direction, t) :
              \E r \in FreshRows(s, direction, t) : r.target = target
         /\ \A r, q \in FreshRows(s, direction, t) : r.target = q.target => r = q
<1> DEFINE row(target) == [segment |-> s, revision |-> t.revision, target |-> target,
                           epoch |-> direction.epoch, start |-> 0, end |-> t.length,
                           state |-> "pending", owner |-> NoOwner]
<1>1. CASE t.status = "success"
  <2>1. FreshRows(s, direction, t) = {row(target) : target \in TargetsOf(direction, t)}
    BY <1>1 DEF FreshRows
  <2>2. TargetsOf(direction, t) \subseteq Targets
    BY DEF TargetsOf, Direction, Text
  <2>3. t.revision \in 1..MaxRevision /\ t.length \in Nat /\ 0 < t.length
        /\ direction.epoch \in 1..MaxEpoch
    <3>1. t.revision \in 0..MaxRevision /\ t.length \in Lengths \cup {0}
          /\ direction.epoch \in 1..MaxEpoch
      BY DEF Text, Direction
    <3>2. t.revision # 0 /\ t.length # 0
      BY <1>1
    <3>3. MaxRevision \in Nat /\ Lengths \subseteq Nat \ {0}
      BY CoverageAssumption
    <3>4. t.length \in Nat /\ 0 < t.length
      <4>1. \A n \in Lengths : n \in Nat /\ 0 < n
        BY <3>3
      <4>2. t.length \in Lengths
        BY <3>1, <3>2
      <4>3. QED
        BY <4>1, <4>2
    <3>5. t.revision \in 1..MaxRevision
      <4>1. \A n \in 0..MaxRevision : n # 0 => n \in 1..MaxRevision
        BY <3>3
      <4>2. QED
        BY <3>1, <3>2, <4>1
    <3>6. QED
      BY <3>1, <3>4, <3>5
  <2>4. ASSUME NEW target \in Targets
        PROVE  /\ row(target) \in Row
               /\ row(target).segment = s /\ row(target).revision = t.revision
               /\ row(target).epoch = direction.epoch /\ row(target).target = target
               /\ row(target).start = 0 /\ row(target).end = t.length
               /\ row(target).state = "pending" /\ row(target).owner = NoOwner
    BY <2>3, NobodyTyped DEF Row
  <2> HIDE DEF row
  <2>5. QED
    BY <1>1, <2>1, <2>2, <2>3, <2>4
<1>2. CASE t.status # "success"
  BY <1>2 DEF FreshRows
<1>3. QED
  BY <1>1, <1>2

----------------------------------------------------------------------------
(* The tables but for coverage keep their types.                           *)

(* What is asked for is an attempt,                                        *)
LEMMA AttemptTyped ==
  ASSUME NEW revision \in 1..MaxRequest, NEW attempt \in 1..MaxAttempt, NEW target \in Targets,
         NEW requestEpoch \in 1..MaxEpoch, NEW sources \in SUBSET Span, NEW context \in SUBSET Span
  PROVE  LET t == Asked(revision, attempt, target, requestEpoch, sources, context)
         IN /\ t \in Attempt
            /\ t.revision = revision /\ t.attempt = attempt /\ t.state = "requested"
            /\ t.target = target /\ t.epoch = requestEpoch
            /\ t.sources = sources /\ t.context = context
  BY DEF Asked, Attempt

(* so is an attempt with another state,                                    *)
LEMMA AttemptState ==
  ASSUME NEW t \in Attempt, NEW state \in {"requested", "final", "failed", "stale"}
  PROVE  LET u == [t EXCEPT !.state = state]
         IN /\ u \in Attempt
            /\ u.revision = t.revision /\ u.attempt = t.attempt /\ u.state = state
            /\ u.target = t.target /\ u.epoch = t.epoch
            /\ u.sources = t.sources /\ u.context = t.context
  BY DEF Attempt

(* Requests are made of current texts.                                     *)
LEMMA SpansTyped ==
  ASSUME TablesOK PROVE Spans \subseteq Span
<1> SUFFICES ASSUME NEW span \in Spans PROVE span \in Span
  OBVIOUS
<1>1. PICK s \in Segments :
        /\ span \in [segment : {s}, revision : {text[s].revision},
                     start : 0..text[s].length, end : 0..text[s].length]
        /\ span.start < span.end
  BY DEF Spans
<1>2. text[s] \in Text /\ Lengths \subseteq Nat \ {0}
  BY CoverageAssumption DEF TablesOK
<1>3. text[s].length \in Nat
  <2>1. text[s].length \in Lengths \cup {0}
    BY <1>2 DEF Text
  <2>2. \A n \in Lengths \cup {0} : n \in Nat
    BY <1>2
  <2>3. QED
    BY <2>1, <2>2
<1>4. text[s].length # 0
  BY <1>1, <1>3
<1>5. text[s].revision \in 0..MaxRevision /\ text[s].revision # 0
  BY <1>2, <1>4 DEF TablesOK, TextOK, Text
<1>6. text[s].revision \in 1..MaxRevision
  <2>1. \A n \in 0..MaxRevision : n # 0 => n \in 1..MaxRevision
    BY CoverageAssumption
  <2>2. QED
    BY <1>5, <2>1
<1>7. /\ span = [segment |-> span.segment, revision |-> span.revision,
                 start |-> span.start, end |-> span.end]
      /\ span.segment \in Segments /\ span.revision \in 1..MaxRevision
      /\ span.start \in Nat /\ span.end \in Nat
  BY <1>1, <1>3, <1>6
<1>8. QED
  BY <1>7 DEF Span

(* A step that stores a request.                                           *)
LEMMA StoreTables ==
  ASSUME TablesOK, NEW id \in Translations, NEW t \in Attempt, NEW rows, StoreRequest(id, t, rows)
  PROVE  TablesOK'
<1>1. /\ UNCHANGED <<captures, epoch, base, boundaries, text, Captured>>
      /\ Known' = Known \cup {id}
      /\ translations' = [x \in Known \cup {id} |-> IF x = id THEN t ELSE translations[x]]
  BY DEF StoreRequest, directionVars, Captured, Known
<1>2. DirectionInv' /\ TextOK'
  BY <1>1, DirectionUntouched DEF TablesOK, TextOK, directionVars
<1>3. translations' \in [Known' -> Attempt]
  BY <1>1 DEF TablesOK
<1>4. Known' \subseteq Translations
  BY <1>1 DEF TablesOK
<1>5. QED
  BY <1>1, <1>2, <1>3, <1>4 DEF TablesOK

(* A request, whatever its kind, is one of the table.                      *)
LEMMA RequestTyped ==
  ASSUME TablesOK, NEW id, NEW target \in Targets, NEW requestEpoch \in 1..epoch,
         NEW sources \in SourceChoices, NEW context \in ContextChoices
  PROVE  /\ Asked(1, 1, target, requestEpoch, sources, context) \in Attempt
         /\ id \in Known /\ translations[id].revision < MaxRequest =>
              Asked(translations[id].revision + 1, 1, target, requestEpoch,
                    sources, context) \in Attempt
<1>1. requestEpoch \in 1..MaxEpoch
  BY CoverageAssumption DEF TablesOK
<1>2. sources \in SUBSET Span /\ context \in SUBSET Span
  BY SpansTyped DEF SourceChoices, ContextChoices, kSubset
<1>3. 1 \in 1..MaxRequest /\ 1 \in 1..MaxAttempt
  BY CoverageAssumption
<1>4. Asked(1, 1, target, requestEpoch, sources, context) \in Attempt
  BY <1>1, <1>2, <1>3, AttemptTyped
<1>5. ASSUME id \in Known, translations[id].revision < MaxRequest
      PROVE  Asked(translations[id].revision + 1, 1, target, requestEpoch,
                   sources, context) \in Attempt
  <2>1. translations[id] \in Attempt
    BY <1>5 DEF TablesOK
  <2>2. translations[id].revision + 1 \in 1..MaxRequest
    <3>1. translations[id].revision \in 1..MaxRequest
      BY <2>1 DEF Attempt
    <3>2. QED
      BY <1>5, <3>1, CoverageAssumption
  <2>3. QED
    BY <1>1, <1>2, <1>3, <2>2, AttemptTyped
<1>6. QED
  BY <1>4, <1>5

(* and the next attempt of a request.                                      *)
LEMMA RetryTyped ==
  ASSUME TablesOK, NEW id \in Known, translations[id].attempt < MaxAttempt
  PROVE  LET old == translations[id]
         IN Asked(old.revision, old.attempt + 1, old.target, old.epoch,
                  old.sources, old.context) \in Attempt
<1> DEFINE old == translations[id]
<1>1. old \in Attempt
  BY DEF TablesOK
<1>2. /\ old.revision \in 1..MaxRequest /\ old.attempt \in 1..MaxAttempt
      /\ old.target \in Targets /\ old.epoch \in 1..MaxEpoch
      /\ old.sources \in SUBSET Span /\ old.context \in SUBSET Span
  BY <1>1 DEF Attempt
<1>3. old.attempt + 1 \in 1..MaxAttempt
  BY <1>2, CoverageAssumption
<1> HIDE DEF old
<1>4. Asked(old.revision, old.attempt + 1, old.target, old.epoch, old.sources, old.context)
        \in Attempt
  BY <1>2, <1>3, AttemptTyped
<1>5. QED
  BY <1>4 DEF old

(* Making requests stale touches no others.                                *)
LEMMA StaleTyped ==
  ASSUME TablesOK, NEW ids
  PROVE  /\ MakeStale(ids) \in [Known -> Attempt]
         /\ \A id \in ids \cap Known : MakeStale(ids)[id].state = "stale"
         /\ \A id \in Known \ ids : MakeStale(ids)[id] = translations[id]
<1>1. ASSUME NEW id \in Known
      PROVE  /\ [translations[id] EXCEPT !.state = "stale"] \in Attempt
             /\ [translations[id] EXCEPT !.state = "stale"].state = "stale"
             /\ translations[id] \in Attempt
  BY AttemptState DEF TablesOK
<1>2. QED
  BY <1>1 DEF MakeStale

(* A text that a final or a correction stores.                             *)
LEMMA TextTyped ==
  ASSUME NEW revision \in 0..MaxRevision, NEW status \in {"success", "empty", "failed"},
         NEW length \in Lengths \cup {0}, NEW targets \in SUBSET Targets
  PROVE  LET t == [revision |-> revision, status |-> status, length |-> length, targets |-> targets]
         IN /\ t \in Text
            /\ t.revision = revision /\ t.status = status /\ t.length = length
            /\ t.targets = targets
  BY DEF Text

(* A step that changes the text of one captured segment.                   *)
LEMMA TextTables ==
  ASSUME TablesOK, NEW s \in Captured, NEW t \in Text, text' = [text EXCEPT ![s] = t],
         t.status = "success" <=> t.length # 0, t.status # "none", t.revision # 0,
         UNCHANGED directionVars,
         Known' = Known, translations' \in [Known -> Attempt]
  PROVE  TablesOK'
<1>1. /\ UNCHANGED <<captures, epoch, base, boundaries, Captured>>
      /\ s \in Segments
  BY DEF directionVars, Captured, TablesOK
<1>2. /\ text' \in [Segments -> Text]
      /\ \A x \in Segments : text'[x] = IF x = s THEN t ELSE text[x]
  BY <1>1 DEF TablesOK
<1>3. TextOK'
  BY <1>1, <1>2 DEF TablesOK, TextOK
<1>4. DirectionInv'
  BY DirectionUntouched DEF TablesOK
<1>5. QED
  BY <1>1, <1>2, <1>3, <1>4 DEF TablesOK

(* A final text keeps the tables in order;                                 *)
LEMMA FinalTables ==
  ASSUME TablesOK, NEW s \in Segments, NEW status \in Outcomes, NEW length \in Lengths,
         NEW finalEpoch, NEW finalTargets \in TargetChoices, text[s].revision < MaxRevision,
         IngestFinal(s, status, length, finalEpoch, finalTargets)
  PROVE  TablesOK'
<1> DEFINE t == [revision |-> text[s].revision + 1, status |-> status,
                 length |-> IF status = "success" THEN length ELSE 0, targets |-> finalTargets]
<1>1. /\ s \in Captured /\ text' = [text EXCEPT ![s] = t]
      /\ UNCHANGED directionVars /\ UNCHANGED translations
  BY DEF IngestFinal
<1>2. text[s].revision + 1 \in 0..MaxRevision /\ text[s].revision + 1 # 0
  <2>1. text[s].revision \in 0..MaxRevision
    BY DEF TablesOK, Text
  <2>2. QED
    BY <2>1, CoverageAssumption
<1>3. length # 0
  BY CoverageAssumption
<1>4. t \in Text /\ t.revision # 0 /\ t.status = status
      /\ t.length = IF status = "success" THEN length ELSE 0
  BY <1>2, TextTyped, CoverageAssumption
<1>5. Known' = Known /\ translations' \in [Known -> Attempt]
  BY <1>1 DEF Known, TablesOK
<1>6. t.status # "none"
  BY <1>4, CoverageAssumption
<1> HIDE DEF t
<1>7. QED
  BY <1>1, <1>3, <1>4, <1>5, <1>6, TextTables

(* so does a revision of a text,                                           *)
LEMMA ReviseTables ==
  ASSUME TablesOK, NEW s \in Segments, NEW length \in Lengths, ReviseTranscript(s, length)
  PROVE  TablesOK'
<1> DEFINE old == text[s].revision
           t == [revision |-> old + 1, status |-> "success", length |-> length,
                 targets |-> text[s].targets]
<1>1. /\ s \in Captured /\ text' = [text EXCEPT ![s] = t]
      /\ UNCHANGED directionVars /\ translations' = MakeStale(UsersOfSource(s, old))
      /\ old \in 1..(MaxRevision - 1)
  BY DEF ReviseTranscript
<1>2. /\ t \in Text /\ t.revision = old + 1 /\ t.status = "success" /\ t.length = length
  <2>1. text[s] \in Text
    BY DEF TablesOK
  <2>2. old + 1 \in 0..MaxRevision
    BY <1>1, CoverageAssumption
  <2>3. text[s].targets \in SUBSET Targets
    BY <2>1 DEF Text
  <2>4. QED
    BY <2>2, <2>3, TextTyped
<1>3. length # 0 /\ old + 1 # 0
  BY <1>1, CoverageAssumption
<1>4. Known' = Known /\ translations' \in [Known -> Attempt]
  BY <1>1, StaleTyped DEF Known, TablesOK, MakeStale
<1> HIDE DEF t, old
<1>5. QED
  BY <1>1, <1>2, <1>3, <1>4, TextTables

(* and the end of an attempt.                                              *)
LEMMA CloseTables ==
  ASSUME TablesOK, NEW id, NEW revision, NEW attempt, NEW outcome \in {"final", "failed"},
         CloseAttempt(id, revision, attempt, outcome)
  PROVE  TablesOK'
<1>1. /\ id \in Known /\ UNCHANGED <<directionVars, text>>
      /\ translations' = [translations EXCEPT ![id].state = outcome]
  BY DEF CloseAttempt, Fence
<1>2. DirectionInv' /\ TextOK'
  BY <1>1, DirectionUntouched DEF TablesOK, TextOK, directionVars, Captured
<1>3. [translations[id] EXCEPT !.state = outcome] \in Attempt
  BY <1>1, AttemptState DEF TablesOK
<1>4. translations' \in [Known -> Attempt] /\ Known' = Known
  BY <1>1, <1>3 DEF TablesOK, Known
<1>5. QED
  BY <1>1, <1>2, <1>4 DEF TablesOK, directionVars, Captured

(* The other tables keep their types.                                      *)
LEMMA TablesStep ==
  ASSUME TablesOK, [Next]_vars PROVE TablesOK'
<1> USE CoverageAssumption
<1>0. DirectionInv'
  BY DirectionStep DEF TablesOK
<1>1. ASSUME NEW s \in Segments, RegisterCapture(s) PROVE TablesOK'
  <2>1. /\ UNCHANGED <<text, epoch, base, boundaries, translations, Known>>
        /\ Captured' = Captured \cup {s}
        /\ captures' = [x \in Captured \cup {s} |->
                          IF x = s THEN DirectionAt(s) ELSE captures[x]]
    BY <1>1 DEF RegisterCapture, Captured, Known
  <2>2. captures' \in [Captured' -> Direction] /\ \A x \in Captured' : captures'[x].epoch <= epoch
    BY <2>1, DirectionTyped DEF TablesOK
  <2>3. TextOK'
    BY <2>1 DEF TablesOK, TextOK
  <2>4. QED
    BY <1>0, <2>1, <2>2, <2>3 DEF TablesOK
<1>2. ASSUME NEW s \in Segments, NEW status \in Outcomes, NEW length \in Lengths, NEW finalEpoch,
             NEW finalTargets \in TargetChoices, text[s].revision < MaxRevision,
             IngestFinal(s, status, length, finalEpoch, finalTargets)
      PROVE  TablesOK'
  BY <1>2, FinalTables
<1>3. ASSUME NEW s \in Segments, NEW length \in Lengths, ReviseTranscript(s, length) PROVE TablesOK'
  BY <1>3, ReviseTables
<1>4. ASSUME NEW id \in Translations, NEW target \in Targets, NEW requestEpoch \in 1..epoch,
             NEW sources \in SourceChoices, NEW context \in ContextChoices,
             \/ RequestFirst(id, target, requestEpoch, sources, context)
             \/ RequestNextRevision(id, target, requestEpoch, sources, context)
      PROVE  TablesOK'
  BY <1>4, RequestTyped, StoreTables DEF RequestFirst, RequestNextRevision
<1>5. ASSUME NEW id \in Translations, RetryRequest(id) PROVE TablesOK'
  BY <1>5, RetryTyped, StoreTables DEF RetryRequest
<1>6. ASSUME NEW id \in Translations, NEW revision, NEW attempt,
             \/ FinishTranslation(id, revision, attempt)
             \/ FailTranslation(id, revision, attempt)
      PROVE  TablesOK'
  BY <1>6, CloseTables DEF FinishTranslation, FailTranslation
<1>7. ASSUME epoch < MaxEpoch, NEW targets \in TargetChoices, NEW start \in Segments \cup {0},
             ChangeDirectionAt(start, targets)
      PROVE  TablesOK'
  <2>1. /\ UNCHANGED <<captures, text, base, translations, Captured, Known>>
        /\ epoch' = epoch + 1
        /\ boundaries' = boundaries \cup
              {[epoch |-> epoch + 1, start |-> start, targets |-> targets]}
    BY <1>7 DEF ChangeDirectionAt, Captured, Known
  <2>2. epoch \in 1..MaxEpoch /\ epoch + 1 \in 1..MaxEpoch
    BY <1>7 DEF TablesOK
  <2>3. \A s \in Captured : captures[s].epoch \in 1..MaxEpoch
    BY DEF TablesOK, Direction
  <2>4. \A s \in Captured' : captures'[s].epoch <= epoch'
    BY <2>1, <2>2, <2>3 DEF TablesOK
  <2>5. start \in Nat /\ targets \in SUBSET Targets
    OBVIOUS
  <2>6. [epoch |-> epoch + 1, start |-> start, targets |-> targets]
          \in [epoch : 1..MaxEpoch, start : Nat, targets : SUBSET Targets]
    BY <2>2, <2>5
  <2>7. TextOK'
    BY <2>1 DEF TablesOK, TextOK
  <2>8. QED
    BY <1>0, <2>1, <2>2, <2>4, <2>6, <2>7 DEF TablesOK
<1>8. ASSUME epoch < MaxEpoch, NEW targets \in TargetChoices, ChangeDirectionRetroactively(targets)
      PROVE  TablesOK'
  <2> DEFINE direction == [epoch |-> epoch + 1, origin |-> "retroactive", targets |-> targets]
  <2>1. /\ UNCHANGED <<text, boundaries>> /\ base' = direction
        /\ epoch' = epoch + 1
        /\ captures' = [s \in Captured |-> direction]
        /\ translations' = MakeStale(Known)
    BY <1>8 DEF ChangeDirectionRetroactively
  <2>2. epoch' \in 1..MaxEpoch
    BY <1>8, <2>1 DEF TablesOK
  <2>3. direction \in Direction /\ direction.epoch = epoch'
    BY <2>1, <2>2 DEF Direction
  <2> HIDE DEF direction
  <2>4. captures' \in [Captured' -> Direction] /\ Captured' = Captured
    BY <2>1, <2>3 DEF Captured
  <2>5. translations' \in [Known' -> Attempt] /\ Known' = Known
    BY <2>1, StaleTyped DEF MakeStale, Known
  <2>6. \A s \in Captured' : captures'[s].epoch <= epoch'
    <3>1. \A s \in Captured' : captures'[s] = direction
      BY <2>1, <2>4
    <3>2. QED
      BY <2>2, <2>3, <3>1
  <2>7. TextOK'
    BY <2>1, <2>4 DEF TablesOK, TextOK
  <2>8. QED
    BY <1>0, <2>1, <2>2, <2>3, <2>4, <2>5, <2>6, <2>7 DEF TablesOK
<1>9. CASE UNCHANGED vars
  <2>1. /\ UNCHANGED <<captures, text, epoch, base, boundaries, translations>>
        /\ UNCHANGED <<Captured, Known>>
    BY <1>9 DEF vars, Captured, Known
  <2>2. TextOK'
    BY <2>1 DEF TablesOK, TextOK
  <2>3. QED
    BY <1>0, <2>1, <2>2 DEF TablesOK
<1>10. QED
  BY <1>1, <1>2, <1>3, <1>4, <1>5, <1>6, <1>7, <1>8, <1>9 DEF Next

----------------------------------------------------------------------------
(* Rows. *)

Claims == {"requested", "final", "failed"}

(* A claimed row agrees with the attempt that owns it.                     *)
Backed(r) ==
  /\ r.state \in Claims =>
       /\ r.owner.id \in Known
       /\ r.owner = OwnerOf(r.owner.id, translations[r.owner.id])
       /\ r.state = translations[r.owner.id].state
       /\ r.target = translations[r.owner.id].target
       /\ \E span \in translations[r.owner.id].sources :
            /\ span.segment = r.segment /\ span.revision = r.revision
            /\ span.start <= r.start /\ r.end <= span.end
  /\ r.state = "pending" => r.owner = NoOwner

RowInv(r) ==
  /\ r \in Row
  /\ RowOK(r)
  /\ (r.state = "stale") <=> ~IsCurrentRow(r, captures, text)
  /\ Backed(r)

RowsInv == \A r \in coverage : RowInv(r)

(* Two rows of the same part of the same text.                             *)
SamePlace(p, r) ==
  /\ p.segment = r.segment /\ p.revision = r.revision
  /\ p.target = r.target /\ p.epoch = r.epoch
  /\ p.start = r.start /\ p.end = r.end

Within(p, r) ==
  /\ p.segment = r.segment /\ p.revision = r.revision
  /\ p.target = r.target /\ p.epoch = r.epoch
  /\ r.start <= p.start /\ p.start < p.end /\ p.end <= r.end

(* What a claim makes of a row: the claimed parts, and remainders.         *)
LEMMA ClaimedPart ==
  ASSUME NEW r \in Row, NEW t, NEW owner \in Owner, NEW span \in Taken(r, t), t.sources \subseteq Span,
         r.start < r.end, span.start < span.end
  PROVE  LET p == Claimed(r, span, owner)
         IN /\ p \in Row /\ Within(p, r)
            /\ p.state = "requested" /\ p.owner = owner
            /\ span.start <= p.start /\ p.end <= span.end
            /\ \A b \in Nat : (p.start <= b /\ b < p.end) <=>
                 (r.start <= b /\ b < r.end /\ span.start <= b /\ b < span.end)
<1> DEFINE start == Later(r.start, span.start)
           end == Earlier(r.end, span.end)
<1>1. /\ r.start \in Nat /\ r.end \in Nat /\ span.start \in Nat /\ span.end \in Nat
      /\ r.start < span.end /\ span.start < r.end
  BY DEF Row, Span, Taken, Touches
<1>2. /\ start \in Nat /\ end \in Nat /\ start < end
      /\ r.start <= start /\ end <= r.end /\ span.start <= start /\ end <= span.end
      /\ \A b \in Nat : (start <= b /\ b < end) <=>
           (r.start <= b /\ b < r.end /\ span.start <= b /\ b < span.end)
  BY <1>1 DEF Later, Earlier
<1> HIDE DEF start, end
<1>3. "requested" \in RowStates
  BY DEF RowStates
<1> DEFINE q == Piece(r, start, end, "requested", owner)
<1>4. /\ q \in Row
      /\ q.segment = r.segment /\ q.revision = r.revision
      /\ q.target = r.target /\ q.epoch = r.epoch
      /\ q.start = start /\ q.end = end /\ q.state = "requested" /\ q.owner = owner
  BY <1>2, <1>3, PieceTyped
<1>5. Claimed(r, span, owner) = q
  BY DEF Claimed, start, end
<1> HIDE DEF q
<1>6. QED
  BY <1>2, <1>4, <1>5 DEF Within

(* What a request leaves of a row lies within the row.                     *)
LEMMA RemainingPart ==
  ASSUME NEW r \in Row, NEW t, t.sources \subseteq Span,
         NEW a \in Heads(r, Taken(r, t)), NEW b \in Tails(r, Taken(r, t)),
         Between(r, Taken(r, t), a, b)
  PROVE  LET p == Piece(r, a, b, r.state, r.owner)
         IN /\ a \in Nat /\ b \in Nat
            /\ p \in Row /\ Within(p, r)
            /\ p.state = r.state /\ p.owner = r.owner
            /\ p.start = a /\ p.end = b
<1>1. a \in Nat /\ b \in Nat
  BY DEF Heads, Tails, Taken, Row, Span
<1>2. r.state \in RowStates /\ r.owner \in Owner
  BY DEF Row, RowStates
<1> DEFINE q == Piece(r, a, b, r.state, r.owner)
<1>3. /\ q \in Row
      /\ q.segment = r.segment /\ q.revision = r.revision
      /\ q.target = r.target /\ q.epoch = r.epoch
      /\ q.start = a /\ q.end = b /\ q.state = r.state /\ q.owner = r.owner
  BY <1>1, <1>2, PieceTyped
<1> HIDE DEF q
<1>4. Within(q, r)
  BY <1>3 DEF Within, Between
<1>5. QED
  BY <1>1, <1>3, <1>4 DEF q

(* The parts of a row, case by case.                                       *)
LEMMA PartCases ==
  ASSUME NEW r, NEW t, NEW owner, NEW p \in PartsOf(r, t, owner)
  PROVE  \/ \E span \in Taken(r, t) : p = Claimed(r, span, owner)
         \/ \E a \in Heads(r, Taken(r, t)) : \E b \in Tails(r, Taken(r, t)) :
              p = Piece(r, a, b, r.state, r.owner) /\ Between(r, Taken(r, t), a, b)
  BY DEF PartsOf

(* Each part the definition of Claim cuts is a part of the row.            *)
LEMMA PartIntro ==
  ASSUME NEW r, NEW t, NEW owner
  PROVE  /\ \A span \in Taken(r, t) : Claimed(r, span, owner) \in PartsOf(r, t, owner)
         /\ \A a \in Heads(r, Taken(r, t)) : \A b \in Tails(r, Taken(r, t)) :
              Between(r, Taken(r, t), a, b) =>
                Piece(r, a, b, r.state, r.owner) \in PartsOf(r, t, owner)
  BY DEF PartsOf

(* A row from which nothing is taken stays.                                *)
LEMMA Untaken ==
  ASSUME NEW r \in Row, NEW t, NEW owner, Taken(r, t) = {}, r.start < r.end
  PROVE  PartsOf(r, t, owner) = {r}
<1>1. Heads(r, {}) = {r.start} /\ Tails(r, {}) = {r.end}
  BY DEF Heads, Tails
<1>2. r.start \in Nat /\ r.end \in Nat
  BY DEF Row
<1>3. Between(r, {}, r.start, r.end)
  BY <1>2 DEF Between
<1>4. Piece(r, r.start, r.end, r.state, r.owner) = r
  BY DEF Piece, Row
<1>5. \A p \in PartsOf(r, t, owner) : p = r
  BY <1>1, <1>4, PartCases
<1>6. r \in PartsOf(r, t, owner)
  BY <1>1, <1>3, <1>4, PartIntro
<1>7. QED
  BY <1>5, <1>6

(* What a release does to one row.                                         *)
IsReleased(r, ids) == r.owner.id \in ids /\ r.owner.revision = translations[r.owner.id].revision

FreedRow(r, ids, directions, texts) ==
  IF IsReleased(r, ids)
  THEN Piece(r, r.start, r.end,
             IF IsCurrentRow(r, directions, texts) THEN "pending" ELSE "stale", NoOwner)
  ELSE r

(* A release frees row by row.                                             *)
LEMMA ReleaseByRow ==
  ASSUME NEW rows, NEW ids, NEW directions, NEW texts
  PROVE  Release(rows, ids, directions, texts) =
           {FreedRow(r, ids, directions, texts) : r \in rows}
  BY DEF Release, FreedRow, IsReleased

(* A freed row is in its place, without an owner, and pending only if it   *)
(* is current.                                                             *)
LEMMA FreedTyped ==
  ASSUME NEW r \in Row, NEW ids, NEW directions, NEW texts
  PROVE  LET q == FreedRow(r, ids, directions, texts)
         IN /\ q \in Row /\ SamePlace(q, r)
            /\ IsReleased(r, ids) =>
                 /\ q.owner = NoOwner
                 /\ q.state = IF IsCurrentRow(r, directions, texts) THEN "pending" ELSE "stale"
            /\ ~IsReleased(r, ids) => q = r
<1> DEFINE state == IF IsCurrentRow(r, directions, texts) THEN "pending" ELSE "stale"
           p == Piece(r, r.start, r.end, state, NoOwner)
<1>1. state \in RowStates /\ r.start \in Nat /\ r.end \in Nat
  BY DEF RowStates, Row
<1> HIDE DEF state
<1>2. /\ p \in Row
      /\ p.segment = r.segment /\ p.revision = r.revision
      /\ p.target = r.target /\ p.epoch = r.epoch
      /\ p.start = r.start /\ p.end = r.end /\ p.state = state /\ p.owner = NoOwner
  BY <1>1, PieceTyped, NobodyTyped
<1>3. FreedRow(r, ids, directions, texts) = IF IsReleased(r, ids) THEN p ELSE r
  BY DEF FreedRow, state
<1> HIDE DEF p
<1>4. QED
  BY <1>2, <1>3 DEF SamePlace, state

(* The key of a row decides whether it is current.                         *)
LEMMA CurrentByKey ==
  ASSUME NEW p, NEW r, p.segment = r.segment, p.revision = r.revision, p.epoch = r.epoch,
         NEW directions, NEW texts
  PROVE  IsCurrentRow(p, directions, texts) <=> IsCurrentRow(r, directions, texts)
  BY DEF IsCurrentRow

(* Released for a request of its own, a translation owns no claimed row.   *)
LEMMA ReleasedForRequest ==
  ASSUME TablesOK, RowsInv, NEW id \in Known,
         NEW q \in Release(coverage, {id}, captures, text)
  PROVE  RowInv(q) /\ (q.state \in Claims => q.owner.id # id)
<1>1. PICK r \in coverage : q = FreedRow(r, {id}, captures, text)
  BY ReleaseByRow
<1>2. RowInv(r)
  BY DEF RowsInv
<1>3. /\ q \in Row /\ SamePlace(q, r)
      /\ IsReleased(r, {id}) =>
           /\ q.owner = NoOwner
           /\ q.state = IF IsCurrentRow(r, captures, text) THEN "pending" ELSE "stale"
      /\ ~IsReleased(r, {id}) => q = r
  BY <1>1, <1>2, FreedTyped DEF RowInv
<1>4. CASE IsReleased(r, {id})
  <2>1. RowOK(q)
    BY <1>2, <1>3 DEF RowInv, RowOK, SamePlace
  <2>2. IsCurrentRow(q, captures, text) <=> IsCurrentRow(r, captures, text)
    BY <1>3, CurrentByKey DEF SamePlace
  <2>3. (q.state = "stale") <=> ~IsCurrentRow(q, captures, text)
    BY <1>3, <1>4, <2>2
  <2>4. q.state \notin Claims /\ Backed(q)
    BY <1>3, <1>4 DEF Backed, Claims
  <2>5. QED
    BY <1>3, <2>1, <2>3, <2>4 DEF RowInv
<1>5. CASE ~IsReleased(r, {id})
  <2>1. q = r
    BY <1>3, <1>5
  <2>2. ASSUME r.state \in Claims, r.owner.id = id PROVE FALSE
    <3>1. r.owner = OwnerOf(id, translations[id])
      BY <1>2, <2>2 DEF RowInv, Backed
    <3>2. QED
      BY <1>5, <2>2, <3>1 DEF IsReleased, OwnerOf
  <2>3. QED
    BY <1>2, <2>1, <2>2
<1>6. QED
  BY <1>4, <1>5

(* A request claims rows that nobody owns, and leaves those of others.     *)
LEMMA StoreRows ==
  ASSUME TablesOK, NEW id \in Translations, NEW rows,
         \A q \in rows : RowInv(q) /\ (q.state \in Claims => q.owner.id # id),
         NEW t \in Attempt, t.state = "requested",
         ValidRequest(t), StoreRequest(id, t, rows)
  PROVE  RowsInv'
<1> DEFINE owner == OwnerOf(id, t)
<1>1. /\ UNCHANGED <<captures, text, Captured>>
      /\ Known' = Known \cup {id}
      /\ \A x \in Known' : translations'[x] = IF x = id THEN t ELSE translations[x]
      /\ coverage' = Claim(rows, id, t)
      /\ \A span \in t.sources : Claimable(rows, span, t)
  BY DEF StoreRequest, directionVars, Captured, Known
<1>2. owner \in Owner /\ owner.id = id /\ t.sources \subseteq Span
  <2>1. t.revision \in 0..MaxRequest /\ t.attempt \in 0..MaxAttempt /\ t.sources \subseteq Span
    BY CoverageAssumption DEF Attempt
  <2>2. QED
    BY <2>1 DEF OwnerOf, Owner
<1>3. ASSUME NEW p \in coverage' PROVE RowInv(p)'
  <2>1. PICK q \in rows : p \in PartsOf(q, t, owner)
    BY <1>1 DEF Claim
  <2>2. RowInv(q) /\ (q.state \in Claims => q.owner.id # id) /\ q \in Row /\ q.start < q.end
    BY DEF RowInv, RowOK
  <2>3. ASSUME Within(p, q), p \in Row PROVE RowOK(p)'
    BY <1>1, <2>2, <2>3 DEF RowOK, Within, RowInv
  <2>4. ASSUME Within(p, q)
        PROVE  IsCurrentRow(p, captures, text)' <=> IsCurrentRow(q, captures, text)
    BY <1>1, <2>4 DEF IsCurrentRow, Within
  <2>5. ASSUME NEW span \in Taken(q, t), p = Claimed(q, span, owner) PROVE RowInv(p)'
    <3>1. span \in t.sources /\ span.start < span.end /\ Touches(q, span, t)
      BY <2>5 DEF Taken, ValidRequest, WellFormedSpans, SpansOf
    <3>2. q.state = "pending"
      BY <1>1, <3>1 DEF Claimable, Touched
    <3>3. /\ p \in Row /\ Within(p, q)
          /\ p.state = "requested" /\ p.owner = owner
          /\ span.start <= p.start /\ p.end <= span.end
      BY <1>2, <2>2, <2>5, <3>1, ClaimedPart
    <3>4. IsCurrentRow(p, captures, text)'
      BY <2>2, <2>4, <3>2, <3>3 DEF RowInv
    <3>5. /\ p.segment = span.segment /\ p.revision = span.revision /\ p.target = t.target
      BY <3>1, <3>3 DEF Within, Touches
    <3>6. Backed(p)'
      BY <1>1, <1>2, <3>1, <3>3, <3>5 DEF Backed, OwnerOf
    <3>7. QED
      BY <2>3, <3>3, <3>4, <3>6 DEF RowInv
  <2>6. ASSUME NEW a \in Heads(q, Taken(q, t)), NEW b \in Tails(q, Taken(q, t)),
               p = Piece(q, a, b, q.state, q.owner), Between(q, Taken(q, t), a, b)
        PROVE  RowInv(p)'
    <3>1. p \in Row /\ Within(p, q) /\ p.state = q.state /\ p.owner = q.owner
      BY <1>2, <2>2, <2>6, RemainingPart
    <3>2. (p.state = "stale") <=> ~IsCurrentRow(p, captures, text)'
      BY <2>2, <2>4, <3>1 DEF RowInv
    <3>3. ASSUME q.state \in Claims PROVE Backed(p)'
      <4>1. PICK span \in translations[q.owner.id].sources :
               /\ span.segment = q.segment /\ span.revision = q.revision
               /\ span.start <= q.start /\ q.end <= span.end
        BY <2>2, <3>3 DEF RowInv, Backed
      <4>2. q.owner.id \in Known /\ q.owner.id # id
        BY <2>2, <3>3 DEF RowInv, Backed
      <4>3. translations'[q.owner.id] = translations[q.owner.id]
        BY <1>1, <4>2
      <4>4. span.start <= p.start /\ p.end <= span.end
        <5>1. span \in Span
          BY <4>1, <4>2 DEF TablesOK, Attempt
        <5>2. QED
          BY <4>1, <5>1, <2>2, <3>1 DEF Within, Row, Span
      <4>5. QED
        BY <1>1, <2>2, <3>1, <3>3, <4>1, <4>2, <4>3, <4>4
        DEF Backed, RowInv, Within, OwnerOf, Claims
    <3>4. ASSUME q.state \notin Claims PROVE Backed(p)'
      BY <2>2, <3>1, <3>4 DEF Backed, RowInv
    <3>5. QED
      BY <2>3, <3>1, <3>2, <3>3, <3>4 DEF RowInv
  <2>7. QED
    BY <2>1, <2>5, <2>6, PartCases
<1>4. QED
  BY <1>3 DEF RowsInv

(* The rows of a text that was just stored, or is translated anew.         *)
LEMMA FreshRowInv ==
  ASSUME TablesOK', NEW s \in Captured', NEW r \in FreshRows(s, captures'[s], text'[s])
  PROVE  RowInv(r)' /\ r.state = "pending"
<1>1. captures'[s] \in Direction /\ text'[s] \in Text /\ s \in Segments
  BY DEF TablesOK
<1>2. text'[s].status = "success" => text'[s].revision # 0 /\ text'[s].length # 0
  BY <1>1 DEF TablesOK, TextOK
<1>3. /\ r \in Row /\ r.segment = s /\ r.revision = text'[s].revision
      /\ r.epoch = captures'[s].epoch /\ r.start < r.end
      /\ r.state = "pending" /\ r.owner = NoOwner /\ text'[s].status = "success"
  BY <1>1, <1>2, FreshTyped
<1>4. text'[s].revision \in Int /\ captures'[s].epoch \in Int
  BY <1>1, CoverageAssumption DEF Text, Direction
<1>5. RowOK(r)'
  BY <1>3, <1>4 DEF RowOK
<1>6. IsCurrentRow(r, captures, text)'
  BY <1>3 DEF IsCurrentRow
<1>7. Backed(r)'
  BY <1>3 DEF Backed, Claims
<1>8. QED
  BY <1>3, <1>5, <1>6, <1>7 DEF RowInv

(* The numbers a row is compared by.                                       *)
LEMMA RowNumbers ==
  ASSUME TablesOK, NEW r \in Row
  PROVE  /\ r.revision \in Int /\ r.epoch \in Int /\ r.segment \in Segments
         /\ text[r.segment].revision \in Int /\ epoch \in Int
         /\ r.segment \in Captured => captures[r.segment].epoch \in Int
<1>1. r.revision \in 1..MaxRevision /\ r.epoch \in 1..MaxEpoch /\ r.segment \in Segments
  BY DEF Row
<1>2. text[r.segment] \in Text /\ (r.segment \in Captured => captures[r.segment] \in Direction)
  BY <1>1 DEF TablesOK
<1>3. QED
  BY <1>1, <1>2, CoverageAssumption DEF Text, Direction, TablesOK

(* A final text keeps what is said of each row:                            *)
LEMMA FinalRows ==
  ASSUME TablesOK, TablesOK', RowsInv, NEW s \in Segments, NEW status, NEW length, NEW finalEpoch,
         NEW finalTargets, IngestFinal(s, status, length, finalEpoch, finalTargets)
  PROVE  RowsInv'
<1>1. /\ s \in Captured /\ text[s].status # "success"
      /\ UNCHANGED <<captures, translations, Captured, Known>>
      /\ text'[s].revision = text[s].revision + 1
      /\ \A x \in Segments : x # s => text'[x] = text[x]
      /\ coverage' = coverage \cup FreshRows(s, captures'[s], text'[s])
  BY DEF IngestFinal, directionVars, Captured, Known, TablesOK
<1>2. ASSUME NEW r \in coverage PROVE RowInv(r)'
  <2>1. RowInv(r) /\ r \in Row
    BY DEF RowsInv, RowInv
  <2>2. Backed(r)'
    BY <1>1, <2>1 DEF RowInv, Backed
  <2>3. CASE r.segment = s
    <3>1. r.revision < text[s].revision
      BY <1>1, <2>1, <2>3, RowNumbers DEF RowInv, RowOK
    <3>2. ~IsCurrentRow(r, captures, text) /\ ~IsCurrentRow(r, captures, text)'
      BY <1>1, <2>1, <2>3, <3>1, RowNumbers DEF IsCurrentRow
    <3>3. RowOK(r)'
      BY <1>1, <2>1, <2>3, <3>1, RowNumbers DEF RowInv, RowOK
    <3>4. QED
      BY <2>1, <2>2, <3>2, <3>3 DEF RowInv
  <2>4. CASE r.segment # s
    <3>1. text'[r.segment] = text[r.segment]
      BY <1>1, <2>1, <2>4 DEF Row
    <3>2. RowOK(r)'
      BY <1>1, <2>1, <3>1 DEF RowInv, RowOK
    <3>3. IsCurrentRow(r, captures, text)' <=> IsCurrentRow(r, captures, text)
      BY <1>1, <3>1 DEF IsCurrentRow
    <3>4. QED
      BY <2>1, <2>2, <3>2, <3>3 DEF RowInv
  <2>5. QED
    BY <2>3, <2>4
<1>3. \A r \in FreshRows(s, captures'[s], text'[s]) : RowInv(r)'
  BY <1>1, FreshRowInv
<1>4. QED
  BY <1>1, <1>2, <1>3 DEF RowsInv

(* A row of a text that is corrected, or owned by a translation of it.     *)
Outdated(r, s, old) == r.segment = s /\ r.revision = old
OutdatedRow(r, s, old) == IF Outdated(r, s, old) THEN [r EXCEPT !.state = "stale"] ELSE r

(* an outdated row is in its place, and stale.                             *)
LEMMA OutdatedTyped ==
  ASSUME NEW r \in Row, NEW s, NEW old
  PROVE  LET q == OutdatedRow(r, s, old)
         IN /\ q \in Row /\ SamePlace(q, r) /\ q.owner = r.owner
            /\ Outdated(r, s, old) => q.state = "stale"
            /\ ~Outdated(r, s, old) => q = r
<1> DEFINE p == [r EXCEPT !.state = "stale"]
<1>1. /\ p \in Row
      /\ p.segment = r.segment /\ p.revision = r.revision
      /\ p.target = r.target /\ p.epoch = r.epoch
      /\ p.start = r.start /\ p.end = r.end /\ p.state = "stale" /\ p.owner = r.owner
  BY StateTyped DEF RowStates
<1>2. OutdatedRow(r, s, old) = IF Outdated(r, s, old) THEN p ELSE r
  BY DEF OutdatedRow
<1> HIDE DEF p
<1>3. QED
  BY <1>1, <1>2 DEF SamePlace

(* What a correction leaves of coverage.                                   *)
LEMMA ReviseFacts ==
  ASSUME TablesOK, NEW s \in Segments, NEW length, ReviseTranscript(s, length)
  PROVE  LET old == text[s].revision
             users == UsersOfSource(s, old)
         IN /\ s \in Captured
            /\ UNCHANGED <<captures, Captured, Known>>
            /\ text'[s].revision = old + 1 /\ text'[s].status = "success"
            /\ \A x \in Segments : x # s => text'[x] = text[x]
            /\ users \subseteq Known
            /\ \A x \in Known \ users : translations'[x] = translations[x]
            /\ \A x \in users : translations'[x].state = "stale"
            /\ coverage' = {FreedRow(OutdatedRow(r, s, old), users, captures', text') : r \in coverage}
                             \cup FreshRows(s, captures'[s], text'[s])
<1> DEFINE old == text[s].revision
           users == UsersOfSource(s, old)
           staleRows == {OutdatedRow(r, s, old) : r \in coverage}
<1>1. /\ s \in Captured
      /\ UNCHANGED <<captures, Captured>>
      /\ text'[s].revision = old + 1 /\ text'[s].status = "success"
      /\ \A x \in Segments : x # s => text'[x] = text[x]
      /\ translations' = MakeStale(users)
      /\ coverage' = Release(staleRows, users, captures', text')
                       \cup FreshRows(s, captures'[s], text'[s])
  BY DEF ReviseTranscript, directionVars, Captured, TablesOK, OutdatedRow, Outdated
<1>2. users \subseteq Known
  BY DEF UsersOfSource
<1>3. Known' = Known
  BY <1>1 DEF MakeStale, Known
<1>4. /\ \A x \in Known \ users : translations'[x] = translations[x]
      /\ \A x \in users : translations'[x].state = "stale"
  BY <1>1, <1>2, StaleTyped
<1> HIDE DEF users, old
<1>5. Release(staleRows, users, captures', text')
        = {FreedRow(q, users, captures', text') : q \in staleRows}
  BY ReleaseByRow
<1>6. {FreedRow(q, users, captures', text') : q \in staleRows}
        = {FreedRow(OutdatedRow(r, s, old), users, captures', text') : r \in coverage}
  OBVIOUS
<1>7. QED
  BY <1>1, <1>2, <1>3, <1>4, <1>5, <1>6 DEF users, old

(* A revision keeps it,                                                    *)
LEMMA ReviseRows ==
  ASSUME TablesOK, TablesOK', RowsInv, NEW s \in Segments, NEW length, ReviseTranscript(s, length)
  PROVE  RowsInv'
<1> DEFINE old == text[s].revision
           users == UsersOfSource(s, old)
           rest == {FreedRow(OutdatedRow(r, s, old), users, captures', text') : r \in coverage}
<1>1. /\ s \in Captured
      /\ UNCHANGED <<captures, Captured, Known>>
      /\ text'[s].revision = old + 1 /\ text'[s].status = "success"
      /\ \A x \in Segments : x # s => text'[x] = text[x]
      /\ users \subseteq Known
      /\ \A x \in Known \ users : translations'[x] = translations[x]
      /\ coverage' = rest \cup FreshRows(s, captures'[s], text'[s])
  BY ReviseFacts
<1> HIDE DEF users
<1>2. ASSUME NEW r \in coverage, NEW q, q = OutdatedRow(r, s, old),
             NEW p, p = FreedRow(q, users, captures', text')
      PROVE  RowInv(p)'
  <2>1. RowInv(r) /\ r \in Row
    BY DEF RowsInv, RowInv
  <2>2. /\ q \in Row /\ SamePlace(q, r) /\ q.owner = r.owner
        /\ Outdated(r, s, old) => q.state = "stale"
        /\ ~Outdated(r, s, old) => q = r
    BY <1>2, <2>1, OutdatedTyped
  <2>3. /\ p \in Row /\ SamePlace(p, q)
        /\ IsReleased(q, users) =>
             /\ p.owner = NoOwner
             /\ p.state = IF IsCurrentRow(q, captures', text') THEN "pending" ELSE "stale"
        /\ ~IsReleased(q, users) => p = q
    BY <1>2, <2>2, FreedTyped
  <2>4. SamePlace(p, r)
    BY <2>2, <2>3 DEF SamePlace
  <2>5. RowOK(p)'
    <3>1. CASE r.segment = s
      BY <1>1, <2>1, <2>4, <3>1, RowNumbers DEF RowInv, RowOK, SamePlace
    <3>2. CASE r.segment # s
      <4>1. text'[r.segment] = text[r.segment]
        BY <1>1, <2>1, <3>2 DEF Row
      <4>2. QED
        BY <1>1, <2>1, <2>4, <4>1 DEF RowInv, RowOK, SamePlace
    <3>3. QED
      BY <3>1, <3>2
  <2>6. (p.state = "stale") <=> ~IsCurrentRow(p, captures, text)'
    <3>1. CASE IsReleased(q, users)
      <4>1. IsCurrentRow(p, captures', text') <=> IsCurrentRow(q, captures', text')
        BY <2>3, CurrentByKey DEF SamePlace
      <4>2. QED
        BY <2>3, <3>1, <4>1
    <3>2. CASE ~IsReleased(q, users) /\ Outdated(r, s, old)
      <4>1. ~IsCurrentRow(p, captures, text)'
        BY <1>1, <2>1, <2>4, <3>2, RowNumbers DEF IsCurrentRow, SamePlace, Outdated
      <4>2. QED
        BY <2>2, <2>3, <3>2, <4>1
    <3>3. CASE ~IsReleased(q, users) /\ ~Outdated(r, s, old)
      <4>1. p = r
        BY <2>2, <2>3, <3>3
      <4>2. IsCurrentRow(r, captures, text)' <=> IsCurrentRow(r, captures, text)
        <5>1. CASE r.segment = s
          BY <1>1, <2>1, <3>3, <5>1, RowNumbers DEF IsCurrentRow, Outdated, RowInv, RowOK
        <5>2. CASE r.segment # s
          BY <1>1, <2>1, <5>2 DEF IsCurrentRow, Row
        <5>3. QED
          BY <5>1, <5>2
      <4>3. QED
        BY <2>1, <4>1, <4>2 DEF RowInv
    <3>4. QED
      BY <3>1, <3>2, <3>3
  <2>7. Backed(p)'
    <3>1. CASE IsReleased(q, users)
      BY <2>3, <3>1 DEF Backed, Claims
    <3>2. CASE ~IsReleased(q, users) /\ Outdated(r, s, old)
      BY <2>2, <2>3, <3>2 DEF Backed, Claims
    <3>3. CASE ~IsReleased(q, users) /\ ~Outdated(r, s, old)
      <4>1. p = r /\ ~IsReleased(r, users)
        BY <2>2, <2>3, <3>3
      <4>2. ASSUME r.state \in Claims PROVE Backed(r)'
        <5>1. /\ r.owner.id \in Known
              /\ r.owner = OwnerOf(r.owner.id, translations[r.owner.id])
          BY <2>1, <4>2 DEF RowInv, Backed
        <5>2. r.owner.revision = translations[r.owner.id].revision
          BY <5>1 DEF OwnerOf
        <5>3. r.owner.id \notin users
          BY <4>1, <5>2 DEF IsReleased
        <5>4. translations'[r.owner.id] = translations[r.owner.id]
          BY <1>1, <5>1, <5>3
        <5>5. QED
          BY <1>1, <2>1, <4>2, <5>4 DEF RowInv, Backed, OwnerOf
      <4>3. ASSUME r.state \notin Claims PROVE Backed(r)'
        BY <2>1, <4>3 DEF RowInv, Backed
      <4>4. QED
        BY <4>1, <4>2, <4>3
    <3>4. QED
      BY <3>1, <3>2, <3>3
  <2>8. QED
    BY <2>3, <2>5, <2>6, <2>7 DEF RowInv
<1>3. \A r \in FreshRows(s, captures'[s], text'[s]) : RowInv(r)'
  BY <1>1, FreshRowInv
<1>4. ASSUME NEW p \in coverage' PROVE RowInv(p)'
  <2>1. CASE p \in rest
    BY <1>2, <2>1
  <2>2. CASE p \notin rest
    BY <1>1, <1>3, <2>2
  <2>3. QED
    BY <2>1, <2>2
<1>5. QED
  BY <1>4 DEF RowsInv

(* A result closes the attempt and the rows it owns.                       *)
LEMMA CloseFacts ==
  ASSUME TablesOK, RowsInv, NEW id, NEW revision, NEW attempt, NEW outcome \in {"final", "failed"},
         CloseAttempt(id, revision, attempt, outcome)
  PROVE  LET owner == [id |-> id, revision |-> revision, attempt |-> attempt]
         IN /\ UNCHANGED <<captures, text, Captured, Known>>
            /\ id \in Known /\ owner = OwnerOf(id, translations[id])
            /\ translations[id].state = "requested" /\ translations'[id].state = outcome
            /\ OwnerOf(id, translations'[id]) = OwnerOf(id, translations[id])
            /\ translations'[id].target = translations[id].target
            /\ translations'[id].sources = translations[id].sources
            /\ \A x \in Known : x # id => translations'[x] = translations[x]
            /\ \A p : p \in coverage' <=>
                 \E r \in coverage :
                   /\ p \in Row /\ SamePlace(p, r) /\ p.owner = r.owner
                   /\ IF r.owner = owner /\ r.state = "requested" THEN p.state = outcome ELSE p = r
<1> DEFINE owner == [id |-> id, revision |-> revision, attempt |-> attempt]
           closed(r) == r.owner = owner /\ r.state = "requested"
           new(r) == IF closed(r) THEN [r EXCEPT !.state = outcome] ELSE r
<1>1. /\ UNCHANGED <<captures, text, Captured>>
      /\ id \in Known /\ translations[id].revision = revision
      /\ translations[id].attempt = attempt /\ translations[id].state = "requested"
      /\ translations' = [translations EXCEPT ![id].state = outcome]
      /\ coverage' = {new(r) : r \in coverage}
  BY DEF CloseAttempt, Fence, Owned, directionVars, Captured
<1>2. owner = OwnerOf(id, translations[id])
  BY <1>1 DEF OwnerOf
<1>3. /\ translations'[id] = [translations[id] EXCEPT !.state = outcome]
      /\ Known' = Known
      /\ \A x \in Known : x # id => translations'[x] = translations[x]
  BY <1>1 DEF Known, TablesOK
<1>4. /\ translations'[id].state = outcome
      /\ translations'[id].revision = translations[id].revision
      /\ translations'[id].attempt = translations[id].attempt
      /\ translations'[id].target = translations[id].target
      /\ translations'[id].sources = translations[id].sources
  BY <1>1, <1>3, AttemptState DEF TablesOK
<1>5. OwnerOf(id, translations'[id]) = OwnerOf(id, translations[id])
  BY <1>4 DEF OwnerOf
<1>6. ASSUME NEW r \in coverage
      PROVE  \A p : p = new(r) <=>
                      /\ p \in Row /\ SamePlace(p, r) /\ p.owner = r.owner
                      /\ IF closed(r) THEN p.state = outcome ELSE p = r
  <2>1. r \in Row /\ outcome \in RowStates
    BY DEF RowsInv, RowInv, RowStates
  <2> DEFINE q == [r EXCEPT !.state = outcome]
  <2>2. /\ q \in Row
        /\ q.segment = r.segment /\ q.revision = r.revision
        /\ q.target = r.target /\ q.epoch = r.epoch
        /\ q.start = r.start /\ q.end = r.end /\ q.state = outcome /\ q.owner = r.owner
    BY <2>1, StateTyped
  <2>3. new(r) = IF closed(r) THEN q ELSE r
    OBVIOUS
  <2>4. ASSUME NEW p \in Row, SamePlace(p, r), p.owner = r.owner, p.state = outcome PROVE p = q
    BY <2>1, <2>2, <2>4 DEF SamePlace, Row
  <2> HIDE DEF q, closed, new
  <2>5. QED
    BY <2>1, <2>2, <2>3, <2>4 DEF SamePlace
<1>7. \A p : p \in coverage' <=> \E r \in coverage : p = new(r)
  BY <1>1
<1> HIDE DEF new
<1>8. \A p : p \in coverage' <=>
        \E r \in coverage :
          /\ p \in Row /\ SamePlace(p, r) /\ p.owner = r.owner
          /\ IF closed(r) THEN p.state = outcome ELSE p = r
  BY <1>6, <1>7
<1>9. QED
  BY <1>1, <1>2, <1>3, <1>4, <1>5, <1>8

(* so does the end of an attempt,                                          *)
LEMMA CloseRows ==
  ASSUME TablesOK, RowsInv, NEW id, NEW revision, NEW attempt, NEW outcome \in {"final", "failed"},
         CloseAttempt(id, revision, attempt, outcome)
  PROVE  RowsInv'
<1> DEFINE owner == [id |-> id, revision |-> revision, attempt |-> attempt]
<1>1. /\ UNCHANGED <<captures, text, Captured, Known>>
      /\ id \in Known /\ owner = OwnerOf(id, translations[id])
      /\ translations[id].state = "requested" /\ translations'[id].state = outcome
      /\ OwnerOf(id, translations'[id]) = OwnerOf(id, translations[id])
      /\ translations'[id].target = translations[id].target
      /\ translations'[id].sources = translations[id].sources
      /\ \A x \in Known : x # id => translations'[x] = translations[x]
      /\ \A p : p \in coverage' <=>
           \E r \in coverage :
             /\ p \in Row /\ SamePlace(p, r) /\ p.owner = r.owner
             /\ IF r.owner = owner /\ r.state = "requested" THEN p.state = outcome ELSE p = r
  BY CloseFacts
<1>2. owner.id = id
  OBVIOUS
<1> HIDE DEF owner
<1>3. ASSUME NEW p \in coverage' PROVE RowInv(p)'
  <2>1. PICK r \in coverage :
          /\ p \in Row /\ SamePlace(p, r) /\ p.owner = r.owner
          /\ IF r.owner = owner /\ r.state = "requested" THEN p.state = outcome ELSE p = r
    BY <1>1
  <2>2. RowInv(r)
    BY DEF RowsInv
  <2>3. RowOK(p)'
    BY <1>1, <2>1, <2>2 DEF RowInv, RowOK, SamePlace
  <2>4. IsCurrentRow(p, captures, text)' <=> IsCurrentRow(r, captures, text)
    BY <1>1, <2>1 DEF IsCurrentRow, SamePlace
  <2>5. CASE r.owner = owner /\ r.state = "requested"
    <3>1. p.state = outcome /\ p.state \in Claims /\ p.state # "pending" /\ p.state # "stale"
      BY <2>1, <2>5 DEF Claims
    <3>2. /\ r.target = translations[id].target
          /\ \E span \in translations[id].sources :
                /\ span.segment = r.segment /\ span.revision = r.revision
                /\ span.start <= r.start /\ r.end <= span.end
      BY <1>2, <2>2, <2>5 DEF RowInv, Backed, Claims
    <3>3. Backed(p)'
      BY <1>1, <1>2, <2>1, <2>5, <3>1, <3>2 DEF Backed, SamePlace
    <3>4. QED
      BY <2>1, <2>2, <2>3, <2>4, <2>5, <3>1, <3>3 DEF RowInv
  <2>6. CASE ~(r.owner = owner /\ r.state = "requested")
    <3>1. p = r
      BY <2>1, <2>6
    <3>2. ASSUME r.state \in Claims PROVE Backed(r)'
      <4>1. /\ r.owner.id \in Known
            /\ r.owner = OwnerOf(r.owner.id, translations[r.owner.id])
            /\ r.state = translations[r.owner.id].state
        BY <2>2, <3>2 DEF RowInv, Backed
      <4>2. r.owner.id # id
        BY <1>1, <2>6, <4>1
      <4>3. translations'[r.owner.id] = translations[r.owner.id]
        BY <1>1, <4>1, <4>2
      <4>4. QED
        BY <1>1, <2>2, <3>2, <4>3 DEF RowInv, Backed, OwnerOf
    <3>3. ASSUME r.state \notin Claims PROVE Backed(r)'
      BY <2>2, <3>3 DEF RowInv, Backed
    <3>4. QED
      BY <2>2, <2>3, <2>4, <3>1, <3>2, <3>3 DEF RowInv
  <2>7. QED
    BY <2>5, <2>6
<1>4. QED
  BY <1>3 DEF RowsInv

(* A retroactive change outdates every row.                                *)
LEMMA RetroactiveFacts ==
  ASSUME TablesOK, RowsInv, NEW targets, ChangeDirectionRetroactively(targets)
  PROVE  /\ UNCHANGED <<text, Captured, Known>>
         /\ \A s \in Captured : captures'[s].epoch = epoch + 1
         /\ \A id \in Known : translations'[id].state = "stale"
         /\ \A p \in coverage' :
              \/ \E r \in coverage : p \in Row /\ SamePlace(p, r) /\ p.state = "stale"
              \/ \E s \in Captured : p \in FreshRows(s, captures'[s], text'[s])
         /\ \A s \in Captured : FreshRows(s, captures'[s], text'[s]) \subseteq coverage'
<1> DEFINE direction == [epoch |-> epoch + 1, origin |-> "retroactive", targets |-> targets]
<1>1. /\ captures' = [s \in Captured |-> direction] /\ text' = text
      /\ translations' = MakeStale(Known)
      /\ coverage' = {[r EXCEPT !.state = "stale"] : r \in coverage}
                      \cup UNION {FreshRows(s, direction, text[s]) : s \in Captured}
  BY DEF ChangeDirectionRetroactively
<1>2. direction.epoch = epoch + 1
  OBVIOUS
<1> HIDE DEF direction
<1>3. /\ UNCHANGED <<text, Captured>> /\ \A s \in Captured : captures'[s] = direction
  BY <1>1 DEF Captured
<1>4. Known' = Known /\ \A id \in Known : translations'[id].state = "stale"
  BY <1>1, StaleTyped DEF MakeStale, Known
<1>5. ASSUME NEW r \in coverage
      PROVE  LET p == [r EXCEPT !.state = "stale"]
             IN p \in Row /\ SamePlace(p, r) /\ p.state = "stale"
  <2>1. r \in Row /\ "stale" \in RowStates
    BY DEF RowsInv, RowInv, RowStates
  <2>2. QED
    BY <2>1, StateTyped DEF SamePlace
<1>6. ASSUME NEW p \in coverage'
      PROVE  \/ \E r \in coverage : p \in Row /\ SamePlace(p, r) /\ p.state = "stale"
             \/ \E s \in Captured : p \in FreshRows(s, captures'[s], text'[s])
  BY <1>1, <1>3, <1>5
<1>7. \A s \in Captured : FreshRows(s, captures'[s], text'[s]) \subseteq coverage'
  BY <1>1, <1>3
<1>8. QED
  BY <1>2, <1>3, <1>4, <1>6, <1>7

(* and a change of direction that reaches back.                            *)
LEMMA RetroactiveRows ==
  ASSUME TablesOK, TablesOK', RowsInv, NEW targets, ChangeDirectionRetroactively(targets)
  PROVE  RowsInv'
<1>1. ASSUME NEW p \in Row, NEW r \in coverage, SamePlace(p, r), p.state = "stale" PROVE RowInv(p)'
  <2>1. /\ UNCHANGED <<text, Captured>>
        /\ \A s \in Captured : captures'[s].epoch = epoch + 1
    BY RetroactiveFacts
  <2>2. RowInv(r) /\ r \in Row /\ r.segment \in Captured
    BY DEF RowsInv, RowInv, RowOK
  <2>3. r.epoch <= epoch
    BY <2>2, RowNumbers DEF RowInv, RowOK, TablesOK
  <2>4. RowOK(p)'
    BY <1>1, <2>1, <2>2, <2>3, RowNumbers DEF RowInv, RowOK, SamePlace
  <2>5. ~IsCurrentRow(p, captures, text)'
    BY <1>1, <2>1, <2>2, <2>3, RowNumbers DEF IsCurrentRow, SamePlace
  <2>6. Backed(p)'
    BY <1>1 DEF Backed, Claims
  <2>7. QED
    BY <1>1, <2>4, <2>5, <2>6 DEF RowInv
<1>2. \A s \in Captured' : \A p \in FreshRows(s, captures'[s], text'[s]) : RowInv(p)'
  BY FreshRowInv
<1>3. QED
  BY <1>1, <1>2, RetroactiveFacts DEF RowsInv

(* Every row stays current or stale, and agrees with its owner.            *)
LEMMA RowsStep ==
  ASSUME TablesOK, RowsInv, [Next]_vars PROVE RowsInv'
<1>0. TablesOK'
  BY TablesStep
<1>1. ASSUME NEW s \in Segments, RegisterCapture(s) PROVE RowsInv'
  <2>1. /\ UNCHANGED <<text, translations, coverage, Known>>
        /\ s \notin Captured
        /\ Captured' = Captured \cup {s}
        /\ \A x \in Captured : captures'[x] = captures[x]
    BY <1>1 DEF RegisterCapture, Captured, Known
  <2>2. ASSUME NEW r \in coverage PROVE RowInv(r)'
    <3>1. RowInv(r)
      BY DEF RowsInv
    <3>2. RowOK(r)' /\ (IsCurrentRow(r, captures, text)' <=> IsCurrentRow(r, captures, text))
      BY <2>1, <3>1 DEF RowInv, RowOK, IsCurrentRow
    <3>3. Backed(r)'
      BY <2>1, <3>1 DEF RowInv, Backed
    <3>4. QED
      BY <3>1, <3>2, <3>3 DEF RowInv
  <2>3. QED
    BY <2>1, <2>2 DEF RowsInv
<1>2. ASSUME NEW s \in Segments, NEW status, NEW length, NEW finalEpoch, NEW finalTargets,
             IngestFinal(s, status, length, finalEpoch, finalTargets)
      PROVE  RowsInv'
  BY <1>0, <1>2, FinalRows
<1>3. ASSUME NEW s \in Segments, NEW length, ReviseTranscript(s, length) PROVE RowsInv'
  BY <1>0, <1>3, ReviseRows
<1>4. ASSUME NEW id \in Translations, NEW target \in Targets, NEW requestEpoch \in 1..epoch,
             NEW sources \in SourceChoices, NEW context \in ContextChoices,
             RequestFirst(id, target, requestEpoch, sources, context)
      PROVE  RowsInv'
  <2> DEFINE t == Asked(1, 1, target, requestEpoch, sources, context)
  <2>1. id \notin Known /\ ValidRequest(t) /\ StoreRequest(id, t, coverage)
    BY <1>4 DEF RequestFirst
  <2>2. t \in Attempt /\ t.state = "requested"
    BY RequestTyped DEF Asked
  <2>3. \A q \in coverage : RowInv(q) /\ (q.state \in Claims => q.owner.id # id)
    BY <2>1 DEF RowsInv, RowInv, Backed
  <2> HIDE DEF t
  <2>4. QED
    BY <2>1, <2>2, <2>3, StoreRows
<1>5. ASSUME NEW id \in Known, id \in Translations, NEW t \in Attempt, t.state = "requested",
             ValidRequest(t), StoreRequest(id, t, Release(coverage, {id}, captures, text))
      PROVE  RowsInv'
  <2> DEFINE rows == Release(coverage, {id}, captures, text)
  <2>1. \A q \in rows : RowInv(q) /\ (q.state \in Claims => q.owner.id # id)
    BY ReleasedForRequest
  <2> HIDE DEF rows
  <2>2. StoreRequest(id, t, rows)
    BY <1>5 DEF rows
  <2>3. QED
    BY <1>5, <2>1, <2>2, StoreRows
<1>6. ASSUME NEW id \in Translations, NEW target \in Targets, NEW requestEpoch \in 1..epoch,
             NEW sources \in SourceChoices, NEW context \in ContextChoices,
             RequestNextRevision(id, target, requestEpoch, sources, context)
      PROVE  RowsInv'
  <2> DEFINE t == Asked(translations[id].revision + 1, 1, target, requestEpoch, sources, context)
  <2>1. /\ id \in Known /\ ValidRequest(t)
        /\ StoreRequest(id, t, Release(coverage, {id}, captures, text))
    BY <1>6 DEF RequestNextRevision
  <2>2. t \in Attempt /\ t.state = "requested"
    BY <1>6, RequestTyped DEF Asked, RequestNextRevision
  <2> HIDE DEF t
  <2>3. QED
    BY <1>5, <2>1, <2>2
<1>7. ASSUME NEW id \in Translations, RetryRequest(id) PROVE RowsInv'
  <2> DEFINE old == translations[id]
             t == Asked(old.revision, old.attempt + 1, old.target, old.epoch, old.sources,
                        old.context)
  <2>1. /\ id \in Known /\ ValidRequest(t)
        /\ StoreRequest(id, t, Release(coverage, {id}, captures, text))
    BY <1>7 DEF RetryRequest
  <2>2. t \in Attempt /\ t.state = "requested"
    BY <1>7, RetryTyped DEF Asked, RetryRequest
  <2> HIDE DEF t
  <2>3. QED
    BY <1>5, <2>1, <2>2
<1>8. ASSUME NEW id, NEW revision, NEW attempt, NEW outcome \in {"final", "failed"},
             CloseAttempt(id, revision, attempt, outcome)
      PROVE  RowsInv'
  BY <1>8, CloseRows
<1>9. ASSUME NEW targets, ChangeDirectionRetroactively(targets) PROVE RowsInv'
  BY <1>0, <1>9, RetroactiveRows
<1>10. ASSUME UNCHANGED <<captures, text, coverage, translations>> PROVE RowsInv'
  BY <1>10 DEF RowsInv, RowInv, RowOK, Backed, IsCurrentRow, Captured, Known, OwnerOf
<1>11. ASSUME NEW start, NEW targets, ChangeDirectionAt(start, targets) PROVE RowsInv'
  BY <1>10, <1>11 DEF ChangeDirectionAt
<1>12. CASE UNCHANGED vars
  BY <1>10, <1>12 DEF vars
<1>13. QED
  BY <1>1, <1>2, <1>3, <1>4, <1>6, <1>7, <1>8, <1>9, <1>11, <1>12
  DEF Next, FinishTranslation, FailTranslation

----------------------------------------------------------------------------
(* Owners. *)

Covers(rows, owner, span) ==
  \A b \in span.start..(span.end - 1) :
    \E r \in rows : /\ r.owner = owner /\ r.segment = span.segment
                    /\ r.start <= b /\ b < r.end

(* An attempt that is not stale owns every byte of its sources.            *)
OwnersInv ==
  \A id \in Known : translations[id].state # "stale" =>
    \A span \in translations[id].sources :
      Covers(coverage, OwnerOf(id, translations[id]), span)

(* A row with a place and an owner for each row stands in for it.          *)
LEMMA CoversKept ==
  ASSUME NEW rows, NEW news, NEW owner, NEW span, Covers(rows, owner, span),
         \A r \in rows : r.owner = owner => \E p \in news : SamePlace(p, r) /\ p.owner = owner
  PROVE  Covers(news, owner, span)
  BY DEF Covers, SamePlace

(* A set with one member is not empty.                                     *)
LEMMA Nonempty ==
  ASSUME NEW S, Cardinality(S) = 1 PROVE S # {}
  BY FS_EmptySet

(* A stored request owns what it asks for, and takes nothing from the      *)
(* others.                                                                 *)
LEMMA StoreOwners ==
  ASSUME TablesOK, NEW id \in Translations, NEW rows,
         \A q \in rows : RowInv(q),
         \A x \in Known \ {id} : translations[x].state # "stale" =>
           \A span \in translations[x].sources :
             Covers(rows, OwnerOf(x, translations[x]), span),
         NEW t \in Attempt, ValidRequest(t), StoreRequest(id, t, rows)
  PROVE  OwnersInv'
<1> DEFINE owner == OwnerOf(id, t)
<1>1. /\ Known' = Known \cup {id}
      /\ \A x \in Known' : translations'[x] = IF x = id THEN t ELSE translations[x]
      /\ coverage' = Claim(rows, id, t)
      /\ \A span \in t.sources : Claimable(rows, span, t)
  BY DEF StoreRequest, Known
<1>2. owner \in Owner /\ t.sources \subseteq Span
  <2>1. t.revision \in 0..MaxRequest /\ t.attempt \in 0..MaxAttempt /\ t.sources \subseteq Span
    BY CoverageAssumption DEF Attempt
  <2>2. QED
    BY <2>1 DEF OwnerOf, Owner
<1>3. \A r \in rows : r \in Row /\ r.start < r.end
  BY DEF RowInv, RowOK
<1>4. \A r \in rows : PartsOf(r, t, owner) \subseteq coverage'
  BY <1>1 DEF Claim
<1>5. ASSUME NEW span \in t.sources PROVE Covers(coverage', owner, span)
  <2>1. ASSUME NEW b \in span.start..(span.end - 1)
        PROVE  \E r \in coverage' : /\ r.owner = owner /\ r.segment = span.segment
                                    /\ r.start <= b /\ b < r.end
    <3>1. Cardinality({r \in Touched(rows, span, t) : r.start <= b /\ b < r.end}) = 1
      BY <1>1, <2>1 DEF Claimable
    <3>2. PICK r \in Touched(rows, span, t) : r.start <= b /\ b < r.end
      BY <3>1, Nonempty
    <3>3. r \in rows /\ span \in Taken(r, t) /\ r.segment = span.segment
      BY <3>2 DEF Touched, Touches, Taken
    <3>4. span \in Span /\ b \in Nat /\ span.start <= b /\ b < span.end /\ span.start < span.end
      BY <1>2, <2>1 DEF Span
    <3>5. /\ Claimed(r, span, owner).segment = r.segment
          /\ Claimed(r, span, owner).owner = owner
          /\ Claimed(r, span, owner).start <= b /\ b < Claimed(r, span, owner).end
      BY <1>2, <1>3, <3>2, <3>3, <3>4, ClaimedPart DEF Within
    <3>6. Claimed(r, span, owner) \in coverage'
      BY <1>4, <3>3, PartIntro
    <3>7. QED
      BY <3>3, <3>5, <3>6
  <2>2. QED
    BY <2>1 DEF Covers
<1>6. ASSUME NEW x \in Known, x # id, translations[x].state # "stale",
             NEW span \in translations[x].sources
      PROVE  Covers(coverage', OwnerOf(x, translations[x]), span)
  <2>1. ASSUME NEW r \in rows, r.owner = OwnerOf(x, translations[x]) PROVE r \in coverage'
    <3>1. r.owner # NoOwner
      BY <2>1, CoverageAssumption DEF OwnerOf, NoOwner, TablesOK
    <3>2. ASSUME NEW other \in Taken(r, t) PROVE FALSE
      <4>1. other \in t.sources /\ r \in Touched(rows, other, t)
        BY <2>1, <3>2 DEF Taken, Touched
      <4>2. r.state = "pending"
        BY <1>1, <4>1 DEF Claimable
      <4>3. QED
        BY <2>1, <3>1, <4>2 DEF RowInv, Backed
    <3>3. PartsOf(r, t, owner) = {r}
      BY <1>3, <2>1, <3>2, Untaken
    <3>4. QED
      BY <1>4, <2>1, <3>3
  <2>2. Covers(rows, OwnerOf(x, translations[x]), span)
    BY <1>6
  <2>3. QED
    BY <2>1, <2>2, CoversKept DEF SamePlace
<1>7. QED
  BY <1>1, <1>5, <1>6 DEF OwnersInv

(* The rows of the others are not released.                                *)
LEMMA OthersKept ==
  ASSUME TablesOK, RowsInv, OwnersInv, NEW id \in Known, NEW x \in Known \ {id},
         translations[x].state # "stale", NEW span \in translations[x].sources
  PROVE  Covers(Release(coverage, {id}, captures, text), OwnerOf(x, translations[x]), span)
<1> DEFINE rows == Release(coverage, {id}, captures, text)
<1>1. ASSUME NEW r \in coverage, r.owner = OwnerOf(x, translations[x]) PROVE r \in rows
  <2>1. ~IsReleased(r, {id})
    BY <1>1 DEF IsReleased, OwnerOf
  <2>2. FreedRow(r, {id}, captures, text) = r
    BY <2>1 DEF FreedRow
  <2>3. QED
    BY <1>1, <2>2, ReleaseByRow
<1> HIDE DEF rows
<1>2. Covers(coverage, OwnerOf(x, translations[x]), span)
  BY DEF OwnersInv
<1>3. Covers(rows, OwnerOf(x, translations[x]), span)
  BY <1>1, <1>2, CoversKept DEF SamePlace
<1>4. QED
  BY <1>3 DEF rows

(* A revision leaves every request that is not stale its rows,             *)
LEMMA ReviseOwners ==
  ASSUME TablesOK, RowsInv, OwnersInv, NEW s \in Segments, NEW length, ReviseTranscript(s, length)
  PROVE  OwnersInv'
<1> DEFINE old == text[s].revision
           users == UsersOfSource(s, old)
<1>1. /\ Known' = Known
      /\ users \subseteq Known
      /\ \A x \in Known \ users : translations'[x] = translations[x]
      /\ \A x \in users : translations'[x].state = "stale"
      /\ \A r \in coverage : FreedRow(OutdatedRow(r, s, old), users, captures', text') \in coverage'
  BY ReviseFacts
<1> HIDE DEF users
<1>2. ASSUME NEW x \in Known \ users, translations[x].state # "stale",
             NEW span \in translations[x].sources
      PROVE  Covers(coverage', OwnerOf(x, translations[x]), span)
  <2>1. ASSUME NEW r \in coverage, r.owner = OwnerOf(x, translations[x])
        PROVE  \E p \in coverage' : SamePlace(p, r) /\ p.owner = r.owner
    <3> DEFINE q == OutdatedRow(r, s, old)
    <3>1. q \in Row /\ SamePlace(q, r) /\ q.owner = r.owner
      BY OutdatedTyped DEF RowsInv, RowInv
    <3>2. q.owner.id \notin users
      BY <1>2, <2>1, <3>1 DEF OwnerOf
    <3>3. FreedRow(q, users, captures', text') = q
      BY <3>2 DEF FreedRow, IsReleased
    <3>4. q \in coverage'
      BY <1>1, <3>3
    <3> HIDE DEF q
    <3>5. QED
      BY <3>1, <3>4
  <2>2. Covers(coverage, OwnerOf(x, translations[x]), span)
    BY <1>2 DEF OwnersInv
  <2>3. QED
    BY <2>1, <2>2, CoversKept
<1>3. QED
  BY <1>1, <1>2 DEF OwnersInv

(* and so does the end of an attempt.                                      *)
LEMMA CloseOwners ==
  ASSUME TablesOK, RowsInv, OwnersInv, NEW id, NEW revision, NEW attempt,
         NEW outcome \in {"final", "failed"}, CloseAttempt(id, revision, attempt, outcome)
  PROVE  OwnersInv'
<1> DEFINE owner == [id |-> id, revision |-> revision, attempt |-> attempt]
<1>1. /\ Known' = Known /\ id \in Known
      /\ translations[id].state = "requested"
      /\ OwnerOf(id, translations'[id]) = OwnerOf(id, translations[id])
      /\ translations'[id].sources = translations[id].sources
      /\ \A x \in Known : x # id => translations'[x] = translations[x]
      /\ \A p : p \in coverage' <=>
           \E r \in coverage :
             /\ p \in Row /\ SamePlace(p, r) /\ p.owner = r.owner
             /\ IF r.owner = owner /\ r.state = "requested" THEN p.state = outcome ELSE p = r
  BY CloseFacts
<1> HIDE DEF owner
<1>2. ASSUME NEW r \in coverage PROVE \E p \in coverage' : SamePlace(p, r) /\ p.owner = r.owner
  <2>1. r \in Row /\ outcome \in RowStates /\ SamePlace(r, r)
    BY DEF RowsInv, RowInv, RowStates, SamePlace
  <2> DEFINE q == [r EXCEPT !.state = outcome]
  <2>2. q \in Row /\ SamePlace(q, r) /\ q.state = outcome /\ q.owner = r.owner
    BY <2>1, StateTyped DEF SamePlace
  <2> HIDE DEF q
  <2>3. CASE r.owner = owner /\ r.state = "requested"
    BY <1>1, <2>2, <2>3
  <2>4. CASE ~(r.owner = owner /\ r.state = "requested")
    BY <1>1, <2>1, <2>4
  <2>5. QED
    BY <2>3, <2>4
<1>3. ASSUME NEW x \in Known', translations'[x].state # "stale", NEW span \in translations'[x].sources
      PROVE  Covers(coverage', OwnerOf(x, translations'[x]), span)
  <2>1. /\ x \in Known /\ translations[x].state # "stale" /\ span \in translations[x].sources
        /\ OwnerOf(x, translations'[x]) = OwnerOf(x, translations[x])
    BY <1>1, <1>3
  <2>2. Covers(coverage, OwnerOf(x, translations[x]), span)
    BY <2>1 DEF OwnersInv
  <2>3. Covers(coverage', OwnerOf(x, translations[x]), span)
    BY <1>2, <2>2, CoversKept
  <2>4. QED
    BY <2>1, <2>3
<1>4. QED
  BY <1>3 DEF OwnersInv

(* No request, result or correction takes a row from an attempt that still *)
(* needs it.                                                               *)
LEMMA OwnersStep ==
  ASSUME TablesOK, RowsInv, OwnersInv, [Next]_vars PROVE OwnersInv'
<1>1. ASSUME UNCHANGED translations, coverage \subseteq coverage' PROVE OwnersInv'
  BY <1>1 DEF OwnersInv, Covers, Known
<1>2. ASSUME NEW s \in Segments, RegisterCapture(s) PROVE OwnersInv'
  BY <1>1, <1>2 DEF RegisterCapture
<1>3. ASSUME NEW s \in Segments, NEW status, NEW length, NEW finalEpoch, NEW finalTargets,
             IngestFinal(s, status, length, finalEpoch, finalTargets)
      PROVE  OwnersInv'
  BY <1>1, <1>3 DEF IngestFinal
<1>4. ASSUME NEW s \in Segments, NEW length, ReviseTranscript(s, length) PROVE OwnersInv'
  BY <1>4, ReviseOwners
<1>5. ASSUME NEW id \in Translations, NEW target \in Targets, NEW requestEpoch \in 1..epoch,
             NEW sources \in SourceChoices, NEW context \in ContextChoices,
             RequestFirst(id, target, requestEpoch, sources, context)
      PROVE  OwnersInv'
  <2> DEFINE t == Asked(1, 1, target, requestEpoch, sources, context)
  <2>1. id \notin Known /\ ValidRequest(t) /\ StoreRequest(id, t, coverage)
    BY <1>5 DEF RequestFirst
  <2>2. t \in Attempt
    BY RequestTyped
  <2>3. \A q \in coverage : RowInv(q)
    BY DEF RowsInv
  <2>4. \A x \in Known \ {id} : translations[x].state # "stale" =>
          \A span \in translations[x].sources :
            Covers(coverage, OwnerOf(x, translations[x]), span)
    BY DEF OwnersInv
  <2> HIDE DEF t
  <2>5. QED
    BY <2>1, <2>2, <2>3, <2>4, StoreOwners
<1>6. ASSUME NEW id \in Known, id \in Translations, NEW t \in Attempt,
             ValidRequest(t), StoreRequest(id, t, Release(coverage, {id}, captures, text))
      PROVE  OwnersInv'
  <2> DEFINE rows == Release(coverage, {id}, captures, text)
  <2>1. \A q \in rows : RowInv(q)
    BY ReleasedForRequest
  <2>2. \A x \in Known \ {id} : translations[x].state # "stale" =>
          \A span \in translations[x].sources : Covers(rows, OwnerOf(x, translations[x]), span)
    BY OthersKept
  <2> HIDE DEF rows
  <2>3. StoreRequest(id, t, rows)
    BY <1>6 DEF rows
  <2>4. QED
    BY <1>6, <2>1, <2>2, <2>3, StoreOwners
<1>7. ASSUME NEW id \in Translations, NEW target \in Targets, NEW requestEpoch \in 1..epoch,
             NEW sources \in SourceChoices, NEW context \in ContextChoices,
             RequestNextRevision(id, target, requestEpoch, sources, context)
      PROVE  OwnersInv'
  BY <1>6, <1>7, RequestTyped DEF RequestNextRevision
<1>8. ASSUME NEW id \in Translations, RetryRequest(id) PROVE OwnersInv'
  BY <1>6, <1>8, RetryTyped DEF RetryRequest
<1>9. ASSUME NEW id, NEW revision, NEW attempt, NEW outcome \in {"final", "failed"},
             CloseAttempt(id, revision, attempt, outcome)
      PROVE  OwnersInv'
  BY <1>9, CloseOwners
<1>10. ASSUME NEW targets, ChangeDirectionRetroactively(targets) PROVE OwnersInv'
  BY <1>10, RetroactiveFacts DEF OwnersInv
<1>11. ASSUME NEW start, NEW targets, ChangeDirectionAt(start, targets) PROVE OwnersInv'
  BY <1>1, <1>11 DEF ChangeDirectionAt
<1>12. CASE UNCHANGED vars
  BY <1>1, <1>12 DEF vars
<1>13. QED
  BY <1>2, <1>3, <1>4, <1>5, <1>7, <1>8, <1>9, <1>10, <1>11, <1>12
  DEF Next, FinishTranslation, FailTranslation

----------------------------------------------------------------------------
(* Coverage. *)

(* The row holds a byte of a text for a target and a direction.            *)
Holds(r, s, target, revision, direction, b) ==
  /\ r.segment = s /\ r.target = target
  /\ r.revision = revision /\ r.epoch = direction
  /\ r.start <= b /\ b < r.end

Single(rows, s, target, revision, direction, b) ==
  /\ \E r \in rows : Holds(r, s, target, revision, direction, b)
  /\ \A r, q \in rows : Holds(r, s, target, revision, direction, b)
                        /\ Holds(q, s, target, revision, direction, b) => r = q

PartitionInv ==
  \A s \in Captured : text[s].status = "success" =>
    \A target \in TargetsOf(captures[s], text[s]) : \A b \in 0..(text[s].length - 1) :
      Single(coverage, s, target, text[s].revision, captures[s].epoch, b)

(* PartitionInv is CoveragePartitionsText, in terms of single rows.        *)
LEMMA PartitionCounts ==
  ASSUME PartitionInv PROVE CoveragePartitionsText
<1> SUFFICES ASSUME NEW s \in Captured, text[s].status = "success",
                    NEW target \in TargetsOf(captures[s], text[s]),
                    NEW b \in 0..(text[s].length - 1)
             PROVE  Cardinality({r \in coverage :
                      /\ r.segment = s /\ r.target = target
                      /\ r.revision = text[s].revision /\ r.epoch = captures[s].epoch
                      /\ r.start <= b /\ b < r.end}) = 1
  BY DEF CoveragePartitionsText
<1> DEFINE holders == {r \in coverage :
                      /\ r.segment = s /\ r.target = target
                      /\ r.revision = text[s].revision /\ r.epoch = captures[s].epoch
                      /\ r.start <= b /\ b < r.end}
<1>1. Single(coverage, s, target, text[s].revision, captures[s].epoch, b)
  BY DEF PartitionInv
<1>2. PICK r \in coverage : Holds(r, s, target, text[s].revision, captures[s].epoch, b)
  BY <1>1 DEF Single
<1>3. holders = {r}
  BY <1>1, <1>2 DEF Single, Holds
<1>4. Cardinality({r}) = 1
  BY FS_Singleton
<1>5. QED
  BY <1>3, <1>4

(* Rows that stand in for one another, place for place.                    *)
LEMMA RelabelSingle ==
  ASSUME NEW rows, NEW news, NEW s, NEW target, NEW revision, NEW direction, NEW b,
         NEW f, \A r \in rows : f[r] \in news /\ SamePlace(f[r], r),
         \A p \in news : \E r \in rows : p = f[r],
         Single(rows, s, target, revision, direction, b)
  PROVE  Single(news, s, target, revision, direction, b)
<1>1. \A r \in rows : Holds(f[r], s, target, revision, direction, b)
                      <=> Holds(r, s, target, revision, direction, b)
  BY DEF Holds, SamePlace
<1>2. QED
  BY <1>1 DEF Single

(* Rows of other texts or directions make no difference.                   *)
LEMMA UnionSingle ==
  ASSUME NEW rows, NEW others, NEW s, NEW target, NEW revision, NEW direction, NEW b,
         \A r \in others : r.segment # s \/ r.revision # revision \/ r.epoch # direction,
         Single(rows, s, target, revision, direction, b)
  PROVE  Single(rows \cup others, s, target, revision, direction, b)
<1>1. \A r \in others : ~Holds(r, s, target, revision, direction, b)
  BY DEF Holds
<1>2. QED
  BY <1>1 DEF Single

(* A text that is new is whole.                                            *)
LEMMA FreshSingle ==
  ASSUME NEW s \in Segments, NEW direction \in Direction, NEW t \in Text, t.status = "success",
         t.revision # 0, t.length # 0, NEW target \in TargetsOf(direction, t),
         NEW b \in 0..(t.length - 1)
  PROVE  Single(FreshRows(s, direction, t), s, target, t.revision, direction.epoch, b)
<1>1. t.length \in Nat
  <2>1. t.length \in Lengths \cup {0}
    BY DEF Text
  <2>2. \A n \in Lengths \cup {0} : n \in Nat
    BY CoverageAssumption
  <2>3. QED
    BY <2>1, <2>2
<1>2. b \in Nat /\ 0 <= b /\ b < t.length
  BY <1>1
<1>3. PICK r \in FreshRows(s, direction, t) : r.target = target
  BY FreshTyped
<1>4. Holds(r, s, target, t.revision, direction.epoch, b)
  BY <1>2, <1>3, FreshTyped DEF Holds
<1>5. ASSUME NEW p \in FreshRows(s, direction, t), NEW q \in FreshRows(s, direction, t),
             Holds(p, s, target, t.revision, direction.epoch, b),
             Holds(q, s, target, t.revision, direction.epoch, b)
      PROVE  p = q
  <2>1. p.target = q.target
    BY <1>5 DEF Holds
  <2>2. QED
    BY <2>1, FreshTyped
<1>6. QED
  BY <1>4, <1>5 DEF Single

(* A claim cuts rows into parts that are, together, the rows: every byte   *)
(* is in one part, of the one row that held it.                            *)
LEMMA ClaimExists ==
  ASSUME NEW r \in Row, NEW t, t.sources \subseteq Span, NEW owner \in Owner,
         \A span \in t.sources : span.start < span.end,
         NEW b \in Nat, r.start <= b, b < r.end
  PROVE  \E p \in PartsOf(r, t, owner) : Within(p, r) /\ p.start <= b /\ b < p.end
<1> DEFINE taken == Taken(r, t)
<1>0. /\ r.start \in Nat /\ r.end \in Nat /\ r.start < r.end
      /\ \A span \in taken : /\ span \in t.sources /\ span.start \in Nat /\ span.end \in Nat
                             /\ span.start < span.end
                             /\ r.start < span.end /\ span.start < r.end
  BY DEF Row, Taken, Span, Touches
<1>1. CASE \E span \in taken : span.start <= b /\ b < span.end
  <2>1. PICK span \in taken : span.start <= b /\ b < span.end
    BY <1>1
  <2>2. Claimed(r, span, owner) \in PartsOf(r, t, owner)
    BY PartIntro
  <2>3. span.start < span.end
    BY <1>0
  <2>4. /\ Within(Claimed(r, span, owner), r)
        /\ Claimed(r, span, owner).start <= b /\ b < Claimed(r, span, owner).end
    BY <1>0, <2>1, <2>3, ClaimedPart
  <2>5. QED
    BY <2>2, <2>4
<1>2. CASE \A span \in taken : b < span.start \/ span.end <= b
  <2> DEFINE before == {a \in Heads(r, taken) : a <= b}
             after == {z \in Tails(r, taken) : b < z}
  <2>1. before \subseteq Nat /\ r.start \in before /\ \A a \in before : a <= b
    BY <1>0 DEF Heads
  <2>2. after \subseteq Nat /\ r.end \in after
    BY <1>0 DEF Tails
  <2>3. PICK a \in before : \A n \in before : n <= a
    BY <2>1, GreatestNatural
  <2>4. PICK z \in after : \A n \in after : z <= n
    BY <2>2, LeastNatural
  <2>5. a \in Heads(r, taken) /\ z \in Tails(r, taken) /\ a \in Nat /\ z \in Nat
        /\ a <= b /\ b < z
    BY <2>1, <2>2, <2>3, <2>4
  <2>6. z <= r.end /\ r.start <= a
    BY <2>1, <2>2, <2>3, <2>4
  <2>7. ASSUME NEW span \in taken PROVE span.end <= a \/ z <= span.start
    <3>1. CASE span.end <= b
      <4>1. span.end \in before
        BY <3>1 DEF Heads
      <4>2. QED
        BY <2>3, <4>1
    <3>2. CASE b < span.start
      <4>1. span.start \in after
        BY <3>2 DEF Tails
      <4>2. QED
        BY <2>4, <4>1
    <3>3. QED
      BY <1>2, <3>1, <3>2
  <2>8. Between(r, taken, a, z)
    BY <2>5, <2>6, <2>7 DEF Between
  <2>9. Piece(r, a, z, r.state, r.owner) \in PartsOf(r, t, owner)
    BY <2>5, <2>8, PartIntro
  <2>10. /\ Within(Piece(r, a, z, r.state, r.owner), r)
         /\ Piece(r, a, z, r.state, r.owner).start = a
         /\ Piece(r, a, z, r.state, r.owner).end = z
    BY <2>5, <2>8, RemainingPart
  <2>11. QED
    BY <2>5, <2>9, <2>10
<1>3. QED
  BY <1>0, <1>1, <1>2

(* The parts of a row do not overlap.                                      *)
LEMMA ClaimUnique ==
  ASSUME NEW r \in Row, NEW t, t.sources \subseteq Span, NEW owner \in Owner, r.start < r.end,
         WellFormedSpans(t.sources), NEW b \in Nat,
         NEW p \in PartsOf(r, t, owner), p.start <= b, b < p.end,
         NEW q \in PartsOf(r, t, owner), q.start <= b, b < q.end
  PROVE  p = q
<1> DEFINE taken == Taken(r, t)
<1>0. /\ r.start \in Nat /\ r.end \in Nat
      /\ \A span \in taken : /\ span \in t.sources /\ span.start \in Nat /\ span.end \in Nat
                             /\ span.start < span.end /\ span.segment = r.segment
                             /\ r.start < span.end /\ span.start < r.end
  BY DEF Row, Taken, Span, Touches, WellFormedSpans
<1>1. ASSUME NEW span \in taken, NEW x, x = Claimed(r, span, owner), x.start <= b, b < x.end
      PROVE  span.start <= b /\ b < span.end
  BY <1>0, <1>1, ClaimedPart
<1>2. ASSUME NEW a \in Heads(r, taken), NEW z \in Tails(r, taken), Between(r, taken, a, z),
             NEW x, x = Piece(r, a, z, r.state, r.owner), x.start <= b, b < x.end
      PROVE  a \in Nat /\ z \in Nat /\ a <= b /\ b < z
  BY <1>2, RemainingPart
<1>3. ASSUME NEW one \in taken, NEW other \in taken,
             one.start <= b, b < one.end, other.start <= b, b < other.end
      PROVE  one = other
  BY <1>0, <1>3 DEF WellFormedSpans, Overlap
<1>4. ASSUME NEW span \in taken, span.start <= b, b < span.end,
             NEW a \in Nat, NEW z \in Nat, a <= b, b < z, Between(r, taken, a, z)
      PROVE  FALSE
  BY <1>0, <1>4 DEF Between
<1>5. ASSUME NEW a \in Heads(r, taken), NEW z \in Tails(r, taken), Between(r, taken, a, z),
             NEW c \in Heads(r, taken), NEW y \in Tails(r, taken), Between(r, taken, c, y),
             a \in Nat, z \in Nat, c \in Nat, y \in Nat, a <= b, b < z, c <= b, b < y
      PROVE  a <= c /\ z <= y
  <2>1. a <= c
    <3>1. CASE a = r.start
      BY <1>0, <1>5, <3>1 DEF Between
    <3>2. CASE \E span \in taken : a = span.end
      <4>1. PICK span \in taken : a = span.end
        BY <3>2
      <4>2. span.end <= c \/ y <= span.start
        BY <1>5 DEF Between
      <4>3. QED
        BY <1>0, <1>5, <4>1, <4>2
    <3>3. QED
      BY <3>1, <3>2 DEF Heads
  <2>2. z <= y
    <3>1. CASE y = r.end
      BY <1>0, <1>5, <3>1 DEF Between
    <3>2. CASE \E span \in taken : y = span.start
      <4>1. PICK span \in taken : y = span.start
        BY <3>2
      <4>2. span.end <= a \/ z <= span.start
        BY <1>5 DEF Between
      <4>3. QED
        BY <1>0, <1>5, <4>1, <4>2
    <3>3. QED
      BY <3>1, <3>2 DEF Tails
  <2>3. QED
    BY <2>1, <2>2
<1>6. ASSUME NEW a \in Heads(r, taken), NEW z \in Tails(r, taken), Between(r, taken, a, z),
             NEW c \in Heads(r, taken), NEW y \in Tails(r, taken), Between(r, taken, c, y),
             a \in Nat, z \in Nat, c \in Nat, y \in Nat, a <= b, b < z, c <= b, b < y
      PROVE  a = c /\ z = y
  BY <1>5, <1>6
<1> HIDE DEF taken
<1>7. CASE /\ \E span \in taken : p = Claimed(r, span, owner)
           /\ \E span \in taken : q = Claimed(r, span, owner)
  BY <1>1, <1>3, <1>7
<1>8. \/ \E span \in taken : p = Claimed(r, span, owner)
      \/ \E a \in Heads(r, taken) : \E z \in Tails(r, taken) :
           p = Piece(r, a, z, r.state, r.owner) /\ Between(r, taken, a, z)
  BY PartCases DEF taken
<1>9. \/ \E span \in taken : q = Claimed(r, span, owner)
      \/ \E a \in Heads(r, taken) : \E z \in Tails(r, taken) :
           q = Piece(r, a, z, r.state, r.owner) /\ Between(r, taken, a, z)
  BY PartCases DEF taken
<1>10. ASSUME NEW x, NEW y, NEW span \in taken, x = Claimed(r, span, owner),
              x.start <= b, b < x.end,
              NEW a \in Heads(r, taken), NEW z \in Tails(r, taken),
              y = Piece(r, a, z, r.state, r.owner), Between(r, taken, a, z),
              y.start <= b, b < y.end
       PROVE  FALSE
  <2>1. span.start <= b /\ b < span.end
    BY <1>1, <1>10
  <2>2. a \in Nat /\ z \in Nat /\ a <= b /\ b < z
    BY <1>2, <1>10
  <2>3. QED
    BY <1>4, <1>10, <2>1, <2>2
<1>11. CASE /\ \E a \in Heads(r, taken) : \E z \in Tails(r, taken) :
                 p = Piece(r, a, z, r.state, r.owner) /\ Between(r, taken, a, z)
            /\ \E a \in Heads(r, taken) : \E z \in Tails(r, taken) :
                 q = Piece(r, a, z, r.state, r.owner) /\ Between(r, taken, a, z)
  <2>1. PICK a \in Heads(r, taken) : \E z \in Tails(r, taken) :
               p = Piece(r, a, z, r.state, r.owner) /\ Between(r, taken, a, z)
    BY <1>11
  <2>2. PICK z \in Tails(r, taken) :
               p = Piece(r, a, z, r.state, r.owner) /\ Between(r, taken, a, z)
    BY <2>1
  <2>3. PICK c \in Heads(r, taken) : \E y \in Tails(r, taken) :
               q = Piece(r, c, y, r.state, r.owner) /\ Between(r, taken, c, y)
    BY <1>11
  <2>4. PICK y \in Tails(r, taken) :
               q = Piece(r, c, y, r.state, r.owner) /\ Between(r, taken, c, y)
    BY <2>3
  <2>5. a \in Nat /\ z \in Nat /\ a <= b /\ b < z
    BY <1>2, <2>2
  <2>6. c \in Nat /\ y \in Nat /\ c <= b /\ b < y
    BY <1>2, <2>4
  <2>7. a = c /\ z = y
    BY <1>6, <2>2, <2>4, <2>5, <2>6
  <2>8. QED
    BY <2>2, <2>4, <2>7
<1>12. QED
  BY <1>7, <1>8, <1>9, <1>10, <1>11

(* Whatever part of a row holds a byte, the row held it.                   *)
LEMMA PartWithin ==
  ASSUME NEW r \in Row, NEW t, t.sources \subseteq Span, NEW owner \in Owner, r.start < r.end,
         \A span \in t.sources : span.start < span.end, NEW p \in PartsOf(r, t, owner)
  PROVE  p \in Row /\ Within(p, r)
<1>1. ASSUME NEW span \in Taken(r, t), p = Claimed(r, span, owner) PROVE p \in Row /\ Within(p, r)
  <2>1. span.start < span.end
    BY DEF Taken
  <2>2. QED
    BY <1>1, <2>1, ClaimedPart
<1>2. QED
  BY <1>1, RemainingPart, PartCases

(* A claim leaves each byte in a single row,                               *)
LEMMA ClaimSingle ==
  ASSUME NEW rows, \A r \in rows : r \in Row /\ r.start < r.end,
         NEW id, NEW t, t.sources \subseteq Span, OwnerOf(id, t) \in Owner,
         WellFormedSpans(t.sources),
         NEW s, NEW target, NEW revision, NEW direction, NEW b \in Nat,
         Single(rows, s, target, revision, direction, b)
  PROVE  Single(Claim(rows, id, t), s, target, revision, direction, b)
<1> DEFINE owner == OwnerOf(id, t)
           news == Claim(rows, id, t)
<1>1. \A p : p \in news <=> \E r \in rows : p \in PartsOf(r, t, owner)
  BY DEF Claim
<1>2. owner \in Owner /\ \A span \in t.sources : span.start < span.end
  BY DEF WellFormedSpans
<1> HIDE DEF news, owner
<1>3. ASSUME NEW r \in rows, NEW p \in PartsOf(r, t, owner),
             Holds(p, s, target, revision, direction, b)
      PROVE  Holds(r, s, target, revision, direction, b)
  <2>1. r \in Row /\ p \in Row /\ Within(p, r)
    BY <1>2, PartWithin
  <2>2. r.start \in Nat /\ r.end \in Nat /\ p.start \in Nat /\ p.end \in Nat
    BY <2>1 DEF Row
  <2>3. QED
    BY <1>3, <2>1, <2>2 DEF Holds, Within
<1>4. PICK r \in rows : Holds(r, s, target, revision, direction, b)
  BY DEF Single
<1>5. PICK p \in PartsOf(r, t, owner) : Within(p, r) /\ p.start <= b /\ b < p.end
  BY <1>2, <1>4, ClaimExists DEF Holds
<1>6. p \in news /\ Holds(p, s, target, revision, direction, b)
  BY <1>1, <1>4, <1>5 DEF Holds, Within
<1>7. ASSUME NEW x \in news, Holds(x, s, target, revision, direction, b),
             NEW y \in news, Holds(y, s, target, revision, direction, b)
      PROVE  x = y
  <2>1. PICK q \in rows : x \in PartsOf(q, t, owner)
    BY <1>1
  <2>2. PICK u \in rows : y \in PartsOf(u, t, owner)
    BY <1>1
  <2>3. q = u
    BY <1>3, <1>7, <2>1, <2>2 DEF Single
  <2>4. x.start <= b /\ b < x.end /\ y.start <= b /\ b < y.end
    BY <1>7 DEF Holds
  <2>5. QED
    BY <1>2, <2>1, <2>2, <2>3, <2>4, ClaimUnique
<1>8. Single(news, s, target, revision, direction, b)
  BY <1>6, <1>7 DEF Single
<1>9. QED
  BY <1>8 DEF news

(* Releasing rows moves none of them.                                      *)
LEMMA ReleaseSingle ==
  ASSUME NEW rows, \A r \in rows : r \in Row, NEW ids, NEW directions, NEW texts,
         NEW s, NEW target, NEW revision, NEW direction, NEW b,
         Single(rows, s, target, revision, direction, b)
  PROVE  Single(Release(rows, ids, directions, texts), s, target, revision, direction, b)
<1> DEFINE f == [r \in rows |-> FreedRow(r, ids, directions, texts)]
           news == Release(rows, ids, directions, texts)
<1>1. /\ \A r \in rows : f[r] = FreedRow(r, ids, directions, texts) /\ f[r] \in news
      /\ \A p \in news : \E r \in rows : p = f[r]
  BY ReleaseByRow
<1>2. \A r \in rows : SamePlace(f[r], r)
  BY <1>1, FreedTyped
<1> HIDE DEF f, news
<1>3. Single(news, s, target, revision, direction, b)
  BY <1>1, <1>2, RelabelSingle
<1>4. QED
  BY <1>3 DEF news

(* so does a revision for the rows it outdates.                            *)
LEMMA OutdatedSingle ==
  ASSUME NEW rows, \A r \in rows : r \in Row, NEW x, NEW old,
         NEW s, NEW target, NEW revision, NEW direction, NEW b,
         Single(rows, s, target, revision, direction, b)
  PROVE  Single({OutdatedRow(r, x, old) : r \in rows}, s, target, revision, direction, b)
<1> DEFINE f == [r \in rows |-> OutdatedRow(r, x, old)]
           news == {OutdatedRow(r, x, old) : r \in rows}
<1>1. /\ \A r \in rows : f[r] = OutdatedRow(r, x, old) /\ f[r] \in news
      /\ \A p \in news : \E r \in rows : p = f[r]
  OBVIOUS
<1>2. \A r \in rows : SamePlace(f[r], r)
  BY <1>1, OutdatedTyped
<1> HIDE DEF f, news
<1>3. Single(news, s, target, revision, direction, b)
  BY <1>1, <1>2, RelabelSingle
<1>4. QED
  BY <1>3 DEF news

----------------------------------------------------------------------------
(* A request cuts rows and loses none.                                     *)
LEMMA StorePartition ==
  ASSUME TablesOK, PartitionInv, NEW id \in Translations, NEW t \in Attempt, ValidRequest(t),
         NEW rows, \A r \in rows : RowInv(r), StoreRequest(id, t, rows),
         \A s, target, revision, direction, b :
           Single(coverage, s, target, revision, direction, b) =>
             Single(rows, s, target, revision, direction, b)
  PROVE  PartitionInv'
<1>1. UNCHANGED <<captures, text, Captured>> /\ coverage' = Claim(rows, id, t)
  BY DEF StoreRequest, directionVars, Captured
<1>2. OwnerOf(id, t) \in Owner /\ t.sources \subseteq Span
  <2>1. t.revision \in 0..MaxRequest /\ t.attempt \in 0..MaxAttempt /\ t.sources \subseteq Span
    BY CoverageAssumption DEF Attempt
  <2>2. QED
    BY <2>1 DEF OwnerOf, Owner
<1>3. WellFormedSpans(t.sources)
  BY DEF ValidRequest, WellFormedSpans, SpansOf
<1>4. \A r \in rows : r \in Row /\ r.start < r.end
  BY DEF RowInv, RowOK
<1>5. ASSUME NEW s \in Captured, text[s].status = "success",
             NEW target \in TargetsOf(captures[s], text[s]),
             NEW b \in 0..(text[s].length - 1)
      PROVE  Single(coverage', s, target, text[s].revision, captures[s].epoch, b)
  <2>1. Single(rows, s, target, text[s].revision, captures[s].epoch, b)
    BY <1>5 DEF PartitionInv
  <2>2. b \in Nat
    OBVIOUS
  <2>3. Single(Claim(rows, id, t), s, target, text[s].revision, captures[s].epoch, b)
    BY <1>2, <1>3, <1>4, <2>1, <2>2, ClaimSingle
  <2>4. QED
    BY <1>1, <2>3
<1>6. QED
  BY <1>1, <1>5 DEF PartitionInv

(* The rows of a new text hold each of its bytes once.                     *)
LEMMA FreshPartition ==
  ASSUME TablesOK', NEW s \in Captured', text'[s].status = "success",
         NEW target \in TargetsOf(captures'[s], text'[s]), NEW b \in 0..(text'[s].length - 1)
  PROVE  Single(FreshRows(s, captures'[s], text'[s]), s, target, text'[s].revision,
                captures'[s].epoch, b)
<1>1. captures'[s] \in Direction /\ text'[s] \in Text /\ s \in Segments
  BY DEF TablesOK
<1>2. text'[s].revision # 0 /\ text'[s].length # 0
  BY <1>1 DEF TablesOK, TextOK
<1>3. QED
  BY <1>1, <1>2, FreshSingle

(* Rows of one segment, or of no current text, do not touch the others.    *)
LEMMA FreshElsewhere ==
  ASSUME TablesOK', NEW s \in Captured', NEW r \in FreshRows(s, captures'[s], text'[s])
  PROVE  r.segment = s
<1>1. captures'[s] \in Direction /\ text'[s] \in Text /\ s \in Segments
  BY DEF TablesOK
<1>2. text'[s].status = "success" => text'[s].revision # 0 /\ text'[s].length # 0
  BY <1>1 DEF TablesOK, TextOK
<1>3. QED
  BY <1>1, <1>2, FreshTyped

(* The order of a union does not matter.                                   *)
LEMMA SingleCommutes ==
  ASSUME NEW rows, NEW others, NEW s, NEW target, NEW revision, NEW direction, NEW b,
         Single(rows \cup others, s, target, revision, direction, b)
  PROVE  Single(others \cup rows, s, target, revision, direction, b)
  BY DEF Single

(* A final text keeps the partition,                                       *)
LEMMA FinalPartition ==
  ASSUME TablesOK, TablesOK', RowsInv, PartitionInv, NEW s \in Segments, NEW status, NEW length,
         NEW finalEpoch, NEW finalTargets,
         IngestFinal(s, status, length, finalEpoch, finalTargets)
  PROVE  PartitionInv'
<1> DEFINE fresh == FreshRows(s, captures'[s], text'[s])
<1>1. /\ s \in Captured /\ text[s].status # "success"
      /\ UNCHANGED <<captures, Captured>>
      /\ text'[s].revision = text[s].revision + 1
      /\ \A x \in Segments : x # s => text'[x] = text[x]
      /\ coverage' = coverage \cup fresh
  BY DEF IngestFinal, directionVars, Captured, TablesOK
<1>2. \A r \in fresh : r.segment = s
  BY <1>1, FreshElsewhere
<1>3. \A r \in coverage : r.segment # s \/ r.revision # text'[s].revision
  <2>1. ASSUME NEW r \in coverage, r.segment = s PROVE r.revision # text'[s].revision
    <3>1. RowInv(r) /\ r \in Row
      BY DEF RowsInv, RowInv
    <3>2. QED
      BY <1>1, <2>1, <3>1, RowNumbers DEF RowInv, RowOK
  <2>2. QED
    BY <2>1
<1>4. ASSUME NEW x \in Captured', text'[x].status = "success",
             NEW target \in TargetsOf(captures'[x], text'[x]),
             NEW b \in 0..(text'[x].length - 1)
      PROVE  Single(coverage', x, target, text'[x].revision, captures'[x].epoch, b)
  <2>1. CASE x = s
    <3>1. Single(fresh, s, target, text'[s].revision, captures'[s].epoch, b)
      BY <1>4, <2>1, FreshPartition
    <3> HIDE DEF fresh
    <3>2. Single(fresh \cup coverage, s, target, text'[s].revision, captures'[s].epoch, b)
      BY <1>3, <3>1, UnionSingle
    <3>3. QED
      BY <1>1, <2>1, <3>2, SingleCommutes
  <2>2. CASE x # s
    <3>1. x \in Captured /\ text'[x] = text[x] /\ captures'[x] = captures[x]
      BY <1>1, <2>2 DEF TablesOK
    <3>2. Single(coverage, x, target, text[x].revision, captures[x].epoch, b)
      BY <1>4, <3>1 DEF PartitionInv
    <3> HIDE DEF fresh
    <3>3. Single(coverage \cup fresh, x, target, text[x].revision, captures[x].epoch, b)
      BY <1>2, <2>2, <3>2, UnionSingle
    <3>4. QED
      BY <1>1, <3>1, <3>3
  <2>3. QED
    BY <2>1, <2>2
<1>5. QED
  BY <1>4 DEF PartitionInv

(* so does a revision,                                                     *)
LEMMA RevisePartition ==
  ASSUME TablesOK, TablesOK', RowsInv, PartitionInv, NEW s \in Segments, NEW length,
         ReviseTranscript(s, length)
  PROVE  PartitionInv'
<1> DEFINE old == text[s].revision
           users == UsersOfSource(s, old)
           staleRows == {OutdatedRow(r, s, old) : r \in coverage}
           rest == Release(staleRows, users, captures', text')
           fresh == FreshRows(s, captures'[s], text'[s])
<1>1. /\ s \in Captured
      /\ UNCHANGED <<captures, Captured>>
      /\ text'[s].revision = old + 1
      /\ \A x \in Segments : x # s => text'[x] = text[x]
      /\ coverage' = {FreedRow(OutdatedRow(r, s, old), users, captures', text') : r \in coverage}
                       \cup fresh
  BY ReviseFacts
<1>2. \A r \in coverage : RowInv(r) /\ r \in Row
  BY DEF RowsInv, RowInv
<1>3. \A q \in staleRows : q \in Row
  BY <1>2, OutdatedTyped
<1> HIDE DEF users
<1>4. rest = {FreedRow(OutdatedRow(r, s, old), users, captures', text') : r \in coverage}
  BY ReleaseByRow
<1>5. coverage' = rest \cup fresh
  BY <1>1, <1>4
<1>6. ASSUME NEW p \in rest PROVE p.segment # s \/ p.revision # text'[s].revision
  <2>1. PICK r \in coverage : p = FreedRow(OutdatedRow(r, s, old), users, captures', text')
    BY <1>4
  <2>2. OutdatedRow(r, s, old) \in Row /\ SamePlace(OutdatedRow(r, s, old), r)
    BY <1>2, OutdatedTyped
  <2>3. SamePlace(p, OutdatedRow(r, s, old))
    BY <2>1, <2>2, FreedTyped
  <2>4. p.segment = r.segment /\ p.revision = r.revision
    BY <2>2, <2>3 DEF SamePlace
  <2>5. RowInv(r) /\ r \in Row
    BY <1>2
  <2>6. QED
    BY <1>1, <2>4, <2>5, RowNumbers DEF RowInv, RowOK
<1>7. \A r \in fresh : r.segment = s
  BY <1>1, FreshElsewhere
<1>8. ASSUME NEW x \in Captured', text'[x].status = "success",
             NEW target \in TargetsOf(captures'[x], text'[x]),
             NEW b \in 0..(text'[x].length - 1)
      PROVE  Single(coverage', x, target, text'[x].revision, captures'[x].epoch, b)
  <2>1. CASE x = s
    <3>1. Single(fresh, s, target, text'[s].revision, captures'[s].epoch, b)
      BY <1>8, <2>1, FreshPartition
    <3> HIDE DEF fresh, rest
    <3>2. Single(fresh \cup rest, s, target, text'[s].revision, captures'[s].epoch, b)
      BY <1>6, <3>1, UnionSingle
    <3>3. QED
      BY <1>5, <2>1, <3>2, SingleCommutes
  <2>2. CASE x # s
    <3>1. x \in Captured /\ text'[x] = text[x] /\ captures'[x] = captures[x]
      BY <1>1, <2>2 DEF TablesOK
    <3>2. Single(coverage, x, target, text[x].revision, captures[x].epoch, b)
      BY <1>8, <3>1 DEF PartitionInv
    <3>3. Single(staleRows, x, target, text[x].revision, captures[x].epoch, b)
      BY <1>2, <3>2, OutdatedSingle
    <3> HIDE DEF staleRows
    <3>4. Single(rest, x, target, text[x].revision, captures[x].epoch, b)
      BY <1>3, <3>3, ReleaseSingle
    <3> HIDE DEF fresh, rest
    <3>5. Single(rest \cup fresh, x, target, text[x].revision, captures[x].epoch, b)
      BY <1>7, <2>2, <3>4, UnionSingle
    <3>6. QED
      BY <1>5, <3>1, <3>5
  <2>3. QED
    BY <2>1, <2>2
<1>9. QED
  BY <1>8 DEF PartitionInv

(* the end of an attempt,                                                  *)
LEMMA ClosePartition ==
  ASSUME TablesOK, RowsInv, PartitionInv, NEW id, NEW revision, NEW attempt,
         NEW outcome \in {"final", "failed"}, CloseAttempt(id, revision, attempt, outcome)
  PROVE  PartitionInv'
<1> DEFINE f == [r \in coverage |-> IF r \in Owned(id, revision, attempt)
                                    THEN [r EXCEPT !.state = outcome] ELSE r]
           news == {IF r \in Owned(id, revision, attempt) THEN [r EXCEPT !.state = outcome] ELSE r :
                      r \in coverage}
<1>1. UNCHANGED <<captures, text, Captured>> /\ coverage' = news
  BY DEF CloseAttempt, directionVars, Captured
<1>2. /\ \A r \in coverage : f[r] \in news
      /\ \A p \in news : \E r \in coverage : p = f[r]
  OBVIOUS
<1>3. ASSUME NEW r \in coverage PROVE SamePlace(f[r], r)
  <2>1. r \in Row /\ outcome \in RowStates
    BY DEF RowsInv, RowInv, RowStates
  <2> DEFINE q == [r EXCEPT !.state = outcome]
  <2>2. SamePlace(q, r) /\ SamePlace(r, r)
    BY <2>1, StateTyped DEF SamePlace
  <2>3. f[r] = IF r \in Owned(id, revision, attempt) THEN q ELSE r
    OBVIOUS
  <2> HIDE DEF q, f
  <2>4. QED
    BY <2>2, <2>3
<1> HIDE DEF f, news
<1>4. ASSUME NEW s \in Captured, text[s].status = "success",
             NEW target \in TargetsOf(captures[s], text[s]),
             NEW b \in 0..(text[s].length - 1)
      PROVE  Single(news, s, target, text[s].revision, captures[s].epoch, b)
  <2>1. Single(coverage, s, target, text[s].revision, captures[s].epoch, b)
    BY <1>4 DEF PartitionInv
  <2>2. QED
    BY <1>2, <1>3, <2>1, RelabelSingle
<1>5. QED
  BY <1>1, <1>4 DEF PartitionInv

(* and a change of direction that reaches back.                            *)
LEMMA RetroactivePartition ==
  ASSUME TablesOK, TablesOK', RowsInv, NEW targets, ChangeDirectionRetroactively(targets)
  PROVE  PartitionInv'
<1> SUFFICES ASSUME NEW s \in Captured', text'[s].status = "success",
                    NEW target \in TargetsOf(captures'[s], text'[s]),
                    NEW b \in 0..(text'[s].length - 1)
             PROVE  Single(coverage', s, target, text'[s].revision, captures'[s].epoch, b)
  BY DEF PartitionInv
<1> DEFINE fresh == FreshRows(s, captures'[s], text'[s])
<1>1. Captured' = Captured /\ captures'[s].epoch = epoch + 1 /\ fresh \subseteq coverage'
  BY RetroactiveFacts
<1>2. Single(fresh, s, target, text'[s].revision, captures'[s].epoch, b)
  BY FreshPartition
<1>3. ASSUME NEW p \in coverage', Holds(p, s, target, text'[s].revision, captures'[s].epoch, b)
      PROVE  p \in fresh
  <2>1. CASE \E r \in coverage : SamePlace(p, r)
    <3>1. PICK r \in coverage : SamePlace(p, r)
      BY <2>1
    <3>2. RowInv(r) /\ r \in Row /\ r.segment \in Captured
      BY DEF RowsInv, RowInv, RowOK
    <3>3. r.epoch <= epoch
      BY <3>2, RowNumbers DEF RowInv, RowOK, TablesOK
    <3>4. p.epoch = r.epoch /\ p.epoch = epoch + 1
      BY <1>1, <1>3, <3>1 DEF Holds, SamePlace
    <3>5. QED
      BY <3>2, <3>3, <3>4, RowNumbers
  <2>2. CASE \E x \in Captured : p \in FreshRows(x, captures'[x], text'[x])
    <3>1. PICK x \in Captured : p \in FreshRows(x, captures'[x], text'[x])
      BY <2>2
    <3>2. p.segment = x
      BY <1>1, <3>1, FreshElsewhere
    <3>3. x = s
      BY <1>3, <3>2 DEF Holds
    <3>4. QED
      BY <3>1, <3>3
  <2>3. QED
    BY <2>1, <2>2, RetroactiveFacts
<1> HIDE DEF fresh
<1>4. QED
  BY <1>1, <1>2, <1>3 DEF Single

(* Every step keeps every current text whole.                              *)
LEMMA PartitionStep ==
  ASSUME TablesOK, RowsInv, PartitionInv, [Next]_vars PROVE PartitionInv'
<1>0. TablesOK'
  BY TablesStep
<1>1. ASSUME NEW s \in Segments, RegisterCapture(s) PROVE PartitionInv'
  <2>1. /\ UNCHANGED <<text, coverage>>
        /\ s \notin Captured
        /\ Captured' = Captured \cup {s}
        /\ \A x \in Captured : captures'[x] = captures[x]
    BY <1>1 DEF RegisterCapture, Captured
  <2>2. text[s].status # "success"
    BY <2>1 DEF TablesOK, TextOK
  <2>3. QED
    BY <2>1, <2>2 DEF PartitionInv
<1>2. ASSUME NEW s \in Segments, NEW status, NEW length, NEW finalEpoch, NEW finalTargets,
             IngestFinal(s, status, length, finalEpoch, finalTargets)
      PROVE  PartitionInv'
  BY <1>0, <1>2, FinalPartition
<1>3. ASSUME NEW s \in Segments, NEW length, ReviseTranscript(s, length) PROVE PartitionInv'
  BY <1>0, <1>3, RevisePartition
<1>4. ASSUME NEW id \in Translations, NEW target \in Targets, NEW requestEpoch \in 1..epoch,
             NEW sources \in SourceChoices, NEW context \in ContextChoices,
             RequestFirst(id, target, requestEpoch, sources, context)
      PROVE  PartitionInv'
  <2> DEFINE t == Asked(1, 1, target, requestEpoch, sources, context)
  <2>1. ValidRequest(t) /\ StoreRequest(id, t, coverage)
    BY <1>4 DEF RequestFirst
  <2>2. t \in Attempt
    BY RequestTyped
  <2>3. \A r \in coverage : RowInv(r)
    BY DEF RowsInv
  <2> HIDE DEF t
  <2>4. QED
    BY <2>1, <2>2, <2>3, StorePartition
<1>5. ASSUME NEW id \in Known, id \in Translations, NEW t \in Attempt,
             ValidRequest(t), StoreRequest(id, t, Release(coverage, {id}, captures, text))
      PROVE  PartitionInv'
  <2> DEFINE rows == Release(coverage, {id}, captures, text)
  <2>1. \A r \in rows : RowInv(r)
    BY ReleasedForRequest
  <2>2. \A r \in coverage : r \in Row
    BY DEF RowsInv, RowInv
  <2>3. \A s, target, revision, direction, b :
          Single(coverage, s, target, revision, direction, b) =>
            Single(rows, s, target, revision, direction, b)
    BY <2>2, ReleaseSingle
  <2> HIDE DEF rows
  <2>4. StoreRequest(id, t, rows)
    BY <1>5 DEF rows
  <2>5. QED
    BY <1>5, <2>1, <2>3, <2>4, StorePartition
<1>6. ASSUME NEW id \in Translations, NEW target \in Targets, NEW requestEpoch \in 1..epoch,
             NEW sources \in SourceChoices, NEW context \in ContextChoices,
             RequestNextRevision(id, target, requestEpoch, sources, context)
      PROVE  PartitionInv'
  BY <1>5, <1>6, RequestTyped DEF RequestNextRevision
<1>7. ASSUME NEW id \in Translations, RetryRequest(id) PROVE PartitionInv'
  BY <1>5, <1>7, RetryTyped DEF RetryRequest
<1>8. ASSUME NEW id, NEW revision, NEW attempt, NEW outcome \in {"final", "failed"},
             CloseAttempt(id, revision, attempt, outcome)
      PROVE  PartitionInv'
  BY <1>8, ClosePartition
<1>9. ASSUME NEW targets, ChangeDirectionRetroactively(targets) PROVE PartitionInv'
  BY <1>0, <1>9, RetroactivePartition
<1>10. ASSUME UNCHANGED <<captures, text, coverage>> PROVE PartitionInv'
  BY <1>10 DEF PartitionInv, Captured
<1>11. ASSUME NEW start, NEW targets, ChangeDirectionAt(start, targets) PROVE PartitionInv'
  BY <1>10, <1>11 DEF ChangeDirectionAt
<1>12. CASE UNCHANGED vars
  BY <1>10, <1>12 DEF vars
<1>13. QED
  BY <1>1, <1>2, <1>3, <1>4, <1>6, <1>7, <1>8, <1>9, <1>11, <1>12
  DEF Next, FinishTranslation, FailTranslation

----------------------------------------------------------------------------
(* The inductive invariant of the tables.                                  *)
CoverageInv ==
  /\ TablesOK
  /\ RowsInv
  /\ OwnersInv
  /\ PartitionInv

(* CoverageInv holds in every state of every behaviour: together, types,   *)
(* rows, owners and the partition of the texts are inductive.              *)
THEOREM CoverageInvariant == Spec => []CoverageInv
<1>1. ASSUME Init PROVE CoverageInv
  <2> USE <1>1
  <2>1. Captured = {} /\ Known = {} /\ coverage = {} /\ boundaries = {}
    BY DEF Init, Captured, Known
  <2>2. captures \in [Captured -> Direction] /\ translations \in [Known -> Attempt]
    BY <2>1 DEF Init, Captured, Known
  <2>3. text \in [Segments -> Text] /\ TextOK
    <3>1. [revision |-> 0, status |-> "none", length |-> 0, targets |-> {}] \in Text
      BY CoverageAssumption DEF Text
    <3>2. QED
      BY <3>1 DEF Init, TextOK
  <2>4. epoch \in 1..MaxEpoch /\ base \in Direction
    BY CoverageAssumption DEF Init, Direction
  <2>5. DirectionInv
    BY <2>1 DEF Init, DirectionInv, EpochsOrdered, DirectionFollowsAudio
  <2>6. TablesOK
    BY <2>1, <2>2, <2>3, <2>4, <2>5 DEF TablesOK
  <2>7. RowsInv /\ OwnersInv /\ PartitionInv
    BY <2>1 DEF RowsInv, OwnersInv, PartitionInv
  <2>8. QED
    BY <2>6, <2>7 DEF CoverageInv
<1>2. ASSUME CoverageInv, [Next]_vars PROVE CoverageInv'
  BY <1>2, TablesStep, RowsStep, OwnersStep, PartitionStep DEF CoverageInv
<1>3. QED
  BY <1>1, <1>2, PTL DEF Spec

(* Every variable holds rows of its table, for any number of segments,     *)
(* translations, languages, revisions, attempts and direction changes.     *)
THEOREM CoverageTypeOK == Spec => []TypeOK
<1>1. CoverageInv => TypeOK
  BY DEF CoverageInv, TablesOK, RowsInv, RowInv, TypeOK
<1>2. QED
  BY <1>1, CoverageInvariant, PTL

(* A row is stale exactly when its text or its direction is outdated: no   *)
(* current part is withheld from translation, no outdated part is offered. *)
THEOREM StaleTheorem == Spec => []StaleMeansOutdated
<1>1. CoverageInv => StaleMeansOutdated
  BY DEF CoverageInv, RowsInv, RowInv, StaleMeansOutdated
<1>2. QED
  BY <1>1, CoverageInvariant, PTL

(* Rows and attempts agree, so an open attempt can always be answered: no  *)
(* request takes a row of another, and no result is stored half.           *)
THEOREM OwnershipTheorem == Spec => []OwnershipExact
<1>1. CoverageInv => OwnershipExact
  BY DEF CoverageInv, RowsInv, RowInv, Backed, Claims, OwnersInv, Covers, OwnershipExact
<1>2. QED
  BY <1>1, CoverageInvariant, PTL

(* Every byte of every current text is in one row for each language, after *)
(* any number of claims, releases, corrections and changes of direction.   *)
THEOREM PartitionTheorem == Spec => []CoveragePartitionsText
<1>1. CoverageInv => CoveragePartitionsText
  BY PartitionCounts DEF CoverageInv
<1>2. QED
  BY <1>1, CoverageInvariant, PTL
=============================================================================
