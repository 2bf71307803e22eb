---------------------------- MODULE LedgerProofs ----------------------------
(***************************************************************************)
(* Proofs about SessionLedger for every number of tracks, segments, runs   *)
(* and revisions, and about FinalDelivery for every number of hosts and    *)
(* lost messages.  LedgerInv and DeliveryInv are inductive; the checked    *)
(* safety properties are their conjuncts or follow from them.              *)
(***************************************************************************)
EXTENDS FinalDelivery, TLAPS, SequenceTheorems

----------------------------------------------------------------------------
(* The ledger, called in any order.                                        *)


(* A session is completed exactly when its transcript is sealed. *)
CompletedIsSealed == sealed <=> state = "completed"

(* Captures are registered on existing tracks. *)
CapturesOnTracks == \A s \in Captured : captures[s].track \in tracks

LedgerInv ==
  /\ TypeOK
  /\ CompletedIsSealed
  /\ CapturesOnTracks
  /\ CaptureManifestExact
  /\ ResultsTraceable
  /\ SealedTranscriptWhole
  /\ IntegrityFlagHonest
  /\ AsrOnlyReplacesFailure
  /\ SettledRunsFrozen

----------------------------------------------------------------------------
(* The initial tables satisfy the invariant. *)
LEMMA InitLedgerInv == ASSUME Init PROVE LedgerInv
<1> USE LedgerAssumption DEF Init
<1>1. TypeOK
  <2>1. Captured \subseteq Segments /\ captures \in [Captured -> AudioRow]
    BY DEF Captured
  <2>2. revisions \in [Segments -> Seq(RevisionRow)]
    OBVIOUS
  <2>3. finals \in [Runs -> SUBSET FinalEvent]
    OBVIOUS
  <2>4. QED
    BY <2>1, <2>2, <2>3 DEF TypeOK, SessionState
<1>2. /\ CompletedIsSealed /\ CapturesOnTracks
      /\ CaptureManifestExact /\ SealedTranscriptWhole
  BY DEF CompletedIsSealed, CapturesOnTracks, Captured, CaptureManifestExact, ManifestStaysExact,
         ManifestListsEveryCapture, SealedTranscriptWhole
<1>3. ResultsTraceable /\ AsrOnlyReplacesFailure
  BY DEF ResultsTraceable, AsrOnlyReplacesFailure
<1>4. IntegrityFlagHonest
  BY DEF IntegrityFlagHonest, Defective, Captured
<1>5. SettledRunsFrozen
  BY DEF SettledRunsFrozen
<1>6. QED
  BY <1>1, <1>2, <1>3, <1>4, <1>5 DEF LedgerInv

(* A new track disturbs nothing: manifests name the tracks they found. *)
LEMMA CreateTrackInv ==
  ASSUME LedgerInv, NEW t \in Tracks, CreateTrack(t) PROVE LedgerInv'
<1> USE LedgerAssumption DEF LedgerInv, CreateTrack, lifecycleVars, sealVars
<1>1. TypeOK'
  BY DEF TypeOK, Captured
<1>2. /\ CompletedIsSealed' /\ CapturesOnTracks'
      /\ CaptureManifestExact' /\ SealedTranscriptWhole'
  BY DEF CompletedIsSealed, CapturesOnTracks, CaptureManifestExact, ManifestStaysExact,
         ManifestListsEveryCapture, SealedTranscriptWhole, Captured,
         CaptureStopped, Settled
<1>3. ResultsTraceable' /\ AsrOnlyReplacesFailure'
  BY DEF ResultsTraceable, AsrOnlyReplacesFailure, Captured
<1>4. IntegrityFlagHonest'
  BY DEF IntegrityFlagHonest, Defective, Captured, Current
<1>5. SettledRunsFrozen'
  BY DEF SettledRunsFrozen, IsLastSeq
<1>6. QED
  BY <1>1, <1>2, <1>3, <1>4, <1>5

(* No lifecycle command leaves completion, and an interruption only raises *)
(* the integrity flag.                                                     *)
LEMMA TransitionSessionInv ==
  ASSUME LedgerInv, NEW next \in SessionState, TransitionSession(next)
  PROVE  LedgerInv'
<1> USE LedgerAssumption DEF LedgerInv, TransitionSession, Permits, sealVars
<1>1. TypeOK'
  BY DEF TypeOK, Captured
<1>2. /\ CompletedIsSealed' /\ CapturesOnTracks'
      /\ CaptureManifestExact' /\ SealedTranscriptWhole'
  BY DEF CompletedIsSealed, CapturesOnTracks, CaptureManifestExact, ManifestStaysExact,
         ManifestListsEveryCapture, SealedTranscriptWhole, Captured,
         CaptureStopped, Settled
<1>3. ResultsTraceable' /\ AsrOnlyReplacesFailure'
  BY DEF ResultsTraceable, AsrOnlyReplacesFailure, Captured
<1>4. IntegrityFlagHonest'
  BY DEF IntegrityFlagHonest, Defective, Captured, Current, TypeOK,
         CompletedIsSealed
<1>5. SettledRunsFrozen'
  BY DEF SettledRunsFrozen, IsLastSeq
<1>6. QED
  BY <1>1, <1>2, <1>3, <1>4, <1>5

(* A segment is registered only while there is no manifest, hence no seal. *)
LEMMA RegisterCaptureInv ==
  ASSUME LedgerInv, NEW s \in Segments, NEW t \in Tracks,
         NEW end \in Nat, RegisterCapture(s, t, end)
  PROVE  LedgerInv'
<1> USE LedgerAssumption DEF LedgerInv, RegisterCapture, AcceptsCapture,
        CaptureRow, lifecycleVars, sealVars
<1>0. Captured' = Captured \cup {s} /\ captureSeals = {} /\ ~sealed
  BY DEF Captured, CaptureStopped, SealedTranscriptWhole
<1>1. TypeOK'
  <2>1. [track |-> t, endSample |-> end] \in AudioRow
    BY DEF AudioRow
  <2>2. \A x \in Captured : captures[x] \in AudioRow
    BY DEF TypeOK
  <2>3. captures' \in [Captured \cup {s} -> AudioRow]
    BY <2>1, <2>2
  <2>4. captures' \in [Captured' -> AudioRow] /\ Captured' \subseteq Segments
    BY <1>0, <2>3 DEF TypeOK
  <2>5. incomplete' \in BOOLEAN
    BY DEF Defective
  <2>6. captureSeals' = {}
    BY <1>0
  <2>7. QED
    BY <2>4, <2>5, <2>6 DEF TypeOK
<1>2. /\ CompletedIsSealed' /\ CapturesOnTracks'
      /\ CaptureManifestExact' /\ SealedTranscriptWhole'
  BY <1>0 DEF CompletedIsSealed, CapturesOnTracks, CaptureManifestExact, ManifestStaysExact,
         ManifestListsEveryCapture, SealedTranscriptWhole
<1>3. ResultsTraceable' /\ AsrOnlyReplacesFailure'
  BY <1>0 DEF ResultsTraceable, AsrOnlyReplacesFailure
<1>4. IntegrityFlagHonest'
  BY <1>0 DEF IntegrityFlagHonest, Defective, Current
<1>5. SettledRunsFrozen'
  BY DEF SettledRunsFrozen, IsLastSeq
<1>6. QED
  BY <1>1, <1>2, <1>3, <1>4, <1>5

(* A gap raises the integrity flag, and comes before any seal. *)
LEMMA RegisterGapInv ==
  ASSUME LedgerInv, NEW g \in Gaps, NEW t \in Tracks, RegisterGap(g, t)
  PROVE  LedgerInv'
<1> USE LedgerAssumption DEF LedgerInv, RegisterGap, AcceptsCapture,
        lifecycleVars, sealVars
<1>0. ~sealed
  BY DEF SealedTranscriptWhole
<1>1. TypeOK'
  BY DEF TypeOK, Captured
<1>2. /\ CompletedIsSealed' /\ CapturesOnTracks'
      /\ CaptureManifestExact' /\ SealedTranscriptWhole'
  BY <1>0 DEF CompletedIsSealed, CapturesOnTracks, CaptureManifestExact, ManifestStaysExact,
         ManifestListsEveryCapture, SealedTranscriptWhole, Captured
<1>3. ResultsTraceable' /\ AsrOnlyReplacesFailure'
  BY DEF ResultsTraceable, AsrOnlyReplacesFailure, Captured
<1>4. IntegrityFlagHonest'
  BY <1>0 DEF IntegrityFlagHonest
<1>5. SettledRunsFrozen'
  BY DEF SettledRunsFrozen, IsLastSeq
<1>6. QED
  BY <1>1, <1>2, <1>3, <1>4, <1>5

----------------------------------------------------------------------------
(* Appending a row: the current row is the new one, older rows stay. *)
LEMMA AppendedRows ==
  ASSUME NEW S, NEW rows \in Seq(S), NEW row \in S
  PROVE  /\ Append(rows, row) \in Seq(S)
         /\ Append(rows, row) # <<>>
         /\ Len(Append(rows, row)) = Len(rows) + 1
         /\ Append(rows, row)[Len(rows) + 1] = row
         /\ \A i \in 1..Len(rows) : Append(rows, row)[i] = rows[i]
         /\ rows # <<>> => Append(rows, row)[1] = rows[1]
         /\ rows = <<>> => Append(rows, row)[1] = row
  OBVIOUS

(* What both handlers that store a revision share: row becomes the current *)
(* row of s, everything else but the finals is unchanged, and finals only  *)
(* grow.  A first row is ASR's and traceable; a later ASR row supersedes a *)
(* failed ASR row.                                                         *)
LEMMA AppendRevisionInv ==
  ASSUME LedgerInv, NEW s \in Captured, NEW row \in RevisionRow,
         AppendRevision(s, row),
         UNCHANGED <<lifecycleVars, tracks, captures, gaps, sealVars>>,
         finals' \in [Runs -> SUBSET FinalEvent],
         \A r \in Runs : \A e \in finals[r] : e \in finals'[r],
         row.origin = "human" => row.run = NoRun /\ revisions[s] # <<>>,
         row.origin = "asr" => /\ row.run \in Runs
                               /\ \E e \in finals'[row.run] : e.segment = s
                               /\ \/ revisions[s] = <<>>
                                  \/ /\ Current(revisions[s]).origin = "asr"
                                     /\ Current(revisions[s]).status = "failed"
  PROVE  /\ TypeOK' /\ CompletedIsSealed' /\ CapturesOnTracks'
         /\ CaptureManifestExact' /\ ResultsTraceable' /\ SealedTranscriptWhole'
         /\ IntegrityFlagHonest' /\ AsrOnlyReplacesFailure'
<1> USE LedgerAssumption DEF LedgerInv
<1>1. UNCHANGED <<state, sealed, tracks, captures, gaps, producerSeals,
                  reconciliations, captureSeals, Captured, CaptureStopped>>
  BY DEF lifecycleVars, sealVars, Captured, CaptureStopped
<1>2. /\ revisions \in [Segments -> Seq(RevisionRow)]
      /\ s \in Segments
      /\ revisions' = [revisions EXCEPT ![s] = Append(@, row)]
      /\ incomplete' = Defective(gaps, Captured, revisions')
  BY DEF TypeOK, AppendRevision
<1>3. /\ \A x \in Segments : x # s => revisions'[x] = revisions[x]
      /\ revisions'[s] # <<>>
      /\ Len(revisions[s]) \in Nat
      /\ Len(revisions'[s]) = Len(revisions[s]) + 1
      /\ revisions'[s][Len(revisions[s]) + 1] = row
      /\ \A i \in 1..Len(revisions[s]) : revisions'[s][i] = revisions[s][i]
      /\ revisions[s] # <<>> => revisions'[s][1] = revisions[s][1]
      /\ revisions[s] = <<>> => revisions'[s][1] = row
  <2>1. revisions[s] \in Seq(RevisionRow) /\ revisions'[s] = Append(revisions[s], row)
    BY <1>2
  <2>2. \A x \in Segments : x # s => revisions'[x] = revisions[x]
    BY <1>2
  <2>3. QED
    BY <2>1, <2>2, AppendedRows
<1>4. row.origin \in {"asr", "human"}
  BY DEF RevisionRow
<1>5. TypeOK'
  <2>1. revisions' \in [Segments -> Seq(RevisionRow)]
    BY <1>2, AppendedRows
  <2>2. incomplete' \in BOOLEAN
    BY <1>2 DEF Defective
  <2>3. QED
    BY <1>1, <2>1, <2>2 DEF TypeOK
<1>6. CompletedIsSealed' /\ CapturesOnTracks' /\ CaptureManifestExact'
  BY <1>1 DEF CompletedIsSealed, CapturesOnTracks, CaptureManifestExact, ManifestStaysExact,
              ManifestListsEveryCapture
<1>7. ResultsTraceable'
  <2> SUFFICES ASSUME NEW x \in Segments
               PROVE  /\ revisions'[x] # <<>> =>
                           x \in Captured' /\ revisions'[x][1].origin = "asr"
                      /\ \A i \in 1..Len(revisions'[x]) :
                           IF revisions'[x][i].origin = "human"
                           THEN revisions'[x][i].run = NoRun
                           ELSE /\ revisions'[x][i].run \in Runs
                                /\ \E e \in finals'[revisions'[x][i].run] : e.segment = x
    BY DEF ResultsTraceable
  <2>1. CASE x # s
    <3>1. revisions'[x] = revisions[x]
      BY <2>1, <1>3
    <3>2. revisions[x] # <<>> => x \in Captured' /\ revisions[x][1].origin = "asr"
      BY <1>1 DEF ResultsTraceable
    <3>3. ASSUME NEW i \in 1..Len(revisions[x])
          PROVE  IF revisions[x][i].origin = "human"
                 THEN revisions[x][i].run = NoRun
                 ELSE /\ revisions[x][i].run \in Runs
                      /\ \E e \in finals'[revisions[x][i].run] : e.segment = x
      BY DEF ResultsTraceable
    <3>4. QED
      BY <3>1, <3>2, <3>3
  <2>2. CASE x = s
    <3>1. revisions'[s][1].origin = "asr"
      BY <1>2, <1>3, <1>4 DEF ResultsTraceable
    <3>2. ASSUME NEW i \in 1..Len(revisions'[s])
          PROVE  IF revisions'[s][i].origin = "human"
                 THEN revisions'[s][i].run = NoRun
                 ELSE /\ revisions'[s][i].run \in Runs
                      /\ \E e \in finals'[revisions'[s][i].run] : e.segment = s
      <4>1. CASE i = Len(revisions[s]) + 1
        BY <4>1, <1>3, <1>4
      <4>2. CASE i # Len(revisions[s]) + 1
        <5>1. i \in 1..Len(revisions[s]) /\ revisions'[s][i] = revisions[s][i]
          BY <4>2, <1>3
        <5>2. IF revisions[s][i].origin = "human"
              THEN revisions[s][i].run = NoRun
              ELSE /\ revisions[s][i].run \in Runs
                   /\ \E e \in finals[revisions[s][i].run] : e.segment = s
          BY <5>1, <1>2 DEF ResultsTraceable
        <5>3. QED
          BY <5>1, <5>2
      <4>3. QED
        BY <4>1, <4>2
    <3>3. QED
      BY <2>2, <3>1, <3>2, <1>1
  <2>3. QED
    BY <2>1, <2>2
<1>8. SealedTranscriptWhole'
  <2>1. CASE ~sealed
    BY <2>1, <1>1 DEF SealedTranscriptWhole
  <2>2. CASE sealed
    <3>1. CaptureStopped'
      BY <2>2, <1>1 DEF SealedTranscriptWhole
    <3>2. ASSUME NEW x \in Captured
          PROVE  /\ revisions'[x] # <<>>
                 /\ revisions'[x][1].origin = "asr"
                 /\ Settled(revisions[x][1].run)'
      <4>1. /\ revisions[x] # <<>>
            /\ revisions[x][1].origin = "asr"
            /\ Settled(revisions[x][1].run)
        BY <2>2 DEF SealedTranscriptWhole
      <4>2. revisions'[x] # <<>> /\ revisions'[x][1] = revisions[x][1]
        BY <4>1, <1>3 DEF TypeOK
      <4>3. QED
        BY <4>1, <4>2, <1>1 DEF Settled
    <3>3. QED
      BY <3>1, <3>2, <1>1 DEF SealedTranscriptWhole
  <2>3. QED
    BY <2>1, <2>2
<1>9. IntegrityFlagHonest'
  BY <1>1, <1>2 DEF IntegrityFlagHonest, Defective, Current
<1>10. AsrOnlyReplacesFailure'
  <2>1. ASSUME NEW x \in Segments, NEW i \in 1..Len(revisions'[x]),
               revisions'[x][i].origin = "asr", i # 1
        PROVE  revisions'[x][i - 1].origin = "asr" /\ revisions'[x][i - 1].status = "failed"
    <3>0. revisions[x] \in Seq(RevisionRow) /\ Len(revisions[x]) \in Nat
      BY <1>2
    <3>1. CASE i \in 1..Len(revisions[x])
      <4>1. i - 1 \in 1..Len(revisions[x])
        BY <3>0, <3>1, <2>1
      <4>2. revisions'[x][i] = revisions[x][i] /\ revisions'[x][i - 1] = revisions[x][i - 1]
        BY <4>1, <3>1, <1>3
      <4>3. QED
        BY <4>2, <3>1, <2>1 DEF AsrOnlyReplacesFailure
    <3>2. CASE i \notin 1..Len(revisions[x])
      <4>1. x = s /\ i = Len(revisions[s]) + 1
        BY <3>0, <3>2, <2>1, <1>3
      <4>2. revisions[s] # <<>> /\ i - 1 \in 1..Len(revisions[s])
        BY <4>1, <2>1, <1>3, <1>2
      <4>3. revisions'[s][i - 1] = revisions[s][Len(revisions[s])]
        BY <4>1, <4>2, <1>3
      <4>4. QED
        BY <4>1, <4>2, <4>3, <2>1, <1>3 DEF Current
    <3>3. QED
      BY <3>1, <3>2
  <2>2. QED
    BY <2>1 DEF AsrOnlyReplacesFailure
<1>11. QED
  BY <1>5, <1>6, <1>7, <1>8, <1>9, <1>10

(* A final is stored together with its revision, under a run that is not   *)
(* settled.                                                                *)
LEMMA IngestFinalInv ==
  ASSUME LedgerInv, NEW producer \in Runs, NEW number \in Nat, NEW s \in Segments,
         NEW revision \in Nat, NEW status \in Statuses,
         IngestFinal(producer, number, s, revision, status)
  PROVE  LedgerInv'
<1> DEFINE row == [status |-> status, origin |-> "asr", run |-> producer]
<1> DEFINE event == [seq |-> number, segment |-> s]
<1> USE LedgerAssumption
<1>1. /\ finals \in [Runs -> SUBSET FinalEvent]
      /\ finals' = [finals EXCEPT ![producer] = @ \cup {event}]
      /\ event \in FinalEvent
      /\ row \in RevisionRow
  BY DEF LedgerInv, TypeOK, IngestFinal, FinalEvent, RevisionRow
<1>2. /\ finals' \in [Runs -> SUBSET FinalEvent]
      /\ \A r \in Runs : \A e \in finals[r] : e \in finals'[r]
      /\ event \in finals'[producer] /\ event.segment = s
  BY <1>1
<1>3. /\ s \in Captured
      /\ ~Settled(producer)
      /\ SupersedesFailure(s, revision)
      /\ AppendRevision(s, row)
      /\ UNCHANGED <<lifecycleVars, tracks, captures, gaps, sealVars>>
  BY DEF IngestFinal, FreshEvent
<1>4. /\ TypeOK' /\ CompletedIsSealed' /\ CapturesOnTracks' /\ CaptureManifestExact'
      /\ ResultsTraceable' /\ SealedTranscriptWhole'
      /\ IntegrityFlagHonest' /\ AsrOnlyReplacesFailure'
  BY <1>1, <1>2, <1>3, AppendRevisionInv DEF SupersedesFailure
<1>5. SettledRunsFrozen'
  <2>1. \A p \in producerSeals : p.run \in Runs /\ finals'[p.run] = finals[p.run]
    BY <1>1, <1>3 DEF LedgerInv, TypeOK, Settled
  <2>2. \A p \in reconciliations : p.run \in Runs /\ finals'[p.run] = finals[p.run]
    BY <1>1, <1>3 DEF LedgerInv, TypeOK, Settled
  <2>3. QED
    BY <2>1, <2>2, <1>3 DEF LedgerInv, SettledRunsFrozen, IsLastSeq, sealVars
<1>6. QED
  BY <1>4, <1>5 DEF LedgerInv

(* An operator's row follows an existing row and names no run. *)
LEMMA ReviseTranscriptInv ==
  ASSUME LedgerInv, NEW s \in Segments, NEW expected \in Nat,
         ReviseTranscript(s, expected)
  PROVE  LedgerInv'
<1>1. HumanRow \in RevisionRow /\ HumanRow.origin = "human" /\ HumanRow.run = NoRun
  BY DEF HumanRow, RevisionRow
<1>2. /\ s \in Captured
      /\ revisions[s] # <<>>
      /\ AppendRevision(s, HumanRow)
      /\ UNCHANGED <<lifecycleVars, tracks, captures, gaps, finals, sealVars>>
  BY DEF ReviseTranscript
<1>3. finals \in [Runs -> SUBSET FinalEvent]
  BY DEF LedgerInv, TypeOK
<1>4. /\ TypeOK' /\ CompletedIsSealed' /\ CapturesOnTracks' /\ CaptureManifestExact'
      /\ ResultsTraceable' /\ SealedTranscriptWhole'
      /\ IntegrityFlagHonest' /\ AsrOnlyReplacesFailure'
  BY <1>1, <1>2, <1>3, AppendRevisionInv
<1>5. SettledRunsFrozen'
  BY <1>2 DEF LedgerInv, SettledRunsFrozen, IsLastSeq, sealVars
<1>6. QED
  BY <1>4, <1>5 DEF LedgerInv

----------------------------------------------------------------------------
(* The manifest is checked against the captured segments when it is        *)
(* accepted, and the session is not completed by it.                       *)
LEMMA StopCaptureInv ==
  ASSUME LedgerInv, NEW declared \in [tracks -> SUBSET Segments],
         NEW finalSample \in [tracks -> Nat],
         StopCapture(declared, finalSample)
  PROVE  LedgerInv'
<1> DEFINE manifest == [segments |-> declared, finalSample |-> finalSample]
<1> USE LedgerAssumption DEF LedgerInv
<1>1. /\ UNCHANGED <<sealed, tracks, captures, revisions, gaps, finals,
                     producerSeals, reconciliations, Captured>>
      /\ state' = "draining" /\ captureSeals' = {manifest}
      /\ incomplete' = Defective(gaps, Captured, revisions)
      /\ captureSeals = {} /\ ~sealed
  BY DEF StopCapture, Captured, CaptureStopped, SealedTranscriptWhole
<1>2. \A t \in tracks :
        /\ declared[t] = {s \in Captured : captures[s].track = t}
        /\ \A s \in declared[t] : captures[s].endSample <= finalSample[t]
  BY DEF StopCapture
<1>3. TypeOK'
  <2>1. incomplete' \in BOOLEAN
    BY <1>1 DEF Defective
  <2>2. \A c \in captureSeals' : /\ DOMAIN c.segments \subseteq tracks
                                 /\ DOMAIN c.finalSample = DOMAIN c.segments
    BY <1>1
  <2>3. QED
    BY <1>1, <2>1, <2>2 DEF TypeOK, SessionState
<1>4. CompletedIsSealed' /\ SealedTranscriptWhole'
  BY <1>1 DEF CompletedIsSealed, SealedTranscriptWhole
<1>5. CaptureManifestExact'
  <2>1. \A s \in Captured : captures[s].track \in tracks
    BY DEF CapturesOnTracks
  <2>2. ManifestListsEveryCapture'
    BY <2>1, <1>1 DEF ManifestListsEveryCapture
  <2>3. ManifestStaysExact'
    BY <1>1, <1>2 DEF ManifestStaysExact, TypeOK
  <2>4. QED
    BY <2>2, <2>3 DEF CaptureManifestExact
<1>6. ResultsTraceable' /\ AsrOnlyReplacesFailure'
  BY <1>1 DEF ResultsTraceable, AsrOnlyReplacesFailure
<1>7. IntegrityFlagHonest' /\ SettledRunsFrozen' /\ CapturesOnTracks'
  BY <1>1 DEF IntegrityFlagHonest, Defective, Current, SettledRunsFrozen, IsLastSeq,
              CapturesOnTracks
<1>8. QED
  BY <1>3, <1>4, <1>5, <1>6, <1>7

(* A run is sealed once, with its last sequence number and its segments. *)
LEMMA SealProducerInv ==
  ASSUME LedgerInv, NEW producer \in Runs, NEW finalSeq \in Nat,
         NEW segs \in SUBSET Segments, SealProducer(producer, finalSeq, segs)
  PROVE  LedgerInv'
<1> USE LedgerAssumption DEF LedgerInv
<1>1. /\ UNCHANGED <<state, incomplete, sealed, tracks, captures, revisions, gaps,
                     finals, reconciliations, captureSeals, Captured, CaptureStopped>>
      /\ producerSeals' = producerSeals \cup
           {[run |-> producer, finalSeq |-> finalSeq, segments |-> segs]}
  BY DEF SealProducer, lifecycleVars, Captured, CaptureStopped
<1>2. /\ ~Settled(producer) /\ IsLastSeq(producer, finalSeq)
      /\ segs = {e.segment : e \in finals[producer]}
  BY DEF SealProducer
<1>3. TypeOK'
  BY <1>1 DEF TypeOK
<1>4. CompletedIsSealed' /\ CaptureManifestExact' /\ CapturesOnTracks'
  BY <1>1 DEF CompletedIsSealed, CaptureManifestExact, ManifestStaysExact,
              ManifestListsEveryCapture, CapturesOnTracks
<1>5. ResultsTraceable' /\ AsrOnlyReplacesFailure' /\ IntegrityFlagHonest'
  BY <1>1 DEF ResultsTraceable, AsrOnlyReplacesFailure, IntegrityFlagHonest,
              Defective, Current
<1>6. SealedTranscriptWhole'
  BY <1>1 DEF SealedTranscriptWhole, Settled
<1>7. SettledRunsFrozen'
  <2>1. ASSUME NEW p \in producerSeals'
        PROVE  /\ IsLastSeq(p.run, p.finalSeq)
               /\ p.segments = {e.segment : e \in finals[p.run]}
               /\ \A q \in producerSeals' : q.run = p.run => q = p
    <3>1. CASE p \in producerSeals
      <4>1. p.run # producer
        BY <3>1, <1>2 DEF Settled
      <4>2. QED
        BY <3>1, <4>1, <1>1 DEF SettledRunsFrozen
    <3>2. CASE p \notin producerSeals
      <4>1. p = [run |-> producer, finalSeq |-> finalSeq, segments |-> segs]
        BY <3>2, <2>1, <1>1
      <4>2. p.run = producer /\ p.finalSeq = finalSeq /\ p.segments = segs
        BY <4>1
      <4>3. \A q \in producerSeals' : q.run = producer => q = p
        BY <4>1, <1>1, <1>2 DEF Settled
      <4>4. QED
        BY <4>2, <4>3, <1>2
    <3>3. QED
      BY <3>1, <3>2
  <2>2. ASSUME NEW p \in reconciliations
        PROVE  /\ IsLastSeq(p.run, p.finalSeq)
               /\ \A q \in reconciliations : q.run = p.run => q = p
               /\ \A q \in producerSeals' : q.run # p.run
    BY <1>1, <1>2 DEF SettledRunsFrozen, Settled
  <2>3. QED
    BY <1>1, <2>1, <2>2 DEF SettledRunsFrozen, IsLastSeq
<1>8. QED
  BY <1>3, <1>4, <1>5, <1>6, <1>7

(* A run the host reconciles was not sealed, and is not sealed later. *)
LEMMA ReconcileInv ==
  ASSUME LedgerInv, NEW producer \in Runs, NEW finalSeq \in Nat,
         ReconcileAbandonedProducer(producer, finalSeq)
  PROVE  LedgerInv'
<1> USE LedgerAssumption DEF LedgerInv
<1>1. /\ UNCHANGED <<state, incomplete, sealed, tracks, captures, revisions, gaps,
                     finals, producerSeals, captureSeals, Captured, CaptureStopped>>
      /\ reconciliations' = reconciliations \cup {[run |-> producer, finalSeq |-> finalSeq]}
  BY DEF ReconcileAbandonedProducer, lifecycleVars, Captured, CaptureStopped
<1>2. ~Settled(producer) /\ IsLastSeq(producer, finalSeq)
  BY DEF ReconcileAbandonedProducer
<1>3. TypeOK'
  BY <1>1 DEF TypeOK
<1>4. CompletedIsSealed' /\ CaptureManifestExact' /\ CapturesOnTracks'
  BY <1>1 DEF CompletedIsSealed, CaptureManifestExact, ManifestStaysExact,
              ManifestListsEveryCapture, CapturesOnTracks
<1>5. ResultsTraceable' /\ AsrOnlyReplacesFailure' /\ IntegrityFlagHonest'
  BY <1>1 DEF ResultsTraceable, AsrOnlyReplacesFailure, IntegrityFlagHonest,
              Defective, Current
<1>6. SealedTranscriptWhole'
  BY <1>1 DEF SealedTranscriptWhole, Settled
<1>7. SettledRunsFrozen'
  BY <1>1, <1>2 DEF SettledRunsFrozen, IsLastSeq, Settled
<1>8. QED
  BY <1>3, <1>4, <1>5, <1>6, <1>7

(* At the transcript seal every segment has a row; the run of its first    *)
(* row stored a final, so it is one of the runs the seal found settled.    *)
LEMMA SealTranscriptInv == ASSUME LedgerInv, SealTranscript PROVE LedgerInv'
<1> USE LedgerAssumption DEF LedgerInv
<1>1. /\ UNCHANGED <<tracks, captures, revisions, gaps, finals, producerSeals,
                     reconciliations, captureSeals, Captured, CaptureStopped>>
      /\ state' = "completed" /\ sealed'
      /\ incomplete' = Defective(gaps, Captured, revisions)
  BY DEF SealTranscript, sealVars, Captured, CaptureStopped
<1>2. TypeOK'
  BY <1>1 DEF TypeOK, SessionState, Defective
<1>3. CompletedIsSealed' /\ CaptureManifestExact' /\ CapturesOnTracks'
  BY <1>1 DEF CompletedIsSealed, CaptureManifestExact, ManifestStaysExact,
              ManifestListsEveryCapture, CapturesOnTracks
<1>4. ResultsTraceable' /\ AsrOnlyReplacesFailure' /\ SettledRunsFrozen'
  BY <1>1 DEF ResultsTraceable, AsrOnlyReplacesFailure, SettledRunsFrozen, IsLastSeq
<1>5. IntegrityFlagHonest'
  BY <1>1 DEF IntegrityFlagHonest, Defective, Current
<1>6. SealedTranscriptWhole'
  <2>1. CaptureStopped /\ UnsealedRuns = {} /\ \A s \in Captured : revisions[s] # <<>>
    BY DEF SealTranscript
  <2>2. ASSUME NEW s \in Captured
        PROVE  revisions[s][1].origin = "asr" /\ Settled(revisions[s][1].run)
    <3>1. s \in Segments /\ 1 \in 1..Len(revisions[s])
      BY <2>1 DEF TypeOK
    <3>2. /\ revisions[s][1].origin = "asr"
          /\ revisions[s][1].run \in Runs
          /\ finals[revisions[s][1].run] # {}
      BY <2>1, <3>1 DEF ResultsTraceable
    <3>3. QED
      BY <2>1, <3>2 DEF UnsealedRuns
  <2>3. QED
    BY <2>1, <2>2, <1>1 DEF SealedTranscriptWhole, Settled
<1>7. QED
  BY <1>2, <1>3, <1>4, <1>5, <1>6

----------------------------------------------------------------------------
(* The handlers without the bounds that keep the ledger finite for TLC.    *)
LedgerStep ==
  \/ \E t \in Tracks : CreateTrack(t)
  \/ \E next \in SessionState : TransitionSession(next)
  \/ \E s \in Segments, t \in Tracks, end \in Nat : RegisterCapture(s, t, end)
  \/ \E g \in Gaps, t \in Tracks : RegisterGap(g, t)
  \/ \E producer \in Runs, number \in Nat, s \in Segments, revision \in Nat,
        status \in Statuses : IngestFinal(producer, number, s, revision, status)
  \/ \E s \in Segments, expected \in Nat : ReviseTranscript(s, expected)
  \/ \E declared \in [tracks -> SUBSET Segments], finalSample \in [tracks -> Nat] :
        StopCapture(declared, finalSample)
  \/ \E producer \in Runs, finalSeq \in Nat, segs \in SUBSET Segments :
        SealProducer(producer, finalSeq, segs)
  \/ \E producer \in Runs, finalSeq \in Nat :
        ReconcileAbandonedProducer(producer, finalSeq)
  \/ SealTranscript

(* A bounded step is a step. *)
LEMMA BoundedSteps == ASSUME Next PROVE LedgerStep
<1> USE LedgerAssumption
<1>1. CASE \E t \in Tracks : CreateTrack(t)
  BY <1>1 DEF LedgerStep
<1>2. CASE \/ \E next \in SessionState : TransitionSession(next)
           \/ RecoverInterrupted
  <2>1. "interrupted" \in SessionState
    BY DEF SessionState
  <2>2. QED
    BY <1>2, <2>1 DEF LedgerStep, RecoverInterrupted
<1>3. CASE \E s \in Segments, t \in Tracks, end \in 1..MaxSample : RegisterCapture(s, t, end)
  BY <1>3 DEF LedgerStep
<1>4. CASE \E g \in Gaps, t \in Tracks : RegisterGap(g, t)
  BY <1>4 DEF LedgerStep
<1>5. ASSUME NEW producer \in Runs, NEW number \in 1..MaxSeq, NEW s \in Segments,
             NEW revision \in 1..MaxRevision, NEW status \in Statuses,
             IngestFinal(producer, number, s, revision, status)
      PROVE  LedgerStep
  <2>1. number \in Nat /\ revision \in Nat
    OBVIOUS
  <2>2. QED
    BY <1>5, <2>1 DEF LedgerStep
<1>6. CASE \E s \in Segments, expected \in 1..(MaxRevision - 1) : ReviseTranscript(s, expected)
  BY <1>6 DEF LedgerStep
<1>7. ASSUME NEW declared \in [tracks -> SUBSET Segments],
             NEW finalSample \in [tracks -> 0..MaxSample], StopCapture(declared, finalSample)
      PROVE  LedgerStep
  <2>1. finalSample \in [tracks -> Nat]
    OBVIOUS
  <2>2. QED
    BY <1>7, <2>1 DEF LedgerStep
<1>8. CASE \E producer \in Runs, finalSeq \in 0..MaxSeq, segs \in SUBSET Segments :
             SealProducer(producer, finalSeq, segs)
  BY <1>8 DEF LedgerStep
<1>9. CASE \E producer \in Runs, finalSeq \in 0..MaxSeq :
             ReconcileAbandonedProducer(producer, finalSeq)
  BY <1>9 DEF LedgerStep
<1>10. CASE SealTranscript
  BY <1>10 DEF LedgerStep
<1>11. QED
  BY <1>1, <1>2, <1>3, <1>4, <1>5, <1>6, <1>7, <1>8, <1>9, <1>10 DEF Next

(* Every step preserves the invariant. *)
LEMMA StepLedgerInv == ASSUME LedgerInv, [LedgerStep]_vars PROVE LedgerInv'
<1>1. CASE UNCHANGED vars
  BY <1>1 DEF vars, LedgerInv, TypeOK, CompletedIsSealed, CaptureManifestExact,
     ManifestStaysExact, ManifestListsEveryCapture, CapturesOnTracks,
     ResultsTraceable, SealedTranscriptWhole, IntegrityFlagHonest,
     AsrOnlyReplacesFailure, SettledRunsFrozen, IsLastSeq, Settled, Captured,
     CaptureStopped, Defective, Current
<1>2. CASE LedgerStep
  BY <1>2, CreateTrackInv, TransitionSessionInv, RegisterCaptureInv,
     RegisterGapInv, IngestFinalInv, ReviseTranscriptInv, StopCaptureInv,
     SealProducerInv, ReconcileInv, SealTranscriptInv
     DEF LedgerStep
<1>3. QED
  BY <1>1, <1>2

(* The inductive invariant holds in every state of the ledger. *)
THEOREM LedgerInvariant == Spec => []LedgerInv
<1>1. Init => LedgerInv
  BY InitLedgerInv
<1>2. LedgerInv /\ [Next]_vars => LedgerInv'
  BY StepLedgerInv, BoundedSteps
<1>3. QED
  BY <1>1, <1>2, PTL DEF Spec

(* Every table holds rows of its type, for any number of ids. *)
THEOREM LedgerTypeOK == Spec => []TypeOK
<1>1. LedgerInv => TypeOK
  BY DEF LedgerInv
<1>2. QED
  BY <1>1, LedgerInvariant, PTL

(* An accepted capture manifest describes the captured audio for good. *)
THEOREM ManifestTheorem == Spec => []CaptureManifestExact
<1>1. LedgerInv => CaptureManifestExact
  BY DEF LedgerInv
<1>2. QED
  BY <1>1, LedgerInvariant, PTL

(* A sealed transcript has a settled result for every captured segment,    *)
(* whatever interleaving of host, ASR runs, operator and restarts led to   *)
(* it and whatever is still delivered afterwards.                          *)
THEOREM SealedWholeTheorem == Spec => []SealedTranscriptWhole
<1>1. LedgerInv => SealedTranscriptWhole
  BY DEF LedgerInv
<1>2. QED
  BY <1>1, LedgerInvariant, PTL

(* The stored integrity flag never hides a gap, a missing or a failed      *)
(* result.                                                                 *)
THEOREM IntegrityTheorem == Spec => []IntegrityFlagHonest
<1>1. LedgerInv => IntegrityFlagHonest
  BY DEF LedgerInv
<1>2. QED
  BY <1>1, LedgerInvariant, PTL

(* Every text is traceable and ASR only ever replaces an ASR failure. *)
THEOREM RevisionTheorem == Spec => [](ResultsTraceable /\ AsrOnlyReplacesFailure)
<1>1. LedgerInv => ResultsTraceable /\ AsrOnlyReplacesFailure
  BY DEF LedgerInv
<1>2. QED
  BY <1>1, LedgerInvariant, PTL

(* A settled run stays as it was declared and is settled once. *)
THEOREM SettledTheorem == Spec => []SettledRunsFrozen
<1>1. LedgerInv => SettledRunsFrozen
  BY DEF LedgerInv
<1>2. QED
  BY <1>1, LedgerInvariant, PTL

(* No handler leaves a completed session or changes what it closed. *)
LEMMA SealedForGood ==
  ASSUME LedgerInv, [LedgerStep]_vars, sealed
  PROVE  /\ sealed' /\ state' = "completed"
         /\ captures' = captures /\ gaps' = gaps
         /\ captureSeals' = captureSeals
<1>1. state = "completed" /\ CaptureStopped
  BY DEF LedgerInv, CompletedIsSealed, SealedTranscriptWhole
<1>2. QED
  BY <1>1 DEF LedgerStep, vars, lifecycleVars, sealVars, CreateTrack,
     TransitionSession, Permits, RegisterCapture,
     RegisterGap, AcceptsCapture, IngestFinal, ReviseTranscript, StopCapture,
     SealProducer, ReconcileAbandonedProducer, SealTranscript

(* Completion is final. *)
THEOREM CompletionTheorem == Spec => CompletionIsFinal
<1>1. ASSUME LedgerInv, [Next]_vars, sealed
      PROVE  /\ sealed' /\ state' = "completed"
             /\ captures' = captures /\ gaps' = gaps
             /\ captureSeals' = captureSeals
  BY <1>1, SealedForGood, BoundedSteps
<1>2. QED
  BY <1>1, LedgerInvariant, PTL DEF Spec, CompletionIsFinal

----------------------------------------------------------------------------
(* Refinement: every handler is an archive step or changes nothing the     *)
(* archive shows.                                                          *)

(* A handler that leaves these alone is a stuttering step of the archive. *)
LEMMA ArchiveStutter ==
  ASSUME UNCHANGED <<CaptureStopped, Captured, revisions, sealed>>
  PROVE  UNCHANGED Archive!archiveVars
  BY DEF Archive!archiveVars, BestResult, Current

(* A stored row improves the current result of its segment. *)
LEMMA AppendImproves ==
  ASSUME LedgerInv, NEW s \in Captured, NEW row \in RevisionRow,
         AppendRevision(s, row),
         UNCHANGED <<CaptureStopped, Captured, sealed>>,
         row.origin = "human" => revisions[s] # <<>>,
         row.origin = "asr" => \/ revisions[s] = <<>>
                               \/ /\ Current(revisions[s]).origin = "asr"
                                  /\ Current(revisions[s]).status = "failed"
  PROVE  Archive!ArchiveNext
<1> DEFINE old == BestResult(revisions[s])
           new == BestResult(revisions'[s])
<1>1. /\ s \in Segments
      /\ revisions \in [Segments -> Seq(RevisionRow)]
      /\ revisions' = [revisions EXCEPT ![s] = Append(@, row)]
  BY DEF LedgerInv, TypeOK, AppendRevision
<1>2. revisions'[s] # <<>> /\ Current(revisions'[s]) = row
  <2>1. revisions[s] \in Seq(RevisionRow) /\ revisions'[s] = Append(revisions[s], row)
    BY <1>1
  <2>2. QED
    BY <2>1, AppendedRows DEF Current
<1>3. [x \in Segments |-> BestResult(revisions'[x])] =
        [[x \in Segments |-> BestResult(revisions[x])] EXCEPT ![s] = new]
  BY <1>1
<1>4. row.origin \in {"asr", "human"} /\ row.status \in {"success", "empty", "failed"}
  BY DEF RevisionRow
<1>5. revisions[s] # <<>> => Current(revisions[s]) \in RevisionRow
  BY <1>1 DEF Current
<1>6. new \in Archive!Improvements(old) /\ new \in Archive!Results
  BY <1>2, <1>4, <1>5 DEF BestResult, Archive!Improvements, Archive!Results, RevisionRow
<1>7. Archive!Improve(s, new)
  BY <1>1, <1>3, <1>6 DEF Archive!Improve
<1>8. QED
  BY <1>1, <1>6, <1>7 DEF Archive!ArchiveNext

(* Every step of the ledger is a step or a stutter of the archive. *)
LEMMA StepRefines ==
  ASSUME LedgerInv, [LedgerStep]_vars
  PROVE  [Archive!ArchiveNext]_(Archive!archiveVars)
<1>1. CASE UNCHANGED vars
  BY <1>1, ArchiveStutter DEF vars, CaptureStopped, Captured
<1>2. ASSUME NEW t \in Tracks, CreateTrack(t) PROVE UNCHANGED Archive!archiveVars
  BY <1>2, ArchiveStutter DEF CreateTrack, lifecycleVars, sealVars, CaptureStopped, Captured
<1>3. ASSUME NEW next \in SessionState, TransitionSession(next)
      PROVE  UNCHANGED Archive!archiveVars
  BY <1>3, ArchiveStutter DEF TransitionSession, sealVars, CaptureStopped, Captured
<1>4. ASSUME NEW s \in Segments, NEW t \in Tracks, NEW end \in Nat,
             RegisterCapture(s, t, end)
      PROVE  Archive!ArchiveNext
  <2>1. /\ Captured' = Captured \cup {s} /\ s \notin Captured /\ ~CaptureStopped
        /\ UNCHANGED <<CaptureStopped, revisions, sealed>>
    BY <1>4 DEF RegisterCapture, AcceptsCapture, lifecycleVars, sealVars,
                CaptureStopped, Captured
  <2>2. Archive!Announce(s)
    BY <2>1 DEF Archive!Announce
  <2>3. QED
    BY <2>2 DEF Archive!ArchiveNext
<1>5. ASSUME NEW g \in Gaps, NEW t \in Tracks, RegisterGap(g, t)
      PROVE  UNCHANGED Archive!archiveVars
  BY <1>5, ArchiveStutter DEF RegisterGap, lifecycleVars, sealVars, CaptureStopped, Captured
<1>6. ASSUME NEW producer \in Runs, NEW number \in Nat, NEW s \in Segments,
             NEW revision \in Nat, NEW status \in Statuses,
             IngestFinal(producer, number, s, revision, status)
      PROVE  Archive!ArchiveNext
  <2> DEFINE row == [status |-> status, origin |-> "asr", run |-> producer]
  <2>1. row \in RevisionRow
    BY LedgerAssumption DEF RevisionRow
  <2>2. /\ s \in Captured /\ AppendRevision(s, row) /\ SupersedesFailure(s, revision)
        /\ UNCHANGED <<CaptureStopped, Captured, sealed>>
    BY <1>6 DEF IngestFinal, lifecycleVars, sealVars, CaptureStopped, Captured
  <2>3. QED
    BY <2>1, <2>2, AppendImproves DEF SupersedesFailure
<1>7. ASSUME NEW s \in Segments, NEW expected \in Nat,
             ReviseTranscript(s, expected)
      PROVE  Archive!ArchiveNext
  <2>1. HumanRow \in RevisionRow /\ HumanRow.origin = "human"
    BY DEF HumanRow, RevisionRow
  <2>2. /\ s \in Captured /\ AppendRevision(s, HumanRow) /\ revisions[s] # <<>>
        /\ UNCHANGED <<CaptureStopped, Captured, sealed>>
    BY <1>7 DEF ReviseTranscript, lifecycleVars, sealVars, CaptureStopped, Captured
  <2>3. QED
    BY <2>1, <2>2, AppendImproves
<1>8. ASSUME NEW declared \in [tracks -> SUBSET Segments],
             NEW finalSample \in [tracks -> Nat],
             StopCapture(declared, finalSample)
      PROVE  Archive!ArchiveNext
  <2>1. ~CaptureStopped /\ CaptureStopped' /\ UNCHANGED <<Captured, revisions, sealed>>
    BY <1>8 DEF StopCapture, CaptureStopped, Captured
  <2>2. Archive!StopAnnouncing
    BY <2>1 DEF Archive!StopAnnouncing
  <2>3. QED
    BY <2>2 DEF Archive!ArchiveNext
<1>9. ASSUME NEW producer \in Runs, NEW finalSeq \in Nat, NEW segs \in SUBSET Segments,
             SealProducer(producer, finalSeq, segs)
      PROVE  UNCHANGED Archive!archiveVars
  BY <1>9, ArchiveStutter DEF SealProducer, lifecycleVars, CaptureStopped, Captured
<1>10. ASSUME NEW producer \in Runs, NEW finalSeq \in Nat,
              ReconcileAbandonedProducer(producer, finalSeq)
       PROVE  UNCHANGED Archive!archiveVars
  BY <1>10, ArchiveStutter DEF ReconcileAbandonedProducer, lifecycleVars,
     CaptureStopped, Captured
<1>11. CASE SealTranscript
  <2>1. /\ CaptureStopped /\ ~sealed /\ sealed' = TRUE
        /\ \A s \in Captured : revisions[s] # <<>> /\ s \in Segments
        /\ UNCHANGED <<CaptureStopped, Captured, revisions>>
    BY <1>11 DEF SealTranscript, sealVars, CaptureStopped, Captured, LedgerInv, TypeOK
  <2>2. \A s \in Captured : BestResult(revisions[s]) # "none"
    BY <2>1 DEF BestResult
  <2>3. Archive!Close
    BY <2>1, <2>2 DEF Archive!Close
  <2>4. QED
    BY <2>3 DEF Archive!ArchiveNext
<1>12. QED
  BY <1>1, <1>2, <1>3, <1>4, <1>5, <1>6, <1>7, <1>8, <1>9, <1>10, <1>11
     DEF LedgerStep

(* The ledger implements the reader's archive: whatever the producers, the *)
(* operator, the host and restarts do, a reader sees segments announced    *)
(* while capture is open, results that only improve, and one seal.         *)
THEOREM LedgerImplementsArchive == Spec => ImplementsArchive
<1>1. Init => Archive!ArchiveInit
  BY DEF Init, Archive!ArchiveInit, CaptureStopped, Captured, BestResult
<1>2. LedgerInv /\ [Next]_vars => [Archive!ArchiveNext]_(Archive!archiveVars)
  BY StepRefines, BoundedSteps
<1>3. QED
  BY <1>1, <1>2, LedgerInvariant, PTL DEF Spec, ImplementsArchive, Archive!ArchiveSpec

----------------------------------------------------------------------------
(* The delivery of finals. *)

(* What the outbox, the socket and the plan hold, and the rows of a        *)
(* session no operator has edited.                                         *)
FinalRecord == [kind : {"final"}, run : Hosts, seq : Nat, segment : Segments,
                revision : Nat, status : Statuses]
SealRecord == [kind : {"seal"}, run : Hosts, seq : Nat, segments : SUBSET Segments]
Written == FinalRecord \cup SealRecord
ReadyRecord == [kind : {"ready"}, run : Hosts, seq : {0}]
CallRecord ==
  [event : Written \cup ReadyRecord \cup {Nothing}, answer : {"none", "ack", "error"}]
Piece == [segment : Segments, revision : Nat]
AsrRow == [status : Statuses, origin : {"asr"}, run : Runs]
StoredFinal == [seq : Nat, segment : Segments]

(* A call is always such a record. *)
USE DEF CallRecord

LedgerTypes ==
  /\ Captured \subseteq Segments
  /\ revisions \in [Segments -> Seq(AsrRow)]
  /\ finals \in [Runs -> SUBSET StoredFinal]

ProcessTypes ==
  /\ host \in Hosts /\ run \in Nat /\ run <= host /\ seq \in Nat
  /\ open \in BOOLEAN /\ ready \in BOOLEAN /\ planned \in BOOLEAN /\ replayed \in BOOLEAN
  /\ runSealed \in BOOLEAN
  /\ outbox \subseteq Written /\ batch \subseteq outbox
  /\ plan \subseteq Piece /\ input \subseteq plan
  /\ accepted \subseteq Segments \X Nat
  /\ network \in Seq(Written \cup ReadyRecord)
  /\ call \in CallRecord
  /\ phase # "down" => run \in Hosts

(* The request that is waited for is the last one on the socket, an        *)
(* acknowledged event is stored, and an event on the socket is on disk or  *)
(* stored.                                                                 *)
SocketInv ==
  /\ Awaited => network # <<>> /\ network[Len(network)] = call.event
  /\ \A e \in Written : call.event = e /\ call.answer = "ack" => Committed(e)
  /\ \A e \in Written : (\E i \in 1..Len(network) : network[i] = e) => e \in outbox \/ Committed(e)

(* The ASR process of this host replayed what earlier runs had left.       *)
Announced == ready \/ \E i \in 1..Len(network) : network[i] \in ReadyRecord

HostInv ==
  /\ ~open => network = <<>> /\ ~ready /\ plan = {}
  /\ replayed => planned
  /\ planned => ready
  /\ input # {} => ready
  /\ Announced => run = host /\ \A e \in outbox : e.run = host \/ Committed(e)

(* One revision of each captured segment is dispatched by a host, the one  *)
(* the segment needed when it was planned, and every final of the host's   *)
(* process is of a dispatched revision.                                    *)
PlanInv ==
  /\ \A c, d \in plan : c.segment = d.segment => c = d
  /\ \A d \in plan : /\ d.segment \in Captured
                     /\ d.revision \in 1..(Len(revisions[d.segment]) + 1)
  /\ host = 1 => /\ \A d \in plan : d.revision = 1
                 /\ open => \A s \in Segments : revisions[s] # <<>> =>
                              \E d \in plan : d.segment = s
  /\ host # 1 /\ ~planned => plan = {}
  /\ open => \A e \in outbox : e.kind = "final" /\ e.run = host =>
               [segment |-> e.segment, revision |-> e.revision] \in plan

(* The process remembers what its run has written, and no later run has    *)
(* left a trace.                                                           *)
RunInv ==
  /\ \A e \in outbox : e.run <= run
  /\ \A r \in Runs : finals[r] # {} \/ Settled(r) => r <= run
  /\ phase # "down" =>
       /\ \A e \in outbox : e.kind = "final" /\ e.run = run =>
            <<e.segment, e.revision>> \in accepted /\ e.seq <= seq
       /\ \A f \in finals[run] : f.seq <= seq
       /\ Settled(run) \/ (\E e \in outbox : e.kind = "seal" /\ e.run = run) =>
            runSealed \/ phase \in {"sealing", "closing"}

(* The replay and the closing flush leave nothing out, and a run is sealed *)
(* when its finals are stored.                                             *)
FlushInv ==
  /\ phase \in {"replaying", "stopping"} => \A e \in outbox \ batch : Committed(e)
  /\ \A e, f \in outbox : e.kind = "seal" /\ f.kind = "final" /\ f.run = e.run => Committed(f)

(* Only one final of a segment waits, and it is told from all others by    *)
(* its run and number.                                                     *)
DistinctInv ==
  /\ \A e, f \in outbox :
       e.kind = "final" /\ f.kind = "final" /\ e.segment = f.segment
         /\ ~Committed(e) /\ ~Committed(f) => e = f
  /\ \A e, f \in outbox :
       e.kind = "final" /\ f.kind = "final" /\ e.run = f.run /\ e.seq = f.seq => e = f
  /\ phase # "down" => \A d \in input :
       <<d.segment, d.revision>> \in accepted \/ SupersedesFailure(d.segment, d.revision)

DeliveryInv ==
  /\ LedgerTypes
  /\ ProcessTypes
  /\ SocketInv
  /\ HostInv
  /\ PlanInv
  /\ RunInv
  /\ FlushInv
  /\ DistinctInv
  /\ OutboxesSettle

----------------------------------------------------------------------------
(* The three kinds of request are told apart by their kind.                *)
LEMMA Kinds ==
  /\ \A e \in Written : \/ e \in FinalRecord /\ e.kind = "final"
                        \/ e \in SealRecord /\ e.kind = "seal"
  /\ \A e \in ReadyRecord : e.kind = "ready" /\ e \notin Written
  /\ Nothing \notin Written /\ Nothing \notin ReadyRecord
<1>1. \A e \in FinalRecord : e.kind = "final"
  BY DEF FinalRecord
<1>2. \A e \in SealRecord : e.kind = "seal"
  BY DEF SealRecord
<1>3. \A e \in ReadyRecord : e.kind = "ready"
  BY DEF ReadyRecord
<1>4. Nothing.kind = "nothing"
  BY DEF Nothing
<1>5. QED
  BY <1>1, <1>2, <1>3, <1>4 DEF Written

(* The invariant reads these tables of the ledger; while no handler runs   *)
(* their meaning stands still.                                             *)
readVars == <<captures, revisions, finals, producerSeals, reconciliations>>

LedgerRests ==
  /\ LedgerTypes'
  /\ Captured' = Captured /\ finals' = finals /\ revisions' = revisions
  /\ \A e : Committed(e)' <=> Committed(e)
  /\ \A r : Settled(r)' <=> Settled(r)
  /\ \A s, n : SupersedesFailure(s, n)' <=> SupersedesFailure(s, n)
  /\ \A e : Acceptable(e)' <=> Acceptable(e)

(* A step that leaves every table unchanged leaves the ledger at rest.     *)
LEMMA LedgerAtRest == ASSUME LedgerTypes, UNCHANGED readVars PROVE LedgerRests
<1>1. Captured' = Captured /\ finals' = finals /\ revisions' = revisions
  BY DEF readVars, Captured
<1>2. LedgerTypes'
  BY <1>1 DEF LedgerTypes
<1>3. \A e : Committed(e)' <=> Committed(e)
  BY DEF Committed, readVars
<1>4. \A r : Settled(r)' <=> Settled(r)
  BY DEF Settled, readVars
<1>5. \A s, n : SupersedesFailure(s, n)' <=> SupersedesFailure(s, n)
  BY DEF SupersedesFailure, Current, readVars
<1>6. \A e : Acceptable(e)' <=> Acceptable(e)
  BY <1>1, <1>4, <1>5 DEF Acceptable, FreshEvent, readVars
<1>7. QED
  BY <1>1, <1>2, <1>3, <1>4, <1>5, <1>6 DEF LedgerRests

(* A step without a handler leaves the ledger at rest.                     *)
LEMMA NoHandler == ASSUME DeliveryInv, UNCHANGED ledgerVars PROVE LedgerRests
BY LedgerAtRest DEF DeliveryInv, ledgerVars, vars, sealVars, readVars

(* Before the first host has done anything nothing is written.             *)
LEMMA InitDelivery == ASSUME DeliveryInit PROVE DeliveryInv
<1> USE DEF DeliveryInit, Prepared, ProcessesInit
<1>1. LedgerTypes
  BY DEF LedgerTypes, Captured
<1>2. ProcessTypes
  <2>1. 1 \in Hosts /\ 0 \in Nat /\ 0 <= 1
    BY DeliveryAssumption DEF Hosts
  <2>2. network \in Seq(Written \cup ReadyRecord)
    OBVIOUS
  <2>3. call.event = Nothing /\ call.answer = "none"
    BY DEF Idle
  <2>4. call \in CallRecord
    BY DEF Idle
  <2>5. QED
    BY <2>1, <2>2, <2>4 DEF ProcessTypes
<1>3. SocketInv
  BY DEF SocketInv, Awaited, Idle
<1>4. HostInv
  BY DEF HostInv, Announced
<1>5. PlanInv
  BY DEF PlanInv
<1>6. RunInv
  BY DEF RunInv, Settled
<1>7. FlushInv /\ DistinctInv
  BY DEF FlushInv, DistinctInv
<1>8. OutboxesSettle
  BY DEF OutboxesSettle, NeverPoisoned, SettledRunsDrained, KnownIsStored
<1>9. QED
  BY <1>1, <1>2, <1>3, <1>4, <1>5, <1>6, <1>7, <1>8 DEF DeliveryInv

(* What each part of the invariant depends on, besides the ledger.         *)
socketVars == <<call, network, outbox>>
meetingVars == <<host, open, ready, replayed, planned, plan, input, network, run, outbox>>
planVars == <<host, open, planned, plan, outbox>>
runVars == <<outbox, run, phase, accepted, seq, runSealed>>
flushVars == <<phase, outbox, batch>>
distinctVars == <<phase, outbox, input, accepted>>

(* A part of the invariant survives a step of the ledger at rest that does *)
(* not touch the variables it reads.                                       *)
LEMMA Frames ==
  ASSUME DeliveryInv, LedgerRests
  PROVE  /\ UNCHANGED socketVars => SocketInv'
         /\ UNCHANGED meetingVars => HostInv'
         /\ UNCHANGED planVars => PlanInv'
         /\ UNCHANGED runVars => RunInv'
         /\ UNCHANGED flushVars => FlushInv'
         /\ UNCHANGED distinctVars => DistinctInv'
         /\ UNCHANGED outbox => OutboxesSettle'
<1> USE DEF DeliveryInv, LedgerRests
<1>1. UNCHANGED socketVars => SocketInv'
  BY DEF SocketInv, Awaited, socketVars
<1>2. UNCHANGED meetingVars => HostInv'
  BY DEF HostInv, Announced, meetingVars
<1>3. UNCHANGED planVars => PlanInv'
  BY DEF PlanInv, planVars
<1>4. UNCHANGED runVars => RunInv'
  BY DEF RunInv, runVars
<1>5. UNCHANGED flushVars => FlushInv'
  BY DEF FlushInv, flushVars
<1>6. UNCHANGED distinctVars => DistinctInv'
  BY DEF DistinctInv, distinctVars
<1>7. UNCHANGED outbox => OutboxesSettle'
  BY DEF OutboxesSettle, NeverPoisoned, SettledRunsDrained, KnownIsStored
<1>8. QED
  BY <1>1, <1>2, <1>3, <1>4, <1>5, <1>6, <1>7

(* A step that changes nothing the invariant reads preserves it.           *)
LEMMA Quiet ==
  ASSUME DeliveryInv, UNCHANGED readVars,
         UNCHANGED <<plan, planned, hostVars, network, asrVars, outbox>>
  PROVE  DeliveryInv'
<1> USE DEF hostVars, asrVars, memoryVars
<1>1. LedgerRests
  BY LedgerAtRest DEF DeliveryInv
<1>2. /\ UNCHANGED <<socketVars, meetingVars, planVars>>
      /\ UNCHANGED <<runVars, flushVars, distinctVars, outbox>>
  BY DEF socketVars, meetingVars, planVars, runVars, flushVars, distinctVars
<1>3. ProcessTypes'
  BY DEF DeliveryInv, ProcessTypes
<1>4. QED
  BY <1>1, <1>2, <1>3, Frames DEF DeliveryInv, LedgerRests

(* Lifecycle commands and the two last seals, the journal, and the segment *)
(* that capture waits for, are of no concern to what is on its way.        *)
LEMMA QuietSteps ==
  ASSUME DeliveryInv,
         \/ Activate \/ MarkStopping \/ Interrupt \/ HostSeals
         \/ FinishDelivery \/ SealCapture \/ \E s \in Segments : CloseSegment(s)
  PROVE  DeliveryInv'
<1> USE DEF readVars, processVars, captureVars, captureOnly, ledgerVars, vars, lifecycleVars,
        sealVars, hostVars, asrVars, memoryVars
<1>1. ASSUME NEW next, TransitionSession(next), UNCHANGED processVars PROVE DeliveryInv'
  BY <1>1, Quiet DEF TransitionSession
<1>2. CASE Activate \/ MarkStopping \/ Interrupt
  BY <1>1, <1>2 DEF Activate, MarkStopping, Interrupt
<1>3. CASE HostSeals
  BY <1>3, Quiet DEF HostSeals, SealTranscript
<1>4. CASE FinishDelivery
  BY <1>4, Quiet DEF FinishDelivery
<1>5. CASE SealCapture
  BY <1>5, Quiet DEF SealCapture, StopCapture
<1>6. CASE \E s \in Segments : CloseSegment(s)
  BY <1>6, Quiet DEF CloseSegment
<1>7. QED
  BY <1>2, <1>3, <1>4, <1>5, <1>6

----------------------------------------------------------------------------
(* A registered segment only adds to what may be planned and stored.       *)
LEMMA RegisterSegmentStep ==
  ASSUME DeliveryInv, NEW s \in Segments, RegisterSegment(s) PROVE DeliveryInv'
<1> USE DEF DeliveryInv, RegisterSegment, captureOnly, captureVars, hostVars, memoryVars
<1>1. PICK t \in tracks : RegisterCapture(s, t, 1)
  OBVIOUS
<1>2. /\ Captured' = Captured \cup {s}
      /\ finals' = finals /\ revisions' = revisions
      /\ producerSeals' = producerSeals /\ reconciliations' = reconciliations
  BY <1>1 DEF RegisterCapture, Captured, sealVars
<1>3. LedgerTypes'
  BY <1>2 DEF LedgerTypes
<1>4. /\ \A e : Committed(e)' <=> Committed(e)
      /\ \A r : Settled(r)' <=> Settled(r)
      /\ \A x, n : SupersedesFailure(x, n)' <=> SupersedesFailure(x, n)
  BY <1>2 DEF Committed, Settled, SupersedesFailure, Current
<1>5. \A e : Acceptable(e) => Acceptable(e)'
  BY <1>2, <1>4 DEF Acceptable, FreshEvent
<1>6. ProcessTypes'
  BY DEF ProcessTypes
<1>7. SocketInv'
  BY <1>4 DEF SocketInv, Awaited
<1>8. HostInv'
  BY <1>4 DEF HostInv, Announced
<1>9. PlanInv'
  BY <1>2 DEF PlanInv
<1>10. RunInv'
  BY <1>2, <1>4 DEF RunInv
<1>11. FlushInv' /\ DistinctInv'
  BY <1>4 DEF FlushInv, DistinctInv
<1>12. OutboxesSettle'
  BY <1>2, <1>4, <1>5 DEF OutboxesSettle, NeverPoisoned, SettledRunsDrained, KnownIsStored
<1>13. QED
  BY <1>3, <1>6, <1>7, <1>8, <1>9, <1>10, <1>11, <1>12

(* Live, a segment that was not dispatched has no result, because every    *)
(* result of this host's process is of a dispatched segment.               *)
LEMMA DispatchLiveStep ==
  ASSUME DeliveryInv, NEW s \in Segments, DispatchLive(s) PROVE DeliveryInv'
<1> USE DEF DispatchLive, Dispatch, captureOnly, hostVars, memoryVars
<1> DEFINE d == [segment |-> s, revision |-> 1]
<1>1. LedgerRests
  BY NoHandler
<1>2. d \in Piece /\ d.segment = s /\ d.revision = 1
  BY DEF Piece
<1>3. /\ plan' = plan \cup {d} /\ input' = input \cup {d}
      /\ open /\ ready /\ host = 1 /\ s \in Captured /\ \A c \in plan : c.segment # s
  OBVIOUS
<1> HIDE DEF d
<1>4. revisions[s] = <<>> /\ SupersedesFailure(s, 1)
  BY <1>3 DEF DeliveryInv, PlanInv, SupersedesFailure
<1>5. ProcessTypes'
  BY <1>2, <1>3 DEF DeliveryInv, ProcessTypes
<1>6. SocketInv' /\ RunInv' /\ FlushInv' /\ OutboxesSettle'
  BY <1>1, Frames DEF socketVars, runVars, flushVars
<1>7. HostInv'
  BY <1>1, <1>3 DEF DeliveryInv, HostInv, LedgerRests, Announced
<1>8. PlanInv'
  <2>1. 1 \in 1..(Len(revisions[s]) + 1)
    BY <1>4
  <2>2. \A c \in plan' : /\ c.segment \in Captured'
                         /\ c.revision \in 1..(Len(revisions'[c.segment]) + 1)
    BY <1>1, <1>2, <1>3, <2>1 DEF DeliveryInv, PlanInv, LedgerRests
  <2>3. \A b, c \in plan' : b.segment = c.segment => b = c
    BY <1>2, <1>3 DEF DeliveryInv, PlanInv
  <2>4. \A c \in plan' : c.revision = 1
    BY <1>2, <1>3 DEF DeliveryInv, PlanInv
  <2>5. QED
    BY <1>1, <1>3, <2>2, <2>3, <2>4 DEF DeliveryInv, PlanInv, LedgerRests
<1>9. DistinctInv'
  BY <1>1, <1>2, <1>3, <1>4 DEF DeliveryInv, DistinctInv, LedgerRests
<1>10. QED
  BY <1>1, <1>5, <1>6, <1>7, <1>8, <1>9 DEF DeliveryInv, LedgerRests

(* In recovery a planned revision that is not durable is still needed.     *)
LEMMA DispatchReplayStep ==
  ASSUME DeliveryInv, NEW d \in plan, DispatchReplay(d) PROVE DeliveryInv'
<1> USE DEF DispatchReplay, Dispatch, captureOnly, hostVars, memoryVars
<1>1. LedgerRests
  BY NoHandler
<1>2. input' = input \cup {d} /\ planned /\ ~Durable(d)
  OBVIOUS
<1>3. ready
  BY <1>2 DEF DeliveryInv, HostInv
<1>4. SupersedesFailure(d.segment, d.revision)
  <2> DEFINE rows == revisions[d.segment]
  <2>1. d \in Piece /\ d.segment \in Segments /\ d.revision \in Nat
    BY DEF DeliveryInv, ProcessTypes, Piece
  <2>2. rows \in Seq(AsrRow)
    BY <2>1 DEF DeliveryInv, LedgerTypes
  <2>3. d.revision \in 1..(Len(rows) + 1)
    BY DEF DeliveryInv, PlanInv
  <2>4. CASE rows = <<>>
    BY <2>3, <2>4 DEF SupersedesFailure
  <2>5. CASE rows # <<>>
    <3>1. NextRevision(d.segment) # 0 /\ ~(NextRevision(d.segment) > d.revision)
      BY <1>2 DEF Durable
    <3>2. Current(rows).status = "failed" /\ NextRevision(d.segment) = Len(rows) + 1
      BY <2>5, <3>1 DEF NextRevision
    <3>3. Len(rows) \in Nat /\ Len(rows) > 0
      BY <2>2, <2>5, EmptySeq, LenProperties
    <3>4. Current(rows) \in AsrRow
      BY <2>2, <3>3 DEF Current
    <3>5. Current(rows).origin = "asr"
      BY <3>4 DEF AsrRow
    <3>6. d.revision = Len(rows) + 1
      BY <2>3, <3>1, <3>2, <3>3, <2>1
    <3>7. QED
      BY <2>5, <3>2, <3>5, <3>6 DEF SupersedesFailure
  <2>6. QED
    BY <2>4, <2>5
<1>5. ProcessTypes'
  BY <1>2 DEF DeliveryInv, ProcessTypes
<1>6. SocketInv' /\ PlanInv' /\ RunInv' /\ FlushInv' /\ OutboxesSettle'
  BY <1>1, Frames DEF socketVars, planVars, runVars, flushVars
<1>7. HostInv'
  BY <1>1, <1>3 DEF DeliveryInv, HostInv, LedgerRests, Announced
<1>8. DistinctInv'
  BY <1>1, <1>2, <1>4 DEF DeliveryInv, DistinctInv, LedgerRests
<1>9. QED
  BY <1>1, <1>5, <1>6, <1>7, <1>8 DEF DeliveryInv, LedgerRests

(* The plan is made once, when nothing was dispatched, of the revisions    *)
(* that segments still need.                                               *)
LEMMA MakePlanStep == ASSUME DeliveryInv, MakePlan PROVE DeliveryInv'
<1> USE DEF MakePlan, captureOnly, hostVars, memoryVars
<1>1. LedgerRests
  BY NoHandler
<1>2. plan = {} /\ input = {} /\ input' = {} /\ open /\ ready /\ planned' /\ host # 1
  <2>1. host # 1
    BY DEF DeliveryInv, ProcessTypes, Hosts
  <2>2. plan = {}
    BY <2>1 DEF DeliveryInv, PlanInv
  <2>3. QED
    BY <2>1, <2>2 DEF DeliveryInv, ProcessTypes
<1>3. \A d \in plan' : /\ d \in Piece
                       /\ d.segment \in Captured
                       /\ d.revision = NextRevision(d.segment)
                       /\ d.revision \in 1..(Len(revisions[d.segment]) + 1)
  <2> SUFFICES ASSUME NEW d \in plan'
               PROVE  /\ d \in Piece /\ d.segment \in Captured
                      /\ d.revision = NextRevision(d.segment)
                      /\ d.revision \in 1..(Len(revisions[d.segment]) + 1)
    OBVIOUS
  <2>1. PICK s \in journal : NextRevision(s) # 0
                             /\ d = [segment |-> s, revision |-> NextRevision(s)]
    OBVIOUS
  <2>2. s \in Captured /\ s \in Segments
    BY DEF DeliveryInv, LedgerTypes
  <2>3. Len(revisions[s]) \in Nat
    BY <2>2, LenProperties DEF DeliveryInv, LedgerTypes
  <2>4. NextRevision(s) \in 1..(Len(revisions[s]) + 1)
    BY <2>1, <2>3 DEF NextRevision
  <2>5. QED
    BY <2>1, <2>2, <2>3, <2>4 DEF Piece
<1>4. \A c, d \in plan' : c.segment = d.segment => c = d
  BY <1>3 DEF Piece
<1>5. ProcessTypes'
  BY <1>2, <1>3 DEF DeliveryInv, ProcessTypes
<1>6. SocketInv' /\ RunInv' /\ FlushInv' /\ DistinctInv' /\ OutboxesSettle'
  BY <1>1, Frames DEF socketVars, runVars, flushVars, distinctVars
<1>7. HostInv'
  BY <1>1, <1>2 DEF DeliveryInv, HostInv, LedgerRests, Announced
<1>8. \A e \in outbox : ~(e.kind = "final" /\ e.run = host)
  BY <1>2 DEF DeliveryInv, PlanInv
<1>9. PlanInv'
  BY <1>1, <1>2, <1>3, <1>4, <1>8 DEF PlanInv, LedgerRests
<1>10. QED
  BY <1>1, <1>5, <1>6, <1>7, <1>9 DEF DeliveryInv, LedgerRests

(* The replay is acknowledged after it was planned.                        *)
LEMMA AcknowledgeReplayStep == ASSUME DeliveryInv, AcknowledgeReplay PROVE DeliveryInv'
<1> USE DEF AcknowledgeReplay, captureVars, memoryVars
<1>1. LedgerRests
  BY NoHandler
<1>2. ProcessTypes'
  BY DEF DeliveryInv, ProcessTypes
<1>3. HostInv'
  BY <1>1 DEF DeliveryInv, HostInv, LedgerRests, Announced
<1>4. SocketInv' /\ PlanInv' /\ RunInv' /\ FlushInv' /\ DistinctInv' /\ OutboxesSettle'
  BY <1>1, Frames DEF socketVars, planVars, runVars, flushVars, distinctVars
<1>5. QED
  BY <1>1, <1>2, <1>3, <1>4 DEF DeliveryInv, LedgerRests

(* With the host its socket, its plan and its promises end.                *)
LEMMA EndHostStep == ASSUME DeliveryInv, EndHost PROVE DeliveryInv'
<1> USE DEF EndHost, memoryVars
<1>1. LedgerRests
  BY NoHandler
<1>2. call' \in CallRecord
  BY DEF DeliveryInv, ProcessTypes
<1>3. ~Awaited' /\ call'.event = call.event /\ (call'.answer = "ack" => call.answer = "ack")
  BY <1>2 DEF DeliveryInv, ProcessTypes, Awaited, Idle
<1>4. ProcessTypes'
  <2>1. network' \in Seq(Written \cup ReadyRecord)
    OBVIOUS
  <2>2. plan' \subseteq Piece /\ input' \subseteq plan'
    OBVIOUS
  <2>3. QED
    BY <1>2, <2>1, <2>2 DEF DeliveryInv, ProcessTypes
<1>5. SocketInv'
  BY <1>1, <1>3 DEF DeliveryInv, SocketInv, LedgerRests
<1>6. HostInv'
  BY <1>1 DEF HostInv, Announced
<1>7. PlanInv'
  BY <1>1 DEF PlanInv
<1>8. DistinctInv'
  BY <1>1 DEF DeliveryInv, DistinctInv, LedgerRests
<1>9. RunInv' /\ FlushInv' /\ OutboxesSettle'
  BY <1>1, Frames DEF runVars, flushVars
<1>10. QED
  BY <1>1, <1>4, <1>5, <1>6, <1>7, <1>8, <1>9 DEF DeliveryInv, LedgerRests

(* No run has the number of a host that opens only now.                    *)
LEMMA OpenRecoveryStep == ASSUME DeliveryInv, OpenRecovery PROVE DeliveryInv'
<1> USE DEF OpenRecovery, captureVars, asrVars, memoryVars
<1>1. UNCHANGED readVars
  BY DEF TransitionSession, readVars, ledgerVars, vars, sealVars
<1>2. LedgerRests
  BY <1>1, LedgerAtRest DEF DeliveryInv
<1>3. host' \in Hosts /\ host' > host /\ host' # 1 /\ open' /\ run \in Nat /\ run < host'
  BY DeliveryAssumption DEF DeliveryInv, ProcessTypes, Hosts
<1>4. plan = {} /\ network = <<>> /\ ~ready
  BY DEF DeliveryInv, HostInv
<1>5. ProcessTypes'
  BY <1>3 DEF DeliveryInv, ProcessTypes
<1>6. HostInv'
  BY <1>2, <1>3, <1>4 DEF DeliveryInv, HostInv, Announced
<1>7. PlanInv'
  <2>1. \A e \in outbox : e.run # host'
    BY <1>3, Kinds DEF DeliveryInv, RunInv, ProcessTypes, Written, FinalRecord, SealRecord, Hosts
  <2>2. QED
    BY <1>3, <1>4, <2>1 DEF PlanInv
<1>8. SocketInv' /\ RunInv' /\ FlushInv' /\ DistinctInv' /\ OutboxesSettle'
  BY <1>2, Frames DEF socketVars, runVars, flushVars, distinctVars
<1>9. QED
  BY <1>2, <1>5, <1>6, <1>7, <1>8 DEF DeliveryInv, LedgerRests

----------------------------------------------------------------------------
(* A request goes to the socket of the host the process belongs to, or     *)
(* fails at once.                                                          *)
LEMMA RequestSent ==
  ASSUME DeliveryInv, LedgerRests, call = Idle, NEW e \in outbox \cup ReadyRecord, Request(e),
         UNCHANGED outbox
  PROVE  /\ SocketInv'
         /\ network' \in Seq(Written \cup ReadyRecord)
         /\ call' \in CallRecord
         /\ network' # network => open /\ run = host
         /\ \A i \in 1..Len(network') : \/ i \in 1..Len(network) /\ network'[i] = network[i]
                                        \/ network'[i] = e
<1>1. e \in Written \cup ReadyRecord /\ (e \in Written => e \in outbox)
  BY Kinds DEF DeliveryInv, ProcessTypes
<1>2. network \in Seq(Written \cup ReadyRecord)
  BY DEF DeliveryInv, ProcessTypes
<1>3. CASE Connected
  <2>1. /\ network' = Append(network, e)
        /\ call'.event = e /\ call'.answer = "none"
        /\ call' \in CallRecord
    BY <1>1, <1>3 DEF Request
  <2>2. /\ Len(network') = Len(network) + 1 /\ network'[Len(network) + 1] = e
        /\ \A i \in 1..Len(network) : network'[i] = network[i]
        /\ network' \in Seq(Written \cup ReadyRecord)
        /\ Len(network) \in Nat
    BY <1>1, <1>2, <2>1, AppendProperties, LenProperties
  <2>3. \A i \in 1..Len(network') : \/ i \in 1..Len(network) /\ network'[i] = network[i]
                                    \/ network'[i] = e
    BY <2>2
  <2>4. network' # <<>> /\ network'[Len(network')] = e
    BY <2>2
  <2>5. SocketInv'
    BY <1>1, <2>1, <2>3, <2>4 DEF DeliveryInv, SocketInv, LedgerRests
  <2>6. QED
    BY <1>3, <2>1, <2>2, <2>3, <2>5 DEF Connected
<1>4. CASE ~Connected
  <2>1. /\ network' = network /\ call'.event = e /\ call'.answer = "error"
        /\ call' \in CallRecord
    BY <1>1, <1>4 DEF Request
  <2>2. SocketInv'
    BY <2>1 DEF DeliveryInv, SocketInv, LedgerRests, Awaited
  <2>3. QED
    BY <1>2, <2>1, <2>2
<1>5. QED
  BY <1>3, <1>4

(* A new process has everything before it to replay.                       *)
LEMMA StartStep == ASSUME DeliveryInv, Start PROVE DeliveryInv'
<1> USE DEF Start, captureVars, hostVars
<1>1. LedgerRests
  BY NoHandler
<1>2. ~Announced /\ input = {}
  BY DEF DeliveryInv, HostInv, Announced, ProcessTypes, Hosts
<1>3. ProcessTypes'
  BY DEF DeliveryInv, ProcessTypes, Hosts
<1>4. HostInv'
  BY <1>2 DEF DeliveryInv, HostInv, Announced
<1>5. RunInv'
  <2>1. \A e \in outbox : e.run \in Nat /\ e.run <= run
    BY DEF DeliveryInv, RunInv, ProcessTypes, Written, FinalRecord, SealRecord, Hosts
  <2>2. \A r \in Runs : r \in Nat
    BY DeliveryAssumption DEF Hosts
  <2>3. run \in Nat /\ run' \in Nat /\ run < run' /\ run' \in Runs
    BY DeliveryAssumption DEF DeliveryInv, ProcessTypes, Hosts
  <2>4. \A e \in outbox : e.run <= run' /\ e.run # run'
    BY <2>1, <2>3
  <2>5. \A r \in Runs : finals[r] # {} \/ Settled(r) => r <= run
    BY DEF DeliveryInv, RunInv
  <2>6. \A r \in Runs : finals[r] # {} \/ Settled(r) => r <= run' /\ r # run'
    BY <2>2, <2>3, <2>5
  <2>7. QED
    BY <1>1, <2>3, <2>4, <2>6 DEF RunInv, LedgerRests
<1>6. FlushInv'
  BY <1>1 DEF DeliveryInv, FlushInv, LedgerRests
<1>7. DistinctInv'
  BY <1>1, <1>2 DEF DeliveryInv, DistinctInv, LedgerRests
<1>8. SocketInv' /\ PlanInv' /\ OutboxesSettle'
  BY <1>1, Frames DEF socketVars, planVars
<1>9. QED
  BY <1>1, <1>3, <1>4, <1>5, <1>6, <1>7, <1>8 DEF DeliveryInv, LedgerRests

(* An event of the flush is requested.                                     *)
LEMMA FlushStep == ASSUME DeliveryInv, NEW e \in outbox, Flush(e) PROVE DeliveryInv'
<1> USE DEF Flush, captureVars, hostVars, memoryVars
<1>1. LedgerRests
  BY NoHandler
<1>2. /\ SocketInv'
      /\ network' \in Seq(Written \cup ReadyRecord)
      /\ call' \in CallRecord
      /\ network' # network => open /\ run = host
      /\ \A i \in 1..Len(network') : \/ i \in 1..Len(network) /\ network'[i] = network[i]
                                     \/ network'[i] = e
  BY <1>1, RequestSent
<1>3. ProcessTypes'
  BY <1>2 DEF DeliveryInv, ProcessTypes
<1>4. e \notin ReadyRecord
  BY Kinds DEF DeliveryInv, ProcessTypes
<1>5. Announced' => Announced
  BY <1>2, <1>4 DEF Announced
<1>6. HostInv'
  BY <1>1, <1>2, <1>5 DEF DeliveryInv, HostInv, LedgerRests
<1>7. PlanInv' /\ RunInv' /\ FlushInv' /\ DistinctInv' /\ OutboxesSettle'
  BY <1>1, Frames DEF planVars, runVars, flushVars, distinctVars
<1>8. QED
  BY <1>1, <1>2, <1>3, <1>6, <1>7 DEF DeliveryInv, LedgerRests

(* Ready is announced when all that earlier runs wrote is stored.          *)
LEMMA AnnounceStep == ASSUME DeliveryInv, Announce PROVE DeliveryInv'
<1> USE DEF Announce, captureVars, hostVars, memoryVars
<1>1. LedgerRests
  BY NoHandler
<1>2. Ready \in ReadyRecord
  BY DEF DeliveryInv, ProcessTypes, Ready, ReadyRecord
<1>3. /\ SocketInv'
      /\ network' \in Seq(Written \cup ReadyRecord)
      /\ call' \in CallRecord
      /\ network' # network => open /\ run = host
      /\ \A i \in 1..Len(network') : \/ i \in 1..Len(network) /\ network'[i] = network[i]
                                     \/ network'[i] = Ready
  BY <1>1, <1>2, RequestSent
<1>4. ProcessTypes'
  BY <1>3 DEF DeliveryInv, ProcessTypes
<1>5. \A e \in outbox : Committed(e)
  BY DEF DeliveryInv, FlushInv
<1>6. HostInv'
  <2>1. Announced' => Announced \/ network' # network
    BY <1>3 DEF Announced
  <2>2. QED
    BY <1>1, <1>3, <1>5, <2>1 DEF DeliveryInv, HostInv, LedgerRests
<1>7. RunInv'
  BY <1>1 DEF DeliveryInv, RunInv, LedgerRests
<1>8. FlushInv' /\ DistinctInv'
  BY <1>1 DEF DeliveryInv, FlushInv, DistinctInv, LedgerRests
<1>9. PlanInv' /\ OutboxesSettle'
  BY <1>1, Frames DEF planVars
<1>10. QED
  BY <1>1, <1>3, <1>4, <1>6, <1>7, <1>8, <1>9 DEF DeliveryInv, LedgerRests

(* A round over the outbox begins, at the loop or at the process's end.    *)
LEMMA RoundSteps == ASSUME DeliveryInv, RetryRound \/ Stop PROVE DeliveryInv'
<1> USE DEF RetryRound, Stop, AtLoop, captureVars, hostVars, memoryVars
<1>1. LedgerRests
  BY NoHandler
<1>2. /\ batch' = outbox /\ phase = "running" /\ phase' \in {"running", "stopping"}
      /\ UNCHANGED <<run, seq, accepted, runSealed, input, call, outbox, network, hostVars,
                     plan, planned>>
  OBVIOUS
<1>3. ProcessTypes'
  BY <1>2 DEF DeliveryInv, ProcessTypes
<1>4. RunInv'
  BY <1>1, <1>2 DEF DeliveryInv, RunInv, LedgerRests
<1>5. FlushInv'
  BY <1>1, <1>2 DEF DeliveryInv, FlushInv, LedgerRests
<1>6. DistinctInv'
  BY <1>1, <1>2 DEF DeliveryInv, DistinctInv, LedgerRests
<1>7. SocketInv' /\ HostInv' /\ PlanInv' /\ OutboxesSettle'
  BY <1>1, <1>2, Frames DEF socketVars, meetingVars, planVars
<1>8. QED
  BY <1>1, <1>3, <1>4, <1>5, <1>6, <1>7 DEF DeliveryInv, LedgerRests

(* What remains of a sequence without its last element.                    *)
LEMMA AllButLast ==
  ASSUME NEW S, NEW s \in Seq(S), s # <<>>
  PROVE  /\ SubSeq(s, 1, Len(s) - 1) \in Seq(S)
         /\ Len(SubSeq(s, 1, Len(s) - 1)) = Len(s) - 1
         /\ \A i \in 1..(Len(s) - 1) : SubSeq(s, 1, Len(s) - 1)[i] = s[i]
<1>1. Len(s) \in Nat /\ Len(s) >= 1
  BY EmptySeq, LenProperties
<1>2. PICK n \in Int : n = Len(s) - 1
  BY <1>1
<1>3. n >= 0 /\ 1..n \subseteq 1..Len(s)
  BY <1>1, <1>2
<1>4. \A i \in 1..n : s[i] \in S
  BY <1>3, ElementOfSeq
<1>5. /\ SubSeq(s, 1, n) \in Seq(S)
      /\ Len(SubSeq(s, 1, n)) = IF 1 <= n THEN n - 1 + 1 ELSE 0
      /\ \A i \in 1..(n - 1 + 1) : SubSeq(s, 1, n)[i] = s[1 + i - 1]
  BY <1>4, SubSeqProperties
<1>6. (IF 1 <= n THEN n - 1 + 1 ELSE 0) = n /\ n - 1 + 1 = n
  BY <1>3
<1>7. \A i \in 1..n : 1 + i - 1 = i
  OBVIOUS
<1>8. QED
  BY <1>2, <1>5, <1>6, <1>7

(* A request or its answer is lost, or late.                               *)
LEMMA LossSteps == ASSUME DeliveryInv, LoseRequest \/ TimeOut \/ LoseReply PROVE DeliveryInv'
<1> USE DEF LoseRequest, TimeOut, LoseReply, captureVars, hostVars, memoryVars
<1>1. LedgerRests
  BY NoHandler
<1>2. /\ call' = [call EXCEPT !.answer = "error"]
      /\ network' = network \/ (Awaited /\ network' = SubSeq(network, 1, Len(network) - 1))
      /\ UNCHANGED <<phase, run, seq, accepted, runSealed, input, batch, outbox, plan, planned,
                     hostVars>>
  OBVIOUS
<1>3. /\ call' \in CallRecord
      /\ call'.answer = "error"
  BY <1>2 DEF DeliveryInv, ProcessTypes
<1>4. /\ network' \in Seq(Written \cup ReadyRecord)
      /\ \A i \in 1..Len(network') : i \in 1..Len(network) /\ network'[i] = network[i]
  <2>1. network \in Seq(Written \cup ReadyRecord)
    BY DEF DeliveryInv, ProcessTypes
  <2>2. CASE network' = network
    BY <2>1, <2>2
  <2>3. CASE Awaited /\ network' = SubSeq(network, 1, Len(network) - 1)
    <3>1. Len(network) \in Nat /\ Len(network) >= 1
      BY <2>1, <2>3, EmptySeq, LenProperties DEF DeliveryInv, SocketInv
    <3>2. /\ network' \in Seq(Written \cup ReadyRecord)
          /\ Len(network') = Len(network) - 1
          /\ \A i \in 1..(Len(network) - 1) : network'[i] = network[i]
      BY <2>1, <2>3, AllButLast DEF DeliveryInv, SocketInv
    <3>3. QED
      BY <3>1, <3>2
  <2>4. QED
    BY <1>2, <2>2, <2>3
<1>5. ProcessTypes'
  BY <1>2, <1>3, <1>4 DEF DeliveryInv, ProcessTypes
<1>6. SocketInv'
  BY <1>1, <1>2, <1>3, <1>4 DEF DeliveryInv, SocketInv, Awaited, LedgerRests
<1>7. HostInv'
  <2>1. Announced' => Announced
    BY <1>2, <1>4 DEF Announced
  <2>2. network = <<>> => network' = <<>>
    BY <1>2 DEF DeliveryInv, SocketInv
  <2>3. QED
    BY <1>1, <1>2, <2>1, <2>2 DEF DeliveryInv, HostInv, LedgerRests
<1>8. PlanInv' /\ RunInv' /\ FlushInv' /\ DistinctInv' /\ OutboxesSettle'
  BY <1>1, <1>2, Frames DEF planVars, runVars, flushVars, distinctVars
<1>9. QED
  BY <1>1, <1>5, <1>6, <1>7, <1>8 DEF DeliveryInv, LedgerRests

----------------------------------------------------------------------------
(* Events that are stored may leave the outbox.                            *)
LEMMA Shrunk ==
  ASSUME DeliveryInv, LedgerRests, outbox' \subseteq outbox,
         \A e \in outbox : e \notin outbox' => Committed(e),
         UNCHANGED <<plan, planned, host, open, ready, replayed, network, run>>,
         input' \subseteq input, call' = Idle
  PROVE  /\ SocketInv' /\ HostInv' /\ PlanInv' /\ OutboxesSettle'
         /\ call' \in CallRecord
<1> USE DEF DeliveryInv, LedgerRests
<1>1. /\ call' \in CallRecord
      /\ call'.answer = "none"
  BY DEF Idle
<1>2. ~Awaited'
  BY DEF Awaited, Idle
<1>3. SocketInv'
  BY <1>1, <1>2 DEF SocketInv
<1>4. HostInv'
  BY DEF HostInv, Announced
<1>5. PlanInv'
  BY DEF PlanInv
<1>6. OutboxesSettle'
  BY DEF OutboxesSettle, NeverPoisoned, SettledRunsDrained, KnownIsStored
<1>7. QED
  BY <1>1, <1>3, <1>4, <1>5, <1>6

(* A process that ends forgets everything but its number.                  *)
LEMMA Ended ==
  ASSUME DeliveryInv, LedgerRests, Reset, outbox' \subseteq outbox,
         \A e \in outbox : e \notin outbox' => Committed(e),
         UNCHANGED <<plan, planned, host, open, ready, replayed, network>>
  PROVE  DeliveryInv'
<1> USE DEF Reset
<1>1. /\ SocketInv' /\ HostInv' /\ PlanInv' /\ OutboxesSettle'
      /\ call' \in CallRecord
  BY Shrunk
<1>2. ProcessTypes'
  BY <1>1 DEF DeliveryInv, ProcessTypes
<1>3. RunInv'
  BY DEF DeliveryInv, RunInv, LedgerRests
<1>4. FlushInv' /\ DistinctInv'
  BY DEF DeliveryInv, FlushInv, DistinctInv, LedgerRests
<1>5. QED
  BY <1>1, <1>2, <1>3, <1>4 DEF DeliveryInv, LedgerRests

(* A process that dies leaves its outbox and the requests it made.         *)
LEMMA DieStep == ASSUME DeliveryInv, Die PROVE DeliveryInv'
BY NoHandler, Ended DEF Die, captureVars, hostVars

(* A running process whose call failed goes on with its outbox as it is.   *)
LEMMA ReceiveErrorStep == ASSUME DeliveryInv, ReceiveError PROVE DeliveryInv'
<1> USE DEF ReceiveError, CleanUp, captureVars, hostVars, memoryVars
<1>1. LedgerRests
  BY NoHandler
<1>2. outbox' = outbox
  OBVIOUS
<1>3. CASE phase # "running"
  BY <1>1, <1>2, <1>3, Ended
<1>4. CASE phase = "running"
  <2>1. /\ call' = Idle /\ batch' = {}
        /\ UNCHANGED <<phase, run, seq, accepted, runSealed, input, outbox, network, host, open,
                       ready, replayed, plan, planned>>
    BY <1>2, <1>4
  <2>2. /\ SocketInv' /\ HostInv' /\ PlanInv' /\ OutboxesSettle'
        /\ call' \in CallRecord
    BY <1>1, <2>1, Shrunk
  <2>3. ProcessTypes'
    BY <2>1, <2>2 DEF DeliveryInv, ProcessTypes
  <2>4. RunInv' /\ DistinctInv'
    BY <1>1, <2>1, Frames DEF runVars, distinctVars
  <2>5. FlushInv'
    BY <1>1, <1>4, <2>1 DEF DeliveryInv, FlushInv, LedgerRests
  <2>6. QED
    BY <1>1, <2>2, <2>3, <2>4, <2>5 DEF DeliveryInv, LedgerRests
<1>5. QED
  BY <1>3, <1>4

(* An acknowledged event is stored: its file may go.                       *)
LEMMA ReceiveAckStep == ASSUME DeliveryInv, ReceiveAck PROVE DeliveryInv'
<1> USE DEF ReceiveAck, CleanUp, captureVars, hostVars
<1>1. LedgerRests
  BY NoHandler
<1>2. PICK e : e = call.event
  OBVIOUS
<1>3. e \in outbox => Committed(e)
  BY <1>2 DEF DeliveryInv, SocketInv, ProcessTypes
<1>4. outbox' \subseteq outbox /\ \A f \in outbox : f \notin outbox' => f = e /\ Committed(f)
  BY <1>2, <1>3
<1>5. UNCHANGED <<plan, planned, host, open, ready, replayed, network>>
  OBVIOUS
<1>6. CASE phase = "closing"
  BY <1>1, <1>4, <1>5, <1>6, Ended
<1>7. CASE phase # "closing"
  <2>1. /\ call' = Idle /\ batch' = batch \ {e}
        /\ phase' = IF phase \in {"announcing", "sealing"} THEN "running" ELSE phase
        /\ runSealed' = (runSealed \/ phase = "sealing")
        /\ UNCHANGED <<run, seq, accepted, input>>
    BY <1>2, <1>7
  <2>2. /\ SocketInv' /\ HostInv' /\ PlanInv' /\ OutboxesSettle'
        /\ call' \in CallRecord
    BY <1>1, <1>4, <1>5, <2>1, Shrunk
  <2>3. batch' \subseteq outbox'
    BY <1>4, <2>1 DEF DeliveryInv, ProcessTypes
  <2>4. phase' # "down" => phase # "down"
    BY <2>1
  <2>5. ProcessTypes'
    BY <1>4, <1>5, <2>1, <2>2, <2>3, <2>4 DEF DeliveryInv, ProcessTypes
  <2>6. RunInv'
    <3>1. (runSealed \/ phase \in {"sealing", "closing"}) => runSealed'
      BY <1>7, <2>1
    <3>2. QED
      BY <1>1, <1>4, <2>1, <2>4, <3>1 DEF DeliveryInv, RunInv, LedgerRests
  <2>7. FlushInv'
    <3>1. phase' \in {"replaying", "stopping"} => phase = phase'
      BY <2>1
    <3>2. phase' \in {"replaying", "stopping"} => \A f \in outbox' \ batch' : Committed(f)
      BY <1>3, <1>4, <2>1, <3>1 DEF DeliveryInv, FlushInv
    <3>3. QED
      BY <1>1, <1>4, <3>2 DEF DeliveryInv, FlushInv, LedgerRests
  <2>8. DistinctInv'
    BY <1>1, <1>4, <2>1, <2>4 DEF DeliveryInv, DistinctInv, LedgerRests
  <2>9. QED
    BY <1>1, <2>2, <2>5, <2>6, <2>7, <2>8 DEF DeliveryInv, LedgerRests
<1>8. QED
  BY <1>6, <1>7

(* A seal is written once per run, when everything else is stored.         *)
LEMMA SealWritten ==
  ASSUME DeliveryInv, LedgerRests, NEW next \in {"sealing", "closing"}, WriteSeal(next),
         phase \in {"running", "stopping"}, ~runSealed, \A e \in outbox : Committed(e),
         UNCHANGED <<memoryVars, input, call, plan, planned, hostVars, network>>
  PROVE  DeliveryInv'
<1> USE DEF WriteSeal, hostVars, memoryVars
<1>1. PICK seal : seal = Seal(seq + 1, {a[1] : a \in accepted})
  OBVIOUS
<1>2. outbox' = outbox \cup {seal} /\ batch' = {seal} /\ phase' = next
  BY <1>1
<1>3. seal \in SealRecord /\ seal.kind = "seal" /\ seal.run = run /\ seal \in Written
  <2>1. \A a \in accepted : a[1] \in Segments
    BY DEF DeliveryInv, ProcessTypes
  <2>2. run \in Hosts /\ seq + 1 \in Nat
    BY DEF DeliveryInv, ProcessTypes
  <2>3. QED
    BY <1>1, <2>1, <2>2 DEF Seal, SealRecord, Written
<1>4. ~Settled(run) /\ run \in Nat /\ run <= run
  BY DEF DeliveryInv, RunInv, ProcessTypes
<1>5. ProcessTypes'
  BY <1>2, <1>3 DEF DeliveryInv, ProcessTypes
<1>6. SocketInv'
  BY <1>1, <1>2 DEF DeliveryInv, SocketInv, Awaited, LedgerRests
<1>7. HostInv'
  BY <1>2, <1>3 DEF DeliveryInv, HostInv, Announced, LedgerRests
<1>8. PlanInv'
  BY <1>2, <1>3 DEF DeliveryInv, PlanInv, LedgerRests
<1>9. RunInv'
  BY <1>2, <1>3, <1>4 DEF DeliveryInv, RunInv, LedgerRests
<1>10. FlushInv'
  BY <1>2, <1>3 DEF FlushInv, LedgerRests
<1>11. DistinctInv'
  BY <1>2, <1>3 DEF DeliveryInv, DistinctInv, LedgerRests
<1>12. OutboxesSettle'
  BY <1>2, <1>3, <1>4
     DEF DeliveryInv, OutboxesSettle, NeverPoisoned, SettledRunsDrained, KnownIsStored, LedgerRests
<1>13. QED
  BY <1>5, <1>6, <1>7, <1>8, <1>9, <1>10, <1>11, <1>12 DEF DeliveryInv, LedgerRests

(* A run that drained while it lives writes its seal.                      *)
LEMMA SealRunStep == ASSUME DeliveryInv, SealRun PROVE DeliveryInv'
BY NoHandler, SealWritten DEF SealRun, AtLoop, captureVars

(* A run that is stopped writes its seal.                                  *)
LEMMA CloseRunStep == ASSUME DeliveryInv, CloseRun PROVE DeliveryInv'
<1> USE DEF CloseRun, captureVars, hostVars
<1>1. LedgerRests
  BY NoHandler
<1>2. CASE runSealed
  BY <1>1, <1>2, Ended
<1>3. CASE ~runSealed
  <2>1. \A e \in outbox : Committed(e)
    BY DEF DeliveryInv, FlushInv
  <2>2. WriteSeal("closing")
        /\ UNCHANGED <<memoryVars, input, call, plan, planned, hostVars, network>>
    BY <1>3
  <2>3. QED
    BY <1>1, <1>3, <2>1, <2>2, SealWritten
<1>4. QED
  BY <1>2, <1>3

(* A recognised segment needs its revision, and no other final of it       *)
(* waits: the host's plan names one revision of it, which was not accepted *)
(* before, and earlier runs have nothing left that is not stored.          *)
LEMMA FinalWritten ==
  ASSUME DeliveryInv, LedgerRests, NEW d \in input, NEW status \in Statuses, NEW e,
         e = Final(d.segment, d.revision, status, seq + 1),
         phase = "running", ~runSealed, ~AlreadyAccepted(d), outbox' = outbox \cup {e},
         UNCHANGED <<plan, planned, hostVars, network, run>>, input' \subseteq input
  PROVE  /\ HostInv' /\ PlanInv' /\ OutboxesSettle'
         /\ e \in Written /\ e.kind = "final" /\ e.run = run /\ e.seq = seq + 1
         /\ e.segment = d.segment /\ e.revision = d.revision
         /\ \A f \in outbox : f.kind = "seal" => f.run # run
         /\ \A f \in outbox : f.kind = "final" /\ f.segment = d.segment => Committed(f)
         /\ \A f \in outbox : f.kind = "final" /\ f.run = run => f.seq # seq + 1
<1> USE DEF hostVars
<1>1. d \in Piece /\ d \in plan /\ d.segment \in Segments /\ d.revision \in Nat
  BY DEF DeliveryInv, ProcessTypes, Piece
<1>2. run \in Hosts /\ run = host /\ ready /\ open /\ run \in Nat /\ seq \in Nat
  BY DEF DeliveryInv, ProcessTypes, HostInv, Announced
<1>3. /\ e \in Written /\ e.kind = "final" /\ e.run = run /\ e.seq = seq + 1
      /\ e.segment = d.segment /\ e.revision = d.revision
  BY <1>1, <1>2 DEF Final, FinalRecord, Written
<1>4. /\ ~Settled(run) /\ \A f \in outbox : f.kind = "seal" => f.run # run
      /\ \A f \in finals[run] : f.seq <= seq
      /\ \A f \in outbox : f.kind = "final" /\ f.run = run =>
           <<f.segment, f.revision>> \in accepted /\ f.seq <= seq
  BY DEF DeliveryInv, RunInv
<1>5. \A f \in finals[run] : f.seq \in Nat /\ f.seq # seq + 1
  <2>1. finals[run] \subseteq StoredFinal
    BY <1>2, DeliveryAssumption DEF DeliveryInv, LedgerTypes
  <2>2. QED
    BY <1>2, <1>4, <2>1 DEF StoredFinal
<1>6. ~Committed(e)
  BY <1>3, <1>5 DEF Committed
<1>7. ASSUME NEW f \in outbox, f.kind = "final", f.segment = d.segment PROVE Committed(f)
  <2> SUFFICES ASSUME ~Committed(f) PROVE FALSE
    OBVIOUS
  <2>1. f.run = host
    BY <1>2 DEF DeliveryInv, HostInv, Announced
  <2>2. [segment |-> f.segment, revision |-> f.revision] \in plan
    BY <1>2, <1>7, <2>1 DEF DeliveryInv, PlanInv
  <2>3. [segment |-> f.segment, revision |-> f.revision] = d
    BY <1>1, <1>7, <2>2 DEF DeliveryInv, PlanInv
  <2>4. f.revision = d.revision
    BY <2>3
  <2>5. <<d.segment, d.revision>> \in accepted
    BY <1>2, <1>4, <1>7, <2>1, <2>4
  <2>6. QED
    BY <2>5 DEF AlreadyAccepted
<1>8. \A f \in outbox : f.kind = "final" /\ f.run = run => f.seq # seq + 1
  <2>1. \A f \in outbox : f.seq \in Nat
    BY DEF DeliveryInv, ProcessTypes, Written, FinalRecord, SealRecord
  <2>2. ASSUME NEW f \in outbox, f.kind = "final", f.run = run PROVE f.seq # seq + 1
    <3>1. f.seq \in Nat /\ f.seq <= seq /\ seq \in Nat
      BY <1>2, <1>4, <2>1, <2>2
    <3>2. QED
      BY <3>1
  <2>3. QED
    BY <2>2
<1>9. HostInv'
  BY <1>2, <1>3 DEF DeliveryInv, HostInv, Announced, LedgerRests, ProcessTypes
<1>10. PlanInv'
  <2>1. [segment |-> e.segment, revision |-> e.revision] = d
    BY <1>1, <1>3 DEF Piece
  <2>2. QED
    BY <1>1, <1>3, <2>1 DEF DeliveryInv, PlanInv, LedgerRests
<1>11. OutboxesSettle'
  <2>1. SupersedesFailure(e.segment, e.revision)
    BY <1>3 DEF DeliveryInv, DistinctInv, AlreadyAccepted
  <2>2. FreshEvent(e.run, e.seq) /\ e.segment \in Captured
    BY <1>1, <1>3, <1>4, <1>5 DEF FreshEvent, DeliveryInv, PlanInv
  <2>3. Acceptable(e)
    BY <2>1, <2>2 DEF Acceptable
  <2>4. QED
    BY <1>3, <1>4, <1>6, <2>3
       DEF DeliveryInv, OutboxesSettle, NeverPoisoned, SettledRunsDrained, KnownIsStored,
         LedgerRests
<1>12. QED
  BY <1>3, <1>4, <1>7, <1>8, <1>9, <1>10, <1>11

(* The process writes a final only for a dispatched piece it has not       *)
(* accepted.                                                               *)
LEMMA RecogniseStep ==
  ASSUME DeliveryInv, NEW d \in input, NEW status \in Statuses, Recognise(d, status)
  PROVE  DeliveryInv'
<1> USE DEF Recognise, AtLoop, captureVars
<1>1. LedgerRests
  BY NoHandler
<1>2. /\ phase = "running" /\ phase' = "running" /\ ~runSealed /\ batch = {}
      /\ input' = input \ {d}
      /\ UNCHANGED <<run, runSealed, call, network, plan, planned, hostVars>>
  OBVIOUS
<1>3. CASE AlreadyAccepted(d)
  <2>1. UNCHANGED <<seq, accepted, outbox, batch>>
    BY <1>3
  <2>2. ProcessTypes'
    BY <1>2, <2>1 DEF DeliveryInv, ProcessTypes, hostVars
  <2>3. SocketInv' /\ PlanInv' /\ RunInv' /\ FlushInv' /\ OutboxesSettle'
    BY <1>1, <1>2, <2>1, Frames DEF socketVars, planVars, runVars, flushVars, hostVars
  <2>4. HostInv'
    BY <1>1, <1>2, <2>1 DEF DeliveryInv, HostInv, Announced, LedgerRests, hostVars
  <2>5. DistinctInv'
    BY <1>1, <1>2, <2>1 DEF DeliveryInv, DistinctInv, LedgerRests
  <2>6. QED
    BY <1>1, <2>2, <2>3, <2>4, <2>5 DEF DeliveryInv, LedgerRests
<1>4. CASE ~AlreadyAccepted(d)
  <2>1. PICK e : e = Final(d.segment, d.revision, status, seq + 1)
    OBVIOUS
  <2>2. /\ seq' = seq + 1 /\ accepted' = accepted \cup {<<d.segment, d.revision>>}
        /\ outbox' = outbox \cup {e} /\ batch' = {e}
    BY <1>4, <2>1
  <2>3. /\ HostInv' /\ PlanInv' /\ OutboxesSettle'
        /\ e \in Written /\ e.kind = "final" /\ e.run = run /\ e.seq = seq + 1
        /\ e.segment = d.segment /\ e.revision = d.revision
        /\ \A f \in outbox : f.kind = "seal" => f.run # run
        /\ \A f \in outbox : f.kind = "final" /\ f.segment = d.segment => Committed(f)
        /\ \A f \in outbox : f.kind = "final" /\ f.run = run => f.seq # seq + 1
    BY <1>1, <1>2, <1>4, <2>1, <2>2, FinalWritten
  <2>4. ProcessTypes'
    <3>1. <<d.segment, d.revision>> \in Segments \X Nat
      BY DEF DeliveryInv, ProcessTypes, Piece
    <3>2. seq' \in Nat /\ batch' \subseteq outbox' /\ outbox' \subseteq Written
      BY <2>2, <2>3 DEF DeliveryInv, ProcessTypes
    <3>3. QED
      BY <1>2, <2>2, <3>1, <3>2 DEF DeliveryInv, ProcessTypes, hostVars
  <2>5. SocketInv'
    BY <1>1, <1>2, <2>2 DEF DeliveryInv, SocketInv, Awaited, LedgerRests
  <2>6. RunInv'
    <3>1. \A f \in outbox' : f.run <= run
      BY <2>2, <2>3 DEF DeliveryInv, RunInv, ProcessTypes
    <3>2. \A f \in outbox' : f.kind = "final" /\ f.run = run =>
            <<f.segment, f.revision>> \in accepted' /\ f.seq <= seq'
      <4> SUFFICES ASSUME NEW f \in outbox', f.kind = "final", f.run = run
                   PROVE  <<f.segment, f.revision>> \in accepted' /\ f.seq <= seq'
        OBVIOUS
      <4>1. seq \in Nat /\ f.seq \in Nat
        BY <2>2, <2>3 DEF DeliveryInv, ProcessTypes, Written, FinalRecord, SealRecord
      <4>2. CASE f = e
        BY <2>2, <2>3, <4>1, <4>2
      <4>3. CASE f \in outbox
        <5>1. <<f.segment, f.revision>> \in accepted /\ f.seq <= seq
          BY <1>2, <4>3 DEF DeliveryInv, RunInv
        <5>2. QED
          BY <2>2, <4>1, <5>1
      <4>4. QED
        BY <2>2, <4>2, <4>3
    <3>3. \A f \in finals[run] : f.seq <= seq'
      <4>1. finals[run] \subseteq StoredFinal
        BY <1>2, DeliveryAssumption DEF DeliveryInv, LedgerTypes, ProcessTypes
      <4>2. \A f \in finals[run] : f.seq \in Nat /\ f.seq <= seq
        BY <1>2, <4>1 DEF DeliveryInv, RunInv, StoredFinal
      <4>3. QED
        BY <2>2, <4>2 DEF DeliveryInv, ProcessTypes
    <3>4. ~Settled(run) /\ \A f \in outbox' : f.kind = "seal" => f.run # run
      BY <1>2, <2>2, <2>3 DEF DeliveryInv, RunInv
    <3>5. \A r \in Runs : finals[r] # {} \/ Settled(r) => r <= run
      BY DEF DeliveryInv, RunInv
    <3>6. QED
      BY <1>1, <1>2, <3>1, <3>2, <3>3, <3>4, <3>5 DEF RunInv, LedgerRests
  <2>7. FlushInv'
    BY <1>1, <1>2, <2>2, <2>3 DEF DeliveryInv, FlushInv, LedgerRests
  <2>8. DistinctInv'
    BY <1>1, <1>2, <2>2, <2>3 DEF DeliveryInv, DistinctInv, LedgerRests
  <2>9. QED
    BY <1>1, <2>3, <2>4, <2>5, <2>6, <2>7, <2>8 DEF DeliveryInv, LedgerRests
<1>5. QED
  BY <1>3, <1>4

(* The file of a final is there, whole, or it is not.                      *)
LEMMA AppendFailsStep ==
  ASSUME DeliveryInv, NEW d \in input, NEW status \in Statuses, AppendFails(d, status)
  PROVE  DeliveryInv'
<1> USE DEF AppendFails, AtLoop, captureVars, hostVars
<1>1. LedgerRests
  BY NoHandler
<1>2. PICK e : e = Final(d.segment, d.revision, status, seq + 1)
  OBVIOUS
<1>3. CASE outbox' = outbox
  BY <1>1, <1>3, Ended
<1>4. CASE outbox' = outbox \cup {e}
  <2>1. /\ phase = "running" /\ ~runSealed /\ ~AlreadyAccepted(d)
        /\ phase' = "down" /\ seq' = 0 /\ accepted' = {} /\ runSealed' = FALSE
        /\ input' = {} /\ batch' = {} /\ call' = Idle /\ run' = run
        /\ UNCHANGED <<network, plan, planned, host, open, ready, replayed>>
    BY DEF Reset
  <2>2. /\ HostInv' /\ PlanInv' /\ OutboxesSettle'
        /\ e \in Written /\ e.kind = "final" /\ e.run = run /\ e.seq = seq + 1
        /\ e.segment = d.segment /\ e.revision = d.revision
        /\ \A f \in outbox : f.kind = "seal" => f.run # run
        /\ \A f \in outbox : f.kind = "final" /\ f.segment = d.segment => Committed(f)
        /\ \A f \in outbox : f.kind = "final" /\ f.run = run => f.seq # seq + 1
    BY <1>1, <1>2, <1>4, <2>1, FinalWritten
  <2>3. ProcessTypes'
    <3>1. call' \in CallRecord
      BY <2>1 DEF Idle
    <3>2. outbox' \subseteq Written
      BY <1>4, <2>2 DEF DeliveryInv, ProcessTypes
    <3>3. QED
      BY <2>1, <3>1, <3>2 DEF DeliveryInv, ProcessTypes
  <2>4. SocketInv'
    BY <1>1, <1>4, <2>1 DEF DeliveryInv, SocketInv, Awaited, LedgerRests, Idle
  <2>5. RunInv'
    <3>1. run <= run
      BY DEF DeliveryInv, ProcessTypes
    <3>2. QED
      BY <1>1, <1>4, <2>1, <2>2, <3>1 DEF DeliveryInv, RunInv, LedgerRests
  <2>6. FlushInv' /\ DistinctInv'
    BY <1>1, <1>4, <2>1, <2>2 DEF DeliveryInv, FlushInv, DistinctInv, LedgerRests
  <2>7. QED
    BY <1>1, <2>2, <2>3, <2>4, <2>5, <2>6 DEF DeliveryInv, LedgerRests
<1>5. QED
  BY <1>2, <1>3, <1>4

----------------------------------------------------------------------------
(* The server takes the oldest request; whoever waits for it gets the      *)
(* answer, and nobody else does.                                           *)
LEMMA Served ==
  ASSUME DeliveryInv, network # <<>>, NEW verdict \in {"ack", "error"}, Answer(verdict),
         network' = Tail(network), outbox' = outbox,
         \A e \in Written : Committed(e) => Committed(e)',
         \A e \in Written : verdict = "ack" /\ Head(network) = e => Committed(e)'
  PROVE  /\ SocketInv'
         /\ network' \in Seq(Written \cup ReadyRecord)
         /\ call' \in CallRecord
         /\ \A i \in 1..Len(network') : i + 1 \in 1..Len(network) /\ network'[i] = network[i + 1]
<1>1. /\ network \in Seq(Written \cup ReadyRecord)
      /\ call \in CallRecord
  BY DEF DeliveryInv, ProcessTypes
<1>2. /\ network' \in Seq(Written \cup ReadyRecord)
      /\ Len(network') = Len(network) - 1 /\ Len(network) \in Nat \ {0}
      /\ \A i \in 1..Len(network') : network'[i] = network[i + 1]
      /\ Head(network) = network[1]
  BY <1>1, HeadTailProperties, EmptySeq
<1>3. \A i \in 1..Len(network') : i + 1 \in 1..Len(network) /\ network'[i] = network[i + 1]
  BY <1>2
<1>4. \A e \in Written :
        (\E i \in 1..Len(network') : network'[i] = e) => e \in outbox' \/ Committed(e)'
  BY <1>3 DEF DeliveryInv, SocketInv
<1>5. CASE Len(network) = 1 /\ Awaited
  <2>1. call' = [call EXCEPT !.answer = verdict]
    BY <1>5 DEF Answer
  <2>2. /\ call' \in CallRecord
        /\ call'.event = call.event /\ call'.answer = verdict
    BY <1>1, <2>1
  <2>3. call.event = Head(network)
    BY <1>2, <1>5 DEF DeliveryInv, SocketInv
  <2>4. \A e \in Written : call'.event = e /\ call'.answer = "ack" => Committed(e)'
    BY <2>2, <2>3
  <2>5. ~Awaited'
    BY <2>2 DEF Awaited
  <2>6. QED
    BY <1>2, <1>3, <1>4, <2>2, <2>4, <2>5 DEF SocketInv
<1>6. CASE ~(Len(network) = 1 /\ Awaited)
  <2>1. call' = call
    BY <1>6 DEF Answer
  <2>2. Awaited' => network' # <<>> /\ network'[Len(network')] = call'.event
    <3> SUFFICES ASSUME Awaited' PROVE network' # <<>> /\ network'[Len(network')] = call'.event
      OBVIOUS
    <3>1. Awaited /\ Len(network) # 1
      BY <1>6, <2>1 DEF Awaited
    <3>2. network[Len(network)] = call.event
      BY <3>1 DEF DeliveryInv, SocketInv
    <3>3. Len(network') \in Nat /\ Len(network') >= 1 /\ Len(network') + 1 = Len(network)
      BY <1>2, <3>1
    <3>4. network' # <<>>
      BY <3>3
    <3>5. network'[Len(network')] = network[Len(network)]
      BY <1>2, <3>3
    <3>6. QED
      BY <2>1, <3>2, <3>4, <3>5
  <2>3. \A e \in Written : call'.event = e /\ call'.answer = "ack" => Committed(e)'
    BY <2>1 DEF DeliveryInv, SocketInv
  <2>4. QED
    BY <1>1, <1>2, <1>3, <1>4, <2>1, <2>2, <2>3 DEF SocketInv
<1>7. QED
  BY <1>5, <1>6

(* A handler that leaves the ledger as it is.                              *)
LEMMA ServedAtRest ==
  ASSUME DeliveryInv, LedgerRests, network # <<>>, NEW verdict \in {"ack", "error"},
         Answer(verdict), Handled, UNCHANGED hostVars,
         \A e \in Written : verdict = "ack" /\ Head(network) = e => Committed(e)
  PROVE  DeliveryInv'
<1> USE DEF Handled, captureVars, hostVars, memoryVars
<1>1. /\ SocketInv'
      /\ network' \in Seq(Written \cup ReadyRecord)
      /\ call' \in CallRecord
      /\ \A i \in 1..Len(network') : i + 1 \in 1..Len(network) /\ network'[i] = network[i + 1]
  BY Served DEF LedgerRests
<1>2. ProcessTypes'
  BY <1>1 DEF DeliveryInv, ProcessTypes
<1>3. HostInv'
  <2>1. Announced' => Announced
    BY <1>1 DEF Announced
  <2>2. open
    BY DEF DeliveryInv, HostInv
  <2>3. QED
    BY <2>1, <2>2 DEF DeliveryInv, HostInv, LedgerRests
<1>4. PlanInv' /\ RunInv' /\ FlushInv' /\ DistinctInv' /\ OutboxesSettle'
  BY Frames DEF planVars, runVars, flushVars, distinctVars
<1>5. QED
  BY <1>1, <1>2, <1>3, <1>4 DEF DeliveryInv, LedgerRests

(* Ready reaches the host that its process belongs to.                     *)
LEMMA HandleReadyStep == ASSUME DeliveryInv, HandleReady PROVE DeliveryInv'
<1> USE DEF HandleReady, Handled, captureVars, memoryVars
<1>1. LedgerRests
  BY NoHandler
<1>2. network \in Seq(Written \cup ReadyRecord)
  BY DEF DeliveryInv, ProcessTypes
<1>3. /\ Len(network) \in Nat /\ Len(network) >= 1 /\ Head(network) = network[1]
      /\ network[1] \in Written \cup ReadyRecord
  BY <1>2, EmptySeq, HeadTailProperties
<1>4. network[1] \in ReadyRecord /\ Head(network) \notin Written
  BY <1>3, Kinds
<1>5. Announced /\ open
  BY <1>3, <1>4 DEF Announced, DeliveryInv, HostInv
<1>6. /\ SocketInv'
      /\ network' \in Seq(Written \cup ReadyRecord)
      /\ call' \in CallRecord
  BY <1>1, <1>4, Served DEF LedgerRests
<1>7. ProcessTypes'
  BY <1>6 DEF DeliveryInv, ProcessTypes
<1>8. HostInv'
  BY <1>1, <1>5 DEF DeliveryInv, HostInv, LedgerRests
<1>9. PlanInv' /\ RunInv' /\ FlushInv' /\ DistinctInv' /\ OutboxesSettle'
  BY <1>1, Frames DEF planVars, runVars, flushVars, distinctVars
<1>10. QED
  BY <1>1, <1>6, <1>7, <1>8, <1>9 DEF DeliveryInv, LedgerRests

(* The oldest request, when it is an event, is on disk or stored.          *)
LEMMA HeadWritten ==
  ASSUME DeliveryInv, network # <<>>, Head(network).kind \in {"final", "seal"}
  PROVE  /\ Head(network) \in Written
         /\ Head(network) \in outbox \/ Committed(Head(network))
         /\ open
<1>1. network \in Seq(Written \cup ReadyRecord)
  BY DEF DeliveryInv, ProcessTypes
<1>2. Len(network) \in Nat /\ Len(network) >= 1 /\ Head(network) = network[1]
  BY <1>1, EmptySeq, HeadTailProperties
<1>3. network[1] \in Written
  BY <1>1, <1>2, HeadTailProperties, Kinds
<1>4. QED
  BY <1>2, <1>3 DEF DeliveryInv, SocketInv, HostInv

(* A new final is stored.  It waited in the outbox, no other final of its  *)
(* segment did, and whatever is still on its way to the recogniser is for  *)
(* another segment, or was accepted.                                       *)
LEMMA FinalStored ==
  ASSUME DeliveryInv, NEW e \in outbox, e.kind = "final", ~Committed(e), Acceptable(e),
         open, network # <<>>, Head(network) = e,
         IngestFinal(e.run, e.seq, e.segment, e.revision, e.status), Answer("ack"),
         Handled, UNCHANGED hostVars
  PROVE  DeliveryInv'
<1> DEFINE row == [status |-> e.status, origin |-> "asr", run |-> e.run]
           stored == [seq |-> e.seq, segment |-> e.segment]
<1>1. /\ e \in Written /\ e \in FinalRecord /\ e.run \in Runs /\ e.run \in Nat /\ e.seq \in Nat
      /\ e.segment \in Segments /\ e.revision \in Nat /\ e.status \in Statuses
  BY Kinds, DeliveryAssumption DEF DeliveryInv, ProcessTypes, FinalRecord, Hosts
<1>2. row \in AsrRow /\ stored \in StoredFinal
  BY <1>1 DEF AsrRow, StoredFinal
<1>3. /\ revisions' = [revisions EXCEPT ![e.segment] = Append(@, row)]
      /\ finals' = [finals EXCEPT ![e.run] = @ \cup {stored}]
      /\ captures' = captures /\ producerSeals' = producerSeals
      /\ reconciliations' = reconciliations
  BY DEF IngestFinal, AppendRevision, sealVars
<1>4. /\ UNCHANGED <<plan, planned, host, open, ready, replayed>>
      /\ UNCHANGED <<phase, run, seq, accepted, runSealed, input, batch, outbox>>
      /\ network' = Tail(network)
  BY DEF Handled, captureVars, hostVars, memoryVars
<1> HIDE DEF row, stored
<1>5. /\ revisions \in [Segments -> Seq(AsrRow)] /\ finals \in [Runs -> SUBSET StoredFinal]
      /\ Captured \subseteq Segments
  BY DEF DeliveryInv, LedgerTypes
<1>6. /\ \A s \in Segments : s # e.segment => revisions'[s] = revisions[s]
      /\ revisions'[e.segment] = Append(revisions[e.segment], row)
      /\ \A r \in Runs : r # e.run => finals'[r] = finals[r]
      /\ finals'[e.run] = finals[e.run] \cup {stored}
      /\ Captured' = Captured
  BY <1>1, <1>3, <1>5 DEF Captured
<1>7. LedgerTypes'
  <2>1. Append(revisions[e.segment], row) \in Seq(AsrRow)
    BY <1>1, <1>2, <1>5, AppendProperties
  <2>2. revisions' \in [Segments -> Seq(AsrRow)]
    BY <1>3, <1>5, <2>1
  <2>3. finals' \in [Runs -> SUBSET StoredFinal]
    BY <1>1, <1>2, <1>3, <1>5
  <2>4. QED
    BY <1>5, <1>6, <2>2, <2>3 DEF LedgerTypes
<1>8. \A r : Settled(r)' <=> Settled(r)
  BY <1>3 DEF Settled
<1>9. \A f \in Written : Committed(f)' <=>
        Committed(f) \/ (f.kind = "final" /\ f.run = e.run /\ f.seq = e.seq)
  <2> SUFFICES ASSUME NEW f \in Written
               PROVE  Committed(f)' <=>
                        Committed(f) \/ (f.kind = "final" /\ f.run = e.run /\ f.seq = e.seq)
    OBVIOUS
  <2>1. f.run \in Runs
    BY DeliveryAssumption DEF Written, FinalRecord, SealRecord
  <2>2. CASE f.kind = "final"
    <3>1. Committed(f)' <=> \E x \in finals'[f.run] : x.seq = f.seq
      BY <2>2 DEF Committed
    <3>2. Committed(f) <=> \E x \in finals[f.run] : x.seq = f.seq
      BY <2>2 DEF Committed
    <3>3. stored.seq = e.seq
      BY DEF stored
    <3>4. QED
      BY <1>6, <2>1, <2>2, <3>1, <3>2, <3>3
  <2>3. CASE f.kind # "final"
    BY <1>3, <2>3 DEF Committed
  <2>4. QED
    BY <2>2, <2>3
<1>10. \A s \in Segments : \A n :
         s # e.segment => (SupersedesFailure(s, n)' <=> SupersedesFailure(s, n))
  BY <1>6 DEF SupersedesFailure, Current
<1>11. Committed(e)' /\ \A f \in Written : Committed(f) => Committed(f)'
  BY <1>1, <1>9
<1>12. /\ SocketInv'
       /\ network' \in Seq(Written \cup ReadyRecord)
       /\ call' \in CallRecord
       /\ \A i \in 1..Len(network') : i + 1 \in 1..Len(network) /\ network'[i] = network[i + 1]
  BY <1>4, <1>11, Served
<1>13. ProcessTypes'
  BY <1>4, <1>12 DEF DeliveryInv, ProcessTypes
<1>14. outbox \subseteq Written
  BY DEF DeliveryInv, ProcessTypes
<1>15. HostInv'
  <2>1. Announced' => Announced
    BY <1>4, <1>12 DEF Announced
  <2>2. Announced => run = host /\ \A f \in outbox : f.run = host \/ Committed(f)
    BY DEF DeliveryInv, HostInv
  <2>3. QED
    BY <1>4, <1>11, <1>14, <2>1, <2>2 DEF DeliveryInv, HostInv
<1>16. e.run <= run /\ run <= host /\ run \in Nat /\ host \in Nat \ {0}
  BY DeliveryAssumption DEF DeliveryInv, RunInv, ProcessTypes, Hosts
<1>17. PlanInv'
  <2>1. \A s \in Segments : Len(revisions[s]) \in Nat /\ Len(revisions'[s]) \in Nat
                            /\ Len(revisions[s]) <= Len(revisions'[s])
    <3> SUFFICES ASSUME NEW s \in Segments
                 PROVE  Len(revisions[s]) \in Nat /\ Len(revisions'[s]) \in Nat
                        /\ Len(revisions[s]) <= Len(revisions'[s])
      OBVIOUS
    <3>1. Len(revisions[s]) \in Nat
      BY <1>5, LenProperties
    <3>2. CASE s = e.segment
      BY <1>1, <1>2, <1>5, <1>6, <3>1, <3>2, AppendProperties
    <3>3. CASE s # e.segment
      BY <1>6, <3>1, <3>3
    <3>4. QED
      BY <3>2, <3>3
  <2>2. \A d \in plan : d.segment \in Captured'
                        /\ d.revision \in 1..(Len(revisions'[d.segment]) + 1)
    <3> SUFFICES ASSUME NEW d \in plan
                 PROVE  d.segment \in Captured'
                        /\ d.revision \in 1..(Len(revisions'[d.segment]) + 1)
      OBVIOUS
    <3>1. d.segment \in Captured /\ d.revision \in 1..(Len(revisions[d.segment]) + 1)
      BY DEF DeliveryInv, PlanInv
    <3>2. QED
      BY <1>5, <1>6, <2>1, <3>1
  <2>3. host = 1 => \A s \in Segments : revisions'[s] # <<>> => \E d \in plan : d.segment = s
    <3> SUFFICES ASSUME host = 1, NEW s \in Segments, revisions'[s] # <<>>
                 PROVE  \E d \in plan : d.segment = s
      OBVIOUS
    <3>1. CASE s # e.segment
      BY <1>6, <3>1 DEF DeliveryInv, PlanInv
    <3>2. CASE s = e.segment
      <4>1. e.run = host
        BY <1>1, <1>16, DeliveryAssumption DEF FinalRecord, Hosts
      <4>2. [segment |-> e.segment, revision |-> e.revision] \in plan
        BY <4>1 DEF DeliveryInv, PlanInv
      <4>3. QED
        BY <3>2, <4>2
    <3>3. QED
      BY <3>1, <3>2
  <2>4. QED
    BY <1>4, <2>2, <2>3 DEF DeliveryInv, PlanInv
<1>18. RunInv'
  <2>1. \A r \in Runs : finals'[r] # {} \/ Settled(r)' => r <= run
    <3>1. \A r \in Runs : finals[r] # {} \/ Settled(r) => r <= run
      BY DEF DeliveryInv, RunInv
    <3>2. QED
      BY <1>6, <1>8, <1>16, <3>1
  <2>2. phase # "down" => \A f \in finals'[run] : f.seq <= seq
    <3> SUFFICES ASSUME phase # "down", NEW f \in finals'[run] PROVE f.seq <= seq
      OBVIOUS
    <3>1. run \in Runs
      BY DeliveryAssumption DEF DeliveryInv, ProcessTypes
    <3>2. CASE f \in finals[run]
      BY <3>2 DEF DeliveryInv, RunInv
    <3>3. CASE f \notin finals[run]
      <4>1. f = stored /\ e.run = run
        BY <1>6, <3>1, <3>3
      <4>2. e.seq <= seq
        BY <4>1 DEF DeliveryInv, RunInv
      <4>3. QED
        BY <4>1, <4>2 DEF stored
    <3>4. QED
      BY <3>2, <3>3
  <2>3. QED
    BY <1>4, <1>8, <2>1, <2>2 DEF DeliveryInv, RunInv
<1>19. FlushInv'
  BY <1>4, <1>11, <1>14 DEF DeliveryInv, FlushInv
<1>20. \A f \in outbox : f.kind = "final" /\ f.segment = e.segment => Committed(f)'
  <2> SUFFICES ASSUME NEW f \in outbox, f.kind = "final", f.segment = e.segment, ~Committed(f)
               PROVE  Committed(f)'
    BY <1>11, <1>14
  <2>1. f = e
    BY DEF DeliveryInv, DistinctInv
  <2>2. QED
    BY <1>11, <2>1
<1>21. DistinctInv'
  <2>1. ASSUME phase # "down", NEW d \in input
        PROVE  <<d.segment, d.revision>> \in accepted \/ SupersedesFailure(d.segment, d.revision)'
    <3>1. d \in Piece /\ d \in plan /\ d.segment \in Segments
      BY DEF DeliveryInv, ProcessTypes, Piece
    <3>2. CASE d.segment # e.segment
      BY <1>10, <2>1, <3>1, <3>2 DEF DeliveryInv, DistinctInv
    <3>3. CASE d.segment = e.segment
      <4>1. e.run = host /\ run = host
        BY DEF DeliveryInv, HostInv, Announced
      <4>2. [segment |-> e.segment, revision |-> e.revision] \in plan
        BY <4>1 DEF DeliveryInv, PlanInv
      <4>3. [segment |-> e.segment, revision |-> e.revision] = d
        BY <3>1, <3>3, <4>2 DEF DeliveryInv, PlanInv
      <4>4. e.revision = d.revision
        BY <4>3
      <4>5. <<e.segment, e.revision>> \in accepted
        BY <2>1, <4>1 DEF DeliveryInv, RunInv
      <4>6. QED
        BY <3>3, <4>4, <4>5
    <3>4. QED
      BY <3>2, <3>3
  <2>2. \A f \in outbox : f.kind = "final" /\ ~Committed(f)' => ~Committed(f)
    BY <1>11, <1>14
  <2>3. QED
    BY <1>4, <2>1, <2>2 DEF DeliveryInv, DistinctInv
<1>22. OutboxesSettle'
  <2>1. NeverPoisoned'
    <3> SUFFICES ASSUME NEW f \in outbox, f.kind = "final", ~Committed(f)' PROVE Acceptable(f)'
      BY <1>4 DEF NeverPoisoned
    <3>1. f.segment # e.segment /\ ~Committed(f) /\ f \in Written
      BY <1>11, <1>14, <1>20
    <3>2. Acceptable(f)
      BY <3>1 DEF DeliveryInv, OutboxesSettle, NeverPoisoned
    <3>3. SupersedesFailure(f.segment, f.revision)'
      BY <1>5, <1>10, <3>1, <3>2 DEF Acceptable
    <3>4. FreshEvent(f.run, f.seq)'
      BY <1>8, <3>2 DEF Acceptable, FreshEvent, Committed
    <3>5. QED
      BY <1>6, <3>2, <3>3, <3>4 DEF Acceptable
  <2>2. SettledRunsDrained'
    BY <1>4, <1>8, <1>11, <1>14 DEF DeliveryInv, OutboxesSettle, SettledRunsDrained
  <2>3. KnownIsStored'
    <3> SUFFICES ASSUME NEW f \in outbox, f.kind = "final", Committed(f)'
                 PROVE  [seq |-> f.seq, segment |-> f.segment] \in finals'[f.run]
      BY <1>4 DEF KnownIsStored
    <3>1. f \in Written /\ f.run \in Runs
      BY <1>14, DeliveryAssumption DEF Written, FinalRecord, SealRecord
    <3>2. CASE Committed(f)
      <4>1. [seq |-> f.seq, segment |-> f.segment] \in finals[f.run]
        BY <3>2 DEF DeliveryInv, OutboxesSettle, KnownIsStored
      <4>2. QED
        BY <1>6, <3>1, <4>1
    <3>3. CASE ~Committed(f)
      <4>1. f.run = e.run /\ f.seq = e.seq
        BY <1>9, <3>1, <3>3
      <4>2. f = e
        BY <4>1 DEF DeliveryInv, DistinctInv
      <4>3. QED
        BY <1>6, <4>2 DEF stored
    <3>4. QED
      BY <3>2, <3>3
  <2>4. QED
    BY <2>1, <2>2, <2>3 DEF OutboxesSettle
<1>23. QED
  BY <1>7, <1>12, <1>13, <1>15, <1>17, <1>18, <1>19, <1>21, <1>22 DEF DeliveryInv

(* The server takes a final to the ledger, answers it as known or refuses  *)
(* it.                                                                     *)
LEMMA HandleFinalStep == ASSUME DeliveryInv, HandleFinal PROVE DeliveryInv'
<1>1. PICK e : e = Head(network)
  OBVIOUS
<1>2. /\ network # <<>> /\ e.kind = "final" /\ Handled /\ UNCHANGED hostVars
      /\ \/ Committed(e) /\ UNCHANGED ledgerVars /\ Answer("ack")
         \/ /\ ~Committed(e) /\ Acceptable(e) /\ Answer("ack")
            /\ IngestFinal(e.run, e.seq, e.segment, e.revision, e.status)
         \/ UNCHANGED ledgerVars /\ Answer("error")
  BY <1>1 DEF HandleFinal
<1>3. e \in Written /\ (e \in outbox \/ Committed(e)) /\ open
  BY <1>1, <1>2, HeadWritten
<1>4. CASE Committed(e) /\ UNCHANGED ledgerVars /\ Answer("ack")
  BY <1>1, <1>2, <1>4, NoHandler, ServedAtRest
<1>5. CASE UNCHANGED ledgerVars /\ Answer("error")
  BY <1>1, <1>2, <1>5, NoHandler, ServedAtRest
<1>6. CASE /\ ~Committed(e) /\ Acceptable(e) /\ Answer("ack")
           /\ IngestFinal(e.run, e.seq, e.segment, e.revision, e.status)
  BY <1>1, <1>2, <1>3, <1>6, FinalStored
<1>7. QED
  BY <1>2, <1>4, <1>5, <1>6

(* A run is settled, by its seal or in its absence, when all the outbox    *)
(* holds of it is stored; then nothing of it can be refused.               *)
LEMMA RunSettled ==
  ASSUME DeliveryInv, NEW r \in Runs, r <= run,
         captures' = captures, revisions' = revisions, finals' = finals,
         \A f \in Written : Committed(f) => Committed(f)',
         \A f \in Written : f.kind = "final" => (Committed(f)' <=> Committed(f)),
         \A x : Settled(x)' <=> Settled(x) \/ x = r,
         \A f \in outbox : f.run = r => Committed(f)',
         r = run /\ phase # "down" => runSealed \/ phase \in {"sealing", "closing"},
         UNCHANGED <<plan, planned, host, open, ready, replayed>>,
         UNCHANGED <<phase, run, seq, accepted, runSealed, input, batch, outbox>>,
         Announced' => Announced, ~open => network' = network
  PROVE  /\ LedgerTypes' /\ HostInv' /\ PlanInv' /\ RunInv' /\ FlushInv' /\ DistinctInv'
         /\ OutboxesSettle'
<1>1. outbox \subseteq Written
  BY DEF DeliveryInv, ProcessTypes
<1>2. Captured' = Captured
  BY DEF Captured
<1>3. LedgerTypes'
  BY <1>2 DEF DeliveryInv, LedgerTypes
<1>4. HostInv'
  BY <1>1 DEF DeliveryInv, HostInv
<1>5. PlanInv'
  BY <1>2 DEF DeliveryInv, PlanInv
<1>6. RunInv'
  BY DEF DeliveryInv, RunInv
<1>7. FlushInv'
  BY <1>1 DEF DeliveryInv, FlushInv
<1>8. \A s, n : SupersedesFailure(s, n)' <=> SupersedesFailure(s, n)
  BY DEF SupersedesFailure, Current
<1>9. DistinctInv'
  BY <1>1, <1>8 DEF DeliveryInv, DistinctInv
<1>10. OutboxesSettle'
  <2>1. NeverPoisoned'
    <3> SUFFICES ASSUME NEW f \in outbox, f.kind = "final", ~Committed(f)' PROVE Acceptable(f)'
      BY DEF NeverPoisoned
    <3>1. f.run # r /\ Acceptable(f)
      BY <1>1 DEF DeliveryInv, OutboxesSettle, NeverPoisoned
    <3>2. QED
      BY <1>2, <1>8, <3>1 DEF Acceptable, FreshEvent
  <2>2. SettledRunsDrained'
    BY <1>1 DEF DeliveryInv, OutboxesSettle, SettledRunsDrained
  <2>3. KnownIsStored'
    BY <1>1 DEF DeliveryInv, OutboxesSettle, KnownIsStored
  <2>4. QED
    BY <2>1, <2>2, <2>3 DEF OutboxesSettle
<1>11. QED
  BY <1>3, <1>4, <1>5, <1>6, <1>7, <1>9, <1>10

(* The seal that is stored covers all its run ever wrote.                  *)
LEMMA SealStored ==
  ASSUME DeliveryInv, NEW e \in outbox, e.kind = "seal", network # <<>>, Head(network) = e,
         open, SealProducer(e.run, e.seq - 1, e.segments), Answer("ack"), Handled,
         UNCHANGED hostVars
  PROVE  DeliveryInv'
<1>1. e \in Written /\ e.run \in Runs /\ e.run <= run
  BY DeliveryAssumption DEF DeliveryInv, ProcessTypes, Written, FinalRecord, SealRecord, RunInv
<1>2. /\ UNCHANGED <<plan, planned, host, open, ready, replayed>>
      /\ UNCHANGED <<phase, run, seq, accepted, runSealed, input, batch, outbox>>
      /\ network' = Tail(network)
  BY DEF Handled, captureVars, hostVars, memoryVars
<1>3. PICK p : p.run = e.run /\ producerSeals' = producerSeals \cup {p}
  BY DEF SealProducer
<1>4. /\ captures' = captures /\ revisions' = revisions /\ finals' = finals
      /\ reconciliations' = reconciliations
  BY DEF SealProducer
<1>5. \A x : Settled(x)' <=> Settled(x) \/ x = e.run
  BY <1>3, <1>4 DEF Settled
<1>6. /\ \A f \in Written : Committed(f) => Committed(f)'
      /\ \A f \in Written : f.kind = "final" => (Committed(f)' <=> Committed(f))
      /\ \A f \in Written : f.kind = "seal" /\ f.run = e.run => Committed(f)'
  BY <1>3, <1>4 DEF Committed
<1>7. \A f \in outbox : f.run = e.run => Committed(f)'
  <2>1. outbox \subseteq Written
    BY DEF DeliveryInv, ProcessTypes
  <2>2. \A f \in outbox : f.kind = "final" /\ f.run = e.run => Committed(f)
    BY DEF DeliveryInv, FlushInv
  <2>3. QED
    BY <1>6, <2>1, <2>2, Kinds
<1>8. e.run = run /\ phase # "down" => runSealed \/ phase \in {"sealing", "closing"}
  BY DEF DeliveryInv, RunInv
<1>9. /\ SocketInv'
      /\ network' \in Seq(Written \cup ReadyRecord)
      /\ call' \in CallRecord
      /\ \A i \in 1..Len(network') : i + 1 \in 1..Len(network) /\ network'[i] = network[i + 1]
  BY <1>1, <1>2, <1>6, <1>7, Served
<1>10. ProcessTypes'
  BY <1>2, <1>9 DEF DeliveryInv, ProcessTypes
<1>11. Announced' => Announced
  BY <1>2, <1>9 DEF Announced
<1>12. /\ LedgerTypes' /\ HostInv' /\ PlanInv' /\ RunInv' /\ FlushInv' /\ DistinctInv'
       /\ OutboxesSettle'
  BY <1>1, <1>2, <1>4, <1>5, <1>6, <1>7, <1>8, <1>11, RunSettled
<1>13. QED
  BY <1>9, <1>10, <1>12 DEF DeliveryInv

(* The server takes a seal to the ledger, answers it as known or refuses   *)
(* it.                                                                     *)
LEMMA HandleSealStep == ASSUME DeliveryInv, HandleSeal PROVE DeliveryInv'
<1>1. PICK e : e = Head(network)
  OBVIOUS
<1>2. /\ network # <<>> /\ e.kind = "seal" /\ Handled /\ UNCHANGED hostVars
      /\ \/ Committed(e) /\ UNCHANGED ledgerVars /\ Answer("ack")
         \/ /\ ~Committed(e) /\ Answer("ack")
            /\ SealProducer(e.run, e.seq - 1, e.segments)
         \/ UNCHANGED ledgerVars /\ Answer("error")
  BY <1>1 DEF HandleSeal
<1>3. e \in Written /\ (e \in outbox \/ Committed(e)) /\ open
  BY <1>1, <1>2, HeadWritten
<1>4. CASE Committed(e) /\ UNCHANGED ledgerVars /\ Answer("ack")
  BY <1>1, <1>2, <1>4, NoHandler, ServedAtRest
<1>5. CASE UNCHANGED ledgerVars /\ Answer("error")
  BY <1>1, <1>2, <1>5, NoHandler, ServedAtRest
<1>6. CASE ~Committed(e) /\ Answer("ack") /\ SealProducer(e.run, e.seq - 1, e.segments)
  BY <1>1, <1>2, <1>3, <1>6, SealStored
<1>7. QED
  BY <1>2, <1>4, <1>5, <1>6

(* The host settles an older run only after the ready call, when the       *)
(* replay has left nothing of it that is not stored.                       *)
LEMMA ReconcileStep == ASSUME DeliveryInv, NEW r \in Hosts, Reconcile(r) PROVE DeliveryInv'
<1>1. PICK n \in 0..MaxSeq : ReconcileAbandonedProducer(r, n)
  BY DEF Reconcile
<1>2. /\ ready /\ r < host /\ (r < run \/ phase = "down")
      /\ UNCHANGED <<plan, planned, host, open, ready, replayed, network, call>>
      /\ UNCHANGED <<phase, run, seq, accepted, runSealed, input, batch, outbox>>
  BY DEF Reconcile, Gone, processVars, captureVars, hostVars, asrVars, memoryVars
<1>3. r \in Runs /\ r <= run /\ r # host /\ run \in Nat
  <2>1. r \in Runs /\ finals[r] # {}
    BY DEF Reconcile, UnsealedRuns
  <2>2. r < host /\ r \in Nat /\ host \in Nat
    BY <1>2 DEF DeliveryInv, ProcessTypes, Hosts
  <2>3. QED
    BY <2>1, <2>2 DEF DeliveryInv, RunInv, ProcessTypes
<1>4. /\ captures' = captures /\ revisions' = revisions /\ finals' = finals
      /\ producerSeals' = producerSeals
  BY <1>1 DEF ReconcileAbandonedProducer
<1>5. \A x : Settled(x)' <=> Settled(x) \/ x = r
  <2>1. PICK p : p.run = r /\ reconciliations' = reconciliations \cup {p}
    BY <1>1 DEF ReconcileAbandonedProducer
  <2>2. QED
    BY <1>4, <2>1 DEF Settled
<1>6. \A f : Committed(f)' <=> Committed(f)
  BY <1>4 DEF Committed
<1>7. \A f \in outbox : f.run = r => Committed(f)'
  BY <1>2, <1>3, <1>6 DEF DeliveryInv, HostInv, Announced
<1>8. r = run => phase = "down"
  BY <1>2, <1>3
<1>9. ProcessTypes'
  BY <1>2 DEF DeliveryInv, ProcessTypes
<1>10. SocketInv'
  BY <1>2, <1>6 DEF DeliveryInv, SocketInv, Awaited
<1>11. Announced' => Announced
  BY <1>2 DEF Announced
<1>12. /\ LedgerTypes' /\ HostInv' /\ PlanInv' /\ RunInv' /\ FlushInv' /\ DistinctInv'
       /\ OutboxesSettle'
  BY <1>2, <1>3, <1>4, <1>5, <1>6, <1>7, <1>8, <1>11, RunSettled
<1>13. QED
  BY <1>9, <1>10, <1>12 DEF DeliveryInv

----------------------------------------------------------------------------
(* Every step of the delivery preserves its invariant.                     *)
LEMMA DeliveryStep == ASSUME DeliveryInv, DeliveryNext PROVE DeliveryInv'
<1>1. CASE AsrStep
  <2>1. CASE \E e \in outbox : Flush(e)
    BY <2>1, FlushStep
  <2>2. CASE Announce \/ ReceiveAck \/ ReceiveError
    BY <2>2, AnnounceStep, ReceiveAckStep, ReceiveErrorStep
  <2>3. CASE RetryRound \/ SealRun \/ CloseRun
    BY <2>3, RoundSteps, SealRunStep, CloseRunStep
  <2>4. CASE \E d \in input, status \in Statuses : Recognise(d, status)
    BY <2>4, RecogniseStep
  <2>5. QED
    BY <1>1, <2>1, <2>2, <2>3, <2>4 DEF AsrStep
<1>2. CASE ServerStep
  BY <1>2, HandleFinalStep, HandleSealStep, HandleReadyStep DEF ServerStep
<1>3. CASE HostStep
  BY <1>3, ReconcileStep, QuietSteps DEF HostStep
<1>4. CASE CaptureStep
  <2>1. CASE \E s \in Segments : RegisterSegment(s) \/ DispatchLive(s)
    BY <2>1, RegisterSegmentStep, DispatchLiveStep
  <2>2. CASE FinishDelivery \/ SealCapture
    BY <2>2, QuietSteps
  <2>3. CASE MakePlan \/ AcknowledgeReplay \/ \E d \in plan : DispatchReplay(d)
    BY <2>3, MakePlanStep, AcknowledgeReplayStep, DispatchReplayStep
  <2>4. QED
    BY <1>4, <2>1, <2>2, <2>3 DEF CaptureStep
<1>5. CASE Disturbance
  <2>1. CASE Start \/ Die \/ Stop
    BY <2>1, StartStep, DieStep, RoundSteps
  <2>2. CASE \E d \in input, status \in Statuses : AppendFails(d, status)
    BY <2>2, AppendFailsStep
  <2>3. CASE LoseRequest \/ TimeOut \/ LoseReply
    BY <2>3, LossSteps
  <2>4. CASE Activate \/ MarkStopping \/ Interrupt \/ \E s \in Segments : CloseSegment(s)
    BY <2>4, QuietSteps
  <2>5. CASE EndHost \/ OpenRecovery
    BY <2>5, EndHostStep, OpenRecoveryStep
  <2>6. QED
    BY <1>5, <2>1, <2>2, <2>3, <2>4, <2>5 DEF Disturbance
<1>6. QED
  BY <1>1, <1>2, <1>3, <1>4, <1>5 DEF DeliveryNext

(* The invariant of the delivery: what waits in the outboxes is what the   *)
(* ledger still needs, an acknowledged event is stored, and a run is       *)
(* settled when it is drained.                                             *)
THEOREM DeliveryInvariant == DeliverySpec => []DeliveryInv
<1>1. DeliveryInit => DeliveryInv
  BY InitDelivery
<1>2. DeliveryInv /\ UNCHANGED deliveryVars => DeliveryInv'
  BY Quiet DEF deliveryVars, processVars, captureVars, ledgerVars, vars, sealVars, readVars
<1>3. DeliveryInv /\ [DeliveryNext]_deliveryVars => DeliveryInv'
  BY <1>2, DeliveryStep
<1>4. QED
  BY <1>1, <1>3, PTL DEF DeliverySpec

(* No event stays in an outbox that the ledger would refuse for ever, none *)
(* is taken for another, and what is settled of a dead run covers all that *)
(* run ever wrote, for every number of hosts, segments, losses and finals. *)
THEOREM OutboxesTheorem == DeliverySpec => []OutboxesSettle
<1>1. DeliveryInv => OutboxesSettle
  BY DEF DeliveryInv
<1>2. QED
  BY <1>1, DeliveryInvariant, PTL

(* An event is deleted only on the answer to its own request.              *)
LEMMA OnlyAcknowledgedGo ==
  ASSUME DeliveryInv, DeliveryNext, NEW e \in outbox, e \notin outbox' PROVE Committed(e)
<1> USE DEF captureVars, hostVars, asrVars, processVars, captureOnly, Handled
<1>1. CASE AsrStep
  <2>1. CASE ReceiveAck
    <3>1. e = call.event /\ call.answer = "ack"
      BY <2>1 DEF ReceiveAck, CleanUp
    <3>2. QED
      BY <3>1 DEF DeliveryInv, SocketInv, ProcessTypes
  <2>2. CASE ReceiveError
    BY <2>2 DEF ReceiveError, CleanUp
  <2>3. CASE \E f \in outbox : Flush(f)
    BY <2>3 DEF Flush
  <2>4. CASE Announce \/ RetryRound
    BY <2>4 DEF Announce, RetryRound
  <2>5. CASE \E d \in input, status \in Statuses : Recognise(d, status)
    BY <2>5 DEF Recognise
  <2>6. CASE SealRun \/ CloseRun
    BY <2>6 DEF SealRun, CloseRun, WriteSeal
  <2>7. QED
    BY <1>1, <2>1, <2>2, <2>3, <2>4, <2>5, <2>6 DEF AsrStep
<1>2. CASE ServerStep
  BY <1>2 DEF ServerStep, HandleFinal, HandleSeal, HandleReady
<1>3. CASE HostStep
  BY <1>3 DEF HostStep, Reconcile, HostSeals
<1>4. CASE CaptureStep
  BY <1>4 DEF CaptureStep, RegisterSegment, DispatchLive, FinishDelivery, MakePlan, DispatchReplay,
              SealCapture, AcknowledgeReplay
<1>5. CASE Disturbance
  <2>1. CASE \E d \in input, status \in Statuses : AppendFails(d, status)
    BY <2>1 DEF AppendFails
  <2>2. CASE Start \/ Die \/ Stop \/ LoseRequest \/ TimeOut \/ LoseReply
    BY <2>2 DEF Start, Die, Stop, LoseRequest, TimeOut, LoseReply
  <2>3. CASE Activate \/ MarkStopping \/ Interrupt \/ \E s \in Segments : CloseSegment(s)
    BY <2>3 DEF Activate, MarkStopping, Interrupt, CloseSegment
  <2>4. CASE EndHost \/ OpenRecovery
    BY <2>4 DEF EndHost, OpenRecovery
  <2>5. QED
    BY <1>5, <2>1, <2>2, <2>3, <2>4 DEF Disturbance
<1>6. QED
  BY <1>1, <1>2, <1>3, <1>4, <1>5 DEF DeliveryNext

(* Only the host seals the transcript.                                     *)
LEMMA OnlyTheHostSeals == ASSUME DeliveryNext, ~sealed, sealed' PROVE HostSeals
<1> USE DEF ledgerVars, vars, lifecycleVars
<1>1. CASE AsrStep
  <2>1. CASE \E f \in outbox : Flush(f)
    BY <2>1 DEF Flush
  <2>2. CASE \E d \in input, status \in Statuses : Recognise(d, status)
    BY <2>2 DEF Recognise
  <2>3. CASE Announce \/ RetryRound \/ ReceiveAck \/ ReceiveError \/ SealRun \/ CloseRun
    BY <2>3 DEF Announce, RetryRound, ReceiveAck, ReceiveError, SealRun, CloseRun
  <2>4. QED
    BY <1>1, <2>1, <2>2, <2>3 DEF AsrStep
<1>2. CASE ServerStep
  BY <1>2 DEF ServerStep, HandleFinal, HandleSeal, HandleReady, IngestFinal, SealProducer
<1>3. CASE \E r \in Hosts : Reconcile(r)
  BY <1>3 DEF Reconcile, ReconcileAbandonedProducer
<1>4. CASE CaptureStep
  BY <1>4 DEF CaptureStep, RegisterSegment, RegisterCapture, DispatchLive, FinishDelivery, MakePlan,
              DispatchReplay, SealCapture, StopCapture, AcknowledgeReplay
<1>5. CASE Disturbance
  <2>1. CASE \E d \in input, status \in Statuses : AppendFails(d, status)
    BY <2>1 DEF AppendFails
  <2>2. CASE Start \/ Die \/ Stop \/ LoseRequest \/ TimeOut \/ LoseReply
    BY <2>2 DEF Start, Die, Stop, LoseRequest, TimeOut, LoseReply
  <2>3. CASE Activate \/ MarkStopping \/ Interrupt \/ \E s \in Segments : CloseSegment(s)
    BY <2>3 DEF Activate, MarkStopping, Interrupt, CloseSegment, TransitionSession
  <2>4. CASE EndHost \/ OpenRecovery
    BY <2>4 DEF EndHost, OpenRecovery, TransitionSession
  <2>5. QED
    BY <1>5, <2>1, <2>2, <2>3, <2>4 DEF Disturbance
<1>6. QED
  BY <1>1, <1>2, <1>3, <1>4, <1>5 DEF DeliveryNext, HostStep

(* A final that still waits when every captured segment has a result is a  *)
(* recomputation.  Its host planned it, so in recovery the host waits for  *)
(* it, and live no second revision is ever planned.                        *)
LEMMA NoneLeftAtTheSeal ==
  ASSUME DeliveryInv, HostSeals, NEW e \in outbox, e.kind = "final" PROVE Committed(e)
<1> SUFFICES ASSUME ~Committed(e) PROVE FALSE
  OBVIOUS
<1> DEFINE rows == revisions[e.segment]
<1>1. Acceptable(e)
  BY DEF DeliveryInv, OutboxesSettle, NeverPoisoned
<1>2. /\ e \in FinalRecord /\ e.segment \in Segments
      /\ e.run \in Hosts /\ e.run \in Nat /\ e.revision \in Nat
  BY Kinds DEF DeliveryInv, ProcessTypes, FinalRecord, Hosts
<1>3. rows # <<>> /\ Len(rows) \in Nat /\ Len(rows) >= 1
  <2>1. rows # <<>>
    BY <1>1 DEF HostSeals, SealTranscript, Acceptable
  <2>2. rows \in Seq(AsrRow)
    BY <1>2 DEF DeliveryInv, LedgerTypes
  <2>3. QED
    BY <2>1, <2>2, EmptySeq
<1>4. e.revision = Len(rows) + 1
  BY <1>1, <1>3 DEF Acceptable, SupersedesFailure
<1>5. open /\ PlanCommitted
  BY DEF HostSeals
<1>6. ASSUME e.run = host PROVE FALSE
  <2>1. PICK d \in plan : d = [segment |-> e.segment, revision |-> e.revision]
    BY <1>5, <1>6 DEF DeliveryInv, PlanInv
  <2>2. d.segment = e.segment /\ d.revision = e.revision
    BY <2>1
  <2>3. CASE host = 1
    BY <1>3, <1>4, <2>2, <2>3 DEF DeliveryInv, PlanInv
  <2>4. CASE host # 1
    <3>1. host > 1
      BY <2>4 DEF DeliveryInv, ProcessTypes, Hosts
    <3>2. Len(rows) >= e.revision
      BY <1>5, <2>2, <3>1 DEF PlanCommitted
    <3>3. QED
      BY <1>3, <1>4, <3>2
  <2>5. QED
    BY <2>3, <2>4
<1>7. CASE host = 1
  <2>1. e.run <= run /\ run <= host /\ run \in Nat /\ e.run >= 1
    BY <1>2 DEF DeliveryInv, RunInv, ProcessTypes, Hosts
  <2>2. e.run = host
    BY <1>2, <1>7, <2>1
  <2>3. QED
    BY <1>6, <2>2
<1>8. CASE host # 1
  <2>1. host > 1
    BY <1>8 DEF DeliveryInv, ProcessTypes, Hosts
  <2>2. ready
    BY <1>5, <2>1 DEF PlanCommitted, DeliveryInv, HostInv
  <2>3. e.run = host
    BY <2>2 DEF DeliveryInv, HostInv, Announced
  <2>4. QED
    BY <1>6, <2>3
<1>9. QED
  BY <1>7, <1>8

(* An event leaves the disk only after the ledger stored it, and when the  *)
(* transcript is sealed no final is on its way any more, whatever was lost *)
(* and whoever died.                                                       *)
THEOREM NothingLostTheorem == DeliverySpec => NothingLostOnTheWay
<1>1. ASSUME DeliveryInv, [DeliveryNext]_deliveryVars
      PROVE  [\A e \in outbox :
                (e \notin outbox' \/ (~sealed /\ sealed' /\ e.kind = "final"))
                  => Committed(e)]_deliveryVars
  <2>1. CASE UNCHANGED deliveryVars
    BY <2>1
  <2>2. CASE DeliveryNext
    <3>1. ASSUME NEW e \in outbox, e \notin outbox' PROVE Committed(e)
      BY <1>1, <2>2, <3>1, OnlyAcknowledgedGo
    <3>2. ASSUME NEW e \in outbox, ~sealed, sealed', e.kind = "final" PROVE Committed(e)
      BY <1>1, <2>2, <3>2, OnlyTheHostSeals, NoneLeftAtTheSeal
    <3>3. QED
      BY <3>1, <3>2
  <2>3. QED
    BY <1>1, <2>1, <2>2
<1>2. QED
  BY <1>1, DeliveryInvariant, PTL DEF DeliverySpec, NothingLostOnTheWay
----------------------------------------------------------------------------
(* Under the delivery the ledger is itself.                                *)

(* The processes reach the tables through the ledger's handlers only.      *)
LEMMA DeliveryUsesHandlers ==
  ASSUME DeliveryInv, LedgerInv, DeliveryNext PROVE [LedgerStep]_vars
<1> USE DEF ledgerVars
<1>1. CASE AsrStep
  <2>1. CASE \E e \in outbox : Flush(e)
    BY <2>1 DEF Flush
  <2>2. CASE \E d \in input, status \in Statuses : Recognise(d, status)
    BY <2>2 DEF Recognise
  <2>3. CASE Announce \/ ReceiveAck \/ ReceiveError \/ RetryRound \/ SealRun \/ CloseRun
    BY <2>3 DEF Announce, ReceiveAck, ReceiveError, RetryRound, SealRun, CloseRun
  <2>4. QED
    BY <1>1, <2>1, <2>2, <2>3 DEF AsrStep
<1>2. CASE ServerStep
  <2>1. CASE HandleReady
    BY <2>1 DEF HandleReady
  <2>2. CASE HandleFinal
    <3>1. PICK e : e = Head(network)
      OBVIOUS
    <3>2. /\ network # <<>> /\ e.kind = "final"
          /\ \/ UNCHANGED vars
             \/ IngestFinal(e.run, e.seq, e.segment, e.revision, e.status)
      BY <2>2, <3>1 DEF HandleFinal
    <3>3. e \in Written
      BY <3>1, <3>2, HeadWritten
    <3>4. e \in FinalRecord
      BY <3>2, <3>3, Kinds
    <3>5. /\ e.run \in Runs /\ e.seq \in Nat /\ e.segment \in Segments
          /\ e.revision \in Nat /\ e.status \in Statuses
      BY <3>4, DeliveryAssumption DEF FinalRecord
    <3>6. QED
      BY <3>2, <3>5 DEF LedgerStep
  <2>3. CASE HandleSeal
    <3>1. PICK e : e = Head(network)
      OBVIOUS
    <3>2. /\ network # <<>> /\ e.kind = "seal"
          /\ \/ UNCHANGED vars
             \/ SealProducer(e.run, e.seq - 1, e.segments)
      BY <2>3, <3>1 DEF HandleSeal
    <3>3. e \in Written
      BY <3>1, <3>2, HeadWritten
    <3>4. e \in SealRecord
      BY <3>2, <3>3, Kinds
    <3>5. e.run \in Runs /\ e.seq \in Nat /\ e.segments \in SUBSET Segments
      BY <3>4, DeliveryAssumption DEF SealRecord
    <3>6. ASSUME SealProducer(e.run, e.seq - 1, e.segments) PROVE e.seq - 1 \in Nat
      <4>1. IsLastSeq(e.run, e.seq - 1) /\ finals[e.run] \subseteq FinalEvent
        BY <3>5, <3>6 DEF SealProducer, LedgerInv, TypeOK
      <4>2. \A f \in finals[e.run] : f.seq \in Nat
        BY <4>1 DEF FinalEvent
      <4>3. e.seq - 1 = 0 \/ \E f \in finals[e.run] : f.seq = e.seq - 1
        BY <4>1 DEF IsLastSeq
      <4>4. QED
        BY <4>2, <4>3
    <3>7. QED
      BY <3>2, <3>5, <3>6 DEF LedgerStep
  <2>4. QED
    BY <1>2, <2>1, <2>2, <2>3 DEF ServerStep
<1>3. CASE HostStep
  <2>1. ASSUME NEW r \in Hosts, Reconcile(r) PROVE LedgerStep
    <3>1. PICK n \in 0..MaxSeq : ReconcileAbandonedProducer(r, n)
      BY <2>1 DEF Reconcile
    <3>2. r \in Runs /\ n \in Nat
      BY DeliveryAssumption
    <3>3. QED
      BY <3>1, <3>2 DEF LedgerStep
  <2>2. ASSUME HostSeals PROVE LedgerStep
    BY <2>2 DEF HostSeals, LedgerStep
  <2>3. QED
    BY <1>3, <2>1, <2>2 DEF HostStep
<1>4. CASE CaptureStep
  <2>1. ASSUME NEW s \in Segments, RegisterSegment(s) PROVE LedgerStep
    <3>1. PICK t \in tracks : RegisterCapture(s, t, 1)
      BY <2>1 DEF RegisterSegment
    <3>2. t \in Tracks /\ 1 \in Nat
      BY <3>1 DEF LedgerInv, TypeOK
    <3>3. QED
      BY <3>1, <3>2 DEF LedgerStep
  <2>2. ASSUME SealCapture PROVE LedgerStep
    <3>1. PICK declared, finalSample :
            /\ declared = [t \in tracks |-> Captured] /\ finalSample = [t \in tracks |-> 1]
            /\ StopCapture(declared, finalSample)
      BY <2>2 DEF SealCapture
    <3>2. declared \in [tracks -> SUBSET Segments] /\ finalSample \in [tracks -> Nat]
      BY <3>1 DEF LedgerInv, TypeOK
    <3>3. QED
      BY <3>1, <3>2 DEF LedgerStep
  <2>3. CASE \E s \in Segments : DispatchLive(s)
    BY <2>3 DEF DispatchLive
  <2>4. CASE FinishDelivery \/ MakePlan \/ AcknowledgeReplay \/ \E d \in plan : DispatchReplay(d)
    BY <2>4 DEF FinishDelivery, MakePlan, AcknowledgeReplay, DispatchReplay
  <2>5. QED
    BY <1>4, <2>1, <2>2, <2>3, <2>4 DEF CaptureStep
<1>5. CASE Disturbance
  <2>1. CASE \E d \in input, status \in Statuses : AppendFails(d, status)
    BY <2>1 DEF AppendFails
  <2>2. CASE Start \/ Die \/ Stop \/ LoseRequest \/ TimeOut \/ LoseReply \/ EndHost
    BY <2>2 DEF Start, Die, Stop, LoseRequest, TimeOut, LoseReply, EndHost
  <2>3. CASE \E s \in Segments : CloseSegment(s)
    BY <2>3 DEF CloseSegment
  <2>4. CASE Activate \/ MarkStopping \/ Interrupt \/ OpenRecovery
    <3>1. \/ UNCHANGED vars
          \/ \E next \in {"ready", "recording", "stopping", "interrupted"} :
               TransitionSession(next)
      BY <2>4 DEF Activate, MarkStopping, Interrupt, OpenRecovery
    <3>2. {"ready", "recording", "stopping", "interrupted"} \subseteq SessionState
      BY DEF SessionState
    <3>3. QED
      BY <3>1, <3>2 DEF LedgerStep
  <2>5. QED
    BY <1>5, <2>1, <2>2, <2>3, <2>4 DEF Disturbance
<1>6. QED
  BY <1>1, <1>2, <1>3, <1>4, <1>5 DEF DeliveryNext

(* The session the first host opens has its tables empty, but for a track. *)
LEMMA PreparedLedger == ASSUME Prepared PROVE LedgerInv /\ Archive!ArchiveInit
<1> USE LedgerAssumption DEF Prepared
<1>1. TypeOK
  <2>1. Captured \subseteq Segments /\ captures \in [Captured -> AudioRow]
    BY DEF Captured
  <2>2. revisions \in [Segments -> Seq(RevisionRow)]
    OBVIOUS
  <2>3. finals \in [Runs -> SUBSET FinalEvent]
    OBVIOUS
  <2>4. tracks \subseteq Tracks
    OBVIOUS
  <2>5. QED
    BY <2>1, <2>2, <2>3, <2>4 DEF TypeOK, SessionState
<1>2. /\ CompletedIsSealed /\ CapturesOnTracks
      /\ CaptureManifestExact /\ SealedTranscriptWhole
  BY DEF CompletedIsSealed, CapturesOnTracks, Captured, CaptureManifestExact, ManifestStaysExact,
         ManifestListsEveryCapture, SealedTranscriptWhole
<1>3. ResultsTraceable /\ AsrOnlyReplacesFailure
  BY DEF ResultsTraceable, AsrOnlyReplacesFailure
<1>4. IntegrityFlagHonest
  BY DEF IntegrityFlagHonest, Defective, Captured
<1>5. SettledRunsFrozen
  BY DEF SettledRunsFrozen
<1>6. Archive!ArchiveInit
  BY DEF Archive!ArchiveInit, CaptureStopped, Captured, BestResult
<1>7. QED
  BY <1>1, <1>2, <1>3, <1>4, <1>5, <1>6 DEF LedgerInv

(* A step of the delivery is a step of the ledger or leaves it alone. *)
LEMMA DeliveryLedgerStep ==
  ASSUME DeliveryInv, LedgerInv, [DeliveryNext]_deliveryVars PROVE [LedgerStep]_vars
<1>1. UNCHANGED deliveryVars => UNCHANGED vars
  BY DEF deliveryVars, ledgerVars
<1>2. QED
  BY <1>1, DeliveryUsesHandlers

(* The ledger's invariant holds in every state of the delivery.            *)
LEMMA DeliveryLedgerInv == DeliverySpec => []LedgerInv
<1>1. DeliveryInit => LedgerInv
  BY PreparedLedger DEF DeliveryInit
<1>2. DeliveryInv /\ LedgerInv /\ [DeliveryNext]_deliveryVars => LedgerInv'
  BY DeliveryLedgerStep, StepLedgerInv
<1>3. QED
  BY <1>1, <1>2, DeliveryInvariant, PTL DEF DeliverySpec

(* Driven by capture node, ASR processes and hosts, with whatever is lost  *)
(* and whoever dies, the tables keep every guarantee of the ledger called  *)
(* alone: exact manifests, traceable results, a whole sealed transcript,   *)
(* an honest integrity flag, settled runs that stay as declared.           *)
THEOREM DeliveryKeepsLedger ==
  DeliverySpec => [](/\ CaptureManifestExact /\ ResultsTraceable
                     /\ SealedTranscriptWhole /\ IntegrityFlagHonest
                     /\ AsrOnlyReplacesFailure /\ SettledRunsFrozen)
<1>1. LedgerInv => /\ CaptureManifestExact /\ ResultsTraceable
                   /\ SealedTranscriptWhole /\ IntegrityFlagHonest
                   /\ AsrOnlyReplacesFailure /\ SettledRunsFrozen
  BY DEF LedgerInv
<1>2. QED
  BY <1>1, DeliveryLedgerInv, PTL

(* The whole delivery implements the reader's archive: through deaths,     *)
(* lost messages, replays and recoveries a reader sees segments announced  *)
(* while capture is open, results that only improve, and one seal.         *)
THEOREM DeliveryImplementsArchive == DeliverySpec => ImplementsArchive
<1>1. DeliveryInit => Archive!ArchiveInit
  BY PreparedLedger DEF DeliveryInit
<1>2. DeliveryInv /\ LedgerInv /\ [DeliveryNext]_deliveryVars
        => [Archive!ArchiveNext]_(Archive!archiveVars)
  BY DeliveryLedgerStep, StepRefines
<1>3. QED
  BY <1>1, <1>2, DeliveryLedgerInv, DeliveryInvariant, PTL
     DEF DeliverySpec, ImplementsArchive, Archive!ArchiveSpec

(* Completion is final under the delivery, too: no recovery host and no    *)
(* late event reopens a completed session.                                 *)
THEOREM DeliveryCompletion == DeliverySpec => CompletionIsFinal
<1>1. ASSUME DeliveryInv, LedgerInv, [DeliveryNext]_deliveryVars, sealed
      PROVE  /\ sealed' /\ state' = "completed"
             /\ captures' = captures /\ gaps' = gaps
             /\ captureSeals' = captureSeals
  BY <1>1, DeliveryLedgerStep, SealedForGood
<1>2. QED
  BY <1>1, DeliveryLedgerInv, DeliveryInvariant, PTL DEF DeliverySpec, CompletionIsFinal
=============================================================================
