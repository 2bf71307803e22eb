------------------------- MODULE AnalysisJobsProofs -------------------------
(***************************************************************************)
(* Proofs about AnalysisJobs, for any number of jobs, places, attempts,    *)
(* texts and stops.                                                        *)
(***************************************************************************)
EXTENDS AnalysisJobs, TLAPS

Covered(p) ==
  \E j \in Jobs : /\ jobs[j].kind = "insight"
                  /\ SourceOf(p) \in jobs[j].snapshot.sources
                  /\ \E a \in 1..MaxAttempts : <<j, a>> \in results

(* A result belongs to an attempt that is over, in success if it is the    *)
(* last one.                                                               *)
ResultsOver ==
  \A j \in Jobs : \A a \in 1..MaxAttempts : <<j, a>> \in results =>
    \/ a < jobs[j].attempt
    \/ a = jobs[j].attempt /\ jobs[j].state \in Done

(* A refused attempt is over or about to be cancelled.                     *)
RefusedOver ==
  \A j \in Jobs : \A a \in 1..MaxAttempts : <<j, a>> \in refused =>
    \/ a < jobs[j].attempt
    \/ a = jobs[j].attempt /\ jobs[j].state \in {"cancel_requested", "cancelled"}

DoneHasResult ==
  \A j \in Jobs : jobs[j].state \in Done => <<j, jobs[j].attempt>> \in results

AbsentIsNew == \A j \in Jobs : jobs[j].state = "absent" => jobs[j].attempt = 1

(* Snapshots hold texts that were stored, and store_seq only grows.        *)
FrozenBefore ==
  /\ \A p \in Places : born[p] <= seq
  /\ \A j \in Jobs : \A i \in jobs[j].snapshot.sources : i.born <= seq

(* An insight's snapshot reaches back to what earlier insights cover.      *)
NothingSkipped ==
  \A j \in Jobs : jobs[j].state # "absent" /\ jobs[j].kind = "insight" =>
    \A p \in Texts : (\E i \in jobs[j].snapshot.sources : born[p] <= i.born) =>
      SourceOf(p) \in jobs[j].snapshot.sources \/ Covered(p)

(* The coordinator holds a job while it works on one.                      *)
HeldJob ==
  at \in {"picked", "working", "failing"} =>
    held.job \in Jobs /\ held.attempt \in 1..MaxAttempts

JobsInv ==
  /\ TypeOK
  /\ HeldJob
  /\ ResultsOver
  /\ RefusedOver
  /\ CancelIsFinal
  /\ DoneHasResult
  /\ AbsentIsNew
  /\ FrozenBefore
  /\ NothingSkipped

(* The invariant has what InsightsMissNothing says.                        *)
LEMMA MissNothing == JobsInv => InsightsMissNothing
  <1> SUFFICES ASSUME JobsInv, NEW p \in Texts, Consumed(born[p])
               PROVE  Covered(p)
    BY DEF InsightsMissNothing, Covered
  <1>1. PICK j \in Jobs : /\ jobs[j].state \in Done /\ jobs[j].kind = "insight"
                          /\ \E i \in jobs[j].snapshot.sources : born[p] <= i.born
    BY DEF Consumed
  <1>2. SourceOf(p) \in jobs[j].snapshot.sources \/ Covered(p)
    BY <1>1 DEF JobsInv, NothingSkipped, Done
  <1>3. <<j, jobs[j].attempt>> \in results /\ jobs[j].attempt \in 1..MaxAttempts
    BY <1>1 DEF JobsInv, DoneHasResult, TypeOK, Job
  <1> QED BY <1>1, <1>2, <1>3 DEF Covered

(* Steps that leave the audio alone and change, of the jobs that exist,    *)
(* state and attempt only.                                                 *)
LEMMA WorkKept ==
  ASSUME JobsInv, UNCHANGED audioVars, results \subseteq results',
         \A j \in Jobs : /\ jobs'[j].kind = jobs[j].kind
                         /\ jobs'[j].snapshot = jobs[j].snapshot
                         /\ jobs'[j].state # "absent" => jobs[j].state # "absent"
  PROVE  FrozenBefore' /\ NothingSkipped'
  <1>1. FrozenBefore'
    BY DEF JobsInv, FrozenBefore, audioVars
  <1>2. ASSUME NEW p \in Places PROVE Covered(p) => Covered(p)'
    BY DEF Covered, SourceOf, audioVars
  <1>3. NothingSkipped'
    BY <1>2 DEF JobsInv, NothingSkipped, SourceOf, Texts, audioVars
  <1> QED BY <1>1, <1>3

(* The snapshots a job is made with are snapshots,                         *)
LEMMA SnapshotsTyped ==
  ASSUME TypeOK
  PROVE  /\ \A automatic \in BOOLEAN : InsightSnapshot(automatic) \in Snapshot
         /\ \A sealed \in BOOLEAN : MinutesSnapshot(sealed) \in Snapshot
  <1>1. \A p \in Places : SourceOf(p) \in Source
    BY DEF TypeOK, SourceOf, Source
  <1>2. ASSUME NEW automatic \in BOOLEAN PROVE InsightSnapshot(automatic) \in Snapshot
    <2> DEFINE view == IF automatic THEN Window ELSE Places
               src == {SourceOf(p) : p \in {q \in view \cap Captured : audio[q] # "pending"}}
               whole == /\ ~(\E g \in Lost \cap view : \E p \in Captured : g <= p)
                        /\ Settled(view)
    <2>1. src \subseteq Source
      BY <1>1 DEF Captured
    <2>2. whole \in BOOLEAN
      BY DEF Settled
    <2>3. InsightSnapshot(automatic) = [sources |-> src, complete |-> whole]
      BY DEF InsightSnapshot
    <2> HIDE DEF src, whole
    <2> QED BY <2>1, <2>2, <2>3 DEF Snapshot
  <1>3. ASSUME NEW sealed \in BOOLEAN PROVE MinutesSnapshot(sealed) \in Snapshot
    <2> DEFINE src == {SourceOf(p) : p \in Captured}
               whole == sealed /\ Lost = {} /\ Settled(Places)
    <2>1. src \subseteq Source
      BY <1>1 DEF Captured
    <2>2. whole \in BOOLEAN
      BY DEF Settled
    <2>3. MinutesSnapshot(sealed) = [sources |-> src, complete |-> whole]
      BY DEF MinutesSnapshot
    <2> HIDE DEF src, whole
    <2> QED BY <2>1, <2>2, <2>3 DEF Snapshot
  <1> QED BY <1>2, <1>3

(* What is not new to an insight that is frozen now, is covered.           *)
LEMMA FreshReachesBack ==
  ASSUME JobsInv, NEW automatic \in BOOLEAN, NEW p \in Texts,
         SourceOf(p) \notin InsightSnapshot(automatic).sources
  PROVE  Covered(p)
  <1>1. p \in Places /\ p \in Captured /\ audio[p] # "pending"
    BY DEF Texts, Captured
  <1>2. InsightSnapshot(automatic).sources =
          {SourceOf(q) : q \in {r \in (IF automatic THEN Window ELSE Places) \cap Captured :
                                  audio[r] # "pending"}}
    BY DEF InsightSnapshot
  <1>3. automatic /\ p \notin Window
    BY <1>1, <1>2
  <1>4. p < p + 1 + Overlap
    BY <1>1, JobsAssumption DEF Places
  <1>5. p \notin Unconsumed
    BY <1>1, <1>3, <1>4 DEF Window
  <1>6. Consumed(born[p])
    BY <1>5 DEF Unconsumed
  <1> QED BY <1>6, MissNothing DEF InsightsMissNothing, Covered

(* and hold only texts that were stored before.                            *)
LEMMA SourcesStored ==
  ASSUME JobsInv
  PROVE  /\ \A automatic \in BOOLEAN : \A i \in InsightSnapshot(automatic).sources : i.born <= seq
         /\ \A sealed \in BOOLEAN : \A i \in MinutesSnapshot(sealed).sources : i.born <= seq
  BY DEF JobsInv, FrozenBefore, InsightSnapshot, MinutesSnapshot, SourceOf, Captured, Window

(* A job made with such a snapshot keeps the invariant.                    *)
LEMMA CreateInv ==
  ASSUME JobsInv, NEW j \in Jobs, NEW kind \in {"insight", "minutes"},
         NEW automatic \in BOOLEAN, NEW snapshot \in Snapshot,
         CreateJob(j, kind, automatic, snapshot), UNCHANGED audioVars,
         \A i \in snapshot.sources : i.born <= seq,
         kind = "insight" => \A p \in Texts : SourceOf(p) \in snapshot.sources \/ Covered(p)
  PROVE  /\ jobs' \in [Jobs -> Job]
         /\ ResultsOver' /\ RefusedOver' /\ CancelIsFinal' /\ DoneHasResult' /\ AbsentIsNew'
         /\ FrozenBefore' /\ NothingSkipped'
  <1> USE DEF JobsInv
  <1> DEFINE new == [state |-> "queued", kind |-> kind, automatic |-> automatic,
                     attempt |-> 1, snapshot |-> snapshot]
  <1>1. /\ jobs[j].state = "absent"
        /\ jobs' = [i \in Jobs |->
             IF i = j THEN new
             ELSE IF Coalesced(i, kind, automatic) THEN [jobs[i] EXCEPT !.state = "cancelled"]
             ELSE jobs[i]]
        /\ UNCHANGED <<results, refused>>
    BY DEF CreateJob
  <1>2. new \in Job
    BY JobsAssumption DEF Job, States
  <1>3. jobs'[j] = new
    BY <1>1
  <1> HIDE DEF new
  <1>4. ASSUME NEW i \in Jobs, i # j
        PROVE  /\ jobs'[i] \in Job
               /\ jobs'[i].kind = jobs[i].kind
               /\ jobs'[i].snapshot = jobs[i].snapshot
               /\ jobs'[i].attempt = jobs[i].attempt
               /\ \/ jobs'[i].state = jobs[i].state
                  \/ jobs[i].state \in Queued /\ jobs'[i].state = "cancelled"
    <2>1. CASE Coalesced(i, kind, automatic)
      <3>1. jobs[i] \in Job /\ jobs[i].state \in Queued
        BY <2>1 DEF TypeOK, Coalesced
      <3>2. jobs'[i] = [jobs[i] EXCEPT !.state = "cancelled"]
        BY <1>1, <1>4, <2>1
      <3> QED BY <3>1, <3>2 DEF Job, States
    <2>2. CASE ~Coalesced(i, kind, automatic)
      BY <1>1, <1>4, <2>2 DEF TypeOK
    <2> QED BY <2>1, <2>2
  <1>5. jobs' \in [Jobs -> Job]
    BY <1>1, <1>2, <1>3, <1>4
  <1>6. /\ jobs'[j].state = "queued" /\ jobs'[j].kind = kind
        /\ jobs'[j].attempt = 1 /\ jobs'[j].snapshot = snapshot
    BY <1>3 DEF new
  <1>7. \A a \in 1..MaxAttempts : <<j, a>> \notin results /\ <<j, a>> \notin refused
    BY <1>1 DEF ResultsOver, RefusedOver, AbsentIsNew, Done
  <1>8. ResultsOver' /\ RefusedOver' /\ CancelIsFinal' /\ AbsentIsNew'
    BY <1>1, <1>4, <1>6, <1>7
    DEF ResultsOver, RefusedOver, CancelIsFinal, AbsentIsNew, Done, Queued
  <1>9. DoneHasResult'
    BY <1>1, <1>4, <1>6 DEF DoneHasResult, Done
  <1>10. FrozenBefore'
    <2>1. \A p \in Places : born'[p] <= seq'
      BY DEF FrozenBefore, audioVars
    <2>2. \A i \in Jobs : \A k \in jobs'[i].snapshot.sources : k.born <= seq'
      BY <1>4, <1>6 DEF FrozenBefore, audioVars
    <2> QED BY <2>1, <2>2 DEF FrozenBefore
  <1>11. \A p \in Texts : Covered(p) => Covered(p)'
    BY <1>1, <1>4, <1>7 DEF Covered, SourceOf, audioVars
  <1>12. NothingSkipped'
    <2>1. ASSUME NEW i \in Jobs, jobs'[i].state # "absent", jobs'[i].kind = "insight",
                 NEW p \in Texts, \E k \in jobs'[i].snapshot.sources : born[p] <= k.born
          PROVE  SourceOf(p) \in jobs'[i].snapshot.sources \/ Covered(p)'
      <3>1. CASE i = j
        BY <1>6, <1>11, <2>1, <3>1
      <3>2. CASE i # j
        <4>1. jobs[i].state # "absent" /\ jobs[i].kind = "insight"
                /\ jobs'[i].snapshot = jobs[i].snapshot
          BY <1>4, <2>1, <3>2 DEF Queued
        <4>2. SourceOf(p) \in jobs[i].snapshot.sources \/ Covered(p)
          BY <2>1, <4>1 DEF NothingSkipped
        <4> QED BY <1>11, <4>1, <4>2
      <3> QED BY <3>1, <3>2
    <2> QED BY <2>1 DEF NothingSkipped, Texts, SourceOf, audioVars
  <1> QED BY <1>5, <1>8, <1>9, <1>10, <1>12

(* Steps that change one job's state and attempt.                          *)
LEMMA StateInv ==
  ASSUME JobsInv, NEW j \in Jobs, NEW state \in States, NEW attempt \in 1..MaxAttempts,
         jobs' = [jobs EXCEPT ![j].attempt = attempt, ![j].state = state],
         UNCHANGED <<audioVars, results>>,
         jobs[j].state # "absent", state # "absent", state \notin Done,
         \/ attempt > jobs[j].attempt /\ UNCHANGED refused
         \/ /\ attempt = jobs[j].attempt /\ jobs[j].state \notin Done
            /\ \/ state \in {"cancel_requested", "cancelled"}
                  /\ refused' \subseteq refused \cup {<<j, attempt>>}
               \/ jobs[j].state \notin {"cancel_requested", "cancelled"} /\ UNCHANGED refused
  PROVE  /\ jobs' \in [Jobs -> Job]
         /\ ResultsOver' /\ RefusedOver' /\ CancelIsFinal' /\ DoneHasResult' /\ AbsentIsNew'
         /\ FrozenBefore' /\ NothingSkipped'
  <1> USE DEF JobsInv
  <1>1. jobs[j] \in Job
    BY DEF TypeOK
  <1>2. /\ jobs'[j] \in Job
        /\ jobs'[j].kind = jobs[j].kind /\ jobs'[j].snapshot = jobs[j].snapshot
        /\ jobs'[j].state = state /\ jobs'[j].attempt = attempt
    BY <1>1 DEF TypeOK, Job
  <1>3. \A i \in Jobs \ {j} : jobs'[i] = jobs[i]
    BY DEF TypeOK
  <1>4. jobs' \in [Jobs -> Job]
    BY <1>2, <1>3 DEF TypeOK
  <1>5. results' = results /\ jobs[j].attempt \in Nat /\ attempt \in Nat
    BY <1>1, JobsAssumption DEF Job
  <1>6. ResultsOver' /\ DoneHasResult' /\ AbsentIsNew'
    <2>1. ASSUME NEW i \in Jobs, NEW a \in 1..MaxAttempts, <<i, a>> \in results
          PROVE  \/ a < jobs'[i].attempt
                 \/ a = jobs'[i].attempt /\ jobs'[i].state \in Done
      <3>1. \/ a < jobs[i].attempt
            \/ a = jobs[i].attempt /\ jobs[i].state \in Done
        BY <2>1 DEF ResultsOver
      <3>2. CASE i = j
        BY <1>2, <1>5, <3>1, <3>2
      <3>3. CASE i # j
        BY <1>3, <3>1, <3>3
      <3> QED BY <3>2, <3>3
    <2>2. DoneHasResult' /\ AbsentIsNew'
      BY <1>2, <1>3, <1>5 DEF DoneHasResult, AbsentIsNew
    <2> QED BY <1>5, <2>1, <2>2 DEF ResultsOver
  <1>9. RefusedOver'
    <2>1. ASSUME NEW i \in Jobs, NEW a \in 1..MaxAttempts, <<i, a>> \in refused'
          PROVE  \/ a < jobs'[i].attempt
                 \/ /\ a = jobs'[i].attempt
                    /\ jobs'[i].state \in {"cancel_requested", "cancelled"}
      <3>1. CASE <<i, a>> \in refused
        <4>1. \/ a < jobs[i].attempt
              \/ /\ a = jobs[i].attempt
                 /\ jobs[i].state \in {"cancel_requested", "cancelled"}
          BY <3>1 DEF RefusedOver
        <4>2. CASE i = j
          BY <1>2, <1>5, <4>1, <4>2
        <4>3. CASE i # j
          BY <1>3, <4>1, <4>3
        <4> QED BY <4>2, <4>3
      <3>2. CASE <<i, a>> \notin refused
        BY <1>2, <2>1, <3>2
      <3> QED BY <3>1, <3>2
    <2> QED BY <2>1 DEF RefusedOver
  <1>7. CancelIsFinal'
    BY <1>1, <1>2 DEF CancelIsFinal, ResultsOver, Job
  <1>8. FrozenBefore' /\ NothingSkipped'
    <2>1. \A i \in Jobs : /\ jobs'[i].kind = jobs[i].kind
                          /\ jobs'[i].snapshot = jobs[i].snapshot
                          /\ jobs'[i].state # "absent" => jobs[i].state # "absent"
      BY <1>2, <1>3
    <2> QED BY <2>1, WorkKept
  <1> QED BY <1>4, <1>6, <1>7, <1>8, <1>9

(* Steps of the store's own data that leave job table and audio alone.     *)
LEMMA QuietInv ==
  ASSUME JobsInv, UNCHANGED <<jobs, results, refused, audioVars>>
  PROVE  /\ jobs' \in [Jobs -> Job]
         /\ ResultsOver' /\ RefusedOver' /\ CancelIsFinal' /\ DoneHasResult' /\ AbsentIsNew'
         /\ FrozenBefore' /\ NothingSkipped'
  <1>1. FrozenBefore' /\ NothingSkipped'
    BY WorkKept
  <1> QED BY <1>1 DEF JobsInv, TypeOK, ResultsOver, RefusedOver, CancelIsFinal, DoneHasResult,
                      AbsentIsNew

(* The types of a step that leaves the audio and the stops alone.          *)
LEMMA OuterTyped ==
  ASSUME TypeOK, UNCHANGED <<audioVars, stops, promised>>,
         jobs' \in [Jobs -> Job],
         results' \subseteq Jobs \X (1..MaxAttempts),
         refused' \subseteq Jobs \X (1..MaxAttempts),
         intent' \in 0..MaxStops,
         at' \in {"idle", "stopped", "requested", "due", "picked", "working", "failing", "ended"},
         held' \in Held
  PROVE  TypeOK'
  BY DEF TypeOK, audioVars

(* What the coordinator may hold.                                          *)
LEMMA HeldTyped ==
  ASSUME TypeOK
  PROVE  /\ Nothing \in Held
         /\ held.job \in Jobs \cup {NoJob} /\ held.marker \in 0..MaxStops
         /\ held.attempt \in 0..MaxAttempts
         /\ [job |-> NoJob, attempt |-> 0, marker |-> intent] \in Held
         /\ \A j \in Jobs : [job |-> j, attempt |-> jobs[j].attempt, marker |-> 0] \in Held
  <1>1. \A j \in Jobs : jobs[j].attempt \in 0..MaxAttempts
    BY JobsAssumption DEF TypeOK, Job
  <1>2. held \in Held /\ intent \in 0..MaxStops /\ MaxStops \in Nat /\ MaxAttempts \in Nat
    BY JobsAssumption DEF TypeOK
  <1>3. Nothing \in Held
    BY <1>2 DEF Nothing, Held
  <1> QED BY <1>1, <1>2, <1>3 DEF Held

----------------------------------------------------------------------------
(* The invariant holds at the beginning.                                   *)
LEMMA InitInv == Init => JobsInv
  <1> SUFFICES ASSUME Init PROVE JobsInv
    OBVIOUS
  <1>1. TypeOK
    BY JobsAssumption DEF Init, TypeOK, Job, Snapshot, States, Nothing, Held
  <1>2. ResultsOver /\ RefusedOver /\ CancelIsFinal /\ DoneHasResult /\ AbsentIsNew
    BY DEF Init, ResultsOver, RefusedOver, CancelIsFinal, DoneHasResult, AbsentIsNew, Done
  <1>5. HeldJob
    BY DEF Init, HeldJob
  <1>3. FrozenBefore
    BY DEF Init, FrozenBefore
  <1>4. NothingSkipped
    BY DEF Init, NothingSkipped
  <1> QED BY <1>1, <1>2, <1>3, <1>4, <1>5 DEF JobsInv

(* The steps of the meeting keep it: texts, losses, the end.               *)
LEMMA MeetingInv == JobsInv /\ MeetingStep => JobsInv'
  <1> SUFFICES ASSUME JobsInv, MeetingStep PROVE JobsInv'
    OBVIOUS
  <1> USE DEF JobsInv
  <1>0. UNCHANGED <<storeVars, at, held>>
    BY DEF MeetingStep, Capture, LoseAudio, Recognise, Correct, StoreText, StopMeeting, Meanwhile
  <1>1. /\ ResultsOver' /\ RefusedOver' /\ CancelIsFinal' /\ DoneHasResult' /\ AbsentIsNew'
        /\ HeldJob'
    BY <1>0 DEF storeVars, ResultsOver, RefusedOver, CancelIsFinal, DoneHasResult, AbsentIsNew,
                HeldJob
  <1>2. CASE StopMeeting
    <2>1. UNCHANGED <<jobs, results, refused, audioVars>>
      BY <1>0, <1>2 DEF StopMeeting, storeVars
    <2>2. FrozenBefore' /\ NothingSkipped'
      BY <2>1, WorkKept
    <2>3. TypeOK'
      BY <1>0, <1>2, JobsAssumption DEF StopMeeting, TypeOK, storeVars, audioVars, Captured
    <2> QED BY <1>1, <2>2, <2>3
  <1>3. ASSUME NEW p \in Places, NEW s, audio[p] = "ahead", s \in {"pending", "lost"},
               audio' = [audio EXCEPT ![p] = s], UNCHANGED <<born, seq, meetingVars>>
        PROVE  JobsInv'
    <2>1. TypeOK'
      BY <1>0, <1>3 DEF TypeOK, storeVars, meetingVars
    <2>2. FrozenBefore'
      BY <1>0, <1>3 DEF FrozenBefore, storeVars
    <2>3. Texts' \subseteq Texts
      BY <1>3 DEF Texts, TypeOK
    <2>4. \A q \in Texts : Covered(q) => Covered(q)'
      BY <1>0, <1>3 DEF Covered, SourceOf, storeVars
    <2>5. NothingSkipped'
      BY <1>0, <1>3, <2>3, <2>4 DEF NothingSkipped, SourceOf, storeVars
    <2> QED BY <1>1, <2>1, <2>2, <2>5
  <1>4. ASSUME NEW p \in Places, NEW s, s \in {"text", "empty", "failed"}, StoreText(p, s)
        PROVE  JobsInv'
    <2>1. /\ seq < MaxSeq /\ seq' = seq + 1
          /\ born' = [born EXCEPT ![p] = seq + 1]
          /\ audio' = [audio EXCEPT ![p] = s]
          /\ UNCHANGED meetingVars
      BY <1>4 DEF StoreText
    <2>2. seq \in Nat /\ MaxSeq \in Nat /\ \A q \in Places : born[q] \in Nat
      BY JobsAssumption DEF TypeOK
    <2>3. seq' \in 0..MaxSeq /\ born' \in [Places -> 0..MaxSeq]
      BY <2>1, <2>2 DEF TypeOK
    <2>4. TypeOK'
      BY <1>0, <1>4, <2>1, <2>3 DEF TypeOK, storeVars, meetingVars
    <2>5. ASSUME NEW j \in Jobs, NEW i \in jobs[j].snapshot.sources
          PROVE  i.born \in Nat /\ i.born <= seq
      BY DEF FrozenBefore, TypeOK, Job, Snapshot, Source
    <2>6. FrozenBefore'
      <3>1. \A q \in Places : born'[q] <= seq'
        BY <2>1, <2>2 DEF FrozenBefore, TypeOK
      <3>2. \A j \in Jobs : \A i \in jobs[j].snapshot.sources : i.born <= seq'
        BY <2>1, <2>2, <2>5
      <3> QED BY <1>0, <3>1, <3>2 DEF FrozenBefore, storeVars
    <2>7. ASSUME NEW j \in Jobs, jobs[j].state # "absent", jobs[j].kind = "insight",
                 NEW q \in Texts', \E i \in jobs[j].snapshot.sources : born'[q] <= i.born
          PROVE  SourceOf(q)' \in jobs[j].snapshot.sources \/ Covered(q)'
      <3>1. q # p
        BY <2>1, <2>2, <2>5, <2>7 DEF TypeOK
      <3>2. q \in Texts /\ born'[q] = born[q] /\ SourceOf(q)' = SourceOf(q)
        BY <2>1, <3>1 DEF Texts, SourceOf, TypeOK
      <3>3. SourceOf(q) \in jobs[j].snapshot.sources \/ Covered(q)
        BY <2>7, <3>2 DEF NothingSkipped
      <3>4. Covered(q) => Covered(q)'
        BY <1>0, <3>2 DEF Covered, storeVars
      <3> QED BY <3>2, <3>3, <3>4
    <2>8. NothingSkipped'
      BY <1>0, <2>7 DEF NothingSkipped, storeVars
    <2> QED BY <1>1, <2>4, <2>6, <2>8
  <1>5. CASE \E p \in Places : Capture(p) \/ LoseAudio(p)
    BY <1>3, <1>5 DEF Capture, LoseAudio
  <1>6. CASE \E p \in Places : Correct(p)
    BY <1>4, <1>6 DEF Correct
  <1>7. CASE \E p \in Places, outcome \in Outcomes : Recognise(p, outcome)
    BY <1>4, <1>7, JobsAssumption DEF Recognise
  <1> QED BY <1>2, <1>5, <1>6, <1>7 DEF MeetingStep
(* The steps of the operator keep it.                                      *)
LEMMA OperatorInv == JobsInv /\ OperatorStep => JobsInv'
  <1> SUFFICES ASSUME JobsInv, NEW j \in Jobs,
                      OperatorCreates(j) \/ OperatorCancels(j) \/ OperatorRetries(j)
               PROVE  JobsInv'
    BY DEF OperatorStep
  <1>0. UNCHANGED <<audioVars, meetingVars, at, held>>
    BY DEF OperatorCreates, OperatorCancels, OperatorRetries
  <1>1. jobs[j] \in Job /\ TypeOK
    BY DEF JobsInv, TypeOK
  <1>5. HeldJob'
    BY <1>0 DEF JobsInv, HeldJob
  <1>2. CASE OperatorCreates(j)
    <2>1. CASE CreateJob(j, "insight", FALSE, InsightSnapshot(FALSE))
      <3>1. \A p \in Texts : SourceOf(p) \in InsightSnapshot(FALSE).sources \/ Covered(p)
        BY FreshReachesBack
      <3>2. UNCHANGED <<audioVars, results, refused>>
        BY <1>0, <2>1 DEF CreateJob
      <3>3. /\ jobs' \in [Jobs -> Job]
            /\ ResultsOver' /\ RefusedOver' /\ CancelIsFinal' /\ DoneHasResult' /\ AbsentIsNew'
            /\ FrozenBefore' /\ NothingSkipped'
        BY <1>1, <2>1, <3>1, <3>2, SnapshotsTyped, SourcesStored, CreateInv
      <3>4. TypeOK'
        BY <1>0, <1>1, <3>2, <3>3 DEF TypeOK, audioVars, meetingVars
      <3> QED BY <1>5, <3>3, <3>4 DEF JobsInv
    <2>2. ASSUME NEW sealed \in BOOLEAN,
                 CreateJob(j, "minutes", FALSE, MinutesSnapshot(sealed))
          PROVE  JobsInv'
      <3>2. UNCHANGED <<audioVars, results, refused>>
        BY <1>0, <2>2 DEF CreateJob
      <3>3. /\ jobs' \in [Jobs -> Job]
            /\ ResultsOver' /\ RefusedOver' /\ CancelIsFinal' /\ DoneHasResult' /\ AbsentIsNew'
            /\ FrozenBefore' /\ NothingSkipped'
        BY <1>1, <2>2, <3>2, SnapshotsTyped, SourcesStored, CreateInv
      <3>4. TypeOK'
        BY <1>0, <1>1, <3>2, <3>3 DEF TypeOK, audioVars, meetingVars
      <3> QED BY <1>5, <3>3, <3>4 DEF JobsInv
    <2> QED BY <1>2, <2>1, <2>2 DEF OperatorCreates
  <1>3. CASE OperatorCancels(j)
    <2> DEFINE state == IF jobs[j].state \in Occupying THEN "cancel_requested" ELSE "cancelled"
    <2>1. /\ jobs[j].state \in Queued \cup Occupying \cup {"cancelled"}
          /\ SetState(j, state)
          /\ refused' = refused \cup {<<j, jobs[j].attempt>>}
          /\ UNCHANGED results
      BY <1>3 DEF OperatorCancels, Cancel
    <2>2. state \in {"cancel_requested", "cancelled"} /\ jobs[j].attempt \in 1..MaxAttempts
            /\ state \in States
      BY <1>1 DEF Job, States
    <2> HIDE DEF state
    <2>3. jobs' = [jobs EXCEPT ![j].attempt = jobs[j].attempt, ![j].state = state]
      BY <1>1, <2>1 DEF SetState, TypeOK, Job
    <2>4. jobs[j].state # "absent" /\ jobs[j].state \notin Done /\ state # "absent"
            /\ state \notin Done
      BY <2>1, <2>2 DEF Queued, Occupying, Done
    <2>5. /\ jobs' \in [Jobs -> Job]
          /\ ResultsOver' /\ RefusedOver' /\ CancelIsFinal' /\ DoneHasResult' /\ AbsentIsNew'
          /\ FrozenBefore' /\ NothingSkipped'
      BY <1>0, <2>1, <2>2, <2>3, <2>4, StateInv
    <2>6. refused' \subseteq Jobs \X (1..MaxAttempts)
      BY <1>1, <2>1, <2>2 DEF TypeOK
    <2>7. TypeOK'
      BY <1>0, <1>1, <2>1, <2>5, <2>6 DEF TypeOK, audioVars, meetingVars
    <2> QED BY <1>5, <2>5, <2>7 DEF JobsInv
  <1>4. CASE OperatorRetries(j)
    <2>1. /\ jobs[j].state \in {"failed", "interrupted", "succeeded_partial", "cancelled"}
          /\ jobs[j].attempt < MaxAttempts
          /\ jobs' = [jobs EXCEPT ![j].attempt = @ + 1, ![j].state = "queued"]
          /\ UNCHANGED <<results, refused>>
      BY <1>4 DEF OperatorRetries, Retriable, Retried
    <2>2. jobs[j].attempt + 1 \in 1..MaxAttempts /\ jobs[j].attempt + 1 > jobs[j].attempt
      BY <1>1, <2>1, JobsAssumption DEF Job
    <2>3. jobs' = [jobs EXCEPT ![j].attempt = jobs[j].attempt + 1, ![j].state = "queued"]
      BY <1>1, <2>1 DEF TypeOK
    <2>4. /\ jobs' \in [Jobs -> Job]
          /\ ResultsOver' /\ RefusedOver' /\ CancelIsFinal' /\ DoneHasResult' /\ AbsentIsNew'
          /\ FrozenBefore' /\ NothingSkipped'
      BY <1>0, <2>1, <2>2, <2>3, StateInv DEF States, Done
    <2>5. TypeOK'
      BY <1>0, <1>1, <2>1, <2>4 DEF TypeOK, audioVars, meetingVars
    <2> QED BY <1>5, <2>4, <2>5 DEF JobsInv
  <1> QED BY <1>2, <1>3, <1>4
(* What every step of the coordinator leaves.                              *)
Kept ==
  /\ jobs' \in [Jobs -> Job]
  /\ results' \subseteq Jobs \X (1..MaxAttempts)
  /\ refused' \subseteq Jobs \X (1..MaxAttempts)
  /\ ResultsOver' /\ RefusedOver' /\ CancelIsFinal' /\ DoneHasResult' /\ AbsentIsNew'
  /\ FrozenBefore' /\ NothingSkipped'

(* A step of the coordinator that keeps the jobs in order keeps it.        *)
LEMMA KeptInv ==
  ASSUME JobsInv, Kept, Outside,
         intent' \in 0..MaxStops, held' \in Held, HeldJob',
         at' \in {"idle", "stopped", "requested", "due", "picked", "working", "failing", "ended"}
  PROVE  JobsInv'
  <1>1. TypeOK'
    BY OuterTyped DEF JobsInv, Kept, Outside
  <1> QED BY <1>1 DEF JobsInv, Kept

(* A stop that is acknowledged was asked for.                              *)
LEMMA AckTyped ==
  ASSUME JobsInv
  PROVE  \A marker : Ack(marker) \in 0..MaxStops
  BY JobsAssumption DEF JobsInv, TypeOK, Ack

(* Where the coordinator goes, what it holds is typed.                     *)
LEMMA GoTyped ==
  ASSUME JobsInv, NEW place \in {"idle", "requested", "due", "working", "failing"}, Go(place),
         place \in {"working", "failing"} => at \in {"picked", "working"}
  PROVE  held' \in Held /\ HeldJob' /\ at' = place
  BY HeldTyped DEF JobsInv, TypeOK, HeldJob, Go

(* A step that does not write to the store keeps the jobs in order;        *)
LEMMA QuietKept == JobsInv /\ UNCHANGED storeVars /\ Outside => Kept
  BY QuietInv DEF JobsInv, TypeOK, Kept, storeVars, Outside

(* so does a new job,                                                      *)
LEMMA CreateKept ==
  ASSUME JobsInv, NEW j \in Jobs, NEW kind \in {"insight", "minutes"},
         NEW automatic \in BOOLEAN, NEW snapshot \in Snapshot,
         CreateJob(j, kind, automatic, snapshot), Outside,
         \A i \in snapshot.sources : i.born <= seq,
         kind = "insight" => \A p \in Texts : SourceOf(p) \in snapshot.sources \/ Covered(p)
  PROVE  Kept
  BY CreateInv DEF JobsInv, TypeOK, Kept, Outside, CreateJob

(* a new state of a job that is not done,                                  *)
LEMMA StateKept ==
  ASSUME JobsInv, NEW j \in Jobs, NEW state \in States \ (Done \cup {"absent"}),
         SetState(j, state), UNCHANGED <<results, refused>>, Outside,
         jobs[j].state \notin Done \cup {"absent"},
         state = "cancelled" \/ jobs[j].state \notin {"cancel_requested", "cancelled"}
  PROVE  Kept
  <1>1. jobs[j] \in Job
    BY DEF JobsInv, TypeOK
  <1>2. jobs' = [jobs EXCEPT ![j].attempt = jobs[j].attempt, ![j].state = state]
    BY <1>1 DEF SetState, JobsInv, TypeOK, Job
  <1>3. jobs[j].attempt \in 1..MaxAttempts
    BY <1>1 DEF Job
  <1> QED BY <1>2, <1>3, StateInv DEF Kept, Outside, JobsInv, TypeOK

(* another attempt of a job,                                               *)
LEMMA RetryKept ==
  ASSUME JobsInv, NEW j \in Jobs, NEW state \in {"queued", "waiting"},
         jobs' = Retried(j, state), UNCHANGED <<results, refused>>, Outside,
         jobs[j].state # "absent", jobs[j].attempt < MaxAttempts
  PROVE  Kept
  <1>1. jobs[j] \in Job
    BY DEF JobsInv, TypeOK
  <1>2. jobs' = [jobs EXCEPT ![j].attempt = jobs[j].attempt + 1, ![j].state = state]
    BY <1>1 DEF Retried, JobsInv, TypeOK
  <1>3. jobs[j].attempt + 1 \in 1..MaxAttempts /\ jobs[j].attempt + 1 > jobs[j].attempt
    BY <1>1, JobsAssumption DEF Job
  <1>4. state \in States /\ state # "absent" /\ state \notin Done
    BY DEF States, Done
  <1>5. UNCHANGED <<audioVars, results>>
    BY DEF Outside
  <1> QED BY <1>2, <1>3, <1>4, <1>5, StateInv DEF Kept, JobsInv, TypeOK

(* and the result of the attempt that runs.                                *)
LEMMA FinishKept ==
  ASSUME JobsInv, at = "working", Running, NEW state \in Done,
         SetState(held.job, state), results' = results \cup {<<held.job, held.attempt>>},
         UNCHANGED refused, Outside
  PROVE  Kept
  <1> USE DEF JobsInv
  <1> DEFINE j == held.job
  <1>1. j \in Jobs /\ jobs[j] \in Job
    BY DEF HeldJob, TypeOK
  <1>2. jobs[j].attempt = held.attempt /\ jobs[j].state = "running"
    BY DEF Running, Mine
  <1> HIDE DEF j
  <1>3. /\ jobs'[j] \in Job /\ jobs'[j].attempt = jobs[j].attempt /\ jobs'[j].state = state
        /\ jobs'[j].kind = jobs[j].kind /\ jobs'[j].snapshot = jobs[j].snapshot
    BY <1>1 DEF SetState, TypeOK, Job, Done, States, j
  <1>4. \A i \in Jobs \ {j} : jobs'[i] = jobs[i]
    BY <1>1 DEF SetState, TypeOK, j
  <1>5. jobs' \in [Jobs -> Job]
    BY <1>1, <1>3, <1>4 DEF SetState, TypeOK
  <1>6. results' = results \cup {<<j, jobs[j].attempt>>} /\ jobs[j].attempt \in 1..MaxAttempts
    BY <1>1, <1>2 DEF Job, j
  <1>7. ResultsOver' /\ DoneHasResult' /\ AbsentIsNew'
    BY <1>2, <1>3, <1>4, <1>6 DEF ResultsOver, DoneHasResult, AbsentIsNew, Done
  <1>8. RefusedOver'
    BY <1>2, <1>3, <1>4 DEF RefusedOver
  <1>9. <<j, jobs[j].attempt>> \notin refused
    BY <1>1, <1>2, <1>6, JobsAssumption DEF RefusedOver
  <1>10. CancelIsFinal'
    BY <1>6, <1>9 DEF CancelIsFinal
  <1>11. FrozenBefore' /\ NothingSkipped'
    <2>1. \A i \in Jobs : /\ jobs'[i].kind = jobs[i].kind
                          /\ jobs'[i].snapshot = jobs[i].snapshot
                          /\ jobs'[i].state # "absent" => jobs[i].state # "absent"
      BY <1>2, <1>3, <1>4
    <2> QED BY <1>6, <2>1, WorkKept DEF Outside
  <1> QED BY <1>1, <1>5, <1>6, <1>7, <1>8, <1>10, <1>11 DEF Kept, TypeOK
(* The steps of the coordinator keep the invariant.                        *)
LEMMA CoordinatorInv == JobsInv /\ CoordinatorStep => JobsInv'
  <1> SUFFICES ASSUME JobsInv, CoordinatorStep PROVE JobsInv'
    OBVIOUS
  <1>1. intent \in 0..MaxStops /\ TypeOK
    BY DEF JobsInv, TypeOK
  <1>2. CASE ReadIntent
    <2>1. Kept
      BY <1>2, QuietKept DEF ReadIntent
    <2>2. held' \in Held /\ HeldJob'
      BY <1>1, <1>2, HeldTyped DEF ReadIntent, HeldJob
    <2> QED BY <1>1, <1>2, <2>1, <2>2, KeptInv DEF ReadIntent
  <1>3. CASE AckEmpty
    <2>1. Kept
      BY <1>3, QuietKept DEF AckEmpty
    <2>2. held' \in Held /\ HeldJob' /\ at' = "idle"
      BY <1>3, GoTyped DEF AckEmpty
    <2> QED BY <1>3, <2>1, <2>2, AckTyped, KeptInv DEF AckEmpty
  <1>4. CASE RequestMinutes
    <2>1. Kept
      <3>1. PICK sealed \in BOOLEAN :
              \/ \E j \in Jobs : CreateJob(j, "minutes", TRUE, MinutesSnapshot(sealed))
              \/ UNCHANGED storeVars
        BY <1>4 DEF RequestMinutes
      <3>2. Outside
        BY <1>4 DEF RequestMinutes
      <3>3. CASE UNCHANGED storeVars
        BY <3>2, <3>3, QuietKept
      <3>4. ASSUME NEW j \in Jobs, CreateJob(j, "minutes", TRUE, MinutesSnapshot(sealed))
            PROVE  Kept
        BY <1>1, <3>2, <3>4, SnapshotsTyped, SourcesStored, CreateKept
      <3> QED BY <3>1, <3>3, <3>4
    <2>2. held' \in Held /\ HeldJob' /\ at' = "requested"
      BY <1>4, GoTyped DEF RequestMinutes
    <2> QED BY <1>1, <1>4, <2>1, <2>2, KeptInv DEF RequestMinutes
  <1>5. CASE RequestFails
    <2>1. Kept
      BY <1>5, QuietKept DEF RequestFails
    <2>2. held' \in Held /\ HeldJob' /\ at' = "idle"
      BY <1>5, GoTyped DEF RequestFails
    <2> QED BY <1>1, <1>5, <2>1, <2>2, KeptInv DEF RequestFails
  <1>6. CASE AckIntent
    <2>1. Kept
      BY <1>6, QuietKept DEF AckIntent
    <2>2. held' \in Held /\ HeldJob' /\ at' = "idle"
      BY <1>6, GoTyped DEF AckIntent
    <2> QED BY <1>6, <2>1, <2>2, AckTyped, KeptInv DEF AckIntent
  <1>7. CASE InsightDue
    <2>1. Kept
      BY <1>7, QuietKept DEF InsightDue
    <2>2. held' \in Held /\ HeldJob' /\ at' = "due"
      BY <1>7, GoTyped DEF InsightDue
    <2> QED BY <1>1, <1>7, <2>1, <2>2, KeptInv DEF InsightDue
  <1>8. CASE RequestInsight
    <2>1. Kept
      <3>1. \/ \E j \in Jobs : CreateJob(j, "insight", TRUE, InsightSnapshot(TRUE))
            \/ UNCHANGED storeVars
        BY <1>8 DEF RequestInsight
      <3>2. Outside
        BY <1>8 DEF RequestInsight
      <3>3. CASE UNCHANGED storeVars
        BY <3>2, <3>3, QuietKept
      <3>4. ASSUME NEW j \in Jobs, CreateJob(j, "insight", TRUE, InsightSnapshot(TRUE))
            PROVE  Kept
        <4>1. \A p \in Texts : SourceOf(p) \in InsightSnapshot(TRUE).sources \/ Covered(p)
          BY FreshReachesBack
        <4> QED BY <1>1, <3>2, <3>4, <4>1, SnapshotsTyped, SourcesStored, CreateKept
      <3> QED BY <3>1, <3>3, <3>4
    <2>2. held' \in Held /\ HeldJob' /\ at' = "idle"
      BY <1>8, GoTyped DEF RequestInsight
    <2> QED BY <1>1, <1>8, <2>1, <2>2, KeptInv DEF RequestInsight
  <1>9. CASE \E j \in Jobs : PickJob(j)
    <2>1. PICK j \in Jobs : PickJob(j)
      BY <1>9
    <2>2. Kept
      BY <2>1, QuietKept DEF PickJob
    <2>3. held' = [job |-> j, attempt |-> jobs[j].attempt, marker |-> 0]
      BY <2>1 DEF PickJob
    <2>4. held' \in Held /\ HeldJob'
      BY <1>1, <2>3, HeldTyped DEF HeldJob, TypeOK, Job
    <2> QED BY <1>1, <2>1, <2>2, <2>4, KeptInv DEF PickJob
  <1>10. ASSUME at \in {"picked", "working", "failing"}
         PROVE  /\ held.job \in Jobs
                /\ \A state \in States \ (Done \cup {"absent"}) :
                     /\ SetState(held.job, state)
                     /\ UNCHANGED <<results, refused>> /\ Outside
                     /\ jobs[held.job].state \notin Done \cup {"absent"}
                     /\ state = "cancelled"
                          \/ jobs[held.job].state \notin {"cancel_requested", "cancelled"}
                     => Kept
    BY <1>10, StateKept DEF JobsInv, HeldJob
  <1>11. /\ \A state \in Queued \cup {"running"} :
              state \notin Done \cup {"absent", "cancel_requested", "cancelled"}
         /\ {"waiting", "running", "failed", "cancelled"} \subseteq States \ (Done \cup {"absent"})
    BY DEF Queued, Done, States
  <1>12. CASE PostponeJob
    <2>1. Kept
      <3>1. CASE SetState(held.job, "waiting") /\ jobs[held.job].state \in Queued
        BY <1>10, <1>11, <1>12, <3>1 DEF PostponeJob
      <3>2. CASE SetState(held.job, "failed") /\ jobs[held.job].state \in Queued
        BY <1>10, <1>11, <1>12, <3>2 DEF PostponeJob
      <3>3. CASE UNCHANGED jobs
        BY <1>12, <3>3, QuietKept DEF PostponeJob, storeVars
      <3> QED BY <1>12, <3>1, <3>2, <3>3 DEF PostponeJob
    <2>2. held' \in Held /\ HeldJob' /\ at' = "idle"
      BY <1>12, GoTyped DEF PostponeJob
    <2> QED BY <1>1, <1>12, <2>1, <2>2, KeptInv DEF PostponeJob
  <1>13. CASE ClaimJob
    <2>1. Kept
      <3>1. CASE SetState(held.job, "running") /\ jobs[held.job].state \in Queued
        BY <1>10, <1>11, <1>13, <3>1 DEF ClaimJob
      <3>2. CASE SetState(held.job, "failed") /\ jobs[held.job].state \in Queued
        BY <1>10, <1>11, <1>13, <3>2 DEF ClaimJob
      <3>3. CASE UNCHANGED jobs
        BY <1>13, <3>3, QuietKept DEF ClaimJob, storeVars
      <3> QED BY <1>13, <3>1, <3>2, <3>3 DEF ClaimJob, Claimable
    <2>2. held' \in Held /\ HeldJob' /\ at' \in {"working", "idle"}
      <3>1. at = "picked" /\ (Go("working") \/ Go("idle"))
        BY <1>13 DEF ClaimJob
      <3> QED BY <3>1, GoTyped
    <2> QED BY <1>1, <1>13, <2>1, <2>2, KeptInv DEF ClaimJob
  <1>14. CASE FinishJob
    <2>1. PICK state \in Done : SetState(held.job, state)
      BY <1>14 DEF FinishJob, Done
    <2>2. Kept
      BY <1>14, <2>1, FinishKept DEF FinishJob
    <2>3. held' \in Held /\ HeldJob' /\ at' = "idle"
      BY <1>14, GoTyped DEF FinishJob
    <2> QED BY <1>1, <1>14, <2>2, <2>3, KeptInv DEF FinishJob
  <1>15. CASE ExecutionFails
    <2>1. Kept
      BY <1>15, QuietKept DEF ExecutionFails
    <2>2. held' \in Held /\ HeldJob' /\ at' = "failing"
      BY <1>15, GoTyped DEF ExecutionFails
    <2> QED BY <1>1, <1>15, <2>1, <2>2, KeptInv DEF ExecutionFails
  <1>16. CASE FailJob
    <2>1. Kept
      <3>1. CASE SetState(held.job, "failed") /\ jobs[held.job].state \in Queued \cup {"running"}
        BY <1>10, <1>11, <1>16, <3>1 DEF FailJob
      <3>2. CASE UNCHANGED jobs
        BY <1>16, <3>2, QuietKept DEF FailJob, storeVars
      <3> QED BY <1>16, <3>1, <3>2 DEF FailJob
    <2>2. held' \in Held /\ HeldJob' /\ at' = "idle"
      BY <1>16, GoTyped DEF FailJob
    <2> QED BY <1>1, <1>16, <2>1, <2>2, KeptInv DEF FailJob
  <1>17. CASE CompleteCancel
    <2>1. Kept
      <3>1. CASE SetState(held.job, "cancelled") /\ jobs[held.job].state = "cancel_requested"
        BY <1>10, <1>11, <1>17, <3>1 DEF CompleteCancel, Done
      <3>2. CASE UNCHANGED jobs
        BY <1>17, <3>2, QuietKept DEF CompleteCancel, storeVars
      <3> QED BY <1>17, <3>1, <3>2 DEF CompleteCancel
    <2>2. held' \in Held /\ HeldJob' /\ at' = "idle"
      BY <1>17, GoTyped DEF CompleteCancel
    <2> QED BY <1>1, <1>17, <2>1, <2>2, KeptInv DEF CompleteCancel
  <1>18. CASE Preempted
    <2> DEFINE after == Interrupted(jobs[held.job].state)
    <2>0. /\ at = "working" /\ Outside /\ UNCHANGED <<results, refused, intent>>
          /\ held.job \in Jobs /\ jobs[held.job] \in Job
      BY <1>18 DEF Preempted, JobsInv, HeldJob, TypeOK
    <2>1. ASSUME jobs' = Retried(held.job, "waiting"), after = "interrupted",
                 jobs[held.job].attempt < MaxAttempts
          PROVE  Kept
      <3>1. jobs[held.job].state # "absent"
        BY <2>1 DEF Interrupted
      <3> QED BY <2>0, <2>1, <3>1, RetryKept
    <2>2. ASSUME jobs' = [jobs EXCEPT ![held.job].state = after]
          PROVE  Kept
      <3>1. CASE jobs[held.job].state = "running"
        <4>1. after = "interrupted" /\ SetState(held.job, after)
          BY <2>2, <3>1 DEF Interrupted, SetState
        <4>2. "interrupted" \in States \ (Done \cup {"absent"})
          BY DEF States, Done
        <4>3. jobs[held.job].state \notin Done \cup {"absent", "cancel_requested", "cancelled"}
          BY <3>1 DEF Done
        <4> QED BY <2>0, <4>1, <4>2, <4>3, StateKept
      <3>2. CASE jobs[held.job].state = "cancel_requested"
        <4>1. after = "cancelled" /\ SetState(held.job, after)
          BY <2>2, <3>2 DEF Interrupted, SetState
        <4>2. "cancelled" \in States \ (Done \cup {"absent"})
                /\ jobs[held.job].state \notin Done \cup {"absent"}
          BY <3>2 DEF States, Done
        <4> QED BY <2>0, <4>1, <4>2, StateKept
      <3>3. CASE jobs[held.job].state \notin {"running", "cancel_requested"}
        <4>1. after = jobs[held.job].state
          BY <3>3 DEF Interrupted
        <4>2. jobs' = jobs
          BY <1>1, <2>0, <2>2, <4>1 DEF TypeOK, Job
        <4> QED BY <2>0, <4>2, QuietKept DEF storeVars
      <3> QED BY <3>1, <3>2, <3>3
    <2>3. ASSUME UNCHANGED jobs
          PROVE  Kept
      BY <2>0, <2>3, QuietKept DEF storeVars
    <2>4. Kept
      BY <1>18, <2>1, <2>2, <2>3 DEF Preempted
    <2>5. held' \in Held /\ HeldJob' /\ at' \in {"idle", "ended"}
      <3>1. CASE Go("idle")
        BY <3>1, GoTyped
      <3>2. CASE at' = "ended" /\ held' = Nothing
        BY <1>1, <3>2, HeldTyped DEF HeldJob
      <3> QED BY <1>18, <3>1, <3>2 DEF Preempted
    <2> QED BY <1>1, <2>0, <2>4, <2>5, KeptInv
  <1> QED BY <1>2, <1>3, <1>4, <1>5, <1>6, <1>7, <1>8, <1>9, <1>12, <1>13, <1>14, <1>15,
             <1>16, <1>17, <1>18 DEF CoordinatorStep

(* A restart keeps it: what ran is interrupted.                            *)
LEMMA RestartInv == JobsInv /\ Restart => JobsInv'
  <1> SUFFICES ASSUME JobsInv, Restart PROVE JobsInv'
    OBVIOUS
  <1> USE DEF JobsInv
  <1>1. /\ jobs' = [j \in Jobs |-> [jobs[j] EXCEPT !.state = Interrupted(@)]]
        /\ Go("idle")
        /\ UNCHANGED <<results, refused, intent, stops, promised, audioVars>>
    BY DEF Restart
  <1>2. ASSUME NEW j \in Jobs
        PROVE  /\ jobs'[j] \in Job
               /\ jobs'[j].kind = jobs[j].kind /\ jobs'[j].snapshot = jobs[j].snapshot
               /\ jobs'[j].attempt = jobs[j].attempt
               /\ jobs'[j].state = Interrupted(jobs[j].state)
    <2>1. jobs[j] \in Job /\ jobs'[j] = [jobs[j] EXCEPT !.state = Interrupted(@)]
      BY <1>1 DEF TypeOK
    <2>2. Interrupted(jobs[j].state) \in States
      BY <2>1 DEF Interrupted, States, Job
    <2> QED BY <2>1, <2>2 DEF Job
  <1>3. \A j \in Jobs :
          /\ jobs'[j].state \in Done <=> jobs[j].state \in Done
          /\ jobs'[j].state = "absent" <=> jobs[j].state = "absent"
          /\ jobs[j].state \in {"cancel_requested", "cancelled"} => jobs'[j].state = "cancelled"
    BY <1>2 DEF Interrupted, Done
  <1>4. jobs' \in [Jobs -> Job]
    BY <1>1, <1>2
  <1>5. ResultsOver' /\ RefusedOver' /\ CancelIsFinal' /\ DoneHasResult' /\ AbsentIsNew'
    BY <1>1, <1>2, <1>3
    DEF ResultsOver, RefusedOver, CancelIsFinal, DoneHasResult, AbsentIsNew
  <1>6. FrozenBefore' /\ NothingSkipped'
    BY <1>1, <1>2, <1>3, WorkKept
  <1>7. held' \in Held /\ HeldJob' /\ at' = "idle"
    BY <1>1, GoTyped
  <1>8. TypeOK'
    BY <1>1, <1>4, <1>7, OuterTyped DEF TypeOK
  <1> QED BY <1>5, <1>6, <1>7, <1>8

(* The inductive invariant holds in every reachable state.                 *)
THEOREM JobsInvariant == Spec => []JobsInv
  <1>1. JobsInv /\ [Next]_vars => JobsInv'
    <2> SUFFICES ASSUME JobsInv, [Next]_vars PROVE JobsInv'
      OBVIOUS
    <2>1. CASE UNCHANGED vars
      <3>1. JobsInv!1' /\ HeldJob'
        BY <2>1 DEF JobsInv, TypeOK, HeldJob, vars, audioVars, storeVars, meetingVars
      <3>2. UNCHANGED storeVars /\ Outside
        BY <2>1 DEF vars, storeVars, meetingVars, audioVars, Outside
      <3> QED BY <3>1, <3>2, QuietKept DEF Kept, JobsInv
    <2> QED BY <2>1, MeetingInv, OperatorInv, CoordinatorInv, RestartInv DEF Next
  <1> QED BY <1>1, InitInv, PTL DEF Spec

(* Type correctness.                                                       *)
THEOREM JobsTypeOK == Spec => []TypeOK
  <1>1. JobsInv => TypeOK
    BY DEF JobsInv
  <1> QED BY <1>1, JobsInvariant, PTL

(* Every text that counts as consumed is in an insight's snapshot, as it   *)
(* stands, for any interleaving of meeting, operator and coordinator       *)
(* (Consumed, InsightSnapshot: the cursor of automatic insights).          *)
THEOREM InsightsTheorem == Spec => []InsightsMissNothing
  <1> QED BY MissNothing, JobsInvariant, PTL

(* No accepted cancellation is overtaken by a result (cancel_analysis_job, *)
(* finish_analysis_job).                                                   *)
THEOREM CancelTheorem == Spec => []CancelIsFinal
  <1>1. JobsInv => CancelIsFinal
    BY DEF JobsInv
  <1> QED BY <1>1, JobsInvariant, PTL

----------------------------------------------------------------------------
(* The minutes of a stopped meeting.                                       *)

Served ==
  \E j \in Jobs : /\ jobs[j].state # "absent" /\ jobs[j].kind = "minutes"
                  /\ promised \subseteq {i.place : i \in jobs[j].snapshot.sources}

(* The intent is that of the last stop; what the coordinator holds may be  *)
(* that of an earlier one, and only the last one's job is promised.        *)
StopInv ==
  /\ intent \in {0, stops}
  /\ promised \subseteq Captured
  /\ held.marker <= stops
  /\ at \in {"stopped", "requested"} => held.marker # 0
  /\ at = "requested" /\ held.marker = stops => Served
  /\ intent = 0 => Served \/ promised = {}

(* A job is never forgotten, and keeps its kind and its snapshot.          *)
JobsRemain ==
  \A j \in Jobs : jobs[j].state # "absent" =>
    /\ jobs'[j].state # "absent"
    /\ jobs'[j].kind = jobs[j].kind /\ jobs'[j].snapshot = jobs[j].snapshot

(* A job that changes its state remains the job it was,                    *)
LEMMA SetStateRemains ==
  ASSUME jobs \in [Jobs -> Job], NEW j \in Jobs, NEW state \in States \ {"absent"},
         SetState(j, state)
  PROVE  JobsRemain
  BY DEF SetState, JobsRemain, Job

(* so does one that is tried again,                                        *)
LEMMA RetriedRemains ==
  ASSUME jobs \in [Jobs -> Job], NEW j \in Jobs, NEW state \in {"queued", "waiting"},
         jobs' = Retried(j, state)
  PROVE  JobsRemain
  BY DEF Retried, JobsRemain, Job

(* and the others do when one is made.                                     *)
LEMMA CreateRemains ==
  ASSUME jobs \in [Jobs -> Job], NEW j \in Jobs, NEW kind \in {"insight", "minutes"},
         NEW automatic \in BOOLEAN, NEW snapshot, CreateJob(j, kind, automatic, snapshot)
  PROVE  /\ JobsRemain
         /\ jobs'[j].state # "absent" /\ jobs'[j].kind = kind /\ jobs'[j].snapshot = snapshot
  <1> DEFINE new == [state |-> "queued", kind |-> kind, automatic |-> automatic,
                     attempt |-> 1, snapshot |-> snapshot]
             moved(i) == IF i = j THEN new
                         ELSE IF Coalesced(i, kind, automatic)
                              THEN [jobs[i] EXCEPT !.state = "cancelled"] ELSE jobs[i]
  <1>1. jobs' = [i \in Jobs |-> moved(i)] /\ jobs[j].state = "absent"
    BY DEF CreateJob
  <1>2. ASSUME NEW i \in Jobs, i # j
        PROVE  /\ jobs[i].state # "absent" => moved(i).state # "absent"
               /\ moved(i).kind = jobs[i].kind /\ moved(i).snapshot = jobs[i].snapshot
    BY <1>2 DEF Job
  <1>3. moved(j) = new
    OBVIOUS
  <1> HIDE DEF moved
  <1> QED BY <1>1, <1>2, <1>3 DEF JobsRemain

(* No step removes a job, or gives it another snapshot.                    *)
LEMMA NextRemains ==
  ASSUME JobsInv, Next
  PROVE  JobsRemain
  <1>0. /\ jobs \in [Jobs -> Job]
        /\ at \in {"picked", "working", "failing"} => held.job \in Jobs
    BY DEF JobsInv, TypeOK, HeldJob
  <1>1. ASSUME UNCHANGED jobs PROVE JobsRemain
    BY <1>1 DEF JobsRemain
  <1>2. CASE MeetingStep
    BY <1>1, <1>2 DEF MeetingStep, Capture, LoseAudio, Correct, Recognise, StoreText, StopMeeting,
                      Meanwhile, storeVars
  <1>3. ASSUME NEW j \in Jobs, OperatorCreates(j) \/ OperatorCancels(j) \/ OperatorRetries(j)
        PROVE  JobsRemain
    BY <1>0, <1>3, SetStateRemains, RetriedRemains, CreateRemains
    DEF OperatorCreates, OperatorCancels, OperatorRetries, Cancel, States
  <1>4. ASSUME RequestMinutes \/ RequestInsight PROVE JobsRemain
    BY <1>0, <1>1, <1>4, CreateRemains DEF RequestMinutes, RequestInsight, storeVars
  <1>5. ASSUME PostponeJob \/ ClaimJob \/ FinishJob \/ FailJob \/ CompleteCancel
        PROVE  JobsRemain
    BY <1>0, <1>1, <1>5, SetStateRemains
    DEF PostponeJob, ClaimJob, FinishJob, FailJob, CompleteCancel, States
  <1>6. ASSUME NEW j \in Jobs
        PROVE  jobs[j].state # "absent" => Interrupted(jobs[j].state) \in States \ {"absent"}
    BY <1>0 DEF Interrupted, States, Job
  <1>7. ASSUME Preempted PROVE JobsRemain
    <2>1. held.job \in Jobs
      BY <1>0, <1>7 DEF Preempted
    <2>2. ASSUME jobs' = [jobs EXCEPT ![held.job].state = Interrupted(jobs[held.job].state)]
          PROVE  JobsRemain
      <3> DEFINE state == Interrupted(jobs[held.job].state)
      <3>1. jobs' = [jobs EXCEPT ![held.job].state = state]
        BY <2>2
      <3>2. jobs[held.job].state # "absent" => state # "absent"
        BY <1>6, <2>1
      <3> HIDE DEF state
      <3> QED BY <1>0, <2>1, <3>1, <3>2 DEF JobsRemain, Job
    <2>3. ASSUME jobs' = Retried(held.job, "waiting") PROVE JobsRemain
      BY <1>0, <2>1, <2>3, RetriedRemains
    <2>4. \/ jobs' = Retried(held.job, "waiting")
          \/ jobs' = [jobs EXCEPT ![held.job].state = Interrupted(jobs[held.job].state)]
          \/ jobs' = jobs
      <3> DEFINE after == Interrupted(jobs[held.job].state)
      <3>1. \/ jobs' = Retried(held.job, "waiting")
            \/ jobs' = IF Mine THEN [jobs EXCEPT ![held.job].state = after] ELSE jobs
        BY <1>7 DEF Preempted
      <3> HIDE DEF after
      <3>2. \/ jobs' = Retried(held.job, "waiting")
            \/ jobs' = [jobs EXCEPT ![held.job].state = after]
            \/ jobs' = jobs
        BY <3>1
      <3> QED BY <3>2 DEF after
    <2> QED BY <1>1, <2>2, <2>3, <2>4
  <1>8. ASSUME Restart PROVE JobsRemain
    <2>1. ASSUME NEW j \in Jobs
          PROVE  jobs'[j] = [jobs[j] EXCEPT !.state = Interrupted(jobs[j].state)]
      BY <1>8 DEF Restart
    <2>2. ASSUME NEW j \in Jobs, NEW state, jobs'[j] = [jobs[j] EXCEPT !.state = state]
          PROVE  /\ jobs'[j].state = state
                 /\ jobs'[j].kind = jobs[j].kind /\ jobs'[j].snapshot = jobs[j].snapshot
      BY <1>0, <2>2 DEF Job
    <2>3. ASSUME NEW j \in Jobs
          PROVE  /\ jobs'[j].state = Interrupted(jobs[j].state)
                 /\ jobs'[j].kind = jobs[j].kind /\ jobs'[j].snapshot = jobs[j].snapshot
      <3> DEFINE state == Interrupted(jobs[j].state)
      <3>1. jobs'[j] = [jobs[j] EXCEPT !.state = state]
        BY <2>1
      <3> HIDE DEF state
      <3>2. jobs'[j].state = state /\ jobs'[j].kind = jobs[j].kind
              /\ jobs'[j].snapshot = jobs[j].snapshot
        BY <2>2, <3>1
      <3> QED BY <3>2 DEF state
    <2> QED BY <1>6, <2>3 DEF JobsRemain
  <1>9. ASSUME \/ ReadIntent \/ AckEmpty \/ RequestFails \/ AckIntent
               \/ InsightDue \/ (\E j \in Jobs : PickJob(j)) \/ ExecutionFails
        PROVE  UNCHANGED jobs
    BY <1>9 DEF ReadIntent, AckEmpty, RequestFails, AckIntent, InsightDue, PickJob, ExecutionFails,
                storeVars
  <1> QED
    BY <1>1, <1>2, <1>3, <1>4, <1>5, <1>7, <1>8, <1>9
    DEF Next, OperatorStep, CoordinatorStep

(* A promise that was kept stays kept.                                     *)
LEMMA ServedRemains ==
  ASSUME JobsRemain, UNCHANGED promised, Served
  PROVE  Served'
  BY DEF JobsRemain, Served

(* The minutes that are asked for hold all that is captured at that time.  *)
LEMMA MinutesServe ==
  ASSUME JobsInv, StopInv, RequestMinutes
  PROVE  Served'
  <1>1. \A sealed \in BOOLEAN : MinutesSnapshot(sealed).sources = {SourceOf(p) : p \in Captured}
    BY DEF MinutesSnapshot
  <1>2. promised' = promised /\ promised \subseteq Captured
    BY DEF RequestMinutes, Outside, StopInv
  <1>3. \A p \in Captured : SourceOf(p).place = p
    BY DEF SourceOf
  <1>4. ASSUME NEW j \in Jobs, NEW sealed \in BOOLEAN, jobs'[j].state # "absent",
               jobs'[j].kind = "minutes", jobs'[j].snapshot = MinutesSnapshot(sealed)
        PROVE  Served'
    <2>1. promised' \subseteq {i.place : i \in jobs'[j].snapshot.sources}
      BY <1>1, <1>2, <1>3, <1>4
    <2> QED BY <1>4, <2>1 DEF Served
  <1>5. ASSUME NEW j \in Jobs, NEW sealed \in BOOLEAN,
               CreateJob(j, "minutes", TRUE, MinutesSnapshot(sealed))
        PROVE  Served'
    BY <1>4, <1>5, CreateRemains DEF JobsInv, TypeOK
  <1>6. ASSUME NEW sealed \in BOOLEAN, Existing("minutes", MinutesSnapshot(sealed)),
               UNCHANGED storeVars
        PROVE  Served'
    BY <1>4, <1>6 DEF Existing, storeVars
  <1> QED BY <1>5, <1>6 DEF RequestMinutes

(* Steps that have to do with no stop.                                     *)
Unmoved ==
  /\ audioVars' = audioVars /\ intent' = intent
  /\ stops' = stops /\ promised' = promised
Elsewhere ==
  \/ at' = at /\ held' = held
  \/ \E place \in {"idle", "due", "working", "failing"} : Go(place)
  \/ at' = "ended" /\ held' = Nothing
  \/ at' = "picked" /\ held'.marker = 0

(* Every step keeps what StopTheorem rests on.                             *)
LEMMA StopInvStep ==
  ASSUME JobsInv, StopInv, Next
  PROVE  StopInv'
  <1>0. /\ stops \in Nat /\ intent \in Nat /\ held.marker \in Nat
        /\ jobs \in [Jobs -> Job]
    BY JobsAssumption DEF JobsInv, TypeOK, Held
  <1>1. /\ JobsRemain
        /\ UNCHANGED promised => (Served => Served')
    BY NextRemains, ServedRemains
  <1>2. ASSUME Unmoved, Elsewhere PROVE StopInv'
    BY <1>0, <1>1, <1>2 DEF Unmoved, Elsewhere, StopInv, Go, Nothing, Captured, audioVars
  <1>3. CASE StopMeeting
    BY <1>0, <1>3 DEF StopMeeting, StopInv, Meanwhile, Captured, audioVars
  <1>4. CASE MeetingStep /\ ~StopMeeting
    <2>1. UNCHANGED <<meetingVars, at, held>>
      BY <1>4 DEF MeetingStep, Capture, LoseAudio, Correct, Recognise, StoreText, Meanwhile
    <2>2. ASSUME NEW p \in Places, NEW outcome \in {"pending", "text", "empty", "failed"},
                 audio' = [audio EXCEPT ![p] = outcome]
          PROVE  Captured \subseteq Captured'
      BY <2>2 DEF Captured, JobsInv, TypeOK
    <2>3. ASSUME NEW p \in Places, audio[p] = "ahead", audio' = [audio EXCEPT ![p] = "lost"]
          PROVE  Captured \subseteq Captured'
      BY <2>3 DEF Captured, JobsInv, TypeOK
    <2>4. Captured \subseteq Captured'
      BY <1>4, <2>2, <2>3, JobsAssumption
      DEF MeetingStep, Capture, LoseAudio, Correct, Recognise, StoreText
    <2> QED BY <1>1, <2>1, <2>4 DEF StopInv, meetingVars
  <1>5. CASE OperatorStep
    <2>1. Unmoved /\ Elsewhere
      BY <1>5 DEF OperatorStep, OperatorCreates, OperatorCancels, OperatorRetries, meetingVars,
                  Unmoved, Elsewhere
    <2> QED BY <1>2, <2>1
  <1>6. CASE ReadIntent
    BY <1>0, <1>1, <1>6 DEF ReadIntent, StopInv, Outside, Captured, audioVars
  <1>7. CASE AckEmpty
    BY <1>0, <1>1, <1>7 DEF AckEmpty, StopInv, Ack, Go, Nothing, Outside, Captured, audioVars
  <1>8. CASE RequestMinutes
    <2>1. Served'
      BY <1>8, MinutesServe
    <2> QED BY <1>0, <1>8, <2>1 DEF RequestMinutes, StopInv, Go, Outside, Captured, audioVars
  <1>9. CASE AckIntent
    BY <1>0, <1>1, <1>9 DEF AckIntent, StopInv, Ack, Go, Nothing, Outside, Captured, audioVars
  <1>10. CASE RequestFails \/ InsightDue \/ RequestInsight \/ (\E j \in Jobs : PickJob(j))
    <2>1. Unmoved
      BY <1>10 DEF RequestFails, InsightDue, RequestInsight, PickJob, Outside, Unmoved
    <2>2. ASSUME NEW j \in Jobs, PickJob(j) PROVE at' = "picked" /\ held'.marker = 0
      BY <2>2 DEF PickJob
    <2>3. ASSUME RequestFails \/ InsightDue \/ RequestInsight PROVE Go("idle") \/ Go("due")
      BY <2>3 DEF RequestFails, InsightDue, RequestInsight
    <2>4. Elsewhere
      BY <1>10, <2>2, <2>3 DEF Elsewhere
    <2> QED BY <1>2, <2>1, <2>4
  <1>11. CASE PostponeJob \/ ClaimJob \/ FinishJob
    <2>1. Unmoved
      BY <1>11 DEF PostponeJob, ClaimJob, FinishJob, Outside, Unmoved
    <2>2. Elsewhere
      BY <1>11 DEF PostponeJob, ClaimJob, FinishJob, Elsewhere
    <2> QED BY <1>2, <2>1, <2>2
  <1>12. CASE ExecutionFails \/ FailJob \/ CompleteCancel \/ Preempted
    <2>1. Unmoved
      BY <1>12 DEF ExecutionFails, FailJob, CompleteCancel, Preempted, Outside, Unmoved
    <2>2. ASSUME Preempted PROVE Go("idle") \/ (at' = "ended" /\ held' = Nothing)
      BY <2>2 DEF Preempted
    <2>3. ASSUME ExecutionFails \/ FailJob \/ CompleteCancel PROVE Go("idle") \/ Go("failing")
      BY <2>3 DEF ExecutionFails, FailJob, CompleteCancel
    <2>4. Elsewhere
      BY <1>12, <2>2, <2>3 DEF Elsewhere
    <2> QED BY <1>2, <2>1, <2>4
  <1>13. CASE Restart
    BY <1>2, <1>13 DEF Restart, Unmoved, Elsewhere
  <1> QED
    BY <1>3, <1>4, <1>5, <1>6, <1>7, <1>8, <1>9, <1>10, <1>11, <1>12, <1>13
    DEF Next, CoordinatorStep

(* Every stop gets its minutes: an intent is deleted only when a job holds *)
(* all that was captured at the stop (ack_analysis_stop_intent compares    *)
(* the marker, so a stop that comes between is not lost).                  *)
THEOREM StopTheorem == Spec => []StopIntentsServed
  <1>1. Init => StopInv
    BY DEF Init, StopInv, Nothing, Captured
  <1>2. JobsInv /\ StopInv /\ [Next]_vars => StopInv'
    <2>1. ASSUME StopInv, UNCHANGED vars PROVE StopInv'
      BY <2>1 DEF StopInv, Served, Captured, vars, audioVars, storeVars, meetingVars
    <2> QED BY <2>1, StopInvStep
  <1>3. StopInv => StopIntentsServed
    BY DEF StopInv, Served, StopIntentsServed
  <1> QED BY <1>1, <1>2, <1>3, JobsInvariant, PTL DEF Spec
=============================================================================
