---------------------------- MODULE AnalysisJobs ----------------------------
(***************************************************************************)
(* The analysis jobs of one session: the job table of forum-core           *)
(* (analysis.rs), the coordinator thread of the desktop (forum-shell,      *)
(* analysis.rs: run_loop, execute), the operator who creates, cancels and  *)
(* retries jobs, the meeting that goes on meanwhile, and the end of the    *)
(* process at any point.                                                   *)
(*                                                                         *)
(* Each call of the store is one transaction, hence one action; the        *)
(* coordinator makes them one after the other, and at says which is next.  *)
(* The audio is a line of places; the captured segment at place p covers   *)
(* [p, p + 1), and born says when its current text was stored (store_seq), *)
(* which identifies that text.  What becomes of a job's artifact is in     *)
(* ArtifactReview.                                                         *)
(*                                                                         *)
(* Abstracted: time limits are a choice at each check of them; the worker  *)
(* is what it answers; a repeated request id finds its job and changes     *)
(* nothing, as does a command for an attempt that is not the current one.  *)
(***************************************************************************)
EXTENDS Integers, FiniteSets

CONSTANTS
  N,            \* bound: places on the audio timeline
  Jobs,         \* ids a job may get
  NoJob,        \* none of them
  Losses,       \* places whose audio may be lost
  Outcomes,     \* what recognition may make of a segment
  Wishes,       \* kinds of jobs the operator asks for
  MaxAttempts,  \* AnalysisJob.max_attempts
  Overlap,      \* audio before the first new text that is looked at again
  Lookback,     \* how far back a gap counts against an insight
  MaxSeq,       \* bound: stored texts
  MaxStops      \* bound: stops of the meeting

Places == 1..N

ASSUME JobsAssumption ==
  /\ N \in Nat /\ Overlap \in Nat /\ Lookback \in Nat
  /\ MaxSeq \in Nat /\ MaxStops \in Nat
  /\ MaxAttempts \in Nat \ {0}
  /\ NoJob \notin Jobs
  /\ Losses \subseteq Places
  /\ Outcomes \subseteq {"text", "empty", "failed"}
  /\ Wishes \subseteq {"insight", "minutes"}

VARIABLES
  audio,     \* of each place: ahead, lost (a registered gap), pending, or an outcome
  born,      \* store_seq of the current text of a place
  seq,       \* the last store_seq given to a text
  jobs,      \* table analysis_jobs with the snapshots
  results,   \* table analysis_results: <<job, attempt>>
  refused,   \* attempts whose cancellation was accepted
  intent,    \* analysis_stop_intents.marker; 0: none
  stops,     \* markers given
  promised,  \* places that were captured at the last stop
  at,        \* the coordinator's next call
  held       \* what it holds: job, attempt, marker

audioVars == <<audio, born, seq>>
meetingVars == <<intent, stops, promised>>
storeVars == <<jobs, results, refused>>
vars == <<audioVars, storeVars, meetingVars, at, held>>

States == {"absent", "queued", "waiting", "running", "cancel_requested", "cancelled",
           "succeeded", "succeeded_partial", "failed", "interrupted"}
Queued == {"queued", "waiting"}
Occupying == {"running", "cancel_requested"}
Done == {"succeeded", "succeeded_partial"}

Source == [place : Places, born : 0..MaxSeq]
Snapshot == [sources : SUBSET Source, complete : BOOLEAN]
Job == [state : States, kind : {"insight", "minutes"}, automatic : BOOLEAN,
        attempt : 1..MaxAttempts, snapshot : Snapshot]
Held == [job : Jobs \cup {NoJob}, attempt : 0..MaxAttempts, marker : 0..MaxStops]
Nothing == [job |-> NoJob, attempt |-> 0, marker |-> 0]

Captured == {p \in Places : audio[p] \notin {"ahead", "lost"}}
Lost == {p \in Places : audio[p] = "lost"}
Texts == {p \in Places : audio[p] = "text"}
SourceOf(p) == [place |-> p, born |-> born[p]]

----------------------------------------------------------------------------
(* Snapshots.                                                              *)

(* Mutant: every insight counts, also one that failed or was cancelled. *)
ConsumedByAny(b) ==
  \E j \in Jobs : /\ jobs[j].state # "absent" /\ jobs[j].kind = "insight"
                  /\ \E i \in jobs[j].snapshot.sources : b <= i.born

(* b is not after insight_input_cursor, the newest text in the snapshot of *)
(* an insight that succeeded.                                              *)
Consumed(b) ==
  \E j \in Jobs : /\ jobs[j].state \in Done /\ jobs[j].kind = "insight"
                  /\ \E i \in jobs[j].snapshot.sources : b <= i.born

(* Texts no insight has consumed; new_insight_start is the first of them.  *)
Unconsumed == {p \in Texts : ~Consumed(born[p])}

(* Places an automatic insight looks at: from a little before the first    *)
(* new text on.                                                            *)
Window == {p \in Places : \E u \in Unconsumed : u < p + 1 + Overlap}

Settled(places) == \A p \in places \cap Captured : audio[p] \in {"text", "empty"}

(* snapshot_for; an insight drops what has no result yet, minutes are      *)
(* complete only of a sealed transcript, which is a choice here.           *)
InsightSnapshot(automatic) ==
  LET view == IF automatic THEN Window ELSE Places
      gap == \E g \in Lost \cap view : \E p \in Captured : g <= p
  IN [sources |-> {SourceOf(p) : p \in {q \in view \cap Captured : audio[q] # "pending"}},
      complete |-> ~gap /\ Settled(view)]

MinutesSnapshot(sealed) ==
  [sources |-> {SourceOf(p) : p \in Captured},
   complete |-> sealed /\ Lost = {} /\ Settled(Places)]

(* snapshot_has_gap *)
HasGap(kind, snapshot) ==
  IF kind = "insight"
  THEN \E g \in Lost : /\ \E i \in snapshot.sources : g <= i.place
                       /\ \A i \in snapshot.sources : g + Lookback > i.place
  ELSE Lost # {} /\ snapshot.sources # {}

InputsUnchanged(snapshot) == \A i \in snapshot.sources : i = SourceOf(i.place)

SnapshotCurrent(kind, snapshot) ==
  InputsUnchanged(snapshot) /\ ~(snapshot.complete /\ HasGap(kind, snapshot))

----------------------------------------------------------------------------
(* The job table.                                                          *)

Init ==
  /\ audio = [p \in Places |-> "ahead"]
  /\ born = [p \in Places |-> 0]
  /\ seq = 0
  /\ jobs = [j \in Jobs |-> [state |-> "absent", kind |-> "minutes", automatic |-> FALSE,
                             attempt |-> 1,
                             snapshot |-> [sources |-> {}, complete |-> FALSE]]]
  /\ results = {} /\ refused = {}
  /\ intent = 0 /\ stops = 0 /\ promised = {}
  /\ at = "idle" /\ held = Nothing

SetState(j, state) == jobs' = [jobs EXCEPT ![j].state = state]

(* An automatic job with the same snapshot exists: it is the answer.       *)
Existing(kind, snapshot) ==
  \E j \in Jobs : /\ jobs[j].state # "absent" /\ jobs[j].automatic
                  /\ jobs[j].kind = kind
                  /\ jobs[j].snapshot = snapshot

Coalesced(j, kind, automatic) ==
  /\ automatic /\ kind = "insight"
  /\ jobs[j].state \in Queued /\ jobs[j].automatic /\ jobs[j].kind = "insight"

(* create_analysis_job; an automatic insight cancels older ones that wait. *)
CreateJob(j, kind, automatic, snapshot) ==
  /\ jobs[j].state = "absent"
  /\ snapshot.sources # {}
  /\ ~(automatic /\ Existing(kind, snapshot))
  /\ jobs' = [i \in Jobs |->
       IF i = j THEN [state |-> "queued", kind |-> kind, automatic |-> automatic,
                      attempt |-> 1, snapshot |-> snapshot]
       ELSE IF Coalesced(i, kind, automatic) THEN [jobs[i] EXCEPT !.state = "cancelled"]
       ELSE jobs[i]]
  /\ UNCHANGED <<results, refused>>

(* cancel_analysis_job *)
Cancel(j) ==
  /\ jobs[j].state \in Queued \cup Occupying \cup {"cancelled"}
  /\ SetState(j, IF jobs[j].state \in Occupying THEN "cancel_requested" ELSE "cancelled")
  /\ refused' = refused \cup {<<j, jobs[j].attempt>>}
  /\ UNCHANGED results

Retriable(j) ==
  /\ jobs[j].state \in {"failed", "interrupted", "succeeded_partial", "cancelled"}
  /\ jobs[j].attempt < MaxAttempts
  /\ SnapshotCurrent(jobs[j].kind, jobs[j].snapshot)

(* retry_analysis_job; a job preempted by captions waits at once.          *)
Retried(j, state) == [jobs EXCEPT ![j].attempt = @ + 1, ![j].state = state]

(* interrupt_analysis_job and its like: a cancelled job stays cancelled.   *)
Interrupted(state) ==
  IF state = "running" THEN "interrupted"
  ELSE IF state = "cancel_requested" THEN "cancelled" ELSE state

----------------------------------------------------------------------------
(* The meeting.                                                            *)

Meanwhile == UNCHANGED <<storeVars, at, held>>

Capture(p) ==
  /\ audio[p] = "ahead"
  /\ audio' = [audio EXCEPT ![p] = "pending"]
  /\ UNCHANGED <<born, seq, meetingVars>> /\ Meanwhile

LoseAudio(p) ==
  /\ p \in Losses
  /\ audio[p] = "ahead"
  /\ audio' = [audio EXCEPT ![p] = "lost"]
  /\ UNCHANGED <<born, seq, meetingVars>> /\ Meanwhile

StoreText(p, outcome) ==
  /\ seq < MaxSeq
  /\ seq' = seq + 1
  /\ born' = [born EXCEPT ![p] = seq + 1]
  /\ audio' = [audio EXCEPT ![p] = outcome]
  /\ UNCHANGED meetingVars /\ Meanwhile

Recognise(p, outcome) == audio[p] \in {"pending", "failed"} /\ StoreText(p, outcome)
Correct(p) == audio[p] \in {"text", "empty", "failed"} /\ StoreText(p, "text")

(* session_stopped with record_analysis_stop_intent: a fresh marker.       *)
StopMeeting ==
  /\ stops < MaxStops
  /\ stops' = stops + 1 /\ intent' = stops + 1
  /\ promised' = Captured
  /\ UNCHANGED audioVars /\ Meanwhile

OperatorCreates(j) ==
  /\ \/ "insight" \in Wishes /\ CreateJob(j, "insight", FALSE, InsightSnapshot(FALSE))
     \/ "minutes" \in Wishes
        /\ \E sealed \in BOOLEAN : CreateJob(j, "minutes", FALSE, MinutesSnapshot(sealed))
  /\ UNCHANGED <<audioVars, meetingVars, at, held>>

OperatorCancels(j) == Cancel(j) /\ UNCHANGED <<audioVars, meetingVars, at, held>>

OperatorRetries(j) ==
  /\ Retriable(j) /\ jobs' = Retried(j, "queued")
  /\ UNCHANGED <<results, refused, audioVars, meetingVars, at, held>>

----------------------------------------------------------------------------
(* The coordinator.                                                        *)

Go(place) == at' = place /\ held' = IF place = "idle" THEN Nothing ELSE held
Outside == UNCHANGED <<audioVars, stops, promised>>

(* pending_analysis_stop_intents *)
ReadIntent ==
  /\ at = "idle" /\ intent # 0
  /\ at' = "stopped" /\ held' = [job |-> NoJob, attempt |-> 0, marker |-> intent]
  /\ UNCHANGED <<storeVars, intent>> /\ Outside

(* Mutant: the intent is deleted by session, whatever its marker. *)
AckAny(marker) == 0

(* ack_analysis_stop_intent deletes the intent that was read, no other.    *)
Ack(marker) == IF marker = intent THEN 0 ELSE intent

(* ack_empty_analysis_stop_intent *)
AckEmpty ==
  /\ at = "stopped" /\ Captured = {}
  /\ intent' = Ack(held.marker)
  /\ Go("idle")
  /\ UNCHANGED storeVars /\ Outside

RequestMinutes ==
  /\ at = "stopped" /\ Captured # {}
  /\ \E sealed \in BOOLEAN :
       LET snapshot == MinutesSnapshot(sealed) IN
       \/ \E j \in Jobs : CreateJob(j, "minutes", TRUE, snapshot)
       \/ Existing("minutes", snapshot) /\ UNCHANGED storeVars
  /\ Go("requested")
  /\ UNCHANGED intent /\ Outside

(* The models are not ready, or the store refuses: later again.            *)
RequestFails ==
  /\ at \in {"stopped", "due"}
  /\ Go("idle")
  /\ UNCHANGED <<storeVars, intent>> /\ Outside

AckIntent ==
  /\ at = "requested"
  /\ intent' = Ack(held.marker)
  /\ Go("idle")
  /\ UNCHANGED storeVars /\ Outside

(* next_job, whose timer is a choice, with automatic_insight_ready.        *)
InsightDue ==
  /\ at = "idle"
  /\ \A j \in Jobs : ~(jobs[j].kind = "insight" /\ jobs[j].state \in Queued \cup Occupying)
  /\ Unconsumed # {}
  /\ Go("due")
  /\ UNCHANGED <<storeVars, intent>> /\ Outside

RequestInsight ==
  /\ at = "due" /\ Unconsumed # {}
  /\ \/ \E j \in Jobs : CreateJob(j, "insight", TRUE, InsightSnapshot(TRUE))
     \/ Existing("insight", InsightSnapshot(TRUE)) /\ UNCHANGED storeVars
  /\ Go("idle")
  /\ UNCHANGED intent /\ Outside

(* next_analysis_jobs: what is read here may have changed at the claim.    *)
PickJob(j) ==
  /\ at = "idle" /\ jobs[j].state \in Queued
  /\ at' = "picked" /\ held' = [job |-> j, attempt |-> jobs[j].attempt, marker |-> 0]
  /\ UNCHANGED <<storeVars, intent>> /\ Outside

Mine == jobs[held.job].attempt = held.attempt

(* wait_analysis_job (no permit) and fail_analysis_job (deadline passed in *)
(* the queue); a refused call changes nothing.                             *)
PostponeJob ==
  /\ at = "picked"
  /\ \/ /\ Mine /\ jobs[held.job].state \in Queued
        /\ SetState(held.job, "waiting")
     \/ /\ Mine /\ jobs[held.job].state \in Queued
        /\ SetState(held.job, "failed")
     \/ ~(Mine /\ jobs[held.job].state \in Queued) /\ UNCHANGED jobs
  /\ Go("idle")
  /\ UNCHANGED <<results, refused, intent>> /\ Outside

Claimable ==
  /\ Mine /\ jobs[held.job].state \in Queued
  /\ \A j \in Jobs : jobs[j].state \notin Occupying

(* claim_analysis_job: the budget may have run out in the queue, and the   *)
(* snapshot must be current still.                                         *)
ClaimJob ==
  /\ at = "picked"
  /\ \/ /\ Claimable
        /\ SnapshotCurrent(jobs[held.job].kind, jobs[held.job].snapshot)
        /\ SetState(held.job, "running")
        /\ Go("working")
     \/ /\ Mine /\ jobs[held.job].state \in Queued
        /\ SetState(held.job, "failed")
        /\ Go("idle")
     \/ /\ ~Claimable
        /\ UNCHANGED jobs
        /\ Go("idle")
  /\ UNCHANGED <<results, refused, intent>> /\ Outside

(* Mutant: a cancelled attempt may still finish. *)
RunningOrCancelling == Mine /\ jobs[held.job].state \in Occupying

(* running: the attempt, its state; its deadline is a choice.              *)
Running == Mine /\ jobs[held.job].state = "running"

(* execute ends with a result and finish_analysis_job stores it, all of it *)
(* or nothing.                                                             *)
FinishJob ==
  /\ at = "working" /\ Running
  /\ SnapshotCurrent(jobs[held.job].kind, jobs[held.job].snapshot)
  /\ \E complete \in {FALSE, jobs[held.job].snapshot.complete} :
       SetState(held.job, IF complete THEN "succeeded" ELSE "succeeded_partial")
  /\ results' = results \cup {<<held.job, held.attempt>>}
  /\ Go("idle")
  /\ UNCHANGED <<refused, intent>> /\ Outside

(* execute ends with an error, or the result is refused: too late, not     *)
(* running any more, not current any more, not valid.                      *)
ExecutionFails ==
  /\ at = "working" /\ Go("failing")
  /\ UNCHANGED <<storeVars, intent>> /\ Outside

(* fail_analysis_job *)
FailJob ==
  /\ at = "failing"
  /\ IF Mine /\ jobs[held.job].state \in Queued \cup {"running"}
     THEN SetState(held.job, "failed") ELSE UNCHANGED jobs
  /\ Go("idle")
  /\ UNCHANGED <<results, refused, intent>> /\ Outside

(* execute sees the request (every 200 ms) and ends the worker, then       *)
(* complete_analysis_cancel; nothing else touches the job meanwhile.       *)
CompleteCancel ==
  /\ at = "working"
  /\ IF Mine THEN /\ jobs[held.job].state = "cancel_requested"
                  /\ SetState(held.job, "cancelled")
     ELSE UNCHANGED jobs
  /\ Go("idle")
  /\ UNCHANGED <<results, refused, intent>> /\ Outside

(* execute is interrupted: captions need the resources, the operator's own *)
(* request goes first, or the application ends.  requeue_after_preemption  *)
(* queues the job again in the same call if it can; if the worker's end is *)
(* in doubt (or the application ends) the coordinator stops.               *)
Preempted ==
  /\ at = "working"
  /\ LET after == Interrupted(jobs[held.job].state) IN
     \/ /\ Mine /\ after = "interrupted" /\ jobs[held.job].attempt < MaxAttempts
        /\ SnapshotCurrent(jobs[held.job].kind, jobs[held.job].snapshot)
        /\ jobs' = Retried(held.job, "waiting")
        /\ Go("idle")
     \/ /\ jobs' = IF Mine THEN [jobs EXCEPT ![held.job].state = after] ELSE jobs
        /\ Go("idle")
     \/ /\ jobs' = IF Mine THEN [jobs EXCEPT ![held.job].state = after] ELSE jobs
        /\ at' = "ended" /\ held' = Nothing
  /\ UNCHANGED <<results, refused, intent>> /\ Outside

(* The process ends anywhere and starts again: recover_analysis_jobs at    *)
(* the opening of the store, interrupt_running_analysis_jobs by run_loop.  *)
Restart ==
  /\ jobs' = [j \in Jobs |-> [jobs[j] EXCEPT !.state = Interrupted(@)]]
  /\ Go("idle")
  /\ UNCHANGED <<results, refused, intent, stops, promised, audioVars>>

MeetingStep ==
  \/ \E p \in Places : Capture(p) \/ LoseAudio(p) \/ Correct(p)
  \/ \E p \in Places, outcome \in Outcomes : Recognise(p, outcome)
  \/ StopMeeting

OperatorStep == \E j \in Jobs : OperatorCreates(j) \/ OperatorCancels(j) \/ OperatorRetries(j)

CoordinatorStep ==
  \/ ReadIntent \/ AckEmpty \/ RequestMinutes \/ RequestFails \/ AckIntent
  \/ InsightDue \/ RequestInsight
  \/ \E j \in Jobs : PickJob(j)
  \/ PostponeJob \/ ClaimJob
  \/ FinishJob \/ ExecutionFails \/ FailJob
  \/ CompleteCancel \/ Preempted

Next == MeetingStep \/ OperatorStep \/ CoordinatorStep \/ Restart

Spec == Init /\ [][Next]_vars

----------------------------------------------------------------------------
TypeOK ==
  /\ audio \in [Places -> {"ahead", "lost", "pending", "text", "empty", "failed"}]
  /\ born \in [Places -> 0..MaxSeq]
  /\ seq \in 0..MaxSeq
  /\ jobs \in [Jobs -> Job]
  /\ results \subseteq Jobs \X (1..MaxAttempts)
  /\ refused \subseteq Jobs \X (1..MaxAttempts)
  /\ intent \in 0..MaxStops /\ stops \in 0..MaxStops
  /\ promised \subseteq Places
  /\ at \in {"idle", "stopped", "requested", "due", "picked", "working", "failing",
             "ended"}
  /\ held \in Held

(* No text is skipped: one that no automatic insight will look at as new   *)
(* any more is, as it stands, in the snapshot of an insight that has an    *)
(* artifact - however late it was recognised or corrected, whatever was    *)
(* cancelled, coalesced, preempted, retried or lost with the process.      *)
InsightsMissNothing ==
  \A p \in Texts : Consumed(born[p]) =>
    \E j \in Jobs : /\ jobs[j].kind = "insight"
                    /\ SourceOf(p) \in jobs[j].snapshot.sources
                    /\ \E a \in 1..MaxAttempts : <<j, a>> \in results

(* An attempt whose cancellation was accepted never has a result, however  *)
(* its worker's answer and the request cross.                              *)
CancelIsFinal == results \cap refused = {}

(* Every stop gets its minutes: once its intent is gone, a job exists with *)
(* everything that was captured at the stop.                               *)
StopIntentsServed ==
  intent = 0 /\ promised # {} =>
    \E j \in Jobs : /\ jobs[j].state # "absent" /\ jobs[j].kind = "minutes"
                    /\ promised \subseteq {i.place : i \in jobs[j].snapshot.sources}

(* "The host confirms that the process has exited, then the occupation is  *)
(* released" (README of forum-core on cancel_analysis_job): when the       *)
(* coordinator has no worker, no job occupies the queue.                   *)
OccupationReleased ==
  at = "idle" => \A j \in Jobs : jobs[j].state \notin Occupying

(* It takes a gap that "may arrive after snapshot creation" to make a      *)
(* snapshot out of date (snapshot_current): one made now is current now.   *)
FreshSnapshotsCurrent ==
  \A automatic \in BOOLEAN :
    SnapshotCurrent("insight", InsightSnapshot(automatic))
=============================================================================
