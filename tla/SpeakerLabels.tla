---------------------------- MODULE SpeakerLabels ----------------------------
(***************************************************************************)
(* The optional analysis of voices: a background thread reads the texts of *)
(* a session page by page, has a worker process listen to the recording of *)
(* each, and asks the core to label it.  The operator turns the analysis   *)
(* on and off and labels texts himself while texts arrive and are          *)
(* corrected; the application may be left at any time.                     *)
(*                                                                         *)
(* One session.  Segments are numbered in the order of the pages.  The     *)
(* audio, the voice vectors and their clusters are left out: which label   *)
(* a text gets is not modelled, only that it gets one and from whom.       *)
(***************************************************************************)
EXTENDS Naturals, FiniteSets, SequencesExt

CONSTANTS
  MaxSegment,     \* segments of the session
  Page,           \* texts of a page (100)
  MaxFailed,      \* failures that end an analysis (10 000)
  MaxSeq,         \* bound: events the ledger takes
  MaxRevision,    \* bound: labels of one segment
  MaxGeneration,  \* bound: times the analysis is turned on or off
  MaxAccidents    \* bound: failures, refusals and time-outs

VARIABLES
  log,         \* the ledger: segments captured, recognised and corrected, in order
  label,       \* speaker_assignments
  generation,  \* counts what the operator asked for
  enabled,     \* SpeakerStatus.enabled, under the lock of the status
  stopped,     \* the application is being left
  contained,   \* no worker process is left that did not end
  pending,     \* commits handed to the core
  asking,      \* an enable() between its checks and the lock
  commits,     \* commits in the channel of the core
  holder,      \* the first of them holds the lock of the status
  worker       \* the local variables of run_loop

vars == <<log, label, generation, enabled, stopped, contained, pending, asking, commits, holder,
          worker>>
ledgerVars == <<log, label>>
switchVars == <<generation, enabled, stopped, asking>>
commitVars == <<pending, commits, holder>>

Segments == 1 .. MaxSegment
None == 0

----------------------------------------------------------------------------
(* What a page is read from: the ledger as it was at a place of its log.   *)
CapturedBy(c) == {s \in Segments : \E i \in 1 .. c : log[i] = [segment |-> s, kind |-> "captured"]}
RevisionsAt(s, c) == {i \in 1 .. c : log[i].segment = s /\ log[i].kind # "captured"}
RevisionAt(s, c) == Cardinality(RevisionsAt(s, c))
HasText(s, c) ==
  RevisionsAt(s, c) # {} /\ log[Max(RevisionsAt(s, c))].kind = "success"

Current(s) == RevisionAt(s, Len(log))

(* snapshot_page: the segments after a key, as of the cursor               *)
PageOf(c, after) ==
  LET behind == SetToSortSeq({s \in CapturedBy(c) : s > after}, <)
  IN SubSeq(behind, 1, Min({Page, Len(behind)}))

(* list_speaker_assignments marks what was made from the current text.     *)
Labelled(s) == label[s].revision > 0 /\ (label[s].human \/ label[s].source = Current(s))

Interrupted(g) == stopped \/ generation # g
Unlocked == ~holder
Accident == worker.accidents < MaxAccidents
Counted == [worker EXCEPT !.accidents = @ + 1]

----------------------------------------------------------------------------
(* Texts arrive and are corrected; the operator labels a text.  The core   *)
(* does one thing at a time.                                               *)
Capture(s) ==
  /\ Unlocked /\ Len(log) < MaxSeq /\ s \notin CapturedBy(Len(log))
  /\ log' = Append(log, [segment |-> s, kind |-> "captured"])
  /\ UNCHANGED <<label, switchVars, contained, commitVars, worker>>

Final(s, kind) ==
  /\ Unlocked /\ Len(log) < MaxSeq /\ s \in CapturedBy(Len(log))
  /\ log' = Append(log, [segment |-> s, kind |-> kind])
  /\ UNCHANGED <<label, switchVars, contained, commitVars, worker>>

(* apply_assignment: the text must be current and the label the one known  *)
Conflicts(c) ==
  \/ Current(c.segment) # c.source \/ ~HasText(c.segment, Len(log))
  \/ label[c.segment].revision # c.expected
  \/ ~c.human /\ label[c.segment].human

Assign(c) ==
  label' = [label EXCEPT ![c.segment] =
    [source |-> c.source, revision |-> @.revision + 1, human |-> c.human, by |-> c.by]]

Correct(s) ==
  LET c == [segment |-> s, source |-> Current(s), expected |-> label[s].revision, human |-> TRUE,
            by |-> 0]
  IN /\ Unlocked /\ label[s].revision < MaxRevision /\ ~Conflicts(c)
     /\ Assign(c)
     /\ UNCHANGED <<log, switchVars, contained, commitVars, worker>>

----------------------------------------------------------------------------
(* The operator turns the analysis on: its checks, a call to the core that *)
(* the session exists, and then the lock.  And off, and leaves.            *)
Ask ==
  /\ ~stopped /\ contained /\ ~asking /\ generation < MaxGeneration
  /\ asking' = TRUE
  /\ UNCHANGED <<ledgerVars, generation, enabled, stopped, contained, commitVars, worker>>

Enable ==
  /\ asking /\ Unlocked
  /\ asking' = FALSE /\ generation' = generation + 1 /\ enabled' = TRUE
  /\ UNCHANGED <<ledgerVars, stopped, contained, commitVars, worker>>

Disable ==
  /\ enabled /\ Unlocked
  /\ generation' = generation + 1 /\ enabled' = FALSE
  /\ UNCHANGED <<ledgerVars, stopped, asking, contained, commitVars, worker>>

Shutdown ==
  /\ ~stopped
  /\ stopped' = TRUE /\ generation' = generation + 1
  /\ UNCHANGED <<ledgerVars, enabled, asking, contained, commitVars, worker>>

\* Mutant: commits in the channel are not waited for
ShutdownCompleteWhenGone == contained /\ worker.at = "gone"

ShutdownComplete == contained /\ pending = 0 /\ worker.at = "gone"

----------------------------------------------------------------------------
(* run_loop.  A round: the generation, then the status, then a page with   *)
(* the labels of its texts in one call, then the texts of the page.        *)
Round(w) == [w EXCEPT !.at = "top", !.page = <<>>]
Restart(w) == [Round(w) EXCEPT !.after = None, !.cursor = None]
\* Mutant: every scan is of the first place that was looked at
LastPageDoneAgain(w) == Round(w)

(* At the end of the last page the next one is read from a new place.      *)
LastPageDone(w) == IF w.after = None THEN Restart(w) ELSE Round(w)

Start ==
  /\ worker.at = "top" /\ ~stopped
  /\ worker' = [worker EXCEPT !.at = "look", !.mine = generation]
  /\ UNCHANGED <<ledgerVars, switchVars, contained, commitVars>>

Leave ==
  /\ worker.at = "top" /\ stopped /\ Unlocked
  /\ worker' = [worker EXCEPT !.at = "gone"]
  /\ enabled' = FALSE
  /\ UNCHANGED <<ledgerVars, generation, stopped, asking, contained, commitVars>>

Look ==
  /\ worker.at = "look" /\ Unlocked
  /\ LET fresh == [worker EXCEPT !.seen = worker.mine, !.failed = {}, !.after = None,
                                 !.cursor = None]
     IN worker' = IF ~enabled THEN Round(worker)
                  ELSE [(IF worker.mine = worker.seen THEN worker ELSE fresh) EXCEPT !.at = "read"]
  /\ UNCHANGED <<ledgerVars, switchVars, contained, commitVars>>

(* The candidates of a page: successful texts of the place the scan is of  *)
(* that have no label now and have not failed.                             *)
Candidate(s, c) == [segment |-> s, source |-> RevisionAt(s, c), expected |-> label[s].revision]

Read ==
  /\ worker.at = "read" /\ Unlocked
  /\ LET c == IF worker.cursor = None THEN Len(log) ELSE worker.cursor
         items == PageOf(c, worker.after)
         wanted(s) == /\ HasText(s, c) /\ <<s, RevisionAt(s, c)>> \notin worker.failed
                      /\ ~Labelled(s)
         texts == SelectSeq(items, wanted)
     IN worker' = [worker EXCEPT !.at = "scan", !.cursor = c,
                     !.after = IF Len(items) = Page THEN items[Page] ELSE None,
                     !.page = [i \in DOMAIN texts |-> Candidate(texts[i], c)]]
  /\ UNCHANGED <<ledgerVars, switchVars, contained, commitVars>>

(* The model files are missing, or the page cannot be read: later again.   *)
ReadFails ==
  /\ worker.at = "read" /\ Accident
  /\ worker' = Round(Counted)
  /\ UNCHANGED <<ledgerVars, switchVars, contained, commitVars>>

EndOfPage ==
  /\ worker.at = "scan"
  /\ worker.page = <<>> \/ Interrupted(worker.mine)
  /\ worker' = LastPageDone(worker)
  /\ UNCHANGED <<ledgerVars, switchVars, contained, commitVars>>

(* The budget admits a background process or refuses it: then all over.    *)
Admit ==
  /\ worker.at = "scan" /\ worker.page # <<>> /\ ~Interrupted(worker.mine)
  /\ \/ worker' = [worker EXCEPT !.at = "running"]
     \/ Accident /\ worker' = Restart(Counted)
  /\ UNCHANGED <<ledgerVars, switchVars, contained, commitVars>>

ThisOne == Head(worker.page)
NextOne(w) == [w EXCEPT !.at = "scan", !.page = Tail(@)]

(* A text whose analysis failed is left alone, and too many of them end    *)
(* the analysis; a cancelled one is not counted.                           *)
Failed(w) ==
  LET f == [w EXCEPT !.failed = @ \cup {<<ThisOne.segment, ThisOne.source>>}]
      over == Cardinality(f.failed) >= MaxFailed
  IN IF Interrupted(w.mine)
     THEN worker' = LastPageDone(w) /\ UNCHANGED enabled
     ELSE /\ worker' = IF over THEN LastPageDone(f) ELSE NextOne(f)
          /\ enabled' = (enabled /\ ~over)

(* process_candidate: the worker process ends in time with a result, which *)
(* goes to the core unless it is no longer wanted ...                      *)
Submit ==
  /\ worker.at = "running"
  /\ IF Interrupted(worker.mine)
     THEN worker' = LastPageDone(worker) /\ UNCHANGED commitVars
     ELSE /\ pending' = pending + 1
          /\ commits' = Append(commits, [segment |-> ThisOne.segment,
                 source |-> ThisOne.source, expected |-> ThisOne.expected,
                 human |-> FALSE, by |-> worker.mine])
          /\ worker' = [worker EXCEPT !.at = "commit", !.done = FALSE]
          /\ UNCHANGED holder
  /\ UNCHANGED <<ledgerVars, switchVars, contained>>

(* ... or it fails, also because the core takes no more; or gives way to a *)
(* meeting; or does not end, and this thread ends instead.                 *)
RunFails ==
  /\ worker.at = "running" /\ Accident /\ Unlocked
  /\ Failed(Counted)
  /\ UNCHANGED <<ledgerVars, generation, stopped, asking, contained, commitVars>>

Yield ==
  /\ worker.at = "running" /\ Accident
  /\ worker' = IF Interrupted(worker.mine) THEN LastPageDone(Counted) ELSE Restart(Counted)
  /\ UNCHANGED <<ledgerVars, switchVars, contained, commitVars>>

Uncontained ==
  /\ worker.at = "running" /\ Accident /\ Unlocked
  /\ worker' = [Counted EXCEPT !.at = "gone"]
  /\ contained' = FALSE /\ enabled' = FALSE
  /\ UNCHANGED <<ledgerVars, generation, stopped, asking, commitVars>>

(* The answer of the core, or its time is up while the commit waits.       *)
Answered ==
  /\ worker.at = "commit" /\ commits = <<>>
  /\ \/ /\ worker.done
        /\ worker' = IF Interrupted(worker.mine) THEN LastPageDone(worker) ELSE NextOne(worker)
        /\ UNCHANGED enabled
     \/ ~worker.done /\ Failed(worker)
  /\ UNCHANGED <<ledgerVars, generation, stopped, asking, contained, commitVars>>

TimedOut ==
  /\ worker.at = "commit" /\ Accident /\ Unlocked /\ commits # <<>>
  /\ Failed(Counted)
  /\ UNCHANGED <<ledgerVars, generation, stopped, asking, contained, commitVars>>

----------------------------------------------------------------------------
(* The core carries out a commit under the lock of the status, so that     *)
(* disable() and enable() come before it or after it; leaving does not     *)
(* take the lock.                                                          *)
\* Mutant: only the thread itself looks, before it hands the commit over
WantedWhenSubmitted(c) == TRUE

Wanted(c) == ~Interrupted(c.by) /\ enabled

(* The thread still waits for this one, and not for a later one.           *)
Awaited == worker.at = "commit" /\ Len(commits) = 1

Begin ==
  /\ commits # <<>> /\ ~holder
  /\ IF Wanted(Head(commits))
     THEN holder' = TRUE /\ UNCHANGED <<commits, pending>>
     ELSE commits' = Tail(commits) /\ pending' = pending - 1 /\ UNCHANGED holder
  /\ UNCHANGED <<ledgerVars, switchVars, contained, worker>>

Commit ==
  /\ holder
  /\ IF Conflicts(Head(commits))
     THEN UNCHANGED <<label, worker>>
     ELSE /\ Assign(Head(commits))
          /\ worker' = [worker EXCEPT !.done = @ \/ Awaited]
  /\ commits' = Tail(commits) /\ pending' = pending - 1 /\ holder' = FALSE
  /\ UNCHANGED <<log, switchVars, contained>>

----------------------------------------------------------------------------
Init ==
  /\ log = <<>>
  /\ label = [s \in Segments |-> [source |-> 0, revision |-> 0, human |-> FALSE, by |-> 0]]
  /\ generation = 0 /\ enabled = FALSE /\ stopped = FALSE /\ contained = TRUE
  /\ pending = 0 /\ asking = FALSE /\ commits = <<>> /\ holder = FALSE
  /\ worker = [at |-> "top", mine |-> None, seen |-> MaxGeneration + 9, failed |-> {},
               after |-> None, cursor |-> None, page |-> <<>>,
             done |-> FALSE, accidents |-> 0]

Thread ==
  \/ Start \/ Leave \/ Look \/ Read \/ EndOfPage \/ Admit \/ Submit \/ Answered

Core == Begin \/ Commit

Mishap == ReadFails \/ RunFails \/ Yield \/ Uncontained \/ TimedOut

Operator ==
  \/ \E s \in Segments : Capture(s) \/ Final(s, "success") \/ Final(s, "failed") \/ Correct(s)
  \/ Ask \/ Enable \/ Disable \/ Shutdown

Next == Thread \/ Core \/ Mishap \/ Operator

(* The thread and the core go on; a worker process ends or is given up     *)
(* after 30 seconds.  A pause is a round of the loop that changes nothing. *)
Fairness == WF_vars(Thread) /\ WF_vars(Core)

Spec == Init /\ [][Next]_vars /\ Fairness

----------------------------------------------------------------------------
TypeOK ==
  /\ log \in Seq([segment : Segments, kind : {"captured", "success", "failed"}])
  /\ label \in [Segments -> [source : Nat, revision : Nat, human : BOOLEAN, by : Nat]]
  /\ {generation, pending} \subseteq Nat
  /\ {enabled, stopped, contained, asking, holder} \subseteq BOOLEAN
  /\ commits \in Seq([segment : Segments, source : Nat, expected : Nat, human : {FALSE},
                      by : Nat])
  /\ worker.at \in {"top", "look", "read", "scan", "running", "commit", "gone"}
  /\ holder => commits # <<>>

(* The analysis labels a text only while it is on, or is being left in the *)
(* middle of it; a label is of the analysis that is on, not of one that    *)
(* was turned off while its result was under way; it is of the current     *)
(* text; and it never replaces the label of a person.                      *)
LabelsWelcome ==
  [][\A s \in Segments :
       label'[s] # label[s] /\ ~label'[s].human =>
         /\ enabled /\ (label'[s].by = generation \/ stopped)
         /\ label'[s].source = Current(s)
         /\ ~label[s].human]_vars

(* When the end of the analysis is reported, nothing of it is left for the *)
(* core to do; and it is reported, unless a process did not end.           *)
ShutdownReleases ==
  /\ [](ShutdownComplete => commits = <<>>)
  /\ (stopped /\ contained) ~> (ShutdownComplete \/ ~contained)

(* While the analysis is on, every text is labelled in the end or has      *)
(* failed, whatever arrived behind the place a page was read from.         *)
LabelsSettle ==
  <>[](enabled /\ contained /\ ~stopped =>
        \A s \in Segments :
          \/ ~HasText(s, Len(log)) \/ Labelled(s)
          \/ <<s, Current(s)>> \in worker.failed)
=============================================================================
