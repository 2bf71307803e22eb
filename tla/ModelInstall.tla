---------------------------- MODULE ModelInstall ----------------------------
(***************************************************************************)
(* hen-local-init, which downloads the models, and the application that    *)
(* starts it.  An installer takes a lock, finds the providers it can       *)
(* reach, clears what is not complete, and downloads what is missing file  *)
(* by file; it may die anywhere, and it outlives an application that is    *)
(* left.                                                                   *)
(*                                                                         *)
(* A file is what the providers it was written from are, and whether it is *)
(* whole.  Files that no readiness check names are left out, and so are    *)
(* the checks of paths.  A directory is removed at once: what remains of   *)
(* an incomplete one is not complete either.  The id of a process that     *)
(* died is not given to another one while its lock is there: the code      *)
(* would respect that lock for as long as the other one lives.             *)
(***************************************************************************)
EXTENDS Naturals, FiniteSets, Sequences

CONSTANTS
  Processes,    \* ids of processes
  Models,       \* bound: 1 is the translator, 2 the recogniser
  Files,        \* files of a model
  MaxAttempt,   \* MAX_DOWNLOAD_FILE_ATTEMPTS
  MaxFailures   \* bound: processes that die, requests that fail, restarts

ASSUME InstallAssumption ==
  /\ 0 \notin Processes /\ IsFiniteSet(Processes)
  /\ Models \in Nat \ {0} /\ Files \in Nat \ {0} /\ MaxAttempt \in Nat \ {0}
  /\ MaxFailures \in Nat

VARIABLES
  dir,        \* the directory of each model
  lock,       \* bootstrap.lock: who created it, and whether it holds its pid
  proc,       \* the installers
  child,      \* the process the application has a handle of
  failures,   \* counts what goes wrong
  overlapped \* history: two installers have worked at once

programVars == <<dir, lock, proc, child, failures>>
installVars == <<programVars, overlapped>>

Nobody == 0
NoFile == [whole |-> FALSE, from |-> {}]
NoDir == [file |-> [f \in 1 .. Files |-> NoFile], marker |-> FALSE]
NoLock == [by |-> Nobody, written |-> FALSE]
Over == [at |-> "over", round |-> 0, order |-> <<>>, ready |-> {}, model |-> 0, provider |-> 0,
         file |-> 0, attempt |-> 0]

Alive(p) == proc[p].at # "over"
Failure == failures < MaxFailures /\ failures' = failures + 1
Go(p, next) == proc' = [proc EXCEPT ![p] = next]

(* A file that is not empty counts as there.                               *)
Present(m, f) == dir[m].file[f].from # {}

(* asr_model_ready, qwen35_translation_model_ready                         *)
Ready(m) == \A f \in 1 .. Files : Present(m, f)
AllReady == \A m \in 1 .. Models : Ready(m)

----------------------------------------------------------------------------
(* The application.  It starts an installer unless the models are there or *)
(* one that it started still runs; leaving it ends no installer.           *)
StartDownload(p) ==
  /\ ~AllReady
  /\ ~(child # Nobody /\ Alive(child))
  /\ ~Alive(p) /\ lock.by # p
  /\ child' = p
  /\ Go(p, [Over EXCEPT !.at = "open"])
  /\ UNCHANGED <<dir, lock, failures>>

RestartApplication ==
  /\ child # Nobody /\ Failure
  /\ child' = Nobody
  /\ UNCHANGED <<dir, lock, proc>>

Dies(p) ==
  /\ Alive(p) /\ Failure
  /\ Go(p, Over)
  /\ UNCHANGED <<dir, lock, child>>

----------------------------------------------------------------------------
(* acquire_bootstrap_lock: the file is created, and then its pid written;  *)
(* one whose process runs is respected, any other removed, twice at most.  *)
OpenLock(p) ==
  /\ proc[p].at = "open"
  /\ \/ /\ lock.by = Nobody
        /\ lock' = [by |-> p, written |-> FALSE]
        /\ Go(p, [proc[p] EXCEPT !.at = "write"])
     \/ /\ lock.by # Nobody
        /\ Go(p, [proc[p] EXCEPT !.at = "inspect"])
        /\ UNCHANGED lock
  /\ UNCHANGED <<dir, child, failures>>

(* The pid goes into the file that was created, which may be gone.         *)
WritePid(p) ==
  /\ proc[p].at = "write"
  /\ lock' = IF lock.by = p THEN [lock EXCEPT !.written = TRUE] ELSE lock
  /\ Go(p, [proc[p] EXCEPT !.at = "probe"])
  /\ UNCHANGED <<dir, child, failures>>

(* Mutant: a lock that cannot be read is respected                         *)
ActiveUnlessRead == lock.by # Nobody /\ (~lock.written \/ Alive(lock.by))

Active == lock.by # Nobody /\ lock.written /\ Alive(lock.by)

InspectLock(p) ==
  /\ proc[p].at = "inspect"
  /\ Go(p, IF Active THEN Over ELSE [proc[p] EXCEPT !.at = "remove"])
  /\ UNCHANGED <<dir, lock, child, failures>>

RemoveLock(p) ==
  /\ proc[p].at = "remove"
  /\ lock' = NoLock
  /\ Go(p, IF lock.by = Nobody \/ proc[p].round = 1 THEN Over
           ELSE [proc[p] EXCEPT !.at = "open", !.round = 1])
  /\ UNCHANGED <<dir, child, failures>>

(* main returns, with an error or without: the lock file is removed,       *)
(* whoever's it is.                                                        *)
Return(p) ==
  /\ proc[p].at = "return"
  /\ lock' = NoLock
  /\ Go(p, Over)
  /\ UNCHANGED <<dir, child, failures>>

----------------------------------------------------------------------------
(* providers_from_env: those that answer, ModelScope first.                *)
Orders == {<<"modelscope", "huggingface">>, <<"modelscope">>, <<"huggingface">>}

Probe(p) ==
  /\ proc[p].at = "probe"
  /\ \/ /\ Go(p, [proc[p] EXCEPT !.at = "ensure", !.model = 1,
                   !.order = <<"modelscope", "huggingface">>])
        /\ UNCHANGED failures
     \/ \E o \in Orders : Failure /\ Go(p, [proc[p] EXCEPT !.at = "ensure", !.model = 1, !.order = o])
     \/ Failure /\ Go(p, [proc[p] EXCEPT !.at = "return"])
  /\ UNCHANGED <<dir, lock, child>>

(* The first model that is not ready is downloaded, file by file.          *)
Download(state, m) ==
  LET missing == {n \in m .. Models : n \notin state.ready}
  IN IF missing = {} THEN [state EXCEPT !.at = "return"]
     ELSE [state EXCEPT !.at = "fetch", !.provider = 1, !.file = 1, !.attempt = 1,
             !.model = CHOOSE n \in missing : \A o \in missing : n <= o]

(* ensure_model_dir_ready: a directory that is complete gets its marker,   *)
(* any other is removed.                                                   *)
Ensure(p) ==
  /\ proc[p].at = "ensure"
  /\ LET m == proc[p].model
         checked == IF Ready(m) THEN [proc[p] EXCEPT !.ready = @ \cup {m}] ELSE proc[p]
     IN /\ dir' = [dir EXCEPT ![m] = IF Ready(m) THEN [@ EXCEPT !.marker = TRUE] ELSE NoDir]
        /\ Go(p, IF m < Models THEN [checked EXCEPT !.model = @ + 1] ELSE Download(checked, 1))
  /\ UNCHANGED <<lock, child, failures>>

(* Mutant: the files of the first provider are kept for the next           *)
KeptForNext(m) == dir[m]

(* What is left of a model for the next provider.                          *)
LeftForNext(m) == NoDir

(* run_with_provider_fallback                                              *)
GiveUp(p) ==
  LET q == [proc[p] EXCEPT !.at = "fetch"]
  IN IF q.provider < Len(q.order)
     THEN /\ Go(p, [q EXCEPT !.provider = @ + 1, !.file = 1, !.attempt = 1])
          /\ dir' = [dir EXCEPT ![q.model] = LeftForNext(q.model)]
     ELSE Go(p, [q EXCEPT !.at = "return"]) /\ UNCHANGED dir

Written(p, whole) ==
  LET m == proc[p].model
      old == dir[m].file[proc[p].file]
  IN [dir EXCEPT ![m].file[proc[p].file] =
        [whole |-> whole, from |-> old.from \cup {proc[p].order[proc[p].provider]}]]

AtFile(p) == proc[p].at = "fetch" /\ proc[p].file <= Files
NextFile(p) == [proc[p] EXCEPT !.file = @ + 1, !.attempt = 1]

(* A file that is not empty is skipped at the first attempt; a later one   *)
(* asks for the rest of it.                                                *)
Skip(p) ==
  /\ AtFile(p) /\ proc[p].attempt = 1 /\ Present(proc[p].model, proc[p].file)
  /\ Go(p, NextFile(p))
  /\ UNCHANGED <<dir, lock, child, failures>>

(* The body arrives: some of it, and then the rest.                        *)
FirstBytes(p) ==
  /\ AtFile(p) /\ ~Present(proc[p].model, proc[p].file)
  /\ dir' = Written(p, FALSE)
  /\ Go(p, [proc[p] EXCEPT !.at = "body"])
  /\ UNCHANGED <<lock, child, failures>>

Resume(p) ==
  /\ AtFile(p) /\ proc[p].attempt > 1 /\ Present(proc[p].model, proc[p].file)
  /\ Go(p, [proc[p] EXCEPT !.at = "body"])
  /\ UNCHANGED <<dir, lock, child, failures>>

LastBytes(p) ==
  /\ proc[p].at = "body"
  /\ dir' = Written(p, TRUE)
  /\ Go(p, [NextFile(p) EXCEPT !.at = "fetch"])
  /\ UNCHANGED <<lock, child, failures>>

(* download_file fails, before the body or within; it is tried again, or   *)
(* not if the provider refused.                                            *)
RequestFails(p) ==
  /\ AtFile(p) \/ proc[p].at = "body"
  /\ Failure
  /\ \/ /\ proc[p].attempt < MaxAttempt
        /\ Go(p, [proc[p] EXCEPT !.at = "fetch", !.attempt = @ + 1])
        /\ UNCHANGED dir
     \/ GiveUp(p)
  /\ UNCHANGED <<lock, child>>

(* All files are there: the model is checked and marked, the next follows. *)
Finish(p) ==
  /\ proc[p].at = "fetch" /\ proc[p].file > Files
  /\ IF Ready(proc[p].model)
     THEN /\ dir' = [dir EXCEPT ![proc[p].model].marker = TRUE]
          /\ Go(p, Download(proc[p], proc[p].model + 1))
     ELSE GiveUp(p)
  /\ UNCHANGED <<lock, child, failures>>

----------------------------------------------------------------------------
InstallInit ==
  /\ dir = [m \in 1 .. Models |-> NoDir]
  /\ lock = NoLock
  /\ proc = [p \in Processes |-> Over]
  /\ child = Nobody
  /\ failures = 0
  /\ overlapped = FALSE

Installer(p) ==
  \/ OpenLock(p) \/ WritePid(p) \/ InspectLock(p) \/ RemoveLock(p) \/ Return(p)
  \/ Probe(p) \/ Ensure(p)
  \/ Skip(p) \/ FirstBytes(p) \/ Resume(p) \/ LastBytes(p) \/ Finish(p)

AnyInstaller == \E p \in Processes : Installer(p)
Asker == \E p \in Processes : StartDownload(p)

Working == {p \in Processes : proc[p].at \in {"probe", "ensure", "fetch", "body", "return"}}

InstallNext ==
  /\ \/ AnyInstaller \/ Asker \/ RestartApplication
     \/ \E p \in Processes : Dies(p) \/ RequestFails(p)
  /\ overlapped' = (overlapped \/ Cardinality(Working') > 1)

(* An installer runs on, and the operator asks again for what is missing.  *)
InstallFairness ==
  (\A p \in Processes : WF_programVars(Installer(p))) /\ WF_programVars(Asker)

InstallSpec == InstallInit /\ [][InstallNext]_installVars /\ InstallFairness

----------------------------------------------------------------------------
InstallTypeOK ==
  /\ \A m \in 1 .. Models : dir[m].marker \in BOOLEAN
  /\ lock.by \in Processes \cup {Nobody}
  /\ child \in Processes \cup {Nobody}

(* A second installer is turned away while one works.                      *)
OneInstaller == Cardinality(Working) <= 1

(* A model that is marked complete comes from one provider, and no file of *)
(* it is cut off but the last that the readiness check names: an installer *)
(* that dies in that file leaves what the next one takes for complete.     *)
(* Only installers that worked at once can do worse.                       *)
MarkedIsSound ==
  \A m \in 1 .. Models :
    dir[m].marker /\ ~overlapped =>
      /\ Cardinality(UNION {dir[m].file[f].from : f \in 1 .. Files}) = 1
      /\ \A f \in 1 .. Files - 1 : dir[m].file[f].whole

(* Whatever dies, fails or is left half-done, in the end all models are    *)
(* there, for an operator who asks again.                                  *)
InstallCompletes == <>[]AllReady
=============================================================================
