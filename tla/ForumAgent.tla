----------------------------- MODULE ForumAgent -----------------------------
(***************************************************************************)
(* The meetings of the Python forum agent: the session manager with its    *)
(* lock, the thread of a session that feeds audio into a pipeline, the two *)
(* workers of every pipeline, and the files of the room, which each new    *)
(* meeting moves into an archive and starts afresh.                        *)
(*                                                                         *)
(* One room.  A line of the transcript is the meeting it was said in and   *)
(* its number.  Partial subtitles are left out, they reach no file; so are *)
(* the insights and the minutes; so is that two archives whose last lines  *)
(* are of the same second get one name, and the files of the later replace *)
(* those of the earlier.  An append follows its check of `closed' at once, *)
(* and an archive is moved at once.                                        *)
(***************************************************************************)
EXTENDS Naturals, FiniteSets, Sequences

CONSTANTS
  MaxMeeting,  \* bound: sessions and uploads
  MaxFinal,    \* bound: utterances of one of them
  MaxAccidents \* bound: waits whose time is up, sessions that fail, restarts

ASSUME AgentAssumption ==
  MaxMeeting \in Nat /\ MaxFinal \in Nat /\ MaxAccidents \in Nat

VARIABLES
  live,      \* the files of the room: lines of the transcript, lines translated
  archives,  \* data/sessions, oldest first
  owner,     \* the meeting whose pipeline created the live files
  thread,    \* SessionManager._thread; 0: None
  op,        \* the call that holds _op_lock
  pipe,      \* of each meeting: its thread, its pipeline and its workers
  accidents  \* counts time-outs, failures and restarts

agentVars == <<live, archives, owner, thread, op, pipe, accidents>>
fileVars == <<live, archives, owner>>

Meetings == 1 .. MaxMeeting
Line == Meetings \X (1 .. MaxFinal)
Empty == [said |-> {}, translated |-> {}]
NoCall == [kind |-> "none", at |-> "none", was |-> FALSE, upload |-> 0]

(* _run: absent, started, feeding, idle and drain (the two waits of        *)
(* _drain_and_close), over.  The recogniser: top and get (of its loop),    *)
(* work, look (the queue may be empty), set (the flag), gone.              *)
NoPipe == [at |-> "absent", stop |-> FALSE, fed |-> 0, taken |-> 0, asr |-> "gone",
           idle |-> TRUE, waiting |-> <<>>, translating |-> 0, closed |-> FALSE,
           written |-> {}]

Alive(m) == pipe[m].at \notin {"absent", "over"}
Running == thread # 0 /\ Alive(thread)
Fresh == {m \in Meetings : pipe[m].at = "absent" /\ \A o \in 1 .. m - 1 : pipe[o].at # "absent"}
Accident == accidents < MaxAccidents /\ accidents' = accidents + 1

----------------------------------------------------------------------------
(* archive_live moves the files away, if anything was said.                *)
Archived == IF live.said = {} THEN archives ELSE Append(archives, live)
LeftLive == IF live.said = {} THEN live ELSE Empty

(* stop(): the thread is told and waited for, 90 seconds at most.          *)
BeginStop(kind) ==
  /\ op = NoCall
  /\ op' = [NoCall EXCEPT !.kind = kind, !.at = "join", !.was = Running]
  /\ pipe' = IF thread = 0 THEN pipe ELSE [pipe EXCEPT ![thread].stop = TRUE]
  /\ UNCHANGED <<fileVars, thread, accidents>>

(* Mutant: a thread that does not end is given up                          *)
GivenUp == 0

(* A meeting whose thread does not end goes on, in the live files.         *)
StuckThread == thread

JoinTimedOut ==
  /\ op.at = "join" /\ Running /\ Accident
  /\ op' = NoCall
  /\ thread' = StuckThread
  /\ UNCHANGED <<fileVars, pipe>>

ThreadJoined ==
  /\ op.at = "join" /\ ~Running
  /\ thread' = 0
  /\ IF op.was THEN archives' = Archived /\ live' = LeftLive ELSE UNCHANGED <<archives, live>>
  /\ op' = IF op.kind = "start" THEN [op EXCEPT !.at = "start"] ELSE NoCall
  /\ UNCHANGED <<owner, pipe, accidents>>

(* start(): what a session that ended by itself left is archived, and the  *)
(* new one gets a thread.                                                  *)
Start(m) ==
  /\ op.at = "start" /\ m \in Fresh
  /\ archives' = Archived /\ live' = LeftLive
  /\ thread' = m /\ op' = NoCall
  /\ pipe' = [pipe EXCEPT ![m].at = "started"]
  /\ UNCHANGED <<owner, accidents>>

(* ingest(): an upload runs through a pipeline while the lock is held.     *)
Ingest(m) ==
  /\ op = NoCall /\ ~Running /\ m \in Fresh
  /\ archives' = Archived /\ live' = LeftLive
  /\ op' = [NoCall EXCEPT !.kind = "ingest", !.at = "run", !.upload = m]
  /\ pipe' = [pipe EXCEPT ![m].at = "started"]
  /\ UNCHANGED <<owner, thread, accidents>>

(* It is archived when it is done, unless it raised.                       *)
Ingested ==
  /\ op.at = "run" /\ ~Alive(op.upload)
  /\ op' = NoCall
  /\ IF pipe[op.upload].closed THEN archives' = Archived /\ live' = LeftLive
     ELSE UNCHANGED <<archives, live>>
  /\ UNCHANGED <<owner, thread, pipe, accidents>>

----------------------------------------------------------------------------
(* The thread of a session.  A pipeline starts with empty files and its    *)
(* two workers.                                                            *)
Open(m) ==
  /\ pipe[m].at = "started"
  /\ live' = Empty /\ owner' = m
  /\ pipe' = [pipe EXCEPT ![m].at = "feeding", ![m].asr = "top"]
  /\ UNCHANGED <<archives, thread, op, accidents>>

(* A file that is not there, a model or a device that fails: the exception *)
(* ends the thread, and nobody closes the pipeline.                        *)
Fails(m) ==
  /\ pipe[m].at \in {"started", "feeding"} /\ Accident
  /\ pipe' = [pipe EXCEPT ![m].at = "over"]
  /\ UNCHANGED <<fileVars, thread, op>>

Submitted(p) == [p EXCEPT !.fed = @ + 1, !.idle = FALSE]

Feed(m) ==
  /\ pipe[m].at = "feeding" /\ ~pipe[m].stop /\ pipe[m].fed < MaxFinal
  /\ pipe' = [pipe EXCEPT ![m] = Submitted(@)]
  /\ UNCHANGED <<fileVars, thread, op, accidents>>

(* Stopped, or at the end of the file, perhaps in the middle of a word.    *)
EndFeed(m) ==
  /\ pipe[m].at = "feeding"
  /\ \/ pipe' = [pipe EXCEPT ![m].at = "idle"]
     \/ /\ pipe[m].fed < MaxFinal
        /\ pipe' = [pipe EXCEPT ![m] = [Submitted(@) EXCEPT !.at = "idle"]]
  /\ UNCHANGED <<fileVars, thread, op, accidents>>

(* _drain_and_close: the recogniser says it is idle, nothing waits for the *)
(* translator, or the time is up; then the workers are told to end.        *)
Idle(m) ==
  /\ pipe[m].at = "idle"
  /\ \/ pipe[m].idle /\ UNCHANGED accidents
     \/ ~pipe[m].idle /\ Accident
  /\ pipe' = [pipe EXCEPT ![m].at = "drain"]
  /\ UNCHANGED <<fileVars, thread, op>>

Drained(m) ==
  /\ pipe[m].at = "drain"
  /\ \/ pipe[m].waiting = <<>> /\ UNCHANGED accidents
     \/ pipe[m].waiting # <<>> /\ Accident
  /\ pipe' = [pipe EXCEPT ![m].at = "over", ![m].closed = TRUE]
  /\ UNCHANGED <<fileVars, thread, op>>

----------------------------------------------------------------------------
(* The recogniser looks at `closed' once in a round only.                  *)
AsrTop(m) ==
  /\ pipe[m].asr = "top"
  /\ pipe' = [pipe EXCEPT ![m].asr = IF pipe[m].closed THEN "gone" ELSE "get"]
  /\ UNCHANGED <<fileVars, thread, op, accidents>>

AsrGet(m) ==
  /\ pipe[m].asr = "get"
  /\ pipe' = IF pipe[m].taken < pipe[m].fed
             THEN [pipe EXCEPT ![m].asr = "work", ![m].taken = @ + 1]
             ELSE [pipe EXCEPT ![m].asr = "top"]
  /\ UNCHANGED <<fileVars, thread, op, accidents>>

(* on_final: a line for the transcript and for the translator, or nothing. *)
OnFinal(m) ==
  /\ pipe[m].asr = "work"
  /\ \/ /\ live' = [live EXCEPT !.said = @ \cup {<<m, pipe[m].taken>>}]
        /\ pipe' = [pipe EXCEPT ![m].asr = "look",
             ![m].waiting = Append(@, pipe[m].taken),
             ![m].written = IF Alive(m) THEN @ \cup {<<m, pipe[m].taken>>} ELSE @]
     \/ pipe' = [pipe EXCEPT ![m].asr = "look"] /\ UNCHANGED live
  /\ UNCHANGED <<archives, owner, thread, op, accidents>>

(* The queue is empty, and then the flag is set: an utterance that was     *)
(* submitted between the two is not seen.                                  *)
AsrLook(m) ==
  /\ pipe[m].asr = "look"
  /\ pipe' = [pipe EXCEPT ![m].asr = IF pipe[m].taken = pipe[m].fed THEN "set" ELSE "top"]
  /\ UNCHANGED <<fileVars, thread, op, accidents>>

AsrSet(m) ==
  /\ pipe[m].asr = "set"
  /\ pipe' = [pipe EXCEPT ![m].asr = "top", ![m].idle = TRUE]
  /\ UNCHANGED <<fileVars, thread, op, accidents>>

(* The translator: the result of a closed pipeline is dropped.             *)
Take(m) ==
  /\ ~pipe[m].closed /\ pipe[m].translating = 0 /\ pipe[m].waiting # <<>>
  /\ pipe' = [pipe EXCEPT ![m].translating = Head(pipe[m].waiting), ![m].waiting = Tail(@)]
  /\ UNCHANGED <<fileVars, thread, op, accidents>>

Translated(m) ==
  /\ pipe[m].translating # 0
  /\ pipe' = [pipe EXCEPT ![m].translating = 0]
  /\ \/ /\ ~pipe[m].closed
        /\ live' = [live EXCEPT !.translated = @ \cup {<<m, pipe[m].translating>>}]
     \/ UNCHANGED live
  /\ UNCHANGED <<archives, owner, thread, op, accidents>>

----------------------------------------------------------------------------
(* The server ends, of itself or not, and is started again: the files stay.*)
Exit ==
  /\ Accident
  /\ thread' = 0 /\ op' = NoCall
  /\ pipe' = [m \in Meetings |->
       IF pipe[m].at = "absent" THEN pipe[m]
       ELSE [NoPipe EXCEPT !.at = "over", !.written = pipe[m].written]]
  /\ UNCHANGED fileVars

----------------------------------------------------------------------------
AgentInit ==
  /\ live = Empty /\ archives = <<>> /\ owner = 0
  /\ thread = 0 /\ op = NoCall
  /\ pipe = [m \in Meetings |-> NoPipe]
  /\ accidents = 0

Session(m) == Open(m) \/ EndFeed(m) \/ Idle(m) \/ Drained(m)
Workers(m) ==
  AsrTop(m) \/ AsrGet(m) \/ OnFinal(m) \/ AsrLook(m) \/ AsrSet(m) \/ Take(m) \/ Translated(m)

AgentNext ==
  \/ BeginStop("start") \/ BeginStop("stop") \/ JoinTimedOut \/ ThreadJoined \/ Ingested
  \/ Exit
  \/ \E m \in Meetings : Start(m) \/ Ingest(m) \/ Feed(m) \/ Fails(m) \/ Session(m) \/ Workers(m)

AgentSpec == AgentInit /\ [][AgentNext]_agentVars

----------------------------------------------------------------------------
AgentTypeOK ==
  /\ live \in [said : SUBSET Line, translated : SUBSET Line]
  /\ archives \in Seq([said : SUBSET Line, translated : SUBSET Line])
  /\ owner \in 0 .. MaxMeeting /\ thread \in 0 .. MaxMeeting
  /\ op.kind \in {"none", "start", "stop", "ingest"}
  /\ \A m \in Meetings : pipe[m].taken <= pipe[m].fed /\ pipe[m].fed <= MaxFinal

(* What a meeting wrote while it ran is never torn apart and never lost:   *)
(* all of it is in the live files, or all of it in one archive.  And at    *)
(* most one meeting runs at a time, whatever was clicked how fast.         *)
MeetingsWhole ==
  /\ \A m \in Meetings :
       LET place == {live} \cup {archives[i] : i \in DOMAIN archives}
       IN \E f \in place : pipe[m].written \subseteq f.said
  /\ Cardinality({m \in Meetings : Alive(m)}) <= 1

(* close() promises that no worker of a meeting writes into the files of   *)
(* the next one.                                                           *)
NoStaleResults ==
  \A l \in live.said \cup live.translated : l[1] = owner
=============================================================================
