--------------------------- MODULE CaptureJournal ---------------------------
(***************************************************************************)
(* The capture of a meeting: devices, segments, the recording journal and  *)
(* the outbox of its producer on disk, the ledger behind its socket, and   *)
(* the recovery that replays what is on disk (moxin-dora-bridge,           *)
(* reliable_capture.rs, dual_capture.rs and the two capture loops;         *)
(* forum-runtime, recording.rs).                                           *)
(*                                                                         *)
(* The capture is one thread.  Its code is a list of steps, "todo", each   *)
(* of which ends with one write to disk or one call of the ledger: it may  *)
(* die between any two of them, and a call may fail, or be carried out and *)
(* its answer lost.  An action takes the first step and puts the steps it  *)
(* calls in front of the rest.                                             *)
(*                                                                         *)
(* Abstracted: audio is counted in units, of which the voiced ones start   *)
(* and prolong segments; the rest of a frame, shorter than 10 ms, is       *)
(* silence; a segment may close at the end of any unit, by silence or by   *)
(* length.  Digests and paths always match.  A range that is loaded again  *)
(* has no limit; load_range takes 30 seconds, three times the length at    *)
(* which a segment closes by default.  The session of the ledger takes     *)
(* captures until it is sealed.                                            *)
(***************************************************************************)
EXTENDS Integers, SequencesExt, FiniteSetsExt

CONSTANTS
  Mic, System,  \* the two sources; a meeting has the first or both
  None,         \* no active segment, nothing in flight
  MaxSample,    \* bound: units of audio of a single source
  MaxShared,    \* bound: units of audio of each of two sources
  MaxBatch,     \* bound: units in one callback
  MaxEpoch,     \* bound: epochs of the direction
  Backlog,      \* segments waiting for recognition; 8 in the code
  MaxFaults,    \* bound: crashes, failed calls, time-outs, cancellations
  MaxRuns       \* bound: processes, the live one and its recoveries

ASSUME CaptureAssumption ==
  /\ Mic # System /\ None \notin [start : Nat, by : Nat]
  /\ MaxSample \in Nat /\ MaxShared \in Nat /\ MaxBatch \in Nat
  /\ MaxEpoch \in Nat /\ Backlog \in Nat /\ MaxFaults \in Nat /\ MaxRuns \in Nat

VARIABLES
  sources,    \* the tracks of the meeting
  recording,  \* recording_enabled
  journal,    \* per track, manifest.json and the PCM beside it
  outbox,     \* per track, the pending events of its producer
  ledger,     \* events the ledger has accepted
  results,    \* segments with a terminal result
  asked,      \* segments the recogniser is working on
  phase,      \* what the capture thread is doing
  todo,       \* its next steps
  vad,        \* per track, PcmSegmenter
  epoch,      \* direction_epoch of the context
  queue,      \* DeliveryQueue.queued
  inFlight,   \* DeliveryQueue.in_flight
  lastTrack,  \* DeliveryQueue.last_track
  stopping,   \* capture_stop_requested
  failure,    \* why the last process gave up
  run,        \* processes so far
  faults      \* crashes, failed calls, time-outs, cancellations so far

disk == <<journal, outbox>>
memory == <<vad, epoch, queue, inFlight, lastTrack>>
vars == <<sources, recording, disk, ledger, results, asked, phase, todo, memory, stopping,
          failure, run, faults>>

Tracks == sources
Dual == System \in sources
Limit == IF Dual THEN MaxShared ELSE MaxSample

Phases == {"opening", "live", "abandoned", "closing", "draining", "recovering", "failed",
           "down", "done"}

NoJournal == [created |-> FALSE, final |-> 0, classified |-> 0, active |-> None, pcm |-> {},
              voiced |-> {}, segments |-> <<>>, saved |-> {}, dispatched |-> {}, gaps |-> {},
              boundaries |-> {}, acknowledged |-> {}, closed |-> FALSE, seal |-> {}]

NewVad == [cursor |-> 0, active |-> None]

----------------------------------------------------------------------------
(* Events.  An event is told from another one about the same thing by the  *)
(* run that made it: a run makes at most one.                              *)

Event(kind, about) == [kind |-> kind, about |-> about, run |-> run]

SameSegment(a, b) == a.track = b.track /\ a.start = b.start /\ a.by = b.by

Events(kind) == {e \in ledger : e.kind = kind}
Registered == {e.about : e \in Events("segment")}
Sealed == Events("seal") # {}

(* current_direction of the ledger                                         *)
LedgerEpoch == Max({1} \cup {e.about.epoch : e \in Events("boundary")})

(* capture_direction_at: the direction of the last boundary before a place *)
EpochAt(start) ==
  Max({1} \cup {e.about.epoch : e \in {b \in Events("boundary") : b.about.start <= start}})

(* CaptureStopped: the manifest of the recording, track by track           *)
Manifest == {[track |-> t, final |-> journal[t].final,
              segments |-> DOMAIN journal[t].segments] : t \in Tracks}

(* What the ledger makes of an event (register_capture, register_gap, set  *)
(* a direction at a boundary, capture_stopped): the same event again is    *)
(* answered as before, a second event about a segment is a conflict.       *)
Accepts(e) ==
  \/ e \in ledger
  \/ /\ ~Sealed
     /\ e.kind = "segment" => \A s \in Registered : ~SameSegment(s, e.about)
     /\ e.kind = "boundary" => e.about.epoch = LedgerEpoch + 1
     /\ e.kind = "seal" => \A m \in e.about.tracks :
          /\ m.segments = {s \in Registered : s.track = m.track}
          /\ \A s \in m.segments : s.end <= m.final

----------------------------------------------------------------------------
(* Steps.                                                                  *)

Step(do, t) == [do |-> do, track |-> t]
StepFor(do, t, x) == [do |-> do, track |-> t, with |-> x]

Doing(do) == todo # <<>> /\ Head(todo).do = do
Track == Head(todo).track
With == Head(todo).with
Then(steps) == todo' = steps \o Tail(todo)

Fault == faults < MaxFaults /\ faults' = faults + 1

Publisher == Mic

(* Append an event to the outbox, then have the ledger confirm it          *)
Produce(t, e) == <<StepFor("append", t, e), StepFor("flush", t, e)>>

(* close_segment: models_ready, then the journal, the outbox, the journal  *)
(* again, and the ledger                                                   *)
CloseSteps(s) ==
  LET e == Event("segment", s) IN
  <<Step("ready", s.track), StepFor("close", s.track, s), StepFor("append", s.track, e),
    StepFor("save", s.track, e), StepFor("flush", s.track, e)>>

First(segments) == CHOOSE s \in segments : \A r \in segments : s.start <= r.start

(* One segment of a set after the other.  A capture also queues what it    *)
(* closes for recognition; a recovery does not, it dispatches what has no  *)
(* result at its end.                                                      *)
Closing(t, segments) ==
  IF segments = {} THEN <<>>
  ELSE LET s == First(segments) IN
       CloseSteps(s) \o (IF phase = "recovering" THEN <<>> ELSE <<StepFor("enqueue", t, s)>>)
         \o <<StepFor("closing", t, segments \ {s})>>

(* seal_recording for each journal, then publish_capture_seal              *)
SealTrack(t) == <<Step("flushAll", t), Step("seal", t)>>

SealSteps ==
  SealTrack(Mic) \o (IF Dual THEN SealTrack(System) ELSE <<>>) \o <<Step("publish", Publisher)>>

(* One turn of the capture loop                                            *)
Turn ==
  IF Dual THEN <<Step("hear", System), Step("hear", Mic), Step("pump", Mic)>>
  ELSE <<Step("hear", Mic), Step("pump", Mic), Step("direction", Mic)>>

(* replay_pending, or replay of the two tracks                             *)
ReplayTrack(t) ==
  <<Step("flushAll", t), Step("replayDirections", t), Step("recoverTail", t),
    Step("register", t), Step("missing", t)>>

ReplaySteps ==
  ReplayTrack(Mic) \o (IF Dual THEN ReplayTrack(System) ELSE <<>>)
    \o SealSteps \o <<Step("acknowledge", Publisher)>>

(* flush_pcm: the clock of a track advances by n units, the voiced among   *)
(* them in v; they are kept if the meeting is recorded.                    *)
Heard(j, n, v) == [j EXCEPT !.final = @ + n, !.voiced = @ \cup v,
                            !.pcm = IF recording THEN @ \cup (j.final..(j.final + n - 1)) ELSE @]

(* The thread gives up.  A single source in its loop still records what    *)
(* its device had left (the tail after a capture_error); one that was      *)
(* stopped before it began tries to seal for two seconds.                  *)
GivesUp(why) ==
  /\ failure' = why /\ asked' = {}
  /\ \/ phase' = "failed" /\ todo' = <<>>
     \/ phase = "abandoned" /\ ~Dual /\ todo' = SealSteps /\ UNCHANGED phase
  /\ \/ UNCHANGED journal
     \/ /\ phase = "live" /\ ~Dual /\ ~journal[Mic].closed
        /\ \E v \in SUBSET {journal[Mic].final} :
             /\ journal[Mic].final < Limit
             /\ journal' = [journal EXCEPT ![Mic] = Heard(@, 1, v)]

(* A step that only reads or asks the ledger and may find it away          *)
Unreachable ==
  /\ Fault /\ GivesUp("unreachable")
  /\ UNCHANGED <<sources, recording, outbox, ledger, results, memory, stopping, run>>

----------------------------------------------------------------------------
(* CaptureSession::open: each track gets its journal                       *)
Create ==
  /\ Doing("create")
  /\ journal' = [journal EXCEPT ![Track].created = TRUE]
  /\ Then(<<>>)
  /\ UNCHANGED <<sources, recording, outbox, ledger, results, asked, phase, memory, stopping,
                 failure, run, faults>>

(* The readiness barrier: recognition is ready, or the meeting is stopped  *)
(* before it began; a single source that is stopped just after the barrier *)
(* ends without a seal.                                                    *)
Barrier ==
  /\ Doing("barrier")
  /\ \/ ~stopping /\ phase' = "live" /\ Then(<<>>)
     \/ stopping /\ phase' = "abandoned" /\ Then(SealSteps)
     \/ stopping /\ ~Dual /\ phase' = "failed" /\ Then(<<>>)
  /\ UNCHANGED <<sources, recording, disk, ledger, results, asked, memory, stopping, failure,
                 run, faults>>

BarrierFails == Doing("barrier") /\ Unreachable

(* The top of the loop                                                     *)
LoopTurn ==
  /\ phase = "live" /\ todo = <<>> /\ ~stopping
  /\ todo' = Turn
  /\ UNCHANGED <<sources, recording, disk, ledger, results, asked, phase, memory, stopping,
                 failure, run, faults>>

(* An operator, or the host, asks for the end.                             *)
RequestStop ==
  /\ phase \in {"opening", "live"} /\ ~stopping
  /\ stopping' = TRUE
  /\ UNCHANGED <<sources, recording, disk, ledger, results, asked, phase, todo, memory,
                 failure, run, faults>>

(* What the devices had left is the last turn of the segmenter; then the   *)
(* open segment is closed and the journals are sealed.  Two tracks end at  *)
(* the same place: the shorter one gets a gap (seal_at).                   *)
LastTurn ==
  LET end == Max({journal[t].final : t \in Tracks}) IN
  IF Dual
  THEN <<StepFor("gapTo", Mic, end), StepFor("gapTo", System, end),
         Step("finish", Mic), Step("checkpoint", Mic),
         Step("finish", System), Step("checkpoint", System)>> \o SealSteps
  ELSE <<Step("finish", Mic)>> \o SealSteps

StopLoop ==
  /\ phase = "live" /\ todo = <<>> /\ stopping
  /\ phase' = "closing"
  /\ todo' = IF Dual THEN <<Step("hear", System), Step("hear", Mic), Step("last", Mic)>>
             ELSE <<Step("tail", Mic), Step("last", Mic)>>
  /\ UNCHANGED <<sources, recording, disk, ledger, results, asked, memory, stopping, failure,
                 run, faults>>

FinalTurn ==
  /\ Doing("last")
  /\ Then(LastTurn)
  /\ UNCHANGED <<sources, recording, disk, ledger, results, asked, phase, memory, stopping,
                 failure, run, faults>>

(* A callback: samples that were dropped before it (single source: the     *)
(* buffer overflowed; two sources: their clocks jumped), and samples.      *)
GapSteps(t, n) ==
  IF n = 0 THEN <<>>
  ELSE <<Step("finish", t), StepFor("advance", t, n), StepFor("noteGap", t, n)>>

HeardSteps(t, n) == IF n = 0 THEN <<>>
                    ELSE <<StepFor("record", t, n), Step("push", t), Step("checkpoint", t)>>

Hear ==
  /\ Doing("hear") \/ Doing("tail")
  /\ \E lost \in (IF Doing("tail") THEN {0} ELSE {0, 1}), n \in 0..MaxBatch :
       /\ journal[Track].final + lost + n <= Limit
       /\ Dual /\ lost > 0 => n > 0
       /\ Then(GapSteps(Track, lost) \o HeardSteps(Track, n))
  /\ UNCHANGED <<sources, recording, disk, ledger, results, asked, phase, memory, stopping,
                 failure, run, faults>>

(* The gap that makes two tracks end together                              *)
GapTo ==
  /\ Doing("gapTo")
  /\ LET n == With - journal[Track].final IN
     Then(GapSteps(Track, n) \o (IF n = 0 THEN <<>> ELSE <<Step("checkpoint", Track)>>))
  /\ UNCHANGED <<sources, recording, disk, ledger, results, asked, phase, memory, stopping,
                 failure, run, faults>>

(* record: the samples are on disk before they are looked at.              *)
Record ==
  /\ Doing("record")
  /\ LET from == journal[Track].final IN
     \E v \in SUBSET (from..(from + With - 1)) :
       journal' = [journal EXCEPT ![Track] = Heard(@, With, v)]
  /\ Then(<<>>)
  /\ UNCHANGED <<sources, recording, outbox, ledger, results, asked, phase, memory, stopping,
                 failure, run, faults>>

(* How PcmSegmenter::push may cut the units from "from" to "to": segments  *)
(* start with a voiced unit, or where one is open already, and nothing     *)
(* voiced is left out.                                                     *)
Cuts(t, from, to, open) ==
  LET Range2 == {[start |-> a, end |-> b] : a \in from..(to - 1), b \in (from + 1)..to}
      Pieces == {p \in Range2 : /\ p.start < p.end
                                /\ p.start \in journal[t].voiced \/ (open /\ p.start = from)}
  IN {c \in SUBSET Pieces :
        /\ \A p, q \in c : p = q \/ p.end <= q.start \/ q.end <= p.start
        /\ \A u \in journal[t].voiced : u \in from..(to - 1) =>
             \E p \in c : u \in p.start..(p.end - 1)
        /\ open => \E p \in c : p.start = from}

(* Segments of a cut; the one that was open keeps its identity.            *)
Named(t, cut, active) ==
  {[track |-> t, start |-> p.start, end |-> p.end,
    by |-> IF active # None /\ p.start = active.start THEN active.by ELSE run] : p \in cut}

Push ==
  /\ Doing("push")
  /\ LET v == vad[Track]
         from == IF v.active = None THEN v.cursor ELSE v.active.start
         to == journal[Track].final
     IN \E cut \in Cuts(Track, from, to, v.active # None) :
        LET pieces == Named(Track, cut, v.active) IN
        \E open \in {{}} \cup {{p} : p \in {q \in pieces : q.end = to}} :
          /\ \A q \in pieces \ open : q.end > v.cursor
          /\ vad' = [vad EXCEPT ![Track] =
               [cursor |-> to,
                active |-> IF open = {} THEN None
                           ELSE LET p == CHOOSE p \in open : TRUE
                                IN [start |-> p.start, by |-> p.by]]]
          /\ Then(Closing(Track, pieces \ open))
  /\ UNCHANGED <<sources, recording, disk, ledger, results, asked, phase, epoch, queue,
                 inFlight, lastTrack, stopping, failure, run, faults>>

(* finish: the open segment ends here.                                     *)
Finish ==
  /\ Doing("finish")
  /\ LET v == vad[Track] IN
     /\ vad' = [vad EXCEPT ![Track].active = None]
     /\ Then(IF v.active = None THEN <<>>
             ELSE Closing(Track, Named(Track, {[start |-> v.active.start, end |-> v.cursor]},
                                       v.active)))
  /\ UNCHANGED <<sources, recording, disk, ledger, results, asked, phase, epoch, queue,
                 inFlight, lastTrack, stopping, failure, run, faults>>

Checkpoint ==
  /\ Doing("checkpoint")
  /\ journal' = [journal EXCEPT ![Track].classified = vad[Track].cursor,
                                ![Track].active = vad[Track].active]
  /\ Then(<<>>)
  /\ UNCHANGED <<sources, recording, outbox, ledger, results, asked, phase, memory, stopping,
                 failure, run, faults>>

(* record_gap: the clock advances, then the gap is noted and announced;    *)
(* skip_samples comes last.                                                *)
Advance ==
  /\ Doing("advance")
  /\ journal' = [journal EXCEPT ![Track].final = @ + With]
  /\ Then(<<>>)
  /\ UNCHANGED <<sources, recording, outbox, ledger, results, asked, phase, memory, stopping,
                 failure, run, faults>>

NoteGap ==
  /\ Doing("noteGap")
  /\ LET final == journal[Track].final
         gap == [track |-> Track, start |-> final - With, end |-> final]
     IN /\ journal' = [journal EXCEPT ![Track].gaps = @ \cup {gap}]
        /\ Then(Produce(Track, Event("gap", gap)) \o <<Step("skip", Track)>>)
  /\ UNCHANGED <<sources, recording, outbox, ledger, results, asked, phase, memory, stopping,
                 failure, run, faults>>

Skip ==
  /\ Doing("skip")
  /\ vad' = [vad EXCEPT ![Track].cursor = journal[Track].final]
  /\ Then(<<>>)
  /\ UNCHANGED <<sources, recording, disk, ledger, results, asked, phase, epoch, queue,
                 inFlight, lastTrack, stopping, failure, run, faults>>

----------------------------------------------------------------------------
(* The steps of close_segment, and of everything that goes to the ledger.  *)

(* models_ready asks the ledger, and may find the recogniser not ready.    *)
Ready ==
  /\ Doing("ready")
  /\ Then(<<>>)
  /\ UNCHANGED <<sources, recording, disk, ledger, results, asked, phase, memory, stopping,
                 failure, run, faults>>

ReadyFails == Doing("ready") /\ Unreachable

CloseNext ==
  /\ Doing("closing")
  /\ Then(Closing(Track, With))
  /\ UNCHANGED <<sources, recording, disk, ledger, results, asked, phase, memory, stopping,
                 failure, run, faults>>

Close ==
  /\ Doing("close")
  /\ IF \E s \in DOMAIN journal[Track].segments : SameSegment(s, With)
     THEN GivesUp("duplicate")
     ELSE /\ journal' = [journal EXCEPT ![Track].segments =
                  [s \in DOMAIN @ \cup {With} |-> IF s = With THEN epoch ELSE @[s]]]
          /\ Then(<<>>)
          /\ UNCHANGED <<asked, phase, failure>>
  /\ UNCHANGED <<sources, recording, outbox, ledger, results, memory, stopping, run, faults>>

AppendEvent ==
  /\ Doing("append")
  /\ outbox' = [outbox EXCEPT ![Track] = @ \cup {With}]
  /\ Then(<<>>)
  /\ UNCHANGED <<sources, recording, journal, ledger, results, asked, phase, memory, stopping,
                 failure, run, faults>>

(* save_capture_event, save_capture_seal_event                             *)
Save ==
  /\ Doing("save")
  /\ journal' = IF With.kind = "seal" THEN [journal EXCEPT ![Track].seal = {With}]
                ELSE [journal EXCEPT ![Track].saved = @ \cup {With}]
  /\ Then(<<>>)
  /\ UNCHANGED <<sources, recording, outbox, ledger, results, asked, phase, memory, stopping,
                 failure, run, faults>>

(* flush_one, or an event that is sent again without the outbox            *)
Confirmed(e) ==
  /\ Accepts(e)
  /\ ledger' = ledger \cup {e}
  /\ outbox' = [outbox EXCEPT ![Track] = @ \ (IF Doing("resend") THEN {} ELSE {e})]
  /\ UNCHANGED <<sources, recording, journal, results, asked, phase, memory, stopping, failure,
                 run, faults>>

Refused(e) ==
  /\ ~Accepts(e)
  /\ GivesUp("refused")
  /\ UNCHANGED <<sources, recording, outbox, ledger, results, memory, stopping, run, faults>>

Unanswered(e) ==
  /\ Fault /\ GivesUp("unreachable")
  /\ ledger' \in {ledger} \cup {ledger \cup {x} : x \in {y \in {e} : Accepts(y)}}
  /\ UNCHANGED <<sources, recording, outbox, results, memory, stopping, run>>

Flush ==
  /\ Doing("flush") \/ Doing("resend")
  /\ \/ Confirmed(With) /\ Then(<<>>)
     \/ Refused(With)
     \/ Unanswered(With)

(* flush_pending: in the order of the runs, whose ids are random, and up   *)
(* to the first event that fails                                           *)
FlushAll ==
  /\ Doing("flushAll")
  /\ \/ /\ outbox[Track] = {}
        /\ Then(<<>>)
        /\ UNCHANGED <<sources, recording, disk, ledger, results, asked, phase, memory,
                       stopping, failure, run, faults>>
     \/ \E e \in outbox[Track] :
          \/ Confirmed(e) /\ UNCHANGED todo
          \/ Refused(e)
          \/ Unanswered(e)

----------------------------------------------------------------------------
(* Delivery to recognition.                                                *)

Waiting == Len(queue) + (IF inFlight = None THEN 0 ELSE 1)

Enqueue ==
  /\ Doing("enqueue")
  /\ IF Waiting < Backlog
     THEN /\ queue' = Append(queue, With)
          /\ Then(<<>>)
          /\ UNCHANGED <<journal, asked, phase, failure>>
     ELSE GivesUp("backlog") /\ UNCHANGED queue
  /\ UNCHANGED <<sources, recording, outbox, ledger, results, vad, epoch, inFlight, lastTrack,
                 stopping, run, faults>>

(* pump_tracks: one segment at a time, of another track than the last one  *)
(* if there is one                                                         *)
NextInQueue ==
  LET other == {i \in DOMAIN queue : queue[i].track # lastTrack} IN
  IF other # {} THEN Min(other) ELSE 1

Settled == inFlight = None \/ inFlight \in results

Pump ==
  /\ Doing("pump")
  /\ Then(<<>>)
  /\ IF ~Settled THEN UNCHANGED <<journal, asked, queue, inFlight, lastTrack>>
     ELSE IF queue = <<>>
     THEN inFlight' = None /\ UNCHANGED <<journal, asked, queue, lastTrack>>
     ELSE LET s == queue[NextInQueue] IN
          /\ queue' = RemoveAt(queue, NextInQueue)
          /\ inFlight' = s /\ lastTrack' = s.track /\ asked' = asked \cup {s}
          /\ journal' = [journal EXCEPT ![s.track].dispatched = @ \cup {s}]
  /\ UNCHANGED <<sources, recording, outbox, ledger, results, phase, vad, epoch, stopping,
                 failure, run, faults>>

(* The ledger is away, or the final of the segment in flight is later than *)
(* 60 seconds.                                                             *)
PumpFails == Doing("pump") /\ inFlight # None /\ Unreachable

(* The recogniser, beyond its outbox: FinalDelivery says how its answer    *)
(* reaches the ledger.                                                     *)
Recognise ==
  /\ \E s \in asked : results' = results \cup {s} /\ asked' = asked \ {s}
  /\ UNCHANGED <<sources, recording, disk, ledger, phase, todo, memory, stopping, failure, run,
                 faults>>

(* After the seal: until the queue is empty                                *)
Drain ==
  /\ phase \in {"closing", "abandoned", "draining"} /\ todo = <<>>
  /\ IF Waiting = 0 THEN phase' = "done" /\ UNCHANGED todo
     ELSE phase' = "draining" /\ todo' = <<Step("pump", Mic)>>
  /\ UNCHANGED <<sources, recording, disk, ledger, results, asked, memory, stopping, failure,
                 run, faults>>

(* The host tears the capture down before that.                            *)
TearDown ==
  /\ phase = "draining" /\ Fault
  /\ phase' = "failed" /\ todo' = <<>> /\ asked' = {}
  /\ UNCHANGED <<sources, recording, disk, ledger, results, memory, stopping, failure, run>>

----------------------------------------------------------------------------
(* Directions: every segment is closed, then the boundary goes to the      *)
(* outbox, the journal and the ledger, and only then into force.           *)

Direction ==
  /\ Doing("direction")
  /\ \/ Then(<<>>)
     \/ epoch < MaxEpoch
        /\ Then(<<Step("finish", Mic), Step("checkpoint", Mic), Step("changeDirection", Mic)>>)
  /\ UNCHANGED <<sources, recording, disk, ledger, results, asked, phase, memory, stopping,
                 failure, run, faults>>

BoundarySteps(e) ==
  <<StepFor("append", Mic, e), StepFor("boundary", Mic, e), StepFor("flush", Mic, e),
    StepFor("inForce", Mic, e)>>

ChangeDirection ==
  /\ Doing("changeDirection")
  /\ Then(BoundarySteps(Event("boundary", [track |-> Mic, start |-> journal[Mic].final,
                                           epoch |-> epoch + 1])))
  /\ UNCHANGED <<sources, recording, disk, ledger, results, asked, phase, memory, stopping,
                 failure, run, faults>>

SaveBoundary ==
  /\ Doing("boundary")
  /\ journal' = [journal EXCEPT ![Track].boundaries = @ \cup {With}]
  /\ Then(<<>>)
  /\ UNCHANGED <<sources, recording, outbox, ledger, results, asked, phase, memory, stopping,
                 failure, run, faults>>

(* acknowledge_direction, apply_direction                                  *)
InForce ==
  /\ Doing("inForce")
  /\ journal' = [journal EXCEPT ![Track].acknowledged = @ \cup {With}]
  /\ epoch' = With.about.epoch
  /\ Then(<<>>)
  /\ UNCHANGED <<sources, recording, outbox, ledger, results, asked, phase, vad, queue,
                 inFlight, lastTrack, stopping, failure, run, faults>>

----------------------------------------------------------------------------
(* The seal.                                                               *)

SealJournal ==
  /\ Doing("seal")
  /\ journal' = [journal EXCEPT ![Track].closed = TRUE, ![Track].active = None,
                                ![Track].classified = journal[Track].final]
  /\ Then(<<>>)
  /\ UNCHANGED <<sources, recording, outbox, ledger, results, asked, phase, memory, stopping,
                 failure, run, faults>>

(* publish_capture_seal: an earlier seal of the ledger must be this one; a *)
(* seal in the journal is sent again; otherwise there is a new one.        *)
Publish ==
  /\ Doing("publish")
  /\ LET e == Event("seal", [tracks |-> Manifest]) IN
     IF Sealed /\ \A x \in Events("seal") : x.about.tracks # Manifest
     THEN GivesUp("refused")
     ELSE /\ Then(IF Sealed THEN <<>>
                  ELSE IF journal[Track].seal # {}
                  THEN <<StepFor("resend", Track, CHOOSE x \in journal[Track].seal : TRUE)>>
                  ELSE <<StepFor("append", Track, e), StepFor("save", Track, e),
                         StepFor("flush", Track, e)>>)
          /\ UNCHANGED <<journal, asked, phase, failure>>
  /\ UNCHANGED <<sources, recording, outbox, ledger, results, memory, stopping, run, faults>>

PublishFails == Doing("publish") /\ Unreachable

----------------------------------------------------------------------------
(* Recovery.                                                               *)

(* The process, or the machine, dies.                                      *)
Crash ==
  /\ phase \notin {"failed", "down", "done"} /\ Fault
  /\ phase' = "down" /\ todo' = <<>> /\ asked' = {} /\ failure' = "none"
  /\ vad' = [t \in Tracks |-> NewVad] /\ epoch' = 1
  /\ queue' = <<>> /\ inFlight' = None /\ lastTrack' = None /\ stopping' = FALSE
  /\ UNCHANGED <<sources, recording, disk, ledger, results, run>>

(* The operator has the meeting recovered: every journal must be there.    *)
Recover ==
  /\ phase \in {"failed", "down"} /\ run < MaxRuns
  /\ \A t \in Tracks : journal[t].created
  /\ phase' = "recovering" /\ run' = run + 1 /\ todo' = ReplaySteps /\ failure' = "none"
  /\ vad' = [t \in Tracks |-> NewVad] /\ epoch' = 1
  /\ queue' = <<>> /\ inFlight' = None /\ lastTrack' = None /\ stopping' = FALSE
  /\ UNCHANGED <<sources, recording, disk, ledger, results, asked, faults>>

(* replay_directions: each boundary is sent again before any segment.      *)

(* Mutant: a boundary the ledger has confirmed is not replayed.            *)
ReplayedUnconfirmed(t) == journal[t].boundaries \ journal[t].acknowledged

Replayed(t) == journal[t].boundaries

Replaying(t, boundaries) ==
  IF boundaries = {} THEN <<>>
  ELSE LET b == CHOOSE b \in boundaries :
                  \A c \in boundaries : b.about.epoch <= c.about.epoch
       IN <<StepFor("resend", t, b), StepFor("inForce", t, b),
            StepFor("replaying", t, boundaries \ {b})>>

ReplayDirections ==
  /\ \/ Doing("replayDirections") /\ Then(Replaying(Track, Replayed(Track)))
     \/ Doing("replaying") /\ Then(Replaying(Track, With))
  /\ UNCHANGED <<sources, recording, disk, ledger, results, asked, phase, memory, stopping,
                 failure, run, faults>>

(* recover_unclosed_tail: from the open segment, or the last place that    *)
(* was classified, but never into a segment that is in the journal.        *)

(* Mutant: the tail starts at the checkpoint, whatever was closed since.   *)
TailStartAtCheckpoint(j) == IF j.active = None THEN j.classified ELSE j.active.start

TailStart(j) ==
  Max({IF j.active = None THEN j.classified ELSE j.active.start} \cup
      {s.end : s \in DOMAIN j.segments})

Tail0(j) == TailStart(j)..(j.final - 1)

RecoverTail ==
  /\ Doing("recoverTail")
  /\ LET j == journal[Track]
         open == j.active # None /\ j.active.start = TailStart(j)
         active == IF open THEN j.active ELSE None
     IN IF j.closed \/ Tail0(j) = {}
        THEN Then(<<>>) /\ UNCHANGED <<journal, asked, phase, failure, vad>>
        ELSE IF ~(Tail0(j) \subseteq j.pcm)
        THEN GivesUp("pcm") /\ UNCHANGED vad
        ELSE /\ vad' = [vad EXCEPT ![Track] = [cursor |-> j.final, active |-> None]]
             /\ \E cut \in Cuts(Track, TailStart(j), j.final, open) :
                  Then(Closing(Track, Named(Track, cut, active))
                       \o <<Step("checkpoint", Track)>>)
             /\ UNCHANGED <<journal, asked, phase, failure>>
  /\ UNCHANGED <<sources, recording, outbox, ledger, results, epoch, queue, inFlight, lastTrack,
                 stopping, run, faults>>

(* Every segment is registered: with its saved event, or with a new one.   *)
SavedEvents(s) == {e \in journal[s.track].saved : e.about = s}

RegisterSteps(s) ==
  LET e == Event("segment", s) IN
  IF SavedEvents(s) # {}
  THEN <<StepFor("resend", s.track, CHOOSE x \in SavedEvents(s) : TRUE)>>
  ELSE <<StepFor("append", s.track, e), StepFor("save", s.track, e), StepFor("flush", s.track, e)>>

Registering(t, segments) ==
  IF segments = {} THEN <<>>
  ELSE RegisterSteps(First(segments))
         \o <<StepFor("registering", t, segments \ {First(segments)})>>

Register ==
  /\ \/ Doing("register") /\ Then(Registering(Track, DOMAIN journal[Track].segments))
     \/ Doing("registering") /\ Then(Registering(Track, With))
  /\ UNCHANGED <<sources, recording, disk, ledger, results, asked, phase, memory, stopping,
                 failure, run, faults>>

(* recovery_revisions: the segments the ledger has no result for           *)

(* Mutant: what was handed to recognition once is not asked for again.     *)
MissingUndispatched(t) == DOMAIN journal[t].segments \ journal[t].dispatched

Missing(t) == DOMAIN journal[t].segments \ results

Asking(t, segments) ==
  IF segments = {} THEN <<>>
  ELSE <<StepFor("dispatch", t, First(segments)), StepFor("await", t, First(segments)),
         StepFor("asking", t, segments \ {First(segments)})>>

AskMissing ==
  /\ Doing("missing")
  /\ IF Missing(Track) # {} /\ ~recording
     THEN GivesUp("pcm")
     ELSE Then(Asking(Track, Missing(Track))) /\ UNCHANGED <<journal, asked, phase, failure>>
  /\ UNCHANGED <<sources, recording, outbox, ledger, results, memory, stopping, run, faults>>

AskNext ==
  /\ Doing("asking")
  /\ Then(Asking(Track, With))
  /\ UNCHANGED <<sources, recording, disk, ledger, results, asked, phase, memory, stopping,
                 failure, run, faults>>

AskFails == Doing("missing") /\ Unreachable

Dispatch ==
  /\ Doing("dispatch")
  /\ asked' = asked \cup {With}
  /\ Then(<<>>)
  /\ UNCHANGED <<sources, recording, disk, ledger, results, phase, memory, stopping, failure,
                 run, faults>>

(* wait_for_final, then mark_dispatched                                    *)
Await ==
  /\ Doing("await") /\ With \in results
  /\ journal' = [journal EXCEPT ![Track].dispatched = @ \cup {With}]
  /\ Then(<<>>)
  /\ UNCHANGED <<sources, recording, outbox, ledger, results, asked, phase, memory, stopping,
                 failure, run, faults>>

(* The final is later than 60 seconds, or the recovery is cancelled.       *)
AwaitFails == Doing("await") /\ Unreachable

(* acknowledge_replay, and the end                                         *)
Acknowledge ==
  /\ Doing("acknowledge")
  /\ phase' = "done" /\ Then(<<>>)
  /\ UNCHANGED <<sources, recording, disk, ledger, results, asked, memory, stopping, failure,
                 run, faults>>

AcknowledgeFails == Doing("acknowledge") /\ Unreachable

----------------------------------------------------------------------------

Init ==
  /\ sources \in {{Mic}, {Mic, System}} /\ recording \in BOOLEAN
  /\ journal = [t \in Tracks |-> NoJournal] /\ outbox = [t \in Tracks |-> {}]
  /\ ledger = {} /\ results = {} /\ asked = {}
  /\ phase = "opening"
  /\ todo = <<Step("create", Mic)>> \o (IF Dual THEN <<Step("create", System)>> ELSE <<>>)
              \o <<Step("barrier", Mic)>>
  /\ vad = [t \in Tracks |-> NewVad] /\ epoch = 1
  /\ queue = <<>> /\ inFlight = None /\ lastTrack = None
  /\ stopping = FALSE /\ failure = "none" /\ run = 1 /\ faults = 0

Work ==
  \/ Create \/ Barrier \/ LoopTurn \/ StopLoop \/ FinalTurn \/ Hear \/ GapTo \/ Record \/ Push
  \/ Finish \/ Checkpoint \/ Advance \/ NoteGap \/ Skip \/ Ready \/ CloseNext \/ Close
  \/ AppendEvent \/ Save \/ Flush \/ FlushAll \/ Enqueue \/ Pump \/ Drain \/ Direction \/ ChangeDirection
  \/ SaveBoundary \/ InForce \/ SealJournal \/ Publish \/ ReplayDirections \/ RecoverTail
  \/ Register \/ AskMissing \/ AskNext \/ Dispatch \/ Await \/ Acknowledge

Accident ==
  \/ BarrierFails \/ ReadyFails \/ PumpFails \/ TearDown \/ PublishFails \/ AskFails \/ AwaitFails
  \/ AcknowledgeFails \/ Crash

Next == Work \/ Accident \/ RequestStop \/ Recognise \/ Recover

Fairness ==
  /\ WF_vars(Work) /\ WF_vars(Recognise) /\ WF_vars(RequestStop) /\ WF_vars(Recover)

Spec == Init /\ [][Next]_vars /\ Fairness

----------------------------------------------------------------------------
(* Type correctness of what is on disk, in the ledger and in memory.       *)
TypeOK ==
  /\ recording \in BOOLEAN /\ stopping \in BOOLEAN /\ phase \in Phases
  /\ run \in 1..MaxRuns /\ faults \in 0..MaxFaults /\ epoch \in 1..MaxEpoch
  /\ \A t \in Tracks :
       /\ journal[t].final \in 0..Limit /\ journal[t].classified \in 0..journal[t].final
       /\ DOMAIN journal[t].segments \subseteq
            [track : {t}, start : 0..Limit, end : 1..Limit, by : 1..MaxRuns]
  /\ asked \subseteq Registered /\ results \subseteq Registered /\ Waiting <= Backlog

(* Once the ledger has the seal of a capture, every voiced unit of every   *)
(* track is in exactly one of its segments, what its journal notes as lost *)
(* is in none and announced as a gap, and the segments are those of the    *)
(* journal, whatever died, failed or was recovered before (seal_recording, *)
(* recover_unclosed_tail, record_gap).  What a track that ends before the  *)
(* other never received is no gap of its journal.                          *)
SegmentsAt(t, u) == {s \in Registered : s.track = t /\ u \in s.start..(s.end - 1)}

SealedIsAccounted ==
  Sealed => \A t \in Tracks :
    /\ \A u \in journal[t].voiced : Cardinality(SegmentsAt(t, u)) = 1
    /\ \A g \in journal[t].gaps :
         /\ \E e \in Events("gap") : e.about = g
         /\ \A u \in g.start..(g.end - 1) : SegmentsAt(t, u) = {}
    /\ DOMAIN journal[t].segments = {s \in Registered : s.track = t}

(* The direction the journal keeps with a segment, which recognition uses, *)
(* is the one the ledger reads from the boundaries (change_direction,      *)
(* replay_directions): no final is refused for its direction.              *)
EpochsAgree ==
  \A t \in Tracks, s \in Registered :
    s \in DOMAIN journal[t].segments => journal[t].segments[s] = EpochAt(s.start)

(* What a recovery cannot repair: a segment whose event left before the    *)
(* journal knew it, samples that are not in the journal behind its last    *)
(* checkpoint, a journal that was never made.                              *)
Orphan(t) ==
  \E s \in DOMAIN journal[t].segments :
    /\ SavedEvents(s) = {}
    /\ \E e \in ledger \cup outbox[t] : e.kind = "segment" /\ e.about = s

Doomed ==
  /\ phase \in {"failed", "down"}
  /\ \E t \in Tracks :
       \/ ~journal[t].created
       \/ Orphan(t)
       \/ ~journal[t].closed /\ ~(Tail0(journal[t]) \subseteq journal[t].pcm)

(* A recorded meeting ends sealed with a result for every segment, through *)
(* crashes, a full backlog, late finals and lost calls, unless it is left  *)
(* in one of those states (replay_pending).                                *)
RecordingEndsComplete ==
  recording => <>(Doomed \/ (phase = "done" /\ Sealed /\ Registered \subseteq results))

(* The comment of outbox.rs on a crash before the unlink, and the protocol *)
(* (DATA_AND_PROTOCOL_ZH.md:122), promise that a repeated event keeps its  *)
(* message id: the ledger never refuses what a capture sends.              *)
NothingRefused == failure # "refused"

(* IMPLEMENTATION_TASKS_ZH.md:99: a capture that ended by force is         *)
(* recovered from its outbox and its recording, gaps included.             *)
RecordingIsEnough == recording => failure # "pcm"

=============================================================================
