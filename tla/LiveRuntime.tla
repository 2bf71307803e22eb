---------------------------- MODULE LiveRuntime ----------------------------
(***************************************************************************)
(* Starting, stopping and leaving a live meeting.  One worker thread of    *)
(* the shell (runtime.rs) takes commands from a bounded channel, owns the  *)
(* meeting and the child processes it started (dispatcher.rs,              *)
(* controller.rs, owned_runtime.rs), and shares the machine with the       *)
(* background models through a budget (resource_budget.rs).                *)
(*                                                                         *)
(* Abstracted: what the meeting records and when it is sealed (module      *)
(* FinalDelivery); the waits for seals, 30 seconds, or 5 between two       *)
(* attempts are the worker taking its next step later.  Child processes    *)
(* are counted, since each is ended in the same way; the pressure of a     *)
(* backlog, which only refuses or pauses background work, and direction    *)
(* commands, which only carry a value, are left out.                       *)
(***************************************************************************)
EXTENDS Integers, Sequences

CONSTANTS
  CommandLimit, \* of the command channel; 16 in the code
  Children,     \* groups of child processes: coordinator, daemon, nodes
  MaxStarts,    \* bound: Start commands
  MaxStops,     \* bound: calls of stop
  MaxFaults     \* bound: failing starts and clean-ups, troubled meetings

VARIABLES
  generation, \* stop_generation
  flag,       \* capture_stop_requested
  commands,   \* the channel
  quitting,   \* the message of stop_tx was sent
  exiting,    \* the worker has seen it
  at,         \* where the worker is
  starting,   \* the Start command it carries out
  meeting,    \* active
  children,   \* child processes alive
  capture,    \* the capture bridge and its devices
  started,    \* capture_progress.started
  live,       \* budget: a live permit is held
  preparing,  \* budget: until the capture has begun
  background, \* budget: the background model that has a permit
  leaked,     \* its permit was forgotten, its process may still run
  closed,     \* budget: shutdown
  contained,  \* the worker has let go of everything
  starts, faults

uiVars == <<generation, quitting, closed, starts>>
budgetVars == <<live, preparing>>
jobVars == <<background, leaked>>
procVars == <<children, capture, started>>
runtimeVars == <<uiVars, flag, commands, exiting, at, starting, meeting, procVars, budgetVars,
                 jobVars, contained, faults>>

None == [none |-> TRUE]
Stop == [kind |-> "stop"]
NoFault == UNCHANGED faults
Fault == faults < MaxFaults /\ faults' = faults + 1

----------------------------------------------------------------------------
(* The user interface.  try_send: a full channel refuses a Start, and a    *)
(* Stop is dropped.                                                        *)

Room == Len(commands) < CommandLimit

AskStart(replay) ==
  /\ starts < MaxStarts /\ Room /\ at # "ended"
  /\ commands' = Append(commands,
       [kind |-> "start", generation |-> generation, replay |-> replay])
  /\ starts' = starts + 1
  /\ UNCHANGED <<generation, quitting, closed, flag, exiting, at, starting, meeting, procVars,
                 budgetVars, jobVars, contained, faults>>

AskStop ==
  /\ generation < MaxStops
  /\ generation' = generation + 1
  /\ flag' = TRUE
  /\ commands' = IF Room /\ at # "ended" THEN Append(commands, Stop) ELSE commands
  /\ UNCHANGED <<quitting, closed, starts, exiting, at, starting, meeting, procVars, budgetVars,
                 jobVars, contained, faults>>

(* The application ends: the budget is shut, then begin_shutdown.          *)
Quit ==
  /\ ~quitting
  /\ quitting' = TRUE /\ closed' = TRUE /\ flag' = TRUE
  /\ UNCHANGED <<generation, starts, commands, exiting, at, starting, meeting, procVars,
                 budgetVars, jobVars, contained, faults>>

----------------------------------------------------------------------------
(* The budget.                                                             *)

PrepareLive == live' = TRUE /\ preparing' = TRUE
FinishLive == live' = FALSE /\ preparing' = FALSE
KeepLive == UNCHANGED budgetVars

(* Mutant: a meeting that gets ready is not looked at. *)
AdmissibleEarly(kind) == ~closed /\ background = "none" /\ (live /\ ~preparing => kind = "small")

(* admit: the small model may run beside a meeting, the large may not.     *)
Admissible(kind) == /\ ~closed /\ ~preparing /\ background = "none"
                    /\ live => kind = "small"

Admit(kind) ==
  /\ Admissible(kind) /\ ~leaked
  /\ background' = kind
  /\ UNCHANGED <<uiVars, flag, commands, exiting, at, starting, meeting, procVars, budgetVars,
                 leaked, contained, faults>>

(* The model has exited and its permit is dropped; or its exit could not   *)
(* be confirmed and the permit is forgotten.                               *)
EndJob ==
  /\ background # "none" /\ ~leaked
  /\ \/ background' = "none" /\ UNCHANGED leaked /\ NoFault
     \/ leaked' = TRUE /\ UNCHANGED background /\ Fault
  /\ UNCHANGED <<uiVars, flag, commands, exiting, at, starting, meeting, procVars, budgetVars,
                 contained>>

----------------------------------------------------------------------------
(* The capture bridge.  It looks at the flag before it opens the devices   *)
(* and while they are open.                                                *)

Bridge(state, begun) ==
  /\ capture' = state
  /\ started' = (started \/ begun)
  /\ UNCHANGED <<uiVars, flag, commands, exiting, at, starting, meeting, children, budgetVars,
                 jobVars, contained, faults>>

CheckFlag ==
  /\ capture = "ready"
  /\ Bridge(IF flag \/ starting.replay THEN "released" ELSE "opening", FALSE)
OpenDevices == capture = "opening" /\ Bridge("open", TRUE)
ReleaseDevices == capture = "open" /\ flag /\ Bridge("released", FALSE)

----------------------------------------------------------------------------
(* The worker thread.                                                      *)

Goto(place) == at' = place

Stopping(m) == [m EXCEPT !.stopping = TRUE]
Announce(m, began) == [m EXCEPT !.announced = @ \/ began]

(* Mutant: the message is only noted; the flag was set with it. *)
StopOnExit(m) == FALSE

(* request_stop for the active meeting when the application ends.          *)
StopsActive(m) == m # None

Signal ==
  /\ at = "signal"
  /\ exiting' = (exiting \/ quitting)
  /\ IF quitting /\ ~exiting /\ StopsActive(meeting)
     THEN flag' = TRUE /\ meeting' = Stopping(meeting)
     ELSE UNCHANGED <<flag, meeting>>
  /\ Goto("commands")
  /\ UNCHANGED <<uiVars, commands, starting, procVars, budgetVars, jobVars, contained, faults>>

TakeStop ==
  /\ at = "commands" /\ commands # <<>> /\ Head(commands) = Stop
  /\ commands' = Tail(commands)
  /\ IF meeting # None THEN flag' = TRUE /\ meeting' = Stopping(meeting)
     ELSE UNCHANGED <<flag, meeting>>
  /\ UNCHANGED <<uiVars, exiting, at, starting, procVars, budgetVars, jobVars, contained, faults>>

(* A Start is carried out unless a stop was called after it.               *)
StartAllowed(c) == ~exiting /\ meeting = None /\ c.generation = generation

TakeStart ==
  /\ at = "commands" /\ commands # <<>> /\ Head(commands) # Stop
  /\ commands' = Tail(commands)
  /\ IF StartAllowed(Head(commands))
     THEN flag' = FALSE /\ starting' = Head(commands) /\ Goto("enter")
     ELSE UNCHANGED <<flag, starting, at>>
  /\ UNCHANGED <<uiVars, exiting, meeting, procVars, budgetVars, jobVars, contained, faults>>

CommandsDone ==
  /\ at = "commands" /\ commands = <<>>
  /\ Goto(IF meeting = None THEN "exit" ELSE "observe")
  /\ UNCHANGED <<uiVars, flag, commands, exiting, starting, meeting, procVars, budgetVars,
                 jobVars, contained, faults>>

(* enter_live: preempt, wait up to 5 seconds for the model to exit.        *)
EnterLive ==
  /\ at = "enter"
  /\ PrepareLive /\ Goto("waiting")
  /\ UNCHANGED <<uiVars, flag, commands, exiting, starting, meeting, procVars, jobVars,
                 contained, faults>>

WaitOver ==
  /\ at = "waiting"
  /\ IF background = "none" THEN KeepLive /\ Goto("recheck")
     ELSE FinishLive /\ Goto("commands")
  /\ UNCHANGED <<uiVars, flag, commands, exiting, starting, meeting, procVars, jobVars,
                 contained, faults>>

(* The flag again; then the meeting host, which may not come up.           *)
Recheck ==
  /\ at = "recheck"
  /\ \/ flag /\ FinishLive /\ Goto("commands") /\ NoFault /\ UNCHANGED started
     \/ ~flag /\ FinishLive /\ Goto("commands") /\ Fault /\ UNCHANGED started
     \/ ~flag /\ KeepLive /\ Goto("spawn") /\ NoFault /\ started' = FALSE
  /\ UNCHANGED <<uiVars, flag, commands, exiting, starting, meeting, children, capture, jobVars,
                 contained>>

(* dispatcher.start: process by process, then the bridges.                 *)
Spawn ==
  /\ at = "spawn" /\ capture = "none"
  /\ IF children < Children THEN children' = children + 1 /\ UNCHANGED capture
     ELSE capture' = "ready" /\ UNCHANGED children
  /\ UNCHANGED <<uiVars, flag, commands, exiting, at, starting, meeting, started, budgetVars,
                 jobVars, contained, faults>>

NewMeeting == [generation |-> starting.generation, stopping |-> FALSE, announced |-> FALSE]

Started ==
  /\ at = "spawn" /\ capture # "none"
  /\ meeting' = NewMeeting /\ Goto("commands")
  /\ UNCHANGED <<uiVars, flag, commands, exiting, starting, procVars, budgetVars, jobVars,
                 contained, faults>>

(* Mutant: the permit ends with the first attempt. *)
PermitAfterTry(gone) == FinishLive

(* The permit belongs to the meeting until the clean-up succeeds.          *)
PermitAfter(gone) == IF gone THEN FinishLive ELSE KeepLive

(* cleanup: the bridges, the owned processes, then the host; whatever      *)
(* fails, the meeting keeps its handles.                                   *)
CleanedUp == children' = 0 /\ capture' = "none" /\ NoFault
CleanupFails == /\ Fault
                /\ children' \in 0..children
                /\ capture' \in {capture, "none"}

StartFails ==
  /\ at = "spawn"
  /\ \/ CleanedUp /\ PermitAfter(TRUE) /\ UNCHANGED meeting
     \/ CleanupFails /\ PermitAfter(FALSE) /\ meeting' = NewMeeting
  /\ Goto("commands")
  /\ UNCHANGED <<uiVars, flag, commands, exiting, starting, started, jobVars, contained>>

(* Mutant: only the Stop command counts. *)
SeesFlagNever(m) == FALSE

SeesFlag(m) == flag /\ ~m.stopping

ObserveStop ==
  /\ at = "observe"
  /\ meeting' = IF SeesFlag(meeting) THEN Stopping(meeting) ELSE meeting
  /\ Goto("watch")
  /\ UNCHANGED <<uiVars, flag, commands, exiting, starting, procVars, budgetVars, jobVars,
                 contained, faults>>

(* Begun capture is announced and lets small background work in.  A        *)
(* meeting without readiness, with an error of the audio or a dead process *)
(* is stopped; a recovery that has read everything stops by itself.        *)
Watch ==
  /\ at = "watch"
  /\ LET began == ~meeting.stopping /\ (started \/ (starting.replay /\ capture = "released")) IN
     /\ preparing' = (preparing /\ (~began \/ starting.replay))
     /\ \/ NoFault /\ UNCHANGED flag
           /\ meeting' = Announce(meeting, began)
        \/ ~meeting.stopping /\ Fault /\ flag' = TRUE
           /\ meeting' = Stopping(Announce(meeting, began))
        \/ ~meeting.stopping /\ starting.replay /\ capture = "released" /\ NoFault
           /\ UNCHANGED flag
           /\ meeting' = Stopping(Announce(meeting, began))
  /\ Goto("clean")
  /\ UNCHANGED <<uiVars, commands, exiting, starting, procVars, live, jobVars, contained>>

Clean ==
  /\ at = "clean"
  /\ \/ ~meeting.stopping /\ UNCHANGED <<children, capture, meeting, faults>> /\ KeepLive
     \/ meeting.stopping /\ CleanedUp /\ PermitAfter(TRUE) /\ meeting' = None
     \/ meeting.stopping /\ CleanupFails /\ PermitAfter(FALSE) /\ UNCHANGED meeting
  /\ Goto("exit")
  /\ UNCHANGED <<uiVars, flag, commands, exiting, starting, started, jobVars, contained>>

(* Mutant: the worker leaves when it is told to. *)
FinishedOnExit == exiting

Finished == exiting /\ meeting = None

Exit ==
  /\ at = "exit"
  /\ contained' = Finished
  /\ Goto(IF Finished THEN "ended" ELSE "signal")
  /\ UNCHANGED <<uiVars, flag, commands, exiting, starting, meeting, procVars, budgetVars,
                 jobVars, faults>>

Worker ==
  \/ Signal \/ TakeStop \/ TakeStart \/ CommandsDone \/ EnterLive \/ WaitOver \/ Recheck
  \/ Spawn \/ Started \/ StartFails \/ ObserveStop \/ Watch \/ Clean \/ Exit

RuntimeNext ==
  \/ \E replay \in BOOLEAN : AskStart(replay)
  \/ AskStop \/ Quit
  \/ \E kind \in {"small", "large"} : Admit(kind)
  \/ EndJob
  \/ CheckFlag \/ OpenDevices \/ ReleaseDevices
  \/ Worker

RuntimeInit ==
  /\ generation = 0 /\ flag = FALSE /\ commands = <<>> /\ quitting = FALSE /\ exiting = FALSE
  /\ at = "signal" /\ starting = None /\ meeting = None
  /\ children = 0 /\ capture = "none" /\ started = FALSE
  /\ live = FALSE /\ preparing = FALSE /\ background = "none" /\ leaked = FALSE /\ closed = FALSE
  /\ contained = FALSE /\ starts = 0 /\ faults = 0

RuntimeSpec == RuntimeInit /\ [][RuntimeNext]_runtimeVars

(* The worker's loop goes on; nothing else is relied on.                   *)
RuntimeFairSpec == RuntimeSpec /\ WF_runtimeVars(Worker)

----------------------------------------------------------------------------
(* A stop is never lost: whatever was asked to start before it is          *)
(* stopping, or will see the flag at its next look, although the command   *)
(* may be dropped and a Start lowers the flag.                             *)
StopWins ==
  /\ meeting # None /\ meeting.generation < generation => flag \/ meeting.stopping
  /\ at \in {"enter", "waiting", "recheck", "spawn"} /\ starting.generation < generation => flag

(* From the first child process to the last, failed starts and clean-ups   *)
(* included, the live permit is held and no large background model runs;   *)
(* none runs at all before the capture has begun.                          *)
ForegroundProtected ==
  children > 0 \/ capture \in {"ready", "opening", "open"} =>
    /\ live /\ background # "large"
    /\ preparing => background = "none"

(* Both at once: what a live meeting may rely on.                          *)
MeetingHasPriority == StopWins /\ ForegroundProtected

(* "A finished or panicked thread is not evidence of owned resource exit": *)
(* the receipt for which the application waits before it ends means that   *)
(* no process, device or permit of a meeting is left, nor will be.         *)
ContainedMeansGone ==
  contained => /\ at = "ended" /\ meeting = None
               /\ children = 0 /\ capture = "none" /\ ~live

(* The application can always be left, whatever was queued before.         *)
ShutdownContains == quitting ~> contained

(* A meeting that was asked to stop ends, also when the channel was full.  *)
StoppedMeetingEnds ==
  (meeting # None /\ meeting.generation < generation) ~> (meeting = None)
=============================================================================
