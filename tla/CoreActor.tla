----------------------------- MODULE CoreActor -----------------------------
(***************************************************************************)
(* The single-writer actor of forum-core: one thread owns the Store, any   *)
(* number of threads hold a handle and send it operations over a bounded   *)
(* channel, wait for their result for a limited time, and may ask it to    *)
(* shut down.                                                              *)
(*                                                                         *)
(* Abstracted: what an operation does to the Store (modules SessionLedger  *)
(* and TranslationCoverage), only whether it committed is kept; opening    *)
(* the Store, which precedes the first handle.  One call or shutdown is    *)
(* one attempt: a caller that retries is another member of the set.        *)
(***************************************************************************)
EXTENDS Integers, Sequences

CONSTANTS
  Calls,     \* operations that may be submitted
  Closers,   \* attempts to shut the actor down
  Nobody,    \* no operation
  Capacity   \* of the channel

ASSUME ActorAssumption ==
  /\ Calls \cap Closers = {}
  /\ Nobody \notin Calls \cup Closers
  /\ Capacity \in 1..4096

VARIABLES
  handles,  \* does a CoreHandle still exist?
  queue,    \* the channel: calls and shutdown requests, oldest first
  thread,   \* where the writer thread is
  running,  \* the operation it executes
  closer,   \* the shutdown request that ended its loop
  store,    \* "open", or "closed": connection and file lock are released
  effects,  \* operations that committed
  reply,    \* what the thread sent to each ticket and shutdown request
  answer    \* what each caller knows

vars == <<handles, queue, thread, running, closer, store, effects, reply, answer>>

(* The thread serves the channel, took a shutdown request or lost its last *)
(* handle, dropped the store, dropped the channel, and is joinable.        *)
Threads == {"serving", "closing", "released", "gone", "finished"}

InQueue(x) == \E i \in DOMAIN queue : queue[i] = x

----------------------------------------------------------------------------
Init ==
  /\ handles = TRUE
  /\ queue = <<>>
  /\ thread = "serving"
  /\ running = Nobody
  /\ closer = Nobody
  /\ store = "open"
  /\ effects = {}
  /\ reply = [x \in Calls \cup Closers |-> "none"]
  /\ answer = [x \in Calls \cup Closers |-> "none"]

Tell(x, verdict) == answer' = [answer EXCEPT ![x] = verdict]

Full == Len(queue) >= Capacity

(* try_send: refused when the channel is full or was dropped. *)
Send(x, disconnected) ==
  IF thread \in {"gone", "finished"}
  THEN Tell(x, disconnected) /\ UNCHANGED queue
  ELSE IF Full
  THEN Tell(x, "queueFull") /\ UNCHANGED queue
  ELSE Tell(x, "waiting") /\ queue' = Append(queue, x)

TryCall(c) ==
  /\ handles
  /\ answer[c] = "none"
  /\ Send(c, "actorClosed")
  /\ UNCHANGED <<handles, thread, running, closer, store, effects, reply>>

(* Mutant: the two errors of recv_timeout are swapped. *)
TimeoutVerdictSwapped == "actorClosed"

TimeoutVerdict == "ackUnknown"

(* CoreTicket::wait: the result, or that the operation was dropped. *)
Collect(c) ==
  /\ answer[c] = "waiting"
  /\ reply[c] # "none"
  /\ Tell(c, IF reply[c] = "dropped" THEN "actorClosed" ELSE reply[c])
  /\ UNCHANGED <<handles, queue, thread, running, closer, store, effects, reply>>

(* ... or nothing within the time limit. *)
GiveUp(c) ==
  /\ answer[c] = "waiting"
  /\ reply[c] = "none"
  /\ Tell(c, TimeoutVerdict)
  /\ UNCHANGED <<handles, queue, thread, running, closer, store, effects, reply>>

----------------------------------------------------------------------------
(* shutdown. *)

Joinable == thread = "finished"

(* A thread that is gone is only joined; else the request is sent. *)
Shutdown(k) ==
  /\ handles
  /\ answer[k] = "none"
  /\ IF Joinable
     THEN Tell(k, "ok") /\ UNCHANGED queue
     ELSE Send(k, "ackUnknown")
  /\ UNCHANGED <<handles, thread, running, closer, store, effects, reply>>

(* Mutant: the receipt alone is taken for the end of the thread. *)
ConfirmedBy(k) == "ok"

(* After the receipt the thread is still awaited. *)
AwaitedBy(k) == "joining"

(* The receipt arrives, or the request was dropped with the channel. *)
Confirm(k) ==
  /\ answer[k] = "waiting"
  /\ reply[k] # "none"
  /\ Tell(k, IF reply[k] = "dropped" THEN "ackUnknown" ELSE AwaitedBy(k))
  /\ UNCHANGED <<handles, queue, thread, running, closer, store, effects, reply>>

Join(k) ==
  /\ answer[k] = "joining"
  /\ Joinable
  /\ Tell(k, "ok")
  /\ UNCHANGED <<handles, queue, thread, running, closer, store, effects, reply>>

(* Either wait of shutdown is limited. *)
AbandonShutdown(k) ==
  /\ \/ answer[k] = "waiting" /\ reply[k] = "none"
     \/ answer[k] = "joining" /\ ~Joinable
  /\ Tell(k, "ackUnknown")
  /\ UNCHANGED <<handles, queue, thread, running, closer, store, effects, reply>>

(* The last handle is dropped; tickets may outlive it. *)
DropHandles ==
  /\ handles
  /\ \A k \in Closers : answer[k] \notin {"waiting", "joining"}
  /\ handles' = FALSE
  /\ UNCHANGED <<queue, thread, running, closer, store, effects, reply, answer>>

----------------------------------------------------------------------------
(* The thread. *)

Begin ==
  /\ thread = "serving" /\ running = Nobody
  /\ queue # <<>> /\ Head(queue) \in Calls
  /\ running' = Head(queue)
  /\ queue' = Tail(queue)
  /\ UNCHANGED <<handles, thread, closer, store, effects, reply, answer>>

(* An operation commits, fails, or panics before or after its commit. *)
Outcomes ==
  {[committed |-> TRUE, reply |-> "ok"], [committed |-> FALSE, reply |-> "failed"],
   [committed |-> TRUE, reply |-> "panicked"], [committed |-> FALSE, reply |-> "panicked"]}

End ==
  /\ running # Nobody
  /\ \E outcome \in Outcomes :
       /\ effects' = IF outcome.committed THEN effects \cup {running} ELSE effects
       /\ reply' = [reply EXCEPT ![running] = outcome.reply]
  /\ running' = Nobody
  /\ UNCHANGED <<handles, queue, thread, closer, store, answer>>

BreakLoop == "closing"

TakeShutdown ==
  /\ thread = "serving" /\ running = Nobody
  /\ queue # <<>> /\ Head(queue) \in Closers
  /\ closer' = Head(queue)
  /\ queue' = Tail(queue)
  /\ thread' = BreakLoop
  /\ UNCHANGED <<handles, running, store, effects, reply, answer>>

(* recv fails: the channel is empty and has no sender. *)
LastHandleGone ==
  /\ thread = "serving" /\ running = Nobody
  /\ queue = <<>> /\ ~handles
  /\ thread' = "closing"
  /\ UNCHANGED <<handles, queue, running, closer, store, effects, reply, answer>>

(* drop(store), then the receipt. *)
Release ==
  /\ thread = "closing"
  /\ store' = "closed"
  /\ thread' = "released"
  /\ reply' = [x \in Calls \cup Closers |-> IF x = closer THEN "confirmed" ELSE reply[x]]
  /\ UNCHANGED <<handles, queue, running, closer, effects, answer>>

(* Mutant: what was still queued is forgotten. *)
DroppedSilently(x) == FALSE

(* Everything still queued is dropped with the channel. *)
Dropped(x) == InQueue(x)

DropChannel ==
  /\ thread = "released"
  /\ thread' = "gone"
  /\ queue' = <<>>
  /\ reply' = [x \in Calls \cup Closers |-> IF Dropped(x) THEN "dropped" ELSE reply[x]]
  /\ UNCHANGED <<handles, running, closer, store, effects, answer>>

Finish ==
  /\ thread = "gone"
  /\ thread' = "finished"
  /\ UNCHANGED <<handles, queue, running, closer, store, effects, reply, answer>>

----------------------------------------------------------------------------
ThreadStep ==
  \/ Begin
  \/ End
  \/ TakeShutdown
  \/ LastHandleGone
  \/ Release
  \/ DropChannel
  \/ Finish

Hear(x) ==
  \/ x \in Calls /\ Collect(x)
  \/ x \in Closers /\ Confirm(x)
  \/ x \in Closers /\ Join(x)

Next ==
  \/ \E c \in Calls : TryCall(c) \/ GiveUp(c)
  \/ \E k \in Closers : Shutdown(k) \/ AbandonShutdown(k)
  \/ \E x \in Calls \cup Closers : Hear(x)
  \/ DropHandles
  \/ ThreadStep

Spec == Init /\ [][Next]_vars

(* The thread goes on, its operations being bounded, and a caller that     *)
(* still waits receives what was sent.                                     *)
Fairness ==
  /\ WF_vars(ThreadStep)
  /\ \A x \in Calls \cup Closers : WF_vars(Hear(x))

FairSpec == Spec /\ Fairness

----------------------------------------------------------------------------
Verdicts == {"none", "waiting", "ok", "failed", "panicked", "queueFull", "actorClosed",
             "ackUnknown", "joining"}

(* The channel is bounded and holds each request once. *)
TypeOK ==
  /\ handles \in BOOLEAN /\ store \in {"open", "closed"} /\ thread \in Threads
  /\ queue \in Seq(Calls \cup Closers)
  /\ Len(queue) <= Capacity
  /\ \A i, j \in DOMAIN queue : queue[i] = queue[j] => i = j
  /\ running \in Calls \cup {Nobody} /\ closer \in Closers \cup {Nobody}
  /\ effects \subseteq Calls
  /\ reply \in [Calls \cup Closers ->
                  {"none", "ok", "failed", "panicked", "dropped", "confirmed"}]
  /\ answer \in [Calls \cup Closers -> Verdicts]

(* A caller told that the queue was full or the actor closed may rely on   *)
(* it: its operation has not run, does not run and never will; one told    *)
(* ok has committed.  Only ackUnknown and a panic leave that open.         *)
VerdictsTruthful ==
  \A c \in Calls :
    /\ answer[c] \in {"queueFull", "actorClosed"} =>
         c \notin effects /\ running # c /\ ~InQueue(c)
    /\ answer[c] = "ok" => c \in effects

(* shutdown returns Ok only when the connection and the lock are released  *)
(* and the thread is over, so that the database may be opened again.       *)
ShutdownMeansReleased ==
  \A k \in Closers : answer[k] = "ok" => store = "closed" /\ thread = "finished" /\ queue = <<>>

(* Whoever waits is answered, those too whose operation was still queued   *)
(* when another thread shut the actor down.                                *)
EveryoneAnswered ==
  \A x \in Calls \cup Closers : answer[x] = "waiting" ~> answer[x] # "waiting"
=============================================================================
