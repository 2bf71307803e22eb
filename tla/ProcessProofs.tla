--------------------------- MODULE ProcessProofs ----------------------------
(***************************************************************************)
(* Proofs about the threads and processes that own what others ask for:    *)
(* the actor of a store (CoreActor), for every set of callers and every    *)
(* capacity; the worker of the live meeting (LiveRuntime), for every       *)
(* capacity of its channel and every number of child processes, commands   *)
(* and faults; and the translator's node (TranslatorNode), for any number  *)
(* of texts and any bounds.                                                *)
(***************************************************************************)
EXTENDS CoreActor, LiveRuntime, TranslatorNode, FiniteSetTheorems, SequenceTheorems,
        WellFoundedInduction, TLAPS

----------------------------------------------------------------------------
(* The actor of a store.                                                   *)

(* Nothing is told, sent, queued or executed of a caller that has not come *)
(* yet.                                                                    *)
NotYetCalled(x) == reply[x] = "none" /\ ~InQueue(x) /\ running # x /\ x \notin effects

(* Where an operation can be: each place excludes the others.              *)
PlacesExclusive ==
  /\ \A x \in Calls \cup Closers : answer[x] = "none" => NotYetCalled(x)
  /\ \A x \in Calls \cup Closers : InQueue(x) =>
       reply[x] = "none" /\ running # x /\ x \notin effects
  /\ \A c \in Calls : running = c => reply[c] = "none" /\ c \notin effects
  /\ \A c \in Calls : reply[c] = "dropped" => c \notin effects /\ running # c /\ ~InQueue(c)
  /\ \A c \in Calls : reply[c] = "ok" => c \in effects
  /\ \A c \in Calls : reply[c] # "confirmed"
  /\ closer # Nobody => ~InQueue(closer) /\ answer[closer] # "none"

(* The thread executes only while it serves, and releases the store before *)
(* the channel.                                                            *)
EndInOrder ==
  /\ thread # "serving" => running = Nobody
  /\ thread \in {"gone", "finished"} => queue = <<>>
  /\ thread \in {"released", "gone", "finished"} => store = "closed"

ActorInv == TypeOK /\ PlacesExclusive /\ EndInOrder /\ VerdictsTruthful /\ ShutdownMeansReleased

----------------------------------------------------------------------------
(* The channel: what sending a new request does to its content. *)
LEMMA AppendContent ==
  ASSUME NEW S, NEW q \in Seq(S), NEW x \in S, NEW r, r = Append(q, x),
         \A i \in DOMAIN q : q[i] # x,
         \A i, j \in DOMAIN q : q[i] = q[j] => i = j
  PROVE  /\ r \in Seq(S)
         /\ Len(r) = Len(q) + 1
         /\ \A y : (\E i \in DOMAIN r : r[i] = y) <=> (y = x \/ \E i \in DOMAIN q : q[i] = y)
         /\ \A i, j \in DOMAIN r : r[i] = r[j] => i = j
<1>1. /\ r \in Seq(S) /\ Len(r) = Len(q) + 1 /\ Len(q) \in Nat
      /\ DOMAIN r = 1..(Len(q) + 1) /\ DOMAIN q = 1..Len(q)
      /\ r[Len(q) + 1] = x
      /\ \A i \in 1..Len(q) : r[i] = q[i]
  OBVIOUS
<1>2. ASSUME NEW y
      PROVE  (\E i \in DOMAIN r : r[i] = y) <=> (y = x \/ \E i \in DOMAIN q : q[i] = y)
  <2>1. ASSUME NEW i \in DOMAIN r, r[i] = y PROVE y = x \/ \E j \in DOMAIN q : q[j] = y
    BY <1>1, <2>1
  <2>2. ASSUME y = x PROVE \E i \in DOMAIN r : r[i] = y
    BY <1>1, <2>2
  <2>3. ASSUME NEW j \in DOMAIN q, q[j] = y PROVE \E i \in DOMAIN r : r[i] = y
    BY <1>1, <2>3
  <2>4. QED
    BY <2>1, <2>2, <2>3
<1>3. ASSUME NEW i \in DOMAIN r, NEW j \in DOMAIN r, r[i] = r[j] PROVE i = j
  BY <1>1, <1>3
<1>4. QED
  BY <1>1, <1>2, <1>3

(* ... and what taking the oldest one leaves of it. *)
LEMMA TailIsShifted ==
  ASSUME NEW S, NEW q \in Seq(S), q # <<>>
  PROVE  /\ Tail(q) \in Seq(S) /\ Len(Tail(q)) = Len(q) - 1 /\ Len(q) \in Nat \ {0}
         /\ DOMAIN Tail(q) = 1..(Len(q) - 1) /\ DOMAIN q = 1..Len(q)
         /\ Head(q) = q[1] /\ Head(q) \in S
         /\ \A i \in 1..(Len(q) - 1) : Tail(q)[i] = q[i + 1]
OBVIOUS

----------------------------------------------------------------------------
(* The initial state satisfies the invariant. *)
LEMMA InitActorInv == ASSUME Init PROVE ActorInv
<1> USE ActorAssumption DEF Init
<1>1. TypeOK
  BY DEF TypeOK, Threads, Verdicts
<1>2. PlacesExclusive
  BY DEF PlacesExclusive, NotYetCalled, InQueue
<1>3. EndInOrder /\ VerdictsTruthful /\ ShutdownMeansReleased
  BY DEF EndInOrder, VerdictsTruthful, ShutdownMeansReleased, InQueue
<1>4. QED
  BY <1>1, <1>2, <1>3 DEF ActorInv

(* A first attempt to send: it is refused for good, or it is queued. *)
LEMMA SendInv ==
  ASSUME ActorInv, NEW x \in Calls \cup Closers, NEW disconnected,
         disconnected = (IF x \in Calls THEN "actorClosed" ELSE "ackUnknown"),
         answer[x] = "none", Send(x, disconnected),
         UNCHANGED <<handles, thread, running, closer, store, effects, reply>>
  PROVE  ActorInv'
<1> USE ActorAssumption
<1>1. NotYetCalled(x)
  BY DEF ActorInv, PlacesExclusive
<1>2. CASE UNCHANGED queue
  <2>1. PICK verdict \in {"actorClosed", "ackUnknown", "queueFull"} :
          /\ Tell(x, verdict)
          /\ x \in Closers => verdict \in {"ackUnknown", "queueFull"}
    BY <1>2, <1>1 DEF Send, Tell, ActorInv, TypeOK, Full, InQueue
  <2>2. QED
    BY <2>1, <1>1, <1>2 DEF ActorInv, TypeOK, Threads, Verdicts, PlacesExclusive, NotYetCalled,
       InQueue, EndInOrder, VerdictsTruthful, ShutdownMeansReleased, Tell
<1>3. CASE queue' = Append(queue, x)
  <2>1. /\ thread \notin {"gone", "finished"}
        /\ ~Full
        /\ Tell(x, "waiting")
    BY <1>3 DEF Send
  <2>2. /\ queue' \in Seq(Calls \cup Closers)
        /\ Len(queue') = Len(queue) + 1
        /\ \A y : InQueue(y)' <=> (y = x \/ InQueue(y))
        /\ \A i, j \in DOMAIN queue' : queue'[i] = queue'[j] => i = j
    BY <1>1, <1>3, AppendContent DEF ActorInv, TypeOK, NotYetCalled, InQueue
  <2>3. TypeOK'
    BY <2>1, <2>2 DEF ActorInv, TypeOK, Threads, Verdicts, Tell, Full
  <2>4. PlacesExclusive'
    BY <1>1, <2>1, <2>2 DEF ActorInv, TypeOK, PlacesExclusive, NotYetCalled, Tell
  <2>5. EndInOrder' /\ VerdictsTruthful' /\ ShutdownMeansReleased'
    BY <1>1, <2>1, <2>2 DEF ActorInv, TypeOK, EndInOrder, VerdictsTruthful,
       ShutdownMeansReleased, NotYetCalled, Tell
  <2>6. QED
    BY <2>3, <2>4, <2>5 DEF ActorInv
<1>4. QED
  BY <1>2, <1>3 DEF Send

(* What a waiting caller or closer is told, queue and thread unchanged: a  *)
(* verdict that the reply, or nothing yet, justifies.                      *)
LEMMA HearInv ==
  ASSUME ActorInv, NEW x \in Calls \cup Closers, NEW verdict \in Verdicts,
         verdict # "none", answer[x] # "none", Tell(x, verdict),
         x \in Calls => /\ verdict \in {"queueFull", "actorClosed"} => reply[x] = "dropped"
                        /\ verdict = "ok" => reply[x] = "ok",
         x \in Closers => (verdict = "ok" => thread = "finished"),
         UNCHANGED <<handles, queue, thread, running, closer, store, effects, reply>>
  PROVE  ActorInv'
<1> USE ActorAssumption DEF Tell
<1>1. TypeOK'
  BY DEF ActorInv, TypeOK
<1>2. PlacesExclusive'
  BY DEF ActorInv, TypeOK, PlacesExclusive, NotYetCalled, InQueue
<1>3. EndInOrder' /\ ShutdownMeansReleased'
  BY DEF ActorInv, TypeOK, EndInOrder, ShutdownMeansReleased
<1>4. VerdictsTruthful'
  BY DEF ActorInv, TypeOK, PlacesExclusive, VerdictsTruthful, InQueue
<1>5. QED
  BY <1>1, <1>2, <1>3, <1>4 DEF ActorInv

(* The caller's side: every step tells one caller something. *)
LEMMA CallerInv ==
  ASSUME ActorInv, NEW x \in Calls \cup Closers,
         \/ x \in Calls /\ (TryCall(x) \/ GiveUp(x))
         \/ x \in Closers /\ (Shutdown(x) \/ AbandonShutdown(x))
         \/ Hear(x)
  PROVE  ActorInv'
<1> USE ActorAssumption
<1>1. CASE x \in Calls /\ TryCall(x)
  BY <1>1, SendInv DEF TryCall
<1>2. CASE x \in Calls /\ GiveUp(x)
  BY <1>2, HearInv DEF GiveUp, TimeoutVerdict, Verdicts
<1>3. CASE x \in Closers /\ Shutdown(x)
  <2>1. CASE Joinable
    <3>1. Tell(x, "ok") /\ thread = "finished" /\ answer[x] = "none"
          /\ UNCHANGED <<handles, queue, thread, running, closer, store, effects, reply>>
      BY <1>3, <2>1 DEF Shutdown, Joinable
    <3>2. QED
      BY <1>3, <3>1 DEF ActorInv, TypeOK, Threads, Verdicts, PlacesExclusive, NotYetCalled,
         InQueue, EndInOrder, VerdictsTruthful, ShutdownMeansReleased, Tell
  <2>2. CASE ~Joinable
    BY <1>3, <2>2, SendInv DEF Shutdown
  <2>3. QED
    BY <2>1, <2>2
<1>4. CASE x \in Closers /\ AbandonShutdown(x)
  BY <1>4, HearInv DEF AbandonShutdown, Verdicts
<1>5. CASE x \in Calls /\ Collect(x)
  <2> DEFINE verdict == IF reply[x] = "dropped" THEN "actorClosed" ELSE reply[x]
  <2>1. verdict \in Verdicts /\ verdict # "none"
        /\ (verdict \in {"queueFull", "actorClosed"} => reply[x] = "dropped")
        /\ (verdict = "ok" => reply[x] = "ok")
    BY <1>5 DEF Collect, ActorInv, TypeOK, PlacesExclusive, Verdicts
  <2>2. QED
    BY <1>5, <2>1, HearInv DEF Collect
<1>6. CASE x \in Closers /\ Confirm(x)
  BY <1>6, HearInv DEF Confirm, AwaitedBy, Verdicts
<1>7. CASE x \in Closers /\ Join(x)
  BY <1>7, HearInv DEF Join, Joinable, Verdicts
<1>8. QED
  BY <1>1, <1>2, <1>3, <1>4, <1>5, <1>6, <1>7 DEF Hear

(* The thread takes the oldest request. *)
LEMMA TakeInv == ASSUME ActorInv, Begin \/ TakeShutdown PROVE ActorInv'
<1> USE ActorAssumption
<1>1. /\ thread = "serving" /\ running = Nobody /\ queue # <<>> /\ queue' = Tail(queue)
      /\ UNCHANGED <<handles, store, effects, reply, answer>>
  BY DEF Begin, TakeShutdown
<1>2. /\ queue' \in Seq(Calls \cup Closers)
      /\ Len(queue') = Len(queue) - 1
      /\ Head(queue) \in Calls \cup Closers
      /\ InQueue(Head(queue))
      /\ \A y : InQueue(y)' <=> (y # Head(queue) /\ InQueue(y))
      /\ \A i, j \in DOMAIN queue' : queue'[i] = queue'[j] => i = j
  <2>1. /\ queue \in Seq(Calls \cup Closers)
        /\ \A i, j \in DOMAIN queue : queue[i] = queue[j] => i = j
    BY DEF ActorInv, TypeOK
  <2>2. /\ queue' \in Seq(Calls \cup Closers)
        /\ Len(queue') = Len(queue) - 1 /\ Len(queue) \in Nat \ {0}
        /\ DOMAIN queue' = 1..(Len(queue) - 1) /\ DOMAIN queue = 1..Len(queue)
        /\ Head(queue) = queue[1] /\ Head(queue) \in Calls \cup Closers
        /\ \A i \in 1..(Len(queue) - 1) : queue'[i] = queue[i + 1]
    BY <1>1, <2>1, TailIsShifted
  <2>3. InQueue(Head(queue))
    BY <2>2 DEF InQueue
  <2>4. ASSUME NEW y PROVE InQueue(y)' <=> (y # Head(queue) /\ InQueue(y))
    <3>1. ASSUME NEW i \in DOMAIN queue', queue'[i] = y PROVE y # Head(queue) /\ InQueue(y)
      BY <2>1, <2>2, <3>1 DEF InQueue
    <3>2. ASSUME NEW j \in DOMAIN queue, queue[j] = y, y # Head(queue) PROVE InQueue(y)'
      <4>1. j - 1 \in DOMAIN queue' /\ queue'[j - 1] = y
        BY <2>2, <3>2
      <4>2. QED
        BY <4>1 DEF InQueue
    <3>3. QED
      BY <3>1, <3>2 DEF InQueue
  <2>5. ASSUME NEW i \in DOMAIN queue', NEW j \in DOMAIN queue', queue'[i] = queue'[j]
        PROVE  i = j
    BY <2>1, <2>2, <2>5
  <2>6. QED
    BY <2>2, <2>3, <2>4, <2>5
<1>3. /\ running' \in {Nobody, Head(queue)}
      /\ running' \in Calls \cup {Nobody} /\ closer' \in Closers \cup {Nobody}
      /\ closer' \in {closer, Head(queue)}
      /\ thread' \in {"serving", "closing"}
      /\ thread' # "serving" => running' = Nobody
  BY <1>1 DEF Begin, TakeShutdown, BreakLoop, ActorInv, TypeOK
<1>4. TypeOK'
  BY <1>1, <1>2, <1>3 DEF ActorInv, TypeOK, Threads
<1>5. PlacesExclusive'
  BY <1>1, <1>2, <1>3 DEF ActorInv, TypeOK, PlacesExclusive, NotYetCalled
<1>6. EndInOrder' /\ VerdictsTruthful' /\ ShutdownMeansReleased'
  BY <1>1, <1>2, <1>3 DEF ActorInv, TypeOK, PlacesExclusive, EndInOrder, VerdictsTruthful,
     ShutdownMeansReleased
<1>7. QED
  BY <1>4, <1>5, <1>6 DEF ActorInv

(* The operation ends: its reply agrees with its effect. *)
LEMMA EndInv == ASSUME ActorInv, End PROVE ActorInv'
<1> USE ActorAssumption
<1>1. PICK outcome \in Outcomes :
        /\ effects' = IF outcome.committed THEN effects \cup {running} ELSE effects
        /\ reply' = [reply EXCEPT ![running] = outcome.reply]
  BY DEF End
<1>2. /\ running \in Calls /\ running' = Nobody
      /\ UNCHANGED <<handles, queue, thread, closer, store, answer>>
      /\ outcome.reply \in {"ok", "failed", "panicked"}
      /\ outcome.committed = TRUE \/ outcome.committed = FALSE
      /\ outcome.reply = "ok" => outcome.committed = TRUE
  <2>1. /\ running \in Calls /\ running' = Nobody
        /\ UNCHANGED <<handles, queue, thread, closer, store, answer>>
    BY DEF End, ActorInv, TypeOK
  <2>2. /\ outcome.reply \in {"ok", "failed", "panicked"}
        /\ outcome.committed = TRUE \/ outcome.committed = FALSE
        /\ outcome.reply = "ok" => outcome.committed = TRUE
    <3>1. outcome.reply \in {"ok", "failed", "panicked"}
      BY <1>1 DEF Outcomes
    <3>4. outcome.committed = TRUE \/ outcome.committed = FALSE
      <4>1. CASE outcome = [committed |-> TRUE, reply |-> "ok"]
        BY <4>1
      <4>2. CASE outcome = [committed |-> FALSE, reply |-> "failed"]
        BY <4>2
      <4>3. CASE outcome = [committed |-> TRUE, reply |-> "panicked"]
        BY <4>3
      <4>4. CASE outcome = [committed |-> FALSE, reply |-> "panicked"]
        BY <4>4
      <4>5. QED
        BY <1>1, <4>1, <4>2, <4>3, <4>4 DEF Outcomes
    <3>2. outcome.reply = "ok" => outcome.committed = TRUE
      BY <1>1 DEF Outcomes
    <3>3. QED
      BY <3>1, <3>2, <3>4
  <2>3. QED
    BY <2>1, <2>2
<1>3. TypeOK'
  BY <1>1, <1>2 DEF ActorInv, TypeOK
<1>4. PlacesExclusive'
  BY <1>1, <1>2 DEF ActorInv, TypeOK, PlacesExclusive, NotYetCalled, InQueue
<1>5. EndInOrder' /\ VerdictsTruthful' /\ ShutdownMeansReleased'
  BY <1>1, <1>2 DEF ActorInv, TypeOK, EndInOrder, VerdictsTruthful, ShutdownMeansReleased, InQueue
<1>6. QED
  BY <1>3, <1>4, <1>5 DEF ActorInv

(* The end of the thread, in order: store, channel, thread. *)
LEMMA ClosingInv ==
  ASSUME ActorInv, LastHandleGone \/ Release \/ DropChannel \/ Finish PROVE ActorInv'
<1> USE ActorAssumption
<1>1. CASE LastHandleGone
  BY <1>1 DEF LastHandleGone, ActorInv, TypeOK, Threads, PlacesExclusive, NotYetCalled, InQueue,
     EndInOrder, VerdictsTruthful, ShutdownMeansReleased
<1>2. CASE Release
  BY <1>2 DEF Release, ActorInv, TypeOK, Threads, PlacesExclusive, NotYetCalled, InQueue,
     EndInOrder, VerdictsTruthful, ShutdownMeansReleased
<1>3. CASE DropChannel
  BY <1>3 DEF DropChannel, Dropped, ActorInv, TypeOK, Threads, PlacesExclusive, NotYetCalled,
     InQueue, EndInOrder, VerdictsTruthful, ShutdownMeansReleased
<1>4. CASE Finish
  BY <1>4 DEF Finish, ActorInv, TypeOK, Threads, PlacesExclusive, NotYetCalled, InQueue,
     EndInOrder, VerdictsTruthful, ShutdownMeansReleased
<1>5. QED
  BY <1>1, <1>2, <1>3, <1>4

(* The invariant is inductive. *)
LEMMA NextActorInv == ASSUME ActorInv, [Next]_vars PROVE ActorInv'
<1>1. CASE DropHandles
  BY <1>1 DEF DropHandles, ActorInv, TypeOK, PlacesExclusive, NotYetCalled, InQueue,
     EndInOrder, VerdictsTruthful, ShutdownMeansReleased
<1>2. CASE ThreadStep
  BY <1>2, TakeInv, EndInv, ClosingInv DEF ThreadStep
<1>3. CASE \E x \in Calls \cup Closers :
             \/ x \in Calls /\ (TryCall(x) \/ GiveUp(x))
             \/ x \in Closers /\ (Shutdown(x) \/ AbandonShutdown(x))
             \/ Hear(x)
  BY <1>3, CallerInv
<1>4. CASE UNCHANGED vars
  BY <1>4 DEF vars, ActorInv, TypeOK, PlacesExclusive, NotYetCalled, InQueue,
     EndInOrder, VerdictsTruthful, ShutdownMeansReleased
<1>5. QED
  BY <1>1, <1>2, <1>3, <1>4 DEF Next

----------------------------------------------------------------------------
(* The invariant holds in every reachable state. *)
THEOREM ActorInvariant == Spec => []ActorInv
<1>1. Init => ActorInv
  BY InitActorInv
<1>2. ActorInv /\ [Next]_vars => ActorInv'
  BY NextActorInv
<1>3. QED
  BY <1>1, <1>2, PTL DEF Spec

(* Type correctness; the channel holds each request once and at most       *)
(* Capacity of them.                                                       *)
THEOREM ActorTypeOK == Spec => []TypeOK
<1>1. ActorInv => TypeOK
  BY DEF ActorInv
<1>2. QED
  BY <1>1, ActorInvariant, PTL

(* Whoever is told that the queue was full or the actor closed may rely on *)
(* its operation never having run, whoever is told ok on its commit.       *)
THEOREM VerdictsTheorem == Spec => []VerdictsTruthful
<1>1. ActorInv => VerdictsTruthful
  BY DEF ActorInv
<1>2. QED
  BY <1>1, ActorInvariant, PTL

(* A confirmed shutdown has released the connection and the file lock, and *)
(* its thread is over.                                                     *)
THEOREM ShutdownTheorem == Spec => []ShutdownMeansReleased
<1>1. ActorInv => ShutdownMeansReleased
  BY DEF ActorInv
<1>2. QED
  BY <1>1, ActorInvariant, PTL

----------------------------------------------------------------------------
(* The worker of the live meeting.                                         *)


(* Where the worker can be; Launch is a Start being carried out, Visit one  *)
(* turn of its loop on an active meeting.                                  *)
Places == {"signal", "commands", "enter", "waiting", "recheck", "spawn", "observe",
           "watch", "clean", "exit", "ended"}
Launch == {"enter", "waiting", "recheck", "spawn"}
Visit == {"observe", "watch", "clean"}

StartSet == [kind : {"start"}, generation : Nat, replay : BOOLEAN]
MeetingSet == [generation : Nat, stopping : BOOLEAN, announced : BOOLEAN]

----------------------------------------------------------------------------
(* The inductive invariant, in four parts.                                 *)

TypesOK ==
  /\ generation \in Nat /\ starts \in Nat /\ faults \in Nat /\ children \in Nat
  /\ flag \in BOOLEAN /\ quitting \in BOOLEAN /\ exiting \in BOOLEAN
  /\ started \in BOOLEAN /\ live \in BOOLEAN /\ preparing \in BOOLEAN
  /\ leaked \in BOOLEAN /\ closed \in BOOLEAN /\ contained \in BOOLEAN
  /\ at \in Places
  /\ commands \in Seq({Stop} \union StartSet)
  /\ starting \in {None} \union StartSet
  /\ meeting \in {None} \union MeetingSet
  /\ capture \in {"none", "ready", "opening", "open", "released"}
  /\ background \in {"none", "small", "large"}

(* What the worker holds at each place.                                    *)
WhereOK ==
  /\ at \in Launch => meeting = None /\ starting # None
  /\ at \in Visit => meeting # None
  /\ meeting # None => starting # None
  /\ at = "ended" => exiting /\ meeting = None
  /\ contained <=> at = "ended"

(* A stop called after the Start is on the flag, or the meeting stops.     *)
StopsOK ==
  /\ meeting # None /\ meeting.generation < generation => flag \/ meeting.stopping
  /\ at \in Launch /\ starting.generation < generation => flag

(* Whoever may own a process or a device holds the live permit, and while  *)
(* it gets ready no background model has one.                              *)
ResourcesOK ==
  /\ meeting = None /\ at # "spawn" => children = 0 /\ capture = "none"
  /\ live <=> meeting # None \/ at \in {"waiting", "recheck", "spawn"}
  /\ preparing => live
  /\ at \in {"waiting", "recheck", "spawn"} => preparing
  /\ at \in {"recheck", "spawn"} => background = "none"
  /\ meeting # None => background # "large" /\ (preparing => background = "none")

Inv == TypesOK /\ WhereOK /\ StopsOK /\ ResourcesOK

----------------------------------------------------------------------------
(* Records of a meeting.                                                   *)

(* A meeting or a command is never the absence of one.                     *)
LEMMA NotNone == /\ \A m \in MeetingSet : m # None
                 /\ \A c \in StartSet : c # None /\ c # Stop
BY DEF MeetingSet, StartSet, None, Stop

(* Asking a meeting to stop changes nothing else of it.                    *)
LEMMA StoppingFacts ==
  ASSUME NEW m \in MeetingSet
  PROVE  /\ Stopping(m) \in MeetingSet
         /\ Stopping(m).generation = m.generation
         /\ Stopping(m).stopping = TRUE
BY DEF MeetingSet, Stopping

(* Announcing that the capture has begun neither.                          *)
LEMMA AnnounceFacts ==
  ASSUME NEW m \in MeetingSet, NEW began \in BOOLEAN
  PROVE  /\ Announce(m, began) \in MeetingSet
         /\ Announce(m, began).generation = m.generation
         /\ Announce(m, began).stopping = m.stopping
BY DEF MeetingSet, Announce

(* A meeting carries the stop generation of its Start.                     *)
LEMMA NewMeetingFacts ==
  ASSUME starting \in StartSet
  PROVE  /\ NewMeeting \in MeetingSet
         /\ NewMeeting.generation = starting.generation
BY DEF NewMeeting, MeetingSet, StartSet

----------------------------------------------------------------------------
(* The invariant holds when the worker starts, and every action keeps it.  *)

(* Nothing runs at first.                                                  *)
LEMMA InitInv == RuntimeInit => Inv
<1> SUFFICES ASSUME RuntimeInit PROVE Inv
  OBVIOUS
<1>1. commands \in Seq({Stop} \union StartSet)
  BY DEF RuntimeInit
<1>2. TypesOK
  BY <1>1 DEF RuntimeInit, TypesOK, Places
<1>3. WhereOK
  BY DEF RuntimeInit, WhereOK, Launch, Visit
<1>4. StopsOK
  BY DEF RuntimeInit, StopsOK, Launch
<1>5. ResourcesOK
  BY DEF RuntimeInit, ResourcesOK
<1> QED BY <1>2, <1>3, <1>4, <1>5 DEF Inv

(* A Start is queued.                                                      *)
LEMMA AskStartStep == ASSUME NEW replay \in BOOLEAN, Inv, AskStart(replay) PROVE Inv'
<1>1. TypesOK'
  <2>1. /\ generation' \in Nat /\ starts' \in Nat /\ faults' \in Nat /\ children' \in Nat
    BY DEF Inv, TypesOK, AskStart, Room, budgetVars, jobVars, procVars
  <2>2. /\ flag' \in BOOLEAN /\ quitting' \in BOOLEAN /\ exiting' \in BOOLEAN
       /\ started' \in BOOLEAN
    BY DEF Inv, TypesOK, AskStart, Room, budgetVars, jobVars, procVars
  <2>3. /\ live' \in BOOLEAN /\ preparing' \in BOOLEAN /\ leaked' \in BOOLEAN
       /\ closed' \in BOOLEAN /\ contained' \in BOOLEAN
    BY DEF Inv, TypesOK, AskStart, Room, budgetVars, jobVars, procVars
  <2>4. /\ at' \in Places
       /\ capture' \in {"none", "ready", "opening", "open", "released"}
       /\ background' \in {"none", "small", "large"}
    BY DEF Inv, TypesOK, Places, AskStart, Room, budgetVars, jobVars,
       procVars
  <2>5. commands' \in Seq({Stop} \union StartSet)
    <3> DEFINE c == [kind |-> "start", generation |-> generation, replay |-> replay]
    <3>1. c \in StartSet
      BY DEF Inv, TypesOK, StartSet
    <3>2. commands' = Append(commands, c)
      BY DEF AskStart
    <3> HIDE DEF c
    <3> QED
      BY <3>1, <3>2 DEF Inv, TypesOK
  <2>6. starting' \in {None} \union StartSet
    BY DEF Inv, TypesOK, WhereOK, Visit, Launch, AskStart, Room, budgetVars,
       jobVars, procVars
  <2>7. meeting' \in {None} \union MeetingSet
    BY DEF Inv, TypesOK, WhereOK, Visit, Launch, AskStart, Room, budgetVars,
       jobVars, procVars
  <2> QED BY <2>1, <2>2, <2>3, <2>4, <2>5, <2>6, <2>7 DEF TypesOK
<1>2. WhereOK'
  BY NotNone DEF Inv, TypesOK, WhereOK, Launch, Visit, Places, AskStart,
     Room, budgetVars, jobVars, procVars
<1>3. StopsOK'
  BY DEF Inv, TypesOK, WhereOK, StopsOK, Launch, Visit, AskStart, Room,
     budgetVars, jobVars, procVars
<1>4. ResourcesOK'
  BY NotNone DEF Inv, TypesOK, WhereOK, ResourcesOK, Launch, Visit,
     AskStart, Room, budgetVars, jobVars, procVars
<1> QED BY <1>1, <1>2, <1>3, <1>4 DEF Inv

(* A stop raises the flag and the generation.                              *)
LEMMA AskStopStep == ASSUME Inv, AskStop PROVE Inv'
<1>1. TypesOK'
  BY DEF Inv, TypesOK, WhereOK, Places, AskStop, Room, Stop, budgetVars,
     jobVars, procVars
<1>2. WhereOK'
  BY NotNone DEF Inv, TypesOK, WhereOK, Launch, Visit, Places, AskStop,
     Room, Stop, budgetVars, jobVars, procVars
<1>3. StopsOK'
  BY DEF Inv, TypesOK, WhereOK, StopsOK, Launch, Visit, AskStop, Room, Stop,
     budgetVars, jobVars, procVars
<1>4. ResourcesOK'
  BY NotNone DEF Inv, TypesOK, WhereOK, ResourcesOK, Launch, Visit, AskStop,
     Room, Stop, budgetVars, jobVars, procVars
<1> QED BY <1>1, <1>2, <1>3, <1>4 DEF Inv

(* The application ends.                                                   *)
LEMMA QuitStep == ASSUME Inv, Quit PROVE Inv'
<1>1. TypesOK'
  BY DEF Inv, TypesOK, WhereOK, Places, Quit, budgetVars, jobVars, procVars
<1>2. WhereOK'
  BY NotNone DEF Inv, TypesOK, WhereOK, Launch, Visit, Places, Quit,
     budgetVars, jobVars, procVars
<1>3. StopsOK'
  BY DEF Inv, TypesOK, WhereOK, StopsOK, Launch, Visit, Quit, budgetVars,
     jobVars, procVars
<1>4. ResourcesOK'
  BY NotNone DEF Inv, TypesOK, WhereOK, ResourcesOK, Launch, Visit, Quit,
     budgetVars, jobVars, procVars
<1> QED BY <1>1, <1>2, <1>3, <1>4 DEF Inv

(* A background model gets a permit.                                       *)
LEMMA AdmitStep == ASSUME NEW kind \in {"small", "large"}, Inv, Admit(kind) PROVE Inv'
<1>1. TypesOK'
  BY DEF Inv, TypesOK, WhereOK, Places, Admit, Admissible, budgetVars,
     procVars, uiVars
<1>2. WhereOK'
  BY NotNone DEF Inv, TypesOK, WhereOK, Launch, Visit, Places, Admit,
     Admissible, budgetVars, procVars, uiVars
<1>3. StopsOK'
  BY DEF Inv, TypesOK, WhereOK, StopsOK, Launch, Visit, Admit, Admissible,
     budgetVars, procVars, uiVars
<1>4. ResourcesOK'
  BY NotNone DEF Inv, TypesOK, WhereOK, ResourcesOK, Launch, Visit, Admit,
     Admissible, budgetVars, procVars, uiVars
<1> QED BY <1>1, <1>2, <1>3, <1>4 DEF Inv

(* It ends, or its permit is forgotten.                                    *)
LEMMA EndJobStep == ASSUME Inv, EndJob PROVE Inv'
<1>1. TypesOK'
  <2>1. /\ generation' \in Nat /\ starts' \in Nat /\ faults' \in Nat /\ children' \in Nat
    BY DEF Inv, TypesOK, EndJob, Fault, NoFault, budgetVars, procVars,
       uiVars
  <2>2. /\ flag' \in BOOLEAN /\ quitting' \in BOOLEAN /\ exiting' \in BOOLEAN
       /\ started' \in BOOLEAN
    BY DEF Inv, TypesOK, EndJob, Fault, NoFault, budgetVars, procVars,
       uiVars
  <2>3. /\ live' \in BOOLEAN /\ preparing' \in BOOLEAN /\ leaked' \in BOOLEAN
       /\ closed' \in BOOLEAN /\ contained' \in BOOLEAN
    BY DEF Inv, TypesOK, EndJob, Fault, NoFault, budgetVars, procVars,
       uiVars
  <2>4. /\ at' \in Places
       /\ capture' \in {"none", "ready", "opening", "open", "released"}
       /\ background' \in {"none", "small", "large"}
    BY DEF Inv, TypesOK, Places, EndJob, Fault, NoFault, budgetVars,
       procVars, uiVars
  <2>5. commands' \in Seq({Stop} \union StartSet)
    BY DEF Inv, TypesOK, EndJob, Fault, NoFault, budgetVars, procVars,
       uiVars
  <2>6. starting' \in {None} \union StartSet
    BY DEF Inv, TypesOK, WhereOK, Visit, Launch, EndJob, Fault, NoFault,
       budgetVars, procVars, uiVars
  <2>7. meeting' \in {None} \union MeetingSet
    BY DEF Inv, TypesOK, WhereOK, Visit, Launch, EndJob, Fault, NoFault,
       budgetVars, procVars, uiVars
  <2> QED BY <2>1, <2>2, <2>3, <2>4, <2>5, <2>6, <2>7 DEF TypesOK
<1>2. WhereOK'
  BY NotNone DEF Inv, TypesOK, WhereOK, Launch, Visit, Places, EndJob,
     Fault, NoFault, budgetVars, procVars, uiVars
<1>3. StopsOK'
  BY DEF Inv, TypesOK, WhereOK, StopsOK, Launch, Visit, EndJob, Fault,
     NoFault, budgetVars, procVars, uiVars
<1>4. ResourcesOK'
  BY NotNone DEF Inv, TypesOK, WhereOK, ResourcesOK, Launch, Visit, EndJob,
     Fault, NoFault, budgetVars, procVars, uiVars
<1> QED BY <1>1, <1>2, <1>3, <1>4 DEF Inv

(* The bridge looks at the flag.                                           *)
LEMMA CheckFlagStep == ASSUME Inv, CheckFlag PROVE Inv'
<1>1. TypesOK'
  BY DEF Inv, TypesOK, WhereOK, Places, CheckFlag, Bridge, budgetVars,
     jobVars, uiVars
<1>2. WhereOK'
  BY NotNone DEF Inv, TypesOK, WhereOK, Launch, Visit, Places, CheckFlag,
     Bridge, budgetVars, jobVars, uiVars
<1>3. StopsOK'
  BY DEF Inv, TypesOK, WhereOK, StopsOK, Launch, Visit, CheckFlag, Bridge,
     budgetVars, jobVars, uiVars
<1>4. ResourcesOK'
  BY NotNone DEF Inv, TypesOK, WhereOK, ResourcesOK, Launch, Visit,
     CheckFlag, Bridge, budgetVars, jobVars, uiVars
<1> QED BY <1>1, <1>2, <1>3, <1>4 DEF Inv

(* The devices open.                                                       *)
LEMMA OpenDevicesStep == ASSUME Inv, OpenDevices PROVE Inv'
<1>1. TypesOK'
  BY DEF Inv, TypesOK, WhereOK, Places, OpenDevices, Bridge, budgetVars,
     jobVars, uiVars
<1>2. WhereOK'
  BY NotNone DEF Inv, TypesOK, WhereOK, Launch, Visit, Places, OpenDevices,
     Bridge, budgetVars, jobVars, uiVars
<1>3. StopsOK'
  BY DEF Inv, TypesOK, WhereOK, StopsOK, Launch, Visit, OpenDevices, Bridge,
     budgetVars, jobVars, uiVars
<1>4. ResourcesOK'
  BY NotNone DEF Inv, TypesOK, WhereOK, ResourcesOK, Launch, Visit,
     OpenDevices, Bridge, budgetVars, jobVars, uiVars
<1> QED BY <1>1, <1>2, <1>3, <1>4 DEF Inv

(* The devices close.                                                      *)
LEMMA ReleaseDevicesStep == ASSUME Inv, ReleaseDevices PROVE Inv'
<1>1. TypesOK'
  BY DEF Inv, TypesOK, WhereOK, Places, ReleaseDevices, Bridge, budgetVars,
     jobVars, uiVars
<1>2. WhereOK'
  BY NotNone DEF Inv, TypesOK, WhereOK, Launch, Visit, Places,
     ReleaseDevices, Bridge, budgetVars, jobVars, uiVars
<1>3. StopsOK'
  BY DEF Inv, TypesOK, WhereOK, StopsOK, Launch, Visit, ReleaseDevices,
     Bridge, budgetVars, jobVars, uiVars
<1>4. ResourcesOK'
  BY NotNone DEF Inv, TypesOK, WhereOK, ResourcesOK, Launch, Visit,
     ReleaseDevices, Bridge, budgetVars, jobVars, uiVars
<1> QED BY <1>1, <1>2, <1>3, <1>4 DEF Inv

(* The worker sees that the application ends.                              *)
LEMMA SignalStep == ASSUME Inv, Signal PROVE Inv'
<1>1. TypesOK'
  <2>1. /\ generation' \in Nat /\ starts' \in Nat /\ faults' \in Nat /\ children' \in Nat
    BY DEF Inv, TypesOK, Signal, Goto, StopsActive, budgetVars, jobVars,
       procVars, uiVars
  <2>2. /\ flag' \in BOOLEAN /\ quitting' \in BOOLEAN /\ exiting' \in BOOLEAN
       /\ started' \in BOOLEAN
    BY DEF Inv, TypesOK, Signal, Goto, StopsActive, budgetVars, jobVars,
       procVars, uiVars
  <2>3. /\ live' \in BOOLEAN /\ preparing' \in BOOLEAN /\ leaked' \in BOOLEAN
       /\ closed' \in BOOLEAN /\ contained' \in BOOLEAN
    BY DEF Inv, TypesOK, Signal, Goto, StopsActive, budgetVars, jobVars,
       procVars, uiVars
  <2>4. /\ at' \in Places
       /\ capture' \in {"none", "ready", "opening", "open", "released"}
       /\ background' \in {"none", "small", "large"}
    BY DEF Inv, TypesOK, Places, Signal, Goto, StopsActive, budgetVars,
       jobVars, procVars, uiVars
  <2>5. commands' \in Seq({Stop} \union StartSet)
    BY DEF Inv, TypesOK, Signal, Goto, StopsActive, budgetVars, jobVars,
       procVars, uiVars
  <2>6. starting' \in {None} \union StartSet
    BY DEF Inv, TypesOK, WhereOK, Visit, Launch, Signal, Goto, StopsActive,
       budgetVars, jobVars, procVars, uiVars
  <2>7. meeting' \in {None} \union MeetingSet
    BY StoppingFacts, NotNone DEF Inv, TypesOK, WhereOK, Visit, Launch,
       Signal, Goto, StopsActive, budgetVars, jobVars, procVars, uiVars
  <2> QED BY <2>1, <2>2, <2>3, <2>4, <2>5, <2>6, <2>7 DEF TypesOK
<1>2. WhereOK'
  BY StoppingFacts, NotNone DEF Inv, TypesOK, WhereOK, Launch, Visit,
     Places, Signal, Goto, StopsActive, budgetVars, jobVars, procVars,
     uiVars
<1>3. StopsOK'
  BY StoppingFacts, NotNone DEF Inv, TypesOK, WhereOK, StopsOK, Launch,
     Visit, Signal, Goto, StopsActive, budgetVars, jobVars, procVars, uiVars
<1>4. ResourcesOK'
  BY StoppingFacts, NotNone DEF Inv, TypesOK, WhereOK, ResourcesOK, Launch,
     Visit, Signal, Goto, StopsActive, budgetVars, jobVars, procVars, uiVars
<1> QED BY <1>1, <1>2, <1>3, <1>4 DEF Inv

(* The worker takes a Stop.                                                *)
LEMMA TakeStopStep == ASSUME Inv, TakeStop PROVE Inv'
<1>1. TypesOK'
  <2>1. /\ generation' \in Nat /\ starts' \in Nat /\ faults' \in Nat /\ children' \in Nat
    BY DEF Inv, TypesOK, TakeStop, Stop, budgetVars, jobVars, procVars,
       uiVars
  <2>2. /\ flag' \in BOOLEAN /\ quitting' \in BOOLEAN /\ exiting' \in BOOLEAN
       /\ started' \in BOOLEAN
    BY DEF Inv, TypesOK, TakeStop, Stop, budgetVars, jobVars, procVars,
       uiVars
  <2>3. /\ live' \in BOOLEAN /\ preparing' \in BOOLEAN /\ leaked' \in BOOLEAN
       /\ closed' \in BOOLEAN /\ contained' \in BOOLEAN
    BY DEF Inv, TypesOK, TakeStop, Stop, budgetVars, jobVars, procVars,
       uiVars
  <2>4. /\ at' \in Places
       /\ capture' \in {"none", "ready", "opening", "open", "released"}
       /\ background' \in {"none", "small", "large"}
    BY DEF Inv, TypesOK, Places, TakeStop, Stop, budgetVars, jobVars,
       procVars, uiVars
  <2>5. commands' \in Seq({Stop} \union StartSet)
    BY DEF Inv, TypesOK, TakeStop, Stop, budgetVars, jobVars, procVars,
       uiVars
  <2>6. starting' \in {None} \union StartSet
    BY DEF Inv, TypesOK, WhereOK, Visit, Launch, TakeStop, Stop, budgetVars,
       jobVars, procVars, uiVars
  <2>7. meeting' \in {None} \union MeetingSet
    BY StoppingFacts, NotNone DEF Inv, TypesOK, WhereOK, Visit, Launch,
       TakeStop, Stop, budgetVars, jobVars, procVars, uiVars
  <2> QED BY <2>1, <2>2, <2>3, <2>4, <2>5, <2>6, <2>7 DEF TypesOK
<1>2. WhereOK'
  BY StoppingFacts, NotNone DEF Inv, TypesOK, WhereOK, Launch, Visit,
     Places, TakeStop, Stop, budgetVars, jobVars, procVars, uiVars
<1>3. StopsOK'
  BY StoppingFacts, NotNone DEF Inv, TypesOK, WhereOK, StopsOK, Launch,
     Visit, TakeStop, Stop, budgetVars, jobVars, procVars, uiVars
<1>4. ResourcesOK'
  BY StoppingFacts, NotNone DEF Inv, TypesOK, WhereOK, ResourcesOK, Launch,
     Visit, TakeStop, Stop, budgetVars, jobVars, procVars, uiVars
<1> QED BY <1>1, <1>2, <1>3, <1>4 DEF Inv

(* The worker takes a Start, the only step that lowers the flag.           *)
LEMMA TakeStartStep == ASSUME Inv, TakeStart PROVE Inv'
<1>1. TypesOK'
  <2>1. /\ generation' \in Nat /\ starts' \in Nat /\ faults' \in Nat /\ children' \in Nat
    BY DEF Inv, TypesOK, TakeStart, Goto, StartAllowed, Stop, budgetVars,
       jobVars, procVars, uiVars
  <2>2. /\ flag' \in BOOLEAN /\ quitting' \in BOOLEAN /\ exiting' \in BOOLEAN
       /\ started' \in BOOLEAN
    BY DEF Inv, TypesOK, TakeStart, Goto, StartAllowed, Stop, budgetVars,
       jobVars, procVars, uiVars
  <2>3. /\ live' \in BOOLEAN /\ preparing' \in BOOLEAN /\ leaked' \in BOOLEAN
       /\ closed' \in BOOLEAN /\ contained' \in BOOLEAN
    BY DEF Inv, TypesOK, TakeStart, Goto, StartAllowed, Stop, budgetVars,
       jobVars, procVars, uiVars
  <2>4. /\ at' \in Places
       /\ capture' \in {"none", "ready", "opening", "open", "released"}
       /\ background' \in {"none", "small", "large"}
    BY DEF Inv, TypesOK, Places, TakeStart, Goto, StartAllowed, Stop,
       budgetVars, jobVars, procVars, uiVars
  <2>5. commands' \in Seq({Stop} \union StartSet)
    BY DEF Inv, TypesOK, TakeStart, Goto, StartAllowed, Stop, budgetVars,
       jobVars, procVars, uiVars
  <2>6. starting' \in {None} \union StartSet
    BY DEF Inv, TypesOK, WhereOK, Visit, Launch, TakeStart, Goto,
       StartAllowed, Stop, budgetVars, jobVars, procVars, uiVars
  <2>7. meeting' \in {None} \union MeetingSet
    BY DEF Inv, TypesOK, WhereOK, Visit, Launch, TakeStart, Goto,
       StartAllowed, Stop, budgetVars, jobVars, procVars, uiVars
  <2> QED BY <2>1, <2>2, <2>3, <2>4, <2>5, <2>6, <2>7 DEF TypesOK
<1>2. WhereOK'
  BY NotNone DEF Inv, TypesOK, WhereOK, Launch, Visit, Places, TakeStart,
     Goto, StartAllowed, Stop, budgetVars, jobVars, procVars, uiVars
<1>3. StopsOK'
  BY DEF Inv, TypesOK, WhereOK, StopsOK, Launch, Visit, TakeStart, Goto,
     StartAllowed, Stop, budgetVars, jobVars, procVars, uiVars
<1>4. ResourcesOK'
  BY NotNone DEF Inv, TypesOK, WhereOK, ResourcesOK, Launch, Visit,
     TakeStart, Goto, StartAllowed, Stop, budgetVars, jobVars, procVars,
     uiVars
<1> QED BY <1>1, <1>2, <1>3, <1>4 DEF Inv

(* The channel is empty.                                                   *)
LEMMA CommandsDoneStep == ASSUME Inv, CommandsDone PROVE Inv'
<1>1. TypesOK'
  BY DEF Inv, TypesOK, WhereOK, Places, CommandsDone, Goto, budgetVars,
     jobVars, procVars, uiVars
<1>2. WhereOK'
  BY NotNone DEF Inv, TypesOK, WhereOK, Launch, Visit, Places, CommandsDone,
     Goto, budgetVars, jobVars, procVars, uiVars
<1>3. StopsOK'
  BY DEF Inv, TypesOK, WhereOK, StopsOK, Launch, Visit, CommandsDone, Goto,
     budgetVars, jobVars, procVars, uiVars
<1>4. ResourcesOK'
  BY NotNone DEF Inv, TypesOK, WhereOK, ResourcesOK, Launch, Visit,
     CommandsDone, Goto, budgetVars, jobVars, procVars, uiVars
<1> QED BY <1>1, <1>2, <1>3, <1>4 DEF Inv

(* The live permit is taken.                                               *)
LEMMA EnterLiveStep == ASSUME Inv, EnterLive PROVE Inv'
<1>1. TypesOK'
  BY DEF Inv, TypesOK, WhereOK, Places, EnterLive, Goto, PrepareLive,
     jobVars, procVars, uiVars
<1>2. WhereOK'
  BY NotNone DEF Inv, TypesOK, WhereOK, Launch, Visit, Places, EnterLive,
     Goto, PrepareLive, jobVars, procVars, uiVars
<1>3. StopsOK'
  BY DEF Inv, TypesOK, WhereOK, StopsOK, Launch, Visit, EnterLive, Goto,
     PrepareLive, jobVars, procVars, uiVars
<1>4. ResourcesOK'
  BY NotNone DEF Inv, TypesOK, WhereOK, ResourcesOK, Launch, Visit,
     EnterLive, Goto, PrepareLive, jobVars, procVars, uiVars
<1> QED BY <1>1, <1>2, <1>3, <1>4 DEF Inv

(* The background model has exited, or the Start is given up.              *)
LEMMA WaitOverStep == ASSUME Inv, WaitOver PROVE Inv'
<1>1. TypesOK'
  <2>1. /\ generation' \in Nat /\ starts' \in Nat /\ faults' \in Nat /\ children' \in Nat
    BY DEF Inv, TypesOK, WaitOver, FinishLive, Goto, KeepLive, jobVars,
       procVars, uiVars, budgetVars
  <2>2. /\ flag' \in BOOLEAN /\ quitting' \in BOOLEAN /\ exiting' \in BOOLEAN
       /\ started' \in BOOLEAN
    BY DEF Inv, TypesOK, WaitOver, FinishLive, Goto, KeepLive, jobVars,
       procVars, uiVars, budgetVars
  <2>3. /\ live' \in BOOLEAN /\ preparing' \in BOOLEAN /\ leaked' \in BOOLEAN
       /\ closed' \in BOOLEAN /\ contained' \in BOOLEAN
    BY DEF Inv, TypesOK, WaitOver, FinishLive, Goto, KeepLive, jobVars,
       procVars, uiVars, budgetVars
  <2>4. /\ at' \in Places
       /\ capture' \in {"none", "ready", "opening", "open", "released"}
       /\ background' \in {"none", "small", "large"}
    BY DEF Inv, TypesOK, Places, WaitOver, FinishLive, Goto, KeepLive,
       jobVars, procVars, uiVars, budgetVars
  <2>5. commands' \in Seq({Stop} \union StartSet)
    BY DEF Inv, TypesOK, WaitOver, FinishLive, Goto, KeepLive, jobVars,
       procVars, uiVars, budgetVars
  <2>6. starting' \in {None} \union StartSet
    BY DEF Inv, TypesOK, WhereOK, Visit, Launch, WaitOver, FinishLive, Goto,
       KeepLive, jobVars, procVars, uiVars, budgetVars
  <2>7. meeting' \in {None} \union MeetingSet
    BY DEF Inv, TypesOK, WhereOK, Visit, Launch, WaitOver, FinishLive, Goto,
       KeepLive, jobVars, procVars, uiVars, budgetVars
  <2> QED BY <2>1, <2>2, <2>3, <2>4, <2>5, <2>6, <2>7 DEF TypesOK
<1>2. WhereOK'
  BY NotNone DEF Inv, TypesOK, WhereOK, Launch, Visit, Places, WaitOver,
     FinishLive, Goto, KeepLive, jobVars, procVars, uiVars, budgetVars
<1>3. StopsOK'
  BY DEF Inv, TypesOK, WhereOK, StopsOK, Launch, Visit, WaitOver,
     FinishLive, Goto, KeepLive, jobVars, procVars, uiVars, budgetVars
<1>4. ResourcesOK'
  BY NotNone DEF Inv, TypesOK, WhereOK, ResourcesOK, Launch, Visit,
     WaitOver, FinishLive, Goto, KeepLive, jobVars, procVars, uiVars,
     budgetVars
<1> QED BY <1>1, <1>2, <1>3, <1>4 DEF Inv

(* The flag again, and the host.                                           *)
LEMMA RecheckStep == ASSUME Inv, Recheck PROVE Inv'
<1>1. TypesOK'
  <2>1. /\ generation' \in Nat /\ starts' \in Nat /\ faults' \in Nat /\ children' \in Nat
    BY DEF Inv, TypesOK, Recheck, Fault, FinishLive, Goto, KeepLive,
       NoFault, jobVars, uiVars, budgetVars
  <2>2. /\ flag' \in BOOLEAN /\ quitting' \in BOOLEAN /\ exiting' \in BOOLEAN
       /\ started' \in BOOLEAN
    BY DEF Inv, TypesOK, Recheck, Fault, FinishLive, Goto, KeepLive,
       NoFault, jobVars, uiVars, budgetVars
  <2>3. /\ live' \in BOOLEAN /\ preparing' \in BOOLEAN /\ leaked' \in BOOLEAN
       /\ closed' \in BOOLEAN /\ contained' \in BOOLEAN
    BY DEF Inv, TypesOK, Recheck, Fault, FinishLive, Goto, KeepLive,
       NoFault, jobVars, uiVars, budgetVars
  <2>4. /\ at' \in Places
       /\ capture' \in {"none", "ready", "opening", "open", "released"}
       /\ background' \in {"none", "small", "large"}
    BY DEF Inv, TypesOK, Places, Recheck, Fault, FinishLive, Goto, KeepLive,
       NoFault, jobVars, uiVars, budgetVars
  <2>5. commands' \in Seq({Stop} \union StartSet)
    BY DEF Inv, TypesOK, Recheck, Fault, FinishLive, Goto, KeepLive,
       NoFault, jobVars, uiVars, budgetVars
  <2>6. starting' \in {None} \union StartSet
    BY DEF Inv, TypesOK, WhereOK, Visit, Launch, Recheck, Fault, FinishLive,
       Goto, KeepLive, NoFault, jobVars, uiVars, budgetVars
  <2>7. meeting' \in {None} \union MeetingSet
    BY DEF Inv, TypesOK, WhereOK, Visit, Launch, Recheck, Fault, FinishLive,
       Goto, KeepLive, NoFault, jobVars, uiVars, budgetVars
  <2> QED BY <2>1, <2>2, <2>3, <2>4, <2>5, <2>6, <2>7 DEF TypesOK
<1>2. WhereOK'
  BY NotNone DEF Inv, TypesOK, WhereOK, Launch, Visit, Places, Recheck,
     Fault, FinishLive, Goto, KeepLive, NoFault, jobVars, uiVars, budgetVars
<1>3. StopsOK'
  BY DEF Inv, TypesOK, WhereOK, StopsOK, Launch, Visit, Recheck, Fault,
     FinishLive, Goto, KeepLive, NoFault, jobVars, uiVars, budgetVars
<1>4. ResourcesOK'
  BY NotNone DEF Inv, TypesOK, WhereOK, ResourcesOK, Launch, Visit, Recheck,
     Fault, FinishLive, Goto, KeepLive, NoFault, jobVars, uiVars, budgetVars
<1> QED BY <1>1, <1>2, <1>3, <1>4 DEF Inv

(* One more process, or the capture bridge.                                *)
LEMMA SpawnStep == ASSUME Inv, Spawn PROVE Inv'
<1>1. TypesOK'
  BY DEF Inv, TypesOK, WhereOK, Places, Spawn, budgetVars, jobVars, uiVars
<1>2. WhereOK'
  BY NotNone DEF Inv, TypesOK, WhereOK, Launch, Visit, Places, Spawn,
     budgetVars, jobVars, uiVars
<1>3. StopsOK'
  BY DEF Inv, TypesOK, WhereOK, StopsOK, Launch, Visit, Spawn, budgetVars,
     jobVars, uiVars
<1>4. ResourcesOK'
  BY NotNone DEF Inv, TypesOK, WhereOK, ResourcesOK, Launch, Visit, Spawn,
     budgetVars, jobVars, uiVars
<1> QED BY <1>1, <1>2, <1>3, <1>4 DEF Inv

(* The meeting is active.                                                  *)
LEMMA StartedStep == ASSUME Inv, Started PROVE Inv'
<1>0. starting \in StartSet
  BY DEF Inv, TypesOK, WhereOK, Launch, Started
<1>1. TypesOK'
  <2>1. /\ generation' \in Nat /\ starts' \in Nat /\ faults' \in Nat /\ children' \in Nat
    BY DEF Inv, TypesOK, Started, Goto, budgetVars, jobVars, procVars,
       uiVars
  <2>2. /\ flag' \in BOOLEAN /\ quitting' \in BOOLEAN /\ exiting' \in BOOLEAN
       /\ started' \in BOOLEAN
    BY DEF Inv, TypesOK, Started, Goto, budgetVars, jobVars, procVars,
       uiVars
  <2>3. /\ live' \in BOOLEAN /\ preparing' \in BOOLEAN /\ leaked' \in BOOLEAN
       /\ closed' \in BOOLEAN /\ contained' \in BOOLEAN
    BY DEF Inv, TypesOK, Started, Goto, budgetVars, jobVars, procVars,
       uiVars
  <2>4. /\ at' \in Places
       /\ capture' \in {"none", "ready", "opening", "open", "released"}
       /\ background' \in {"none", "small", "large"}
    BY DEF Inv, TypesOK, Places, Started, Goto, budgetVars, jobVars,
       procVars, uiVars
  <2>5. commands' \in Seq({Stop} \union StartSet)
    BY DEF Inv, TypesOK, Started, Goto, budgetVars, jobVars, procVars,
       uiVars
  <2>6. starting' \in {None} \union StartSet
    BY DEF Inv, TypesOK, WhereOK, Visit, Launch, Started, Goto, budgetVars,
       jobVars, procVars, uiVars
  <2>7. meeting' \in {None} \union MeetingSet
    BY <1>0, NewMeetingFacts DEF Inv, TypesOK, WhereOK, Visit, Launch,
       Started, Goto, budgetVars, jobVars, procVars, uiVars
  <2> QED BY <2>1, <2>2, <2>3, <2>4, <2>5, <2>6, <2>7 DEF TypesOK
<1>2. WhereOK'
  BY <1>0, NewMeetingFacts, NotNone DEF Inv, TypesOK, WhereOK, Launch,
     Visit, Places, Started, Goto, budgetVars, jobVars, procVars, uiVars
<1>3. StopsOK'
  BY <1>0, NewMeetingFacts DEF Inv, TypesOK, WhereOK, StopsOK, Launch,
     Visit, Started, Goto, budgetVars, jobVars, procVars, uiVars
<1>4. ResourcesOK'
  BY <1>0, NewMeetingFacts, NotNone DEF Inv, TypesOK, WhereOK, ResourcesOK,
     Launch, Visit, Started, Goto, budgetVars, jobVars, procVars, uiVars
<1> QED BY <1>1, <1>2, <1>3, <1>4 DEF Inv

(* A failed start, cleaned up or kept as a meeting.                        *)
LEMMA StartFailsStep == ASSUME Inv, StartFails PROVE Inv'
<1>0. starting \in StartSet
  BY DEF Inv, TypesOK, WhereOK, Launch, StartFails
<1>1. TypesOK'
  <2>1. /\ generation' \in Nat /\ starts' \in Nat /\ faults' \in Nat /\ children' \in Nat
    BY DEF Inv, TypesOK, StartFails, CleanedUp, CleanupFails, Goto,
       PermitAfter, jobVars, uiVars, NoFault, Fault, FinishLive, KeepLive,
       budgetVars
  <2>2. /\ flag' \in BOOLEAN /\ quitting' \in BOOLEAN /\ exiting' \in BOOLEAN
       /\ started' \in BOOLEAN
    BY DEF Inv, TypesOK, StartFails, CleanedUp, CleanupFails, Goto,
       PermitAfter, jobVars, uiVars, NoFault, Fault, FinishLive, KeepLive,
       budgetVars
  <2>3. /\ live' \in BOOLEAN /\ preparing' \in BOOLEAN /\ leaked' \in BOOLEAN
       /\ closed' \in BOOLEAN /\ contained' \in BOOLEAN
    BY DEF Inv, TypesOK, StartFails, CleanedUp, CleanupFails, Goto,
       PermitAfter, jobVars, uiVars, NoFault, Fault, FinishLive, KeepLive,
       budgetVars
  <2>4. /\ at' \in Places
       /\ capture' \in {"none", "ready", "opening", "open", "released"}
       /\ background' \in {"none", "small", "large"}
    BY DEF Inv, TypesOK, Places, StartFails, CleanedUp, CleanupFails, Goto,
       PermitAfter, jobVars, uiVars, NoFault, Fault, FinishLive, KeepLive,
       budgetVars
  <2>5. commands' \in Seq({Stop} \union StartSet)
    BY DEF Inv, TypesOK, StartFails, CleanedUp, CleanupFails, Goto,
       PermitAfter, jobVars, uiVars, NoFault, Fault, FinishLive, KeepLive,
       budgetVars
  <2>6. starting' \in {None} \union StartSet
    BY DEF Inv, TypesOK, WhereOK, Visit, Launch, StartFails, CleanedUp,
       CleanupFails, Goto, PermitAfter, jobVars, uiVars, NoFault, Fault,
       FinishLive, KeepLive, budgetVars
  <2>7. meeting' \in {None} \union MeetingSet
    BY <1>0, NewMeetingFacts DEF Inv, TypesOK, WhereOK, Visit, Launch,
       StartFails, CleanedUp, CleanupFails, Goto, PermitAfter, jobVars,
       uiVars, NoFault, Fault, FinishLive, KeepLive, budgetVars
  <2> QED BY <2>1, <2>2, <2>3, <2>4, <2>5, <2>6, <2>7 DEF TypesOK
<1>2. WhereOK'
  BY <1>0, NewMeetingFacts, NotNone DEF Inv, TypesOK, WhereOK, Launch,
     Visit, Places, StartFails, CleanedUp, CleanupFails, Goto, PermitAfter,
     jobVars, uiVars, NoFault, Fault, FinishLive, KeepLive, budgetVars
<1>3. StopsOK'
  BY <1>0, NewMeetingFacts DEF Inv, TypesOK, WhereOK, StopsOK, Launch,
     Visit, StartFails, CleanedUp, CleanupFails, Goto, PermitAfter, jobVars,
     uiVars, NoFault, Fault, FinishLive, KeepLive, budgetVars
<1>4. ResourcesOK'
  BY <1>0, NewMeetingFacts, NotNone DEF Inv, TypesOK, WhereOK, ResourcesOK,
     Launch, Visit, StartFails, CleanedUp, CleanupFails, Goto, PermitAfter,
     jobVars, uiVars, NoFault, Fault, FinishLive, KeepLive, budgetVars
<1> QED BY <1>1, <1>2, <1>3, <1>4 DEF Inv

(* The meeting sees the flag.                                              *)
LEMMA ObserveStopStep == ASSUME Inv, ObserveStop PROVE Inv'
<1>0. meeting \in MeetingSet
  BY DEF Inv, TypesOK, WhereOK, Visit, ObserveStop
<1>1. TypesOK'
  <2>1. /\ generation' \in Nat /\ starts' \in Nat /\ faults' \in Nat /\ children' \in Nat
    BY DEF Inv, TypesOK, ObserveStop, Goto, SeesFlag, budgetVars, jobVars,
       procVars, uiVars
  <2>2. /\ flag' \in BOOLEAN /\ quitting' \in BOOLEAN /\ exiting' \in BOOLEAN
       /\ started' \in BOOLEAN
    BY DEF Inv, TypesOK, ObserveStop, Goto, SeesFlag, budgetVars, jobVars,
       procVars, uiVars
  <2>3. /\ live' \in BOOLEAN /\ preparing' \in BOOLEAN /\ leaked' \in BOOLEAN
       /\ closed' \in BOOLEAN /\ contained' \in BOOLEAN
    BY DEF Inv, TypesOK, ObserveStop, Goto, SeesFlag, budgetVars, jobVars,
       procVars, uiVars
  <2>4. /\ at' \in Places
       /\ capture' \in {"none", "ready", "opening", "open", "released"}
       /\ background' \in {"none", "small", "large"}
    BY DEF Inv, TypesOK, Places, ObserveStop, Goto, SeesFlag, budgetVars,
       jobVars, procVars, uiVars
  <2>5. commands' \in Seq({Stop} \union StartSet)
    BY DEF Inv, TypesOK, ObserveStop, Goto, SeesFlag, budgetVars, jobVars,
       procVars, uiVars
  <2>6. starting' \in {None} \union StartSet
    BY DEF Inv, TypesOK, WhereOK, Visit, Launch, ObserveStop, Goto,
       SeesFlag, budgetVars, jobVars, procVars, uiVars
  <2>7. meeting' \in {None} \union MeetingSet
    BY <1>0, StoppingFacts DEF Inv, TypesOK, WhereOK, Visit, Launch,
       ObserveStop, Goto, SeesFlag, budgetVars, jobVars, procVars, uiVars
  <2> QED BY <2>1, <2>2, <2>3, <2>4, <2>5, <2>6, <2>7 DEF TypesOK
<1>2. WhereOK'
  BY <1>0, StoppingFacts, NotNone DEF Inv, TypesOK, WhereOK, Launch, Visit,
     Places, ObserveStop, Goto, SeesFlag, budgetVars, jobVars, procVars,
     uiVars
<1>3. StopsOK'
  BY <1>0, StoppingFacts DEF Inv, TypesOK, WhereOK, StopsOK, Launch, Visit,
     ObserveStop, Goto, SeesFlag, budgetVars, jobVars, procVars, uiVars
<1>4. ResourcesOK'
  BY <1>0, StoppingFacts, NotNone DEF Inv, TypesOK, WhereOK, ResourcesOK,
     Launch, Visit, ObserveStop, Goto, SeesFlag, budgetVars, jobVars,
     procVars, uiVars
<1> QED BY <1>1, <1>2, <1>3, <1>4 DEF Inv

(* The meeting is announced, or stopped for its troubles.                  *)
LEMMA WatchStep == ASSUME Inv, Watch PROVE Inv'
<1>0. meeting \in MeetingSet
  BY DEF Inv, TypesOK, WhereOK, Visit, Watch
<1> DEFINE began == ~meeting.stopping /\ (started \/ (starting.replay /\ capture = "released"))
<1>a. began \in BOOLEAN
  OBVIOUS
<1> DEFINE next == Announce(meeting, began)
<1>b. /\ next \in MeetingSet /\ next.generation = meeting.generation
      /\ next.stopping = meeting.stopping
  BY <1>0, <1>a, AnnounceFacts
<1>c. /\ Stopping(next) \in MeetingSet /\ Stopping(next).generation = meeting.generation
      /\ Stopping(next).stopping = TRUE
  BY <1>b, StoppingFacts
<1>d. /\ at = "watch" /\ at' = "clean"
      /\ preparing' = (preparing /\ (~began \/ starting.replay))
      /\ \/ meeting' = next /\ flag' = flag /\ faults' = faults
         \/ meeting' = Stopping(next) /\ flag' = TRUE /\ faults' = faults + 1
         \/ meeting' = Stopping(next) /\ flag' = flag /\ faults' = faults
  BY DEF Watch, NoFault, Fault, Goto
<1> HIDE DEF began, next
<1>e. /\ meeting' \in MeetingSet /\ meeting'.generation = meeting.generation
      /\ meeting.stopping => meeting'.stopping
  BY <1>b, <1>c, <1>d
<1>f. /\ preparing' \in BOOLEAN /\ preparing' => preparing
      /\ flag' \in BOOLEAN /\ flag => flag'
  BY <1>d DEF Inv, TypesOK
<1>g. UNCHANGED <<uiVars, commands, exiting, starting, procVars, live, jobVars, contained>>
  BY DEF Watch
<1>1. TypesOK'
  <2>1. /\ generation' \in Nat /\ starts' \in Nat /\ faults' \in Nat /\ children' \in Nat
    BY <1>0, <1>d, <1>e, <1>f, <1>g DEF Inv, TypesOK, uiVars, procVars,
       budgetVars, jobVars
  <2>2. /\ flag' \in BOOLEAN /\ quitting' \in BOOLEAN /\ exiting' \in BOOLEAN
       /\ started' \in BOOLEAN
    BY <1>0, <1>d, <1>e, <1>f, <1>g DEF Inv, TypesOK, uiVars, procVars,
       budgetVars, jobVars
  <2>3. /\ live' \in BOOLEAN /\ preparing' \in BOOLEAN /\ leaked' \in BOOLEAN
       /\ closed' \in BOOLEAN /\ contained' \in BOOLEAN
    BY <1>0, <1>d, <1>e, <1>f, <1>g DEF Inv, TypesOK, uiVars, procVars,
       budgetVars, jobVars
  <2>4. /\ at' \in Places
       /\ capture' \in {"none", "ready", "opening", "open", "released"}
       /\ background' \in {"none", "small", "large"}
    BY <1>0, <1>d, <1>e, <1>f, <1>g DEF Inv, TypesOK, Places, uiVars,
       procVars, budgetVars, jobVars
  <2>5. commands' \in Seq({Stop} \union StartSet)
    BY <1>0, <1>d, <1>e, <1>f, <1>g DEF Inv, TypesOK, uiVars, procVars,
       budgetVars, jobVars
  <2>6. starting' \in {None} \union StartSet
    BY <1>0, <1>d, <1>e, <1>f, <1>g DEF Inv, TypesOK, WhereOK, Visit,
       Launch, uiVars, procVars, budgetVars, jobVars
  <2>7. meeting' \in {None} \union MeetingSet
    BY <1>0, <1>d, <1>e, <1>f, <1>g DEF Inv, TypesOK, WhereOK, Visit,
       Launch, uiVars, procVars, budgetVars, jobVars
  <2> QED BY <2>1, <2>2, <2>3, <2>4, <2>5, <2>6, <2>7 DEF TypesOK
<1>2. WhereOK'
  BY <1>0, <1>d, <1>e, <1>f, <1>g, NotNone DEF Inv, TypesOK, WhereOK,
     Launch, Visit, Places, uiVars, procVars, budgetVars, jobVars
<1>3. StopsOK'
  BY <1>0, <1>d, <1>e, <1>f, <1>g DEF Inv, TypesOK, WhereOK, StopsOK,
     Launch, Visit, uiVars, procVars, budgetVars, jobVars
<1>4. ResourcesOK'
  BY <1>0, <1>d, <1>e, <1>f, <1>g, NotNone DEF Inv, TypesOK, WhereOK,
     ResourcesOK, Launch, Visit, uiVars, procVars, budgetVars, jobVars
<1> QED BY <1>1, <1>2, <1>3, <1>4 DEF Inv

(* What a stopping meeting owns is let go of.                              *)
LEMMA CleanStep == ASSUME Inv, Clean PROVE Inv'
<1>1. TypesOK'
  <2>1. /\ generation' \in Nat /\ starts' \in Nat /\ faults' \in Nat /\ children' \in Nat
    BY DEF Inv, TypesOK, Clean, CleanedUp, CleanupFails, Goto, KeepLive,
       PermitAfter, jobVars, uiVars, NoFault, Fault, budgetVars, FinishLive
  <2>2. /\ flag' \in BOOLEAN /\ quitting' \in BOOLEAN /\ exiting' \in BOOLEAN
       /\ started' \in BOOLEAN
    BY DEF Inv, TypesOK, Clean, CleanedUp, CleanupFails, Goto, KeepLive,
       PermitAfter, jobVars, uiVars, NoFault, Fault, budgetVars, FinishLive
  <2>3. /\ live' \in BOOLEAN /\ preparing' \in BOOLEAN /\ leaked' \in BOOLEAN
       /\ closed' \in BOOLEAN /\ contained' \in BOOLEAN
    BY DEF Inv, TypesOK, Clean, CleanedUp, CleanupFails, Goto, KeepLive,
       PermitAfter, jobVars, uiVars, NoFault, Fault, budgetVars, FinishLive
  <2>4. /\ at' \in Places
       /\ capture' \in {"none", "ready", "opening", "open", "released"}
       /\ background' \in {"none", "small", "large"}
    BY DEF Inv, TypesOK, Places, Clean, CleanedUp, CleanupFails, Goto,
       KeepLive, PermitAfter, jobVars, uiVars, NoFault, Fault, budgetVars,
       FinishLive
  <2>5. commands' \in Seq({Stop} \union StartSet)
    BY DEF Inv, TypesOK, Clean, CleanedUp, CleanupFails, Goto, KeepLive,
       PermitAfter, jobVars, uiVars, NoFault, Fault, budgetVars, FinishLive
  <2>6. starting' \in {None} \union StartSet
    BY DEF Inv, TypesOK, WhereOK, Visit, Launch, Clean, CleanedUp,
       CleanupFails, Goto, KeepLive, PermitAfter, jobVars, uiVars, NoFault,
       Fault, budgetVars, FinishLive
  <2>7. meeting' \in {None} \union MeetingSet
    BY DEF Inv, TypesOK, WhereOK, Visit, Launch, Clean, CleanedUp,
       CleanupFails, Goto, KeepLive, PermitAfter, jobVars, uiVars, NoFault,
       Fault, budgetVars, FinishLive
  <2> QED BY <2>1, <2>2, <2>3, <2>4, <2>5, <2>6, <2>7 DEF TypesOK
<1>2. WhereOK'
  BY NotNone DEF Inv, TypesOK, WhereOK, Launch, Visit, Places, Clean,
     CleanedUp, CleanupFails, Goto, KeepLive, PermitAfter, jobVars, uiVars,
     NoFault, Fault, budgetVars, FinishLive
<1>3. StopsOK'
  BY DEF Inv, TypesOK, WhereOK, StopsOK, Launch, Visit, Clean, CleanedUp,
     CleanupFails, Goto, KeepLive, PermitAfter, jobVars, uiVars, NoFault,
     Fault, budgetVars, FinishLive
<1>4. ResourcesOK'
  BY NotNone DEF Inv, TypesOK, WhereOK, ResourcesOK, Launch, Visit, Clean,
     CleanedUp, CleanupFails, Goto, KeepLive, PermitAfter, jobVars, uiVars,
     NoFault, Fault, budgetVars, FinishLive
<1> QED BY <1>1, <1>2, <1>3, <1>4 DEF Inv

(* The end of a turn; the worker may end.                                  *)
LEMMA ExitStep == ASSUME Inv, Exit PROVE Inv'
<1>1. TypesOK'
  BY DEF Inv, TypesOK, WhereOK, Places, Exit, Finished, Goto, budgetVars,
     jobVars, procVars, uiVars
<1>2. WhereOK'
  BY NotNone DEF Inv, TypesOK, WhereOK, Launch, Visit, Places, Exit,
     Finished, Goto, budgetVars, jobVars, procVars, uiVars
<1>3. StopsOK'
  BY DEF Inv, TypesOK, WhereOK, StopsOK, Launch, Visit, Exit, Finished,
     Goto, budgetVars, jobVars, procVars, uiVars
<1>4. ResourcesOK'
  BY NotNone DEF Inv, TypesOK, WhereOK, ResourcesOK, Launch, Visit, Exit,
     Finished, Goto, budgetVars, jobVars, procVars, uiVars
<1> QED BY <1>1, <1>2, <1>3, <1>4 DEF Inv

(* Nothing happens.                                                        *)
LEMMA StutterStep == ASSUME Inv, UNCHANGED runtimeVars PROVE Inv'
BY DEF Inv, TypesOK, WhereOK, StopsOK, ResourcesOK, Launch, Visit, Places,
       runtimeVars, uiVars, procVars, budgetVars, jobVars

----------------------------------------------------------------------------
(* The four parts hold in every state of every execution.                  *)
THEOREM RuntimeInvariant == RuntimeSpec => []Inv
<1>1. Inv /\ [RuntimeNext]_runtimeVars => Inv'
  <2> SUFFICES ASSUME Inv, [RuntimeNext]_runtimeVars PROVE Inv'
    OBVIOUS
  <2>1. CASE \E replay \in BOOLEAN : AskStart(replay)
    BY <2>1, AskStartStep
  <2>2. CASE \E kind \in {"small", "large"} : Admit(kind)
    BY <2>2, AdmitStep
  <2>3. CASE AskStop \/ Quit \/ EndJob
    BY <2>3, AskStopStep, QuitStep, EndJobStep
  <2>4. CASE CheckFlag \/ OpenDevices \/ ReleaseDevices
    BY <2>4, CheckFlagStep, OpenDevicesStep, ReleaseDevicesStep
  <2>5. CASE Worker
    BY <2>5, SignalStep, TakeStopStep, TakeStartStep, CommandsDoneStep, EnterLiveStep,
       WaitOverStep, RecheckStep, SpawnStep, StartedStep, StartFailsStep, ObserveStopStep,
       WatchStep, CleanStep, ExitStep DEF Worker
  <2>6. CASE UNCHANGED runtimeVars
    BY <2>6, StutterStep
  <2> QED
    BY <2>1, <2>2, <2>3, <2>4, <2>5, <2>6 DEF RuntimeNext
<1> QED
  BY <1>1, InitInv, PTL DEF RuntimeSpec

(* The worker, the channel, the meeting and the budget have the types      *)
(* their users expect.                                                     *)
THEOREM RuntimeTypes == RuntimeSpec => []TypesOK
<1>1. Inv => TypesOK
  BY DEF Inv
<1> QED
  BY <1>1, RuntimeInvariant, PTL

(* A stop reaches every Start and every meeting that came before it,       *)
(* although its command may be dropped and a later Start lowers the flag;  *)
(* and a process or device of a meeting implies the live permit, with no   *)
(* large model beside it and none at all before the capture has begun.     *)
THEOREM PriorityTheorem == RuntimeSpec => []MeetingHasPriority
<1>1. Inv => StopWins
  BY DEF Inv, StopsOK, StopWins, Launch
<1>2. Inv => ForegroundProtected
  BY DEF Inv, TypesOK, ResourcesOK, ForegroundProtected
<1> QED
  BY <1>1, <1>2, RuntimeInvariant, PTL DEF MeetingHasPriority

(* The receipt that lets the application end means that nothing of a       *)
(* meeting is left.                                                        *)
THEOREM ContainedTheorem == RuntimeSpec => []ContainedMeansGone
<1>1. Inv => ContainedMeansGone
  BY DEF Inv, TypesOK, WhereOK, ResourcesOK, ContainedMeansGone
<1> QED
  BY <1>1, RuntimeInvariant, PTL

(* The receipt is not taken back: with the theorem above, nothing of a     *)
(* meeting comes to life after it.                                         *)
THEOREM ContainedForGood == RuntimeSpec => [][contained => contained']_runtimeVars
<1>1. Inv /\ [RuntimeNext]_runtimeVars => [contained => contained']_runtimeVars
  <2> SUFFICES ASSUME Inv, RuntimeNext, contained PROVE contained'
    BY DEF runtimeVars
  <2>1. at = "ended"
    BY DEF Inv, WhereOK
  <2>2. CASE \E replay \in BOOLEAN : AskStart(replay)
    BY <2>1, <2>2 DEF AskStart
  <2>3. CASE AskStop \/ Quit \/ EndJob \/ \E kind \in {"small", "large"} : Admit(kind)
    BY <2>3 DEF AskStop, Quit, EndJob, Admit
  <2>4. CASE CheckFlag \/ OpenDevices \/ ReleaseDevices
    BY <2>4 DEF CheckFlag, OpenDevices, ReleaseDevices, Bridge
  <2>5. ~Worker
    BY <2>1 DEF Worker, Signal, TakeStop, TakeStart, CommandsDone, EnterLive, WaitOver,
                Recheck, Spawn, Started, StartFails, ObserveStop, Watch, Clean, Exit
  <2> QED
    BY <2>2, <2>3, <2>4, <2>5 DEF RuntimeNext
<1> QED
  BY <1>1, RuntimeInvariant, PTL DEF RuntimeSpec

----------------------------------------------------------------------------
(* The translator's node.                                                  *)

----------------------------------------------------------------------------
(* The invariant.                                                          *)

Sources == UNION {[S -> Nat] : S \in SUBSET Texts}
Id == [sources : Sources, run : Nat]
Kinds == {"request", "final", "failed"}
Event == [kind : Kinds, id : Id, attempt : Nat, run : Nat]
Rows == [id : Id, attempt : Nat, state : {"requested", "final", "failed"}]
File == [action : Nat, id : Id, ceiling : Nat]
NodePlaces == {"down", "idle", "ready", "poll", "page", "choose", "second", "complete", "stop"}

NodeTypes ==
  /\ version \in [Texts -> Nat] /\ requests \in Seq(Rows)
  /\ stored \subseteq Event /\ late \subseteq Event /\ committed \subseteq Event
  /\ rejected \subseteq Event
  /\ outbox \in Seq(Event) /\ todo \in Seq(Event) /\ recovery \in Seq(Event)
  /\ budget \subseteq File
  /\ actions \in Nat /\ action \in {0, actions} /\ run \in Nat /\ after \in Nat
  /\ place \in NodePlaces /\ ready \in BOOLEAN /\ loaded \in BOOLEAN
  /\ waiting \in Event \cup {NoRequest} /\ active \in Event \cup {NoRequest}

(* The events of a list.                                                   *)
In(list) == {list[i] : i \in DOMAIN list}

(* A version of a text that is not in the future of the ledger.            *)
Old(id) == \A t \in DOMAIN id.sources : id.sources[t] <= version[t]

(* How many attempts a text may have had by now: an action that has not    *)
(* looked at it yet keeps its grant in reserve.                            *)
Limit(id) ==
  IF action # 0 /\ {b \in budget : b.action = action /\ b.id = id} = {}
  THEN Allowance * actions ELSE Allowance * (1 + actions)

(* The translations of the ledger, and the files of the budget.            *)
RowsOK ==
  /\ \A i, k \in DOMAIN requests : requests[i].id = requests[k].id => i = k
  /\ \A i \in DOMAIN requests : Old(requests[i].id) /\ requests[i].attempt <= Limit(requests[i].id)
BudgetOK ==
  /\ \A b \in budget : b.action \in 1..actions /\ b.ceiling <= Allowance * (1 + b.action)
  /\ \A b, c \in budget : b.action = c.action /\ b.id = c.id => b = c

(* An event the ledger can take, or refuse as late, now and later.         *)
Sound(e) ==
  /\ Old(e.id) /\ e.attempt >= 1
  /\ e.kind # "request" \/ e.attempt > 1 => Stored(e.id) # {}
  /\ e.kind = "request" =>
       /\ e.attempt <= Limit(e.id)
       /\ \A i \in Stored(e.id) : e.attempt <= requests[i].attempt + 1

(* A first request that waits for the ledger to take it.                   *)
Unasked(e) == e.kind = "request" /\ Current(e.id) /\ Stored(e.id) = {}

(* The events on disk, on their way and at the ledger.                     *)
EventsOK ==
  /\ \A e \in In(outbox) : Sound(e)
  /\ late \subseteq In(outbox) \cup stored
  /\ In(todo) \subseteq In(outbox) \cup stored
  /\ committed \subseteq stored /\ committed \cap In(outbox) = {}
  /\ \A e \in stored : Old(e.id) /\ e.attempt >= 1 /\ Stored(e.id) # {}
  /\ \A e \in In(outbox) : Unasked(e) =>
       ~Claimed(e.id) /\ \A f \in In(outbox) : Unasked(f) => f = e

(* What was refused for good will be refused for ever.                     *)
Refused(e) ==
  /\ Old(e.id)
  /\ e.kind = "request" =>
       \/ ~Current(e.id)
       \/ \E i \in Stored(e.id) : requests[i].state = "final" \/ requests[i].attempt >= e.attempt

(* What the process remembers.                                             *)
MemoryOK ==
  /\ \A e \in rejected : Refused(e)
  /\ ready => \A e \in In(outbox) : e.kind = "request" => e \in rejected \/ e = waiting
  /\ ~ready => waiting = NoRequest /\ active = NoRequest /\ recovery = <<>> /\ after = 0 /\ ~loaded
  /\ active # NoRequest => Old(active.id) /\ active.attempt >= 1 /\ Stored(active.id) # {}
  /\ waiting # NoRequest =>
       /\ waiting.kind = "request" /\ waiting.run = run
       /\ waiting \in stored \/ \A i \in Stored(waiting.id) : requests[i].attempt < waiting.attempt

(* Where the process is.                                                   *)
PlaceOK ==
  /\ todo # <<>> => place \in {"ready", "poll", "second", "complete", "stop"}
  /\ place = "ready" => ~ready
  /\ place \in {"poll", "page", "choose", "second", "complete"} => ready
  /\ place \in {"page", "choose"} => waiting = NoRequest /\ ~Blocked
  /\ place = "page" => recovery = <<>> /\ ~loaded

(* A retry that has still to be asked for.                                 *)
Due(e) ==
  /\ Sound(e) /\ e.kind = "request" /\ e.run = run
  /\ Stored(e.id) # {} /\ \A i \in Stored(e.id) : requests[i].attempt < e.attempt

(* A request without a result that has been looked at.                     *)
Covered(row) ==
  \/ \E e \in stored : e.kind = "request" /\ e.id = row.id /\ e.run = run
  \/ row.attempt >= Ceiling(row)
  \/ \E e \in In(recovery) : e.id = row.id
  \/ waiting # NoRequest /\ waiting.id = row.id

(* The pages of the recovery.                                              *)
RecoveryOK ==
  /\ \A n \in DOMAIN recovery : Due(recovery[n])
  /\ \A m, n \in DOMAIN recovery : recovery[m].id = recovery[n].id => m = n
  /\ waiting # NoRequest => \A e \in In(recovery) : e.id # waiting.id
  /\ after <= Len(requests)
  /\ \A i \in Unresolved(0) : i <= after \/ loaded => Covered(requests[i])

NodeInv == NodeTypes /\ RowsOK /\ BudgetOK /\ EventsOK /\ MemoryOK /\ PlaceOK /\ RecoveryOK

----------------------------------------------------------------------------
(* Numbers and lists.                                                      *)

(* A set of natural numbers has a least one.                               *)
LEMMA LeastNatural ==
  ASSUME NEW T, T \subseteq Nat, T # {}
  PROVE  \E n \in T : \A m \in T : n <= m
<1> DEFINE R == OpToRel(<, Nat)
<1>1. IsWellFoundedOn(R, Nat)
  BY NatLessThanWellFounded
<1>2. R = {ss \in Nat \X Nat : ss[1] < ss[2]}
  BY DEF OpToRel
<1> HIDE DEF R
<1>3. PICK n \in T : \A m \in T : ~(<<m, n>> \in R)
  BY <1>1, WFMin
<1>4. ASSUME NEW m \in T, m < n PROVE FALSE
  <2>1. m \in Nat /\ n \in Nat
    OBVIOUS
  <2>2. <<m, n>> \in R
    BY <1>2, <1>4, <2>1
  <2> QED
    BY <1>3, <2>2
<1> QED
  BY <1>4

(* A bounded one has a greatest, and Max is it.                            *)
LEMMA GreatestNatural ==
  ASSUME NEW T, T \subseteq Nat, T # {}, NEW b \in Nat, \A n \in T : n <= b
  PROVE  Max(T) \in T /\ \A m \in T : m <= Max(T)
<1> DEFINE below == {b - n : n \in T}
<1>1. \A n \in T : b - n \in Nat /\ b - n \in below
  OBVIOUS
<1>2. PICK d \in below : \A e \in below : d <= e
  <2>1. below \subseteq Nat /\ below # {}
    BY <1>1
  <2> QED
    BY <2>1, LeastNatural
<1>3. PICK n \in T : d = b - n
  BY <1>2
<1>4. ASSUME NEW m \in T PROVE n >= m
  <2>1. b - n <= b - m
    BY <1>1, <1>2, <1>3
  <2> QED
    BY <2>1
<1>5. \E x \in T : \A y \in T : x >= y
  BY <1>4
<1>6. Max(T) \in T /\ \A y \in T : Max(T) >= y
  BY <1>5 DEF Max
<1> QED
  BY <1>6

(* An event that comes last in a list.                                     *)
LEMMA AppendFacts ==
  ASSUME NEW T, NEW list \in Seq(T), NEW e \in T
  PROVE  Append(list, e) \in Seq(T) /\ In(Append(list, e)) = In(list) \cup {e}
<1>2. /\ Append(list, e) \in Seq(T)
      /\ DOMAIN list = 1..Len(list) /\ Len(list) \in Nat
      /\ DOMAIN Append(list, e) = 1..(Len(list) + 1)
      /\ \A i \in 1..Len(list) : Append(list, e)[i] = list[i] /\ list[i] \in T
      /\ Append(list, e)[Len(list) + 1] = e
  OBVIOUS
<1>3. ASSUME NEW x \in In(Append(list, e)) PROVE x \in In(list) \cup {e}
  <2>1. PICK i \in 1..(Len(list) + 1) : x = Append(list, e)[i]
    BY <1>2 DEF In
  <2>2. i \in 1..Len(list) \/ i = Len(list) + 1
    BY <1>2
  <2> QED
    BY <1>2, <2>1, <2>2 DEF In
<1>4. ASSUME NEW x \in In(list) \cup {e} PROVE x \in In(Append(list, e))
  <2>1. Len(list) + 1 \in 1..(Len(list) + 1) /\ 1..Len(list) \subseteq 1..(Len(list) + 1)
    BY <1>2
  <2> QED
    BY <1>2, <2>1 DEF In
<1> QED
  BY <1>2, <1>3, <1>4

(* The first event of a list, and the others.                              *)
LEMMA HeadFacts ==
  ASSUME NEW T, NEW list \in Seq(T), list # <<>>
  PROVE  /\ Head(list) \in In(list) /\ Head(list) \in T
         /\ Tail(list) \in Seq(T) /\ In(Tail(list)) \subseteq In(list)
         /\ \A m \in DOMAIN Tail(list) : m + 1 \in DOMAIN list /\ Tail(list)[m] = list[m + 1]
         /\ 1 \in DOMAIN list /\ Head(list) = list[1]
<1>1. /\ Head(list) \in T /\ Tail(list) \in Seq(T) /\ Len(Tail(list)) = Len(list) - 1
      /\ \A i \in 1..Len(Tail(list)) : Tail(list)[i] = list[i + 1]
  BY HeadTailProperties
<1>2. Len(list) \in Nat \ {0} /\ DOMAIN list = 1..Len(list)
  BY EmptySeq, LenProperties
<1>3. DOMAIN Tail(list) = 1..(Len(list) - 1)
  BY <1>1, LenProperties
<1>4. Head(list) = list[1] /\ 1 \in DOMAIN list
  <2>1. Head(list) = list[1]
    OBVIOUS
  <2>2. 1 \in 1..Len(list)
    BY <1>2
  <2> QED
    BY <1>2, <2>1, <2>2
<1>5. \A m \in DOMAIN Tail(list) : m + 1 \in DOMAIN list /\ Tail(list)[m] = list[m + 1]
  BY <1>1, <1>2, <1>3
<1> QED
  BY <1>1, <1>4, <1>5 DEF In

(* Among the first of a set of places every place before another is, and   *)
(* when there are fewer than asked for, all are.                           *)
LEMMA FirstFacts ==
  ASSUME NEW b \in Nat, NEW S, S \subseteq 1..b, NEW n \in Nat \ {0}
  PROVE  /\ FirstOf(S, n) \subseteq S
         /\ \A i \in S, k \in FirstOf(S, n) : i <= k => i \in FirstOf(S, n)
         /\ Cardinality(FirstOf(S, n)) < n => FirstOf(S, n) = S
         /\ IsFiniteSet(FirstOf(S, n)) /\ Cardinality(FirstOf(S, n)) \in Nat
<1> DEFINE upto(i) == {k \in S : k <= i}
           F == FirstOf(S, n)
<1>1. F \subseteq S /\ \A i \in S : i \in F <=> Cardinality(upto(i)) <= n
  BY DEF FirstOf, Rank
<1>2. IsFiniteSet(S)
  <2>1. IsFiniteSet(1..b)
    BY FS_Interval
  <2> QED
    BY <2>1, FS_Subset
<1>3. /\ IsFiniteSet(F) /\ Cardinality(F) \in Nat
      /\ \A i : IsFiniteSet(upto(i)) /\ Cardinality(upto(i)) \in Nat
  BY <1>1, <1>2, FS_Subset, FS_CardinalityType
<1>0. S \subseteq Nat /\ \A i \in S : i \in Nat
  OBVIOUS
<1> HIDE DEF F
<1>4. ASSUME NEW i \in S, NEW k \in F, i <= k PROVE i \in F
  <2>0. i \in Nat /\ k \in Nat
    BY <1>0, <1>1
  <2>1. ASSUME NEW j \in upto(i) PROVE j \in upto(k)
    <3>1. j \in Nat /\ j <= i
      BY <1>0
    <3> QED
      BY <1>4, <2>0, <3>1
  <2>2. Cardinality(upto(i)) <= Cardinality(upto(k))
    BY <1>3, <2>1, FS_Subset
  <2>3. k \in S /\ Cardinality(upto(k)) <= n
    BY <1>1
  <2>4. Cardinality(upto(i)) <= n
    BY <1>3, <2>2, <2>3
  <2> QED
    BY <1>1, <2>4
<1>5. ASSUME Cardinality(F) < n, F # S PROVE FALSE
  <2> DEFINE rest == S \ F
  <2>1. PICK i \in rest : \A j \in rest : i <= j
    <3>1. rest \subseteq Nat /\ rest # {}
      BY <1>0, <1>1, <1>5
    <3> QED
      BY <3>1, LeastNatural
  <2>2. ASSUME NEW j \in upto(i), j \notin F PROVE j = i
    <3>1. j \in Nat /\ i \in Nat /\ j <= i
      BY <1>0, <2>1
    <3>2. i <= j
      BY <2>1, <2>2
    <3> QED
      BY <3>1, <3>2
  <2>3. IsFiniteSet(F \cup {i}) /\ Cardinality(F \cup {i}) = Cardinality(F) + 1
    BY <1>3, <2>1, FS_AddElement
  <2>4. upto(i) \subseteq F \cup {i}
    BY <2>2
  <2>5. Cardinality(upto(i)) <= Cardinality(F) + 1
    BY <2>3, <2>4, FS_Subset
  <2>6. Cardinality(upto(i)) <= n
    BY <1>3, <1>5, <2>5
  <2> QED
    BY <1>1, <2>1, <2>6
<1> QED
  BY <1>1, <1>3, <1>4, <1>5 DEF F

(* Every place of a set has a rank of its own, and every rank a place.     *)
LEMMA RankFacts ==
  ASSUME NEW b \in Nat, NEW S, S \subseteq 1..b
  PROVE  /\ Cardinality(S) \in Nat
         /\ \A i \in S : Rank(i, S) \in 1..Cardinality(S)
         /\ \A n \in 1..Cardinality(S) : \E i \in S : Rank(i, S) = n
         /\ \A i, k \in S : Rank(i, S) = Rank(k, S) => i = k
<1> DEFINE upto(i) == {k \in S : k <= i}
           card == Cardinality(S)
           rank == [i \in S |-> Rank(i, S)]
<1>0. S \subseteq Nat /\ \A i \in S : i \in Nat
  OBVIOUS
<1>1. IsFiniteSet(S) /\ card \in Nat
  <2>1. IsFiniteSet(1..b)
    BY FS_Interval
  <2> QED
    BY <2>1, FS_Subset, FS_CardinalityType
<1>2. \A i : /\ IsFiniteSet(upto(i)) /\ Cardinality(upto(i)) \in Nat
             /\ Cardinality(upto(i)) <= card /\ Rank(i, S) = Cardinality(upto(i))
  BY <1>1, FS_Subset, FS_CardinalityType DEF Rank
<1>3. ASSUME NEW i \in S PROVE Rank(i, S) \in 1..card
  <2>1. i \in upto(i)
    BY <1>0
  <2>2. Cardinality(upto(i)) # 0
    BY <1>2, <2>1, FS_EmptySet
  <2> QED
    BY <1>1, <1>2, <2>2
<1>4. ASSUME NEW i \in S, NEW k \in S, i < k PROVE Rank(i, S) # Rank(k, S)
  <2>0. i \in Nat /\ k \in Nat
    BY <1>0
  <2>1. k \in upto(k) /\ k \notin upto(i)
    BY <1>4, <2>0
  <2>3. ASSUME NEW j \in upto(i) PROVE j \in upto(k)
    <3>1. j \in Nat /\ j <= i
      BY <1>0
    <3> QED
      BY <1>4, <2>0, <3>1
  <2>2. Cardinality(upto(i)) # Cardinality(upto(k))
    BY <1>2, <2>1, <2>3, FS_Subset
  <2> QED
    BY <1>2, <2>2
<1>5. rank \in Injection(S, 1..card)
  <2>1. rank \in [S -> 1..card]
    BY <1>3
  <2>2. \A i, k \in S : rank[i] = rank[k] => i = k
    <3> SUFFICES ASSUME NEW i \in S, NEW k \in S, i # k PROVE Rank(i, S) # Rank(k, S)
      OBVIOUS
    <3>1. i < k \/ k < i
      OBVIOUS
    <3> QED
      BY <1>4, <3>1
  <2> QED
    BY <2>1, <2>2 DEF Injection, IsInjective
<1>6. IsFiniteSet(1..card) /\ Cardinality(1..card) = card
  <2>1. 0 \in Int /\ 1 \in Int /\ card \in Int
    BY <1>1
  <2>2. IsFiniteSet(1..card) /\ Cardinality(1..card) = IF 1 > card THEN 0 ELSE card - 1 + 1
    BY <2>1, FS_Interval
  <2> QED
    BY <1>1, <2>2
<1>7. rank \in Surjection(S, 1..card)
  BY <1>5, <1>6, FS_Injection
<1>8. \A n \in 1..card : \E i \in S : rank[i] = n
  BY <1>7 DEF Surjection
<1>9. \A i, k \in S : rank[i] = rank[k] => i = k
  BY <1>5 DEF Injection, IsInjective
<1> QED
  BY <1>1, <1>3, <1>8, <1>9

(* Picked takes the members at some places of a list, each once.           *)
LEMMA PickedFacts ==
  ASSUME NEW T, NEW list \in Seq(T), NEW S \in SUBSET DOMAIN list
  PROVE  /\ Picked(list, S) \in Seq(T)
         /\ In(Picked(list, S)) = {list[i] : i \in S}
         /\ \E f : \A n \in DOMAIN Picked(list, S) :
              /\ f[n] \in S /\ Picked(list, S)[n] = list[f[n]]
              /\ \A m \in DOMAIN Picked(list, S) : f[m] = f[n] => m = n
<1> DEFINE card == Cardinality(S)
           f == [n \in 1..card |-> CHOOSE i \in S : Rank(i, S) = n]
           p == Picked(list, S)
<1>1. DOMAIN list = 1..Len(list) /\ Len(list) \in Nat /\ \A i \in S : list[i] \in T
  BY LenProperties
<1>2. /\ card \in Nat /\ \A i \in S : Rank(i, S) \in 1..card
      /\ \A n \in 1..card : \E i \in S : Rank(i, S) = n
      /\ \A i, k \in S : Rank(i, S) = Rank(k, S) => i = k
  BY <1>1, RankFacts
<1>3. \A n \in 1..card : f[n] \in S /\ Rank(f[n], S) = n
  BY <1>2
<1>4. p = [n \in 1..card |-> list[f[n]]]
  BY DEF Picked
<1> HIDE DEF p, f, card
<1>5. p \in Seq(T)
  <2>1. p \in [1..card -> T]
    BY <1>1, <1>3, <1>4
  <2> QED
    BY <1>2, <2>1
<1>6. DOMAIN p = 1..card
  BY <1>4
<1>7. In(p) \subseteq {list[i] : i \in S}
  BY <1>3, <1>4, <1>6 DEF In
<1>8. ASSUME NEW i \in S PROVE list[i] \in In(p)
  <2>1. Rank(i, S) \in 1..card
    BY <1>2
  <2> DEFINE n == Rank(i, S)
  <2>2. f[n] \in S /\ Rank(f[n], S) = n
    BY <1>3, <2>1
  <2>3. f[n] = i
    BY <1>2, <2>2
  <2> QED
    BY <1>4, <1>6, <2>1, <2>3 DEF In
<1>9. \A n \in DOMAIN p : /\ f[n] \in S /\ p[n] = list[f[n]]
                          /\ \A m \in DOMAIN p : f[m] = f[n] => m = n
  BY <1>3, <1>4, <1>6
<1> QED
  BY <1>5, <1>7, <1>8, <1>9 DEF p

----------------------------------------------------------------------------
(* The ledger.                                                             *)

(* What the actions of the ledger do to what it held: no text and no       *)
(* attempt goes back, and a translation that is final stays final.         *)
Grown ==
  /\ version' \in [Texts -> Nat] /\ \A t \in Texts : version[t] <= version'[t]
  /\ requests' \in Seq(Rows) /\ Len(requests) <= Len(requests')
  /\ \A i \in DOMAIN requests :
       /\ requests'[i].id = requests[i].id /\ requests[i].attempt <= requests'[i].attempt
       /\ requests[i].state = "final" => requests'[i].state = "final"
  /\ stored \subseteq stored' /\ stored' \subseteq Event

(* The texts a request names are texts of the ledger.                      *)
LEMMA SourcesFacts ==
  ASSUME NEW id \in Id
  PROVE  /\ DOMAIN id.sources \subseteq Texts
         /\ \A t \in DOMAIN id.sources : id.sources[t] \in Nat
<1>1. PICK S \in SUBSET Texts : id.sources \in [S -> Nat]
  BY DEF Id, Sources
<1> QED
  BY <1>1

(* What has grown keeps what is old old, what is stale stale, and what was *)
(* refused refused.                                                        *)
LEMMA GrownKeeps ==
  ASSUME NodeTypes, Grown, NEW e \in Event
  PROVE  /\ Old(e.id) => Old(e.id)' /\ (Current(e.id)' => Current(e.id))
         /\ Stored(e.id) \subseteq Stored(e.id)'
         /\ Refused(e) => Refused(e)'
<1>1. e.id \in Id
  BY DEF Event
<1>2. /\ DOMAIN e.id.sources \subseteq Texts
      /\ \A t \in DOMAIN e.id.sources : e.id.sources[t] \in Nat
  BY <1>1, SourcesFacts
<1>3. \A t \in Texts : version[t] \in Nat /\ version'[t] \in Nat /\ version[t] <= version'[t]
  BY DEF NodeTypes, Grown
<1>4. /\ DOMAIN requests = 1..Len(requests) /\ Len(requests) \in Nat
      /\ DOMAIN requests' = 1..Len(requests') /\ Len(requests') \in Nat
      /\ \A i \in DOMAIN requests : requests[i] \in Rows
      /\ \A i \in DOMAIN requests' : requests'[i] \in Rows
  BY DEF NodeTypes, Grown
<1>5. Len(requests) <= Len(requests')
  BY DEF Grown
<1>6. DOMAIN requests \subseteq DOMAIN requests'
  BY <1>4, <1>5
<1>7. ASSUME Old(e.id) PROVE Old(e.id)' /\ (Current(e.id)' => Current(e.id))
  <2>1. \A t \in DOMAIN e.id.sources : e.id.sources[t] <= version[t]
    BY <1>7 DEF Old
  <2>2. \A t \in DOMAIN e.id.sources : e.id.sources[t] <= version'[t]
    BY <1>2, <1>3, <2>1
  <2>3. ASSUME NEW t \in DOMAIN e.id.sources, e.id.sources[t] = version'[t]
        PROVE  e.id.sources[t] = version[t]
    BY <1>2, <1>3, <2>1, <2>3
  <2> QED
    BY <2>2, <2>3 DEF Old, Current
<1>8. Stored(e.id) \subseteq Stored(e.id)'
  BY <1>6 DEF Stored, Grown
<1>9. ASSUME Refused(e), e.kind = "request", Current(e.id)'
      PROVE  \E i \in Stored(e.id)' : requests'[i].state = "final" \/ requests'[i].attempt >= e.attempt
  <2>1. Current(e.id)
    BY <1>7, <1>9 DEF Refused
  <2>2. PICK i \in Stored(e.id) : requests[i].state = "final" \/ requests[i].attempt >= e.attempt
    BY <1>9, <2>1 DEF Refused
  <2>3. i \in DOMAIN requests /\ i \in Stored(e.id)'
    BY <1>8 DEF Stored
  <2>4. requests[i].attempt \in Nat /\ requests'[i].attempt \in Nat /\ e.attempt \in Nat
    BY <1>4, <1>6, <2>3 DEF Rows, Event
  <2>5. /\ requests[i].attempt <= requests'[i].attempt
        /\ requests[i].state = "final" => requests'[i].state = "final"
    BY <2>3 DEF Grown
  <2>6. requests'[i].state = "final" \/ requests'[i].attempt >= e.attempt
    BY <2>2, <2>4, <2>5
  <2> QED
    BY <2>3, <2>6
<1>10. Refused(e) => Refused(e)'
  BY <1>7, <1>9 DEF Refused
<1> QED
  BY <1>7, <1>8, <1>10

(* The ledger takes an event: a new translation, or the next state of the  *)
(* one it names.                                                           *)
Takes(e) ==
  /\ e \in In(outbox) \ stored /\ Current(e.id)
  /\ stored' = stored \cup {e} /\ version' = version
  /\ \A i \in DOMAIN requests :
       requests'[i] = IF requests[i].id = e.id THEN Row(e) ELSE requests[i]
  /\ \A i \in Stored(e.id) : Follows(e, requests[i])
  /\ \A i \in DOMAIN requests' \ DOMAIN requests :
       /\ requests'[i] = Row(e) /\ i = Len(requests) + 1
       /\ e.kind = "request" /\ e.attempt = 1 /\ Stored(e.id) = {} /\ ~Claimed(e.id)
  /\ Stored(e.id)' # {}

LimitsGrow == \A id : Limit(id) <= Limit(id)'
LedgerStep ==
  /\ Grown /\ LimitsGrow
  /\ UNCHANGED <<requests, stored>> \/ \E e : Takes(e)

(* What is granted is a number of attempts.                                *)
LEMMA GrantFacts ==
  ASSUME NEW n \in Nat
  PROVE  /\ Allowance * n \in Nat /\ Allowance * (1 + n) \in Nat
         /\ Allowance * (1 + n) = Allowance * n + Allowance
<1>1. Allowance \in Nat /\ 1 + n \in Nat
  BY NodeAssumption
<1>2. \A a, b \in Nat : a * b \in Nat /\ a * (1 + b) = a * b + a
  OBVIOUS
<1> QED
  BY <1>1, <1>2

(* A limit is a number, and stays while nothing is granted.                *)
LEMMA LimitFacts ==
  ASSUME NodeTypes
  PROVE  /\ \A id : Limit(id) \in Nat
         /\ UNCHANGED <<action, actions, budget>> => LimitsGrow
<1>1. \A id : Limit(id) \in Nat
  BY GrantFacts DEF Limit, NodeTypes
<1>2. ASSUME UNCHANGED <<action, actions, budget>>, NEW id PROVE Limit(id) <= Limit(id)'
  <2>1. Limit(id)' = Limit(id)
    BY <1>2 DEF Limit
  <2> QED
    BY <1>1, <2>1
<1> QED
  BY <1>1, <1>2 DEF LimitsGrow

(* What follows from the state alone: the ledger that is left alone grows. *)
LEMMA StillGrows ==
  ASSUME NodeTypes, UNCHANGED <<version, requests, stored>>
  PROVE  Grown
<1>1. \A i \in DOMAIN requests : requests[i].attempt \in Nat
  <2>1. \A i \in DOMAIN requests : requests[i] \in Rows
    BY DEF NodeTypes
  <2> QED
    BY <2>1 DEF Rows
<1>2. \A t \in Texts : version[t] \in Nat
  BY DEF NodeTypes
<1>3. Len(requests) \in Nat
  BY DEF NodeTypes
<1> QED
  BY <1>1, <1>2, <1>3 DEF Grown, NodeTypes

(* A call to the ledger is a step of it.                                   *)
LEMMA IngestStep ==
  ASSUME NodeTypes, RowsOK, EventsOK, NEW e \in In(outbox) \cup stored, Ingest(e),
         UNCHANGED <<version, action, actions, budget>>
  PROVE  /\ LedgerStep
         /\ Verdict(e) = "accepted" => Takes(e)
         /\ Verdict(e) # "accepted" => UNCHANGED <<requests, stored>>
         /\ Verdict(e) \in {"accepted", "receipt"} => e \in stored'
         /\ Verdict(e) = "LATE_RESULT" => e \in In(outbox) \ stored
<1>1. LimitsGrow
  BY LimitFacts
<1>2. In(outbox) \subseteq Event /\ e \in Event
  BY DEF NodeTypes, In
<1>3. /\ DOMAIN requests = 1..Len(requests) /\ Len(requests) \in Nat
      /\ \A i \in DOMAIN requests : requests[i] \in Rows
  BY DEF NodeTypes
<1>4. CASE Verdict(e) # "accepted"
  <2>1. UNCHANGED <<requests, stored>>
    BY <1>4 DEF Ingest
  <2>2. Grown
    BY <2>1, StillGrows
  <2>3. Verdict(e) = "receipt" => e \in stored
    BY DEF Verdict
  <2>4. Verdict(e) = "LATE_RESULT" => e \notin stored
    BY DEF Verdict
  <2> QED
    BY <1>1, <1>4, <2>1, <2>2, <2>3, <2>4 DEF LedgerStep
<1>5. CASE Verdict(e) = "accepted"
  <2>1. /\ e \notin stored /\ Current(e.id)
        /\ Stored(e.id) # {} => \E i \in Stored(e.id) : Follows(e, requests[i])
        /\ Stored(e.id) = {} => e.kind = "request" /\ e.attempt = 1 /\ ~Claimed(e.id)
    BY <1>5 DEF Verdict
  <2>2. e \in In(outbox) /\ Row(e) \in Rows
    <3>1. e.id \in Id /\ e.attempt \in Nat /\ e.kind \in {"request", "final", "failed"}
      BY <1>2 DEF Event, Kinds
    <3>2. (IF e.kind = "request" THEN "requested" ELSE e.kind) \in {"requested", "final", "failed"}
      BY <3>1
    <3> QED
      BY <2>1, <3>1, <3>2 DEF Row, Rows
  <2>3. /\ stored' = stored \cup {e}
        /\ requests' = IF Stored(e.id) = {} THEN Append(requests, Row(e))
                       ELSE [i \in DOMAIN requests |->
                               IF requests[i].id = e.id THEN Row(e) ELSE requests[i]]
    BY <1>5 DEF Ingest
  <2>4. /\ Row(e).id = e.id /\ Row(e).attempt = e.attempt
        /\ Row(e).state = (IF e.kind = "request" THEN "requested" ELSE e.kind)
    BY DEF Row
  <2> DEFINE row == Row(e)
  <2> HIDE DEF row
  <2>5. CASE Stored(e.id) = {}
    <3>1. /\ requests' \in Seq(Rows) /\ DOMAIN requests' = 1..(Len(requests) + 1)
          /\ Len(requests') = Len(requests) + 1
          /\ \A i \in 1..Len(requests) : requests'[i] = requests[i]
          /\ requests'[Len(requests) + 1] = row
      BY <1>3, <2>2, <2>3, <2>5 DEF NodeTypes, row
    <3>2. \A i \in DOMAIN requests : requests[i].id # e.id
      BY <2>5 DEF Stored
    <3>3. \A i \in DOMAIN requests' \ DOMAIN requests : i = Len(requests) + 1
      BY <1>3, <3>1
    <3>4. Len(requests) + 1 \in DOMAIN requests'
      BY <1>3, <3>1
    <3>5. Stored(e.id)' # {}
      BY <2>4, <3>1, <3>4 DEF Stored, row
    <3>6. Takes(e)
      BY <1>3, <2>1, <2>2, <2>3, <2>5, <3>1, <3>2, <3>3, <3>5 DEF Takes, row
    <3>7. \A i \in DOMAIN requests : requests[i].attempt \in Nat
      BY <1>3 DEF Rows
    <3>8. Grown
      BY <1>2, <1>3, <2>3, <3>1, <3>7 DEF Grown, NodeTypes
    <3> QED
      BY <1>1, <1>5, <2>3, <3>6, <3>8 DEF LedgerStep
  <2>6. CASE Stored(e.id) # {}
    <3>1. /\ DOMAIN requests' = DOMAIN requests
          /\ \A i \in DOMAIN requests :
               requests'[i] = IF requests[i].id = e.id THEN row ELSE requests[i]
      BY <2>3, <2>6 DEF row
    <3>2. PICK k \in Stored(e.id) : Follows(e, requests[k])
      BY <2>1, <2>6
    <3>3. \A i \in Stored(e.id) : i = k
      BY <3>2 DEF Stored, RowsOK
    <3>4. k \in DOMAIN requests /\ requests[k].id = e.id
      BY <3>2 DEF Stored
    <3>5. k \in Stored(e.id)'
      BY <2>4, <3>1, <3>4 DEF Stored, row
    <3>6. Takes(e)
      BY <2>1, <2>2, <2>3, <3>1, <3>2, <3>3, <3>5 DEF Takes, row
    <3>7. requests' \in Seq(Rows) /\ Len(requests') = Len(requests)
      <4>1. \A i \in 1..Len(requests) : requests'[i] \in Rows
        BY <1>3, <2>2, <3>1 DEF row
      <4>2. requests' = [i \in 1..Len(requests) |-> requests'[i]]
        BY <1>3, <2>3, <2>6, <3>1
      <4>3. requests' \in [1..Len(requests) -> Rows]
        BY <4>1, <4>2
      <4> QED
        BY <1>3, <4>3
    <3>8. ASSUME NEW i \in DOMAIN requests
          PROVE  /\ requests'[i].id = requests[i].id /\ requests[i].attempt <= requests'[i].attempt
                 /\ requests[i].state = "final" => requests'[i].state = "final"
      <4>1. requests[i].attempt \in Nat /\ e.attempt \in Nat
        BY <1>2, <1>3 DEF Rows, Event
      <4>2. CASE requests[i].id = e.id
        <5>1. requests'[i] = row /\ i = k
          BY <3>1, <3>3, <4>2 DEF Stored
        <5>2. row.id = e.id /\ row.attempt = e.attempt
          BY <2>4 DEF row
        <5>3. requests[i].state # "final" /\ requests[i].attempt <= e.attempt
          BY <3>2, <4>1, <5>1 DEF Follows
        <5> QED
          BY <4>2, <5>1, <5>2, <5>3
      <4>3. CASE requests[i].id # e.id
        BY <3>1, <4>1, <4>3
      <4> QED
        BY <4>2, <4>3
    <3>9. Grown
      <4>1. version' \in [Texts -> Nat] /\ \A t \in Texts : version[t] <= version'[t]
        BY DEF NodeTypes
      <4>2. stored \subseteq stored' /\ stored' \subseteq Event
        BY <1>2, <2>3 DEF NodeTypes
      <4>3. requests' \in Seq(Rows) /\ Len(requests) <= Len(requests')
        BY <1>3, <3>7
      <4> QED
        BY <3>8, <4>1, <4>2, <4>3 DEF Grown
    <3> QED
      BY <1>1, <1>5, <2>3, <3>6, <3>9 DEF LedgerStep
  <2> QED
    BY <2>5, <2>6
<1> QED
  BY <1>4, <1>5

(* A step of the ledger keeps its rows in order and within their limits.   *)
LEMMA RowsKeep ==
  ASSUME NodeTypes, NodeTypes', RowsOK, EventsOK, LedgerStep
  PROVE  RowsOK'
<1>1. /\ DOMAIN requests = 1..Len(requests) /\ Len(requests) \in Nat
      /\ DOMAIN requests' = 1..Len(requests') /\ Len(requests') \in Nat
      /\ Len(requests) <= Len(requests')
      /\ \A i \in DOMAIN requests : requests[i] \in Rows /\ requests[i].id \in Id
      /\ \A i \in DOMAIN requests' : requests'[i] \in Rows
  <2>1. requests \in Seq(Rows) /\ requests' \in Seq(Rows) /\ Len(requests) <= Len(requests')
    BY DEF NodeTypes, LedgerStep, Grown
  <2>2. \A i \in DOMAIN requests : requests[i] \in Rows
    BY <2>1
  <2>3. \A i \in DOMAIN requests : requests[i].id \in Id
    BY <2>2 DEF Rows
  <2> QED
    BY <2>1, <2>2, <2>3
<1>2. \A i \in DOMAIN requests : requests'[i].id = requests[i].id
  BY DEF LedgerStep, Grown
<1>3. ASSUME NEW i \in DOMAIN requests PROVE Old(requests[i].id)'
  <2>1. PICK id \in Id : id = requests[i].id
    BY <1>1, <1>3
  <2>2. Old(id)
    BY <2>1 DEF RowsOK
  <2>3. /\ DOMAIN id.sources \subseteq Texts
        /\ \A t \in DOMAIN id.sources : id.sources[t] \in Nat
    BY SourcesFacts
  <2>4. \A t \in Texts : version[t] \in Nat /\ version'[t] \in Nat /\ version[t] <= version'[t]
    BY DEF NodeTypes, LedgerStep, Grown
  <2>5. Old(id)'
    BY <2>2, <2>3, <2>4 DEF Old
  <2>6. requests'[i].id = id
    BY <1>2, <2>1
  <2> QED
    BY <1>2, <2>1, <2>5 DEF Old
<1>4. \A id : Limit(id) \in Nat /\ Limit(id)' \in Nat /\ Limit(id) <= Limit(id)'
  <2>1. \A id : Limit(id) \in Nat /\ Limit(id) <= Limit(id)'
    BY LimitFacts DEF LedgerStep, LimitsGrow
  <2>2. actions' \in Nat
    BY DEF NodeTypes
  <2>3. \A id : Limit(id)' \in Nat
    BY <2>2, GrantFacts DEF Limit
  <2> QED
    BY <2>1, <2>3
<1>5. CASE UNCHANGED <<requests, stored>>
  <2>1. ASSUME NEW i \in DOMAIN requests PROVE requests[i].attempt <= Limit(requests[i].id)'
    <3>1. PICK id : id = requests[i].id
      OBVIOUS
    <3>2. requests'[i].id = id /\ requests'[i].attempt = requests[i].attempt
      BY <1>5, <3>1
    <3>3. requests[i].attempt <= Limit(id) /\ requests[i].attempt \in Nat
      BY <1>1, <3>1 DEF RowsOK, Rows
    <3>4. requests[i].attempt <= Limit(id)'
      BY <1>4, <3>3
    <3> QED
      BY <3>2, <3>4 DEF Limit
  <2> QED
    BY <1>3, <1>5, <2>1 DEF RowsOK
<1>6. ASSUME NEW e, Takes(e) PROVE RowsOK'
  <2>1. /\ e \in In(outbox) /\ e \in Event
        /\ \A i \in DOMAIN requests :
             requests'[i] = IF requests[i].id = e.id THEN Row(e) ELSE requests[i]
        /\ \A i \in Stored(e.id) : Follows(e, requests[i])
        /\ \A i \in DOMAIN requests' \ DOMAIN requests :
             /\ requests'[i] = Row(e) /\ i = Len(requests) + 1
             /\ e.kind = "request" /\ Stored(e.id) = {}
    BY <1>6 DEF Takes, NodeTypes, In
  <2>2. Sound(e) /\ e.attempt \in Nat
    BY <2>1 DEF EventsOK, Event
  <2>3. Row(e).id = e.id /\ Row(e).attempt = e.attempt
    BY DEF Row
  <2>4. ASSUME NEW i \in DOMAIN requests PROVE requests'[i].attempt <= Limit(requests[i].id)
    <3>1. requests[i].attempt \in Nat /\ requests[i].attempt <= Limit(requests[i].id)
      BY <1>1 DEF Rows, RowsOK
    <3>2. CASE requests[i].id = e.id
      <4>1. i \in Stored(e.id) /\ requests'[i].attempt = e.attempt
        BY <2>1, <2>3, <3>2 DEF Stored
      <4>2. CASE e.kind = "request"
        BY <2>2, <3>2, <4>1, <4>2 DEF Sound
      <4>3. CASE e.kind # "request"
        BY <2>1, <3>1, <4>1, <4>3 DEF Follows
      <4> QED
        BY <4>2, <4>3
    <3>3. CASE requests[i].id # e.id
      BY <2>1, <3>1, <3>3
    <3> QED
      BY <3>2, <3>3
  <2>5. ASSUME NEW i \in DOMAIN requests'
        PROVE  requests'[i].attempt <= Limit(requests'[i].id)
    <3>1. CASE i \in DOMAIN requests
      BY <1>2, <2>4, <3>1
    <3>2. CASE i \notin DOMAIN requests
      BY <2>1, <2>2, <2>3, <3>2 DEF Sound
    <3> QED
      BY <3>1, <3>2
  <2>6. ASSUME NEW i \in DOMAIN requests' PROVE (requests[i].attempt <= Limit(requests[i].id))'
    <3>1. PICK id : id = requests'[i].id
      OBVIOUS
    <3>2. requests'[i].attempt <= Limit(id) /\ requests'[i].attempt \in Nat
      BY <1>1, <2>5, <3>1 DEF Rows
    <3>3. requests'[i].attempt <= Limit(id)'
      BY <1>4, <3>2
    <3> QED
      BY <3>1, <3>3 DEF Limit
  <2>7. ASSUME NEW i \in DOMAIN requests' PROVE Old(requests[i].id)'
    <3>1. CASE i \in DOMAIN requests
      BY <1>3, <3>1
    <3>2. CASE i \notin DOMAIN requests
      <4>1. requests'[i].id = e.id /\ version' = version
        BY <1>6, <2>1, <2>3, <3>2 DEF Takes
      <4> QED
        BY <2>2, <4>1 DEF Sound, Old
    <3> QED
      BY <3>1, <3>2
  <2>8. ASSUME NEW i \in DOMAIN requests', NEW k \in DOMAIN requests',
               requests'[i].id = requests'[k].id
        PROVE  i = k
    <3>1. CASE i \in DOMAIN requests /\ k \in DOMAIN requests
      BY <1>2, <2>8, <3>1 DEF RowsOK
    <3>2. CASE i \notin DOMAIN requests /\ k \notin DOMAIN requests
      BY <2>1, <3>2
    <3>3. \A j \in DOMAIN requests, l \in DOMAIN requests' \ DOMAIN requests :
             requests'[j].id # requests'[l].id
      BY <1>2, <2>1, <2>3 DEF Stored
    <3> QED
      BY <2>8, <3>1, <3>2, <3>3
  <2> QED
    BY <2>6, <2>7, <2>8 DEF RowsOK
<1> QED
  BY <1>5, <1>6 DEF LedgerStep

(* An event that is sound stays so, and a fresh one was fresh before.      *)
LEMMA SoundKeeps ==
  ASSUME NodeTypes, NodeTypes', RowsOK, LedgerStep, NEW f \in Event, Sound(f)
  PROVE  /\ Sound(f)'
         /\ Unasked(f)' => Unasked(f)
         /\ /\ ~Claimed(f.id) /\ Unasked(f)'
            /\ \A e \in In(outbox) : Unasked(e) => e = f
            => ~Claimed(f.id)'
<1>1. /\ DOMAIN requests = 1..Len(requests) /\ Len(requests) \in Nat
      /\ DOMAIN requests' = 1..Len(requests') /\ Len(requests') \in Nat
      /\ Len(requests) <= Len(requests') /\ DOMAIN requests \subseteq DOMAIN requests'
      /\ \A i \in DOMAIN requests : requests[i].attempt \in Nat /\ requests[i].id \in Id
      /\ \A i \in DOMAIN requests' : requests'[i].attempt \in Nat /\ requests'[i].id \in Id
  <2>1. requests \in Seq(Rows) /\ requests' \in Seq(Rows) /\ Len(requests) <= Len(requests')
    BY DEF NodeTypes, LedgerStep, Grown
  <2>2. /\ \A i \in DOMAIN requests : requests[i] \in Rows
        /\ \A i \in DOMAIN requests' : requests'[i] \in Rows
    BY <2>1
  <2>3. \A r \in Rows : r.attempt \in Nat /\ r.id \in Id
    BY DEF Rows
  <2> QED
    BY <2>1, <2>2, <2>3
<1>2. f.attempt \in Nat /\ f.id \in Id
  BY DEF Event
<1>3. Grown
  BY DEF LedgerStep
<1>4. /\ Old(f.id)' /\ (Current(f.id)' => Current(f.id))
      /\ Stored(f.id) \subseteq Stored(f.id)'
  BY <1>3, GrownKeeps DEF Sound
<1>5. ASSUME f.kind = "request" PROVE f.attempt <= Limit(f.id)'
  <2>1. f.attempt <= Limit(f.id)
    BY <1>5 DEF Sound
  <2>2. Limit(f.id) \in Nat /\ Limit(f.id) <= Limit(f.id)'
    BY LimitFacts DEF LedgerStep, LimitsGrow
  <2>3. Limit(f.id)' \in Nat
    <3>1. actions' \in Nat
      BY DEF NodeTypes
    <3> QED
      BY <3>1, GrantFacts DEF Limit
  <2> QED
    BY <1>2, <2>1, <2>2, <2>3
<1>6. ASSUME f.kind = "request", NEW i \in Stored(f.id)'
      PROVE  f.attempt <= requests'[i].attempt + 1
  <2>1. i \in DOMAIN requests' /\ requests'[i].id = f.id
    BY DEF Stored
  <2>2. CASE i \in DOMAIN requests
    <3>1. i \in Stored(f.id) /\ requests[i].attempt <= requests'[i].attempt
      BY <1>3, <2>1, <2>2 DEF Grown, Stored
    <3>2. f.attempt <= requests[i].attempt + 1
      BY <1>6, <3>1 DEF Sound
    <3> QED
      BY <1>1, <1>2, <2>1, <2>2, <3>1, <3>2
  <2>3. CASE i \notin DOMAIN requests
    <3>1. PICK e : Takes(e)
      BY <2>1, <2>3 DEF LedgerStep
    <3>2. requests'[i] = Row(e) /\ Stored(e.id) = {}
      BY <2>1, <2>3, <3>1 DEF Takes
    <3>3. f.id = e.id
      BY <2>1, <3>2 DEF Row
    <3>4. f.attempt <= 1
      BY <1>2, <3>2, <3>3 DEF Sound
    <3> QED
      BY <1>1, <1>2, <2>1, <3>4
  <2> QED
    BY <2>2, <2>3
<1>7. Sound(f)'
  BY <1>4, <1>5, <1>6 DEF Sound
<1>8. Unasked(f)' => Unasked(f)
  BY <1>4 DEF Unasked
<1>9. ASSUME ~Claimed(f.id), Unasked(f)', \A e \in In(outbox) : Unasked(e) => e = f
      PROVE  ~Claimed(f.id)'
  <2> SUFFICES ASSUME NEW i \in DOMAIN requests', Current(requests[i].id)',
                      DOMAIN requests'[i].id.sources \cap DOMAIN f.id.sources # {}
               PROVE  FALSE
    BY DEF Claimed
  <2>1. CASE i \in DOMAIN requests
    <3>1. PICK id \in Id : id = requests[i].id
      BY <1>1, <2>1
    <3>2. requests'[i].id = id
      BY <1>3, <2>1, <3>1 DEF Grown
    <3>3. Current(id)'
      BY <3>2 DEF Current
    <3>4. Old(id)
      BY <2>1, <3>1 DEF RowsOK
    <3>5. Current(id)
      <4>1. /\ DOMAIN id.sources \subseteq Texts
            /\ \A t \in DOMAIN id.sources : id.sources[t] \in Nat
        BY SourcesFacts
      <4>2. \A t \in Texts : version[t] \in Nat /\ version'[t] \in Nat /\ version[t] <= version'[t]
        BY <1>3 DEF NodeTypes, Grown
      <4> QED
        BY <3>3, <3>4, <4>1, <4>2 DEF Old, Current
    <3> QED
      BY <1>9, <2>1, <3>1, <3>2, <3>5 DEF Claimed
  <2>2. CASE i \notin DOMAIN requests
    <3>1. PICK e : Takes(e)
      BY <2>2 DEF LedgerStep
    <3>3. /\ e \in In(outbox) /\ requests'[i].id = e.id /\ Unasked(e)
      BY <2>2, <3>1 DEF Takes, Row, Unasked
    <3>4. f.id # e.id
      BY <1>9, <3>1 DEF Takes, Unasked
    <3> QED
      BY <1>9, <3>3, <3>4
  <2> QED
    BY <2>1, <2>2
<1> QED
  BY <1>7, <1>8, <1>9

(* The events stay sound when the ledger takes one of them, and those that *)
(* leave the outbox are stored.                                            *)
LEMMA EventsKeep ==
  ASSUME NodeTypes, NodeTypes', RowsOK, EventsOK, LedgerStep,
         In(outbox)' \subseteq In(outbox), In(outbox) \subseteq In(outbox)' \cup stored',
         late' \subseteq late \cup In(outbox) \cup stored, In(todo)' \subseteq In(todo),
         committed' \subseteq stored', committed' \cap In(outbox)' = {}
  PROVE  EventsOK'
<1>1. In(outbox) \subseteq Event /\ stored \subseteq Event /\ stored \subseteq stored'
  BY DEF NodeTypes, In, LedgerStep, Grown
<1>2. ASSUME NEW e \in In(outbox)' PROVE Sound(e)'
  <2>1. e \in In(outbox) /\ e \in Event /\ Sound(e)
    BY <1>1 DEF EventsOK
  <2> QED
    BY <2>1, SoundKeeps
<1>3. late' \subseteq In(outbox)' \cup stored' /\ In(todo)' \subseteq In(outbox)' \cup stored'
  BY <1>1 DEF EventsOK
<1>4. ASSUME NEW e \in stored' PROVE Old(e.id)' /\ e.attempt >= 1 /\ Stored(e.id)' # {}
  <2>1. CASE e \in stored
    <3>1. e \in Event /\ Old(e.id) /\ e.attempt >= 1 /\ Stored(e.id) # {}
      BY <1>1, <2>1 DEF EventsOK
    <3>2. Old(e.id)' /\ Stored(e.id) \subseteq Stored(e.id)'
      BY <3>1, GrownKeeps DEF LedgerStep
    <3> QED
      BY <3>1, <3>2
  <2>2. CASE e \notin stored
    <3>1. Takes(e)
      BY <2>2 DEF LedgerStep, Takes
    <3>2. e \in In(outbox) /\ e \in Event /\ Sound(e) /\ Stored(e.id)' # {}
      BY <1>1, <3>1 DEF Takes, EventsOK
    <3>3. Sound(e)'
      BY <3>2, SoundKeeps
    <3> QED
      BY <3>2, <3>3 DEF Sound
  <2> QED
    BY <2>1, <2>2
<1>5. ASSUME NEW e \in In(outbox)', Unasked(e)'
      PROVE  ~Claimed(e.id)' /\ \A f \in In(outbox)' : Unasked(f)' => f = e
  <2>1. \A f \in In(outbox)' : /\ f \in In(outbox) /\ f \in Event /\ Sound(f)
                               /\ (Unasked(f)' => Unasked(f))
    BY <1>1, SoundKeeps DEF EventsOK
  <2>2. Unasked(e) /\ ~Claimed(e.id) /\ \A f \in In(outbox) : Unasked(f) => f = e
    BY <1>5, <2>1 DEF EventsOK
  <2>3. ~Claimed(e.id)'
    BY <1>5, <2>1, <2>2, SoundKeeps
  <2> QED
    BY <2>1, <2>2, <2>3
<1> QED
  BY <1>2, <1>3, <1>4, <1>5 DEF EventsOK

(* A request that was refused for good is not taken.                       *)
LEMMA RefusedNotTaken ==
  ASSUME NodeTypes, NEW e, Takes(e), Refused(e), e.kind = "request" PROVE FALSE
<1>1. Current(e.id) /\ \A i \in Stored(e.id) : Follows(e, requests[i])
  BY DEF Takes
<1>2. PICK i \in Stored(e.id) : requests[i].state = "final" \/ requests[i].attempt >= e.attempt
  BY <1>1 DEF Refused
<1>3. requests[i].attempt \in Nat
  <2>1. i \in DOMAIN requests
    BY DEF Stored
  <2>2. requests[i] \in Rows
    BY <2>1 DEF NodeTypes
  <2> QED
    BY <2>2 DEF Rows
<1>4. requests[i].state # "final" /\ e.attempt = requests[i].attempt + 1
  BY <1>1 DEF Follows
<1> QED
  BY <1>2, <1>3, <1>4

(* While the outbox of earlier processes is replayed, the ledger takes     *)
(* only the request that waits, or the result of one.                      *)
LEMMA TakenFacts ==
  ASSUME NodeTypes, NodeTypes', MemoryOK, Grown, ready, NEW e, Takes(e)
  PROVE  /\ e.kind = "request" => e = waiting
         /\ e.kind # "request" =>
              /\ DOMAIN requests' = DOMAIN requests
              /\ \A i \in DOMAIN requests : requests'[i].attempt = requests[i].attempt
<1>1. e.kind = "request" => e = waiting
  BY RefusedNotTaken DEF MemoryOK, Takes
<1>2. ASSUME e.kind # "request", NEW i \in DOMAIN requests
      PROVE  requests'[i].attempt = requests[i].attempt
  <2>1. requests'[i] = IF requests[i].id = e.id THEN Row(e) ELSE requests[i]
    BY DEF Takes
  <2>2. requests[i].id = e.id => e.attempt = requests[i].attempt
    BY <1>2 DEF Takes, Stored, Follows
  <2> QED
    BY <2>1, <2>2 DEF Row
<1>3. ASSUME e.kind # "request" PROVE DOMAIN requests' = DOMAIN requests
  <2>1. DOMAIN requests' \subseteq DOMAIN requests
    BY <1>3 DEF Takes
  <2>2. /\ DOMAIN requests = 1..Len(requests) /\ DOMAIN requests' = 1..Len(requests')
        /\ Len(requests) \in Nat /\ Len(requests') \in Nat
    BY DEF NodeTypes
  <2>3. DOMAIN requests \subseteq DOMAIN requests'
    BY <2>2 DEF Grown
  <2> QED
    BY <2>1, <2>3
<1> QED
  BY <1>1, <1>2, <1>3

(* What the process remembers stays true.                                  *)
LEMMA MemoryKeep ==
  ASSUME NodeTypes, NodeTypes', EventsOK, MemoryOK, LedgerStep,
         In(outbox)' \subseteq In(outbox), rejected \subseteq rejected',
         \A e \in rejected' \ rejected : e \in Event /\ Refused(e),
         UNCHANGED <<run, ready, waiting, active, recovery, after, loaded>>
  PROVE  MemoryOK'
<1>1. Grown /\ stored \subseteq stored'
  BY DEF LedgerStep, Grown
<1>2. \A e \in rejected' : Refused(e)'
  <2>1. \A e \in rejected' : e \in Event /\ Refused(e)
    BY DEF MemoryOK, NodeTypes
  <2> QED
    BY <1>1, <2>1, GrownKeeps
<1>3. ready' => \A e \in In(outbox)' : e.kind = "request" => e \in rejected' \/ e = waiting'
  BY DEF MemoryOK
<1>4. active' # NoRequest => Old(active.id)' /\ active'.attempt >= 1 /\ Stored(active.id)' # {}
  <2> SUFFICES ASSUME active # NoRequest
               PROVE  Old(active.id)' /\ active'.attempt >= 1 /\ Stored(active.id)' # {}
    OBVIOUS
  <2>1. PICK a \in Event : a = active
    BY DEF NodeTypes
  <2>2. Old(a.id) /\ a.attempt >= 1 /\ Stored(a.id) # {}
    BY <2>1 DEF MemoryOK
  <2>3. Old(a.id)' /\ Stored(a.id) \subseteq Stored(a.id)'
    BY <1>1, <2>2, GrownKeeps
  <2>4. active' = a
    BY <2>1
  <2> QED
    BY <2>2, <2>3, <2>4 DEF Old, Stored
<1>5. ASSUME waiting # NoRequest
      PROVE  \/ waiting' \in stored'
             \/ \A i \in Stored(waiting.id)' : requests'[i].attempt < waiting'.attempt
  <2>1. ready
    BY <1>5 DEF MemoryOK
  <2>2. CASE waiting \in stored
    BY <1>1, <2>2
  <2>3. CASE UNCHANGED <<requests, stored>>
    BY <1>5, <2>3 DEF MemoryOK, Stored
  <2>4. ASSUME waiting \notin stored, NEW e, Takes(e), e # waiting
        PROVE  \A i \in Stored(waiting.id)' : requests'[i].attempt < waiting'.attempt
    <3>1. /\ DOMAIN requests' = DOMAIN requests
          /\ \A i \in DOMAIN requests : requests'[i].attempt = requests[i].attempt
      BY <1>1, <2>1, <2>4, TakenFacts
    <3>2. \A i \in DOMAIN requests : requests'[i].id = requests[i].id
      BY <1>1 DEF Grown
    <3>3. \A i \in Stored(waiting.id) : requests[i].attempt < waiting.attempt
      BY <1>5, <2>4 DEF MemoryOK
    <3> QED
      BY <3>1, <3>2, <3>3 DEF Stored
  <2>5. ASSUME NEW e, Takes(e), e = waiting PROVE waiting' \in stored'
    BY <2>5 DEF Takes
  <2> QED
    BY <2>2, <2>3, <2>4, <2>5 DEF LedgerStep
<1> QED
  BY <1>2, <1>3, <1>4, <1>5 DEF MemoryOK

(* No event is the absence of one.                                         *)
LEMMA NoRequestIsNone == NoRequest \notin Event
  BY DEF NoRequest, Event, Kinds

(* What is blocked is something of the outbox.                             *)
LEMMA BlockedFacts == Blocked <=> \E e \in In(outbox) : e \notin rejected
  BY DEF Blocked, Unrefused, In

(* A request that used up its allowance has done so whatever becomes of    *)
(* it.                                                                     *)
LEMMA SpentFacts ==
  ASSUME NodeTypes, NEW r \in Rows, NEW q \in Rows, q.id = r.id, r.attempt <= q.attempt,
         r.attempt >= Ceiling(r), UNCHANGED <<action, budget>>
  PROVE  q.attempt >= Ceiling(q)'
<1>1. r.attempt \in Nat /\ q.attempt \in Nat /\ Allowance \in Nat \ {0}
  BY NodeAssumption DEF Rows
<1>2. CASE action = 0
  BY <1>1, <1>2 DEF Ceiling
<1>3. CASE action # 0 /\ Files(r) = {}
  BY <1>1, <1>3 DEF Ceiling
<1>4. CASE action # 0 /\ Files(r) # {}
  <2>1. Files(q)' = Files(r)
    BY DEF Files
  <2>2. Ceiling(q)' = (CHOOSE b \in Files(r) : TRUE).ceiling
    BY <1>4, <2>1 DEF Ceiling
  <2>3. Ceiling(r) = (CHOOSE b \in Files(r) : TRUE).ceiling
    BY <1>4 DEF Ceiling
  <2>4. (CHOOSE b \in Files(r) : TRUE).ceiling \in Nat
    <3>1. (CHOOSE b \in Files(r) : TRUE) \in Files(r)
      BY <1>4
    <3>2. Files(r) \subseteq File
      BY DEF Files, NodeTypes
    <3> QED
      BY <3>1, <3>2 DEF File
  <2> QED
    BY <1>1, <2>2, <2>3, <2>4
<1> QED
  BY <1>2, <1>3, <1>4

(* The ledger takes nothing that disturbs a recovery.                      *)
LEMMA RecoveryKeep ==
  ASSUME NodeTypes, NodeTypes', RowsOK, MemoryOK, RecoveryOK, LedgerStep,
         UNCHANGED <<run, action, budget, ready, waiting, recovery, after, loaded>>
  PROVE  RecoveryOK'
<1>1. Grown /\ stored \subseteq stored'
  BY DEF LedgerStep, Grown
<1>2. /\ DOMAIN requests = 1..Len(requests) /\ Len(requests) \in Nat
      /\ DOMAIN requests' = 1..Len(requests') /\ Len(requests') \in Nat
      /\ Len(requests) <= Len(requests') /\ after \in Nat
      /\ \A i \in DOMAIN requests : requests[i] \in Rows
      /\ \A i \in DOMAIN requests' : requests'[i] \in Rows
  BY <1>1 DEF NodeTypes, Grown
<1>3. \A i \in DOMAIN requests : requests'[i].id = requests[i].id
  BY <1>1 DEF Grown
<1>7. \A i \in DOMAIN requests : requests[i].attempt <= requests'[i].attempt
  BY <1>1 DEF Grown
<1>8. \A i \in DOMAIN requests : requests[i].state = "final" => requests'[i].state = "final"
  BY <1>1 DEF Grown
<1>4. ASSUME NEW n \in DOMAIN recovery PROVE Due(recovery[n])'
  <2>1. PICK e \in Event : e = recovery[n]
    BY <1>4 DEF NodeTypes
  <2>2. Due(e) /\ e \in In(recovery)
    BY <1>4, <2>1 DEF RecoveryOK, In
  <2>3. Sound(e)' /\ Stored(e.id) \subseteq Stored(e.id)'
    BY <1>1, <2>2, SoundKeeps, GrownKeeps DEF Due
  <2>4. ready
    <3>1. recovery # <<>>
      BY <1>4
    <3> QED
      BY <3>1 DEF MemoryOK
  <2>5. \A i \in Stored(e.id)' : requests'[i].attempt < e.attempt
    <3>1. CASE UNCHANGED <<requests, stored>>
      BY <2>2, <3>1 DEF Due, Stored
    <3>2. ASSUME NEW x, Takes(x) PROVE \A i \in Stored(e.id)' : requests'[i].attempt < e.attempt
      <4>1. CASE x.kind # "request"
        <5>1. /\ DOMAIN requests' = DOMAIN requests
              /\ \A i \in DOMAIN requests : requests'[i].attempt = requests[i].attempt
          BY <1>1, <2>4, <3>2, <4>1, TakenFacts
        <5> QED
          BY <1>3, <2>2, <5>1 DEF Due, Stored
      <4>2. CASE x.kind = "request"
        <5>1. x = waiting /\ x \in Event
          BY <1>1, <2>4, <3>2, <4>2, TakenFacts DEF Takes, NodeTypes, In
        <5>2. e.id # x.id
          BY <2>2, <5>1, NoRequestIsNone DEF RecoveryOK
        <5>3. \A i \in DOMAIN requests' \ DOMAIN requests : requests'[i].id = x.id
          BY <3>2 DEF Takes, Row
        <5>4. \A i \in DOMAIN requests : requests[i].id = e.id => requests'[i] = requests[i]
          BY <3>2, <5>2 DEF Takes
        <5>5. \A i \in Stored(e.id)' : i \in Stored(e.id) /\ requests'[i] = requests[i]
          BY <1>3, <5>2, <5>3, <5>4 DEF Stored
        <5> QED
          BY <2>2, <5>5 DEF Due
      <4> QED
        BY <4>1, <4>2
    <3> QED
      BY <3>1, <3>2 DEF LedgerStep
  <2>6. Due(e)'
    BY <2>2, <2>3, <2>5 DEF Due
  <2>7. recovery'[n] = e
    BY <2>1
  <2> QED
    BY <2>6, <2>7 DEF Due, Sound, Stored, Limit, Old
<1>5. after' <= Len(requests')
  BY <1>2 DEF RecoveryOK
<1>6. ASSUME NEW i \in Unresolved(0)', i <= after \/ loaded PROVE Covered(requests[i])'
  <2>1. /\ i \in DOMAIN requests' /\ i > 0 /\ Current(requests[i].id)'
        /\ requests'[i].state \in {"requested", "failed"}
    BY DEF Unresolved
  <2>2. CASE i \in DOMAIN requests
    <3>1. PICK e \in Rows : e = requests[i]
      BY <1>2, <2>2
    <3>2. e.id \in Id /\ Old(e.id)
      BY <2>2, <3>1 DEF Rows, RowsOK
    <3>3. Current(e.id)
      <4>1. /\ DOMAIN e.id.sources \subseteq Texts
            /\ \A t \in DOMAIN e.id.sources : e.id.sources[t] \in Nat
        BY <3>2, SourcesFacts
      <4>2. \A t \in Texts : version[t] \in Nat /\ version'[t] \in Nat /\ version[t] <= version'[t]
        BY <1>1 DEF NodeTypes, Grown
      <4>3. requests'[i].id = e.id
        BY <1>3, <2>2, <3>1
      <4>4. Current(e.id)'
        BY <2>1, <4>3 DEF Current
      <4> QED
        BY <3>2, <4>1, <4>2, <4>4 DEF Old, Current
    <3>4. e.state \in {"requested", "failed"}
      BY <1>2, <1>8, <2>1, <2>2, <3>1 DEF Rows
    <3>5. i \in Unresolved(0) /\ Covered(e)
      BY <1>6, <2>1, <2>2, <3>1, <3>3, <3>4 DEF Unresolved, RecoveryOK
    <3>6. requests'[i] \in Rows /\ requests'[i].id = e.id /\ e.attempt <= requests'[i].attempt
      BY <1>2, <1>3, <1>7, <2>1, <2>2, <3>1
    <3>7. PICK q \in Rows : q = requests'[i]
      BY <3>6
    <3>8. e.attempt >= Ceiling(e) => q.attempt >= Ceiling(q)'
      BY <3>6, <3>7, SpentFacts
    <3>9. Covered(q)'
      BY <1>1, <3>5, <3>6, <3>7, <3>8 DEF Covered
    <3> QED
      BY <3>7, <3>9 DEF Covered, Ceiling, Files
  <2>3. CASE i \notin DOMAIN requests
    <3>1. PICK x : Takes(x)
      BY <2>1, <2>3 DEF LedgerStep
    <3>2. requests'[i] = Row(x) /\ i = Len(requests) + 1 /\ x.kind = "request"
      BY <2>1, <2>3, <3>1 DEF Takes
    <3>3. loaded
      BY <1>2, <1>6, <3>2 DEF RecoveryOK
    <3>4. ready
      BY <3>3 DEF MemoryOK
    <3>5. x = waiting /\ x \in Event
      BY <1>1, <3>1, <3>2, <3>4, TakenFacts DEF Takes, NodeTypes, In
    <3>6. waiting' # NoRequest /\ waiting'.id = requests'[i].id
      BY <3>2, <3>5, NoRequestIsNone DEF Row
    <3> QED
      BY <3>6 DEF Covered
  <2> QED
    BY <2>2, <2>3
<1> QED
  BY <1>4, <1>5, <1>6 DEF RecoveryOK, In

(* Nothing but the ledger, the outbox and what was refused moves.          *)
LEMMA StepKeeps ==
  ASSUME NodeInv, NodeTypes', LedgerStep,
         In(outbox)' \subseteq In(outbox), In(outbox) \subseteq In(outbox)' \cup stored',
         late' \subseteq late \cup In(outbox) \cup stored, In(todo)' \subseteq In(todo),
         todo' # <<>> => todo # <<>>,
         committed' \subseteq stored', committed' \cap In(outbox)' = {},
         rejected \subseteq rejected', \A e \in rejected' \ rejected : e \in Event /\ Refused(e),
         UNCHANGED <<action, actions, run, budget, place, ready, waiting, active, recovery, after,
                     loaded>>
  PROVE  NodeInv'
<1>1. NodeTypes /\ RowsOK /\ BudgetOK /\ EventsOK /\ MemoryOK /\ PlaceOK /\ RecoveryOK
  BY DEF NodeInv
<1>2. RowsOK'
  BY <1>1, RowsKeep
<1>3. BudgetOK'
  BY <1>1 DEF BudgetOK
<1>4. EventsOK'
  BY <1>1, EventsKeep
<1>5. MemoryOK'
  BY <1>1, MemoryKeep
<1>6. RecoveryOK'
  BY <1>1, RecoveryKeep
<1>7. Blocked' => Blocked
  <2>1. Blocked' <=> \E e \in In(outbox)' : e \notin rejected'
    BY DEF Blocked, Unrefused, In
  <2> QED
    BY <2>1, BlockedFacts
<1>8. PlaceOK'
  BY <1>1, <1>7 DEF PlaceOK
<1> QED
  BY <1>2, <1>3, <1>4, <1>5, <1>6, <1>8 DEF NodeInv

(* A call to the ledger leaves values of the types that were there.        *)
LEMMA GrownTypes ==
  ASSUME LedgerStep
  PROVE  version' \in [Texts -> Nat] /\ requests' \in Seq(Rows) /\ stored' \subseteq Event
BY DEF LedgerStep, Grown

(* An event that comes too late is refused for ever.                       *)
LEMMA LateIsRefused ==
  ASSUME NodeTypes, NEW e \in Event, Sound(e), e \notin stored, Verdict(e) = "LATE_RESULT"
  PROVE  Refused(e)
<1> SUFFICES ASSUME e.kind = "request", Current(e.id)
             PROVE  \E i \in Stored(e.id) : \/ requests[i].state = "final"
                                           \/ requests[i].attempt >= e.attempt
  BY DEF Refused, Sound
<1>1. Stored(e.id) # {} /\ ~ \E i \in Stored(e.id) : Follows(e, requests[i])
  BY DEF Verdict
<1>2. PICK i \in Stored(e.id) : TRUE
  BY <1>1
<1>3. requests[i] \in Rows
  BY DEF Stored, NodeTypes
<1>4. /\ requests[i].attempt \in Nat /\ e.attempt \in Nat
      /\ requests[i].state \in {"requested", "final", "failed"}
  BY <1>3 DEF Rows, Event
<1>5. e.attempt <= requests[i].attempt + 1
  BY DEF Sound
<1>6. ~(requests[i].state \in {"requested", "failed"} /\ e.attempt = requests[i].attempt + 1)
  BY <1>1 DEF Follows
<1>7. requests[i].state = "final" \/ requests[i].attempt >= e.attempt
  BY <1>4, <1>5, <1>6
<1> QED
  BY <1>7

(* What Forget leaves.                                                     *)
LEMMA ForgetKeeps ==
  ASSUME NodeInv, NodeTypes', LedgerStep, UNCHANGED <<version, requests, stored, late, outbox>>,
         BudgetOK', Forget, committed' \subseteq committed,
         place' \in {"down", "idle"}, todo' = <<>>
  PROVE  NodeInv'
<1>1. NodeTypes /\ RowsOK /\ EventsOK
  BY DEF NodeInv
<1>2. RowsOK'
  BY <1>1, RowsKeep
<1>3. EventsOK'
  <2>1. In(todo)' = {}
    BY DEF In
  <2>2. committed' \subseteq stored' /\ committed' \cap In(outbox)' = {}
    BY <1>1 DEF EventsOK
  <2> QED
    BY <1>1, <2>1, <2>2, EventsKeep
<1>4. MemoryOK'
  BY DEF MemoryOK, Forget
<1>5. PlaceOK'
  BY DEF PlaceOK, Forget
<1>6. RecoveryOK'
  <2>1. after' <= Len(requests')
    <3>1. Len(requests') \in Nat
      BY DEF NodeTypes
    <3> QED
      BY <3>1 DEF Forget
  <2>2. ASSUME NEW i \in Unresolved(0)', i <= after' \/ loaded' PROVE FALSE
    <3>1. i \in DOMAIN requests' /\ i > 0 /\ after' = 0 /\ ~loaded'
      BY DEF Unresolved, Forget
    <3>2. DOMAIN requests' = 1..Len(requests') /\ Len(requests') \in Nat
      BY DEF NodeTypes
    <3> QED
      BY <2>2, <3>1, <3>2
  <2>3. recovery' = <<>> /\ waiting' = NoRequest
    BY DEF Forget
  <2>4. DOMAIN recovery' = {}
    BY <2>3
  <2> QED
    BY <2>1, <2>2, <2>3, <2>4 DEF RecoveryOK
<1> QED
  BY <1>2, <1>3, <1>4, <1>5, <1>6 DEF NodeInv

(* A ledger that is left alone takes a step.                               *)
LEMMA StillSteps ==
  ASSUME NodeTypes, UNCHANGED <<version, requests, stored, action, actions, budget>>
  PROVE  LedgerStep
BY StillGrows, LimitFacts DEF LedgerStep

(* SendNext keeps the invariant.                                           *)
LEMMA SendKeeps == NodeInv /\ SendNext => NodeInv'
<1> SUFFICES ASSUME NodeInv, SendNext PROVE NodeInv'
  OBVIOUS
<1>1. NodeTypes /\ RowsOK /\ BudgetOK /\ EventsOK
  BY DEF NodeInv
<1>2. /\ todo \in Seq(Event) /\ todo # <<>> /\ outbox \in Seq(Event) /\ rejected \subseteq Event
      /\ committed \subseteq Event /\ late \subseteq Event
  BY <1>1 DEF NodeTypes, SendNext
<1>3. PICK e \in Event : e = Head(todo)
  BY <1>2, HeadFacts
<1>4. /\ e \in In(todo) /\ Tail(todo) \in Seq(Event) /\ In(Tail(todo)) \subseteq In(todo)
      /\ e \in In(outbox) \cup stored
  BY <1>1, <1>2, <1>3, HeadFacts DEF EventsOK
<1>5. /\ Ingest(e)
      /\ \/ /\ Verdict(e) \in {"accepted", "receipt"}
            /\ outbox' = Picked(outbox, {i \in DOMAIN outbox : outbox[i] # e})
            /\ committed' = committed \cup {e}
            /\ todo' = Tail(todo)
            /\ UNCHANGED <<place, memoryVars>>
         \/ /\ Verdict(e) = "LATE_RESULT"
            /\ rejected' = IF place = "complete" THEN rejected ELSE rejected \cup {e}
            /\ todo' = Tail(todo)
            /\ UNCHANGED <<outbox, committed, place, ready, askVars, pageVars>>
         \/ /\ Verdict(e) \notin {"accepted", "receipt", "LATE_RESULT"}
            /\ place' = "down" /\ Forget /\ Quiet
            /\ UNCHANGED outbox
      /\ UNCHANGED <<version, late, budget, processVars, losses>>
  BY <1>3 DEF SendNext
<1>6. UNCHANGED <<version, late, budget, action, actions, run>>
  BY <1>5 DEF processVars
<1>7. /\ LedgerStep
      /\ Verdict(e) # "accepted" => UNCHANGED <<requests, stored>>
      /\ Verdict(e) \in {"accepted", "receipt"} => e \in stored'
      /\ Verdict(e) = "LATE_RESULT" => e \in In(outbox) \ stored
  BY <1>1, <1>4, <1>5, <1>6, IngestStep
<1>8. /\ version' \in [Texts -> Nat] /\ requests' \in Seq(Rows)
      /\ stored' \subseteq Event /\ stored \subseteq stored'
  BY <1>7, GrownTypes DEF LedgerStep, Grown
<1>9. committed \subseteq stored /\ committed \cap In(outbox) = {}
  BY <1>1 DEF EventsOK
<1>10. ASSUME todo' = Tail(todo), outbox' \in Seq(Event), committed' \subseteq Event,
              rejected' \subseteq Event, UNCHANGED <<place, ready, askVars, pageVars>>
       PROVE  NodeTypes'
  BY <1>1, <1>4, <1>6, <1>8, <1>10 DEF NodeTypes, askVars, pageVars
<1>11. CASE /\ Verdict(e) \in {"accepted", "receipt"}
            /\ outbox' = Picked(outbox, {i \in DOMAIN outbox : outbox[i] # e})
            /\ committed' = committed \cup {e}
            /\ todo' = Tail(todo)
            /\ UNCHANGED <<place, memoryVars>>
  <2> DEFINE S == {i \in DOMAIN outbox : outbox[i] # e}
  <2>1. UNCHANGED <<place, ready, rejected, waiting, active, recovery, after, loaded>>
    BY <1>11 DEF memoryVars, askVars, pageVars
  <2>2. outbox' \in Seq(Event) /\ In(outbox') = {outbox[i] : i \in S}
    <3>1. S \in SUBSET DOMAIN outbox
      OBVIOUS
    <3> QED
      BY <1>2, <1>11, <3>1, PickedFacts
  <2>3. /\ In(outbox') \subseteq In(outbox) /\ e \notin In(outbox')
        /\ In(outbox) \subseteq In(outbox') \cup {e}
    BY <2>2 DEF In
  <2>4. NodeTypes'
    BY <1>2, <1>10, <1>11, <2>1, <2>2 DEF askVars, pageVars
  <2>5. committed' \subseteq stored' /\ committed' \cap In(outbox') = {}
    BY <1>7, <1>8, <1>9, <1>11, <2>3
  <2>6. In(outbox) \subseteq In(outbox') \cup stored' /\ In(todo') \subseteq In(todo)
    BY <1>4, <1>7, <1>11, <2>3
  <2>7. todo' # <<>> => todo # <<>>
    BY <1>2
  <2> QED
    BY <1>6, <1>7, <2>1, <2>3, <2>4, <2>5, <2>6, <2>7, StepKeeps
<1>12. CASE /\ Verdict(e) = "LATE_RESULT"
            /\ rejected' = IF place = "complete" THEN rejected ELSE rejected \cup {e}
            /\ todo' = Tail(todo)
            /\ UNCHANGED <<outbox, committed, place, ready, askVars, pageVars>>
  <2>1. UNCHANGED <<outbox, committed, place, ready, waiting, active, recovery, after, loaded>>
    BY <1>12 DEF askVars, pageVars
  <2>2. rejected \subseteq rejected' /\ rejected' \subseteq rejected \cup {e}
    BY <1>12
  <2>3. Refused(e)
    BY <1>1, <1>7, <1>12, LateIsRefused DEF EventsOK
  <2>4. NodeTypes'
    BY <1>2, <1>3, <1>10, <1>12, <2>1, <2>2 DEF askVars, pageVars
  <2>5. In(todo') \subseteq In(todo) /\ In(outbox') = In(outbox)
    BY <1>4, <1>12, <2>1
  <2>6. committed' \subseteq stored' /\ committed' \cap In(outbox') = {}
    BY <1>8, <1>9, <2>1, <2>5
  <2>7. todo' # <<>> => todo # <<>>
    BY <1>2
  <2>8. \A x \in rejected' \ rejected : x \in Event /\ Refused(x)
    BY <1>3, <2>2, <2>3
  <2> QED
    BY <1>6, <1>7, <2>1, <2>2, <2>4, <2>5, <2>6, <2>7, <2>8, StepKeeps
<1>13. CASE /\ Verdict(e) \notin {"accepted", "receipt", "LATE_RESULT"}
            /\ place' = "down" /\ Forget /\ Quiet
            /\ UNCHANGED outbox
  <2>1. UNCHANGED <<requests, stored>> /\ todo' = <<>> /\ committed' = {}
    BY <1>7, <1>13 DEF Quiet
  <2>2. NodeTypes'
    <3>1. place' \in NodePlaces
      BY <1>13 DEF NodePlaces
    <3>2. 0 \in Nat /\ <<>> \in Seq(Event)
      OBVIOUS
    <3> QED
      BY <1>1, <1>6, <1>8, <1>13, <2>1, <3>1, <3>2 DEF NodeTypes, Forget
  <2>3. BudgetOK'
    BY <1>1, <1>6 DEF BudgetOK
  <2> QED
    BY <1>6, <1>7, <1>13, <2>1, <2>2, <2>3, ForgetKeeps
<1> QED
  BY <1>5, <1>11, <1>12, <1>13

(* A lost call keeps the invariant, whatever became of it.                 *)
LEMMA LoseKeeps == NodeInv /\ Lose => NodeInv'
<1> SUFFICES ASSUME NodeInv, Lose PROVE NodeInv'
  OBVIOUS
<1>1. NodeTypes /\ RowsOK /\ BudgetOK /\ EventsOK
  BY DEF NodeInv
<1>2. /\ todo \in Seq(Event) /\ todo # <<>> /\ outbox \in Seq(Event) /\ late \subseteq Event
  BY <1>1 DEF NodeTypes, Lose
<1>3. PICK e \in Event : e = Head(todo)
  BY <1>2, HeadFacts
<1>4. e \in In(todo) /\ e \in In(outbox) \cup stored
  BY <1>1, <1>2, <1>3, HeadFacts DEF EventsOK
<1>5. /\ \/ UNCHANGED <<requests, stored, late>>
         \/ Ingest(e) /\ UNCHANGED late
         \/ late' = late \cup {e} /\ UNCHANGED <<requests, stored>>
      /\ todo' = <<>>
      /\ UNCHANGED <<version, diskVars, processVars, place, committed, memoryVars>>
  BY <1>3 DEF Lose
<1>6. UNCHANGED <<version, outbox, budget, action, actions, run, place, committed, ready, rejected,
                  waiting, active, recovery, after, loaded>>
  BY <1>5 DEF diskVars, processVars, memoryVars, askVars, pageVars
<1>7. LedgerStep
  <2>1. ASSUME UNCHANGED <<requests, stored>> PROVE LedgerStep
    BY <1>1, <1>6, <2>1, StillSteps
  <2>2. ASSUME Ingest(e) PROVE LedgerStep
    BY <1>1, <1>4, <1>6, <2>2, IngestStep
  <2> QED
    BY <1>5, <2>1, <2>2
<1>8. /\ version' \in [Texts -> Nat] /\ requests' \in Seq(Rows)
      /\ stored' \subseteq Event /\ stored \subseteq stored'
  BY <1>7, GrownTypes DEF LedgerStep, Grown
<1>9. late' \subseteq late \cup {e}
  BY <1>5
<1>10. NodeTypes'
  <2>1. <<>> \in Seq(Event) /\ late' \subseteq Event
    BY <1>2, <1>9
  <2> QED
    BY <1>1, <1>5, <1>6, <1>8, <2>1 DEF NodeTypes
<1>11. late' \subseteq late \cup In(outbox) \cup stored
  BY <1>4, <1>9
<1>12. In(todo') \subseteq In(todo) /\ In(outbox') = In(outbox)
  BY <1>5, <1>6 DEF In
<1>13. committed' \subseteq stored' /\ committed' \cap In(outbox') = {}
  BY <1>1, <1>6, <1>8, <1>12 DEF EventsOK
<1> QED
  BY <1>5, <1>6, <1>7, <1>10, <1>11, <1>12, <1>13, StepKeeps

(* A call that arrives late keeps the invariant.                           *)
LEMMA LateKeeps == NodeInv /\ LateCall => NodeInv'
<1> SUFFICES ASSUME NodeInv, LateCall PROVE NodeInv'
  OBVIOUS
<1>1. NodeTypes /\ RowsOK /\ BudgetOK /\ EventsOK
  BY DEF NodeInv
<1>2. PICK e \in late : Ingest(e) /\ late' = late \ {e}
  BY DEF LateCall
<1>3. e \in In(outbox) \cup stored
  BY <1>1 DEF EventsOK
<1>4. UNCHANGED <<version, outbox, budget, action, actions, run, place, todo, committed, ready,
                  rejected, waiting, active, recovery, after, loaded>>
  BY DEF LateCall, diskVars, processVars, flushVars, memoryVars, askVars, pageVars
<1>5. LedgerStep
  BY <1>1, <1>2, <1>3, <1>4, IngestStep
<1>6. /\ version' \in [Texts -> Nat] /\ requests' \in Seq(Rows)
      /\ stored' \subseteq Event /\ stored \subseteq stored'
  BY <1>5, GrownTypes DEF LedgerStep, Grown
<1>7. NodeTypes'
  BY <1>1, <1>2, <1>4, <1>6 DEF NodeTypes
<1>8. In(todo') = In(todo) /\ In(outbox') = In(outbox)
  BY <1>4
<1>9. committed' \subseteq stored' /\ committed' \cap In(outbox') = {}
  BY <1>1, <1>4, <1>6, <1>8 DEF EventsOK
<1> QED
  BY <1>2, <1>4, <1>5, <1>7, <1>8, <1>9, StepKeeps

(* A correction keeps the invariant: what was current may become stale.    *)
LEMMA CorrectKeeps == ASSUME NEW t \in Texts PROVE NodeInv /\ Correct(t) => NodeInv'
<1> SUFFICES ASSUME NodeInv, Correct(t) PROVE NodeInv'
  OBVIOUS
<1>1. NodeTypes /\ EventsOK
  BY DEF NodeInv
<1>2. version \in [Texts -> Nat] /\ version' = [version EXCEPT ![t] = @ + 1]
  BY <1>1 DEF NodeTypes, Correct
<1>3. version' \in [Texts -> Nat] /\ \A x \in Texts : version[x] <= version'[x]
  BY <1>2
<1>4. UNCHANGED <<requests, stored, late, outbox, budget, action, actions, run, place, todo, committed,
                  ready, rejected, waiting, active, recovery, after, loaded>>
  BY DEF Correct, diskVars, processVars, flushVars, memoryVars, askVars, pageVars
<1>5. Grown
  <2>1. \A i \in DOMAIN requests : requests[i].attempt \in Nat
    <3>1. \A i \in DOMAIN requests : requests[i] \in Rows
      BY <1>1 DEF NodeTypes
    <3> QED
      BY <3>1 DEF Rows
  <2>2. Len(requests) \in Nat /\ requests \in Seq(Rows) /\ stored \subseteq Event
    BY <1>1 DEF NodeTypes
  <2> QED
    BY <1>3, <1>4, <2>1, <2>2 DEF Grown
<1>6. LedgerStep
  BY <1>1, <1>4, <1>5, LimitFacts DEF LedgerStep
<1>7. NodeTypes'
  BY <1>1, <1>3, <1>4 DEF NodeTypes
<1>8. In(todo') = In(todo) /\ In(outbox') = In(outbox)
  BY <1>4
<1>9. committed' \subseteq stored' /\ committed' \cap In(outbox') = {}
  BY <1>1, <1>4, <1>8 DEF EventsOK
<1> QED
  BY <1>4, <1>6, <1>7, <1>8, <1>9, StepKeeps

(* A process that ends, well or not, keeps the invariant.                  *)
LEMMA EndKeeps == NodeInv /\ (Crash \/ EndStop) => NodeInv'
<1> SUFFICES ASSUME NodeInv, Crash \/ EndStop PROVE NodeInv'
  OBVIOUS
<1>1. NodeTypes /\ BudgetOK
  BY DEF NodeInv
<1>2. /\ place' = "down" /\ Forget /\ Quiet
      /\ UNCHANGED <<ledgerVars, late, diskVars, processVars, losses>>
  BY DEF Crash, EndStop
<1>3. UNCHANGED <<version, requests, stored, late, outbox, budget, action, actions, run>>
  BY <1>2 DEF ledgerVars, diskVars, processVars
<1>4. todo' = <<>> /\ committed' = {}
  BY <1>2 DEF Quiet
<1>5. NodeTypes'
  <2>1. place' \in NodePlaces
    BY <1>2 DEF NodePlaces
  <2>2. 0 \in Nat /\ <<>> \in Seq(Event)
    OBVIOUS
  <2> QED
    BY <1>1, <1>2, <1>3, <1>4, <2>1, <2>2 DEF NodeTypes, Forget
<1>6. BudgetOK'
  BY <1>1, <1>3 DEF BudgetOK
<1>8. LedgerStep
  BY <1>1, <1>3, StillSteps
<1> QED
  BY <1>2, <1>3, <1>4, <1>5, <1>6, <1>8, ForgetKeeps

(* A new process keeps the invariant; an action it is given is a grant.    *)
LEMMA StartKeeps == NodeInv /\ Start => NodeInv'
<1> SUFFICES ASSUME NodeInv, Start PROVE NodeInv'
  OBVIOUS
<1>1. NodeTypes /\ BudgetOK /\ PlaceOK
  BY DEF NodeInv
<1>2. /\ place' = "idle" /\ run' = run + 1 /\ Forget /\ place = "down"
      /\ UNCHANGED <<ledgerVars, late, diskVars, flushVars, losses>>
  BY DEF Start
<1>3. PICK a \in {0, action, actions + 1} : action' = a /\ actions' = IF a > actions THEN a ELSE actions
  BY DEF Start
<1>4. UNCHANGED <<version, requests, stored, late, outbox, budget, todo, committed>>
  BY <1>2 DEF ledgerVars, diskVars, flushVars
<1>5. actions \in Nat /\ action \in {0, actions} /\ run \in Nat
  BY <1>1 DEF NodeTypes
<1>6. /\ actions' \in Nat /\ action' \in {0, actions'} /\ actions <= actions'
      /\ actions' = actions \/ (action' = actions + 1 /\ actions' = actions + 1)
  BY <1>3, <1>5
<1>7. NodeTypes'
  <2>1. place' \in NodePlaces
    BY <1>2 DEF NodePlaces
  <2>2. 0 \in Nat /\ <<>> \in Seq(Event) /\ run' \in Nat
    BY <1>2, <1>5
  <2> QED
    BY <1>1, <1>2, <1>4, <1>6, <2>1, <2>2 DEF NodeTypes, Forget
<1>8. BudgetOK'
  <2>1. \A b \in budget : b.action \in 1..actions'
    BY <1>1, <1>5, <1>6 DEF BudgetOK
  <2> QED
    BY <1>1, <1>4, <2>1 DEF BudgetOK
<1>9. LimitsGrow
  <2> SUFFICES ASSUME NEW id PROVE Limit(id) <= Limit(id)'
    BY DEF LimitsGrow
  <2>1. /\ Allowance * actions \in Nat /\ Allowance * (1 + actions) \in Nat
        /\ Allowance * (1 + actions) = Allowance * actions + Allowance /\ Allowance \in Nat
    BY <1>5, GrantFacts, NodeAssumption
  <2>2. CASE actions' = actions /\ action' = action
    <3>1. Limit(id)' = Limit(id)
      BY <1>4, <2>2 DEF Limit
    <3>2. Limit(id) \in Nat
      BY <1>1, LimitFacts
    <3> QED
      BY <3>1, <3>2
  <2>3. CASE actions' = actions /\ action' = 0
    <3>1. Limit(id)' = Allowance * (1 + actions)
      BY <2>3 DEF Limit
    <3> QED
      BY <2>1, <3>1 DEF Limit
  <2>4. CASE action' = actions + 1 /\ actions' = actions + 1
    <3>1. \A b \in budget : b.action # action'
      BY <1>1, <1>5, <2>4 DEF BudgetOK
    <3>2. Limit(id)' = Allowance * (1 + actions)
      <4>1. action' # 0
        BY <1>5, <2>4
      <4>2. {b \in budget' : b.action = action' /\ b.id = id} = {}
        BY <1>4, <3>1
      <4>3. Limit(id)' = Allowance * actions'
        BY <4>1, <4>2 DEF Limit
      <4>4. actions' = 1 + actions
        BY <1>5, <2>4
      <4> QED
        BY <4>3, <4>4
    <3> QED
      BY <2>1, <3>2 DEF Limit
  <2> QED
    BY <1>3, <1>5, <1>6, <2>2, <2>3, <2>4
<1>10. LedgerStep
  BY <1>1, <1>4, <1>9, StillGrows DEF LedgerStep
<1>11. todo' = <<>>
  BY <1>1, <1>2, <1>4 DEF PlaceOK
<1> QED
  BY <1>2, <1>4, <1>7, <1>8, <1>10, <1>11, ForgetKeeps

(* A step inside the process leaves the ledger and what is on disk alone.  *)
LEMMA StillKeeps ==
  ASSUME NodeInv, UNCHANGED <<version, requests, stored, late, outbox, budget, action, actions>>,
         In(todo)' \subseteq In(outbox) \cup stored, committed' \subseteq committed
  PROVE  RowsOK' /\ BudgetOK' /\ EventsOK'
<1>1. RowsOK /\ BudgetOK /\ EventsOK
  BY DEF NodeInv
<1>2. RowsOK'
  BY <1>1 DEF RowsOK, Old, Limit
<1>3. BudgetOK'
  BY <1>1 DEF BudgetOK
<1>4. EventsOK'
  <2>1. In(outbox)' = In(outbox)
    BY DEF In
  <2>2. \A e : /\ Sound(e)' <=> Sound(e)
               /\ Unasked(e)' <=> Unasked(e)
               /\ Claimed(e.id)' <=> Claimed(e.id)
               /\ Stored(e.id)' = Stored(e.id) /\ (Old(e.id)' <=> Old(e.id))
    BY DEF Sound, Unasked, Claimed, Stored, Old, Limit, Current
  <2> QED
    BY <1>1, <2>1, <2>2 DEF EventsOK
<1> QED
  BY <1>2, <1>3, <1>4

(* What it remembers is left alone too.                                    *)
LEMMA StillRemembers ==
  ASSUME NodeInv, UNCHANGED <<version, requests, stored, outbox, run, memoryVars>>
  PROVE  MemoryOK'
<1>1. MemoryOK
  BY DEF NodeInv
<1>2. UNCHANGED <<ready, rejected, waiting, active, recovery, after, loaded>>
  BY DEF memoryVars, askVars, pageVars
<1>3. \A e : Refused(e)' <=> Refused(e)
  BY DEF Refused, Old, Current, Stored
<1>4. In(outbox)' = In(outbox)
  BY DEF In
<1> QED
  BY <1>1, <1>2, <1>3, <1>4 DEF MemoryOK, Old, Stored

(* And so is the recovery.                                                 *)
LEMMA StillRecovers ==
  ASSUME NodeInv,
         UNCHANGED <<version, requests, stored, run, action, actions, budget, waiting, pageVars>>
  PROVE  RecoveryOK'
<1>1. RecoveryOK
  BY DEF NodeInv
<1>2. UNCHANGED <<recovery, after, loaded>>
  BY DEF pageVars
<1>3. \A e : Due(e)' <=> Due(e)
  BY DEF Due, Sound, Old, Stored, Limit
<1>4. \A r : Covered(r)' <=> Covered(r)
  BY <1>2 DEF Covered, Ceiling, Files, In
<1>5. Unresolved(0)' = Unresolved(0)
  BY DEF Unresolved, Current
<1> QED
  BY <1>1, <1>2, <1>3, <1>4, <1>5 DEF RecoveryOK, In

(* A flush sends events that are there.                                    *)
LEMMA FlushFacts ==
  ASSUME NEW events \in Seq(Event), NEW purpose, Flush(purpose, events)
  PROVE  /\ todo' \in Seq(Event) /\ In(todo') \subseteq In(events)
         /\ committed' = {} /\ place' = purpose
<1> DEFINE S == FirstOf(Unrefused(events), FlushLimit)
<1>1. DOMAIN events = 1..Len(events) /\ Len(events) \in Nat
  BY LenProperties
<1>2. S \in SUBSET DOMAIN events
  BY DEF FirstOf, Unrefused
<1>3. Picked(events, S) \in Seq(Event) /\ In(Picked(events, S)) = {events[i] : i \in S}
  BY <1>2, PickedFacts
<1>4. In(Picked(events, S)) \subseteq In(events)
  BY <1>2, <1>3 DEF In
<1>5. todo' = Picked(events, S) /\ committed' = {} /\ place' = purpose
  BY DEF Flush
<1> QED
  BY <1>3, <1>4, <1>5

(* BeginReady and BeginPoll keep the invariant.                            *)
LEMMA BeginKeeps == NodeInv /\ (BeginReady \/ BeginPoll) => NodeInv'
<1> SUFFICES ASSUME NodeInv, BeginReady \/ BeginPoll PROVE NodeInv'
  OBVIOUS
<1>1. NodeTypes /\ PlaceOK
  BY DEF NodeInv
<1>2. PICK purpose \in {"ready", "poll"} :
        /\ Flush(purpose, outbox)
        /\ purpose = "ready" => ~ready
        /\ purpose = "poll" => ready
        /\ UNCHANGED <<ledgerVars, late, diskVars, processVars, memoryVars, losses>>
  BY DEF BeginReady, BeginPoll
<1>3. /\ UNCHANGED <<version, requests, stored, late, outbox, budget, action, actions, run>>
      /\ UNCHANGED <<ready, rejected, waiting, active, recovery, after, loaded>>
      /\ UNCHANGED pageVars
  BY <1>2 DEF ledgerVars, diskVars, processVars, memoryVars, askVars, pageVars
<1>4. /\ todo' \in Seq(Event) /\ In(todo') \subseteq In(outbox)
      /\ committed' = {} /\ place' = purpose
  <2>1. outbox \in Seq(Event)
    BY <1>1 DEF NodeTypes
  <2> QED
    BY <1>2, <2>1, FlushFacts
<1>5. NodeTypes'
  <2>1. place' \in NodePlaces
    BY <1>4 DEF NodePlaces
  <2> QED
    BY <1>1, <1>3, <1>4, <2>1 DEF NodeTypes
<1>6. RowsOK' /\ BudgetOK' /\ EventsOK'
  BY <1>3, <1>4, StillKeeps
<1>7. MemoryOK'
  BY <1>2, <1>3, StillRemembers
<1>8. RecoveryOK'
  BY <1>3, StillRecovers
<1>9. PlaceOK'
  BY <1>1, <1>2, <1>3, <1>4 DEF PlaceOK
<1> QED
  BY <1>5, <1>6, <1>7, <1>8, <1>9 DEF NodeInv

(* EndReady keeps the invariant: ready is set when nothing is left.        *)
LEMMA EndReadyKeeps == NodeInv /\ EndReady => NodeInv'
<1> SUFFICES ASSUME NodeInv, EndReady PROVE NodeInv'
  OBVIOUS
<1>1. NodeTypes /\ PlaceOK /\ MemoryOK
  BY DEF NodeInv
<1>2. /\ place = "ready" /\ ready' = ~Blocked /\ place' = "idle" /\ todo' = <<>> /\ committed' = {}
      /\ UNCHANGED <<version, requests, stored, late, outbox, budget, action, actions, run>>
      /\ UNCHANGED <<rejected, waiting, active, recovery, after, loaded>>
      /\ UNCHANGED pageVars
  BY DEF EndReady, Quiet, ledgerVars, diskVars, processVars, askVars, pageVars
<1>3. NodeTypes'
  <2>1. place' \in NodePlaces /\ <<>> \in Seq(Event) /\ ready' \in BOOLEAN
    BY <1>2 DEF NodePlaces
  <2> QED
    BY <1>1, <1>2, <2>1 DEF NodeTypes
<1>4. RowsOK' /\ BudgetOK' /\ EventsOK'
  <2>1. In(todo') = {}
    BY <1>2 DEF In
  <2> QED
    BY <1>2, <2>1, StillKeeps
<1>5. waiting = NoRequest /\ active = NoRequest /\ recovery = <<>> /\ after = 0 /\ ~loaded
  BY <1>1, <1>2 DEF PlaceOK, MemoryOK
<1>6. MemoryOK'
  <2>1. \A e \in rejected' : Refused(e)'
    <3>1. \A e : Refused(e)' <=> Refused(e)
      BY <1>2 DEF Refused, Old, Current, Stored
    <3> QED
      BY <1>1, <1>2, <3>1 DEF MemoryOK
  <2>2. ready' => \A e \in In(outbox)' : e \in rejected'
    <3>1. In(outbox)' = In(outbox)
      BY <1>2 DEF In
    <3> QED
      BY <1>2, <3>1, BlockedFacts
  <2> QED
    BY <1>2, <1>5, <2>1, <2>2 DEF MemoryOK
<1>7. RecoveryOK'
  BY <1>2, StillRecovers
<1>8. PlaceOK'
  BY <1>2 DEF PlaceOK
<1> QED
  BY <1>3, <1>4, <1>6, <1>7, <1>8 DEF NodeInv

(* A request that has its receipt, or was refused, no longer waits.        *)
LEMMA SettledKeeps ==
  ASSUME NodeInv,
         UNCHANGED <<version, requests, stored, outbox, budget, action, actions, run, ready,
                     rejected, pageVars>>,
         waiting' = NoRequest, waiting = NoRequest \/ waiting \in rejected \cup committed,
         active' = active \/ (waiting \in committed /\ active' = waiting)
  PROVE  MemoryOK' /\ RecoveryOK'
<1>1. NodeTypes /\ RowsOK /\ EventsOK /\ MemoryOK /\ RecoveryOK
  BY DEF NodeInv
<1>2. UNCHANGED <<recovery, after, loaded>>
  BY DEF pageVars
<1>3. /\ committed \subseteq stored /\ committed \cap In(outbox) = {}
      /\ rejected \subseteq Event /\ stored \subseteq Event
  BY <1>1 DEF NodeTypes, EventsOK
<1>4. In(outbox)' = In(outbox) /\ In(outbox) \subseteq Event /\ NoRequest \notin Event
  BY <1>1, NoRequestIsNone DEF In, NodeTypes
<1>5. MemoryOK'
  <2>1. \A e \in rejected' : Refused(e)'
    <3>1. \A e : Refused(e)' <=> Refused(e)
      BY DEF Refused, Old, Current, Stored
    <3> QED
      BY <1>1, <3>1 DEF MemoryOK
  <2>2. ASSUME ready', NEW e \in In(outbox)', e.kind = "request" PROVE e \in rejected'
    <3>1. e \in rejected \/ e = waiting
      BY <1>1, <1>4, <2>2 DEF MemoryOK
    <3> QED
      BY <1>3, <1>4, <2>2, <3>1
  <2>3. ASSUME ~ready' PROVE active' = NoRequest /\ recovery' = <<>> /\ after' = 0 /\ ~loaded'
    <3>1. waiting = NoRequest /\ active = NoRequest /\ recovery = <<>> /\ after = 0 /\ ~loaded
      BY <1>1, <2>3 DEF MemoryOK
    <3> QED
      BY <1>2, <1>3, <1>4, <3>1
  <2>4. ASSUME active' # NoRequest
        PROVE  Old(active.id)' /\ active'.attempt >= 1 /\ Stored(active.id)' # {}
    <3>1. PICK a : a = active'
      OBVIOUS
    <3>2. Old(a.id) /\ a.attempt >= 1 /\ Stored(a.id) # {}
      <4>1. CASE active' = active
        BY <1>1, <2>4, <3>1, <4>1 DEF MemoryOK
      <4>2. CASE waiting \in committed /\ active' = waiting
        BY <1>1, <1>3, <3>1, <4>2 DEF EventsOK
      <4> QED
        BY <4>1, <4>2
    <3>3. Old(a.id)' /\ Stored(a.id)' # {}
      BY <3>2 DEF Old, Stored
    <3> QED
      BY <3>1, <3>2, <3>3 DEF Old, Stored
  <2> QED
    BY <2>1, <2>2, <2>3, <2>4 DEF MemoryOK
<1>6. RecoveryOK'
  <2>1. \A e : Due(e)' <=> Due(e)
    BY DEF Due, Sound, Old, Stored, Limit
  <2>2. Unresolved(0)' = Unresolved(0) /\ In(recovery)' = In(recovery)
    BY <1>2 DEF Unresolved, Current, In
  <2>3. ASSUME NEW i \in Unresolved(0), i <= after \/ loaded PROVE Covered(requests[i])'
    <3>1. Covered(requests[i])
      BY <1>1, <2>3 DEF RecoveryOK
    <3>2. /\ i \in DOMAIN requests /\ Current(requests[i].id)
          /\ requests[i].state \in {"requested", "failed"}
      BY DEF Unresolved
    <3>3. PICK r : r = requests[i]
      OBVIOUS
    <3>4. ASSUME waiting # NoRequest, waiting.id = r.id PROVE waiting \in stored
      <4>1. /\ waiting.kind = "request"
            /\ \/ waiting \in stored
               \/ \A k \in Stored(waiting.id) : requests[k].attempt < waiting.attempt
        BY <1>1, <3>4 DEF MemoryOK
      <4>2. CASE waiting \in committed
        BY <1>3, <4>2
      <4>3. CASE waiting \in rejected
        <5>1. Refused(waiting) /\ waiting \in Event
          BY <1>1, <1>3, <4>3 DEF MemoryOK
        <5>2. PICK k \in Stored(waiting.id) : \/ requests[k].state = "final"
                                              \/ requests[k].attempt >= waiting.attempt
          BY <3>2, <3>3, <3>4, <4>1, <5>1 DEF Refused
        <5>3. k = i
          BY <1>1, <3>2, <3>3, <3>4 DEF Stored, RowsOK
        <5>4. requests[k].attempt >= waiting.attempt
          BY <3>2, <5>2, <5>3
        <5>5. requests[k].attempt \in Nat /\ waiting.attempt \in Nat
          <6>1. requests[i] \in Rows
            BY <1>1, <3>2 DEF NodeTypes
          <6> QED
            BY <5>1, <5>3, <6>1 DEF Rows, Event
        <5> QED
          BY <4>1, <5>4, <5>5
      <4> QED
        BY <3>4, <4>2, <4>3
    <3>5. \/ \E e \in stored : e.kind = "request" /\ e.id = r.id /\ e.run = run
          \/ r.attempt >= Ceiling(r)
          \/ \E e \in In(recovery) : e.id = r.id
      <4>1. CASE waiting # NoRequest /\ waiting.id = r.id
        <5>1. waiting.kind = "request" /\ waiting.run = run
          BY <1>1, <4>1 DEF MemoryOK
        <5> QED
          BY <3>4, <4>1, <5>1
      <4> QED
        BY <3>1, <3>3, <4>1 DEF Covered
    <3>6. Ceiling(r)' = Ceiling(r)
      BY DEF Ceiling, Files
    <3>7. Covered(r)'
      BY <2>2, <3>5, <3>6 DEF Covered
    <3>8. requests'[i] = r
      BY <3>3
    <3> QED
      BY <3>7, <3>8 DEF Covered, Ceiling, Files
  <2> QED
    BY <1>1, <1>2, <2>1, <2>2, <2>3 DEF RecoveryOK
<1> QED
  BY <1>5, <1>6

(* EndFlush keeps the invariant.                                           *)
LEMMA EndFlushKeeps == NodeInv /\ EndFlush => NodeInv'
<1> SUFFICES ASSUME NodeInv, EndFlush PROVE NodeInv'
  OBVIOUS
<1>1. NodeTypes /\ PlaceOK /\ MemoryOK
  BY DEF NodeInv
<1>2. /\ place = "poll" /\ todo' = <<>> /\ committed' = {}
      /\ UNCHANGED <<version, requests, stored, late, outbox, budget, action, actions, run>>
      /\ UNCHANGED <<ready, rejected, recovery, after, loaded>>
      /\ UNCHANGED pageVars
  BY DEF EndFlush, Quiet, ledgerVars, diskVars, processVars, pageVars
<1>3. \/ waiting # NoRequest /\ waiting \in committed /\ Activate
      \/ place' = "idle" /\ UNCHANGED askVars
      \/ /\ waiting = NoRequest \/ waiting \in rejected
         /\ waiting' = NoRequest /\ UNCHANGED active
         /\ place' = IF Blocked THEN "idle"
                     ELSE IF ~loaded /\ recovery = <<>> THEN "page" ELSE "choose"
  BY DEF EndFlush
<1>4. RowsOK' /\ BudgetOK' /\ EventsOK'
  <2>1. In(todo') = {}
    BY <1>2 DEF In
  <2> QED
    BY <1>2, <2>1, StillKeeps
<1>5. MemoryOK' /\ RecoveryOK'
  <2>1. CASE UNCHANGED askVars
    <3>1. UNCHANGED <<memoryVars, waiting>>
      BY <1>2, <2>1 DEF memoryVars, askVars
    <3> QED
      BY <1>2, <3>1, StillRemembers, StillRecovers
  <2>2. CASE ~ UNCHANGED askVars
    BY <1>2, <1>3, <2>2, SettledKeeps DEF Activate
  <2> QED
    BY <2>1, <2>2
<1>6. place' \in {"idle", "page", "choose"}
  BY <1>3 DEF Activate
<1>7. NodeTypes'
  <2>1. place' \in NodePlaces /\ <<>> \in Seq(Event)
    BY <1>6 DEF NodePlaces
  <2>2. waiting' \in Event \cup {NoRequest} /\ active' \in Event \cup {NoRequest}
    BY <1>1, <1>3 DEF NodeTypes, Activate, askVars
  <2> QED
    BY <1>1, <1>2, <2>1, <2>2 DEF NodeTypes
<1>8. PlaceOK'
  <2>1. Blocked' <=> Blocked
    BY <1>2 DEF Blocked, Unrefused
  <2>2. ready
    BY <1>1, <1>2 DEF PlaceOK
  <2>3. CASE place' = "idle"
    BY <1>2, <2>3 DEF PlaceOK
  <2>4. CASE place' # "idle"
    <3>1. /\ waiting' = NoRequest /\ ~Blocked
          /\ place' = "page" => ~loaded /\ recovery = <<>>
      BY <1>3, <2>4 DEF Activate
    <3> QED
      BY <1>2, <1>6, <2>1, <2>2, <2>4, <3>1 DEF PlaceOK
  <2> QED
    BY <2>3, <2>4
<1> QED
  BY <1>4, <1>5, <1>7, <1>8 DEF NodeInv

(* EndSecond and EndComplete keep the invariant.                           *)
LEMMA EndCallKeeps == NodeInv /\ (EndSecond \/ EndComplete) => NodeInv'
<1> SUFFICES ASSUME NodeInv, EndSecond \/ EndComplete PROVE NodeInv'
  OBVIOUS
<1>1. NodeTypes
  BY DEF NodeInv
<1>2. /\ todo' = <<>> /\ committed' = {} /\ place' = "idle"
      /\ UNCHANGED <<version, requests, stored, late, outbox, budget, action, actions, run>>
      /\ UNCHANGED <<ready, rejected, recovery, after, loaded>>
      /\ UNCHANGED pageVars
      /\ (waiting \in committed /\ Activate) \/ UNCHANGED askVars
  BY DEF EndSecond, EndComplete, Activate, Quiet, ledgerVars, diskVars, processVars, memoryVars, pageVars
<1>4. RowsOK' /\ BudgetOK' /\ EventsOK'
  <2>1. In(todo') = {}
    BY <1>2 DEF In
  <2> QED
    BY <1>2, <2>1, StillKeeps
<1>5. MemoryOK' /\ RecoveryOK'
  <2>1. CASE UNCHANGED askVars
    <3>1. UNCHANGED <<memoryVars, waiting>>
      BY <1>2, <2>1 DEF memoryVars, askVars
    <3> QED
      BY <1>2, <3>1, StillRemembers, StillRecovers
  <2>2. CASE waiting \in committed /\ Activate
    BY <1>2, <2>2, SettledKeeps DEF Activate
  <2> QED
    BY <1>2, <2>1, <2>2
<1>7. NodeTypes'
  <2>1. place' \in NodePlaces /\ <<>> \in Seq(Event)
    BY <1>2 DEF NodePlaces
  <2>2. waiting' \in Event \cup {NoRequest} /\ active' \in Event \cup {NoRequest}
    BY <1>1, <1>2 DEF NodeTypes, Activate, askVars
  <2> QED
    BY <1>1, <1>2, <2>1, <2>2 DEF NodeTypes
<1>8. PlaceOK'
  BY <1>2 DEF PlaceOK
<1> QED
  BY <1>4, <1>5, <1>7, <1>8 DEF NodeInv

(* An event that is put on disk is sound, and a first request stands alone. *)
LEMMA AppendKeeps ==
  ASSUME NodeInv, NEW e \in Event, outbox' = Append(outbox, e),
         UNCHANGED <<version, requests, stored, late, budget, action, actions>>,
         In(todo)' \subseteq In(outbox)', committed' = {}, Sound(e),
         Unasked(e) => ~Claimed(e.id) /\ \A f \in In(outbox) : ~Unasked(f)
  PROVE  /\ RowsOK' /\ BudgetOK' /\ EventsOK'
         /\ outbox' \in Seq(Event) /\ In(outbox)' = In(outbox) \cup {e}
<1>1. NodeTypes /\ RowsOK /\ BudgetOK /\ EventsOK
  BY DEF NodeInv
<1>2. RowsOK'
  BY <1>1 DEF RowsOK, Old, Limit
<1>3. BudgetOK'
  BY <1>1 DEF BudgetOK
<1>4. outbox' \in Seq(Event) /\ In(outbox)' = In(outbox) \cup {e}
  <2>1. outbox \in Seq(Event)
    BY <1>1 DEF NodeTypes
  <2>2. Append(outbox, e) \in Seq(Event) /\ In(Append(outbox, e)) = In(outbox) \cup {e}
    BY <2>1, AppendFacts
  <2> QED
    BY <2>2
<1>5. EventsOK'
  <2>1. \A x : /\ Sound(x)' <=> Sound(x)
               /\ Unasked(x)' <=> Unasked(x)
               /\ Claimed(x.id)' <=> Claimed(x.id)
               /\ Stored(x.id)' = Stored(x.id) /\ (Old(x.id)' <=> Old(x.id))
    BY DEF Sound, Unasked, Claimed, Stored, Old, Limit, Current
  <2>2. \A x \in In(outbox)' : Sound(x)'
    BY <1>1, <1>4, <2>1 DEF EventsOK
  <2>3. late' \subseteq In(outbox)' \cup stored' /\ In(todo)' \subseteq In(outbox)' \cup stored'
    BY <1>1, <1>4 DEF EventsOK
  <2>4. \A x \in stored' : Old(x.id)' /\ x.attempt >= 1 /\ Stored(x.id)' # {}
    BY <1>1, <2>1 DEF EventsOK
  <2>5. ASSUME NEW x \in In(outbox)', Unasked(x)'
        PROVE  ~Claimed(x.id)' /\ \A f \in In(outbox)' : Unasked(f)' => f = x
    <3>1. \A f \in In(outbox) : /\ Unasked(f) => ~Claimed(f.id)
                                /\ Unasked(f) => \A g \in In(outbox) : Unasked(g) => g = f
      BY <1>1 DEF EventsOK
    <3> QED
      BY <1>4, <2>1, <2>5, <3>1
  <2> QED
    BY <2>2, <2>3, <2>4, <2>5 DEF EventsOK
<1> QED
  BY <1>2, <1>3, <1>4, <1>5

(* The record of a generation is an event the ledger can take.             *)
LEMMA OutcomeFacts ==
  ASSUME NodeInv, NEW kind \in {"final", "failed"}, active # NoRequest
  PROVE  /\ Outcome(kind) \in Event /\ Sound(Outcome(kind))
         /\ ~Unasked(Outcome(kind)) /\ Outcome(kind).kind # "request"
<1>1. NodeTypes /\ MemoryOK
  BY DEF NodeInv
<1>2. PICK a \in Event : a = active
  BY <1>1 DEF NodeTypes
<1>3. Old(a.id) /\ a.attempt >= 1 /\ Stored(a.id) # {} /\ run \in Nat
  BY <1>1, <1>2 DEF MemoryOK, NodeTypes
<1>4. PICK e : e = Outcome(kind)
  OBVIOUS
<1>5. e = [kind |-> kind, id |-> a.id, attempt |-> a.attempt, run |-> run]
  BY <1>2, <1>4 DEF Outcome
<1>6. e \in Event /\ e.kind = kind /\ e.id = a.id /\ e.attempt = a.attempt
  BY <1>3, <1>5 DEF Event, Kinds
<1>7. Sound(e) /\ ~Unasked(e)
  BY <1>3, <1>6 DEF Sound, Unasked
<1> QED
  BY <1>4, <1>6, <1>7

(* What the process remembers besides the generation it gives up.          *)
LEMMA RecordKeeps ==
  ASSUME NodeInv, UNCHANGED <<version, requests, stored, budget, action, actions, run, ready,
                              rejected, waiting, pageVars>>,
         active' = NoRequest, \A e \in In(outbox)' : e.kind = "request" => e \in In(outbox)
  PROVE  MemoryOK' /\ RecoveryOK'
<1>1. MemoryOK
  BY DEF NodeInv
<1>2. RecoveryOK'
  BY StillRecovers
<1>3. UNCHANGED <<recovery, after, loaded>>
  BY DEF pageVars
<1>4. \A e : Refused(e)' <=> Refused(e)
  BY DEF Refused, Old, Current, Stored
<1>5. ready' => \A e \in In(outbox)' : e.kind = "request" => e \in rejected' \/ e = waiting'
  BY <1>1 DEF MemoryOK
<1>6. MemoryOK'
  BY <1>1, <1>3, <1>4, <1>5 DEF MemoryOK, Stored
<1> QED
  BY <1>2, <1>6

(* Complete keeps the invariant.                                           *)
LEMMA CompleteKeeps == NodeInv /\ Complete => NodeInv'
<1> SUFFICES ASSUME NodeInv, Complete PROVE NodeInv'
  OBVIOUS
<1>1. NodeTypes /\ PlaceOK
  BY DEF NodeInv
<1>2. PICK kind \in {"final", "failed"} :
        outbox' = Append(outbox, Outcome(kind)) /\ todo' = <<Outcome(kind)>>
  BY DEF Complete
<1>3. PICK e : e = Outcome(kind)
  OBVIOUS
<1>4. /\ place = "idle" /\ ready /\ active # NoRequest /\ active' = NoRequest
      /\ place' = "complete" /\ committed' = {}
      /\ UNCHANGED <<version, requests, stored, late, budget, action, actions, run>>
      /\ UNCHANGED <<ready, rejected, waiting, recovery, after, loaded>>
      /\ UNCHANGED pageVars
  BY DEF Complete, ledgerVars, processVars, pageVars
<1>5. e \in Event /\ Sound(e) /\ ~Unasked(e) /\ e.kind # "request"
  BY <1>3, <1>4, OutcomeFacts
<1>6. outbox' = Append(outbox, e) /\ todo' = <<e>>
  BY <1>2, <1>3
<1>7. /\ outbox' \in Seq(Event) /\ In(outbox') = In(outbox) \cup {e}
      /\ todo' \in Seq(Event) /\ In(todo') = {e}
  <2>1. outbox \in Seq(Event)
    BY <1>1 DEF NodeTypes
  <2>2. <<e>> \in Seq(Event)
    BY <1>5
  <2> QED
    BY <1>5, <1>6, <2>1, <2>2, AppendFacts DEF In
<1>8. RowsOK' /\ BudgetOK' /\ EventsOK'
  BY <1>4, <1>5, <1>6, <1>7, AppendKeeps
<1>9. MemoryOK' /\ RecoveryOK'
  BY <1>4, <1>5, <1>7, RecordKeeps
<1>10. NodeTypes'
  <2>1. place' \in NodePlaces
    BY <1>4 DEF NodePlaces
  <2> QED
    BY <1>1, <1>4, <1>7, <2>1 DEF NodeTypes
<1>11. PlaceOK'
  BY <1>4 DEF PlaceOK
<1> QED
  BY <1>8, <1>9, <1>10, <1>11 DEF NodeInv

(* StopNode keeps the invariant.                                           *)
LEMMA StopKeeps == NodeInv /\ StopNode => NodeInv'
<1> SUFFICES ASSUME NodeInv, StopNode PROVE NodeInv'
  OBVIOUS
<1>1. NodeTypes /\ PlaceOK
  BY DEF NodeInv
<1>2. PICK list : list = outbox'
  OBVIOUS
<1>3. /\ place = "idle" /\ active' = NoRequest
      /\ outbox' = IF active # NoRequest THEN Append(outbox, Outcome("failed")) ELSE outbox
      /\ UNCHANGED <<version, requests, stored, late, budget, action, actions, run>>
      /\ UNCHANGED <<ready, rejected, waiting, recovery, after, loaded>>
      /\ UNCHANGED pageVars
  BY DEF StopNode, ledgerVars, processVars, pageVars
<1>4. Flush("stop", list)
  BY <1>2 DEF StopNode, Flush, Unrefused
<1>5. outbox \in Seq(Event)
  BY <1>1 DEF NodeTypes
<1>6. CASE active = NoRequest
  <2>1. list = outbox /\ outbox' = outbox
    BY <1>2, <1>3, <1>6
  <2>2. /\ todo' \in Seq(Event) /\ In(todo') \subseteq In(outbox)
        /\ committed' = {} /\ place' = "stop"
    BY <1>4, <1>5, <2>1, FlushFacts
  <2>3. RowsOK' /\ BudgetOK' /\ EventsOK'
    BY <1>3, <2>1, <2>2, StillKeeps
  <2>4. In(outbox') = In(outbox)
    BY <2>1
  <2>5. MemoryOK' /\ RecoveryOK'
    BY <1>3, <2>4, RecordKeeps
  <2>6. place' \in NodePlaces
    BY <2>2 DEF NodePlaces
  <2>7. NodeTypes'
    BY <1>1, <1>3, <2>1, <2>2, <2>6 DEF NodeTypes
  <2>8. PlaceOK'
    BY <2>2 DEF PlaceOK
  <2> QED
    BY <2>3, <2>5, <2>7, <2>8 DEF NodeInv
<1>7. CASE active # NoRequest
  <2>1. PICK e : e = Outcome("failed")
    OBVIOUS
  <2>2. e \in Event /\ Sound(e) /\ ~Unasked(e) /\ e.kind # "request"
    BY <1>7, <2>1, OutcomeFacts
  <2>3. outbox' = Append(outbox, e) /\ list = Append(outbox, e)
    BY <1>2, <1>3, <1>7, <2>1
  <2>12. Append(outbox, e) \in Seq(Event) /\ In(Append(outbox, e)) = In(outbox) \cup {e}
    BY <1>5, <2>2, AppendFacts
  <2>4. list \in Seq(Event) /\ In(list) = In(outbox) \cup {e}
    BY <2>3, <2>12
  <2>5. /\ todo' \in Seq(Event) /\ In(todo') \subseteq In(list)
        /\ committed' = {} /\ place' = "stop"
    BY <1>4, <2>4, FlushFacts
  <2>6. /\ outbox' \in Seq(Event) /\ In(outbox') = In(outbox) \cup {e}
        /\ In(todo') \subseteq In(outbox')
    BY <1>2, <2>4, <2>5
  <2>7. RowsOK' /\ BudgetOK' /\ EventsOK'
    BY <1>3, <2>2, <2>3, <2>5, <2>6, AppendKeeps
  <2>8. MemoryOK' /\ RecoveryOK'
    BY <1>3, <2>2, <2>6, RecordKeeps
  <2>9. place' \in NodePlaces
    BY <2>5 DEF NodePlaces
  <2>10. NodeTypes'
    BY <1>1, <1>3, <2>5, <2>6, <2>9 DEF NodeTypes
  <2>11. PlaceOK'
    BY <2>5 DEF PlaceOK
  <2> QED
    BY <2>7, <2>8, <2>10, <2>11 DEF NodeInv
<1> QED
  BY <1>6, <1>7

(* A list is its first event and the others.                               *)
LEMMA TailFacts ==
  ASSUME NEW T, NEW list \in Seq(T), list # <<>>
  PROVE  \A x \in In(list) : x = Head(list) \/ x \in In(Tail(list))
<1> SUFFICES ASSUME NEW k \in DOMAIN list, k # 1 PROVE list[k] \in In(Tail(list))
  <2>1. Head(list) = list[1]
    BY HeadFacts
  <2> QED
    BY <2>1 DEF In
<1>1. /\ Tail(list) \in Seq(T) /\ Len(Tail(list)) = Len(list) - 1
      /\ \A i \in 1..Len(Tail(list)) : Tail(list)[i] = list[i + 1]
  BY HeadTailProperties
<1>2. Len(list) \in Nat \ {0} /\ DOMAIN list = 1..Len(list)
  BY EmptySeq, LenProperties
<1>3. DOMAIN Tail(list) = 1..(Len(list) - 1)
  BY <1>1, LenProperties
<1>4. k - 1 \in 1..(Len(list) - 1) /\ (k - 1) + 1 = k
  BY <1>2
<1>5. Tail(list)[k - 1] = list[k]
  BY <1>1, <1>4
<1> QED
  BY <1>3, <1>4, <1>5 DEF In

(* A request for pending texts is one the ledger can take, and the only    *)
(* one when nothing else waits.                                            *)
LEMMA NewRequestFacts ==
  ASSUME NodeInv, NEW S \in SUBSET Pending, S # {}, In(outbox) \subseteq rejected
  PROVE  /\ NewRequest(S) \in Event /\ Sound(NewRequest(S))
         /\ NewRequest(S).kind = "request" /\ NewRequest(S).run = run
         /\ Stored(NewRequest(S).id) = {}
         /\ ~Claimed(NewRequest(S).id) /\ \A f \in In(outbox) : ~Unasked(f)
<1>1. NodeTypes /\ MemoryOK
  BY DEF NodeInv
<1>2. PICK e : e = NewRequest(S)
  OBVIOUS
<1>3. PICK sources : sources = [t \in S |-> version[t]]
  OBVIOUS
<1>4. PICK id : id = [sources |-> sources, run |-> run]
  OBVIOUS
<1>5. e = [kind |-> "request", id |-> id, attempt |-> 1, run |-> run]
  BY <1>2, <1>3, <1>4 DEF NewRequest
<1>6. S \subseteq Texts /\ run \in Nat /\ version \in [Texts -> Nat]
  BY <1>1 DEF Pending, NodeTypes
<1>7. id \in Id /\ id.sources = sources /\ DOMAIN sources = S
  <2>1. sources \in [S -> Nat] /\ DOMAIN sources = S
    BY <1>3, <1>6
  <2>2. sources \in Sources
    BY <1>6, <2>1 DEF Sources
  <2> QED
    BY <1>4, <1>6, <2>1, <2>2 DEF Id
<1>8. e \in Event /\ e.kind = "request" /\ e.run = run /\ e.id = id /\ e.attempt = 1
  <2>1. 1 \in Nat /\ "request" \in Kinds
    BY DEF Kinds
  <2> QED
    BY <1>5, <1>6, <1>7, <2>1 DEF Event
<1>9. Old(id) /\ Current(id)
  BY <1>3, <1>6, <1>7 DEF Old, Current
<1>10. \A t \in S : \A i \in DOMAIN requests :
         Current(requests[i].id) => t \notin DOMAIN requests[i].id.sources
  BY DEF Pending
<1>11. Stored(id) = {}
  BY <1>7, <1>9, <1>10 DEF Stored
<1>12. ~Claimed(id)
  BY <1>7, <1>10 DEF Claimed
<1>13. 1 <= Limit(id)
  <2>1. actions \in Nat /\ action \in {0, actions} /\ Allowance \in Nat \ {0}
    BY <1>1, NodeAssumption DEF NodeTypes
  <2>2. /\ Allowance * actions \in Nat /\ Allowance * (1 + actions) \in Nat
        /\ Allowance * (1 + actions) = Allowance * actions + Allowance
    BY <2>1, GrantFacts
  <2>3. CASE Limit(id) = Allowance * (1 + actions)
    BY <2>1, <2>2, <2>3
  <2>4. CASE Limit(id) # Allowance * (1 + actions)
    <3>1. action # 0 /\ Limit(id) = Allowance * actions
      BY <2>4 DEF Limit
    <3>2. actions - 1 \in Nat /\ 1 + (actions - 1) = actions
      BY <2>1, <3>1
    <3>3. /\ Allowance * (actions - 1) \in Nat
          /\ Allowance * (1 + (actions - 1)) = Allowance * (actions - 1) + Allowance
      BY <3>2, GrantFacts
    <3> QED
      BY <2>1, <3>1, <3>2, <3>3
  <2> QED
    BY <2>3, <2>4
<1>14. Sound(e)
  BY <1>8, <1>9, <1>11, <1>13 DEF Sound
<1>15. ASSUME NEW f \in In(outbox), Unasked(f) PROVE FALSE
  BY <1>1, <1>15 DEF Unasked, MemoryOK, Refused
<1> QED
  BY <1>2, <1>8, <1>11, <1>12, <1>14, <1>15

(* The request that is put on disk waits for its receipt.                  *)
LEMMA AskKeeps ==
  ASSUME NodeInv, NEW e \in Event, waiting = NoRequest, waiting' = e,
         In(outbox) \subseteq rejected, In(outbox)' = In(outbox) \cup {e}, ready,
         e.kind = "request", e.run = run, \A i \in Stored(e.id) : requests[i].attempt < e.attempt,
         IF recovery = <<>> THEN recovery' = <<>>
         ELSE e = Head(recovery) /\ recovery' = Tail(recovery),
         UNCHANGED <<version, requests, stored, budget, action, actions, run, ready, rejected,
                     active, after, loaded>>
  PROVE  MemoryOK' /\ RecoveryOK'
<1>1. NodeTypes /\ MemoryOK /\ RecoveryOK
  BY DEF NodeInv
<1>2. \A x : /\ Refused(x)' <=> Refused(x)
             /\ Old(x.id)' <=> Old(x.id)
             /\ Stored(x.id)' = Stored(x.id)
  BY DEF Refused, Old, Current, Stored
<1>3. MemoryOK'
  <2>1. ready' => \A x \in In(outbox)' : x.kind = "request" => x \in rejected' \/ x = waiting'
    OBVIOUS
  <2>2. active' # NoRequest => Old(active.id)' /\ active'.attempt >= 1 /\ Stored(active.id)' # {}
    BY <1>1 DEF MemoryOK, Old, Stored
  <2>3. /\ waiting'.kind = "request" /\ waiting'.run = run'
        /\ \A i \in Stored(waiting.id)' : requests'[i].attempt < waiting'.attempt
    BY DEF Stored
  <2> QED
    BY <1>1, <1>2, <2>1, <2>2, <2>3 DEF MemoryOK
<1>4. recovery \in Seq(Event)
  BY <1>1 DEF NodeTypes
<1>5. RecoveryOK'
  <2>1. \A x : Due(x)' <=> Due(x)
    BY DEF Due, Sound, Old, Stored, Limit
  <2>2. \A n \in DOMAIN recovery' :
          \/ n \in DOMAIN recovery /\ recovery' = recovery /\ recovery = <<>>
          \/ /\ n + 1 \in DOMAIN recovery /\ recovery'[n] = recovery[n + 1]
             /\ n \in Nat \ {0} /\ 1 \in DOMAIN recovery /\ e = recovery[1]
    <3>1. CASE recovery = <<>>
      BY <3>1
    <3>2. CASE recovery # <<>>
      <4>1. /\ Tail(recovery) \in Seq(Event) /\ 1 \in DOMAIN recovery /\ e = recovery[1]
            /\ \A m \in DOMAIN Tail(recovery) :
                 m + 1 \in DOMAIN recovery /\ Tail(recovery)[m] = recovery[m + 1]
        BY <1>4, <3>2, HeadFacts
      <4>2. \A m \in DOMAIN Tail(recovery) : m \in Nat \ {0}
        BY <4>1
      <4> QED
        BY <3>2, <4>1, <4>2
    <3> QED
      BY <3>1, <3>2
  <2>3. \A n \in DOMAIN recovery' : Due(recovery'[n])
    BY <1>1, <2>2 DEF RecoveryOK
  <2>4. ASSUME NEW m \in DOMAIN recovery', NEW n \in DOMAIN recovery', recovery'[m].id = recovery'[n].id
        PROVE  m = n
    <3>1. CASE recovery = <<>>
      BY <1>1, <2>2, <2>4, <3>1 DEF RecoveryOK
    <3>2. CASE recovery # <<>>
      <4>1. m + 1 = n + 1 /\ m \in Nat /\ n \in Nat
        BY <1>1, <2>2, <2>4, <3>2 DEF RecoveryOK
      <4> QED
        BY <4>1
    <3> QED
      BY <3>1, <3>2
  <2>5. ASSUME NEW n \in DOMAIN recovery' PROVE recovery'[n].id # e.id
    <3>1. CASE recovery = <<>>
      BY <2>2, <2>5, <3>1
    <3>2. CASE recovery # <<>>
      <4>1. /\ n + 1 # 1 /\ n + 1 \in DOMAIN recovery /\ recovery'[n] = recovery[n + 1]
            /\ 1 \in DOMAIN recovery /\ e = recovery[1]
        BY <2>2, <3>2
      <4> QED
        BY <1>1, <4>1 DEF RecoveryOK
    <3> QED
      BY <3>1, <3>2
  <2>6. \A x \in In(recovery) : x = e \/ x \in In(recovery')
    <3>1. CASE recovery = <<>>
      BY <3>1
    <3>2. CASE recovery # <<>>
      BY <1>4, <3>2, TailFacts
    <3> QED
      BY <3>1, <3>2
  <2>7. Unresolved(0)' = Unresolved(0) /\ e # NoRequest
    BY NoRequestIsNone DEF Unresolved, Current
  <2>8. \A r : Covered(r) => Covered(r)'
    <3>1. \A r : Ceiling(r)' = Ceiling(r)
      BY DEF Ceiling, Files
    <3> QED
      BY <2>6, <2>7, <3>1 DEF Covered
  <2>9. \A n \in DOMAIN recovery' : Due(recovery[n])'
    <3> SUFFICES ASSUME NEW n \in DOMAIN recovery' PROVE Due(recovery[n])'
      OBVIOUS
    <3>1. PICK x : x = recovery'[n]
      OBVIOUS
    <3>2. Due(x)'
      BY <2>1, <2>3, <3>1
    <3> QED
      BY <3>1, <3>2 DEF Due, Sound, Old, Stored, Limit
  <2>10. \A i \in Unresolved(0)' : i <= after' \/ loaded' => Covered(requests[i])'
    <3> SUFFICES ASSUME NEW i \in Unresolved(0), i <= after \/ loaded PROVE Covered(requests[i])'
      BY <2>7
    <3>1. PICK r : r = requests[i]
      OBVIOUS
    <3>2. Covered(r)'
      BY <1>1, <2>8, <3>1 DEF RecoveryOK
    <3> QED
      BY <3>1, <3>2 DEF Covered, Ceiling, Files
  <2>11. waiting' # NoRequest => \A x \in In(recovery)' : x.id # waiting'.id
    BY <2>5 DEF In
  <2> QED
    BY <1>1, <2>4, <2>9, <2>10, <2>11 DEF RecoveryOK
<1> QED
  BY <1>3, <1>5

(* Choose keeps the invariant.                                             *)
LEMMA ChooseKeeps == NodeInv /\ Choose => NodeInv'
<1> SUFFICES ASSUME NodeInv, Choose PROVE NodeInv'
  OBVIOUS
<1>1. NodeTypes /\ PlaceOK /\ MemoryOK /\ RecoveryOK
  BY DEF NodeInv
<1>2. /\ place = "choose"
      /\ UNCHANGED <<version, requests, stored, late, budget, action, actions, run>>
      /\ UNCHANGED <<ready, rejected, active, after, loaded>>
  BY DEF Choose, ledgerVars, processVars
<1>3. /\ ready /\ waiting = NoRequest /\ In(outbox) \subseteq rejected
      /\ outbox \in Seq(Event) /\ recovery \in Seq(Event)
  BY <1>1, <1>2, BlockedFacts DEF PlaceOK, NodeTypes
<1>4. CASE Proposals = {} /\ place' = "idle" /\ UNCHANGED <<outbox, waiting, recovery, flushVars>>
  <2>1. /\ UNCHANGED <<outbox, waiting, recovery, todo, committed>> /\ place' = "idle"
        /\ UNCHANGED memoryVars /\ UNCHANGED pageVars
    BY <1>2, <1>4 DEF flushVars, memoryVars, askVars, pageVars
  <2>2. todo = <<>>
    BY <1>1, <1>2 DEF PlaceOK
  <2>3. RowsOK' /\ BudgetOK' /\ EventsOK'
    <3>1. In(todo') = {}
      BY <2>1, <2>2 DEF In
    <3> QED
      BY <1>2, <2>1, <3>1, StillKeeps
  <2>4. MemoryOK' /\ RecoveryOK'
    BY <1>2, <2>1, StillRemembers, StillRecovers
  <2>5. NodeTypes'
    <3>1. place' \in NodePlaces
      BY <2>1 DEF NodePlaces
    <3> QED
      BY <1>1, <1>2, <2>1, <3>1 DEF NodeTypes
  <2>6. PlaceOK'
    BY <2>1, <2>2 DEF PlaceOK
  <2> QED
    BY <2>3, <2>4, <2>5, <2>6 DEF NodeInv
<1>5. ASSUME NEW e \in Proposals, outbox' = Append(outbox, e), waiting' = e,
             recovery' = (IF recovery = <<>> THEN recovery ELSE Tail(recovery)),
             Flush("second", outbox')
      PROVE  NodeInv'
  <2>1. /\ e \in Event /\ Sound(e) /\ e.kind = "request" /\ e.run = run
        /\ \A i \in Stored(e.id) : requests[i].attempt < e.attempt
        /\ Unasked(e) => ~Claimed(e.id) /\ \A f \in In(outbox) : ~Unasked(f)
        /\ IF recovery = <<>> THEN recovery' = <<>>
           ELSE e = Head(recovery) /\ recovery' = Tail(recovery)
    <3>1. CASE recovery = <<>>
      <4>1. PICK S \in SUBSET Pending : S # {} /\ e = NewRequest(S)
        <5>1. e \in {NewRequest(S) : S \in (SUBSET Pending) \ {{}}}
          BY <1>5, <3>1 DEF Proposals
        <5>2. \A S \in (SUBSET Pending) \ {{}} : S \in SUBSET Pending /\ S # {}
          OBVIOUS
        <5> QED
          BY <5>1, <5>2
      <4> QED
        BY <1>3, <1>5, <3>1, <4>1, NewRequestFacts
    <3>2. CASE recovery # <<>>
      <4>1. e = Head(recovery) /\ recovery' = Tail(recovery)
        BY <1>5, <3>2 DEF Proposals
      <4>2. e \in Event /\ 1 \in DOMAIN recovery /\ e = recovery[1]
        BY <1>3, <3>2, <4>1, HeadFacts
      <4>3. Due(e)
        BY <1>1, <4>2 DEF RecoveryOK
      <4> QED
        BY <3>2, <4>1, <4>2, <4>3 DEF Due, Unasked
    <3> QED
      BY <3>1, <3>2
  <2>2. PICK list : list = Append(outbox, e)
    OBVIOUS
  <2>3. list \in Seq(Event) /\ In(list) = In(outbox) \cup {e}
    BY <1>3, <2>1, <2>2, AppendFacts
  <2>4. Flush("second", list)
    BY <1>5, <2>2 DEF Flush, Unrefused
  <2>5. /\ todo' \in Seq(Event) /\ In(todo') \subseteq In(list)
        /\ committed' = {} /\ place' = "second"
    BY <2>3, <2>4, FlushFacts
  <2>6. /\ outbox' = list /\ outbox' \in Seq(Event)
        /\ In(outbox') = In(outbox) \cup {e} /\ In(todo') \subseteq In(outbox')
    BY <1>5, <2>2, <2>3, <2>5
  <2>7. RowsOK' /\ BudgetOK' /\ EventsOK'
    BY <1>2, <1>5, <2>1, <2>5, <2>6, AppendKeeps
  <2>8. MemoryOK' /\ RecoveryOK'
    BY <1>2, <1>3, <1>5, <2>1, <2>6, AskKeeps
  <2>9. NodeTypes'
    <3>1. place' \in NodePlaces
      BY <2>5 DEF NodePlaces
    <3>2. recovery' \in Seq(Event)
      BY <1>3, <2>1, HeadFacts
    <3> QED
      BY <1>1, <1>2, <1>5, <2>1, <2>5, <2>6, <3>1, <3>2 DEF NodeTypes
  <2>10. PlaceOK'
    BY <1>2, <1>3, <2>5 DEF PlaceOK
  <2> QED
    BY <2>7, <2>8, <2>9, <2>10 DEF NodeInv
<1> QED
  BY <1>4, <1>5 DEF Choose

(* What a page grants stays within the limits, and what a request may      *)
(* spend under an action is decided once.                                  *)
LEMMA CeilingFacts ==
  ASSUME NodeInv, NEW i \in DOMAIN requests
  PROVE  /\ Ceiling(requests[i]) \in Nat
         /\ Ceiling(requests[i]) <= Allowance * (1 + actions)
<1>1. NodeTypes /\ RowsOK /\ BudgetOK
  BY DEF NodeInv
<1>2. /\ actions \in Nat /\ action \in {0, actions} /\ budget \subseteq File
      /\ Allowance \in Nat \ {0} /\ requests[i] \in Rows
  BY <1>1, NodeAssumption DEF NodeTypes
<1>3. PICK r \in Rows : r = requests[i]
  BY <1>2
<1>4. r.attempt \in Nat /\ r.attempt <= Limit(r.id)
  BY <1>1, <1>3 DEF Rows, RowsOK
<1>5. /\ Allowance * actions \in Nat /\ Allowance * (1 + actions) \in Nat
      /\ Allowance * (1 + actions) = Allowance * actions + Allowance
  BY <1>2, GrantFacts
<1>6. CASE action = 0
  BY <1>2, <1>3, <1>5, <1>6 DEF Ceiling
<1>7. CASE action # 0 /\ Files(r) = {}
  <2>1. Limit(r.id) = Allowance * actions
    BY <1>7 DEF Limit, Files
  <2>2. Ceiling(r) = r.attempt + Allowance
    BY <1>7 DEF Ceiling
  <2> QED
    BY <1>2, <1>3, <1>4, <1>5, <2>1, <2>2
<1>8. CASE action # 0 /\ Files(r) # {}
  <2>1. PICK b \in Files(r) : b = CHOOSE c \in Files(r) : TRUE
    BY <1>8
  <2>2. Ceiling(r) = b.ceiling
    BY <1>8, <2>1 DEF Ceiling
  <2>3. b \in budget /\ b.action = action
    BY DEF Files
  <2>4. b.ceiling \in Nat
    BY <1>2, <2>3 DEF File
  <2>5. b.ceiling <= Allowance * (1 + b.action)
    BY <1>1, <2>3 DEF BudgetOK
  <2>6. b.action = actions
    BY <1>2, <1>8, <2>3
  <2> QED
    BY <1>3, <2>2, <2>4, <2>5, <2>6
<1> QED
  BY <1>6, <1>7, <1>8

(* The files a page leaves: one for each request it looked at.             *)
LEMMA PageBudget ==
  ASSUME NodeInv, NEW page \in SUBSET DOMAIN requests,
         UNCHANGED <<requests, action, actions>>,
         budget' = IF action = 0 THEN budget
                   ELSE budget \cup {[action |-> action, id |-> requests[i].id,
                                      ceiling |-> Ceiling(requests[i])] : i \in page}
  PROVE  /\ budget' \subseteq File /\ BudgetOK' /\ LimitsGrow
         /\ \A i \in DOMAIN requests : Ceiling(requests[i])' = Ceiling(requests[i])
         /\ \A i \in page : Ceiling(requests[i]) <= Limit(requests[i].id)'
<1>1. NodeTypes /\ RowsOK /\ BudgetOK
  BY DEF NodeInv
<1>2. /\ actions \in Nat /\ action \in {0, actions}
      /\ budget \subseteq File /\ Allowance \in Nat \ {0}
  BY <1>1, NodeAssumption DEF NodeTypes
<1>3. /\ Allowance * actions \in Nat /\ Allowance * (1 + actions) \in Nat
      /\ Allowance * (1 + actions) = Allowance * actions + Allowance
  BY <1>2, GrantFacts
<1>4. \A i \in DOMAIN requests : /\ requests[i] \in Rows /\ Ceiling(requests[i]) \in Nat
                                 /\ Ceiling(requests[i]) <= Allowance * (1 + actions)
  BY <1>1, CeilingFacts DEF NodeTypes
<1>5. budget \subseteq budget'
  OBVIOUS
<1> DEFINE new(i) == [action |-> action, id |-> requests[i].id, ceiling |-> Ceiling(requests[i])]
<1>6. \A b \in budget' : b \in budget \/ (action # 0 /\ \E i \in page : b = new(i))
  OBVIOUS
<1>7. \A i \in page : action # 0 => new(i) \in budget'
  OBVIOUS
<1>8. ASSUME NEW i \in page
      PROVE  /\ new(i) \in File /\ new(i).action = action /\ new(i).id = requests[i].id
             /\ new(i).ceiling = Ceiling(requests[i])
  <2>1. requests[i].id \in Id /\ Ceiling(requests[i]) \in Nat /\ action \in Nat
    BY <1>2, <1>4 DEF Rows
  <2> QED
    BY <2>1 DEF File
<1> HIDE DEF new
<1>9. budget' \subseteq File
  BY <1>2, <1>6, <1>8
<1>10. ASSUME NEW b \in budget'
       PROVE  b.action \in 1..actions' /\ b.ceiling <= Allowance * (1 + b.action)
  <2>1. CASE b \in budget
    BY <1>1, <2>1 DEF BudgetOK
  <2>2. CASE b \notin budget
    <3>1. PICK i \in page : b = new(i) /\ action # 0
      BY <1>6, <2>2
    <3>2. b.action = action /\ b.ceiling = Ceiling(requests[i]) /\ action = actions /\ actions # 0
      BY <1>2, <1>8, <3>1
    <3>3. actions \in 1..actions
      BY <1>2, <3>2
    <3> QED
      BY <1>4, <3>2, <3>3
  <2> QED
    BY <2>1, <2>2
<1>11. ASSUME NEW i \in page, NEW b \in budget, b.action = action, b.id = requests[i].id, action # 0
       PROVE  b = new(i)
  <2>1. PICK r : r = requests[i]
    OBVIOUS
  <2>2. b \in Files(r)
    BY <1>11, <2>1 DEF Files
  <2>3. PICK c \in Files(r) : c = CHOOSE x \in Files(r) : TRUE
    BY <2>2
  <2>4. c = b
    BY <1>1, <2>2 DEF BudgetOK, Files
  <2>5. Ceiling(r) = b.ceiling
    BY <1>11, <2>2, <2>3, <2>4 DEF Ceiling
  <2>6. b \in File
    BY <1>2
  <2>7. b = [action |-> b.action, id |-> b.id, ceiling |-> b.ceiling]
    BY <2>6 DEF File
  <2> QED
    BY <1>11, <2>1, <2>5, <2>7 DEF new
<1>12. ASSUME NEW b \in budget', NEW c \in budget', b.action = c.action, b.id = c.id PROVE b = c
  <2>1. CASE b \in budget /\ c \in budget
    BY <1>1, <1>12, <2>1 DEF BudgetOK
  <2>2. CASE b \in budget /\ c \notin budget
    <3>1. PICK i \in page : c = new(i) /\ action # 0
      BY <1>6, <2>2
    <3> QED
      BY <1>8, <1>11, <1>12, <2>2, <3>1
  <2>3. CASE b \notin budget /\ c \in budget
    <3>1. PICK i \in page : b = new(i) /\ action # 0
      BY <1>6, <2>3
    <3> QED
      BY <1>8, <1>11, <1>12, <2>3, <3>1
  <2>4. CASE b \notin budget /\ c \notin budget
    <3>1. PICK i \in page : b = new(i)
      BY <1>6, <2>4
    <3>2. PICK k \in page : c = new(k)
      BY <1>6, <2>4
    <3>3. requests[i].id = requests[k].id
      BY <1>8, <1>12, <3>1, <3>2
    <3>4. i = k
      BY <1>1, <3>3 DEF RowsOK
    <3> QED
      BY <3>1, <3>2, <3>4
  <2> QED
    BY <2>1, <2>2, <2>3, <2>4
<1>13. BudgetOK'
  BY <1>10, <1>12 DEF BudgetOK
<1>14. LimitsGrow
  <2> SUFFICES ASSUME NEW id PROVE Limit(id) <= Limit(id)'
    BY DEF LimitsGrow
  <2>1. {b \in budget : b.action = action /\ b.id = id}
          \subseteq {b \in budget' : b.action = action /\ b.id = id}
    BY <1>5
  <2>2. \/ Limit(id)' = Allowance * (1 + actions)
        \/ Limit(id)' = Allowance * actions /\ Limit(id) = Allowance * actions
    BY <2>1 DEF Limit
  <2>3. Limit(id) = Allowance * (1 + actions) \/ Limit(id) = Allowance * actions
    BY DEF Limit
  <2> QED
    BY <1>2, <1>3, <2>2, <2>3
<1>15. ASSUME NEW i \in DOMAIN requests PROVE Ceiling(requests[i])' = Ceiling(requests[i])
  <2>1. PICK r : r = requests[i]
    OBVIOUS
  <2> SUFFICES Ceiling(r)' = Ceiling(r)
    BY <2>1 DEF Ceiling, Files
  <2>2. CASE action = 0
    BY <2>2 DEF Ceiling
  <2>3. CASE action # 0 /\ Files(r)' = Files(r)
    BY <2>3 DEF Ceiling
  <2>4. CASE action # 0 /\ Files(r)' # Files(r)
    <3>1. Files(r) \subseteq Files(r)'
      BY <1>5 DEF Files
    <3>2. PICK b \in Files(r)' : b \notin Files(r)
      BY <2>4, <3>1
    <3>3. b \in budget' /\ b.action = action /\ b.id = r.id /\ b \notin budget
      BY <3>2 DEF Files
    <3>4. PICK k \in page : b = new(k)
      BY <1>6, <3>3
    <3>5. requests[k].id = r.id
      BY <1>8, <3>3, <3>4
    <3>6. k = i
      BY <1>1, <2>1, <3>5 DEF RowsOK
    <3>7. \A c \in Files(r)' : c = b
      BY <1>12, <3>3 DEF Files
    <3>8. Files(r) = {}
      <4>1. \A c \in Files(r) : c = b
        BY <3>1, <3>7
      <4> QED
        BY <3>2, <4>1
    <3>9. (CHOOSE c \in Files(r)' : TRUE) = b
      BY <3>2, <3>7
    <3>10. Ceiling(r)' = b.ceiling
      BY <2>4, <3>2, <3>9 DEF Ceiling
    <3> QED
      BY <1>8, <2>1, <3>4, <3>6, <3>10
  <2> QED
    BY <2>2, <2>3, <2>4
<1>16. ASSUME NEW i \in page PROVE Ceiling(requests[i]) <= Limit(requests[i].id)'
  <2>1. PICK id : id = requests[i].id
    OBVIOUS
  <2>2. Limit(id)' = Allowance * (1 + actions)
    <3>1. CASE action = 0
      BY <3>1 DEF Limit
    <3>2. CASE action # 0
      <4>1. new(i) \in {b \in budget' : b.action = action' /\ b.id = id}
        BY <1>7, <1>8, <2>1, <3>2
      <4> QED
        BY <4>1 DEF Limit
    <3> QED
      BY <3>1, <3>2
  <2>3. Limit(requests[i].id)' = Limit(id)'
    BY <2>1 DEF Limit
  <2> QED
    BY <1>4, <2>2, <2>3
<1> QED
  BY <1>9, <1>13, <1>14, <1>15, <1>16

(* ReadPage keeps the invariant: a page misses no request that comes       *)
(* before its last one, and the last page misses none.                     *)
LEMMA ReadPageKeeps == NodeInv /\ ReadPage => NodeInv'
<1> SUFFICES ASSUME NodeInv, ReadPage PROVE NodeInv'
  OBVIOUS
<1>1. NodeTypes /\ RowsOK /\ BudgetOK /\ EventsOK /\ MemoryOK /\ PlaceOK /\ RecoveryOK
  BY DEF NodeInv
<1>2. PICK page : page = PageAfter(after)
  OBVIOUS
<1>3. PICK S : S = {i \in page : requests[i].attempt < Ceiling(requests[i])}
  OBVIOUS
<1>4. PICK again : again = Picked(requests, S)
  OBVIOUS
<1>5. PICK retries : retries = [n \in DOMAIN again |-> Retry(again[n])]
  OBVIOUS
<1>6. PICK last : last = Loaded(page, retries)
  OBVIOUS
<1>7. /\ place = "page" /\ recovery' = retries /\ loaded' = last
      /\ after' = IF last THEN 0 ELSE Max(page)
      /\ budget' = IF action = 0 THEN budget
                   ELSE budget \cup {[action |-> action, id |-> requests[i].id,
                                      ceiling |-> Ceiling(requests[i])] : i \in page}
      /\ place' = IF retries = <<>> /\ ~last THEN "idle" ELSE "choose"
  BY <1>2, <1>3, <1>4, <1>5, <1>6 DEF ReadPage
<1>8. UNCHANGED <<version, requests, stored, late, outbox, action, actions, run, todo, committed,
                  ready, rejected, waiting, active>>
  BY DEF ReadPage, ledgerVars, processVars, flushVars, askVars
<1>9. /\ ready /\ recovery = <<>> /\ ~loaded /\ waiting = NoRequest /\ ~Blocked /\ todo = <<>>
  BY <1>1, <1>7 DEF PlaceOK
<1>10. /\ DOMAIN requests = 1..Len(requests) /\ Len(requests) \in Nat /\ requests \in Seq(Rows)
       /\ after \in Nat /\ run \in Nat /\ PageSize \in Nat \ {0}
       /\ \A i \in DOMAIN requests : requests[i] \in Rows
  BY <1>1, NodeAssumption DEF NodeTypes
<1>11. Unresolved(after) \subseteq 1..Len(requests)
  BY <1>10 DEF Unresolved
<1>12. /\ page \subseteq Unresolved(after)
       /\ \A i \in Unresolved(after), k \in page : i <= k => i \in page
       /\ Cardinality(page) < PageSize => page = Unresolved(after)
       /\ IsFiniteSet(page) /\ Cardinality(page) \in Nat
  <2>1. page = FirstOf(Unresolved(after), PageSize)
    BY <1>2 DEF PageAfter
  <2> QED
    BY <1>10, <1>11, <2>1, FirstFacts
<1>13. page \in SUBSET DOMAIN requests /\ S \in SUBSET DOMAIN requests /\ S \subseteq page
  BY <1>3, <1>10, <1>11, <1>12
<1>14. /\ budget' \subseteq File /\ BudgetOK' /\ LimitsGrow
       /\ \A i \in DOMAIN requests : Ceiling(requests[i])' = Ceiling(requests[i])
       /\ \A i \in page : Ceiling(requests[i]) <= Limit(requests[i].id)'
  <2>1. UNCHANGED <<requests, action, actions>>
    BY <1>8
  <2> QED
    BY <1>7, <1>13, <2>1, PageBudget
<1>15. /\ again \in Seq(Rows) /\ In(again) = {requests[i] : i \in S}
       /\ \E f : \A n \in DOMAIN again :
            /\ f[n] \in S /\ again[n] = requests[f[n]]
            /\ \A m \in DOMAIN again : f[m] = f[n] => m = n
  BY <1>4, <1>10, <1>13, PickedFacts
<1>16. PICK f : \A n \in DOMAIN again :
            /\ f[n] \in S /\ again[n] = requests[f[n]]
            /\ \A m \in DOMAIN again : f[m] = f[n] => m = n
  BY <1>15
<1>17. DOMAIN retries = DOMAIN again /\ \A n \in DOMAIN again : retries[n] = Retry(requests[f[n]])
  BY <1>5, <1>16
<1>18. ASSUME NEW i \in DOMAIN requests
       PROVE  /\ Retry(requests[i]) \in Event
              /\ Retry(requests[i]).kind = "request" /\ Retry(requests[i]).id = requests[i].id
              /\ Retry(requests[i]).attempt = requests[i].attempt + 1
              /\ Retry(requests[i]).run = run
  <2>1. requests[i].id \in Id /\ requests[i].attempt + 1 \in Nat /\ "request" \in Kinds
    BY <1>10 DEF Rows, Kinds
  <2> QED
    BY <1>10, <2>1 DEF Retry, Event
<1>19. retries \in Seq(Event)
  <2>1. DOMAIN again = 1..Len(again) /\ Len(again) \in Nat
    BY <1>15
  <2>2. \A n \in 1..Len(again) : retries[n] \in Event
    BY <1>13, <1>16, <1>17, <1>18, <2>1
  <2>3. retries \in [1..Len(again) -> Event]
    BY <1>5, <2>1, <2>2
  <2> QED
    BY <2>1, <2>3
<1>20. last = (Cardinality(page) < PageSize)
  BY <1>6 DEF Loaded
<1>21. ASSUME ~last PROVE Max(page) \in page /\ \A m \in page : m <= Max(page)
  <2>1. page # {}
    <3> SUFFICES ASSUME page = {} PROVE FALSE
      OBVIOUS
    <3>1. Cardinality(page) = 0
      BY FS_EmptySet
    <3>2. Cardinality(page) < PageSize
      BY <1>10, <3>1
    <3> QED
      BY <1>20, <1>21, <3>2
  <2>2. page \subseteq Nat /\ \A n \in page : n <= Len(requests)
    <3>1. \A n \in 1..Len(requests) : n \in Nat /\ n <= Len(requests)
      BY <1>10
    <3> QED
      BY <1>10, <1>13, <3>1
  <2> QED
    BY <1>10, <2>1, <2>2, GreatestNatural
<1>22. after' \in Nat /\ after' <= Len(requests)
  <2>1. CASE last
    BY <1>7, <1>10, <2>1
  <2>2. CASE ~last
    <3>1. Max(page) \in 1..Len(requests)
      BY <1>10, <1>13, <1>21, <2>2
    <3> QED
      BY <1>7, <1>10, <2>2, <3>1
  <2> QED
    BY <2>1, <2>2
<1>23. NodeTypes'
  <2>1. place' \in NodePlaces
    BY <1>7 DEF NodePlaces
  <2>2. loaded' \in BOOLEAN
    BY <1>7, <1>20
  <2> QED
    BY <1>1, <1>7, <1>8, <1>14, <1>19, <1>22, <2>1, <2>2 DEF NodeTypes
<1>24. LedgerStep
  BY <1>1, <1>8, <1>14, StillGrows DEF LedgerStep
<1>25. RowsOK'
  BY <1>1, <1>23, <1>24, RowsKeep
<1>26. EventsOK'
  <2>1. In(outbox)' = In(outbox) /\ In(todo)' = In(todo)
    BY <1>8 DEF In
  <2>2. committed' \subseteq stored' /\ committed' \cap In(outbox)' = {}
    BY <1>1, <1>8, <2>1 DEF EventsOK
  <2> QED
    BY <1>1, <1>8, <1>23, <1>24, <2>1, <2>2, EventsKeep
<1>27. MemoryOK'
  <2>1. \A e : Refused(e)' <=> Refused(e)
    BY <1>8 DEF Refused, Old, Current, Stored
  <2>2. In(outbox)' = In(outbox)
    BY <1>8 DEF In
  <2>3. active' # NoRequest => Old(active.id)' /\ active'.attempt >= 1 /\ Stored(active.id)' # {}
    BY <1>1, <1>8 DEF MemoryOK, Old, Stored
  <2> QED
    BY <1>1, <1>8, <1>9, <2>1, <2>2, <2>3 DEF MemoryOK
<1>28. PlaceOK'
  <2>1. Blocked' <=> Blocked
    BY <1>8 DEF Blocked, Unrefused
  <2> QED
    BY <1>7, <1>8, <1>9, <2>1 DEF PlaceOK
<1>29. ASSUME NEW n \in DOMAIN retries PROVE Due(recovery[n])'
  <2>1. PICK i \in S : i = f[n] /\ i \in page /\ i \in DOMAIN requests
    BY <1>13, <1>16, <1>17, <1>29
  <2>2. PICK e : e = retries[n]
    OBVIOUS
  <2>3. e = Retry(requests[i])
    BY <1>17, <1>29, <2>1, <2>2
  <2>4. /\ e \in Event /\ e.kind = "request" /\ e.run = run
        /\ e.id = requests[i].id /\ e.attempt = requests[i].attempt + 1
    BY <1>18, <2>1, <2>3
  <2>5. requests[i].attempt \in Nat
    BY <1>10, <2>1 DEF Rows
  <2>6. \A k \in Stored(e.id) : k = i
    BY <1>1, <2>1, <2>4 DEF Stored, RowsOK
  <2>7. Stored(e.id)' = Stored(e.id) /\ i \in Stored(e.id)
    BY <1>8, <2>1, <2>4 DEF Stored
  <2>8. Old(e.id)'
    BY <1>1, <1>8, <2>1, <2>4 DEF RowsOK, Old
  <2>9. e.attempt <= Limit(e.id)'
    <3>1. requests[i].attempt < Ceiling(requests[i]) /\ Ceiling(requests[i]) \in Nat
      BY <1>3, <2>1, CeilingFacts
    <3>2. Ceiling(requests[i]) <= Limit(requests[i].id)'
      BY <1>14, <2>1
    <3>3. PICK id : id = e.id
      OBVIOUS
    <3>4. Limit(requests[i].id)' = Limit(id)'
      BY <1>8, <2>4, <3>3 DEF Limit
    <3>5. Limit(id)' \in Nat
      <4>1. actions' \in Nat
        BY <1>23 DEF NodeTypes
      <4> QED
        BY <4>1, GrantFacts DEF Limit
    <3>6. e.attempt <= Limit(id)'
      BY <2>4, <2>5, <3>1, <3>2, <3>4, <3>5
    <3> QED
      BY <3>3, <3>6
  <2>10. Sound(e)'
    BY <1>8, <2>4, <2>5, <2>6, <2>7, <2>8, <2>9 DEF Sound
  <2>11. Due(e)'
    BY <1>8, <2>4, <2>5, <2>6, <2>7, <2>10 DEF Due
  <2>12. recovery'[n] = e
    BY <1>7, <2>2
  <2> QED
    BY <2>11, <2>12 DEF Due, Sound, Old, Stored, Limit
<1>30. ASSUME NEW m \in DOMAIN retries, NEW n \in DOMAIN retries, retries[m].id = retries[n].id
       PROVE  m = n
  <2>1. f[m] \in DOMAIN requests /\ f[n] \in DOMAIN requests
    BY <1>13, <1>16, <1>17
  <2>2. requests[f[m]].id = requests[f[n]].id
    BY <1>17, <1>18, <1>30, <2>1
  <2>3. f[m] = f[n]
    BY <1>1, <2>1, <2>2 DEF RowsOK
  <2> QED
    BY <1>16, <1>17, <2>3
<1>31. ASSUME NEW i \in Unresolved(0)', i <= after' \/ loaded' PROVE Covered(requests[i])'
  <2>1. i \in Unresolved(0) /\ i \in DOMAIN requests /\ i \in Nat
    BY <1>8, <1>10 DEF Unresolved, Current
  <2>2. PICK r : r = requests[i]
    OBVIOUS
  <2>3. Ceiling(r)' = Ceiling(r)
    <3>1. Ceiling(requests[i])' = Ceiling(requests[i])
      BY <1>14, <2>1
    <3>2. requests' = requests
      BY <1>8
    <3> QED
      BY <2>2, <3>1, <3>2 DEF Ceiling, Files
  <2>4. CASE i <= after
    <3>1. Covered(r)
      BY <1>1, <2>1, <2>2, <2>4 DEF RecoveryOK
    <3>2. \/ \E e \in stored : e.kind = "request" /\ e.id = r.id /\ e.run = run
          \/ r.attempt >= Ceiling(r)
      <4>1. In(recovery) = {}
        BY <1>9 DEF In
      <4> QED
        BY <1>9, <3>1, <4>1 DEF Covered
    <3>3. Covered(r)'
      BY <1>8, <2>3, <3>2 DEF Covered
    <3>4. requests'[i] = r
      BY <1>8, <2>2
    <3> QED
      BY <3>3, <3>4 DEF Covered, Ceiling, Files
  <2>5. CASE i > after
    <3>1. i \in Unresolved(after)
      BY <2>1, <2>5 DEF Unresolved
    <3>2. i \in page
      <4>1. CASE last
        BY <1>12, <1>20, <3>1, <4>1
      <4>2. CASE ~last
        <5>1. i <= Max(page)
          BY <1>7, <1>31, <4>2
        <5> QED
          BY <1>12, <1>21, <3>1, <4>2, <5>1
      <4> QED
        BY <4>1, <4>2
    <3>3. CASE i \in S
      <4>1. PICK n \in DOMAIN again : again[n] = r
        <5>1. In(again) = {requests[k] : k \in S}
          BY <1>15
        <5>2. r \in In(again)
          BY <2>2, <3>3, <5>1
        <5> QED
          BY <5>2 DEF In
      <4>2. retries[n].id = r.id /\ retries[n] \in In(recovery')
        <5>1. f[n] \in DOMAIN requests /\ requests[f[n]] = r /\ n \in DOMAIN retries
          BY <1>13, <1>16, <1>17, <4>1
        <5>2. retries[n] = Retry(requests[f[n]])
          BY <1>17, <4>1
        <5> QED
          BY <1>7, <1>18, <5>1, <5>2 DEF In
      <4>3. Covered(r)'
        BY <4>2 DEF Covered
      <4>4. requests'[i] = r
        BY <1>8, <2>2
      <4> QED
        BY <4>3, <4>4 DEF Covered, Ceiling, Files
    <3>4. CASE i \notin S
      <4>1. r.attempt \in Nat /\ Ceiling(r) \in Nat
        BY <1>10, <2>1, <2>2, CeilingFacts DEF Rows
      <4>2. r.attempt >= Ceiling(r)'
        BY <1>3, <2>2, <2>3, <3>2, <3>4, <4>1
      <4>3. Covered(r)'
        BY <4>2 DEF Covered
      <4>4. requests'[i] = r
        BY <1>8, <2>2
      <4> QED
        BY <4>3, <4>4 DEF Covered, Ceiling, Files
    <3> QED
      BY <3>3, <3>4
  <2> QED
    BY <1>10, <2>1, <2>4, <2>5
<1>32. RecoveryOK'
  <2>1. DOMAIN recovery' = DOMAIN retries /\ recovery' = retries
    BY <1>7
  <2>2. after' <= Len(requests') /\ waiting' = NoRequest
    BY <1>8, <1>9, <1>22
  <2> QED
    BY <1>29, <1>30, <1>31, <2>1, <2>2 DEF RecoveryOK
<1> QED
  BY <1>14, <1>23, <1>25, <1>26, <1>27, <1>28, <1>32 DEF NodeInv

----------------------------------------------------------------------------
(* The theorems.                                                           *)

(* The first state is one.                                                  *)
LEMMA InitKeeps == NodeInit => NodeInv
<1> SUFFICES ASSUME NodeInit PROVE NodeInv
  OBVIOUS
<1>1. /\ version = [t \in Texts |-> 1] /\ requests = <<>> /\ stored = {} /\ late = {} /\ outbox = <<>>
      /\ budget = {} /\ action = 0 /\ actions = 0 /\ run = 0 /\ place = "down" /\ todo = <<>>
      /\ committed = {} /\ ready = FALSE /\ rejected = {} /\ waiting = NoRequest
      /\ active = NoRequest /\ recovery = <<>> /\ after = 0 /\ loaded = FALSE
  BY DEF NodeInit
<1>2. /\ <<>> \in Seq(Event) /\ <<>> \in Seq(Rows) /\ DOMAIN requests = {} /\ Len(requests) = 0
      /\ In(outbox) = {} /\ In(todo) = {} /\ In(recovery) = {} /\ DOMAIN recovery = {}
  BY <1>1 DEF In
<1>3. NodeTypes
  BY <1>1, <1>2 DEF NodeTypes, NodePlaces
<1>4. RowsOK /\ BudgetOK
  BY <1>1, <1>2 DEF RowsOK, BudgetOK
<1>5. EventsOK
  BY <1>1, <1>2 DEF EventsOK
<1>6. MemoryOK
  BY <1>1, <1>2 DEF MemoryOK
<1>7. PlaceOK
  BY <1>1 DEF PlaceOK
<1>8. RecoveryOK
  BY <1>1, <1>2 DEF RecoveryOK, Unresolved
<1> QED
  BY <1>3, <1>4, <1>5, <1>6, <1>7, <1>8 DEF NodeInv

(* Nothing but its own steps moves the node.                               *)
LEMMA NodeStutters == NodeInv /\ UNCHANGED nodeVars => NodeInv'
<1> SUFFICES ASSUME NodeInv, UNCHANGED nodeVars PROVE NodeInv'
  OBVIOUS
<1>1. NodeTypes /\ PlaceOK
  BY DEF NodeInv
<1>2. /\ UNCHANGED <<version, requests, stored, late, outbox, budget, action, actions, run>>
      /\ UNCHANGED <<place, todo, committed>>
      /\ UNCHANGED <<ready, rejected, waiting, active, recovery, after, loaded>>
      /\ UNCHANGED memoryVars /\ UNCHANGED pageVars
  BY DEF nodeVars, ledgerVars, diskVars, processVars, flushVars, memoryVars, askVars, pageVars
<1>3. NodeTypes'
  BY <1>1, <1>2 DEF NodeTypes
<1>4. RowsOK' /\ BudgetOK' /\ EventsOK'
  <2>1. In(todo)' \subseteq In(outbox) \cup stored
    BY <1>2 DEF NodeInv, EventsOK, In
  <2> QED
    BY <1>2, <2>1, StillKeeps
<1>5. MemoryOK' /\ RecoveryOK'
  BY <1>2, StillRemembers, StillRecovers
<1>6. PlaceOK'
  BY <1>1, <1>2 DEF PlaceOK, Blocked, Unrefused
<1> QED
  BY <1>3, <1>4, <1>5, <1>6 DEF NodeInv

(* The inductive invariant holds, for any number of texts and any bounds.  *)
THEOREM NodeInvariant == NodeSpec => []NodeInv
<1>1. NodeInv /\ [NodeNext]_nodeVars => NodeInv'
  <2> SUFFICES ASSUME NodeInv, NodeNext PROVE NodeInv'
    BY NodeStutters
  <2>1. CASE Loop
    <3>1. CASE Start
      BY <3>1, StartKeeps
    <3>2. CASE BeginReady \/ BeginPoll
      BY <3>2, BeginKeeps
    <3>3. CASE EndReady
      BY <3>3, EndReadyKeeps
    <3>4. CASE EndFlush
      BY <3>4, EndFlushKeeps
    <3>5. CASE ReadPage
      BY <3>5, ReadPageKeeps
    <3>6. CASE Choose
      BY <3>6, ChooseKeeps
    <3>7. CASE EndSecond \/ EndComplete
      BY <3>7, EndCallKeeps
    <3>8. CASE EndStop
      BY <3>8, EndKeeps
    <3>9. CASE SendNext
      BY <3>9, SendKeeps
    <3> QED
      BY <2>1, <3>1, <3>2, <3>3, <3>4, <3>5, <3>6, <3>7, <3>8, <3>9 DEF Loop
  <2>2. CASE Complete
    BY <2>2, CompleteKeeps
  <2>3. CASE Lose
    BY <2>3, LoseKeeps
  <2>4. CASE LateCall
    BY <2>4, LateKeeps
  <2>5. CASE Crash
    BY <2>5, EndKeeps
  <2>6. CASE StopNode
    BY <2>6, StopKeeps
  <2>7. CASE \E t \in Texts : Correct(t)
    BY <2>7, CorrectKeeps
  <2> QED
    BY <2>1, <2>2, <2>3, <2>4, <2>5, <2>6, <2>7 DEF NodeNext
<1> QED
  BY <1>1, InitKeeps, PTL DEF NodeSpec

(* The inductive invariant implies what the node promises.                 *)
LEMMA InvCounts == NodeInv => NodeKeepsCount
<1> SUFFICES ASSUME NodeInv PROVE NodeKeepsCount
  OBVIOUS
<1>1. NodeTypes /\ RowsOK /\ EventsOK /\ MemoryOK /\ RecoveryOK
  BY DEF NodeInv
<1>2. NothingFatal
  <2> SUFFICES ASSUME NEW i \in DOMAIN outbox
               PROVE  Verdict(outbox[i]) \in {"accepted", "receipt", "LATE_RESULT"}
    BY DEF NothingFatal
  <2>1. PICK e : e = outbox[i]
    OBVIOUS
  <2>2. e \in In(outbox) /\ Sound(e) /\ e \in Event
    BY <1>1, <2>1 DEF EventsOK, In, NodeTypes
  <2>3. ASSUME e \notin stored, Current(e.id), Stored(e.id) = {}
        PROVE  e.kind = "request" /\ e.attempt = 1 /\ ~Claimed(e.id)
    <3>1. e.kind = "request" /\ ~(e.attempt > 1) /\ e.attempt >= 1 /\ e.attempt \in Nat
      BY <2>2, <2>3 DEF Sound, Event
    <3>2. ~Claimed(e.id)
      BY <1>1, <2>2, <2>3, <3>1 DEF EventsOK, Unasked
    <3> QED
      BY <3>1, <3>2
  <2>4. Verdict(e) \in {"accepted", "receipt", "LATE_RESULT"}
    BY <2>3 DEF Verdict
  <2> QED
    BY <2>1, <2>4
<1>3. AttemptsBounded
  <2> SUFFICES ASSUME NEW i \in DOMAIN requests
               PROVE  requests[i].attempt <= Allowance * (1 + actions)
    BY DEF AttemptsBounded
  <2>1. requests[i].attempt <= Limit(requests[i].id) /\ requests[i].attempt \in Nat
    <3>1. requests[i] \in Rows
      BY <1>1 DEF NodeTypes
    <3> QED
      BY <1>1, <3>1 DEF RowsOK, Rows
  <2>2. /\ Allowance * actions \in Nat /\ Allowance * (1 + actions) \in Nat
        /\ Allowance * (1 + actions) = Allowance * actions + Allowance /\ Allowance \in Nat
    BY <1>1, GrantFacts, NodeAssumption DEF NodeTypes
  <2>3. Limit(requests[i].id) \in {Allowance * actions, Allowance * (1 + actions)}
    BY DEF Limit
  <2> QED
    BY <2>1, <2>2, <2>3
<1>4. RecoveryMissesNothing
  <2> SUFFICES ASSUME loaded, recovery = <<>>, waiting = NoRequest, NEW i \in Unresolved(0)
               PROVE  \/ \E e \in stored : e.kind = "request" /\ e.id = requests[i].id /\ e.run = run
                      \/ requests[i].attempt >= Ceiling(requests[i])
    BY DEF RecoveryMissesNothing
  <2>1. Covered(requests[i])
    BY <1>1 DEF RecoveryOK
  <2>2. In(recovery) = {}
    BY DEF In
  <2> QED
    BY <2>1, <2>2 DEF Covered
<1> QED
  BY <1>2, <1>3, <1>4 DEF NodeKeepsCount

(* "Restarting the same child process must never refresh that allowance"   *)
(* and no event ends the node, whatever crashes, losses, late calls and    *)
(* corrections come in between; a recovery leaves no request out.          *)
THEOREM CountTheorem == NodeSpec => []NodeKeepsCount
BY NodeInvariant, InvCounts, PTL
=============================================================================
