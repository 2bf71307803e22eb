--------------------------- MODULE TranslatorNode ---------------------------
(***************************************************************************)
(* The translator node in its durable mode: it asks the meeting's ledger   *)
(* for texts without a translation, reserves them with a request, has the  *)
(* model translate, and stores the result, every event through an outbox   *)
(* on disk (durable.rs, durable_queue.rs of dora-qwen35-translator).  A    *)
(* process that starts again replays the outbox, then takes up the         *)
(* requests that have no result, as long as their allowance of attempts    *)
(* lasts (recovery_budget.rs).                                             *)
(*                                                                         *)
(* The ledger is reduced to the verdict and effect it has on each event;   *)
(* TranslationCoverage models it in full.  A version of a text stands for  *)
(* its revision and its direction epoch.                                   *)
(*                                                                         *)
(* Abstracted: which pending texts form one request is any choice, and so  *)
(* is how long the phrase window waits for more of them.                   *)
(***************************************************************************)
EXTENDS Integers, Sequences, FiniteSetsExt, Functions

CONSTANTS
  Texts,           \* pieces of committed text
  PageSize,        \* requests in one recovery page; 100 in the code
  FlushLimit,      \* events one flush sends; 8 in the code
  Allowance,       \* attempts, and extra attempts an action grants; 3 in the code
  MaxRuns,         \* bound: processes, one after the other
  MaxActions,      \* bound: recoveries the operator asks for
  MaxCorrections,  \* bound: corrections and changes of direction
  MaxLosses        \* bound: calls that are lost, refused for now or late

ASSUME NodeAssumption ==
  /\ PageSize \in Nat \ {0} /\ FlushLimit \in Nat \ {0} /\ Allowance \in Nat \ {0}
  /\ MaxRuns \in Nat /\ MaxActions \in Nat /\ MaxCorrections \in Nat /\ MaxLosses \in Nat

VARIABLES
  version,    \* the ledger's current version of each text
  requests,   \* the ledger's translations, in the order of created_seq
  stored,     \* events the ledger has receipts for
  late,       \* calls the client gave up that the server still holds
  outbox,     \* events on disk without a receipt, in order
  budget,     \* retry-<action>-<translation>.budget files
  action,     \* FORUM_TRANSLATOR_RECOVERY_ID of the process, 0: none
  actions,    \* recoveries asked for so far
  run,        \* producer run of the process
  place,      \* where the process is
  todo,       \* events the flush under way has still to send
  committed,  \* events it has receipts for
  \* the memory of DurableQueue:
  ready,      \* the outbox of earlier processes is replayed
  rejected,   \* events that were refused for good
  waiting,    \* the request that has no receipt yet
  active,     \* the request the model works on
  recovery,   \* retries of the page under way
  after,      \* the place in the ledger where the next page begins
  loaded,     \* there is no next page
  losses

ledgerVars == <<version, requests, stored>>
diskVars == <<outbox, budget>>
processVars == <<action, actions, run>>
flushVars == <<todo, committed>>
askVars == <<waiting, active>>
pageVars == <<recovery, after, loaded>>
memoryVars == <<ready, rejected, askVars, pageVars>>
nodeVars == <<ledgerVars, late, diskVars, processVars, place, flushVars, memoryVars, losses>>

Current(id) == \A t \in DOMAIN id.sources : id.sources[t] = version[t]
Stored(id) == {i \in DOMAIN requests : requests[i].id = id}

(* The first n of a set of places in a list, and the members at places.    *)
Rank(i, S) == Cardinality({k \in S : k <= i})
FirstOf(S, n) == {i \in S : Rank(i, S) <= n}
Picked(list, S) ==
  [n \in 1..Cardinality(S) |-> list[CHOOSE i \in S : Rank(i, S) = n]]

----------------------------------------------------------------------------
(* The ledger.                                                             *)

(* Another request that is still current covers one of the texts.          *)
Claimed(id) ==
  \E i \in DOMAIN requests :
     /\ Current(requests[i].id)
     /\ DOMAIN requests[i].id.sources \cap DOMAIN id.sources # {}

(* A request opens the next attempt, a result ends the attempt it is of.   *)
Follows(e, row) ==
  \/ /\ e.kind = "request"
     /\ row.state \in {"requested", "failed"} /\ e.attempt = row.attempt + 1
  \/ /\ e.kind # "request"
     /\ row.state = "requested" /\ e.attempt = row.attempt

Verdict(e) ==
  IF e \in stored THEN "receipt"
  ELSE IF ~Current(e.id) THEN "LATE_RESULT"
  ELSE IF Stored(e.id) # {}
  THEN IF \E i \in Stored(e.id) : Follows(e, requests[i]) THEN "accepted" ELSE "LATE_RESULT"
  ELSE IF e.kind # "request" THEN "TRANSLATION_NOT_FOUND"
  ELSE IF e.attempt = 1 /\ ~Claimed(e.id) THEN "accepted" ELSE "COVERAGE_CONFLICT"

Row(e) == [id |-> e.id, attempt |-> e.attempt,
           state |-> IF e.kind = "request" THEN "requested" ELSE e.kind]
Ingest(e) ==
  IF Verdict(e) # "accepted" THEN UNCHANGED <<requests, stored>>
  ELSE /\ stored' = stored \cup {e}
       /\ requests' = IF Stored(e.id) = {} THEN Append(requests, Row(e))
                      ELSE [i \in DOMAIN requests |->
                              IF requests[i].id = e.id THEN Row(e) ELSE requests[i]]

Pending == {t \in Texts : \A i \in DOMAIN requests :
              Current(requests[i].id) => t \notin DOMAIN requests[i].id.sources}

(* unresolved_translation_page: after a place in the order of creation.    *)
Unresolved(from) ==
  {i \in DOMAIN requests : /\ i > from /\ Current(requests[i].id)
                           /\ requests[i].state \in {"requested", "failed"}}
PageAfter(from) == FirstOf(Unresolved(from), PageSize)

(* A correction or a change of direction: what was made from the old       *)
(* version is stale.                                                       *)
Correct(t) ==
  /\ FoldFunction(+, 0, version) < Cardinality(Texts) + MaxCorrections
  /\ version' = [version EXCEPT ![t] = @ + 1]
  /\ UNCHANGED <<requests, stored, late, diskVars, processVars, place, flushVars, memoryVars,
                 losses>>

(* The server comes to a call whose client has given up.                   *)
LateCall ==
  /\ \E e \in late : Ingest(e) /\ late' = late \ {e}
  /\ UNCHANGED <<version, diskVars, processVars, place, flushVars, memoryVars, losses>>

----------------------------------------------------------------------------
(* The process.                                                            *)

NoRequest == [kind |-> "none"]
Forget ==
  /\ ready' = FALSE /\ rejected' = {} /\ waiting' = NoRequest /\ active' = NoRequest
  /\ recovery' = <<>> /\ after' = 0 /\ loaded' = FALSE

(* DurableQueue::open.  The same action on a restart, or a new one.        *)
Start ==
  /\ place = "down" /\ run < MaxRuns
  /\ run' = run + 1 /\ place' = "idle" /\ Forget
  /\ \E a \in {0, action, actions + 1} :
       /\ a <= MaxActions
       /\ action' = a
       /\ actions' = IF a > actions THEN a ELSE actions
  /\ UNCHANGED <<ledgerVars, late, diskVars, flushVars, losses>>

Quiet == todo' = <<>> /\ committed' = {}

Crash ==
  /\ place # "down" /\ run < MaxRuns
  /\ place' = "down" /\ Forget /\ Quiet
  /\ UNCHANGED <<ledgerVars, late, diskVars, processVars, losses>>

Unrefused(events) == {i \in DOMAIN events : events[i] \notin rejected}

(* Mutant: events refused for good count among the first. *)
FlushHead(purpose, events) ==
  /\ place' = purpose /\ committed' = {}
  /\ todo' = Picked(events, FirstOf(DOMAIN events, FlushLimit) \cap Unrefused(events))

(* flush: the first events that were not refused for good.                 *)
Flush(purpose, events) ==
  /\ place' = purpose /\ committed' = {}
  /\ todo' = Picked(events, FirstOf(Unrefused(events), FlushLimit))

BeginReady ==
  /\ place = "idle" /\ ~ready
  /\ Flush("ready", outbox)
  /\ UNCHANGED <<ledgerVars, late, diskVars, processVars, memoryVars, losses>>

(* With a generation under way nothing is pending and a poll has nothing   *)
(* to do.                                                                  *)
BeginPoll ==
  /\ place = "idle" /\ ready /\ active = NoRequest
  /\ Flush("poll", outbox)
  /\ UNCHANGED <<ledgerVars, late, diskVars, processVars, memoryVars, losses>>

(* flush_one: a receipt removes the event from the outbox; an event that   *)
(* came too late is left alone, except that the sender of its own result   *)
(* does not note it down; every other refusal ends the process.            *)
SendNext ==
  /\ todo # <<>>
  /\ LET e == Head(todo) IN
     /\ Ingest(e)
     /\ \/ /\ Verdict(e) \in {"accepted", "receipt"}
           /\ outbox' = Picked(outbox, {i \in DOMAIN outbox : outbox[i] # e})
           /\ committed' = committed \cup {e}
           /\ todo' = Tail(todo)
           /\ UNCHANGED <<place, memoryVars>>
        \/ /\ Verdict(e) = "LATE_RESULT"
           /\ rejected' = IF place = "complete" THEN rejected ELSE rejected \cup {e}
           /\ todo' = Tail(todo)
           /\ UNCHANGED <<outbox, committed, place, ready, askVars, pageVars>>
        \/ /\ Verdict(e) \notin {"accepted", "receipt", "LATE_RESULT"}
           /\ place' = "down" /\ Forget /\ Quiet
           /\ UNCHANGED outbox
  /\ UNCHANGED <<version, late, budget, processVars, losses>>

(* A retryable error ends the flush: the call came to nothing, was stored  *)
(* without an answer, or waits at the server.                              *)
Lose ==
  /\ todo # <<>> /\ losses < MaxLosses
  /\ losses' = losses + 1
  /\ LET e == Head(todo) IN
     \/ UNCHANGED <<requests, stored, late>>
     \/ Ingest(e) /\ UNCHANGED late
     \/ late' = late \cup {e} /\ UNCHANGED <<requests, stored>>
  /\ todo' = <<>>
  /\ UNCHANGED <<version, diskVars, processVars, place, committed, memoryVars>>

(* blocked: anything of the outbox has still to be sent.                   *)
Blocked == Unrefused(outbox) # {}

(* mark_ready *)
EndReady ==
  /\ place = "ready" /\ todo = <<>>
  /\ ready' = ~Blocked
  /\ place' = "idle" /\ Quiet
  /\ UNCHANGED <<ledgerVars, late, diskVars, processVars, rejected, askVars, pageVars, losses>>

(* activate: the receipt of the request lets the model begin.              *)
Activate == active' = waiting /\ waiting' = NoRequest /\ place' = "idle"

(* poll, after its flush: the request that waited for its receipt becomes  *)
(* the active one, goes on waiting, or is dropped.                         *)
EndFlush ==
  /\ place = "poll" /\ todo = <<>>
  /\ \/ waiting # NoRequest /\ waiting \in committed /\ Activate
     \/ /\ waiting # NoRequest /\ waiting \notin committed \cup rejected
        /\ place' = "idle" /\ UNCHANGED askVars
     \/ /\ waiting = NoRequest \/ waiting \in rejected \ committed
        /\ waiting' = NoRequest /\ UNCHANGED active
        /\ place' = IF Blocked THEN "idle"
                    ELSE IF ~loaded /\ recovery = <<>> THEN "page" ELSE "choose"
  /\ Quiet
  /\ UNCHANGED <<ledgerVars, late, diskVars, processVars, ready, rejected, pageVars, losses>>

(* ceiling: what an action grants is written down when it is first asked.  *)
Files(row) == {b \in budget : b.action = action /\ b.id = row.id}
Ceiling(row) ==
  IF action = 0 THEN Allowance
  ELSE IF Files(row) = {} THEN row.attempt + Allowance
  ELSE (CHOOSE b \in Files(row) : TRUE).ceiling

(* Mutant: a page with nothing to do ends the recovery. *)
LoadedWhenIdle(page, entries) == Cardinality(page) < PageSize \/ entries = <<>>

(* recovery_loaded: there is no next page.                                 *)
Loaded(page, entries) == Cardinality(page) < PageSize

Retry(row) == [kind |-> "request", id |-> row.id, attempt |-> row.attempt + 1, run |-> run]

(* One page of requests without a result; each is tried again under the    *)
(* next attempt unless its allowance is used up.                           *)
ReadPage ==
  /\ place = "page"
  /\ LET page == PageAfter(after)
         again == Picked(requests, {i \in page : requests[i].attempt < Ceiling(requests[i])})
         retries == [n \in DOMAIN again |-> Retry(again[n])]
         last == Loaded(page, retries) IN
     /\ recovery' = retries /\ loaded' = last
     /\ after' = IF last THEN 0 ELSE Max(page)
     /\ budget' = IF action = 0 THEN budget
                  ELSE budget \cup {[action |-> action, id |-> requests[i].id,
                                     ceiling |-> Ceiling(requests[i])] : i \in page}
     /\ place' = IF retries = <<>> /\ ~last THEN "idle" ELSE "choose"
  /\ UNCHANGED <<ledgerVars, late, outbox, processVars, flushVars, ready, rejected, askVars, losses>>

(* The next retry, or else a request for some of the pending texts, is put *)
(* into the outbox, and flush is called a second time.                     *)
NewRequest(S) == [kind |-> "request", id |-> [sources |-> [t \in S |-> version[t]], run |-> run],
                  attempt |-> 1, run |-> run]
Proposals ==
  IF recovery # <<>> THEN {Head(recovery)}
  ELSE {NewRequest(S) : S \in (SUBSET Pending) \ {{}}}

Choose ==
  /\ place = "choose"
  /\ \/ \E e \in Proposals :
          /\ outbox' = Append(outbox, e)
          /\ waiting' = e
          /\ recovery' = IF recovery = <<>> THEN recovery ELSE Tail(recovery)
          /\ Flush("second", outbox')
     \/ Proposals = {} /\ place' = "idle" /\ UNCHANGED <<outbox, waiting, recovery, flushVars>>
  /\ UNCHANGED <<ledgerVars, late, budget, processVars, ready, rejected, active, after, loaded, losses>>

EndSecond ==
  /\ place = "second" /\ todo = <<>>
  /\ \/ waiting \in committed /\ Activate
     \/ waiting \notin committed /\ place' = "idle" /\ UNCHANGED askVars
  /\ Quiet
  /\ UNCHANGED <<ledgerVars, late, diskVars, processVars, ready, rejected, pageVars, losses>>

(* The record of how the generation under way ended.                       *)
Outcome(kind) == [kind |-> kind, id |-> active.id, attempt |-> active.attempt, run |-> run]

(* complete: a text, or the reason there is none.                          *)
Complete ==
  /\ place = "idle" /\ ready /\ active # NoRequest
  /\ \E kind \in {"final", "failed"} :
       outbox' = Append(outbox, Outcome(kind)) /\ todo' = <<Outcome(kind)>>
  /\ active' = NoRequest
  /\ place' = "complete" /\ committed' = {}
  /\ UNCHANGED <<ledgerVars, late, budget, processVars, ready, rejected, waiting, pageVars, losses>>

EndComplete ==
  /\ place = "complete" /\ todo = <<>>
  /\ place' = "idle" /\ Quiet
  /\ UNCHANGED <<ledgerVars, late, diskVars, processVars, memoryVars, losses>>

(* stop: on a Stop of the dataflow and on any error; a generation under    *)
(* way fails for the record, and what is pending is sent once more.        *)
StopNode ==
  /\ place = "idle" /\ run < MaxRuns
  /\ outbox' = IF active # NoRequest THEN Append(outbox, Outcome("failed")) ELSE outbox
  /\ Flush("stop", outbox')
  /\ active' = NoRequest
  /\ UNCHANGED <<ledgerVars, late, budget, processVars, ready, rejected, waiting, pageVars, losses>>

EndStop ==
  /\ place = "stop" /\ todo = <<>>
  /\ place' = "down" /\ Forget /\ Quiet
  /\ UNCHANGED <<ledgerVars, late, diskVars, processVars, losses>>

Loop ==
  \/ Start \/ BeginReady \/ EndReady \/ BeginPoll \/ EndFlush \/ ReadPage \/ Choose
  \/ EndSecond \/ EndComplete \/ EndStop \/ SendNext

NodeNext ==
  \/ Loop \/ Complete
  \/ Lose \/ LateCall \/ Crash \/ StopNode
  \/ \E t \in Texts : Correct(t)

NodeInit ==
  /\ version = [t \in Texts |-> 1]
  /\ requests = <<>> /\ stored = {} /\ late = {} /\ outbox = <<>> /\ budget = {}
  /\ action = 0 /\ actions = 0 /\ run = 0 /\ place = "down"
  /\ todo = <<>> /\ committed = {} /\ losses = 0
  /\ ready = FALSE /\ rejected = {} /\ waiting = NoRequest /\ active = NoRequest
  /\ recovery = <<>> /\ after = 0 /\ loaded = FALSE

NodeSpec == NodeInit /\ [][NodeNext]_nodeVars

(* The loop of the node goes on, the model answers or its deadline does,   *)
(* and a stopped process is started again (the bound MaxRuns keeps the     *)
(* last one running).                                                      *)
NodeFairSpec == NodeSpec /\ WF_nodeVars(Loop) /\ WF_nodeVars(Complete)

----------------------------------------------------------------------------
(* No event of the outbox can ever be refused but as late: any other       *)
(* refusal ends the node, and every process after it at the same event.    *)
NothingFatal ==
  \A i \in DOMAIN outbox : Verdict(outbox[i]) \in {"accepted", "receipt", "LATE_RESULT"}

(* "Restarting the same child process must never refresh that allowance":  *)
(* a text is given to the model a limited number of times, plus as many    *)
(* for each recovery the operator asked for.                               *)
AttemptsBounded ==
  \A i \in DOMAIN requests : requests[i].attempt <= Allowance * (1 + actions)

(* A process that says it has looked at everything has tried everything:   *)
(* each request of an earlier process without a result has used up its     *)
(* allowance, however the pages fell.                                      *)
RecoveryMissesNothing ==
  (loaded /\ recovery = <<>> /\ waiting = NoRequest /\ active = NoRequest
     /\ place = "idle" /\ ~Blocked) =>
  \A i \in Unresolved(0) :
     \/ \E e \in stored : e.kind = "request" /\ e.id = requests[i].id /\ e.run = run
     \/ requests[i].attempt >= Ceiling(requests[i])

(* The translator never meets an event that ends it, never spends more     *)
(* attempts than it is allowed, and a recovery leaves no text behind.      *)
NodeKeepsCount == NothingFatal /\ AttemptsBounded /\ RecoveryMissesNothing

(* Every text ends with a translation, an explicit failure, or a used-up   *)
(* allowance; none stays pending, or with a request nobody works on.       *)
TextsSettle ==
  <>[](\A t \in Texts : \E i \in DOMAIN requests :
         /\ Current(requests[i].id) /\ t \in DOMAIN requests[i].id.sources
         /\ requests[i].state = "requested" => requests[i].attempt >= Ceiling(requests[i]))
=============================================================================
