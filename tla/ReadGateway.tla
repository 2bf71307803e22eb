---------------------------- MODULE ReadGateway ----------------------------
(***************************************************************************)
(* The services that show published material: the display gateway of this  *)
(* machine and the gateway of the local network.  Each has a thread that   *)
(* accepts connections, a thread for every connection, and a thread for    *)
(* every read of the projection, which may never return.  The slots are    *)
(* counted for all of them together, also for those that have ended.       *)
(*                                                                         *)
(* A request is what it asks for: a file that everybody gets, a view with  *)
(* a token, or a pairing with an invitation.  A token is its grant and the *)
(* audience it was made for: pairing gives the grant another.  A request   *)
(* for nothing that exists, and one over its rate, get a refusal.  TLS,    *)
(* headers, routes and what is read are left out; time is a choice.        *)
(***************************************************************************)
EXTENDS Naturals, FiniteSets

CONSTANTS
  Slots,      \* connections and readers at a time
  GrantLimit, \* MAX_GRANTS, of one gateway
  MaxGateway, \* bound: gateways ever started
  MaxGrant,   \* bound: grants ever made
  MaxConn,    \* bound: connections and readers that are there at a time
  Pieces      \* bound: what an answer is written in

ASSUME GatewayAssumption ==
  /\ {Slots, GrantLimit, MaxGateway, MaxGrant, MaxConn} \subseteq Nat
  /\ Pieces \in Nat \ {0}

VARIABLES
  gate,   \* of each gateway: its kind, its drop, its accepting thread
  grant,  \* of each grant: its gateway, and its audience while it is valid
  conn,   \* the threads that serve a connection
  shut,   \* the connections of which the socket was shut
  reader, \* the thread that a connection started to read the projection
  active  \* ACTIVE

gatewayVars == <<gate, grant, conn, shut, reader, active>>

Gateways == 1 .. MaxGateway
Grants == 1 .. MaxGrant
Conns == 1 .. MaxConn

NoGate == [kind |-> "none", drop |-> "absent", worker |-> "none"]
Unissued == [gate |-> 0, audience |-> "none"]
NoWant == [grant |-> 0, audience |-> "none"]
NoConn == [at |-> "free", gate |-> 0, slot |-> "none", want |-> NoWant, left |-> 0, late |-> 0]

Kind(c) == gate[conn[c].gate].kind
Stopped(g) == gate[g].drop # "no"

(* authorized, auth: the grant is there, not expired, and for the audience *)
(* that the token was made for.                                            *)
Authorized(c) ==
  /\ conn[c].want.grant # 0
  /\ grant[conn[c].want.grant] = [gate |-> conn[c].gate, audience |-> conn[c].want.audience]

(* The closures `active' and `permitted' of a request.                     *)
Active(c) == ~Stopped(conn[c].gate)
Permitted(c) == Active(c) /\ Authorized(c)

----------------------------------------------------------------------------
(* The operator.                                                           *)
NextGateway(g) == gate[g] = NoGate /\ \A h \in 1 .. g - 1 : gate[h] # NoGate
NextGrant(i) == grant[i].gate = 0 /\ \A j \in 1 .. i - 1 : grant[j].gate # 0

(* One gateway of a kind is held at a time.  The last one may still be     *)
(* ending.                                                                 *)
StartGateway(g) ==
  /\ NextGateway(g)
  /\ \E kind \in {"display", "lan"} :
       /\ \A h \in Gateways : gate[h].kind = kind => Stopped(h)
       /\ gate' = [gate EXCEPT ![g] = [kind |-> kind, drop |-> "no", worker |-> "check"]]
  /\ UNCHANGED <<grant, conn, shut, reader, active>>

Issue(i, g) ==
  /\ NextGrant(i) /\ gate[g].drop = "no"
  /\ Cardinality({j \in Grants : grant[j].gate = g /\ grant[j].audience # "none"}) < GrantLimit
  /\ \E audience \in IF gate[g].kind = "lan" THEN {"participant", "invite"} ELSE {"participant"} :
       grant' = [grant EXCEPT ![i] = [gate |-> g, audience |-> audience]]
  /\ UNCHANGED <<gate, conn, shut, reader, active>>

(* Revoked, or its time is over.                                           *)
Ends(i) ==
  /\ grant[i].audience # "none"
  /\ grant' = [grant EXCEPT ![i].audience = "none"]
  /\ UNCHANGED <<gate, conn, shut, reader, active>>

----------------------------------------------------------------------------
(* Drop: the flag, then the grants and the sockets (a request that comes   *)
(* between these two sees the flag); then the accepting thread and the     *)
(* requests are waited for, the readers are not.                           *)
Listed(g) == {c \in Conns : conn[c].gate = g /\ conn[c].at # "over"}
Shut(g) == shut \cup Listed(g)

DropTo(g, from, to) == gate[g].drop = from /\ gate' = [gate EXCEPT ![g].drop = to]

StopGateway(g) ==
  DropTo(g, "no", "flag") /\ UNCHANGED <<grant, conn, shut, reader, active>>

CloseAll(g) ==
  /\ DropTo(g, "flag", "closed")
  /\ grant' = [i \in Grants |->
       IF grant[i].gate = g THEN [grant[i] EXCEPT !.audience = "none"] ELSE grant[i]]
  /\ shut' = Shut(g)
  /\ UNCHANGED <<conn, reader, active>>

(* Mutant: the readers are waited for as well                              *)
OverWithReader(c) == conn[c].at = "over" /\ reader[c] # "running"

(* Mutant: a socket that was shut counts as the end of its connection      *)
OverOrShut(c) == conn[c].at = "over" \/ c \in shut

Over(c) == conn[c].at = "over"

Joined(g) ==
  /\ DropTo(g, "closed", "gone")
  /\ gate[g].worker = "done"
  /\ \A c \in Conns : conn[c].gate = g => Over(c)
  /\ UNCHANGED <<grant, conn, shut, reader, active>>

Drop(g) == CloseAll(g) \/ Joined(g)

----------------------------------------------------------------------------
(* The accepting thread looks at the flag before it accepts.               *)
WorkerTo(g, from, to) == gate[g].worker = from /\ gate' = [gate EXCEPT ![g].worker = to]

LookAtFlag(g) ==
  /\ WorkerTo(g, "check", IF Stopped(g) THEN "closing" ELSE "accept")
  /\ UNCHANGED <<grant, conn, shut, reader, active>>

NothingAccepted(g) ==
  WorkerTo(g, "accept", "check") /\ UNCHANGED <<grant, conn, shut, reader, active>>

(* Slot::acquire, the list of sockets, and a thread for the connection.    *)
(* Without a slot it is turned away.                                       *)
Free(c) == conn[c].at = "free" /\ \A d \in 1 .. c - 1 : conn[d].at # "free"

Accept(g) ==
  /\ active < Slots
  /\ WorkerTo(g, "accept", "check")
  /\ active' = active + 1
  /\ \E c \in Conns :
       /\ Free(c)
       /\ conn' = [conn EXCEPT ![c] =
            [at |-> "header", gate |-> g, slot |-> "held", want |-> NoWant, left |-> 0, late |-> 0]]
  /\ UNCHANGED <<grant, shut, reader>>

(* What was accepted while the gateway was stopped is shut as well.        *)
WorkerEnds(g) ==
  /\ WorkerTo(g, "closing", "done")
  /\ shut' = Shut(g)
  /\ UNCHANGED <<grant, conn, reader, active>>

Worker(g) == LookAtFlag(g) \/ NothingAccepted(g) \/ WorkerEnds(g)

----------------------------------------------------------------------------
(* The thread of a connection, and its reader.  A reader shares the slot   *)
(* of a request for the display, and takes over the one of a request from  *)
(* the network: the slot is free again when neither holds it.              *)

(* Mutant: the reader has no part in the slot                              *)
HeldByRequest(k, r) == k.slot = "held"

Held(k, r) == k.slot = "held" \/ r = "running"

Step(c, k, r) ==
  /\ conn' = [conn EXCEPT ![c] = k]
  /\ reader' = [reader EXCEPT ![c] = r]
  /\ shut' = IF k.at = "over" THEN shut \ {c} ELSE shut
  /\ active' = IF Held(conn[c], reader[c]) /\ ~Held(k, r) THEN active - 1 ELSE active

To(k, at, want, left) ==
  [at |-> at, gate |-> k.gate, slot |-> k.slot, want |-> want, left |-> left, late |-> k.late]

Left(k) == [To(k, "over", NoWant, 0) EXCEPT !.slot = "none"]

(* Anything but a view, sent as long as the gateway is not stopped.        *)
Plain(k) == To(k, "answer", NoWant, 1)
View(k) == k.want # NoWant

(* The client leaves, the deadline of the request is over, the socket was  *)
(* shut: there is no answer.                                               *)
Leave(c) ==
  /\ conn[c].at \notin {"free", "over"}
  /\ Step(c, Left(conn[c]), reader[c])
  /\ UNCHANGED <<gate, grant>>

(* A request that names nothing that exists is refused, as is one that is  *)
(* no request; a file is for everybody.                                    *)
ReadHeader(c) ==
  /\ conn[c].at = "header" /\ c \notin shut
  /\ \/ Step(c, Plain(conn[c]), "none")
     \/ \E i \in Grants, audience \in {"participant", "peer", "invite"} :
          /\ grant[i].gate = conn[c].gate
          /\ audience \in {"peer", "invite"} => Kind(c) = "lan"
          /\ Step(c, To(conn[c], "request", [grant |-> i, audience |-> audience], 0), "none")
  /\ UNCHANGED <<gate, grant>>

(* /v1/peer/pair: the first who comes turns the invitation into a lease.   *)
Pair(c) ==
  /\ conn[c].at = "request" /\ conn[c].want.audience = "invite"
  /\ grant' = IF Authorized(c) THEN [grant EXCEPT ![conn[c].want.grant].audience = "peer"]
              ELSE grant
  /\ Step(c, Plain(conn[c]), "none")
  /\ UNCHANGED gate

(* A request for a view is refused, also for its rate, or read for.        *)
BeginRead(c) ==
  /\ conn[c].at = "request" /\ conn[c].want.audience # "invite"
  /\ \/ /\ Permitted(c)
        /\ Step(c, [To(conn[c], "poll", conn[c].want, 0) EXCEPT
                      !.slot = IF Kind(c) = "display" THEN @ ELSE "none"], "running")
     \/ /\ ~Permitted(c) \/ Kind(c) = "lan"
        /\ Step(c, Plain(conn[c]), "none")
  /\ UNCHANGED <<gate, grant>>

ReaderReturns(c) ==
  /\ reader[c] = "running"
  /\ Step(c, conn[c], "sent")
  /\ UNCHANGED <<gate, grant>>

(* The wait for the reader asks for the permission all the time.  A view   *)
(* for the display is asked about again before it is sent.                 *)
Poll(c) ==
  /\ conn[c].at = "poll"
  /\ \/ /\ ~Permitted(c)
        /\ Step(c, Plain(conn[c]), reader[c])
     \/ /\ reader[c] = "sent"
        /\ \/ Step(c, Plain(conn[c]), "sent")
           \/ /\ Kind(c) = "display" => Permitted(c)
              /\ Step(c, To(conn[c], "answer", conn[c].want, Pieces), "sent")
  /\ UNCHANGED <<gate, grant>>

Allowed(c) == IF View(conn[c]) THEN Permitted(c) ELSE Active(c)

(* respond, write_response: every piece is asked about, and then written.  *)
Ask(c) ==
  /\ conn[c].at = "answer"
  /\ Step(c, IF Allowed(c) THEN [conn[c] EXCEPT !.at = "write"] ELSE Left(conn[c]), reader[c])
  /\ UNCHANGED <<gate, grant>>
Late(c) == IF View(conn[c]) /\ ~Permitted(c) THEN conn[c].late + 1 ELSE conn[c].late

Write(c) ==
  /\ conn[c].at = "write" /\ c \notin shut
  /\ LET sent == [To(conn[c], "answer", conn[c].want, conn[c].left - 1) EXCEPT !.late = Late(c)]
     IN Step(c, IF sent.left = 0 THEN Left(sent) ELSE sent, reader[c])
  /\ UNCHANGED <<gate, grant>>

(* reap: what is over is forgotten.                                        *)
Reap(c) ==
  /\ conn[c].at = "over" /\ reader[c] # "running"
  /\ conn' = [conn EXCEPT ![c] = NoConn]
  /\ reader' = [reader EXCEPT ![c] = "none"]
  /\ UNCHANGED <<gate, grant, shut, active>>

Request(c) == Leave(c) \/ ReadHeader(c) \/ Pair(c) \/ BeginRead(c) \/ Poll(c) \/ Ask(c) \/ Write(c)

----------------------------------------------------------------------------
GatewayInit ==
  /\ gate = [g \in Gateways |-> NoGate]
  /\ grant = [i \in Grants |-> Unissued]
  /\ conn = [c \in Conns |-> NoConn]
  /\ shut = {}
  /\ reader = [c \in Conns |-> "none"]
  /\ active = 0

GatewayNext ==
  \/ \E g \in Gateways : StartGateway(g) \/ StopGateway(g) \/ Drop(g) \/ Accept(g) \/ Worker(g)
  \/ \E i \in Grants : Ends(i) \/ \E g \in Gateways : Issue(i, g)
  \/ \E c \in Conns : Request(c) \/ ReaderReturns(c) \/ Reap(c)

(* The accepting thread polls, drop is a call that runs to its end, and a  *)
(* request has a deadline.  A reader may never return.                     *)
GatewayFairness ==
  /\ \A g \in Gateways : WF_gatewayVars(Worker(g)) /\ WF_gatewayVars(Drop(g))
  /\ \A c \in Conns : WF_gatewayVars(Request(c))

GatewaySpec == GatewayInit /\ [][GatewayNext]_gatewayVars /\ GatewayFairness

----------------------------------------------------------------------------
GatewayTypeOK ==
  /\ gate \in [Gateways -> [kind : {"none", "display", "lan"},
                             drop : {"absent", "no", "flag", "closed", "gone"},
                             worker : {"none", "check", "accept", "closing", "done"}]]
  /\ grant \in [Grants -> [gate : 0 .. MaxGateway,
                             audience : {"none", "participant", "invite", "peer"}]]
  /\ conn \in [Conns -> [at : {"free", "header", "request", "poll", "answer", "write", "over"},
                           gate : 0 .. MaxGateway, slot : {"held", "none"},
                           want : [grant : 0 .. MaxGrant,
                                   audience : {"none", "participant", "peer", "invite"}],
                           left : 0 .. Pieces, late : Nat]]
  /\ shut \in SUBSET Conns
  /\ reader \in [Conns -> {"none", "running", "sent"}]
  /\ active \in 0 .. Slots

(* However many gateways were started and ended, and although a reader may *)
(* never return, at most Slots readers run; and no slot is lost: each one  *)
(* that is counted is held by a request or by a reader.                    *)
ReadersBounded ==
  /\ Cardinality({c \in Conns : reader[c] = "running"}) <= Slots
  /\ active = Cardinality({c \in Conns : conn[c].slot = "held" \/ reader[c] = "running"})

(* Of a view of which the permission has ended, or the gateway been        *)
(* stopped, at most the piece is still sent that had been asked about; and *)
(* a gateway that is gone serves nobody.                                   *)
RevocationCuts ==
  /\ \A c \in Conns : conn[c].late <= 1
  /\ \A g \in Gateways : gate[g].drop = "gone" =>
       \A c \in Conns : conn[c].gate = g => conn[c].at = "over"

(* A gateway that is being ended ends, also if a reader never returns.     *)
DropEnds == \A g \in Gateways : gate[g].drop = "flag" ~> gate[g].drop = "gone"
=============================================================================
