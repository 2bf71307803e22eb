----------------------------- MODULE EdgeProofs -----------------------------
(***************************************************************************)
(* What the program shows and hears at its edges: the readers of the two   *)
(* gateways are bounded and no slot is lost, and a view ends with its      *)
(* permission, for any number of gateways, grants, connections and slots;  *)
(* the Python agent keeps the files of a meeting whole, for any number of  *)
(* meetings, finals and failures; and what is public is current, for any   *)
(* number of segments, peers and artifacts, however long the chain of      *)
(* artifacts made from artifacts.                                          *)
(***************************************************************************)
EXTENDS ReadGateway, ForumAgent, ArtifactReview, FiniteSetTheorems, SequenceTheorems, TLAPS

----------------------------------------------------------------------------
(* The two gateways.                                                       *)

Gate == [kind : {"none", "display", "lan"},
         drop : {"absent", "no", "flag", "closed", "gone"},
         worker : {"none", "check", "accept", "closing", "done"}]
Grant == [gate : 0 .. MaxGateway, audience : {"none", "participant", "invite", "peer"}]
Want == [grant : 0 .. MaxGrant, audience : {"none", "participant", "peer", "invite"}]
At == {"free", "header", "request", "poll", "answer", "write", "over"}
Conn == [at : At, gate : 0 .. MaxGateway, slot : {"held", "none"}, want : Want,
         left : 0 .. Pieces, late : Nat]
Read == {"none", "running", "sent"}

(* Everything the type says but of the counter.                            *)
Shape ==
  /\ gate \in [Gateways -> Gate]
  /\ grant \in [Grants -> Grant]
  /\ conn \in [Conns -> Conn]
  /\ shut \in SUBSET Conns
  /\ reader \in [Conns -> Read]

(* A view is read and sent for a grant that was permitted when it was      *)
(* asked for: since then the grant can have ended, not changed hands.      *)
Granted(c) ==
  /\ conn[c].want.grant \in Grants
  /\ conn[c].want.audience \in {"participant", "peer"}
  /\ grant[conn[c].want.grant].gate = conn[c].gate
  /\ grant[conn[c].want.grant].audience \in {conn[c].want.audience, "none"}

(* A request holds its slot until it reads, and a piece is late only when  *)
(* the permission ended after it had been asked about: the next is not.    *)
ConnOK(c) ==
  /\ conn[c].at = "free" => conn[c] = NoConn /\ reader[c] = "none"
  /\ conn[c].at # "free" => conn[c].gate \in Gateways /\ gate[conn[c].gate].drop # "absent"
  /\ conn[c].at \in {"header", "request"} => conn[c].slot = "held"
  /\ conn[c].at = "request" => conn[c].want.audience # "none"
  /\ conn[c].at \in {"answer", "write"} => conn[c].left # 0
  /\ conn[c].at = "over" => conn[c].slot = "none"
  /\ conn[c].at \in {"answer", "write"} /\ View(conn[c]) => Granted(c)
  /\ conn[c].at = "poll" => Granted(c)
  /\ conn[c].late <= 1
  /\ conn[c].late > 0 => \/ conn[c].at = "over"
                         \/ conn[c].at = "answer" /\ View(conn[c]) /\ ~Permitted(c)

GateOK(g) ==
  /\ gate[g].drop = "absent" => gate[g] = NoGate
  /\ gate[g].drop = "gone" =>
       gate[g].worker = "done" /\ \A c \in Conns : conn[c].gate = g => conn[c].at = "over"

Holding == {c \in Conns : conn[c].slot = "held" \/ reader[c] = "running"}
Counted == active = Cardinality(Holding) /\ active <= Slots

GatewayInv ==
  /\ Shape
  /\ \A c \in Conns : ConnOK(c)
  /\ \A g \in Gateways : GateOK(g)
  /\ Counted

----------------------------------------------------------------------------
(* The records of the threads.                                             *)
LEMMA ToRecord ==
  ASSUME NEW k \in Conn, NEW at \in At, NEW want \in Want, NEW left \in 0 .. Pieces
  PROVE  /\ To(k, at, want, left) \in Conn
         /\ To(k, at, want, left).at = at
         /\ To(k, at, want, left).gate = k.gate
         /\ To(k, at, want, left).slot = k.slot
         /\ To(k, at, want, left).want = want
         /\ To(k, at, want, left).left = left
         /\ To(k, at, want, left).late = k.late
  BY DEF To, Conn

(* A connection that waits for nothing has a well-formed request.          *)
LEMMA NothingWanted == NoWant \in Want
  BY GatewayAssumption DEF NoWant, Want

(* A connection that leaves is over and has given its slot back.           *)
LEMMA LeftRecord ==
  ASSUME NEW k \in Conn
  PROVE  /\ Left(k) \in Conn
         /\ Left(k).at = "over" /\ Left(k).gate = k.gate /\ Left(k).slot = "none"
         /\ Left(k).want = NoWant /\ Left(k).late = k.late
  <1> DEFINE t == To(k, "over", NoWant, 0)
  <1>1. 0 \in 0 .. Pieces
    BY GatewayAssumption
  <1>2. t \in Conn /\ t.at = "over" /\ t.gate = k.gate /\ t.want = NoWant /\ t.late = k.late
    BY <1>1, ToRecord, NothingWanted DEF At
  <1>3. Left(k) = [t EXCEPT !.slot = "none"]
    BY DEF Left
  <1> HIDE DEF t
  <1> QED BY <1>2, <1>3 DEF Conn

(* A plain answer is of one piece, of no grant, and keeps the slot.        *)
LEMMA PlainRecord ==
  ASSUME NEW k \in Conn
  PROVE  /\ Plain(k) \in Conn
         /\ Plain(k).at = "answer" /\ Plain(k).gate = k.gate /\ Plain(k).slot = k.slot
         /\ Plain(k).want = NoWant /\ Plain(k).late = k.late /\ Plain(k).left = 1
  <1>1. 1 \in 0 .. Pieces
    BY GatewayAssumption
  <1> QED BY <1>1, ToRecord, NothingWanted DEF Plain, At

(* What a thread does changes what it is and nothing of the others.        *)
LEMMA StepEffect ==
  ASSUME Shape, NEW c \in Conns, NEW k \in Conn, NEW r \in Read, Step(c, k, r)
  PROVE  /\ conn' \in [Conns -> Conn] /\ reader' \in [Conns -> Read] /\ shut' \in SUBSET Conns
         /\ conn'[c] = k /\ reader'[c] = r
         /\ \A d \in Conns \ {c} : conn'[d] = conn[d] /\ reader'[d] = reader[d]
  BY DEF Shape, Step

(* A connection that is neither free nor over takes a step of its own: it  *)
(* stays with its gateway, and takes no slot that it did not hold.         *)
Serves(c, k, r) ==
  /\ Step(c, k, r)
  /\ k \in Conn /\ r \in Read
  /\ k.gate = conn[c].gate /\ (k.at = "free" => conn[c].at = "free")
  /\ conn[c].at = "over" => k = conn[c]
  /\ Held(k, r) => Held(conn[c], reader[c])

(* ReadHeader: the header is refused, or becomes a request.                *)
LEMMA ReadHeaderServes ==
  ASSUME Shape, NEW c \in Conns, ConnOK(c), ReadHeader(c)
  PROVE  \E k \in Conn, r \in Read :
           /\ Serves(c, k, r)
           /\ \/ k = Plain(conn[c])
              \/ /\ k.at = "request" /\ k.slot = conn[c].slot /\ k.late = conn[c].late
                 /\ k.want.audience # "none"
  <1>1. conn[c] \in Conn /\ conn[c].at = "header" /\ conn[c].slot = "held"
    BY DEF Shape, ReadHeader, ConnOK
  <1>2. CASE Step(c, Plain(conn[c]), "none")
    <2>1. Serves(c, Plain(conn[c]), "none")
      BY <1>1, <1>2, PlainRecord DEF Serves, Held, Read
    <2> QED BY <2>1 DEF Serves
  <1>3. ASSUME NEW i \in Grants, NEW audience \in {"participant", "peer", "invite"},
               Step(c, To(conn[c], "request", [grant |-> i, audience |-> audience], 0), "none")
        PROVE  \E k \in Conn, r \in Read :
                 /\ Serves(c, k, r)
                 /\ k.at = "request" /\ k.slot = conn[c].slot /\ k.late = conn[c].late
                 /\ k.want.audience # "none"
    <2> DEFINE w == [grant |-> i, audience |-> audience]
               k == To(conn[c], "request", w, 0)
    <2>1. w \in Want /\ w.audience # "none" /\ 0 \in 0 .. Pieces
      BY GatewayAssumption DEF Want, Grants
    <2> HIDE DEF w
    <2>2. /\ k \in Conn /\ k.at = "request" /\ k.gate = conn[c].gate /\ k.slot = conn[c].slot
          /\ k.late = conn[c].late /\ k.want = w
      <3>1. ASSUME NEW x \in Conn, NEW v \in Want, NEW n \in 0 .. Pieces
            PROVE  LET u == To(x, "request", v, n)
                   IN /\ u \in Conn /\ u.at = "request" /\ u.gate = x.gate /\ u.slot = x.slot
                      /\ u.late = x.late /\ u.want = v
        BY ToRecord DEF At
      <3> QED BY <1>1, <2>1, <3>1
    <2>3. Step(c, k, "none")
      BY <1>3 DEF w
    <2> HIDE DEF k
    <2>4. Serves(c, k, "none")
      BY <1>1, <2>2, <2>3 DEF Serves, Held, Read
    <2> QED BY <2>1, <2>2, <2>4 DEF Serves
  <1> QED BY <1>2, <1>3 DEF ReadHeader

(* BeginRead: refused, or polled for a grant that was just permitted.      *)
LEMMA BeginReadServes ==
  ASSUME Shape, NEW c \in Conns, ConnOK(c), BeginRead(c)
  PROVE  \E k \in Conn, r \in Read :
           /\ Serves(c, k, r)
           /\ \/ k = Plain(conn[c])
              \/ /\ k.at = "poll" /\ k.want = conn[c].want /\ k.late = conn[c].late
                 /\ Permitted(c) /\ conn[c].want.audience # "invite"
  <1>1. conn[c] \in Conn /\ conn[c].at = "request" /\ conn[c].slot = "held"
    BY DEF Shape, BeginRead, ConnOK
  <1>2. CASE Step(c, Plain(conn[c]), "none")
    <2>1. Serves(c, Plain(conn[c]), "none")
      BY <1>1, <1>2, PlainRecord DEF Serves, Held, Read
    <2> QED BY <2>1 DEF Serves
  <1>3. ASSUME Permitted(c),
               Step(c, [To(conn[c], "poll", conn[c].want, 0) EXCEPT
                          !.slot = IF Kind(c) = "display" THEN @ ELSE "none"], "running")
        PROVE  \E k \in Conn, r \in Read :
                 Serves(c, k, r) /\ k.at = "poll" /\ k.want = conn[c].want /\ k.late = conn[c].late
    <2> DEFINE t == To(conn[c], "poll", conn[c].want, 0)
               k == [t EXCEPT !.slot = IF Kind(c) = "display" THEN @ ELSE "none"]
    <2>1. conn[c].want \in Want /\ 0 \in 0 .. Pieces
      BY <1>1, GatewayAssumption DEF Conn
    <2>2. /\ t \in Conn /\ t.at = "poll" /\ t.want = conn[c].want /\ t.late = conn[c].late
          /\ t.gate = conn[c].gate
      <3>1. ASSUME NEW x \in Conn, NEW v \in Want, NEW n \in 0 .. Pieces
            PROVE  LET u == To(x, "poll", v, n)
                   IN /\ u \in Conn /\ u.at = "poll" /\ u.want = v /\ u.late = x.late
                      /\ u.gate = x.gate
        BY ToRecord DEF At
      <3> QED BY <1>1, <2>1, <3>1
    <2>3. Step(c, k, "running")
      BY <1>3
    <2> HIDE DEF t
    <2>4. /\ k \in Conn /\ k.at = "poll" /\ k.want = conn[c].want /\ k.late = conn[c].late
          /\ k.gate = conn[c].gate
      BY <2>2 DEF Conn
    <2> HIDE DEF k
    <2>5. Serves(c, k, "running")
      BY <1>1, <2>3, <2>4 DEF Serves, Held, Read
    <2> QED BY <2>4, <2>5 DEF Serves
  <1> QED BY <1>2, <1>3 DEF BeginRead

(* Poll: an answer from the reader that returned, or a refusal.            *)
LEMMA PollServes ==
  ASSUME Shape, NEW c \in Conns, ConnOK(c), Poll(c)
  PROVE  \E k \in Conn, r \in Read :
           /\ Serves(c, k, r)
           /\ \/ k = Plain(conn[c])
              \/ /\ k.at = "answer" /\ k.want = conn[c].want /\ k.late = conn[c].late
                 /\ k.left # 0
  <1>1. conn[c] \in Conn /\ conn[c].at = "poll" /\ reader[c] \in Read
    BY DEF Shape, Poll
  <1>2. ASSUME Step(c, Plain(conn[c]), reader[c])
        PROVE  \E k \in Conn, r \in Read : Serves(c, k, r) /\ k = Plain(conn[c])
    <2>1. Serves(c, Plain(conn[c]), reader[c])
      BY <1>1, <1>2, PlainRecord DEF Serves, Held, Read
    <2> QED BY <2>1 DEF Serves
  <1>3. ASSUME Step(c, To(conn[c], "answer", conn[c].want, Pieces), "sent"), reader[c] = "sent"
        PROVE  \E k \in Conn, r \in Read :
                 /\ Serves(c, k, r)
                 /\ k.at = "answer" /\ k.want = conn[c].want /\ k.late = conn[c].late
                 /\ k.left # 0
    <2> DEFINE k == To(conn[c], "answer", conn[c].want, Pieces)
    <2>1. conn[c].want \in Want /\ Pieces \in 0 .. Pieces /\ Pieces # 0
      BY <1>1, GatewayAssumption DEF Conn
    <2>2. /\ k \in Conn /\ k.at = "answer" /\ k.gate = conn[c].gate /\ k.slot = conn[c].slot
          /\ k.want = conn[c].want /\ k.late = conn[c].late /\ k.left = Pieces
      <3>1. ASSUME NEW x \in Conn, NEW v \in Want, NEW n \in 0 .. Pieces
            PROVE  LET u == To(x, "answer", v, n)
                   IN /\ u \in Conn /\ u.at = "answer" /\ u.gate = x.gate /\ u.slot = x.slot
                      /\ u.want = v /\ u.late = x.late /\ u.left = n
        BY ToRecord DEF At
      <3> QED BY <1>1, <2>1, <3>1
    <2>3. Step(c, k, "sent")
      BY <1>3
    <2> HIDE DEF k
    <2>4. Serves(c, k, "sent")
      BY <1>1, <1>3, <2>2, <2>3 DEF Serves, Held, Read
    <2> QED BY <2>1, <2>2, <2>4 DEF Serves
  <1> QED BY <1>2, <1>3 DEF Poll

(* Write: one piece is sent, for what was asked for.                       *)
LEMMA WriteServes ==
  ASSUME Shape, NEW c \in Conns, ConnOK(c), Write(c)
  PROVE  \E k \in Conn, r \in Read :
           /\ Serves(c, k, r)
           /\ k.at = "answer" => k.want = conn[c].want /\ k.left # 0
           /\ k.at \in {"answer", "over"} /\ (k.at = "over" => k.slot = "none")
           /\ \/ k.late = conn[c].late
              \/ k.late = conn[c].late + 1 /\ View(conn[c]) /\ ~Permitted(c)
  <1>1. conn[c] \in Conn /\ conn[c].at = "write" /\ reader[c] \in Read
    BY DEF Shape, Write
  <1> DEFINE q == conn[c]
             t == To(q, "answer", q.want, q.left - 1)
             s == [t EXCEPT !.late = Late(c)]
             k == IF s.left = 0 THEN Left(s) ELSE s
  <1>2. Step(c, k, reader[c])
    BY DEF Write
  <1>3. q.want \in Want /\ q.left - 1 \in 0 .. Pieces /\ Late(c) \in Nat
    BY <1>1, GatewayAssumption DEF Conn, ConnOK, Late
  <1>4. /\ t \in Conn /\ t.at = "answer" /\ t.gate = q.gate /\ t.slot = q.slot
        /\ t.want = q.want
    <2>1. ASSUME NEW x \in Conn, NEW w \in Want, NEW n \in 0 .. Pieces
          PROVE  LET u == To(x, "answer", w, n)
                 IN u \in Conn /\ u.at = "answer" /\ u.gate = x.gate /\ u.slot = x.slot /\ u.want = w
      BY ToRecord DEF At
    <2> QED BY <1>1, <1>3, <2>1
  <1> HIDE DEF t
  <1>5. /\ s \in Conn /\ s.at = "answer" /\ s.gate = q.gate /\ s.slot = q.slot
        /\ s.want = q.want /\ s.late = Late(c)
    BY <1>3, <1>4 DEF Conn
  <1> HIDE DEF s
  <1>6. \/ Late(c) = q.late
        \/ Late(c) = q.late + 1 /\ View(q) /\ ~Permitted(c)
    BY DEF Late
  <1>7. Serves(c, k, reader[c])
    BY <1>1, <1>2, <1>5, LeftRecord DEF Serves, Held, Read
  <1>8. /\ k.at = "answer" => k.want = q.want /\ k.left # 0
        /\ k.at \in {"answer", "over"} /\ (k.at = "over" => k.slot = "none")
        /\ k.late = Late(c)
    BY <1>5, LeftRecord
  <1> QED BY <1>6, <1>7, <1>8 DEF Serves

(* Leave: the connection is over and its slot is free.                     *)
LEMMA LeaveServes ==
  ASSUME Shape, NEW c \in Conns, Leave(c)
  PROVE  Serves(c, Left(conn[c]), reader[c])
  BY LeftRecord DEF Shape, Leave, Serves, Held

(* Pair: a plain answer, whatever became of the grant.                     *)
LEMMA PairServes ==
  ASSUME Shape, NEW c \in Conns, ConnOK(c), Pair(c)
  PROVE  Serves(c, Plain(conn[c]), "none")
  BY PlainRecord DEF Shape, Pair, ConnOK, Serves, Held, Read

(* Ask: the next piece is written only when it is allowed now.             *)
LEMMA AskServes ==
  ASSUME Shape, NEW c \in Conns, ConnOK(c), Ask(c)
  PROVE  \/ Serves(c, Left(conn[c]), reader[c])
         \/ /\ Serves(c, [conn[c] EXCEPT !.at = "write"], reader[c])
            /\ Allowed(c)
  <1>1. conn[c] \in Conn /\ reader[c] \in Read /\ conn[c].at = "answer"
    BY DEF Shape, Ask
  <1>2. CASE Allowed(c)
    <2> DEFINE k == [conn[c] EXCEPT !.at = "write"]
    <2>1. Step(c, k, reader[c])
      BY <1>2 DEF Ask
    <2>2. k \in Conn /\ k.at = "write" /\ k.gate = conn[c].gate /\ k.slot = conn[c].slot
      BY <1>1 DEF Conn, At
    <2> HIDE DEF k
    <2>3. Serves(c, k, reader[c])
      BY <1>1, <2>1, <2>2 DEF Serves, Held
    <2> QED BY <1>2, <2>3 DEF k
  <1>3. CASE ~Allowed(c)
    <2>1. Step(c, Left(conn[c]), reader[c])
      BY <1>3 DEF Ask
    <2> QED BY <1>1, <2>1, LeftRecord DEF Serves, Held
  <1> QED BY <1>2, <1>3

(* ReaderReturns: the connection stays what it is.                         *)
LEMMA ReturnServes ==
  ASSUME Shape, NEW c \in Conns, ReaderReturns(c)
  PROVE  Serves(c, conn[c], "sent")
  BY DEF Shape, ReaderReturns, Serves, Held, Read

(* Every step of a thread serves its own connection, and no gateway moves. *)
LEMMA ThreadServes ==
  ASSUME Shape, NEW c \in Conns, ConnOK(c), Request(c) \/ ReaderReturns(c)
  PROVE  (\E k \in Conn, r \in Read : Serves(c, k, r)) /\ gate' = gate
  <1>1. reader[c] \in Read
    BY DEF Shape
  <1>2. CASE Leave(c)
    BY <1>1, <1>2, LeaveServes DEF Serves, Leave
  <1>3. CASE ReadHeader(c)
    BY <1>3, ReadHeaderServes DEF ReadHeader
  <1>4. CASE Pair(c)
    BY <1>4, PairServes DEF Serves, Pair
  <1>5. CASE BeginRead(c)
    BY <1>5, BeginReadServes DEF BeginRead
  <1>6. CASE Poll(c)
    BY <1>6, PollServes DEF Poll
  <1>7. CASE Ask(c)
    BY <1>7, AskServes DEF Serves, Ask
  <1>8. CASE Write(c)
    BY <1>8, WriteServes DEF Write
  <1>9. CASE ReaderReturns(c)
    BY <1>9, ReturnServes DEF Serves, ReaderReturns
  <1> QED BY <1>2, <1>3, <1>4, <1>5, <1>6, <1>7, <1>8, <1>9 DEF Request

----------------------------------------------------------------------------
(* A grant keeps its gateway, and its audience until it ends or is paired  *)
(* with; a gateway that was stopped stays so.                              *)
GrantsMove == \A i \in Grants : grant[i].gate # 0 =>
  /\ grant'[i].gate = grant[i].gate
  /\ grant'[i].audience \in {grant[i].audience, "none"} \/ grant[i].audience = "invite"
GatesMove == \A g \in Gateways : gate[g].drop # "absent" =>
  /\ gate'[g].drop # "absent"
  /\ gate[g].drop # "no" => gate'[g].drop # "no"

(* The end of a gateway only goes forward.                                 *)
LEMMA DropMoves ==
  ASSUME Shape, NEW g \in Gateways, NEW from, NEW to \in {"flag", "closed", "gone"},
         DropTo(g, from, to), from # "absent"
  PROVE  GatesMove /\ gate' \in [Gateways -> Gate]
  BY DEF Shape, DropTo, GatesMove, Gate

(* The worker of a gateway only goes forward.                              *)
LEMMA WorkerMoves ==
  ASSUME Shape, NEW g \in Gateways, NEW from, NEW to \in {"check", "accept", "closing", "done"},
         WorkerTo(g, from, to)
  PROVE  GatesMove /\ gate' \in [Gateways -> Gate]
  BY DEF Shape, WorkerTo, GatesMove, Gate

(* Every step moves gateways and grants forward only.                      *)
LEMMA Lawful ==
  ASSUME Shape, \A c \in Conns : ConnOK(c), GatewayNext
  PROVE  GrantsMove /\ GatesMove /\ gate' \in [Gateways -> Gate] /\ grant' \in [Grants -> Grant]
  <1>0. gate \in [Gateways -> Gate] /\ grant \in [Grants -> Grant]
    BY DEF Shape
  <1>1. ASSUME UNCHANGED grant PROVE GrantsMove /\ grant' \in [Grants -> Grant]
    BY <1>0, <1>1 DEF GrantsMove
  <1>2. ASSUME UNCHANGED gate PROVE GatesMove /\ gate' \in [Gateways -> Gate]
    BY <1>0, <1>2 DEF GatesMove
  <1>3. ASSUME NEW g \in Gateways, StartGateway(g) PROVE GatesMove /\ gate' \in [Gateways -> Gate]
    BY <1>0, <1>3 DEF StartGateway, NextGateway, NoGate, GatesMove, Gate
  <1>4. ASSUME NEW g \in Gateways, NEW i \in Grants, Issue(i, g)
        PROVE  GrantsMove /\ grant' \in [Grants -> Grant]
    BY <1>0, <1>4 DEF Issue, NextGrant, GrantsMove, Grant, Gateways
  <1>5. ASSUME NEW i \in Grants, Ends(i) PROVE GrantsMove /\ grant' \in [Grants -> Grant]
    BY <1>0, <1>5 DEF Ends, GrantsMove, Grant
  <1>6. ASSUME NEW g \in Gateways, CloseAll(g) PROVE GrantsMove /\ grant' \in [Grants -> Grant]
    <2> DEFINE ended(i) == IF grant[i].gate = g THEN [grant[i] EXCEPT !.audience = "none"] ELSE grant[i]
    <2>1. grant' = [i \in Grants |-> ended(i)]
      BY <1>6 DEF CloseAll
    <2>2. ASSUME NEW i \in Grants
          PROVE  ended(i) \in Grant /\ ended(i).gate = grant[i].gate
                 /\ ended(i).audience \in {grant[i].audience, "none"}
      BY <1>0 DEF Grant
    <2> HIDE DEF ended
    <2> QED BY <2>1, <2>2 DEF GrantsMove
  <1>7. ASSUME NEW c \in Conns, Pair(c) PROVE GrantsMove /\ grant' \in [Grants -> Grant]
    <2>1. conn[c].want.audience = "invite" /\ conn[c].want \in Want
      BY <1>7 DEF Pair, Shape, Conn
    <2>2. CASE Authorized(c)
      <3>1. conn[c].want.grant \in Grants
        BY <2>1, <2>2, GatewayAssumption DEF Authorized, Want, Grants
      <3>2. grant[conn[c].want.grant].audience = "invite"
        BY <2>1, <2>2 DEF Authorized
      <3>3. grant' = [grant EXCEPT ![conn[c].want.grant].audience = "peer"]
        BY <1>7, <2>2 DEF Pair
      <3> QED BY <1>0, <3>1, <3>2, <3>3 DEF GrantsMove, Grant
    <2>3. CASE ~Authorized(c)
      BY <1>1, <1>7, <2>3 DEF Pair
    <2> QED BY <2>2, <2>3
  <1>8. ASSUME NEW g \in Gateways, StopGateway(g) \/ Drop(g)
        PROVE  GatesMove /\ gate' \in [Gateways -> Gate]
    BY <1>8, DropMoves DEF StopGateway, Drop, CloseAll, Joined
  <1>9. ASSUME NEW g \in Gateways, Accept(g) \/ Worker(g)
        PROVE  GatesMove /\ gate' \in [Gateways -> Gate]
    BY <1>9, WorkerMoves DEF Accept, Worker, LookAtFlag, NothingAccepted, WorkerEnds
  <1>10. ASSUME NEW c \in Conns, Request(c) \/ ReaderReturns(c) \/ Reap(c)
         PROVE  UNCHANGED gate /\ (UNCHANGED grant \/ Pair(c))
    BY <1>10, ThreadServes DEF Request, Leave, ReadHeader, BeginRead, Poll, Ask, Write,
                               ReaderReturns, Reap
  <1>11. ASSUME NEW g \in Gateways,
                StartGateway(g) \/ StopGateway(g) \/ Joined(g) \/ Accept(g) \/ Worker(g)
         PROVE  UNCHANGED grant
    BY <1>11 DEF StartGateway, StopGateway, Joined, Accept, Worker, LookAtFlag, NothingAccepted,
                 WorkerEnds
  <1>12. ASSUME NEW i \in Grants, Ends(i) \/ \E g \in Gateways : Issue(i, g)
         PROVE  UNCHANGED gate
    BY <1>12 DEF Ends, Issue
  <1> QED
    BY <1>1, <1>2, <1>3, <1>4, <1>5, <1>6, <1>7, <1>8, <1>9, <1>10, <1>11, <1>12
    DEF GatewayNext, Drop

(* A connection that does not step keeps what is said of it, whatever the  *)
(* others do to grants and gateways: what is not permitted stays so.       *)
LEMMA Frame ==
  ASSUME Shape, GrantsMove, GatesMove, gate' \in [Gateways -> Gate], grant' \in [Grants -> Grant],
         NEW d \in Conns, ConnOK(d), conn'[d] = conn[d],
         reader'[d] = reader[d] \/ conn[d].at # "free"
  PROVE  ConnOK(d)'
  <1>1. conn[d] \in Conn
    BY DEF Shape
  <1>2. ASSUME conn[d].at # "free"
        PROVE  conn[d].gate \in Gateways /\ gate'[conn[d].gate].drop # "absent"
    BY <1>2 DEF ConnOK, GatesMove
  <1>3. ASSUME Granted(d), conn[d].gate \in Gateways
        PROVE  Granted(d)' /\ (~Permitted(d) => ~Permitted(d)')
    <2> DEFINE w == conn[d].want.grant
               a == conn[d].want.audience
    <2>1. /\ w \in Grants /\ w # 0 /\ a \in {"participant", "peer"}
          /\ grant[w].gate = conn[d].gate /\ grant[w].gate # 0
          /\ grant[w].audience \in {a, "none"}
      BY <1>3 DEF Granted, Gateways, Grants
    <2>2. grant'[w].gate = grant[w].gate /\ grant'[w].audience \in {grant[w].audience, "none"}
      BY <2>1 DEF GrantsMove
    <2>3. Granted(d)'
      BY <2>1, <2>2 DEF Granted
    <2>4. ASSUME Stopped(conn[d].gate), gate[conn[d].gate].drop # "absent"
          PROVE  Stopped(conn[d].gate)'
      BY <1>3, <2>4 DEF Stopped, GatesMove
    <2>5. grant[w] \in Grant /\ grant'[w] \in Grant
      BY <2>1 DEF Shape
    <2>6. Authorized(d) <=> grant[w].audience = a
      BY <2>1, <2>5 DEF Authorized, Grant
    <2>7. Authorized(d)' <=> grant'[w].audience = a
      BY <2>1, <2>2, <2>5 DEF Authorized, Grant
    <2> HIDE DEF w, a
    <2>8. ASSUME gate[conn[d].gate].drop # "absent", ~Permitted(d) PROVE ~Permitted(d)'
      BY <2>1, <2>2, <2>4, <2>6, <2>7, <2>8 DEF Permitted, Active
    <2>9. gate[conn[d].gate].drop # "absent"
      BY <1>1, <1>3 DEF ConnOK, NoConn, Gateways
    <2> QED BY <2>3, <2>8, <2>9
  <1> QED BY <1>1, <1>2, <1>3 DEF ConnOK, View

(* Every step keeps what is said of a connection.                          *)
LEMMA ConnStep ==
  ASSUME Shape, \A c \in Conns : ConnOK(c), \A g \in Gateways : GateOK(g), GatewayNext,
         NEW d \in Conns
  PROVE  ConnOK(d)'
  <1>1. /\ GrantsMove /\ GatesMove
        /\ gate' \in [Gateways -> Gate] /\ grant' \in [Grants -> Grant]
    BY Lawful
  <1>2. ASSUME UNCHANGED <<conn, reader>> PROVE ConnOK(d)'
    BY <1>1, <1>2, Frame
  <1>3. ASSUME NEW g \in Gateways, Accept(g) PROVE ConnOK(d)'
    <2>1. PICK c \in Conns :
            /\ Free(c)
            /\ conn' = [conn EXCEPT ![c] = [at |-> "header", gate |-> g, slot |-> "held",
                                            want |-> NoWant, left |-> 0, late |-> 0]]
      BY <1>3 DEF Accept
    <2>2. reader' = reader
      BY <1>3 DEF Accept
    <2>3. gate[g].worker = "accept" /\ gate[g].drop # "absent"
      BY <1>3 DEF Accept, WorkerTo, GateOK, NoGate
    <2>4. gate'[g].drop # "absent"
      BY <1>1, <2>3 DEF GatesMove
    <2>5. CASE d = c
      BY <2>1, <2>4, <2>5 DEF Shape, ConnOK
    <2>6. CASE d # c
      BY <1>1, <2>1, <2>2, <2>6, Frame DEF Shape
    <2> QED BY <2>5, <2>6
  <1>4. ASSUME NEW c \in Conns, Reap(c) PROVE ConnOK(d)'
    <2>1. CASE d = c
      BY <1>4, <2>1 DEF Reap, Shape, ConnOK, NoConn
    <2>2. CASE d # c
      BY <1>1, <1>4, <2>2, Frame DEF Reap, Shape
    <2> QED BY <2>1, <2>2
  <1>5. ASSUME NEW c \in Conns, Request(c) \/ ReaderReturns(c) PROVE ConnOK(d)'
    <2>1. CASE d # c
      <3>1. conn'[d] = conn[d] /\ reader'[d] = reader[d]
        BY <1>5, <2>1, ThreadServes, StepEffect DEF Serves
      <3> QED BY <1>1, <3>1, Frame
    <2>2. SUFFICES ConnOK(c)'
      BY <2>1
    <2>3. /\ gate' = gate /\ conn[c] \in Conn
          /\ conn[c].at # "free" => conn[c].gate \in Gateways /\ gate[conn[c].gate].drop # "absent"
      BY <1>5, ThreadServes DEF Shape, ConnOK
    <2>4. ASSUME NEW k \in Conn, NEW r \in Read, Serves(c, k, r)
          PROVE  /\ conn'[c] = k /\ reader'[c] = r
                 /\ k.at # "free" => k.gate \in Gateways /\ gate'[k.gate].drop # "absent"
      BY <1>5, <2>3, <2>4, StepEffect DEF Serves, Request, Leave, ReadHeader, Pair, BeginRead, Poll,
         Ask, Write, ReaderReturns, ConnOK
    <2>5. ASSUME NEW r \in Read, Serves(c, Left(conn[c]), r) PROVE ConnOK(c)'
      BY <2>3, <2>4, <2>5, LeftRecord DEF ConnOK
    <2>6. ASSUME NEW r \in Read, Serves(c, Plain(conn[c]), r),
                 conn[c].late = 0
          PROVE  ConnOK(c)'
      BY <2>3, <2>4, <2>6, PlainRecord DEF ConnOK, View
    <2>7. reader[c] \in Read
      BY DEF Shape
    <2>8. CASE Leave(c)
      BY <2>5, <2>7, <2>8, LeaveServes
    <2>9. CASE ReadHeader(c)
      <3>1. conn[c].late = 0 /\ conn[c].slot = "held"
        BY <2>3, <2>9 DEF ReadHeader, ConnOK, Conn
      <3> QED BY <2>3, <2>4, <2>6, <2>9, <3>1, ReadHeaderServes DEF ConnOK
    <2>10. CASE Pair(c)
      <3>1. conn[c].late = 0
        BY <2>3, <2>10 DEF Pair, ConnOK, Conn
      <3> QED BY <2>6, <2>10, <3>1, PairServes DEF Read
    <2>11. CASE BeginRead(c)
      <3>1. conn[c].late = 0 /\ conn[c].want \in Want
        BY <2>3, <2>11 DEF BeginRead, ConnOK, Conn
      <3>2. ASSUME Permitted(c), conn[c].want.audience # "invite" PROVE Granted(c)
        <4>1. conn[c].want.grant \in Grants
          BY <3>1, <3>2, GatewayAssumption DEF Permitted, Authorized, Want, Grants
        <4>2. conn[c].want.audience # "none"
          BY <2>11 DEF BeginRead, ConnOK
        <4> QED BY <3>1, <3>2, <4>1, <4>2 DEF Permitted, Authorized, Granted, Want
      <3>3. grant' = grant
        BY <2>11 DEF BeginRead
      <3> QED BY <2>3, <2>4, <2>6, <2>11, <3>1, <3>2, <3>3, BeginReadServes DEF ConnOK, Granted, Serves
    <2>12. CASE Poll(c)
      <3>1. conn[c].late = 0 /\ Granted(c)
        BY <2>3, <2>12 DEF Poll, ConnOK, Conn
      <3>2. grant' = grant
        BY <2>12 DEF Poll
      <3>3. PICK k \in Conn, r \in Read :
           /\ Serves(c, k, r)
           /\ \/ k = Plain(conn[c])
              \/ /\ k.at = "answer" /\ k.want = conn[c].want /\ k.late = conn[c].late
                 /\ k.left # 0
        BY <2>12, PollServes
      <3>4. CASE k = Plain(conn[c])
        BY <2>6, <3>1, <3>3, <3>4
      <3>5. CASE k.at = "answer" /\ k.want = conn[c].want /\ k.late = conn[c].late /\ k.left # 0
        <4>1. /\ conn'[c] = k /\ k.gate = conn[c].gate
              /\ k.at # "free" => k.gate \in Gateways /\ gate'[k.gate].drop # "absent"
          BY <2>4, <3>3 DEF Serves
        <4>2. Granted(c)'
          BY <3>1, <3>2, <3>5, <4>1 DEF Granted
        <4> QED BY <3>1, <3>5, <4>1, <4>2 DEF ConnOK
      <3> QED BY <3>3, <3>4, <3>5
    <2>13. CASE Ask(c)
      <3>1. conn[c].at = "answer" /\ conn[c].left # 0 /\ conn[c].late \in Nat
        BY <2>3, <2>13 DEF Ask, ConnOK, Conn
      <3>2. ASSUME Serves(c, [conn[c] EXCEPT !.at = "write"], reader[c]), Allowed(c) PROVE ConnOK(c)'
        <4> DEFINE k == [conn[c] EXCEPT !.at = "write"]
        <4>1. conn[c].late = 0
          BY <3>1, <3>2 DEF ConnOK, Allowed
        <4>2. /\ k \in Conn /\ k.at = "write" /\ k.left = conn[c].left /\ k.late = conn[c].late
              /\ k.want = conn[c].want /\ k.gate = conn[c].gate
          BY <2>3 DEF Conn, At
        <4>3. View(conn[c]) => Granted(c)
          BY <3>1 DEF ConnOK
        <4>4. grant' = grant
          BY <2>13 DEF Ask
        <4>5. conn'[c] = k /\ (k.at # "free" => k.gate \in Gateways /\ gate'[k.gate].drop # "absent")
          BY <2>4, <2>7, <3>2, <4>2
        <4> HIDE DEF k
        <4> QED BY <3>1, <4>1, <4>2, <4>3, <4>4, <4>5 DEF ConnOK, Granted, View
      <3> QED BY <2>5, <2>7, <2>13, <3>2, AskServes
    <2>14. CASE Write(c)
      <3>1. /\ conn[c].late = 0
            /\ View(conn[c]) => Granted(c)
        BY <2>3, <2>14 DEF Write, ConnOK, Conn
      <3>2. grant' = grant
        BY <2>14 DEF Write
      <3>3. PICK k \in Conn, r \in Read :
           /\ Serves(c, k, r)
           /\ k.at = "answer" => k.want = conn[c].want /\ k.left # 0
           /\ k.at \in {"answer", "over"} /\ (k.at = "over" => k.slot = "none")
           /\ \/ k.late = conn[c].late
              \/ k.late = conn[c].late + 1 /\ View(conn[c]) /\ ~Permitted(c)
        BY <2>14, WriteServes
      <3>4. /\ conn'[c] = k /\ k.gate = conn[c].gate /\ k.late <= 1
            /\ k.at # "free" => k.gate \in Gateways /\ gate'[k.gate].drop # "absent"
        BY <2>4, <3>1, <3>3 DEF Serves
      <3>5. k.at = "answer" => /\ View(k) <=> View(conn[c])
                               /\ View(k) => Granted(c)'
                               /\ Permitted(c)' <=> Permitted(c)
        BY <2>3, <3>1, <3>2, <3>3, <3>4 DEF View, Granted, Permitted, Active, Stopped, Authorized
      <3> QED BY <3>1, <3>3, <3>4, <3>5 DEF ConnOK
    <2>15. CASE ReaderReturns(c)
      <3>1. conn[c].at # "free" /\ UNCHANGED <<gate, grant>>
        BY <2>15 DEF ReaderReturns, ConnOK
      <3>2. Serves(c, conn[c], "sent")
        BY <2>15, ReturnServes
      <3>3. conn'[c] = conn[c]
        BY <2>3, <2>4, <3>2 DEF Read
      <3> QED BY <1>1, <3>1, <3>3, Frame
    <2> QED BY <1>5, <2>8, <2>9, <2>10, <2>11, <2>12, <2>13, <2>14, <2>15 DEF Request
  <1>6. ASSUME NEW g \in Gateways, StartGateway(g) \/ StopGateway(g) \/ Drop(g) \/ Worker(g)
        PROVE  UNCHANGED <<conn, reader>>
    BY <1>6 DEF StartGateway, StopGateway, Drop, CloseAll, Joined, Worker, LookAtFlag,
                NothingAccepted, WorkerEnds
  <1>7. ASSUME NEW i \in Grants, Ends(i) \/ \E g \in Gateways : Issue(i, g)
        PROVE  UNCHANGED <<conn, reader>>
    BY <1>7 DEF Ends, Issue
  <1> QED BY <1>2, <1>3, <1>4, <1>5, <1>6, <1>7 DEF GatewayNext

(* Every step keeps the shape of the state.                                *)
LEMMA ShapeStep ==
  ASSUME Shape, \A c \in Conns : ConnOK(c), GatewayNext
  PROVE  Shape'
  <1>1. gate' \in [Gateways -> Gate] /\ grant' \in [Grants -> Grant]
    BY Lawful
  <1>2. ASSUME NEW c \in Conns, Request(c) \/ ReaderReturns(c)
        PROVE  conn' \in [Conns -> Conn] /\ reader' \in [Conns -> Read] /\ shut' \in SUBSET Conns
    BY <1>2, ThreadServes, StepEffect DEF Serves
  <1>3. ASSUME NEW c \in Conns, Reap(c)
        PROVE  conn' \in [Conns -> Conn] /\ reader' \in [Conns -> Read] /\ shut' \in SUBSET Conns
    <2>1. NoConn \in Conn
      BY GatewayAssumption, NothingWanted DEF NoConn, Conn, At
    <2> QED BY <1>3, <2>1 DEF Reap, Shape, Read
  <1>4. ASSUME NEW g \in Gateways, Accept(g)
        PROVE  conn' \in [Conns -> Conn] /\ reader' \in [Conns -> Read] /\ shut' \in SUBSET Conns
    <2> DEFINE k == [at |-> "header", gate |-> g, slot |-> "held", want |-> NoWant, left |-> 0,
                     late |-> 0]
    <2>1. k \in Conn
      BY GatewayAssumption, NothingWanted DEF Conn, At, Gateways
    <2>2. PICK c \in Conns : conn' = [conn EXCEPT ![c] = k]
      BY <1>4 DEF Accept
    <2> HIDE DEF k
    <2> QED BY <1>4, <2>1, <2>2 DEF Accept, Shape
  <1>5. ASSUME NEW g \in Gateways, StartGateway(g) \/ StopGateway(g) \/ Drop(g) \/ Worker(g)
        PROVE  UNCHANGED <<conn, reader>> /\ shut' \in SUBSET Conns
    BY <1>5 DEF Shape, StartGateway, StopGateway, Drop, CloseAll, Joined, Worker, LookAtFlag,
                NothingAccepted, WorkerEnds, Shut, Listed
  <1>6. ASSUME NEW i \in Grants, Ends(i) \/ \E g \in Gateways : Issue(i, g)
        PROVE  UNCHANGED <<conn, reader, shut>>
    BY <1>6 DEF Ends, Issue
  <1> QED BY <1>1, <1>2, <1>3, <1>4, <1>5, <1>6 DEF GatewayNext, Shape

(* A gateway is gone when its accepting thread has ended and its requests  *)
(* are over: no connection can be added to it, and what is over stays so.  *)
LEMMA GateStep ==
  ASSUME Shape, \A c \in Conns : ConnOK(c), \A h \in Gateways : GateOK(h), GatewayNext,
         NEW g \in Gateways
  PROVE  GateOK(g)'
  <1>0. gate \in [Gateways -> Gate]
    BY DEF Shape
  <1>1. ASSUME UNCHANGED <<gate, conn>> PROVE GateOK(g)'
    BY <1>1 DEF GateOK
  <1>2. ASSUME NEW h \in Gateways, StartGateway(h) PROVE GateOK(g)'
    <2>1. gate'[h].drop = "no" /\ (g # h => gate'[g] = gate[g]) /\ conn' = conn
      BY <1>0, <1>2 DEF StartGateway
    <2> QED BY <2>1 DEF GateOK
  <1>3. ASSUME NEW h \in Gateways, StopGateway(h) \/ CloseAll(h) PROVE GateOK(g)'
    <2>1. /\ gate'[h].drop \in {"flag", "closed"} /\ (g # h => gate'[g] = gate[g])
          /\ conn' = conn
      BY <1>0, <1>3 DEF StopGateway, CloseAll, DropTo, Gate
    <2> QED BY <2>1 DEF GateOK
  <1>4. ASSUME NEW h \in Gateways, Joined(h) PROVE GateOK(g)'
    <2>1. /\ gate'[h].drop = "gone" /\ gate'[h].worker = "done"
          /\ g # h => gate'[g] = gate[g]
          /\ conn' = conn /\ \A c \in Conns : conn[c].gate = h => conn[c].at = "over"
      BY <1>0, <1>4 DEF Joined, DropTo, Gate, Over
    <2> QED BY <2>1 DEF GateOK
  <1>5. ASSUME NEW h \in Gateways, NEW from \in {"check", "accept", "closing"},
               NEW to \in {"check", "accept", "closing", "done"}, WorkerTo(h, from, to)
        PROVE  /\ gate[h].drop \notin {"absent", "gone"} /\ gate'[h].drop = gate[h].drop
               /\ g # h => gate'[g] = gate[g]
    BY <1>0, <1>5 DEF WorkerTo, Gate, GateOK, NoGate
  <1>6. ASSUME NEW h \in Gateways, Worker(h) PROVE GateOK(g)'
    <2>1. /\ gate[h].drop \notin {"absent", "gone"} /\ gate'[h].drop = gate[h].drop
          /\ g # h => gate'[g] = gate[g]
          /\ conn' = conn
      BY <1>5, <1>6 DEF Worker, LookAtFlag, NothingAccepted, WorkerEnds
    <2> QED BY <2>1 DEF GateOK
  <1>7. ASSUME NEW h \in Gateways, Accept(h) PROVE GateOK(g)'
    <2>1. /\ gate[h].drop \notin {"absent", "gone"} /\ gate'[h].drop = gate[h].drop
          /\ g # h => gate'[g] = gate[g]
      BY <1>5, <1>7 DEF Accept
    <2>2. \A c \in Conns : conn'[c] = conn[c] \/ conn'[c].gate = h
      BY <1>7 DEF Accept, Shape
    <2> QED BY <2>1, <2>2 DEF GateOK
  <1>8. ASSUME NEW c \in Conns, Request(c) \/ ReaderReturns(c) PROVE GateOK(g)'
    <2>1. PICK k \in Conn, r \in Read : Serves(c, k, r)
      BY <1>8, ThreadServes
    <2>2. /\ gate' = gate /\ conn'[c] = k /\ k.gate = conn[c].gate
          /\ conn[c].at = "over" => k = conn[c]
          /\ \A d \in Conns \ {c} : conn'[d] = conn[d]
      BY <1>8, <2>1, ThreadServes, StepEffect DEF Serves
    <2> QED BY <2>2 DEF GateOK
  <1>9. ASSUME NEW c \in Conns, Reap(c) PROVE GateOK(g)'
    <2>1. \A d \in Conns : conn'[d] = conn[d] \/ conn'[d].gate \notin Gateways
      BY <1>9 DEF Reap, Shape, NoConn, Gateways
    <2>2. gate' = gate
      BY <1>9 DEF Reap
    <2> QED BY <2>1, <2>2 DEF GateOK
  <1>10. ASSUME NEW i \in Grants, Ends(i) \/ \E h \in Gateways : Issue(i, h)
         PROVE  UNCHANGED <<gate, conn>>
    BY <1>10 DEF Ends, Issue
  <1> QED
    BY <1>1, <1>2, <1>3, <1>4, <1>6, <1>7, <1>8, <1>9, <1>10 DEF GatewayNext, Drop

----------------------------------------------------------------------------
(* The counter.                                                            *)
LEMMA HoldingFinite ==
  ASSUME GatewayAssumption, NEW S \in SUBSET Conns
  PROVE  IsFiniteSet(S) /\ Cardinality(S) \in Nat
  <1>1. IsFiniteSet(Conns)
    BY GatewayAssumption, FS_Interval DEF Conns
  <1> QED BY <1>1, FS_Subset, FS_CardinalityType

(* Every step keeps the counter equal to what it counts.                   *)
LEMMA CountStep ==
  ASSUME Shape, \A c \in Conns : ConnOK(c), Counted, GatewayNext
  PROVE  Counted'
  <1>0. /\ conn \in [Conns -> Conn] /\ reader \in [Conns -> Read]
        /\ IsFiniteSet(Holding) /\ Cardinality(Holding) \in Nat /\ Slots \in Nat
    BY HoldingFinite, GatewayAssumption DEF Shape, Holding
  <1>1. ASSUME UNCHANGED <<conn, reader, active>> PROVE Counted'
    BY <1>1 DEF Counted, Holding
  <1>2. ASSUME NEW g \in Gateways, Accept(g) PROVE Counted'
    <2>1. PICK c \in Conns :
            /\ Free(c)
            /\ conn' = [conn EXCEPT ![c] = [at |-> "header", gate |-> g, slot |-> "held",
                                            want |-> NoWant, left |-> 0, late |-> 0]]
      BY <1>2 DEF Accept
    <2>2. reader' = reader /\ active' = active + 1 /\ active < Slots
      BY <1>2 DEF Accept
    <2>3. c \notin Holding
      BY <2>1 DEF Free, ConnOK, NoConn, Holding
    <2>4. Holding' = Holding \cup {c}
      BY <1>0, <2>1, <2>2 DEF Holding
    <2>5. Cardinality(Holding') = Cardinality(Holding) + 1
      BY <1>0, <2>3, <2>4, FS_AddElement
    <2> QED BY <1>0, <2>2, <2>5 DEF Counted
  <1>3. ASSUME NEW c \in Conns, Request(c) \/ ReaderReturns(c) PROVE Counted'
    <2>1. PICK k \in Conn, r \in Read : Serves(c, k, r)
      BY <1>3, ThreadServes
    <2>2. /\ conn'[c] = k /\ reader'[c] = r
          /\ \A d \in Conns \ {c} : conn'[d] = conn[d] /\ reader'[d] = reader[d]
      BY <2>1, StepEffect DEF Serves
    <2>3. /\ Held(k, r) => Held(conn[c], reader[c])
          /\ active' = IF Held(conn[c], reader[c]) /\ ~Held(k, r) THEN active - 1 ELSE active
      BY <2>1 DEF Serves, Step
    <2>4. CASE Held(conn[c], reader[c]) /\ ~Held(k, r)
      <3>1. c \in Holding /\ Holding' = Holding \ {c}
        BY <2>2, <2>4 DEF Holding, Held
      <3>2. Cardinality(Holding') = Cardinality(Holding) - 1
        BY <1>0, <3>1, FS_RemoveElement
      <3> QED BY <1>0, <2>3, <2>4, <3>2 DEF Counted
    <2>5. CASE ~(Held(conn[c], reader[c]) /\ ~Held(k, r))
      <3>1. Holding' = Holding
        BY <2>2, <2>3, <2>5 DEF Holding, Held
      <3> QED BY <2>3, <2>5, <3>1 DEF Counted
    <2> QED BY <2>4, <2>5
  <1>4. ASSUME NEW c \in Conns, Reap(c) PROVE Counted'
    <2>1. Holding' = Holding
      BY <1>0, <1>4 DEF Reap, ConnOK, NoConn, Holding
    <2> QED BY <1>4, <2>1 DEF Reap, Counted
  <1>5. ASSUME NEW g \in Gateways, StartGateway(g) \/ StopGateway(g) \/ Drop(g) \/ Worker(g)
        PROVE  UNCHANGED <<conn, reader, active>>
    BY <1>5 DEF StartGateway, StopGateway, Drop, CloseAll, Joined, Worker, LookAtFlag,
                NothingAccepted, WorkerEnds
  <1>6. ASSUME NEW i \in Grants, Ends(i) \/ \E g \in Gateways : Issue(i, g)
        PROVE  UNCHANGED <<conn, reader, active>>
    BY <1>6 DEF Ends, Issue
  <1> QED BY <1>1, <1>2, <1>3, <1>4, <1>5, <1>6 DEF GatewayNext

----------------------------------------------------------------------------
(* Nothing runs at first.                                                  *)
LEMMA GatewayInvInit == GatewayInit => GatewayInv
  <1> SUFFICES ASSUME GatewayInit PROVE GatewayInv
    OBVIOUS
  <1>1. NoConn \in Conn /\ NoConn.at = "free" /\ NoConn.late = 0 /\ NoConn.slot = "none"
    BY GatewayAssumption, NothingWanted DEF NoConn, Conn, At
  <1>2. Shape
    BY <1>1, GatewayAssumption DEF GatewayInit, Shape, NoGate, Unissued, Gate, Grant, Read
  <1>3. ASSUME NEW c \in Conns PROVE ConnOK(c)
    BY <1>1 DEF GatewayInit, ConnOK
  <1>4. ASSUME NEW g \in Gateways PROVE GateOK(g)
    BY DEF GatewayInit, GateOK, NoGate
  <1>5. Holding = {}
    BY <1>1 DEF GatewayInit, Holding
  <1>6. Counted
    BY <1>5, FS_EmptySet, GatewayAssumption DEF Counted, GatewayInit
  <1> QED BY <1>2, <1>3, <1>4, <1>6 DEF GatewayInv

(* The invariant is inductive.                                             *)
LEMMA GatewayInvStep == GatewayInv /\ [GatewayNext]_gatewayVars => GatewayInv'
  <1>1. ASSUME GatewayInv, GatewayNext PROVE GatewayInv'
    BY <1>1, ShapeStep, ConnStep, GateStep, CountStep DEF GatewayInv
  <1>2. ASSUME GatewayInv, UNCHANGED gatewayVars PROVE GatewayInv'
    BY <1>2 DEF GatewayInv, gatewayVars, Shape, ConnOK, Granted, GateOK, Counted, Holding, View,
                Permitted, Active, Authorized, Stopped
  <1> QED BY <1>1, <1>2

(* The invariant that everything below follows from holds in every state.  *)
THEOREM GatewayInvariant == GatewaySpec => []GatewayInv
  BY GatewayInvInit, GatewayInvStep, PTL DEF GatewaySpec

(* The state of the gateways keeps its shape, and the counter never wraps  *)
(* below zero nor passes the number of slots.                              *)
THEOREM GatewayTypes == GatewaySpec => []GatewayTypeOK
  <1>1. GatewayInv => GatewayTypeOK
    <2> SUFFICES ASSUME GatewayInv PROVE GatewayTypeOK
      OBVIOUS
    <2>1. active \in 0 .. Slots
      BY HoldingFinite, GatewayAssumption DEF GatewayInv, Counted, Holding
    <2> QED BY <2>1 DEF GatewayInv, Shape, GatewayTypeOK, Gate, Grant, Conn, At, Want, Read
  <1> QED BY <1>1, GatewayInvariant, PTL

(* At most Slots readers run, and every slot that is counted is held by a  *)
(* request or a reader: ACTIVE with the guard that counts it down.         *)
THEOREM ReadersAreBounded == GatewaySpec => []ReadersBounded
  <1>1. GatewayInv => ReadersBounded
    <2> SUFFICES ASSUME GatewayInv PROVE ReadersBounded
      OBVIOUS
    <2> DEFINE running == {c \in Conns : reader[c] = "running"}
    <2>1. running \subseteq Holding /\ IsFiniteSet(Holding)
      BY HoldingFinite, GatewayAssumption DEF Holding
    <2>2. /\ Cardinality(running) <= Cardinality(Holding)
          /\ Cardinality(running) \in Nat /\ Cardinality(Holding) \in Nat
      BY <2>1, FS_Subset, FS_CardinalityType
    <2>3. active = Cardinality(Holding) /\ active <= Slots
      BY DEF GatewayInv, Counted
    <2>4. Cardinality(running) <= Slots
      BY <2>2, <2>3, GatewayAssumption
    <2> QED BY <2>3, <2>4 DEF ReadersBounded, Holding
  <1> QED BY <1>1, GatewayInvariant, PTL

(* Of a view of which the permission ended at most one piece is sent, and  *)
(* a gateway that is gone serves nobody: write_response and close_all.     *)
THEOREM RevocationIsCut == GatewaySpec => []RevocationCuts
  <1>1. GatewayInv => RevocationCuts
    BY DEF GatewayInv, ConnOK, GateOK, RevocationCuts
  <1> QED BY <1>1, GatewayInvariant, PTL

----------------------------------------------------------------------------
(* The meetings of the Python agent.                                       *)

File == [said : SUBSET Line, translated : SUBSET Line]
Call == [kind : {"none", "start", "stop", "ingest"}, at : {"none", "join", "start", "run"},
         was : BOOLEAN, upload : 0 .. MaxMeeting]
Pipe == [at : {"absent", "started", "feeding", "idle", "drain", "over"},
         stop : BOOLEAN, fed : 0 .. MaxFinal, taken : 0 .. MaxFinal,
         asr : {"top", "get", "work", "look", "set", "gone"}, idle : BOOLEAN,
         waiting : Seq(1 .. MaxFinal), translating : 0 .. MaxFinal, closed : BOOLEAN,
         written : SUBSET Line]

(* A pipeline that is not open has no worker and has written nothing.      *)
PipeOK(m) ==
  /\ pipe[m].taken <= pipe[m].fed
  /\ pipe[m].asr = "work" => pipe[m].taken # 0
  /\ pipe[m].at \in {"absent", "started"} => pipe[m].written = {} /\ pipe[m].asr = "gone"

Rooms ==
  /\ live \in File /\ archives \in Seq(File)
  /\ owner \in 0 .. MaxMeeting /\ thread \in 0 .. MaxMeeting
  /\ op \in Call
  /\ pipe \in [Meetings -> Pipe]
  /\ \A m \in Meetings : PipeOK(m)

(* Only the manager's thread runs, or the upload that holds the lock.      *)
OneRuns ==
  /\ \A m \in Meetings : Alive(m) => m = thread \/ (op.at = "run" /\ m = op.upload)
  /\ thread # 0 => pipe[thread].at # "absent"
  /\ op.at = "start" => thread = 0
  /\ op.at = "run" => op.upload \in Meetings /\ ~Running

Kept(m) == \E i \in DOMAIN archives : pipe[m].written \subseteq archives[i].said

(* What a meeting wrote is archived, or in the live files while no session *)
(* is about to clear them.                                                 *)
Filed(m) ==
  \/ pipe[m].written = {}
  \/ Kept(m)
  \/ pipe[m].written \subseteq live.said /\ \A o \in Meetings : pipe[o].at # "started"

FilesOK ==
  \A m \in Meetings : Filed(m) /\ (Alive(m) => pipe[m].written \subseteq live.said)

AgentInv == Rooms /\ OneRuns /\ FilesOK

----------------------------------------------------------------------------
(* Nothing has been said when the server starts.                           *)
LEMMA InitAgent == ASSUME AgentInit PROVE AgentInv
<1> USE DEF AgentInit
<1>1. NoPipe \in Pipe
  BY AgentAssumption DEF NoPipe, Pipe
<1>2. \A m \in Meetings : pipe[m] = NoPipe
  OBVIOUS
<1>3. NoPipe.at = "absent" /\ NoPipe.written = {} /\ NoPipe.asr = "gone" /\ NoPipe.taken <= NoPipe.fed
  BY DEF NoPipe
<1>4. op.at = "none" /\ op \in Call
  BY AgentAssumption DEF NoCall, Call
<1>5. live \in File
  BY DEF Empty, File
<1>6. Rooms
  BY <1>1, <1>2, <1>3, <1>4, <1>5, AgentAssumption DEF Rooms, PipeOK
<1>7. OneRuns
  BY <1>2, <1>3, <1>4 DEF OneRuns, Alive
<1>8. FilesOK
  BY <1>2, <1>3 DEF FilesOK, Filed, Alive
<1>9. QED
  BY <1>6, <1>7, <1>8 DEF AgentInv

(* A step of one pipeline that writes nothing and neither opens nor ends a *)
(* meeting, or ends it.                                                    *)
LEMMA Unwritten ==
  ASSUME AgentInv, NEW m \in Meetings, NEW p \in Pipe, pipe' = [pipe EXCEPT ![m] = p],
         p.written = pipe[m].written,
         p.taken <= p.fed, p.asr = "work" => p.taken # 0,
         p.at = pipe[m].at \/ p.at = "over" \/ (Alive(m) /\ p.at \in {"feeding", "idle", "drain"}),
         p.at \in {"absent", "started"} => p.asr = pipe[m].asr,
         UNCHANGED <<archives, thread, op>>,
         live' \in File, live.said \subseteq live'.said, owner' = owner
  PROVE  AgentInv'
<1> USE DEF AgentInv
<1>1. pipe'[m] = p /\ \A o \in Meetings : o # m => pipe'[o] = pipe[o]
  BY DEF Rooms
<1>2. pipe' \in [Meetings -> Pipe]
  BY DEF Rooms
<1>3. PipeOK(m)'
  BY <1>1 DEF PipeOK, Rooms, Alive
<1>4. Rooms'
  BY <1>1, <1>2, <1>3 DEF Rooms, PipeOK
<1>5. \A o \in Meetings : Alive(o)' => Alive(o)
  BY <1>1 DEF Alive
<1>6. OneRuns'
  <2>1. thread # 0 => thread \in Meetings
    BY AgentAssumption DEF Rooms, Meetings
  <2>2. \A o \in Meetings : pipe[o].at # "absent" => pipe'[o].at # "absent"
    BY <1>1 DEF Alive
  <2>3. Running' => Running
    BY <1>5, <2>1 DEF Running
  <2>4. QED
    BY <1>5, <2>1, <2>2, <2>3 DEF OneRuns
<1>7. \A o \in Meetings : pipe'[o].at = "started" => pipe[o].at = "started"
  BY <1>1
<1>8. \A o \in Meetings : pipe'[o].written = pipe[o].written
  BY <1>1
<1>9. FilesOK'
  BY <1>5, <1>7, <1>8 DEF FilesOK, Filed, Kept
<1>10. QED
  BY <1>4, <1>6, <1>9

(* The live files are moved into an archive only while nobody runs: what   *)
(* every meeting wrote is then archived.                                   *)
LEMMA AllArchived ==
  ASSUME AgentInv, \A m \in Meetings : ~Alive(m),
         archives' = Archived, live' = LeftLive,
         \A m \in Meetings : pipe'[m].written = pipe[m].written,
         \A m \in Meetings : Alive(m)' => pipe'[m].written = {}
  PROVE  FilesOK' /\ live' \in File /\ archives' \in Seq(File)
<1> USE DEF AgentInv
<1>1. live \in File /\ archives \in Seq(File) /\ live.said \in SUBSET Line
  BY DEF Rooms, File
<1>2. live' \in File /\ archives' \in Seq(File)
  <2>1. Empty \in File
    BY DEF Empty, File
  <2>2. live' \in File
    BY <1>1, <2>1 DEF LeftLive
  <2>3. Append(archives, live) \in Seq(File)
    BY <1>1
  <2>4. QED
    BY <1>1, <2>2, <2>3 DEF Archived
<1>3. ASSUME NEW m \in Meetings PROVE pipe[m].written = {} \/ Kept(m)'
  <2>1. CASE Kept(m)
    <3>1. PICK i \in DOMAIN archives : pipe[m].written \subseteq archives[i].said
      BY <2>1 DEF Kept
    <3>2. i \in DOMAIN archives' /\ archives'[i] = archives[i]
      BY <1>1, <3>1 DEF Archived
    <3>3. QED
      BY <3>1, <3>2 DEF Kept
  <2>2. CASE pipe[m].written \subseteq live.said
    <3>1. CASE live.said = {}
      BY <2>2, <3>1
    <3>2. CASE live.said # {}
      <4>1. archives' = Append(archives, live)
        BY <3>2 DEF Archived
      <4>2. Len(archives) + 1 \in DOMAIN archives' /\ archives'[Len(archives) + 1] = live
        BY <1>1, <4>1
      <4>3. QED
        BY <2>2, <4>2 DEF Kept
    <3>3. QED
      BY <3>1, <3>2
  <2>3. QED
    BY <2>1, <2>2 DEF FilesOK, Filed
<1>4. FilesOK'
  BY <1>3 DEF FilesOK, Filed
<1>5. QED
  BY <1>2, <1>4

(* Nobody runs once the manager has joined its thread, or when an upload   *)
(* is over.                                                                *)
LEMMA NobodyRuns ==
  ASSUME AgentInv
  PROVE  /\ ~Running /\ op.at # "run" => \A m \in Meetings : ~Alive(m)
         /\ op.at = "start" => \A m \in Meetings : ~Alive(m)
         /\ op.at = "run" /\ ~Alive(op.upload) => \A m \in Meetings : ~Alive(m)
<1> USE DEF AgentInv, OneRuns
<1>1. ASSUME NEW m \in Meetings, Alive(m), m = thread PROVE Running
  BY <1>1, AgentAssumption DEF Running, Meetings
<1>2. 0 \notin Meetings
  BY DEF Meetings
<1>3. QED
  BY <1>1, <1>2

(* start and stop ask the thread to end.                                   *)
LEMMA BeginStopStep == ASSUME AgentInv, NEW what \in {"start", "stop"}, BeginStop(what) PROVE AgentInv'
<1> USE DEF AgentInv, BeginStop, fileVars
<1>1. op' \in Call /\ op'.at = "join" /\ op.at = "none"
  <2>1. op' = [kind |-> what, at |-> "join", was |-> Running, upload |-> 0] /\ op.at = "none"
    BY DEF NoCall
  <2>2. Running \in BOOLEAN /\ 0 \in 0 .. MaxMeeting
    BY AgentAssumption DEF Running
  <2>3. QED
    BY <2>1, <2>2 DEF Call
<1>2. \A m \in Meetings : /\ pipe'[m] \in Pipe
                          /\ pipe'[m].at = pipe[m].at /\ pipe'[m].written = pipe[m].written
                          /\ pipe'[m].asr = pipe[m].asr /\ pipe'[m].taken = pipe[m].taken
                          /\ pipe'[m].fed = pipe[m].fed
  BY DEF Rooms, Pipe
<1>3. pipe' \in [Meetings -> Pipe]
  BY <1>2 DEF Rooms
<1>4. Rooms'
  BY <1>1, <1>2, <1>3 DEF Rooms, PipeOK
<1>5. \A m \in Meetings : Alive(m)' <=> Alive(m)
  BY <1>2 DEF Alive
<1>6. OneRuns'
  BY <1>1, <1>5 DEF OneRuns
<1>7. FilesOK'
  BY <1>2, <1>5 DEF FilesOK, Filed, Kept
<1>8. QED
  BY <1>4, <1>6, <1>7

(* A thread that does not end in time keeps its place.                     *)
LEMMA JoinTimedOutStep == ASSUME AgentInv, JoinTimedOut PROVE AgentInv'
<1> USE DEF AgentInv, JoinTimedOut, fileVars, StuckThread
<1>1. op' \in Call /\ op'.at = "none"
  BY AgentAssumption DEF NoCall, Call
<1>2. Rooms'
  BY <1>1 DEF Rooms, PipeOK
<1>3. OneRuns'
  BY <1>1 DEF OneRuns, Alive
<1>4. FilesOK'
  BY DEF FilesOK, Filed, Kept, Alive
<1>5. QED
  BY <1>2, <1>3, <1>4

(* The thread has ended: its meeting is archived.                          *)
LEMMA ThreadJoinedStep == ASSUME AgentInv, ThreadJoined PROVE AgentInv'
<1> USE DEF AgentInv, ThreadJoined
<1>1. \A m \in Meetings : ~Alive(m)
  BY NobodyRuns
<1>2. op' \in Call /\ op'.at \in {"none", "start"} /\ thread' = 0
  BY AgentAssumption DEF NoCall, Call, Rooms
<1>3. \A m \in Meetings : ~Alive(m)'
  BY <1>1 DEF Alive
<1>4. OneRuns'
  BY <1>2, <1>3 DEF OneRuns
<1>5. FilesOK' /\ live' \in File /\ archives' \in Seq(File)
  <2>1. CASE op.was
    BY <2>1, <1>1, <1>3, AllArchived
  <2>2. CASE ~op.was
    BY <2>2, <1>3 DEF FilesOK, Filed, Kept, Rooms
  <2>3. QED
    BY <2>1, <2>2
<1>6. Rooms'
  BY <1>2, <1>5, AgentAssumption DEF Rooms, PipeOK
<1>7. QED
  BY <1>4, <1>5, <1>6

(* A new meeting begins with everything archived.                          *)
LEMMA Started ==
  ASSUME AgentInv, NEW m \in Fresh, pipe' = [pipe EXCEPT ![m].at = "started"]
  PROVE  /\ m \in Meetings /\ pipe' \in [Meetings -> Pipe]
         /\ pipe'[m].written = {} /\ pipe[m].written = {}
         /\ \A o \in Meetings : PipeOK(o)'
         /\ \A o \in Meetings : o # m => pipe'[o] = pipe[o]
<1> USE DEF AgentInv
<1>1. m \in Meetings /\ pipe[m].at = "absent"
  BY DEF Fresh
<1>2. pipe[m] \in Pipe /\ pipe'[m] = [pipe[m] EXCEPT !.at = "started"]
  BY <1>1 DEF Rooms
<1>3. pipe'[m] \in Pipe
  BY <1>2 DEF Pipe
<1>4. /\ pipe'[m].at = "started" /\ pipe'[m].written = pipe[m].written
      /\ pipe'[m].asr = pipe[m].asr /\ pipe'[m].taken = pipe[m].taken /\ pipe'[m].fed = pipe[m].fed
  BY <1>2 DEF Pipe
<1>5. pipe[m].written = {} /\ PipeOK(m)'
  BY <1>1, <1>4 DEF Rooms, PipeOK
<1>6. \A o \in Meetings : o # m => pipe'[o] = pipe[o]
  BY <1>1 DEF Rooms
<1>7. pipe' \in [Meetings -> Pipe]
  BY <1>1, <1>3 DEF Rooms
<1>8. QED
  BY <1>1, <1>4, <1>5, <1>6, <1>7 DEF Rooms, PipeOK

(* A session is started: whatever was live is archived before.             *)
LEMMA StartStep == ASSUME AgentInv, NEW m \in Meetings, Start(m) PROVE AgentInv'
<1> USE DEF AgentInv, Start
<1>1. \A o \in Meetings : ~Alive(o)
  BY NobodyRuns
<1>2. /\ pipe' \in [Meetings -> Pipe]
      /\ pipe'[m].written = {} /\ pipe[m].written = {}
      /\ \A o \in Meetings : PipeOK(o)'
      /\ \A o \in Meetings : o # m => pipe'[o] = pipe[o]
  BY Started
<1>3. op' \in Call /\ op'.at = "none" /\ thread' = m
  BY AgentAssumption DEF NoCall, Call
<1>4. \A o \in Meetings : Alive(o)' => o = m
  BY <1>1, <1>2 DEF Alive
<1>5. FilesOK' /\ live' \in File /\ archives' \in Seq(File)
  BY <1>1, <1>2, <1>4, AllArchived
<1>6. Rooms'
  BY <1>2, <1>3, <1>5 DEF Rooms, Meetings
<1>7. pipe'[m].at = "started"
  BY DEF Rooms, Pipe
<1>8. OneRuns'
  BY <1>3, <1>4, <1>7 DEF OneRuns
<1>9. QED
  BY <1>5, <1>6, <1>8

(* An upload begins with everything archived, and no thread runs beside it.*)
LEMMA IngestStep == ASSUME AgentInv, NEW m \in Meetings, Ingest(m) PROVE AgentInv'
<1>0. op' \in Call /\ op'.at = "run" /\ op'.upload = m
  <2>1. PICK c : c = [NoCall EXCEPT !.kind = "ingest", !.at = "run", !.upload = m]
    OBVIOUS
  <2>2. op' = c
    BY <2>1 DEF Ingest
  <2>3. m \in 0 .. MaxMeeting /\ 0 \in 0 .. MaxMeeting
    BY AgentAssumption DEF Meetings
  <2>4. NoCall \in Call
    BY <2>3 DEF NoCall, Call
  <2>5. c \in Call /\ c.at = "run" /\ c.upload = m
    BY <2>1, <2>3, <2>4 DEF Call
  <2>6. QED
    BY <2>2, <2>5
<1> USE DEF AgentInv, Ingest
<1>1. op.at = "none"
  BY DEF NoCall
<1>2. \A o \in Meetings : ~Alive(o)
  BY <1>1, NobodyRuns
<1>3. /\ pipe' \in [Meetings -> Pipe]
      /\ pipe'[m].written = {} /\ pipe[m].written = {}
      /\ \A o \in Meetings : PipeOK(o)'
      /\ \A o \in Meetings : o # m => pipe'[o] = pipe[o]
  BY Started
<1>4. op' \in Call /\ op'.at = "run" /\ op'.upload = m
  BY <1>0
<1>5. \A o \in Meetings : Alive(o)' => o = m
  BY <1>2, <1>3 DEF Alive
<1>6. FilesOK' /\ live' \in File /\ archives' \in Seq(File)
  BY <1>2, <1>3, <1>5, AllArchived
<1>7. Rooms'
  BY <1>3, <1>4, <1>6 DEF Rooms
<1>8. ~Running'
  <2>1. pipe[m].at = "absent"
    BY DEF Fresh
  <2>2. thread # m /\ (thread # 0 => thread \in Meetings)
    BY <2>1, AgentAssumption DEF OneRuns, Rooms, Meetings
  <2>3. QED
    BY <1>5, <2>2 DEF Running
<1>9. OneRuns'
  <2>1. thread # 0 => pipe'[thread].at # "absent"
    BY <1>3, AgentAssumption DEF OneRuns, Rooms, Meetings, Fresh
  <2>2. QED
    BY <1>4, <1>5, <1>8, <2>1 DEF OneRuns
<1>10. QED
  BY <1>6, <1>7, <1>9

(* An upload that did not raise is archived.                               *)
LEMMA IngestedStep == ASSUME AgentInv, Ingested PROVE AgentInv'
<1> USE DEF AgentInv, Ingested
<1>1. \A m \in Meetings : ~Alive(m)
  BY NobodyRuns
<1>2. op' \in Call /\ op'.at = "none"
  BY AgentAssumption DEF NoCall, Call
<1>3. \A m \in Meetings : ~Alive(m)'
  BY <1>1 DEF Alive
<1>4. FilesOK' /\ live' \in File /\ archives' \in Seq(File)
  <2>1. CASE pipe[op.upload].closed
    BY <2>1, <1>1, <1>3, AllArchived
  <2>2. CASE ~pipe[op.upload].closed
    BY <2>2, <1>3 DEF FilesOK, Filed, Kept, Rooms
  <2>3. QED
    BY <2>1, <2>2
<1>5. Rooms'
  BY <1>2, <1>4 DEF Rooms, PipeOK
<1>6. OneRuns'
  BY <1>2, <1>3 DEF OneRuns
<1>7. QED
  BY <1>4, <1>5, <1>6

(* A pipeline opens on empty files: what others wrote is archived, since   *)
(* this one was about to open.                                             *)
LEMMA OpenStep == ASSUME AgentInv, NEW m \in Meetings, Open(m) PROVE AgentInv'
<1> USE DEF AgentInv, Open
<1>1. pipe[m] \in Pipe /\ pipe[m].at = "started"
  BY DEF Rooms
<1>2. /\ pipe'[m] = [pipe[m] EXCEPT !.at = "feeding", !.asr = "top"]
      /\ \A o \in Meetings : o # m => pipe'[o] = pipe[o]
  BY DEF Rooms
<1>3. /\ pipe'[m] \in Pipe /\ pipe'[m].at = "feeding" /\ pipe'[m].asr = "top"
      /\ pipe'[m].written = pipe[m].written
      /\ pipe'[m].taken = pipe[m].taken /\ pipe'[m].fed = pipe[m].fed
  <2>1. PICK p : p = [pipe[m] EXCEPT !.at = "feeding", !.asr = "top"]
    OBVIOUS
  <2>2. /\ p \in Pipe /\ p.at = "feeding" /\ p.asr = "top" /\ p.written = pipe[m].written
        /\ p.taken = pipe[m].taken /\ p.fed = pipe[m].fed
    BY <1>1, <2>1 DEF Pipe
  <2>3. QED
    BY <1>2, <2>1, <2>2
<1>4. pipe' \in [Meetings -> Pipe]
  BY <1>2, <1>3 DEF Rooms
<1>5. live' \in File
  BY DEF Empty, File
<1>6. Rooms'
  BY <1>2, <1>3, <1>4, <1>5 DEF Rooms, PipeOK, Meetings
<1>7. \A o \in Meetings : Alive(o)' <=> Alive(o)
  BY <1>1, <1>2, <1>3 DEF Alive
<1>8. OneRuns'
  <2>1. thread # 0 => thread \in Meetings
    BY AgentAssumption DEF Rooms, Meetings
  <2>2. QED
    BY <1>2, <1>3, <1>7, <2>1 DEF OneRuns, Running
<1>9. \A o \in Meetings : Alive(o) => o = m
  BY <1>1, AgentAssumption DEF OneRuns, Running, Alive, Rooms, Meetings
<1>10. pipe[m].written = {}
  BY <1>1 DEF Rooms, PipeOK
<1>11. FilesOK'
  BY <1>1, <1>2, <1>3, <1>7, <1>9, <1>10 DEF FilesOK, Filed, Kept
<1>12. QED
  BY <1>6, <1>8, <1>11

(* Whatever the thread does but for opening, it writes nothing.            *)
LEMMA SessionSteps ==
  ASSUME AgentInv, NEW m \in Meetings,
         Fails(m) \/ Feed(m) \/ EndFeed(m) \/ Idle(m) \/ Drained(m)
  PROVE  AgentInv'
<1>1. pipe[m] \in Pipe /\ live \in File /\ PipeOK(m)
  BY DEF AgentInv, Rooms
<1>2. CASE Fails(m)
  <2>1. PICK p : p = [pipe[m] EXCEPT !.at = "over"]
    OBVIOUS
  <2>2. p \in Pipe /\ p.at = "over" /\ p.written = pipe[m].written /\ p.asr = pipe[m].asr
        /\ p.taken = pipe[m].taken /\ p.fed = pipe[m].fed
    BY <1>1, <2>1 DEF Pipe
  <2>3. pipe' = [pipe EXCEPT ![m] = p]
    BY <1>2, <2>1 DEF Fails
  <2>4. QED
    BY <1>1, <1>2, <2>2, <2>3, Unwritten DEF Fails, fileVars, PipeOK
<1>3. CASE Feed(m)
  <2>1. PICK p : p = Submitted(pipe[m])
    OBVIOUS
  <2>2. p \in Pipe /\ p.at = pipe[m].at /\ p.written = pipe[m].written /\ p.asr = pipe[m].asr
        /\ p.taken = pipe[m].taken /\ p.fed = pipe[m].fed + 1
    <3>1. pipe[m].fed + 1 \in 0 .. MaxFinal
      BY <1>1, <1>3, AgentAssumption DEF Pipe, Feed
    <3>2. p = [pipe[m] EXCEPT !.fed = pipe[m].fed + 1, !.idle = FALSE]
      BY <2>1 DEF Submitted
    <3>3. QED
      BY <1>1, <3>1, <3>2 DEF Pipe
  <2>3. pipe' = [pipe EXCEPT ![m] = p]
    BY <1>3, <2>1 DEF Feed
  <2>4. p.taken <= p.fed
    BY <1>1, <2>2 DEF PipeOK, Pipe
  <2>5. QED
    BY <1>1, <1>3, <2>2, <2>3, <2>4, Unwritten DEF Feed, fileVars, PipeOK
<1>4. CASE EndFeed(m)
  <2>1. PICK p : /\ \/ p = [pipe[m] EXCEPT !.at = "idle"]
                    \/ pipe[m].fed < MaxFinal /\ p = [Submitted(pipe[m]) EXCEPT !.at = "idle"]
                 /\ pipe' = [pipe EXCEPT ![m] = p]
    BY <1>4 DEF EndFeed
  <2>2. p \in Pipe /\ p.at = "idle" /\ p.written = pipe[m].written /\ p.asr = pipe[m].asr
        /\ p.taken = pipe[m].taken /\ (p.fed = pipe[m].fed \/ p.fed = pipe[m].fed + 1)
    <3>1. CASE p = [pipe[m] EXCEPT !.at = "idle"]
      BY <1>1, <3>1 DEF Pipe
    <3>2. CASE pipe[m].fed < MaxFinal /\ p = [Submitted(pipe[m]) EXCEPT !.at = "idle"]
      <4>1. pipe[m].fed + 1 \in 0 .. MaxFinal
        BY <1>1, <3>2, AgentAssumption DEF Pipe
      <4>2. p = [[pipe[m] EXCEPT !.fed = pipe[m].fed + 1, !.idle = FALSE] EXCEPT !.at = "idle"]
        BY <3>2 DEF Submitted
      <4>3. QED
        BY <1>1, <4>1, <4>2 DEF Pipe
    <3>3. QED
      BY <2>1, <3>1, <3>2
  <2>3. p.taken <= p.fed
    BY <1>1, <2>2 DEF PipeOK, Pipe
  <2>4. Alive(m)
    BY <1>4 DEF EndFeed, Alive
  <2>5. QED
    BY <1>1, <1>4, <2>1, <2>2, <2>3, <2>4, Unwritten DEF EndFeed, fileVars, PipeOK
<1>5. CASE Idle(m)
  <2>1. PICK p : p = [pipe[m] EXCEPT !.at = "drain"]
    OBVIOUS
  <2>2. p \in Pipe /\ p.at = "drain" /\ p.written = pipe[m].written /\ p.asr = pipe[m].asr
        /\ p.taken = pipe[m].taken /\ p.fed = pipe[m].fed
    BY <1>1, <2>1 DEF Pipe
  <2>3. pipe' = [pipe EXCEPT ![m] = p] /\ Alive(m)
    BY <1>5, <2>1 DEF Idle, Alive
  <2>4. QED
    BY <1>1, <1>5, <2>2, <2>3, Unwritten DEF Idle, fileVars, PipeOK
<1>6. CASE Drained(m)
  <2>1. PICK p : p = [pipe[m] EXCEPT !.at = "over", !.closed = TRUE]
    OBVIOUS
  <2>2. p \in Pipe /\ p.at = "over" /\ p.written = pipe[m].written /\ p.asr = pipe[m].asr
        /\ p.taken = pipe[m].taken /\ p.fed = pipe[m].fed
    BY <1>1, <2>1 DEF Pipe
  <2>3. pipe' = [pipe EXCEPT ![m] = p]
    BY <1>6, <2>1 DEF Drained
  <2>4. QED
    BY <1>1, <1>6, <2>2, <2>3, Unwritten DEF Drained, fileVars, PipeOK
<1>7. QED
  BY <1>2, <1>3, <1>4, <1>5, <1>6

(* The recogniser's rounds, but for the line it writes.                    *)
LEMMA AsrSteps ==
  ASSUME AgentInv, NEW m \in Meetings, AsrTop(m) \/ AsrGet(m) \/ AsrLook(m) \/ AsrSet(m)
  PROVE  AgentInv'
<1>1. pipe[m] \in Pipe /\ live \in File /\ PipeOK(m) /\ pipe[m].asr # "gone"
  BY DEF AgentInv, Rooms, AsrTop, AsrGet, AsrLook, AsrSet
<1>2. PICK p :
        /\ \/ \E next \in {"gone", "get", "top", "set"} : p = [pipe[m] EXCEPT !.asr = next]
           \/ /\ pipe[m].taken < pipe[m].fed
              /\ p = [pipe[m] EXCEPT !.asr = "work", !.taken = @ + 1]
           \/ p = [pipe[m] EXCEPT !.asr = "top", !.idle = TRUE]
        /\ pipe' = [pipe EXCEPT ![m] = p]
  <2>1. CASE AsrTop(m)
    BY <2>1 DEF AsrTop
  <2>2. CASE AsrGet(m)
    BY <2>2 DEF AsrGet
  <2>3. CASE AsrLook(m)
    BY <2>3 DEF AsrLook
  <2>4. CASE AsrSet(m)
    BY <2>4 DEF AsrSet
  <2>5. QED
    BY <2>1, <2>2, <2>3, <2>4
<1>3. p \in Pipe /\ p.at = pipe[m].at /\ p.written = pipe[m].written /\ p.fed = pipe[m].fed
      /\ p.taken <= p.fed /\ (p.asr = "work" => p.taken # 0)
  <2>1. CASE \E next \in {"gone", "get", "top", "set"} : p = [pipe[m] EXCEPT !.asr = next]
    BY <1>1, <2>1 DEF Pipe, PipeOK
  <2>2. CASE /\ pipe[m].taken < pipe[m].fed
             /\ p = [pipe[m] EXCEPT !.asr = "work", !.taken = @ + 1]
    <3>1. pipe[m].taken + 1 \in 0 .. MaxFinal /\ pipe[m].taken + 1 <= pipe[m].fed
          /\ pipe[m].taken + 1 # 0
      BY <1>1, <2>2, AgentAssumption DEF Pipe
    <3>2. p = [pipe[m] EXCEPT !.asr = "work", !.taken = pipe[m].taken + 1]
      BY <2>2
    <3>3. QED
      BY <1>1, <3>1, <3>2 DEF Pipe
  <2>3. CASE p = [pipe[m] EXCEPT !.asr = "top", !.idle = TRUE]
    BY <1>1, <2>3 DEF Pipe, PipeOK
  <2>4. QED
    BY <1>2, <2>1, <2>2, <2>3
<1>4. pipe[m].at \notin {"absent", "started"}
  BY <1>1 DEF PipeOK
<1>5. UNCHANGED <<live, archives, owner, thread, op>>
  BY DEF AsrTop, AsrGet, AsrLook, AsrSet, fileVars
<1>6. QED
  BY <1>1, <1>2, <1>3, <1>4, <1>5, Unwritten DEF File

(* The translator's rounds write lines that no meeting claims.             *)
LEMMA TranslatorSteps ==
  ASSUME AgentInv, NEW m \in Meetings, Take(m) \/ Translated(m) PROVE AgentInv'
<1>1. pipe[m] \in Pipe /\ live \in File /\ PipeOK(m)
  BY DEF AgentInv, Rooms
<1>2. CASE Take(m)
  <2>1. PICK p : p = [pipe[m] EXCEPT !.translating = Head(pipe[m].waiting), !.waiting = Tail(@)]
    OBVIOUS
  <2>2. /\ Head(pipe[m].waiting) \in 0 .. MaxFinal
        /\ Tail(pipe[m].waiting) \in Seq(1 .. MaxFinal)
    <3>1. pipe[m].waiting \in Seq(1 .. MaxFinal) /\ pipe[m].waiting # <<>>
      BY <1>1, <1>2 DEF Take, Pipe
    <3>2. Head(pipe[m].waiting) \in 1 .. MaxFinal /\ Tail(pipe[m].waiting) \in Seq(1 .. MaxFinal)
      <4> DEFINE S == 1 .. MaxFinal
      <4>1. pipe[m].waiting \in Seq(S) /\ pipe[m].waiting # <<>>
        BY <3>1
      <4> HIDE DEF S
      <4>2. Head(pipe[m].waiting) \in S /\ Tail(pipe[m].waiting) \in Seq(S)
        BY <4>1, HeadTailProperties
      <4> QED
        BY <4>2 DEF S
    <3>3. 1 .. MaxFinal \subseteq 0 .. MaxFinal
      BY AgentAssumption
    <3>4. QED
      BY <3>2, <3>3
  <2>3. p \in Pipe /\ p.at = pipe[m].at /\ p.written = pipe[m].written /\ p.asr = pipe[m].asr
        /\ p.taken = pipe[m].taken /\ p.fed = pipe[m].fed
    BY <1>1, <2>1, <2>2 DEF Pipe
  <2>4. pipe' = [pipe EXCEPT ![m] = p]
    BY <1>2, <2>1 DEF Take
  <2>5. QED
    BY <1>1, <1>2, <2>3, <2>4, Unwritten DEF Take, fileVars, PipeOK
<1>3. CASE Translated(m)
  <2>1. PICK p : p = [pipe[m] EXCEPT !.translating = 0]
    OBVIOUS
  <2>2. p \in Pipe /\ p.at = pipe[m].at /\ p.written = pipe[m].written /\ p.asr = pipe[m].asr
        /\ p.taken = pipe[m].taken /\ p.fed = pipe[m].fed
    <3>1. 0 \in 0 .. MaxFinal
      BY AgentAssumption
    <3>2. QED
      BY <1>1, <2>1, <3>1 DEF Pipe
  <2>3. pipe' = [pipe EXCEPT ![m] = p]
    BY <1>3, <2>1 DEF Translated
  <2>4. <<m, pipe[m].translating>> \in Line
    BY <1>1, <1>3 DEF Translated, Line, Pipe
  <2>5. live' \in File /\ live.said \subseteq live'.said
    BY <1>1, <1>3, <2>4 DEF Translated, File
  <2>6. QED
    BY <1>1, <1>3, <2>2, <2>3, <2>5, Unwritten DEF Translated, PipeOK
<1>4. QED
  BY <1>2, <1>3

(* A line of a running meeting goes where its other lines are; a worker    *)
(* left over from another meeting adds a line that no meeting claims.      *)
LEMMA OnFinalStep == ASSUME AgentInv, NEW m \in Meetings, OnFinal(m) PROVE AgentInv'
<1> USE DEF AgentInv
<1>1. pipe[m] \in Pipe /\ live \in File /\ PipeOK(m) /\ pipe[m].asr = "work"
  BY DEF Rooms, OnFinal
<1>2. pipe[m].at \notin {"absent", "started"} /\ pipe[m].taken \in 1 .. MaxFinal
  BY <1>1, AgentAssumption DEF PipeOK, Pipe
<1>3. UNCHANGED <<archives, owner, thread, op>>
  BY DEF OnFinal
<1>4. CASE pipe' = [pipe EXCEPT ![m].asr = "look"] /\ UNCHANGED live
  <2>1. PICK p : p = [pipe[m] EXCEPT !.asr = "look"]
    OBVIOUS
  <2>2. p \in Pipe /\ p.at = pipe[m].at /\ p.written = pipe[m].written /\ p.asr = "look"
        /\ p.taken = pipe[m].taken /\ p.fed = pipe[m].fed
    BY <1>1, <2>1 DEF Pipe
  <2>3. pipe' = [pipe EXCEPT ![m] = p]
    BY <1>4, <2>1
  <2>4. QED
    BY <1>1, <1>2, <1>3, <1>4, <2>2, <2>3, Unwritten DEF PipeOK
<1>5. CASE /\ live' = [live EXCEPT !.said = @ \cup {<<m, pipe[m].taken>>}]
           /\ pipe' = [pipe EXCEPT ![m].asr = "look",
                ![m].waiting = Append(@, pipe[m].taken),
                ![m].written = IF Alive(m) THEN @ \cup {<<m, pipe[m].taken>>} ELSE @]
  <2> DEFINE lines == IF Alive(m) THEN pipe[m].written \cup {<<m, pipe[m].taken>>}
                      ELSE pipe[m].written
  <2>1. PICK p : p = [pipe[m] EXCEPT !.asr = "look", !.waiting = Append(@, pipe[m].taken),
                                     !.written = lines]
    OBVIOUS
  <2>2. pipe' = [pipe EXCEPT ![m] = p]
    BY <1>5, <2>1
  <2>3. <<m, pipe[m].taken>> \in Line
    BY <1>2 DEF Line
  <2>4. lines \in SUBSET Line /\ Append(pipe[m].waiting, pipe[m].taken) \in Seq(1 .. MaxFinal)
    BY <1>1, <1>2, <2>3 DEF Pipe
  <2>5. /\ p \in Pipe /\ p.at = pipe[m].at /\ p.asr = "look" /\ p.written = lines
        /\ p.taken = pipe[m].taken /\ p.fed = pipe[m].fed
    <3> HIDE DEF lines
    <3> QED
      BY <1>1, <2>1, <2>4 DEF Pipe
  <2>6. live' \in File /\ live'.said = live.said \cup {<<m, pipe[m].taken>>}
    BY <1>1, <1>5, <2>3 DEF File
  <2>7. CASE Alive(m)
    <3>1. pipe'[m] = p /\ \A o \in Meetings : o # m => pipe'[o] = pipe[o]
      BY <2>2 DEF Rooms
    <3>2. Rooms'
      BY <1>1, <1>2, <1>3, <2>2, <2>5, <2>6, <3>1 DEF Rooms, PipeOK
    <3>3. \A o \in Meetings : (Alive(o)' <=> Alive(o)) /\ pipe'[o].at = pipe[o].at
      BY <2>5, <3>1 DEF Alive
    <3>4. OneRuns'
      <4>1. thread # 0 => thread \in Meetings
        BY AgentAssumption DEF Rooms, Meetings
      <4>2. QED
        BY <1>3, <3>3, <4>1 DEF OneRuns, Running
    <3>5. pipe'[m].written \subseteq live'.said
      BY <2>5, <2>6, <2>7, <3>1 DEF FilesOK
    <3>6. \A o \in Meetings : pipe[o].at # "started"
      <4>1. \A o \in Meetings : Alive(o) => o = m
        BY <2>7, AgentAssumption DEF OneRuns, Running, Rooms, Meetings
      <4>2. QED
        BY <1>2, <4>1 DEF Alive
    <3>7. FilesOK'
      <4>1. Filed(m)' /\ (Alive(m)' => pipe'[m].written \subseteq live'.said)
        BY <3>3, <3>5, <3>6 DEF Filed
      <4>2. ASSUME NEW o \in Meetings, o # m
            PROVE  Filed(o)' /\ (Alive(o)' => pipe'[o].written \subseteq live'.said)
        BY <1>3, <2>6, <3>1, <3>3, <4>2 DEF FilesOK, Filed, Kept
      <4>3. QED
        BY <4>1, <4>2 DEF FilesOK
    <3>8. QED
      BY <3>2, <3>4, <3>7
  <2>8. CASE ~Alive(m)
    <3>1. p.written = pipe[m].written
      BY <2>5, <2>8
    <3>2. live.said \subseteq live'.said
      BY <2>6
    <3>3. QED
      BY <1>1, <1>2, <1>3, <2>2, <2>5, <2>6, <3>1, <3>2, Unwritten DEF PipeOK
  <2>9. QED
    BY <2>7, <2>8
<1>6. QED
  BY <1>4, <1>5 DEF OnFinal

(* The server ends: the files stay as they are.                            *)
LEMMA ExitStep == ASSUME AgentInv, Exit PROVE AgentInv'
<1> DEFINE AtExit(m) == IF pipe[m].at = "absent" THEN pipe[m]
                      ELSE [NoPipe EXCEPT !.at = "over", !.written = pipe[m].written]
<1>1. pipe' = [m \in Meetings |-> AtExit(m)]
  BY DEF Exit
<1>2. /\ UNCHANGED <<live, archives, owner>>
      /\ thread' = 0 /\ op' = NoCall
  BY DEF Exit, fileVars
<1>3. ASSUME NEW m \in Meetings
      PROVE  /\ AtExit(m) \in Pipe /\ AtExit(m).taken <= AtExit(m).fed
             /\ AtExit(m).at \in {"absent", "over"} /\ AtExit(m).asr = "gone"
             /\ AtExit(m).written = pipe[m].written
             /\ AtExit(m).at = "absent" => pipe[m].written = {}
  <2>1. CASE pipe[m].at = "absent"
    BY <2>1 DEF AgentInv, Rooms, PipeOK
  <2>2. CASE pipe[m].at # "absent"
    <3>1. PICK w \in SUBSET Line : w = pipe[m].written
      BY DEF AgentInv, Rooms, Pipe
    <3>2. PICK p : p = [NoPipe EXCEPT !.at = "over", !.written = w]
      OBVIOUS
    <3>3. 0 \in 0 .. MaxFinal
      BY AgentAssumption
    <3>4. NoPipe \in Pipe /\ NoPipe.asr = "gone" /\ NoPipe.taken = 0 /\ NoPipe.fed = 0
      BY <3>3 DEF NoPipe, Pipe
    <3>5. /\ p \in Pipe /\ p.at = "over" /\ p.written = w
          /\ p.asr = NoPipe.asr /\ p.taken = NoPipe.taken /\ p.fed = NoPipe.fed
      BY <3>2, <3>4 DEF Pipe
    <3>6. AtExit(m) = p
      BY <2>2, <3>1, <3>2
    <3>7. QED
      BY <3>1, <3>4, <3>5, <3>6
  <2>3. QED
    BY <2>1, <2>2
<1> HIDE DEF AtExit
<1>4. /\ pipe' \in [Meetings -> Pipe]
      /\ \A m \in Meetings : /\ PipeOK(m)' /\ pipe'[m].at \in {"absent", "over"}
                             /\ pipe'[m].written = pipe[m].written
  BY <1>1, <1>3 DEF PipeOK
<1>5. NoCall \in Call /\ NoCall.at = "none" /\ 0 \in 0 .. MaxMeeting
  BY AgentAssumption DEF NoCall, Call
<1>6. Rooms'
  BY <1>2, <1>4, <1>5 DEF AgentInv, Rooms
<1>7. \A m \in Meetings : ~Alive(m)'
  BY <1>4 DEF Alive
<1>8. OneRuns'
  BY <1>2, <1>5, <1>7 DEF OneRuns
<1>9. FilesOK'
  BY <1>2, <1>4, <1>7 DEF AgentInv, FilesOK, Filed, Kept
<1>10. QED
  BY <1>6, <1>8, <1>9 DEF AgentInv

(* Every step keeps the invariant.                                         *)
LEMMA AgentStep == ASSUME AgentInv, AgentNext PROVE AgentInv'
<1>1. CASE BeginStop("start") \/ BeginStop("stop")
  BY <1>1, BeginStopStep
<1>2. CASE JoinTimedOut \/ ThreadJoined \/ Ingested \/ Exit
  BY <1>2, JoinTimedOutStep, ThreadJoinedStep, IngestedStep, ExitStep
<1>3. CASE \E m \in Meetings : Start(m) \/ Ingest(m) \/ Feed(m) \/ Fails(m) \/ Session(m)
  BY <1>3, StartStep, IngestStep, OpenStep, SessionSteps DEF Session
<1>4. CASE \E m \in Meetings : Workers(m)
  BY <1>4, AsrSteps, TranslatorSteps, OnFinalStep DEF Workers
<1>5. QED
  BY <1>1, <1>2, <1>3, <1>4 DEF AgentNext

(* The inductive invariant: one runs, and what is about to be cleared is   *)
(* archived.                                                               *)
THEOREM AgentInvariant == AgentSpec => []AgentInv
<1>1. AgentInit => AgentInv
  BY InitAgent
<1>2. AgentInv /\ UNCHANGED agentVars => AgentInv'
  BY DEF agentVars, AgentInv, Rooms, OneRuns, FilesOK, PipeOK, Alive, Running, Filed, Kept
<1>3. AgentInv /\ [AgentNext]_agentVars => AgentInv'
  BY <1>2, AgentStep
<1>4. QED
  BY <1>1, <1>3, PTL DEF AgentSpec

(* The room's files hold lines of meetings, for any number of meetings and *)
(* lines, and the recogniser is never ahead of what it was fed.            *)
THEOREM AgentTypes == AgentSpec => []AgentTypeOK
<1>1. AgentInv => AgentTypeOK
  BY AgentAssumption DEF AgentInv, Rooms, AgentTypeOK, File, Call, Pipe, PipeOK
<1>2. QED
  BY <1>1, AgentInvariant, PTL

(* What a meeting wrote while it ran is whole, in the live files or in one *)
(* archive, and at most one meeting runs, however many sessions, uploads,  *)
(* failures, time-outs and restarts there are.                             *)
THEOREM MeetingsTheorem == AgentSpec => []MeetingsWhole
<1>1. ASSUME AgentInv PROVE MeetingsWhole
  <2>1. ASSUME NEW m \in Meetings
        PROVE  \E f \in {live} \cup {archives[i] : i \in DOMAIN archives} :
                 pipe[m].written \subseteq f.said
    BY <1>1 DEF AgentInv, FilesOK, Filed, Kept
  <2>2. Cardinality({m \in Meetings : Alive(m)}) <= 1
    <3> DEFINE running == {m \in Meetings : Alive(m)}
    <3>1. \A a, b \in running : a = b
      BY <1>1, AgentAssumption DEF AgentInv, OneRuns, Running, Rooms, Meetings
    <3>2. CASE running = {}
      BY <3>2, FS_EmptySet
    <3>3. CASE running # {}
      <4>1. PICK m \in running : running = {m}
        BY <3>1, <3>3
      <4>2. QED
        BY <4>1, FS_Singleton
    <3>4. QED
      BY <3>2, <3>3
  <2>3. QED
    BY <2>1, <2>2 DEF MeetingsWhole
<1>2. QED
  BY <1>1, AgentInvariant, PTL

----------------------------------------------------------------------------
(* What is public.                                                         *)

(* Artifacts are made from finished artifacts only, so no chain of them    *)
(* returns to its beginning: every set of them has a member made from none *)
(* of its members.                                                         *)
InputIds(a) == {i.id : i \in snapshot[a].artifacts}

Acyclic ==
  /\ \A a \in finished : InputIds(a) \subseteq finished
  /\ \A set \in SUBSET finished :
       set # {} => \E a \in set : InputIds(a) \cap set = {}

(* An artifact that is not stale was made from unchanged inputs.           *)
NotStaleIsCurrent ==
  \A a \in finished : validation[a] # "stale" =>
    /\ Unchanged(snapshot[a])
    /\ covered[a] => ~LostAudio(snapshot[a])

(* Publication and projection agree, and only approved and valid artifacts *)
(* have them.                                                              *)
ProjectionAgrees ==
  \A a \in Artifacts :
    /\ projection[a].active <=> publication[a] = "published"
    /\ publication[a] = "published" =>
         /\ a \in finished
         /\ validation[a] = "valid"
         /\ review[a] = "approved"
         /\ projection[a].revision = revision[a]

CoveredIsComplete == \A a \in finished : covered[a] => snapshot[a].complete

ReviewInv ==
  TypeOK /\ Acyclic /\ NotStaleIsCurrent /\ ProjectionAgrees /\ CoveredIsComplete

(* The invariant says more than the property.                              *)
LEMMA InvGivesCurrent == ReviewInv => PublicIsCurrent
  BY DEF ReviewInv, TypeOK, NotStaleIsCurrent, ProjectionAgrees, PublicIsCurrent, Offered

----------------------------------------------------------------------------
(* The closure that invalidate_artifacts computes.                         *)

(* It holds its roots and is closed under the dependents of its members.   *)
LEMMA ClosureClosed ==
  ASSUME NEW roots \in SUBSET Artifacts
  PROVE  /\ Closure(roots) \in SUBSET Artifacts
         /\ roots \subseteq Closure(roots)
         /\ \A b \in Closure(roots) : Dependents(b) \subseteq Closure(roots)
  <1>1. Closure(roots) \in SUBSET Artifacts /\ roots \subseteq Closure(roots)
    BY DEF Closure
  <1>2. ASSUME NEW b \in Closure(roots), NEW a \in Dependents(b)
        PROVE  a \in Closure(roots)
    BY <1>2 DEF Closure, Dependents
  <1> QED BY <1>1, <1>2

(* It is inside every closed set that holds the roots.                     *)
LEMMA ClosureLeast ==
  ASSUME NEW roots \in SUBSET Artifacts, NEW set \in SUBSET Artifacts,
         roots \subseteq set, \A b \in set : Dependents(b) \subseteq set
  PROVE  Closure(roots) \subseteq set
  BY DEF Closure

(* Invalidating what was made from an artifact never reaches the artifact, *)
(* nor anything it was made from.                                          *)
LEMMA ClosureMisses ==
  ASSUME TypeOK, Acyclic, NEW a \in finished
  PROVE  /\ a \notin Closure(Dependents(a))
         /\ InputIds(a) \cap Closure(Dependents(a)) = {}
  <1> DEFINE C == Closure(Dependents(a))
  <1>1. Dependents(a) \in SUBSET Artifacts
    BY DEF Dependents
  <1>2. /\ C \in SUBSET Artifacts
        /\ Dependents(a) \subseteq C
        /\ \A b \in C : Dependents(b) \subseteq C
    BY <1>1, ClosureClosed
  <1>3. C \subseteq finished
    <2> DEFINE F == C \cap finished
    <2>1. Dependents(a) \subseteq F
      BY <1>2 DEF Dependents, DependsOnArtifact
    <2>2. \A b \in F : Dependents(b) \subseteq F
      BY <1>2 DEF Dependents, DependsOnArtifact
    <2>3. F \in SUBSET Artifacts
      BY <1>2
    <2> HIDE DEF F
    <2>4. C \subseteq F
      BY <1>1, <2>1, <2>2, <2>3, ClosureLeast
    <2> QED BY <2>4 DEF F
  <1>4. a \notin C
    <2> SUFFICES ASSUME a \in C PROVE FALSE
      OBVIOUS
    <2>1. PICK m \in C : InputIds(m) \cap C = {}
      BY <1>3 DEF Acyclic
    <2> DEFINE D == C \ {m}
    <2>2. m \notin Dependents(a)
      BY <2>1 DEF Dependents, DependsOnArtifact, InputIds
    <2>3. Dependents(a) \subseteq D
      BY <2>2, <1>2
    <2>4. \A b \in D : m \notin Dependents(b)
      BY <2>1 DEF Dependents, DependsOnArtifact, InputIds
    <2>5. \A b \in D : Dependents(b) \subseteq D
      BY <2>4, <1>2
    <2>6. D \in SUBSET Artifacts
      BY <1>2
    <2> HIDE DEF D
    <2>7. C \subseteq D
      BY <1>1, <2>3, <2>5, <2>6, ClosureLeast
    <2> QED BY <2>1, <2>7 DEF D
  <1>5. ASSUME NEW b \in InputIds(a), b \in C PROVE FALSE
    <2>1. a \in Dependents(b)
      BY DEF TypeOK, Dependents, DependsOnArtifact, InputIds
    <2> QED BY <2>1, <1>2, <1>4, <1>5
  <1> QED BY <1>4, <1>5
----------------------------------------------------------------------------
(* What an invalidation leaves alone.                                      *)

(* Published inputs of an artifact that is not invalidated stay as frozen, *)
(* if everything made from a touched artifact is invalidated.              *)
LEMMA InputsKept ==
  ASSUME TypeOK,
         NEW dead \in SUBSET Artifacts, NEW own \in SUBSET Artifacts,
         \A b \in dead \cup own : Dependents(b) \subseteq dead,
         finished \subseteq finished',
         \A b \in finished \ (dead \cup own) :
           /\ validation'[b] = validation[b]
           /\ publication'[b] = publication[b]
           /\ review'[b] = review[b]
           /\ revision'[b] = revision[b]
           /\ projection'[b] = projection[b],
         NEW x \in finished, x \notin dead,
         ArtifactsUnchanged(snapshot[x])
  PROVE  \A i \in snapshot[x].artifacts : Offered(i.id)' /\ i = InputOf(i.id)'
  <1> TAKE i \in snapshot[x].artifacts
  <1>1. i.id \in finished /\ Offered(i.id) /\ i = InputOf(i.id)
    BY DEF ArtifactsUnchanged, Offered
  <1>2. x \in Dependents(i.id)
    BY DEF TypeOK, Dependents, DependsOnArtifact
  <1>3. i.id \notin dead \cup own
    BY <1>2
  <1> QED BY <1>1, <1>3 DEF Offered, InputOf

(* A step that adds no artifact keeps the order of the artifacts.          *)
LEMMA OrderKept ==
  ASSUME Acyclic, CoveredIsComplete, UNCHANGED bornVars
  PROVE  Acyclic' /\ CoveredIsComplete'
  BY DEF Acyclic, CoveredIsComplete, InputIds, bornVars

(* The columns after an invalidation have their types.                     *)
LEMMA ColumnsTyped ==
  ASSUME TypeOK, NEW dead, NEW own
  PROVE  /\ StaleValidation(dead, validation)
              \in [Artifacts -> {"valid", "needs_review", "stale"}]
         /\ StalePublication(dead, publication)
              \in [Artifacts -> {"private", "published", "hidden", "withdrawn"}]
         /\ Tombstoned(dead, own)
              \in [Artifacts -> [active : BOOLEAN, revision : 0..MaxRevision,
                                 copy : Copies \cup {NoCopy}]]
  BY DEF TypeOK, StaleValidation, StalePublication, Tombstoned

(* A change of an input that invalidates what was made from it.            *)
LEMMA InvalidateInv ==
  ASSUME ReviewInv, NEW roots \in SUBSET Artifacts, Invalidate(roots),
         TypeOK!1', TypeOK!2', TypeOK!3', TypeOK!4',
         \A x \in finished : x \notin roots /\ validation[x] # "stale" =>
           /\ SourcesUnchanged(snapshot[x])'
           /\ PeersUnchanged(snapshot[x])'
           /\ covered[x] => ~LostAudio(snapshot[x])'
  PROVE  ReviewInv'
  <1> DEFINE dead == Closure(roots)
  <1> USE DEF ReviewInv
  <1>1. /\ dead \in SUBSET Artifacts
        /\ roots \subseteq dead
        /\ \A b \in dead : Dependents(b) \subseteq dead
    BY ClosureClosed
  <1>2. /\ validation' = StaleValidation(dead, validation)
        /\ publication' = StalePublication(dead, publication)
        /\ projection' = Tombstoned(dead, {})
        /\ UNCHANGED <<finished, kind, snapshot, covered, content, revision, review, mode>>
    BY DEF Invalidate, bornVars
  <1> HIDE DEF dead
  <1>3. TypeOK'
    BY <1>2, ColumnsTyped DEF TypeOK
  <1>4. Acyclic' /\ CoveredIsComplete'
    BY <1>2, OrderKept DEF bornVars
  <1>5. ASSUME NEW b \in Artifacts, b \notin dead
        PROVE  /\ validation'[b] = validation[b]
               /\ publication'[b] = publication[b]
               /\ projection'[b] = projection[b]
    BY <1>2, <1>5 DEF TypeOK, StaleValidation, StalePublication, Tombstoned
  <1>6. NotStaleIsCurrent'
    <2> SUFFICES ASSUME NEW x \in finished, validation'[x] # "stale"
                 PROVE  /\ Unchanged(snapshot[x])'
                        /\ covered[x] => ~LostAudio(snapshot[x])'
      BY <1>2 DEF NotStaleIsCurrent, Unchanged, SourcesUnchanged, PeersUnchanged,
                  ArtifactsUnchanged, LostAudio
    <2>1. x \notin dead /\ x \in Artifacts
      BY <1>2 DEF StaleValidation, TypeOK
    <2>2. validation[x] # "stale" /\ x \notin roots
      BY <1>1, <1>5, <2>1
    <2>3. ArtifactsUnchanged(snapshot[x])
      BY <2>2 DEF NotStaleIsCurrent, Unchanged
    <2>4. \A i \in snapshot[x].artifacts : Offered(i.id)' /\ i = InputOf(i.id)'
      <3>1. \A b \in dead \cup {} : Dependents(b) \subseteq dead
        BY <1>1
      <3>2. \A b \in finished \ (dead \cup {}) :
              /\ validation'[b] = validation[b]
              /\ publication'[b] = publication[b]
              /\ review'[b] = review[b]
              /\ revision'[b] = revision[b]
              /\ projection'[b] = projection[b]
        BY <1>2, <1>5 DEF TypeOK
      <3>3. finished \subseteq finished'
        BY <1>2
      <3> QED BY <1>1, <2>1, <2>3, <3>1, <3>2, <3>3, InputsKept
    <2>5. ArtifactsUnchanged(snapshot[x])'
      BY <1>2, <2>4 DEF ArtifactsUnchanged
    <2> QED BY <2>2, <2>5 DEF Unchanged
  <1>7. ProjectionAgrees'
    BY <1>2 DEF ProjectionAgrees, TypeOK, StaleValidation, StalePublication, Tombstoned
  <1> QED BY <1>3, <1>4, <1>6, <1>7

----------------------------------------------------------------------------
(* One lemma per handler.                                                  *)

(* The empty store satisfies the invariant.                                *)
LEMMA InitInv == ReviewAssumption /\ Init => ReviewInv
  BY DEF ReviewAssumption, Init, ReviewInv, TypeOK, Acyclic, NotStaleIsCurrent, ProjectionAgrees,
         CoveredIsComplete, Snapshot, SourceKinds, ReportKinds, Contents

(* A new text of a segment keeps it: the artifacts made from the old one   *)
(* are stale.                                                              *)
LEMMA ChangeTextInv ==
  ASSUME ReviewInv, NEW s \in Segments, ChangeText(s), MaxInput \in Nat
  PROVE  ReviewInv'
  <1> DEFINE roots == {a \in Artifacts : DependsOnSource(a, s)}
  <1>1. /\ texts' = [texts EXCEPT ![s] = @ + 1] /\ texts[s] < MaxInput
        /\ \E v \in Speakers \cup {NoSpeaker} : speakers' = [speakers EXCEPT ![s] = v]
        /\ Invalidate(roots) /\ UNCHANGED <<gaps, peers>>
    BY DEF ChangeText
  <1>2. TypeOK!1' /\ TypeOK!2' /\ TypeOK!3' /\ TypeOK!4'
    BY <1>1 DEF ReviewInv, TypeOK
  <1>3. ASSUME NEW x \in finished, x \notin roots, validation[x] # "stale"
        PROVE  /\ SourcesUnchanged(snapshot[x])'
               /\ PeersUnchanged(snapshot[x])'
               /\ covered[x] => ~LostAudio(snapshot[x])'
    <2>1. \A i \in snapshot[x].sources : i.segment \in Segments /\ i.segment # s
      BY <1>3 DEF ReviewInv, TypeOK, DependsOnSource, Snapshot, SourceInput
    <2>2. snapshot' = snapshot
      BY <1>1 DEF Invalidate, bornVars
    <2>3. Unchanged(snapshot[x]) /\ (covered[x] => ~LostAudio(snapshot[x]))
      BY <1>3 DEF ReviewInv, NotStaleIsCurrent
    <2> QED BY <1>1, <2>1, <2>2, <2>3
            DEF ReviewInv, TypeOK, Unchanged, SourcesUnchanged, PeersUnchanged, TextOf,
                PeerOf, LostAudio
  <1> HIDE DEF roots
  <1>4. roots \in SUBSET Artifacts
    BY DEF roots
  <1> QED BY <1>1, <1>2, <1>3, <1>4, InvalidateInv

(* So does a new speaker of a segment,                                     *)
LEMMA AssignSpeakerInv ==
  ASSUME ReviewInv, NEW s \in Segments, AssignSpeaker(s)
  PROVE  ReviewInv'
  <1> DEFINE roots == {a \in Artifacts : DependsOnSource(a, s)}
  <1>1. /\ \E v \in Speakers \cup {NoSpeaker} : speakers' = [speakers EXCEPT ![s] = v]
        /\ Invalidate(roots) /\ UNCHANGED <<texts, gaps, peers>>
    BY DEF AssignSpeaker
  <1>2. TypeOK!1' /\ TypeOK!2' /\ TypeOK!3' /\ TypeOK!4'
    BY <1>1 DEF ReviewInv, TypeOK
  <1>3. ASSUME NEW x \in finished, x \notin roots, validation[x] # "stale"
        PROVE  /\ SourcesUnchanged(snapshot[x])'
               /\ PeersUnchanged(snapshot[x])'
               /\ covered[x] => ~LostAudio(snapshot[x])'
    <2>1. \A i \in snapshot[x].sources : i.segment \in Segments /\ i.segment # s
      BY <1>3 DEF ReviewInv, TypeOK, DependsOnSource, Snapshot, SourceInput
    <2>2. snapshot' = snapshot
      BY <1>1 DEF Invalidate, bornVars
    <2>3. Unchanged(snapshot[x]) /\ (covered[x] => ~LostAudio(snapshot[x]))
      BY <1>3 DEF ReviewInv, NotStaleIsCurrent
    <2> QED BY <1>1, <2>1, <2>2, <2>3
            DEF ReviewInv, TypeOK, Unchanged, SourcesUnchanged, PeersUnchanged, TextOf,
                PeerOf, LostAudio
  <1> HIDE DEF roots
  <1>4. roots \in SUBSET Artifacts
    BY DEF roots
  <1> QED BY <1>1, <1>2, <1>3, <1>4, InvalidateInv

(* and a new gap.                                                          *)
LEMMA RegisterGapInv ==
  ASSUME ReviewInv, NEW g \in GapPlaces, RegisterGap(g)
  PROVE  ReviewInv'
  <1> DEFINE roots == {a \in finished : /\ validation[a] # "stale"
                                        /\ covered[a]
                                        /\ snapshot[a].sources # {}
                                        /\ snapshot[a].window \cap (gaps \cup {g}) # {}}
  <1>1. /\ gaps' = gaps \cup {g}
        /\ Invalidate(roots) /\ UNCHANGED <<texts, speakers, peers>>
    BY DEF RegisterGap
  <1>2. TypeOK!1' /\ TypeOK!2' /\ TypeOK!3' /\ TypeOK!4'
    BY <1>1 DEF ReviewInv, TypeOK
  <1>3. ASSUME NEW x \in finished, x \notin roots, validation[x] # "stale"
        PROVE  /\ SourcesUnchanged(snapshot[x])'
               /\ PeersUnchanged(snapshot[x])'
               /\ covered[x] => ~LostAudio(snapshot[x])'
    <2>1. snapshot' = snapshot
      BY <1>1 DEF Invalidate, bornVars
    <2>2. Unchanged(snapshot[x])
      BY <1>3 DEF ReviewInv, NotStaleIsCurrent
    <2>3. covered[x] => ~LostAudio(snapshot[x])'
      BY <1>1, <1>3, <2>1 DEF LostAudio
    <2> QED BY <1>1, <2>1, <2>2, <2>3
            DEF Unchanged, SourcesUnchanged, PeersUnchanged, TextOf, PeerOf
  <1> HIDE DEF roots
  <1>4. roots \in SUBSET Artifacts
    BY DEF roots, ReviewInv, TypeOK
  <1> QED BY <1>1, <1>2, <1>3, <1>4, InvalidateInv

(* A change of a peer's mirror keeps it: what was made from the mirror is  *)
(* stale.                                                                  *)
LEMMA MirrorChangesInv ==
  ASSUME ReviewInv, NEW p \in Peers, MirrorChanges(p), MaxInput \in Nat
  PROVE  ReviewInv'
  <1> DEFINE roots == {a \in Artifacts : DependsOnPeer(a, p)}
  <1>1. Invalidate(roots) /\ UNCHANGED <<texts, speakers, gaps>>
    BY DEF MirrorChanges
  <1>2. /\ peers' \in [Peers -> [revision : 0..MaxInput, live : BOOLEAN]]
        /\ \A q \in Peers \ {p} : peers'[q] = peers[q]
    <2>1. /\ peers \in [Peers -> [revision : 0..MaxInput, live : BOOLEAN]]
          /\ peers[p].revision \in 0..MaxInput
      BY DEF ReviewInv, TypeOK
    <2>2. CASE /\ peers[p].revision < MaxInput
               /\ peers' = [peers EXCEPT ![p] = [revision |-> @.revision + 1, live |-> TRUE]]
      BY <2>1, <2>2
    <2>3. CASE peers' = [peers EXCEPT ![p].live = FALSE]
      BY <2>1, <2>3
    <2> QED BY <2>2, <2>3 DEF MirrorChanges
  <1>3. TypeOK!1' /\ TypeOK!2' /\ TypeOK!3' /\ TypeOK!4'
    BY <1>1, <1>2 DEF ReviewInv, TypeOK
  <1>4. ASSUME NEW x \in finished, x \notin roots, validation[x] # "stale"
        PROVE  /\ SourcesUnchanged(snapshot[x])'
               /\ PeersUnchanged(snapshot[x])'
               /\ covered[x] => ~LostAudio(snapshot[x])'
    <2>1. \A i \in snapshot[x].peers : i.peer \in Peers \ {p}
      BY <1>4 DEF ReviewInv, TypeOK, DependsOnPeer, Snapshot, PeerInput
    <2>2. snapshot' = snapshot
      BY <1>1 DEF Invalidate, bornVars
    <2>3. Unchanged(snapshot[x]) /\ (covered[x] => ~LostAudio(snapshot[x]))
      BY <1>4 DEF ReviewInv, NotStaleIsCurrent
    <2> QED BY <1>1, <1>2, <2>1, <2>2, <2>3
            DEF Unchanged, SourcesUnchanged, PeersUnchanged, TextOf, PeerOf, LostAudio
  <1> HIDE DEF roots
  <1>5. roots \in SUBSET Artifacts
    BY DEF roots
  <1> QED BY <1>1, <1>3, <1>4, <1>5, InvalidateInv

(* A mirror that is live again differs in nothing an artifact was made of. *)
LEMMA MirrorReturnsInv ==
  ASSUME ReviewInv, NEW p \in Peers, MirrorReturns(p)
  PROVE  ReviewInv'
  <1>1. /\ peers' = [peers EXCEPT ![p].live = TRUE]
        /\ UNCHANGED <<texts, speakers, gaps, mode, finished, kind, snapshot, covered,
                       content, revision, validation, review, publication, projection>>
    BY DEF MirrorReturns, bornVars, stateVars
  <1>2. TypeOK' /\ Acyclic' /\ CoveredIsComplete'
    BY <1>1, OrderKept DEF ReviewInv, TypeOK, bornVars
  <1>3. NotStaleIsCurrent'
    <2> SUFFICES ASSUME NEW x \in finished, validation[x] # "stale"
                 PROVE  PeersUnchanged(snapshot[x])'
      BY <1>1 DEF ReviewInv, NotStaleIsCurrent, Unchanged, SourcesUnchanged, TextOf,
                  ArtifactsUnchanged, Offered, InputOf, LostAudio
    <2>1. PeersUnchanged(snapshot[x]) /\ snapshot[x].peers \subseteq PeerInput
      BY DEF ReviewInv, NotStaleIsCurrent, Unchanged, TypeOK, Snapshot
    <2> QED BY <1>1, <2>1 DEF PeersUnchanged, PeerOf, PeerInput, ReviewInv, TypeOK
  <1>4. ProjectionAgrees'
    BY <1>1 DEF ReviewInv, ProjectionAgrees
  <1> QED BY <1>2, <1>3, <1>4 DEF ReviewInv

(* The settings are no input of an artifact.                               *)
LEMMA SettingsInv ==
  ASSUME ReviewInv, SetInsightSettings PROVE ReviewInv'
  <1>1. /\ mode' \in {"gated", "automatic"}
        /\ UNCHANGED <<texts, speakers, gaps, peers, finished, kind, snapshot, covered,
                       content, revision, validation, review, publication, projection>>
    BY DEF SetInsightSettings, sourceVars, bornVars, stateVars
  <1>2. TypeOK' /\ Acyclic' /\ CoveredIsComplete'
    BY <1>1, OrderKept DEF ReviewInv, TypeOK, bornVars
  <1>3. NotStaleIsCurrent' /\ ProjectionAgrees'
    BY <1>1 DEF ReviewInv, NotStaleIsCurrent, ProjectionAgrees, Unchanged, SourcesUnchanged,
                TextOf, ArtifactsUnchanged, Offered, InputOf, PeersUnchanged, PeerOf, LostAudio
  <1> QED BY <1>2, <1>3 DEF ReviewInv

(* What snapshot_for returns has its type, is current, and names finished  *)
(* artifacts.                                                              *)
LEMMA SnapshotsAreCurrent ==
  ASSUME ReviewInv, NEW k \in Kinds, NEW snap \in SnapshotsNow(k), ReviewAssumption
  PROVE  /\ snap \in Snapshot
         /\ Unchanged(snap)
         /\ snap.complete => ~LostAudio(snap)
         /\ \A i \in snap.artifacts : i.id \in finished
  <1>1. CASE snap \in SourceSnapshots(k) /\ SnapshotCurrent(snap)
    <2>1. PICK segs \in SUBSET Segments, w \in SUBSET GapPlaces, c \in BOOLEAN :
            snap = [sources |-> {TextOf(s) : s \in segs}, artifacts |-> {}, peers |-> {},
                    window |-> w, complete |-> c]
      BY <1>1 DEF SourceSnapshots, ReviewAssumption
    <2>2. {TextOf(s) : s \in segs} \subseteq SourceInput
      BY DEF TextOf, SourceInput, ReviewInv, TypeOK
    <2> QED BY <1>1, <2>1, <2>2 DEF Snapshot, SnapshotCurrent
  <1>2. CASE snap \in ReportSnapshots(k)
    <2>1. PICK as \in SUBSET {a \in Artifacts : Offered(a) /\ kind[a] # k},
               ps \in SUBSET {p \in Peers : peers[p].live /\ peers[p].revision > 0} :
            snap = [sources |-> {}, artifacts |-> {InputOf(a) : a \in as},
                    peers |-> {PeerOf(p) : p \in ps}, window |-> {}, complete |-> TRUE]
      BY <1>2 DEF ReportSnapshots
    <2>2. {InputOf(a) : a \in as} \subseteq PublishedInput
      <3> SUFFICES ASSUME NEW a \in as PROVE InputOf(a) \in PublishedInput
        OBVIOUS
      <3>1. a \in Artifacts /\ revision[a] \in 1..MaxRevision
              /\ projection[a].copy \in Copies \cup {NoCopy}
        BY DEF ReviewInv, TypeOK
      <3> QED BY <3>1 DEF InputOf, PublishedInput
    <2>3. {PeerOf(p) : p \in ps} \subseteq PeerInput
      <3> SUFFICES ASSUME NEW p \in ps PROVE PeerOf(p) \in PeerInput
        OBVIOUS
      <3>1. p \in Peers /\ peers[p].revision \in 0..MaxInput /\ peers[p].revision > 0
        BY DEF ReviewInv, TypeOK
      <3> QED BY <3>1, MaxInput \in Nat DEF PeerOf, PeerInput, ReviewAssumption
    <2>4. snap \in Snapshot
      BY <2>1, <2>2, <2>3 DEF Snapshot
    <2>5. ASSUME NEW i \in snap.artifacts
          PROVE  Offered(i.id) /\ i = InputOf(i.id)
      <3>1. PICK a \in as : i = InputOf(a)
        BY <2>1
      <3>2. i.id = a
        BY <3>1 DEF InputOf
      <3> QED BY <3>1, <3>2
    <2>7. ASSUME NEW i \in snap.peers
          PROVE  peers[i.peer].live /\ i = PeerOf(i.peer)
      <3>1. PICK p \in ps : i = PeerOf(p)
        BY <2>1
      <3>2. i.peer = p
        BY <3>1 DEF PeerOf
      <3> QED BY <3>1, <3>2
    <2>6. Unchanged(snap)
      BY <2>1, <2>5, <2>7 DEF Unchanged, SourcesUnchanged, ArtifactsUnchanged, PeersUnchanged
    <2> QED BY <2>1, <2>4, <2>5, <2>6 DEF LostAudio, Offered
  <1> QED BY <1>1, <1>2 DEF SnapshotsNow

(* A finished artifact is made from what is current when it finishes.      *)
LEMMA FinishInv ==
  ASSUME ReviewInv, ReviewAssumption, NEW a \in Artifacts, NEW k \in Kinds,
         NEW form \in Forms, NEW cov \in BOOLEAN, NEW snap \in SnapshotsNow(k),
         Finish(a, k, snap, form, cov)
  PROVE  ReviewInv'
  <1>1. /\ snap \in Snapshot
        /\ Unchanged(snap)
        /\ snap.complete => ~LostAudio(snap)
        /\ \A i \in snap.artifacts : i.id \in finished
    BY SnapshotsAreCurrent
  <1>2. /\ a \notin finished
        /\ cov => snap.complete
        /\ finished' = finished \cup {a}
        /\ kind' = [kind EXCEPT ![a] = k]
        /\ snapshot' = [snapshot EXCEPT ![a] = snap]
        /\ covered' = [covered EXCEPT ![a] = cov]
        /\ content' = [content EXCEPT ![a] = form]
        /\ validation' = [validation EXCEPT ![a] = Validated(form)]
        /\ revision' = [revision EXCEPT ![a] = 1]
        /\ UNCHANGED <<texts, speakers, gaps, peers, mode>>
    BY DEF Finish, sourceVars
  <1>3. \/ /\ review' = [review EXCEPT ![a] = "draft"]
           /\ publication' = [publication EXCEPT ![a] = "private"]
           /\ projection' = projection
        \/ /\ form = "cited"
           /\ review' = [review EXCEPT ![a] = "approved"]
           /\ publication' = [publication EXCEPT ![a] = "published"]
           /\ \E c \in Copies : projection' =
                [projection EXCEPT ![a] = [active |-> TRUE, revision |-> 1, copy |-> c]]
    BY DEF Finish, PublicationPolicy
  <1>4. TypeOK'
    <2>1. k \in SourceKinds \cup ReportKinds /\ form \in Contents /\ MaxRevision \in Nat \ {0}
      BY DEF ReviewAssumption
    <2>2. Validated(form) \in {"valid", "needs_review", "stale"}
      BY DEF Validated
    <2>3. /\ review' \in [Artifacts -> {"draft", "approved", "rejected"}]
          /\ publication' \in [Artifacts -> {"private", "published", "hidden", "withdrawn"}]
          /\ projection' \in [Artifacts -> [active : BOOLEAN, revision : 0..MaxRevision,
                                            copy : Copies \cup {NoCopy}]]
      <3>1. CASE /\ review' = [review EXCEPT ![a] = "draft"]
                 /\ publication' = [publication EXCEPT ![a] = "private"]
                 /\ projection' = projection
        BY <3>1 DEF ReviewInv, TypeOK
      <3>2. CASE /\ review' = [review EXCEPT ![a] = "approved"]
                 /\ publication' = [publication EXCEPT ![a] = "published"]
                 /\ \E c \in Copies : projection' =
                      [projection EXCEPT ![a] = [active |-> TRUE, revision |-> 1, copy |-> c]]
        <4>1. 1 \in 0..MaxRevision
          BY <2>1
        <4> QED BY <3>2, <4>1 DEF ReviewInv, TypeOK
      <3> QED BY <1>3, <3>1, <3>2
    <2>4. /\ finished' \subseteq Artifacts
          /\ kind' \in [Artifacts -> SourceKinds \cup ReportKinds]
          /\ snapshot' \in [Artifacts -> Snapshot]
          /\ covered' \in [Artifacts -> BOOLEAN]
          /\ content' \in [Artifacts -> Contents]
          /\ revision' \in [Artifacts -> 1..MaxRevision]
          /\ validation' \in [Artifacts -> {"valid", "needs_review", "stale"}]
      BY <1>1, <1>2, <2>1, <2>2 DEF ReviewInv, TypeOK
    <2> QED BY <1>2, <2>3, <2>4 DEF ReviewInv, TypeOK
  <1>5. ASSUME NEW b \in Artifacts, b # a
        PROVE  /\ validation'[b] = validation[b] /\ publication'[b] = publication[b]
               /\ review'[b] = review[b] /\ revision'[b] = revision[b]
               /\ projection'[b] = projection[b] /\ snapshot'[b] = snapshot[b]
               /\ covered'[b] = covered[b]
    BY <1>2, <1>3, <1>5 DEF ReviewInv, TypeOK
  <1>6. Acyclic'
    <2>1. snapshot'[a] = snap
      BY <1>2 DEF ReviewInv, TypeOK
    <2>2. \A b \in finished : InputIds(b)' = InputIds(b) /\ InputIds(b) \subseteq finished
      BY <1>2, <1>5 DEF InputIds, ReviewInv, TypeOK, Acyclic
    <2>3. InputIds(a)' \subseteq finished
      BY <1>1, <2>1 DEF InputIds
    <2>4. ASSUME NEW set \in SUBSET finished', set # {}
          PROVE  \E b \in set : InputIds(b)' \cap set = {}
      <3>1. CASE set \ {a} = {}
        BY <1>2, <2>3, <2>4, <3>1
      <3>2. CASE set \ {a} # {}
        <4>1. PICK b \in set \ {a} : InputIds(b) \cap (set \ {a}) = {}
          BY <1>2, <2>4, <3>2 DEF ReviewInv, Acyclic
        <4> QED BY <1>2, <2>2, <2>4, <4>1
      <3> QED BY <3>1, <3>2
    <2>5. \A b \in finished' : InputIds(b)' \subseteq finished'
      BY <1>2, <2>2, <2>3
    <2> QED BY <2>4, <2>5 DEF Acyclic
  <1>7. NotStaleIsCurrent'
    <2>1. ASSUME NEW x \in finished', validation'[x] # "stale", NEW s, s = snapshot'[x]
          PROVE  /\ Unchanged(s)'
                 /\ covered'[x] => ~LostAudio(s)'
      <3>1. Unchanged(s) /\ (covered'[x] => ~LostAudio(s))
        <4>1. CASE x = a
          BY <1>1, <1>2, <2>1, <4>1 DEF ReviewInv, TypeOK
        <4>2. CASE x # a
          BY <1>2, <1>5, <2>1, <4>2 DEF ReviewInv, NotStaleIsCurrent, TypeOK
        <4> QED BY <4>1, <4>2
      <3>2. \A i \in s.artifacts : i.id \in finished \ {a} /\ i.id \in Artifacts
        BY <1>2, <3>1 DEF Unchanged, ArtifactsUnchanged, Offered, ReviewInv, TypeOK
      <3>3. ArtifactsUnchanged(s)'
        BY <1>2, <1>5, <3>1, <3>2 DEF Unchanged, ArtifactsUnchanged, Offered, InputOf
      <3>4. SourcesUnchanged(s)' /\ PeersUnchanged(s)'
        BY <1>2, <3>1 DEF Unchanged, SourcesUnchanged, PeersUnchanged, TextOf, PeerOf
      <3>5. covered'[x] => ~LostAudio(s)'
        BY <1>2, <3>1 DEF LostAudio
      <3> QED BY <3>3, <3>4, <3>5 DEF Unchanged
    <2> QED BY <2>1 DEF NotStaleIsCurrent
  <1>8. ProjectionAgrees'
    <2>1. ~projection[a].active /\ publication[a] # "published"
      BY <1>2 DEF ReviewInv, ProjectionAgrees
    <2>2. ASSUME NEW b \in Artifacts, b # a
          PROVE  ProjectionAgrees!(b)'
      BY <1>2, <1>5, <2>2 DEF ReviewInv, ProjectionAgrees
    <2>3. ProjectionAgrees!(a)'
      <3>1. CASE review' = [review EXCEPT ![a] = "draft"] /\ projection' = projection
                 /\ publication' = [publication EXCEPT ![a] = "private"]
        BY <2>1, <3>1 DEF ReviewInv, TypeOK
      <3>2. CASE /\ form = "cited"
                 /\ review' = [review EXCEPT ![a] = "approved"]
                 /\ publication' = [publication EXCEPT ![a] = "published"]
                 /\ \E c \in Copies : projection' =
                      [projection EXCEPT ![a] = [active |-> TRUE, revision |-> 1, copy |-> c]]
        BY <1>2, <3>2 DEF ReviewInv, TypeOK, Validated
      <3> QED BY <1>3, <3>1, <3>2
    <2> QED BY <2>2, <2>3 DEF ProjectionAgrees
  <1>9. CoveredIsComplete'
    BY <1>2, <1>5 DEF ReviewInv, CoveredIsComplete, TypeOK
  <1> QED BY <1>4, <1>6, <1>7, <1>8, <1>9 DEF ReviewInv

(* The handlers of the operator touch one artifact and invalidate what was *)
(* made from it.                                                           *)
LEMMA TouchInv ==
  ASSUME ReviewInv, TypeOK', NEW a \in finished, NEW dead,
         dead = Closure(Dependents(a)),
         UNCHANGED <<sourceVars, bornVars>>,
         \A b \in Artifacts \ {a} :
           /\ validation'[b] = StaleValidation(dead, validation)[b]
           /\ publication'[b] = StalePublication(dead, publication)[b]
           /\ projection'[b] = Tombstoned(dead, {})[b]
           /\ review'[b] = review[b]
           /\ revision'[b] = revision[b],
         validation'[a] # "stale" =>
           Unchanged(snapshot[a]) /\ (covered[a] => ~LostAudio(snapshot[a])),
         ProjectionAgrees!(a)'
  PROVE  ReviewInv'
  <1> USE DEF ReviewInv
  <1>1. /\ dead \in SUBSET Artifacts
        /\ Dependents(a) \subseteq dead
        /\ \A b \in dead : Dependents(b) \subseteq dead
    BY ClosureClosed DEF Dependents
  <1>2. a \notin dead /\ InputIds(a) \cap dead = {}
    BY ClosureMisses
  <1>3. UNCHANGED <<texts, speakers, gaps, peers, finished, kind, snapshot, covered>>
    BY DEF sourceVars, bornVars
  <1>4. Acyclic' /\ CoveredIsComplete'
    BY <1>3, OrderKept DEF bornVars
  <1>5. ASSUME NEW b \in Artifacts, b \notin dead, b # a
        PROVE  /\ validation'[b] = validation[b]
               /\ publication'[b] = publication[b]
               /\ projection'[b] = projection[b]
               /\ review'[b] = review[b]
               /\ revision'[b] = revision[b]
    BY <1>5 DEF TypeOK, StaleValidation, StalePublication, Tombstoned
  <1>6. NotStaleIsCurrent'
    <2>1. ASSUME NEW x \in finished, validation'[x] # "stale"
          PROVE  /\ Unchanged(snapshot[x])'
                 /\ covered[x] => ~LostAudio(snapshot[x])'
      <3>1. x \notin dead /\ x \in Artifacts
        BY <1>2, <2>1 DEF StaleValidation, TypeOK
      <3>2. Unchanged(snapshot[x]) /\ (covered[x] => ~LostAudio(snapshot[x]))
        BY <1>5, <2>1, <3>1 DEF NotStaleIsCurrent
      <3>3. \A i \in snapshot[x].artifacts : Offered(i.id)' /\ i = InputOf(i.id)'
        <4>1. \A b \in dead \cup {a} : Dependents(b) \subseteq dead
          BY <1>1
        <4>2. \A b \in finished \ (dead \cup {a}) :
                /\ validation'[b] = validation[b]
                /\ publication'[b] = publication[b]
                /\ review'[b] = review[b]
                /\ revision'[b] = revision[b]
                /\ projection'[b] = projection[b]
          BY <1>5 DEF TypeOK
        <4>3. ArtifactsUnchanged(snapshot[x]) /\ finished \subseteq finished'
          BY <1>3, <3>2 DEF Unchanged
        <4>4. {a} \in SUBSET Artifacts
          BY DEF TypeOK
        <4> QED BY <1>1, <3>1, <4>1, <4>2, <4>3, <4>4, InputsKept
      <3>4. ArtifactsUnchanged(snapshot[x])'
        BY <1>3, <3>3 DEF ArtifactsUnchanged
      <3> QED BY <1>3, <3>2, <3>4 DEF Unchanged, SourcesUnchanged, TextOf, PeersUnchanged,
                                      PeerOf, LostAudio
    <2> QED BY <1>3, <2>1 DEF NotStaleIsCurrent
  <1>7. ProjectionAgrees'
    <2>1. ASSUME NEW b \in Artifacts, b # a PROVE ProjectionAgrees!(b)'
      BY <1>3, <2>1 DEF ProjectionAgrees, TypeOK, StaleValidation, StalePublication, Tombstoned
    <2> QED BY <2>1 DEF ProjectionAgrees
  <1> QED BY <1>4, <1>6, <1>7

(* What the artifact may lose of its currency, its own handler checks.     *)
LEMMA CurrentGives ==
  ASSUME ReviewInv, NEW a \in finished, SnapshotCurrent(snapshot[a])
  PROVE  Unchanged(snapshot[a]) /\ (covered[a] => ~LostAudio(snapshot[a]))
  BY DEF SnapshotCurrent, ReviewInv, CoveredIsComplete

(* An edit of an artifact makes stale what was made from it.               *)
LEMMA EditInv ==
  ASSUME ReviewInv, ReviewAssumption, NEW a \in finished, NEW form \in Forms,
         EditArtifact(a, form)
  PROVE  ReviewInv'
  <1> DEFINE dead == Closure(Dependents(a))
  <1>1. /\ a \in finished
        /\ SnapshotCurrent(snapshot[a])
        /\ revision[a] < MaxRevision
        /\ revision' = [revision EXCEPT ![a] = @ + 1]
        /\ content' = [content EXCEPT ![a] = form]
        /\ validation' = [StaleValidation(dead, validation) EXCEPT ![a] = Validated(form)]
        /\ review' = [review EXCEPT ![a] = "draft"]
        /\ publication' = [StalePublication(dead, publication) EXCEPT ![a] = "private"]
        /\ projection' = Tombstoned(dead, {a})
        /\ UNCHANGED <<sourceVars, mode, bornVars>>
    BY DEF EditArtifact
  <1> HIDE DEF dead
  <1>2. Validated(form) \in {"valid", "needs_review", "stale"} /\ form \in Contents
    BY DEF Validated, ReviewAssumption
  <1>3. TypeOK'
    <2>1. MaxRevision \in Nat \ {0} /\ revision[a] \in 1..MaxRevision
      BY DEF ReviewInv, TypeOK, ReviewAssumption
    <2>2. revision' \in [Artifacts -> 1..MaxRevision] /\ content' \in [Artifacts -> Contents]
            /\ review' \in [Artifacts -> {"draft", "approved", "rejected"}]
      BY <1>1, <1>2, <2>1 DEF ReviewInv, TypeOK
    <2>3. TypeOK
      BY DEF ReviewInv
    <2> QED BY <1>1, <1>2, <2>2, <2>3, ColumnsTyped DEF TypeOK, sourceVars, bornVars
  <1>4. \A b \in Artifacts \ {a} :
           /\ validation'[b] = StaleValidation(dead, validation)[b]
           /\ publication'[b] = StalePublication(dead, publication)[b]
           /\ projection'[b] = Tombstoned(dead, {})[b]
           /\ review'[b] = review[b]
           /\ revision'[b] = revision[b]
    BY <1>1 DEF StaleValidation, StalePublication, Tombstoned, ReviewInv, TypeOK
  <1>5. Unchanged(snapshot[a]) /\ (covered[a] => ~LostAudio(snapshot[a]))
    BY <1>1, CurrentGives
  <1>6. ProjectionAgrees!(a)'
    BY <1>1 DEF StalePublication, Tombstoned, ReviewInv, TypeOK
  <1>7. dead = Closure(Dependents(a)) /\ a \in finished
    BY <1>1 DEF dead
  <1>8. UNCHANGED <<sourceVars, bornVars>>
    BY <1>1
  <1>9. validation'[a] # "stale" =>
          Unchanged(snapshot[a]) /\ (covered[a] => ~LostAudio(snapshot[a]))
    BY <1>5
  <1> QED BY <1>3, <1>4, <1>6, <1>7, <1>8, <1>9, TouchInv

(* A change of visibility keeps the invariant.                             *)
LEMMA VisibilityInv ==
  ASSUME ReviewInv, ReviewAssumption, NEW a \in finished, NEW p \in Visibilities,
         SetVisibility(a, p)
  PROVE  ReviewInv'
  <1> DEFINE dead == Closure(Dependents(a))
  <1>1. /\ a \in finished
        /\ validation' = StaleValidation(dead, validation)
        /\ publication' = [StalePublication(dead, publication) EXCEPT ![a] = p]
        /\ projection' = Tombstoned(dead, {a})
        /\ UNCHANGED <<sourceVars, mode, bornVars, content, revision, review>>
    BY DEF SetVisibility
  <1>2. a \notin dead /\ p \in {"hidden", "withdrawn", "private"}
    BY <1>1, ClosureMisses DEF ReviewInv, ReviewAssumption
  <1> HIDE DEF dead
  <1>3. TypeOK'
    <2>1. TypeOK
      BY DEF ReviewInv
    <2> QED BY <1>1, <1>2, <2>1, ColumnsTyped DEF TypeOK, sourceVars, bornVars
  <1>4. \A b \in Artifacts \ {a} :
           /\ validation'[b] = StaleValidation(dead, validation)[b]
           /\ publication'[b] = StalePublication(dead, publication)[b]
           /\ projection'[b] = Tombstoned(dead, {})[b]
           /\ review'[b] = review[b]
           /\ revision'[b] = revision[b]
    BY <1>1 DEF StaleValidation, StalePublication, Tombstoned, ReviewInv, TypeOK
  <1>5. validation'[a] # "stale" =>
          Unchanged(snapshot[a]) /\ (covered[a] => ~LostAudio(snapshot[a]))
    BY <1>1, <1>2 DEF StaleValidation, ReviewInv, NotStaleIsCurrent, TypeOK
  <1>6. ProjectionAgrees!(a)'
    BY <1>1, <1>2 DEF StalePublication, Tombstoned, ReviewInv, TypeOK
  <1>7. dead = Closure(Dependents(a)) /\ a \in finished
    BY <1>1 DEF dead
  <1>8. UNCHANGED <<sourceVars, bornVars>>
    BY <1>1
  <1>9. validation'[a] # "stale" =>
          Unchanged(snapshot[a]) /\ (covered[a] => ~LostAudio(snapshot[a]))
    BY <1>5
  <1> QED BY <1>3, <1>4, <1>6, <1>7, <1>8, <1>9, TouchInv

(* Publishing keeps it: an artifact is published from current inputs only. *)
LEMMA PublishInv ==
  ASSUME ReviewInv, ReviewAssumption, NEW a \in finished, NEW c \in Copies, NEW rev,
         Publish(a, c, rev), review' = [review EXCEPT ![a] = rev]
  PROVE  ReviewInv'
  <1> DEFINE dead == Closure(Dependents(a))
  <1>1. /\ validation[a] = "valid" /\ rev = "approved"
        /\ SnapshotCurrent(snapshot[a])
        /\ validation' = StaleValidation(dead, validation)
        /\ publication' = [StalePublication(dead, publication) EXCEPT ![a] = "published"]
        /\ projection' = [Tombstoned(dead, {})
              EXCEPT ![a] = [active |-> TRUE, revision |-> revision[a], copy |-> c]]
        /\ UNCHANGED <<sourceVars, mode, bornVars, content, revision>>
    BY DEF Publish, PublicationPolicy
  <1>2. a \notin dead
    BY ClosureMisses DEF ReviewInv
  <1> HIDE DEF dead
  <1>3. TypeOK'
    <2>1. TypeOK
      BY DEF ReviewInv
    <2>2. [active |-> TRUE, revision |-> revision[a], copy |-> c]
            \in [active : BOOLEAN, revision : 0..MaxRevision, copy : Copies \cup {NoCopy}]
      <3>1. revision[a] \in 0..MaxRevision
        BY <2>1 DEF TypeOK, ReviewAssumption
      <3> QED BY <3>1
    <2>3. projection' \in [Artifacts -> [active : BOOLEAN, revision : 0..MaxRevision,
                                         copy : Copies \cup {NoCopy}]]
      BY <1>1, <2>1, <2>2, ColumnsTyped
    <2>4. review' \in [Artifacts -> {"draft", "approved", "rejected"}]
      BY <1>1, <2>1 DEF TypeOK
    <2> QED BY <1>1, <2>1, <2>3, <2>4, ColumnsTyped DEF TypeOK, sourceVars, bornVars
  <1>4. \A b \in Artifacts \ {a} :
           /\ validation'[b] = StaleValidation(dead, validation)[b]
           /\ publication'[b] = StalePublication(dead, publication)[b]
           /\ projection'[b] = Tombstoned(dead, {})[b]
           /\ review'[b] = review[b]
           /\ revision'[b] = revision[b]
    BY <1>1 DEF StaleValidation, StalePublication, Tombstoned, ReviewInv, TypeOK
  <1>5. Unchanged(snapshot[a]) /\ (covered[a] => ~LostAudio(snapshot[a]))
    BY <1>1, CurrentGives
  <1>6. ProjectionAgrees!(a)'
    BY <1>1, <1>2 DEF StaleValidation, StalePublication, Tombstoned, ReviewInv, TypeOK, bornVars
  <1> QED BY <1>1, <1>3, <1>4, <1>5, <1>6, TouchInv DEF dead

(* A review keeps it, with what it withdraws.                              *)
LEMMA ReviewArtifactInv ==
  ASSUME ReviewInv, ReviewAssumption, NEW a \in finished, NEW verdict \in Verdicts,
         ReviewArtifact(a, verdict)
  PROVE  ReviewInv'
  <1>0. verdict \in {"draft", "approved", "rejected"} /\ TypeOK /\ a \in Artifacts
    BY DEF ReviewAssumption, ReviewInv, TypeOK
  <1>1. CASE verdict # "approved" /\ publication[a] = "published"
    <2> DEFINE dead == Closure(Dependents(a))
    <2>1. /\ a \in finished
          /\ SnapshotCurrent(snapshot[a])
          /\ review' = [review EXCEPT ![a] = verdict]
          /\ validation' = StaleValidation(dead, validation)
          /\ publication' = [StalePublication(dead, publication) EXCEPT ![a] = "withdrawn"]
          /\ projection' = Tombstoned(dead, {a})
          /\ UNCHANGED <<sourceVars, mode, bornVars, content, revision>>
      BY <1>1 DEF ReviewArtifact, StalePublication
    <2> HIDE DEF dead
    <2>2. TypeOK'
      <3>1. review' \in [Artifacts -> {"draft", "approved", "rejected"}]
        BY <1>0, <2>1 DEF TypeOK
      <3> QED BY <1>0, <2>1, <3>1, ColumnsTyped DEF TypeOK, sourceVars, bornVars
    <2>3. \A b \in Artifacts \ {a} :
             /\ validation'[b] = StaleValidation(dead, validation)[b]
             /\ publication'[b] = StalePublication(dead, publication)[b]
             /\ projection'[b] = Tombstoned(dead, {})[b]
             /\ review'[b] = review[b]
             /\ revision'[b] = revision[b]
      BY <1>0, <2>1 DEF StaleValidation, StalePublication, Tombstoned, TypeOK
    <2>4. Unchanged(snapshot[a]) /\ (covered[a] => ~LostAudio(snapshot[a]))
      BY <2>1, CurrentGives
    <2>5. ProjectionAgrees!(a)'
      BY <1>0, <2>1 DEF StalePublication, Tombstoned, TypeOK
    <2>6. dead = Closure(Dependents(a)) /\ a \in finished
      BY <2>1 DEF dead
    <2>7. UNCHANGED <<sourceVars, bornVars>>
      BY <2>1
    <2>8. validation'[a] # "stale" =>
            Unchanged(snapshot[a]) /\ (covered[a] => ~LostAudio(snapshot[a]))
      BY <2>4
    <2> QED BY <2>2, <2>3, <2>5, <2>6, <2>7, <2>8, TouchInv
  <1>2. CASE ~(verdict # "approved" /\ publication[a] = "published")
    <2>1. /\ a \in finished
          /\ verdict = "approved" => validation[a] = "valid"
          /\ review' = [review EXCEPT ![a] = verdict]
          /\ UNCHANGED <<texts, speakers, gaps, peers, mode, finished, kind, snapshot, covered,
                         content, revision>>
      BY <1>2 DEF ReviewArtifact, sourceVars, bornVars
    <2>2. /\ validation' = StaleValidation({}, validation)
          /\ publication' = [StalePublication({}, publication) EXCEPT ![a] = @]
          /\ projection' = Tombstoned({}, {})
      BY <1>2 DEF ReviewArtifact, StaleValidation, StalePublication, Tombstoned
    <2>3. UNCHANGED <<validation, publication, projection>>
      BY <1>0, <2>2 DEF TypeOK, StaleValidation, StalePublication, Tombstoned
    <2>4. TypeOK' /\ Acyclic' /\ CoveredIsComplete'
      BY <1>0, <2>1, <2>3, OrderKept DEF ReviewInv, TypeOK, bornVars
    <2>5. \A b \in Artifacts : Offered(b) => Offered(b)' /\ InputOf(b)' = InputOf(b)
      BY <1>0, <1>2, <2>1, <2>3 DEF Offered, InputOf, TypeOK
    <2>6. ASSUME NEW x \in finished, validation[x] # "stale"
          PROVE  /\ Unchanged(snapshot[x])'
                 /\ covered[x] => ~LostAudio(snapshot[x])'
      <3>1. Unchanged(snapshot[x]) /\ (covered[x] => ~LostAudio(snapshot[x]))
        BY <2>6 DEF ReviewInv, NotStaleIsCurrent
      <3>2. \A i \in snapshot[x].artifacts : i.id \in Artifacts
        BY <1>0, <3>1 DEF TypeOK, Unchanged, ArtifactsUnchanged, Offered
      <3>3. ArtifactsUnchanged(snapshot[x])'
        BY <2>1, <2>5, <3>1, <3>2 DEF Unchanged, ArtifactsUnchanged
      <3> QED BY <2>1, <3>1, <3>3 DEF Unchanged, SourcesUnchanged, TextOf, PeersUnchanged,
                                      PeerOf, LostAudio
    <2>7. NotStaleIsCurrent'
      BY <2>1, <2>3, <2>6 DEF NotStaleIsCurrent
    <2>8. ProjectionAgrees'
      BY <1>0, <1>2, <2>1, <2>3 DEF ReviewInv, ProjectionAgrees, TypeOK
    <2> QED BY <2>4, <2>7, <2>8 DEF ReviewInv
  <1> QED BY <1>1, <1>2

(* Every step keeps the invariant.                                         *)
LEMMA NextInv == ReviewInv /\ ReviewAssumption /\ [Next]_vars => ReviewInv'
  <1> SUFFICES ASSUME ReviewInv, ReviewAssumption, [Next]_vars PROVE ReviewInv'
    OBVIOUS
  <1>0. MaxInput \in Nat
    BY DEF ReviewAssumption
  <1>1. ASSUME NEW s \in Segments, ChangeText(s) \/ AssignSpeaker(s) PROVE ReviewInv'
    BY <1>0, <1>1, ChangeTextInv, AssignSpeakerInv
  <1>2. ASSUME NEW g \in GapPlaces, RegisterGap(g) PROVE ReviewInv'
    BY <1>2, RegisterGapInv
  <1>3. ASSUME NEW p \in Peers, MirrorChanges(p) \/ MirrorReturns(p) PROVE ReviewInv'
    BY <1>0, <1>3, MirrorChangesInv, MirrorReturnsInv
  <1>4. CASE SetInsightSettings
    BY <1>4, SettingsInv
  <1>5. ASSUME NEW a \in Artifacts, NEW k \in Kinds, NEW form \in Forms, NEW cov \in BOOLEAN,
               NEW snap \in SnapshotsNow(k), Finish(a, k, snap, form, cov)
        PROVE  ReviewInv'
    BY <1>5, FinishInv
  <1>6. ASSUME NEW a \in Artifacts, NEW form \in Forms, EditArtifact(a, form)
        PROVE  ReviewInv'
    <2>1. a \in finished
      BY <1>6 DEF EditArtifact
    <2> QED BY <1>6, <2>1, EditInv
  <1>7. ASSUME NEW a \in Artifacts, NEW v \in Verdicts, ReviewArtifact(a, v)
        PROVE  ReviewInv'
    <2>1. a \in finished
      BY <1>7 DEF ReviewArtifact
    <2> QED BY <1>7, <2>1, ReviewArtifactInv
  <1>8. ASSUME NEW a \in Artifacts, NEW c \in Copies,
               PublishArtifact(a, c) \/ ApproveAndPublish(a, c)
        PROVE  ReviewInv'
    <2>1. CASE PublishArtifact(a, c)
      <3>1. a \in finished /\ Publish(a, c, review[a]) /\ review' = [review EXCEPT ![a] = review[a]]
        BY <2>1 DEF PublishArtifact, ReviewInv, TypeOK
      <3> QED BY <3>1, PublishInv
    <2>2. CASE ApproveAndPublish(a, c)
      BY <2>2, PublishInv DEF ApproveAndPublish
    <2> QED BY <1>8, <2>1, <2>2
  <1>9. ASSUME NEW a \in Artifacts, NEW p \in Visibilities, SetVisibility(a, p)
        PROVE  ReviewInv'
    <2>1. a \in finished
      BY <1>9 DEF SetVisibility
    <2> QED BY <1>9, <2>1, VisibilityInv
  <1>10. CASE UNCHANGED vars
    <2>1. UNCHANGED <<texts, speakers, gaps, peers, mode, finished, kind, snapshot, covered,
                      content, revision, validation, review, publication, projection>>
      BY <1>10 DEF vars, sourceVars, bornVars, stateVars
    <2>2. TypeOK' /\ Acyclic' /\ CoveredIsComplete'
      BY <2>1, OrderKept DEF ReviewInv, TypeOK, bornVars
    <2>3. NotStaleIsCurrent' /\ ProjectionAgrees'
      BY <2>1 DEF ReviewInv, NotStaleIsCurrent, ProjectionAgrees, Unchanged, SourcesUnchanged,
                  TextOf, ArtifactsUnchanged, Offered, InputOf, PeersUnchanged, PeerOf, LostAudio
    <2> QED BY <2>2, <2>3 DEF ReviewInv
  <1>11. CASE Next
    BY <1>11, <1>1, <1>2, <1>3, <1>4, <1>5, <1>6, <1>7, <1>8, <1>9 DEF Next
  <1> QED BY <1>10, <1>11

(* The inductive invariant holds for any instance the assumptions allow.   *)
THEOREM ReviewInvariant == Spec => []ReviewInv
  <1>1. Init => ReviewInv
    BY InitInv, ReviewAssumption
  <1>2. ReviewInv /\ [Next]_vars => ReviewInv'
    BY NextInv, ReviewAssumption
  <1> QED BY <1>1, <1>2, PTL DEF Spec

(* Type correctness of the artifact tables.                                *)
THEOREM ReviewTypeOK == Spec => []TypeOK
  <1>1. ReviewInv => TypeOK
    BY DEF ReviewInv
  <1> QED BY <1>1, ReviewInvariant, PTL

(* Everything public is the approved copy of a valid artifact none of      *)
(* whose inputs has changed, along chains of artifacts of any length.      *)
THEOREM PublicTheorem == Spec => []PublicIsCurrent
  BY InvGivesCurrent, ReviewInvariant, PTL
=============================================================================
