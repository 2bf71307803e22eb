-------------------------- MODULE CaptureInvariant --------------------------
(***************************************************************************)
(* The inductive invariant of CaptureJournal, what leaves each of its      *)
(* parts alone, and that the steps which hear, flush, register, fail and   *)
(* crash keep it. CaptureProofs has the others and the theorems.           *)
(***************************************************************************)
EXTENDS CaptureJournal, SequenceTheorems, FiniteSetTheorems, TLAPS

----------------------------------------------------------------------------
(* Types.                                                                  *)

(* closed, as a proposition                                                *)
Closed(t) == journal[t].closed = TRUE

(* The steps of a list                                                     *)
In(list) == {list[i] : i \in DOMAIN list}
Steps == In(todo)

Both == {Mic, System}
Segment == [track : Both, start : Nat, end : Nat, by : Nat]
Gap == [track : Both, start : Nat, end : Nat]
Row == [track : Both, final : Nat, segments : SUBSET Segment]
Active == [start : Nat, by : Nat]
Epochs == UNION {[S -> Nat \ {0}] : S \in SUBSET Segment}

SegmentEvent == [kind : {"segment"}, about : Segment, run : Nat]
GapEvent == [kind : {"gap"}, about : Gap, run : Nat]
BoundaryEvent ==
  [kind : {"boundary"}, about : [track : {Mic}, start : Nat, epoch : Nat \ {0}], run : Nat]
SealEvent == [kind : {"seal"}, about : [tracks : SUBSET Row], run : Nat]
AnyEvent == SegmentEvent \cup GapEvent \cup BoundaryEvent \cup SealEvent

Journal ==
  [created : BOOLEAN, final : Nat, classified : Nat, active : Active \cup {None},
   pcm : SUBSET Nat, voiced : SUBSET Nat, segments : Epochs, saved : SUBSET SegmentEvent,
   dispatched : SUBSET Segment, gaps : SUBSET Gap, boundaries : SUBSET BoundaryEvent,
   acknowledged : SUBSET BoundaryEvent, closed : BOOLEAN, seal : SUBSET SealEvent]

CloseKinds == {"ready", "close", "append", "save", "flush", "enqueue", "closing"}
ReplayKinds == {"replayDirections", "replaying", "resend", "inForce", "recoverTail", "register",
                "registering", "missing", "dispatch", "await", "asking"}

PlainStep ==
  {x \in [do : {"create", "barrier", "hear", "tail", "last", "pump", "direction",
                "changeDirection", "finish", "skip", "push", "checkpoint", "ready", "flushAll",
                "seal", "publish", "replayDirections", "recoverTail", "register", "missing",
                "acknowledge"},
          track : Both] :
     x.do = "publish" => x.track = Mic}
CountStep == [do : {"advance", "noteGap", "record", "gapTo"}, track : Both, with : Nat]
SegmentStep == [do : {"close", "enqueue", "dispatch", "await"}, track : Both, with : Segment]
EventStep == [do : {"append", "flush", "resend"}, track : Both, with : AnyEvent]
SaveStep == [do : {"save"}, track : Both, with : SegmentEvent \cup SealEvent]
BoundaryStep == [do : {"boundary", "inForce"}, track : {Mic}, with : BoundaryEvent]
LoopStep ==
  {x \in [do : {"closing", "registering", "asking"}, track : Both, with : SUBSET Segment] :
     \A s \in x.with : s.track = x.track}
ReplayStep == [do : {"replaying"}, track : Both, with : SUBSET BoundaryEvent]
AnyStep == PlainStep \cup CountStep \cup SegmentStep \cup EventStep \cup SaveStep
             \cup BoundaryStep \cup LoopStep \cup ReplayStep

Types ==
  /\ sources \in {{Mic}, Both} /\ recording \in BOOLEAN
  /\ journal \in [Tracks -> Journal] /\ outbox \in [Tracks -> SUBSET AnyEvent]
  /\ ledger \subseteq AnyEvent
  /\ phase \in Phases /\ todo \in Seq(AnyStep)
  /\ vad \in [Tracks -> [cursor : Nat, active : Active \cup {None}]]
  /\ epoch \in Nat \ {0} /\ run \in Nat
  /\ queue \in Seq(Segment)
  /\ \A x \in Steps : x.track \in Tracks

----------------------------------------------------------------------------
(* The program: which steps may be left, and in which order.               *)

Has(do, t) == \E x \in Steps : x.do = do /\ x.track = t

Over == phase \in {"failed", "down", "done"}
Live == phase \in {"opening", "live", "abandoned", "closing", "draining"}

(* What may be left to do in a phase.                                      *)
Fits(p, k) ==
  \/ p = "opening" /\ k \in {"create", "barrier"}
  \/ /\ p = "live"
     /\ k \in CloseKinds \cup {"hear", "pump", "direction", "changeDirection", "finish", "advance",
                "noteGap", "skip", "record", "push", "checkpoint", "boundary", "inForce"}
  \/ /\ p = "closing"
     /\ k \in CloseKinds \cup {"hear", "tail", "last", "gapTo", "finish", "advance", "noteGap",
                "skip", "record", "push", "checkpoint", "flushAll", "seal", "publish", "resend"}
  \/ /\ p = "abandoned"
     /\ k \in {"flushAll", "seal", "publish", "resend", "append", "save", "flush"}
  \/ p = "draining" /\ k = "pump"
  \/ /\ p = "recovering"
     /\ k \in CloseKinds \cup ReplayKinds
              \cup {"flushAll", "checkpoint", "seal", "publish", "acknowledge"}

BoundaryAbout(x) == x.do \in {"append", "flush", "resend"} /\ x.with.kind = "boundary"
GapAbout(x) == x.do = "append" /\ x.with.kind = "gap"

(* a may come before b.                                                    *)
May(a, b) ==
  /\ a.track = b.track =>
       /\ b.do = "close" => a.do = "ready"
       /\ b.do = "closing" => a.do \in CloseKinds \ {"closing"}
       /\ b.do = "advance" => a.do \in CloseKinds \cup {"finish"}
       /\ b.do = "noteGap" => a.do \in CloseKinds \cup {"finish", "advance"}
       /\ b.do = "skip" => a.do \in {"append", "flush"}
       /\ b.do = "record" => a.do \in CloseKinds \cup {"finish", "advance", "noteGap", "skip"}
       /\ b.do = "push" =>
            a.do \in CloseKinds \cup {"finish", "advance", "noteGap", "skip", "record"}
       /\ b.do = "changeDirection" => a.do \in CloseKinds \cup {"finish", "checkpoint"}
       /\ b.do = "boundary" => a.do = "append"
       /\ b.do = "inForce" => a.do \in {"append", "boundary", "flush", "resend"}
       /\ b.do = "recoverTail" =>
            a.do \in {"flushAll", "replayDirections", "replaying", "resend", "inForce"}
       /\ b.do = "replayDirections" => a.do = "flushAll"
       /\ b.do = "replaying" => a.do \in {"resend", "inForce"}
       /\ b.do = "seal" => a.do \notin {"hear", "tail", "record", "push"}
       /\ b.do = "flushAll" => a.do # "seal"
       /\ b.do \in {"hear", "tail", "gapTo"} => FALSE
       /\ GapAbout(b) => FALSE
       /\ BoundaryAbout(b) => b.do = "flush" /\ a.do \in {"append", "boundary"}
  /\ a.do \notin {"barrier", "direction", "changeDirection", "last", "acknowledge"}
  /\ a.do = "seal" => b.do \in {"flushAll", "seal", "publish", "acknowledge"}
  /\ a.do = "publish" => b.do = "acknowledge"

Ordered(list) == \A i, k \in DOMAIN list : i < k => May(list[i], list[k])

(* Each seal of a journal follows the flush of its outbox.                 *)
Adjacent(list) ==
  \A i \in DOMAIN list : i > 1 /\ list[i].do = "seal" =>
    list[i - 1].do = "flushAll" /\ list[i - 1].track = list[i].track

(* An outbox is empty when its journal is sealed.                          *)
FlushedFirst ==
  /\ Adjacent(todo)
  /\ Doing("seal") => outbox[Head(todo).track] = {}

Shape ==
  /\ \A x \in Steps : Fits(phase, x.do)
  /\ \A t \in Tracks :
       /\ Has("record", t) => Has("push", t)
       /\ Has("advance", t) => Has("noteGap", t)
  /\ \A x, y \in Steps : x.do = "advance" /\ y.do = "noteGap" /\ x.track = y.track =>
       x.with = y.with
  /\ \A x \in Steps :
       /\ x.do \in {"advance", "noteGap"} => x.with > 0
       /\ x.do = "gapTo" => x.with >= journal[x.track].final
  /\ Dual => \A x \in Steps : x.do \notin {"direction", "changeDirection", "boundary"}

(* A capture that did not begin has heard nothing.                         *)
Fresh ==
  phase \in {"opening", "abandoned"} => \A t \in Tracks :
    journal[t].final = 0 /\ journal[t].gaps = {} /\ vad[t] = NewVad

Program == Ordered(todo) /\ FlushedFirst /\ Shape /\ Fresh

----------------------------------------------------------------------------
(* Where a track is.                                                       *)

(* What is behind this place has been cut into segments.                   *)
From(t) == IF vad[t].active = None THEN vad[t].cursor ELSE vad[t].active.start
Low(t) == IF journal[t].active = None THEN journal[t].classified ELSE journal[t].active.start

Clock(t) ==
  /\ \A u \in journal[t].voiced \cup journal[t].pcm : u < journal[t].final
  /\ vad[t].active # None =>
       /\ vad[t].active.start < vad[t].cursor
       /\ Has("advance", t) \/ Has("noteGap", t) \/ Has("skip", t) \/ Has("changeDirection", t) =>
            Head(todo).do = "finish" /\ Head(todo).track = t
       /\ Has("seal", t) => Has("finish", t)
  /\ Live =>
       /\ vad[t].cursor <= journal[t].final
       /\ ~Has("noteGap", t) /\ ~Has("skip", t) /\ ~Has("push", t) =>
            vad[t].cursor = journal[t].final
       /\ Has("advance", t) => vad[t].cursor = journal[t].final
       /\ Has("record", t) /\ ~Has("noteGap", t) /\ ~Has("skip", t) =>
            vad[t].cursor = journal[t].final
       /\ ~Has("advance", t) => \A x \in Steps : x.do = "noteGap" /\ x.track = t =>
            journal[t].final = vad[t].cursor + x.with
       /\ \A u \in journal[t].voiced \cup journal[t].pcm : u >= vad[t].cursor =>
            /\ Has("push", t) /\ ~Has("record", t)
            /\ ~Has("advance", t) /\ ~Has("noteGap", t) /\ ~Has("skip", t)
  /\ phase = "recovering" =>
       /\ vad[t].active = None
       /\ Has("checkpoint", t) => vad[t].cursor = journal[t].final

----------------------------------------------------------------------------
(* Segments.                                                               *)

Cut(t) == DOMAIN journal[t].segments

(* The segments that will be closed.                                       *)
Pending(t) ==
  {x.with : x \in {y \in Steps : y.do = "close" /\ y.track = t}}
    \cup UNION {x.with : x \in {y \in Steps : y.do = "closing" /\ y.track = t}}

Apart(p, q) == p.end <= q.start \/ q.end <= p.start
Holds(p, u) == p.start <= u /\ u < p.end

(* A recovery looks at nothing behind this.                                *)
Behind(t, u) == u < Low(t) \/ \E r \in Cut(t) : u < r.end

Pieces(t) ==
  /\ \A p \in Pending(t) :
       /\ p.track = t /\ p.start < p.end /\ p.end <= journal[t].final
       /\ Live => p.end <= From(t)
       /\ \A r \in Cut(t) : r.end <= p.start
       /\ \A g \in journal[t].gaps : Apart(g, p)
       /\ \A b \in journal[t].boundaries : b.about.start <= p.start
  /\ \A x \in Steps : x.do = "closing" /\ x.track = t =>
       /\ \A p, q \in x.with : p # q => Apart(p, q)
       /\ \A y \in Steps : y.do = "close" /\ y.track = t =>
            \A q \in x.with : y.with.end <= q.start

Disk(t) ==
  /\ journal[t].classified <= journal[t].final /\ Low(t) <= journal[t].final
  /\ \A r \in Cut(t) : r.track = t /\ r.start < r.end /\ r.end <= journal[t].final
  /\ \A r, s \in Cut(t) : r # s => Apart(r, s)
  /\ \A g \in journal[t].gaps :
       /\ g.track = t /\ g.start < g.end /\ g.end <= journal[t].final
       /\ \A u \in journal[t].pcm : ~Holds(g, u)
       /\ \A r \in Cut(t) : Apart(g, r)
  /\ \A u \in journal[t].voiced : Behind(t, u) => \E r \in Cut(t) : Holds(r, u)
  /\ Live =>
       /\ Low(t) <= From(t)
       /\ \A r \in Cut(t) : r.end <= From(t)
       /\ \A g \in journal[t].gaps : g.end <= From(t) \/ Has("skip", t)
       /\ \A b \in journal[t].boundaries : b.about.start <= From(t)
  /\ \A b \in journal[t].boundaries : b.about.start <= Low(t)
  /\ Closed(t) => Low(t) = journal[t].final

(* Every voiced unit is in a segment, or will be.                          *)
Cover(t) ==
  ~Over /\ ~Closed(t) => \A u \in journal[t].voiced :
    \/ \E r \in Cut(t) : Holds(r, u)
    \/ \E p \in Pending(t) : Holds(p, u)
    \/ vad[t].active # None /\ vad[t].active.start <= u
    \/ (Has("push", t) \/ Has("recoverTail", t)) /\ vad[t].cursor <= u

----------------------------------------------------------------------------
(* Gaps and seals.                                                         *)

(* A gap that was noted is announced, or will be, or stands before a       *)
(* recovery for ever.                                                      *)
Announced(t) ==
  \A g \in journal[t].gaps :
    \/ \E e \in ledger : e.kind = "gap" /\ e.about = g
    \/ ~Closed(t) /\ \E e \in outbox[t] : e.kind = "gap" /\ e.about = g
    \/ /\ ~Closed(t) /\ ~Behind(t, g.start)
       /\ \/ phase \in {"failed", "down"}
          \/ phase = "recovering" /\ Has("recoverTail", t)
          \/ \E x \in Steps : GapAbout(x) /\ x.track = t /\ x.with.about = g

(* Seals wherever they are.                                                *)
SentSeals == {e \in ledger : e.kind = "seal"}
KeptSeals == UNION {{e \in outbox[t] : e.kind = "seal"} \cup journal[t].seal : t \in Tracks}
SealSending ==
  {x \in Steps : x.do \in {"append", "save", "flush", "resend"} /\ x.with.kind = "seal"}
Seals == SentSeals \cup KeptSeals \cup {x.with : x \in SealSending}

Sealing ==
  /\ Has("publish", Mic) => \A t \in Tracks : Closed(t) \/ Has("seal", t)
  /\ \A e \in Seals : e.about.tracks = Manifest /\ \A t \in Tracks : Closed(t)
  /\ Sealed => \A t \in Tracks : Cut(t) = {s \in Registered : s.track = t}
  /\ \A t \in Tracks : Closed(t) =>
       /\ phase \notin {"opening", "live"}
       /\ \A x \in Steps :
            /\ x.do \notin {"last", "direction", "changeDirection"}
            /\ x.track = t => x.do \notin {"close", "closing", "record", "advance", "noteGap",
                                "push", "hear", "tail", "gapTo", "finish", "checkpoint", "skip"}

----------------------------------------------------------------------------
(* Directions.                                                             *)

Noted == journal[Mic].boundaries
Sent == {e \in ledger \cup outbox[Mic] : e.kind = "boundary"}
InLedger == {e \in ledger : e.kind = "boundary"}

Direction1 ==
  /\ \A t \in Tracks : t # Mic =>
       /\ journal[t].boundaries = {}
       /\ \A e \in outbox[t] : e.kind # "boundary"
       /\ \A x \in Steps : BoundaryAbout(x) => x.track = Mic
  /\ Dual => Noted = {} /\ Sent = {}
  /\ \A x \in Steps : BoundaryAbout(x) /\ x.do = "append" =>
       \E y \in Steps : y.do = "boundary" /\ y.with = x.with
  /\ \A x \in Steps : x.do = "boundary" \/ BoundaryAbout(x) =>
       \E y \in Steps : y.do = "inForce" /\ y.with = x.with
  /\ \A x \in Steps : x.do = "inForce" =>
       /\ x.with \in Noted \/ \E y \in Steps : y.do = "boundary" /\ y.with = x.with
       /\ \/ x.with \in ledger
          \/ \E y \in Steps : y.do \in {"flush", "resend"} /\ y.with = x.with /\ y.track = Mic
       /\ epoch <= x.with.about.epoch
       /\ \A y \in Steps : y.do = "replaying" =>
            \A c \in y.with : x.with.about.epoch <= c.about.epoch
  /\ \A x \in Steps : x.do = "boundary" =>
       /\ phase = "live"
       /\ x.with.about.start = journal[Mic].final /\ vad[Mic].cursor = journal[Mic].final
       /\ journal[Mic].classified = journal[Mic].final
       /\ vad[Mic].active = None /\ journal[Mic].active = None
  /\ Has("changeDirection", Mic) /\ ~Has("checkpoint", Mic) =>
       journal[Mic].active = None /\ journal[Mic].classified = vad[Mic].cursor
  /\ \A x \in Steps : x.do = "replaying" =>
       x.with \subseteq Noted /\ \A c \in x.with : epoch <= c.about.epoch
  /\ \A x \in Steps : x.do = "resend" /\ BoundaryAbout(x) => x.with \in Noted
  /\ Has("replayDirections", Mic) => epoch = 1

Direction2 ==
  /\ \A b \in Sent : b \in Noted
       \/ /\ b.about.start = journal[Mic].final
          /\ Over \/ phase = "recovering" \/ \E x \in Steps : x.do = "boundary" /\ x.with = b
  /\ epoch = 1 \/ \E b \in Noted \cap ledger : b.about.epoch = epoch
  /\ ~Over => \A b \in Noted :
       \/ b.about.epoch <= epoch \/ Has("replayDirections", Mic)
       \/ \E x \in Steps : x.do = "inForce" /\ x.with = b
       \/ \E x \in Steps : x.do = "replaying" /\ b \in x.with
  /\ \A t \in Tracks : \A s \in Cut(t) :
       /\ \/ journal[t].segments[s] = 1
          \/ \E b \in InLedger : /\ b.about.epoch = journal[t].segments[s]
                                 /\ b.about.start <= s.start
       /\ \A b \in Sent \cup Noted :
            b.about.start <= s.start => b.about.epoch <= journal[t].segments[s]

CaptureInv ==
  /\ Types /\ Program
  /\ \A t \in Tracks : Clock(t) /\ Pieces(t) /\ Disk(t) /\ Cover(t) /\ Announced(t)
  /\ Sealing /\ Direction1 /\ Direction2

----------------------------------------------------------------------------
(* Numbers.                                                                *)

(* A set of natural numbers has a least one.                               *)
LEMMA LeastNatural ==
  ASSUME NEW T, T \subseteq Nat, T # {}
  PROVE  \E n \in T : \A m \in T : n <= m
<1> DEFINE R == OpToRel(<, Nat)
<1>1. IsWellFoundedOn(R, Nat)
  BY NatLessThanWellFounded
<1>2. R = {ss \in Nat \X Nat : ss[1] < ss[2]}
  BY DEF OpToRel
<1> HIDE DEF R
<1>3. PICK n \in T : \A m \in T : ~(<<m, n>> \in R)
  BY <1>1, WFMin
<1>4. ASSUME NEW m \in T, m < n PROVE FALSE
  <2>1. m \in Nat /\ n \in Nat
    OBVIOUS
  <2>2. <<m, n>> \in R
    BY <1>2, <1>4, <2>1
  <2> QED
    BY <1>3, <2>2
<1> QED
  BY <1>4

(* A bounded one has a greatest, and Max is it.                            *)
LEMMA GreatestNatural ==
  ASSUME NEW T, T \subseteq Nat, T # {}, NEW b \in Nat, \A n \in T : n <= b
  PROVE  Max(T) \in T /\ \A m \in T : m <= Max(T)
<1> DEFINE below == {b - n : n \in T}
<1>1. \A n \in T : b - n \in Nat /\ b - n \in below
  OBVIOUS
<1>2. PICK d \in below : \A e \in below : d <= e
  <2>1. below \subseteq Nat /\ below # {}
    BY <1>1
  <2> QED
    BY <2>1, LeastNatural
<1>3. PICK n \in T : d = b - n
  BY <1>2
<1>4. ASSUME NEW m \in T PROVE n >= m
  <2>1. b - n <= b - m
    BY <1>1, <1>2, <1>3
  <2> QED
    BY <2>1
<1>5. \E x \in T : \A y \in T : x >= y
  BY <1>4
<1>6. Max(T) \in T /\ \A y \in T : Max(T) >= y
  BY <1>5 DEF Max
<1> QED
  BY <1>6

----------------------------------------------------------------------------
(* Lists of steps.                                                         *)

(* What a list that begins with other steps has, in which order.           *)
LEMMA JoinedLists ==
  ASSUME NEW a \in Seq(AnyStep), NEW b \in Seq(AnyStep)
  PROVE  /\ a \o b \in Seq(AnyStep)
         /\ In(a \o b) = In(a) \cup In(b)
         /\ Ordered(a) /\ Ordered(b) /\ (\A x \in In(a), y \in In(b) : May(x, y))
              => Ordered(a \o b)
         /\ Adjacent(a) /\ Adjacent(b) /\ (b # <<>> => b[1].do # "seal") => Adjacent(a \o b)
<1>1. a \o b \in Seq(AnyStep) /\ Len(a \o b) = Len(a) + Len(b)
  OBVIOUS
<1>2. DOMAIN a = 1..Len(a) /\ DOMAIN b = 1..Len(b) /\ DOMAIN (a \o b) = 1..(Len(a) + Len(b))
      /\ Len(a) \in Nat /\ Len(b) \in Nat
  BY <1>1
<1>3. /\ \A i \in 1..Len(a) : (a \o b)[i] = a[i]
      /\ \A i \in (Len(a) + 1)..(Len(a) + Len(b)) : (a \o b)[i] = b[i - Len(a)]
  OBVIOUS
<1>4. In(a \o b) = In(a) \cup In(b)
  <2>1. \A i \in 1..Len(b) : (a \o b)[i + Len(a)] = b[i] /\ i + Len(a) \in DOMAIN (a \o b)
    BY <1>2, <1>3
  <2>2. \A i \in DOMAIN (a \o b) : i \in 1..Len(a) \/ i - Len(a) \in 1..Len(b)
    BY <1>2
  <2>3. ASSUME NEW i \in DOMAIN (a \o b) PROVE (a \o b)[i] \in In(a) \cup In(b)
    <3>1. CASE i \in 1..Len(a)
      BY <1>2, <1>3, <3>1 DEF In
    <3>2. CASE i - Len(a) \in 1..Len(b)
      <4>1. i \in (Len(a) + 1)..(Len(a) + Len(b))
        BY <1>2, <3>2
      <4> QED BY <1>2, <1>3, <3>2, <4>1 DEF In
    <3> QED BY <2>2, <3>1, <3>2
  <2>4. ASSUME NEW i \in DOMAIN a PROVE a[i] \in In(a \o b)
    <3>1. i \in 1..Len(a) /\ i \in DOMAIN (a \o b)
      BY <1>2
    <3> QED BY <1>3, <3>1 DEF In
  <2>5. ASSUME NEW i \in DOMAIN b PROVE b[i] \in In(a \o b)
    <3>1. i \in 1..Len(b)
      BY <1>2
    <3> QED BY <2>1, <3>1 DEF In
  <2>6. In(a \o b) \subseteq In(a) \cup In(b)
    BY <2>3 DEF In
  <2>7. In(a) \subseteq In(a \o b)
    BY <2>4 DEF In
  <2>8. In(b) \subseteq In(a \o b)
    BY <2>5 DEF In
  <2> QED BY <2>6, <2>7, <2>8
<1>5. ASSUME Ordered(a), Ordered(b), \A x \in In(a), y \in In(b) : May(x, y)
      PROVE  Ordered(a \o b)
  <2> SUFFICES ASSUME NEW i \in DOMAIN (a \o b), NEW k \in DOMAIN (a \o b), i < k
               PROVE  May((a \o b)[i], (a \o b)[k])
    BY DEF Ordered
  <2>1. CASE k <= Len(a)
    BY <1>2, <1>3, <1>5, <2>1 DEF Ordered
  <2>2. CASE k > Len(a) /\ i <= Len(a)
    <3>1. k - Len(a) \in DOMAIN b /\ (a \o b)[k] = b[k - Len(a)]
      BY <1>2, <1>3, <2>2
    <3>2. (a \o b)[k] \in In(b)
      BY <3>1 DEF In
    <3>3. i \in DOMAIN a /\ (a \o b)[i] = a[i]
      BY <1>2, <1>3, <2>2
    <3>4. (a \o b)[i] \in In(a)
      BY <3>3 DEF In
    <3> QED BY <1>5, <3>2, <3>4
  <2>3. CASE i > Len(a)
    <3>1. k - Len(a) \in DOMAIN b /\ i - Len(a) \in DOMAIN b /\ i - Len(a) < k - Len(a)
      BY <1>2, <2>3
    <3>2. (a \o b)[k] = b[k - Len(a)] /\ (a \o b)[i] = b[i - Len(a)]
      BY <1>2, <1>3, <2>3
    <3> QED BY <1>5, <3>1, <3>2 DEF Ordered
  <2> QED BY <1>2, <2>1, <2>2, <2>3
<1>6. ASSUME Adjacent(a), Adjacent(b), b # <<>> => b[1].do # "seal"
      PROVE  Adjacent(a \o b)
  <2> SUFFICES ASSUME NEW i \in DOMAIN (a \o b), i > 1, (a \o b)[i].do = "seal"
               PROVE  /\ (a \o b)[i - 1].do = "flushAll"
                      /\ (a \o b)[i - 1].track = (a \o b)[i].track
    BY DEF Adjacent
  <2>1. CASE i <= Len(a)
    <3>1. i \in DOMAIN a /\ i - 1 \in 1..Len(a)
      BY <1>2, <2>1
    <3> QED BY <1>2, <1>3, <1>6, <3>1 DEF Adjacent
  <2>2. CASE i = Len(a) + 1
    <3>1. b # <<>> /\ (a \o b)[i] = b[1]
      BY <1>2, <1>3, <2>2
    <3> QED BY <1>6, <3>1
  <2>3. CASE i > Len(a) + 1
    <3>1. i - Len(a) \in DOMAIN b /\ i - Len(a) > 1 /\ i - 1 \in (Len(a) + 1)..(Len(a) + Len(b))
      BY <1>2, <2>3
    <3>2. (a \o b)[i] = b[i - Len(a)] /\ (a \o b)[i - 1] = b[(i - Len(a)) - 1]
      BY <1>2, <1>3, <2>3, <3>1
    <3> QED BY <1>6, <3>1, <3>2 DEF Adjacent
  <2> QED BY <1>2, <2>1, <2>2, <2>3
<1> QED BY <1>1, <1>4, <1>5, <1>6

(* The first step of a list, and the others.                               *)
LEMMA SplitList ==
  ASSUME NEW list \in Seq(AnyStep), list # <<>>
  PROVE  /\ Head(list) \in AnyStep /\ Tail(list) \in Seq(AnyStep)
         /\ Head(list) = list[1]
         /\ In(list) = {Head(list)} \cup In(Tail(list))
         /\ Ordered(list) => /\ Ordered(Tail(list))
                             /\ \A b \in In(Tail(list)) : May(Head(list), b)
         /\ Adjacent(list) =>
              /\ Adjacent(Tail(list))
              /\ Tail(list) # <<>> /\ Tail(list)[1].do = "seal" =>
                   Head(list).do = "flushAll" /\ Head(list).track = Tail(list)[1].track
<1>1. /\ Tail(list) \in Seq(AnyStep) /\ Head(list) \in AnyStep /\ Head(list) = list[1]
      /\ Len(Tail(list)) = Len(list) - 1 /\ Len(list) \in Nat /\ Len(list) >= 1
      /\ \A i \in 1..Len(Tail(list)) : Tail(list)[i] = list[i + 1]
  BY HeadTailProperties, EmptySeq, LenProperties
<1>2. DOMAIN list = 1..Len(list) /\ DOMAIN Tail(list) = 1..(Len(list) - 1)
  BY <1>1, LenProperties
<1>3. \A i \in DOMAIN Tail(list) : i + 1 \in DOMAIN list /\ Tail(list)[i] = list[i + 1] /\ i + 1 > 1
  BY <1>1, <1>2
<1>4. \A i \in DOMAIN list : i = 1 \/ i - 1 \in DOMAIN Tail(list)
  BY <1>1, <1>2
<1>5. \A i \in DOMAIN list : i = 1 \/ list[i] = Tail(list)[i - 1]
  BY <1>1, <1>2
<1>6. In(list) = {Head(list)} \cup In(Tail(list))
  <2>1. 1 \in DOMAIN list
    BY <1>1, <1>2
  <2> QED BY <1>1, <1>3, <1>4, <1>5, <2>1 DEF In
<1>7. ASSUME Ordered(list)
      PROVE  Ordered(Tail(list)) /\ \A b \in In(Tail(list)) : May(Head(list), b)
  <2>1. Ordered(Tail(list))
    <3> SUFFICES ASSUME NEW i \in DOMAIN Tail(list), NEW k \in DOMAIN Tail(list), i < k
                 PROVE  May(Tail(list)[i], Tail(list)[k])
      BY DEF Ordered
    <3>1. i + 1 < k + 1
      BY <1>2
    <3> QED BY <1>3, <1>7, <3>1 DEF Ordered
  <2>2. \A b \in In(Tail(list)) : May(Head(list), b)
    <3> SUFFICES ASSUME NEW i \in DOMAIN Tail(list)
                 PROVE  May(Head(list), Tail(list)[i])
      BY DEF In
    <3>1. 1 \in DOMAIN list /\ 1 < i + 1
      BY <1>1, <1>2
    <3> QED BY <1>1, <1>3, <1>7, <3>1 DEF Ordered
  <2> QED BY <2>1, <2>2
<1>8. ASSUME Adjacent(list)
      PROVE  /\ Adjacent(Tail(list))
             /\ Tail(list) # <<>> /\ Tail(list)[1].do = "seal" =>
                  Head(list).do = "flushAll" /\ Head(list).track = Tail(list)[1].track
  <2>1. Adjacent(Tail(list))
    <3> SUFFICES ASSUME NEW i \in DOMAIN Tail(list), i > 1, Tail(list)[i].do = "seal"
                 PROVE  /\ Tail(list)[i - 1].do = "flushAll"
                        /\ Tail(list)[i - 1].track = Tail(list)[i].track
      BY DEF Adjacent
    <3>1. i - 1 \in DOMAIN Tail(list) /\ (i + 1) - 1 = i /\ (i - 1) + 1 = i
      BY <1>2
    <3> QED BY <1>3, <1>8, <3>1 DEF Adjacent
  <2>2. ASSUME Tail(list) # <<>>, Tail(list)[1].do = "seal"
        PROVE  Head(list).do = "flushAll" /\ Head(list).track = Tail(list)[1].track
    <3>1. 1 \in DOMAIN Tail(list)
      BY <1>1, <1>2, <2>2, EmptySeq, LenProperties
    <3>2. 2 \in DOMAIN list /\ list[2] = Tail(list)[1] /\ 2 > 1 /\ 2 - 1 = 1
      BY <1>3, <3>1
    <3> QED BY <1>1, <1>8, <2>2, <3>2 DEF Adjacent
  <2> QED BY <2>1, <2>2
<1> QED BY <1>1, <1>6, <1>7, <1>8

(* Short lists.                                                            *)
LEMMA NoSteps == In(<<>>) = {} /\ Ordered(<<>>) /\ Adjacent(<<>>) /\ <<>> \in Seq(AnyStep)
BY DEF In, Ordered, Adjacent

(* A list of one step is in order.                                         *)
LEMMA OneStep ==
  ASSUME NEW a \in AnyStep
  PROVE  /\ In(<<a>>) = {a} /\ Ordered(<<a>>) /\ Adjacent(<<a>>)
         /\ <<a>> \in Seq(AnyStep) /\ <<a>>[1] = a /\ <<a>> # <<>>
BY DEF In, Ordered, Adjacent

(* Steps that are no seal, in order                                        *)
Chain(list, N) ==
  /\ list \in Seq(AnyStep) /\ In(list) = N /\ Ordered(list) /\ Adjacent(list)
  /\ list # <<>> => list[1].do # "seal"

(* No steps make a chain.                                                  *)
LEMMA ChainOfNone == Chain(<<>>, {})
BY NoSteps DEF Chain

(* One step that is no seal makes a chain.                                 *)
LEMMA ChainOfOne ==
  ASSUME NEW a \in AnyStep, a.do # "seal"
  PROVE  Chain(<<a>>, {a})
BY OneStep DEF Chain

(* So do two that may stand in this order,                                 *)
LEMMA ChainOfTwo ==
  ASSUME NEW a \in AnyStep, NEW b \in AnyStep, a.do # "seal", b.do # "seal", May(a, b)
  PROVE  Chain(<<a, b>>, {a, b})
<1>1. <<a, b>> \in Seq(AnyStep) /\ In(<<a, b>>) = {a, b}
  BY DEF In
<1>2. Ordered(<<a, b>>)
  BY DEF Ordered
<1> QED BY <1>1, <1>2 DEF Chain, Adjacent

(* and three.                                                              *)
LEMMA ChainOfThree ==
  ASSUME NEW a \in AnyStep, NEW b \in AnyStep, NEW c \in AnyStep,
         a.do # "seal", b.do # "seal", c.do # "seal", May(a, b), May(a, c), May(b, c)
  PROVE  Chain(<<a, b, c>>, {a, b, c})
<1>1. <<a, b, c>> \in Seq(AnyStep) /\ In(<<a, b, c>>) = {a, b, c}
  BY DEF In
<1>2. Ordered(<<a, b, c>>)
  BY DEF Ordered
<1> QED BY <1>1, <1>2 DEF Chain, Adjacent

(* Two chains make one when every step of the first may come before every  *)
(* step of the second.                                                     *)
LEMMA ChainJoin ==
  ASSUME NEW a, NEW A, NEW b, NEW B, Chain(a, A), Chain(b, B), \A x \in A, y \in B : May(x, y)
  PROVE  Chain(a \o b, A \cup B)
<1>1. a \o b \in Seq(AnyStep) /\ In(a \o b) = A \cup B /\ Ordered(a \o b) /\ Adjacent(a \o b)
  BY JoinedLists DEF Chain
<1>2. ASSUME a \o b # <<>> PROVE (a \o b)[1].do # "seal"
  <2>1. CASE a = <<>>
    <3>1. a \o b = b
      BY <2>1 DEF Chain
    <3> QED BY <1>2, <3>1 DEF Chain
  <2>2. CASE a # <<>>
    <3>1. (a \o b)[1] = a[1]
      BY <2>2 DEF Chain
    <3> QED BY <2>2, <3>1 DEF Chain
  <2> QED BY <2>1, <2>2
<1> QED BY <1>1, <1>2 DEF Chain

----------------------------------------------------------------------------
(* A step of the capture: what was first is gone, what it calls is there.  *)

(* The first step, and the rest, which may follow it.                      *)
LEMMA FirstStep ==
  ASSUME Types, Program, todo # <<>>
  PROVE  \E h \in AnyStep, R \in SUBSET AnyStep :
           /\ h = Head(todo) /\ R = In(Tail(todo)) /\ Steps = {h} \cup R /\ h.track \in Tracks
           /\ \A b \in R : May(h, b) /\ b.track \in Tracks
           /\ Fits(phase, h.do) /\ \A b \in R : Fits(phase, b.do)
<1>1. todo \in Seq(AnyStep) /\ Ordered(todo) /\ \A x \in Steps : x.track \in Tracks /\ Fits(phase, x.do)
  BY DEF Types, Program, Shape
<1>2. /\ Head(todo) \in AnyStep /\ Tail(todo) \in Seq(AnyStep)
      /\ In(todo) = {Head(todo)} \cup In(Tail(todo))
      /\ \A b \in In(Tail(todo)) : May(Head(todo), b)
  BY <1>1, SplitList
<1>3. In(Tail(todo)) \in SUBSET AnyStep
  BY <1>2, LenProperties, ElementOfSeq DEF In
<1> QED BY <1>1, <1>2, <1>3 DEF Steps

(* What the code of a first step puts in its place.                        *)
LEMMA NextSteps ==
  ASSUME Types, Program, todo # <<>>, Head(todo).do # "flushAll",
         NEW new, NEW N, Chain(new, N), Then(new),
         \A x \in N, b \in In(Tail(todo)) : May(x, b)
  PROVE  /\ todo' \in Seq(AnyStep) /\ Steps' = N \cup In(Tail(todo)) /\ Steps' \subseteq AnyStep
         /\ Ordered(todo') /\ FlushedFirst'
<1>1. todo \in Seq(AnyStep) /\ Ordered(todo) /\ Adjacent(todo)
  BY DEF Types, Program, FlushedFirst
<1> DEFINE T == Tail(todo)
<1>2. /\ T \in Seq(AnyStep) /\ Ordered(T) /\ Adjacent(T) /\ (T # <<>> => T[1].do # "seal")
  BY <1>1, SplitList
<1>3. Chain(T, In(T))
  BY <1>2 DEF Chain
<1> HIDE DEF T
<1>4. Chain(new \o T, N \cup In(T))
  BY <1>3, ChainJoin DEF T
<1>5. todo' = new \o T
  BY DEF Then, T
<1>6. Chain(todo', N \cup In(T))
  BY <1>4, <1>5
<1>7. todo' \in Seq(AnyStep) /\ In(todo') = N \cup In(T) /\ Ordered(todo') /\ Adjacent(todo')
      /\ (todo' # <<>> => todo'[1].do # "seal")
  BY <1>6 DEF Chain
<1>8. todo' # <<>> => Head(todo') = todo'[1]
  BY <1>7, SplitList
<1>9. FlushedFirst'
  BY <1>7, <1>8 DEF FlushedFirst, Doing
<1>10. Steps' \subseteq AnyStep
  BY <1>7, LenProperties, ElementOfSeq DEF Steps, In
<1> QED BY <1>7, <1>9, <1>10 DEF Steps, T

(* A step that puts nothing in its place.                                  *)
LEMMA StepDone ==
  ASSUME Types, Program, todo # <<>>, Head(todo).do # "flushAll", Then(<<>>)
  PROVE  /\ todo' \in Seq(AnyStep) /\ Steps' = In(Tail(todo)) /\ Steps' \subseteq AnyStep
         /\ Ordered(todo') /\ FlushedFirst'
<1>1. \A N : N = {} => \A x \in N, b \in In(Tail(todo)) : May(x, b)
  OBVIOUS
<1>2. PICK N : N = {}
  OBVIOUS
<1>3. Chain(<<>>, N)
  BY <1>2, ChainOfNone
<1>4. \A x \in N, b \in In(Tail(todo)) : May(x, b)
  BY <1>1, <1>2
<1>5. /\ todo' \in Seq(AnyStep) /\ Steps' = N \cup In(Tail(todo)) /\ Steps' \subseteq AnyStep
      /\ Ordered(todo') /\ FlushedFirst'
  BY <1>3, <1>4, NextSteps
<1> QED BY <1>2, <1>5

(* The steps of a set are left alone.                                      *)
Keeps(S) == \A x \in S : x \in Steps <=> x \in Steps'

Kind(K) == {x \in AnyStep : x.do \in K}
KindOf(t, K) == {x \in AnyStep : x.do \in K /\ x.track = t}
About(k) == {x \in AnyStep : x.do \in {"append", "save", "flush", "resend"} /\ x.with.kind = k}

(* A step done and steps put in its place leave alone the kinds they are   *)
(* not of.                                                                 *)
LEMMA Kept ==
  ASSUME NEW h, NEW R, NEW N, Steps = {h} \cup R, Steps' = N \cup R,
         NEW S, h \notin S, \A x \in N : x \notin S
  PROVE  Keeps(S)
BY DEF Keeps

(* What is kept of more kinds, or of every track, is kept of fewer and of  *)
(* one.                                                                    *)
LEMMA KeptOf ==
  ASSUME NEW K, NEW L, K \subseteq L, NEW t,
         Keeps(Kind(L)) \/ Keeps(KindOf(t, L))
  PROVE  Keeps(KindOf(t, K))
BY DEF Keeps, Kind, KindOf

(* What the invariant says of a track                                      *)
SameTape(t) ==
  /\ journal'[t].final = journal[t].final /\ journal'[t].classified = journal[t].classified
  /\ journal'[t].active = journal[t].active /\ journal'[t].pcm = journal[t].pcm
  /\ journal'[t].voiced = journal[t].voiced /\ journal'[t].segments = journal[t].segments
  /\ journal'[t].gaps = journal[t].gaps /\ journal'[t].boundaries = journal[t].boundaries
  /\ journal'[t].closed = journal[t].closed

SameTrack(t) == SameTape(t) /\ journal'[t].seal = journal[t].seal

ClockKinds == {"advance", "noteGap", "skip", "push", "record", "seal", "finish",
               "changeDirection", "checkpoint"}

(* The clock of a track stays right when neither its detector nor its      *)
(* audio moves.                                                            *)
LEMMA ClockFrame ==
  ASSUME Types, NEW t \in Tracks, Clock(t), vad'[t] = vad[t], Keeps(KindOf(t, ClockKinds)),
         phase' = phase, Steps' \subseteq AnyStep, Steps \subseteq AnyStep,
         journal'[t].final = journal[t].final, journal'[t].pcm = journal[t].pcm,
         journal'[t].voiced = journal[t].voiced,
         Head(todo).do # "finish" \/ Head(todo).track # t \/ vad[t].active = None
  PROVE  Clock(t)'
<1>1. \A k \in ClockKinds : \A x : x.do = k /\ x.track = t => (x \in Steps <=> x \in Steps')
  BY DEF Keeps, KindOf
<1>2. \A k \in ClockKinds : Has(k, t)' <=> Has(k, t)
  BY <1>1 DEF Has
<1>3. Live' <=> Live
  BY DEF Live
<1> DEFINE A == Has("advance", t)
           B == Has("noteGap", t)
           C == Has("skip", t)
           D == Has("push", t)
           E == Has("record", t)
           F == Has("seal", t)
           G == Has("finish", t)
           H == Has("changeDirection", t)
           I == Has("checkpoint", t)
<1>4. /\ A' = A /\ B' = B /\ C' = C /\ D' = D /\ E' = E /\ F' = F /\ G' = G /\ H' = H /\ I' = I
  BY <1>2 DEF ClockKinds, Has
<1>5. \A x : x.do = "noteGap" /\ x.track = t => (x \in Steps <=> x \in Steps')
  BY <1>1 DEF ClockKinds
<1> QED BY <1>3, <1>4, <1>5 DEF Clock

(* The shape of the program stays when no step with a count is put in.     *)
LEMMA ShapeFrame ==
  ASSUME Shape, Keeps(Kind({"record", "push", "advance", "noteGap", "gapTo", "direction",
                            "changeDirection", "boundary"})),
         Steps' \subseteq AnyStep, Steps \subseteq AnyStep, sources' = sources,
         \A t \in Tracks : journal'[t].final = journal[t].final,
         \A x \in Steps : x.track \in Tracks,
         \A x \in Steps' : Fits(phase', x.do)
  PROVE  Shape'
<1> DEFINE K == {"record", "push", "advance", "noteGap", "gapTo", "direction",
                 "changeDirection", "boundary"}
<1>1. \A x : x.do \in K => (x \in Steps' <=> x \in Steps)
  BY DEF Keeps, Kind
<1>2. \A t \in Tracks : \A k \in K : Has(k, t)' <=> Has(k, t)
  BY <1>1 DEF Has
<1>3. \A t \in Tracks : /\ Has("record", t)' => Has("push", t)'
                        /\ Has("advance", t)' => Has("noteGap", t)'
  BY <1>2 DEF Shape
<1>4. Tracks' = Tracks /\ Dual' = Dual
  BY DEF Tracks, Dual
<1> QED BY <1>1, <1>3, <1>4 DEF Shape

(* Segments to close stay apart when the track and its closings stay as    *)
(* they are.                                                               *)
LEMMA PiecesFrame ==
  ASSUME NEW t \in Tracks, Pieces(t), Keeps(KindOf(t, {"close", "closing"})),
         Steps' \subseteq AnyStep, Steps \subseteq AnyStep, SameTape(t), vad'[t] = vad[t],
         Live' => Live
  PROVE  Pieces(t)'
<1>1. \A x : x.do \in {"close", "closing"} /\ x.track = t => (x \in Steps' <=> x \in Steps)
  BY DEF Keeps, KindOf
<1>2. Pending(t)' = Pending(t)
  BY <1>1 DEF Pending
<1>3. From(t)' = From(t) /\ Cut(t)' = Cut(t)
  BY DEF From, Cut, SameTape
<1> QED BY <1>1, <1>2, <1>3 DEF Pieces, SameTape

(* What is on the disk stays right when none of it changes.                *)
LEMMA DiskFrame ==
  ASSUME NEW t \in Tracks, Disk(t), Keeps(KindOf(t, {"skip"})),
         Steps' \subseteq AnyStep, Steps \subseteq AnyStep, SameTape(t), vad'[t] = vad[t],
         Live' => Live
  PROVE  Disk(t)'
<1>1. Has("skip", t)' = Has("skip", t)
  BY DEF Keeps, KindOf, Has
<1>2. From(t)' = From(t) /\ Cut(t)' = Cut(t) /\ Low(t)' = Low(t) /\ Closed(t)' = Closed(t)
  BY DEF From, Cut, Low, Closed, SameTape
<1>3. \A u : Behind(t, u)' <=> Behind(t, u)
  BY <1>2 DEF Behind
<1> QED BY <1>1, <1>2, <1>3 DEF Disk, SameTape

(* What covers the voiced audio still does when no piece of it goes.       *)
LEMMA CoverFrame ==
  ASSUME NEW t \in Tracks, Cover(t), Keeps(KindOf(t, {"close", "closing", "push", "recoverTail"})),
         Steps' \subseteq AnyStep, Steps \subseteq AnyStep, SameTape(t), vad'[t] = vad[t],
         Over => Over'
  PROVE  Cover(t)'
<1> DEFINE K == {"close", "closing", "push", "recoverTail"}
<1>1. \A x : x.do \in K /\ x.track = t => (x \in Steps' <=> x \in Steps)
  BY DEF Keeps, KindOf
<1>2. Pending(t)' = Pending(t)
  BY <1>1 DEF Pending
<1>3. Has("push", t)' = Has("push", t) /\ Has("recoverTail", t)' = Has("recoverTail", t)
  BY <1>1 DEF Has
<1>4. Cut(t)' = Cut(t) /\ Closed(t)' = Closed(t)
  BY DEF Cut, Closed, SameTape
<1> QED BY <1>2, <1>3, <1>4 DEF Cover, SameTape

(* Gaps stay announced: in the ledger, or in an outbox that only loses to  *)
(* the ledger.                                                             *)
LEMMA AnnouncedFrame ==
  ASSUME NEW t \in Tracks, Announced(t), Keeps(KindOf(t, {"recoverTail"})),
         \A x \in Steps : GapAbout(x) /\ x.track = t => x \in Steps',
         Steps' \subseteq AnyStep, Steps \subseteq AnyStep, phase' = phase,
         journal'[t].gaps = journal[t].gaps, journal'[t].closed = journal[t].closed,
         \A g \in journal[t].gaps : Behind(t, g.start)' <=> Behind(t, g.start),
         \A e \in ledger : e.kind = "gap" => e \in ledger',
         \A e \in outbox[t] : e.kind = "gap" => e \in outbox'[t] \/ e \in ledger'
  PROVE  Announced(t)'
<1>1. Has("recoverTail", t)' = Has("recoverTail", t)
  BY DEF Keeps, KindOf, Has
<1>2. Closed(t)' = Closed(t)
  BY DEF Closed
<1> QED BY <1>1, <1>2 DEF Announced

(* What a recovery does not look at depends on the segments and the clock  *)
(* alone.                                                                  *)
LEMMA SameBehind ==
  ASSUME NEW t \in Tracks, SameTape(t)
  PROVE  \A u : Behind(t, u)' <=> Behind(t, u)
<1>1. Cut(t)' = Cut(t) /\ Low(t)' = Low(t)
  BY DEF Cut, Low, SameTape
<1> QED BY <1>1 DEF Behind

TrackKinds == ClockKinds \cup {"close", "closing", "recoverTail"}

(* What a step leaves alone of a track stays true.                         *)
LEMMA TrackFrame ==
  ASSUME Types, NEW t \in Tracks, Clock(t), Pieces(t), Disk(t), Cover(t), Announced(t),
         Keeps(KindOf(t, TrackKinds)), \A x \in Steps : GapAbout(x) /\ x.track = t => x \in Steps',
         Steps' \subseteq AnyStep, Steps \subseteq AnyStep,
         SameTape(t), vad'[t] = vad[t], phase' = phase,
         Head(todo).do # "finish" \/ Head(todo).track # t \/ vad[t].active = None,
         \A e \in ledger : e.kind = "gap" => e \in ledger',
         \A e \in outbox[t] : e.kind = "gap" => e \in outbox'[t] \/ e \in ledger'
  PROVE  Clock(t)' /\ Pieces(t)' /\ Disk(t)' /\ Cover(t)' /\ Announced(t)'
<1>1. (Live' <=> Live) /\ (Over' <=> Over)
  BY DEF Live, Over
<1>2. /\ ClockKinds \subseteq TrackKinds /\ {"close", "closing"} \subseteq TrackKinds
      /\ {"skip"} \subseteq TrackKinds /\ {"recoverTail"} \subseteq TrackKinds
      /\ {"close", "closing", "push", "recoverTail"} \subseteq TrackKinds
  BY DEF TrackKinds, ClockKinds
<1>3. Clock(t)'
  <2>1. Keeps(KindOf(t, ClockKinds))
    BY <1>2, KeptOf
  <2> QED BY <2>1, ClockFrame DEF SameTape
<1>4. Pieces(t)'
  <2>1. Keeps(KindOf(t, {"close", "closing"}))
    BY <1>2, KeptOf
  <2> QED BY <1>1, <2>1, PiecesFrame
<1>5. Disk(t)'
  <2>1. Keeps(KindOf(t, {"skip"}))
    BY <1>2, KeptOf
  <2> QED BY <1>1, <2>1, DiskFrame
<1>6. Cover(t)'
  <2>1. Keeps(KindOf(t, {"close", "closing", "push", "recoverTail"}))
    BY <1>2, KeptOf
  <2> QED BY <1>1, <2>1, CoverFrame
<1>7. Announced(t)'
  <2>1. Keeps(KindOf(t, {"recoverTail"}))
    BY <1>2, KeptOf
  <2> QED BY <2>1, SameBehind, AnnouncedFrame DEF SameTape
<1> QED BY <1>3, <1>4, <1>5, <1>6, <1>7

IsSeal(e) ==
  \/ e \in ledger /\ e.kind = "seal"
  \/ \E t \in Tracks : (e \in outbox[t] /\ e.kind = "seal") \/ e \in journal[t].seal
  \/ \E x \in Steps : /\ x.do \in {"append", "save", "flush", "resend"} /\ x.with.kind = "seal"
                      /\ e = x.with

(* A seal is in the ledger, on the disk, in an outbox, or on its way.      *)
LEMMA SealsAre == \A e : e \in Seals <=> IsSeal(e)
<1> SUFFICES ASSUME NEW e PROVE e \in Seals <=> IsSeal(e)
  OBVIOUS
<1>1. e \in Seals <=> e \in SentSeals \/ e \in KeptSeals \/ \E x \in SealSending : e = x.with
  BY DEF Seals
<1>2. e \in KeptSeals <=>
        \E t \in Tracks : (e \in outbox[t] /\ e.kind = "seal") \/ e \in journal[t].seal
  BY DEF KeptSeals
<1>3. e \in SentSeals <=> e \in ledger /\ e.kind = "seal"
  BY DEF SentSeals
<1>4. (\E x \in SealSending : e = x.with)
        <=> \E x \in Steps : /\ x.do \in {"append", "save", "flush", "resend"}
                            /\ x.with.kind = "seal" /\ e = x.with
  BY DEF SealSending
<1> QED BY <1>1, <1>2, <1>3, <1>4 DEF IsSeal

SealingKinds == {"publish", "seal", "last", "direction", "changeDirection", "close", "closing",
                 "record", "advance", "noteGap", "push", "hear", "tail", "gapTo", "finish",
                 "checkpoint", "skip"}

(* Every seal still names the segments when no segment and no seal is new. *)
LEMMA SealingFrame ==
  ASSUME Sealing, Keeps(Kind(SealingKinds)), Seals' \subseteq Seals,
         Sealed' => Sealed /\ Registered' = Registered, sources' = sources, Mic \in Tracks,
         Steps' \subseteq AnyStep, Steps \subseteq AnyStep, \A t \in Tracks : SameTape(t),
         phase' = phase
  PROVE  Sealing'
<1>1. \A x : x.do \in SealingKinds => (x \in Steps' <=> x \in Steps)
  BY DEF Keeps, Kind
<1>2. Has("publish", Mic)' = Has("publish", Mic) /\ \A t : Has("seal", t)' = Has("seal", t)
  BY <1>1 DEF Has, SealingKinds
<1>3. Tracks' = Tracks /\ \A t \in Tracks : Closed(t)' = Closed(t) /\ Cut(t)' = Cut(t)
  BY DEF Tracks, Closed, Cut, SameTape
<1>4. Manifest' = Manifest
  BY DEF Tracks, Manifest, SameTape
<1>5. \A t \in Tracks' : Closed(t)' =>
        /\ phase' \notin {"opening", "live"}
        /\ \A x \in Steps' :
             /\ x.do \notin {"last", "direction", "changeDirection"}
             /\ x.track = t => x.do \notin {"close", "closing", "record", "advance", "noteGap",
                                 "push", "hear", "tail", "gapTo", "finish", "checkpoint", "skip"}
  BY <1>1, <1>3 DEF Sealing, SealingKinds
<1>6. Has("publish", Mic)' => \A t \in Tracks' : Closed(t)' \/ Has("seal", t)'
  BY <1>2, <1>3 DEF Sealing
<1>7. \A e \in Seals' : e.about.tracks = Manifest' /\ \A t \in Tracks' : Closed(t)'
  BY <1>3, <1>4 DEF Sealing
<1>8. Sealed' => \A t \in Tracks' : Cut(t)' = {s \in Registered' : s.track = t}
  BY <1>3 DEF Sealing
<1> QED BY <1>5, <1>6, <1>7, <1>8 DEF Sealing

DirectionKinds == {"boundary", "inForce", "replaying", "replayDirections"}

(* Steps about a boundary are about a boundary event.                      *)
LEMMA BoundarySteps1 ==
  ASSUME NEW x \in AnyStep, x.do \in {"boundary", "inForce"}
  PROVE  x.with \in BoundaryEvent /\ x.with.kind = "boundary" /\ x.track = Mic
BY DEF AnyStep, PlainStep, CountStep, SegmentStep, EventStep, SaveStep, BoundaryStep, LoopStep,
       ReplayStep, BoundaryEvent

SameDirections ==
  /\ Keeps(Kind(DirectionKinds)) /\ Keeps(About("boundary"))
  /\ \A t \in Tracks : journal'[t].boundaries = journal[t].boundaries
  /\ \A t \in Tracks : \A e \in outbox'[t] : e.kind = "boundary" => e \in outbox[t]
  /\ ledger \subseteq ledger'
  /\ \A e \in ledger' : e.kind = "boundary" => e \in ledger \cup outbox[Mic]

(* The steps of a change of direction stay in their places.                *)
LEMMA Direction1Frame ==
  ASSUME Direction1, SameDirections, sources' = sources, Mic \in Tracks, phase' = phase,
         Steps' \subseteq AnyStep, Steps \subseteq AnyStep, epoch' = epoch,
         \A x \in Steps : x.do = "boundary" => vad'[Mic] = vad[Mic] /\ SameTape(Mic),
         Has("changeDirection", Mic)' /\ ~Has("checkpoint", Mic)' =>
           journal'[Mic].active = None /\ journal'[Mic].classified = vad'[Mic].cursor
  PROVE  Direction1'
<1>1. \A x : x.do \in DirectionKinds => (x \in Steps' <=> x \in Steps)
  BY DEF Keeps, Kind, SameDirections
<1>2. \A x : BoundaryAbout(x) => (x \in Steps' <=> x \in Steps)
  BY DEF Keeps, About, SameDirections, BoundaryAbout
<1>3. Tracks' = Tracks /\ Dual' = Dual /\ Noted' = Noted /\ Sent' \subseteq Sent
  BY DEF Tracks, Dual, Noted, Sent, SameDirections
<1>4. \A x \in Steps : x.do \in {"boundary", "inForce"} => x.with.kind = "boundary"
  BY BoundarySteps1
<1>5. \A x \in Steps' : BoundaryAbout(x) /\ x.do = "append" =>
        \E y \in Steps' : y.do = "boundary" /\ y.with = x.with
  BY <1>1, <1>2 DEF Direction1, DirectionKinds
<1>6. \A x \in Steps' : x.do = "boundary" \/ BoundaryAbout(x) =>
        \E y \in Steps' : y.do = "inForce" /\ y.with = x.with
  BY <1>1, <1>2 DEF Direction1, DirectionKinds
<1>7. \A x \in Steps' : x.do = "inForce" =>
        x.with \in Noted' \/ \E y \in Steps' : y.do = "boundary" /\ y.with = x.with
  BY <1>1, <1>3 DEF Direction1, DirectionKinds
<1>8. \A x \in Steps' : x.do = "inForce" =>
        \/ x.with \in ledger'
        \/ \E y \in Steps' : y.do \in {"flush", "resend"} /\ y.with = x.with /\ y.track = Mic
  <2> SUFFICES ASSUME NEW x \in Steps', x.do = "inForce", x.with \notin ledger'
               PROVE  \E y \in Steps' :
                        y.do \in {"flush", "resend"} /\ y.with = x.with /\ y.track = Mic
    OBVIOUS
  <2>1. x \in Steps /\ x.with \notin ledger /\ x.with.kind = "boundary"
    BY <1>1, <1>4 DEF SameDirections, DirectionKinds
  <2>2. PICK y \in Steps : y.do \in {"flush", "resend"} /\ y.with = x.with /\ y.track = Mic
    BY <2>1 DEF Direction1
  <2>3. BoundaryAbout(y)
    BY <2>1, <2>2 DEF BoundaryAbout
  <2> QED BY <1>2, <2>2, <2>3
<1>9. \A x \in Steps' : x.do = "inForce" =>
        /\ epoch' <= x.with.about.epoch
        /\ \A y \in Steps' : y.do = "replaying" =>
             \A c \in y.with : x.with.about.epoch <= c.about.epoch
  BY <1>1 DEF Direction1, DirectionKinds
<1>10. \A x \in Steps' : x.do = "boundary" =>
        /\ phase' = "live"
        /\ x.with.about.start = journal'[Mic].final /\ vad'[Mic].cursor = journal'[Mic].final
        /\ journal'[Mic].classified = journal'[Mic].final
        /\ vad'[Mic].active = None /\ journal'[Mic].active = None
  BY <1>1 DEF Direction1, DirectionKinds, SameTape
<1>12. \A x \in Steps' : x.do = "replaying" =>
         x.with \subseteq Noted' /\ \A c \in x.with : epoch' <= c.about.epoch
  BY <1>1, <1>3 DEF Direction1, DirectionKinds
<1>13. \A x \in Steps' : x.do = "resend" /\ BoundaryAbout(x) => x.with \in Noted'
  BY <1>2, <1>3 DEF Direction1
<1>14. Has("replayDirections", Mic)' => epoch' = 1
  BY <1>1 DEF Direction1, Has, DirectionKinds
<1>15. \A t \in Tracks' : t # Mic =>
         /\ journal'[t].boundaries = {}
         /\ \A e \in outbox'[t] : e.kind # "boundary"
         /\ \A x \in Steps' : BoundaryAbout(x) => x.track = Mic
  BY <1>2, <1>3 DEF Direction1, SameDirections
<1>16. Dual' => Noted' = {} /\ Sent' = {}
  BY <1>3 DEF Direction1
<1> QED BY <1>5, <1>6, <1>7, <1>8, <1>9, <1>10, <1>12, <1>13, <1>14, <1>15, <1>16
        DEF Direction1

(* The direction kept with a segment is the last one there was before it.  *)
Dated(t, s) ==
  /\ \/ journal[t].segments[s] = 1
     \/ \E b \in InLedger : /\ b.about.epoch = journal[t].segments[s]
                            /\ b.about.start <= s.start
  /\ \A b \in Sent \cup Noted : b.about.start <= s.start => b.about.epoch <= journal[t].segments[s]

(* The directions of the segments agree as long as no direction and no     *)
(* segment is new.                                                         *)
LEMMA Direction2Frame ==
  ASSUME Direction2, SameDirections, sources' = sources, Mic \in Tracks, phase' = phase,
         Steps' \subseteq AnyStep, Steps \subseteq AnyStep, epoch' = epoch,
         journal'[Mic].final = journal[Mic].final \/ Sent \subseteq Noted,
         \A t \in Tracks : \A s \in Cut(t)' :
           \/ s \in Cut(t) /\ journal'[t].segments[s] = journal[t].segments[s]
           \/ Dated(t, s)'
  PROVE  Direction2'
<1>1. \A x : x.do \in DirectionKinds => (x \in Steps' <=> x \in Steps)
  BY DEF Keeps, Kind, SameDirections
<1>2. /\ Tracks' = Tracks /\ Noted' = Noted /\ Sent' \subseteq Sent /\ InLedger \subseteq InLedger'
      /\ Over' = Over
  BY DEF Tracks, Noted, Sent, InLedger, Over, SameDirections
<1>4. \A b \in Sent' : b \in Noted'
        \/ /\ b.about.start = journal'[Mic].final
           /\ Over' \/ phase' = "recovering" \/ \E x \in Steps' : x.do = "boundary" /\ x.with = b
  BY <1>1, <1>2 DEF Direction2, DirectionKinds
<1>5. epoch' = 1 \/ \E b \in Noted' \cap ledger' : b.about.epoch = epoch'
  BY <1>2 DEF Direction2, SameDirections
<1>6. ~Over' => \A b \in Noted' :
        \/ b.about.epoch <= epoch' \/ Has("replayDirections", Mic)'
        \/ \E x \in Steps' : x.do = "inForce" /\ x.with = b
        \/ \E x \in Steps' : x.do = "replaying" /\ b \in x.with
  <2>1. Has("replayDirections", Mic)' = Has("replayDirections", Mic)
    BY <1>1 DEF Has, DirectionKinds
  <2> QED BY <1>1, <1>2, <2>1 DEF Direction2, DirectionKinds
<1>7. ASSUME NEW t \in Tracks', NEW s \in Cut(t)'
      PROVE  /\ \/ journal'[t].segments[s] = 1
                \/ \E b \in InLedger' : /\ b.about.epoch = journal'[t].segments[s]
                                        /\ b.about.start <= s.start
             /\ \A b \in Sent' \cup Noted' :
                  b.about.start <= s.start => b.about.epoch <= journal'[t].segments[s]
  <2>1. CASE s \in Cut(t) /\ journal'[t].segments[s] = journal[t].segments[s]
    BY <1>2, <2>1 DEF Direction2
  <2>2. CASE Dated(t, s)'
    BY <2>2 DEF Dated
  <2> QED BY <1>2, <2>1, <2>2
<1> QED BY <1>4, <1>5, <1>6, <1>7 DEF Direction2

(* Steps the invariant says nothing of                                     *)
Quiet(x) ==
  \/ x.do \in {"create", "pump", "ready", "enqueue", "register", "registering", "missing",
               "dispatch", "await", "asking"}
  \/ x.do \in {"append", "save", "flush", "resend"} /\ x.with.kind = "segment"

Loud == {x \in AnyStep : ~Quiet(x)}

(* Keeping the loud steps keeps every kind a part of the invariant is      *)
(* about.                                                                  *)
LEMMA LoudKinds ==
  ASSUME Keeps(Loud)
  PROVE  /\ \A K : (\A k \in K : k \in {"close", "closing"} \cup ClockKinds \cup SealingKinds
                                   \cup DirectionKinds \cup {"recoverTail", "skip", "push",
                                   "record", "gapTo", "flushAll"})
                     => Keeps(Kind(K))
         /\ \A k \in {"gap", "boundary", "seal"} : Keeps(About(k))
         /\ \A x \in AnyStep : GapAbout(x) => (x \in Steps <=> x \in Steps')
BY DEF Keeps, Kind, About, Loud, Quiet, ClockKinds, SealingKinds, DirectionKinds, GapAbout

(* The outboxes and the ledger change by events of segments at most.       *)
SegmentsOnly ==
  /\ \A t \in Tracks : \A e : e.kind # "segment" => (e \in outbox'[t] <=> e \in outbox[t])
  /\ \A e : e.kind # "segment" => (e \in ledger' <=> e \in ledger)
  /\ ledger \subseteq ledger'
  /\ Sealed => Registered' = Registered

(* No seal is new, and nothing is sealed that was not, when no step of a   *)
(* seal is new.                                                            *)
LEMMA SameSeals ==
  ASSUME SegmentsOnly, Keeps(About("seal")), sources' = sources, Steps' \subseteq AnyStep,
         \A t \in Tracks : SameTrack(t)
  PROVE  Seals' \subseteq Seals /\ (Sealed' => Sealed)
<1>1. Tracks' = Tracks
  BY DEF Tracks
<1>2. \A x \in Steps' : x.do \in {"append", "save", "flush", "resend"} /\ x.with.kind = "seal"
        => x \in Steps
  BY DEF Keeps, About
<1>3. ASSUME NEW e PROVE IsSeal(e)' => IsSeal(e)
  BY <1>1, <1>2 DEF IsSeal, SegmentsOnly, SameTrack, SameTape
<1>4. (\A e : e \in Seals <=> IsSeal(e))'
  BY SealsAre, PTL
<1>5. Seals' \subseteq Seals
  BY <1>3, <1>4, SealsAre
<1>6. Sealed' => Sealed
  BY DEF Sealed, Events, SegmentsOnly
<1> QED BY <1>5, <1>6

(* A step the invariant says nothing of keeps it.                          *)
LEMMA QuietKept ==
  ASSUME CaptureInv, todo' \in Seq(AnyStep), Ordered(todo'), FlushedFirst', Steps' \subseteq AnyStep,
         \A x \in Steps' : Fits(phase, x.do) /\ x.track \in Tracks,
         Keeps(Loud), Head(todo).do # "finish", SegmentsOnly,
         UNCHANGED <<sources, recording, phase, vad, epoch, run>>,
         queue' \in Seq(Segment), journal' \in [Tracks -> Journal],
         outbox' \in [Tracks -> SUBSET AnyEvent], ledger' \subseteq AnyEvent,
         \A t \in Tracks : SameTrack(t)
  PROVE  CaptureInv'
<1>1. Tracks' = Tracks /\ Dual' = Dual /\ Mic \in Tracks /\ Steps \subseteq AnyStep
      /\ \A x \in Steps : x.track \in Tracks
  <2>1. todo \in Seq(AnyStep) /\ Mic \in sources
    BY DEF CaptureInv, Types, Both
  <2> QED BY <2>1, LenProperties, ElementOfSeq DEF Tracks, Dual, Steps, In, CaptureInv, Types
<1>2. /\ Keeps(Kind(ClockKinds)) /\ Keeps(Kind(SealingKinds)) /\ Keeps(Kind(DirectionKinds))
      /\ Keeps(Kind({"close", "closing"})) /\ Keeps(Kind({"skip"})) /\ Keeps(Kind({"recoverTail"}))
      /\ Keeps(Kind({"close", "closing", "push", "recoverTail"}))
      /\ Keeps(Kind({"record", "push", "advance", "noteGap", "gapTo", "direction",
                     "changeDirection", "boundary"}))
      /\ Keeps(About("boundary")) /\ Keeps(About("seal"))
      /\ \A x \in AnyStep : GapAbout(x) => (x \in Steps <=> x \in Steps')
  <2>1. Keeps(Kind(ClockKinds))
    BY LoudKinds
  <2>2. Keeps(Kind(SealingKinds))
    BY LoudKinds
  <2>3. Keeps(Kind(DirectionKinds))
    BY LoudKinds
  <2>4. Keeps(Kind({"close", "closing"}))
    BY LoudKinds
  <2>5. Keeps(Kind({"skip"}))
    BY LoudKinds
  <2>6. Keeps(Kind({"recoverTail"}))
    BY LoudKinds
  <2>7. Keeps(Kind({"close", "closing", "push", "recoverTail"}))
    BY LoudKinds
  <2>8. Keeps(Kind({"record", "push", "advance", "noteGap", "gapTo", "direction",
                    "changeDirection", "boundary"}))
    BY DEF Keeps, Kind, Loud, Quiet
  <2>9. Keeps(About("boundary")) /\ Keeps(About("seal"))
        /\ \A x \in AnyStep : GapAbout(x) => (x \in Steps <=> x \in Steps')
    BY LoudKinds
  <2> QED BY <2>1, <2>2, <2>3, <2>4, <2>5, <2>6, <2>7, <2>8, <2>9
<1>3. (Live' <=> Live) /\ (Over' <=> Over)
  BY DEF Live, Over
<1>4. Types'
  BY <1>1 DEF CaptureInv, Types
<1>5. Program'
  <2>1. Shape'
    BY <1>1, <1>2, ShapeFrame DEF CaptureInv, Program, SameTrack, SameTape
  <2>2. Fresh'
    BY <1>1 DEF CaptureInv, Program, Fresh, SameTrack, SameTape
  <2> QED BY <2>1, <2>2 DEF Program
<1>6. ASSUME NEW t \in Tracks
      PROVE  Clock(t)' /\ Pieces(t)' /\ Disk(t)' /\ Cover(t)' /\ Announced(t)'
  <2>1. Clock(t) /\ Pieces(t) /\ Disk(t) /\ Cover(t) /\ Announced(t) /\ SameTape(t) /\ Types
    BY DEF CaptureInv, SameTrack
  <2>2. Keeps(KindOf(t, TrackKinds))
    <3>1. Keeps(Kind(TrackKinds))
      BY LoudKinds DEF TrackKinds
    <3> QED BY <3>1, KeptOf
  <2> QED BY <1>1, <1>2, <2>1, <2>2, TrackFrame DEF SegmentsOnly
<1>7. Sealing'
  <2>1. Seals' \subseteq Seals /\ (Sealed' => Sealed)
    BY <1>2, SameSeals
  <2> QED BY <1>1, <1>2, <2>1, SealingFrame DEF CaptureInv, SegmentsOnly, SameTrack
<1>8. SameDirections
  BY <1>1, <1>2 DEF SameDirections, SegmentsOnly, SameTrack, SameTape
<1>9. Direction1' /\ Direction2'
  <2>1. Direction1 /\ Direction2 /\ vad' = vad
    BY DEF CaptureInv
  <2>2. /\ Has("changeDirection", Mic)' = Has("changeDirection", Mic)
        /\ Has("checkpoint", Mic)' = Has("checkpoint", Mic)
    BY <1>1, <1>2 DEF Has, Keeps, Kind, ClockKinds
  <2>3. Direction1'
    BY <1>1, <1>8, <2>1, <2>2, Direction1Frame DEF Direction1, SameTrack, SameTape
  <2>4. Direction2'
    BY <1>1, <1>8, <2>1, Direction2Frame DEF SameTrack, SameTape, Cut
  <2> QED BY <2>3, <2>4
<1> QED BY <1>1, <1>4, <1>5, <1>6, <1>7, <1>9 DEF CaptureInv

----------------------------------------------------------------------------
(* Types of steps and of what they are for.                                *)

(* A step that is only a name and a track.                                 *)
LEMMA PlainIs ==
  ASSUME NEW do, NEW t
  PROVE  Step(do, t).do = do /\ Step(do, t).track = t
BY DEF Step

(* A step that is for a segment, an event or a count.                      *)
LEMMA StepForIs ==
  ASSUME NEW do, NEW t, NEW x
  PROVE  StepFor(do, t, x).do = do /\ StepFor(do, t, x).track = t /\ StepFor(do, t, x).with = x
BY DEF StepFor

PlainKinds ==
  {"create", "barrier", "hear", "tail", "last", "pump", "direction", "changeDirection", "finish",
   "skip", "push", "checkpoint", "ready", "flushAll", "seal", "replayDirections",
   "recoverTail", "register", "missing", "acknowledge"}

(* What each kind of step carries.                                         *)
LEMMA StepTyped ==
  ASSUME NEW t \in Both
  PROVE  /\ \A do \in PlainKinds : Step(do, t) \in AnyStep
         /\ t = Mic => Step("publish", t) \in AnyStep
         /\ \A do \in {"advance", "noteGap", "record", "gapTo"}, n \in Nat :
              StepFor(do, t, n) \in AnyStep
         /\ \A do \in {"close", "enqueue", "dispatch", "await"}, s \in Segment :
              StepFor(do, t, s) \in AnyStep
         /\ \A do \in {"append", "flush", "resend"}, e \in AnyEvent : StepFor(do, t, e) \in AnyStep
         /\ \A e \in SegmentEvent \cup SealEvent : StepFor("save", t, e) \in AnyStep
         /\ t = Mic => \A do \in {"boundary", "inForce"}, e \in BoundaryEvent :
              StepFor(do, t, e) \in AnyStep
         /\ \A do \in {"closing", "registering", "asking"} : \A S \in SUBSET Segment :
              (\A s \in S : s.track = t) => StepFor(do, t, S) \in AnyStep
         /\ \A S \in SUBSET BoundaryEvent : StepFor("replaying", t, S) \in AnyStep
<1>1. /\ \A do \in PlainKinds : Step(do, t) \in AnyStep
      /\ t = Mic => Step("publish", t) \in AnyStep
  BY DEF Step, PlainStep, PlainKinds, AnyStep
<1>2. \A do \in {"advance", "noteGap", "record", "gapTo"}, n \in Nat : StepFor(do, t, n) \in AnyStep
  BY DEF StepFor, CountStep, AnyStep
<1>3. \A do \in {"close", "enqueue", "dispatch", "await"}, s \in Segment :
        StepFor(do, t, s) \in AnyStep
  BY DEF StepFor, SegmentStep, AnyStep
<1>4. /\ \A do \in {"append", "flush", "resend"}, e \in AnyEvent : StepFor(do, t, e) \in AnyStep
      /\ \A e \in SegmentEvent \cup SealEvent : StepFor("save", t, e) \in AnyStep
  BY DEF StepFor, EventStep, SaveStep, AnyStep
<1>5. t = Mic => \A do \in {"boundary", "inForce"}, e \in BoundaryEvent :
        StepFor(do, t, e) \in AnyStep
  BY DEF StepFor, BoundaryStep, AnyStep
<1>6. \A do \in {"closing", "registering", "asking"} : \A S \in SUBSET Segment :
        (\A s \in S : s.track = t) => StepFor(do, t, S) \in AnyStep
  BY DEF StepFor, LoopStep, AnyStep
<1>7. \A S \in SUBSET BoundaryEvent : StepFor("replaying", t, S) \in AnyStep
  BY DEF StepFor, ReplayStep, AnyStep
<1> QED BY <1>1, <1>2, <1>3, <1>4, <1>5, <1>6, <1>7

(* And what a step carries makes it one of the kinds.                      *)
LEMMA TypedStep ==
  ASSUME NEW x \in AnyStep
  PROVE  /\ x.track \in Both
         /\ x.do = "publish" => x.track = Mic
         /\ x.do \in {"advance", "noteGap", "record", "gapTo"} => x.with \in Nat
         /\ x.do \in {"close", "enqueue", "dispatch", "await"} => x.with \in Segment
         /\ x.do \in {"append", "save", "flush", "resend"} => x.with \in AnyEvent
         /\ x.do = "save" => x.with \in SegmentEvent \cup SealEvent
         /\ x.do \in {"boundary", "inForce"} => x.with \in BoundaryEvent
         /\ x.do \in {"closing", "registering", "asking"} =>
              x.with \in SUBSET Segment /\ \A s \in x.with : s.track = x.track
         /\ x.do = "replaying" => x.with \in SUBSET BoundaryEvent
BY DEF AnyStep, PlainStep, CountStep, SegmentStep, EventStep, SaveStep, BoundaryStep, LoopStep,
       ReplayStep, Both, AnyEvent

(* An event carried by a step is an event.                                 *)
LEMMA TypedEvent ==
  ASSUME NEW e \in AnyEvent
  PROVE  /\ e.kind \in {"segment", "gap", "boundary", "seal"}
         /\ e.kind = "segment" => e.about \in Segment /\ e \in SegmentEvent
         /\ e.kind = "gap" => e.about \in Gap
         /\ e.kind = "boundary" => e \in BoundaryEvent
         /\ e.kind = "seal" => e \in SealEvent
BY DEF AnyEvent, SegmentEvent, GapEvent, BoundaryEvent, SealEvent

(* A segment carried by a step is one of its track.                        *)
LEMMA TypedSegment ==
  ASSUME NEW s \in Segment
  PROVE  s.track \in Both /\ s.start \in Nat /\ s.end \in Nat /\ s.by \in Nat
BY DEF Segment

(* What is there of a track                                                *)
LEMMA TypedTrack ==
  ASSUME Types, NEW t \in Tracks
  PROVE  /\ t \in Both /\ journal[t] \in Journal
         /\ journal[t].final \in Nat /\ journal[t].classified \in Nat
         /\ journal[t].active \in Active \cup {None}
         /\ journal[t].pcm \subseteq Nat /\ journal[t].voiced \subseteq Nat
         /\ journal[t].segments \in Epochs /\ journal[t].gaps \subseteq Gap
         /\ journal[t].boundaries \subseteq BoundaryEvent /\ journal[t].closed \in BOOLEAN
         /\ journal[t].seal \subseteq SealEvent /\ journal[t].saved \subseteq SegmentEvent
         /\ journal[t].dispatched \subseteq Segment /\ journal[t].acknowledged \subseteq BoundaryEvent
         /\ vad[t].cursor \in Nat /\ vad[t].active \in Active \cup {None}
         /\ vad[t] \in [cursor : Nat, active : Active \cup {None}]
         /\ outbox[t] \subseteq AnyEvent
<1>1. t \in Both /\ journal[t] \in Journal /\ vad[t] \in [cursor : Nat, active : Active \cup {None}]
      /\ outbox[t] \subseteq AnyEvent
  BY DEF Types, Tracks, Both
<1> QED BY <1>1 DEF Journal

(* A segment that has been cut is a segment.                               *)
LEMMA TypedCut ==
  ASSUME Types, NEW t \in Tracks
  PROVE  /\ Cut(t) \subseteq Segment
         /\ journal[t].segments = [s \in Cut(t) |-> journal[t].segments[s]]
         /\ \A s \in Cut(t) : journal[t].segments[s] \in Nat \ {0}
BY TypedTrack DEF Epochs, Cut

(* An active segment is no None.                                           *)
LEMMA TypedActive ==
  ASSUME NEW a \in Active \cup {None}, a # None
  PROVE  a.start \in Nat /\ a.by \in Nat /\ a \in Active
BY DEF Active

(* A journal with one field written                                        *)
LEMMA WrittenJournal ==
  ASSUME NEW j \in Journal
  PROVE  /\ [j EXCEPT !.created = TRUE] \in Journal
         /\ \A x \in SUBSET Segment : [j EXCEPT !.dispatched = x] \in Journal
         /\ \A x \in SUBSET SegmentEvent : [j EXCEPT !.saved = x] \in Journal
         /\ \A x \in SUBSET SealEvent : [j EXCEPT !.seal = x] \in Journal
         /\ \A x \in SUBSET Gap : [j EXCEPT !.gaps = x] \in Journal
         /\ \A x \in SUBSET BoundaryEvent : [j EXCEPT !.boundaries = x] \in Journal
         /\ \A x \in SUBSET BoundaryEvent : [j EXCEPT !.acknowledged = x] \in Journal
         /\ \A x \in Nat : [j EXCEPT !.final = x] \in Journal
         /\ \A x \in Epochs : [j EXCEPT !.segments = x] \in Journal
BY DEF Journal

----------------------------------------------------------------------------
(* Steps the invariant says nothing of.                                    *)

(* A quiet step that puts only quiet steps in its place keeps the          *)
(* invariant.                                                              *)
LEMMA QuietTurn ==
  ASSUME CaptureInv, todo # <<>>, NEW new, NEW N, Chain(new, N), Then(new), Quiet(Head(todo)),
         \A x \in N : Quiet(x) /\ x.track \in Tracks /\ Fits(phase, x.do),
         \A x \in N, b \in In(Tail(todo)) : May(x, b), SegmentsOnly,
         UNCHANGED <<sources, recording, phase, vad, epoch, run>>,
         queue' \in Seq(Segment), journal' \in [Tracks -> Journal],
         outbox' \in [Tracks -> SUBSET AnyEvent], ledger' \subseteq AnyEvent,
         \A t \in Tracks : SameTrack(t)
  PROVE  CaptureInv'
<1>1. Types /\ Program
  BY DEF CaptureInv
<1>2. PICK h \in AnyStep, R \in SUBSET AnyStep :
        /\ h = Head(todo) /\ R = In(Tail(todo)) /\ Steps = {h} \cup R /\ h.track \in Tracks
        /\ \A b \in R : May(h, b) /\ b.track \in Tracks
        /\ Fits(phase, h.do) /\ \A b \in R : Fits(phase, b.do)
  BY <1>1, FirstStep
<1>3. Head(todo).do \notin {"flushAll", "finish"}
  BY DEF Quiet
<1>4. /\ todo' \in Seq(AnyStep) /\ Steps' = N \cup In(Tail(todo)) /\ Steps' \subseteq AnyStep
      /\ Ordered(todo') /\ FlushedFirst'
  BY <1>1, <1>3, NextSteps
<1>5. Steps' = N \cup R
  BY <1>2, <1>4
<1>6. \A x \in Steps' : Fits(phase, x.do) /\ x.track \in Tracks
  BY <1>2, <1>5
<1>7. Keeps(Loud)
  <2>1. h \notin Loud /\ \A x \in N : x \notin Loud
    BY <1>2 DEF Loud
  <2> QED BY <1>2, <1>5, <2>1, Kept
<1> QED BY <1>3, <1>4, <1>6, <1>7, QuietKept

(* What leaves outboxes and ledger alone sends and registers nothing.      *)
LEMMA SameEvents ==
  ASSUME UNCHANGED <<outbox, ledger>>
  PROVE  SegmentsOnly
BY DEF SegmentsOnly, Registered, Events

(* Waiting until a segment may be closed changes nothing.                  *)
LEMMA ReadyKept == CaptureInv /\ Ready => CaptureInv'
<1> SUFFICES ASSUME CaptureInv, Ready PROVE CaptureInv'
  OBVIOUS
<1>1. todo # <<>> /\ Head(todo).do = "ready" /\ Then(<<>>)
  BY DEF Ready, Doing
<1>2. UNCHANGED <<sources, recording, journal, outbox, ledger, phase, vad, epoch, queue, run>>
  BY DEF Ready, disk, memory
<1>3. Types
  BY DEF CaptureInv
<1>4. \A t \in Tracks : SameTrack(t)
  BY <1>2 DEF SameTrack, SameTape
<1>5. /\ queue' \in Seq(Segment) /\ journal' \in [Tracks -> Journal]
      /\ outbox' \in [Tracks -> SUBSET AnyEvent] /\ ledger' \subseteq AnyEvent
  BY <1>2, <1>3 DEF Types
<1>6. SegmentsOnly
  BY <1>2, SameEvents
<1>7. Quiet(Head(todo))
  BY <1>1 DEF Quiet
<1> QED BY <1>1, <1>2, <1>4, <1>5, <1>6, <1>7, ChainOfNone, QuietTurn

(* The first of some segments                                              *)
LEMMA FirstIs ==
  ASSUME NEW S, S \subseteq Segment, S # {}
  PROVE  First(S) \in S /\ \A r \in S : First(S).start <= r.start
<1> DEFINE T == {r.start : r \in S}
<1>1. T \subseteq Nat /\ T # {}
  BY TypedSegment
<1>2. PICK n \in T : \A m \in T : n <= m
  BY <1>1, LeastNatural
<1>3. PICK s \in S : s.start = n
  BY <1>2
<1>4. \E s2 \in S : \A r \in S : s2.start <= r.start
  BY <1>2, <1>3
<1> QED BY <1>4 DEF First

(* A turn that writes nothing the invariant looks at                       *)
LEMMA QuietOnly ==
  ASSUME CaptureInv, todo # <<>>, NEW new, NEW N, Chain(new, N), Then(new), Quiet(Head(todo)),
         \A x \in N : Quiet(x) /\ x.track \in Tracks /\ Fits(phase, x.do),
         \A x \in N, b \in In(Tail(todo)) : May(x, b),
         UNCHANGED <<sources, recording, outbox, ledger, phase, vad, epoch, run>>,
         queue' \in Seq(Segment), journal' \in [Tracks -> Journal],
         \A t \in Tracks : SameTrack(t)
  PROVE  CaptureInv'
<1>1. Types
  BY DEF CaptureInv
<1>2. outbox' \in [Tracks -> SUBSET AnyEvent] /\ ledger' \subseteq AnyEvent
  BY <1>1 DEF Types
<1>3. SegmentsOnly
  BY SameEvents
<1> QED BY <1>2, <1>3, QuietTurn

(* What writes neither a journal nor the queue leaves every track as it    *)
(* is.                                                                     *)
LEMMA NothingWritten ==
  ASSUME CaptureInv, UNCHANGED <<journal, queue>>
  PROVE  /\ queue' \in Seq(Segment) /\ journal' \in [Tracks -> Journal]
         /\ \A t \in Tracks : SameTrack(t)
<1>1. Types
  BY DEF CaptureInv
<1> QED BY <1>1 DEF Types, SameTrack, SameTape

(* The journal of a track with a field the invariant does not look at      *)
LEMMA QuietField ==
  ASSUME CaptureInv, NEW t \in Both, NEW j,
         t \in Tracks => /\ j \in Journal
                         /\ \A f \in {"final", "classified", "active", "pcm", "voiced", "segments",
                                      "gaps", "boundaries", "closed", "seal"} : j[f] = journal[t][f],
         journal' = [journal EXCEPT ![t] = j]
  PROVE  journal' \in [Tracks -> Journal] /\ \A u \in Tracks : SameTrack(u)
<1>1. journal \in [Tracks -> Journal]
  BY DEF CaptureInv, Types
<1>2. journal' \in [Tracks -> Journal]
  BY <1>1
<1>3. \A u \in Tracks : journal'[u] = IF u = t THEN j ELSE journal[u]
  BY <1>1
<1>4. ASSUME NEW u \in Tracks PROVE SameTrack(u)
  <2>1. CASE u # t
    BY <1>3, <2>1 DEF SameTrack, SameTape
  <2>2. CASE u = t
    BY <1>3, <2>2 DEF SameTrack, SameTape
  <2> QED BY <2>1, <2>2
<1> QED BY <1>2, <1>4

(* Creating a journal keeps the invariant: nothing has been heard.         *)
LEMMA CreateKept == CaptureInv /\ Create => CaptureInv'
<1> SUFFICES ASSUME CaptureInv, Create PROVE CaptureInv'
  OBVIOUS
<1>1. todo # <<>> /\ Quiet(Head(todo)) /\ Then(<<>>)
  BY DEF Create, Doing, Quiet
<1>2. UNCHANGED <<sources, recording, outbox, ledger, phase, vad, epoch, queue, run>>
  BY DEF Create, memory
<1>3. Types /\ Program
  BY DEF CaptureInv
<1>4. Track \in Tracks
  BY <1>1, <1>3, FirstStep DEF Track
<1> DEFINE T == Track
           j == [journal[T] EXCEPT !.created = TRUE]
<1>5. journal[T] \in Journal /\ T \in Both
  BY <1>3, <1>4, TypedTrack
<1>6. j \in Journal
  BY <1>5, WrittenJournal
<1>7. \A f \in {"final", "classified", "active", "pcm", "voiced", "segments", "gaps", "boundaries",
                "closed", "seal"} : j[f] = journal[T][f]
  BY <1>5 DEF Journal
<1>8. journal' = [journal EXCEPT ![T] = j]
  BY DEF Create
<1> HIDE DEF T, j
<1>9. journal' \in [Tracks -> Journal] /\ \A u \in Tracks : SameTrack(u)
  BY <1>5, <1>6, <1>7, <1>8, QuietField
<1>10. queue' \in Seq(Segment)
  BY <1>2, <1>3 DEF Types
<1> QED BY <1>1, <1>2, <1>9, <1>10, ChainOfNone, QuietOnly

(* Dispatching a segment to the recogniser keeps it.                       *)
LEMMA DispatchKept == CaptureInv /\ Dispatch => CaptureInv'
<1> SUFFICES ASSUME CaptureInv, Dispatch PROVE CaptureInv'
  OBVIOUS
<1>1. todo # <<>> /\ Quiet(Head(todo)) /\ Then(<<>>)
  BY DEF Dispatch, Doing, Quiet
<1>2. UNCHANGED <<sources, recording, journal, outbox, ledger, phase, vad, epoch, queue, run>>
  BY DEF Dispatch, disk, memory
<1> QED BY <1>1, <1>2, NothingWritten, ChainOfNone, QuietOnly

(* So does waiting for the recogniser.                                     *)
LEMMA AwaitKept == CaptureInv /\ Await => CaptureInv'
<1> SUFFICES ASSUME CaptureInv, Await PROVE CaptureInv'
  OBVIOUS
<1>1. todo # <<>> /\ Quiet(Head(todo)) /\ Then(<<>>)
  BY DEF Await, Doing, Quiet
<1>2. UNCHANGED <<sources, recording, outbox, ledger, phase, vad, epoch, queue, run>>
  BY DEF Await, memory
<1>3. Types /\ Program
  BY DEF CaptureInv
<1>4. Track \in Tracks /\ Head(todo) \in AnyStep
  BY <1>1, <1>3, FirstStep DEF Track
<1> DEFINE T == Track
           j == [journal[T] EXCEPT !.dispatched = journal[T].dispatched \cup {With}]
<1>5. journal[T] \in Journal /\ T \in Both /\ journal[T].dispatched \subseteq Segment
  BY <1>3, <1>4, TypedTrack
<1>6. With \in Segment
  BY <1>4, TypedStep DEF Await, Doing, With
<1>7. j \in Journal
  BY <1>5, <1>6, WrittenJournal
<1>8. \A f \in {"final", "classified", "active", "pcm", "voiced", "segments", "gaps", "boundaries",
                "closed", "seal"} : j[f] = journal[T][f]
  BY <1>5 DEF Journal
<1>9. journal' = [journal EXCEPT ![T] = j]
  BY DEF Await
<1> HIDE DEF T, j
<1>10. journal' \in [Tracks -> Journal] /\ \A u \in Tracks : SameTrack(u)
  BY <1>5, <1>7, <1>8, <1>9, QuietField
<1>11. queue' \in Seq(Segment)
  BY <1>2, <1>3 DEF Types
<1> QED BY <1>1, <1>2, <1>10, <1>11, ChainOfNone, QuietOnly

(* So does pumping the queue of the recogniser.                            *)
LEMMA PumpKept == CaptureInv /\ Pump => CaptureInv'
<1> SUFFICES ASSUME CaptureInv, Pump PROVE CaptureInv'
  OBVIOUS
<1>1. todo # <<>> /\ Quiet(Head(todo)) /\ Then(<<>>)
  BY DEF Pump, Doing, Quiet
<1>2. UNCHANGED <<sources, recording, outbox, ledger, phase, vad, epoch, run>>
  BY DEF Pump
<1>3. Types
  BY DEF CaptureInv
<1>4. queue' \in Seq(Segment) /\ journal' \in [Tracks -> Journal] /\ \A u \in Tracks : SameTrack(u)
  <2>1. CASE UNCHANGED <<journal, queue>>
    BY <2>1, NothingWritten
  <2>2. CASE ~UNCHANGED <<journal, queue>>
    <3>1. queue # <<>> /\ queue' = RemoveAt(queue, NextInQueue)
          /\ journal' = [journal EXCEPT ![queue[NextInQueue].track].dispatched =
                           @ \cup {queue[NextInQueue]}]
      BY <2>2 DEF Pump
    <3> DEFINE n == NextInQueue
    <3>2. queue \in Seq(Segment)
      BY <1>3 DEF Types
    <3>3. n \in 1..Len(queue)
      <4>1. Len(queue) \in Nat /\ Len(queue) >= 1 /\ DOMAIN queue = 1..Len(queue)
        BY <3>1, <3>2, EmptySeq, LenProperties
      <4> DEFINE other == {i \in DOMAIN queue : queue[i].track # lastTrack}
      <4>2. CASE other # {}
        <5>1. other \subseteq Nat
          BY <4>1
        <5>2. PICK m \in other : \A i \in other : m <= i
          BY <4>2, <5>1, LeastNatural
        <5>3. Min(other) \in other
          BY <5>2 DEF Min
        <5>4. n = Min(other)
          BY <4>2 DEF NextInQueue
        <5> QED BY <4>1, <5>3, <5>4
      <4>3. CASE other = {}
        <5>1. n = 1
          BY <4>3 DEF NextInQueue
        <5> QED BY <4>1, <5>1
      <4> QED BY <4>2, <4>3
    <3> HIDE DEF n
    <3>4. RemoveAt(queue, n) \in Seq(Segment)
      BY <3>2, <3>3, LenProperties DEF RemoveAt
    <3>5. queue[n] \in Segment
      BY <3>2, <3>3, ElementOfSeq
    <3> DEFINE s == queue[n]
               T == s.track
               j == [journal[T] EXCEPT !.dispatched = journal[T].dispatched \cup {s}]
    <3>6. T \in Both
      BY <3>5, TypedSegment
    <3>7. journal' = [journal EXCEPT ![T] = j]
      BY <3>1 DEF n
    <3>8. ASSUME T \in Tracks
          PROVE  /\ j \in Journal
                 /\ \A f \in {"final", "classified", "active", "pcm", "voiced", "segments", "gaps",
                              "boundaries", "closed", "seal"} : j[f] = journal[T][f]
      <4>1. journal[T] \in Journal /\ journal[T].dispatched \subseteq Segment
        BY <1>3, <3>8, TypedTrack
      <4>2. j \in Journal
        BY <3>5, <4>1, WrittenJournal
      <4> QED BY <4>1, <4>2 DEF Journal
    <3> HIDE DEF s, T, j
    <3>9. journal' \in [Tracks -> Journal] /\ \A u \in Tracks : SameTrack(u)
      BY <3>6, <3>7, <3>8, QuietField
    <3> QED BY <3>1, <3>4, <3>9 DEF n
  <2> QED BY <2>1, <2>2
<1> QED BY <1>1, <1>2, <1>4, ChainOfNone, QuietOnly

----------------------------------------------------------------------------
(* What the ledger takes.                                                  *)

(* An event reaches the ledger from an outbox or a journal, and is taken.  *)
Delivered ==
  \/ ledger' = ledger
  \/ \E e \in AnyEvent :
       /\ ledger' = ledger \cup {e} /\ Accepts(e)
       /\ e.kind = "boundary" => e \in Sent \cup Noted
       /\ e.kind = "seal" => e \in Seals

(* What the ledger takes in that it does not hold: nothing once sealed,    *)
(* and a seal only of the registered segments.                             *)
LEMMA AcceptsIs ==
  ASSUME NEW e \in AnyEvent, Accepts(e), e \notin ledger
  PROVE  /\ ~Sealed
         /\ e.kind = "seal" => \A m \in e.about.tracks :
              m.segments = {s \in Registered : s.track = m.track}
<1>1. ~Sealed
  BY DEF Accepts
<1>2. ASSUME e.kind = "seal"
      PROVE  \A m \in e.about.tracks : m.segments = {s \in Registered : s.track = m.track}
  BY <1>2 DEF Accepts
<1> QED BY <1>1, <1>2

(* What a delivery makes of the ledger and of the outbox it sends from.    *)
LEMMA DeliveredFacts ==
  ASSUME Delivered, Sealing, Types
  PROVE  /\ ledger' \subseteq AnyEvent /\ ledger \subseteq ledger'
         /\ \A e \in ledger' : e.kind = "boundary" => e \in Sent \cup Noted
         /\ \A e \in ledger' : e.kind = "seal" => e \in Seals
         /\ Sealed' => \A t \in Tracks : Cut(t) = {s \in Registered' : s.track = t}
<1>1. CASE ledger' = ledger
  <2>1. Sealed' = Sealed /\ Registered' = Registered
    BY <1>1 DEF Sealed, Registered, Events
  <2>2. \A e \in ledger : e.kind = "seal" => e \in Seals
    BY DEF Seals, SentSeals
  <2>3. \A e \in ledger : e.kind = "boundary" => e \in Sent
    BY DEF Sent
  <2> QED BY <1>1, <2>1, <2>2, <2>3 DEF Sealing, Types
<1>2. CASE ledger' # ledger
  <2>1. PICK e \in AnyEvent : /\ ledger' = ledger \cup {e} /\ Accepts(e) /\ e \notin ledger
                              /\ e.kind = "boundary" => e \in Sent \cup Noted
                              /\ e.kind = "seal" => e \in Seals
    BY <1>2 DEF Delivered
  <2>2. \A f \in ledger : f.kind = "seal" => f \in Seals
    BY DEF Seals, SentSeals
  <2>3. \A f \in ledger : f.kind = "boundary" => f \in Sent
    BY DEF Sent
  <2>4. ~Sealed /\ (e.kind = "seal" => \A m \in e.about.tracks :
                      m.segments = {s \in Registered : s.track = m.track})
    BY <2>1, AcceptsIs
  <2>5. ASSUME Sealed', NEW t \in Tracks PROVE Cut(t) = {s \in Registered' : s.track = t}
    <3>1. e.kind = "seal"
      BY <2>1, <2>4, <2>5 DEF Sealed, Events
    <3>2. Registered' = Registered
      BY <2>1, <3>1 DEF Registered, Events
    <3>3. e.about.tracks = Manifest
      BY <2>1, <3>1 DEF Sealing
    <3> DEFINE m == [track |-> t, final |-> journal[t].final, segments |-> DOMAIN journal[t].segments]
    <3>4. m \in Manifest
      BY DEF Manifest
    <3>5. m.segments = {s \in Registered : s.track = m.track}
      BY <2>4, <3>1, <3>3, <3>4
    <3> QED BY <3>2, <3>5 DEF Cut
  <2>6. ledger' \subseteq AnyEvent
    BY <2>1 DEF Types
  <2> QED BY <2>1, <2>2, <2>3, <2>5, <2>6
<1> QED BY <1>1, <1>2

----------------------------------------------------------------------------
(* The end of a process.                                                   *)

(* Samples that a track records                                            *)
LEMMA HeardIs ==
  ASSUME Types, NEW j \in Journal, NEW n \in Nat, NEW v \in SUBSET (j.final..(j.final + n - 1))
  PROVE  LET k == Heard(j, n, v) IN
         /\ k \in Journal /\ k.final = j.final + n /\ k.voiced = j.voiced \cup v
         /\ \A u \in k.pcm : u \in j.pcm \/ u \in j.final..(j.final + n - 1)
         /\ k.classified = j.classified /\ k.active = j.active /\ k.segments = j.segments
         /\ k.gaps = j.gaps /\ k.boundaries = j.boundaries /\ k.closed = j.closed
         /\ k.seal = j.seal
<1> DEFINE p == IF recording THEN j.pcm \cup (j.final..(j.final + n - 1)) ELSE j.pcm
<1>1. j.final \in Nat /\ j.pcm \subseteq Nat /\ j.voiced \subseteq Nat
  BY DEF Journal
<1>2. j.final..(j.final + n - 1) \subseteq Nat
  BY <1>1
<1>3. p \in SUBSET Nat /\ j.voiced \cup v \in SUBSET Nat /\ j.final + n \in Nat
  <2>1. p \subseteq Nat
    <3>1. CASE recording
      BY <1>1, <1>2, <3>1
    <3>2. CASE ~recording
      BY <1>1, <3>2
    <3> QED BY <3>1, <3>2
  <2>2. v \subseteq Nat
    BY <1>2
  <2>3. \A S : S \subseteq Nat => S \in SUBSET Nat
    OBVIOUS
  <2>4. j.voiced \cup v \subseteq Nat
    BY <1>1, <2>2
  <2>5. j.final + n \in Nat
    BY <1>1
  <2> HIDE DEF p
  <2> QED BY <2>1, <2>3, <2>4, <2>5
<1>4. \A u \in p : u \in j.pcm \/ u \in j.final..(j.final + n - 1)
  OBVIOUS
<1>5. Heard(j, n, v) = [j EXCEPT !.final = j.final + n, !.voiced = j.voiced \cup v, !.pcm = p]
  BY DEF Heard, Journal
<1> HIDE DEF p
<1> QED BY <1>3, <1>4, <1>5 DEF Journal

(* A journal at the end of a process: as it was, or a little longer.       *)
Longer(t) ==
  /\ journal'[t].final = journal[t].final + 1 /\ ~Closed(t) /\ t = Mic /\ ~Dual /\ phase = "live"
  /\ \A x \in Steps : x.do # "boundary"
  /\ \A u \in journal'[t].voiced : u \in journal[t].voiced \/ u = journal[t].final
  /\ \A u \in journal'[t].pcm : u \in journal[t].pcm \/ u = journal[t].final
  /\ journal'[t].classified = journal[t].classified /\ journal'[t].active = journal[t].active
  /\ journal'[t].segments = journal[t].segments /\ journal'[t].gaps = journal[t].gaps
  /\ journal'[t].boundaries = journal[t].boundaries
  /\ journal'[t].closed = journal[t].closed /\ journal'[t].seal = journal[t].seal

Left ==
  /\ Delivered
  /\ phase' \in {"failed", "down"} /\ todo' = <<>>
  /\ UNCHANGED <<sources, recording, outbox, run>>
  /\ queue' \in Seq(Segment) /\ journal' \in [Tracks -> Journal]
  /\ \A t \in Tracks : SameTrack(t) \/ Longer(t)
  /\ vad' = vad \/ vad' = [t \in Tracks |-> NewVad]
  /\ epoch' = epoch \/ epoch' = 1

(* A capture that ends has no step left.                                   *)
LEMMA LeftSteps ==
  ASSUME todo' = <<>>
  PROVE  Steps' = {} /\ Ordered(todo') /\ FlushedFirst' /\ todo' \in Seq(AnyStep)
<1>1. In(todo') = {} /\ Ordered(todo') /\ Adjacent(todo') /\ todo' \in Seq(AnyStep)
  BY NoSteps
<1> QED BY <1>1 DEF Steps, FlushedFirst, Doing

(* What is on the disk stays true when the process ends,                   *)
LEMMA LeftDisk ==
  ASSUME CaptureInv, Left, NEW t \in Tracks
  PROVE  Disk(t)'
<1>1. Types /\ Disk(t) /\ Clock(t) /\ ~Live'
  BY DEF CaptureInv, Left, Live
<1>2. Cut(t)' = Cut(t) /\ Low(t)' = Low(t) /\ Closed(t)' = Closed(t)
  BY DEF Cut, Low, Closed, Left, SameTrack, SameTape, Longer
<1>3. \A u : Behind(t, u)' <=> Behind(t, u)
  BY <1>2 DEF Behind
<1>4. CASE SameTrack(t)
  BY <1>1, <1>2, <1>3, <1>4 DEF Disk, SameTrack, SameTape
<1>5. CASE Longer(t)
  <2>1. journal[t].final \in Nat /\ Low(t) <= journal[t].final /\ journal[t].classified \in Nat
        /\ Low(t) \in Nat
    BY <1>1, TypedTrack, TypedActive DEF Disk, Low
  <2>2. Cut(t) \subseteq Segment
    BY <1>1, TypedCut
  <2>3. /\ journal'[t].classified <= journal'[t].final /\ Low(t)' <= journal'[t].final
        /\ journal'[t].closed = TRUE => Low(t)' = journal'[t].final
    BY <1>1, <1>2, <1>5, <2>1 DEF Disk, Longer, Closed
  <2>4. \A r \in Cut(t) : r.track = t /\ r.start < r.end /\ r.end <= journal'[t].final
    BY <1>1, <1>5, <2>1, <2>2, TypedSegment DEF Disk, Longer
  <2>5. ASSUME NEW g \in journal[t].gaps
        PROVE  /\ g.track = t /\ g.start < g.end /\ g.end <= journal'[t].final
               /\ \A u \in journal'[t].pcm : ~Holds(g, u)
               /\ \A r \in Cut(t) : Apart(g, r)
    <3>1. g.start \in Nat /\ g.end \in Nat
      BY <1>1, TypedTrack DEF Gap
    <3> QED BY <1>1, <1>5, <2>1, <3>1 DEF Disk, Longer, Holds
  <2>6. ASSUME NEW u \in journal'[t].voiced, Behind(t, u) PROVE \E r \in Cut(t) : Holds(r, u)
    <3>1. u \in journal[t].voiced \/ u = journal[t].final
      BY <1>5 DEF Longer
    <3>2. ~Behind(t, journal[t].final)
      BY <1>1, <2>1, <2>2, TypedSegment DEF Disk, Behind
    <3> QED BY <1>1, <2>6, <3>1, <3>2 DEF Disk
  <2>7. \A b \in journal'[t].boundaries : b.about.start <= Low(t)'
    BY <1>1, <1>2, <1>5 DEF Disk, Longer
  <2>8. journal'[t].gaps = journal[t].gaps
    BY <1>5 DEF Longer
  <2> QED BY <1>1, <1>2, <1>3, <2>3, <2>4, <2>5, <2>6, <2>7, <2>8 DEF Disk, Closed
<1> QED BY <1>4, <1>5 DEF Left

(* so does what is said of each track,                                     *)
LEMMA LeftTrack ==
  ASSUME CaptureInv, Left, NEW t \in Tracks
  PROVE  Clock(t)' /\ Pieces(t)' /\ Cover(t)' /\ Announced(t)'
<1>1. Types /\ Clock(t) /\ Announced(t) /\ ~Live' /\ Over' /\ phase' # "recovering"
  BY DEF CaptureInv, Left, Live, Over
<1>2. Steps' = {}
  BY LeftSteps DEF Left
<1>3. \A k : ~Has(k, t)'
  BY <1>2 DEF Has
<1>4. journal[t].final \in Nat /\ journal[t].voiced \subseteq Nat /\ journal[t].pcm \subseteq Nat
  BY <1>1, TypedTrack
<1>5. Clock(t)'
  <2>1. \A u \in journal'[t].voiced \cup journal'[t].pcm : u < journal'[t].final
    BY <1>1, <1>4 DEF Clock, Left, SameTrack, SameTape, Longer
  <2>2. vad'[t].active # None => vad'[t].active.start < vad'[t].cursor
    BY <1>1 DEF Clock, Left, NewVad
  <2> QED BY <1>1, <1>3, <2>1, <2>2 DEF Clock
<1>6. Pieces(t)'
  BY <1>2 DEF Pieces, Pending
<1>7. Cover(t)'
  BY <1>1 DEF Cover
<1>8. Announced(t)'
  <2>1. Cut(t)' = Cut(t) /\ Low(t)' = Low(t) /\ Closed(t)' = Closed(t)
    BY DEF Cut, Low, Closed, Left, SameTrack, SameTape, Longer
  <2>2. \A u : Behind(t, u)' <=> Behind(t, u)
    BY <2>1 DEF Behind
  <2>3. journal'[t].gaps = journal[t].gaps /\ outbox' = outbox /\ phase' \in {"failed", "down"}
    BY DEF Left, SameTrack, SameTape, Longer
  <2>4. ledger \subseteq ledger'
    BY <1>1, DeliveredFacts DEF Left, CaptureInv
  <2> QED BY <1>1, <2>1, <2>2, <2>3, <2>4 DEF Announced
<1> QED BY <1>5, <1>6, <1>7, <1>8

(* of the seals,                                                           *)
LEMMA LeftSealing ==
  ASSUME CaptureInv, Left
  PROVE  Sealing'
<1>1. Types /\ Sealing /\ Tracks' = Tracks /\ phase' \notin {"opening", "live"}
  BY DEF CaptureInv, Left, Tracks
<1>2. Steps' = {} /\ ~Has("publish", Mic)'
  BY LeftSteps DEF Left, Has
<1>3. \A t \in Tracks : Cut(t)' = Cut(t) /\ Closed(t)' = Closed(t)
  BY DEF Cut, Closed, Left, SameTrack, SameTape, Longer
<1>4. \A e \in ledger' : e.kind = "seal" => e \in Seals
  BY <1>1, DeliveredFacts DEF Left
<1>5. ASSUME NEW e PROVE IsSeal(e)' => IsSeal(e)
  <2>1. \A t \in Tracks : journal'[t].seal = journal[t].seal /\ outbox'[t] = outbox[t]
    BY DEF Left, SameTrack, SameTape, Longer
  <2>2. e \in ledger' /\ e.kind = "seal" => IsSeal(e)
    BY <1>4, SealsAre
  <2> QED BY <1>1, <1>2, <2>1, <2>2 DEF IsSeal
<1>6. (\A e : e \in Seals <=> IsSeal(e))'
  BY SealsAre, PTL
<1>7. Seals' \subseteq Seals
  BY <1>5, <1>6, SealsAre
<1>8. ASSUME NEW e \in Seals' PROVE e.about.tracks = Manifest' /\ \A t \in Tracks' : Closed(t)'
  <2>1. e.about.tracks = Manifest /\ \A t \in Tracks : Closed(t)
    BY <1>1, <1>7 DEF Sealing
  <2>2. \A t \in Tracks : SameTrack(t)
    BY <2>1 DEF Left, Longer
  <2>3. Manifest' = Manifest
    BY <1>1, <2>2 DEF Manifest, SameTrack, SameTape
  <2> QED BY <1>1, <1>3, <2>1, <2>3
<1>9. Sealed' => \A t \in Tracks' : Cut(t)' = {s \in Registered' : s.track = t}
  <2>1. Sealed' => \A t \in Tracks : Cut(t) = {s \in Registered' : s.track = t}
    BY <1>1, DeliveredFacts DEF Left
  <2> QED BY <1>1, <1>3, <2>1
<1> QED BY <1>1, <1>2, <1>8, <1>9 DEF Sealing

(* and of the directions:                                                  *)
LEMMA LeftDirections ==
  ASSUME CaptureInv, Left
  PROVE  Direction1' /\ Direction2'
<1>1. Types /\ Sealing /\ Direction1 /\ Direction2 /\ Tracks' = Tracks /\ Dual' = Dual
      /\ Mic \in Tracks /\ Over' /\ outbox' = outbox
  BY DEF CaptureInv, Types, Both, Left, Tracks, Dual, Over
<1>2. Steps' = {} /\ \A k : ~Has(k, Mic)'
  BY LeftSteps DEF Left, Has
<1>3. \A t \in Tracks : journal'[t].boundaries = journal[t].boundaries
                        /\ journal'[t].segments = journal[t].segments
  BY DEF Left, SameTrack, SameTape, Longer
<1>4. ledger \subseteq ledger' /\ \A e \in ledger' : e.kind = "boundary" => e \in Sent \cup Noted
  BY <1>1, DeliveredFacts DEF Left
<1>5. Noted' = Noted /\ Sent' \subseteq Sent \cup Noted /\ InLedger \subseteq InLedger'
  BY <1>1, <1>3, <1>4 DEF Noted, Sent, InLedger
<1>6. Direction1'
  <2>1. \A t \in Tracks' : t # Mic => journal'[t].boundaries = {} /\ \A e \in outbox'[t] : e.kind # "boundary"
    BY <1>1, <1>3 DEF Direction1
  <2>2. Dual' => Noted' = {} /\ Sent' = {}
    BY <1>1, <1>5 DEF Direction1
  <2> QED BY <1>2, <2>1, <2>2 DEF Direction1
<1>7. \A b \in Sent' : b \in Noted' \/ b.about.start = journal'[Mic].final
  <2>1. CASE SameTrack(Mic)
    BY <1>1, <1>5, <2>1 DEF Direction2, SameTrack, SameTape
  <2>2. CASE Longer(Mic)
    <3>1. ~Over /\ phase # "recovering" /\ \A x \in Steps : x.do # "boundary"
      BY <2>2 DEF Longer, Over
    <3> QED BY <1>1, <1>5, <3>1 DEF Direction2
  <2> QED BY <1>1, <2>1, <2>2 DEF Left
<1>8. epoch' = 1 \/ \E b \in Noted' \cap ledger' : b.about.epoch = epoch'
  BY <1>1, <1>4, <1>5 DEF Direction2, Left
<1>9. ASSUME NEW t \in Tracks, NEW s \in Cut(t)
      PROVE  /\ \/ journal'[t].segments[s] = 1
                \/ \E b \in InLedger' : /\ b.about.epoch = journal'[t].segments[s]
                                        /\ b.about.start <= s.start
             /\ \A b \in Sent' \cup Noted' :
                  b.about.start <= s.start => b.about.epoch <= journal'[t].segments[s]
  BY <1>1, <1>3, <1>5 DEF Direction2
<1>10. \A t \in Tracks : Cut(t)' = Cut(t)
  BY <1>3 DEF Cut
<1> QED BY <1>1, <1>6, <1>7, <1>8, <1>9, <1>10 DEF Direction2

(* an end of the process keeps the invariant.                              *)
LEMMA LeftKept ==
  ASSUME CaptureInv, Left
  PROVE  CaptureInv'
<1>1. Tracks' = Tracks /\ Steps' = {} /\ Ordered(todo') /\ FlushedFirst' /\ todo' \in Seq(AnyStep)
  BY LeftSteps DEF Left, Tracks
<1>2. Types'
  <2>1. Types /\ ledger' \subseteq AnyEvent
    BY DeliveredFacts DEF CaptureInv, Left
  <2>2. vad' \in [Tracks -> [cursor : Nat, active : Active \cup {None}]]
    <3>1. NewVad \in [cursor : Nat, active : Active \cup {None}]
      BY DEF NewVad
    <3> QED BY <2>1, <3>1 DEF Left, Types
  <2>3. epoch' \in Nat \ {0}
    BY <2>1 DEF Left, Types
  <2>4. phase' \in Phases
    BY DEF Left, Phases
  <2> QED BY <1>1, <2>1, <2>2, <2>3, <2>4 DEF Left, Types
<1>3. Program'
  <2>1. Shape'
    BY <1>1 DEF Shape, Has
  <2>2. Fresh'
    BY DEF Fresh, Left
  <2> QED BY <1>1, <2>1, <2>2 DEF Program
<1> QED BY <1>1, <1>2, <1>3, LeftDisk, LeftTrack, LeftSealing, LeftDirections DEF CaptureInv

----------------------------------------------------------------------------
(* Lists that seal the journals.                                           *)

SealOf(t) == {Step("flushAll", t), Step("seal", t)}

(* The steps that seal a track are a chain: its outbox first, then its     *)
(* seal.                                                                   *)
LEMMA SealTrackChain ==
  ASSUME NEW t \in Both
  PROVE  Chain(SealTrack(t), SealOf(t))
<1> DEFINE a == Step("flushAll", t)
           b == Step("seal", t)
<1>1. a \in AnyStep /\ b \in AnyStep
  BY StepTyped DEF PlainKinds
<1>2. a.do = "flushAll" /\ a.track = t /\ b.do = "seal" /\ b.track = t
  BY PlainIs
<1>3. SealTrack(t) = <<a, b>>
  BY DEF SealTrack
<1> HIDE DEF a, b
<1>4. May(a, b)
  BY <1>2 DEF May, GapAbout, BoundaryAbout
<1>5. <<a, b>> \in Seq(AnyStep) /\ In(<<a, b>>) = {a, b}
  BY <1>1 DEF In
<1>6. Ordered(<<a, b>>)
  BY <1>4 DEF Ordered
<1>7. Adjacent(<<a, b>>) /\ <<a, b>>[1].do # "seal"
  BY <1>2 DEF Adjacent
<1>8. SealOf(t) = {a, b}
  BY DEF SealOf, a, b
<1> QED BY <1>3, <1>5, <1>6, <1>7, <1>8 DEF Chain

SealSet == (IF Dual THEN SealOf(Mic) \cup SealOf(System) ELSE SealOf(Mic)) \cup {Step("publish", Mic)}

(* The steps that seal every track are a chain.                            *)
LEMMA SealStepsChain ==
  ASSUME Types
  PROVE  /\ Chain(SealSteps, SealSet)
         /\ \A x \in SealSet : /\ x \in AnyStep /\ x.track \in Tracks
                               /\ x.do \in {"flushAll", "seal", "publish"}
                               /\ x.do = "publish" => x.track = Mic
         /\ \A t \in Tracks : \E x \in SealSet : x.do = "seal" /\ x.track = t
         /\ SealSteps # <<>>
<1>1. Mic \in Both /\ System \in Both /\ Mic \in Tracks /\ Tracks \subseteq Both
      /\ Tracks = IF Dual THEN {Mic, System} ELSE {Mic}
  BY CaptureAssumption DEF Types, Tracks, Both, Dual
<1> DEFINE p == Step("publish", Mic)
<1>2. p \in AnyStep /\ p.do = "publish" /\ p.track = Mic
  BY <1>1, StepTyped, PlainIs DEF PlainKinds
<1>3. Chain(<<p>>, {p})
  BY <1>2, ChainOfOne
<1>4. \A t \in Both : \A x \in SealOf(t) :
        x \in AnyStep /\ x.track = t /\ x.do \in {"flushAll", "seal"}
  BY StepTyped, PlainIs DEF SealOf, PlainKinds
<1>5. \A t \in Both : \E x \in SealOf(t) : x.do = "seal" /\ x.track = t
  BY PlainIs DEF SealOf
<1>6. \A t \in Both : \A x \in SealOf(t) : May(x, p)
  BY <1>2, <1>4 DEF May, GapAbout, BoundaryAbout
<1>7. Chain(SealTrack(Mic), SealOf(Mic)) /\ Chain(SealTrack(System), SealOf(System))
  BY <1>1, SealTrackChain
<1>8. \A x \in SealOf(Mic), y \in SealOf(System) : May(x, y)
  BY <1>1, <1>4, CaptureAssumption DEF May, GapAbout, BoundaryAbout
<1> HIDE DEF p
<1>9. CASE Dual
  <2>1. SealSteps = (SealTrack(Mic) \o SealTrack(System)) \o <<p>>
    BY <1>9 DEF SealSteps, Publisher, p
  <2>2. Chain(SealTrack(Mic) \o SealTrack(System), SealOf(Mic) \cup SealOf(System))
    BY <1>7, <1>8, ChainJoin
  <2>3. \A x \in SealOf(Mic) \cup SealOf(System), y \in {p} : May(x, y)
    BY <1>1, <1>6
  <2>4. Chain(SealSteps, (SealOf(Mic) \cup SealOf(System)) \cup {p})
    BY <1>3, <2>1, <2>2, <2>3, ChainJoin
  <2>5. SealSet = (SealOf(Mic) \cup SealOf(System)) \cup {p}
    BY <1>1, <1>9 DEF SealSet, p
  <2> QED BY <1>1, <1>2, <1>4, <1>5, <1>9, <2>4, <2>5 DEF Chain, In
<1>10. CASE ~Dual
  <2>1. SealSteps = (SealTrack(Mic) \o <<>>) \o <<p>>
    BY <1>10 DEF SealSteps, Publisher, p
  <2>2. SealTrack(Mic) \o <<>> = SealTrack(Mic)
    BY <1>7 DEF Chain
  <2>3. \A x \in SealOf(Mic), y \in {p} : May(x, y)
    BY <1>1, <1>6
  <2>4. Chain(SealSteps, SealOf(Mic) \cup {p})
    BY <1>3, <1>7, <2>1, <2>2, <2>3, ChainJoin
  <2>5. SealSet = SealOf(Mic) \cup {p}
    BY <1>1, <1>10 DEF SealSet, p
  <2> QED BY <1>1, <1>2, <1>4, <1>5, <1>10, <2>4, <2>5 DEF Chain, In
<1> QED BY <1>9, <1>10

----------------------------------------------------------------------------
(* A capture that was stopped before it began seals again.                 *)

Again ==
  /\ Delivered
  /\ phase \in {"opening", "abandoned"} /\ phase' = "abandoned" /\ todo' = SealSteps
  /\ UNCHANGED <<sources, recording, journal, outbox, vad, epoch, run>>
  /\ queue' \in Seq(Segment)

(* A refused step that is tried again keeps the invariant.                 *)
LEMMA AgainKept ==
  ASSUME CaptureInv, Again
  PROVE  CaptureInv'
<1>1. Types /\ Program /\ Sealing /\ Direction1 /\ Direction2
  BY DEF CaptureInv
<1>2. /\ Chain(SealSteps, SealSet)
      /\ \A x \in SealSet : /\ x \in AnyStep /\ x.track \in Tracks
                            /\ x.do \in {"flushAll", "seal", "publish"}
                            /\ x.do = "publish" => x.track = Mic
      /\ \A t \in Tracks : \E x \in SealSet : x.do = "seal" /\ x.track = t
      /\ SealSteps # <<>>
  BY <1>1, SealStepsChain
<1>3. /\ todo' \in Seq(AnyStep) /\ In(todo') = SealSet /\ Ordered(todo') /\ Adjacent(todo')
      /\ todo' # <<>> /\ todo'[1].do # "seal"
  BY <1>2 DEF Chain, Again
<1>4. Steps' = SealSet /\ Head(todo') = todo'[1]
  BY <1>3, SplitList DEF Steps
<1>5. FlushedFirst'
  BY <1>3, <1>4 DEF FlushedFirst, Doing
<1>6. Tracks' = Tracks /\ Dual' = Dual /\ Mic \in Tracks
  BY <1>1 DEF Tracks, Dual, Again, Types, Both
<1>7. \A k : k \notin {"flushAll", "seal", "publish"} => \A t : ~Has(k, t)'
  BY <1>2, <1>4 DEF Has
<1>8. \A t \in Tracks : journal[t].final = 0 /\ journal[t].gaps = {} /\ vad[t] = NewVad
  BY <1>1 DEF Program, Fresh, Again
<1>9. \A x \in Steps : x.do \in {"create", "barrier", "flushAll", "seal", "publish", "resend",
                                 "append", "save", "flush"}
  BY <1>1 DEF Program, Shape, Again, Fits
<1>10. Types'
  <2>1. ledger' \subseteq AnyEvent
    BY <1>1, DeliveredFacts DEF Again
  <2> QED BY <1>1, <1>2, <1>3, <1>4, <1>6, <2>1 DEF Again, Types, Phases
<1>11. Program'
  <2>1. \A x \in Steps' : Fits(phase', x.do)
    BY <1>2, <1>4 DEF Fits, Again
  <2>2. Shape'
    BY <1>2, <1>4, <1>7, <2>1 DEF Shape
  <2>3. Fresh'
    BY <1>6, <1>8 DEF Fresh, Again
  <2> QED BY <1>3, <1>5, <2>2, <2>3 DEF Program
<1>12. ASSUME NEW t \in Tracks
       PROVE  Clock(t)' /\ Pieces(t)' /\ Disk(t)' /\ Cover(t)' /\ Announced(t)'
  <2>1. Clock(t) /\ Disk(t) /\ journal'[t] = journal[t] /\ vad'[t] = vad[t] /\ vad[t] = NewVad
        /\ journal[t].final = 0 /\ journal[t].gaps = {}
        /\ journal[t].voiced \subseteq Nat /\ journal[t].pcm \subseteq Nat
    BY <1>1, <1>8, TypedTrack DEF CaptureInv, Again
  <2>2. \A u \in journal[t].voiced \cup journal[t].pcm : FALSE
    BY <2>1 DEF Clock
  <2>3. Clock(t)'
    <3>1. vad[t].active = None /\ vad[t].cursor = 0 /\ phase' = "abandoned"
      BY <2>1 DEF NewVad, Again
    <3>2. /\ ~Has("advance", t)' /\ ~Has("noteGap", t)' /\ ~Has("skip", t)' /\ ~Has("record", t)'
          /\ ~Has("checkpoint", t)'
      BY <1>7
    <3>3. \A x \in Steps' : x.do # "noteGap"
      BY <1>2, <1>4
    <3> QED BY <2>1, <2>2, <3>1, <3>2, <3>3 DEF Clock
  <2>4. Pieces(t)'
    BY <1>2, <1>4 DEF Pieces, Pending
  <2>5. Disk(t)'
    <3>1. Live /\ From(t)' = From(t) /\ Cut(t)' = Cut(t) /\ Low(t)' = Low(t) /\ Closed(t)' = Closed(t)
      BY <2>1 DEF Live, From, Cut, Low, Closed, Again
    <3> QED BY <2>1, <2>2, <3>1 DEF Disk
  <2>6. Cover(t)'
    BY <2>1, <2>2 DEF Cover
  <2>7. Announced(t)'
    BY <2>1 DEF Announced
  <2> QED BY <2>3, <2>4, <2>5, <2>6, <2>7
<1>13. Sealing'
  <2>1. Manifest' = Manifest /\ \A t \in Tracks : Closed(t)' = Closed(t) /\ Cut(t)' = Cut(t)
    BY <1>6 DEF Manifest, Closed, Cut, Again
  <2>2. \A t \in Tracks : Has("seal", t)'
    BY <1>2, <1>4 DEF Has
  <2>3. ASSUME NEW e PROVE IsSeal(e)' => IsSeal(e)
    <3>1. e \in ledger' /\ e.kind = "seal" => IsSeal(e)
      BY <1>1, DeliveredFacts, SealsAre DEF Again
    <3>2. \A t \in Tracks : journal'[t].seal = journal[t].seal /\ outbox'[t] = outbox[t]
      BY DEF Again
    <3> QED BY <1>2, <1>4, <1>6, <3>1, <3>2 DEF IsSeal
  <2>4. (\A e : e \in Seals <=> IsSeal(e))'
    BY SealsAre, PTL
  <2>5. Seals' \subseteq Seals
    BY <2>3, <2>4, SealsAre
  <2>6. Sealed' => \A t \in Tracks : Cut(t) = {s \in Registered' : s.track = t}
    BY <1>1, DeliveredFacts DEF Again
  <2>7. \A x \in Steps' : x.do \in {"flushAll", "seal", "publish"}
    BY <1>2, <1>4
  <2>8. phase' = "abandoned"
    BY DEF Again
  <2> QED BY <1>1, <1>6, <2>1, <2>2, <2>5, <2>6, <2>7, <2>8 DEF Sealing
<1>14. Direction1' /\ Direction2'
  <2>1. \A x \in Steps' : x.do \in {"flushAll", "seal", "publish"}
    BY <1>2, <1>4
  <2>2. \A k : \A t : k \notin {"flushAll", "seal", "publish"} => ~Has(k, t)'
    BY <1>7
  <2>3. ledger \subseteq ledger' /\ \A e \in ledger' : e.kind = "boundary" => e \in Sent \cup Noted
    BY <1>1, DeliveredFacts DEF Again
  <2>4. Noted' = Noted /\ Sent' \subseteq Sent \cup Noted /\ InLedger \subseteq InLedger'
        /\ ~Over /\ epoch' = epoch /\ journal' = journal /\ outbox' = outbox
    BY <2>3 DEF Noted, Sent, InLedger, Over, Again
  <2>5. Direction1'
    BY <1>1, <1>6, <2>1, <2>2, <2>4 DEF Direction1, BoundaryAbout
  <2>6. \A b \in Sent : b \in Noted
    BY <1>1, <1>9, <2>4 DEF Direction2, Again
  <2>7. \A b \in Noted : b.about.epoch <= epoch
    BY <1>1, <1>9, <2>4 DEF Direction2, Has
  <2>8. \A t \in Tracks : Cut(t)' = Cut(t)
    BY <2>4 DEF Cut
  <2>9. epoch' = 1 \/ \E b \in Noted' \cap ledger' : b.about.epoch = epoch'
    BY <1>1, <2>3, <2>4 DEF Direction2
  <2>10. ASSUME NEW t \in Tracks, NEW s \in Cut(t)
         PROVE  /\ \/ journal'[t].segments[s] = 1
                   \/ \E b \in InLedger' : /\ b.about.epoch = journal'[t].segments[s]
                                           /\ b.about.start <= s.start
                /\ \A b \in Sent' \cup Noted' :
                     b.about.start <= s.start => b.about.epoch <= journal'[t].segments[s]
    BY <1>1, <2>4 DEF Direction2
  <2> QED BY <1>6, <2>4, <2>5, <2>6, <2>7, <2>8, <2>9, <2>10 DEF Direction2
<1> QED BY <1>6, <1>10, <1>11, <1>12, <1>13, <1>14 DEF CaptureInv

(* So does a step that gives the capture up.                               *)
LEMMA GivesUpKept ==
  ASSUME CaptureInv, NEW why, GivesUp(why), Delivered, todo # <<>>,
         Head(todo).do \notin {"append", "boundary"},
         UNCHANGED <<sources, recording, outbox, vad, epoch, queue, run>>
  PROVE  CaptureInv'
<1>1. Types /\ Program
  BY DEF CaptureInv
<1>2. journal \in [Tracks -> Journal] /\ queue' \in Seq(Segment)
  BY <1>1 DEF Types
<1>3. ASSUME journal' # journal
      PROVE  journal' \in [Tracks -> Journal] /\ \A t \in Tracks : SameTrack(t) \/ Longer(t)
  <2>1. phase = "live" /\ ~Dual /\ ~journal[Mic].closed
    BY <1>3 DEF GivesUp
  <2>2. PICK v \in SUBSET {journal[Mic].final} :
          journal' = [journal EXCEPT ![Mic] = Heard(@, 1, v)]
    BY <1>3 DEF GivesUp
  <2>3. Tracks = {Mic}
    BY <1>1, <2>1 DEF Types, Tracks, Both, Dual
  <2>4. journal[Mic] \in Journal /\ journal[Mic].final \in Nat
    BY <1>1, <2>3, TypedTrack
  <2> DEFINE j == journal[Mic]
             k == Heard(j, 1, v)
  <2>5. j.final..(j.final + 1 - 1) = {j.final}
    BY <2>4
  <2>6. v \in SUBSET (j.final..(j.final + 1 - 1))
    BY <2>5
  <2>7. /\ k \in Journal /\ k.final = j.final + 1 /\ k.voiced = j.voiced \cup v
        /\ \A u \in k.pcm : u \in j.pcm \/ u \in j.final..(j.final + 1 - 1)
        /\ k.classified = j.classified /\ k.active = j.active /\ k.segments = j.segments
        /\ k.gaps = j.gaps /\ k.boundaries = j.boundaries /\ k.closed = j.closed
        /\ k.seal = j.seal
    BY <1>1, <2>4, <2>6, HeardIs
  <2>8. journal' \in [Tracks -> Journal] /\ journal'[Mic] = k
    BY <1>2, <2>2, <2>3, <2>7
  <2>9. \A x \in Steps : x.do # "boundary"
    <3>1. PICK h \in AnyStep, R \in SUBSET AnyStep :
            /\ h = Head(todo) /\ R = In(Tail(todo)) /\ Steps = {h} \cup R /\ h.track \in Tracks
            /\ \A b \in R : May(h, b) /\ b.track \in Tracks
            /\ Fits(phase, h.do) /\ \A b \in R : Fits(phase, b.do)
      BY <1>1, FirstStep
    <3>2. \A b \in R : b.do # "boundary"
      BY <2>3, <3>1 DEF May
    <3> QED BY <3>1, <3>2
  <2>10. ~Closed(Mic)
    BY <2>1 DEF Closed
  <2>11. Longer(Mic)
    BY <2>1, <2>3, <2>5, <2>7, <2>8, <2>9, <2>10 DEF Longer
  <2> QED BY <2>3, <2>8, <2>11
<1>4. ASSUME journal' = journal
      PROVE  journal' \in [Tracks -> Journal] /\ \A t \in Tracks : SameTrack(t)
  BY <1>2, <1>4 DEF SameTrack, SameTape
<1>5. CASE phase' = "failed" /\ todo' = <<>>
  <2>1. Left
    BY <1>2, <1>3, <1>4, <1>5 DEF Left
  <2> QED BY <2>1, LeftKept
<1>6. CASE phase = "abandoned" /\ ~Dual /\ todo' = SealSteps /\ phase' = phase
  <2>1. journal' = journal
    BY <1>6 DEF GivesUp
  <2>2. Again
    BY <1>2, <1>6, <2>1 DEF Again
  <2> QED BY <2>2, AgainKept
<1> QED BY <1>5, <1>6 DEF GivesUp

(* What leaves the ledger alone delivers nothing.                          *)
LEMMA NothingDelivered ==
  ASSUME ledger' = ledger
  PROVE  Delivered
BY DEF Delivered

(* A step that only asks fails.                                            *)
LEMMA UnreachableKept ==
  ASSUME CaptureInv, Unreachable, todo # <<>>, Head(todo).do \notin {"append", "boundary"}
  PROVE  CaptureInv'
<1>1. GivesUp("unreachable") /\ UNCHANGED <<sources, recording, outbox, ledger, vad, epoch, queue, run>>
  BY DEF Unreachable, memory
<1> QED BY <1>1, NothingDelivered, GivesUpKept

(* Every step that fails while it only asks keeps the invariant.           *)
LEMMA AskingFailsKept ==
  CaptureInv /\ (BarrierFails \/ ReadyFails \/ PumpFails \/ PublishFails \/ AskFails \/ AwaitFails
                   \/ AcknowledgeFails) => CaptureInv'
<1> SUFFICES ASSUME CaptureInv,
                    BarrierFails \/ ReadyFails \/ PumpFails \/ PublishFails \/ AskFails
                      \/ AwaitFails \/ AcknowledgeFails
             PROVE  CaptureInv'
  OBVIOUS
<1>1. Unreachable /\ todo # <<>> /\ Head(todo).do \notin {"append", "boundary"}
  BY DEF BarrierFails, ReadyFails, PumpFails, PublishFails, AskFails, AwaitFails, AcknowledgeFails,
         Doing
<1> QED BY <1>1, UnreachableKept

(* Tearing the capture down keeps it.                                      *)
LEMMA TearDownKept == CaptureInv /\ TearDown => CaptureInv'
<1> SUFFICES ASSUME CaptureInv, TearDown PROVE CaptureInv'
  OBVIOUS
<1>1. Types
  BY DEF CaptureInv
<1>2. UNCHANGED <<sources, recording, journal, outbox, ledger, vad, epoch, queue, run>>
      /\ phase' = "failed" /\ todo' = <<>>
  BY DEF TearDown, disk, memory
<1>3. Left
  BY <1>1, <1>2, NothingDelivered DEF Left, Types, SameTrack, SameTape
<1> QED BY <1>3, LeftKept

(* A crash keeps it, whatever step it interrupts.                          *)
LEMMA CrashKept == CaptureInv /\ Crash => CaptureInv'
<1> SUFFICES ASSUME CaptureInv, Crash PROVE CaptureInv'
  OBVIOUS
<1>1. Types
  BY DEF CaptureInv
<1>2. UNCHANGED <<sources, recording, journal, outbox, ledger, run>>
      /\ phase' = "down" /\ todo' = <<>> /\ vad' = [t \in Tracks |-> NewVad] /\ epoch' = 1
      /\ queue' = <<>>
  BY DEF Crash, disk
<1>3. Left
  BY <1>1, <1>2, NothingDelivered DEF Left, Types, SameTrack, SameTape
<1> QED BY <1>3, LeftKept

----------------------------------------------------------------------------
(* Steps that may end the process.                                         *)

(* Queueing a segment for the recogniser keeps it.                         *)
LEMMA EnqueueKept == CaptureInv /\ Enqueue => CaptureInv'
<1> SUFFICES ASSUME CaptureInv, Enqueue PROVE CaptureInv'
  OBVIOUS
<1>1. todo # <<>> /\ Head(todo).do = "enqueue"
      /\ UNCHANGED <<sources, recording, outbox, ledger, vad, epoch, run>>
  BY DEF Enqueue, Doing
<1>2. Types /\ Program
  BY DEF CaptureInv
<1>3. CASE queue' = Append(queue, With) /\ Then(<<>>) /\ UNCHANGED <<journal, phase>>
  <2>1. With \in Segment
    BY <1>1, <1>2, FirstStep, TypedStep DEF With
  <2>2. queue' \in Seq(Segment) /\ journal' \in [Tracks -> Journal]
    BY <1>2, <1>3, <2>1 DEF Types
  <2>3. Quiet(Head(todo)) /\ \A t \in Tracks : SameTrack(t)
    BY <1>1, <1>3 DEF Quiet, SameTrack, SameTape
  <2> QED BY <1>1, <1>3, <2>2, <2>3, ChainOfNone, QuietOnly
<1>4. CASE GivesUp("backlog") /\ UNCHANGED queue
  BY <1>1, <1>4, NothingDelivered, GivesUpKept
<1> QED BY <1>3, <1>4 DEF Enqueue

(* Steps of a kind that nothing waits for may be put before anything.      *)
LEMMA MayCall ==
  ASSUME NEW h \in AnyStep, NEW b \in AnyStep, May(h, b),
         h.do \in {"register", "registering", "missing", "asking"},
         NEW x \in AnyStep, x.track = h.track,
         \/ x.do \in {"registering", "asking", "dispatch", "await"}
         \/ x.do \in {"append", "save", "flush", "resend"} /\ x.with.kind = "segment"
  PROVE  May(x, b)
<1>1. x.do \notin {"barrier", "direction", "changeDirection", "last", "acknowledge", "seal", "publish"}
  OBVIOUS
<1>2. CASE h.track # b.track
  BY <1>1, <1>2 DEF May
<1>3. CASE h.track = b.track
  <2>1. /\ b.do \notin {"close", "closing", "advance", "noteGap", "skip", "record", "push",
                       "changeDirection", "boundary", "inForce", "recoverTail", "replayDirections",
                       "replaying", "hear", "tail", "gapTo"}
        /\ ~GapAbout(b) /\ ~BoundaryAbout(b)
    BY <1>3 DEF May, CloseKinds
  <2> QED BY <1>1, <2>1 DEF May
<1> QED BY <1>2, <1>3

(* Asking again for what has no result keeps it.                           *)
LEMMA AskingKept == CaptureInv /\ (AskMissing \/ AskNext) => CaptureInv'
<1> SUFFICES ASSUME CaptureInv, AskMissing \/ AskNext PROVE CaptureInv'
  OBVIOUS
<1>1. todo # <<>> /\ Head(todo).do \in {"missing", "asking"}
      /\ UNCHANGED <<sources, recording, outbox, ledger, vad, epoch, queue, run>>
  BY DEF AskMissing, AskNext, Doing, disk, memory
<1>2. Types /\ Program
  BY DEF CaptureInv
<1>3. CASE GivesUp("pcm")
  BY <1>1, <1>3, NothingDelivered, GivesUpKept
<1>4. ASSUME NEW S, Then(Asking(Track, S)), UNCHANGED <<journal, phase>>,
             (S = With /\ Head(todo).do = "asking") \/ S = Missing(Track)
      PROVE  CaptureInv'
  <2>1. PICK h \in AnyStep, R \in SUBSET AnyStep :
          /\ h = Head(todo) /\ R = In(Tail(todo)) /\ Steps = {h} \cup R /\ h.track \in Tracks
          /\ \A b \in R : May(h, b) /\ b.track \in Tracks
          /\ Fits(phase, h.do) /\ \A b \in R : Fits(phase, b.do)
    BY <1>1, <1>2, FirstStep
  <2>2. Quiet(Head(todo))
    BY <1>1 DEF Quiet
  <2>3. phase = "recovering"
    BY <1>1, <2>1 DEF Fits, CloseKinds
  <2>4. S \subseteq Segment /\ \A s \in S : s.track = Track
    <3>1. CASE S = With /\ Head(todo).do = "asking"
      BY <2>1, <3>1, TypedStep DEF With, Track
    <3>2. CASE S = Missing(Track)
      <4>1. S \subseteq Cut(Track) /\ Track \in Tracks
        BY <2>1, <3>2 DEF Missing, Cut, Track
      <4>2. Disk(Track)
        BY <4>1 DEF CaptureInv
      <4> QED BY <1>2, <4>1, <4>2, TypedCut DEF Disk
    <3> QED BY <1>4, <3>1, <3>2
  <2>5. CASE S = {}
    BY <1>1, <1>4, <2>2, <2>5, NothingWritten, ChainOfNone, QuietOnly DEF Asking
  <2>6. CASE S # {}
    <3> DEFINE s == First(S)
               t == Track
               a == StepFor("dispatch", t, s)
               b == StepFor("await", t, s)
               c == StepFor("asking", t, S \ {s})
    <3>1. s \in S
      BY <2>4, <2>6, FirstIs
    <3>2. t \in Both /\ t \in Tracks /\ t = h.track
      BY <2>1, TypedStep DEF Track
    <3>3. a \in AnyStep /\ b \in AnyStep
      BY <2>4, <3>1, <3>2, StepTyped
    <3>4. c \in AnyStep
      <4>1. S \ {s} \in SUBSET Segment /\ \A r \in S \ {s} : r.track = t
        BY <2>4
      <4> QED BY <3>2, <4>1, StepTyped
    <3>5. /\ a.do = "dispatch" /\ b.do = "await" /\ c.do = "asking"
          /\ a.track = t /\ b.track = t /\ c.track = t
      BY StepForIs
    <3>6. Then(<<a, b, c>>)
      BY <1>4, <2>6 DEF Asking
    <3> HIDE DEF a, b, c, s, t
    <3>7. May(a, b) /\ May(a, c) /\ May(b, c)
      BY <3>5 DEF May, GapAbout, BoundaryAbout
    <3>10. Chain(<<a, b, c>>, {a, b, c})
      BY <3>3, <3>4, <3>5, <3>7, ChainOfThree
    <3> DEFINE N == {a, b, c}
    <3>11. \A x \in N : Quiet(x) /\ x.track \in Tracks /\ Fits(phase, x.do)
      BY <2>3, <3>2, <3>5 DEF Quiet, Fits, ReplayKinds
    <3>12. \A x \in N, y \in R : May(x, y)
      BY <1>1, <2>1, <3>2, <3>3, <3>4, <3>5, MayCall
    <3> HIDE DEF N
    <3>13. \A x \in N, y \in In(Tail(todo)) : May(x, y)
      BY <2>1, <3>12
    <3>14. Chain(<<a, b, c>>, N)
      BY <3>10 DEF N
    <3> QED BY <1>1, <1>4, <2>2, <3>6, <3>11, <3>13, <3>14, NothingWritten, QuietOnly
  <2> QED BY <2>5, <2>6
<1>5. CASE AskNext
  <2>1. Then(Asking(Track, With)) /\ UNCHANGED <<journal, phase>> /\ Head(todo).do = "asking"
    BY <1>5 DEF AskNext, Doing, disk
  <2> QED BY <1>4, <2>1
<1>6. CASE AskMissing /\ ~GivesUp("pcm")
  <2>1. Then(Asking(Track, Missing(Track))) /\ UNCHANGED <<journal, phase>>
    BY <1>6 DEF AskMissing
  <2> QED BY <1>4, <2>1
<1> QED BY <1>3, <1>5, <1>6

----------------------------------------------------------------------------
(* Registration.                                                           *)

(* The steps that register the segments of a track are a chain.            *)
LEMMA RegisterChain ==
  ASSUME CaptureInv, NEW s \in Segment, s.track \in Tracks
  PROVE  \E N : /\ Chain(RegisterSteps(s), N)
                /\ \A x \in N : /\ x \in AnyStep /\ x.track = s.track
                                /\ x.do \in {"append", "save", "flush", "resend"}
                                /\ x.with.kind = "segment"
<1>1. Types /\ s.track \in Both
  BY TypedSegment DEF CaptureInv
<1>2. CASE SavedEvents(s) # {}
  <2> DEFINE e == CHOOSE e \in SavedEvents(s) : TRUE
             x == StepFor("resend", s.track, e)
  <2>1. e \in SegmentEvent
    <3>1. journal[s.track].saved \subseteq SegmentEvent
      BY <1>1, TypedTrack
    <3> QED BY <1>2, <3>1 DEF SavedEvents
  <2>2. e \in AnyEvent /\ e.kind = "segment"
    BY <2>1 DEF AnyEvent, SegmentEvent
  <2>3. RegisterSteps(s) = <<x>>
    BY <1>2 DEF RegisterSteps
  <2>4. x.do = "resend" /\ x.track = s.track /\ x.with = e
    BY StepForIs
  <2>5. x \in AnyStep
    BY <1>1, <2>2, StepTyped
  <2> HIDE DEF e, x
  <2>6. Chain(RegisterSteps(s), {x})
    BY <2>3, <2>4, <2>5, ChainOfOne
  <2> QED BY <2>2, <2>4, <2>5, <2>6
<1>3. CASE SavedEvents(s) = {}
  <2> DEFINE e == Event("segment", s)
             a == StepFor("append", s.track, e)
             b == StepFor("save", s.track, e)
             c == StepFor("flush", s.track, e)
  <2>1. e \in SegmentEvent /\ e.kind = "segment"
    BY <1>1 DEF Event, SegmentEvent, Types
  <2>2. e \in AnyEvent
    BY <2>1 DEF AnyEvent
  <2>3. RegisterSteps(s) = <<a, b, c>>
    BY <1>3 DEF RegisterSteps
  <2>4. /\ a.do = "append" /\ a.track = s.track /\ a.with = e
        /\ b.do = "save" /\ b.track = s.track /\ b.with = e
        /\ c.do = "flush" /\ c.track = s.track /\ c.with = e
    BY StepForIs
  <2>5. a \in AnyStep /\ b \in AnyStep /\ c \in AnyStep
    BY <1>1, <2>1, <2>2, StepTyped
  <2> HIDE DEF e, a, b, c
  <2>6. May(a, b) /\ May(a, c) /\ May(b, c)
    BY <2>1, <2>4 DEF May, GapAbout, BoundaryAbout
  <2>7. Chain(RegisterSteps(s), {a, b, c})
    BY <2>3, <2>4, <2>5, <2>6, ChainOfThree
  <2> QED BY <2>1, <2>4, <2>5, <2>7
<1> QED BY <1>2, <1>3

(* Registering the segments of a recovered track keeps the invariant.      *)
LEMMA RegisterKept == CaptureInv /\ Register => CaptureInv'
<1> SUFFICES ASSUME CaptureInv, Register PROVE CaptureInv'
  OBVIOUS
<1>1. todo # <<>> /\ Head(todo).do \in {"register", "registering"}
      /\ UNCHANGED <<sources, recording, journal, outbox, ledger, phase, vad, epoch, queue, run>>
  BY DEF Register, Doing, disk, memory
<1>2. Types /\ Program
  BY DEF CaptureInv
<1>3. PICK h \in AnyStep, R \in SUBSET AnyStep :
        /\ h = Head(todo) /\ R = In(Tail(todo)) /\ Steps = {h} \cup R /\ h.track \in Tracks
        /\ \A b \in R : May(h, b) /\ b.track \in Tracks
        /\ Fits(phase, h.do) /\ \A b \in R : Fits(phase, b.do)
  BY <1>1, <1>2, FirstStep
<1>4. Quiet(Head(todo)) /\ Track = h.track /\ Track \in Both
  BY <1>1, <1>3, TypedStep DEF Quiet, Track
<1>5. phase = "recovering"
  BY <1>1, <1>3 DEF Fits, CloseKinds
<1>6. PICK S : Then(Registering(Track, S)) /\ S \subseteq Segment /\ \A s \in S : s.track = Track
  <2>1. CASE Doing("register")
    <3>1. Then(Registering(Track, Cut(Track)))
      BY <2>1 DEF Register, Doing, Cut
    <3>2. Cut(Track) \subseteq Segment /\ \A s \in Cut(Track) : s.track = Track
      <4>1. Disk(Track)
        BY <1>3, <1>4 DEF CaptureInv
      <4> QED BY <1>2, <1>3, <1>4, <4>1, TypedCut DEF Disk
    <3> QED BY <3>1, <3>2
  <2>2. CASE Doing("registering")
    <3>1. Then(Registering(Track, With))
      BY <2>2 DEF Register, Doing
    <3>2. With \subseteq Segment /\ \A s \in With : s.track = Track
      BY <1>3, <2>2, TypedStep DEF With, Track, Doing
    <3> QED BY <3>1, <3>2
  <2> QED BY <2>1, <2>2 DEF Register
<1>7. CASE S = {}
  BY <1>1, <1>4, <1>6, <1>7, NothingWritten, ChainOfNone, QuietOnly DEF Registering
<1>8. CASE S # {}
  <2> DEFINE s == First(S)
             c == StepFor("registering", Track, S \ {s})
  <2>1. s \in S /\ s \in Segment /\ s.track = Track
    BY <1>6, <1>8, FirstIs
  <2>2. PICK M : /\ Chain(RegisterSteps(s), M)
                 /\ \A x \in M : /\ x \in AnyStep /\ x.track = s.track
                                 /\ x.do \in {"append", "save", "flush", "resend"}
                                 /\ x.with.kind = "segment"
    BY <1>3, <1>4, <2>1, RegisterChain
  <2>3. c.do = "registering" /\ c.track = Track
    BY StepForIs
  <2>4. c \in AnyStep
    <3>1. S \ {s} \in SUBSET Segment /\ \A r \in S \ {s} : r.track = Track
      BY <1>6
    <3> QED BY <1>4, <3>1, StepTyped
  <2>5. Then(RegisterSteps(s) \o <<c>>)
    BY <1>6, <1>8 DEF Registering
  <2> HIDE DEF c, s
  <2>6. Chain(<<c>>, {c})
    BY <2>3, <2>4, ChainOfOne
  <2>7. \A x \in M, y \in {c} : May(x, y)
    BY <2>2, <2>3 DEF May, GapAbout, BoundaryAbout
  <2> DEFINE N == M \cup {c}
  <2>8. Chain(RegisterSteps(s) \o <<c>>, N)
    BY <2>2, <2>6, <2>7, ChainJoin
  <2>9. \A x \in N : Quiet(x) /\ x.track \in Tracks /\ Fits(phase, x.do)
    BY <1>3, <1>4, <1>5, <2>1, <2>2, <2>3 DEF Quiet, Fits, ReplayKinds, CloseKinds
  <2>10. \A x \in N, y \in R : May(x, y)
    BY <1>1, <1>3, <1>4, <2>1, <2>2, <2>3, <2>4, MayCall
  <2> HIDE DEF N
  <2>11. \A x \in N, y \in In(Tail(todo)) : May(x, y)
    BY <1>3, <2>10
  <2> QED BY <1>1, <1>4, <2>5, <2>8, <2>9, <2>11, NothingWritten, QuietOnly
<1> QED BY <1>7, <1>8

----------------------------------------------------------------------------
(* Events pass to the ledger.                                              *)

LoudNames == {"close", "closing", "recoverTail", "skip", "push", "record", "gapTo"}
               \cup ClockKinds \cup SealingKinds \cup DirectionKinds

(* What keeps a set of kinds keeps a smaller one.                          *)
LEMMA Narrower ==
  ASSUME NEW K, NEW L, K \subseteq L, Keeps(Kind(L))
  PROVE  Keeps(Kind(K))
BY DEF Keeps, Kind

(* Keeping the loud names keeps every group of kinds a part of the         *)
(* invariant is about.                                                     *)
LEMMA NarrowKinds ==
  ASSUME Keeps(Kind(LoudNames))
  PROVE  /\ Keeps(Kind(ClockKinds)) /\ Keeps(Kind(SealingKinds)) /\ Keeps(Kind(DirectionKinds))
         /\ Keeps(Kind({"close", "closing"})) /\ Keeps(Kind({"skip"})) /\ Keeps(Kind({"recoverTail"}))
         /\ Keeps(Kind({"close", "closing", "push", "recoverTail"}))
         /\ Keeps(Kind({"record", "push", "advance", "noteGap", "gapTo", "direction",
                        "changeDirection", "boundary"}))
<1>1. Keeps(Kind(ClockKinds))
  BY Narrower DEF LoudNames
<1>2. Keeps(Kind(SealingKinds))
  BY Narrower DEF LoudNames
<1>3. Keeps(Kind(DirectionKinds))
  BY Narrower DEF LoudNames
<1>4. Keeps(Kind({"close", "closing"}))
  BY Narrower DEF LoudNames
<1>5. Keeps(Kind({"skip"}))
  BY Narrower DEF LoudNames
<1>6. Keeps(Kind({"recoverTail"}))
  BY Narrower DEF LoudNames
<1>7. Keeps(Kind({"close", "closing", "push", "recoverTail"}))
  BY Narrower DEF LoudNames
<1>8. Keeps(Kind({"record", "push", "advance", "noteGap", "gapTo", "direction", "changeDirection",
                  "boundary"}))
  <2>1. {"record", "push", "advance", "noteGap", "gapTo", "direction", "changeDirection",
         "boundary"} \subseteq LoudNames
    BY DEF LoudNames, DirectionKinds, SealingKinds, ClockKinds
  <2> QED BY <2>1, Narrower
<1> QED BY <1>1, <1>2, <1>3, <1>4, <1>5, <1>6, <1>7, <1>8

(* What passes from an outbox to the ledger is still there.                *)
LEMMA PassedOn ==
  ASSUME CaptureInv, Delivered, todo' \in Seq(AnyStep), Ordered(todo'), FlushedFirst',
         Steps' \subseteq Steps, Keeps(Kind(LoudNames)), Head(todo).do # "finish",
         \A x \in Steps : GapAbout(x) => x \in Steps',
         \A t \in Tracks : /\ outbox'[t] \subseteq outbox[t]
                           /\ \A e \in outbox[t] : e \in outbox'[t] \/ e \in ledger',
         outbox' \in [Tracks -> SUBSET AnyEvent],
         UNCHANGED <<sources, recording, journal, phase, vad, epoch, queue, run>>,
         Direction1', Direction2'
  PROVE  CaptureInv'
<1>1. Types /\ Program /\ Sealing /\ Tracks' = Tracks /\ Dual' = Dual /\ Mic \in Tracks
      /\ journal' = journal /\ vad' = vad /\ phase' = phase
  BY DEF CaptureInv, Tracks, Dual, Types, Both
<1>2. Steps \subseteq AnyStep /\ Steps' \subseteq AnyStep /\ \A x \in Steps : x.track \in Tracks
  <2>1. Steps \subseteq AnyStep
    BY <1>1, LenProperties, ElementOfSeq DEF Types, Steps, In
  <2> QED BY <1>1, <2>1 DEF Types
<1>3. /\ ledger' \subseteq AnyEvent /\ ledger \subseteq ledger'
      /\ \A e \in ledger' : e.kind = "seal" => e \in Seals
      /\ Sealed' => \A t \in Tracks : Cut(t) = {s \in Registered' : s.track = t}
  BY <1>1, DeliveredFacts
<1>4. Types'
  BY <1>1, <1>2, <1>3 DEF Types
<1>5. Program'
  <2>1. Shape'
    BY <1>1, <1>2, NarrowKinds, ShapeFrame DEF Program, Shape
  <2>2. Fresh'
    BY <1>1 DEF Program, Fresh
  <2> QED BY <2>1, <2>2 DEF Program
<1>6. \A t \in Tracks : SameTrack(t)
  BY <1>1 DEF SameTrack, SameTape
<1>8. ASSUME NEW t \in Tracks
      PROVE  Clock(t)' /\ Pieces(t)' /\ Disk(t)' /\ Cover(t)' /\ Announced(t)'
  <2>1. Clock(t) /\ Pieces(t) /\ Disk(t) /\ Cover(t) /\ Announced(t) /\ SameTape(t)
        /\ vad'[t] = vad[t]
    BY <1>1, <1>6 DEF CaptureInv, SameTrack
  <2>2. Keeps(KindOf(t, TrackKinds))
    BY KeptOf DEF TrackKinds, LoudNames
  <2> QED BY <1>1, <1>2, <1>3, <2>1, <2>2, TrackFrame
<1>9. Sealing'
  <2>1. \A x : x.do \in SealingKinds => (x \in Steps' <=> x \in Steps)
    BY <1>2, NarrowKinds DEF Keeps, Kind
  <2>2. Manifest' = Manifest /\ \A t \in Tracks : Closed(t)' = Closed(t) /\ Cut(t)' = Cut(t)
    BY <1>1 DEF Manifest, Closed, Cut
  <2>3. Has("publish", Mic)' = Has("publish", Mic) /\ \A t : Has("seal", t)' = Has("seal", t)
    BY <2>1 DEF Has, SealingKinds
  <2>4. ASSUME NEW e PROVE IsSeal(e)' => IsSeal(e)
    BY <1>1, <1>3, SealsAre DEF IsSeal
  <2>5. (\A e : e \in Seals <=> IsSeal(e))'
    BY SealsAre, PTL
  <2>6. Seals' \subseteq Seals
    BY <2>4, <2>5, SealsAre
  <2>7. \A t \in Tracks : Closed(t) =>
          /\ phase \notin {"opening", "live"}
          /\ \A x \in Steps' :
               /\ x.do \notin {"last", "direction", "changeDirection"}
               /\ x.track = t => x.do \notin {"close", "closing", "record", "advance", "noteGap",
                                   "push", "hear", "tail", "gapTo", "finish", "checkpoint", "skip"}
    BY <1>1 DEF Sealing
  <2>8. Has("publish", Mic)' => \A t \in Tracks : Closed(t)' \/ Has("seal", t)'
    BY <1>1, <2>2, <2>3 DEF Sealing
  <2>9. \A e \in Seals' : e.about.tracks = Manifest' /\ \A t \in Tracks : Closed(t)'
    BY <1>1, <2>2, <2>6 DEF Sealing
  <2> QED BY <1>1, <1>3, <2>2, <2>7, <2>8, <2>9 DEF Sealing
<1> QED BY <1>1, <1>4, <1>5, <1>8, <1>9 DEF CaptureInv

(* And the directions noted and sent are the same.                         *)
LEMMA PassedDirections ==
  ASSUME CaptureInv, Delivered, Steps' \subseteq Steps, Keeps(Kind(LoudNames)),
         \A x \in Steps : BoundaryAbout(x) /\ x \notin Steps' =>
           x.do \in {"flush", "resend"} /\ x.with \in ledger',
         \A t \in Tracks : outbox'[t] \subseteq outbox[t],
         UNCHANGED <<sources, recording, journal, phase, vad, epoch, queue, run>>
  PROVE  Direction1' /\ Direction2'
<1>1. Types /\ Sealing /\ Direction1 /\ Direction2 /\ Tracks' = Tracks /\ Dual' = Dual
      /\ Mic \in Tracks /\ journal' = journal /\ vad' = vad /\ phase' = phase /\ epoch' = epoch
      /\ Over' = Over
  BY DEF CaptureInv, Tracks, Dual, Types, Both, Over
<1>2. Steps \subseteq AnyStep
  BY <1>1, LenProperties, ElementOfSeq DEF Types, Steps, In
<1>3. \A x : x.do \in DirectionKinds => (x \in Steps' <=> x \in Steps)
  BY <1>2, NarrowKinds DEF Keeps, Kind
<1>4. ledger \subseteq ledger' /\ \A e \in ledger' : e.kind = "boundary" => e \in Sent \cup Noted
  BY <1>1, DeliveredFacts
<1>5. Noted' = Noted /\ Sent' \subseteq Sent \cup Noted /\ InLedger \subseteq InLedger'
      /\ \A t \in Tracks : Cut(t)' = Cut(t)
  BY <1>1, <1>4 DEF Noted, Sent, InLedger, Cut
<1>6. /\ Has("changeDirection", Mic)' = Has("changeDirection", Mic)
      /\ Has("checkpoint", Mic)' = Has("checkpoint", Mic)
      /\ Has("replayDirections", Mic)' = Has("replayDirections", Mic)
  <2>1. \A x : x.do \in {"checkpoint", "changeDirection"} => (x \in Steps' <=> x \in Steps)
    BY <1>2, NarrowKinds DEF Keeps, Kind, ClockKinds
  <2> QED BY <1>3, <2>1 DEF Has, DirectionKinds
<1>7. \A x \in Steps : x.do \in {"boundary", "inForce"} => x.with.kind = "boundary"
  BY <1>2, BoundarySteps1
<1>8. Direction1'
  <2>1. \A x \in Steps' : BoundaryAbout(x) /\ x.do = "append" =>
          \E y \in Steps' : y.do = "boundary" /\ y.with = x.with
    BY <1>1, <1>3 DEF Direction1, DirectionKinds
  <2>2. \A x \in Steps' : x.do = "boundary" \/ BoundaryAbout(x) =>
          \E y \in Steps' : y.do = "inForce" /\ y.with = x.with
    BY <1>1, <1>3 DEF Direction1, DirectionKinds
  <2>3. \A x \in Steps' : x.do = "inForce" =>
          x.with \in Noted' \/ \E y \in Steps' : y.do = "boundary" /\ y.with = x.with
    BY <1>1, <1>3, <1>5 DEF Direction1, DirectionKinds
  <2>4. ASSUME NEW x \in Steps', x.do = "inForce", x.with \notin ledger'
        PROVE  \E y \in Steps' : y.do \in {"flush", "resend"} /\ y.with = x.with /\ y.track = Mic
    <3>1. x \in Steps /\ x.with \notin ledger /\ x.with.kind = "boundary"
      BY <1>4, <1>7, <2>4
    <3>2. PICK y \in Steps : y.do \in {"flush", "resend"} /\ y.with = x.with /\ y.track = Mic
      BY <1>1, <2>4, <3>1 DEF Direction1
    <3>3. BoundaryAbout(y)
      BY <3>1, <3>2 DEF BoundaryAbout
    <3> QED BY <2>4, <3>2, <3>3
  <2>5. \A x \in Steps' : x.do = "inForce" =>
          /\ epoch' <= x.with.about.epoch
          /\ \A y \in Steps' : y.do = "replaying" =>
               \A c \in y.with : x.with.about.epoch <= c.about.epoch
    BY <1>1 DEF Direction1
  <2>6. \A x \in Steps' : x.do = "boundary" =>
          /\ phase' = "live"
          /\ x.with.about.start = journal'[Mic].final /\ vad'[Mic].cursor = journal'[Mic].final
          /\ journal'[Mic].classified = journal'[Mic].final
          /\ vad'[Mic].active = None /\ journal'[Mic].active = None
    BY <1>1 DEF Direction1
  <2>7. Has("changeDirection", Mic)' /\ ~Has("checkpoint", Mic)' =>
          journal'[Mic].active = None /\ journal'[Mic].classified = vad'[Mic].cursor
    BY <1>1, <1>6 DEF Direction1
  <2>8. \A x \in Steps' : x.do = "replaying" =>
          x.with \subseteq Noted' /\ \A c \in x.with : epoch' <= c.about.epoch
    BY <1>1, <1>5 DEF Direction1
  <2>9. \A x \in Steps' : x.do = "resend" /\ BoundaryAbout(x) => x.with \in Noted'
    BY <1>1, <1>5 DEF Direction1
  <2>10. Has("replayDirections", Mic)' => epoch' = 1
    BY <1>1, <1>6 DEF Direction1
  <2>11. \A t \in Tracks' : t # Mic =>
           /\ journal'[t].boundaries = {}
           /\ \A e \in outbox'[t] : e.kind # "boundary"
           /\ \A x \in Steps' : BoundaryAbout(x) => x.track = Mic
    BY <1>1 DEF Direction1
  <2>12. Dual' => Noted' = {} /\ Sent' = {}
    BY <1>1, <1>5 DEF Direction1
  <2> QED BY <2>1, <2>2, <2>3, <2>4, <2>5, <2>6, <2>7, <2>8, <2>9, <2>10, <2>11, <2>12
          DEF Direction1
<1>9. Direction2'
  <2>1. \A b \in Sent' : b \in Noted'
          \/ /\ b.about.start = journal'[Mic].final
             /\ Over' \/ phase' = "recovering" \/ \E x \in Steps' : x.do = "boundary" /\ x.with = b
    BY <1>1, <1>3, <1>5 DEF Direction2, DirectionKinds
  <2>2. epoch' = 1 \/ \E b \in Noted' \cap ledger' : b.about.epoch = epoch'
    BY <1>1, <1>4, <1>5 DEF Direction2
  <2>3. ~Over' => \A b \in Noted' :
          \/ b.about.epoch <= epoch' \/ Has("replayDirections", Mic)'
          \/ \E x \in Steps' : x.do = "inForce" /\ x.with = b
          \/ \E x \in Steps' : x.do = "replaying" /\ b \in x.with
    BY <1>1, <1>3, <1>5, <1>6 DEF Direction2, DirectionKinds
  <2>4. ASSUME NEW t \in Tracks, NEW s \in Cut(t)
        PROVE  /\ \/ journal'[t].segments[s] = 1
                  \/ \E b \in InLedger' : /\ b.about.epoch = journal'[t].segments[s]
                                          /\ b.about.start <= s.start
               /\ \A b \in Sent' \cup Noted' :
                    b.about.start <= s.start => b.about.epoch <= journal'[t].segments[s]
    BY <1>1, <1>5 DEF Direction2
  <2> QED BY <1>1, <1>5, <2>1, <2>2, <2>3, <2>4 DEF Direction2
<1> QED BY <1>8, <1>9

(* An event that a step sends is one that was noted, or a seal there is.   *)
LEMMA SentStep ==
  ASSUME CaptureInv, Doing("flush") \/ Doing("resend")
  PROVE  /\ With \in AnyEvent
         /\ With.kind = "boundary" => With \in Noted
         /\ With.kind = "seal" => With \in Seals
<1>1. Types /\ Program /\ Direction1 /\ todo # <<>>
  BY DEF CaptureInv, Doing
<1>2. PICK h \in AnyStep, R \in SUBSET AnyStep :
        /\ h = Head(todo) /\ R = In(Tail(todo)) /\ Steps = {h} \cup R /\ h.track \in Tracks
        /\ \A b \in R : May(h, b) /\ b.track \in Tracks
        /\ Fits(phase, h.do) /\ \A b \in R : Fits(phase, b.do)
  BY <1>1, FirstStep
<1>3. h.do \in {"flush", "resend"} /\ With = h.with /\ h.with \in AnyEvent /\ h \in Steps
  BY <1>2, TypedStep DEF Doing, With
<1>4. ASSUME h.with.kind = "boundary" PROVE h.with \in Noted
  <2>1. BoundaryAbout(h)
    BY <1>3, <1>4 DEF BoundaryAbout
  <2>2. CASE h.do = "resend"
    BY <1>1, <1>3, <2>1, <2>2 DEF Direction1
  <2>3. CASE h.do = "flush"
    <3>1. PICK y \in Steps : y.do = "inForce" /\ y.with = h.with
      BY <1>1, <1>3, <2>1 DEF Direction1
    <3>2. ASSUME NEW z \in Steps, z.do = "boundary", z.with = h.with PROVE FALSE
      <4>1. z \in R /\ z.track = Mic
        BY <1>2, <2>3, <3>2, BoundarySteps1
      <4>2. h.track = Mic
        BY <1>1, <1>2, <1>3, <2>1 DEF Direction1
      <4> QED BY <1>2, <2>3, <3>2, <4>1, <4>2 DEF May
    <3> QED BY <1>1, <3>1, <3>2 DEF Direction1
  <2> QED BY <1>3, <2>2, <2>3
<1>5. ASSUME h.with.kind = "seal" PROVE h.with \in Seals
  <2>1. IsSeal(h.with)
    BY <1>3, <1>5 DEF IsSeal
  <2> QED BY <2>1, SealsAre
<1> QED BY <1>3, <1>4, <1>5

(* An answer that is lost: the ledger has the event, or it does not.       *)
LEMMA UnansweredIs ==
  ASSUME NEW e, Unanswered(e)
  PROVE  ledger' = ledger \/ (ledger' = ledger \cup {e} /\ Accepts(e))
<1>1. CASE ledger' = ledger
  BY <1>1
<1>2. CASE ledger' # ledger
  <2>1. PICK x \in {y \in {e} : Accepts(y)} : ledger' = ledger \cup {x}
    BY <1>2 DEF Unanswered
  <2>2. x = e
    BY <2>1
  <2>3. Accepts(x)
    BY <2>1
  <2>4. Accepts(e)
    BY <2>2, <2>3
  <2> QED BY <2>1, <2>2, <2>4
<1> QED BY <1>1, <1>2

(* Flushing one event keeps the invariant, however often it is delivered.  *)
LEMMA FlushKept == CaptureInv /\ Flush => CaptureInv'
<1> SUFFICES ASSUME CaptureInv, Flush PROVE CaptureInv'
  OBVIOUS
<1>1. Types /\ Program /\ todo # <<>> /\ Head(todo).do \in {"flush", "resend"}
  BY DEF CaptureInv, Flush, Doing
<1>2. PICK h \in AnyStep, R \in SUBSET AnyStep :
        /\ h = Head(todo) /\ R = In(Tail(todo)) /\ Steps = {h} \cup R /\ h.track \in Tracks
        /\ \A b \in R : May(h, b) /\ b.track \in Tracks
        /\ Fits(phase, h.do) /\ \A b \in R : Fits(phase, b.do)
  BY <1>1, FirstStep
<1> DEFINE e == With
<1>3. /\ e \in AnyEvent
      /\ e.kind = "boundary" => e \in Noted
      /\ e.kind = "seal" => e \in Seals
  BY SentStep DEF Flush
<1>4. e = h.with
  BY <1>2 DEF With
<1> HIDE DEF e
<1>5. CASE Refused(With)
  BY <1>1, <1>5, NothingDelivered, GivesUpKept DEF Refused, memory
<1>6. CASE Unanswered(With)
  <2>1. ledger' = ledger \/ (ledger' = ledger \cup {e} /\ Accepts(e))
    BY <1>6, UnansweredIs DEF e
  <2>2. Delivered
    BY <1>3, <2>1 DEF Delivered
  <2> QED BY <1>1, <1>6, <2>2, GivesUpKept DEF Unanswered, memory
<1>7. CASE Confirmed(With) /\ Then(<<>>)
  <2>1. /\ Accepts(e) /\ ledger' = ledger \cup {e}
        /\ UNCHANGED <<sources, recording, journal, phase, vad, epoch, queue, run>>
        /\ outbox' = [outbox EXCEPT ![Track] = outbox[Track] \ (IF Doing("resend") THEN {} ELSE {e})]
    BY <1>7 DEF Confirmed, memory, e
  <2>2. Delivered
    BY <1>3, <2>1 DEF Delivered
  <2>3. /\ todo' \in Seq(AnyStep) /\ Steps' = In(Tail(todo)) /\ Steps' \subseteq AnyStep
        /\ Ordered(todo') /\ FlushedFirst'
    BY <1>1, <1>7, StepDone
  <2>4. Steps' = R
    BY <1>2, <2>3
  <2>5. Keeps(Kind(LoudNames))
    <3>1. h \notin Kind(LoudNames)
      BY <1>1, <1>2 DEF Kind, LoudNames, ClockKinds, SealingKinds, DirectionKinds
    <3> QED BY <1>2, <2>4, <3>1 DEF Keeps
  <2>6. /\ \A x \in Steps : GapAbout(x) => x \in Steps'
        /\ \A x \in Steps : BoundaryAbout(x) /\ x \notin Steps' =>
             x.do \in {"flush", "resend"} /\ x.with \in ledger'
    BY <1>1, <1>2, <1>4, <2>1, <2>4 DEF GapAbout
  <2>7. outbox' \in [Tracks -> SUBSET AnyEvent]
        /\ \A t \in Tracks : /\ outbox'[t] \subseteq outbox[t]
                             /\ \A f \in outbox[t] : f \in outbox'[t] \/ f \in ledger'
    <3>1. outbox \in [Tracks -> SUBSET AnyEvent]
      BY <1>1 DEF Types
    <3> DEFINE E == IF Doing("resend") THEN {} ELSE {e}
    <3>2. \A f \in E : f = e
      OBVIOUS
    <3>3. outbox' = [outbox EXCEPT ![Track] = outbox[Track] \ E]
      BY <2>1
    <3> HIDE DEF E
    <3> QED BY <2>1, <3>1, <3>2, <3>3
  <2>8. Steps' \subseteq Steps
    BY <1>2, <2>4
  <2>9. Direction1' /\ Direction2'
    BY <2>1, <2>2, <2>5, <2>6, <2>7, <2>8, PassedDirections
  <2>10. Head(todo).do # "finish"
    BY <1>1
  <2> QED BY <2>1, <2>2, <2>3, <2>5, <2>6, <2>7, <2>8, <2>9, <2>10, PassedOn
<1> QED BY <1>5, <1>6, <1>7 DEF Flush

(* Flushing an outbox keeps it.                                            *)
LEMMA FlushAllKept == CaptureInv /\ FlushAll => CaptureInv'
<1> SUFFICES ASSUME CaptureInv, FlushAll PROVE CaptureInv'
  OBVIOUS
<1>1. Types /\ Program /\ Direction1 /\ todo # <<>> /\ Head(todo).do = "flushAll"
  BY DEF CaptureInv, FlushAll, Doing
<1>2. PICK h \in AnyStep, R \in SUBSET AnyStep :
        /\ h = Head(todo) /\ R = In(Tail(todo)) /\ Steps = {h} \cup R /\ h.track \in Tracks
        /\ \A b \in R : May(h, b) /\ b.track \in Tracks
        /\ Fits(phase, h.do) /\ \A b \in R : Fits(phase, b.do)
  BY <1>1, FirstStep
<1>3. Track = h.track /\ Track \in Tracks /\ ~Doing("resend")
  BY <1>1, <1>2 DEF Track, Doing
<1>4. ASSUME NEW e \in outbox[Track], (Confirmed(e) /\ UNCHANGED todo) \/ Refused(e) \/ Unanswered(e)
      PROVE  CaptureInv'
  <2>1. /\ e \in AnyEvent
        /\ e.kind = "boundary" => e \in Sent \cup Noted
        /\ e.kind = "seal" => e \in Seals
    <3>1. e \in AnyEvent
      BY <1>1, <1>3, TypedTrack
    <3>2. e.kind = "boundary" => e \in Sent
      BY <1>1, <1>3 DEF Direction1, Sent
    <3>3. e.kind = "seal" => e \in Seals
      BY <1>3, SealsAre DEF IsSeal
    <3> QED BY <3>1, <3>2, <3>3
  <2>2. CASE Refused(e)
    BY <1>1, <2>2, NothingDelivered, GivesUpKept DEF Refused, memory
  <2>3. CASE Unanswered(e)
    <3>1. ledger' = ledger \/ (ledger' = ledger \cup {e} /\ Accepts(e))
      BY <2>3, UnansweredIs
    <3>2. Delivered
      BY <2>1, <3>1 DEF Delivered
    <3> QED BY <1>1, <2>3, <3>2, GivesUpKept DEF Unanswered, memory
  <2>4. CASE Confirmed(e) /\ UNCHANGED todo
    <3>1. /\ Accepts(e) /\ ledger' = ledger \cup {e} /\ todo' = todo
          /\ UNCHANGED <<sources, recording, journal, phase, vad, epoch, queue, run>>
          /\ outbox' = [outbox EXCEPT ![Track] = outbox[Track] \ {e}]
      BY <1>3, <2>4 DEF Confirmed, memory
    <3>2. Delivered
      BY <2>1, <3>1 DEF Delivered
    <3>3. Steps' = Steps /\ todo' \in Seq(AnyStep) /\ Ordered(todo') /\ Adjacent(todo')
      BY <1>1, <3>1 DEF Steps, Types, Program, FlushedFirst
    <3>4. FlushedFirst'
      BY <1>1, <3>1, <3>3 DEF FlushedFirst, Doing
    <3>5. Keeps(Kind(LoudNames)) /\ Steps' \subseteq Steps
      BY <3>3 DEF Keeps
    <3>6. outbox' \in [Tracks -> SUBSET AnyEvent]
          /\ \A t \in Tracks : /\ outbox'[t] \subseteq outbox[t]
                               /\ \A f \in outbox[t] : f \in outbox'[t] \/ f \in ledger'
      <4>1. outbox \in [Tracks -> SUBSET AnyEvent]
        BY <1>1 DEF Types
      <4> QED BY <3>1, <4>1
    <3>7. \A x \in Steps : BoundaryAbout(x) /\ x \notin Steps' =>
            x.do \in {"flush", "resend"} /\ x.with \in ledger'
      BY <3>3
    <3>8. Direction1' /\ Direction2'
      BY <3>1, <3>2, <3>5, <3>6, <3>7, PassedDirections
    <3>9. Head(todo).do # "finish" /\ \A x \in Steps : GapAbout(x) => x \in Steps'
      BY <1>1, <3>3
    <3> QED BY <3>1, <3>2, <3>3, <3>4, <3>5, <3>6, <3>8, <3>9, PassedOn
  <2> QED BY <1>4, <2>2, <2>3, <2>4
<1>5. ASSUME outbox[Track] = {}, Then(<<>>),
             UNCHANGED <<sources, recording, journal, outbox, ledger, phase, vad, epoch, queue, run>>
      PROVE  CaptureInv'
  <2>1. todo \in Seq(AnyStep) /\ todo' = <<>> \o Tail(todo) /\ Ordered(todo) /\ Adjacent(todo)
    BY <1>1, <1>5 DEF Types, Program, FlushedFirst, Then
  <2>2. /\ Tail(todo) \in Seq(AnyStep) /\ Ordered(Tail(todo)) /\ Adjacent(Tail(todo))
        /\ Tail(todo) # <<>> /\ Tail(todo)[1].do = "seal" => Head(todo).track = Tail(todo)[1].track
    BY <1>1, <2>1, SplitList
  <2>3. todo' = Tail(todo)
    BY <2>1, <2>2
  <2>4. Steps' = R
    BY <1>2, <2>3 DEF Steps
  <2>5. FlushedFirst'
    <3>1. todo' # <<>> => Head(todo') = Tail(todo)[1]
      BY <2>2, <2>3, SplitList
    <3>2. Head(todo).track = Track
      BY DEF Track
    <3> QED BY <1>5, <2>2, <2>3, <3>1, <3>2 DEF FlushedFirst, Doing
  <2>6. \A x \in Steps : x.do # "flushAll" => x \in Steps'
    BY <1>1, <1>2, <2>4
  <2>7. Delivered
    BY <1>5, NothingDelivered
  <2>8. Keeps(Kind(LoudNames)) /\ Steps' \subseteq Steps
    <3>1. h \notin Kind(LoudNames)
      BY <1>1, <1>2 DEF Kind, LoudNames, ClockKinds, SealingKinds, DirectionKinds
    <3> QED BY <1>2, <2>4, <3>1 DEF Keeps
  <2>9. outbox' \in [Tracks -> SUBSET AnyEvent]
        /\ \A t \in Tracks : /\ outbox'[t] \subseteq outbox[t]
                             /\ \A f \in outbox[t] : f \in outbox'[t] \/ f \in ledger'
    BY <1>1, <1>5 DEF Types
  <2>10. \A x \in Steps : BoundaryAbout(x) /\ x \notin Steps' =>
           x.do \in {"flush", "resend"} /\ x.with \in ledger'
    BY <2>6 DEF BoundaryAbout
  <2>11. Direction1' /\ Direction2'
    BY <1>5, <2>7, <2>8, <2>9, <2>10, PassedDirections
  <2>12. /\ Head(todo).do # "finish" /\ \A x \in Steps : GapAbout(x) => x \in Steps'
         /\ todo' \in Seq(AnyStep) /\ Ordered(todo')
    BY <1>1, <2>2, <2>3, <2>6 DEF GapAbout
  <2> QED BY <1>5, <2>5, <2>7, <2>8, <2>9, <2>11, <2>12, PassedOn
<1> QED BY <1>3, <1>4, <1>5 DEF FlushAll, disk, memory

----------------------------------------------------------------------------
(* A turn of the thread: its first step, the steps left, the steps it      *)
(* calls.                                                                  *)

Turned(h, R, N) ==
  /\ h \in AnyStep /\ R \subseteq AnyStep /\ N \subseteq AnyStep
  /\ todo # <<>> /\ h = Head(todo) /\ h.track \in Tracks /\ Fits(phase, h.do)
  /\ Steps = {h} \cup R /\ Steps' = N \cup R /\ Steps' \subseteq AnyStep
  /\ \A b \in R : May(h, b) /\ b.track \in Tracks /\ Fits(phase, b.do)
  /\ \A x \in N : x.track = h.track /\ Fits(phase, x.do)
  /\ todo' \in Seq(AnyStep) /\ Ordered(todo') /\ FlushedFirst'
  /\ UNCHANGED <<sources, recording, phase, run>>

(* A step that is done and puts nothing in its place keeps the order of    *)
(* the rest.                                                               *)
LEMMA DoneTurn ==
  ASSUME CaptureInv, todo # <<>>, Head(todo).do # "flushAll", Then(<<>>),
         UNCHANGED <<sources, recording, phase, run>>
  PROVE  \E h, R : Turned(h, R, {})
<1>1. Types /\ Program
  BY DEF CaptureInv
<1>2. PICK h \in AnyStep, R \in SUBSET AnyStep :
        /\ h = Head(todo) /\ R = In(Tail(todo)) /\ Steps = {h} \cup R /\ h.track \in Tracks
        /\ \A b \in R : May(h, b) /\ b.track \in Tracks
        /\ Fits(phase, h.do) /\ \A b \in R : Fits(phase, b.do)
  BY <1>1, FirstStep
<1>3. /\ todo' \in Seq(AnyStep) /\ Steps' = In(Tail(todo)) /\ Steps' \subseteq AnyStep
      /\ Ordered(todo') /\ FlushedFirst'
  BY <1>1, StepDone
<1>4. Steps' = {} \cup R
  BY <1>2, <1>3
<1>5. Turned(h, R, {})
  BY <1>2, <1>3, <1>4 DEF Turned
<1> QED BY <1>5

(* A step replaced by a chain that may come before the rest keeps the      *)
(* order,                                                                  *)
LEMMA NextTurn ==
  ASSUME CaptureInv, todo # <<>>, Head(todo).do # "flushAll",
         NEW h \in AnyStep, NEW R \in SUBSET AnyStep,
         h = Head(todo), R = In(Tail(todo)), Steps = {h} \cup R, h.track \in Tracks,
         Fits(phase, h.do), \A b \in R : May(h, b) /\ b.track \in Tracks,
         \A b \in R : Fits(phase, b.do),
         NEW new, NEW N \in SUBSET AnyStep, Chain(new, N), Then(new), \A x \in N, b \in R : May(x, b),
         \A x \in N : x.track = h.track /\ Fits(phase, x.do),
         UNCHANGED <<sources, recording, phase, run>>
  PROVE  Turned(h, R, N)
<1>1. Types /\ Program
  BY DEF CaptureInv
<1>2. \A x \in N, b \in In(Tail(todo)) : May(x, b)
  OBVIOUS
<1>3. /\ todo' \in Seq(AnyStep) /\ Steps' = N \cup In(Tail(todo)) /\ Steps' \subseteq AnyStep
      /\ Ordered(todo') /\ FlushedFirst'
  BY <1>1, <1>2, NextSteps
<1>4. Steps' = N \cup R
  BY <1>3
<1>5. N \subseteq AnyStep /\ R \subseteq AnyStep
  OBVIOUS
<1>6. \A b \in R : May(h, b) /\ b.track \in Tracks /\ Fits(phase, b.do)
  OBVIOUS
<1> QED BY <1>3, <1>4, <1>5, <1>6 DEF Turned

(* What is known of the track whose turn it is                             *)
LEMMA TurnFacts ==
  ASSUME CaptureInv, NEW h, NEW R, NEW N, Turned(h, R, N), NEW t, t = h.track
  PROVE  /\ Types /\ Program /\ Shape /\ Sealing /\ Direction1 /\ Direction2
         /\ h \in AnyStep /\ h = Head(todo) /\ t \in Tracks /\ t \in Both /\ Fits(phase, h.do)
         /\ Steps = {h} \cup R /\ Steps' = N \cup R /\ Steps' \subseteq AnyStep
         /\ Steps \subseteq AnyStep /\ R \subseteq AnyStep
         /\ \A b \in R : May(h, b)
         /\ Clock(t) /\ Pieces(t) /\ Disk(t) /\ Cover(t) /\ Announced(t)
         /\ journal[t] \in Journal /\ journal[t].final \in Nat /\ journal[t].classified \in Nat
         /\ journal[t].voiced \subseteq Nat /\ journal[t].pcm \subseteq Nat
         /\ Cut(t) \subseteq Segment /\ journal[t].gaps \subseteq Gap
         /\ journal[t].boundaries \subseteq BoundaryEvent
         /\ vad[t].cursor \in Nat /\ Low(t) \in Nat /\ From(t) \in Nat
         /\ \A u \in journal[t].voiced \cup journal[t].pcm : u < journal[t].final
         /\ \A x \in R : x.do \in {"direction", "changeDirection", "boundary"} => x.track = t
<1>1. Types /\ Program /\ Shape /\ Sealing /\ Direction1 /\ Direction2
  BY DEF CaptureInv, Program
<1>2. /\ h \in AnyStep /\ h = Head(todo) /\ t \in Tracks /\ Fits(phase, h.do)
      /\ Steps = {h} \cup R /\ Steps' = N \cup R /\ Steps' \subseteq AnyStep
      /\ Steps \subseteq AnyStep /\ R \subseteq AnyStep /\ \A b \in R : May(h, b) /\ b.track \in Tracks
  BY DEF Turned
<1>3. Clock(t) /\ Pieces(t) /\ Disk(t) /\ Cover(t) /\ Announced(t)
  BY <1>2 DEF CaptureInv
<1>4. /\ t \in Both /\ journal[t] \in Journal /\ journal[t].final \in Nat
      /\ journal[t].classified \in Nat
      /\ journal[t].voiced \subseteq Nat /\ journal[t].pcm \subseteq Nat
      /\ Cut(t) \subseteq Segment /\ journal[t].gaps \subseteq Gap
      /\ journal[t].boundaries \subseteq BoundaryEvent /\ vad[t].cursor \in Nat
  BY <1>1, <1>2, TypedTrack, TypedCut
<1>5. Low(t) \in Nat /\ From(t) \in Nat
  BY <1>1, <1>2, TypedTrack, TypedActive DEF Low, From
<1>6. \A u \in journal[t].voiced \cup journal[t].pcm : u < journal[t].final
  BY <1>3 DEF Clock
<1>7. \A x \in R : x.do \in {"direction", "changeDirection", "boundary"} => x.track = t
  <2>1. \A x \in R : x.do \in {"direction", "changeDirection", "boundary"} => ~Dual /\ x.track \in Tracks
    BY <1>1, <1>2 DEF Shape
  <2>2. ~Dual => Tracks = {Mic}
    BY <1>1 DEF Types, Tracks, Both, Dual
  <2> QED BY <1>2, <2>1, <2>2
<1> QED BY <1>1, <1>2, <1>3, <1>4, <1>5, <1>6, <1>7

(* The other track is as it was.                                           *)
LEMMA OtherTrack ==
  ASSUME CaptureInv, NEW h, NEW R, NEW N, Turned(h, R, N),
         NEW t \in Tracks, t # h.track, SameTape(t), vad'[t] = vad[t],
         ledger \subseteq ledger', outbox'[t] = outbox[t]
  PROVE  Clock(t)' /\ Pieces(t)' /\ Disk(t)' /\ Cover(t)' /\ Announced(t)'
<1>1. Types /\ Clock(t) /\ Pieces(t) /\ Disk(t) /\ Cover(t) /\ Announced(t)
  BY DEF CaptureInv
<1>2. /\ Steps = {h} \cup R /\ Steps' = N \cup R /\ Steps' \subseteq AnyStep /\ Steps \subseteq AnyStep
      /\ phase' = phase /\ h = Head(todo) /\ \A x \in N : x.track = h.track
  BY DEF Turned
<1>3. Keeps(KindOf(t, TrackKinds))
  BY <1>2 DEF Keeps, KindOf
<1>4. \A x \in Steps : GapAbout(x) /\ x.track = t => x \in Steps'
  BY <1>2
<1> QED BY <1>1, <1>2, <1>3, <1>4, TrackFrame

TapeKinds == {"close", "closing", "record", "advance", "noteGap", "push", "hear", "tail", "gapTo",
              "finish", "checkpoint", "skip"}

(* Nothing is sealed by a step that is no seal.                            *)
LEMMA SealingTurn ==
  ASSUME CaptureInv, NEW h, NEW R, NEW N, Turned(h, R, N), h.do # "seal",
         \A x \in N : x.do \notin {"publish", "last", "direction", "changeDirection"},
         \A x \in N : x.do \in TapeKinds => ~Closed(h.track),
         \A t \in Tracks : SameTape(t) \/ (~Closed(t) /\ journal'[t].closed = journal[t].closed),
         Seals' \subseteq Seals, ledger' = ledger
  PROVE  Sealing'
<1>1. Sealing /\ Types /\ Tracks' = Tracks /\ Mic \in Tracks
  BY DEF CaptureInv, Types, Both, Tracks, Turned
<1>2. /\ Steps = {h} \cup R /\ Steps' = N \cup R /\ phase' = phase
      /\ \A x \in N : x.track = h.track
  BY DEF Turned
<1>3. \A t \in Tracks : Closed(t)' = Closed(t)
  BY DEF Closed, SameTape
<1>4. Has("publish", Mic)' => \A t \in Tracks : Closed(t)' \/ Has("seal", t)'
  <2>1. Has("publish", Mic)' => Has("publish", Mic)
    BY <1>2 DEF Has
  <2>2. \A t : Has("seal", t) => Has("seal", t)'
    BY <1>2 DEF Has
  <2> QED BY <1>1, <1>3, <2>1, <2>2 DEF Sealing
<1>5. ASSUME \A t \in Tracks : Closed(t)
      PROVE  Manifest' = Manifest /\ \A t \in Tracks : Cut(t)' = Cut(t)
  <2>1. \A t \in Tracks : SameTape(t)
    BY <1>5
  <2> QED BY <1>1, <2>1 DEF Manifest, SameTape, Cut
<1>6. \A e \in Seals' : e.about.tracks = Manifest' /\ \A t \in Tracks : Closed(t)'
  BY <1>1, <1>3, <1>5 DEF Sealing
<1>7. Sealed' => \A t \in Tracks : Cut(t)' = {s \in Registered' : s.track = t}
  <2>1. Sealed' = Sealed /\ Registered' = Registered
    BY DEF Sealed, Registered, Events
  <2>2. Sealed => \A t \in Tracks : Closed(t)
    <3>1. Sealed => \E e \in ledger : e.kind = "seal"
      BY DEF Sealed, Events
    <3>2. \A e \in ledger : e.kind = "seal" => e \in Seals
      BY DEF Seals, SentSeals
    <3> QED BY <1>1, <3>1, <3>2 DEF Sealing
  <2> QED BY <1>1, <1>5, <2>1, <2>2 DEF Sealing
<1>8. ASSUME NEW t \in Tracks, Closed(t)
      PROVE  /\ phase' \notin {"opening", "live"}
             /\ \A x \in Steps' :
                  /\ x.do \notin {"last", "direction", "changeDirection"}
                  /\ x.track = t => x.do \notin TapeKinds
  BY <1>1, <1>2, <1>8 DEF Sealing, TapeKinds
<1> QED BY <1>1, <1>3, <1>4, <1>6, <1>7, <1>8 DEF Sealing, TapeKinds

(* Steps about no direction                                                *)
Calm(x) == x.do \notin DirectionKinds /\ x \notin About("boundary")

(* and the directions, when no step of the chain is about one.             *)
LEMMA CalmDirections ==
  ASSUME CaptureInv, NEW h, NEW R, NEW N, Turned(h, R, N), Calm(h), \A x \in N : Calm(x),
         epoch' = epoch, ledger' = ledger,
         \A t \in Tracks : journal'[t].boundaries = journal[t].boundaries,
         \A t \in Tracks : \A e \in outbox'[t] : e.kind = "boundary" => e \in outbox[t],
         \A x \in R : x.do # "boundary",
         Has("changeDirection", Mic)' /\ ~Has("checkpoint", Mic)' =>
           journal'[Mic].active = None /\ journal'[Mic].classified = vad'[Mic].cursor,
         journal'[Mic].final = journal[Mic].final \/ Live,
         \A t \in Tracks : \A s \in Cut(t)' :
           \/ s \in Cut(t) /\ journal'[t].segments[s] = journal[t].segments[s]
           \/ Dated(t, s)'
  PROVE  Direction1' /\ Direction2'
<1>1. Direction1 /\ Direction2 /\ Types /\ Mic \in Tracks
  BY DEF CaptureInv, Types, Both, Tracks
<1>2. /\ Steps = {h} \cup R /\ Steps' = N \cup R /\ phase' = phase /\ sources' = sources
      /\ Steps \subseteq AnyStep /\ Steps' \subseteq AnyStep
  BY DEF Turned
<1>3. \A x \in Steps : x.do # "boundary"
  BY <1>2 DEF Calm, DirectionKinds
<1>4. SameDirections
  <2>1. Keeps(Kind(DirectionKinds))
    BY <1>2 DEF Keeps, Kind, Calm
  <2>2. Keeps(About("boundary"))
    BY <1>2 DEF Keeps, Calm
  <2> QED BY <2>1, <2>2 DEF SameDirections
<1>5. Direction1'
  BY <1>1, <1>2, <1>3, <1>4, Direction1Frame
<1>6. journal'[Mic].final = journal[Mic].final \/ Sent \subseteq Noted
  <2>1. Live => ~Over /\ phase # "recovering"
    BY DEF Live, Over
  <2> QED BY <1>1, <1>3, <2>1 DEF Direction2
<1>7. Direction2'
  BY <1>1, <1>2, <1>4, <1>6, Direction2Frame
<1> QED BY <1>5, <1>7

(* A turn that calls no step of its own about the clock, nor of the thread *)
LEMMA TurnShaped ==
  ASSUME CaptureInv, NEW h, NEW R, NEW N, Turned(h, R, N),
         Shape',
         journal' \in [Tracks -> Journal], outbox' \in [Tracks -> SUBSET AnyEvent],
         vad' \in [Tracks -> [cursor : Nat, active : Active \cup {None}]],
         epoch' \in Nat \ {0}, queue' = queue, ledger' = ledger, Fresh',
         \A t \in Tracks : t # h.track =>
           SameTape(t) /\ vad'[t] = vad[t] /\ outbox'[t] = outbox[t],
         NEW v, v = h.track, Clock(v)', Pieces(v)', Disk(v)', Cover(v)', Announced(v)',
         Sealing', Direction1', Direction2'
  PROVE  CaptureInv'
<1>1. Types /\ Program /\ Tracks' = Tracks /\ Dual' = Dual
  BY DEF CaptureInv, Tracks, Dual, Turned
<1>2. /\ Steps = {h} \cup R /\ Steps' = N \cup R /\ Steps' \subseteq AnyStep /\ phase' = phase
      /\ \A b \in R : May(h, b) /\ b.track \in Tracks /\ Fits(phase, b.do)
      /\ \A x \in N : x.track = h.track /\ Fits(phase, x.do) /\ h.track \in Tracks
      /\ todo' \in Seq(AnyStep) /\ Ordered(todo') /\ FlushedFirst'
      /\ UNCHANGED <<sources, recording, run>>
  BY DEF Turned
<1>3. Types'
  BY <1>1, <1>2 DEF Types
<1>5. Program'
  BY <1>2 DEF Program
<1>6. ASSUME NEW t \in Tracks
      PROVE  Clock(t)' /\ Pieces(t)' /\ Disk(t)' /\ Cover(t)' /\ Announced(t)'
  <2>1. CASE t # h.track
    BY <2>1, OtherTrack
  <2>2. CASE t = h.track
    BY <2>2
  <2> QED BY <2>1, <2>2
<1> QED BY <1>1, <1>3, <1>5, <1>6 DEF CaptureInv

(* A turn that starts nothing new on the tape                              *)
LEMMA TurnKept ==
  ASSUME CaptureInv, NEW h, NEW R, NEW N, Turned(h, R, N),
         \A x \in N : x.do \notin {"record", "advance", "noteGap", "gapTo", "direction",
                                   "changeDirection", "boundary"},
         h.do \notin {"record", "advance"} => journal'[h.track].final = journal[h.track].final,
         journal' \in [Tracks -> Journal], outbox' \in [Tracks -> SUBSET AnyEvent],
         vad' \in [Tracks -> [cursor : Nat, active : Active \cup {None}]],
         epoch' \in Nat \ {0}, queue' = queue, ledger' = ledger, Fresh',
         \A t \in Tracks : t # h.track =>
           SameTape(t) /\ vad'[t] = vad[t] /\ outbox'[t] = outbox[t],
         NEW v, v = h.track, Clock(v)', Pieces(v)', Disk(v)', Cover(v)', Announced(v)',
         Sealing', Direction1', Direction2'
  PROVE  CaptureInv'
<1>1. Types /\ Program /\ Tracks' = Tracks /\ Dual' = Dual
  BY DEF CaptureInv, Tracks, Dual, Turned
<1>2. /\ Steps = {h} \cup R /\ Steps' = N \cup R /\ Steps' \subseteq AnyStep /\ phase' = phase
      /\ \A b \in R : May(h, b) /\ b.track \in Tracks /\ Fits(phase, b.do)
      /\ \A x \in N : x.track = h.track /\ Fits(phase, x.do) /\ h.track \in Tracks
      /\ todo' \in Seq(AnyStep) /\ Ordered(todo') /\ FlushedFirst'
      /\ UNCHANGED <<sources, recording, run>>
  BY DEF Turned
<1>4. Shape'
  <2>1. \A x \in Steps' : Fits(phase', x.do)
    BY <1>2
  <2>2. ASSUME NEW t \in Tracks, Has("record", t)' PROVE Has("push", t)'
    <3>1. \E x \in R : x.do = "record" /\ x.track = t
      BY <1>2, <2>2 DEF Has
    <3>2. PICK y \in Steps : y.do = "push" /\ y.track = t
      BY <1>1, <1>2, <3>1 DEF Program, Shape, Has
    <3>3. y \in R
      BY <1>2, <3>1, <3>2 DEF May, CloseKinds
    <3> QED BY <1>2, <3>2, <3>3 DEF Has
  <2>3. ASSUME NEW t \in Tracks, Has("advance", t)' PROVE Has("noteGap", t)'
    <3>1. PICK x \in R : x.do = "advance" /\ x.track = t
      BY <1>2, <2>3 DEF Has
    <3>2. PICK y \in Steps : y.do = "noteGap" /\ y.track = t
      BY <1>1, <1>2, <3>1 DEF Program, Shape, Has
    <3>3. y # h
      BY <1>2, <3>1, <3>2 DEF May, CloseKinds
    <3>4. y \in R
      BY <1>2, <3>2, <3>3
    <3> QED BY <1>2, <3>2, <3>4 DEF Has
  <2>4. \A x, y \in Steps' : x.do = "advance" /\ y.do = "noteGap" /\ x.track = y.track =>
          x.with = y.with
    BY <1>1, <1>2 DEF Program, Shape
  <2>5. ASSUME NEW x \in Steps'
        PROVE  /\ x.do \in {"advance", "noteGap"} => x.with > 0
               /\ x.do = "gapTo" => x.with >= journal'[x.track].final
    <3>1. x.do \in {"advance", "noteGap"} => x.with > 0
      BY <1>1, <1>2 DEF Program, Shape
    <3>2. ASSUME x.do = "gapTo" PROVE x.with >= journal'[x.track].final
      <4>1. x \in R /\ x.with >= journal[x.track].final /\ x.track \in Tracks
        BY <1>1, <1>2, <3>2 DEF Program, Shape
      <4>2. x.track = h.track => h.do \notin {"record", "advance"}
        BY <1>2, <3>2, <4>1 DEF May
      <4> QED BY <4>1, <4>2 DEF SameTape
    <3> QED BY <3>1, <3>2
  <2>6. Dual => \A x \in Steps' : x.do \notin {"direction", "changeDirection", "boundary"}
    BY <1>1, <1>2 DEF Program, Shape
  <2> QED BY <1>1, <2>1, <2>2, <2>3, <2>4, <2>5, <2>6 DEF Shape
<1> QED BY <1>4, TurnShaped

----------------------------------------------------------------------------
(* The clock of a track.                                                   *)

(* The same, when the step calls no other.                                 *)
LEMMA DoneFacts ==
  ASSUME CaptureInv, NEW h, NEW R, Turned(h, R, {}), NEW t, t = h.track
  PROVE  /\ Types /\ Program /\ Shape /\ Sealing /\ Direction1 /\ Direction2
         /\ h \in AnyStep /\ h = Head(todo) /\ t \in Tracks /\ t \in Both /\ Fits(phase, h.do)
         /\ Steps = {h} \cup R /\ Steps' = R /\ Steps' \subseteq AnyStep
         /\ Steps \subseteq AnyStep /\ R \subseteq AnyStep
         /\ \A b \in R : May(h, b)
         /\ Clock(t) /\ Pieces(t) /\ Disk(t) /\ Cover(t) /\ Announced(t)
         /\ journal[t] \in Journal /\ journal[t].final \in Nat /\ journal[t].classified \in Nat
         /\ journal[t].voiced \subseteq Nat /\ journal[t].pcm \subseteq Nat
         /\ Cut(t) \subseteq Segment /\ journal[t].gaps \subseteq Gap
         /\ journal[t].boundaries \subseteq BoundaryEvent
         /\ vad[t].cursor \in Nat /\ Low(t) \in Nat /\ From(t) \in Nat
         /\ \A u \in journal[t].voiced \cup journal[t].pcm : u < journal[t].final
         /\ \A x \in R : x.do \in {"direction", "changeDirection", "boundary"} => x.track = t
<1>0. PICK N : N = {}
  OBVIOUS
<1>1. /\ Types /\ Program /\ Shape /\ Sealing /\ Direction1 /\ Direction2
      /\ h \in AnyStep /\ h = Head(todo) /\ t \in Tracks /\ t \in Both /\ Fits(phase, h.do)
      /\ Steps = {h} \cup R /\ Steps' = N \cup R /\ Steps' \subseteq AnyStep
      /\ Steps \subseteq AnyStep /\ R \subseteq AnyStep
      /\ \A b \in R : May(h, b)
      /\ Clock(t) /\ Pieces(t) /\ Disk(t) /\ Cover(t) /\ Announced(t)
      /\ journal[t] \in Journal /\ journal[t].final \in Nat /\ journal[t].classified \in Nat
      /\ journal[t].voiced \subseteq Nat /\ journal[t].pcm \subseteq Nat
      /\ Cut(t) \subseteq Segment /\ journal[t].gaps \subseteq Gap
      /\ journal[t].boundaries \subseteq BoundaryEvent
      /\ vad[t].cursor \in Nat /\ Low(t) \in Nat /\ From(t) \in Nat
      /\ \A u \in journal[t].voiced \cup journal[t].pcm : u < journal[t].final
      /\ \A x \in R : x.do \in {"direction", "changeDirection", "boundary"} => x.track = t
  <2>1. Turned(h, R, N)
    BY <1>0
  <2> QED BY <2>1, TurnFacts
<1>2. Steps' = R
  BY <1>0, <1>1
<1> QED BY <1>1, <1>2

(* A new journal of one track leaves the tape of the other as it is.       *)
LEMMA OneJournal ==
  ASSUME Types, NEW t \in Tracks, NEW j \in Journal, journal' = [journal EXCEPT ![t] = j]
  PROVE  /\ journal' \in [Tracks -> Journal] /\ journal'[t] = j
         /\ \A u \in Tracks : u # t => SameTape(u) /\ journal'[u] = journal[u]
<1>1. journal \in [Tracks -> Journal]
  BY DEF Types
<1> QED BY <1>1 DEF SameTape

(* Seals only come from seals that are kept or sent.                       *)
LEMMA SealsKept ==
  ASSUME sources' = sources, ledger' = ledger,
         \A t \in Tracks : journal'[t].seal = journal[t].seal,
         \A t \in Tracks : \A e \in outbox'[t] : e.kind = "seal" => e \in outbox[t],
         \A x \in Steps' : x \in About("seal") => x \in Steps, Steps' \subseteq AnyStep
  PROVE  Seals' \subseteq Seals
<1>1. ASSUME NEW e PROVE IsSeal(e)' => IsSeal(e)
  BY DEF IsSeal, Tracks, About
<1>2. (\A e : e \in Seals <=> IsSeal(e))'
  BY SealsAre, PTL
<1> QED BY <1>1, <1>2, SealsAre

(* Silence the detector is told of keeps the invariant: the clock runs to  *)
(* the end of the audio.                                                   *)
LEMMA AdvanceKept == CaptureInv /\ Advance => CaptureInv'
<1> SUFFICES ASSUME CaptureInv, Advance PROVE CaptureInv'
  OBVIOUS
<1>1. todo # <<>> /\ Head(todo).do = "advance" /\ Then(<<>>)
      /\ UNCHANGED <<sources, recording, outbox, ledger, phase, vad, epoch, queue, run>>
  BY DEF Advance, Doing, memory
<1>2. PICK h, R : Turned(h, R, {})
  BY <1>1, DoneTurn
<1>3. PICK t : t = h.track
  OBVIOUS
<1>4. /\ Types /\ Program /\ Shape /\ Sealing /\ Direction1 /\ Direction2
      /\ h \in AnyStep /\ h = Head(todo) /\ t \in Tracks /\ t \in Both /\ Fits(phase, h.do)
      /\ Steps = {h} \cup R /\ Steps' = R /\ Steps' \subseteq AnyStep
      /\ Steps \subseteq AnyStep /\ R \subseteq AnyStep
      /\ \A b \in R : May(h, b)
      /\ Clock(t) /\ Pieces(t) /\ Disk(t) /\ Cover(t) /\ Announced(t)
      /\ journal[t] \in Journal /\ journal[t].final \in Nat /\ journal[t].classified \in Nat
      /\ journal[t].voiced \subseteq Nat /\ journal[t].pcm \subseteq Nat
      /\ Cut(t) \subseteq Segment /\ journal[t].gaps \subseteq Gap
      /\ vad[t].cursor \in Nat /\ Low(t) \in Nat /\ From(t) \in Nat
      /\ \A u \in journal[t].voiced \cup journal[t].pcm : u < journal[t].final
      /\ \A x \in R : x.do \in {"direction", "changeDirection", "boundary"} => x.track = t
  BY <1>2, <1>3, TurnFacts
<1>5. PICK n : n = h.with
  OBVIOUS
<1>6. h.do = "advance"
  BY <1>1, <1>4
<1>7. /\ n \in Nat /\ n > 0 /\ \E y \in R : y.do = "noteGap" /\ y.track = t
      /\ \A y \in R : y.do = "noteGap" /\ y.track = t => y.with = n
  <2>1. n \in Nat
    BY <1>4, <1>5, <1>6, TypedStep
  <2>2. Has("noteGap", t)
    BY <1>3, <1>4, <1>6 DEF Has, Shape
  <2>3. n > 0 /\ \A y \in R : y.do = "noteGap" /\ y.track = t => y.with = n
    BY <1>3, <1>4, <1>5, <1>6 DEF Shape
  <2> QED BY <1>4, <1>6, <2>1, <2>2, <2>3 DEF Has
<1>8. \A b \in R : b.track = t =>
        b.do \notin {"close", "closing", "advance", "skip", "changeDirection", "boundary",
                     "recoverTail", "hear", "tail", "gapTo"}
  BY <1>3, <1>4, <1>6 DEF May, CloseKinds
<1>9. Live /\ ~Over /\ phase \notin {"opening", "abandoned", "recovering"}
  BY <1>4, <1>6 DEF Fits, Live, Over, CloseKinds, ReplayKinds
<1> DEFINE j == [journal[t] EXCEPT !.final = journal[t].final + n]
<1>11. j \in Journal
  <2>1. journal[t].final + n \in Nat
    BY <1>4, <1>7
  <2> QED BY <1>4, <2>1, WrittenJournal
<1>12. journal' = [journal EXCEPT ![t] = j]
  BY <1>3, <1>4, <1>5 DEF Advance, Track, With
<1>13. /\ j.final = journal[t].final + n /\ j.classified = journal[t].classified
       /\ j.active = journal[t].active /\ j.pcm = journal[t].pcm /\ j.voiced = journal[t].voiced
       /\ j.segments = journal[t].segments /\ j.gaps = journal[t].gaps
       /\ j.boundaries = journal[t].boundaries /\ j.closed = journal[t].closed
       /\ j.seal = journal[t].seal
  BY <1>4 DEF Journal
<1> HIDE DEF j
<1>14. /\ journal' \in [Tracks -> Journal] /\ journal'[t] = j
       /\ \A u \in Tracks : u # t => SameTape(u) /\ journal'[u] = journal[u]
  BY <1>4, <1>11, <1>12, OneJournal
<1>16. /\ Cut(t)' = Cut(t) /\ From(t)' = From(t) /\ Low(t)' = Low(t) /\ Closed(t)' = Closed(t)
  BY <1>1, <1>13, <1>14 DEF Cut, From, Low, Closed
<1>17. \A u : Behind(t, u)' <=> Behind(t, u)
  BY <1>16 DEF Behind
<1>18. ~Closed(t)
  BY <1>3, <1>4, <1>6 DEF Sealing
<1>19. vad[t].active = None /\ vad[t].cursor = journal[t].final
  <2>1. Has("advance", t)
    BY <1>3, <1>4, <1>6 DEF Has
  <2> QED BY <1>4, <1>6, <1>9, <2>1 DEF Clock
<1>22. Has("noteGap", t)' /\ ~Has("advance", t)' /\ ~Has("skip", t)'
  BY <1>4, <1>7, <1>8 DEF Has
<1>23. Clock(t)'
  <2>1. \A u \in j.voiced \cup j.pcm : u < j.final /\ ~(u >= vad[t].cursor)
    BY <1>4, <1>7, <1>13, <1>19
  <2>3. \A x \in Steps' : x.do = "noteGap" /\ x.track = t => j.final = vad[t].cursor + x.with
    BY <1>4, <1>7, <1>13, <1>19
  <2>5. vad[t].cursor <= j.final
    BY <1>4, <1>7, <1>13, <1>19
  <2> QED BY <1>1, <1>9, <1>14, <1>19, <1>22, <2>1, <2>3, <2>5 DEF Clock
<1>24. Pending(t)' = {}
  BY <1>4, <1>8 DEF Pending
<1>25. Pieces(t)'
  BY <1>4, <1>8, <1>24 DEF Pieces
<1>26. Disk(t)'
  <2>1. j.classified <= j.final /\ Low(t) <= j.final
    BY <1>4, <1>7, <1>13 DEF Disk
  <2>2. \A r \in Cut(t) : r.track = t /\ r.start < r.end /\ r.end <= j.final
    BY <1>4, <1>7, <1>13, TypedSegment DEF Disk
  <2>3. ASSUME NEW g \in j.gaps
        PROVE  /\ g.track = t /\ g.start < g.end /\ g.end <= j.final
               /\ \A u \in j.pcm : ~Holds(g, u)
               /\ \A r \in Cut(t) : Apart(g, r)
    <3>1. g.start \in Nat /\ g.end \in Nat /\ g \in journal[t].gaps
      BY <1>4, <1>13 DEF Gap
    <3> QED BY <1>4, <1>7, <1>13, <3>1 DEF Disk
  <2>4. \A u \in j.voiced : Behind(t, u) => \E r \in Cut(t) : Holds(r, u)
    BY <1>4, <1>13 DEF Disk
  <2>5. /\ Low(t) <= From(t)
        /\ \A r \in Cut(t) : r.end <= From(t)
        /\ \A b \in j.boundaries : b.about.start <= From(t)
    BY <1>4, <1>9, <1>13 DEF Disk
  <2>6. \A g \in j.gaps : g.end <= From(t)
    <3>1. ~Has("skip", t)
      BY <1>4, <1>6, <1>8 DEF Has
    <3> QED BY <1>4, <1>9, <1>13, <3>1 DEF Disk
  <2>7. \A b \in j.boundaries : b.about.start <= Low(t)
    BY <1>4, <1>13 DEF Disk
  <2>8. \A r, s \in Cut(t) : r # s => Apart(r, s)
    BY <1>4 DEF Disk
  <2> QED BY <1>14, <1>16, <1>17, <1>18, <2>1, <2>2, <2>3, <2>4, <2>5, <2>6, <2>7, <2>8 DEF Disk
<1>27. Cover(t)'
  <2>1. Pending(t) = {}
    BY <1>4, <1>6, <1>8 DEF Pending
  <2>3. \A u \in journal[t].voiced : ~(vad[t].cursor <= u)
    BY <1>4, <1>19
  <2>4. \A u \in journal[t].voiced : \E r \in Cut(t) : Holds(r, u)
    BY <1>4, <1>9, <1>18, <1>19, <2>1, <2>3 DEF Cover
  <2> QED BY <1>13, <1>14, <1>16, <2>4 DEF Cover
<1>28. Announced(t)'
  <2>1. Keeps(KindOf(t, {"recoverTail"}))
    BY <1>4, <1>6 DEF Keeps, KindOf
  <2>2. \A x \in Steps : GapAbout(x) => x \in Steps'
    BY <1>4, <1>6 DEF GapAbout
  <2> QED BY <1>1, <1>4, <1>13, <1>14, <1>17, <2>1, <2>2, AnnouncedFrame
<1>29. \A u \in Tracks : journal'[u].seal = journal[u].seal
       /\ journal'[u].boundaries = journal[u].boundaries
       /\ journal'[u].segments = journal[u].segments
  BY <1>13, <1>14
<1>30. Sealing'
  <2>1. Seals' \subseteq Seals
    BY <1>1, <1>4, <1>29, SealsKept
  <2>2. \A u \in Tracks : SameTape(u) \/ (~Closed(u) /\ journal'[u].closed = journal[u].closed)
    BY <1>13, <1>14, <1>18
  <2> QED BY <1>1, <1>2, <1>6, <2>1, <2>2, SealingTurn
<1>31. Direction1' /\ Direction2'
  <2>1. \A x \in R : x.do # "boundary" /\ x.do # "changeDirection"
    BY <1>4, <1>8
  <2>2. ~Has("changeDirection", Mic)'
    BY <1>4, <2>1 DEF Has
  <2>3. Calm(h)
    BY <1>6 DEF Calm, DirectionKinds, About
  <2>4. \A u \in Tracks : Cut(u)' = Cut(u)
    BY <1>29 DEF Cut
  <2> QED BY <1>1, <1>2, <1>9, <1>29, <2>1, <2>2, <2>3, <2>4, CalmDirections
<1>32. Fresh'
  BY <1>1, <1>9 DEF Fresh
<1>33. /\ outbox' \in [Tracks -> SUBSET AnyEvent] /\ epoch' \in Nat \ {0}
       /\ vad' \in [Tracks -> [cursor : Nat, active : Active \cup {None}]]
  BY <1>1, <1>4 DEF Types
<1>34. \A u \in Tracks : u # h.track => SameTape(u) /\ vad'[u] = vad[u] /\ outbox'[u] = outbox[u]
  BY <1>1, <1>3, <1>14
<1> QED BY <1>1, <1>2, <1>3, <1>6, <1>14, <1>23, <1>25, <1>26, <1>27, <1>28, <1>30, <1>31,
           <1>32, <1>33, <1>34, TurnKept

(* Recording audio keeps it: what is voiced is pushed to the detector      *)
(* next.                                                                   *)
LEMMA RecordKept == CaptureInv /\ Record => CaptureInv'
<1> SUFFICES ASSUME CaptureInv, Record PROVE CaptureInv'
  OBVIOUS
<1>1. todo # <<>> /\ Head(todo).do = "record" /\ Then(<<>>)
      /\ UNCHANGED <<sources, recording, outbox, ledger, phase, vad, epoch, queue, run>>
  BY DEF Record, Doing, memory
<1>2. PICK h, R : Turned(h, R, {})
  BY <1>1, DoneTurn
<1>3. PICK t : t = h.track
  OBVIOUS
<1>4. /\ Types /\ Program /\ Shape /\ Sealing /\ Direction1 /\ Direction2
      /\ h \in AnyStep /\ h = Head(todo) /\ t \in Tracks /\ t \in Both /\ Fits(phase, h.do)
      /\ Steps = {h} \cup R /\ Steps' = R /\ Steps' \subseteq AnyStep
      /\ Steps \subseteq AnyStep /\ R \subseteq AnyStep
      /\ \A b \in R : May(h, b)
      /\ Clock(t) /\ Pieces(t) /\ Disk(t) /\ Cover(t) /\ Announced(t)
      /\ journal[t] \in Journal /\ journal[t].final \in Nat /\ journal[t].classified \in Nat
      /\ journal[t].voiced \subseteq Nat /\ journal[t].pcm \subseteq Nat
      /\ Cut(t) \subseteq Segment /\ journal[t].gaps \subseteq Gap
      /\ journal[t].boundaries \subseteq BoundaryEvent
      /\ vad[t].cursor \in Nat /\ Low(t) \in Nat /\ From(t) \in Nat
      /\ \A u \in journal[t].voiced \cup journal[t].pcm : u < journal[t].final
      /\ \A x \in R : x.do \in {"direction", "changeDirection", "boundary"} => x.track = t
  BY <1>2, <1>3, DoneFacts
<1>6. h.do = "record"
  BY <1>1, <1>4
<1>5. PICK n : n = h.with
  OBVIOUS
<1>7. n \in Nat
  BY <1>4, <1>5, <1>6, TypedStep
<1>8. \A b \in R : b.track = t =>
        b.do \notin {"close", "closing", "advance", "noteGap", "skip", "changeDirection", "boundary",
                     "record", "recoverTail", "hear", "tail", "gapTo", "seal"}
  BY <1>3, <1>4, <1>6 DEF May, CloseKinds
<1>9. Live /\ ~Over /\ phase \notin {"opening", "abandoned", "recovering"}
  BY <1>4, <1>6 DEF Fits, Live, Over, CloseKinds, ReplayKinds
<1>10. PICK v \in SUBSET (journal[t].final..(journal[t].final + n - 1)) :
         journal' = [journal EXCEPT ![t] = Heard(journal[t], n, v)]
  BY <1>3, <1>4, <1>5 DEF Record, Track, With
<1> DEFINE j == Heard(journal[t], n, v)
<1>11. /\ j \in Journal /\ j.final = journal[t].final + n /\ j.voiced = journal[t].voiced \cup v
       /\ \A u \in j.pcm : u \in journal[t].pcm
                          \/ u \in journal[t].final..(journal[t].final + n - 1)
       /\ j.classified = journal[t].classified /\ j.active = journal[t].active
       /\ j.segments = journal[t].segments /\ j.gaps = journal[t].gaps
       /\ j.boundaries = journal[t].boundaries /\ j.closed = journal[t].closed
       /\ j.seal = journal[t].seal
  BY <1>4, <1>7, HeardIs
<1> HIDE DEF j
<1>13. /\ journal' \in [Tracks -> Journal] /\ journal'[t] = j
       /\ \A u \in Tracks : u # t => SameTape(u) /\ journal'[u] = journal[u]
  BY <1>4, <1>10, <1>11, OneJournal DEF j
<1>14. /\ \A u \in j.voiced : u \in journal[t].voiced \/ (u \in Nat /\ u >= journal[t].final)
       /\ \A u \in j.pcm : u \in journal[t].pcm \/ (u \in Nat /\ u >= journal[t].final)
       /\ \A u \in j.voiced \cup j.pcm : u < j.final
  <2>1. \A u \in journal[t].final..(journal[t].final + n - 1) :
          u \in Nat /\ u >= journal[t].final /\ u < journal[t].final + n
    BY <1>4, <1>7
  <2>2. \A u \in v : u \in Nat /\ u >= journal[t].final /\ u < journal[t].final + n
    BY <1>10, <2>1
  <2>3. \A u \in journal[t].voiced \cup journal[t].pcm : u < journal[t].final + n
    BY <1>4, <1>7
  <2>4. \A u \in j.voiced : u \in journal[t].voiced \/ u \in v
    BY <1>11
  <2>5. \A u \in j.pcm : u \in journal[t].pcm
          \/ (u \in Nat /\ u >= journal[t].final /\ u < journal[t].final + n)
    BY <1>11, <2>1
  <2>6. \A u \in j.voiced : u < journal[t].final + n
    BY <2>2, <2>3, <2>4
  <2>7. \A u \in j.pcm : u < journal[t].final + n
    BY <2>3, <2>5
  <2> QED BY <1>11, <2>2, <2>4, <2>5, <2>6, <2>7
<1>16. /\ Cut(t)' = Cut(t) /\ From(t)' = From(t) /\ Low(t)' = Low(t) /\ Closed(t)' = Closed(t)
  BY <1>1, <1>11, <1>13 DEF Cut, From, Low, Closed
<1>17. \A u : Behind(t, u)' <=> Behind(t, u)
  BY <1>16 DEF Behind
<1>18. ~Closed(t)
  BY <1>3, <1>4, <1>6 DEF Sealing
<1>19. vad[t].cursor = journal[t].final
       /\ \A u \in journal[t].voiced \cup journal[t].pcm : ~(u >= vad[t].cursor)
  <2>1. Has("record", t)
    BY <1>3, <1>4, <1>6 DEF Has
  <2>2. ~Has("noteGap", t) /\ ~Has("skip", t)
    BY <1>3, <1>4, <1>6, <1>8 DEF Has
  <2> QED BY <1>4, <1>9, <2>1, <2>2 DEF Clock
<1>22. /\ Has("push", t)' /\ ~Has("record", t)' /\ ~Has("advance", t)' /\ ~Has("noteGap", t)'
       /\ ~Has("skip", t)' /\ ~Has("changeDirection", t)' /\ ~Has("seal", t)'
  <2>1. Has("push", t)
    BY <1>3, <1>4, <1>6 DEF Has, Shape
  <2> QED BY <1>4, <1>6, <1>8, <2>1 DEF Has
<1>23. Clock(t)'
  <2>1. vad[t].cursor <= j.final
    BY <1>4, <1>7, <1>11, <1>19
  <2>2. vad[t].active # None => vad[t].active.start < vad[t].cursor
    BY <1>4 DEF Clock
  <2>3. \A x \in Steps' : x.do = "noteGap" /\ x.track = t => FALSE
    BY <1>22 DEF Has
  <2> QED BY <1>1, <1>9, <1>13, <1>14, <1>22, <2>1, <2>2, <2>3 DEF Clock
<1>24. Pending(t)' = {}
  BY <1>4, <1>8 DEF Pending
<1>25. Pieces(t)'
  BY <1>4, <1>8, <1>24 DEF Pieces
<1>26. Disk(t)'
  <2>1. j.classified <= j.final /\ Low(t) <= j.final
    BY <1>4, <1>7, <1>11 DEF Disk
  <2>2. \A r \in Cut(t) : r.track = t /\ r.start < r.end /\ r.end <= j.final
    BY <1>4, <1>7, <1>11, TypedSegment DEF Disk
  <2>3. ASSUME NEW g \in j.gaps
        PROVE  /\ g.track = t /\ g.start < g.end /\ g.end <= j.final
               /\ \A u \in j.pcm : ~Holds(g, u)
               /\ \A r \in Cut(t) : Apart(g, r)
    <3>1. g.start \in Nat /\ g.end \in Nat /\ g \in journal[t].gaps
      BY <1>4, <1>11 DEF Gap
    <3>2. /\ g.track = t /\ g.start < g.end /\ g.end <= journal[t].final
          /\ \A u \in journal[t].pcm : ~Holds(g, u)
          /\ \A r \in Cut(t) : Apart(g, r)
      BY <1>4, <3>1 DEF Disk
    <3>3. \A u \in j.pcm : ~Holds(g, u)
      BY <1>4, <1>14, <3>1, <3>2 DEF Holds
    <3> QED BY <1>4, <1>7, <1>11, <3>1, <3>2, <3>3
  <2>4. ASSUME NEW u \in j.voiced, Behind(t, u) PROVE \E r \in Cut(t) : Holds(r, u)
    <3>1. u \in journal[t].voiced
      <4>1. SUFFICES ASSUME u \in Nat, u >= journal[t].final PROVE FALSE
        BY <1>14
      <4>2. Low(t) <= journal[t].final /\ \A r \in Cut(t) : r.end <= journal[t].final
        BY <1>4 DEF Disk
      <4> QED BY <1>4, <2>4, <4>1, <4>2, TypedSegment DEF Behind
    <3> QED BY <1>4, <2>4, <3>1 DEF Disk
  <2>5. /\ Low(t) <= From(t)
        /\ \A r \in Cut(t) : r.end <= From(t)
        /\ \A b \in j.boundaries : b.about.start <= From(t)
    BY <1>4, <1>9, <1>11 DEF Disk
  <2>6. \A g \in j.gaps : g.end <= From(t)
    <3>1. ~Has("skip", t)
      BY <1>4, <1>6, <1>8 DEF Has
    <3> QED BY <1>4, <1>9, <1>11, <3>1 DEF Disk
  <2>7. \A b \in j.boundaries : b.about.start <= Low(t)
    BY <1>4, <1>11 DEF Disk
  <2>8. \A r, s \in Cut(t) : r # s => Apart(r, s)
    BY <1>4 DEF Disk
  <2> QED BY <1>13, <1>16, <1>17, <1>18, <2>1, <2>2, <2>3, <2>4, <2>5, <2>6, <2>7, <2>8 DEF Disk
<1>27. Cover(t)'
  <2>1. Pending(t) = {}
    BY <1>4, <1>6, <1>8 DEF Pending
  <2>2. \A u \in journal[t].voiced :
          (\E r \in Cut(t) : Holds(r, u)) \/ (vad[t].active # None /\ vad[t].active.start <= u)
    BY <1>4, <1>9, <1>18, <1>19, <2>1 DEF Cover
  <2>3. \A u \in j.voiced :
          \/ \E r \in Cut(t) : Holds(r, u)
          \/ vad[t].active # None /\ vad[t].active.start <= u
          \/ vad[t].cursor <= u
    BY <1>4, <1>14, <1>19, <2>2
  <2> QED BY <1>1, <1>13, <1>16, <1>22, <2>3 DEF Cover
<1>28. Announced(t)'
  <2>1. Keeps(KindOf(t, {"recoverTail"}))
    BY <1>4, <1>6 DEF Keeps, KindOf
  <2>2. \A x \in Steps : GapAbout(x) => x \in Steps'
    BY <1>4, <1>6 DEF GapAbout
  <2> QED BY <1>1, <1>4, <1>11, <1>13, <1>17, <2>1, <2>2, AnnouncedFrame
<1>29. \A u \in Tracks : journal'[u].seal = journal[u].seal
       /\ journal'[u].boundaries = journal[u].boundaries
       /\ journal'[u].segments = journal[u].segments
  BY <1>11, <1>13
<1>30. Sealing'
  <2>1. Seals' \subseteq Seals
    BY <1>1, <1>4, <1>29, SealsKept
  <2>2. \A u \in Tracks : SameTape(u) \/ (~Closed(u) /\ journal'[u].closed = journal[u].closed)
    BY <1>11, <1>13, <1>18
  <2> QED BY <1>1, <1>2, <1>6, <2>1, <2>2, SealingTurn
<1>31. Direction1' /\ Direction2'
  <2>1. \A x \in R : x.do # "boundary" /\ x.do # "changeDirection"
    BY <1>4, <1>8
  <2>2. ~Has("changeDirection", Mic)'
    BY <1>4, <2>1 DEF Has
  <2>3. Calm(h)
    BY <1>6 DEF Calm, DirectionKinds, About
  <2>4. \A u \in Tracks : Cut(u)' = Cut(u)
    BY <1>29 DEF Cut
  <2> QED BY <1>1, <1>2, <1>9, <1>29, <2>1, <2>2, <2>3, <2>4, CalmDirections
<1>32. Fresh'
  BY <1>1, <1>9 DEF Fresh
<1>33. /\ outbox' \in [Tracks -> SUBSET AnyEvent] /\ epoch' \in Nat \ {0}
       /\ vad' \in [Tracks -> [cursor : Nat, active : Active \cup {None}]]
  BY <1>1, <1>4 DEF Types
<1>34. \A u \in Tracks : u # h.track => SameTape(u) /\ vad'[u] = vad[u] /\ outbox'[u] = outbox[u]
  BY <1>1, <1>3, <1>13
<1> QED BY <1>1, <1>2, <1>3, <1>6, <1>13, <1>23, <1>25, <1>26, <1>27, <1>28, <1>30, <1>31,
           <1>32, <1>33, <1>34, TurnKept

(* The place up to which a track has been looked at moves on.              *)
LEMMA SkipKept == CaptureInv /\ Skip => CaptureInv'
<1> SUFFICES ASSUME CaptureInv, Skip PROVE CaptureInv'
  OBVIOUS
<1>1. todo # <<>> /\ Head(todo).do = "skip" /\ Then(<<>>)
      /\ UNCHANGED <<sources, recording, journal, outbox, ledger, phase, epoch, queue, run>>
  BY DEF Skip, Doing, memory, disk
<1>2. PICK h, R : Turned(h, R, {})
  BY <1>1, DoneTurn
<1>3. PICK t : t = h.track
  OBVIOUS
<1>4. /\ Types /\ Program /\ Shape /\ Sealing /\ Direction1 /\ Direction2
      /\ h \in AnyStep /\ h = Head(todo) /\ t \in Tracks /\ t \in Both /\ Fits(phase, h.do)
      /\ Steps = {h} \cup R /\ Steps' = R /\ Steps' \subseteq AnyStep
      /\ Steps \subseteq AnyStep /\ R \subseteq AnyStep
      /\ \A b \in R : May(h, b)
      /\ Clock(t) /\ Pieces(t) /\ Disk(t) /\ Cover(t) /\ Announced(t)
      /\ journal[t] \in Journal /\ journal[t].final \in Nat /\ journal[t].classified \in Nat
      /\ journal[t].voiced \subseteq Nat /\ journal[t].pcm \subseteq Nat
      /\ Cut(t) \subseteq Segment /\ journal[t].gaps \subseteq Gap
      /\ journal[t].boundaries \subseteq BoundaryEvent
      /\ vad[t].cursor \in Nat /\ Low(t) \in Nat /\ From(t) \in Nat
      /\ \A u \in journal[t].voiced \cup journal[t].pcm : u < journal[t].final
      /\ \A x \in R : x.do \in {"direction", "changeDirection", "boundary"} => x.track = t
  BY <1>2, <1>3, DoneFacts
<1>6. h.do = "skip"
  BY <1>1, <1>4
<1>8. \A b \in R : b.track = t =>
        b.do \notin {"close", "closing", "advance", "noteGap", "skip", "changeDirection", "boundary",
                     "recoverTail", "hear", "tail", "gapTo"}
  BY <1>3, <1>4, <1>6 DEF May, CloseKinds
<1>9. Live /\ ~Over /\ phase \notin {"opening", "abandoned", "recovering"}
  BY <1>4, <1>6 DEF Fits, Live, Over, CloseKinds, ReplayKinds
<1>10. vad[t].active = None /\ \A u \in journal[t].voiced \cup journal[t].pcm : ~(u >= vad[t].cursor)
  <2>1. Has("skip", t)
    BY <1>3, <1>4, <1>6 DEF Has
  <2> QED BY <1>4, <1>6, <1>9, <2>1 DEF Clock
<1>11. vad' = [vad EXCEPT ![t].cursor = journal[t].final]
  BY <1>3, <1>4 DEF Skip, Track
<1>12. /\ vad' \in [Tracks -> [cursor : Nat, active : Active \cup {None}]]
       /\ vad'[t].cursor = journal[t].final /\ vad'[t].active = None
       /\ \A u \in Tracks : u # t => vad'[u] = vad[u]
  BY <1>4, <1>10, <1>11 DEF Types
<1>13. \A u \in Tracks : SameTape(u)
  BY <1>1 DEF SameTape
<1>16. /\ Cut(t)' = Cut(t) /\ From(t)' = journal[t].final /\ Low(t)' = Low(t)
       /\ Closed(t)' = Closed(t)
  BY <1>1, <1>12 DEF Cut, From, Low, Closed
<1>17. \A u : Behind(t, u)' <=> Behind(t, u)
  BY <1>4, <1>13, SameBehind
<1>22. /\ ~Has("advance", t)' /\ ~Has("noteGap", t)' /\ ~Has("skip", t)'
       /\ ~Has("changeDirection", t)'
  BY <1>4, <1>8 DEF Has
<1>23. Clock(t)'
  <2>1. \A u \in journal[t].voiced \cup journal[t].pcm : ~(u >= journal[t].final)
    BY <1>4
  <2>2. \A x \in Steps' : ~(x.do = "noteGap" /\ x.track = t)
    BY <1>22 DEF Has
  <2> QED BY <1>1, <1>4, <1>9, <1>12, <1>22, <2>1, <2>2 DEF Clock
<1>24. Pending(t)' = {} /\ Pending(t) = {}
  BY <1>4, <1>6, <1>8 DEF Pending
<1>25. Pieces(t)'
  BY <1>4, <1>8, <1>24 DEF Pieces
<1>26. Disk(t)'
  <2>1. \A b \in journal[t].boundaries : b.about.start <= journal[t].final
    BY <1>4 DEF Disk, BoundaryEvent
  <2> QED BY <1>1, <1>4, <1>16, <1>17, <2>1 DEF Disk
<1>27. Cover(t)'
  <2>1. ~Closed(t)
    BY <1>3, <1>4, <1>6 DEF Sealing
  <2>2. \A u \in journal[t].voiced : ~(vad[t].cursor <= u)
    BY <1>4, <1>10
  <2>3. \A u \in journal[t].voiced : \E r \in Cut(t) : Holds(r, u)
    BY <1>4, <1>9, <1>10, <1>24, <2>1, <2>2 DEF Cover
  <2> QED BY <1>1, <1>16, <2>3 DEF Cover
<1>28. Announced(t)'
  <2>1. Keeps(KindOf(t, {"recoverTail"}))
    BY <1>4, <1>6 DEF Keeps, KindOf
  <2>2. \A x \in Steps : GapAbout(x) => x \in Steps'
    BY <1>4, <1>6 DEF GapAbout
  <2> QED BY <1>1, <1>4, <1>17, <2>1, <2>2, AnnouncedFrame
<1>30. Sealing'
  <2>1. Seals' \subseteq Seals
    BY <1>1, <1>4, SealsKept
  <2> QED BY <1>1, <1>2, <1>6, <1>13, <2>1, SealingTurn
<1>31. Direction1' /\ Direction2'
  <2>1. \A x \in R : x.do # "boundary" /\ x.do # "changeDirection"
    BY <1>4, <1>8
  <2>2. ~Has("changeDirection", Mic)'
    BY <1>4, <2>1 DEF Has
  <2>3. Calm(h)
    BY <1>6 DEF Calm, DirectionKinds, About
  <2>4. \A u \in Tracks : Cut(u)' = Cut(u)
    BY <1>1 DEF Cut
  <2> QED BY <1>1, <1>2, <1>9, <2>1, <2>2, <2>3, <2>4, CalmDirections
<1>32. Fresh'
  BY <1>1, <1>9 DEF Fresh
<1>33. /\ outbox' \in [Tracks -> SUBSET AnyEvent] /\ epoch' \in Nat \ {0}
       /\ journal' \in [Tracks -> Journal]
  BY <1>1, <1>4 DEF Types
<1>34. \A u \in Tracks : u # h.track => SameTape(u) /\ vad'[u] = vad[u] /\ outbox'[u] = outbox[u]
  BY <1>1, <1>3, <1>12, <1>13
<1> QED BY <1>1, <1>2, <1>3, <1>6, <1>12, <1>23, <1>25, <1>26, <1>27, <1>28, <1>30, <1>31,
           <1>32, <1>33, <1>34, TurnKept

(* What is behind the segmenter is behind a recovery.                      *)
LEMMA CheckpointKept == CaptureInv /\ Checkpoint => CaptureInv'
<1> SUFFICES ASSUME CaptureInv, Checkpoint PROVE CaptureInv'
  OBVIOUS
<1>1. todo # <<>> /\ Head(todo).do = "checkpoint" /\ Then(<<>>)
      /\ UNCHANGED <<sources, recording, outbox, ledger, phase, vad, epoch, queue, run>>
  BY DEF Checkpoint, Doing, memory, disk
<1>2. PICK h, R : Turned(h, R, {})
  BY <1>1, DoneTurn
<1>3. PICK t : t = h.track
  OBVIOUS
<1>4. /\ Types /\ Program /\ Shape /\ Sealing /\ Direction1 /\ Direction2
      /\ h \in AnyStep /\ h = Head(todo) /\ t \in Tracks /\ t \in Both /\ Fits(phase, h.do)
      /\ Steps = {h} \cup R /\ Steps' = R /\ Steps' \subseteq AnyStep
      /\ Steps \subseteq AnyStep /\ R \subseteq AnyStep
      /\ \A b \in R : May(h, b)
      /\ Clock(t) /\ Pieces(t) /\ Disk(t) /\ Cover(t) /\ Announced(t)
      /\ journal[t] \in Journal /\ journal[t].final \in Nat /\ journal[t].classified \in Nat
      /\ journal[t].voiced \subseteq Nat /\ journal[t].pcm \subseteq Nat
      /\ Cut(t) \subseteq Segment /\ journal[t].gaps \subseteq Gap
      /\ journal[t].boundaries \subseteq BoundaryEvent
      /\ vad[t].cursor \in Nat /\ Low(t) \in Nat /\ From(t) \in Nat
      /\ \A u \in journal[t].voiced \cup journal[t].pcm : u < journal[t].final
      /\ \A x \in R : x.do \in {"direction", "changeDirection", "boundary"} => x.track = t
  BY <1>2, <1>3, DoneFacts
<1>6. h.do = "checkpoint"
  BY <1>1, <1>4
<1>8. \A b \in R : b.track = t =>
        /\ b.do \notin {"close", "closing", "advance", "noteGap", "skip", "boundary", "push", "record",
                        "recoverTail", "hear", "tail", "gapTo"}
        /\ ~GapAbout(b)
  BY <1>3, <1>4, <1>6 DEF May, CloseKinds
<1>9. ~Over /\ phase \notin {"opening", "abandoned", "failed", "down"}
      /\ (Live \/ phase = "recovering") /\ (Live => phase # "recovering")
  BY <1>4, <1>6 DEF Fits, Live, Over, CloseKinds, ReplayKinds
<1>10. ~Closed(t)
  BY <1>3, <1>4, <1>6 DEF Sealing
<1>11. /\ vad[t].cursor = journal[t].final
       /\ phase = "recovering" => vad[t].active = None
       /\ vad[t].active # None => /\ ~Has("changeDirection", t) /\ (Has("seal", t) => Has("finish", t))
                                  /\ vad[t].active.start < vad[t].cursor
  <2>1. Has("checkpoint", t)
    BY <1>3, <1>4, <1>6 DEF Has
  <2>2. ~Has("noteGap", t) /\ ~Has("skip", t) /\ ~Has("push", t)
    BY <1>4, <1>6, <1>8 DEF Has
  <2> QED BY <1>4, <1>6, <1>9, <2>1, <2>2 DEF Clock
<1> DEFINE j == [journal[t] EXCEPT !.classified = vad[t].cursor, !.active = vad[t].active]
<1>12. journal' = [journal EXCEPT ![t] = j]
  BY <1>3, <1>4 DEF Checkpoint, Track
<1>13. /\ j \in Journal /\ j.classified = vad[t].cursor /\ j.active = vad[t].active
       /\ j.final = journal[t].final /\ j.pcm = journal[t].pcm /\ j.voiced = journal[t].voiced
       /\ j.segments = journal[t].segments /\ j.gaps = journal[t].gaps
       /\ j.boundaries = journal[t].boundaries /\ j.closed = journal[t].closed
       /\ j.seal = journal[t].seal
  <2>1. vad[t].cursor \in Nat /\ vad[t].active \in Active \cup {None}
    BY <1>4, TypedTrack
  <2> QED BY <1>4, <2>1 DEF Journal
<1> HIDE DEF j
<1>14. /\ journal' \in [Tracks -> Journal] /\ journal'[t] = j
       /\ \A u \in Tracks : u # t => SameTape(u) /\ journal'[u] = journal[u]
  BY <1>4, <1>12, <1>13, OneJournal
<1>16. /\ Cut(t)' = Cut(t) /\ From(t)' = From(t) /\ Low(t)' = From(t) /\ Closed(t)' = Closed(t)
  BY <1>1, <1>13, <1>14 DEF Cut, From, Low, Closed
<1>17. Has("changeDirection", t)' => Has("changeDirection", t)
  BY <1>4 DEF Has
<1>18. (Has("seal", t)' => Has("seal", t)) /\ (Has("finish", t) => Has("finish", t)')
       /\ (Has("checkpoint", t)' => Has("checkpoint", t))
  BY <1>4, <1>6 DEF Has
<1>22. /\ ~Has("advance", t)' /\ ~Has("noteGap", t)' /\ ~Has("skip", t)' /\ ~Has("record", t)'
       /\ ~Has("recoverTail", t)
  BY <1>4, <1>6, <1>8 DEF Has
<1>23. Clock(t)'
  <2>1. \A u \in journal[t].voiced \cup journal[t].pcm : ~(u >= journal[t].final)
    BY <1>4
  <2>2. \A x \in Steps' : ~(x.do = "noteGap" /\ x.track = t)
    BY <1>22 DEF Has
  <2>3. vad[t].cursor <= journal[t].final
    BY <1>4, <1>11
  <2> QED BY <1>1, <1>4, <1>11, <1>13, <1>14, <1>17, <1>18, <1>22, <2>1, <2>2, <2>3 DEF Clock
<1>24. Pending(t)' = {} /\ Pending(t) = {}
  BY <1>4, <1>6, <1>8 DEF Pending
<1>25. Pieces(t)'
  BY <1>4, <1>8, <1>24 DEF Pieces
<1>19. /\ From(t) <= journal[t].final /\ (vad[t].active = None => From(t) = journal[t].final)
       /\ (vad[t].active # None => Live /\ From(t) = vad[t].active.start)
  <2>1. vad[t].active # None => vad[t].active.start \in Nat
    BY <1>4, TypedTrack, TypedActive
  <2> QED BY <1>4, <1>9, <1>11, <2>1 DEF From
<1>20. \A u \in journal[t].voiced :
         (\E r \in Cut(t) : Holds(r, u)) \/ (vad[t].active # None /\ vad[t].active.start <= u)
  <2>1. \A u \in journal[t].voiced : ~(vad[t].cursor <= u)
    BY <1>4, <1>11
  <2> QED BY <1>4, <1>9, <1>10, <1>24, <2>1 DEF Cover
<1>26. Disk(t)'
  <2>1. j.classified <= j.final /\ From(t) <= j.final
    BY <1>4, <1>11, <1>13, <1>19
  <2>2. ASSUME NEW u \in j.voiced, Behind(t, u)' PROVE \E r \in Cut(t) : Holds(r, u)
    <3>1. u \in journal[t].voiced /\ u \in Nat
      BY <1>4, <1>13, <2>2
    <3>2. SUFFICES ASSUME vad[t].active # None, vad[t].active.start <= u PROVE FALSE
      BY <1>20, <3>1
    <3>3. u < From(t) \/ \E r \in Cut(t) : u < r.end
      BY <1>16, <2>2 DEF Behind
    <3>4. \A r \in Cut(t) : r.end <= From(t) /\ r.end \in Nat
      BY <1>4, <1>19, <3>2, TypedSegment DEF Disk
    <3> QED BY <1>4, <1>19, <3>1, <3>2, <3>3, <3>4
  <2>3. \A b \in j.boundaries : b.about.start <= From(t)
    <3>1. \A b \in journal[t].boundaries : b.about.start \in Nat /\ b.about.start <= journal[t].final
      BY <1>4 DEF Disk, BoundaryEvent
    <3> QED BY <1>4, <1>13, <1>19, <3>1 DEF Disk
  <2>4. Live => \A r \in Cut(t) : r.end <= From(t)
    BY <1>4 DEF Disk
  <2>5. Live => \A g \in j.gaps : g.end <= From(t)
    <3>1. ~Has("skip", t)
      BY <1>4, <1>6, <1>8 DEF Has
    <3> QED BY <1>4, <1>13, <3>1 DEF Disk
  <2>6. /\ \A r \in Cut(t) : r.track = t /\ r.start < r.end /\ r.end <= j.final
        /\ \A r, s \in Cut(t) : r # s => Apart(r, s)
        /\ \A g \in j.gaps :
             /\ g.track = t /\ g.start < g.end /\ g.end <= j.final
             /\ \A u \in j.pcm : ~Holds(g, u)
             /\ \A r \in Cut(t) : Apart(g, r)
    BY <1>4, <1>13 DEF Disk
  <2>7. Live' => Live
    BY <1>1 DEF Live
  <2> QED BY <1>4, <1>10, <1>14, <1>16, <2>1, <2>2, <2>3, <2>4, <2>5, <2>6, <2>7 DEF Disk
<1>27. Cover(t)'
  BY <1>1, <1>13, <1>14, <1>16, <1>20 DEF Cover
<1>28. Announced(t)'
  <2>1. \A x \in Steps : ~(GapAbout(x) /\ x.track = t)
    BY <1>4, <1>6, <1>8 DEF GapAbout
  <2>2. \A g \in journal[t].gaps :
          \/ \E e \in ledger : e.kind = "gap" /\ e.about = g
          \/ ~Closed(t) /\ \E e \in outbox[t] : e.kind = "gap" /\ e.about = g
    BY <1>4, <1>9, <1>22, <2>1 DEF Announced
  <2> QED BY <1>1, <1>13, <1>14, <1>16, <2>2 DEF Announced
<1>29. \A u \in Tracks : journal'[u].seal = journal[u].seal
       /\ journal'[u].boundaries = journal[u].boundaries
       /\ journal'[u].segments = journal[u].segments
       /\ journal'[u].final = journal[u].final
  BY <1>13, <1>14
<1>30. Sealing'
  <2>1. Seals' \subseteq Seals
    BY <1>1, <1>4, <1>29, SealsKept
  <2>2. \A u \in Tracks : SameTape(u) \/ (~Closed(u) /\ journal'[u].closed = journal[u].closed)
    BY <1>10, <1>13, <1>14
  <2> QED BY <1>1, <1>2, <1>6, <2>1, <2>2, SealingTurn
<1>31. Direction1' /\ Direction2'
  <2>1. \A x \in R : x.do # "boundary"
    BY <1>4, <1>8
  <2>2. Has("changeDirection", Mic)' => journal'[Mic].active = None /\ journal'[Mic].classified = vad'[Mic].cursor
    <3>1. SUFFICES ASSUME Has("changeDirection", Mic)'
                   PROVE  journal'[Mic].active = None /\ journal'[Mic].classified = vad'[Mic].cursor
      OBVIOUS
    <3>2. t = Mic
      BY <1>4, <3>1 DEF Has
    <3> QED BY <1>1, <1>11, <1>13, <1>14, <1>17, <3>1, <3>2
  <2>3. Calm(h)
    BY <1>6 DEF Calm, DirectionKinds, About
  <2>4. \A u \in Tracks : Cut(u)' = Cut(u)
    BY <1>29 DEF Cut
  <2>5. Mic \in Tracks
    BY <1>4 DEF Types, Tracks, Both
  <2> QED BY <1>1, <1>2, <1>29, <2>1, <2>2, <2>3, <2>4, <2>5, CalmDirections
<1>32. Fresh'
  BY <1>1, <1>9 DEF Fresh
<1>33. /\ outbox' \in [Tracks -> SUBSET AnyEvent] /\ epoch' \in Nat \ {0}
       /\ vad' \in [Tracks -> [cursor : Nat, active : Active \cup {None}]]
  BY <1>1, <1>4 DEF Types
<1>34. \A u \in Tracks : u # h.track => SameTape(u) /\ vad'[u] = vad[u] /\ outbox'[u] = outbox[u]
  BY <1>1, <1>3, <1>14
<1>35. journal'[h.track].final = journal[h.track].final
  BY <1>3, <1>4, <1>29
<1> QED BY <1>1, <1>2, <1>3, <1>6, <1>14, <1>23, <1>25, <1>26, <1>27, <1>28, <1>30, <1>31,
           <1>32, <1>33, <1>34, <1>35, TurnKept

(* A gap is noted, to be announced and skipped.                            *)
LEMMA NoteGapKept == CaptureInv /\ NoteGap => CaptureInv'
<1> SUFFICES ASSUME CaptureInv, NoteGap PROVE CaptureInv'
  OBVIOUS
<1>1. todo # <<>> /\ Head(todo).do = "noteGap"
      /\ UNCHANGED <<sources, recording, outbox, ledger, phase, vad, epoch, queue, run>>
  BY DEF NoteGap, Doing, memory
<1>0. Types /\ Program
  BY DEF CaptureInv
<1>2. PICK h \in AnyStep, R \in SUBSET AnyStep :
        /\ h = Head(todo) /\ R = In(Tail(todo)) /\ Steps = {h} \cup R /\ h.track \in Tracks
        /\ \A b \in R : May(h, b) /\ b.track \in Tracks
        /\ Fits(phase, h.do) /\ \A b \in R : Fits(phase, b.do)
  BY <1>0, <1>1, FirstStep
<1>3. PICK t : t = h.track
  OBVIOUS
<1>5. PICK n : n = h.with
  OBVIOUS
<1>6. h.do = "noteGap"
  BY <1>1, <1>2
<1>7. t \in Tracks /\ t \in Both /\ n \in Nat /\ n > 0
      /\ journal[t].final \in Nat /\ vad[t].cursor \in Nat /\ journal[t] \in Journal
      /\ journal[t].gaps \subseteq Gap
  <2>1. t \in Tracks
    BY <1>2, <1>3
  <2>2. n \in Nat /\ n > 0
    BY <1>0, <1>2, <1>5, <1>6, TypedStep DEF Program, Shape
  <2> QED BY <1>0, <2>1, <2>2, TypedTrack
<1>8. \A b \in R : b.track = t =>
        /\ b.do \notin {"close", "closing", "advance", "noteGap", "skip", "changeDirection", "boundary",
                        "recoverTail", "hear", "tail", "gapTo", "replayDirections", "replaying", "inForce"}
        /\ ~GapAbout(b) /\ ~BoundaryAbout(b)
  BY <1>2, <1>3, <1>6 DEF May, CloseKinds
<1>9. Live /\ ~Over /\ phase \in {"live", "closing"}
  BY <1>2, <1>6 DEF Fits, Live, Over, CloseKinds, ReplayKinds
<1>10. /\ vad[t].active = None /\ journal[t].final = vad[t].cursor + n
       /\ \A u \in journal[t].voiced \cup journal[t].pcm : ~(u >= vad[t].cursor)
  <2>0. Clock(t)
    BY <1>7 DEF CaptureInv
  <2>1. Has("noteGap", t)
    BY <1>2, <1>3, <1>6 DEF Has
  <2>2. ~Has("advance", t)
    BY <1>2, <1>3, <1>6, <1>8 DEF Has
  <2>3. vad[t].active = None
    BY <1>2, <1>6, <2>0, <2>1 DEF Clock
  <2>4. journal[t].final = vad[t].cursor + h.with
    BY <1>2, <1>3, <1>6, <1>9, <2>0, <2>2 DEF Clock
  <2>5. \A u \in journal[t].voiced \cup journal[t].pcm : ~(u >= vad[t].cursor)
    BY <1>9, <2>0, <2>1 DEF Clock
  <2> QED BY <1>5, <2>3, <2>4, <2>5
<1>11. PICK gap : gap = [track |-> t, start |-> vad[t].cursor, end |-> journal[t].final]
  OBVIOUS
<1>12. /\ gap \in Gap /\ gap.track = t /\ gap.start = vad[t].cursor /\ gap.end = journal[t].final
       /\ gap.start < gap.end
  BY <1>7, <1>10, <1>11 DEF Gap
<1>13. PICK e : e = Event("gap", gap)
  OBVIOUS
<1>14. e \in AnyEvent /\ e.kind = "gap" /\ e.about = gap
  BY <1>0, <1>12, <1>13 DEF Event, AnyEvent, GapEvent, Types
<1>15. /\ journal' = [journal EXCEPT ![t].gaps = @ \cup {gap}]
       /\ Then(Produce(t, e) \o <<Step("skip", t)>>)
  <2>1. journal[t].final - n = vad[t].cursor
    BY <1>7, <1>10
  <2> QED BY <1>2, <1>3, <1>5, <1>11, <1>13, <2>1 DEF NoteGap, Track, With
<1>16. PICK a, f, s : a = StepFor("append", t, e) /\ f = StepFor("flush", t, e) /\ s = Step("skip", t)
  OBVIOUS
<1>17. /\ a \in AnyStep /\ f \in AnyStep /\ s \in AnyStep
       /\ a.do = "append" /\ a.track = t /\ a.with = e
       /\ f.do = "flush" /\ f.track = t /\ f.with = e
       /\ s.do = "skip" /\ s.track = t
  <2>1. a \in AnyStep /\ f \in AnyStep /\ s \in AnyStep
    BY <1>7, <1>14, <1>16, StepTyped DEF PlainKinds
  <2> QED BY <1>16, <2>1, PlainIs, StepForIs
<1>18. PICK new : new = <<a, f>> \o <<s>>
  OBVIOUS
<1>19. Then(new) /\ Chain(new, {a, f, s})
  <2>1. May(a, f) /\ May(a, s) /\ May(f, s)
    BY <1>14, <1>17 DEF May, GapAbout, BoundaryAbout
  <2>2. Chain(<<a, f>>, {a, f}) /\ Chain(<<s>>, {s})
    BY <1>17, <2>1, ChainOfTwo, ChainOfOne
  <2>3. \A x \in {a, f}, y \in {s} : May(x, y)
    BY <2>1
  <2>4. Chain(<<a, f>> \o <<s>>, {a, f} \cup {s})
    BY <2>2, <2>3, ChainJoin
  <2>5. {a, f} \cup {s} = {a, f, s}
    OBVIOUS
  <2>6. Produce(t, e) = <<a, f>> /\ <<Step("skip", t)>> = <<s>>
    BY <1>16 DEF Produce
  <2> QED BY <1>15, <1>18, <2>4, <2>5, <2>6
<1>20. PICK N \in SUBSET AnyStep : N = {a, f, s}
  BY <1>17
<1>21. \A x \in N : x.track = t /\ x.do \in {"append", "flush", "skip"} /\ Fits(phase, x.do)
  BY <1>9, <1>17, <1>20 DEF Fits, CloseKinds
<1>22. \A x \in N, b \in R : May(x, b)
  <2>1. ASSUME NEW x \in N, NEW b \in R PROVE May(x, b)
    <3>1. May(h, b) /\ x.track = t /\ x.do \in {"append", "flush", "skip"}
      BY <1>2, <1>21
    <3>2. b.track = t =>
            /\ b.do \notin {"close", "closing", "advance", "noteGap", "skip", "changeDirection", "boundary",
                         "recoverTail", "hear", "tail", "gapTo", "replayDirections", "replaying", "inForce"}
            /\ ~GapAbout(b) /\ ~BoundaryAbout(b)
      BY <1>8
    <3> QED BY <3>1, <3>2 DEF May, CloseKinds
  <2> QED BY <2>1
<1>23. Turned(h, R, N)
  <2>1. Chain(new, N)
    BY <1>19, <1>20
  <2>2. \A x \in N : x.track = h.track /\ Fits(phase, x.do)
    BY <1>3, <1>21
  <2>3. UNCHANGED <<sources, recording, phase, run>>
    BY <1>1
  <2>4. Head(todo).do # "flushAll"
    BY <1>1
  <2> QED BY <1>1, <1>2, <1>19, <1>22, <2>1, <2>2, <2>3, <2>4, NextTurn
<1>24. /\ Types /\ Program /\ Shape /\ Sealing /\ Direction1 /\ Direction2
       /\ h \in AnyStep /\ h = Head(todo) /\ t \in Tracks /\ t \in Both /\ Fits(phase, h.do)
       /\ Steps = {h} \cup R /\ Steps' = N \cup R /\ Steps' \subseteq AnyStep
       /\ Steps \subseteq AnyStep /\ R \subseteq AnyStep
       /\ \A b \in R : May(h, b)
       /\ Clock(t) /\ Pieces(t) /\ Disk(t) /\ Cover(t) /\ Announced(t)
       /\ journal[t] \in Journal /\ journal[t].final \in Nat /\ journal[t].classified \in Nat
       /\ journal[t].voiced \subseteq Nat /\ journal[t].pcm \subseteq Nat
       /\ Cut(t) \subseteq Segment /\ journal[t].gaps \subseteq Gap
       /\ journal[t].boundaries \subseteq BoundaryEvent
       /\ vad[t].cursor \in Nat /\ Low(t) \in Nat /\ From(t) \in Nat
       /\ \A u \in journal[t].voiced \cup journal[t].pcm : u < journal[t].final
       /\ \A x \in R : x.do \in {"direction", "changeDirection", "boundary"} => x.track = t
  BY <1>3, <1>23, TurnFacts
<1> DEFINE j == [journal[t] EXCEPT !.gaps = journal[t].gaps \cup {gap}]
<1>25. journal' = [journal EXCEPT ![t] = j]
  BY <1>15
<1>26. /\ j \in Journal /\ j.gaps = journal[t].gaps \cup {gap}
       /\ j.classified = journal[t].classified /\ j.active = journal[t].active
       /\ j.final = journal[t].final /\ j.pcm = journal[t].pcm /\ j.voiced = journal[t].voiced
       /\ j.segments = journal[t].segments
       /\ j.boundaries = journal[t].boundaries /\ j.closed = journal[t].closed
       /\ j.seal = journal[t].seal
  <2>1. journal[t].gaps \cup {gap} \in SUBSET Gap
    BY <1>7, <1>12
  <2>2. j \in Journal
    BY <1>7, <2>1, WrittenJournal
  <2> QED BY <1>7, <2>2 DEF Journal
<1> HIDE DEF j
<1>27. /\ journal' \in [Tracks -> Journal] /\ journal'[t] = j
       /\ \A u \in Tracks : u # t => SameTape(u) /\ journal'[u] = journal[u]
  BY <1>24, <1>25, <1>26, OneJournal
<1>28. /\ Cut(t)' = Cut(t) /\ From(t)' = From(t) /\ Low(t)' = Low(t) /\ Closed(t)' = Closed(t)
       /\ From(t) = vad[t].cursor
  BY <1>1, <1>10, <1>26, <1>27 DEF Cut, From, Low, Closed
<1>29. \A u : Behind(t, u)' <=> Behind(t, u)
  BY <1>28 DEF Behind
<1>30. ~Closed(t)
  BY <1>3, <1>6, <1>24 DEF Sealing
<1>31. /\ ~Has("advance", t)' /\ ~Has("noteGap", t)' /\ Has("skip", t)'
       /\ ~Has("changeDirection", t)'
  BY <1>8, <1>17, <1>20, <1>21, <1>24 DEF Has
<1>32. Clock(t)'
  <2>1. \A x \in Steps' : ~(x.do = "noteGap" /\ x.track = t)
    BY <1>31 DEF Has
  <2>2. vad[t].cursor <= journal[t].final
    BY <1>7, <1>10
  <2> QED BY <1>1, <1>9, <1>10, <1>24, <1>26, <1>27, <1>31, <2>1, <2>2 DEF Clock
<1>33. Pending(t)' = {} /\ Pending(t) = {}
  BY <1>6, <1>8, <1>21, <1>24 DEF Pending
<1>34. Pieces(t)'
  <2>1. \A x \in Steps' : ~(x.do = "closing" /\ x.track = t)
    BY <1>8, <1>21, <1>24
  <2> QED BY <1>33, <2>1 DEF Pieces
<1>35. Disk(t)'
  <2>1. ASSUME NEW g \in j.gaps
        PROVE  /\ g.track = t /\ g.start < g.end /\ g.end <= j.final
               /\ \A u \in j.pcm : ~Holds(g, u)
               /\ \A r \in Cut(t) : Apart(g, r)
    <3>1. CASE g \in journal[t].gaps
      BY <1>24, <1>26, <3>1 DEF Disk
    <3>2. CASE g = gap
      <4>1. \A u \in j.pcm : ~Holds(gap, u)
        BY <1>10, <1>12, <1>26, <1>24 DEF Holds
      <4>2. \A r \in Cut(t) : Apart(gap, r)
        BY <1>9, <1>12, <1>24, <1>28 DEF Disk, Apart
      <4> QED BY <1>12, <1>26, <1>7, <3>2, <4>1, <4>2
    <3> QED BY <1>26, <3>1, <3>2
  <2>2. /\ journal[t].classified <= journal[t].final /\ Low(t) <= journal[t].final
        /\ \A r \in Cut(t) : r.track = t /\ r.start < r.end /\ r.end <= journal[t].final
        /\ \A r, s1 \in Cut(t) : r # s1 => Apart(r, s1)
        /\ \A u \in journal[t].voiced : Behind(t, u) => \E r \in Cut(t) : Holds(r, u)
        /\ Low(t) <= From(t)
        /\ \A r \in Cut(t) : r.end <= From(t)
        /\ \A b \in journal[t].boundaries : b.about.start <= From(t)
        /\ \A b \in journal[t].boundaries : b.about.start <= Low(t)
    BY <1>9, <1>24 DEF Disk
  <2> QED BY <1>26, <1>27, <1>28, <1>29, <1>30, <1>31, <2>1, <2>2 DEF Disk
<1>36. Cover(t)'
  <2>1. \A u \in journal[t].voiced : ~(vad[t].cursor <= u)
    BY <1>10, <1>24
  <2>2. \A u \in journal[t].voiced : \E r \in Cut(t) : Holds(r, u)
    BY <1>9, <1>10, <1>24, <1>30, <1>33, <2>1 DEF Cover
  <2> QED BY <1>26, <1>27, <1>28, <2>2 DEF Cover
<1>37. Announced(t)'
  <2>1. GapAbout(a)' /\ a \in Steps'
    BY <1>14, <1>17, <1>20, <1>24 DEF GapAbout
  <2>2. \A x \in Steps : ~(GapAbout(x) /\ x.track = t)
    BY <1>6, <1>8, <1>24 DEF GapAbout
  <2>3. ~Behind(t, gap.start)
    <3>1. Low(t) <= vad[t].cursor /\ \A r \in Cut(t) : r.end <= vad[t].cursor
      BY <1>9, <1>24, <1>28 DEF Disk
    <3> QED BY <1>12, <1>24, <3>1, TypedSegment DEF Behind
  <2>4. ASSUME NEW g \in journal[t].gaps
        PROVE  \/ \E d \in ledger : d.kind = "gap" /\ d.about = g
               \/ \E d \in outbox[t] : d.kind = "gap" /\ d.about = g
    BY <1>9, <1>24, <2>2 DEF Announced
  <2>5. ASSUME NEW g \in j.gaps
        PROVE  \/ \E d \in ledger : d.kind = "gap" /\ d.about = g
               \/ \E d \in outbox[t] : d.kind = "gap" /\ d.about = g
               \/ g = gap
    BY <1>26, <2>4
  <2>6. \E x \in Steps' : GapAbout(x)' /\ x.track = t /\ x.with.about = gap
    BY <1>14, <1>17, <2>1
  <2> QED BY <1>1, <1>27, <1>28, <1>29, <1>30, <2>3, <2>5, <2>6 DEF Announced, GapAbout
<1>38. \A u \in Tracks : journal'[u].seal = journal[u].seal
       /\ journal'[u].boundaries = journal[u].boundaries
       /\ journal'[u].segments = journal[u].segments
       /\ journal'[u].final = journal[u].final
  BY <1>26, <1>27
<1>39. Sealing'
  <2>1. Seals' \subseteq Seals
    <3>1. \A x \in Steps' : x \in About("seal") => x \in Steps
      BY <1>14, <1>17, <1>20, <1>24 DEF About
    <3> QED BY <1>1, <1>24, <1>38, <3>1, SealsKept
  <2>2. \A u \in Tracks : SameTape(u) \/ (~Closed(u) /\ journal'[u].closed = journal[u].closed)
    BY <1>26, <1>27, <1>30
  <2>3. \A x \in N : x.do \notin {"publish", "last", "direction", "changeDirection"}
    BY <1>21
  <2>4. h.do # "seal" /\ ~Closed(h.track)
    BY <1>3, <1>6, <1>30
  <2> QED BY <1>1, <1>23, <2>1, <2>2, <2>3, <2>4, SealingTurn
<1>40. Direction1' /\ Direction2'
  <2>1. \A x \in R : x.do # "boundary" /\ x.do # "changeDirection"
    BY <1>8, <1>24
  <2>2. ~Has("changeDirection", Mic)'
    BY <1>21, <1>24, <2>1 DEF Has
  <2>3. Calm(h)
    BY <1>6 DEF Calm, DirectionKinds, About
  <2>4. \A u \in Tracks : Cut(u)' = Cut(u)
    BY <1>38 DEF Cut
  <2>5. \A x \in N : Calm(x)
    BY <1>14, <1>17, <1>20 DEF Calm, DirectionKinds, About
  <2> QED BY <1>1, <1>9, <1>23, <1>38, <2>1, <2>2, <2>3, <2>4, <2>5, CalmDirections
<1>41. Fresh'
  BY <1>1, <1>9 DEF Fresh
<1>42. /\ outbox' \in [Tracks -> SUBSET AnyEvent] /\ epoch' \in Nat \ {0}
       /\ vad' \in [Tracks -> [cursor : Nat, active : Active \cup {None}]]
  BY <1>1, <1>24 DEF Types
<1>43. \A u \in Tracks : u # h.track => SameTape(u) /\ vad'[u] = vad[u] /\ outbox'[u] = outbox[u]
  BY <1>1, <1>3, <1>27
<1>44. journal'[h.track].final = journal[h.track].final
  BY <1>3, <1>24, <1>38
<1>45. \A x \in N : x.do \notin {"record", "advance", "noteGap", "gapTo", "direction",
                                 "changeDirection", "boundary"}
  BY <1>21
<1> QED BY <1>1, <1>3, <1>23, <1>27, <1>32, <1>34, <1>35, <1>36, <1>37, <1>39, <1>40,
           <1>41, <1>42, <1>43, <1>44, <1>45, TurnKept

----------------------------------------------------------------------------
(* Segments that are closed one after the other.                           *)

(* What the steps of Closing are                                           *)
ClosingOf(t, S, N) ==
  /\ S \subseteq Segment /\ \A s \in S : s.track = t
  /\ \A x \in N : /\ x \in AnyStep /\ x.track = t /\ x.do \in CloseKinds
                  /\ x.do \in {"append", "save", "flush"} => x.with.kind = "segment"
                  /\ x.do = "close" => S # {} /\ x.with = First(S)
                  /\ x.do = "closing" => S # {} /\ x.with = S \ {First(S)}
  /\ S # {} => (\E x \in N : x.do = "close") /\ (\E x \in N : x.do = "closing")

(* Five steps, each allowed before those behind it, make a chain.          *)
LEMMA ChainOfFive ==
  ASSUME NEW a \in AnyStep, NEW b \in AnyStep, NEW c \in AnyStep, NEW d \in AnyStep, NEW e \in AnyStep,
         a.do # "seal", b.do # "seal", c.do # "seal", d.do # "seal", e.do # "seal",
         May(a, b), May(a, c), May(a, d), May(a, e), May(b, c), May(b, d), May(b, e),
         May(c, d), May(c, e), May(d, e)
  PROVE  Chain(<<a, b, c, d, e>>, {a, b, c, d, e})
<1>1. <<a, b, c, d, e>> \in Seq(AnyStep) /\ In(<<a, b, c, d, e>>) = {a, b, c, d, e}
  BY DEF In
<1>2. Ordered(<<a, b, c, d, e>>)
  BY DEF Ordered
<1>3. Adjacent(<<a, b, c, d, e>>)
  BY DEF Adjacent
<1> QED BY <1>1, <1>2, <1>3 DEF Chain

(* The steps that close one segment after another are a chain.             *)
LEMMA ClosingChain ==
  ASSUME Types, NEW t \in Both, NEW S, S \subseteq Segment, \A s \in S : s.track = t
  PROVE  \E N \in SUBSET AnyStep : Chain(Closing(t, S), N) /\ ClosingOf(t, S, N)
<1>1. CASE S = {}
  <2>1. Closing(t, S) = <<>>
    BY <1>1 DEF Closing
  <2>2. ClosingOf(t, S, {}) /\ Chain(<<>>, {})
    BY <1>1, ChainOfNone DEF ClosingOf
  <2>3. PICK N \in SUBSET AnyStep : N = {}
    OBVIOUS
  <2>4. Chain(Closing(t, S), N) /\ ClosingOf(t, S, N)
    BY <2>1, <2>2, <2>3
  <2> QED BY <2>4
<1>2. CASE S # {}
  <2>1. PICK s \in S : s = First(S)
    BY <1>2, FirstIs
  <2>2. s \in Segment /\ s.track = t /\ S \ {s} \subseteq Segment
    BY <2>1
  <2>3. PICK ev : ev = Event("segment", s)
    OBVIOUS
  <2>4. ev \in AnyEvent /\ ev \in SegmentEvent /\ ev.kind = "segment"
    BY <2>2, <2>3 DEF Event, AnyEvent, SegmentEvent, Types
  <2>5. PICK r, c, a, v, f, q, k : /\ r = Step("ready", t) /\ c = StepFor("close", t, s)
                                   /\ a = StepFor("append", t, ev) /\ v = StepFor("save", t, ev)
                                   /\ f = StepFor("flush", t, ev) /\ q = StepFor("enqueue", t, s)
                                   /\ k = StepFor("closing", t, S \ {s})
    OBVIOUS
  <2>6. /\ r \in AnyStep /\ c \in AnyStep /\ a \in AnyStep /\ v \in AnyStep /\ f \in AnyStep
        /\ q \in AnyStep
    BY <2>2, <2>4, <2>5, StepTyped DEF PlainKinds
  <2>7. k \in AnyStep
    <3>1. \A x \in S \ {s} : x.track = t
      OBVIOUS
    <3>2. S \ {s} \in SUBSET Segment
      BY <2>2
    <3> QED BY <2>5, <3>1, <3>2, StepTyped
  <2>8. /\ r.do = "ready" /\ r.track = t
        /\ c.do = "close" /\ c.track = t /\ c.with = s
        /\ a.do = "append" /\ a.track = t /\ a.with = ev
        /\ v.do = "save" /\ v.track = t /\ v.with = ev
        /\ f.do = "flush" /\ f.track = t /\ f.with = ev
        /\ q.do = "enqueue" /\ q.track = t
        /\ k.do = "closing" /\ k.track = t /\ k.with = S \ {s}
    BY <2>5, PlainIs, StepForIs
  <2>9. /\ May(r, c) /\ May(r, a) /\ May(r, v) /\ May(r, f) /\ May(c, a) /\ May(c, v) /\ May(c, f)
        /\ May(a, v) /\ May(a, f) /\ May(v, f)
    BY <2>4, <2>8 DEF May, GapAbout, BoundaryAbout
  <2>10. Chain(<<r, c, a, v, f>>, {r, c, a, v, f})
    BY <2>6, <2>8, <2>9, ChainOfFive
  <2>18. PICK enq, Q : /\ enq = IF phase = "recovering" THEN <<>> ELSE <<q>>
                       /\ Q = IF phase = "recovering" THEN {} ELSE {q}
    OBVIOUS
  <2>11. Chain(enq, Q) /\ (\A x \in Q : x = q) /\ Q \in SUBSET AnyStep
    <3>1. Chain(<<q>>, {q})
      BY <2>6, <2>8, ChainOfOne
    <3>2. Chain(enq, Q)
      BY <2>18, <3>1, ChainOfNone
    <3> QED BY <2>6, <2>18, <3>2
  <2>12. Chain(<<k>>, {k})
    BY <2>7, <2>8, ChainOfOne
  <2>13. Chain(<<r, c, a, v, f>> \o enq, {r, c, a, v, f} \cup Q)
    <3>1. \A x \in {r, c, a, v, f}, y \in Q : May(x, y)
      BY <2>8, <2>11 DEF May, GapAbout, BoundaryAbout
    <3> QED BY <2>10, <2>11, <3>1, ChainJoin
  <2>14. Chain((<<r, c, a, v, f>> \o enq) \o <<k>>, ({r, c, a, v, f} \cup Q) \cup {k})
    <3>1. \A x \in {r, c, a, v, f} \cup Q, y \in {k} : May(x, y)
      BY <2>8, <2>11 DEF May, GapAbout, BoundaryAbout, CloseKinds
    <3> QED BY <2>12, <2>13, <3>1, ChainJoin
  <2>15. Closing(t, S) = (<<r, c, a, v, f>> \o enq) \o <<k>>
    <3>1. CloseSteps(s) = <<r, c, a, v, f>>
      BY <2>2, <2>3, <2>5 DEF CloseSteps
    <3>2. Closing(t, S) = (CloseSteps(s) \o (IF phase = "recovering" THEN <<>> ELSE <<q>>)) \o <<k>>
      BY <1>2, <2>1, <2>5 DEF Closing
    <3> QED BY <2>18, <3>1, <3>2
  <2>16. PICK N \in SUBSET AnyStep : N = ({r, c, a, v, f} \cup Q) \cup {k}
    BY <2>6, <2>7, <2>11
  <2>17. ClosingOf(t, S, N)
    <3>1. \A x \in N : x \in {r, c, a, v, f, q, k}
      BY <2>11, <2>16
    <3>2. c \in N /\ k \in N
      BY <2>16
    <3>3. ASSUME NEW x \in N
          PROVE  /\ x \in AnyStep /\ x.track = t /\ x.do \in CloseKinds
                 /\ x.do \in {"append", "save", "flush"} => x.with.kind = "segment"
                 /\ x.do = "close" => x.with = First(S)
                 /\ x.do = "closing" => x.with = S \ {First(S)}
      BY <2>1, <2>4, <2>6, <2>7, <2>8, <3>1 DEF CloseKinds
    <3> QED BY <1>2, <2>8, <3>2, <3>3 DEF ClosingOf
  <2> QED BY <2>14, <2>15, <2>16, <2>17
<1> QED BY <1>1, <1>2

(* They may stand where the step that calls them stood.                    *)
LEMMA MayClose ==
  ASSUME NEW h \in AnyStep, NEW b \in AnyStep, May(h, b),
         h.do \in {"push", "finish", "closing", "recoverTail"},
         NEW x \in AnyStep, x.track = h.track, x.do \in CloseKinds \cup {"checkpoint"},
         x.do = "checkpoint" => h.do = "recoverTail"
  PROVE  May(x, b)
BY DEF May, CloseKinds

(* What will be closed is what is to be closed.                            *)
LEMMA ClosingPending ==
  ASSUME NEW t, NEW S, NEW N, NEW R, ClosingOf(t, S, N), Steps' = N \cup R,
         \A b \in R : b.track = t => b.do \notin {"close", "closing"}
  PROVE  Pending(t)' = S
<1>1. \A p : p \in Pending(t)' <=>
         \/ \E x \in Steps' : x.do = "close" /\ x.track = t /\ p = x.with
         \/ \E x \in Steps' : x.do = "closing" /\ x.track = t /\ p \in x.with
  BY DEF Pending
<1>2. ASSUME NEW p \in Pending(t)' PROVE p \in S
  <2>1. CASE \E x \in Steps' : x.do = "close" /\ x.track = t /\ p = x.with
    <3>1. S # {} /\ p = First(S)
      BY <2>1 DEF ClosingOf
    <3>2. S \subseteq Segment
      BY DEF ClosingOf
    <3> QED BY <3>1, <3>2, FirstIs
  <2>2. CASE \E x \in Steps' : x.do = "closing" /\ x.track = t /\ p \in x.with
    BY <2>2 DEF ClosingOf
  <2> QED BY <1>1, <1>2, <2>1, <2>2
<1>3. ASSUME NEW p \in S PROVE p \in Pending(t)'
  <2>1. PICK x \in N, y \in N : x.do = "close" /\ y.do = "closing"
    BY DEF ClosingOf
  <2>2. x.track = t /\ x.with = First(S) /\ y.track = t /\ y.with = S \ {First(S)}
    BY <2>1 DEF ClosingOf
  <2>3. x \in Steps' /\ y \in Steps'
    OBVIOUS
  <2>4. CASE p = First(S)
    BY <1>1, <2>1, <2>2, <2>3, <2>4
  <2>5. CASE p # First(S)
    BY <1>1, <2>1, <2>2, <2>3, <2>5
  <2> QED BY <2>4, <2>5
<1> QED BY <1>2, <1>3

(* They are closed in the order of their places.                           *)
InOrder(t) ==
  \A x \in Steps : x.do = "closing" /\ x.track = t =>
    /\ \A p, q \in x.with : p # q => Apart(p, q)
    /\ \A y \in Steps : y.do = "close" /\ y.track = t => \A q \in x.with : y.with.end <= q.start

(* The segments left to close are in order: each comes behind those being  *)
(* closed.                                                                 *)
LEMMA ClosingOrder ==
  ASSUME NEW t, NEW S, NEW N, NEW R, ClosingOf(t, S, N), Steps' = N \cup R,
         \A b \in R : b.track = t => b.do \notin {"close", "closing"},
         \A p \in S : p.start < p.end, \A p, q \in S : p # q => Apart(p, q)
  PROVE  InOrder(t)'
<1> SUFFICES ASSUME NEW x \in Steps', x.do = "closing", x.track = t
             PROVE  /\ \A p, q \in x.with : p # q => Apart(p, q)
                    /\ \A y \in Steps' : y.do = "close" /\ y.track = t =>
                         \A q \in x.with : y.with.end <= q.start
  BY DEF InOrder
<1>1. x \in N /\ S # {} /\ x.with = S \ {First(S)} /\ S \subseteq Segment
  BY DEF ClosingOf
<1>2. First(S) \in S /\ \A r \in S : First(S).start <= r.start
  BY <1>1, FirstIs
<1>3. ASSUME NEW q \in S, q # First(S) PROVE First(S).end <= q.start
  <2>1. /\ First(S).start \in Nat /\ First(S).end \in Nat /\ q.start \in Nat /\ q.end \in Nat
    BY <1>1, <1>2, TypedSegment
  <2>2. Apart(First(S), q) /\ First(S).start <= q.start /\ q.start < q.end
    BY <1>2, <1>3
  <2> QED BY <2>1, <2>2 DEF Apart
<1>4. \A y \in Steps' : y.do = "close" /\ y.track = t => y.with = First(S)
  BY DEF ClosingOf
<1> QED BY <1>1, <1>3, <1>4

(* What PcmSegmenter::push cuts                                            *)
LEMMA CutsAre ==
  ASSUME Types, NEW t \in Tracks, NEW from \in Nat, NEW to \in Nat, NEW open,
         NEW cut \in Cuts(t, from, to, open), NEW active \in Active \cup {None}
  PROVE  /\ Named(t, cut, active) \subseteq Segment
         /\ \A q \in Named(t, cut, active) :
              /\ q.track = t /\ from <= q.start /\ q.start < q.end /\ q.end <= to
         /\ \A p, q \in Named(t, cut, active) : p # q => Apart(p, q)
         /\ \A u \in journal[t].voiced : from <= u /\ u < to =>
              \E q \in Named(t, cut, active) : Holds(q, u)
<1>1. t \in Both /\ journal[t].voiced \subseteq Nat /\ run \in Nat
  BY TypedTrack DEF Types
<1>2. /\ \A p \in cut : \E a \in from..(to - 1), b \in (from + 1)..to :
           p = [start |-> a, end |-> b] /\ p.start < p.end
      /\ \A p, q \in cut : p = q \/ p.end <= q.start \/ q.end <= p.start
      /\ \A u \in journal[t].voiced : u \in from..(to - 1) =>
           \E p \in cut : u \in p.start..(p.end - 1)
  BY DEF Cuts
<1>3. \A p \in cut : /\ p.start \in Nat /\ p.end \in Nat /\ from <= p.start
                     /\ p.start < p.end /\ p.end <= to
  BY <1>2
<1>4. active # None => active.by \in Nat
  BY TypedActive
<1> DEFINE Q(p) == [track |-> t, start |-> p.start, end |-> p.end,
                    by |-> IF active # None /\ p.start = active.start THEN active.by ELSE run]
<1>5. \A q : q \in Named(t, cut, active) <=> \E p \in cut : q = Q(p)
  BY DEF Named
<1>6. \A p \in cut : /\ Q(p) \in Segment /\ Q(p).track = t /\ Q(p).start = p.start /\ Q(p).end = p.end
  BY <1>1, <1>3, <1>4 DEF Segment
<1> HIDE DEF Q
<1>7. \A p, q \in Named(t, cut, active) : p # q => Apart(p, q)
  BY <1>2, <1>5, <1>6 DEF Apart
<1>8. ASSUME NEW u \in journal[t].voiced, from <= u, u < to
      PROVE  \E q \in Named(t, cut, active) : Holds(q, u)
  <2>1. u \in from..(to - 1) /\ u \in Nat
    BY <1>1, <1>8
  <2>2. PICK p \in cut : u \in p.start..(p.end - 1)
    BY <1>2, <2>1
  <2>3. p.start <= u /\ u < p.end
    BY <1>3, <2>1, <2>2
  <2> QED BY <1>5, <1>6, <2>3 DEF Holds
<1>9. \A q \in Named(t, cut, active) : /\ q \in Segment /\ q.track = t /\ from <= q.start
                                       /\ q.start < q.end /\ q.end <= to
  BY <1>3, <1>5, <1>6
<1> QED BY <1>7, <1>8, <1>9

(* Steps that close segments are about nothing else.                       *)
LEMMA CloseSteps1 ==
  ASSUME NEW x \in AnyStep, x.do \in CloseKinds,
         x.do \in {"append", "save", "flush"} => x.with.kind = "segment"
  PROVE  /\ Calm(x) /\ x \notin About("seal") /\ ~GapAbout(x) /\ ~BoundaryAbout(x)
         /\ x.do \notin {"record", "advance", "noteGap", "gapTo", "direction", "last", "changeDirection",
                        "boundary", "checkpoint", "recoverTail", "publish", "skip", "push", "finish",
                        "seal", "hear", "tail"}
BY DEF Calm, DirectionKinds, About, CloseKinds, GapAbout, BoundaryAbout

(* A turn that closes segments: nothing but the segmenter has changed.     *)
LEMMA ClosingTurn ==
  ASSUME CaptureInv, NEW h, NEW R, NEW N, Turned(h, R, N), h.do \in {"push", "finish", "closing"},
         NEW t, t = h.track, NEW S, ClosingOf(t, S, N), Head(todo).do = h.do,
         UNCHANGED <<sources, journal, outbox, ledger, phase, epoch, queue>>,
         vad' \in [Tracks -> [cursor : Nat, active : Active \cup {None}]],
         \A u \in Tracks : u # t => vad'[u] = vad[u],
         h.do = "push" \/ vad'[t].cursor = vad[t].cursor,
         Clock(t)', Pieces(t)', Disk(t)', Cover(t)'
  PROVE  CaptureInv'
<1>4. /\ Types /\ Program /\ Shape /\ Sealing /\ Direction1 /\ Direction2
      /\ h \in AnyStep /\ h = Head(todo) /\ t \in Tracks /\ t \in Both /\ Fits(phase, h.do)
      /\ Steps = {h} \cup R /\ Steps' = N \cup R /\ Steps' \subseteq AnyStep
      /\ Steps \subseteq AnyStep /\ R \subseteq AnyStep
      /\ \A b \in R : May(h, b)
      /\ Clock(t) /\ Pieces(t) /\ Disk(t) /\ Cover(t) /\ Announced(t)
      /\ journal[t] \in Journal /\ journal[t].final \in Nat /\ journal[t].classified \in Nat
      /\ journal[t].voiced \subseteq Nat /\ journal[t].pcm \subseteq Nat
      /\ Cut(t) \subseteq Segment /\ journal[t].gaps \subseteq Gap
      /\ journal[t].boundaries \subseteq BoundaryEvent
      /\ vad[t].cursor \in Nat /\ Low(t) \in Nat /\ From(t) \in Nat
      /\ \A u \in journal[t].voiced \cup journal[t].pcm : u < journal[t].final
      /\ \A x \in R : x.do \in {"direction", "changeDirection", "boundary"} => x.track = t
  BY TurnFacts
<1>5. \A u \in Tracks : SameTape(u)
  BY DEF SameTape
<1>6. /\ \A x \in N : x.do \in CloseKinds /\ x.track = t
      /\ \A x \in N : Calm(x) /\ x \notin About("seal")
      /\ \A x \in N : x.do \notin {"record", "advance", "noteGap", "gapTo", "direction", "last",
                                  "changeDirection", "boundary", "checkpoint", "recoverTail", "publish"}
  BY CloseSteps1 DEF ClosingOf
<1>7. Announced(t)'
  <2>1. Keeps(KindOf(t, {"recoverTail"}))
    BY <1>4, <1>6 DEF Keeps, KindOf
  <2>2. \A x \in Steps : GapAbout(x) => x \in Steps'
    BY <1>4 DEF GapAbout
  <2>3. \A u : Behind(t, u)' <=> Behind(t, u)
    BY <1>4, <1>5, SameBehind
  <2> QED BY <1>4, <2>1, <2>2, <2>3, AnnouncedFrame
<1>8. Sealing'
  <2>1. Seals' \subseteq Seals
    <3>1. \A x \in Steps' : x \in About("seal") => x \in Steps
      BY <1>4, <1>6
    <3> QED BY <1>4, <3>1, SealsKept
  <2>2. ~Closed(t)
    BY <1>4 DEF Sealing
  <2> QED BY <1>5, <1>6, <2>1, <2>2, SealingTurn
<1>9. Direction1' /\ Direction2'
  <2>1. \A x \in R : x.do # "boundary" /\ (h.do = "push" => x.do # "changeDirection")
    BY <1>4 DEF May, CloseKinds
  <2>2. Has("changeDirection", Mic)' /\ ~Has("checkpoint", Mic)' =>
          journal'[Mic].active = None /\ journal'[Mic].classified = vad'[Mic].cursor
    <3>1. SUFFICES ASSUME Has("changeDirection", Mic)', ~Has("checkpoint", Mic)'
                   PROVE  journal'[Mic].active = None /\ journal'[Mic].classified = vad'[Mic].cursor
      OBVIOUS
    <3>2. PICK x \in R : x.do = "changeDirection" /\ x.track = Mic
      BY <1>4, <1>6, <3>1 DEF Has
    <3>3. h.do # "push" /\ t = Mic
      BY <1>4, <2>1, <3>2
    <3>4. Has("changeDirection", Mic) /\ ~Has("checkpoint", Mic)
      BY <1>4, <3>1, <3>2 DEF Has
    <3> QED BY <1>4, <3>3, <3>4 DEF Direction1
  <2>3. Calm(h)
    BY DEF Calm, DirectionKinds, About
  <2>4. \A x \in N : Calm(x)
    BY <1>6
  <2>5. \A u \in Tracks : Cut(u)' = Cut(u)
    BY DEF Cut
  <2>6. Mic \in Tracks
    BY <1>4 DEF Types, Tracks, Both
  <2> QED BY <2>1, <2>2, <2>3, <2>4, <2>5, <2>6, CalmDirections
<1>10. Fresh'
  <2>1. phase \notin {"opening", "abandoned"}
    BY <1>4 DEF Fits, CloseKinds, ReplayKinds
  <2> QED BY <2>1 DEF Fresh
<1>11. /\ outbox' \in [Tracks -> SUBSET AnyEvent] /\ epoch' \in Nat \ {0}
       /\ journal' \in [Tracks -> Journal]
  BY <1>4 DEF Types
<1>12. \A u \in Tracks : u # h.track => SameTape(u) /\ vad'[u] = vad[u] /\ outbox'[u] = outbox[u]
  BY <1>5
<1>13. journal'[h.track].final = journal[h.track].final
  OBVIOUS
<1>14. \A x \in N : x.do \notin {"record", "advance", "noteGap", "gapTo", "direction",
                                 "changeDirection", "boundary"}
  BY <1>6
<1> QED BY <1>7, <1>8, <1>9, <1>10, <1>11, <1>12, <1>13, <1>14, TurnKept

(* The turn of a step that closes some segments of its track               *)
LEMMA ClosingTurned ==
  ASSUME CaptureInv, todo # <<>>, Head(todo).do \in {"push", "finish", "closing"},
         NEW t, t = Head(todo).track, NEW S, S \subseteq Segment, \A s \in S : s.track = t,
         Then(Closing(t, S)), UNCHANGED <<sources, recording, phase, run>>
  PROVE  \E h, R, N : /\ Turned(h, R, N) /\ h = Head(todo) /\ ClosingOf(t, S, N)
                     /\ \A b \in R : b.track = t => b.do \notin {"close", "closing"}
<1>0. Types /\ Program
  BY DEF CaptureInv
<1>1. PICK h \in AnyStep, R \in SUBSET AnyStep :
        /\ h = Head(todo) /\ R = In(Tail(todo)) /\ Steps = {h} \cup R /\ h.track \in Tracks
        /\ \A b \in R : May(h, b) /\ b.track \in Tracks
        /\ Fits(phase, h.do) /\ \A b \in R : Fits(phase, b.do)
  BY <1>0, FirstStep
<1>2. t \in Both /\ h.track = t /\ h.do \in {"push", "finish", "closing"}
  BY <1>0, <1>1 DEF Types, Tracks, Both
<1>3. PICK N \in SUBSET AnyStep : Chain(Closing(t, S), N) /\ ClosingOf(t, S, N)
  BY <1>0, <1>2, ClosingChain
<1>4. \A x \in N : x \in AnyStep /\ x.track = t /\ x.do \in CloseKinds
  BY <1>3 DEF ClosingOf
<1>5. \A x \in N, b \in R : May(x, b)
  <2>1. ASSUME NEW x \in N, NEW b \in R PROVE May(x, b)
    <3>1. x \in AnyStep /\ b \in AnyStep /\ May(h, b) /\ x.track = h.track
          /\ x.do \in CloseKinds \cup {"checkpoint"} /\ x.do # "checkpoint"
          /\ h.do \in {"push", "finish", "closing", "recoverTail"}
      BY <1>1, <1>2, <1>4 DEF CloseKinds
    <3> QED BY <3>1, MayClose
  <2> QED BY <2>1
<1>6. phase \in {"live", "closing", "recovering"}
  BY <1>1, <1>2 DEF Fits, CloseKinds, ReplayKinds
<1>7. \A x \in N : x.track = h.track /\ Fits(phase, x.do)
  BY <1>2, <1>4, <1>6 DEF Fits
<1>8. Head(todo).do # "flushAll"
  OBVIOUS
<1>9. Turned(h, R, N)
  BY <1>1, <1>3, <1>5, <1>7, <1>8, NextTurn
<1>10. \A b \in R : b.track = t => b.do \notin {"close", "closing"}
  BY <1>1, <1>2 DEF May, CloseKinds
<1> QED BY <1>1, <1>3, <1>9, <1>10

(* The next segment of those that are closed together                      *)
LEMMA CloseNextKept == CaptureInv /\ CloseNext => CaptureInv'
<1> SUFFICES ASSUME CaptureInv, CloseNext PROVE CaptureInv'
  OBVIOUS
<1>1. todo # <<>> /\ Head(todo).do = "closing"
      /\ Then(Closing(Head(todo).track, Head(todo).with))
      /\ UNCHANGED <<sources, recording, journal, outbox, ledger, phase, vad, epoch, queue, run>>
  BY DEF CloseNext, Doing, memory, disk, Track, With
<1>2. PICK t : t = Head(todo).track
  OBVIOUS
<1>3. PICK S : S = Head(todo).with
  OBVIOUS
<1>5. S \subseteq Segment /\ \A s \in S : s.track = t
  <2>1. Types /\ Program
    BY DEF CaptureInv
  <2>2. Head(todo) \in AnyStep
    BY <1>1, <2>1, FirstStep
  <2> QED BY <1>1, <1>2, <1>3, <2>2, TypedStep
<1>6. PICK h, R, N : /\ Turned(h, R, N) /\ h = Head(todo) /\ ClosingOf(t, S, N)
                     /\ \A b \in R : b.track = t => b.do \notin {"close", "closing"}
  BY <1>1, <1>2, <1>3, <1>5, ClosingTurned
<1>4. /\ Types /\ Program /\ Shape /\ Sealing /\ Direction1 /\ Direction2
      /\ h \in AnyStep /\ h = Head(todo) /\ t \in Tracks /\ t \in Both /\ Fits(phase, h.do)
      /\ Steps = {h} \cup R /\ Steps' = N \cup R /\ Steps' \subseteq AnyStep
      /\ Steps \subseteq AnyStep /\ R \subseteq AnyStep
      /\ \A b \in R : May(h, b)
      /\ Clock(t) /\ Pieces(t) /\ Disk(t) /\ Cover(t) /\ Announced(t)
      /\ journal[t] \in Journal /\ journal[t].final \in Nat /\ journal[t].classified \in Nat
      /\ journal[t].voiced \subseteq Nat /\ journal[t].pcm \subseteq Nat
      /\ Cut(t) \subseteq Segment /\ journal[t].gaps \subseteq Gap
      /\ journal[t].boundaries \subseteq BoundaryEvent
      /\ vad[t].cursor \in Nat /\ Low(t) \in Nat /\ From(t) \in Nat
      /\ \A u \in journal[t].voiced \cup journal[t].pcm : u < journal[t].final
      /\ \A x \in R : x.do \in {"direction", "changeDirection", "boundary"} => x.track = t
  BY <1>2, <1>6, TurnFacts
<1>7. h.do = "closing" /\ h.track = t /\ h.with = S
  BY <1>1, <1>2, <1>3, <1>6
<1>8. Pending(t) = S
  BY <1>4, <1>6, <1>7 DEF Pending
<1>9. Pending(t)' = S
  BY <1>4, <1>6, ClosingPending
<1>10. /\ \A p \in S : p.start < p.end
       /\ \A p, q \in S : p # q => Apart(p, q)
  BY <1>4, <1>7, <1>8 DEF Pieces
<1>11. SameTape(t) /\ vad'[t] = vad[t]
  BY <1>1 DEF SameTape
<1>12. \A x \in N : x.do \in CloseKinds /\ x.track = t
  BY <1>6 DEF ClosingOf
<1>13. Pieces(t)'
  <2>1. InOrder(t)'
    BY <1>4, <1>6, <1>10, ClosingOrder
  <2>2. Cut(t)' = Cut(t) /\ From(t)' = From(t) /\ Live' = Live
    BY <1>1 DEF Cut, From, Live
  <2> QED BY <1>1, <1>4, <1>8, <1>9, <2>1, <2>2 DEF Pieces, InOrder
<1>14. Clock(t)'
  <2>1. Keeps(KindOf(t, ClockKinds))
    BY <1>4, <1>7, <1>12 DEF Keeps, KindOf, ClockKinds, CloseKinds
  <2> QED BY <1>1, <1>4, <1>7, <2>1, ClockFrame
<1>15. Disk(t)'
  <2>1. Keeps(KindOf(t, {"skip"}))
    BY <1>4, <1>7, <1>12 DEF Keeps, KindOf, CloseKinds
  <2>2. Live' => Live
    BY <1>1 DEF Live
  <2> QED BY <1>4, <1>11, <2>1, <2>2, DiskFrame
<1>16. Cover(t)'
  <2>1. Has("push", t)' = Has("push", t) /\ Has("recoverTail", t)' = Has("recoverTail", t)
    BY <1>4, <1>7, <1>12 DEF Has, CloseKinds
  <2>2. Cut(t)' = Cut(t) /\ Over' = Over /\ Closed(t)' = Closed(t)
    BY <1>1 DEF Cut, Over, Closed
  <2> QED BY <1>1, <1>4, <1>8, <1>9, <2>1, <2>2 DEF Cover
<1>17. vad' \in [Tracks -> [cursor : Nat, active : Active \cup {None}]]
  BY <1>1, <1>4 DEF Types
<1> QED BY <1>1, <1>6, <1>7, <1>13, <1>14, <1>15, <1>16, <1>17, ClosingTurn
=============================================================================
