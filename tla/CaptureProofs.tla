---------------------------- MODULE CaptureProofs ----------------------------
(***************************************************************************)
(* What CaptureJournal promises, for any amount of audio and any number of *)
(* accidents and recoveries: the steps that cut, close, seal, change the   *)
(* direction, recover and publish keep the invariant of CaptureInvariant;  *)
(* from it, SealedIsAccounted and EpochsAgree.                             *)
(***************************************************************************)
EXTENDS CaptureInvariant

(* The open segment ends.                                                  *)
LEMMA FinishKept == CaptureInv /\ Finish => CaptureInv'
<1> SUFFICES ASSUME CaptureInv, Finish PROVE CaptureInv'
  OBVIOUS
<1>0. Types /\ Program
  BY DEF CaptureInv
<1>1. todo # <<>> /\ Head(todo).do = "finish"
      /\ UNCHANGED <<sources, recording, journal, outbox, ledger, phase, epoch, queue, run>>
  BY DEF Finish, Doing, disk
<1>2. PICK t : t = Head(todo).track
  OBVIOUS
<1>3. t \in Tracks /\ t \in Both /\ Head(todo) \in AnyStep
  BY <1>0, <1>1, <1>2, FirstStep DEF Types, Tracks, Both
<1>5. /\ Clock(t) /\ vad[t].cursor \in Nat /\ vad[t].active \in Active \cup {None}
      /\ vad[t].active # None => vad[t].active.start \in Nat /\ vad[t].active.by \in Nat
      /\ vad[t] \in [cursor : Nat, active : Active \cup {None}]
  BY <1>0, <1>3, TypedTrack, TypedActive DEF CaptureInv
<1>6. PICK S : S = IF vad[t].active = None THEN {}
                   ELSE {[track |-> t, start |-> vad[t].active.start, end |-> vad[t].cursor,
                          by |-> vad[t].active.by]}
  OBVIOUS
<1>7. /\ S \subseteq Segment
      /\ \A p \in S : /\ p.track = t /\ vad[t].active # None /\ p.start = vad[t].active.start
                      /\ p.end = vad[t].cursor /\ p.start < p.end
      /\ \A p, q \in S : p = q
      /\ vad[t].active # None => S # {}
  <2>1. CASE vad[t].active = None
    BY <1>6, <2>1
  <2>2. CASE vad[t].active # None
    <3>1. PICK p : p = [track |-> t, start |-> vad[t].active.start, end |-> vad[t].cursor,
                        by |-> vad[t].active.by]
      OBVIOUS
    <3>2. vad[t].active.start < vad[t].cursor
      BY <1>5, <2>2 DEF Clock
    <3>3. /\ p \in Segment /\ p.track = t /\ p.start = vad[t].active.start /\ p.end = vad[t].cursor
      BY <1>3, <1>5, <2>2, <3>1 DEF Segment
    <3>4. S = {p}
      BY <1>6, <2>2, <3>1
    <3> QED BY <2>2, <3>2, <3>3, <3>4
  <2> QED BY <2>1, <2>2
<1>8. Then(Closing(t, S)) /\ vad' = [vad EXCEPT ![t].active = None]
  <2>1. CASE vad[t].active = None
    BY <1>2, <1>6, <2>1 DEF Finish, Track, Closing
  <2>2. CASE vad[t].active # None
    <3>1. Named(t, {[start |-> vad[t].active.start, end |-> vad[t].cursor]}, vad[t].active) = S
      BY <1>6, <2>2 DEF Named
    <3> QED BY <1>2, <2>2, <3>1 DEF Finish, Track
  <2> QED BY <2>1, <2>2
<1>9. PICK h, R, N : /\ Turned(h, R, N) /\ h = Head(todo) /\ ClosingOf(t, S, N)
                     /\ \A b \in R : b.track = t => b.do \notin {"close", "closing"}
  BY <1>1, <1>2, <1>7, <1>8, ClosingTurned
<1>4. /\ Types /\ Program /\ Shape /\ Sealing /\ Direction1 /\ Direction2
      /\ h \in AnyStep /\ h = Head(todo) /\ t \in Tracks /\ t \in Both /\ Fits(phase, h.do)
      /\ Steps = {h} \cup R /\ Steps' = N \cup R /\ Steps' \subseteq AnyStep
      /\ Steps \subseteq AnyStep /\ R \subseteq AnyStep
      /\ \A b \in R : May(h, b)
      /\ Clock(t) /\ Pieces(t) /\ Disk(t) /\ Cover(t) /\ Announced(t)
      /\ journal[t] \in Journal /\ journal[t].final \in Nat /\ journal[t].classified \in Nat
      /\ journal[t].voiced \subseteq Nat /\ journal[t].pcm \subseteq Nat
      /\ Cut(t) \subseteq Segment /\ journal[t].gaps \subseteq Gap
      /\ journal[t].boundaries \subseteq BoundaryEvent
      /\ vad[t].cursor \in Nat /\ Low(t) \in Nat /\ From(t) \in Nat
      /\ \A u \in journal[t].voiced \cup journal[t].pcm : u < journal[t].final
      /\ \A x \in R : x.do \in {"direction", "changeDirection", "boundary"} => x.track = t
  BY <1>2, <1>9, TurnFacts
<1>10. h.do = "finish" /\ h.track = t
  BY <1>1, <1>2, <1>9
<1>11. /\ vad' \in [Tracks -> [cursor : Nat, active : Active \cup {None}]]
       /\ vad'[t].cursor = vad[t].cursor /\ vad'[t].active = None
       /\ \A u \in Tracks : u # t => vad'[u] = vad[u]
  BY <1>3, <1>4, <1>8 DEF Types
<1>12. \A x \in N : /\ x.track = t
                    /\ x.do \notin {"record", "advance", "noteGap", "gapTo", "direction", "last", "changeDirection",
                        "boundary", "checkpoint", "recoverTail", "publish", "skip", "push", "finish",
                        "seal", "hear", "tail"}
  BY <1>9, CloseSteps1 DEF ClosingOf
<1>13. /\ Has("advance", t)' = Has("advance", t) /\ Has("noteGap", t)' = Has("noteGap", t)
       /\ Has("skip", t)' = Has("skip", t) /\ Has("push", t)' = Has("push", t)
       /\ Has("record", t)' = Has("record", t) /\ Has("recoverTail", t)' = Has("recoverTail", t)
       /\ Has("checkpoint", t)' = Has("checkpoint", t)
  BY <1>4, <1>10, <1>12 DEF Has
<1>14. Live /\ phase \in {"live", "closing"} /\ ~Has("skip", t)
  <2>1. phase \in {"live", "closing"}
    BY <1>4, <1>10 DEF Fits, CloseKinds, ReplayKinds
  <2>2. ~Has("skip", t)
    BY <1>4, <1>10 DEF Has, May
  <2> QED BY <2>1, <2>2 DEF Live
<1>15. vad[t].cursor <= journal[t].final
  BY <1>5, <1>14 DEF Clock
<1>16. Clock(t)'
  <2>1. \A x \in Steps' : x.do = "noteGap" /\ x.track = t => x \in Steps
    BY <1>4, <1>12
  <2> QED BY <1>1, <1>5, <1>11, <1>13, <1>14, <2>1 DEF Clock
<1>17. Pending(t) = {} /\ Pending(t)' = S
  <2>1. Pending(t) = {}
    BY <1>4, <1>9, <1>10 DEF Pending
  <2> QED BY <1>4, <1>9, <2>1, ClosingPending
<1>18. /\ Cut(t)' = Cut(t) /\ Low(t)' = Low(t) /\ Closed(t)' = Closed(t)
       /\ From(t)' = vad[t].cursor /\ From(t) <= vad[t].cursor
       /\ \A p \in S : p.start = From(t)
  BY <1>1, <1>5, <1>7, <1>11 DEF Cut, Low, Closed, From, Clock
<1>19. /\ Low(t) <= From(t)
       /\ \A r \in Cut(t) : r.end <= From(t) /\ r.end \in Nat
       /\ \A g \in journal[t].gaps : g.end <= From(t) /\ g.end \in Nat
       /\ \A b \in journal[t].boundaries : b.about.start <= From(t) /\ b.about.start \in Nat
  <2>1. /\ Low(t) <= From(t)
        /\ \A r \in Cut(t) : r.end <= From(t)
        /\ \A g \in journal[t].gaps : g.end <= From(t)
        /\ \A b \in journal[t].boundaries : b.about.start <= From(t)
    BY <1>4, <1>14 DEF Disk
  <2>2. \A r \in Cut(t) : r.end \in Nat
    BY <1>4, TypedSegment
  <2> QED BY <1>4, <2>1, <2>2 DEF Gap, BoundaryEvent
<1>20. Pieces(t)'
  <2>1. InOrder(t)'
    <3>1. \A p \in S : p.start < p.end
      BY <1>7
    <3>3. \A p, q \in S : p # q => Apart(p, q)
      BY <1>7
    <3>4. ClosingOf(t, S, N) /\ \A b \in R : b.track = t => b.do \notin {"close", "closing"}
      BY <1>9
    <3>2. Steps' = N \cup R
      BY <1>4
    <3> QED BY <3>1, <3>2, <3>3, <3>4, ClosingOrder
  <2>2. ASSUME NEW p \in S
        PROVE  /\ p.track = t /\ p.start < p.end /\ p.end <= journal[t].final
               /\ p.end <= From(t)'
               /\ \A r \in Cut(t) : r.end <= p.start
               /\ \A g \in journal[t].gaps : Apart(g, p)
               /\ \A b \in journal[t].boundaries : b.about.start <= p.start
    BY <1>4, <1>7, <1>15, <1>18, <1>19 DEF Apart
  <2> QED BY <1>1, <1>17, <1>18, <2>1, <2>2 DEF Pieces, InOrder
<1>21. Disk(t)'
  <2>1. /\ Low(t) <= vad[t].cursor
        /\ \A r \in Cut(t) : r.end <= vad[t].cursor
        /\ \A g \in journal[t].gaps : g.end <= vad[t].cursor
        /\ \A b \in journal[t].boundaries : b.about.start <= vad[t].cursor
    BY <1>4, <1>18, <1>19
  <2>2. \A u : Behind(t, u)' <=> Behind(t, u)
    BY <1>18 DEF Behind
  <2> QED BY <1>1, <1>4, <1>18, <2>1, <2>2 DEF Disk
<1>22. Cover(t)'
  <2>1. ASSUME NEW u \in journal[t].voiced, vad[t].active # None, vad[t].active.start <= u
        PROVE  (\E p \in S : Holds(p, u)) \/ (Has("push", t) /\ vad[t].cursor <= u)
    <3>1. CASE u < vad[t].cursor
      BY <1>7, <2>1, <3>1 DEF Holds
    <3>2. CASE u >= vad[t].cursor
      BY <1>4, <1>14, <3>2 DEF Clock
    <3> QED BY <1>4, <3>1, <3>2
  <2>2. \A u \in journal[t].voiced : ~Over /\ ~Closed(t) =>
          \/ \E r \in Cut(t) : Holds(r, u)
          \/ vad[t].active # None /\ vad[t].active.start <= u
          \/ (Has("push", t) \/ Has("recoverTail", t)) /\ vad[t].cursor <= u
    BY <1>4, <1>17 DEF Cover
  <2>3. Over' = Over
    BY <1>1 DEF Over
  <2> QED BY <1>1, <1>11, <1>13, <1>17, <1>18, <2>1, <2>2, <2>3 DEF Cover
<1> QED BY <1>1, <1>9, <1>10, <1>11, <1>16, <1>20, <1>21, <1>22, ClosingTurn

(* Push, for the track whose turn it is                                    *)
PushAt(t) ==
  LET v == vad[t]
      from == IF v.active = None THEN v.cursor ELSE v.active.start
      to == journal[t].final
  IN \E cut \in Cuts(t, from, to, v.active # None) :
     LET pieces == Named(t, cut, v.active) IN
     \E open \in {{}} \cup {{p} : p \in {q \in pieces : q.end = to}} :
       /\ \A q \in pieces \ open : q.end > v.cursor
       /\ vad' = [vad EXCEPT ![t] =
            [cursor |-> to,
             active |-> IF open = {} THEN None
                        ELSE LET p == CHOOSE p \in open : TRUE
                             IN [start |-> p.start, by |-> p.by]]]
       /\ Then(Closing(t, pieces \ open))

(* What PcmSegmenter cuts out of what was recorded is closed, but for the  *)
(* segment that stays open.                                                *)
LEMMA PushKept == CaptureInv /\ Push => CaptureInv'
<1> SUFFICES ASSUME CaptureInv, Push PROVE CaptureInv'
  OBVIOUS
<1>0. Types /\ Program
  BY DEF CaptureInv
<1>1. todo # <<>> /\ Head(todo).do = "push"
      /\ UNCHANGED <<sources, recording, journal, outbox, ledger, phase, epoch, queue, run>>
  BY DEF Push, Doing, disk
<1>2. PICK t : t = Head(todo).track
  OBVIOUS
<1>3. t \in Tracks /\ t \in Both /\ Head(todo) \in AnyStep
  BY <1>0, <1>1, <1>2, FirstStep DEF Types, Tracks, Both
<1>5. /\ Clock(t) /\ vad[t].cursor \in Nat /\ vad[t].active \in Active \cup {None}
      /\ journal[t].final \in Nat /\ From(t) \in Nat /\ journal[t].voiced \subseteq Nat
  BY <1>0, <1>3, TypedTrack, TypedActive DEF CaptureInv, From
<1>6. PICK cut \in Cuts(t, From(t), journal[t].final, vad[t].active # None) :
        \E open \in {{}} \cup {{p} : p \in {q \in Named(t, cut, vad[t].active) : q.end = journal[t].final}} :
          /\ vad' = [vad EXCEPT ![t] =
               [cursor |-> journal[t].final,
                active |-> IF open = {} THEN None
                           ELSE LET p == CHOOSE p \in open : TRUE
                                IN [start |-> p.start, by |-> p.by]]]
          /\ Then(Closing(t, Named(t, cut, vad[t].active) \ open))
  <2>1. PushAt(Track)
    BY DEF Push, PushAt
  <2>2. PushAt(t)
    BY <1>2, <2>1 DEF Track
  <2> QED BY <2>2 DEF PushAt, From
<1>7. PICK P : P = Named(t, cut, vad[t].active)
  OBVIOUS
<1>8. /\ P \subseteq Segment
      /\ \A q \in P : /\ q.track = t /\ From(t) <= q.start /\ q.start < q.end
                      /\ q.end <= journal[t].final
      /\ \A p, q \in P : p # q => Apart(p, q)
      /\ \A u \in journal[t].voiced : From(t) <= u /\ u < journal[t].final => \E q \in P : Holds(q, u)
  BY <1>0, <1>3, <1>5, <1>6, <1>7, CutsAre
<1>9. PICK open : /\ open = {} \/ \E p \in P : p.end = journal[t].final /\ open = {p}
                  /\ vad' = [vad EXCEPT ![t] =
                       [cursor |-> journal[t].final,
                        active |-> IF open = {} THEN None
                                   ELSE LET p == CHOOSE p \in open : TRUE
                                        IN [start |-> p.start, by |-> p.by]]]
                  /\ Then(Closing(t, P \ open))
  BY <1>6, <1>7
<1>10. PICK S : S = P \ open
  OBVIOUS
<1>11. PICK a : a = IF open = {} THEN None
                    ELSE LET p == CHOOSE p \in open : TRUE IN [start |-> p.start, by |-> p.by]
  OBVIOUS
<1>12. /\ open = {} => a = None
       /\ \A p \in open : /\ open = {p} /\ p \in P /\ p.end = journal[t].final
                          /\ a = [start |-> p.start, by |-> p.by]
  <2>1. open = {} => a = None
    BY <1>11
  <2>2. ASSUME NEW p \in open
        PROVE  /\ open = {p} /\ p \in P /\ p.end = journal[t].final
               /\ a = [start |-> p.start, by |-> p.by]
    <3>1. open = {p} /\ p \in P /\ p.end = journal[t].final
      BY <1>9
    <3>2. (CHOOSE q \in open : TRUE) = p
      BY <3>1
    <3> QED BY <1>11, <3>1, <3>2
  <2> QED BY <2>1, <2>2
<1>13. /\ \A p \in open : p.start \in Nat /\ p.end \in Nat /\ p.by \in Nat
       /\ a \in Active \cup {None} /\ (open # {} => a # None)
       /\ \A p \in open : a.start = p.start
  <2>1. \A p \in open : p.start \in Nat /\ p.end \in Nat /\ p.by \in Nat
    BY <1>8, <1>12, TypedSegment
  <2>2. \A p \in open : a \in Active /\ a.start = p.start
    BY <1>12, <2>1 DEF Active
  <2>3. None \notin Active
    BY CaptureAssumption DEF Active
  <2> QED BY <1>12, <2>1, <2>2, <2>3
<1>14. /\ vad' \in [Tracks -> [cursor : Nat, active : Active \cup {None}]]
       /\ vad'[t].cursor = journal[t].final /\ vad'[t].active = a
       /\ \A u \in Tracks : u # t => vad'[u] = vad[u]
  <2>1. vad' = [vad EXCEPT ![t] = [cursor |-> journal[t].final, active |-> a]]
    BY <1>9, <1>11
  <2> QED BY <1>0, <1>3, <1>5, <1>13, <2>1 DEF Types
<1>15. S \subseteq Segment /\ (\A s \in S : s.track = t) /\ Then(Closing(t, S))
  BY <1>8, <1>9, <1>10
<1>16. PICK h, R, N : /\ Turned(h, R, N) /\ h = Head(todo) /\ ClosingOf(t, S, N)
                      /\ \A b \in R : b.track = t => b.do \notin {"close", "closing"}
  BY <1>1, <1>2, <1>15, ClosingTurned
<1>4. /\ Types /\ Program /\ Shape /\ Sealing /\ Direction1 /\ Direction2
      /\ h \in AnyStep /\ h = Head(todo) /\ t \in Tracks /\ t \in Both /\ Fits(phase, h.do)
      /\ Steps = {h} \cup R /\ Steps' = N \cup R /\ Steps' \subseteq AnyStep
      /\ Steps \subseteq AnyStep /\ R \subseteq AnyStep
      /\ \A b \in R : May(h, b)
      /\ Clock(t) /\ Pieces(t) /\ Disk(t) /\ Cover(t) /\ Announced(t)
      /\ journal[t] \in Journal /\ journal[t].final \in Nat /\ journal[t].classified \in Nat
      /\ journal[t].voiced \subseteq Nat /\ journal[t].pcm \subseteq Nat
      /\ Cut(t) \subseteq Segment /\ journal[t].gaps \subseteq Gap
      /\ journal[t].boundaries \subseteq BoundaryEvent
      /\ vad[t].cursor \in Nat /\ Low(t) \in Nat /\ From(t) \in Nat
      /\ \A u \in journal[t].voiced \cup journal[t].pcm : u < journal[t].final
      /\ \A x \in R : x.do \in {"direction", "changeDirection", "boundary"} => x.track = t
  BY <1>2, <1>16, TurnFacts
<1>17. h.do = "push" /\ h.track = t
  BY <1>1, <1>2, <1>16
<1>18. \A x \in N : /\ x.track = t
                    /\ x.do \notin {"record", "advance", "noteGap", "gapTo", "direction", "last", "changeDirection",
                        "boundary", "checkpoint", "recoverTail", "publish", "skip", "push", "finish",
                        "seal", "hear", "tail"}
  BY <1>16, CloseSteps1 DEF ClosingOf
<1>19. \A b \in R : b.track = t =>
         b.do \notin {"advance", "noteGap", "skip", "record", "push", "changeDirection", "seal",
                      "recoverTail"}
  BY <1>4, <1>17 DEF May, CloseKinds
<1>20. /\ ~Has("advance", t)' /\ ~Has("noteGap", t)' /\ ~Has("skip", t)' /\ ~Has("push", t)'
       /\ ~Has("record", t)' /\ ~Has("changeDirection", t)' /\ ~Has("seal", t)'
       /\ ~Has("skip", t)
  BY <1>4, <1>17, <1>18, <1>19 DEF Has
<1>21. Live /\ phase # "recovering"
  <2>1. phase \in {"live", "closing"}
    BY <1>4, <1>17 DEF Fits, CloseKinds, ReplayKinds
  <2> QED BY <2>1 DEF Live
<1>22. Clock(t)'
  <2>1. \A x \in Steps' : ~(x.do = "noteGap" /\ x.track = t)
    BY <1>20 DEF Has
  <2>2. \A u \in journal[t].voiced \cup journal[t].pcm : ~(u >= journal[t].final)
    BY <1>4
  <2>3. a # None => a.start < journal[t].final
    <3>1. ASSUME NEW p \in open PROVE a.start < journal[t].final
      BY <1>8, <1>12, <1>13
    <3> QED BY <1>12, <3>1
  <2> QED BY <1>1, <1>4, <1>14, <1>20, <1>21, <2>1, <2>2, <2>3 DEF Clock
<1>23. Pending(t) = {} /\ Pending(t)' = S
  <2>1. Pending(t) = {}
    BY <1>4, <1>16, <1>17 DEF Pending
  <2> QED BY <1>4, <1>16, <2>1, ClosingPending
<1>24. /\ Cut(t)' = Cut(t) /\ Low(t)' = Low(t) /\ Closed(t)' = Closed(t)
       /\ From(t)' = IF a = None THEN journal[t].final ELSE a.start
  BY <1>1, <1>14 DEF Cut, Low, Closed, From
<1>25. From(t)' \in Nat /\ From(t) <= From(t)' /\ \A q \in S : q.end <= From(t)'
  <2>1. CASE open = {}
    <3>1. From(t)' = journal[t].final
      BY <1>12, <1>24, <2>1
    <3>2. From(t) <= journal[t].final
      <4>1. vad[t].cursor <= journal[t].final
        BY <1>5, <1>21 DEF Clock
      <4>2. From(t) <= vad[t].cursor
        <5>1. vad[t].active # None => vad[t].active.start < vad[t].cursor /\ vad[t].active.start \in Nat
          BY <1>5, TypedActive DEF Clock
        <5> QED BY <1>5, <5>1 DEF From
      <4> QED BY <1>5, <4>1, <4>2
    <3> QED BY <1>5, <1>8, <1>10, <3>1, <3>2
  <2>2. ASSUME NEW p \in open
        PROVE  From(t)' \in Nat /\ From(t) <= From(t)' /\ \A q \in S : q.end <= From(t)'
    <3>1. From(t)' = p.start /\ p.start \in Nat /\ p \in P /\ p.end = journal[t].final
      BY <1>12, <1>13, <1>24, <2>2
    <3>2. ASSUME NEW q \in S PROVE q.end <= p.start
      <4>1. q \in P /\ q # p /\ q.start \in Nat /\ q.end \in Nat
        BY <1>8, <1>10, <1>12, TypedSegment
      <4>2. Apart(q, p) /\ q.start < q.end /\ q.end <= journal[t].final
        BY <1>8, <3>1, <4>1
      <4> QED BY <1>5, <3>1, <4>1, <4>2 DEF Apart
    <3> QED BY <1>8, <3>1, <3>2
  <2> QED BY <2>1, <2>2
<1>26. /\ Low(t) <= From(t)
       /\ \A r \in Cut(t) : r.end <= From(t) /\ r.end \in Nat
       /\ \A g \in journal[t].gaps : g.end <= From(t) /\ g.end \in Nat
       /\ \A b \in journal[t].boundaries : b.about.start <= From(t) /\ b.about.start \in Nat
  <2>1. /\ Low(t) <= From(t)
        /\ \A r \in Cut(t) : r.end <= From(t)
        /\ \A g \in journal[t].gaps : g.end <= From(t)
        /\ \A b \in journal[t].boundaries : b.about.start <= From(t)
    BY <1>4, <1>20, <1>21 DEF Disk
  <2>2. \A r \in Cut(t) : r.end \in Nat
    BY <1>4, TypedSegment
  <2> QED BY <1>4, <2>1, <2>2 DEF Gap, BoundaryEvent
<1>27. Pieces(t)'
  <2>1. InOrder(t)'
    <3>1. \A p \in S : p.start < p.end
      BY <1>8, <1>10
    <3>2. Steps' = N \cup R
      BY <1>4
    <3>3. \A p, q \in S : p # q => Apart(p, q)
      BY <1>8, <1>10
    <3>4. ClosingOf(t, S, N) /\ \A b \in R : b.track = t => b.do \notin {"close", "closing"}
      BY <1>16
    <3> QED BY <3>1, <3>2, <3>3, <3>4, ClosingOrder
  <2>2. ASSUME NEW p \in S
        PROVE  /\ p.track = t /\ p.start < p.end /\ p.end <= journal[t].final
               /\ p.end <= From(t)'
               /\ \A r \in Cut(t) : r.end <= p.start
               /\ \A g \in journal[t].gaps : Apart(g, p)
               /\ \A b \in journal[t].boundaries : b.about.start <= p.start
    <3>1. p \in P /\ p.start \in Nat
      BY <1>8, <1>10, TypedSegment
    <3>2. From(t) <= p.start /\ p.track = t /\ p.start < p.end /\ p.end <= journal[t].final
      BY <1>8, <3>1
    <3>3. \A x \in Nat : x <= From(t) => x <= p.start
      BY <1>5, <3>1, <3>2
    <3> QED BY <1>25, <1>26, <3>2, <3>3 DEF Apart
  <2> QED BY <1>1, <1>23, <1>24, <2>1, <2>2 DEF Pieces, InOrder
<1>28. Disk(t)'
  <2>0. \A x \in Nat : x <= From(t) => x <= From(t)'
    BY <1>5, <1>25
  <2>1. /\ Low(t) <= From(t)'
        /\ \A r \in Cut(t) : r.end <= From(t)'
        /\ \A g \in journal[t].gaps : g.end <= From(t)'
        /\ \A b \in journal[t].boundaries : b.about.start <= From(t)'
    BY <1>4, <1>26, <2>0
  <2>2. \A u : Behind(t, u)' <=> Behind(t, u)
    BY <1>24 DEF Behind
  <2> QED BY <1>1, <1>4, <1>24, <2>1, <2>2 DEF Disk
<1>29. Cover(t)'
  <2>1. ASSUME NEW u \in journal[t].voiced, From(t) <= u
        PROVE  (\E p \in S : Holds(p, u)) \/ (a # None /\ a.start <= u)
    <3>1. PICK q \in P : Holds(q, u)
      BY <1>4, <1>8, <2>1
    <3>2. CASE q \in S
      BY <3>1, <3>2
    <3>3. CASE q \in open
      BY <1>13, <3>1, <3>3 DEF Holds
    <3> QED BY <1>10, <3>2, <3>3
  <2>2. ASSUME NEW u \in journal[t].voiced, ~Closed(t)
        PROVE  (\E r \in Cut(t) : Holds(r, u)) \/ From(t) <= u
    <3>1. u \in Nat /\ ~Over
      BY <1>4, <1>21 DEF Live, Over
    <3>2. \/ \E r \in Cut(t) : Holds(r, u)
          \/ vad[t].active # None /\ vad[t].active.start <= u
          \/ vad[t].cursor <= u
      BY <1>4, <1>23, <2>2, <3>1 DEF Cover
    <3>3. vad[t].active # None => vad[t].active.start < vad[t].cursor /\ vad[t].active.start \in Nat
      BY <1>5, TypedActive DEF Clock
    <3> QED BY <1>5, <3>1, <3>2, <3>3 DEF From
  <2> QED BY <1>1, <1>14, <1>23, <1>24, <2>1, <2>2 DEF Cover
<1> QED BY <1>1, <1>16, <1>17, <1>14, <1>22, <1>27, <1>28, <1>29, ClosingTurn

----------------------------------------------------------------------------
(* The tail that a recovery finds.                                         *)

(* RecoverTail, for the track whose turn it is                             *)
TailAt(t) ==
  LET j == journal[t]
      open == j.active # None /\ j.active.start = TailStart(j)
      active == IF open THEN j.active ELSE None
  IN IF j.closed \/ Tail0(j) = {}
     THEN Then(<<>>) /\ UNCHANGED <<journal, asked, phase, failure, vad>>
     ELSE IF ~(Tail0(j) \subseteq j.pcm)
     THEN GivesUp("pcm") /\ UNCHANGED vad
     ELSE /\ vad' = [vad EXCEPT ![t] = [cursor |-> j.final, active |-> None]]
          /\ \E cut \in Cuts(t, TailStart(j), j.final, open) :
               Then(Closing(t, Named(t, cut, active)) \o <<Step("checkpoint", t)>>)
          /\ UNCHANGED <<journal, asked, phase, failure>>

(* The tail starts behind everything that is in a segment, and nowhere     *)
(* else.                                                                   *)
LEMMA TailIs ==
  ASSUME Types, NEW t \in Tracks, Disk(t)
  PROVE  /\ TailStart(journal[t]) \in Nat /\ Low(t) <= TailStart(journal[t])
         /\ \A r \in Cut(t) : r.end <= TailStart(journal[t])
         /\ \A u \in Nat : Behind(t, u) <=> u < TailStart(journal[t])
         /\ \A u : u \in Tail0(journal[t]) <=>
              u \in Nat /\ TailStart(journal[t]) <= u /\ u < journal[t].final
<1>1. /\ Low(t) \in Nat /\ journal[t].final \in Nat /\ Low(t) <= journal[t].final
      /\ \A r \in Cut(t) : r.end \in Nat /\ r.end <= journal[t].final
  <2>1. Low(t) \in Nat
    BY TypedTrack, TypedActive DEF Low
  <2>2. \A r \in Cut(t) : r.end \in Nat
    BY TypedCut, TypedSegment
  <2> QED BY <2>1, <2>2, TypedTrack DEF Disk
<1>2. PICK T : T = {Low(t)} \cup {s.end : s \in Cut(t)}
  OBVIOUS
<1>3. TailStart(journal[t]) = Max(T)
  BY <1>2 DEF TailStart, Low, Cut
<1>4. T \subseteq Nat /\ T # {} /\ \A n \in T : n <= journal[t].final
  BY <1>1, <1>2
<1>5. Max(T) \in T /\ \A m \in T : m <= Max(T)
  BY <1>1, <1>4, GreatestNatural
<1>6. /\ Max(T) \in Nat /\ Low(t) <= Max(T) /\ \A r \in Cut(t) : r.end <= Max(T)
      /\ Max(T) = Low(t) \/ \E r \in Cut(t) : r.end = Max(T)
  BY <1>2, <1>4, <1>5
<1>7. \A u \in Nat : Behind(t, u) <=> u < Max(T)
  BY <1>1, <1>6 DEF Behind
<1>8. \A u : u \in Tail0(journal[t]) <=> u \in Nat /\ Max(T) <= u /\ u < journal[t].final
  BY <1>1, <1>3, <1>6 DEF Tail0
<1> QED BY <1>3, <1>6, <1>7, <1>8

(* There is no tail.                                                       *)
LEMMA NoTailKept ==
  ASSUME CaptureInv, Doing("recoverTail"), NEW t, t = Head(todo).track,
         Closed(t) \/ Tail0(journal[t]) = {}, Then(<<>>),
         UNCHANGED <<sources, recording, journal, outbox, ledger, phase, vad, epoch, queue, run>>
  PROVE  CaptureInv'
<1>1. todo # <<>> /\ Head(todo).do = "recoverTail"
  BY DEF Doing
<1>2. PICK h, R : Turned(h, R, {})
  BY <1>1, DoneTurn
<1>3. h = Head(todo) /\ t = h.track
  BY <1>2 DEF Turned
<1>4. /\ Types /\ Program /\ Shape /\ Sealing /\ Direction1 /\ Direction2
      /\ h \in AnyStep /\ h = Head(todo) /\ t \in Tracks /\ t \in Both /\ Fits(phase, h.do)
      /\ Steps = {h} \cup R /\ Steps' = R /\ Steps' \subseteq AnyStep
      /\ Steps \subseteq AnyStep /\ R \subseteq AnyStep
      /\ \A b \in R : May(h, b)
      /\ Clock(t) /\ Pieces(t) /\ Disk(t) /\ Cover(t) /\ Announced(t)
      /\ journal[t] \in Journal /\ journal[t].final \in Nat /\ journal[t].classified \in Nat
      /\ journal[t].voiced \subseteq Nat /\ journal[t].pcm \subseteq Nat
      /\ Cut(t) \subseteq Segment /\ journal[t].gaps \subseteq Gap
      /\ journal[t].boundaries \subseteq BoundaryEvent
      /\ vad[t].cursor \in Nat /\ Low(t) \in Nat /\ From(t) \in Nat
      /\ \A u \in journal[t].voiced \cup journal[t].pcm : u < journal[t].final
      /\ \A x \in R : x.do \in {"direction", "changeDirection", "boundary"} => x.track = t
  BY <1>2, <1>3, DoneFacts
<1>5. phase = "recovering" /\ ~Live
  BY <1>1, <1>4 DEF Fits, CloseKinds, Live
<1>6. \A u \in Tracks : SameTape(u)
  BY DEF SameTape
<1>7. \A b \in R : b.track = t => b.do \notin {"close", "closing", "recoverTail"} /\ ~GapAbout(b)
  BY <1>1, <1>3, <1>4 DEF May, CloseKinds
<1>8. ~Closed(t) => \A u \in Nat : u < journal[t].final => Behind(t, u)
  <2>1. ASSUME NEW u \in Nat, u < journal[t].final, Tail0(journal[t]) = {} PROVE Behind(t, u)
    <3>1. u \notin Tail0(journal[t])
      BY <2>1
    <3> QED BY <1>4, <2>1, <3>1, TailIs
  <2> QED BY <2>1
<1>9. Clock(t)'
  <2>1. Keeps(KindOf(t, ClockKinds))
    BY <1>1, <1>4 DEF Keeps, KindOf, ClockKinds
  <2> QED BY <1>1, <1>4, <2>1, ClockFrame
<1>10. Pieces(t)'
  <2>1. Keeps(KindOf(t, {"close", "closing"}))
    BY <1>1, <1>4 DEF Keeps, KindOf
  <2>2. Live' => Live
    BY DEF Live
  <2> QED BY <1>4, <1>6, <2>1, <2>2, PiecesFrame
<1>11. Disk(t)'
  <2>1. Keeps(KindOf(t, {"skip"}))
    BY <1>1, <1>4 DEF Keeps, KindOf
  <2>2. Live' => Live
    BY DEF Live
  <2> QED BY <1>4, <1>6, <2>1, <2>2, DiskFrame
<1>12. Cover(t)'
  <2>1. ~Closed(t) => \A u \in journal[t].voiced : \E r \in Cut(t) : Holds(r, u)
    BY <1>4, <1>8 DEF Disk
  <2>2. Cut(t)' = Cut(t) /\ Closed(t)' = Closed(t)
    BY DEF Cut, Closed
  <2> QED BY <2>1, <2>2 DEF Cover
<1>13. Announced(t)'
  <2>1. \A x \in Steps : ~(GapAbout(x) /\ x.track = t)
    BY <1>1, <1>4, <1>7 DEF GapAbout
  <2>2. ASSUME NEW g \in journal[t].gaps, ~Closed(t) PROVE Behind(t, g.start)
    <3>1. g.start \in Nat /\ g.end \in Nat /\ g.start < g.end /\ g.end <= journal[t].final
      BY <1>4 DEF Gap, Disk
    <3> QED BY <1>4, <1>8, <2>2, <3>1
  <2>3. \A g \in journal[t].gaps :
          \/ \E e \in ledger : e.kind = "gap" /\ e.about = g
          \/ ~Closed(t) /\ \E e \in outbox[t] : e.kind = "gap" /\ e.about = g
    BY <1>4, <2>2 DEF Announced
  <2>4. Closed(t)' = Closed(t)
    BY DEF Closed
  <2> QED BY <2>3, <2>4 DEF Announced
<1>14. Sealing'
  <2>1. Seals' \subseteq Seals
    BY <1>4, SealsKept
  <2>2. h.do # "seal"
    BY <1>1, <1>4
  <2> QED BY <1>2, <1>6, <2>1, <2>2, SealingTurn
<1>15. Direction1' /\ Direction2'
  <2>1. \A x \in R : x.do # "boundary" /\ x.do # "changeDirection"
    BY <1>1, <1>3, <1>4 DEF May, CloseKinds
  <2>2. ~Has("changeDirection", Mic)'
    BY <1>4, <2>1 DEF Has
  <2>3. Calm(h)
    BY <1>1, <1>4 DEF Calm, DirectionKinds, About
  <2>4. \A u \in Tracks : Cut(u)' = Cut(u)
    BY DEF Cut
  <2> QED BY <1>2, <2>1, <2>2, <2>3, <2>4, CalmDirections
<1>16. Fresh'
  BY <1>5 DEF Fresh
<1>17. /\ outbox' \in [Tracks -> SUBSET AnyEvent] /\ epoch' \in Nat \ {0}
       /\ journal' \in [Tracks -> Journal]
       /\ vad' \in [Tracks -> [cursor : Nat, active : Active \cup {None}]]
  BY <1>4 DEF Types
<1>18. \A u \in Tracks : u # h.track => SameTape(u) /\ vad'[u] = vad[u] /\ outbox'[u] = outbox[u]
  BY <1>6
<1> QED BY <1>2, <1>3, <1>9, <1>10, <1>11, <1>12, <1>13, <1>14, <1>15, <1>16, <1>17, <1>18, TurnKept

(* The turn of a tail that is cut                                          *)
LEMMA TailTurned ==
  ASSUME CaptureInv, Doing("recoverTail"),
         NEW t, t = Head(todo).track, NEW S, S \subseteq Segment, \A s \in S : s.track = t,
         Then(Closing(t, S) \o <<Step("checkpoint", t)>>), UNCHANGED <<sources, recording, phase, run>>
  PROVE  \E h, R, N, C : /\ Turned(h, R, C) /\ h = Head(todo) /\ ClosingOf(t, S, N)
                        /\ C = N \cup {Step("checkpoint", t)}
<1>0. Types /\ Program /\ todo # <<>> /\ Head(todo).do = "recoverTail"
  BY DEF CaptureInv, Doing
<1>1. PICK h \in AnyStep, R \in SUBSET AnyStep :
        /\ h = Head(todo) /\ R = In(Tail(todo)) /\ Steps = {h} \cup R /\ h.track \in Tracks
        /\ \A b \in R : May(h, b) /\ b.track \in Tracks
        /\ Fits(phase, h.do) /\ \A b \in R : Fits(phase, b.do)
  BY <1>0, FirstStep
<1>2. t \in Both /\ h.track = t /\ h.do = "recoverTail"
  BY <1>0, <1>1 DEF Types, Tracks, Both
<1>3. PICK N \in SUBSET AnyStep : Chain(Closing(t, S), N) /\ ClosingOf(t, S, N)
  BY <1>0, <1>2, ClosingChain
<1>4. PICK c : c = Step("checkpoint", t)
  OBVIOUS
<1>5. c \in AnyStep /\ c.do = "checkpoint" /\ c.track = t
  BY <1>2, <1>4, StepTyped, PlainIs DEF PlainKinds
<1>6. PICK C \in SUBSET AnyStep : C = N \cup {c}
  BY <1>5
<1>7. \A x \in N : x \in AnyStep /\ x.track = t /\ x.do \in CloseKinds
  BY <1>3 DEF ClosingOf
<1>8. Chain(Closing(t, S) \o <<c>>, C)
  <2>1. Chain(<<c>>, {c})
    BY <1>5, ChainOfOne
  <2>2. \A x \in N, y \in {c} : May(x, y)
    BY <1>5, <1>7 DEF May, CloseKinds, GapAbout, BoundaryAbout
  <2>3. Chain(Closing(t, S) \o <<c>>, N \cup {c})
    BY <1>3, <2>1, <2>2, ChainJoin
  <2> QED BY <1>6, <2>3
<1>9. \A x \in C : x \in AnyStep /\ x.track = t /\ x.do \in CloseKinds \cup {"checkpoint"}
  BY <1>5, <1>6, <1>7
<1>10. \A x \in C, b \in R : May(x, b)
  <2>1. ASSUME NEW x \in C, NEW b \in R PROVE May(x, b)
    <3>1. x \in AnyStep /\ b \in AnyStep /\ May(h, b) /\ x.track = h.track
          /\ x.do \in CloseKinds \cup {"checkpoint"}
          /\ h.do \in {"push", "finish", "closing", "recoverTail"}
      BY <1>1, <1>2, <1>9
    <3> QED BY <1>2, <3>1, MayClose
  <2> QED BY <2>1
<1>11. phase = "recovering"
  BY <1>1, <1>2 DEF Fits, CloseKinds
<1>12. \A x \in C : x.track = h.track /\ Fits(phase, x.do)
  BY <1>2, <1>9, <1>11 DEF Fits
<1>13. Head(todo).do # "flushAll" /\ Then(Closing(t, S) \o <<c>>)
  BY <1>0, <1>4
<1>14. Turned(h, R, C)
  BY <1>0, <1>1, <1>8, <1>10, <1>12, <1>13, NextTurn
<1> QED BY <1>1, <1>3, <1>4, <1>6, <1>14

(* The tail is cut into segments.                                          *)
LEMMA TailCutKept ==
  ASSUME CaptureInv, Doing("recoverTail"), NEW t, t = Head(todo).track,
         ~Closed(t), Tail0(journal[t]) \subseteq journal[t].pcm, NEW open, NEW active \in Active \cup {None},
         vad' = [vad EXCEPT ![t] = [cursor |-> journal[t].final, active |-> None]],
         NEW cut \in Cuts(t, TailStart(journal[t]), journal[t].final, open),
         Then(Closing(t, Named(t, cut, active)) \o <<Step("checkpoint", t)>>),
         UNCHANGED <<sources, recording, journal, outbox, ledger, phase, epoch, queue, run>>
  PROVE  CaptureInv'
<1>0. Types /\ Program /\ todo # <<>> /\ Head(todo).do = "recoverTail"
  BY DEF CaptureInv, Doing
<1>1. t \in Tracks /\ t \in Both
  BY <1>0, FirstStep DEF Types, Tracks, Both
<1>2. PICK T : T = TailStart(journal[t])
  OBVIOUS
<1>3. /\ T \in Nat /\ Low(t) <= T /\ \A r \in Cut(t) : r.end <= T
      /\ \A u \in Nat : Behind(t, u) <=> u < T
      /\ \A u : u \in Tail0(journal[t]) <=> u \in Nat /\ T <= u /\ u < journal[t].final
  <2>1. Disk(t)
    BY <1>1 DEF CaptureInv
  <2> QED BY <1>0, <1>1, <1>2, <2>1, TailIs
<1>5. PICK S : S = Named(t, cut, active)
  OBVIOUS
<1>6. /\ S \subseteq Segment
      /\ \A q \in S : q.track = t /\ T <= q.start /\ q.start < q.end /\ q.end <= journal[t].final
      /\ \A p, q \in S : p # q => Apart(p, q)
      /\ \A u \in journal[t].voiced : T <= u /\ u < journal[t].final => \E q \in S : Holds(q, u)
  <2>1. journal[t].final \in Nat
    BY <1>0, <1>1, TypedTrack
  <2> QED BY <1>0, <1>1, <1>2, <1>3, <1>5, <2>1, CutsAre
<1>7. PICK h, R, N, C : /\ Turned(h, R, C) /\ h = Head(todo) /\ ClosingOf(t, S, N)
                        /\ C = N \cup {Step("checkpoint", t)}
  BY <1>5, <1>6, TailTurned
<1>4. /\ Types /\ Program /\ Shape /\ Sealing /\ Direction1 /\ Direction2
      /\ h \in AnyStep /\ h = Head(todo) /\ t \in Tracks /\ t \in Both /\ Fits(phase, h.do)
      /\ Steps = {h} \cup R /\ Steps' = C \cup R /\ Steps' \subseteq AnyStep
      /\ Steps \subseteq AnyStep /\ R \subseteq AnyStep
      /\ \A b \in R : May(h, b)
      /\ Clock(t) /\ Pieces(t) /\ Disk(t) /\ Cover(t) /\ Announced(t)
      /\ journal[t] \in Journal /\ journal[t].final \in Nat /\ journal[t].classified \in Nat
      /\ journal[t].voiced \subseteq Nat /\ journal[t].pcm \subseteq Nat
      /\ Cut(t) \subseteq Segment /\ journal[t].gaps \subseteq Gap
      /\ journal[t].boundaries \subseteq BoundaryEvent
      /\ vad[t].cursor \in Nat /\ Low(t) \in Nat /\ From(t) \in Nat
      /\ \A u \in journal[t].voiced \cup journal[t].pcm : u < journal[t].final
      /\ \A x \in R : x.do \in {"direction", "changeDirection", "boundary"} => x.track = t
  BY <1>7, TurnFacts
<1>8. h.do = "recoverTail" /\ h.track = t
  BY <1>0, <1>7
<1>9. PICK M : M = {Step("checkpoint", t)} \cup R
  OBVIOUS
<1>10. /\ Steps' = N \cup M
       /\ \A b \in M : b.track = t =>
            /\ b.do \notin {"close", "closing", "advance", "noteGap", "skip", "record", "push",
                         "changeDirection", "boundary", "recoverTail"}
            /\ ~GapAbout(b)
  <2>1. Step("checkpoint", t).do = "checkpoint"
    BY PlainIs
  <2> QED BY <1>4, <1>7, <1>8, <1>9, <2>1 DEF May, CloseKinds, GapAbout
<1>11. phase = "recovering" /\ ~Live /\ ~Over
  BY <1>4, <1>8 DEF Fits, CloseKinds, Live, Over
<1>12. \A x \in C : /\ x.track = t /\ Calm(x) /\ x \notin About("seal")
                    /\ x.do \notin {"record", "advance", "noteGap", "gapTo", "direction", "last", "changeDirection",
                        "boundary", "recoverTail", "publish", "skip", "push", "finish",
                        "seal", "hear", "tail"}
  <2>1. ASSUME NEW x \in N
        PROVE  /\ x.track = t /\ Calm(x) /\ x \notin About("seal")
               /\ x.do \notin {"record", "advance", "noteGap", "gapTo", "direction", "last", "changeDirection",
                        "boundary", "recoverTail", "publish", "skip", "push", "finish",
                        "seal", "hear", "tail"}
    BY <1>7, CloseSteps1 DEF ClosingOf
  <2>2. Step("checkpoint", t).do = "checkpoint" /\ Step("checkpoint", t).track = t
    BY PlainIs
  <2>3. Calm(Step("checkpoint", t)) /\ Step("checkpoint", t) \notin About("seal")
    BY <2>2 DEF Calm, DirectionKinds, About
  <2> QED BY <1>7, <2>1, <2>2, <2>3
<1>13. /\ vad' \in [Tracks -> [cursor : Nat, active : Active \cup {None}]]
       /\ vad'[t].cursor = journal[t].final /\ vad'[t].active = None
       /\ \A u \in Tracks : u # t => vad'[u] = vad[u]
  BY <1>1, <1>4 DEF Types
<1>14. \A u \in Tracks : SameTape(u)
  BY DEF SameTape
<1>15. Clock(t)'
  BY <1>4, <1>11, <1>13 DEF Clock, Live
<1>16. Pending(t)' = S
  <2>1. ClosingOf(t, S, N)
    BY <1>7
  <2>2. Steps' = N \cup M
    BY <1>10
  <2>3. \A b \in M : b.track = t => b.do \notin {"close", "closing"}
    BY <1>10
  <2> QED BY <2>1, <2>2, <2>3, ClosingPending
<1>17. /\ Cut(t)' = Cut(t) /\ Low(t)' = Low(t) /\ Closed(t)' = Closed(t) /\ Live' = Live
  BY DEF Cut, Low, Closed, Live
<1>18. \A g \in journal[t].gaps : g.end <= T
  <2>1. ASSUME NEW g \in journal[t].gaps, ~(g.end <= T) PROVE FALSE
    <3>1. g.start \in Nat /\ g.end \in Nat /\ g.start < g.end /\ g.end <= journal[t].final
          /\ \A u \in journal[t].pcm : ~Holds(g, u)
      BY <1>4 DEF Gap, Disk
    <3>2. g.end - 1 \in Nat /\ T <= g.end - 1 /\ g.end - 1 < journal[t].final /\ g.start <= g.end - 1
          /\ g.end - 1 < g.end
      BY <1>3, <1>4, <2>1, <3>1
    <3>3. g.end - 1 \in journal[t].pcm
      BY <1>3, <3>2
    <3> QED BY <3>1, <3>2, <3>3 DEF Holds
  <2> QED BY <2>1
<1>19. Pieces(t)'
  <2>1. InOrder(t)'
    <3>1. \A p \in S : p.start < p.end
      BY <1>6
    <3>2. \A p, q \in S : p # q => Apart(p, q)
      BY <1>6
    <3>3. ClosingOf(t, S, N) /\ (\A b \in M : b.track = t => b.do \notin {"close", "closing"})
          /\ Steps' = N \cup M
      BY <1>7, <1>10
    <3> QED BY <3>1, <3>2, <3>3, ClosingOrder
  <2>2. ASSUME NEW p \in S
        PROVE  /\ p.track = t /\ p.start < p.end /\ p.end <= journal[t].final
               /\ \A r \in Cut(t) : r.end <= p.start
               /\ \A g \in journal[t].gaps : Apart(g, p)
               /\ \A b \in journal[t].boundaries : b.about.start <= p.start
    <3>1. p.start \in Nat /\ T <= p.start /\ p.track = t /\ p.start < p.end /\ p.end <= journal[t].final
      BY <1>6, TypedSegment
    <3>2. \A x \in Nat : x <= T => x <= p.start
      BY <1>3, <3>1
    <3>3. \A r \in Cut(t) : r.end <= p.start
      BY <1>3, <1>4, <3>2, TypedSegment
    <3>4. \A g \in journal[t].gaps : Apart(g, p)
      BY <1>4, <1>18, <3>2 DEF Gap, Apart
    <3>5. \A b \in journal[t].boundaries : b.about.start <= p.start
      <4>1. \A b \in journal[t].boundaries : b.about.start \in Nat /\ b.about.start <= Low(t)
        BY <1>4 DEF BoundaryEvent, Disk
      <4> QED BY <1>3, <1>4, <3>2, <4>1
    <3> QED BY <3>1, <3>3, <3>4, <3>5
  <2> QED BY <1>11, <1>16, <1>17, <2>1, <2>2 DEF Pieces, InOrder
<1>20. Disk(t)'
  <2>1. \A u : Behind(t, u)' <=> Behind(t, u)
    BY <1>17 DEF Behind
  <2> QED BY <1>4, <1>11, <1>17, <2>1 DEF Disk
<1>21. Cover(t)'
  <2>1. ASSUME NEW u \in journal[t].voiced
        PROVE  (\E r \in Cut(t) : Holds(r, u)) \/ (\E p \in S : Holds(p, u))
    <3>1. u \in Nat /\ u < journal[t].final
      BY <1>4
    <3>2. CASE u < T
      BY <1>3, <1>4, <3>1, <3>2 DEF Disk
    <3>3. CASE T <= u
      BY <1>6, <3>1, <3>3
    <3> QED BY <1>3, <3>1, <3>2, <3>3
  <2> QED BY <1>16, <1>17, <2>1 DEF Cover
<1>22. Announced(t)'
  <2>1. \A x \in Steps : ~(GapAbout(x) /\ x.track = t)
    BY <1>4, <1>8, <1>9, <1>10 DEF GapAbout
  <2>2. ASSUME NEW g \in journal[t].gaps PROVE Behind(t, g.start)
    <3>1. g.start \in Nat /\ g.end \in Nat /\ g.start < g.end
      BY <1>4 DEF Gap, Disk
    <3> QED BY <1>3, <1>18, <3>1
  <2>3. \A g \in journal[t].gaps :
          \/ \E e \in ledger : e.kind = "gap" /\ e.about = g
          \/ ~Closed(t) /\ \E e \in outbox[t] : e.kind = "gap" /\ e.about = g
    BY <1>4, <2>2 DEF Announced
  <2> QED BY <1>17, <2>3 DEF Announced
<1>23. Sealing'
  <2>1. Seals' \subseteq Seals
    <3>1. \A x \in Steps' : x \in About("seal") => x \in Steps
      BY <1>4, <1>12
    <3> QED BY <1>4, <3>1, SealsKept
  <2>2. /\ h.do # "seal" /\ ~Closed(h.track)
        /\ \A x \in C : x.do \notin {"publish", "last", "direction", "changeDirection"}
    BY <1>8, <1>12
  <2> QED BY <1>7, <1>14, <2>1, <2>2, SealingTurn
<1>24. Direction1' /\ Direction2'
  <2>1. \A x \in R : x.do # "boundary" /\ x.do # "changeDirection"
    BY <1>4, <1>8 DEF May, CloseKinds
  <2>2. ~Has("changeDirection", Mic)'
    BY <1>4, <1>12, <2>1 DEF Has
  <2>3. Calm(h) /\ \A x \in C : Calm(x)
    BY <1>8, <1>12 DEF Calm, DirectionKinds, About
  <2>4. \A u \in Tracks : Cut(u)' = Cut(u)
    BY DEF Cut
  <2> QED BY <1>7, <2>1, <2>2, <2>3, <2>4, CalmDirections
<1>25. Fresh'
  BY <1>11 DEF Fresh
<1>26. /\ outbox' \in [Tracks -> SUBSET AnyEvent] /\ epoch' \in Nat \ {0}
       /\ journal' \in [Tracks -> Journal]
  BY <1>4 DEF Types
<1>27. \A u \in Tracks : u # h.track => SameTape(u) /\ vad'[u] = vad[u] /\ outbox'[u] = outbox[u]
  BY <1>8, <1>13, <1>14
<1>28. \A x \in C : x.do \notin {"record", "advance", "noteGap", "gapTo", "direction",
                                 "changeDirection", "boundary"}
  BY <1>12
<1> QED BY <1>7, <1>8, <1>13, <1>15, <1>19, <1>20, <1>21, <1>22, <1>23, <1>24, <1>25, <1>26,
           <1>27, <1>28, TurnKept

(* Cutting the tail a crash left keeps it: every voiced unit behind the    *)
(* last segment is cut now.                                                *)
LEMMA RecoverTailKept == CaptureInv /\ RecoverTail => CaptureInv'
<1> SUFFICES ASSUME CaptureInv, RecoverTail PROVE CaptureInv'
  OBVIOUS
<1>1. Doing("recoverTail") /\ TailAt(Track)
      /\ UNCHANGED <<sources, recording, outbox, ledger, epoch, queue, run>>
  BY DEF RecoverTail, TailAt
<1>2. PICK t : t = Head(todo).track
  OBVIOUS
<1>3. TailAt(t) /\ todo # <<>> /\ Head(todo).do = "recoverTail"
  BY <1>1, <1>2 DEF Track, Doing
<1>4. Types /\ t \in Tracks /\ journal[t] \in Journal
  <2>1. Types /\ Program
    BY DEF CaptureInv
  <2> QED BY <1>2, <1>3, <2>1, FirstStep, TypedTrack
<1>5. journal[t].closed \in BOOLEAN /\ journal[t].active \in Active \cup {None}
  BY <1>4, TypedTrack
<1>6. CASE Closed(t) \/ Tail0(journal[t]) = {}
  <2>1. Then(<<>>) /\ UNCHANGED <<journal, asked, phase, failure, vad>>
    BY <1>3, <1>6 DEF TailAt, Closed
  <2> QED BY <1>1, <1>2, <1>6, <2>1, NoTailKept
<1>7. CASE ~(Closed(t) \/ Tail0(journal[t]) = {}) /\ ~(Tail0(journal[t]) \subseteq journal[t].pcm)
  <2>1. GivesUp("pcm") /\ UNCHANGED vad
    BY <1>3, <1>5, <1>7 DEF TailAt, Closed
  <2>2. Delivered
    BY <1>1, NothingDelivered
  <2> QED BY <1>1, <1>3, <2>1, <2>2, GivesUpKept
<1>8. CASE ~(Closed(t) \/ Tail0(journal[t]) = {}) /\ Tail0(journal[t]) \subseteq journal[t].pcm
  <2>1. PICK open, active : /\ open = (journal[t].active # None /\ journal[t].active.start = TailStart(journal[t]))
                            /\ active = IF open THEN journal[t].active ELSE None
    OBVIOUS
  <2>2. /\ vad' = [vad EXCEPT ![t] = [cursor |-> journal[t].final, active |-> None]]
        /\ \E cut \in Cuts(t, TailStart(journal[t]), journal[t].final, open) :
             Then(Closing(t, Named(t, cut, active)) \o <<Step("checkpoint", t)>>)
        /\ UNCHANGED <<journal, asked, phase, failure>>
    BY <1>3, <1>5, <1>8, <2>1 DEF TailAt, Closed
  <2>3. active \in Active \cup {None}
    BY <1>5, <2>1
  <2> QED BY <1>1, <1>2, <1>8, <2>2, <2>3, TailCutKept
<1> QED BY <1>6, <1>7, <1>8

----------------------------------------------------------------------------
(* Steps that leave everything alone that the invariant looks at           *)

(* A step that changes nothing the invariant reads keeps it.               *)
LEMMA SameStateKept ==
  ASSUME CaptureInv, UNCHANGED <<sources, recording, journal, outbox, ledger, phase, todo, vad,
                                 epoch, queue, run>>
  PROVE  CaptureInv'
<1>1. /\ Steps' = Steps /\ Tracks' = Tracks /\ Dual' = Dual /\ Noted' = Noted /\ Sent' = Sent
      /\ InLedger' = InLedger /\ Over' = Over /\ Live' = Live /\ Sealed' = Sealed
      /\ Manifest' = Manifest /\ Registered' = Registered
  BY DEF Steps, In, Tracks, Dual, Noted, Sent, InLedger, Over, Live, Sealed, Manifest, Registered,
         Events
<1>2. \A k, t : Has(k, t)' <=> Has(k, t)
  BY <1>1 DEF Has
<1>3. \A t : /\ Cut(t)' = Cut(t) /\ From(t)' = From(t) /\ Low(t)' = Low(t) /\ Closed(t)' = Closed(t)
             /\ Pending(t)' = Pending(t)
  BY <1>1 DEF Cut, From, Low, Closed, Pending
<1>4. \A t, u : Behind(t, u)' <=> Behind(t, u)
  BY <1>3 DEF Behind
<1>5. Types'
  BY <1>1 DEF CaptureInv, Types
<1>6. Program'
  <2>1. Program
    BY DEF CaptureInv
  <2>2. Ordered(todo') /\ FlushedFirst'
    BY <2>1 DEF Program, FlushedFirst, Doing
  <2>3. Shape'
    BY <1>1, <1>2, <2>1 DEF Program, Shape
  <2>4. Fresh'
    BY <1>1, <2>1 DEF Program, Fresh
  <2> QED BY <2>2, <2>3, <2>4 DEF Program
<1>7. ASSUME NEW t \in Tracks
      PROVE  Clock(t)' /\ Pieces(t)' /\ Disk(t)' /\ Cover(t)' /\ Announced(t)'
  <2>1. Clock(t) /\ Pieces(t) /\ Disk(t) /\ Cover(t) /\ Announced(t)
    BY DEF CaptureInv
  <2>2. Clock(t)'
    BY <1>1, <1>2, <2>1 DEF Clock
  <2>3. Pieces(t)'
    BY <1>1, <1>3, <2>1 DEF Pieces
  <2>4. Disk(t)'
    BY <1>1, <1>2, <1>3, <1>4, <2>1 DEF Disk
  <2>5. Cover(t)'
    BY <1>1, <1>2, <1>3, <2>1 DEF Cover
  <2>6. Announced(t)'
    BY <1>1, <1>2, <1>3, <1>4, <2>1 DEF Announced
  <2> QED BY <2>2, <2>3, <2>4, <2>5, <2>6
<1>8. Sealing'
  <2>1. Sealing
    BY DEF CaptureInv
  <2>2. Seals' = Seals
    BY <1>1 DEF Seals, SentSeals, KeptSeals, SealSending
  <2> QED BY <1>1, <1>2, <1>3, <2>1, <2>2 DEF Sealing
<1>9. Direction1'
  BY <1>1, <1>2 DEF CaptureInv, Direction1
<1>10. Direction2'
  BY <1>1, <1>2, <1>3 DEF CaptureInv, Direction2
<1> QED BY <1>1, <1>5, <1>6, <1>7, <1>8, <1>9, <1>10 DEF CaptureInv

(* The operator asks for the end; the recogniser answers.                  *)
LEMMA RequestStopKept == CaptureInv /\ RequestStop => CaptureInv'
<1> SUFFICES ASSUME CaptureInv, RequestStop PROVE CaptureInv'
  OBVIOUS
<1>1. UNCHANGED <<sources, recording, journal, outbox, ledger, phase, todo, vad, epoch, queue, run>>
  BY DEF RequestStop, disk, memory
<1> QED BY <1>1, SameStateKept

(* A result of the recogniser keeps it.                                    *)
LEMMA RecogniseKept == CaptureInv /\ Recognise => CaptureInv'
<1> SUFFICES ASSUME CaptureInv, Recognise PROVE CaptureInv'
  OBVIOUS
<1>1. UNCHANGED <<sources, recording, journal, outbox, ledger, phase, todo, vad, epoch, queue, run>>
  BY DEF Recognise, disk, memory
<1> QED BY <1>1, SameStateKept

(* A list without steps                                                    *)
LEMMA EmptyList ==
  ASSUME NEW list \in Seq(AnyStep), In(list) = {}
  PROVE  list = <<>>
<1>1. \A i \in DOMAIN list : FALSE
  BY DEF In
<1>2. DOMAIN list = 1..Len(list) /\ Len(list) \in Nat
  OBVIOUS
<1>3. Len(list) = 0
  <2>1. 1 \notin 1..Len(list)
    BY <1>1, <1>2
  <2> QED BY <1>2, <2>1
<1> QED BY <1>3, EmptySeq

(* Nothing comes after the steps.                                          *)
LEMMA OnlySteps ==
  ASSUME NEW new \in Seq(AnyStep), Tail(todo) = <<>>, Then(new)
  PROVE  todo' = new
<1>1. new \o <<>> = new
  BY ConcatEmptySeq
<1> QED BY <1>1 DEF Then

(* The last step of the list                                               *)
LEMMA LastStep ==
  ASSUME CaptureInv, todo # <<>>,
         Head(todo).do \in {"barrier", "direction", "changeDirection", "last", "acknowledge"}
  PROVE  Tail(todo) = <<>> /\ Steps = {Head(todo)} /\ Head(todo) \in AnyStep
         /\ Head(todo).track \in Tracks /\ Fits(phase, Head(todo).do)
<1>1. Types /\ Program
  BY DEF CaptureInv
<1>2. PICK h \in AnyStep, R \in SUBSET AnyStep :
        /\ h = Head(todo) /\ R = In(Tail(todo)) /\ Steps = {h} \cup R /\ h.track \in Tracks
        /\ \A b \in R : May(h, b) /\ b.track \in Tracks
        /\ Fits(phase, h.do) /\ \A b \in R : Fits(phase, b.do)
  BY <1>1, FirstStep
<1>3. R = {}
  BY <1>2 DEF May
<1>4. todo \in Seq(AnyStep)
  BY <1>1 DEF Types
<1>5. Tail(todo) \in Seq(AnyStep)
  BY <1>4, SplitList
<1> QED BY <1>2, <1>3, <1>5, EmptyList

(* The readiness barrier                                                   *)
LEMMA BarrierKept == CaptureInv /\ Barrier => CaptureInv'
<1> SUFFICES ASSUME CaptureInv, Barrier PROVE CaptureInv'
  OBVIOUS
<1>1. /\ todo # <<>> /\ Head(todo).do = "barrier"
      /\ UNCHANGED <<sources, recording, journal, outbox, ledger, vad, epoch, queue, run>>
  BY DEF Barrier, Doing, disk, memory
<1>2. /\ Tail(todo) = <<>> /\ Steps = {Head(todo)} /\ Head(todo) \in AnyStep
      /\ Head(todo).track \in Tracks /\ Fits(phase, Head(todo).do)
  BY <1>1, LastStep
<1>3. phase = "opening"
  BY <1>1, <1>2 DEF Fits, CloseKinds, ReplayKinds
<1>4. Types /\ Program /\ Sealing /\ Direction1 /\ Direction2
  BY DEF CaptureInv
<1>5. Delivered /\ queue' \in Seq(Segment) /\ journal' \in [Tracks -> Journal]
  BY <1>1, <1>4 DEF Delivered, Types
<1>6. CASE phase' = "abandoned" /\ Then(SealSteps)
  <2>1. SealSteps \in Seq(AnyStep)
    BY <1>4, SealStepsChain DEF Chain
  <2>2. todo' = SealSteps
    BY <1>2, <1>6, <2>1, OnlySteps
  <2> QED BY <1>1, <1>3, <1>5, <1>6, <2>2, AgainKept DEF Again
<1>7. Then(<<>>) => todo' = <<>>
  BY <1>2 DEF Then
<1>8. CASE phase' = "failed" /\ Then(<<>>)
  <2>1. \A t \in Tracks : SameTrack(t)
    BY <1>1 DEF SameTrack, SameTape
  <2> QED BY <1>1, <1>5, <1>7, <1>8, <2>1, LeftKept DEF Left
<1>9. CASE phase' = "live" /\ Then(<<>>)
  <2>1. Steps' = {} /\ Ordered(todo') /\ FlushedFirst' /\ todo' \in Seq(AnyStep)
    BY <1>7, <1>9, LeftSteps
  <2>2. Tracks' = Tracks /\ Dual' = Dual /\ Mic \in Tracks
    BY <1>1, <1>4 DEF Tracks, Dual, Types, Both
  <2>3. \A k, t : ~Has(k, t)'
    BY <2>1 DEF Has
  <2>4. Live /\ Live' /\ ~Over /\ ~Over'
    BY <1>3, <1>9 DEF Live, Over
  <2>5. \A t \in Tracks : journal[t].final = 0 /\ journal[t].gaps = {} /\ vad[t] = NewVad
    BY <1>3, <1>4 DEF Program, Fresh
  <2>6. \A x \in Steps : x.do = "barrier"
    BY <1>1, <1>2
  <2>7. Types'
    BY <1>1, <1>4, <1>9, <2>1, <2>2 DEF Types, Phases
  <2>8. Program'
    BY <1>9, <2>1, <2>3 DEF Program, Shape, Fresh
  <2>9. ASSUME NEW t \in Tracks
        PROVE  Clock(t)' /\ Pieces(t)' /\ Disk(t)' /\ Cover(t)' /\ Announced(t)'
    <3>1. /\ Clock(t) /\ Disk(t) /\ journal'[t] = journal[t] /\ vad'[t] = vad[t] /\ vad[t] = NewVad
          /\ journal[t].final = 0 /\ journal[t].gaps = {}
          /\ journal[t].voiced \subseteq Nat /\ journal[t].pcm \subseteq Nat
      BY <1>1, <1>4, <2>5, TypedTrack DEF CaptureInv
    <3>2. \A u \in journal[t].voiced \cup journal[t].pcm : FALSE
      BY <3>1 DEF Clock
    <3>3. Clock(t)'
      <4>1. vad[t].active = None /\ vad[t].cursor = 0
        BY <3>1 DEF NewVad
      <4> QED BY <1>9, <2>1, <2>3, <3>1, <3>2, <4>1 DEF Clock
    <3>4. Pieces(t)'
      BY <2>1 DEF Pieces, Pending
    <3>5. Disk(t)'
      <4>1. From(t)' = From(t) /\ Cut(t)' = Cut(t) /\ Low(t)' = Low(t) /\ Closed(t)' = Closed(t)
        BY <3>1 DEF From, Cut, Low, Closed
      <4> QED BY <2>4, <3>1, <3>2, <4>1 DEF Disk
    <3>6. Cover(t)'
      BY <3>1, <3>2 DEF Cover
    <3>7. Announced(t)'
      BY <3>1 DEF Announced
    <3> QED BY <3>3, <3>4, <3>5, <3>6, <3>7
  <2>10. \A t \in Tracks : ~Closed(t)
    BY <1>3, <1>4 DEF Sealing
  <2>11. Sealing'
    <3>1. Seals' \subseteq Seals
      BY <1>1, <2>1, SealsKept
    <3>2. Seals = {}
      BY <1>4, <2>2, <2>10 DEF Sealing
    <3>3. ~Sealed'
      BY <3>1, <3>2 DEF Seals, SentSeals, Sealed, Events
    <3>4. \A t \in Tracks : Closed(t)' = Closed(t)
      BY <1>1 DEF Closed
    <3> QED BY <2>1, <2>2, <2>3, <2>10, <3>1, <3>2, <3>3, <3>4 DEF Sealing
  <2>12. Direction1' /\ Direction2'
    <3>1. Noted' = Noted /\ Sent' = Sent /\ InLedger' = InLedger
      BY <1>1 DEF Noted, Sent, InLedger
    <3>2. Direction1'
      BY <1>1, <1>4, <2>1, <2>2, <2>3, <3>1 DEF Direction1
    <3>3. \A b \in Sent : b \in Noted
      BY <1>3, <1>4, <2>4, <2>6 DEF Direction2
    <3>4. \A b \in Noted : b.about.epoch <= epoch
      BY <1>4, <2>4, <2>6 DEF Direction2, Has
    <3>5. \A t \in Tracks : Cut(t)' = Cut(t)
      BY <1>1 DEF Cut
    <3> QED BY <1>1, <1>4, <2>2, <2>4, <3>1, <3>2, <3>3, <3>4, <3>5 DEF Direction2
  <2> QED BY <2>2, <2>7, <2>8, <2>9, <2>11, <2>12 DEF CaptureInv
<1>10. \/ phase' = "live" /\ Then(<<>>)
       \/ phase' = "abandoned" /\ Then(SealSteps)
       \/ phase' = "failed" /\ Then(<<>>)
  BY DEF Barrier
<1> QED BY <1>6, <1>8, <1>9, <1>10

----------------------------------------------------------------------------
(* Turns of the program that write nothing                                 *)

(* The clock of a track that has nothing under way                         *)
LEMMA ClockCalm ==
  ASSUME Types, NEW t \in Tracks, Clock(t), UNCHANGED <<journal, vad>>, Live, Live',
         \A x \in Steps : x.track = t =>
           x.do \notin {"advance", "noteGap", "skip", "push", "record"},
         \A x \in Steps' : x.track = t =>
           x.do \notin {"advance", "noteGap", "skip", "push", "record"},
         Has("changeDirection", t)' =>
           (Head(todo').do = "finish" /\ Head(todo').track = t) \/ vad[t].active = None,
         Has("seal", t)' => Has("finish", t)' \/ vad[t].active = None
  PROVE  Clock(t)'
<1>1. /\ ~Has("advance", t) /\ ~Has("noteGap", t) /\ ~Has("skip", t) /\ ~Has("push", t)
      /\ ~Has("record", t)
      /\ ~Has("advance", t)' /\ ~Has("noteGap", t)' /\ ~Has("skip", t)' /\ ~Has("push", t)'
      /\ ~Has("record", t)'
  BY DEF Has
<1>2. phase' # "recovering"
  BY DEF Live
<1>3. \A x \in Steps' : x.do = "noteGap" /\ x.track = t => FALSE
  OBVIOUS
<1> QED BY <1>1, <1>2, <1>3 DEF Clock

(* Seals, as long as no journal is closed                                  *)
LEMMA SealingOpen ==
  ASSUME CaptureInv, \A t \in Tracks : ~Closed(t), UNCHANGED <<sources, journal, outbox, ledger>>,
         Steps' \subseteq AnyStep, \A x \in Steps' : x \notin About("seal"),
         Has("publish", Mic)' => \A t \in Tracks : Has("seal", t)'
  PROVE  Sealing'
<1>1. Types /\ Sealing
  BY DEF CaptureInv
<1>2. Tracks' = Tracks /\ Mic \in Tracks
  BY <1>1 DEF Tracks, Types, Both
<1>3. Seals' \subseteq Seals
  BY SealsKept
<1>4. Seals = {}
  BY <1>1, <1>2 DEF Sealing
<1>5. ~Sealed'
  BY <1>3, <1>4 DEF Seals, SentSeals, Sealed, Events
<1>6. \A t \in Tracks : Closed(t)' = Closed(t)
  BY DEF Closed
<1> QED BY <1>2, <1>3, <1>4, <1>5, <1>6 DEF Sealing

(* Directions, as long as no boundary is under way                         *)
LEMMA DirectionsCalm ==
  ASSUME CaptureInv, UNCHANGED <<sources, journal, outbox, ledger, vad, epoch>>, Live, Live',
         \A x \in Steps : Calm(x), \A x \in Steps' : Calm(x), Steps \subseteq AnyStep,
         Steps' \subseteq AnyStep,
         Has("changeDirection", Mic)' /\ ~Has("checkpoint", Mic)' =>
           journal[Mic].active = None /\ journal[Mic].classified = vad[Mic].cursor
  PROVE  Direction1' /\ Direction2'
<1>1. Types /\ Direction1 /\ Direction2
  BY DEF CaptureInv
<1>2. Tracks' = Tracks /\ Dual' = Dual /\ Mic \in Tracks
  BY <1>1 DEF Tracks, Dual, Types, Both
<1>3. Noted' = Noted /\ Sent' = Sent /\ InLedger' = InLedger /\ ~Over /\ ~Over'
      /\ phase # "recovering"
  BY DEF Noted, Sent, InLedger, Over, Live
<1>4. \A x \in Steps : x.do \notin DirectionKinds /\ ~BoundaryAbout(x)
  BY DEF Calm, About, BoundaryAbout
<1>5. \A x \in Steps' : x.do \notin DirectionKinds /\ ~BoundaryAbout(x)
  BY DEF Calm, About, BoundaryAbout
<1>6. ~Has("replayDirections", Mic) /\ ~Has("replayDirections", Mic)'
  BY <1>4, <1>5 DEF Has, DirectionKinds
<1>7. Direction1'
  BY <1>1, <1>2, <1>3, <1>5, <1>6 DEF Direction1, DirectionKinds
<1>8. \A b \in Sent : b \in Noted
  BY <1>1, <1>3, <1>4 DEF Direction2, DirectionKinds
<1>9. \A b \in Noted : b.about.epoch <= epoch
  BY <1>1, <1>3, <1>4, <1>6 DEF Direction2, DirectionKinds
<1>10. \A t \in Tracks : Cut(t)' = Cut(t)
  BY DEF Cut
<1> QED BY <1>1, <1>2, <1>3, <1>7, <1>8, <1>9, <1>10 DEF Direction2

(* A turn that writes nothing                                              *)
LEMMA ProgramTurn ==
  ASSUME CaptureInv,
         UNCHANGED <<sources, recording, journal, outbox, ledger, vad, epoch, queue, run>>,
         todo' \in Seq(AnyStep), Ordered(todo'), FlushedFirst',
         \A x \in Steps' : x \in AnyStep /\ x.track \in Tracks,
         Live, Live', phase' \in Phases, Shape', Fresh',
         \A x \in Steps : x.do \notin {"close", "closing", "push", "recoverTail", "skip", "append"},
         \A x \in Steps' : x.do \notin {"close", "closing", "push", "recoverTail", "skip"},
         \A t \in Tracks : Clock(t)', Sealing', Direction1', Direction2'
  PROVE  CaptureInv'
<1>1. Types
  BY DEF CaptureInv
<1>2. Tracks' = Tracks
  BY DEF Tracks
<1>3. Types'
  BY <1>1, <1>2 DEF Types
<1>4. ~Over /\ ~Over' /\ phase \notin {"failed", "down", "recovering"}
  BY DEF Live, Over
<1>5. ASSUME NEW t \in Tracks
      PROVE  Pieces(t)' /\ Disk(t)' /\ Cover(t)' /\ Announced(t)'
  <2>1. Pieces(t) /\ Disk(t) /\ Cover(t) /\ Announced(t)
    BY DEF CaptureInv
  <2>2. /\ Cut(t)' = Cut(t) /\ From(t)' = From(t) /\ Low(t)' = Low(t) /\ Closed(t)' = Closed(t)
    BY DEF Cut, From, Low, Closed
  <2>3. \A u : Behind(t, u)' <=> Behind(t, u)
    BY <2>2 DEF Behind
  <2>4. Pending(t) = {}
    BY DEF Pending
  <2>5. Pending(t)' = {}
    BY DEF Pending
  <2>6. ~Has("push", t) /\ ~Has("recoverTail", t) /\ ~Has("skip", t)
    BY DEF Has
  <2>7. Pieces(t)'
    BY <2>5 DEF Pieces
  <2>8. Disk(t)'
    BY <2>1, <2>2, <2>3, <2>6 DEF Disk
  <2>9. Cover(t)'
    BY <1>4, <2>1, <2>2, <2>4, <2>6 DEF Cover
  <2>10. Announced(t)'
    BY <1>4, <2>1, <2>2 DEF Announced, GapAbout
  <2> QED BY <2>7, <2>8, <2>9, <2>10
<1> QED BY <1>2, <1>3, <1>5 DEF CaptureInv, Program

(* A new list                                                              *)
LEMMA NewList ==
  ASSUME NEW N, Chain(todo', N)
  PROVE  /\ todo' \in Seq(AnyStep) /\ Steps' = N /\ Ordered(todo') /\ FlushedFirst'
<1>1. todo' \in Seq(AnyStep) /\ In(todo') = N /\ Ordered(todo') /\ Adjacent(todo')
      /\ (todo' # <<>> => todo'[1].do # "seal")
  BY DEF Chain
<1>2. Steps' = N
  BY <1>1 DEF Steps
<1>3. todo' # <<>> => Head(todo') = todo'[1]
  BY <1>1, SplitList
<1> QED BY <1>1, <1>2, <1>3 DEF FlushedFirst, Doing

(* The tracks: the microphone is one of them.                              *)
LEMMA TheTracks ==
  ASSUME Types
  PROVE  /\ Mic \in Tracks /\ Mic \in Both /\ System \in Both /\ Mic # System
         /\ Dual => Tracks = Both
         /\ ~Dual => Tracks = {Mic}
BY CaptureAssumption DEF Types, Tracks, Dual, Both

(* The top of the loop                                                     *)
LEMMA LoopTurnKept == CaptureInv /\ LoopTurn => CaptureInv'
<1> SUFFICES ASSUME CaptureInv, LoopTurn PROVE CaptureInv'
  OBVIOUS
<1>1. /\ phase = "live" /\ phase' = "live" /\ todo = <<>> /\ todo' = Turn
      /\ UNCHANGED <<sources, recording, journal, outbox, ledger, vad, epoch, queue, run>>
  BY DEF LoopTurn, disk, memory
<1>2. Types /\ Program /\ Sealing
  BY DEF CaptureInv
<1>3. /\ Mic \in Tracks /\ Mic \in Both /\ System \in Both /\ Mic # System
      /\ (Dual => Tracks = Both) /\ (~Dual => Tracks = {Mic})
  BY <1>2, TheTracks
<1>4. PICK a, b, c, d : /\ a = Step("hear", System) /\ b = Step("hear", Mic) /\ c = Step("pump", Mic)
                        /\ d = Step("direction", Mic)
  OBVIOUS
<1>5. /\ a \in AnyStep /\ b \in AnyStep /\ c \in AnyStep /\ d \in AnyStep
      /\ a.do = "hear" /\ a.track = System /\ b.do = "hear" /\ b.track = Mic
      /\ c.do = "pump" /\ c.track = Mic /\ d.do = "direction" /\ d.track = Mic
  BY <1>3, <1>4, StepTyped, PlainIs DEF PlainKinds
<1>6. \E N : /\ Chain(todo', N)
             /\ \A x \in N : /\ x \in AnyStep /\ x.track \in Tracks
                             /\ x.do \in {"hear", "pump", "direction"}
                             /\ Dual => x.do # "direction"
  <2>1. CASE Dual
    <3>1. Chain(<<a, b, c>>, {a, b, c})
      <4>1. May(a, b) /\ May(a, c) /\ May(b, c)
        BY <1>3, <1>5 DEF May, GapAbout, BoundaryAbout
      <4> QED BY <1>5, <4>1, ChainOfThree
    <3> QED BY <1>1, <1>3, <1>4, <1>5, <2>1, <3>1 DEF Turn
  <2>2. CASE ~Dual
    <3>1. Chain(<<b, c, d>>, {b, c, d})
      <4>1. May(b, c) /\ May(b, d) /\ May(c, d)
        BY <1>3, <1>5 DEF May, GapAbout, BoundaryAbout
      <4> QED BY <1>5, <4>1, ChainOfThree
    <3> QED BY <1>1, <1>3, <1>4, <1>5, <2>2, <3>1 DEF Turn
  <2> QED BY <2>1, <2>2
<1>7. PICK N : /\ Chain(todo', N)
               /\ \A x \in N : /\ x \in AnyStep /\ x.track \in Tracks
                               /\ x.do \in {"hear", "pump", "direction"}
                               /\ Dual => x.do # "direction"
  BY <1>6
<1>8. /\ todo' \in Seq(AnyStep) /\ Steps' = N /\ Ordered(todo') /\ FlushedFirst'
  BY <1>7, NewList
<1>9. Steps = {}
  BY <1>1, NoSteps DEF Steps
<1>10. Live /\ Live' /\ phase' \in Phases
  BY <1>1 DEF Live, Phases
<1>11. \A k, t : k \notin {"hear", "pump", "direction"} => ~Has(k, t)'
  BY <1>7, <1>8 DEF Has
<1>12. Shape'
  <2>1. \A x \in Steps' : Fits(phase', x.do)
    BY <1>1, <1>7, <1>8 DEF Fits
  <2>2. Dual' = Dual
    BY <1>1 DEF Dual
  <2> QED BY <1>7, <1>8, <1>11, <2>1, <2>2 DEF Shape
<1>13. Fresh'
  BY <1>1 DEF Fresh
<1>14. ASSUME NEW t \in Tracks PROVE Clock(t)'
  <2>1. Clock(t)
    BY DEF CaptureInv
  <2>2. /\ \A x \in Steps : x.track = t => x.do \notin {"advance", "noteGap", "skip", "push", "record"}
        /\ \A x \in Steps' : x.track = t => x.do \notin {"advance", "noteGap", "skip", "push", "record"}
    BY <1>7, <1>8, <1>9
  <2> QED BY <1>1, <1>2, <1>10, <1>11, <2>1, <2>2, ClockCalm
<1>15. \A t \in Tracks : ~Closed(t)
  BY <1>1, <1>2 DEF Sealing
<1>16. Sealing'
  <2>1. \A x \in Steps' : x \notin About("seal")
    BY <1>7, <1>8 DEF About
  <2> QED BY <1>1, <1>7, <1>8, <1>11, <1>15, <2>1, SealingOpen
<1>17. Direction1' /\ Direction2'
  <2>1. \A x \in Steps' : Calm(x)
    BY <1>7, <1>8 DEF Calm, About, DirectionKinds
  <2>2. Steps' \subseteq AnyStep
    BY <1>7, <1>8
  <2> QED BY <1>1, <1>9, <1>10, <1>11, <2>1, <2>2, DirectionsCalm
<1> QED BY <1>1, <1>7, <1>8, <1>9, <1>10, <1>12, <1>13, <1>14, <1>16, <1>17, ProgramTurn

----------------------------------------------------------------------------
(* The end of the loop                                                     *)

(* Asking the capture loop to stop keeps it.                               *)
LEMMA StopLoopKept == CaptureInv /\ StopLoop => CaptureInv'
<1> SUFFICES ASSUME CaptureInv, StopLoop PROVE CaptureInv'
  OBVIOUS
<1>1. /\ phase = "live" /\ phase' = "closing" /\ todo = <<>>
      /\ todo' = IF Dual THEN <<Step("hear", System), Step("hear", Mic), Step("last", Mic)>>
                 ELSE <<Step("tail", Mic), Step("last", Mic)>>
      /\ UNCHANGED <<sources, recording, journal, outbox, ledger, vad, epoch, queue, run>>
  BY DEF StopLoop, disk, memory
<1>2. Types /\ Program /\ Sealing
  BY DEF CaptureInv
<1>3. /\ Mic \in Tracks /\ Mic \in Both /\ System \in Both /\ Mic # System
      /\ (Dual => Tracks = Both) /\ (~Dual => Tracks = {Mic})
  BY <1>2, TheTracks
<1>4. PICK a, b, c, d : /\ a = Step("hear", System) /\ b = Step("hear", Mic) /\ c = Step("last", Mic)
                        /\ d = Step("tail", Mic)
  OBVIOUS
<1>5. /\ a \in AnyStep /\ b \in AnyStep /\ c \in AnyStep /\ d \in AnyStep
      /\ a.do = "hear" /\ a.track = System /\ b.do = "hear" /\ b.track = Mic
      /\ c.do = "last" /\ c.track = Mic /\ d.do = "tail" /\ d.track = Mic
  BY <1>3, <1>4, StepTyped, PlainIs DEF PlainKinds
<1>6. \E N : /\ Chain(todo', N)
             /\ \A x \in N : /\ x \in AnyStep /\ x.track \in Tracks
                             /\ x.do \in {"hear", "tail", "last"}
  <2>1. CASE Dual
    <3>1. Chain(<<a, b, c>>, {a, b, c})
      <4>1. May(a, b) /\ May(a, c) /\ May(b, c)
        BY <1>3, <1>5 DEF May, GapAbout, BoundaryAbout
      <4> QED BY <1>5, <4>1, ChainOfThree
    <3> QED BY <1>1, <1>3, <1>4, <1>5, <2>1, <3>1
  <2>2. CASE ~Dual
    <3>1. Chain(<<d, c>>, {d, c})
      <4>1. May(d, c)
        BY <1>3, <1>5 DEF May, GapAbout, BoundaryAbout
      <4> QED BY <1>5, <4>1, ChainOfTwo
    <3> QED BY <1>1, <1>3, <1>4, <1>5, <2>2, <3>1
  <2> QED BY <2>1, <2>2
<1>7. PICK N : /\ Chain(todo', N)
               /\ \A x \in N : /\ x \in AnyStep /\ x.track \in Tracks
                               /\ x.do \in {"hear", "tail", "last"}
  BY <1>6
<1>8. /\ todo' \in Seq(AnyStep) /\ Steps' = N /\ Ordered(todo') /\ FlushedFirst'
  BY <1>7, NewList
<1>9. Steps = {}
  BY <1>1, NoSteps DEF Steps
<1>10. Live /\ Live' /\ phase' \in Phases
  BY <1>1 DEF Live, Phases
<1>11. \A k, t : k \notin {"hear", "tail", "last"} => ~Has(k, t)'
  BY <1>7, <1>8 DEF Has
<1>12. Shape'
  <2>1. \A x \in Steps' : Fits(phase', x.do)
    BY <1>1, <1>7, <1>8 DEF Fits
  <2> QED BY <1>7, <1>8, <1>11, <2>1 DEF Shape
<1>13. Fresh'
  BY <1>1 DEF Fresh
<1>14. ASSUME NEW t \in Tracks PROVE Clock(t)'
  <2>1. Clock(t)
    BY DEF CaptureInv
  <2>2. /\ \A x \in Steps : x.track = t => x.do \notin {"advance", "noteGap", "skip", "push", "record"}
        /\ \A x \in Steps' : x.track = t => x.do \notin {"advance", "noteGap", "skip", "push", "record"}
    BY <1>7, <1>8, <1>9
  <2> QED BY <1>1, <1>2, <1>10, <1>11, <2>1, <2>2, ClockCalm
<1>15. \A t \in Tracks : ~Closed(t)
  BY <1>1, <1>2 DEF Sealing
<1>16. Sealing'
  <2>1. \A x \in Steps' : x \notin About("seal")
    BY <1>7, <1>8 DEF About
  <2> QED BY <1>1, <1>7, <1>8, <1>11, <1>15, <2>1, SealingOpen
<1>17. Direction1' /\ Direction2'
  <2>1. \A x \in Steps' : Calm(x)
    BY <1>7, <1>8 DEF Calm, About, DirectionKinds
  <2>2. Steps' \subseteq AnyStep
    BY <1>7, <1>8
  <2> QED BY <1>1, <1>9, <1>10, <1>11, <2>1, <2>2, DirectionsCalm
<1> QED BY <1>1, <1>7, <1>8, <1>9, <1>10, <1>12, <1>13, <1>14, <1>16, <1>17, ProgramTurn

(* Lists of four and six steps                                             *)
LEMMA ChainOfFour ==
  ASSUME NEW a \in AnyStep, NEW b \in AnyStep, NEW c \in AnyStep, NEW d \in AnyStep,
         a.do # "seal", b.do # "seal", c.do # "seal", d.do # "seal",
         May(a, b), May(a, c), May(a, d), May(b, c), May(b, d), May(c, d)
  PROVE  Chain(<<a, b, c, d>>, {a, b, c, d})
<1>1. <<a, b, c, d>> \in Seq(AnyStep) /\ In(<<a, b, c, d>>) = {a, b, c, d}
  BY DEF In
<1>2. Ordered(<<a, b, c, d>>)
  BY DEF Ordered
<1>3. Adjacent(<<a, b, c, d>>)
  BY DEF Adjacent
<1> QED BY <1>1, <1>2, <1>3 DEF Chain

(* And so do six.                                                          *)
LEMMA ChainOfSix ==
  ASSUME NEW a \in AnyStep, NEW b \in AnyStep, NEW c \in AnyStep, NEW d \in AnyStep, NEW e \in AnyStep, NEW f \in AnyStep,
         a.do # "seal", b.do # "seal", c.do # "seal", d.do # "seal", e.do # "seal", f.do # "seal",
         May(a, b), May(a, c), May(a, d), May(a, e), May(a, f), May(b, c), May(b, d), May(b, e),
         May(b, f), May(c, d), May(c, e), May(c, f), May(d, e), May(d, f), May(e, f)
  PROVE  Chain(<<a, b, c, d, e, f>>, {a, b, c, d, e, f})
<1>1. <<a, b, c, d, e, f>> \in Seq(AnyStep) /\ In(<<a, b, c, d, e, f>>) = {a, b, c, d, e, f}
  BY DEF In
<1>2. Ordered(<<a, b, c, d, e, f>>)
  BY DEF Ordered
<1>3. Adjacent(<<a, b, c, d, e, f>>)
  BY DEF Adjacent
<1> QED BY <1>1, <1>2, <1>3 DEF Chain

(* The last turn of the segmenter, for two tracks                          *)
LEMMA LastPair ==
  ASSUME NEW end \in Nat
  PROVE  \E N \in SUBSET AnyStep :
           /\ Chain(<<StepFor("gapTo", Mic, end), StepFor("gapTo", System, end),
                      Step("finish", Mic), Step("checkpoint", Mic),
                      Step("finish", System), Step("checkpoint", System)>>, N)
           /\ \A x \in N : x.do \in {"gapTo", "finish", "checkpoint"} /\ x.track \in Both
                           /\ (x.do = "gapTo" => x.with = end)
           /\ \A t \in Both : \E x \in N : x.do = "finish" /\ x.track = t
<1>1. Mic \in Both /\ System \in Both /\ Mic # System
  BY CaptureAssumption DEF Both
<1>2. PICK a, b, c, d, e, f :
        /\ a = StepFor("gapTo", Mic, end) /\ b = StepFor("gapTo", System, end)
        /\ c = Step("finish", Mic) /\ d = Step("checkpoint", Mic)
        /\ e = Step("finish", System) /\ f = Step("checkpoint", System)
  OBVIOUS
<1>3. a \in AnyStep /\ b \in AnyStep /\ a.do = "gapTo" /\ a.track = Mic /\ a.with = end
      /\ b.do = "gapTo" /\ b.track = System /\ b.with = end
  BY <1>1, <1>2, StepTyped, StepForIs
<1>4. c \in AnyStep /\ d \in AnyStep /\ e \in AnyStep /\ f \in AnyStep
      /\ c.do = "finish" /\ c.track = Mic /\ d.do = "checkpoint" /\ d.track = Mic
      /\ e.do = "finish" /\ e.track = System /\ f.do = "checkpoint" /\ f.track = System
  BY <1>1, <1>2, StepTyped, PlainIs DEF PlainKinds
<1>5. May(a, b) /\ May(a, c) /\ May(a, d) /\ May(a, e) /\ May(a, f)
  BY <1>1, <1>3, <1>4 DEF May, GapAbout, BoundaryAbout
<1>6. May(b, c) /\ May(b, d) /\ May(b, e) /\ May(b, f)
  BY <1>1, <1>3, <1>4 DEF May, GapAbout, BoundaryAbout
<1>7. May(c, d) /\ May(c, e) /\ May(c, f) /\ May(d, e) /\ May(d, f) /\ May(e, f)
  BY <1>1, <1>4 DEF May, GapAbout, BoundaryAbout
<1>11. Chain(<<a, b, c, d, e, f>>, {a, b, c, d, e, f})
  BY <1>3, <1>4, <1>5, <1>6, <1>7, ChainOfSix
<1>13. PICK N \in SUBSET AnyStep : N = {a, b, c, d, e, f}
  BY <1>3, <1>4
<1>14. Chain(<<a, b, c, d, e, f>>, N)
  BY <1>11, <1>13
<1>15. \A x \in N : x.do \in {"gapTo", "finish", "checkpoint"} /\ x.track \in Both
                    /\ (x.do = "gapTo" => x.with = end)
  BY <1>1, <1>3, <1>4, <1>13
<1>16. \A t \in Both : \E x \in N : x.do = "finish" /\ x.track = t
  BY <1>4, <1>13 DEF Both
<1> QED BY <1>2, <1>14, <1>15, <1>16

(* Both tracks end where the longer one does.                              *)
LEMMA LongestTrack ==
  ASSUME Types
  PROVE  /\ Max({journal[t].final : t \in Tracks}) \in Nat
         /\ \A t \in Tracks : journal[t].final <= Max({journal[t2].final : t2 \in Tracks})
<1>1. Mic \in Tracks /\ Tracks \subseteq Both
  BY TheTracks DEF Types, Tracks, Both
<1>2. \A t \in Tracks : journal[t].final \in Nat
  BY TypedTrack
<1>3. PICK T : T = {journal[t].final : t \in Tracks}
  OBVIOUS
<1>4. T \subseteq Nat /\ T # {}
  BY <1>1, <1>2, <1>3
<1>5. \E b \in Nat : \A n \in T : n <= b
  <2>1. CASE System \in Tracks
    <3>1. journal[Mic].final + journal[System].final \in Nat
      BY <1>1, <1>2, <2>1
    <3>2. \A n \in T : n <= journal[Mic].final + journal[System].final
      BY <1>1, <1>2, <1>3, <2>1 DEF Both
    <3> QED BY <3>1, <3>2
  <2>2. CASE System \notin Tracks
    BY <1>1, <1>2, <1>3, <2>2 DEF Both
  <2> QED BY <2>1, <2>2
<1>6. Max(T) \in T /\ \A m \in T : m <= Max(T)
  BY <1>4, <1>5, GreatestNatural
<1> QED BY <1>2, <1>3, <1>4, <1>6

(* The last turn and the seal                                              *)
LEMMA LastTurnChain ==
  ASSUME Types
  PROVE  \E N : /\ Chain(LastTurn, N)
                /\ \A x \in N :
                     /\ x \in AnyStep /\ x.track \in Tracks
                     /\ x.do \in {"gapTo", "finish", "checkpoint", "flushAll", "seal", "publish"}
                     /\ x.do = "gapTo" => x.with >= journal[x.track].final
                /\ \A t \in Tracks : \E x \in N : x.do = "finish" /\ x.track = t
                /\ \A t \in Tracks : \E x \in N : x.do = "seal" /\ x.track = t
<1>1. /\ Mic \in Tracks /\ Mic \in Both /\ System \in Both /\ Mic # System
      /\ (Dual => Tracks = Both) /\ (~Dual => Tracks = {Mic})
  BY TheTracks
<1>2. /\ Chain(SealSteps, SealSet)
      /\ \A x \in SealSet : /\ x \in AnyStep /\ x.track \in Tracks
                            /\ x.do \in {"flushAll", "seal", "publish"}
                            /\ x.do = "publish" => x.track = Mic
      /\ \A t \in Tracks : \E x \in SealSet : x.do = "seal" /\ x.track = t
  BY SealStepsChain
<1>3. PICK end \in Nat : /\ end = Max({journal[t].final : t \in Tracks})
                         /\ \A t \in Tracks : journal[t].final <= end
  BY LongestTrack
<1>4. CASE Dual
  <2>0. PICK s : s = <<StepFor("gapTo", Mic, end), StepFor("gapTo", System, end),
                      Step("finish", Mic), Step("checkpoint", Mic),
                      Step("finish", System), Step("checkpoint", System)>>
    OBVIOUS
  <2>1. PICK N \in SUBSET AnyStep :
           /\ s = <<StepFor("gapTo", Mic, end), StepFor("gapTo", System, end),
                      Step("finish", Mic), Step("checkpoint", Mic),
                      Step("finish", System), Step("checkpoint", System)>>
           /\ Chain(s, N)
           /\ \A x \in N : x.do \in {"gapTo", "finish", "checkpoint"} /\ x.track \in Both
                           /\ (x.do = "gapTo" => x.with = end)
           /\ \A t \in Both : \E x \in N : x.do = "finish" /\ x.track = t
    BY <2>0, LastPair
  <2>2. LastTurn = s \o SealSteps
    BY <1>3, <1>4, <2>1 DEF LastTurn
  <2>3. \A x \in N, y \in SealSet : May(x, y)
    BY <1>2, <2>1 DEF May, GapAbout, BoundaryAbout
  <2>4. Chain(LastTurn, N \cup SealSet)
    BY <1>2, <2>1, <2>2, <2>3, ChainJoin
  <2>5. \A x \in N : x \in AnyStep /\ x.track \in Tracks
                     /\ (x.do = "gapTo" => x.with >= journal[x.track].final)
    BY <1>1, <1>3, <1>4, <2>1, TypedTrack
  <2>6. \A t \in Tracks : \E x \in N \cup SealSet : x.do = "finish" /\ x.track = t
    BY <1>1, <1>4, <2>1
  <2>7. \A x \in N \cup SealSet :
          /\ x \in AnyStep /\ x.track \in Tracks
          /\ x.do \in {"gapTo", "finish", "checkpoint", "flushAll", "seal", "publish"}
          /\ x.do = "gapTo" => x.with >= journal[x.track].final
    BY <1>2, <2>1, <2>5
  <2> QED BY <1>2, <2>4, <2>6, <2>7
<1>5. CASE ~Dual
  <2>1. PICK f : f = Step("finish", Mic)
    OBVIOUS
  <2>2. f \in AnyStep /\ f.do = "finish" /\ f.track = Mic
    BY <1>1, <2>1, StepTyped, PlainIs DEF PlainKinds
  <2>3. Chain(<<f>>, {f})
    BY <2>2, ChainOfOne
  <2>4. \A x \in {f}, y \in SealSet : May(x, y)
    BY <1>2, <2>2 DEF May, GapAbout, BoundaryAbout
  <2>5. Chain(LastTurn, {f} \cup SealSet)
    <3>1. LastTurn = <<f>> \o SealSteps
      BY <1>5, <2>1 DEF LastTurn
    <3> QED BY <1>2, <2>3, <2>4, <3>1, ChainJoin
  <2>6. \A x \in {f} \cup SealSet :
          /\ x \in AnyStep /\ x.track \in Tracks
          /\ x.do \in {"gapTo", "finish", "checkpoint", "flushAll", "seal", "publish"}
          /\ x.do = "gapTo" => x.with >= journal[x.track].final
    BY <1>1, <1>2, <2>2
  <2>7. \A t \in Tracks : \E x \in {f} \cup SealSet : x.do = "finish" /\ x.track = t
    BY <1>1, <1>5, <2>2
  <2> QED BY <1>2, <2>5, <2>6, <2>7
<1> QED BY <1>4, <1>5

(* The last turn of the loop keeps it.                                     *)
LEMMA FinalTurnKept == CaptureInv /\ FinalTurn => CaptureInv'
<1> SUFFICES ASSUME CaptureInv, FinalTurn PROVE CaptureInv'
  OBVIOUS
<1>1. /\ todo # <<>> /\ Head(todo).do = "last" /\ Then(LastTurn)
      /\ UNCHANGED <<sources, recording, journal, outbox, ledger, phase, vad, epoch, queue, run>>
  BY DEF FinalTurn, Doing, disk, memory
<1>2. Types /\ Program /\ Sealing
  BY DEF CaptureInv
<1>3. /\ Tail(todo) = <<>> /\ Steps = {Head(todo)} /\ Head(todo) \in AnyStep
      /\ Head(todo).track \in Tracks /\ Fits(phase, Head(todo).do)
  BY <1>1, LastStep
<1>4. phase = "closing"
  BY <1>1, <1>3 DEF Fits, CloseKinds, ReplayKinds
<1>5. PICK N : /\ Chain(LastTurn, N)
               /\ \A x \in N :
                    /\ x \in AnyStep /\ x.track \in Tracks
                    /\ x.do \in {"gapTo", "finish", "checkpoint", "flushAll", "seal", "publish"}
                    /\ x.do = "gapTo" => x.with >= journal[x.track].final
               /\ \A t \in Tracks : \E x \in N : x.do = "finish" /\ x.track = t
               /\ \A t \in Tracks : \E x \in N : x.do = "seal" /\ x.track = t
  BY <1>2, LastTurnChain
<1>6. todo' = LastTurn
  <2>1. LastTurn \in Seq(AnyStep)
    BY <1>5 DEF Chain
  <2> QED BY <1>1, <1>3, <2>1, OnlySteps
<1>8. /\ todo' \in Seq(AnyStep) /\ Steps' = N /\ Ordered(todo') /\ FlushedFirst'
  BY <1>5, <1>6, NewList
<1>10. Live /\ Live' /\ phase' \in Phases
  BY <1>1, <1>4 DEF Live, Phases
<1>11. \A k, t : k \notin {"gapTo", "finish", "checkpoint", "flushAll", "seal", "publish"} => ~Has(k, t)'
  BY <1>5, <1>8 DEF Has
<1>12. Shape'
  <2>1. \A x \in Steps' : Fits(phase', x.do)
    BY <1>1, <1>4, <1>5, <1>8 DEF Fits
  <2> QED BY <1>1, <1>5, <1>8, <1>11, <2>1 DEF Shape
<1>13. Fresh'
  BY <1>1, <1>4 DEF Fresh
<1>14. ASSUME NEW t \in Tracks PROVE Clock(t)'
  <2>1. Clock(t)
    BY DEF CaptureInv
  <2>2. /\ \A x \in Steps : x.track = t => x.do \notin {"advance", "noteGap", "skip", "push", "record"}
        /\ \A x \in Steps' : x.track = t => x.do \notin {"advance", "noteGap", "skip", "push", "record"}
    BY <1>1, <1>3, <1>5, <1>8
  <2>3. Has("finish", t)'
    BY <1>5, <1>8 DEF Has
  <2> QED BY <1>1, <1>2, <1>10, <1>11, <2>1, <2>2, <2>3, ClockCalm
<1>15. \A t \in Tracks : ~Closed(t)
  BY <1>1, <1>2, <1>3 DEF Sealing
<1>16. Sealing'
  <2>1. \A x \in Steps' : x \notin About("seal")
    BY <1>5, <1>8 DEF About
  <2>2. \A t \in Tracks : Has("seal", t)'
    BY <1>5, <1>8 DEF Has
  <2> QED BY <1>1, <1>5, <1>8, <1>15, <2>1, <2>2, SealingOpen
<1>17. Direction1' /\ Direction2'
  <2>1. \A x \in Steps' : Calm(x)
    BY <1>5, <1>8 DEF Calm, About, DirectionKinds
  <2>2. Steps' \subseteq AnyStep /\ Steps \subseteq AnyStep
    BY <1>3, <1>5, <1>8
  <2>3. \A x \in Steps : Calm(x)
    BY <1>1, <1>3 DEF Calm, About, DirectionKinds
  <2> QED BY <1>1, <1>10, <1>11, <2>1, <2>2, <2>3, DirectionsCalm
<1> QED BY <1>1, <1>3, <1>5, <1>8, <1>10, <1>12, <1>13, <1>14, <1>16, <1>17, ProgramTurn

----------------------------------------------------------------------------
(* A change of direction                                                   *)

(* The loop looks whether the direction is to change.                      *)
LEMMA DirectionKept == CaptureInv /\ Direction => CaptureInv'
<1> SUFFICES ASSUME CaptureInv, Direction PROVE CaptureInv'
  OBVIOUS
<1>1. /\ todo # <<>> /\ Head(todo).do = "direction"
      /\ UNCHANGED <<sources, recording, journal, outbox, ledger, phase, vad, epoch, queue, run>>
  BY DEF Direction, Doing, disk, memory
<1>2. Types /\ Program /\ Sealing
  BY DEF CaptureInv
<1>3. /\ Tail(todo) = <<>> /\ Steps = {Head(todo)} /\ Head(todo) \in AnyStep
      /\ Head(todo).track \in Tracks /\ Fits(phase, Head(todo).do)
  BY <1>1, LastStep
<1>4. phase = "live"
  BY <1>1, <1>3 DEF Fits, CloseKinds, ReplayKinds
<1>5. Mic \in Tracks /\ Mic \in Both
  BY <1>2, TheTracks
<1>6. ~Dual /\ Dual' = Dual
  BY <1>1, <1>2, <1>3 DEF Program, Shape, Dual
<1>7. PICK a, b, c : /\ a = Step("finish", Mic) /\ b = Step("checkpoint", Mic)
                     /\ c = Step("changeDirection", Mic)
  OBVIOUS
<1>8. /\ a \in AnyStep /\ b \in AnyStep /\ c \in AnyStep
      /\ a.do = "finish" /\ a.track = Mic /\ b.do = "checkpoint" /\ b.track = Mic
      /\ c.do = "changeDirection" /\ c.track = Mic
  BY <1>5, <1>7, StepTyped, PlainIs DEF PlainKinds
<1>9. \E N : /\ Chain(todo', N) /\ \A x \in N : x \in {a, b, c}
             /\ N # {} => todo' = <<a, b, c>> /\ b \in N
  <2>1. CASE Then(<<>>)
    <3>1. todo' = <<>>
      BY <1>3, <2>1 DEF Then
    <3>2. Chain(todo', {})
      BY <3>1, ChainOfNone
    <3> QED BY <3>2
  <2>2. CASE Then(<<a, b, c>>)
    <3>1. todo' = <<a, b, c>>
      <4>1. <<a, b, c>> \in Seq(AnyStep)
        BY <1>8
      <4> QED BY <1>3, <2>2, <4>1, OnlySteps
    <3>2. May(a, b) /\ May(a, c) /\ May(b, c)
      BY <1>8 DEF May, GapAbout, BoundaryAbout, CloseKinds
    <3>3. Chain(<<a, b, c>>, {a, b, c})
      BY <1>8, <3>2, ChainOfThree
    <3> QED BY <3>1, <3>3
  <2>3. Then(<<>>) \/ Then(<<a, b, c>>)
    BY <1>7 DEF Direction
  <2> QED BY <2>1, <2>2, <2>3
<1>10. PICK N : /\ Chain(todo', N) /\ \A x \in N : x \in {a, b, c}
                /\ N # {} => todo' = <<a, b, c>> /\ b \in N
  BY <1>9
<1>11. /\ todo' \in Seq(AnyStep) /\ Steps' = N /\ Ordered(todo') /\ FlushedFirst'
  BY <1>10, NewList
<1>12. \A x \in Steps' : /\ x \in AnyStep /\ x.track \in Tracks /\ x.track = Mic
                         /\ x.do \in {"finish", "checkpoint", "changeDirection"}
  BY <1>5, <1>8, <1>10, <1>11
<1>13. Live /\ Live' /\ phase' \in Phases
  BY <1>1, <1>4 DEF Live, Phases
<1>14. \A k, t : k \notin {"finish", "checkpoint", "changeDirection"} => ~Has(k, t)'
  BY <1>12 DEF Has
<1>15. Shape'
  <2>1. \A x \in Steps' : Fits(phase', x.do)
    BY <1>1, <1>4, <1>12 DEF Fits
  <2> QED BY <1>6, <1>12, <1>14, <2>1 DEF Shape
<1>16. Fresh'
  BY <1>1, <1>4 DEF Fresh
<1>17. ASSUME NEW t \in Tracks PROVE Clock(t)'
  <2>1. Clock(t)
    BY DEF CaptureInv
  <2>2. /\ \A x \in Steps : x.track = t => x.do \notin {"advance", "noteGap", "skip", "push", "record"}
        /\ \A x \in Steps' : x.track = t => x.do \notin {"advance", "noteGap", "skip", "push", "record"}
    BY <1>1, <1>3, <1>12
  <2>3. Has("changeDirection", t)' => Head(todo').do = "finish" /\ Head(todo').track = t
    <3>1. ASSUME Has("changeDirection", t)' PROVE t = Mic /\ todo' = <<a, b, c>>
      BY <1>10, <1>11, <1>12, <3>1 DEF Has
    <3> QED BY <1>8, <3>1
  <2> QED BY <1>1, <1>2, <1>13, <1>14, <2>1, <2>2, <2>3, ClockCalm
<1>18. \A t \in Tracks : ~Closed(t)
  BY <1>2, <1>4 DEF Sealing
<1>19. Sealing'
  <2>1. \A x \in Steps' : x \notin About("seal")
    BY <1>12 DEF About
  <2> QED BY <1>1, <1>12, <1>14, <1>18, <2>1, SealingOpen
<1>20. Direction1' /\ Direction2'
  <2>1. \A x \in Steps' : Calm(x)
    BY <1>12 DEF Calm, About, DirectionKinds
  <2>2. Steps' \subseteq AnyStep /\ Steps \subseteq AnyStep
    BY <1>3, <1>12
  <2>3. \A x \in Steps : Calm(x)
    BY <1>1, <1>3 DEF Calm, About, DirectionKinds
  <2>4. Has("changeDirection", Mic)' => Has("checkpoint", Mic)'
    BY <1>8, <1>10, <1>11 DEF Has
  <2> QED BY <1>1, <1>13, <2>1, <2>2, <2>3, <2>4, DirectionsCalm
<1> QED BY <1>1, <1>3, <1>11, <1>12, <1>13, <1>15, <1>16, <1>17, <1>19, <1>20, ProgramTurn

(* The steps of a new boundary                                             *)
LEMMA BoundaryChain ==
  ASSUME NEW e \in BoundaryEvent
  PROVE  \E N : /\ Chain(BoundarySteps(e), N)
                /\ \A x \in N : /\ x \in AnyStep /\ x.track = Mic /\ x.with = e
                                /\ x.do \in {"append", "boundary", "flush", "inForce"}
                /\ \A k \in {"append", "boundary", "flush", "inForce"} : \E x \in N : x.do = k
<1>1. e \in AnyEvent /\ e.kind = "boundary" /\ Mic \in Both
  BY DEF AnyEvent, BoundaryEvent, Both
<1>2. PICK a, b, c, d : /\ a = StepFor("append", Mic, e) /\ b = StepFor("boundary", Mic, e)
                        /\ c = StepFor("flush", Mic, e) /\ d = StepFor("inForce", Mic, e)
  OBVIOUS
<1>3. /\ a.do = "append" /\ b.do = "boundary" /\ c.do = "flush" /\ d.do = "inForce"
      /\ a.track = Mic /\ b.track = Mic /\ c.track = Mic /\ d.track = Mic
      /\ a.with = e /\ b.with = e /\ c.with = e /\ d.with = e
  BY <1>2, StepForIs
<1>4. a \in AnyStep /\ b \in AnyStep /\ c \in AnyStep /\ d \in AnyStep
  BY <1>1, <1>2, StepTyped
<1>5. May(a, b) /\ May(a, c) /\ May(a, d) /\ May(b, c) /\ May(b, d) /\ May(c, d)
  BY <1>1, <1>3 DEF May, GapAbout, BoundaryAbout, CloseKinds
<1>6. Chain(<<a, b, c, d>>, {a, b, c, d})
  BY <1>3, <1>4, <1>5, ChainOfFour
<1>9. <<a, b, c, d>> = BoundarySteps(e)
  BY <1>2 DEF BoundarySteps
<1>10. \A x \in {a, b, c, d} :
         /\ x \in AnyStep /\ x.track = Mic /\ x.with = e
         /\ x.do \in {"append", "boundary", "flush", "inForce"}
  BY <1>3, <1>4
<1>11. \A k \in {"append", "boundary", "flush", "inForce"} : \E x \in {a, b, c, d} : x.do = k
  BY <1>3
<1> QED BY <1>6, <1>9, <1>10, <1>11

(* The direction changes: a boundary is made.                              *)
LEMMA ChangeDirectionKept == CaptureInv /\ ChangeDirection => CaptureInv'
<1> SUFFICES ASSUME CaptureInv, ChangeDirection PROVE CaptureInv'
  OBVIOUS
<1>1. /\ todo # <<>> /\ Head(todo).do = "changeDirection"
      /\ UNCHANGED <<sources, recording, journal, outbox, ledger, phase, vad, epoch, queue, run>>
  BY DEF ChangeDirection, Doing, disk, memory
<1>2. Types /\ Program /\ Sealing /\ Direction1 /\ Direction2
  BY DEF CaptureInv
<1>3. /\ Tail(todo) = <<>> /\ Steps = {Head(todo)} /\ Head(todo) \in AnyStep
      /\ Head(todo).track \in Tracks /\ Fits(phase, Head(todo).do)
  BY <1>1, LastStep
<1>4. phase = "live"
  BY <1>1, <1>3 DEF Fits, CloseKinds, ReplayKinds
<1>5. Mic \in Tracks /\ Mic \in Both /\ (~Dual => Tracks = {Mic})
  BY <1>2, TheTracks
<1>6. ~Dual /\ Dual' = Dual /\ Tracks = {Mic} /\ Tracks' = Tracks
  BY <1>1, <1>2, <1>3, <1>5 DEF Program, Shape, Dual, Tracks
<1>7. PICK e : e = Event("boundary", [track |-> Mic, start |-> journal[Mic].final, epoch |-> epoch + 1])
  OBVIOUS
<1>8. epoch \in Nat \ {0} /\ epoch + 1 \in Nat \ {0} /\ journal[Mic].final \in Nat /\ run \in Nat
  BY <1>2, <1>5, TypedTrack DEF Types
<1>9. e \in BoundaryEvent /\ e.about.start = journal[Mic].final /\ e.about.epoch = epoch + 1
      /\ e.kind = "boundary"
  BY <1>7, <1>8 DEF BoundaryEvent, Event
<1>10. PICK N : /\ Chain(BoundarySteps(e), N)
                /\ \A x \in N : /\ x \in AnyStep /\ x.track = Mic /\ x.with = e
                                /\ x.do \in {"append", "boundary", "flush", "inForce"}
                /\ \A k \in {"append", "boundary", "flush", "inForce"} : \E x \in N : x.do = k
  BY <1>9, BoundaryChain
<1>11. todo' = BoundarySteps(e)
  <2>1. BoundarySteps(e) \in Seq(AnyStep)
    BY <1>10 DEF Chain
  <2>2. Then(BoundarySteps(e))
    BY <1>7 DEF ChangeDirection
  <2> QED BY <1>3, <2>1, <2>2, OnlySteps
<1>12. /\ todo' \in Seq(AnyStep) /\ Steps' = N /\ Ordered(todo') /\ FlushedFirst'
  BY <1>10, <1>11, NewList
<1>13. Live /\ Live' /\ phase' \in Phases /\ ~Over /\ ~Over'
  BY <1>1, <1>4 DEF Live, Phases, Over
<1>14. \A k, t : k \notin {"append", "boundary", "flush", "inForce"} => ~Has(k, t)'
  BY <1>10, <1>12 DEF Has
<1>15. Shape'
  <2>1. \A x \in Steps' : Fits(phase', x.do)
    BY <1>1, <1>4, <1>10, <1>12 DEF Fits, CloseKinds
  <2> QED BY <1>6, <1>10, <1>12, <1>14, <2>1 DEF Shape
<1>16. Fresh'
  BY <1>1, <1>4 DEF Fresh
<1>17. Clock(Mic) /\ Has("changeDirection", Mic) /\ ~Has("checkpoint", Mic) /\ ~Has("noteGap", Mic)
       /\ ~Has("skip", Mic) /\ ~Has("push", Mic)
  BY <1>1, <1>3, <1>5, <1>6 DEF CaptureInv, Has
<1>18. ASSUME NEW t \in Tracks PROVE Clock(t)'
  <2>1. Clock(t)
    BY DEF CaptureInv
  <2>2. /\ \A x \in Steps : x.track = t => x.do \notin {"advance", "noteGap", "skip", "push", "record"}
        /\ \A x \in Steps' : x.track = t => x.do \notin {"advance", "noteGap", "skip", "push", "record"}
    BY <1>1, <1>3, <1>10, <1>12
  <2> QED BY <1>1, <1>2, <1>13, <1>14, <2>1, <2>2, ClockCalm
<1>19. \A t \in Tracks : ~Closed(t)
  BY <1>2, <1>4 DEF Sealing
<1>20. Sealing'
  <2>1. \A x \in Steps' : x \notin About("seal")
    BY <1>9, <1>10, <1>12 DEF About
  <2> QED BY <1>1, <1>10, <1>12, <1>14, <1>19, <2>1, SealingOpen
<1>21. /\ vad[Mic].active = None /\ vad[Mic].cursor = journal[Mic].final
       /\ journal[Mic].active = None /\ journal[Mic].classified = journal[Mic].final
  <2>1. vad[Mic].active = None
    BY <1>1, <1>17 DEF Clock
  <2>2. vad[Mic].cursor = journal[Mic].final
    BY <1>13, <1>17 DEF Clock
  <2>3. journal[Mic].active = None /\ journal[Mic].classified = vad[Mic].cursor
    BY <1>2, <1>17 DEF Direction1
  <2> QED BY <2>1, <2>2, <2>3
<1>22. Direction1'
  <2>1. Dual' => FALSE
    BY <1>6
  <2>2. \A t \in Tracks' : t # Mic => FALSE
    BY <1>6
  <2>3. \A x \in Steps' : /\ x.with = e /\ x.track = Mic
                          /\ x.do \in {"append", "boundary", "flush", "inForce"}
    BY <1>10, <1>12
  <2>4. \A k \in {"append", "boundary", "flush", "inForce"} :
          \E y \in Steps' : y.do = k /\ y.with = e /\ y.track = Mic
    BY <1>10, <1>12
  <2>5. \A x \in Steps' : BoundaryAbout(x) /\ x.do = "append" =>
          \E y \in Steps' : y.do = "boundary" /\ y.with = x.with
    BY <2>3, <2>4
  <2>6. \A x \in Steps' : x.do = "boundary" \/ BoundaryAbout(x) =>
          \E y \in Steps' : y.do = "inForce" /\ y.with = x.with
    BY <2>3, <2>4
  <2>7. epoch' <= e.about.epoch
    BY <1>1, <1>8, <1>9
  <2>8. \A x \in Steps' : x.do = "inForce" =>
          /\ x.with \in Noted' \/ \E y \in Steps' : y.do = "boundary" /\ y.with = x.with
          /\ \/ x.with \in ledger'
             \/ \E y \in Steps' : y.do \in {"flush", "resend"} /\ y.with = x.with /\ y.track = Mic
          /\ epoch' <= x.with.about.epoch
          /\ \A y \in Steps' : y.do = "replaying" =>
               \A c \in y.with : x.with.about.epoch <= c.about.epoch
    <3>1. \E y \in Steps' : y.do = "boundary" /\ y.with = e
      BY <2>4
    <3>2. \E y \in Steps' : y.do \in {"flush", "resend"} /\ y.with = e /\ y.track = Mic
      BY <2>4
    <3> QED BY <2>3, <2>7, <3>1, <3>2
  <2>9. \A x \in Steps' : x.do = "boundary" =>
          /\ phase' = "live"
          /\ x.with.about.start = journal'[Mic].final /\ vad'[Mic].cursor = journal'[Mic].final
          /\ journal'[Mic].classified = journal'[Mic].final
          /\ vad'[Mic].active = None /\ journal'[Mic].active = None
    BY <1>1, <1>4, <1>9, <1>21, <2>3
  <2> QED BY <1>14, <2>1, <2>2, <2>3, <2>5, <2>6, <2>8, <2>9 DEF Direction1
<1>23. Direction2'
  <2>1. Noted' = Noted /\ Sent' = Sent /\ InLedger' = InLedger /\ \A t \in Tracks : Cut(t)' = Cut(t)
    BY <1>1 DEF Noted, Sent, InLedger, Cut
  <2>2. \A x \in Steps : x.do = "changeDirection"
    BY <1>1, <1>3
  <2>3. \A b \in Sent : b \in Noted
    BY <1>2, <1>4, <1>13, <2>2 DEF Direction2
  <2>4. \A b \in Noted : b.about.epoch <= epoch
    BY <1>2, <1>13, <2>2 DEF Direction2, Has
  <2> QED BY <1>1, <1>2, <1>6, <2>1, <2>3, <2>4 DEF Direction2
<1>24. \A t \in Tracks : Pieces(t)' /\ Disk(t)' /\ Cover(t)' /\ Announced(t)'
  <2> SUFFICES ASSUME NEW t \in Tracks PROVE Pieces(t)' /\ Disk(t)' /\ Cover(t)' /\ Announced(t)'
    OBVIOUS
  <2>1. Pieces(t) /\ Disk(t) /\ Cover(t) /\ Announced(t)
    BY DEF CaptureInv
  <2>2. /\ Cut(t)' = Cut(t) /\ From(t)' = From(t) /\ Low(t)' = Low(t) /\ Closed(t)' = Closed(t)
    BY <1>1 DEF Cut, From, Low, Closed
  <2>3. \A u : Behind(t, u)' <=> Behind(t, u)
    BY <2>2 DEF Behind
  <2>4. Pending(t) = {} /\ Pending(t)' = {}
    BY <1>1, <1>3, <1>10, <1>12 DEF Pending
  <2>5. ~Has("push", t) /\ ~Has("recoverTail", t) /\ ~Has("skip", t)
    BY <1>1, <1>3 DEF Has
  <2>6. Pieces(t)'
    BY <1>10, <1>12, <2>4 DEF Pieces
  <2>7. Disk(t)'
    BY <1>1, <1>13, <2>1, <2>2, <2>3, <2>5 DEF Disk
  <2>8. Cover(t)'
    BY <1>1, <1>13, <2>1, <2>2, <2>4, <2>5 DEF Cover
  <2>9. Announced(t)'
    BY <1>1, <1>3, <1>4, <2>1, <2>2 DEF Announced, GapAbout
  <2> QED BY <2>6, <2>7, <2>8, <2>9
<1>25. Types'
  <2>1. \A x \in Steps' : x.track \in Tracks
    BY <1>5, <1>10, <1>12
  <2> QED BY <1>1, <1>2, <1>6, <1>12, <2>1 DEF Types
<1> QED BY <1>6, <1>12, <1>15, <1>16, <1>18, <1>20, <1>22, <1>23, <1>24, <1>25 DEF CaptureInv, Program

----------------------------------------------------------------------------
(* A callback                                                              *)

(* The steps a callback makes for a track                                  *)
TapeSteps(t, N) ==
  /\ \A x \in N : /\ x \in AnyStep /\ x.track = t
                  /\ x.do \in {"finish", "advance", "noteGap", "record", "push", "checkpoint"}
                  /\ x.do \in {"advance", "noteGap"} => x.with > 0
  /\ \A x, y \in N : x.do = "advance" /\ y.do = "noteGap" => x.with = y.with
  /\ (\E x \in N : x.do = "record") => \E x \in N : x.do = "push"
  /\ (\E x \in N : x.do = "advance") <=> \E x \in N : x.do = "noteGap"

(* The steps that write audio down after a gap are a chain.                *)
LEMMA GapChain ==
  ASSUME NEW t \in Both, NEW n \in Nat
  PROVE  \E N : /\ Chain(GapSteps(t, n), N)
                /\ TapeSteps(t, N)
                /\ \A x \in N : x.do \in {"finish", "advance", "noteGap"}
                /\ N = {} \/ (/\ GapSteps(t, n) # <<>> /\ Head(GapSteps(t, n)).do = "finish"
                              /\ Head(GapSteps(t, n)).track = t)
<1>1. CASE n = 0
  <2>1. GapSteps(t, n) = <<>>
    BY <1>1 DEF GapSteps
  <2>2. PICK N : N = {}
    OBVIOUS
  <2>3. Chain(GapSteps(t, n), N) /\ TapeSteps(t, N)
    BY <2>1, <2>2, ChainOfNone DEF TapeSteps
  <2> QED BY <2>2, <2>3
<1>2. CASE n # 0
  <2>1. PICK f, a, o : f = Step("finish", t) /\ a = StepFor("advance", t, n) /\ o = StepFor("noteGap", t, n)
    OBVIOUS
  <2>2. /\ f \in AnyStep /\ f.do = "finish" /\ f.track = t
        /\ a \in AnyStep /\ a.do = "advance" /\ a.track = t /\ a.with = n
        /\ o \in AnyStep /\ o.do = "noteGap" /\ o.track = t /\ o.with = n
    BY <2>1, StepTyped, PlainIs, StepForIs DEF PlainKinds
  <2>3. May(f, a) /\ May(f, o) /\ May(a, o)
    BY <2>2 DEF May, GapAbout, BoundaryAbout
  <2>4. Chain(<<f, a, o>>, {f, a, o})
    BY <2>2, <2>3, ChainOfThree
  <2>5. GapSteps(t, n) = <<f, a, o>>
    BY <1>2, <2>1 DEF GapSteps
  <2>6. TapeSteps(t, {f, a, o})
    <3>1. n > 0
      BY <1>2
    <3> QED BY <2>2, <3>1 DEF TapeSteps
  <2>7. <<f, a, o>> # <<>> /\ Head(<<f, a, o>>) = f
    OBVIOUS
  <2>8. \A x \in {f, a, o} : x.do \in {"finish", "advance", "noteGap"}
    BY <2>2
  <2> QED BY <2>2, <2>4, <2>5, <2>6, <2>7, <2>8
<1> QED BY <1>1, <1>2

(* The first of two lists                                                  *)
LEMMA HeadOfTwo ==
  ASSUME NEW a \in Seq(AnyStep), NEW b \in Seq(AnyStep), a # <<>>
  PROVE  a \o b # <<>> /\ Head(a \o b) = Head(a)
<1>1. Len(a) \in Nat \ {0} /\ Len(b) \in Nat /\ a \o b \in Seq(AnyStep)
      /\ Len(a \o b) = Len(a) + Len(b)
  BY EmptySeq, LenProperties, ConcatProperties
<1>2. (a \o b)[1] = a[1]
  BY <1>1, ConcatProperties
<1>3. a \o b # <<>>
  BY <1>1
<1> QED BY <1>1, <1>2, <1>3, SplitList

(* A gap and what comes after it                                           *)
LEMMA TapeChain ==
  ASSUME NEW t \in Both, NEW n \in Nat, NEW list, NEW M, Chain(list, M), TapeSteps(t, M),
         \A x \in M : x.do \in {"record", "push", "checkpoint"}
  PROVE  \E N \in SUBSET AnyStep :
           /\ Chain(GapSteps(t, n) \o list, N) /\ TapeSteps(t, N)
           /\ \A x \in N : x.do \in {"record", "push"} => x \in M
           /\ (\E x \in N : x.do \in {"advance", "noteGap"}) =>
                /\ GapSteps(t, n) \o list # <<>>
                /\ Head(GapSteps(t, n) \o list).do = "finish"
                /\ Head(GapSteps(t, n) \o list).track = t
<1>1. PICK A : /\ Chain(GapSteps(t, n), A)
               /\ TapeSteps(t, A)
               /\ \A x \in A : x.do \in {"finish", "advance", "noteGap"}
               /\ A = {} \/ (/\ GapSteps(t, n) # <<>> /\ Head(GapSteps(t, n)).do = "finish"
                             /\ Head(GapSteps(t, n)).track = t)
  BY GapChain
<1>2. PICK g : g = GapSteps(t, n)
  OBVIOUS
<1>3. \A x \in A, y \in M : May(x, y)
  BY <1>1 DEF TapeSteps, May, GapAbout, BoundaryAbout, CloseKinds
<1>4. Chain(g \o list, A \cup M)
  BY <1>1, <1>2, <1>3, ChainJoin
<1>5. A \cup M \in SUBSET AnyStep
  BY <1>1 DEF TapeSteps
<1>6. TapeSteps(t, A \cup M)
  BY <1>1 DEF TapeSteps
<1>7. ASSUME NEW x \in A \cup M, x.do \in {"advance", "noteGap"}
      PROVE  g \o list # <<>> /\ Head(g \o list).do = "finish" /\ Head(g \o list).track = t
  <2>1. A # {} /\ g # <<>> /\ Head(g).do = "finish" /\ Head(g).track = t
    BY <1>1, <1>2, <1>7
  <2>2. g \in Seq(AnyStep) /\ list \in Seq(AnyStep)
    BY <1>1, <1>2 DEF Chain
  <2> QED BY <2>1, <2>2, HeadOfTwo
<1>8. \A x \in A \cup M : x.do \in {"record", "push"} => x \in M
  BY <1>1
<1> QED BY <1>2, <1>4, <1>5, <1>6, <1>7, <1>8

(* What may be left for a track after a callback                           *)
LEMMA AfterTape ==
  ASSUME NEW h \in AnyStep, NEW b \in AnyStep, May(h, b), h.do \in {"hear", "tail", "gapTo"},
         b.track = h.track
  PROVE  /\ b.do \notin {"close", "closing", "advance", "noteGap", "skip", "record", "push",
                         "changeDirection", "boundary", "inForce", "recoverTail",
                         "replayDirections", "replaying", "hear", "tail", "gapTo"}
         /\ ~GapAbout(b) /\ ~BoundaryAbout(b)
         /\ b.do = "seal" => h.do = "gapTo"
BY DEF May, CloseKinds

(* They may come before the rest of the turn.                              *)
LEMMA MayTape ==
  ASSUME NEW h \in AnyStep, NEW b \in AnyStep, May(h, b), h.do \in {"hear", "tail", "gapTo"},
         NEW x \in AnyStep, x.track = h.track,
         x.do \in {"finish", "advance", "noteGap", "record", "push", "checkpoint"},
         x.do \in {"record", "push"} => h.do # "gapTo"
  PROVE  May(x, b)
<1>1. CASE b.track = h.track
  <2>1. /\ b.do \notin {"close", "closing", "advance", "noteGap", "skip", "record", "push",
                         "changeDirection", "boundary", "inForce", "recoverTail",
                         "replayDirections", "replaying", "hear", "tail", "gapTo"}
        /\ ~GapAbout(b) /\ ~BoundaryAbout(b)
        /\ b.do = "seal" => h.do = "gapTo"
    BY <1>1, AfterTape
  <2> QED BY <1>1, <2>1 DEF May
<1>2. CASE b.track # h.track
  BY <1>2 DEF May
<1> QED BY <1>1, <1>2

(* A turn that hears audio puts the steps of the tape first, the end of    *)
(* the open segment at their head.                                         *)
LEMMA TapeTurned ==
  ASSUME CaptureInv, todo # <<>>, Head(todo).do \in {"hear", "tail", "gapTo"},
         NEW t, t = Head(todo).track, NEW new, NEW N \in SUBSET AnyStep, Chain(new, N), TapeSteps(t, N),
         Head(todo).do = "gapTo" => \A x \in N : x.do \notin {"record", "push"},
         (\E x \in N : x.do \in {"advance", "noteGap"}) =>
           new # <<>> /\ Head(new).do = "finish" /\ Head(new).track = t,
         Then(new), UNCHANGED <<sources, recording, phase, run>>
  PROVE  \E h, R : /\ Turned(h, R, N) /\ h = Head(todo)
                   /\ (\E x \in N : x.do \in {"advance", "noteGap"}) =>
                        Head(todo').do = "finish" /\ Head(todo').track = t
<1>0. Types /\ Program
  BY DEF CaptureInv
<1>1. PICK h \in AnyStep, R \in SUBSET AnyStep :
        /\ h = Head(todo) /\ R = In(Tail(todo)) /\ Steps = {h} \cup R /\ h.track \in Tracks
        /\ \A b \in R : May(h, b) /\ b.track \in Tracks
        /\ Fits(phase, h.do) /\ \A b \in R : Fits(phase, b.do)
  BY <1>0, FirstStep
<1>2. h.do \in {"hear", "tail", "gapTo"} /\ h.track = t
  BY <1>1
<1>3. phase \in {"live", "closing"} /\ (h.do \in {"tail", "gapTo"} => phase = "closing")
  BY <1>1, <1>2 DEF Fits, CloseKinds, ReplayKinds
<1>4. \A x \in N : x.track = h.track /\ Fits(phase, x.do)
  BY <1>2, <1>3 DEF TapeSteps, Fits
<1>5. \A x \in N, b \in R : May(x, b)
  <2>1. ASSUME NEW x \in N, NEW b \in R PROVE May(x, b)
    <3>1. /\ x \in AnyStep /\ b \in AnyStep /\ May(h, b) /\ x.track = h.track
          /\ x.do \in {"finish", "advance", "noteGap", "record", "push", "checkpoint"}
          /\ x.do \in {"record", "push"} => h.do # "gapTo"
      BY <1>1, <1>2 DEF TapeSteps
    <3> QED BY <1>2, <3>1, MayTape
  <2> QED BY <2>1
<1>6. Turned(h, R, N)
  BY <1>1, <1>2, <1>4, <1>5, NextTurn
<1>7. ASSUME \E x \in N : x.do \in {"advance", "noteGap"}
      PROVE  Head(todo').do = "finish" /\ Head(todo').track = t
  <2>1. new \in Seq(AnyStep) /\ new # <<>> /\ Head(new).do = "finish" /\ Head(new).track = t
    BY <1>7 DEF Chain
  <2>2. Tail(todo) \in Seq(AnyStep)
    BY <1>0, SplitList DEF Types
  <2>3. Head(new \o Tail(todo)) = Head(new)
    BY <2>1, <2>2, HeadOfTwo
  <2> QED BY <2>1, <2>3 DEF Then
<1> QED BY <1>1, <1>6, <1>7

(* A turn that starts something on the tape of a track                     *)
LEMMA TapeKept ==
  ASSUME CaptureInv, NEW h, NEW R, NEW N, Turned(h, R, N), h.do \in {"hear", "tail", "gapTo"},
         NEW t, t = h.track, TapeSteps(t, N), h.do = "gapTo" => \A x \in N : x.do \notin {"record", "push"},
         (\E x \in N : x.do \in {"advance", "noteGap"}) =>
           Head(todo').do = "finish" /\ Head(todo').track = t,
         UNCHANGED <<journal, outbox, ledger, vad, epoch, queue>>
  PROVE  CaptureInv'
<1>1. /\ Types /\ Program /\ Shape /\ Sealing /\ Direction1 /\ Direction2
      /\ h \in AnyStep /\ h = Head(todo) /\ t \in Tracks /\ t \in Both /\ Fits(phase, h.do)
      /\ Steps = {h} \cup R /\ Steps' = N \cup R /\ Steps' \subseteq AnyStep
      /\ Steps \subseteq AnyStep /\ R \subseteq AnyStep
      /\ \A b \in R : May(h, b)
      /\ Clock(t) /\ Pieces(t) /\ Disk(t) /\ Cover(t) /\ Announced(t)
      /\ journal[t] \in Journal /\ journal[t].final \in Nat /\ journal[t].classified \in Nat
      /\ journal[t].voiced \subseteq Nat /\ journal[t].pcm \subseteq Nat
      /\ Cut(t) \subseteq Segment /\ journal[t].gaps \subseteq Gap
      /\ journal[t].boundaries \subseteq BoundaryEvent
      /\ vad[t].cursor \in Nat /\ Low(t) \in Nat /\ From(t) \in Nat
      /\ \A u \in journal[t].voiced \cup journal[t].pcm : u < journal[t].final
      /\ \A x \in R : x.do \in {"direction", "changeDirection", "boundary"} => x.track = t
  BY TurnFacts
<1>2. phase \in {"live", "closing"} /\ phase' = phase /\ Live /\ Live' /\ ~Over
  BY <1>1 DEF Fits, CloseKinds, ReplayKinds, Live, Over, Turned
<1>3. \A b \in R : b.track = t =>
        /\ b.do \notin {"close", "closing", "advance", "noteGap", "skip", "record", "push",
                         "changeDirection", "boundary", "inForce", "recoverTail",
                         "replayDirections", "replaying", "hear", "tail", "gapTo"}
        /\ ~GapAbout(b) /\ ~BoundaryAbout(b)
        /\ b.do = "seal" => h.do = "gapTo"
  <2>1. ASSUME NEW b \in R, b.track = t
        PROVE  /\ b.do \notin {"close", "closing", "advance", "noteGap", "skip", "record", "push",
                         "changeDirection", "boundary", "inForce", "recoverTail",
                         "replayDirections", "replaying", "hear", "tail", "gapTo"}
               /\ ~GapAbout(b) /\ ~BoundaryAbout(b)
               /\ b.do = "seal" => h.do = "gapTo"
    <3>1. b \in AnyStep /\ May(h, b)
      BY <1>1
    <3> QED BY <1>1, <2>1, <3>1, AfterTape
  <2> QED BY <2>1
<1>4. \A x \in N : /\ x \in AnyStep /\ x.track = t
                   /\ x.do \in {"finish", "advance", "noteGap", "record", "push", "checkpoint"}
                   /\ x.do \in {"advance", "noteGap"} => x.with > 0
  BY DEF TapeSteps
<1>5. Tracks' = Tracks /\ Dual' = Dual
  BY DEF Tracks, Dual, Turned
<1>6. ~Closed(t)
  BY <1>1 DEF Sealing
<1>7. Shape'
  <2>1. Shape /\ \A b \in R : b.track \in Tracks /\ Fits(phase, b.do)
    BY <1>1 DEF Turned
  <2>2. \A x \in Steps' : Fits(phase', x.do)
    BY <1>1, <1>2, <2>1 DEF Turned
  <2>3. ASSUME NEW u \in Tracks, Has("record", u)' PROVE Has("push", u)'
    <3>1. CASE u = t
      BY <1>1, <1>3, <2>3, <3>1 DEF Has, TapeSteps
    <3>2. CASE u # t
      BY <1>1, <1>4, <2>1, <2>3, <3>2 DEF Has, Shape
    <3> QED BY <3>1, <3>2
  <2>4. ASSUME NEW u \in Tracks, Has("advance", u)' PROVE Has("noteGap", u)'
    <3>1. CASE u = t
      BY <1>1, <1>3, <2>4, <3>1 DEF Has, TapeSteps
    <3>2. CASE u # t
      BY <1>1, <1>4, <2>1, <2>4, <3>2 DEF Has, Shape
    <3> QED BY <3>1, <3>2
  <2>5. \A x, y \in Steps' : x.do = "advance" /\ y.do = "noteGap" /\ x.track = y.track =>
          x.with = y.with
    <3>1. \A x, y \in R : x.do = "advance" /\ y.do = "noteGap" /\ x.track = y.track =>
            x.with = y.with
      BY <1>1, <2>1 DEF Shape
    <3>2. \A x, y \in N : x.do = "advance" /\ y.do = "noteGap" => x.with = y.with
      BY DEF TapeSteps
    <3> QED BY <1>1, <1>3, <1>4, <3>1, <3>2
  <2>6. \A x \in Steps' : /\ x.do \in {"advance", "noteGap"} => x.with > 0
                          /\ x.do = "gapTo" => x.with >= journal[x.track].final
    BY <1>1, <1>4, <2>1 DEF Shape
  <2>7. Dual => \A x \in Steps' : x.do \notin {"direction", "changeDirection", "boundary"}
    BY <1>1, <1>4, <2>1 DEF Shape
  <2> QED BY <1>5, <2>2, <2>3, <2>4, <2>5, <2>6, <2>7 DEF Shape
<1>8. vad[t].cursor = journal[t].final
  <2>1. ~Has("noteGap", t) /\ ~Has("skip", t) /\ ~Has("push", t)
    BY <1>1, <1>3 DEF Has
  <2> QED BY <1>1, <1>2, <2>1 DEF Clock
<1>9. Clock(t)'
  <2>1. vad[t].active # None => vad[t].active.start < vad[t].cursor
    BY <1>1 DEF Clock
  <2>2. ~Has("skip", t)' /\ ~Has("changeDirection", t)'
    BY <1>1, <1>3, <1>4 DEF Has
  <2>3. Has("advance", t)' \/ Has("noteGap", t)' => Head(todo').do = "finish" /\ Head(todo').track = t
    BY <1>1, <1>3 DEF Has
  <2>4. Has("seal", t)' /\ vad[t].active # None => Has("finish", t)'
    <3>1. ASSUME Has("seal", t)', vad[t].active # None PROVE Has("finish", t)'
      <4>1. \E x \in R : x.do = "seal" /\ x.track = t
        BY <1>1, <1>4, <3>1 DEF Has
      <4>2. Has("seal", t)
        BY <1>1, <4>1 DEF Has
      <4>3. Has("finish", t)
        BY <1>1, <3>1, <4>2 DEF Clock
      <4> QED BY <1>1, <4>3 DEF Has
    <3> QED BY <3>1
  <2>5. Has("noteGap", t)' => Has("advance", t)'
    BY <1>1, <1>3, <1>4 DEF Has, TapeSteps
  <2>6. \A x \in Steps' : x.do = "noteGap" /\ x.track = t => Has("advance", t)'
    BY <2>5 DEF Has
  <2>7. \A u \in journal[t].voiced \cup journal[t].pcm : ~(u >= vad[t].cursor)
    BY <1>1, <1>8
  <2>8. phase' # "recovering" /\ vad[t].cursor <= journal[t].final
    BY <1>1, <1>2, <1>8
  <2> QED BY <1>1, <1>2, <1>8, <2>1, <2>2, <2>3, <2>4, <2>6, <2>7, <2>8 DEF Clock
<1>10. Pending(t) = {} /\ Pending(t)' = {}
  BY <1>1, <1>3, <1>4 DEF Pending
<1>11. Pieces(t)'
  BY <1>1, <1>3, <1>4, <1>10 DEF Pieces
<1>12. SameTape(t) /\ \A u \in Tracks : SameTape(u)
  BY DEF SameTape
<1>13. Disk(t)'
  <2>1. Keeps(KindOf(t, {"skip"}))
    BY <1>1, <1>4 DEF Keeps, KindOf
  <2> QED BY <1>1, <1>2, <1>12, <2>1, DiskFrame
<1>14. Cover(t)'
  <2>1. ~Has("push", t) /\ ~Has("recoverTail", t)
    BY <1>1, <1>3 DEF Has
  <2>2. Cut(t)' = Cut(t) /\ Closed(t)' = Closed(t)
    BY DEF Cut, Closed
  <2> QED BY <1>1, <1>2, <1>10, <2>1, <2>2 DEF Cover
<1>15. Announced(t)'
  <2>1. Keeps(KindOf(t, {"recoverTail"}))
    BY <1>1, <1>4 DEF Keeps, KindOf
  <2>2. \A x \in Steps : GapAbout(x) => x \in Steps'
    BY <1>1 DEF GapAbout
  <2>3. \A u : Behind(t, u)' <=> Behind(t, u)
    BY <1>1, <1>12, SameBehind
  <2> QED BY <1>1, <1>2, <2>1, <2>2, <2>3, AnnouncedFrame
<1>16. Sealing'
  <2>1. \A x \in Steps' : x \in About("seal") => x \in Steps
    BY <1>1, <1>4 DEF About
  <2>2. Seals' \subseteq Seals
    BY <1>1, <2>1, SealsKept DEF Turned
  <2>3. h.do # "seal" /\ \A x \in N : x.do \notin {"publish", "last", "direction", "changeDirection"}
    BY <1>4
  <2> QED BY <1>6, <1>12, <2>2, <2>3, SealingTurn
<1>17. Direction1' /\ Direction2'
  <2>1. \A x \in R : x.do # "boundary" /\ x.do # "changeDirection"
    BY <1>1, <1>3
  <2>2. ~Has("changeDirection", Mic)'
    BY <1>1, <1>4, <2>1 DEF Has
  <2>3. Calm(h) /\ \A x \in N : Calm(x)
    BY <1>4 DEF Calm, DirectionKinds, About
  <2>4. \A u \in Tracks : Cut(u)' = Cut(u)
    BY DEF Cut
  <2> QED BY <2>1, <2>2, <2>3, <2>4, CalmDirections
<1>18. Fresh'
  BY <1>2 DEF Fresh
<1>19. /\ outbox' \in [Tracks -> SUBSET AnyEvent] /\ epoch' \in Nat \ {0}
       /\ journal' \in [Tracks -> Journal]
       /\ vad' \in [Tracks -> [cursor : Nat, active : Active \cup {None}]]
  BY <1>1 DEF Types
<1>20. \A u \in Tracks : u # h.track => SameTape(u) /\ vad'[u] = vad[u] /\ outbox'[u] = outbox[u]
  BY <1>12
<1> QED BY <1>7, <1>9, <1>11, <1>13, <1>14, <1>15, <1>16, <1>17, <1>18, <1>19, <1>20, TurnShaped

(* A turn of the capture loop keeps the invariant, whatever it hears and   *)
(* misses.                                                                 *)
LEMMA HearKept == CaptureInv /\ Hear => CaptureInv'
<1> SUFFICES ASSUME CaptureInv, Hear PROVE CaptureInv'
  OBVIOUS
<1>1. /\ todo # <<>> /\ Head(todo).do \in {"hear", "tail"}
      /\ UNCHANGED <<sources, recording, journal, outbox, ledger, phase, vad, epoch, queue, run>>
  BY DEF Hear, Doing, disk, memory
<1>2. PICK t : t = Head(todo).track
  OBVIOUS
<1>3. t \in Both
  <2>1. Types /\ Program
    BY DEF CaptureInv
  <2> QED BY <1>1, <1>2, <2>1, FirstStep DEF Types, Tracks, Both
<1>4. PICK lost \in Nat, n \in Nat : Then(GapSteps(t, lost) \o HeardSteps(t, n))
  <2>1. PICK lost \in (IF Doing("tail") THEN {0} ELSE {0, 1}), n \in 0..MaxBatch :
          Then(GapSteps(Track, lost) \o HeardSteps(Track, n))
    BY DEF Hear
  <2>2. lost \in Nat /\ n \in Nat
    BY <2>1, CaptureAssumption
  <2> QED BY <1>2, <2>1, <2>2 DEF Track
<1>5. \E M : /\ Chain(HeardSteps(t, n), M) /\ TapeSteps(t, M)
             /\ \A x \in M : x.do \in {"record", "push", "checkpoint"}
  <2>1. CASE n = 0
    <3>1. PICK M : M = {}
      OBVIOUS
    <3>2. Chain(HeardSteps(t, n), M) /\ TapeSteps(t, M)
      BY <2>1, <3>1, ChainOfNone DEF HeardSteps, TapeSteps
    <3> QED BY <3>1, <3>2
  <2>2. CASE n # 0
    <3>1. PICK r, p, c : r = StepFor("record", t, n) /\ p = Step("push", t) /\ c = Step("checkpoint", t)
      OBVIOUS
    <3>2. /\ r \in AnyStep /\ r.do = "record" /\ r.track = t
          /\ p \in AnyStep /\ p.do = "push" /\ p.track = t
          /\ c \in AnyStep /\ c.do = "checkpoint" /\ c.track = t
      BY <1>3, <3>1, StepTyped, PlainIs, StepForIs DEF PlainKinds
    <3>3. May(r, p) /\ May(r, c) /\ May(p, c)
      BY <3>2 DEF May, GapAbout, BoundaryAbout
    <3>4. Chain(<<r, p, c>>, {r, p, c})
      BY <3>2, <3>3, ChainOfThree
    <3>5. HeardSteps(t, n) = <<r, p, c>>
      BY <2>2, <3>1 DEF HeardSteps
    <3>6. TapeSteps(t, {r, p, c})
      BY <3>2 DEF TapeSteps
    <3> QED BY <3>2, <3>4, <3>5, <3>6
  <2> QED BY <2>1, <2>2
<1>6. PICK M : /\ Chain(HeardSteps(t, n), M) /\ TapeSteps(t, M)
               /\ \A x \in M : x.do \in {"record", "push", "checkpoint"}
  BY <1>5
<1>11. PICK list : list = HeardSteps(t, n)
  OBVIOUS
<1>12. Chain(list, M) /\ TapeSteps(t, M) /\ \A x \in M : x.do \in {"record", "push", "checkpoint"}
  BY <1>6, <1>11
<1>7. PICK new : new = GapSteps(t, lost) \o list
  OBVIOUS
<1>8. PICK N \in SUBSET AnyStep :
        /\ Chain(new, N) /\ TapeSteps(t, N)
        /\ (\E x \in N : x.do \in {"advance", "noteGap"}) =>
             new # <<>> /\ Head(new).do = "finish" /\ Head(new).track = t
  BY <1>3, <1>7, <1>12, TapeChain
<1>9. PICK h, R : /\ Turned(h, R, N) /\ h = Head(todo)
                  /\ (\E x \in N : x.do \in {"advance", "noteGap"}) =>
                       Head(todo').do = "finish" /\ Head(todo').track = t
  BY <1>1, <1>2, <1>4, <1>7, <1>8, <1>11, TapeTurned
<1>10. h.do \in {"hear", "tail"} /\ h.track = t
  BY <1>1, <1>2, <1>9
<1> QED BY <1>1, <1>8, <1>9, <1>10, TapeKept

(* The gap that makes two tracks end together                              *)
LEMMA GapToKept == CaptureInv /\ GapTo => CaptureInv'
<1> SUFFICES ASSUME CaptureInv, GapTo PROVE CaptureInv'
  OBVIOUS
<1>1. /\ todo # <<>> /\ Head(todo).do = "gapTo"
      /\ UNCHANGED <<sources, recording, journal, outbox, ledger, phase, vad, epoch, queue, run>>
  BY DEF GapTo, Doing, disk, memory
<1>2. PICK t : t = Head(todo).track
  OBVIOUS
<1>3. t \in Both /\ t \in Tracks /\ Head(todo) \in Steps /\ Head(todo) \in AnyStep /\ Types /\ Shape
  <2>1. Types /\ Program
    BY DEF CaptureInv
  <2> QED BY <1>1, <1>2, <2>1, FirstStep DEF Types, Tracks, Both, Program
<1>4. PICK n \in Nat : n = Head(todo).with - journal[t].final
  <2>1. Head(todo).with \in Nat /\ journal[t].final \in Nat /\ Head(todo).with >= journal[t].final
    BY <1>1, <1>2, <1>3, TypedStep, TypedTrack DEF Shape
  <2> QED BY <2>1
<1>5. PICK c : c = Step("checkpoint", t)
  OBVIOUS
<1>6. c \in AnyStep /\ c.do = "checkpoint" /\ c.track = t
  BY <1>3, <1>5, StepTyped, PlainIs DEF PlainKinds
<1>7. PICK list : list = IF n = 0 THEN <<>> ELSE <<c>>
  OBVIOUS
<1>8. \E M : /\ Chain(list, M) /\ TapeSteps(t, M)
             /\ \A x \in M : x.do = "checkpoint"
  <2>1. CASE n = 0
    <3>1. PICK M : M = {}
      OBVIOUS
    <3>2. Chain(list, M) /\ TapeSteps(t, M)
      BY <1>7, <2>1, <3>1, ChainOfNone DEF TapeSteps
    <3> QED BY <3>1, <3>2
  <2>2. CASE n # 0
    <3>1. Chain(list, {c})
      BY <1>6, <1>7, <2>2, ChainOfOne
    <3>2. TapeSteps(t, {c})
      BY <1>6 DEF TapeSteps
    <3> QED BY <1>6, <3>1, <3>2
  <2> QED BY <2>1, <2>2
<1>9. PICK M : /\ Chain(list, M) /\ TapeSteps(t, M)
               /\ \A x \in M : x.do = "checkpoint"
  BY <1>8
<1>10. PICK new : new = GapSteps(t, n) \o list
  OBVIOUS
<1>11. PICK N \in SUBSET AnyStep :
        /\ Chain(new, N) /\ TapeSteps(t, N)
        /\ (\E x \in N : x.do \in {"advance", "noteGap"}) =>
             new # <<>> /\ Head(new).do = "finish" /\ Head(new).track = t
        /\ \A x \in N : x.do \notin {"record", "push"}
  BY <1>3, <1>9, <1>10, TapeChain
<1>12. Then(new)
  BY <1>2, <1>4, <1>5, <1>7, <1>10 DEF GapTo, Track, With
<1>13. PICK h, R : /\ Turned(h, R, N) /\ h = Head(todo)
                   /\ (\E x \in N : x.do \in {"advance", "noteGap"}) =>
                       Head(todo').do = "finish" /\ Head(todo').track = t
  BY <1>1, <1>2, <1>11, <1>12, TapeTurned
<1>14. h.do = "gapTo" /\ h.track = t
  BY <1>1, <1>2, <1>13
<1> QED BY <1>1, <1>11, <1>13, <1>14, TapeKept

----------------------------------------------------------------------------
(* A journal is sealed.                                                    *)

(* Sealing a journal keeps it: the segments of the seal are those of the   *)
(* manifest.                                                               *)
LEMMA SealJournalKept == CaptureInv /\ SealJournal => CaptureInv'
<1> SUFFICES ASSUME CaptureInv, SealJournal PROVE CaptureInv'
  OBVIOUS
<1>1. todo # <<>> /\ Head(todo).do = "seal" /\ Then(<<>>)
      /\ UNCHANGED <<sources, recording, outbox, ledger, phase, vad, epoch, queue, run>>
  BY DEF SealJournal, Doing, memory
<1>2. PICK h, R : Turned(h, R, {})
  BY <1>1, DoneTurn
<1>3. PICK t : t = h.track
  OBVIOUS
<1>4. /\ Types /\ Program /\ Shape /\ Sealing /\ Direction1 /\ Direction2
      /\ h \in AnyStep /\ h = Head(todo) /\ t \in Tracks /\ t \in Both /\ Fits(phase, h.do)
      /\ Steps = {h} \cup R /\ Steps' = R /\ Steps' \subseteq AnyStep
      /\ Steps \subseteq AnyStep /\ R \subseteq AnyStep
      /\ \A b \in R : May(h, b)
      /\ Clock(t) /\ Pieces(t) /\ Disk(t) /\ Cover(t) /\ Announced(t)
      /\ journal[t] \in Journal /\ journal[t].final \in Nat /\ journal[t].classified \in Nat
      /\ journal[t].voiced \subseteq Nat /\ journal[t].pcm \subseteq Nat
      /\ Cut(t) \subseteq Segment /\ journal[t].gaps \subseteq Gap
      /\ journal[t].boundaries \subseteq BoundaryEvent
      /\ vad[t].cursor \in Nat /\ Low(t) \in Nat /\ From(t) \in Nat
      /\ \A u \in journal[t].voiced \cup journal[t].pcm : u < journal[t].final
      /\ \A x \in R : x.do \in {"direction", "changeDirection", "boundary"} => x.track = t
  BY <1>2, <1>3, DoneFacts
<1>5. h.do = "seal"
  BY <1>1, <1>4
<1>6. \A b \in R : b.do \in {"flushAll", "seal", "publish", "acknowledge"}
  BY <1>4, <1>5 DEF May
<1>7. phase \in {"closing", "abandoned", "recovering"} /\ ~Over
  BY <1>4, <1>5 DEF Fits, CloseKinds, ReplayKinds, Over
<1>8. \A k, u : k \notin {"flushAll", "seal", "publish", "acknowledge"} =>
        ~Has(k, u) /\ ~Has(k, u)'
  BY <1>4, <1>5, <1>6 DEF Has
<1>9. outbox[t] = {}
  <2>1. Doing("seal") /\ Head(todo).track = t
    BY <1>1, <1>3, <1>4 DEF Doing
  <2> QED BY <1>4, <2>1 DEF Program, FlushedFirst
<1> DEFINE j == [journal[t] EXCEPT !.closed = TRUE, !.active = None, !.classified = journal[t].final]
<1>10. /\ j \in Journal /\ j.final = journal[t].final /\ j.classified = journal[t].final /\ j.active = None
       /\ j.closed = TRUE /\ j.segments = journal[t].segments /\ j.voiced = journal[t].voiced
       /\ j.pcm = journal[t].pcm /\ j.gaps = journal[t].gaps /\ j.boundaries = journal[t].boundaries
       /\ j.seal = journal[t].seal
  BY <1>4 DEF Journal
<1>11. journal' = [journal EXCEPT ![t] = j]
  <2>1. journal \in [Tracks -> Journal] /\ Track = t
    BY <1>3, <1>4 DEF Types, Track
  <2> QED BY <1>4, <2>1 DEF SealJournal, Types
<1> HIDE DEF j
<1>12. /\ journal' \in [Tracks -> Journal] /\ journal'[t] = j
       /\ \A u \in Tracks : u # t => SameTape(u) /\ journal'[u] = journal[u]
  BY <1>4, <1>10, <1>11, OneJournal
<1>13. vad[t].active = None
  <2>1. Has("seal", t) /\ ~Has("finish", t)
    <3>1. ~Has("finish", t)
      BY <1>8
    <3> QED BY <1>3, <1>4, <1>5, <3>1 DEF Has
  <2> QED BY <1>4, <2>1 DEF Clock
<1>14. /\ Cut(t)' = Cut(t) /\ From(t)' = From(t) /\ Low(t)' = journal[t].final /\ Closed(t)'
       /\ Live' = Live
  BY <1>1, <1>10, <1>12 DEF Cut, From, Low, Closed, Live
<1>15. Live => vad[t].cursor = journal[t].final /\ From(t) = journal[t].final
  <2>1. ~Has("noteGap", t) /\ ~Has("skip", t) /\ ~Has("push", t)
    BY <1>8
  <2> QED BY <1>4, <1>13, <2>1 DEF Clock, From
<1>16. Pending(t) = {} /\ Pending(t)' = {}
  BY <1>4, <1>5, <1>6 DEF Pending
<1>17. \A u \in journal[t].voiced : \E r \in Cut(t) : Holds(r, u)
  <2>1. CASE Closed(t)
    <3>1. Low(t) = journal[t].final
      BY <1>4, <2>1 DEF Disk
    <3> QED BY <1>4, <3>1 DEF Disk, Behind
  <2>2. CASE ~Closed(t)
    <3>1. ~Has("push", t) /\ ~Has("recoverTail", t)
      BY <1>8
    <3> QED BY <1>4, <1>7, <1>13, <1>16, <2>2, <3>1 DEF Cover
  <2> QED BY <2>1, <2>2
<1>18. Clock(t)'
  <2>1. /\ ~Has("advance", t)' /\ ~Has("noteGap", t)' /\ ~Has("skip", t)' /\ ~Has("record", t)'
        /\ ~Has("checkpoint", t)'
    BY <1>8
  <2>2. \A x \in Steps' : x.do # "noteGap"
    BY <1>4, <1>6
  <2>3. Live => \A u \in journal[t].voiced \cup journal[t].pcm : ~(u >= vad[t].cursor)
    BY <1>4, <1>15
  <2>4. Live => vad[t].cursor <= journal[t].final
    BY <1>4, <1>15
  <2> QED BY <1>1, <1>4, <1>10, <1>12, <1>13, <1>14, <1>15, <2>1, <2>2, <2>3, <2>4 DEF Clock
<1>19. Pieces(t)'
  BY <1>4, <1>6, <1>16 DEF Pieces
<1>20. Disk(t)'
  <2>1. journal[t].final <= journal[t].final
    BY <1>4
  <2>2. \A b \in journal[t].boundaries : b.about.start <= journal[t].final
    <3>1. \A b \in journal[t].boundaries : b.about.start \in Nat /\ b.about.start <= Low(t)
      BY <1>4 DEF BoundaryEvent, Disk
    <3>2. Low(t) <= journal[t].final
      BY <1>4 DEF Disk
    <3> QED BY <1>4, <3>1, <3>2
  <2>3. Live => /\ \A r \in Cut(t) : r.end <= From(t)
                /\ \A g \in journal[t].gaps : g.end <= From(t)
                /\ \A b \in journal[t].boundaries : b.about.start <= From(t)
    <3>1. ~Has("skip", t)
      BY <1>8
    <3> QED BY <1>4, <3>1 DEF Disk
  <2>4. /\ \A r \in Cut(t) : r.track = t /\ r.start < r.end /\ r.end <= journal[t].final
        /\ \A r, s \in Cut(t) : r # s => Apart(r, s)
        /\ \A g \in journal[t].gaps :
             /\ g.track = t /\ g.start < g.end /\ g.end <= journal[t].final
             /\ \A u \in journal[t].pcm : ~Holds(g, u)
             /\ \A r \in Cut(t) : Apart(g, r)
    BY <1>4 DEF Disk
  <2> QED BY <1>10, <1>12, <1>14, <1>15, <1>17, <2>1, <2>2, <2>3, <2>4 DEF Disk
<1>21. Cover(t)'
  BY <1>14 DEF Cover
<1>22. \A g \in journal[t].gaps : \E e \in ledger : e.kind = "gap" /\ e.about = g
  <2>1. ~Has("recoverTail", t) /\ phase \notin {"failed", "down"}
    BY <1>7, <1>8
  <2>2. \A x \in Steps : ~GapAbout(x)
    BY <1>4, <1>5, <1>6 DEF GapAbout
  <2> QED BY <1>4, <1>9, <2>1, <2>2 DEF Announced
<1>23. Announced(t)'
  BY <1>1, <1>10, <1>12, <1>22 DEF Announced
<1>24. /\ Tracks' = Tracks /\ \A u \in Tracks : /\ journal'[u].seal = journal[u].seal
                                              /\ journal'[u].boundaries = journal[u].boundaries
                                              /\ journal'[u].segments = journal[u].segments
                                              /\ journal'[u].final = journal[u].final
  BY <1>1, <1>10, <1>12 DEF Tracks
<1>25. Sealing'
  <2>1. Seals' \subseteq Seals
    BY <1>1, <1>4, <1>24, SealsKept
  <2>2. Manifest' = Manifest /\ \A u \in Tracks : Cut(u)' = Cut(u)
    BY <1>24 DEF Manifest, Cut
  <2>3. Sealed' = Sealed /\ Registered' = Registered
    BY <1>1 DEF Sealed, Registered, Events
  <2>4. \A u \in Tracks : u # t => Closed(u)' = Closed(u)
    BY <1>12 DEF Closed
  <2>5. \A u \in Tracks : Closed(u) => Closed(u)'
    BY <1>14, <2>4
  <2>6. ASSUME Has("publish", Mic)', NEW u \in Tracks, u # t PROVE Closed(u)' \/ Has("seal", u)'
    <3>1. Has("publish", Mic)
      BY <1>4, <2>6 DEF Has
    <3>2. Closed(u) \/ Has("seal", u)
      BY <1>4, <3>1 DEF Sealing
    <3>3. Has("seal", u) => Has("seal", u)'
      BY <1>3, <1>4, <2>6 DEF Has
    <3> QED BY <2>4, <2>6, <3>2, <3>3
  <2>7. \A e \in Seals' : e.about.tracks = Manifest' /\ \A u \in Tracks : Closed(u)'
    BY <1>4, <2>1, <2>2, <2>5 DEF Sealing
  <2>8. Sealed' => \A u \in Tracks : Cut(u)' = {s \in Registered' : s.track = u}
    BY <1>4, <2>2, <2>3 DEF Sealing
  <2>9. phase' \notin {"opening", "live"}
    BY <1>1, <1>7
  <2>10. \A x \in Steps' : x.do \in {"flushAll", "seal", "publish", "acknowledge"}
    BY <1>4, <1>6
  <2>11. Has("publish", Mic)' => \A u \in Tracks : Closed(u)' \/ Has("seal", u)'
    BY <1>14, <2>6
  <2> QED BY <1>24, <2>7, <2>8, <2>9, <2>10, <2>11 DEF Sealing
<1>26. Direction1' /\ Direction2'
  <2>1. \A x \in R : x.do # "boundary"
    BY <1>6
  <2>2. ~Has("changeDirection", Mic)'
    BY <1>8
  <2>3. Calm(h)
    BY <1>5 DEF Calm, DirectionKinds, About
  <2>4. \A u \in Tracks : Cut(u)' = Cut(u)
    BY <1>24 DEF Cut
  <2>5. Mic \in Tracks
    BY <1>4, TheTracks
  <2> QED BY <1>1, <1>2, <1>24, <2>1, <2>2, <2>3, <2>4, <2>5, CalmDirections
<1>27. Fresh'
  BY <1>1, <1>4, <1>10, <1>12, <1>24 DEF Fresh, Program
<1>28. /\ outbox' \in [Tracks -> SUBSET AnyEvent] /\ epoch' \in Nat \ {0}
       /\ vad' \in [Tracks -> [cursor : Nat, active : Active \cup {None}]]
  BY <1>1, <1>4 DEF Types
<1>29. \A u \in Tracks : u # h.track => SameTape(u) /\ vad'[u] = vad[u] /\ outbox'[u] = outbox[u]
  BY <1>1, <1>3, <1>12
<1>30. journal'[h.track].final = journal[h.track].final
  BY <1>3, <1>4, <1>24
<1> QED BY <1>1, <1>2, <1>3, <1>12, <1>18, <1>19, <1>20, <1>21, <1>23, <1>25, <1>26, <1>27, <1>28,
           <1>29, <1>30, TurnKept

----------------------------------------------------------------------------
(* An event goes to the outbox.                                            *)

(* A boundary is in the outbox before the journal knows it.                *)
LEMMA AppendBoundary ==
  ASSUME CaptureInv, NEW h, NEW R, Turned(h, R, {}), h.do = "append", h.with.kind = "boundary",
         UNCHANGED <<journal, ledger, vad, epoch>>,
         \A u \in Tracks : u # h.track => outbox'[u] = outbox[u],
         outbox'[h.track] = outbox[h.track] \cup {h.with}
  PROVE  Direction1' /\ Direction2'
<1>3. PICK t : t = h.track
  OBVIOUS
<1>4. /\ Types /\ Program /\ Shape /\ Sealing /\ Direction1 /\ Direction2
      /\ h \in AnyStep /\ h = Head(todo) /\ t \in Tracks /\ t \in Both /\ Fits(phase, h.do)
      /\ Steps = {h} \cup R /\ Steps' = R /\ Steps' \subseteq AnyStep
      /\ Steps \subseteq AnyStep /\ R \subseteq AnyStep
      /\ \A b \in R : May(h, b)
      /\ Clock(t) /\ Pieces(t) /\ Disk(t) /\ Cover(t) /\ Announced(t)
      /\ journal[t] \in Journal /\ journal[t].final \in Nat /\ journal[t].classified \in Nat
      /\ journal[t].voiced \subseteq Nat /\ journal[t].pcm \subseteq Nat
      /\ Cut(t) \subseteq Segment /\ journal[t].gaps \subseteq Gap
      /\ journal[t].boundaries \subseteq BoundaryEvent
      /\ vad[t].cursor \in Nat /\ Low(t) \in Nat /\ From(t) \in Nat
      /\ \A u \in journal[t].voiced \cup journal[t].pcm : u < journal[t].final
      /\ \A x \in R : x.do \in {"direction", "changeDirection", "boundary"} => x.track = t
  BY <1>3, DoneFacts
<1>5. UNCHANGED <<sources, phase>>
  BY DEF Turned
<1>6. BoundaryAbout(h) /\ Mic \in Tracks
  BY <1>4, TheTracks DEF BoundaryAbout
<1>7. PICK y \in R : y.do = "boundary" /\ y.with = h.with
  <2>1. \E y \in Steps : y.do = "boundary" /\ y.with = h.with
    BY <1>4, <1>6 DEF Direction1
  <2> QED BY <1>4, <2>1
<1>8. ~Dual
  BY <1>4, <1>7 DEF Shape
<1>9. Tracks = {Mic} /\ t = Mic
  BY <1>4, <1>8, TheTracks
<1>10. h.with.about.start = journal[Mic].final
  BY <1>4, <1>7 DEF Direction1
<1>11. \A k \in {"boundary", "inForce", "flush", "resend", "changeDirection", "checkpoint", "replaying",
               "replayDirections"} : \A x : x.do = k => (x \in Steps <=> x \in Steps')
  BY <1>4
<1>12. \A k \in {"changeDirection", "checkpoint", "replayDirections"} : Has(k, Mic)' = Has(k, Mic)
  BY <1>11 DEF Has
<1>13. /\ Tracks' = Tracks /\ Dual' = Dual /\ Noted' = Noted /\ InLedger' = InLedger
       /\ Sent' = Sent \cup {h.with}
  BY <1>3, <1>5, <1>9 DEF Tracks, Dual, Noted, InLedger, Sent
<1>14. Direction1'
  <2>1. \A x \in Steps' : ~(BoundaryAbout(x) /\ x.do = "append")
    <3>1. \A x \in R : x.track = h.track
      BY <1>3, <1>9 DEF Turned
    <3> QED BY <1>4, <3>1 DEF May
  <2>2. \A x \in Steps' : x.do = "boundary" \/ BoundaryAbout(x) =>
          \E z \in Steps' : z.do = "inForce" /\ z.with = x.with
    BY <1>4, <1>11 DEF Direction1
  <2>3. ASSUME NEW x \in Steps', x.do = "inForce"
        PROVE  /\ x.with \in Noted \/ \E z \in Steps' : z.do = "boundary" /\ z.with = x.with
               /\ \/ x.with \in ledger
                  \/ \E z \in Steps' : z.do \in {"flush", "resend"} /\ z.with = x.with /\ z.track = Mic
               /\ epoch <= x.with.about.epoch
               /\ \A z \in Steps' : z.do = "replaying" =>
                    \A c \in z.with : x.with.about.epoch <= c.about.epoch
    BY <1>4, <1>11, <2>3 DEF Direction1
  <2>4. \A x \in Steps' : x.do = "boundary" =>
          /\ phase = "live"
          /\ x.with.about.start = journal[Mic].final /\ vad[Mic].cursor = journal[Mic].final
          /\ journal[Mic].classified = journal[Mic].final
          /\ vad[Mic].active = None /\ journal[Mic].active = None
    BY <1>4 DEF Direction1
  <2>5. Has("changeDirection", Mic)' /\ ~Has("checkpoint", Mic)' =>
          journal[Mic].active = None /\ journal[Mic].classified = vad[Mic].cursor
    BY <1>4, <1>12 DEF Direction1
  <2>6. /\ \A x \in Steps' : x.do = "replaying" =>
             x.with \subseteq Noted /\ \A c \in x.with : epoch <= c.about.epoch
        /\ \A x \in Steps' : x.do = "resend" /\ BoundaryAbout(x) => x.with \in Noted
        /\ Has("replayDirections", Mic)' => epoch = 1
    BY <1>4, <1>12 DEF Direction1
  <2> QED BY <1>5, <1>8, <1>9, <1>13, <2>1, <2>2, <2>3, <2>4, <2>5, <2>6 DEF Direction1
<1>15. Direction2'
  <2>1. \A b \in Sent' : b \in Noted
          \/ /\ b.about.start = journal[Mic].final
             /\ Over \/ phase = "recovering" \/ \E x \in Steps' : x.do = "boundary" /\ x.with = b
    BY <1>4, <1>7, <1>10, <1>11, <1>13 DEF Direction2
  <2>2. Over' = Over
    BY <1>5 DEF Over
  <2>3. ~Over => \A b \in Noted :
          \/ b.about.epoch <= epoch \/ Has("replayDirections", Mic)'
          \/ \E x \in Steps' : x.do = "inForce" /\ x.with = b
          \/ \E x \in Steps' : x.do = "replaying" /\ b \in x.with
    BY <1>4, <1>11, <1>12 DEF Direction2
  <2>4. ASSUME NEW s \in Cut(Mic) PROVE ~(h.with.about.start <= s.start)
    <3>1. s.start < s.end /\ s.end <= journal[Mic].final /\ s.start \in Nat /\ s.end \in Nat
      BY <1>4, <1>9, TypedSegment DEF Disk
    <3> QED BY <1>4, <1>9, <1>10, <3>1
  <2>5. Cut(Mic)' = Cut(Mic)
    BY DEF Cut
  <2>6. ASSUME NEW s \in Cut(Mic)
        PROVE  /\ \/ journal[Mic].segments[s] = 1
                  \/ \E b \in InLedger : /\ b.about.epoch = journal[Mic].segments[s]
                                         /\ b.about.start <= s.start
               /\ \A b \in Sent' \cup Noted :
                    b.about.start <= s.start => b.about.epoch <= journal[Mic].segments[s]
    BY <1>4, <1>6, <1>13, <2>4, <2>6 DEF Direction2
  <2>7. epoch = 1 \/ \E b \in Noted \cap ledger : b.about.epoch = epoch
    BY <1>4 DEF Direction2
  <2> QED BY <1>5, <1>9, <1>13, <2>1, <2>2, <2>3, <2>5, <2>6, <2>7 DEF Direction2
<1> QED BY <1>14, <1>15

(* Appending an event keeps the invariant, whatever it is about.           *)
LEMMA AppendEventKept == CaptureInv /\ AppendEvent => CaptureInv'
<1> SUFFICES ASSUME CaptureInv, AppendEvent PROVE CaptureInv'
  OBVIOUS
<1>1. todo # <<>> /\ Head(todo).do = "append" /\ Then(<<>>)
      /\ UNCHANGED <<sources, recording, journal, ledger, phase, vad, epoch, queue, run>>
  BY DEF AppendEvent, Doing, memory
<1>2. PICK h, R : Turned(h, R, {})
  BY <1>1, DoneTurn
<1>3. PICK t : t = h.track
  OBVIOUS
<1>4. /\ Types /\ Program /\ Shape /\ Sealing /\ Direction1 /\ Direction2
      /\ h \in AnyStep /\ h = Head(todo) /\ t \in Tracks /\ t \in Both /\ Fits(phase, h.do)
      /\ Steps = {h} \cup R /\ Steps' = R /\ Steps' \subseteq AnyStep
      /\ Steps \subseteq AnyStep /\ R \subseteq AnyStep
      /\ \A b \in R : May(h, b)
      /\ Clock(t) /\ Pieces(t) /\ Disk(t) /\ Cover(t) /\ Announced(t)
      /\ journal[t] \in Journal /\ journal[t].final \in Nat /\ journal[t].classified \in Nat
      /\ journal[t].voiced \subseteq Nat /\ journal[t].pcm \subseteq Nat
      /\ Cut(t) \subseteq Segment /\ journal[t].gaps \subseteq Gap
      /\ journal[t].boundaries \subseteq BoundaryEvent
      /\ vad[t].cursor \in Nat /\ Low(t) \in Nat /\ From(t) \in Nat
      /\ \A u \in journal[t].voiced \cup journal[t].pcm : u < journal[t].final
      /\ \A x \in R : x.do \in {"direction", "changeDirection", "boundary"} => x.track = t
  BY <1>2, <1>3, DoneFacts
<1>5. h.do = "append" /\ h.with \in AnyEvent
  BY <1>1, <1>4, TypedStep
<1>6. /\ outbox' \in [Tracks -> SUBSET AnyEvent] /\ outbox'[t] = outbox[t] \cup {h.with}
      /\ \A u \in Tracks : u # t => outbox'[u] = outbox[u]
  <2>1. outbox' = [outbox EXCEPT ![t] = outbox[t] \cup {h.with}]
    <3>1. Track = t /\ With = h.with
      BY <1>3, <1>4 DEF Track, With
    <3>2. outbox \in [Tracks -> SUBSET AnyEvent]
      BY <1>4 DEF Types
    <3> QED BY <1>4, <3>1, <3>2 DEF AppendEvent
  <2>2. outbox \in [Tracks -> SUBSET AnyEvent]
    BY <1>4 DEF Types
  <2> QED BY <1>4, <1>5, <2>1, <2>2
<1>7. \A u \in Tracks : SameTape(u) /\ SameTrack(u)
  BY <1>1 DEF SameTape, SameTrack
<1>8. journal' \in [Tracks -> Journal] /\ queue' \in Seq(Segment) /\ ledger' \subseteq AnyEvent
  BY <1>1, <1>4 DEF Types
<1>9. CASE h.with.kind = "segment"
  <2>1. Quiet(Head(todo))
    BY <1>4, <1>5, <1>9 DEF Quiet
  <2>2. SegmentsOnly
    BY <1>1, <1>6, <1>9 DEF SegmentsOnly, Registered, Events
  <2>3. PICK N : N = {}
    OBVIOUS
  <2>4. /\ Chain(<<>>, N) /\ \A x \in N : Quiet(x) /\ x.track \in Tracks /\ Fits(phase, x.do)
        /\ \A x \in N, b \in In(Tail(todo)) : May(x, b)
    BY <2>3, ChainOfNone
  <2> QED BY <1>1, <1>6, <1>7, <1>8, <2>1, <2>2, <2>4, QuietTurn
<1>10. CASE h.with.kind # "segment"
  <2>1. \A S : h \notin S => Keeps(S)
    BY <1>4 DEF Keeps
  <2>2. Clock(t)' /\ Pieces(t)' /\ Disk(t)' /\ Cover(t)'
    <3>1. /\ Keeps(KindOf(t, ClockKinds)) /\ Keeps(KindOf(t, {"close", "closing"}))
          /\ Keeps(KindOf(t, {"skip"})) /\ Keeps(KindOf(t, {"close", "closing", "push", "recoverTail"}))
      BY <1>5, <2>1 DEF KindOf, ClockKinds
    <3>2. (Live' => Live) /\ (Over => Over') /\ phase' = phase /\ vad'[t] = vad[t] /\ SameTape(t)
          /\ Head(todo).do # "finish"
      BY <1>1, <1>4, <1>7 DEF Live, Over
    <3>3. Clock(t)'
      BY <1>4, <3>1, <3>2, ClockFrame DEF SameTape
    <3>4. Pieces(t)' /\ Disk(t)' /\ Cover(t)'
      BY <1>4, <3>1, <3>2, PiecesFrame, DiskFrame, CoverFrame
    <3> QED BY <3>3, <3>4
  <2>3. Announced(t)'
    <3>1. \A u : Behind(t, u)' <=> Behind(t, u)
      BY <1>4, <1>7, SameBehind
    <3>2. Has("recoverTail", t) => Has("recoverTail", t)'
      BY <1>4, <1>5 DEF Has
    <3>3. ASSUME NEW g \in journal[t].gaps
          PROVE  \/ \E e \in ledger : e.kind = "gap" /\ e.about = g
                 \/ ~Closed(t) /\ \E e \in outbox'[t] : e.kind = "gap" /\ e.about = g
                 \/ /\ ~Closed(t) /\ ~Behind(t, g.start)
                    /\ \/ phase \in {"failed", "down"}
                       \/ phase = "recovering" /\ Has("recoverTail", t)'
                       \/ \E x \in Steps' : GapAbout(x) /\ x.track = t /\ x.with.about = g
      <4>1. GapAbout(h) => h.with.kind = "gap"
        BY DEF GapAbout
      <4> QED BY <1>4, <1>6, <3>2, <4>1 DEF Announced
    <3> QED BY <1>1, <3>1, <3>3 DEF Announced, Closed
  <2>4. Sealing'
    <3>1. Seals' \subseteq Seals
      <4>1. h.with.kind = "seal" => IsSeal(h.with)
        BY <1>4, <1>5 DEF IsSeal
      <4>2. Tracks' = Tracks
        BY <1>1 DEF Tracks
      <4>3. ASSUME NEW e PROVE IsSeal(e)' => IsSeal(e)
        BY <1>1, <1>4, <1>6, <4>1, <4>2 DEF IsSeal
      <4>4. (\A e : e \in Seals <=> IsSeal(e))'
        BY SealsAre, PTL
      <4> QED BY <4>3, <4>4, SealsAre
    <3>2. h.do # "seal"
      BY <1>5
    <3>3. \A u \in Tracks : SameTape(u)
      BY <1>7
    <3> QED BY <1>1, <1>2, <3>1, <3>2, <3>3, SealingTurn
  <2>5. Direction1' /\ Direction2'
    <3>1. CASE h.with.kind = "boundary"
      <4>1. \A u \in Tracks : u # h.track => outbox'[u] = outbox[u]
        BY <1>3, <1>6
      <4>2. outbox'[h.track] = outbox[h.track] \cup {h.with}
        BY <1>3, <1>6
      <4> QED BY <1>1, <1>2, <1>5, <3>1, <4>1, <4>2, AppendBoundary
    <3>2. CASE h.with.kind # "boundary"
      <4>1. Keeps(Kind(DirectionKinds)) /\ Keeps(About("boundary"))
        BY <1>5, <2>1, <3>2 DEF Kind, DirectionKinds, About
      <4>2. SameDirections
        BY <1>1, <1>4, <1>6, <3>2, <4>1 DEF SameDirections, Direction1, InLedger
      <4>3. \A k \in {"changeDirection", "checkpoint"} : Has(k, Mic)' = Has(k, Mic)
        BY <1>4, <1>5 DEF Has
      <4>4. Mic \in Tracks
        BY <1>4, TheTracks
      <4>5. \A u \in Tracks : \A s \in Cut(u)' :
              s \in Cut(u) /\ journal'[u].segments[s] = journal[u].segments[s]
        BY <1>1 DEF Cut
      <4>6. Has("changeDirection", Mic)' /\ ~Has("checkpoint", Mic)' =>
              journal'[Mic].active = None /\ journal'[Mic].classified = vad'[Mic].cursor
        BY <1>1, <1>4, <4>3 DEF Direction1
      <4>7. Direction1'
        BY <1>1, <1>4, <1>7, <4>2, <4>4, <4>6, Direction1Frame
      <4>8. Direction2'
        BY <1>1, <1>4, <4>2, <4>4, <4>5, Direction2Frame
      <4> QED BY <4>7, <4>8
    <3> QED BY <3>1, <3>2
  <2>6. Fresh'
    BY <1>1, <1>4 DEF Fresh, Program, Tracks
  <2>7. \A u \in Tracks : u # h.track => SameTape(u) /\ vad'[u] = vad[u] /\ outbox'[u] = outbox[u]
    BY <1>1, <1>3, <1>6, <1>7
  <2>8. epoch' \in Nat \ {0} /\ vad' \in [Tracks -> [cursor : Nat, active : Active \cup {None}]]
    BY <1>1, <1>4 DEF Types
  <2>9. journal'[h.track].final = journal[h.track].final
    BY <1>1
  <2> QED BY <1>1, <1>2, <1>3, <1>6, <1>8, <2>2, <2>3, <2>4, <2>5, <2>6, <2>7, <2>8, <2>9, TurnKept
<1> QED BY <1>9, <1>10

(* save_capture_event, save_capture_seal_event: what the journal keeps of  *)
(* an event it has sent                                                    *)
LEMMA SaveKept == CaptureInv /\ Save => CaptureInv'
<1> SUFFICES ASSUME CaptureInv, Save PROVE CaptureInv'
  OBVIOUS
<1>1. todo # <<>> /\ Head(todo).do = "save" /\ Then(<<>>)
      /\ UNCHANGED <<sources, recording, outbox, ledger, phase, vad, epoch, queue, run>>
  BY DEF Save, Doing, memory
<1>2. PICK h, R : Turned(h, R, {})
  BY <1>1, DoneTurn
<1>3. PICK t : t = h.track
  OBVIOUS
<1>4. /\ Types /\ Program /\ Shape /\ Sealing /\ Direction1 /\ Direction2
      /\ h \in AnyStep /\ h = Head(todo) /\ t \in Tracks /\ t \in Both /\ Fits(phase, h.do)
      /\ Steps = {h} \cup R /\ Steps' = R /\ Steps' \subseteq AnyStep
      /\ Steps \subseteq AnyStep /\ R \subseteq AnyStep
      /\ \A b \in R : May(h, b)
      /\ Clock(t) /\ Pieces(t) /\ Disk(t) /\ Cover(t) /\ Announced(t)
      /\ journal[t] \in Journal /\ journal[t].final \in Nat /\ journal[t].classified \in Nat
      /\ journal[t].voiced \subseteq Nat /\ journal[t].pcm \subseteq Nat
      /\ Cut(t) \subseteq Segment /\ journal[t].gaps \subseteq Gap
      /\ journal[t].boundaries \subseteq BoundaryEvent
      /\ vad[t].cursor \in Nat /\ Low(t) \in Nat /\ From(t) \in Nat
      /\ \A u \in journal[t].voiced \cup journal[t].pcm : u < journal[t].final
      /\ \A x \in R : x.do \in {"direction", "changeDirection", "boundary"} => x.track = t
  BY <1>2, <1>3, DoneFacts
<1>5. h.do = "save" /\ h.with \in SegmentEvent \cup SealEvent
  BY <1>1, <1>4, TypedStep
<1>6. Track = t /\ With = h.with
  BY <1>3, <1>4 DEF Track, With
<1>7. CASE h.with.kind # "seal"
  <2>1. h.with \in SegmentEvent /\ h.with.kind = "segment"
    BY <1>5, <1>7 DEF SegmentEvent, SealEvent
  <2> DEFINE j == [journal[t] EXCEPT !.saved = journal[t].saved \cup {h.with}]
  <2>2. journal[t].saved \cup {h.with} \in SUBSET SegmentEvent
    BY <1>4, <2>1, TypedTrack
  <2>3. j \in Journal
    BY <1>4, <2>2, WrittenJournal
  <2>4. \A f \in {"final", "classified", "active", "pcm", "voiced", "segments", "gaps", "boundaries",
                  "closed", "seal"} : j[f] = journal[t][f]
    BY <1>4 DEF Journal
  <2>5. journal' = [journal EXCEPT ![t] = j]
    BY <1>6, <1>7 DEF Save
  <2> HIDE DEF j
  <2>6. journal' \in [Tracks -> Journal] /\ \A u \in Tracks : SameTrack(u)
    BY <1>4, <2>3, <2>4, <2>5, QuietField
  <2>7. queue' \in Seq(Segment)
    BY <1>1, <1>4 DEF Types
  <2>8. Quiet(Head(todo))
    BY <1>4, <1>5, <2>1 DEF Quiet
  <2> QED BY <1>1, <2>6, <2>7, <2>8, ChainOfNone, QuietOnly
<1>8. CASE h.with.kind = "seal"
  <2>1. h.with \in SealEvent
    BY <1>5, <1>8 DEF SegmentEvent, SealEvent
  <2> DEFINE j == [journal[t] EXCEPT !.seal = {h.with}]
  <2>2. j \in Journal
    BY <1>4, <2>1, WrittenJournal
  <2>3. /\ \A f \in {"final", "classified", "active", "pcm", "voiced", "segments", "gaps", "boundaries",
                     "closed"} : j[f] = journal[t][f]
        /\ j.seal = {h.with}
    BY <1>4 DEF Journal
  <2>4. journal' = [journal EXCEPT ![t] = j]
    BY <1>6, <1>8 DEF Save
  <2> HIDE DEF j
  <2>5. /\ journal' \in [Tracks -> Journal] /\ journal'[t] = j
        /\ \A u \in Tracks : u # t => SameTape(u) /\ journal'[u] = journal[u]
    BY <1>4, <2>2, <2>4, OneJournal
  <2>6. \A u \in Tracks : SameTape(u)
    BY <2>3, <2>5 DEF SameTape
  <2>7. \A S : h \notin S => Keeps(S)
    BY <1>4 DEF Keeps
  <2>8. Clock(t)' /\ Pieces(t)' /\ Disk(t)' /\ Cover(t)' /\ Announced(t)'
    <3>1. Keeps(KindOf(t, TrackKinds))
      BY <1>5, <2>7 DEF KindOf, TrackKinds, ClockKinds
    <3>2. \A x \in Steps : GapAbout(x) /\ x.track = t => x \in Steps'
      BY <1>4, <1>5 DEF GapAbout
    <3>3. Head(todo).do # "finish"
      BY <1>1
    <3> QED BY <1>1, <1>4, <2>6, <3>1, <3>2, <3>3, TrackFrame
  <2>9. Sealing'
    <3>1. Seals' \subseteq Seals
      <4>1. IsSeal(h.with)
        BY <1>4, <1>5, <1>8 DEF IsSeal
      <4>2. Tracks' = Tracks
        BY <1>1 DEF Tracks
      <4>3. ASSUME NEW e PROVE IsSeal(e)' => IsSeal(e)
        BY <1>1, <1>4, <2>3, <2>5, <4>1, <4>2 DEF IsSeal
      <4>4. (\A e : e \in Seals <=> IsSeal(e))'
        BY SealsAre, PTL
      <4> QED BY <4>3, <4>4, SealsAre
    <3>2. h.do # "seal"
      BY <1>5
    <3> QED BY <1>1, <1>2, <2>6, <3>1, <3>2, SealingTurn
  <2>10. Direction1' /\ Direction2'
    <3>1. Keeps(Kind(DirectionKinds)) /\ Keeps(About("boundary"))
      BY <1>5, <1>8, <2>7 DEF Kind, DirectionKinds, About
    <3>2. SameDirections
      BY <1>1, <1>4, <2>6, <3>1 DEF SameDirections, SameTape
    <3>3. \A k \in {"changeDirection", "checkpoint"} : Has(k, Mic)' = Has(k, Mic)
      BY <1>4, <1>5 DEF Has
    <3>4. Mic \in Tracks
      BY <1>4, TheTracks
    <3>5. \A u \in Tracks : \A s \in Cut(u)' :
            s \in Cut(u) /\ journal'[u].segments[s] = journal[u].segments[s]
      BY <2>6 DEF Cut, SameTape
    <3>6. Has("changeDirection", Mic)' /\ ~Has("checkpoint", Mic)' =>
            journal'[Mic].active = None /\ journal'[Mic].classified = vad'[Mic].cursor
      BY <1>1, <1>4, <2>6, <3>3, <3>4 DEF Direction1, SameTape
    <3>7. Direction1'
      BY <1>1, <1>4, <2>6, <3>2, <3>4, <3>6, Direction1Frame
    <3>8. journal'[Mic].final = journal[Mic].final
      BY <2>6, <3>4 DEF SameTape
    <3>9. Direction2'
      BY <1>1, <1>4, <3>2, <3>4, <3>5, <3>8, Direction2Frame
    <3> QED BY <3>7, <3>9
  <2>11. Fresh'
    BY <1>1, <1>4, <2>6 DEF Fresh, Program, Tracks, SameTape
  <2>12. \A u \in Tracks : u # h.track => SameTape(u) /\ vad'[u] = vad[u] /\ outbox'[u] = outbox[u]
    BY <1>1, <2>6
  <2>13. /\ outbox' \in [Tracks -> SUBSET AnyEvent] /\ epoch' \in Nat \ {0}
         /\ vad' \in [Tracks -> [cursor : Nat, active : Active \cup {None}]]
    BY <1>1, <1>4 DEF Types
  <2>14. journal'[h.track].final = journal[h.track].final
    BY <1>3, <1>4, <2>6 DEF SameTape
  <2> QED BY <1>1, <1>2, <1>3, <2>5, <2>8, <2>9, <2>10, <2>11, <2>12, <2>13, <2>14, TurnKept
<1> QED BY <1>7, <1>8

----------------------------------------------------------------------------
(* A boundary is noted in the journal.                                     *)

(* It stands where every segment has ended, and behind every segment.      *)
LEMMA SaveBoundaryKept == CaptureInv /\ SaveBoundary => CaptureInv'
<1> SUFFICES ASSUME CaptureInv, SaveBoundary PROVE CaptureInv'
  OBVIOUS
<1>1. todo # <<>> /\ Head(todo).do = "boundary" /\ Then(<<>>)
      /\ UNCHANGED <<sources, recording, outbox, ledger, phase, vad, epoch, queue, run>>
  BY DEF SaveBoundary, Doing, memory
<1>2. PICK h, R : Turned(h, R, {})
  BY <1>1, DoneTurn
<1>3. PICK t : t = h.track
  OBVIOUS
<1>4. /\ Types /\ Program /\ Shape /\ Sealing /\ Direction1 /\ Direction2
      /\ h \in AnyStep /\ h = Head(todo) /\ t \in Tracks /\ t \in Both /\ Fits(phase, h.do)
      /\ Steps = {h} \cup R /\ Steps' = R /\ Steps' \subseteq AnyStep
      /\ Steps \subseteq AnyStep /\ R \subseteq AnyStep
      /\ \A b \in R : May(h, b)
      /\ Clock(t) /\ Pieces(t) /\ Disk(t) /\ Cover(t) /\ Announced(t)
      /\ journal[t] \in Journal /\ journal[t].final \in Nat /\ journal[t].classified \in Nat
      /\ journal[t].voiced \subseteq Nat /\ journal[t].pcm \subseteq Nat
      /\ Cut(t) \subseteq Segment /\ journal[t].gaps \subseteq Gap
      /\ journal[t].boundaries \subseteq BoundaryEvent
      /\ vad[t].cursor \in Nat /\ Low(t) \in Nat /\ From(t) \in Nat
      /\ \A u \in journal[t].voiced \cup journal[t].pcm : u < journal[t].final
      /\ \A x \in R : x.do \in {"direction", "changeDirection", "boundary"} => x.track = t
  BY <1>2, <1>3, DoneFacts
<1>5. h.do = "boundary" /\ h.with \in BoundaryEvent /\ ~Dual /\ Tracks = {Mic} /\ t = Mic
  <2>1. h.do = "boundary" /\ h.with \in BoundaryEvent
    BY <1>1, <1>4, TypedStep
  <2>2. ~Dual
    BY <1>4, <2>1 DEF Shape
  <2> QED BY <1>4, <2>1, <2>2, TheTracks
<1>6. /\ phase = "live" /\ h.with.about.start = journal[t].final /\ vad[t].cursor = journal[t].final
      /\ journal[t].classified = journal[t].final
      /\ vad[t].active = None /\ journal[t].active = None
  BY <1>4, <1>5 DEF Direction1
<1>7. \A x \in R : /\ x.do \notin {"close", "closing", "changeDirection", "boundary"} /\ x.track = t
                   /\ ~(BoundaryAbout(x) /\ x.do = "append")
  <2>1. \A x \in R : x.track = t
    BY <1>2, <1>5 DEF Turned
  <2> QED BY <1>3, <1>4, <1>5, <2>1 DEF May, CloseKinds
<1>8. ~Closed(t)
  BY <1>4, <1>6 DEF Sealing
<1> DEFINE j == [journal[t] EXCEPT !.boundaries = journal[t].boundaries \cup {h.with}]
<1>9. j \in Journal
  <2>1. journal[t].boundaries \cup {h.with} \in SUBSET BoundaryEvent
    BY <1>4, <1>5
  <2> QED BY <1>4, <2>1, WrittenJournal
<1>10. /\ \A f \in {"final", "classified", "active", "pcm", "voiced", "segments", "gaps", "closed", "seal"} :
            j[f] = journal[t][f]
       /\ j.boundaries = journal[t].boundaries \cup {h.with}
  BY <1>4 DEF Journal
<1>11. journal' = [journal EXCEPT ![t] = j]
  <2>1. Track = t /\ With = h.with
    BY <1>3, <1>4 DEF Track, With
  <2> QED BY <2>1 DEF SaveBoundary
<1> HIDE DEF j
<1>12. /\ journal' \in [Tracks -> Journal] /\ journal'[t] = j
       /\ \A u \in Tracks : u # t => SameTape(u) /\ journal'[u] = journal[u]
  BY <1>4, <1>9, <1>11, OneJournal
<1>13. /\ Cut(t)' = Cut(t) /\ From(t)' = From(t) /\ Low(t)' = Low(t) /\ Closed(t)' = Closed(t)
       /\ Live' = Live /\ Over' = Over
       /\ From(t) = journal[t].final /\ Low(t) = journal[t].final
  BY <1>1, <1>6, <1>10, <1>12 DEF Cut, From, Low, Closed, Live, Over
<1>14. Pending(t) = {} /\ Pending(t)' = {}
  BY <1>4, <1>5, <1>7 DEF Pending
<1>15. \A k : k # "boundary" => \A u : Has(k, u)' = Has(k, u)
  BY <1>4, <1>5 DEF Has
<1>16. \A S : h \notin S => Keeps(S)
  BY <1>4 DEF Keeps
<1>17. Clock(t)'
  <2>1. Keeps(KindOf(t, ClockKinds))
    BY <1>5, <1>16 DEF KindOf, ClockKinds
  <2> QED BY <1>1, <1>4, <1>6, <1>10, <1>12, <2>1, ClockFrame
<1>18. Pieces(t)'
  <2>1. \A x \in Steps' : x.do # "closing"
    BY <1>4, <1>7
  <2> QED BY <1>14, <2>1 DEF Pieces
<1>19. Disk(t)'
  <2>1. \A b \in j.boundaries : b.about.start <= Low(t) /\ (Live => b.about.start <= From(t))
    <3>1. h.with.about.start <= Low(t) /\ h.with.about.start <= From(t)
      BY <1>4, <1>6, <1>13
    <3> QED BY <1>4, <1>10, <3>1 DEF Disk
  <2>2. \A u : Behind(t, u)' <=> Behind(t, u)
    BY <1>13 DEF Behind
  <2>3. Has("skip", t)' = Has("skip", t)
    BY <1>15
  <2> QED BY <1>4, <1>10, <1>12, <1>13, <2>1, <2>2, <2>3 DEF Disk
<1>20. Cover(t)'
  <2>1. Has("push", t)' = Has("push", t) /\ Has("recoverTail", t)' = Has("recoverTail", t)
    BY <1>15
  <2> QED BY <1>1, <1>4, <1>10, <1>12, <1>13, <1>14, <2>1 DEF Cover
<1>21. Announced(t)'
  <2>1. Keeps(KindOf(t, {"recoverTail"}))
    BY <1>5, <1>16 DEF KindOf
  <2>2. \A x \in Steps : GapAbout(x) /\ x.track = t => x \in Steps'
    BY <1>4, <1>5 DEF GapAbout
  <2>3. \A u : Behind(t, u)' <=> Behind(t, u)
    BY <1>13 DEF Behind
  <2> QED BY <1>1, <1>4, <1>10, <1>12, <2>1, <2>2, <2>3, AnnouncedFrame
<1>22. Tracks' = Tracks
  BY <1>1 DEF Tracks
<1>23. Sealing'
  <2>1. \A u \in Tracks : journal'[u].seal = journal[u].seal
    BY <1>5, <1>10, <1>12
  <2>2. \A x \in Steps' : x \in About("seal") => x \in Steps
    BY <1>4
  <2>3. Seals' \subseteq Seals
    BY <1>1, <1>4, <2>1, <2>2, SealsKept
  <2>4. \A u \in Tracks : ~Closed(u) /\ journal'[u].closed = journal[u].closed
    BY <1>5, <1>8, <1>10, <1>12
  <2>5. h.do # "seal"
    BY <1>5
  <2> QED BY <1>1, <1>2, <2>3, <2>4, <2>5, SealingTurn
<1>24. /\ Noted' = Noted \cup {h.with} /\ Sent' = Sent /\ InLedger' = InLedger /\ Dual' = Dual
       /\ journal'[Mic].final = journal[Mic].final
  BY <1>1, <1>5, <1>10, <1>12 DEF Noted, Sent, InLedger, Dual
<1>25. Direction1'
  <2>1. \A x \in Steps' : x.do = "boundary" \/ BoundaryAbout(x) =>
          \E y \in Steps' : y.do = "inForce" /\ y.with = x.with
    BY <1>4, <1>5 DEF Direction1
  <2>2. ASSUME NEW x \in Steps', x.do = "inForce"
        PROVE  /\ x.with \in Noted'
               /\ \/ x.with \in ledger
                  \/ \E y \in Steps' : y.do \in {"flush", "resend"} /\ y.with = x.with /\ y.track = Mic
               /\ epoch <= x.with.about.epoch
               /\ \A y \in Steps' : y.do = "replaying" =>
                    \A c \in y.with : x.with.about.epoch <= c.about.epoch
    <3>1. x \in Steps /\ \A y \in Steps : y.do = "boundary" => y = h
      BY <1>4, <1>7
    <3>2. x.with \in Noted'
      BY <1>4, <1>24, <2>2, <3>1 DEF Direction1
    <3>3. \/ x.with \in ledger
          \/ \E y \in Steps' : y.do \in {"flush", "resend"} /\ y.with = x.with /\ y.track = Mic
      BY <1>4, <1>5, <2>2, <3>1 DEF Direction1
    <3> QED BY <1>4, <2>2, <3>1, <3>2, <3>3 DEF Direction1
  <2>3. ~Has("changeDirection", Mic)' /\ \A x \in Steps' : x.do # "boundary"
    BY <1>4, <1>7 DEF Has
  <2>4. /\ \A x \in Steps' : x.do = "replaying" =>
             x.with \subseteq Noted' /\ \A c \in x.with : epoch <= c.about.epoch
        /\ \A x \in Steps' : x.do = "resend" /\ BoundaryAbout(x) => x.with \in Noted'
        /\ Has("replayDirections", Mic)' => epoch = 1
    BY <1>4, <1>15, <1>24 DEF Direction1
  <2>5. \A x \in Steps' : ~(BoundaryAbout(x) /\ x.do = "append")
    BY <1>4, <1>7
  <2> QED BY <1>1, <1>5, <1>22, <1>24, <2>1, <2>2, <2>3, <2>4, <2>5 DEF Direction1
<1>26. Direction2'
  <2>1. \A b \in Sent' : b \in Noted'
          \/ /\ b.about.start = journal'[Mic].final
             /\ Over' \/ phase' = "recovering" \/ \E x \in Steps' : x.do = "boundary" /\ x.with = b
    <3>1. \A x \in Steps : x.do = "boundary" => x = h
      BY <1>4, <1>7
    <3>2. ~Over /\ phase # "recovering"
      BY <1>6 DEF Over
    <3> QED BY <1>4, <1>24, <3>1, <3>2 DEF Direction2
  <2>2. epoch = 1 \/ \E b \in Noted' \cap ledger : b.about.epoch = epoch
    BY <1>4, <1>24 DEF Direction2
  <2>3. ~Over => \A b \in Noted' :
          \/ b.about.epoch <= epoch \/ Has("replayDirections", Mic)'
          \/ \E x \in Steps' : x.do = "inForce" /\ x.with = b
          \/ \E x \in Steps' : x.do = "replaying" /\ b \in x.with
    <3>1. \E x \in Steps' : x.do = "inForce" /\ x.with = h.with
      BY <1>4, <1>5 DEF Direction1
    <3>2. Has("replayDirections", Mic)' = Has("replayDirections", Mic)
      BY <1>15
    <3>3. \A x \in Steps : x.do \in {"inForce", "replaying"} => x \in Steps'
      BY <1>4, <1>5
    <3> QED BY <1>4, <1>24, <3>1, <3>2, <3>3 DEF Direction2
  <2>4. ASSUME NEW s \in Cut(Mic) PROVE ~(h.with.about.start <= s.start)
    <3>1. s.start < s.end /\ s.end <= journal[Mic].final /\ s.start \in Nat /\ s.end \in Nat
      BY <1>4, <1>5, TypedSegment DEF Disk
    <3> QED BY <1>4, <1>5, <1>6, <3>1
  <2>5. ASSUME NEW s \in Cut(Mic)
        PROVE  /\ \/ journal[Mic].segments[s] = 1
                  \/ \E b \in InLedger : /\ b.about.epoch = journal[Mic].segments[s]
                                         /\ b.about.start <= s.start
               /\ \A b \in Sent \cup Noted' :
                    b.about.start <= s.start => b.about.epoch <= journal[Mic].segments[s]
    BY <1>4, <1>5, <1>24, <2>4, <2>5 DEF Direction2
  <2>6. journal'[Mic].segments = journal[Mic].segments /\ Cut(Mic)' = Cut(Mic)
    BY <1>5, <1>10, <1>12, <1>13
  <2> QED BY <1>1, <1>5, <1>13, <1>22, <1>24, <2>1, <2>2, <2>3, <2>5, <2>6 DEF Direction2
<1>27. Fresh'
  BY <1>1, <1>6 DEF Fresh
<1>28. /\ outbox' \in [Tracks -> SUBSET AnyEvent] /\ epoch' \in Nat \ {0}
       /\ vad' \in [Tracks -> [cursor : Nat, active : Active \cup {None}]]
  BY <1>1, <1>4 DEF Types
<1>29. \A u \in Tracks : u # h.track => SameTape(u) /\ vad'[u] = vad[u] /\ outbox'[u] = outbox[u]
  BY <1>1, <1>3, <1>12
<1>30. journal'[h.track].final = journal[h.track].final
  BY <1>3, <1>5, <1>24
<1> QED BY <1>1, <1>2, <1>3, <1>12, <1>17, <1>18, <1>19, <1>20, <1>21, <1>23, <1>25, <1>26, <1>27,
           <1>28, <1>29, <1>30, TurnKept

----------------------------------------------------------------------------
(* A direction comes into force.                                           *)

(* It is in the journal and in the ledger by then, and no older one is     *)
(* left.                                                                   *)
LEMMA InForceKept == CaptureInv /\ InForce => CaptureInv'
<1> SUFFICES ASSUME CaptureInv, InForce PROVE CaptureInv'
  OBVIOUS
<1>1. todo # <<>> /\ Head(todo).do = "inForce" /\ Then(<<>>)
      /\ UNCHANGED <<sources, recording, outbox, ledger, phase, vad, queue, run>>
  BY DEF InForce, Doing
<1>2. PICK h, R : Turned(h, R, {})
  BY <1>1, DoneTurn
<1>3. PICK t : t = h.track
  OBVIOUS
<1>4. /\ Types /\ Program /\ Shape /\ Sealing /\ Direction1 /\ Direction2
      /\ h \in AnyStep /\ h = Head(todo) /\ t \in Tracks /\ t \in Both /\ Fits(phase, h.do)
      /\ Steps = {h} \cup R /\ Steps' = R /\ Steps' \subseteq AnyStep
      /\ Steps \subseteq AnyStep /\ R \subseteq AnyStep
      /\ \A b \in R : May(h, b)
      /\ Clock(t) /\ Pieces(t) /\ Disk(t) /\ Cover(t) /\ Announced(t)
      /\ journal[t] \in Journal /\ journal[t].final \in Nat /\ journal[t].classified \in Nat
      /\ journal[t].voiced \subseteq Nat /\ journal[t].pcm \subseteq Nat
      /\ Cut(t) \subseteq Segment /\ journal[t].gaps \subseteq Gap
      /\ journal[t].boundaries \subseteq BoundaryEvent
      /\ vad[t].cursor \in Nat /\ Low(t) \in Nat /\ From(t) \in Nat
      /\ \A u \in journal[t].voiced \cup journal[t].pcm : u < journal[t].final
      /\ \A x \in R : x.do \in {"direction", "changeDirection", "boundary"} => x.track = t
  BY <1>2, <1>3, DoneFacts
<1>5. h.do = "inForce" /\ h.with \in BoundaryEvent /\ h.with.kind = "boundary" /\ t = Mic
      /\ Mic \in Tracks
  BY <1>1, <1>3, <1>4, BoundarySteps1
<1>6. \A x \in R : /\ x.do \notin {"boundary", "inForce"} /\ ~BoundaryAbout(x)
                   /\ x.track = Mic => x.do \notin {"changeDirection", "replayDirections"}
  <2>1. ASSUME NEW x \in R, x.do \in {"boundary", "inForce"} \/ BoundaryAbout(x)
        PROVE  x.track = Mic
    <3>1. CASE x.do \in {"boundary", "inForce"}
      BY <1>4, <3>1, BoundarySteps1
    <3>2. CASE BoundaryAbout(x) /\ x.track # Mic
      <4>1. x.track \in Tracks
        BY <1>2 DEF Turned
      <4> QED BY <1>4, <3>2, <4>1 DEF Direction1
    <3> QED BY <2>1, <3>1, <3>2
  <2> QED BY <1>3, <1>4, <1>5, <2>1 DEF May, CloseKinds
<1>7. h.with \in Noted
  <2>1. h.with \in Noted \/ \E y \in Steps : y.do = "boundary" /\ y.with = h.with
    BY <1>4, <1>5 DEF Direction1
  <2> QED BY <1>4, <1>5, <1>6, <2>1
<1>8. h.with \in ledger
  <2>1. h.with \in ledger \/ \E y \in Steps : y.do \in {"flush", "resend"} /\ y.with = h.with
    BY <1>4, <1>5 DEF Direction1
  <2> QED BY <1>4, <1>5, <1>6, <2>1 DEF BoundaryAbout
<1>9. /\ epoch <= h.with.about.epoch
      /\ \A y \in Steps : y.do = "replaying" => \A c \in y.with : h.with.about.epoch <= c.about.epoch
  BY <1>4, <1>5 DEF Direction1
<1>10. epoch' = h.with.about.epoch /\ epoch' \in Nat \ {0} /\ epoch \in Nat
  BY <1>4, <1>5 DEF InForce, With, BoundaryEvent, Types
<1> DEFINE j == [journal[t] EXCEPT !.acknowledged = journal[t].acknowledged \cup {h.with}]
<1>11. j \in Journal
  <2>1. journal[t].acknowledged \cup {h.with} \in SUBSET BoundaryEvent
    BY <1>4, <1>5, TypedTrack
  <2> QED BY <1>4, <2>1, WrittenJournal
<1>12. \A f \in {"final", "classified", "active", "pcm", "voiced", "segments", "gaps", "boundaries",
                 "closed", "seal"} : j[f] = journal[t][f]
  BY <1>4 DEF Journal
<1>13. journal' = [journal EXCEPT ![t] = j]
  <2>1. Track = t /\ With = h.with
    BY <1>3, <1>4 DEF Track, With
  <2> QED BY <2>1 DEF InForce
<1> HIDE DEF j
<1>14. journal' \in [Tracks -> Journal] /\ \A u \in Tracks : SameTrack(u)
  BY <1>4, <1>11, <1>12, <1>13, QuietField
<1>15. \A u \in Tracks : SameTape(u)
  BY <1>14 DEF SameTrack
<1>16. Clock(t)' /\ Pieces(t)' /\ Disk(t)' /\ Cover(t)' /\ Announced(t)'
  <2>1. Keeps(KindOf(t, TrackKinds))
    BY <1>4, <1>5 DEF Keeps, KindOf, TrackKinds, ClockKinds
  <2>2. \A x \in Steps : GapAbout(x) /\ x.track = t => x \in Steps'
    BY <1>4, <1>5 DEF GapAbout
  <2>3. Head(todo).do # "finish"
    BY <1>1
  <2> QED BY <1>1, <1>4, <1>15, <2>1, <2>2, <2>3, TrackFrame
<1>17. Sealing'
  <2>1. \A u \in Tracks : journal'[u].seal = journal[u].seal
    BY <1>14 DEF SameTrack
  <2>2. \A x \in Steps' : x \in About("seal") => x \in Steps
    BY <1>4
  <2>3. Seals' \subseteq Seals
    BY <1>1, <1>4, <2>1, <2>2, SealsKept
  <2>4. h.do # "seal"
    BY <1>5
  <2> QED BY <1>1, <1>2, <1>15, <2>3, <2>4, SealingTurn
<1>18. /\ Noted' = Noted /\ Sent' = Sent /\ InLedger' = InLedger /\ Dual' = Dual /\ Tracks' = Tracks
       /\ Over' = Over
  BY <1>1, <1>5, <1>15 DEF Noted, Sent, InLedger, Dual, Tracks, Over, SameTape
<1>19. ~Has("replayDirections", Mic) /\ ~Has("replayDirections", Mic)' /\ ~Has("changeDirection", Mic)'
  BY <1>4, <1>5, <1>6 DEF Has
<1>20. Direction1'
  <2>1. \A x \in Steps' : x.do = "replaying" =>
          x.with \subseteq Noted /\ \A c \in x.with : epoch' <= c.about.epoch
    BY <1>4, <1>9, <1>10 DEF Direction1
  <2>2. \A x \in Steps' : x.do \notin {"boundary", "inForce"} /\ ~BoundaryAbout(x)
    BY <1>4, <1>6
  <2>3. \A u \in Tracks : u # Mic => journal'[u].boundaries = {} /\ \A e \in outbox'[u] : e.kind # "boundary"
    BY <1>1, <1>4, <1>15 DEF Direction1, SameTape
  <2>4. Dual => Noted = {} /\ Sent = {}
    BY <1>4 DEF Direction1
  <2> QED BY <1>18, <1>19, <2>1, <2>2, <2>3, <2>4 DEF Direction1
<1>21. Direction2'
  <2>1. \A b \in Sent : b \in Noted
          \/ /\ b.about.start = journal[Mic].final
             /\ Over \/ phase = "recovering"
    BY <1>4, <1>5, <1>6 DEF Direction2
  <2>2. ~Over => \A b \in Noted :
          \/ b.about.epoch <= epoch'
          \/ \E x \in Steps' : x.do = "replaying" /\ b \in x.with
    <3>1. \A b \in Noted : b.about.epoch \in Nat
      BY <1>4, <1>5 DEF Noted, BoundaryEvent
    <3>2. \A x \in Steps : x.do = "inForce" => x = h
      BY <1>4, <1>6
    <3>3. \A b \in Noted : b.about.epoch <= epoch => b.about.epoch <= epoch'
      BY <1>9, <1>10, <3>1
    <3>4. \A x \in Steps : x.do = "replaying" => x \in Steps'
      BY <1>4, <1>5
    <3>5. h.with.about.epoch <= epoch'
      BY <1>10
    <3> QED BY <1>4, <1>19, <3>2, <3>3, <3>4, <3>5 DEF Direction2
  <2>3. \E b \in Noted \cap ledger : b.about.epoch = epoch'
    BY <1>7, <1>8, <1>10
  <2>4. \A u \in Tracks : Cut(u)' = Cut(u) /\ journal'[u].segments = journal[u].segments
    BY <1>15 DEF Cut, SameTape
  <2>5. ASSUME NEW u \in Tracks, NEW s \in Cut(u)
        PROVE  /\ \/ journal[u].segments[s] = 1
                  \/ \E b \in InLedger : /\ b.about.epoch = journal[u].segments[s]
                                         /\ b.about.start <= s.start
               /\ \A b \in Sent \cup Noted :
                    b.about.start <= s.start => b.about.epoch <= journal[u].segments[s]
    BY <1>4, <2>5 DEF Direction2
  <2>6. journal'[Mic].final = journal[Mic].final
    BY <1>5, <1>15 DEF SameTape
  <2> QED BY <1>1, <1>18, <2>1, <2>2, <2>3, <2>4, <2>5, <2>6 DEF Direction2
<1>22. Fresh'
  BY <1>1, <1>4, <1>15 DEF Fresh, Program, Tracks, SameTape
<1>23. /\ outbox' \in [Tracks -> SUBSET AnyEvent]
       /\ vad' \in [Tracks -> [cursor : Nat, active : Active \cup {None}]]
  BY <1>1, <1>4 DEF Types
<1>24. \A u \in Tracks : u # h.track => SameTape(u) /\ vad'[u] = vad[u] /\ outbox'[u] = outbox[u]
  BY <1>1, <1>15
<1>25. journal'[h.track].final = journal[h.track].final
  BY <1>3, <1>4, <1>15 DEF SameTape
<1> QED BY <1>1, <1>2, <1>3, <1>10, <1>14, <1>16, <1>17, <1>20, <1>21, <1>22, <1>23, <1>24, <1>25,
           TurnKept

----------------------------------------------------------------------------
(* The boundaries of a journal are sent again, the oldest first.           *)

(* A replay touches nothing but the directions.                            *)
LEMMA ReplayTurnKept ==
  ASSUME CaptureInv, NEW h, NEW R, NEW N, Turned(h, R, N), h.do \in {"replayDirections", "replaying"},
         \A x \in N : x.do \in {"resend", "inForce", "replaying"},
         \A x \in N : x.do = "resend" => x.with.kind = "boundary",
         UNCHANGED <<journal, outbox, ledger, vad, epoch, queue>>, Direction1', Direction2'
  PROVE  CaptureInv'
<1>3. PICK t : t = h.track
  OBVIOUS
<1>4. /\ Types /\ Program /\ Shape /\ Sealing /\ Direction1 /\ Direction2
      /\ h \in AnyStep /\ h = Head(todo) /\ t \in Tracks /\ t \in Both /\ Fits(phase, h.do)
      /\ Steps = {h} \cup R /\ Steps' = N \cup R /\ Steps' \subseteq AnyStep
      /\ Steps \subseteq AnyStep /\ R \subseteq AnyStep
      /\ \A b \in R : May(h, b)
      /\ Clock(t) /\ Pieces(t) /\ Disk(t) /\ Cover(t) /\ Announced(t)
      /\ journal[t] \in Journal /\ journal[t].final \in Nat /\ journal[t].classified \in Nat
      /\ journal[t].voiced \subseteq Nat /\ journal[t].pcm \subseteq Nat
      /\ Cut(t) \subseteq Segment /\ journal[t].gaps \subseteq Gap
      /\ journal[t].boundaries \subseteq BoundaryEvent
      /\ vad[t].cursor \in Nat /\ Low(t) \in Nat /\ From(t) \in Nat
      /\ \A u \in journal[t].voiced \cup journal[t].pcm : u < journal[t].final
      /\ \A x \in R : x.do \in {"direction", "changeDirection", "boundary"} => x.track = t
  BY <1>3, TurnFacts
<1>5. UNCHANGED <<sources, phase>>
  BY DEF Turned
<1>6. \A u \in Tracks : SameTape(u)
  BY DEF SameTape
<1>7. Clock(t)' /\ Pieces(t)' /\ Disk(t)' /\ Cover(t)' /\ Announced(t)'
  <2>1. Keeps(KindOf(t, TrackKinds))
    BY <1>4 DEF Keeps, KindOf, TrackKinds, ClockKinds
  <2>2. \A x \in Steps : GapAbout(x) /\ x.track = t => x \in Steps'
    BY <1>4 DEF GapAbout
  <2>3. Head(todo).do # "finish"
    BY <1>4
  <2> QED BY <1>4, <1>5, <1>6, <2>1, <2>2, <2>3, TrackFrame
<1>8. Sealing'
  <2>1. \A x \in Steps' : x \in About("seal") => x \in Steps
    BY <1>4 DEF About
  <2>2. Seals' \subseteq Seals
    BY <1>4, <1>5, <2>1, SealsKept
  <2>3. /\ h.do # "seal" /\ \A x \in N : x.do \notin {"publish", "last", "direction", "changeDirection"}
        /\ \A x \in N : x.do \notin TapeKinds
    BY DEF TapeKinds
  <2> QED BY <1>6, <2>2, <2>3, SealingTurn
<1>9. Fresh'
  BY <1>4, <1>5 DEF Fresh, Program, Tracks
<1>10. /\ journal' \in [Tracks -> Journal] /\ outbox' \in [Tracks -> SUBSET AnyEvent]
       /\ vad' \in [Tracks -> [cursor : Nat, active : Active \cup {None}]] /\ epoch' \in Nat \ {0}
  BY <1>4 DEF Types
<1>11. \A u \in Tracks : u # h.track => SameTape(u) /\ vad'[u] = vad[u] /\ outbox'[u] = outbox[u]
  BY <1>6
<1>12. \A x \in N : x.do \notin {"record", "advance", "noteGap", "gapTo", "direction",
                                 "changeDirection", "boundary"}
  OBVIOUS
<1> QED BY <1>3, <1>7, <1>8, <1>9, <1>10, <1>11, <1>12, TurnKept

(* What stands behind a replay stands behind what it calls.                *)
LEMMA MayReplay ==
  ASSUME NEW h \in AnyStep, NEW b \in AnyStep, May(h, b), h.do \in {"replayDirections", "replaying"},
         NEW x \in AnyStep, x.track = h.track, x.do \in {"resend", "inForce", "replaying"}
  PROVE  /\ May(x, b)
         /\ b.track = h.track =>
              b.do \notin {"boundary", "inForce", "replaying", "replayDirections"} /\ ~BoundaryAbout(b)
<1>1. b.track = h.track =>
        /\ b.do \notin {"close", "closing", "advance", "noteGap", "skip", "record", "push",
                        "changeDirection", "boundary", "inForce", "replayDirections", "replaying",
                        "hear", "tail", "gapTo"}
        /\ ~GapAbout(b) /\ ~BoundaryAbout(b)
  BY DEF May, CloseKinds
<1>2. CASE b.track # h.track
  BY <1>2 DEF May
<1>3. CASE b.track = h.track
  BY <1>1, <1>3 DEF May
<1> QED BY <1>1, <1>2, <1>3

(* The oldest of some boundaries                                           *)
LEMMA OldestIs ==
  ASSUME NEW S, S \subseteq BoundaryEvent, S # {}
  PROVE  \E b \in S : \A c \in S : b.about.epoch <= c.about.epoch
<1> DEFINE E == {c.about.epoch : c \in S}
<1>1. E \subseteq Nat /\ E # {}
  BY DEF BoundaryEvent
<1>2. PICK n \in E : \A m \in E : n <= m
  BY <1>1, LeastNatural
<1>3. PICK b \in S : n = b.about.epoch
  BY <1>2
<1> QED BY <1>2, <1>3

(* Nothing is left to replay.                                              *)
LEMMA ReplayOver ==
  ASSUME CaptureInv, NEW h, NEW R, Turned(h, R, {}), h.do \in {"replayDirections", "replaying"},
         h.do = "replaying" => h.with = {},
         h.do = "replayDirections" => journal[h.track].boundaries = {},
         UNCHANGED <<journal, outbox, ledger, vad, epoch, queue>>
  PROVE  CaptureInv'
<1>3. PICK t : t = h.track
  OBVIOUS
<1>4. /\ Types /\ Program /\ Shape /\ Sealing /\ Direction1 /\ Direction2
      /\ h \in AnyStep /\ h = Head(todo) /\ t \in Tracks /\ t \in Both /\ Fits(phase, h.do)
      /\ Steps = {h} \cup R /\ Steps' = R /\ Steps' \subseteq AnyStep
      /\ Steps \subseteq AnyStep /\ R \subseteq AnyStep
      /\ \A b \in R : May(h, b)
      /\ Clock(t) /\ Pieces(t) /\ Disk(t) /\ Cover(t) /\ Announced(t)
      /\ journal[t] \in Journal /\ journal[t].final \in Nat /\ journal[t].classified \in Nat
      /\ journal[t].voiced \subseteq Nat /\ journal[t].pcm \subseteq Nat
      /\ Cut(t) \subseteq Segment /\ journal[t].gaps \subseteq Gap
      /\ journal[t].boundaries \subseteq BoundaryEvent
      /\ vad[t].cursor \in Nat /\ Low(t) \in Nat /\ From(t) \in Nat
      /\ \A u \in journal[t].voiced \cup journal[t].pcm : u < journal[t].final
      /\ \A x \in R : x.do \in {"direction", "changeDirection", "boundary"} => x.track = t
  BY <1>3, DoneFacts
<1>5. UNCHANGED <<sources, phase>> /\ Mic \in Tracks
  BY <1>4, TheTracks DEF Turned
<1>6. /\ Noted' = Noted /\ Sent' = Sent /\ InLedger' = InLedger /\ Dual' = Dual /\ Tracks' = Tracks
      /\ Over' = Over /\ \A u \in Tracks : Cut(u)' = Cut(u)
  BY <1>5 DEF Noted, Sent, InLedger, Dual, Tracks, Over, Cut
<1>7. \A x \in Steps : x.do \notin {"replayDirections", "replaying"} => x \in Steps'
  BY <1>4
<1>8. /\ Has("checkpoint", Mic) => Has("checkpoint", Mic)'
      /\ \A k : Has(k, Mic)' => Has(k, Mic)
  BY <1>4 DEF Has
<1>9. Direction1'
  <2>1. \A x \in Steps' : BoundaryAbout(x) /\ x.do = "append" =>
          \E y \in Steps' : y.do = "boundary" /\ y.with = x.with
    BY <1>4, <1>7 DEF Direction1
  <2>2. \A x \in Steps' : x.do = "boundary" \/ BoundaryAbout(x) =>
          \E y \in Steps' : y.do = "inForce" /\ y.with = x.with
    BY <1>4, <1>7 DEF Direction1
  <2>3. ASSUME NEW x \in Steps', x.do = "inForce"
        PROVE  /\ x.with \in Noted \/ \E y \in Steps' : y.do = "boundary" /\ y.with = x.with
               /\ \/ x.with \in ledger
                  \/ \E y \in Steps' : y.do \in {"flush", "resend"} /\ y.with = x.with /\ y.track = Mic
               /\ epoch <= x.with.about.epoch
               /\ \A y \in Steps' : y.do = "replaying" =>
                    \A c \in y.with : x.with.about.epoch <= c.about.epoch
    BY <1>4, <1>7, <2>3 DEF Direction1
  <2>4. /\ \A x \in Steps' : x.do = "boundary" =>
             /\ phase = "live"
             /\ x.with.about.start = journal[Mic].final /\ vad[Mic].cursor = journal[Mic].final
             /\ journal[Mic].classified = journal[Mic].final
             /\ vad[Mic].active = None /\ journal[Mic].active = None
        /\ \A x \in Steps' : x.do = "replaying" =>
             x.with \subseteq Noted /\ \A c \in x.with : epoch <= c.about.epoch
        /\ \A x \in Steps' : x.do = "resend" /\ BoundaryAbout(x) => x.with \in Noted
        /\ \A u \in Tracks : u # Mic =>
             /\ journal[u].boundaries = {}
             /\ \A e \in outbox[u] : e.kind # "boundary"
             /\ \A x \in Steps' : BoundaryAbout(x) => x.track = Mic
        /\ Dual => Noted = {} /\ Sent = {}
    BY <1>4 DEF Direction1
  <2>5. /\ Has("replayDirections", Mic)' => epoch = 1
        /\ Has("changeDirection", Mic)' /\ ~Has("checkpoint", Mic)' =>
             journal[Mic].active = None /\ journal[Mic].classified = vad[Mic].cursor
    BY <1>4, <1>8 DEF Direction1
  <2> QED BY <1>5, <1>6, <2>1, <2>2, <2>3, <2>4, <2>5 DEF Direction1
<1>10. Direction2'
  <2>1. \A b \in Sent : b \in Noted
          \/ /\ b.about.start = journal[Mic].final
             /\ Over \/ phase = "recovering" \/ \E x \in Steps' : x.do = "boundary" /\ x.with = b
    BY <1>4, <1>7 DEF Direction2
  <2>2. ~Over => \A b \in Noted :
          \/ b.about.epoch <= epoch \/ Has("replayDirections", Mic)'
          \/ \E x \in Steps' : x.do = "inForce" /\ x.with = b
          \/ \E x \in Steps' : x.do = "replaying" /\ b \in x.with
    <3> SUFFICES ASSUME ~Over, NEW b \in Noted
                 PROVE  \/ b.about.epoch <= epoch \/ Has("replayDirections", Mic)'
                        \/ \E x \in Steps' : x.do = "inForce" /\ x.with = b
                        \/ \E x \in Steps' : x.do = "replaying" /\ b \in x.with
      OBVIOUS
    <3>1. CASE Has("replayDirections", Mic)
      <4>1. PICK y \in Steps : y.do = "replayDirections" /\ y.track = Mic
        BY <3>1 DEF Has
      <4>2. y # h
        BY <1>3, <4>1 DEF Noted
      <4> QED BY <1>4, <4>1, <4>2 DEF Has
    <3>2. CASE \E x \in Steps : x.do = "replaying" /\ b \in x.with
      BY <1>4, <3>2
    <3> QED BY <1>4, <1>7, <3>1, <3>2 DEF Direction2
  <2>3. epoch = 1 \/ \E b \in Noted \cap ledger : b.about.epoch = epoch
    BY <1>4 DEF Direction2
  <2>4. ASSUME NEW u \in Tracks, NEW s \in Cut(u)
        PROVE  /\ \/ journal[u].segments[s] = 1
                  \/ \E b \in InLedger : /\ b.about.epoch = journal[u].segments[s]
                                         /\ b.about.start <= s.start
               /\ \A b \in Sent \cup Noted :
                    b.about.start <= s.start => b.about.epoch <= journal[u].segments[s]
    BY <1>4, <2>4 DEF Direction2
  <2> QED BY <1>5, <1>6, <2>1, <2>2, <2>3, <2>4 DEF Direction2
<1>11. PICK N : N = {}
  OBVIOUS
<1>12. Turned(h, R, N) /\ \A x \in N : /\ x.do \in {"resend", "inForce", "replaying"}
                                       /\ x.do = "resend" => x.with.kind = "boundary"
  BY <1>11
<1> QED BY <1>9, <1>10, <1>12, ReplayTurnKept

(* The steps that replay some boundaries: the oldest one first             *)
ReplayOf(S, N) ==
  \E b \in S : \E y1, y2, y3 :
    /\ \A c \in S : b.about.epoch <= c.about.epoch
    /\ N = {y1, y2, y3}
    /\ y1.do = "resend" /\ y1.with = b /\ y1.track = Mic
    /\ y2.do = "inForce" /\ y2.with = b /\ y2.track = Mic
    /\ y3.do = "replaying" /\ y3.with = S \ {b} /\ y3.track = Mic

(* The oldest boundary that is left is sent again, and comes into force.   *)
LEMMA ReplayNext ==
  ASSUME CaptureInv, NEW h, NEW R, NEW N, Turned(h, R, N), h.do \in {"replayDirections", "replaying"},
         h.track = Mic, ~Dual, NEW S, S \subseteq Noted, S # {},
         h.do = "replaying" => S = h.with,
         h.do = "replayDirections" => S = Noted,
         ReplayOf(S, N),
         UNCHANGED <<journal, outbox, ledger, vad, epoch, queue>>
  PROVE  CaptureInv'
<1>3. PICK t : t = h.track
  OBVIOUS
<1>4. /\ Types /\ Program /\ Shape /\ Sealing /\ Direction1 /\ Direction2
      /\ h \in AnyStep /\ h = Head(todo) /\ t \in Tracks /\ t \in Both /\ Fits(phase, h.do)
      /\ Steps = {h} \cup R /\ Steps' = N \cup R /\ Steps' \subseteq AnyStep
      /\ Steps \subseteq AnyStep /\ R \subseteq AnyStep
      /\ \A b \in R : May(h, b)
      /\ Clock(t) /\ Pieces(t) /\ Disk(t) /\ Cover(t) /\ Announced(t)
      /\ journal[t] \in Journal /\ journal[t].final \in Nat /\ journal[t].classified \in Nat
      /\ journal[t].voiced \subseteq Nat /\ journal[t].pcm \subseteq Nat
      /\ Cut(t) \subseteq Segment /\ journal[t].gaps \subseteq Gap
      /\ journal[t].boundaries \subseteq BoundaryEvent
      /\ vad[t].cursor \in Nat /\ Low(t) \in Nat /\ From(t) \in Nat
      /\ \A u \in journal[t].voiced \cup journal[t].pcm : u < journal[t].final
      /\ \A x \in R : x.do \in {"direction", "changeDirection", "boundary"} => x.track = t
  BY <1>3, TurnFacts
<1>0. PICK b \in S, y1 \in N, y2 \in N, y3 \in N :
        /\ \A c \in S : b.about.epoch <= c.about.epoch
        /\ N = {y1, y2, y3}
        /\ y1.do = "resend" /\ y1.with = b /\ y1.track = Mic
        /\ y2.do = "inForce" /\ y2.with = b /\ y2.track = Mic
        /\ y3.do = "replaying" /\ y3.with = S \ {b} /\ y3.track = Mic
  BY DEF ReplayOf
<1>5. UNCHANGED <<sources, phase>> /\ Tracks = {Mic}
  BY <1>4, TheTracks DEF Turned
<1> USE <1>0
<1>6. /\ Noted' = Noted /\ Sent' = Sent /\ InLedger' = InLedger /\ Dual' = Dual /\ Tracks' = Tracks
      /\ Over' = Over /\ \A u \in Tracks : Cut(u)' = Cut(u)
  BY <1>5 DEF Noted, Sent, InLedger, Dual, Tracks, Over, Cut
<1>7. \A x \in R : /\ x.do \notin {"boundary", "inForce", "replaying", "replayDirections"}
                   /\ ~BoundaryAbout(x)
  <2>1. y1 \in AnyStep /\ y1.track = h.track
    BY DEF Turned
  <2>2. \A x \in R : x.track = h.track
    BY <1>5 DEF Turned
  <2> QED BY <1>4, <2>1, <2>2, MayReplay
<1>8. phase = "recovering"
  BY <1>4 DEF Fits, CloseKinds
<1>9. ~Has("changeDirection", Mic)' /\ ~Has("replayDirections", Mic)'
  <2>1. \A x \in R : x.do # "changeDirection"
    BY <1>4, <1>8 DEF Turned, Fits, CloseKinds, ReplayKinds
  <2> QED BY <1>4, <1>7, <2>1 DEF Has
<1>10. S \subseteq BoundaryEvent /\ b.kind = "boundary" /\ \A c \in S : epoch <= c.about.epoch
  <2>1. S \subseteq BoundaryEvent
    BY <1>3, <1>4 DEF Noted
  <2>2. CASE h.do = "replaying"
    BY <1>4, <2>1, <2>2 DEF Direction1, BoundaryEvent
  <2>3. CASE h.do = "replayDirections"
    <3>1. Has("replayDirections", Mic)
      BY <1>4, <2>3 DEF Has
    <3>2. epoch = 1
      BY <1>4, <3>1 DEF Direction1
    <3>3. \A c \in S : c.about.epoch \in Nat \ {0}
      BY <2>1 DEF BoundaryEvent
    <3> QED BY <2>1, <3>2, <3>3 DEF BoundaryEvent
  <2> QED BY <2>2, <2>3
<1>11. Direction1'
  <2>1. \A x \in Steps' : /\ ~(BoundaryAbout(x) /\ x.do = "append") /\ x.do # "boundary"
                          /\ BoundaryAbout(x) => x = y1
    BY <1>4, <1>7 DEF BoundaryAbout
  <2>2. \A x \in Steps' : (x.do = "inForce" => x = y2) /\ (x.do = "replaying" => x = y3)
    BY <1>4, <1>7
  <2>3. y1 \in Steps' /\ y2 \in Steps' /\ y3 \in Steps'
    BY <1>4
  <2>4. \A x \in Steps' : x.do = "boundary" \/ BoundaryAbout(x) =>
          \E z \in Steps' : z.do = "inForce" /\ z.with = x.with
    <3>1. \A x \in Steps' : x.do = "boundary" \/ BoundaryAbout(x) => x.with = y2.with
      BY <2>1
    <3>2. y2 \in Steps' /\ y2.do = "inForce"
      BY <2>3
    <3> QED BY <3>1, <3>2
  <2>5. ASSUME NEW x \in Steps', x.do = "inForce"
        PROVE  /\ x.with \in Noted
               /\ \E z \in Steps' : z.do \in {"flush", "resend"} /\ z.with = x.with /\ z.track = Mic
               /\ epoch <= x.with.about.epoch
               /\ \A z \in Steps' : z.do = "replaying" =>
                    \A c \in z.with : x.with.about.epoch <= c.about.epoch
    BY <1>10, <2>2, <2>3, <2>5
  <2>6. \A x \in Steps' : x.do = "replaying" =>
          x.with \subseteq Noted /\ \A c \in x.with : epoch <= c.about.epoch
    BY <1>10, <2>2
  <2>7. \A x \in Steps' : x.do = "resend" /\ BoundaryAbout(x) => x.with \in Noted
    BY <2>1
  <2>8. \A x \in Steps' : x.do = "inForce" =>
          /\ x.with \in Noted'
          /\ \E z \in Steps' : z.do \in {"flush", "resend"} /\ z.with = x.with /\ z.track = Mic
          /\ epoch' <= x.with.about.epoch
          /\ \A z \in Steps' : z.do = "replaying" =>
               \A c \in z.with : x.with.about.epoch <= c.about.epoch
    BY <1>6, <2>5
  <2>9. /\ \A u \in Tracks' : u = Mic
        /\ ~Dual'
    BY <1>5, <1>6
  <2> QED BY <1>6, <1>9, <2>1, <2>4, <2>6, <2>7, <2>8, <2>9 DEF Direction1
<1>12. Direction2'
  <2>1. \A c \in Sent : \/ c \in Noted
                        \/ c.about.start = journal[Mic].final /\ (Over \/ phase = "recovering")
    BY <1>4, <1>8 DEF Direction2
  <2>2. ~Over => \A c \in Noted :
          \/ c.about.epoch <= epoch
          \/ \E x \in Steps' : x.do = "inForce" /\ x.with = c
          \/ \E x \in Steps' : x.do = "replaying" /\ c \in x.with
    <3> SUFFICES ASSUME ~Over, NEW c \in Noted, ~(c.about.epoch <= epoch)
                 PROVE  \/ \E x \in Steps' : x.do = "inForce" /\ x.with = c
                        \/ \E x \in Steps' : x.do = "replaying" /\ c \in x.with
      OBVIOUS
    <3>1. c \in S
      <4>1. CASE h.do = "replayDirections"
        BY <4>1
      <4>2. CASE h.do = "replaying"
        <5>1. ~Has("replayDirections", Mic)
          BY <1>4, <1>7, <4>2 DEF Has
        <5>2. \A x \in Steps : (x.do = "replaying" => x = h) /\ x.do # "inForce"
          BY <1>4, <1>7, <4>2
        <5> QED BY <1>4, <4>2, <5>1, <5>2 DEF Direction2
      <4> QED BY <4>1, <4>2
    <3>2. y2 \in Steps' /\ y3 \in Steps'
      BY <1>4
    <3>3. c = b \/ c \in y3.with
      BY <3>1
    <3> QED BY <3>2, <3>3
  <2>3. epoch = 1 \/ \E c \in Noted \cap ledger : c.about.epoch = epoch
    BY <1>4 DEF Direction2
  <2>4. ASSUME NEW u \in Tracks, NEW s \in Cut(u)
        PROVE  /\ \/ journal[u].segments[s] = 1
                  \/ \E c \in InLedger : /\ c.about.epoch = journal[u].segments[s]
                                         /\ c.about.start <= s.start
               /\ \A c \in Sent \cup Noted :
                    c.about.start <= s.start => c.about.epoch <= journal[u].segments[s]
    BY <1>4, <2>4 DEF Direction2
  <2> QED BY <1>5, <1>6, <2>1, <2>2, <2>3, <2>4 DEF Direction2
<1>13. \A x \in N : /\ x.do \in {"resend", "inForce", "replaying"}
                    /\ x.do = "resend" => x.with.kind = "boundary"
  BY <1>10
<1> QED BY <1>11, <1>12, <1>13, ReplayTurnKept

(* Replaying the directions keeps the invariant.                           *)
LEMMA ReplayDirectionsKept == CaptureInv /\ ReplayDirections => CaptureInv'
<1> SUFFICES ASSUME CaptureInv, ReplayDirections PROVE CaptureInv'
  OBVIOUS
<1>1. /\ todo # <<>> /\ Head(todo).do \in {"replayDirections", "replaying"}
      /\ UNCHANGED <<sources, recording, journal, outbox, ledger, phase, vad, epoch, queue, run>>
  BY DEF ReplayDirections, Doing, disk, memory
<1>2. PICK S : /\ Then(Replaying(Track, S))
               /\ \/ Head(todo).do = "replayDirections" /\ S = journal[Track].boundaries
                  \/ Head(todo).do = "replaying" /\ S = With
  BY DEF ReplayDirections, Replayed, Doing
<1>3. Types /\ Program
  BY DEF CaptureInv
<1>4. PICK h \in AnyStep, R \in SUBSET AnyStep :
        /\ h = Head(todo) /\ R = In(Tail(todo)) /\ Steps = {h} \cup R /\ h.track \in Tracks
        /\ \A b \in R : May(h, b) /\ b.track \in Tracks
        /\ Fits(phase, h.do) /\ \A b \in R : Fits(phase, b.do)
  BY <1>1, <1>3, FirstStep
<1>5. CASE S = {}
  <2>1. Then(<<>>)
    BY <1>2, <1>5 DEF Replaying
  <2>2. PICK h2, R2 : Turned(h2, R2, {})
    BY <1>1, <2>1, DoneTurn
  <2>3. h2 = h
    BY <1>4, <2>2 DEF Turned
  <2>4. h.do = "replaying" => h.with = {}
    BY <1>2, <1>4, <1>5 DEF With
  <2>5. h.do = "replayDirections" => journal[h.track].boundaries = {}
    BY <1>2, <1>4, <1>5 DEF Track
  <2> QED BY <1>1, <1>4, <2>2, <2>3, <2>4, <2>5, ReplayOver
<1>6. CASE S # {}
  <2>1. /\ S \subseteq Noted /\ ~Dual /\ h.track = Mic
        /\ h.do = "replaying" => S = h.with
        /\ h.do = "replayDirections" => S = Noted
    <3>1. Direction1
      BY DEF CaptureInv
    <3>2. CASE h.do = "replaying"
      <4>1. S = h.with /\ S \subseteq Noted
        BY <1>2, <1>4, <3>1, <3>2 DEF With, Direction1
      <4>2. ~Dual
        BY <1>6, <3>1, <4>1 DEF Direction1
      <4> QED BY <1>3, <1>4, <3>2, <4>1, <4>2, TheTracks
    <3>3. CASE h.do = "replayDirections"
      <4>1. S = journal[h.track].boundaries
        BY <1>2, <1>4, <3>3 DEF Track
      <4>2. h.track = Mic
        BY <1>4, <1>6, <3>1, <4>1 DEF Direction1
      <4>3. S = Noted
        BY <4>1, <4>2 DEF Noted
      <4>4. ~Dual
        BY <1>6, <3>1, <4>3 DEF Direction1
      <4> QED BY <3>3, <4>2, <4>3, <4>4
    <3> QED BY <1>1, <1>4, <3>2, <3>3
  <2>2. Noted \subseteq BoundaryEvent /\ Mic \in Both
    BY <1>3, TheTracks, TypedTrack DEF Noted
  <2>3. S \subseteq BoundaryEvent
    BY <2>1, <2>2
  <2> DEFINE b == CHOOSE b \in S : \A c \in S : b.about.epoch <= c.about.epoch
             y1 == StepFor("resend", Mic, b)
             y2 == StepFor("inForce", Mic, b)
             y3 == StepFor("replaying", Mic, S \ {b})
  <2>4. b \in S /\ \A c \in S : b.about.epoch <= c.about.epoch
    <3>1. \E x \in S : \A c \in S : x.about.epoch <= c.about.epoch
      BY <1>6, <2>3, OldestIs
    <3> QED BY <3>1
  <2>5. Then(<<y1, y2, y3>>)
    <3>1. Track = Mic
      BY <1>4, <2>1 DEF Track
    <3> QED BY <1>2, <1>6, <3>1 DEF Replaying
  <2> HIDE DEF b
  <2>6. y1 \in AnyStep /\ y2 \in AnyStep
    <3>1. b \in BoundaryEvent /\ b \in AnyEvent
      BY <2>3, <2>4 DEF AnyEvent
    <3> QED BY <2>2, <3>1, StepTyped
  <2>7. y3 \in AnyStep
    <3>1. S \ {b} \in SUBSET BoundaryEvent
      BY <2>3
    <3> QED BY <2>2, <3>1, StepTyped
  <2>8. /\ y1.do = "resend" /\ y2.do = "inForce" /\ y3.do = "replaying"
        /\ y1.track = Mic /\ y2.track = Mic /\ y3.track = Mic
        /\ y1.with = b /\ y2.with = b /\ y3.with = S \ {b}
    BY StepForIs
  <2> HIDE DEF y1, y2, y3
  <2>9. May(y1, y2) /\ May(y1, y3) /\ May(y2, y3)
    BY <2>8 DEF May, GapAbout, BoundaryAbout
  <2>10. Chain(<<y1, y2, y3>>, {y1, y2, y3})
    BY <2>6, <2>7, <2>8, <2>9, ChainOfThree
  <2>11. PICK N \in SUBSET AnyStep : N = {y1, y2, y3}
    BY <2>6, <2>7
  <2>12. Chain(<<y1, y2, y3>>, N)
    BY <2>10, <2>11
  <2>13. \A x \in N : x.track = h.track /\ x.do \in {"resend", "inForce", "replaying"} /\ x \in AnyStep
    BY <2>1, <2>8, <2>11
  <2>14. \A x \in N, c \in R : May(x, c)
    BY <1>1, <1>4, <2>13, MayReplay
  <2>15. \A x \in N : Fits(phase, x.do)
    <3>1. phase = "recovering"
      BY <1>1, <1>4 DEF Fits, CloseKinds
    <3> QED BY <2>13, <3>1 DEF Fits, ReplayKinds
  <2>16. Turned(h, R, N)
    <3>1. Head(todo).do # "flushAll" /\ \A x \in N : x.track = h.track /\ Fits(phase, x.do)
      BY <1>1, <2>13, <2>15
    <3> QED BY <1>1, <1>4, <2>5, <2>12, <2>14, <3>1, NextTurn
  <2>17. h.do \in {"replayDirections", "replaying"}
    BY <1>1, <1>4
  <2>18. ReplayOf(S, N)
    BY <2>4, <2>8, <2>11 DEF ReplayOf
  <2>19. UNCHANGED <<journal, outbox, ledger, vad, epoch, queue>>
    BY <1>1
  <2> QED BY <1>6, <2>1, <2>16, <2>17, <2>18, <2>19, ReplayNext
<1> QED BY <1>5, <1>6

----------------------------------------------------------------------------
(* A segment goes to the journal.                                          *)

(* Where it goes, nothing is: behind the other segments and the            *)
(* boundaries, before what is still to be closed.                          *)
LEMMA ClosedPiece ==
  ASSUME CaptureInv, NEW h, NEW R, Turned(h, R, {}), h.do = "close", NEW t, t = h.track,
         NEW p, p = h.with
  PROVE  /\ p \in Segment /\ p.track = t /\ p.start < p.end /\ p.end <= journal[t].final
         /\ p.start \in Nat /\ p.end \in Nat
         /\ Live => p.end <= From(t)
         /\ \A r \in Cut(t) : r.end <= p.start
         /\ \A g \in journal[t].gaps : Apart(g, p)
         /\ \A b \in journal[t].boundaries : b.about.start <= p.start
         /\ Pending(t) = {p} \cup Pending(t)'
         /\ \A q \in Pending(t)' : p.end <= q.start
         /\ ~Closed(t) /\ ~Over
         /\ \A x \in R : x.track = t =>
              /\ x.do \notin {"close", "boundary", "inForce", "replaying", "replayDirections",
                              "recoverTail"}
              /\ ~GapAbout(x)
<1>4. /\ Types /\ Program /\ Shape /\ Sealing /\ Direction1 /\ Direction2
      /\ h \in AnyStep /\ h = Head(todo) /\ t \in Tracks /\ t \in Both /\ Fits(phase, h.do)
      /\ Steps = {h} \cup R /\ Steps' = R /\ Steps' \subseteq AnyStep
      /\ Steps \subseteq AnyStep /\ R \subseteq AnyStep
      /\ \A b \in R : May(h, b)
      /\ Clock(t) /\ Pieces(t) /\ Disk(t) /\ Cover(t) /\ Announced(t)
      /\ journal[t] \in Journal /\ journal[t].final \in Nat /\ journal[t].classified \in Nat
      /\ journal[t].voiced \subseteq Nat /\ journal[t].pcm \subseteq Nat
      /\ Cut(t) \subseteq Segment /\ journal[t].gaps \subseteq Gap
      /\ journal[t].boundaries \subseteq BoundaryEvent
      /\ vad[t].cursor \in Nat /\ Low(t) \in Nat /\ From(t) \in Nat
      /\ \A u \in journal[t].voiced \cup journal[t].pcm : u < journal[t].final
      /\ \A x \in R : x.do \in {"direction", "changeDirection", "boundary"} => x.track = t
  BY DoneFacts
<1>5. p \in Segment /\ p.start \in Nat /\ p.end \in Nat
  <2>1. p \in Segment
    BY <1>4, TypedStep
  <2> QED BY <2>1, TypedSegment
<1>6. \A x \in R : x.track = t =>
        /\ x.do \notin {"close", "boundary", "inForce", "replaying", "replayDirections", "recoverTail"}
        /\ ~GapAbout(x)
  BY <1>4 DEF May
<1>7. Pending(t) = {p} \cup Pending(t)'
  <2>1. {x.with : x \in {y \in Steps : y.do = "close" /\ y.track = t}} = {p}
    BY <1>4, <1>6
  <2>2. {x.with : x \in {y \in Steps' : y.do = "close" /\ y.track = t}} = {}
    BY <1>4, <1>6
  <2>3. {y \in Steps' : y.do = "closing" /\ y.track = t} = {y \in Steps : y.do = "closing" /\ y.track = t}
    BY <1>4
  <2> QED BY <2>1, <2>2, <2>3 DEF Pending
<1>8. /\ p.track = t /\ p.start < p.end /\ p.end <= journal[t].final
      /\ Live => p.end <= From(t)
      /\ \A r \in Cut(t) : r.end <= p.start
      /\ \A g \in journal[t].gaps : Apart(g, p)
      /\ \A b \in journal[t].boundaries : b.about.start <= p.start
  <2>1. p \in Pending(t)
    BY <1>7
  <2> QED BY <1>4, <2>1 DEF Pieces
<1>9. \A q \in Pending(t)' : p.end <= q.start
  <2> SUFFICES ASSUME NEW q \in Pending(t)' PROVE p.end <= q.start
    OBVIOUS
  <2>1. PICK x \in R : x.do = "closing" /\ x.track = t /\ q \in x.with
    BY <1>4, <1>6 DEF Pending
  <2>2. x \in Steps /\ h \in Steps
    BY <1>4
  <2> QED BY <1>4, <2>1, <2>2 DEF Pieces
<1>10. ~Closed(t)
  BY <1>4 DEF Sealing
<1>11. ~Over
  BY <1>4 DEF Fits, Over
<1> QED BY <1>5, <1>6, <1>7, <1>8, <1>9, <1>10, <1>11

(* The segment of a track that is in the journal now                       *)
CutMore(t, p) ==
  /\ Cut(t)' = Cut(t) \cup {p}
  /\ \A s \in Cut(t)' : journal'[t].segments[s] = IF s = p THEN epoch ELSE journal[t].segments[s]
  /\ \A f \in {"final", "classified", "active", "pcm", "voiced", "gaps", "boundaries", "closed", "seal"} :
       journal'[t][f] = journal[t][f]

(* Closing a segment keeps what is said of its track: the segment passes   *)
(* from the pending ones to the cut ones.                                  *)
LEMMA CloseTrack ==
  ASSUME CaptureInv, NEW h, NEW R, Turned(h, R, {}), h.do = "close", NEW t, t = h.track,
         NEW p, p = h.with, CutMore(t, p), UNCHANGED <<outbox, ledger, vad>>
  PROVE  Clock(t)' /\ Pieces(t)' /\ Disk(t)' /\ Cover(t)' /\ Announced(t)'
<1>4. /\ Types /\ Program /\ Shape /\ Sealing /\ Direction1 /\ Direction2
      /\ h \in AnyStep /\ h = Head(todo) /\ t \in Tracks /\ t \in Both /\ Fits(phase, h.do)
      /\ Steps = {h} \cup R /\ Steps' = R /\ Steps' \subseteq AnyStep
      /\ Steps \subseteq AnyStep /\ R \subseteq AnyStep
      /\ \A b \in R : May(h, b)
      /\ Clock(t) /\ Pieces(t) /\ Disk(t) /\ Cover(t) /\ Announced(t)
      /\ journal[t] \in Journal /\ journal[t].final \in Nat /\ journal[t].classified \in Nat
      /\ journal[t].voiced \subseteq Nat /\ journal[t].pcm \subseteq Nat
      /\ Cut(t) \subseteq Segment /\ journal[t].gaps \subseteq Gap
      /\ journal[t].boundaries \subseteq BoundaryEvent
      /\ vad[t].cursor \in Nat /\ Low(t) \in Nat /\ From(t) \in Nat
      /\ \A u \in journal[t].voiced \cup journal[t].pcm : u < journal[t].final
      /\ \A x \in R : x.do \in {"direction", "changeDirection", "boundary"} => x.track = t
  BY DoneFacts
<1>5. /\ p \in Segment /\ p.track = t /\ p.start < p.end /\ p.end <= journal[t].final
      /\ p.start \in Nat /\ p.end \in Nat
      /\ Live => p.end <= From(t)
      /\ \A r \in Cut(t) : r.end <= p.start
      /\ \A g \in journal[t].gaps : Apart(g, p)
      /\ \A b \in journal[t].boundaries : b.about.start <= p.start
      /\ Pending(t) = {p} \cup Pending(t)'
      /\ \A q \in Pending(t)' : p.end <= q.start
      /\ ~Closed(t) /\ ~Over
      /\ \A x \in R : x.track = t =>
           /\ x.do \notin {"close", "boundary", "inForce", "replaying", "replayDirections",
                           "recoverTail"}
           /\ ~GapAbout(x)
  BY ClosedPiece
<1>6. /\ phase' = phase /\ Live' = Live /\ Over' = Over
  BY DEF Turned, Live, Over
<1>7. /\ journal'[t].final = journal[t].final /\ journal'[t].classified = journal[t].classified
      /\ journal'[t].active = journal[t].active /\ journal'[t].pcm = journal[t].pcm
      /\ journal'[t].voiced = journal[t].voiced /\ journal'[t].gaps = journal[t].gaps
      /\ journal'[t].boundaries = journal[t].boundaries /\ journal'[t].closed = journal[t].closed
      /\ Cut(t)' = Cut(t) \cup {p}
  BY DEF CutMore
<1>8. From(t)' = From(t) /\ Low(t)' = Low(t) /\ Closed(t)' = Closed(t)
  BY <1>7 DEF From, Low, Closed
<1>9. \A k : k # "close" => Has(k, t)' = Has(k, t)
  BY <1>4 DEF Has
<1>10. ~Has("recoverTail", t)
  BY <1>4, <1>5 DEF Has
<1>11. Clock(t)'
  <2>1. Keeps(KindOf(t, ClockKinds))
    BY <1>4 DEF Keeps, KindOf, ClockKinds
  <2>2. Head(todo).do # "finish"
    BY <1>4
  <2> QED BY <1>4, <1>6, <1>7, <2>1, <2>2, ClockFrame
<1>12. Pieces(t)'
  <2>1. ASSUME NEW q \in Pending(t)'
        PROVE  /\ q.track = t /\ q.start < q.end /\ q.end <= journal[t].final
               /\ Live => q.end <= From(t)
               /\ \A r \in Cut(t) \cup {p} : r.end <= q.start
               /\ \A g \in journal[t].gaps : Apart(g, q)
               /\ \A b \in journal[t].boundaries : b.about.start <= q.start
    <3>1. q \in Pending(t)
      BY <1>5
    <3> QED BY <1>4, <1>5, <2>1, <3>1 DEF Pieces
  <2>2. \A x \in Steps' : x.do = "closing" /\ x.track = t =>
          /\ \A q1, q2 \in x.with : q1 # q2 => Apart(q1, q2)
          /\ \A y \in Steps' : y.do = "close" /\ y.track = t => \A q \in x.with : y.with.end <= q.start
    BY <1>4, <1>5 DEF Pieces
  <2> QED BY <1>6, <1>7, <1>8, <2>1, <2>2 DEF Pieces
<1>13. ASSUME NEW u \in journal[t].voiced, ~Behind(t, u), u < p.end PROVE Holds(p, u)
  <2>1. u \in Nat /\ vad[t].cursor \in Nat
    BY <1>4
  <2>2. \A r \in Cut(t) : ~Holds(r, u)
    BY <1>13 DEF Behind, Holds
  <2>3. ASSUME Live PROVE p.end <= vad[t].cursor /\ (vad[t].active # None => p.end <= vad[t].active.start)
    <3>1. CASE vad[t].active = None
      BY <1>5, <2>3, <3>1 DEF From
    <3>2. CASE vad[t].active # None
      <4>1. vad[t].active.start \in Nat
        BY <1>4, <3>2, TypedTrack, TypedActive
      <4>2. vad[t].active.start < vad[t].cursor /\ p.end <= vad[t].active.start
        BY <1>4, <1>5, <2>3, <3>2 DEF Clock, From
      <4> QED BY <1>5, <2>1, <4>1, <4>2
    <3> QED BY <3>1, <3>2
  <2>4. Live \/ phase = "recovering"
    BY <1>4 DEF Fits, Live
  <2>5. phase = "recovering" => vad[t].active = None /\ ~Has("push", t)
    <3>1. phase = "recovering" => \A x \in Steps : x.do # "push"
      BY <1>4 DEF Shape, Fits, CloseKinds, ReplayKinds
    <3> QED BY <1>4, <3>1 DEF Clock, Has
  <2>6. ~(vad[t].active # None /\ vad[t].active.start <= u)
    <3>1. vad[t].active # None => vad[t].active.start \in Nat
      BY <1>4, TypedTrack, TypedActive
    <3> QED BY <1>5, <1>13, <2>1, <2>3, <2>4, <2>5, <3>1
  <2>7. ~((Has("push", t) \/ Has("recoverTail", t)) /\ vad[t].cursor <= u)
    BY <1>5, <1>10, <1>13, <2>1, <2>3, <2>4, <2>5
  <2>8. PICK q \in Pending(t) : Holds(q, u)
    BY <1>4, <1>5, <2>2, <2>6, <2>7 DEF Cover
  <2>9. q = p
    <3>1. q # p => p.end <= q.start
      BY <1>5
    <3>2. q \in Segment
      <4>1. q = p \/ q \in Pending(t)'
        BY <1>5
      <4>2. \A x \in Steps : x.do = "closing" => x.with \subseteq Segment
        BY <1>4, TypedStep
      <4> QED BY <1>4, <1>5, <4>1, <4>2 DEF Pending
    <3> QED BY <1>5, <1>13, <2>1, <2>8, <3>1, <3>2, TypedSegment DEF Holds
  <2> QED BY <2>8, <2>9
<1>14. Disk(t)'
  <2>1. \A u : Behind(t, u)' <=> Behind(t, u) \/ u < p.end
    BY <1>7, <1>8 DEF Behind
  <2>2. \A u \in journal[t].voiced : Behind(t, u)' => \E r \in Cut(t) \cup {p} : Holds(r, u)
    BY <1>4, <1>13, <2>1 DEF Disk
  <2>3. \A r \in Cut(t) \cup {p} : r.track = t /\ r.start < r.end /\ r.end <= journal[t].final
    BY <1>4, <1>5 DEF Disk
  <2>4. \A r, s \in Cut(t) \cup {p} : r # s => Apart(r, s)
    BY <1>4, <1>5 DEF Disk, Apart
  <2>5. \A g \in journal[t].gaps :
          /\ g.track = t /\ g.start < g.end /\ g.end <= journal[t].final
          /\ \A u \in journal[t].pcm : ~Holds(g, u)
          /\ \A r \in Cut(t) \cup {p} : Apart(g, r)
    BY <1>4, <1>5 DEF Disk
  <2>6. Live => /\ Low(t) <= From(t)
                /\ \A r \in Cut(t) \cup {p} : r.end <= From(t)
                /\ \A g \in journal[t].gaps : g.end <= From(t) \/ Has("skip", t)
                /\ \A b \in journal[t].boundaries : b.about.start <= From(t)
    BY <1>4, <1>5 DEF Disk
  <2>7. /\ journal[t].classified <= journal[t].final /\ Low(t) <= journal[t].final
        /\ \A b \in journal[t].boundaries : b.about.start <= Low(t)
    BY <1>4 DEF Disk
  <2>8. Has("skip", t)' = Has("skip", t)
    BY <1>9
  <2> QED BY <1>5, <1>6, <1>7, <1>8, <2>2, <2>3, <2>4, <2>5, <2>6, <2>7, <2>8 DEF Disk
<1>15. Cover(t)'
  <2>1. Has("push", t)' = Has("push", t) /\ Has("recoverTail", t)' = Has("recoverTail", t)
    BY <1>9
  <2>2. \A u \in journal[t].voiced :
          \/ \E r \in Cut(t) \cup {p} : Holds(r, u)
          \/ \E q \in Pending(t)' : Holds(q, u)
          \/ vad[t].active # None /\ vad[t].active.start <= u
          \/ (Has("push", t) \/ Has("recoverTail", t)) /\ vad[t].cursor <= u
    BY <1>4, <1>5 DEF Cover
  <2> QED BY <1>7, <2>1, <2>2 DEF Cover
<1>16. Announced(t)'
  <2>1. phase \notin {"failed", "down"}
    BY <1>5 DEF Over
  <2>2. \A x \in Steps : ~(GapAbout(x) /\ x.track = t)
    BY <1>4, <1>5 DEF GapAbout
  <2>3. \A g \in journal[t].gaps :
          \/ \E e \in ledger : e.kind = "gap" /\ e.about = g
          \/ ~Closed(t) /\ \E e \in outbox[t] : e.kind = "gap" /\ e.about = g
    BY <1>4, <1>10, <2>1, <2>2 DEF Announced
  <2> QED BY <1>7, <1>8, <2>3 DEF Announced
<1> QED BY <1>11, <1>12, <1>14, <1>15, <1>16

(* The direction that is kept with it is the one in force.                 *)
LEMMA CloseDated ==
  ASSUME CaptureInv, NEW h, NEW R, Turned(h, R, {}), h.do = "close", NEW t, t = h.track,
         NEW p, p = h.with, CutMore(t, p), UNCHANGED <<outbox, ledger, vad, epoch>>,
         \A u \in Tracks : u # t => journal'[u] = journal[u]
  PROVE  Dated(t, p)'
<1>4. /\ Types /\ Program /\ Shape /\ Sealing /\ Direction1 /\ Direction2
      /\ h \in AnyStep /\ h = Head(todo) /\ t \in Tracks /\ t \in Both /\ Fits(phase, h.do)
      /\ Steps = {h} \cup R /\ Steps' = R /\ Steps' \subseteq AnyStep
      /\ Steps \subseteq AnyStep /\ R \subseteq AnyStep
      /\ \A b \in R : May(h, b)
      /\ Clock(t) /\ Pieces(t) /\ Disk(t) /\ Cover(t) /\ Announced(t)
      /\ journal[t] \in Journal /\ journal[t].final \in Nat /\ journal[t].classified \in Nat
      /\ journal[t].voiced \subseteq Nat /\ journal[t].pcm \subseteq Nat
      /\ Cut(t) \subseteq Segment /\ journal[t].gaps \subseteq Gap
      /\ journal[t].boundaries \subseteq BoundaryEvent
      /\ vad[t].cursor \in Nat /\ Low(t) \in Nat /\ From(t) \in Nat
      /\ \A u \in journal[t].voiced \cup journal[t].pcm : u < journal[t].final
      /\ \A x \in R : x.do \in {"direction", "changeDirection", "boundary"} => x.track = t
  BY DoneFacts
<1>5. /\ p \in Segment /\ p.start < p.end /\ p.end <= journal[t].final
      /\ p.start \in Nat /\ p.end \in Nat /\ ~Over
      /\ \A b \in journal[t].boundaries : b.about.start <= p.start
      /\ \A x \in R : x.track = t =>
           x.do \notin {"close", "boundary", "inForce", "replaying", "replayDirections", "recoverTail"}
  BY ClosedPiece
<1>6. p \in Cut(t)' /\ journal'[t].segments[p] = epoch
  BY DEF CutMore
<1>7. Mic \in Tracks /\ \A u \in Tracks : journal'[u].boundaries = journal[u].boundaries
  BY <1>4, TheTracks DEF CutMore
<1>8. Noted' = Noted /\ Sent' = Sent /\ InLedger' = InLedger
  BY <1>7 DEF Noted, Sent, InLedger
<1>9. CASE Dual
  <2>1. Noted = {} /\ Sent = {} /\ epoch = 1
    BY <1>4, <1>9 DEF Direction1, Direction2
  <2> QED BY <1>6, <1>8, <2>1 DEF Dated
<1>10. CASE ~Dual
  <2>1. Tracks = {Mic} /\ t = Mic
    BY <1>4, <1>10, TheTracks
  <2>2. \A x \in R : x.track = t
    BY <2>1 DEF Turned
  <2>3. Noted = journal[t].boundaries /\ Noted \subseteq BoundaryEvent
    BY <1>4, <2>1 DEF Noted
  <2>4. epoch = 1 \/ \E b \in InLedger : b.about.epoch = epoch /\ b.about.start <= p.start
    <3>1. \A b \in Noted \cap ledger : b \in InLedger /\ b.about.start <= p.start
      BY <1>5, <2>3 DEF InLedger, BoundaryEvent
    <3> QED BY <1>4, <3>1 DEF Direction2
  <2>5. ASSUME NEW b \in Noted PROVE b.about.epoch <= epoch
    <3>1. \A x \in Steps : x.do \notin {"inForce", "replaying", "replayDirections"}
      BY <1>4, <1>5, <2>2
    <3>2. ~Has("replayDirections", Mic)
      BY <3>1 DEF Has
    <3> QED BY <1>4, <1>5, <3>1, <3>2 DEF Direction2
  <2>6. ASSUME NEW b \in Sent, b \notin Noted PROVE ~(b.about.start <= p.start)
    <3>1. b.about.start = journal[Mic].final
      BY <1>4, <2>6 DEF Direction2
    <3> QED BY <1>4, <1>5, <2>1, <3>1
  <2> QED BY <1>6, <1>8, <2>4, <2>5, <2>6 DEF Dated
<1> QED BY <1>9, <1>10

(* Closing a segment keeps the invariant.                                  *)
LEMMA CloseKept == CaptureInv /\ Close => CaptureInv'
<1> SUFFICES ASSUME CaptureInv, Close PROVE CaptureInv'
  OBVIOUS
<1>1. todo # <<>> /\ Head(todo).do = "close"
      /\ UNCHANGED <<sources, recording, outbox, ledger, vad, epoch, queue, run>>
  BY DEF Close, Doing, memory
<1>2. CASE GivesUp("duplicate")
  BY <1>1, <1>2, NothingDelivered, GivesUpKept
<1>3. CASE ~GivesUp("duplicate")
  <2>1. /\ journal' = [journal EXCEPT ![Track].segments =
                  [s \in DOMAIN @ \cup {With} |-> IF s = With THEN epoch ELSE @[s]]]
        /\ Then(<<>>) /\ UNCHANGED phase
    BY <1>3 DEF Close
  <2>2. PICK h, R : Turned(h, R, {})
    BY <1>1, <2>1, DoneTurn
  <2>3. PICK t : t = h.track
    OBVIOUS
  <2>4. /\ Types /\ Program /\ Shape /\ Sealing /\ Direction1 /\ Direction2
        /\ h \in AnyStep /\ h = Head(todo) /\ t \in Tracks /\ t \in Both /\ Fits(phase, h.do)
        /\ Steps = {h} \cup R /\ Steps' = R /\ Steps' \subseteq AnyStep
        /\ Steps \subseteq AnyStep /\ R \subseteq AnyStep
        /\ \A b \in R : May(h, b)
        /\ Clock(t) /\ Pieces(t) /\ Disk(t) /\ Cover(t) /\ Announced(t)
        /\ journal[t] \in Journal /\ journal[t].final \in Nat /\ journal[t].classified \in Nat
        /\ journal[t].voiced \subseteq Nat /\ journal[t].pcm \subseteq Nat
        /\ Cut(t) \subseteq Segment /\ journal[t].gaps \subseteq Gap
        /\ journal[t].boundaries \subseteq BoundaryEvent
        /\ vad[t].cursor \in Nat /\ Low(t) \in Nat /\ From(t) \in Nat
        /\ \A u \in journal[t].voiced \cup journal[t].pcm : u < journal[t].final
        /\ \A x \in R : x.do \in {"direction", "changeDirection", "boundary"} => x.track = t
    BY <2>2, <2>3, DoneFacts
  <2>5. h.do = "close"
    BY <1>1, <2>4
  <2>6. PICK p : p = h.with
    OBVIOUS
  <2>7. p \in Segment /\ ~Closed(t) /\ \A x \in R : x.track = t => x.do # "boundary"
    BY <2>2, <2>3, <2>5, <2>6, ClosedPiece
  <2> DEFINE m == [s \in Cut(t) \cup {p} |-> IF s = p THEN epoch ELSE journal[t].segments[s]]
             j == [journal[t] EXCEPT !.segments = m]
  <2>8. m \in Epochs /\ DOMAIN m = Cut(t) \cup {p}
    <3>1. \A s \in Cut(t) : journal[t].segments[s] \in Nat \ {0}
      BY <2>4, TypedCut
    <3>2. epoch \in Nat \ {0}
      BY <2>4 DEF Types
    <3>3. m \in [Cut(t) \cup {p} -> Nat \ {0}]
      BY <3>1, <3>2
    <3>4. Cut(t) \cup {p} \in SUBSET Segment
      BY <2>4, <2>7
    <3> QED BY <3>3, <3>4 DEF Epochs
  <2>9. \A s \in Cut(t) \cup {p} : m[s] = IF s = p THEN epoch ELSE journal[t].segments[s]
    OBVIOUS
  <2>10. journal' = [journal EXCEPT ![t] = j]
    <3>1. Track = t /\ With = p
      BY <2>3, <2>4, <2>6 DEF Track, With
    <3>2. journal \in [Tracks -> Journal]
      BY <2>4 DEF Types
    <3> QED BY <2>1, <2>4, <3>1, <3>2 DEF Cut
  <2> HIDE DEF m
  <2>11. /\ j \in Journal /\ j.segments = m
         /\ \A f \in {"final", "classified", "active", "pcm", "voiced", "gaps", "boundaries", "closed",
                      "seal"} : j[f] = journal[t][f]
    <3>1. j \in Journal
      BY <2>4, <2>8, WrittenJournal
    <3> QED BY <2>4, <3>1 DEF Journal
  <2> HIDE DEF j
  <2>12. /\ journal' \in [Tracks -> Journal] /\ journal'[t] = j
         /\ \A u \in Tracks : u # t => SameTape(u) /\ journal'[u] = journal[u]
    BY <2>4, <2>10, <2>11, OneJournal
  <2>13. CutMore(t, p)
    BY <2>8, <2>9, <2>11, <2>12 DEF CutMore, Cut
  <2>14. Clock(t)' /\ Pieces(t)' /\ Disk(t)' /\ Cover(t)' /\ Announced(t)'
    BY <1>1, <2>2, <2>3, <2>5, <2>6, <2>13, CloseTrack
  <2>15. Dated(t, p)'
    BY <1>1, <2>2, <2>3, <2>5, <2>6, <2>12, <2>13, CloseDated
  <2>16. Sealing'
    <3>1. \A u \in Tracks : journal'[u].seal = journal[u].seal
      BY <2>11, <2>12
    <3>2. \A x \in Steps' : x \in About("seal") => x \in Steps
      BY <2>4
    <3>3. Seals' \subseteq Seals
      BY <1>1, <2>4, <3>1, <3>2, SealsKept
    <3>4. \A u \in Tracks : SameTape(u) \/ (~Closed(u) /\ journal'[u].closed = journal[u].closed)
      BY <2>7, <2>11, <2>12
    <3>5. h.do # "seal"
      BY <2>5
    <3> QED BY <1>1, <2>2, <3>3, <3>4, <3>5, SealingTurn
  <2>17. Direction1' /\ Direction2'
    <3>1. Calm(h) /\ Mic \in Tracks
      BY <2>4, <2>5, TheTracks DEF Calm, DirectionKinds, About
    <3>2. \A x \in R : x.do # "boundary"
      BY <2>4, <2>7
    <3>3. \A u \in Tracks : /\ journal'[u].boundaries = journal[u].boundaries
                           /\ journal'[u].final = journal[u].final
                           /\ journal'[u].active = journal[u].active
                           /\ journal'[u].classified = journal[u].classified
      BY <2>11, <2>12
    <3>4. \A k \in {"changeDirection", "checkpoint"} : Has(k, Mic)' = Has(k, Mic)
      BY <2>4, <2>5 DEF Has
    <3>5. Has("changeDirection", Mic)' /\ ~Has("checkpoint", Mic)' =>
            journal'[Mic].active = None /\ journal'[Mic].classified = vad'[Mic].cursor
      BY <1>1, <2>4, <3>1, <3>3, <3>4 DEF Direction1
    <3>6. ASSUME NEW u \in Tracks, NEW s \in Cut(u)'
          PROVE  \/ s \in Cut(u) /\ journal'[u].segments[s] = journal[u].segments[s]
                 \/ Dated(u, s)'
      <4>1. CASE u # t
        BY <2>12, <3>6, <4>1 DEF Cut
      <4>2. CASE u = t /\ s = p
        BY <2>15, <4>2
      <4>3. CASE u = t /\ s # p
        BY <2>13, <3>6, <4>3 DEF CutMore
      <4> QED BY <4>1, <4>2, <4>3
    <3>7. \A u \in Tracks : \A s \in Cut(u)' :
            \/ s \in Cut(u) /\ journal'[u].segments[s] = journal[u].segments[s]
            \/ Dated(u, s)'
      BY <3>6
    <3>8. PICK N : N = {}
      OBVIOUS
    <3>9. Turned(h, R, N) /\ \A x \in N : Calm(x)
      BY <2>2, <3>8
    <3>10. /\ \A u \in Tracks : journal'[u].boundaries = journal[u].boundaries
           /\ journal'[Mic].final = journal[Mic].final
           /\ \A u \in Tracks : \A e \in outbox'[u] : e.kind = "boundary" => e \in outbox[u]
      BY <1>1, <3>1, <3>3
    <3> QED BY <1>1, <3>1, <3>2, <3>5, <3>7, <3>9, <3>10, CalmDirections
  <2>18. Fresh'
    <3>1. phase \notin {"opening", "abandoned"}
      BY <2>4, <2>5 DEF Fits, CloseKinds
    <3> QED BY <2>1, <3>1 DEF Fresh
  <2>19. /\ outbox' \in [Tracks -> SUBSET AnyEvent] /\ epoch' \in Nat \ {0}
         /\ vad' \in [Tracks -> [cursor : Nat, active : Active \cup {None}]]
    BY <1>1, <2>4 DEF Types
  <2>20. \A u \in Tracks : u # h.track => SameTape(u) /\ vad'[u] = vad[u] /\ outbox'[u] = outbox[u]
    BY <1>1, <2>3, <2>12
  <2>21. journal'[h.track].final = journal[h.track].final
    BY <2>3, <2>11, <2>12
  <2> QED BY <1>1, <2>2, <2>3, <2>12, <2>14, <2>16, <2>17, <2>18, <2>19, <2>20, <2>21, TurnKept
<1> QED BY <1>2, <1>3

----------------------------------------------------------------------------
(* The seal of the capture, the end                                        *)

(* A manifest is a set of rows.                                            *)
LEMMA ManifestTyped ==
  ASSUME Types
  PROVE  Manifest \in SUBSET Row /\ Event("seal", [tracks |-> Manifest]) \in SealEvent
<1>1. ASSUME NEW t \in Tracks
      PROVE  [track |-> t, final |-> journal[t].final, segments |-> DOMAIN journal[t].segments] \in Row
  <2>1. t \in Both /\ journal[t].final \in Nat
    BY TypedTrack
  <2>2. DOMAIN journal[t].segments \in SUBSET Segment
    BY TypedCut DEF Cut
  <2> QED BY <2>1, <2>2 DEF Row
<1>2. Manifest \in SUBSET Row
  BY <1>1 DEF Manifest
<1>3. run \in Nat
  BY DEF Types
<1> QED BY <1>2, <1>3 DEF Event, SealEvent

(* What a publication of the seal comes to                                 *)
SealSent(N) ==
  \A x \in N : /\ x \in AnyStep /\ x.track = Mic /\ x.do \in {"append", "save", "flush", "resend"}
               /\ x.with \in SealEvent /\ x.with.kind = "seal" /\ x.with.about.tracks = Manifest

(* The steps that publish the transcript are a chain.                      *)
LEMMA PublishChain ==
  ASSUME CaptureInv, Publish, UNCHANGED journal, Head(todo).track = Mic, phase' = phase,
         ~GivesUp("refused")
  PROVE  \E new : \E N \in SUBSET AnyStep : Then(new) /\ Chain(new, N) /\ SealSent(N)
<1>1. Types /\ Sealing /\ Mic \in Both /\ Mic \in Tracks
  BY TheTracks DEF CaptureInv
<1>2. PICK e : e = Event("seal", [tracks |-> Manifest])
  OBVIOUS
<1>3. e \in SealEvent /\ e.kind = "seal" /\ e.about.tracks = Manifest /\ e \in AnyEvent
  BY <1>1, <1>2, ManifestTyped DEF Event, AnyEvent
<1>4. \/ Then(<<>>)
      \/ /\ journal[Mic].seal # {}
         /\ Then(<<StepFor("resend", Mic, CHOOSE x \in journal[Mic].seal : TRUE)>>)
      \/ Then(<<StepFor("append", Mic, e), StepFor("save", Mic, e), StepFor("flush", Mic, e)>>)
  BY <1>2 DEF Publish, Track
<1>5. CASE Then(<<>>)
  <2>1. \E N \in SUBSET AnyStep : N = {}
    OBVIOUS
  <2> QED BY <1>5, <2>1, ChainOfNone DEF SealSent
<1>6. CASE /\ journal[Mic].seal # {}
           /\ Then(<<StepFor("resend", Mic, CHOOSE x \in journal[Mic].seal : TRUE)>>)
  <2>1. PICK c : c = CHOOSE x \in journal[Mic].seal : TRUE
    OBVIOUS
  <2>2. c \in journal[Mic].seal
    BY <1>6, <2>1
  <2>3. c \in SealEvent /\ c.kind = "seal" /\ c \in AnyEvent
    BY <1>1, <2>2, TypedTrack DEF SealEvent, AnyEvent
  <2>4. c.about.tracks = Manifest
    BY <1>1, <2>2 DEF Sealing, Seals, KeptSeals
  <2>5. PICK a : a = StepFor("resend", Mic, c)
    OBVIOUS
  <2>6. a \in AnyStep /\ a.do = "resend" /\ a.track = Mic /\ a.with = c
    BY <1>1, <2>3, <2>5, StepTyped, StepForIs
  <2>7. Chain(<<a>>, {a}) /\ Then(<<a>>)
    BY <1>6, <2>1, <2>5, <2>6, ChainOfOne
  <2>8. SealSent({a}) /\ {a} \in SUBSET AnyStep
    BY <2>3, <2>4, <2>6 DEF SealSent
  <2> QED BY <2>7, <2>8
<1>7. CASE Then(<<StepFor("append", Mic, e), StepFor("save", Mic, e), StepFor("flush", Mic, e)>>)
  <2>1. PICK a, b, c : /\ a = StepFor("append", Mic, e) /\ b = StepFor("save", Mic, e)
                       /\ c = StepFor("flush", Mic, e)
    OBVIOUS
  <2>2. /\ a \in AnyStep /\ a.do = "append" /\ a.track = Mic /\ a.with = e
        /\ b \in AnyStep /\ b.do = "save" /\ b.track = Mic /\ b.with = e
        /\ c \in AnyStep /\ c.do = "flush" /\ c.track = Mic /\ c.with = e
    BY <1>1, <1>3, <2>1, StepTyped, StepForIs
  <2>3. May(a, b) /\ May(a, c) /\ May(b, c)
    BY <1>3, <2>2 DEF May, GapAbout, BoundaryAbout
  <2>4. Chain(<<a, b, c>>, {a, b, c})
    BY <2>2, <2>3, ChainOfThree
  <2>5. SealSent({a, b, c}) /\ {a, b, c} \in SUBSET AnyStep
    BY <1>3, <2>2 DEF SealSent
  <2> QED BY <1>7, <2>1, <2>4, <2>5
<1> QED BY <1>4, <1>5, <1>6, <1>7

(* The seal is sent, once every journal is closed.                         *)
LEMMA PublishKept == CaptureInv /\ Publish => CaptureInv'
<1> SUFFICES ASSUME CaptureInv, Publish PROVE CaptureInv'
  OBVIOUS
<1>1. todo # <<>> /\ Head(todo).do = "publish"
      /\ UNCHANGED <<sources, recording, outbox, ledger, vad, epoch, queue, run>>
  BY DEF Publish, Doing, memory
<1>2. CASE GivesUp("refused")
  <2>1. Delivered
    BY <1>1, NothingDelivered
  <2> QED BY <1>1, <1>2, <2>1, GivesUpKept
<1>3. CASE ~GivesUp("refused")
  <2>1. UNCHANGED <<journal, phase>>
    BY <1>3 DEF Publish
  <2>2. Types /\ Program /\ Sealing /\ Mic \in Tracks
    BY TheTracks DEF CaptureInv
  <2>3. PICK h \in AnyStep, R \in SUBSET AnyStep :
          /\ h = Head(todo) /\ R = In(Tail(todo)) /\ Steps = {h} \cup R /\ h.track \in Tracks
          /\ \A b \in R : May(h, b) /\ b.track \in Tracks
          /\ Fits(phase, h.do) /\ \A b \in R : Fits(phase, b.do)
    BY <1>1, <2>2, FirstStep
  <2>4. h.do = "publish" /\ h.track = Mic
    BY <1>1, <2>3, TypedStep
  <2>5. PICK new : \E N \in SUBSET AnyStep : Then(new) /\ Chain(new, N) /\ SealSent(N)
    BY <1>3, <2>1, <2>3, <2>4, PublishChain
  <2>6. PICK N \in SUBSET AnyStep : Then(new) /\ Chain(new, N) /\ SealSent(N)
    BY <2>5
  <2>7. \A b \in R : b.do = "acknowledge"
    BY <2>3, <2>4 DEF May
  <2>8. \A x \in N : /\ x.track = h.track /\ x.do \in {"append", "save", "flush", "resend"}
                     /\ x.with.kind = "seal"
    BY <2>4, <2>6 DEF SealSent
  <2>9. \A x \in N : Fits(phase, x.do)
    BY <2>3, <2>4, <2>8 DEF Fits, CloseKinds, ReplayKinds
  <2>10. \A x \in N, b \in R : May(x, b)
    BY <2>7, <2>8 DEF May, GapAbout, BoundaryAbout
  <2>11. Turned(h, R, N)
    BY <1>1, <2>1, <2>3, <2>4, <2>6, <2>8, <2>9, <2>10, NextTurn
  <2>12. PICK t : t = h.track
    OBVIOUS
  <2>13. /\ Types /\ Program /\ Shape /\ Sealing /\ Direction1 /\ Direction2
         /\ h \in AnyStep /\ h = Head(todo) /\ t \in Tracks /\ t \in Both /\ Fits(phase, h.do)
         /\ Steps = {h} \cup R /\ Steps' = N \cup R /\ Steps' \subseteq AnyStep
         /\ Steps \subseteq AnyStep /\ R \subseteq AnyStep
         /\ \A b \in R : May(h, b)
         /\ Clock(t) /\ Pieces(t) /\ Disk(t) /\ Cover(t) /\ Announced(t)
         /\ journal[t] \in Journal /\ journal[t].final \in Nat /\ journal[t].classified \in Nat
         /\ journal[t].voiced \subseteq Nat /\ journal[t].pcm \subseteq Nat
         /\ Cut(t) \subseteq Segment /\ journal[t].gaps \subseteq Gap
         /\ journal[t].boundaries \subseteq BoundaryEvent
         /\ vad[t].cursor \in Nat /\ Low(t) \in Nat /\ From(t) \in Nat
         /\ \A u \in journal[t].voiced \cup journal[t].pcm : u < journal[t].final
         /\ \A x \in R : x.do \in {"direction", "changeDirection", "boundary"} => x.track = t
    BY <2>11, <2>12, TurnFacts
  <2>14. \A u \in Tracks : Closed(u)
    <3>1. Has("publish", Mic)
      BY <2>4, <2>13 DEF Has
    <3>2. \A u : ~Has("seal", u)
      BY <2>4, <2>7, <2>13 DEF Has
    <3> QED BY <2>13, <3>1, <3>2 DEF Sealing
  <2>15. \A u \in Tracks : SameTape(u)
    BY <2>1 DEF SameTape
  <2>16. \A x \in Steps' : x.do \in {"append", "save", "flush", "resend", "acknowledge"}
    BY <2>7, <2>8, <2>13
  <2>17. Clock(t)' /\ Pieces(t)' /\ Disk(t)' /\ Cover(t)' /\ Announced(t)'
    <3>1. Keeps(KindOf(t, TrackKinds))
      <4>1. h \notin KindOf(t, TrackKinds) /\ \A x \in N : x \notin KindOf(t, TrackKinds)
        BY <2>4, <2>8 DEF KindOf, TrackKinds, ClockKinds
      <4> QED BY <2>13, <4>1, Kept
    <3>2. \A x \in Steps : GapAbout(x) /\ x.track = t => x \in Steps'
      BY <2>4, <2>13 DEF GapAbout
    <3>3. Head(todo).do # "finish"
      BY <1>1
    <3> QED BY <1>1, <2>1, <2>13, <2>15, <3>1, <3>2, <3>3, TrackFrame
  <2>18. Sealing'
    <3>1. Tracks' = Tracks /\ Manifest' = Manifest /\ Sealed' = Sealed /\ Registered' = Registered
          /\ \A u : Cut(u)' = Cut(u) /\ Closed(u)' = Closed(u)
      BY <1>1, <2>1 DEF Tracks, Manifest, Sealed, Registered, Events, Cut, Closed
    <3>2. ASSUME NEW e PROVE IsSeal(e)' => IsSeal(e) \/ \E x \in N : x.with = e
      BY <1>1, <2>1, <2>13, <3>1 DEF IsSeal
    <3>3. (\A e : e \in Seals <=> IsSeal(e))'
      BY SealsAre, PTL
    <3>4. \A e \in Seals' : e \in Seals \/ \E x \in N : x.with = e
      BY <3>2, <3>3, SealsAre
    <3>5. \A e \in Seals' : e.about.tracks = Manifest
      BY <2>6, <2>13, <3>4 DEF Sealing, SealSent
    <3>6. ~Has("publish", Mic)'
      BY <2>16 DEF Has
    <3>7. \A e \in Seals' : e.about.tracks = Manifest' /\ \A u \in Tracks : Closed(u)'
      BY <2>14, <3>1, <3>5
    <3>8. phase' \notin {"opening", "live"}
      BY <2>1, <2>2, <2>13, <2>14 DEF Sealing
    <3>9. Sealed' => \A u \in Tracks' : Cut(u)' = {s \in Registered' : s.track = u}
      BY <2>13, <3>1 DEF Sealing
    <3> QED BY <2>16, <3>1, <3>6, <3>7, <3>8, <3>9 DEF Sealing
  <2>19. Direction1' /\ Direction2'
    <3>1. Calm(h) /\ \A x \in N : Calm(x)
      BY <2>4, <2>8 DEF Calm, DirectionKinds, About
    <3>2. \A x \in R : x.do # "boundary"
      BY <2>7
    <3>3. ~Has("changeDirection", Mic)'
      BY <2>16 DEF Has
    <3>4. \A u \in Tracks : \A s \in Cut(u)' :
            s \in Cut(u) /\ journal'[u].segments[s] = journal[u].segments[s]
      BY <2>1 DEF Cut
    <3> QED BY <1>1, <2>1, <2>2, <2>11, <3>1, <3>2, <3>3, <3>4, CalmDirections
  <2>20. Fresh'
    BY <1>1, <2>1, <2>2 DEF Fresh, Program, Tracks
  <2>21. /\ outbox' \in [Tracks -> SUBSET AnyEvent] /\ epoch' \in Nat \ {0}
         /\ vad' \in [Tracks -> [cursor : Nat, active : Active \cup {None}]]
         /\ journal' \in [Tracks -> Journal]
    BY <1>1, <2>1, <2>13 DEF Types
  <2>22. \A u \in Tracks : u # h.track => SameTape(u) /\ vad'[u] = vad[u] /\ outbox'[u] = outbox[u]
    BY <1>1, <2>15
  <2>23. journal'[h.track].final = journal[h.track].final
    BY <2>1
  <2>24. \A x \in N : x.do \notin {"record", "advance", "noteGap", "gapTo", "direction",
                                   "changeDirection", "boundary"}
    BY <2>8
  <2> QED BY <1>1, <2>11, <2>12, <2>17, <2>18, <2>19, <2>20, <2>21, <2>22, <2>23, <2>24, TurnKept
<1> QED BY <1>2, <1>3

(* The end: nothing is left to do.                                         *)
LEMMA EndedKept ==
  ASSUME CaptureInv, phase' = "done", todo' = <<>>, phase \notin {"failed", "down"},
         \A x \in Steps : x.do # "recoverTail" /\ ~GapAbout(x),
         UNCHANGED <<sources, recording, journal, outbox, ledger, vad, epoch, queue, run>>
  PROVE  CaptureInv'
<1>1. Types /\ Program /\ Sealing /\ Direction1 /\ Direction2
  BY DEF CaptureInv
<1>2. Steps' = {} /\ Ordered(todo') /\ FlushedFirst' /\ todo' \in Seq(AnyStep)
  BY LeftSteps
<1>3. \A k, t : ~Has(k, t)'
  BY <1>2 DEF Has
<1>4. Over' /\ ~Live'
  BY DEF Over, Live
<1>5. /\ Tracks' = Tracks /\ Dual' = Dual /\ Noted' = Noted /\ Sent' = Sent /\ InLedger' = InLedger
      /\ Manifest' = Manifest /\ Sealed' = Sealed /\ Registered' = Registered
  BY DEF Tracks, Dual, Noted, Sent, InLedger, Manifest, Sealed, Registered, Events
<1>6. \A t : Cut(t)' = Cut(t) /\ From(t)' = From(t) /\ Low(t)' = Low(t) /\ Closed(t)' = Closed(t)
  BY DEF Cut, From, Low, Closed
<1>7. \A t, u : Behind(t, u)' <=> Behind(t, u)
  BY <1>6 DEF Behind
<1>8. Types'
  BY <1>1, <1>2, <1>5 DEF Types, Phases
<1>9. Program'
  BY <1>2, <1>3 DEF Program, Shape, Fresh
<1>10. ASSUME NEW t \in Tracks
       PROVE  Clock(t)' /\ Pieces(t)' /\ Disk(t)' /\ Cover(t)' /\ Announced(t)'
  <2>1. Clock(t) /\ Pieces(t) /\ Disk(t) /\ Cover(t) /\ Announced(t)
    BY DEF CaptureInv
  <2>2. Clock(t)'
    BY <1>3, <1>4, <2>1 DEF Clock
  <2>3. Pieces(t)'
    BY <1>2 DEF Pieces, Pending
  <2>4. Disk(t)'
    BY <1>4, <1>6, <1>7, <2>1 DEF Disk
  <2>5. Cover(t)'
    BY <1>4 DEF Cover
  <2>6. Announced(t)'
    <3>1. ~Has("recoverTail", t)
      BY DEF Has
    <3> QED BY <1>6, <2>1, <3>1 DEF Announced
  <2> QED BY <2>2, <2>3, <2>4, <2>5, <2>6
<1>11. Sealing'
  <2>1. Seals' \subseteq Seals
    BY <1>2, SealsKept
  <2> QED BY <1>1, <1>2, <1>3, <1>5, <1>6, <2>1 DEF Sealing
<1>12. Direction1'
  BY <1>1, <1>2, <1>3, <1>5 DEF Direction1
<1>13. Direction2'
  BY <1>1, <1>2, <1>4, <1>5, <1>6 DEF Direction2
<1> QED BY <1>5, <1>8, <1>9, <1>10, <1>11, <1>12, <1>13 DEF CaptureInv

(* acknowledge_replay, the end of a recovery                               *)
LEMMA AcknowledgeKept == CaptureInv /\ Acknowledge => CaptureInv'
<1> SUFFICES ASSUME CaptureInv, Acknowledge PROVE CaptureInv'
  OBVIOUS
<1>1. /\ todo # <<>> /\ Head(todo).do = "acknowledge" /\ phase' = "done" /\ Then(<<>>)
      /\ UNCHANGED <<sources, recording, journal, outbox, ledger, vad, epoch, queue, run>>
  BY DEF Acknowledge, Doing, disk, memory
<1>2. /\ Tail(todo) = <<>> /\ Steps = {Head(todo)} /\ Fits(phase, Head(todo).do)
  BY <1>1, LastStep
<1>3. todo' = <<>>
  BY <1>1, <1>2 DEF Then
<1>4. phase = "recovering"
  BY <1>1, <1>2 DEF Fits, CloseKinds, ReplayKinds
<1>5. \A x \in Steps : x.do # "recoverTail" /\ ~GapAbout(x)
  BY <1>1, <1>2 DEF GapAbout
<1> QED BY <1>1, <1>3, <1>4, <1>5, EndedKept

(* After the seal: what is queued is recognised, and then it is over.      *)
LEMMA DrainKept == CaptureInv /\ Drain => CaptureInv'
<1> SUFFICES ASSUME CaptureInv, Drain PROVE CaptureInv'
  OBVIOUS
<1>1. /\ phase \in {"closing", "abandoned", "draining"} /\ todo = <<>>
      /\ UNCHANGED <<sources, recording, journal, outbox, ledger, vad, epoch, queue, run>>
  BY DEF Drain, disk, memory
<1>2. Steps = {}
  BY <1>1, NoSteps DEF Steps
<1>3. CASE phase' = "done" /\ UNCHANGED todo
  BY <1>1, <1>2, <1>3, EndedKept
<1>4. CASE phase' = "draining" /\ todo' = <<Step("pump", Mic)>>
  <2>1. Types /\ Program /\ Sealing /\ Mic \in Tracks /\ Mic \in Both
    BY TheTracks DEF CaptureInv
  <2>2. PICK a : a = Step("pump", Mic)
    OBVIOUS
  <2>3. a \in AnyStep /\ a.do = "pump" /\ a.track = Mic
    BY <2>1, <2>2, StepTyped, PlainIs DEF PlainKinds
  <2>4. PICK N : N = {a}
    OBVIOUS
  <2>5. Chain(todo', N)
    BY <1>4, <2>2, <2>3, <2>4, ChainOfOne
  <2>6. todo' \in Seq(AnyStep) /\ Steps' = N /\ Ordered(todo') /\ FlushedFirst'
    BY <2>5, NewList
  <2>7. \A x \in Steps' : x = a
    BY <2>4, <2>6
  <2>8. \A k, t : k # "pump" => ~Has(k, t)'
    BY <2>3, <2>7 DEF Has
  <2>9. Live /\ Live' /\ phase' \in Phases
    BY <1>1, <1>4 DEF Live, Phases
  <2>10. Shape'
    <3>1. \A x \in Steps' : Fits(phase', x.do)
      BY <1>4, <2>3, <2>7 DEF Fits
    <3>2. \A x \in Steps' : x.do = "pump"
      BY <2>3, <2>7
    <3> QED BY <2>8, <3>1, <3>2 DEF Shape
  <2>11. Fresh'
    BY <1>4 DEF Fresh
  <2>12. ASSUME NEW t \in Tracks PROVE Clock(t)'
    <3>1. Clock(t)
      BY DEF CaptureInv
    <3>2. /\ \A x \in Steps : x.track = t => x.do \notin {"advance", "noteGap", "skip", "push", "record"}
          /\ \A x \in Steps' : x.track = t => x.do \notin {"advance", "noteGap", "skip", "push", "record"}
      BY <1>2, <2>3, <2>7
    <3> QED BY <1>1, <2>1, <2>8, <2>9, <3>1, <3>2, ClockCalm
  <2>13. Sealing'
    <3>1. \A x \in Steps' : x \notin About("seal")
      BY <2>3, <2>7 DEF About
    <3>2. Seals' \subseteq Seals
      <4>1. Steps' \subseteq AnyStep
        BY <2>3, <2>7
      <4> QED BY <1>1, <3>1, <4>1, SealsKept
    <3>3. /\ Tracks' = Tracks /\ Manifest' = Manifest /\ Sealed' = Sealed /\ Registered' = Registered
          /\ \A u : Cut(u)' = Cut(u) /\ Closed(u)' = Closed(u)
      BY <1>1 DEF Tracks, Manifest, Sealed, Registered, Events, Cut, Closed
    <3>4. \A x \in Steps' : x.do = "pump"
      BY <2>3, <2>7
    <3> QED BY <1>4, <2>1, <2>8, <3>2, <3>3, <3>4 DEF Sealing
  <2>14. Direction1' /\ Direction2'
    <3>1. \A x \in Steps' : Calm(x)
      BY <2>3, <2>7 DEF Calm, About, DirectionKinds
    <3>2. Steps' \subseteq AnyStep
      BY <2>3, <2>7
    <3>3. Steps \subseteq AnyStep /\ \A x \in Steps : Calm(x)
      BY <1>2
    <3> QED BY <1>1, <2>8, <2>9, <3>1, <3>2, <3>3, DirectionsCalm
  <2>15. \A x \in Steps' : /\ x \in AnyStep /\ x.track \in Tracks
                           /\ x.do \notin {"close", "closing", "push", "recoverTail", "skip"}
    BY <2>1, <2>3, <2>7
  <2> QED BY <1>1, <1>2, <2>6, <2>9, <2>10, <2>11, <2>12, <2>13, <2>14, <2>15, ProgramTurn
<1> QED BY <1>3, <1>4 DEF Drain

----------------------------------------------------------------------------
(* A recovery                                                              *)

ReplayParts == {"flushAll", "replayDirections", "recoverTail", "register", "missing"}

(* What a recovery does with a track                                       *)
LEMMA ReplayTrackChain ==
  ASSUME NEW t \in Both
  PROVE  \E N \in SUBSET AnyStep :
           /\ Chain(ReplayTrack(t), N)
           /\ \A x \in N : x.track = t /\ x.do \in ReplayParts
           /\ \A k \in ReplayParts : \E x \in N : x.do = k
<1>1. PICK a, b, c, d, e :
        /\ a = Step("flushAll", t) /\ b = Step("replayDirections", t) /\ c = Step("recoverTail", t)
        /\ d = Step("register", t) /\ e = Step("missing", t)
  OBVIOUS
<1>2. /\ a \in AnyStep /\ b \in AnyStep /\ c \in AnyStep /\ d \in AnyStep /\ e \in AnyStep
      /\ a.do = "flushAll" /\ b.do = "replayDirections" /\ c.do = "recoverTail"
      /\ d.do = "register" /\ e.do = "missing"
      /\ a.track = t /\ b.track = t /\ c.track = t /\ d.track = t /\ e.track = t
  BY <1>1, StepTyped, PlainIs DEF PlainKinds
<1>3. /\ May(a, b) /\ May(a, c) /\ May(a, d) /\ May(a, e) /\ May(b, c) /\ May(b, d) /\ May(b, e)
      /\ May(c, d) /\ May(c, e) /\ May(d, e)
  BY <1>2 DEF May, GapAbout, BoundaryAbout
<1>4. Chain(<<a, b, c, d, e>>, {a, b, c, d, e})
  BY <1>2, <1>3, ChainOfFive
<1>5. ReplayTrack(t) = <<a, b, c, d, e>>
  BY <1>1 DEF ReplayTrack
<1>6. PICK N \in SUBSET AnyStep : N = {a, b, c, d, e}
  BY <1>2
<1> QED BY <1>2, <1>4, <1>5, <1>6 DEF ReplayParts

ReplayedOf(N, tracks) ==
  /\ N \subseteq AnyStep
  /\ \A x \in N : x.track \in tracks /\ x.do \in ReplayParts
  /\ \A t \in tracks : \A k \in ReplayParts : \E x \in N : x.do = k /\ x.track = t

(* A recovery replays each track,                                          *)
LEMMA ReplayTracksChain ==
  ASSUME Types
  PROVE  \E N : /\ Chain(ReplayTrack(Mic) \o (IF Dual THEN ReplayTrack(System) ELSE <<>>), N)
                /\ ReplayedOf(N, Tracks)
<1>1. /\ Mic \in Tracks /\ Mic \in Both /\ System \in Both /\ Mic # System
      /\ (Dual => Tracks = Both) /\ (~Dual => Tracks = {Mic})
  BY TheTracks
<1>2. PICK M \in SUBSET AnyStep : /\ Chain(ReplayTrack(Mic), M)
                                  /\ \A x \in M : x.track = Mic /\ x.do \in ReplayParts
                                  /\ \A k \in ReplayParts : \E x \in M : x.do = k
  BY <1>1, ReplayTrackChain
<1>3. PICK S \in SUBSET AnyStep : /\ Chain(ReplayTrack(System), S)
                                  /\ \A x \in S : x.track = System /\ x.do \in ReplayParts
                                  /\ \A k \in ReplayParts : \E x \in S : x.do = k
  BY <1>1, ReplayTrackChain
<1>4. CASE Dual
  <2>1. \A x \in M, y \in S : May(x, y)
    BY <1>1, <1>2, <1>3 DEF May, ReplayParts
  <2>2. Chain(ReplayTrack(Mic) \o ReplayTrack(System), M \cup S)
    BY <1>2, <1>3, <2>1, ChainJoin
  <2>3. ReplayedOf(M \cup S, Tracks)
    <3>1. Tracks = {Mic, System}
      BY <1>1, <1>4 DEF Both
    <3> QED BY <1>2, <1>3, <3>1 DEF ReplayedOf
  <2> QED BY <1>4, <2>2, <2>3
<1>5. CASE ~Dual
  <2>1. Chain(ReplayTrack(Mic) \o <<>>, M \cup {})
    BY <1>2, ChainOfNone, ChainJoin
  <2>2. M \cup {} = M
    OBVIOUS
  <2>3. ReplayedOf(M, Tracks)
    BY <1>1, <1>2, <1>5 DEF ReplayedOf
  <2> QED BY <1>5, <2>1, <2>2, <2>3
<1> QED BY <1>4, <1>5

(* seals the journals and acknowledges.                                    *)
LEMMA ReplayStepsChain ==
  ASSUME Types
  PROVE  \E N : /\ Chain(ReplaySteps, N)
                /\ \A x \in N :
                     /\ x \in AnyStep /\ x.track \in Tracks
                     /\ x.do \in ReplayParts \cup {"seal", "publish", "acknowledge"}
                /\ \A t \in Tracks : \A k \in ReplayParts \cup {"seal"} :
                     \E x \in N : x.do = k /\ x.track = t
<1>1. Mic \in Tracks /\ Mic \in Both
  BY TheTracks
<1>2. PICK M : /\ Chain(ReplayTrack(Mic) \o (IF Dual THEN ReplayTrack(System) ELSE <<>>), M)
               /\ ReplayedOf(M, Tracks)
  BY ReplayTracksChain
<1>3. PICK a : a = Step("acknowledge", Mic)
  OBVIOUS
<1>4. a \in AnyStep /\ a.do = "acknowledge" /\ a.track = Mic
  BY <1>1, <1>3, StepTyped, PlainIs DEF PlainKinds
<1>5. Chain(<<a>>, {a})
  BY <1>4, ChainOfOne
<1>6. /\ Chain(SealSteps, SealSet)
      /\ \A x \in SealSet : x \in AnyStep /\ x.track \in Tracks /\ x.do \in {"flushAll", "seal", "publish"}
      /\ \A t \in Tracks : \E x \in SealSet : x.do = "seal" /\ x.track = t
  BY SealStepsChain
<1>7. PICK S : S = SealSet
  OBVIOUS
<1>8. \A x \in M, y \in S : May(x, y)
  BY <1>2, <1>6, <1>7 DEF ReplayedOf, ReplayParts, May, GapAbout, BoundaryAbout
<1>9. PICK list : list = ReplayTrack(Mic) \o (IF Dual THEN ReplayTrack(System) ELSE <<>>)
  OBVIOUS
<1>10. Chain(list \o SealSteps, M \cup S)
  BY <1>2, <1>6, <1>7, <1>8, <1>9, ChainJoin
<1>11. \A x \in M \cup S, y \in {a} : May(x, y)
  BY <1>2, <1>4, <1>6, <1>7 DEF ReplayedOf, ReplayParts, May, GapAbout, BoundaryAbout
<1>12. Chain((list \o SealSteps) \o <<a>>, (M \cup S) \cup {a})
  BY <1>5, <1>10, <1>11, ChainJoin
<1>13. ReplaySteps = (list \o SealSteps) \o <<a>>
  BY <1>3, <1>9 DEF ReplaySteps, Publisher
<1>14. PICK N : N = (M \cup S) \cup {a}
  OBVIOUS
<1>15. \A x \in N : /\ x \in AnyStep /\ x.track \in Tracks
                    /\ x.do \in ReplayParts \cup {"seal", "publish", "acknowledge"}
  BY <1>1, <1>2, <1>4, <1>6, <1>7, <1>14 DEF ReplayedOf, ReplayParts
<1>16. \A t \in Tracks : \A k \in ReplayParts \cup {"seal"} : \E x \in N : x.do = k /\ x.track = t
  BY <1>2, <1>6, <1>7, <1>14 DEF ReplayedOf
<1>17. Chain(ReplaySteps, N)
  BY <1>12, <1>13, <1>14
<1> QED BY <1>15, <1>16, <1>17

(* The operator has the meeting recovered.                                 *)
LEMMA RecoverKept == CaptureInv /\ Recover => CaptureInv'
<1> SUFFICES ASSUME CaptureInv, Recover PROVE CaptureInv'
  OBVIOUS
<1>1. /\ phase \in {"failed", "down"} /\ phase' = "recovering" /\ run' = run + 1
      /\ todo' = ReplaySteps /\ vad' = [t \in Tracks |-> NewVad] /\ epoch' = 1 /\ queue' = <<>>
      /\ UNCHANGED <<sources, recording, journal, outbox, ledger>>
  BY DEF Recover, disk
<1>2. Types /\ Program /\ Sealing /\ Direction1 /\ Direction2 /\ Mic \in Tracks
  BY TheTracks DEF CaptureInv
<1>3. Steps = {}
  <2>1. \A x \in Steps : Fits(phase, x.do)
    BY <1>2 DEF Program, Shape
  <2> QED BY <1>1, <2>1 DEF Fits
<1>4. PICK N : /\ Chain(ReplaySteps, N)
               /\ \A x \in N :
                    /\ x \in AnyStep /\ x.track \in Tracks
                    /\ x.do \in ReplayParts \cup {"seal", "publish", "acknowledge"}
               /\ \A t \in Tracks : \A k \in ReplayParts \cup {"seal"} :
                    \E x \in N : x.do = k /\ x.track = t
  BY <1>2, ReplayStepsChain
<1>5. todo' \in Seq(AnyStep) /\ Steps' = N /\ Ordered(todo') /\ FlushedFirst'
  BY <1>1, <1>4, NewList
<1>6. \A x \in Steps' : /\ x \in AnyStep /\ x.track \in Tracks
                        /\ x.do \in ReplayParts \cup {"seal", "publish", "acknowledge"}
  BY <1>4, <1>5
<1>7. /\ \A k, t : k \notin ReplayParts \cup {"seal", "publish", "acknowledge"} => ~Has(k, t)'
      /\ \A t \in Tracks : \A k \in ReplayParts \cup {"seal"} : Has(k, t)'
  BY <1>4, <1>5 DEF Has
<1>8. /\ ~Live' /\ ~Over' /\ Tracks' = Tracks /\ Dual' = Dual /\ Noted' = Noted /\ Sent' = Sent
      /\ InLedger' = InLedger /\ Manifest' = Manifest /\ Sealed' = Sealed
      /\ Registered' = Registered
  BY <1>1 DEF Live, Over, Tracks, Dual, Noted, Sent, InLedger, Manifest, Sealed, Registered, Events
<1>9. \A t : Cut(t)' = Cut(t) /\ Low(t)' = Low(t) /\ Closed(t)' = Closed(t)
  BY <1>1 DEF Cut, Low, Closed
<1>10. \A t, u : Behind(t, u)' <=> Behind(t, u)
  BY <1>9 DEF Behind
<1>11. \A t \in Tracks : vad'[t].active = None /\ vad'[t].cursor = 0
  BY <1>1 DEF NewVad
<1>12. Types'
  <2>1. vad' \in [Tracks -> [cursor : Nat, active : Active \cup {None}]]
    BY <1>1 DEF NewVad
  <2>2. run' \in Nat /\ queue' \in Seq(Segment)
    BY <1>1, <1>2, EmptySeq DEF Types
  <2> QED BY <1>1, <1>2, <1>5, <1>6, <1>8, <2>1, <2>2 DEF Types, Phases
<1>13. Program'
  <2>1. \A x \in Steps' : Fits(phase', x.do)
    BY <1>1, <1>6 DEF Fits, ReplayKinds, ReplayParts
  <2>2. \A x \in Steps' : x.do \notin {"advance", "noteGap", "gapTo", "direction",
                                       "changeDirection", "boundary"}
    BY <1>6 DEF ReplayParts
  <2>3. \A t \in Tracks : ~Has("record", t)' /\ ~Has("advance", t)'
    BY <1>7 DEF ReplayParts
  <2>4. Shape'
    BY <1>8, <2>1, <2>2, <2>3 DEF Shape
  <2>5. Fresh'
    BY <1>1 DEF Fresh
  <2> QED BY <1>5, <2>4, <2>5 DEF Program
<1>14. ASSUME NEW t \in Tracks
       PROVE  Clock(t)' /\ Pieces(t)' /\ Disk(t)' /\ Cover(t)' /\ Announced(t)'
  <2>1. Clock(t) /\ Pieces(t) /\ Disk(t) /\ Cover(t) /\ Announced(t)
    BY DEF CaptureInv
  <2>2. Clock(t)'
    <3>1. ~Has("checkpoint", t)'
      BY <1>7 DEF ReplayParts
    <3> QED BY <1>1, <1>8, <1>11, <2>1, <3>1 DEF Clock
  <2>3. Pieces(t)'
    <3>1. \A x \in Steps' : x.do \notin {"close", "closing"}
      BY <1>6 DEF ReplayParts
    <3> QED BY <3>1 DEF Pieces, Pending
  <2>4. Disk(t)'
    BY <1>1, <1>8, <1>9, <1>10, <2>1 DEF Disk
  <2>5. Cover(t)'
    <3>1. Has("recoverTail", t)'
      BY <1>7 DEF ReplayParts
    <3>2. \A u \in journal[t].voiced : u \in Nat
      BY <1>2, TypedTrack
    <3> QED BY <1>1, <1>11, <3>1, <3>2 DEF Cover
  <2>6. Announced(t)'
    <3>1. Has("recoverTail", t)'
      BY <1>7 DEF ReplayParts
    <3> QED BY <1>1, <1>3, <1>9, <1>10, <2>1, <3>1 DEF Announced
  <2> QED BY <2>2, <2>3, <2>4, <2>5, <2>6
<1>15. Sealing'
  <2>1. Seals' \subseteq Seals
    <3>1. \A x \in Steps' : x \notin About("seal")
      BY <1>6 DEF About, ReplayParts
    <3>2. Steps' \subseteq AnyStep
      BY <1>6
    <3> QED BY <1>1, <3>1, <3>2, SealsKept
  <2>2. \A t \in Tracks : Has("seal", t)'
    BY <1>7
  <2>3. \A x \in Steps' : x.do \notin {"last", "direction", "changeDirection", "close", "closing",
                            "record", "advance", "noteGap", "push", "hear", "tail", "gapTo",
                            "finish", "checkpoint", "skip"}
    BY <1>6 DEF ReplayParts
  <2> QED BY <1>1, <1>2, <1>8, <1>9, <2>1, <2>2, <2>3 DEF Sealing
<1>16. Direction1'
  <2>1. \A x \in Steps' : /\ x.do \notin {"boundary", "inForce", "replaying", "append", "resend", "flush"}
                          /\ ~BoundaryAbout(x)
    BY <1>6 DEF ReplayParts, BoundaryAbout
  <2>2. ~Has("changeDirection", Mic)'
    BY <1>7 DEF ReplayParts
  <2> QED BY <1>1, <1>2, <1>8, <2>1, <2>2 DEF Direction1
<1>17. Direction2'
  <2>1. Has("replayDirections", Mic)'
    BY <1>2, <1>7 DEF ReplayParts
  <2> QED BY <1>1, <1>2, <1>8, <1>9, <2>1 DEF Direction2
<1> QED BY <1>8, <1>12, <1>13, <1>14, <1>15, <1>16, <1>17 DEF CaptureInv

----------------------------------------------------------------------------
(* The beginning                                                           *)

(* The journals are created, and the barrier comes last.                   *)
LEMMA FirstSteps ==
  ASSUME Init
  PROVE  \E N : Chain(todo, N) /\ \A x \in N : /\ x \in AnyStep /\ x.track \in Tracks
                                               /\ x.do \in {"create", "barrier"}
<1>1. /\ Mic \in Tracks /\ Mic \in Both /\ System \in Both /\ (Dual => Tracks = Both)
  BY CaptureAssumption DEF Init, Tracks, Dual, Both
<1>2. PICK a, b, c : /\ a = Step("create", Mic) /\ b = Step("create", System)
                     /\ c = Step("barrier", Mic)
  OBVIOUS
<1>3. /\ a \in AnyStep /\ a.do = "create" /\ a.track = Mic
      /\ b \in AnyStep /\ b.do = "create" /\ b.track = System
      /\ c \in AnyStep /\ c.do = "barrier" /\ c.track = Mic
  BY <1>1, <1>2, StepTyped, PlainIs DEF PlainKinds
<1>4. Chain(<<a>>, {a}) /\ Chain(<<b>>, {b}) /\ Chain(<<c>>, {c}) /\ Chain(<<>>, {})
  BY <1>3, ChainOfOne, ChainOfNone
<1>5. PICK l, M : /\ l = (IF Dual THEN <<b>> ELSE <<>>) /\ M = (IF Dual THEN {b} ELSE {})
  OBVIOUS
<1>6. Chain(l, M) /\ \A x \in M : x = b /\ Dual
  BY <1>4, <1>5
<1>7. \A x \in {a}, y \in M : May(x, y)
  BY <1>3, <1>6 DEF May, GapAbout, BoundaryAbout
<1>8. Chain(<<a>> \o l, {a} \cup M)
  BY <1>4, <1>6, <1>7, ChainJoin
<1>9. \A x \in {a} \cup M, y \in {c} : May(x, y)
  BY <1>3, <1>6 DEF May, GapAbout, BoundaryAbout
<1>10. Chain((<<a>> \o l) \o <<c>>, ({a} \cup M) \cup {c})
  BY <1>4, <1>8, <1>9, ChainJoin
<1>11. todo = (<<a>> \o l) \o <<c>>
  BY <1>2, <1>5 DEF Init
<1>12. PICK N : N = ({a} \cup M) \cup {c}
  OBVIOUS
<1>13. Chain(todo, N)
  BY <1>10, <1>11, <1>12
<1>14. \A x \in N : x \in AnyStep /\ x.track \in Tracks /\ x.do \in {"create", "barrier"}
  BY <1>1, <1>3, <1>6, <1>12
<1> QED BY <1>13, <1>14

(* An empty journal                                                        *)
LEMMA NoJournalTyped ==
  /\ NoJournal \in Journal /\ DOMAIN NoJournal.segments = {}
  /\ NewVad \in [cursor : Nat, active : Active \cup {None}]
<1>1. DOMAIN <<>> = {}
  OBVIOUS
<1>2. <<>> \in [{} -> Nat \ {0}]
  BY <1>1
<1>3. {} \in SUBSET Segment
  OBVIOUS
<1>4. <<>> \in Epochs
  BY <1>2, <1>3 DEF Epochs
<1> QED BY <1>1, <1>4 DEF NoJournal, Journal, NewVad

(* CaptureInv holds at the beginning.                                      *)
LEMMA InitCaptured == Init => CaptureInv
<1> SUFFICES ASSUME Init PROVE CaptureInv
  OBVIOUS
<1>1. /\ sources \in {{Mic}, Both} /\ recording \in BOOLEAN /\ phase = "opening" /\ epoch = 1
      /\ run = 1 /\ queue = <<>> /\ ledger = {}
      /\ journal = [t \in Tracks |-> NoJournal] /\ outbox = [t \in Tracks |-> {}]
      /\ vad = [t \in Tracks |-> NewVad]
  BY DEF Init, Both
<1>2. Mic \in Tracks /\ Tracks \subseteq Both
  BY <1>1 DEF Tracks, Both
<1>3. /\ journal \in [Tracks -> Journal] /\ outbox \in [Tracks -> SUBSET AnyEvent]
      /\ vad \in [Tracks -> [cursor : Nat, active : Active \cup {None}]]
  BY <1>1, NoJournalTyped
<1>4. PICK N : Chain(todo, N) /\ \A x \in N : /\ x \in AnyStep /\ x.track \in Tracks
                                               /\ x.do \in {"create", "barrier"}
  BY FirstSteps
<1>5. /\ todo \in Seq(AnyStep) /\ Steps = N /\ Ordered(todo) /\ Adjacent(todo)
      /\ (todo # <<>> => todo[1].do # "seal")
  BY <1>4 DEF Chain, Steps
<1>6. todo # <<>> => Head(todo) = todo[1]
  BY <1>5, SplitList
<1>7. \A x \in Steps : x \in AnyStep /\ x.track \in Tracks /\ x.do \in {"create", "barrier"}
  BY <1>4, <1>5
<1>8. \A k, t : k \notin {"create", "barrier"} => ~Has(k, t)
  BY <1>7 DEF Has
<1>9. Types
  BY <1>1, <1>3, <1>5, <1>7, EmptySeq DEF Types, Phases
<1>10. Program
  <2>1. FlushedFirst
    BY <1>5, <1>6 DEF FlushedFirst, Doing
  <2>2. Shape
    BY <1>1, <1>7, <1>8 DEF Shape, Fits
  <2>3. Fresh
    BY <1>1 DEF Fresh, NoJournal
  <2> QED BY <1>5, <2>1, <2>2, <2>3 DEF Program
<1>11. \A t \in Tracks :
         /\ journal[t].final = 0 /\ journal[t].classified = 0 /\ journal[t].active = None
         /\ journal[t].pcm = {} /\ journal[t].voiced = {} /\ journal[t].gaps = {}
         /\ journal[t].boundaries = {} /\ journal[t].closed = FALSE /\ journal[t].seal = {}
         /\ Cut(t) = {} /\ outbox[t] = {} /\ vad[t].cursor = 0 /\ vad[t].active = None
  BY <1>1, NoJournalTyped DEF NoJournal, NewVad, Cut
<1>12. ASSUME NEW t \in Tracks
       PROVE  Clock(t) /\ Pieces(t) /\ Disk(t) /\ Cover(t) /\ Announced(t)
  <2>1. /\ Low(t) = 0 /\ From(t) = 0 /\ ~Closed(t)
    BY <1>11 DEF Low, From, Closed
  <2>2. Clock(t)
    <3>1. /\ ~Has("noteGap", t) /\ ~Has("skip", t) /\ ~Has("push", t) /\ ~Has("advance", t)
          /\ ~Has("record", t) /\ \A x \in Steps : x.do # "noteGap"
      BY <1>7, <1>8
    <3> QED BY <1>1, <1>11, <3>1 DEF Clock
  <2>3. Pieces(t)
    <3>1. \A x \in Steps : x.do \notin {"close", "closing"}
      BY <1>7
    <3> QED BY <3>1 DEF Pieces, Pending
  <2>4. Disk(t)
    BY <1>11, <2>1 DEF Disk
  <2>5. Cover(t) /\ Announced(t)
    BY <1>11 DEF Cover, Announced
  <2> QED BY <2>2, <2>3, <2>4, <2>5
<1>13. Sealing
  <2>1. \A e : ~IsSeal(e)
    BY <1>1, <1>7, <1>11 DEF IsSeal
  <2>2. Seals = {}
    BY <2>1, SealsAre
  <2>3. ~Sealed /\ ~Has("publish", Mic) /\ \A t \in Tracks : ~Closed(t)
    BY <1>1, <1>8, <1>11 DEF Sealed, Events, Closed
  <2> QED BY <2>2, <2>3 DEF Sealing
<1>14. Noted = {} /\ Sent = {}
  BY <1>1, <1>2, <1>11 DEF Noted, Sent
<1>15. Direction1
  <2>1. \A x \in Steps : ~BoundaryAbout(x) /\ x.do \notin {"boundary", "inForce", "replaying", "resend"}
    BY <1>7 DEF BoundaryAbout
  <2>2. ~Has("changeDirection", Mic)
    BY <1>8
  <2> QED BY <1>1, <1>11, <1>14, <2>1, <2>2 DEF Direction1
<1>16. Direction2
  BY <1>1, <1>11, <1>14 DEF Direction2
<1> QED BY <1>9, <1>10, <1>12, <1>13, <1>15, <1>16 DEF CaptureInv

----------------------------------------------------------------------------
(* Theorems                                                                *)

(* Every step keeps CaptureInv: every action of the thread, every accident *)
(* and every recovery.                                                     *)
LEMMA NextCaptured == CaptureInv /\ [Next]_vars => CaptureInv'
<1> SUFFICES ASSUME CaptureInv, [Next]_vars PROVE CaptureInv'
  OBVIOUS
<1>1. CASE Work
  BY <1>1, CreateKept, BarrierKept, LoopTurnKept, StopLoopKept, FinalTurnKept, HearKept, GapToKept,
     RecordKept, PushKept, FinishKept, CheckpointKept, AdvanceKept, NoteGapKept, SkipKept, ReadyKept,
     CloseNextKept, CloseKept, AppendEventKept, SaveKept, FlushKept, FlushAllKept, EnqueueKept,
     PumpKept, DrainKept, DirectionKept, ChangeDirectionKept, SaveBoundaryKept, InForceKept,
     SealJournalKept, PublishKept, ReplayDirectionsKept, RecoverTailKept, RegisterKept, AskingKept,
     DispatchKept, AwaitKept, AcknowledgeKept DEF Work
<1>2. CASE Accident
  BY <1>2, AskingFailsKept, TearDownKept, CrashKept DEF Accident
<1>3. CASE RequestStop \/ Recognise \/ Recover
  BY <1>3, RequestStopKept, RecogniseKept, RecoverKept
<1>4. CASE UNCHANGED vars
  <2>1. UNCHANGED <<sources, recording, journal, outbox, ledger, phase, todo, vad, epoch, queue, run>>
    BY <1>4 DEF vars, disk, memory
  <2> QED BY <2>1, SameStateKept
<1> QED BY <1>1, <1>2, <1>3, <1>4 DEF Next

(* CaptureInv, the program that is left and what is on disk, in the        *)
(* outboxes, in the ledger and in memory, always holds.                    *)
THEOREM CaptureTheorem == Spec => []CaptureInv
<1>1. Init => CaptureInv
  BY InitCaptured
<1>2. CaptureInv /\ [Next]_vars => CaptureInv'
  BY NextCaptured
<1> QED BY <1>1, <1>2, PTL DEF Spec

(* SealedIsAccounted, from CaptureInv: a seal says every journal is        *)
(* closed; a closed journal has nothing behind its last segment.           *)
LEMMA CapturedIsAccounted == CaptureInv => SealedIsAccounted
<1> SUFFICES ASSUME CaptureInv, Sealed, NEW t \in Tracks
             PROVE  /\ \A u \in journal[t].voiced : Cardinality(SegmentsAt(t, u)) = 1
                    /\ \A g \in journal[t].gaps :
                         /\ \E e \in Events("gap") : e.about = g
                         /\ \A u \in g.start..(g.end - 1) : SegmentsAt(t, u) = {}
                    /\ DOMAIN journal[t].segments = {s \in Registered : s.track = t}
  BY DEF SealedIsAccounted
<1>1. /\ Types /\ Sealing /\ Clock(t) /\ Disk(t) /\ Announced(t)
  BY DEF CaptureInv
<1>2. /\ journal[t].final \in Nat /\ journal[t].voiced \subseteq Nat /\ Cut(t) \subseteq Segment
      /\ journal[t].gaps \subseteq Gap
  BY <1>1, TypedTrack, TypedCut
<1>3. Closed(t)
  <2>1. PICK e \in ledger : e.kind = "seal"
    BY DEF Sealed, Events
  <2>2. e \in Seals
    BY <2>1 DEF Seals, SentSeals
  <2> QED BY <1>1, <2>2 DEF Sealing
<1>4. Cut(t) = {s \in Registered : s.track = t}
  BY <1>1 DEF Sealing
<1>5. \A u : SegmentsAt(t, u) = {s \in Cut(t) : u \in s.start..(s.end - 1)}
  BY <1>4 DEF SegmentsAt
<1>6. \A s \in Cut(t) : s.start \in Nat /\ s.end \in Nat
  BY <1>2 DEF Segment
<1>7. ASSUME NEW u \in journal[t].voiced PROVE Cardinality(SegmentsAt(t, u)) = 1
  <2>1. u < journal[t].final /\ Low(t) = journal[t].final /\ u \in Nat
    BY <1>1, <1>2, <1>3 DEF Clock, Disk
  <2>2. PICK r \in Cut(t) : Holds(r, u)
    BY <1>1, <2>1 DEF Disk, Behind
  <2>3. r \in SegmentsAt(t, u)
    BY <1>5, <1>6, <2>1, <2>2 DEF Holds
  <2>4. ASSUME NEW s \in SegmentsAt(t, u) PROVE s = r
    <3>1. s \in Cut(t) /\ s.start <= u /\ u < s.end
      BY <1>5, <1>6, <2>1
    <3>2. ~Apart(r, s)
      BY <1>6, <2>1, <2>2, <3>1 DEF Apart, Holds
    <3> QED BY <1>1, <2>2, <3>1, <3>2 DEF Disk
  <2>5. SegmentsAt(t, u) = {r}
    BY <2>3, <2>4
  <2> QED BY <2>5, FS_Singleton
<1>8. ASSUME NEW g \in journal[t].gaps
      PROVE  /\ \E e \in Events("gap") : e.about = g
             /\ \A u \in g.start..(g.end - 1) : SegmentsAt(t, u) = {}
  <2>1. \E e \in Events("gap") : e.about = g
    BY <1>1, <1>3 DEF Announced, Events
  <2>2. g.start \in Nat /\ g.end \in Nat
    BY <1>2 DEF Gap
  <2>3. ASSUME NEW u \in g.start..(g.end - 1), NEW s \in SegmentsAt(t, u) PROVE FALSE
    <3>1. s \in Cut(t) /\ u \in s.start..(s.end - 1)
      BY <1>5
    <3>2. Apart(g, s)
      BY <1>1, <3>1 DEF Disk
    <3> QED BY <1>6, <2>2, <3>1, <3>2 DEF Apart
  <2> QED BY <2>1, <2>3
<1> QED BY <1>4, <1>7, <1>8 DEF Cut

(* A sealed capture is accounted for: whatever died, failed or was         *)
(* recovered before, every voiced unit is in exactly one segment the       *)
(* ledger knows, and what was lost is announced (seal_recording,           *)
(* recover_unclosed_tail, record_gap).                                     *)
THEOREM AccountedTheorem == Spec => []SealedIsAccounted
BY CaptureTheorem, CapturedIsAccounted, PTL

(* EpochsAgree, from CaptureInv: the epoch that was kept with a segment is *)
(* the one of a boundary before it, and of the last one.                   *)
LEMMA CapturedAgrees == CaptureInv => EpochsAgree
<1> SUFFICES ASSUME CaptureInv, NEW t \in Tracks, NEW s \in Registered,
                    s \in DOMAIN journal[t].segments
             PROVE  journal[t].segments[s] = EpochAt(s.start)
  BY DEF EpochsAgree
<1>1. Types /\ Direction2 /\ s \in Cut(t)
  BY DEF CaptureInv, Cut
<1>2. PICK v : v = journal[t].segments[s]
  OBVIOUS
<1>3. v \in Nat \ {0}
  BY <1>1, <1>2, TypedCut
<1>4. PICK T : T = {1} \cup {e.about.epoch : e \in {b \in Events("boundary") : b.about.start <= s.start}}
  OBVIOUS
<1>5. \A b \in InLedger : b \in BoundaryEvent /\ b \in Sent
  <2>1. \A b \in ledger : b \in AnyEvent
    BY <1>1 DEF Types
  <2> QED BY <2>1, TypedEvent DEF InLedger, Sent
<1>6. Events("boundary") = InLedger
  BY DEF Events, InLedger
<1>7. /\ v = 1 \/ \E b \in InLedger : b.about.epoch = v /\ b.about.start <= s.start
      /\ \A b \in Sent : b.about.start <= s.start => b.about.epoch <= v
  BY <1>1, <1>2 DEF Direction2
<1>8. T \subseteq Nat
  BY <1>4, <1>5, <1>6 DEF BoundaryEvent
<1>9. v \in T
  BY <1>4, <1>6, <1>7
<1>10. \A n \in T : n <= v
  <2>1. 1 <= v
    BY <1>3
  <2> QED BY <1>4, <1>5, <1>6, <1>7, <2>1
<1>11. Max(T) \in T /\ \A m \in T : m <= Max(T)
  BY <1>3, <1>8, <1>9, <1>10, GreatestNatural
<1>12. Max(T) = v
  <2>1. PICK m : m = Max(T)
    OBVIOUS
  <2>2. m \in Nat /\ v \in Nat /\ m <= v /\ v <= m
    BY <1>3, <1>8, <1>9, <1>10, <1>11, <2>1
  <2> QED BY <2>1, <2>2
<1> QED BY <1>2, <1>4, <1>12 DEF EpochAt

(* The epoch of a segment in the journal is the one the ledger reads from  *)
(* the boundaries, at any time and through any recovery                    *)
(* (change_direction, replay_directions).                                  *)
THEOREM EpochsTheorem == Spec => []EpochsAgree
BY CaptureTheorem, CapturedAgrees, PTL
=============================================================================
