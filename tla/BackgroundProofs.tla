-------------------------- MODULE BackgroundProofs --------------------------
(***************************************************************************)
(* Proofs about three parts that work in the background: the mirror of a   *)
(* peer (PeerReplica), for any number of artifacts, grants, changes and    *)
(* faults and any size of a page, the labels of speakers (SpeakerLabels),  *)
(* for any number of segments, events and accidents, and the installer of  *)
(* the models (ModelInstall), for any number of processes, models, files   *)
(* and failures.                                                           *)
(***************************************************************************)
EXTENDS PeerReplica, SpeakerLabels, ModelInstall, TLAPS, FiniteSetTheorems, WellFoundedInduction

----------------------------------------------------------------------------
(* Numbers.                                                                *)

(* A set of natural numbers has a least one.                               *)
LEMMA LeastNatural ==
  ASSUME NEW T, T \subseteq Nat, T # {}
  PROVE  \E n \in T : \A m \in T : n <= m
<1> DEFINE R == OpToRel(<, Nat)
<1>1. IsWellFoundedOn(R, Nat)
  BY NatLessThanWellFounded
<1>2. R = {ss \in Nat \X Nat : ss[1] < ss[2]}
  BY DEF OpToRel
<1> HIDE DEF R
<1>3. PICK n \in T : \A m \in T : ~(<<m, n>> \in R)
  BY <1>1, WFMin
<1>4. ASSUME NEW m \in T, m < n PROVE FALSE
  <2>1. m \in Nat /\ n \in Nat
    OBVIOUS
  <2>2. <<m, n>> \in R
    BY <1>2, <1>4, <2>1
  <2> QED
    BY <1>3, <2>2
<1> QED
  BY <1>4

(* A bounded one has a greatest, and Max is it.                            *)
LEMMA GreatestNatural ==
  ASSUME NEW T, T \subseteq Nat, T # {}, NEW b \in Nat, \A n \in T : n <= b
  PROVE  Max(T) \in T /\ \A m \in T : m <= Max(T)
<1> DEFINE below == {b - n : n \in T}
<1>1. \A n \in T : b - n \in Nat /\ b - n \in below
  OBVIOUS
<1>2. PICK d \in below : \A e \in below : d <= e
  <2>1. below \subseteq Nat /\ below # {}
    BY <1>1
  <2> QED
    BY <2>1, LeastNatural
<1>3. PICK n \in T : d = b - n
  BY <1>2
<1>4. ASSUME NEW m \in T PROVE n >= m
  <2>1. b - n <= b - m
    BY <1>1, <1>2, <1>3
  <2> QED
    BY <2>1
<1>5. \E x \in T : \A y \in T : x >= y
  BY <1>4
<1>6. Max(T) \in T /\ \A y \in T : Max(T) >= y
  BY <1>5 DEF Max
<1> QED
  BY <1>6

----------------------------------------------------------------------------
(* The inductive invariant.                                                *)

Mark == [seq : 0..MaxChange, withdrawn : BOOLEAN]
Known == [public : Publics, revision : 1..MaxEdition, evidence : Seqs]

OwnerTyped ==
  /\ DOMAIN changeLog = 1..latest /\ latest \in 0..MaxChange
  /\ \A i \in DOMAIN changeLog : changeLog[i] \in [public : Publics \cup {NoArtifact},
                                             revision : 0..MaxEdition, active : BOOLEAN]
  /\ revision \in [Publics -> 1..MaxEdition]
  /\ shown \in [Publics -> MaybeArtifact]

MirrorTyped ==
  /\ mirror \in [Publics -> MaybeArtifact]
  /\ cursor \in 0..MaxChange
  /\ stale \in BOOLEAN /\ unmarked \in BOOLEAN /\ synced \in BOOLEAN
  /\ lastBatch \in Batch \cup {NoAnswer}
  /\ watermarks \in [Publics -> Mark]
  /\ history \subseteq Known

ManagerTyped ==
  /\ grants \in [GrantIds -> {"none", "invite", "peer", "revoked"}]
  /\ client \in GrantIds \cup {NoGrant}
  /\ sync.at \in {"idle", "picked", "changes", "again", "snapshot"}
  /\ sync.client \in GrantIds \cup {NoGrant} /\ sync.after \in 0..MaxChange
  /\ pair.at \in {"idle", "invited", "paired"} /\ pair.client \in GrantIds \cup {NoGrant}
  /\ faults \in 0..MaxFaults

(* Nothing of p happened after place c of the log.                         *)
Quiet(p, c) == \A i \in DOMAIN changeLog : changeLog[i].public = p => i <= c

(* What is public was shown by the last change of its id.                  *)
OwnerOK ==
  \A p \in Publics : shown[p] # NoArtifact =>
    /\ shown[p].seq \in DOMAIN changeLog
    /\ changeLog[shown[p].seq].public = p
    /\ Quiet(p, shown[p].seq)

(* A list that agrees with the owner in what was quiet since c.            *)
FaithfulTo(c, list) == \A p \in Publics : Quiet(p, c) => list[p] = shown[p]

SnapshotOK(s) == s.cursor <= latest /\ FaithfulTo(s.cursor, s.artifacts)

(* A batch that turns a list faithful to where it begins into one faithful *)
(* to where it ends.                                                       *)
BatchOK(b) ==
  /\ b.cursor <= latest
  /\ \A p \in Publics : Quiet(p, b.cursor) =>
       IF ChangesOf(b, p) = {} THEN Quiet(p, b.after) ELSE Newest(b, p).artifact = shown[p]

MirrorOK == cursor <= latest /\ FaithfulTo(cursor, mirror)

Answer(x) == x # NoAnswer /\ x # Error

(* The answers on their way.                                               *)
SyncOK ==
  /\ sync.at = "changes" /\ Answer(sync.answer) =>
        sync.answer \in Batch /\ BatchOK(sync.answer)
  /\ sync.at = "snapshot" /\ Answer(sync.answer) =>
        sync.answer \in Full /\ SnapshotOK(sync.answer)

PairOK == pair.answer # NoAnswer => pair.answer \in Full /\ SnapshotOK(pair.answer)

ClientOK ==
  /\ ~stale => client # NoGrant \/ unmarked
  /\ sync.at # "idle" => sync.client # NoGrant
  /\ pair.at # "idle" => pair.client # NoGrant

PeerInv ==
  /\ OwnerTyped /\ MirrorTyped /\ ManagerTyped
  /\ OwnerOK /\ MirrorOK /\ SyncOK /\ PairOK /\ ClientOK

----------------------------------------------------------------------------
(* The log of the owner.                                                   *)

(* The numbers up to n are n.                                              *)
LEMMA LatestIsLength ==
  ASSUME NEW n \in Nat
  PROVE  Cardinality(1..n) = n /\ IsFiniteSet(1..n)
<1>1. Cardinality(1..n) = IF 1 > n THEN 0 ELSE n - 1 + 1
  BY FS_Interval
<1> QED
  BY <1>1, FS_Interval

(* LastChange in terms of Quiet.                                           *)
LEMMA LastChangeFacts ==
  ASSUME OwnerTyped, NEW p \in Publics, NEW c \in Nat, LastChange(p) <= c
  PROVE  Quiet(p, c)
<1> DEFINE T == {0} \cup {i \in DOMAIN changeLog : changeLog[i].public = p}
<1>1. latest \in Nat /\ DOMAIN changeLog = 1..latest
  BY PeerAssumption DEF OwnerTyped
<1>2. T \subseteq Nat /\ T # {} /\ \A i \in T : i <= latest
  BY <1>1
<1>3. Max(T) \in T /\ \A i \in T : i <= Max(T)
  BY <1>1, <1>2, GreatestNatural
<1>4. LastChange(p) = Max(T)
  BY DEF LastChange
<1> HIDE DEF T
<1>5. ASSUME NEW i \in DOMAIN changeLog, changeLog[i].public = p PROVE i <= c
  <2>1. i \in T
    BY <1>5 DEF T
  <2>2. Max(T) \in Nat /\ i \in Nat
    BY <1>2, <1>3, <2>1
  <2> QED
    BY <1>3, <1>4, <2>1, <2>2
<1> QED
  BY <1>5 DEF Quiet

(* A page holds every change up to its cursor.                             *)
LEMMA PageFacts ==
  ASSUME OwnerTyped, NEW c \in Nat
  PROVE  /\ BatchCursor(c) \in 0..latest
         /\ \A i \in After(c) : i <= BatchCursor(c) => i \in FirstPage(c)
<1> DEFINE upto(i) == {k \in After(c) : k <= i}
<1>1. latest \in Nat /\ DOMAIN changeLog = 1..latest
  BY PeerAssumption DEF OwnerTyped
<1>2. After(c) \subseteq 1..latest /\ FirstPage(c) \subseteq After(c)
  BY <1>1 DEF After, FirstPage
<1>3. IsFiniteSet(After(c)) /\ IsFiniteSet(FirstPage(c))
  BY <1>1, <1>2, LatestIsLength, FS_Subset
<1>4. \A i : IsFiniteSet(upto(i)) /\ Cardinality(upto(i)) \in Nat
  BY <1>3, FS_Subset, FS_CardinalityType
<1>5. Cardinality(FirstPage(c)) \in Nat
  BY <1>3, FS_CardinalityType
<1>6. CASE Cardinality(FirstPage(c)) = PageLimit
  <2>1. FirstPage(c) # {}
    BY <1>6, FS_EmptySet, PeerAssumption
  <2> DEFINE m == Max(FirstPage(c))
  <2>2. m \in FirstPage(c)
    BY <1>1, <1>2, <2>1, GreatestNatural
  <2>3. ASSUME NEW i \in After(c), i <= m PROVE i \in FirstPage(c)
    <3>1. upto(i) \subseteq upto(m)
      BY <1>2, <2>2, <2>3
    <3>2. Cardinality(upto(i)) <= Cardinality(upto(m))
      BY <1>4, <3>1, FS_Subset
    <3>3. Cardinality(upto(m)) <= PageLimit
      BY <2>2 DEF FirstPage
    <3>4. Cardinality(upto(i)) <= PageLimit
      BY <1>4, <3>2, <3>3, PeerAssumption
    <3> QED
      BY <3>4 DEF FirstPage
  <2>4. BatchCursor(c) = m
    BY <1>6 DEF BatchCursor
  <2> QED
    BY <1>1, <1>2, <2>2, <2>3, <2>4
<1>7. CASE Cardinality(FirstPage(c)) # PageLimit
  <2>1. BatchCursor(c) = latest
    BY <1>7 DEF BatchCursor
  <2> DEFINE rest == After(c) \ FirstPage(c)
  <2>2. SUFFICES ASSUME rest # {} PROVE FALSE
    BY <1>1, <2>1
  <2>3. PICK n \in rest : \A j \in rest : n <= j
    <3>1. rest \subseteq Nat
      BY <1>2
    <3> QED
      BY <2>2, <3>1, LeastNatural
  <2>4. Cardinality(upto(n)) > PageLimit
    BY <1>4, PeerAssumption DEF FirstPage
  <2>5. \A k \in After(c) : k < n => k \in FirstPage(c)
    BY <1>2, <2>3
  <2>6. \A k \in FirstPage(c) : k < n
    <3> SUFFICES ASSUME NEW k \in FirstPage(c), n <= k PROVE FALSE
      BY <1>2
    <3>1. upto(n) \subseteq upto(k)
      BY <1>2
    <3>2. Cardinality(upto(n)) <= Cardinality(upto(k))
      BY <1>4, <3>1, FS_Subset
    <3>3. Cardinality(upto(k)) <= PageLimit
      BY DEF FirstPage
    <3> QED
      BY <1>4, <2>4, <3>2, <3>3, PeerAssumption
  <2>7. upto(n) = FirstPage(c) \cup {n} /\ n \notin FirstPage(c)
    BY <1>2, <2>3, <2>5, <2>6
  <2>8. Cardinality(upto(n)) = Cardinality(FirstPage(c)) + 1
    BY <1>3, <2>7, FS_AddElement
  <2>9. Cardinality(FirstPage(c)) > PageLimit
    BY <1>5, <1>7, <2>4, <2>8, PeerAssumption
  <2>10. FirstPage(c) # {}
    BY <2>9, FS_EmptySet, PeerAssumption
  <2> DEFINE m == Max(FirstPage(c))
  <2>11. m \in FirstPage(c) /\ \A k \in FirstPage(c) : k <= m
    BY <1>1, <1>2, <2>10, GreatestNatural
  <2>12. upto(m) = FirstPage(c)
    <3>1. FirstPage(c) \subseteq upto(m)
      BY <1>2, <2>11
    <3>2. \A k \in upto(m) : k < n
      BY <1>2, <2>6, <2>11
    <3> QED
      BY <2>5, <3>1, <3>2
  <2>13. Cardinality(upto(m)) <= PageLimit
    BY <2>11 DEF FirstPage
  <2> QED
    BY <1>5, <2>9, <2>12, <2>13, PeerAssumption
<1> QED
  BY <1>6, <1>7

(* One more entry of the log.                                              *)
LEMMA RecordFacts ==
  ASSUME OwnerTyped, NEW q \in Publics \cup {NoArtifact}, NEW a \in BOOLEAN, Record(q, a)
  PROVE  /\ latest' = latest + 1 /\ latest' \in 0..MaxChange
         /\ DOMAIN changeLog = 1..latest /\ DOMAIN changeLog' = 1..latest'
         /\ latest \in Nat /\ latest + 1 \in Seqs
         /\ \A i \in 1..latest : changeLog'[i] = changeLog[i]
         /\ changeLog'[latest + 1].public = q
         /\ \A i \in DOMAIN changeLog' :
               changeLog'[i] \in [public : Publics \cup {NoArtifact},
                                  revision : 0..MaxEdition, active : BOOLEAN]
<1>1. latest \in Nat /\ latest < MaxChange /\ DOMAIN changeLog = 1..latest
  BY PeerAssumption DEF OwnerTyped, Record
<1>2. DOMAIN changeLog' = 1..(latest + 1)
  BY DEF Record
<1>3. latest' = latest + 1
  BY <1>1, <1>2, LatestIsLength DEF latest
<1>4. \A i \in 1..(latest + 1) :
        changeLog'[i] = IF i = latest + 1 THEN Entry(q, a) ELSE changeLog[i]
  BY DEF Record
<1>5. /\ \A i \in 1..latest : changeLog'[i] = changeLog[i]
      /\ changeLog'[latest + 1] = Entry(q, a)
  BY <1>1, <1>4
<1>6. Entry(q, a) \in [public : Publics \cup {NoArtifact},
                       revision : 0..MaxEdition, active : BOOLEAN]
  <2>1. CASE q = NoArtifact
    BY <2>1, PeerAssumption DEF Entry
  <2>2. CASE q \in Publics /\ q # NoArtifact
    <3>1. revision[q] \in 0..MaxEdition
      BY <2>2, PeerAssumption DEF OwnerTyped
    <3> QED
      BY <2>2, <3>1 DEF Entry
  <2> QED
    BY <2>1, <2>2
<1>7. Entry(q, a).public = q
  BY DEF Entry
<1>8. \A i \in 1..(latest + 1) : i \in 1..latest \/ i = latest + 1
  BY <1>1
<1>9. \A i \in DOMAIN changeLog' :
        changeLog'[i] \in [public : Publics \cup {NoArtifact},
                           revision : 0..MaxEdition, active : BOOLEAN]
  BY <1>1, <1>2, <1>5, <1>6, <1>8 DEF OwnerTyped
<1> QED
  BY <1>1, <1>2, <1>3, <1>5, <1>7, <1>9, PeerAssumption DEF Seqs

(* What a step of the owner leaves alone: an id that is quiet since a      *)
(* place of the old log.                                                   *)
Kept(p) ==
  /\ shown'[p] = shown[p]
  /\ \A i \in DOMAIN changeLog :
        i \in DOMAIN changeLog' /\ changeLog'[i].public = changeLog[i].public
  /\ \A i \in DOMAIN changeLog' :
        changeLog'[i].public = p => i \in DOMAIN changeLog /\ changeLog[i].public = p

Frame ==
  /\ latest <= latest'
  /\ \A p \in Publics, c \in 0..latest : Quiet(p, c)' => Kept(p)

(* An id that has no entry in this step is left alone; the others are not  *)
(* quiet.                                                                  *)
LEMMA RecordFrame ==
  ASSUME OwnerTyped, NEW q \in Publics \cup {NoArtifact}, NEW a \in BOOLEAN, Record(q, a),
         \A p \in Publics : p # q => shown'[p] = shown[p]
  PROVE  Frame
<1> USE RecordFacts
<1>1. latest <= latest'
  OBVIOUS
<1>2. ASSUME NEW p \in Publics, NEW c \in 0..latest, Quiet(p, c)' PROVE Kept(p)
  <2>1. p # q
    <3> SUFFICES ASSUME p = q PROVE FALSE
      OBVIOUS
    <3>1. latest + 1 \in DOMAIN changeLog'
      OBVIOUS
    <3>2. latest + 1 <= c
      BY <1>2, <3>1 DEF Quiet
    <3> QED
      BY <3>2
  <2>2. \A i \in DOMAIN changeLog' : i \in DOMAIN changeLog \/ i = latest + 1
    OBVIOUS
  <2>3. \A i \in DOMAIN changeLog : i \in DOMAIN changeLog'
    OBVIOUS
  <2> QED
    BY <2>1, <2>2, <2>3 DEF Kept
<1> QED
  BY <1>1, <1>2 DEF Frame

(* A step of the owner that records nothing and shows nothing new leaves   *)
(* every id alone.                                                         *)
LEMMA NoRecordFrame ==
  ASSUME OwnerTyped, changeLog' = changeLog, shown' = shown
  PROVE  Frame
<1>1. latest' = latest /\ latest \in Nat
  BY PeerAssumption DEF latest, OwnerTyped
<1> QED
  BY <1>1 DEF Frame, Kept

(* The owner's steps.                                                      *)
LEMMA OwnerStepFacts ==
  ASSUME OwnerTyped, OwnerOK, OwnerStep
  PROVE  OwnerTyped' /\ OwnerOK' /\ Frame
<1>1. ASSUME NEW p \in Publics, Publish(p) PROVE OwnerTyped' /\ OwnerOK' /\ Frame
  <2> DEFINE copy == [revision |-> revision[p], evidence |-> latest + 1, seq |-> latest + 1]
  <2>1. Record(p, TRUE) /\ shown' = [shown EXCEPT ![p] = copy] /\ revision' = revision
    BY <1>1 DEF Publish
  <2>2. /\ latest' = latest + 1 /\ latest' \in 0..MaxChange
        /\ DOMAIN changeLog = 1..latest /\ DOMAIN changeLog' = 1..latest'
        /\ latest \in Nat /\ latest + 1 \in Seqs
        /\ \A i \in 1..latest : changeLog'[i] = changeLog[i]
        /\ changeLog'[latest + 1].public = p
        /\ \A i \in DOMAIN changeLog' :
              changeLog'[i] \in [public : Publics \cup {NoArtifact},
                                 revision : 0..MaxEdition, active : BOOLEAN]
    BY <2>1, RecordFacts
  <2>3. copy \in MaybeArtifact
    <3>1. revision[p] \in 1..MaxEdition
      BY DEF OwnerTyped
    <3> QED
      BY <2>2, <3>1 DEF MaybeArtifact, Artifact
  <2>4. copy.seq = latest + 1
    OBVIOUS
  <2> HIDE DEF copy
  <2>5. /\ shown' \in [Publics -> MaybeArtifact] /\ shown'[p] = copy
        /\ \A q \in Publics : q # p => shown'[q] = shown[q]
    BY <2>1, <2>3 DEF OwnerTyped
  <2>6. OwnerTyped'
    BY <2>1, <2>2, <2>5 DEF OwnerTyped
  <2>7. ASSUME NEW q \in Publics, shown'[q] # NoArtifact
        PROVE  /\ shown'[q].seq \in DOMAIN changeLog'
               /\ changeLog'[shown'[q].seq].public = q
               /\ \A i \in DOMAIN changeLog' : changeLog'[i].public = q => i <= shown'[q].seq
    <3>1. CASE q = p
      <4>1. latest + 1 \in DOMAIN changeLog' /\ \A i \in DOMAIN changeLog' : i <= latest + 1
        BY <2>2
      <4> QED
        BY <2>2, <2>4, <2>5, <3>1, <4>1
    <3>2. CASE q # p
      <4>1. shown'[q] = shown[q] /\ shown[q] # NoArtifact
        BY <2>5, <2>7, <3>2
      <4>2. /\ shown[q].seq \in DOMAIN changeLog /\ changeLog[shown[q].seq].public = q
            /\ \A i \in DOMAIN changeLog : changeLog[i].public = q => i <= shown[q].seq
        BY <4>1 DEF OwnerOK, Quiet
      <4>3. \A i \in DOMAIN changeLog' : i \in DOMAIN changeLog \/ i = latest + 1
        BY <2>2
      <4>4. shown[q].seq \in DOMAIN changeLog'
        BY <2>2, <4>2
      <4> QED
        BY <2>2, <3>2, <4>1, <4>2, <4>3, <4>4
    <3> QED
      BY <3>1, <3>2
  <2>8. OwnerOK'
    BY <2>7 DEF OwnerOK, Quiet
  <2>9. Frame
    BY <2>1, <2>5, RecordFrame
  <2> QED
    BY <2>6, <2>8, <2>9
<1>2. ASSUME NEW p \in Publics \cup {NoArtifact}, Record(p, FALSE),
             revision' \in [Publics -> 1..MaxEdition],
             shown' \in [Publics -> MaybeArtifact],
             p \in Publics => shown'[p] = NoArtifact,
             \A q \in Publics : q # p => shown'[q] = shown[q]
      PROVE  OwnerTyped' /\ OwnerOK' /\ Frame
  <2>2. /\ latest' = latest + 1 /\ latest' \in 0..MaxChange
        /\ DOMAIN changeLog = 1..latest /\ DOMAIN changeLog' = 1..latest'
        /\ latest \in Nat
        /\ \A i \in 1..latest : changeLog'[i] = changeLog[i]
        /\ changeLog'[latest + 1].public = p
        /\ \A i \in DOMAIN changeLog' :
              changeLog'[i] \in [public : Publics \cup {NoArtifact},
                                 revision : 0..MaxEdition, active : BOOLEAN]
    BY <1>2, RecordFacts
  <2>3. OwnerTyped'
    BY <1>2, <2>2 DEF OwnerTyped
  <2>4. ASSUME NEW q \in Publics, shown'[q] # NoArtifact
        PROVE  /\ shown'[q].seq \in DOMAIN changeLog'
               /\ changeLog'[shown'[q].seq].public = q
               /\ \A i \in DOMAIN changeLog' : changeLog'[i].public = q => i <= shown'[q].seq
    <3>1. q # p /\ shown'[q] = shown[q] /\ shown[q] # NoArtifact
      BY <1>2, <2>4
    <3>2. /\ shown[q].seq \in DOMAIN changeLog /\ changeLog[shown[q].seq].public = q
          /\ \A i \in DOMAIN changeLog : changeLog[i].public = q => i <= shown[q].seq
      BY <3>1 DEF OwnerOK, Quiet
    <3>3. \A i \in DOMAIN changeLog' : i \in DOMAIN changeLog \/ i = latest + 1
      BY <2>2
    <3>4. shown[q].seq \in DOMAIN changeLog'
      BY <2>2, <3>2
    <3> QED
      BY <2>2, <3>1, <3>2, <3>3, <3>4
  <2>5. OwnerOK'
    BY <2>4 DEF OwnerOK, Quiet
  <2>6. Frame
    BY <1>2, RecordFrame
  <2> QED
    BY <2>3, <2>5, <2>6
<1>3. ASSUME NEW p \in Publics, Hide(p) PROVE OwnerTyped' /\ OwnerOK' /\ Frame
  <2>1. /\ Record(p, FALSE) /\ revision' = revision
        /\ shown' = [shown EXCEPT ![p] = NoArtifact]
    BY <1>3 DEF Hide
  <2>2. /\ shown' \in [Publics -> MaybeArtifact] /\ shown'[p] = NoArtifact
        /\ \A q \in Publics : q # p => shown'[q] = shown[q]
        /\ revision' \in [Publics -> 1..MaxEdition]
    BY <2>1 DEF OwnerTyped, MaybeArtifact
  <2> QED
    BY <1>2, <2>1, <2>2
<1>4. ASSUME NEW p \in Publics, Edit(p) PROVE OwnerTyped' /\ OwnerOK' /\ Frame
  <2>1. revision' \in [Publics -> 1..MaxEdition]
    <3>1. revision' = [revision EXCEPT ![p] = @ + 1] /\ revision[p] < MaxEdition
      BY <1>4 DEF Edit
    <3>2. revision[p] + 1 \in 1..MaxEdition
      BY <3>1, PeerAssumption DEF OwnerTyped
    <3> QED
      BY <3>1, <3>2 DEF OwnerTyped
  <2>2. CASE shown[p] = NoArtifact
    <3>1. changeLog' = changeLog /\ shown' = shown
      BY <1>4, <2>2 DEF Edit
    <3>2. latest' = latest
      BY <3>1 DEF latest
    <3> QED
      BY <2>1, <3>1, <3>2, NoRecordFrame DEF OwnerTyped, OwnerOK, Quiet
  <2>3. CASE shown[p] # NoArtifact
    <3>1. Record(p, FALSE) /\ shown' = [shown EXCEPT ![p] = NoArtifact]
      BY <1>4, <2>3 DEF Edit
    <3>2. /\ shown' \in [Publics -> MaybeArtifact] /\ shown'[p] = NoArtifact
          /\ \A q \in Publics : q # p => shown'[q] = shown[q]
      BY <3>1 DEF OwnerTyped, MaybeArtifact
    <3> QED
      BY <1>2, <2>1, <3>1, <3>2
  <2> QED
    BY <2>2, <2>3
<1>5. ASSUME OtherMeeting PROVE OwnerTyped' /\ OwnerOK' /\ Frame
  <2>1. Record(NoArtifact, FALSE) /\ revision' = revision /\ shown' = shown
    BY <1>5 DEF OtherMeeting
  <2>2. NoArtifact \notin Publics
    BY NoArtifactIsNone
  <2> QED
    BY <1>2, <2>1, <2>2 DEF OwnerTyped
<1> QED
  BY <1>1, <1>3, <1>4, <1>5 DEF OwnerStep

(* What is faithful stays so: what has changed is not quiet any more.      *)
LEMMA FrameKeepsList ==
  ASSUME Frame, NEW c \in Nat, NEW l, c <= latest, latest \in Nat, FaithfulTo(c, l)
  PROVE  \A p \in Publics : Quiet(p, c)' => l[p] = shown'[p]
<1> SUFFICES ASSUME NEW p \in Publics, Quiet(p, c)' PROVE l[p] = shown'[p]
  OBVIOUS
<1>1. Kept(p)
  BY DEF Frame
<1>2. Quiet(p, c)
  BY <1>1 DEF Kept, Quiet
<1> QED
  BY <1>1, <1>2 DEF Kept, FaithfulTo

(* So a snapshot on its way stays faithful through the steps of the owner, *)
LEMMA FrameKeepsSnapshot ==
  ASSUME Frame, latest \in Nat, latest' \in Nat, NEW s \in Full, SnapshotOK(s)
  PROVE  SnapshotOK(s)'
<1>1. s.cursor \in Nat /\ s.cursor <= latest /\ FaithfulTo(s.cursor, s.artifacts)
  BY PeerAssumption DEF SnapshotOK, Full
<1>2. \A p \in Publics : Quiet(p, s.cursor)' => s.artifacts[p] = shown'[p]
  BY <1>1, FrameKeepsList
<1>3. s.cursor <= latest'
  BY <1>1 DEF Frame
<1> QED
  BY <1>2, <1>3 DEF SnapshotOK, FaithfulTo

(* and so does a page of changes.                                          *)
LEMMA FrameKeepsBatch ==
  ASSUME Frame, latest \in Nat, latest' \in Nat, NEW b \in Batch, BatchOK(b)
  PROVE  BatchOK(b)'
<1>1. b.cursor \in Nat /\ b.cursor <= latest
  BY PeerAssumption DEF BatchOK, Batch
<1>2. ASSUME NEW p \in Publics, Quiet(p, b.cursor)'
      PROVE  IF ChangesOf(b, p) = {} THEN Quiet(p, b.after)'
             ELSE Newest(b, p).artifact = shown'[p]
  <2>1. Kept(p)
    BY <1>1, <1>2 DEF Frame
  <2>2. Quiet(p, b.cursor)
    BY <1>2, <2>1 DEF Kept, Quiet
  <2>3. CASE ChangesOf(b, p) = {}
    <3>1. Quiet(p, b.after)
      BY <2>2, <2>3 DEF BatchOK
    <3>2. Quiet(p, b.after)'
      BY <2>1, <3>1 DEF Kept, Quiet
    <3> QED
      BY <2>3, <3>2
  <2>4. CASE ChangesOf(b, p) # {}
    BY <2>1, <2>2, <2>4 DEF BatchOK, Kept
  <2> QED
    BY <2>3, <2>4
<1>3. b.cursor <= latest'
  BY <1>1 DEF Frame
<1> QED
  BY <1>2, <1>3 DEF BatchOK, ChangesOf, Newest

(* A snapshot is faithful when it is made,                                *)
LEMMA SnapshotIsOK ==
  ASSUME OwnerTyped
  PROVE  Snapshot \in Full /\ SnapshotOK(Snapshot)
<1>1. latest \in 0..MaxChange /\ shown \in [Publics -> MaybeArtifact]
  BY DEF OwnerTyped
<1>2. Snapshot \in Full
  BY <1>1 DEF Snapshot, Full
<1>3. Snapshot.cursor = latest /\ Snapshot.artifacts = shown
  BY DEF Snapshot
<1>4. latest <= latest
  BY <1>1, PeerAssumption
<1> QED
  BY <1>2, <1>3, <1>4 DEF SnapshotOK, FaithfulTo

(* The newest change of a batch is one of its changes.                     *)
LEMMA NewestFacts ==
  ASSUME NEW b, b.changes \subseteq Change, NEW p, ChangesOf(b, p) # {}
  PROVE  /\ Newest(b, p) \in ChangesOf(b, p)
         /\ \A ch \in ChangesOf(b, p) : ch.seq <= Newest(b, p).seq
<1> DEFINE T == {ch.seq : ch \in ChangesOf(b, p)}
<1>1. \A ch \in ChangesOf(b, p) : ch.seq \in 1..MaxChange
  BY DEF ChangesOf, Change, Seqs
<1>2. T \subseteq Nat /\ T # {} /\ \A n \in T : n <= MaxChange
  BY <1>1, PeerAssumption
<1>3. Max(T) \in T /\ \A n \in T : n <= Max(T)
  BY <1>2, GreatestNatural, PeerAssumption
<1>4. PICK ch \in ChangesOf(b, p) : ch.seq = Max(T)
  BY <1>3
<1>5. \A x \in ChangesOf(b, p) : x.seq <= ch.seq
  BY <1>3, <1>4
<1> QED
  BY <1>5 DEF Newest

(* So is a page of changes: it brings a list that was faithful at the      *)
(* place it was asked for up to its own cursor.                            *)
LEMMA ChangesAreOK ==
  ASSUME OwnerTyped, OwnerOK, NEW c \in 0..MaxChange
  PROVE  Changes(c) \in Batch /\ BatchOK(Changes(c))
<1> DEFINE b == Changes(c)
<1>0. latest \in Nat /\ latest <= MaxChange /\ DOMAIN changeLog = 1..latest /\ c \in Nat
  BY PeerAssumption DEF OwnerTyped
<1>1. /\ b.after = c /\ b.cursor = BatchCursor(c)
      /\ b.changes = {ChangeAt(i) : i \in FirstPage(c)}
  BY DEF Changes
<1>2. /\ BatchCursor(c) \in 0..latest
      /\ \A i \in After(c) : i <= BatchCursor(c) => i \in FirstPage(c)
  BY <1>0, PageFacts
<1>3. \A i \in FirstPage(c) : /\ i \in DOMAIN changeLog /\ i > c
                              /\ changeLog[i].public \in Publics
  BY DEF FirstPage, After, OwnerTyped
<1>4. \A i \in FirstPage(c) : /\ ChangeAt(i) \in Change /\ ChangeAt(i).seq = i
                              /\ ChangeAt(i).public = changeLog[i].public
  <2> SUFFICES ASSUME NEW i \in FirstPage(c)
               PROVE  /\ ChangeAt(i) \in Change /\ ChangeAt(i).seq = i
                      /\ ChangeAt(i).public = changeLog[i].public
    OBVIOUS
  <2> DEFINE p == changeLog[i].public
  <2> DEFINE a == IF shown[p] # NoArtifact /\ shown[p].seq = i THEN shown[p] ELSE NoArtifact
  <2>1. ChangeAt(i) = [seq |-> i, public |-> p, artifact |-> a]
    BY DEF ChangeAt
  <2>2. i \in Seqs /\ p \in Publics
    BY <1>0, <1>3, PeerAssumption DEF Seqs
  <2>3. a \in MaybeArtifact
    BY <2>2 DEF OwnerTyped, MaybeArtifact
  <2> HIDE DEF a, p
  <2>4. ChangeAt(i) \in Change /\ ChangeAt(i).seq = i /\ ChangeAt(i).public = p
    BY <2>1, <2>2, <2>3 DEF Change
  <2> QED
    BY <2>4 DEF p
<1>5. b \in Batch
  <2>1. {ChangeAt(i) : i \in FirstPage(c)} \subseteq Change
    BY <1>4
  <2>2. BatchCursor(c) \in 0..MaxChange
    BY <1>0, <1>2, PeerAssumption
  <2> QED
    BY <2>1, <2>2 DEF Changes, Batch
<1> HIDE DEF b
<1>6. ASSUME NEW p \in Publics, Quiet(p, b.cursor)
      PROVE  IF ChangesOf(b, p) = {} THEN Quiet(p, b.after)
             ELSE Newest(b, p).artifact = shown[p]
  <2>1. \A i \in DOMAIN changeLog : changeLog[i].public = p /\ i > c => i \in FirstPage(c)
    <3> SUFFICES ASSUME NEW i \in DOMAIN changeLog, changeLog[i].public = p, i > c
                 PROVE  i \in FirstPage(c)
      OBVIOUS
    <3>1. i <= BatchCursor(c)
      BY <1>1, <1>6 DEF Quiet
    <3>2. i \in After(c)
      BY NoArtifactIsNone DEF After
    <3> QED
      BY <1>2, <3>1, <3>2
  <2>2. ChangesOf(b, p) = {ChangeAt(i) : i \in {k \in FirstPage(c) : changeLog[k].public = p}}
    BY <1>1, <1>4 DEF ChangesOf
  <2>3. CASE ChangesOf(b, p) = {}
    <3>1. \A k \in FirstPage(c) : changeLog[k].public # p
      BY <2>2, <2>3
    <3>2. Quiet(p, c)
      BY <1>0, <2>1, <3>1 DEF Quiet
    <3> QED
      BY <1>1, <2>3, <3>2
  <2>4. CASE ChangesOf(b, p) # {}
    <3>1. /\ Newest(b, p) \in ChangesOf(b, p)
          /\ \A ch \in ChangesOf(b, p) : ch.seq <= Newest(b, p).seq
      <4>1. b.changes \subseteq Change
        BY <1>1, <1>4
      <4> QED
        BY <2>4, <4>1, NewestFacts
    <3>2. PICK j \in FirstPage(c) : changeLog[j].public = p /\ Newest(b, p) = ChangeAt(j)
      BY <2>2, <3>1
    <3>3. Newest(b, p).seq = j
      BY <1>4, <3>2
    <3>4. Newest(b, p).artifact =
            IF shown[p] # NoArtifact /\ shown[p].seq = j THEN shown[p] ELSE NoArtifact
      BY <3>2 DEF ChangeAt
    <3>5. shown[p] # NoArtifact => shown[p].seq = j
      <4> SUFFICES ASSUME shown[p] # NoArtifact PROVE shown[p].seq = j
        OBVIOUS
      <4>1. /\ shown[p].seq \in DOMAIN changeLog /\ changeLog[shown[p].seq].public = p
            /\ Quiet(p, shown[p].seq)
        BY DEF OwnerOK
      <4>2. j \in DOMAIN changeLog /\ j > c
        BY <1>3
      <4>3. j <= shown[p].seq
        BY <3>2, <4>1, <4>2 DEF Quiet
      <4>4. shown[p].seq \in FirstPage(c)
        BY <1>0, <2>1, <4>1, <4>2, <4>3
      <4>5. /\ ChangeAt(shown[p].seq) \in ChangesOf(b, p)
            /\ ChangeAt(shown[p].seq).seq = shown[p].seq
        BY <1>4, <2>2, <4>1, <4>4
      <4>6. shown[p].seq <= j
        BY <3>1, <3>3, <4>5
      <4> QED
        BY <1>0, <4>1, <4>2, <4>3, <4>6
    <3>6. Newest(b, p).artifact = shown[p]
      BY <3>4, <3>5
    <3> QED
      BY <2>4, <3>6
  <2> QED
    BY <2>3, <2>4
<1>7. b.cursor <= latest
  BY <1>0, <1>1, <1>2
<1>8. BatchOK(b)
  BY <1>6, <1>7 DEF BatchOK
<1> QED
  BY <1>5, <1>8 DEF b

----------------------------------------------------------------------------
(* The mirror.                                                             *)

(* A batch that begins where the mirror is makes it faithful to its end.   *)
LEMMA ListedIsFaithful ==
  ASSUME FaithfulTo(cursor, mirror), NEW b, BatchOK(b), b.after = cursor
  PROVE  FaithfulTo(b.cursor, Listed(b))
<1> SUFFICES ASSUME NEW p \in Publics, Quiet(p, b.cursor) PROVE Listed(b)[p] = shown[p]
  BY DEF FaithfulTo
<1>1. Listed(b)[p] = IF ChangesOf(b, p) = {} THEN mirror[p] ELSE Newest(b, p).artifact
  BY DEF Listed
<1> QED
  BY <1>1 DEF BatchOK, FaithfulTo

(* A batch applied to the mirror lists artifacts,                          *)
LEMMA ListedTyped ==
  ASSUME MirrorTyped, NEW b \in Batch
  PROVE  Listed(b) \in [Publics -> MaybeArtifact]
<1>1. b.changes \subseteq Change
  BY DEF Batch
<1>2. ASSUME NEW p \in Publics, ChangesOf(b, p) # {}
      PROVE  Newest(b, p).artifact \in MaybeArtifact
  <2>1. Newest(b, p) \in Change
    BY <1>1, <1>2, NewestFacts DEF ChangesOf
  <2> QED
    BY <2>1 DEF Change
<1> QED
  BY <1>2 DEF Listed, MirrorTyped

(* marks places of the log,                                                *)
LEMMA MarksTyped ==
  ASSUME MirrorTyped, NEW b \in Batch
  PROVE  Marks(b) \in [Publics -> Mark]
<1>1. b.changes \subseteq Change
  BY DEF Batch
<1>2. ASSUME NEW p \in Publics
      PROVE  Max(Withdrawn(b, p) \cup {watermarks[p].seq}) \in 0..MaxChange
  <2> DEFINE T == Withdrawn(b, p) \cup {watermarks[p].seq}
  <2>1. watermarks[p].seq \in 0..MaxChange
    BY DEF MirrorTyped, Mark
  <2>2. Withdrawn(b, p) \subseteq 1..MaxChange
    BY <1>1 DEF Withdrawn, ChangesOf, Change, Seqs
  <2>3. T \subseteq Nat /\ T # {} /\ (\A n \in T : n <= MaxChange) /\ T \subseteq 0..MaxChange
    BY <2>1, <2>2, PeerAssumption
  <2>4. Max(T) \in T
    BY <2>3, GreatestNatural, PeerAssumption
  <2> QED
    BY <2>3, <2>4
<1> QED
  BY <1>2 DEF Marks, MirrorTyped, Mark

(* and so does what replaces the mirror.                                   *)
LEMMA ReplaceTyped ==
  ASSUME MirrorTyped, NEW c \in 0..MaxChange, NEW l \in [Publics -> MaybeArtifact],
         NEW m \in [Publics -> Mark], Replace(c, l, m)
  PROVE  /\ mirror' = l /\ cursor' = c /\ synced' = TRUE
         /\ watermarks' \in [Publics -> Mark] /\ history' \subseteq Known
<1>1. \A p \in Publics : l[p] # NoArtifact => l[p] \in Artifact
  BY DEF MaybeArtifact
<1>2. \A p \in Publics : l[p] # NoArtifact =>
        l[p].revision \in 1..MaxEdition /\ l[p].evidence \in Seqs /\ l[p].seq \in 0..MaxChange
  BY <1>1, PeerAssumption DEF Artifact, Seqs
<1>3. watermarks' \in [Publics -> Mark]
  BY <1>2 DEF Replace, Mark
<1>4. history' \subseteq Known
  BY <1>2 DEF Replace, Known, MirrorTyped
<1> QED
  BY <1>3, <1>4 DEF Replace

MirrorInv == MirrorTyped /\ MirrorOK

(* A batch that begins at the cursor is applied to the mirror.             *)
LEMMA BatchApplied ==
  ASSUME MirrorInv, UNCHANGED ownerVars, NEW b \in Batch, BatchOK(b),
         BatchAccepted(b), ApplyBatch(b)
  PROVE  MirrorInv' /\ Live
<1>0. latest' = latest
  BY DEF ownerVars, latest
<1>1. CASE Repeated(b)
  BY <1>0, <1>1 DEF ApplyBatch, Live, MirrorInv, MirrorTyped, MirrorOK, FaithfulTo, Quiet, ownerVars
<1>2. CASE ~Repeated(b)
  <2>1. /\ Replace(b.cursor, Listed(b), Marks(b)) /\ lastBatch' = b /\ Live
        /\ b.after = cursor /\ b.cursor \in 0..MaxChange
    BY <1>2 DEF ApplyBatch, BatchAccepted, Batch
  <2>2. Listed(b) \in [Publics -> MaybeArtifact] /\ Marks(b) \in [Publics -> Mark]
    BY ListedTyped, MarksTyped DEF MirrorInv
  <2>3. /\ mirror' = Listed(b) /\ cursor' = b.cursor /\ synced' = TRUE
        /\ watermarks' \in [Publics -> Mark] /\ history' \subseteq Known
    BY <2>1, <2>2, ReplaceTyped DEF MirrorInv
  <2>4. MirrorTyped'
    BY <2>1, <2>2, <2>3 DEF Live, MirrorTyped
  <2>5. FaithfulTo(b.cursor, Listed(b)) /\ b.cursor <= latest
    BY <2>1, ListedIsFaithful DEF MirrorInv, MirrorOK, BatchOK
  <2>6. MirrorOK'
    BY <1>0, <2>3, <2>5 DEF MirrorOK, FaithfulTo, Quiet, ownerVars
  <2> QED
    BY <2>1, <2>4, <2>6 DEF MirrorInv
<1> QED
  BY <1>1, <1>2

(* A snapshot replaces it whole,                                           *)
LEMMA SnapshotStored ==
  ASSUME MirrorInv, UNCHANGED ownerVars, NEW s \in Full, SnapshotOK(s), StoreSnapshot(s),
         stale' \in BOOLEAN, unmarked' \in BOOLEAN
  PROVE  MirrorInv'
<1>0. latest' = latest
  BY DEF ownerVars, latest
<1>1. /\ Replace(s.cursor, s.artifacts, watermarks) /\ lastBatch' = NoAnswer
      /\ s.cursor \in 0..MaxChange /\ s.artifacts \in [Publics -> MaybeArtifact]
      /\ watermarks \in [Publics -> Mark]
  BY DEF StoreSnapshot, Full, MirrorInv, MirrorTyped
<1>2. /\ mirror' = s.artifacts /\ cursor' = s.cursor /\ synced' = TRUE
      /\ watermarks' \in [Publics -> Mark] /\ history' \subseteq Known
  BY <1>1, ReplaceTyped DEF MirrorInv
<1>3. MirrorTyped'
  BY <1>1, <1>2 DEF MirrorTyped
<1>4. MirrorOK'
  BY <1>0, <1>2 DEF MirrorOK, SnapshotOK, FaithfulTo, Quiet, ownerVars
<1> QED
  BY <1>3, <1>4 DEF MirrorInv

(* a failure only marks it,                                                *)
LEMMA MarkedStale ==
  ASSUME MirrorInv, UNCHANGED ownerVars, MarkStale
  PROVE  MirrorInv' /\ stale' = TRUE
<1>0. latest' = latest
  BY DEF ownerVars, latest
<1> QED
  BY <1>0 DEF MarkStale, Marked, Unreplaced, MirrorInv, MirrorTyped, MirrorOK, FaithfulTo,
              Quiet, ownerVars

(* a refused mark leaves it,                                               *)
LEMMA MarkLost ==
  ASSUME MirrorInv, UNCHANGED ownerVars, MarkRefused
  PROVE  MirrorInv' /\ unmarked' = (client' = NoGrant)
<1>0. latest' = latest
  BY DEF ownerVars, latest
<1> QED
  BY <1>0 DEF MarkRefused, Refused, Unreplaced, MirrorInv, MirrorTyped, MirrorOK, FaithfulTo,
              Quiet, ownerVars

(* and every other step leaves it.                                         *)
LEMMA MirrorUntouched ==
  ASSUME MirrorInv, UNCHANGED ownerVars, UNCHANGED mirrorVars
  PROVE  MirrorInv' /\ stale' = stale /\ unmarked' = unmarked
<1>0. latest' = latest
  BY DEF ownerVars, latest
<1> QED
  BY <1>0 DEF mirrorVars, MirrorInv, MirrorTyped, MirrorOK, FaithfulTo, Quiet, ownerVars

----------------------------------------------------------------------------
(* Answers on their way outlive every step.                                *)

Carry ==
  /\ \A s \in Full : SnapshotOK(s) => SnapshotOK(s)'
  /\ \A b \in Batch : BatchOK(b) => BatchOK(b)'

(* A step that is not of the owner keeps whatever is on its way as         *)
(* faithful as it was.                                                     *)
LEMMA OwnerUntouched ==
  ASSUME OwnerTyped, OwnerOK, UNCHANGED ownerVars
  PROVE  OwnerTyped' /\ OwnerOK' /\ Carry
<1>1. latest' = latest /\ changeLog' = changeLog /\ shown' = shown /\ revision' = revision
  BY DEF ownerVars, latest
<1>2. OwnerTyped' /\ OwnerOK'
  BY <1>1 DEF OwnerTyped, OwnerOK, Quiet
<1>3. \A s \in Full : SnapshotOK(s) => SnapshotOK(s)'
  BY <1>1 DEF SnapshotOK, FaithfulTo, Quiet
<1>4. \A b \in Batch : BatchOK(b) => BatchOK(b)'
  BY <1>1 DEF BatchOK, Quiet
<1> QED
  BY <1>2, <1>3, <1>4 DEF Carry

(* The answer on its way is judged by what it is, whoever put it there:    *)
LEMMA SyncNow ==
  ASSUME NEW x, sync'.answer = x,
         sync'.at = "changes" /\ Answer(x) => x \in Batch /\ BatchOK(x)',
         sync'.at = "snapshot" /\ Answer(x) => x \in Full /\ SnapshotOK(x)'
  PROVE  SyncOK'
  BY DEF SyncOK, BatchOK, SnapshotOK, FaithfulTo

(* the same for the snapshot of a pairing.                                 *)
LEMMA PairNow ==
  ASSUME NEW x, pair'.answer = x, x # NoAnswer => x \in Full /\ SnapshotOK(x)'
  PROVE  PairOK'
  BY DEF PairOK, SnapshotOK, FaithfulTo

(* An answer left alone stays good,                                        *)
LEMMA SyncKept ==
  ASSUME SyncOK, Carry, sync' = sync
  PROVE  SyncOK'
<1>1. PICK x : x = sync.answer
  OBVIOUS
<1>2. sync.at = "changes" /\ Answer(x) => x \in Batch /\ BatchOK(x)'
  BY <1>1 DEF SyncOK, Carry
<1>3. sync.at = "snapshot" /\ Answer(x) => x \in Full /\ SnapshotOK(x)'
  BY <1>1 DEF SyncOK, Carry
<1> QED
  BY <1>1, <1>2, <1>3, SyncNow

(* here as there;                                                          *)
LEMMA PairKept ==
  ASSUME PairOK, Carry, pair'.answer = pair.answer
  PROVE  PairOK'
<1>1. PICK x : x = pair.answer
  OBVIOUS
<1>2. x # NoAnswer => x \in Full /\ SnapshotOK(x)'
  BY <1>1 DEF PairOK, Carry
<1> QED
  BY <1>1, <1>2, PairNow

(* no answer, or an error, promises nothing,                               *)
LEMMA SyncEmpty ==
  ASSUME sync'.answer \in {NoAnswer, Error}
  PROVE  SyncOK'
  BY DEF SyncOK, Answer

(* here as there.                                                          *)
LEMMA PairEmpty ==
  ASSUME pair'.answer = NoAnswer
  PROVE  PairOK'
  BY DEF PairOK

----------------------------------------------------------------------------
(* Every step keeps the invariant.                                         *)

(* The owner publishes, revises or withdraws: what is on its way stays     *)
(* faithful.                                                               *)
LEMMA OwnerStepKeeps == ASSUME PeerInv, OwnerStep PROVE PeerInv'
<1>1. OwnerTyped' /\ OwnerOK' /\ Frame
  BY OwnerStepFacts DEF PeerInv
<1>2. latest \in Nat /\ latest' \in Nat
  BY <1>1, PeerAssumption DEF PeerInv, OwnerTyped
<1>3. Carry
  BY <1>1, <1>2, FrameKeepsSnapshot, FrameKeepsBatch DEF Carry
<1>4. UNCHANGED <<grants, mirrorVars, client, sync, pair, faults>>
  BY DEF OwnerStep
<1>5. MirrorTyped' /\ ManagerTyped' /\ ClientOK'
  BY <1>4 DEF PeerInv, mirrorVars, MirrorTyped, ManagerTyped, ClientOK
<1>6. MirrorOK'
  <2>1. cursor \in Nat /\ cursor <= latest /\ FaithfulTo(cursor, mirror)
    BY PeerAssumption DEF PeerInv, MirrorTyped, MirrorOK
  <2>2. PICK c \in Nat, l \in {mirror} : c = cursor
    BY <2>1
  <2>3. \A p \in Publics : Quiet(p, c)' => l[p] = shown'[p]
    BY <1>1, <1>2, <2>1, <2>2, FrameKeepsList
  <2>4. c <= latest'
    BY <1>1, <1>2, <2>1, <2>2 DEF Frame
  <2>5. cursor' = c /\ mirror' = l
    BY <1>4, <2>2 DEF mirrorVars
  <2> QED
    BY <2>3, <2>4, <2>5 DEF MirrorOK, FaithfulTo, Quiet
<1>7. SyncOK' /\ PairOK'
  BY <1>3, <1>4, SyncKept, PairKept DEF PeerInv
<1> QED
  BY <1>1, <1>5, <1>6, <1>7 DEF PeerInv

(* The owner invites a peer.                                               *)
LEMMA InviteKeeps ==
  ASSUME NEW g \in GrantIds, PeerInv, Invite(g)
  PROVE  PeerInv'
<1>1. UNCHANGED ownerVars
  BY DEF Invite, Elsewhere
<1>2. MirrorInv
  BY DEF PeerInv, MirrorInv
<1>3. OwnerTyped' /\ OwnerOK' /\ Carry
  BY <1>1, OwnerUntouched DEF PeerInv
<1>4. MirrorInv' /\ stale' = stale /\ unmarked' = unmarked
  BY <1>1, <1>2, MirrorUntouched DEF Invite, Elsewhere
<1>5. ManagerTyped'
  BY PeerAssumption DEF PeerInv, ManagerTyped, MirrorTyped, ClientOK, Invite, Elsewhere
<1>6. SyncOK'
  BY <1>3, SyncKept DEF PeerInv, Invite, Elsewhere
<1>7. PairOK'
  BY <1>3, PairKept DEF PeerInv, Invite, Elsewhere
<1>8. ClientOK'
  BY <1>4, PeerAssumption DEF PeerInv, ManagerTyped, ClientOK, Invite, Elsewhere
<1> QED
  BY <1>3, <1>4, <1>5, <1>6, <1>7, <1>8 DEF PeerInv, MirrorInv

(* The owner revokes a grant.                                              *)
LEMMA RevokeKeeps ==
  ASSUME NEW g \in GrantIds, PeerInv, Revoke(g)
  PROVE  PeerInv'
<1>1. UNCHANGED ownerVars
  BY DEF Revoke, Elsewhere
<1>2. MirrorInv
  BY DEF PeerInv, MirrorInv
<1>3. OwnerTyped' /\ OwnerOK' /\ Carry
  BY <1>1, OwnerUntouched DEF PeerInv
<1>4. MirrorInv' /\ stale' = stale /\ unmarked' = unmarked
  BY <1>1, <1>2, MirrorUntouched DEF Revoke, Elsewhere
<1>5. ManagerTyped'
  BY PeerAssumption DEF PeerInv, ManagerTyped, MirrorTyped, ClientOK, Revoke, Elsewhere
<1>6. SyncOK'
  BY <1>3, SyncKept DEF PeerInv, Revoke, Elsewhere
<1>7. PairOK'
  BY <1>3, PairKept DEF PeerInv, Revoke, Elsewhere
<1>8. ClientOK'
  BY <1>4, PeerAssumption DEF PeerInv, ManagerTyped, ClientOK, Revoke, Elsewhere
<1> QED
  BY <1>3, <1>4, <1>5, <1>6, <1>7, <1>8 DEF PeerInv, MirrorInv

(* The receiver takes up an invitation.                                    *)
LEMMA PairAskKeeps ==
  ASSUME NEW g \in GrantIds, PeerInv, PairAsk(g)
  PROVE  PeerInv'
<1>1. UNCHANGED ownerVars
  BY DEF PairAsk
<1>2. MirrorInv
  BY DEF PeerInv, MirrorInv
<1>3. OwnerTyped' /\ OwnerOK' /\ Carry
  BY <1>1, OwnerUntouched DEF PeerInv
<1>4. MirrorInv' /\ stale' = stale /\ unmarked' = unmarked
  BY <1>1, <1>2, MirrorUntouched DEF PairAsk
<1>5. ManagerTyped'
  BY PeerAssumption DEF PeerInv, ManagerTyped, MirrorTyped, ClientOK, PairAsk, PairAt
<1>6. SyncOK'
  BY <1>3, SyncKept DEF PeerInv, PairAsk
<1>7. PairOK'
  BY PairEmpty DEF PairAsk, PairAt
<1>8. ClientOK'
  BY <1>4, PeerAssumption DEF PeerInv, ManagerTyped, ClientOK, PairAsk, PairAt
<1> QED
  BY <1>3, <1>4, <1>5, <1>6, <1>7, <1>8 DEF PeerInv, MirrorInv

(* The owner stops sharing.                                                *)
LEMMA StopServiceKeeps ==
  ASSUME PeerInv, StopService
  PROVE  PeerInv'
<1>1. UNCHANGED ownerVars
  BY DEF StopService, Elsewhere
<1>2. MirrorInv
  BY DEF PeerInv, MirrorInv
<1>3. OwnerTyped' /\ OwnerOK' /\ Carry
  BY <1>1, OwnerUntouched DEF PeerInv
<1>4. MirrorInv' /\ stale' = stale /\ unmarked' = unmarked
  BY <1>1, <1>2, MirrorUntouched DEF StopService, Elsewhere
<1>5. ManagerTyped'
  BY PeerAssumption DEF PeerInv, ManagerTyped, MirrorTyped, ClientOK, StopService, Elsewhere
<1>6. SyncOK'
  BY <1>3, SyncKept DEF PeerInv, StopService, Elsewhere
<1>7. PairOK'
  BY <1>3, PairKept DEF PeerInv, StopService, Elsewhere
<1>8. ClientOK'
  BY <1>4, PeerAssumption DEF PeerInv, ManagerTyped, ClientOK, StopService, Elsewhere
<1> QED
  BY <1>3, <1>4, <1>5, <1>6, <1>7, <1>8 DEF PeerInv, MirrorInv

(* The manager takes its connection to synchronise with.                   *)
LEMMA SyncPickKeeps ==
  ASSUME PeerInv, SyncPick
  PROVE  PeerInv'
<1>1. UNCHANGED ownerVars
  BY DEF SyncPick
<1>2. MirrorInv
  BY DEF PeerInv, MirrorInv
<1>3. OwnerTyped' /\ OwnerOK' /\ Carry
  BY <1>1, OwnerUntouched DEF PeerInv
<1>4. MirrorInv' /\ stale' = stale /\ unmarked' = unmarked
  BY <1>1, <1>2, MirrorUntouched DEF SyncPick
<1>5. ManagerTyped'
  BY PeerAssumption DEF PeerInv, ManagerTyped, MirrorTyped, ClientOK, SyncPick, SyncAt
<1>6. SyncOK'
  BY SyncEmpty DEF SyncPick, SyncAt
<1>7. PairOK'
  BY <1>3, PairKept DEF PeerInv, SyncPick
<1>8. ClientOK'
  BY <1>4, PeerAssumption DEF PeerInv, ManagerTyped, ClientOK, SyncPick, SyncAt
<1> QED
  BY <1>3, <1>4, <1>5, <1>6, <1>7, <1>8 DEF PeerInv, MirrorInv

(* It asks for the changes after the cursor.                               *)
LEMMA SyncAskKeeps ==
  ASSUME PeerInv, SyncAsk
  PROVE  PeerInv'
<1>1. UNCHANGED ownerVars
  BY DEF SyncAsk
<1>2. MirrorInv
  BY DEF PeerInv, MirrorInv
<1>3. OwnerTyped' /\ OwnerOK' /\ Carry
  BY <1>1, OwnerUntouched DEF PeerInv
<1>4. MirrorInv' /\ stale' = stale /\ unmarked' = unmarked
  BY <1>1, <1>2, MirrorUntouched DEF SyncAsk
<1>5. ManagerTyped'
  BY PeerAssumption DEF PeerInv, ManagerTyped, MirrorTyped, ClientOK, SyncAsk, SyncAt
<1>6. SyncOK'
  BY SyncEmpty DEF SyncAsk, SyncAt
<1>7. PairOK'
  BY <1>3, PairKept DEF PeerInv, SyncAsk
<1>8. ClientOK'
  BY <1>4, PeerAssumption DEF PeerInv, ManagerTyped, ClientOK, SyncAsk, SyncAt
<1> QED
  BY <1>3, <1>4, <1>5, <1>6, <1>7, <1>8 DEF PeerInv, MirrorInv

(* It asks for a snapshot instead, or gives up.                            *)
LEMMA SyncAgainKeeps ==
  ASSUME PeerInv, SyncAgain
  PROVE  PeerInv'
<1>1. UNCHANGED ownerVars
  BY DEF SyncAgain
<1>2. MirrorInv
  BY DEF PeerInv, MirrorInv
<1>3. OwnerTyped' /\ OwnerOK' /\ Carry
  BY <1>1, OwnerUntouched DEF PeerInv
<1>4. MirrorInv' /\ stale' = stale /\ unmarked' = unmarked
  BY <1>1, <1>2, MirrorUntouched DEF SyncAgain
<1>5. ManagerTyped'
  BY PeerAssumption DEF PeerInv, ManagerTyped, MirrorTyped, ClientOK, SyncAgain, Idle, SyncAt
<1>6. SyncOK'
  BY SyncEmpty DEF SyncAgain, Idle, SyncAt
<1>7. PairOK'
  BY <1>3, PairKept DEF PeerInv, SyncAgain
<1>8. ClientOK'
  BY <1>4, PeerAssumption DEF PeerInv, ManagerTyped, ClientOK, SyncAgain, Idle, SyncAt
<1> QED
  BY <1>3, <1>4, <1>5, <1>6, <1>7, <1>8 DEF PeerInv, MirrorInv

(* The answer is lost.                                                     *)
LEMMA LoseSyncKeeps ==
  ASSUME PeerInv, LoseSync
  PROVE  PeerInv'
<1>1. UNCHANGED ownerVars
  BY DEF LoseSync
<1>2. MirrorInv
  BY DEF PeerInv, MirrorInv
<1>3. OwnerTyped' /\ OwnerOK' /\ Carry
  BY <1>1, OwnerUntouched DEF PeerInv
<1>4. MirrorInv' /\ stale' = stale /\ unmarked' = unmarked
  BY <1>1, <1>2, MirrorUntouched DEF LoseSync
<1>5. ManagerTyped'
  BY PeerAssumption
     DEF PeerInv, ManagerTyped, MirrorTyped, ClientOK, LoseSync, Late, SyncAnswered, SyncAt
<1>6. SyncOK'
  BY SyncEmpty DEF LoseSync, Late, SyncAnswered, SyncAt
<1>7. PairOK'
  BY <1>3, PairKept DEF PeerInv, LoseSync
<1>8. ClientOK'
  BY <1>4, PeerAssumption
     DEF PeerInv, ManagerTyped, ClientOK, LoseSync, Late, SyncAnswered, SyncAt
<1> QED
  BY <1>3, <1>4, <1>5, <1>6, <1>7, <1>8 DEF PeerInv, MirrorInv

(* The owner accepts the invitation.                                       *)
LEMMA AnswerPairKeeps ==
  ASSUME PeerInv, AnswerPair
  PROVE  PeerInv'
<1>1. UNCHANGED ownerVars
  BY DEF AnswerPair, Elsewhere
<1>2. MirrorInv
  BY DEF PeerInv, MirrorInv
<1>3. OwnerTyped' /\ OwnerOK' /\ Carry
  BY <1>1, OwnerUntouched DEF PeerInv
<1>4. MirrorInv' /\ stale' = stale /\ unmarked' = unmarked
  BY <1>1, <1>2, MirrorUntouched DEF AnswerPair, Elsewhere
<1>5. ManagerTyped'
  BY PeerAssumption
     DEF PeerInv, ManagerTyped, MirrorTyped, ClientOK, AnswerPair, Elsewhere, PairAt
<1>6. SyncOK'
  BY <1>3, SyncKept DEF PeerInv, AnswerPair, Elsewhere
<1>7. PairOK'
  BY <1>3, PairKept DEF PeerInv, AnswerPair, Elsewhere, PairAt
<1>8. ClientOK'
  BY <1>4, PeerAssumption DEF PeerInv, ManagerTyped, ClientOK, AnswerPair, Elsewhere, PairAt
<1> QED
  BY <1>3, <1>4, <1>5, <1>6, <1>7, <1>8 DEF PeerInv, MirrorInv

(* The pairing fails.                                                      *)
LEMMA PairFailsKeeps ==
  ASSUME PeerInv, PairFails
  PROVE  PeerInv'
<1>1. UNCHANGED ownerVars
  BY DEF PairFails
<1>2. MirrorInv
  BY DEF PeerInv, MirrorInv
<1>3. OwnerTyped' /\ OwnerOK' /\ Carry
  BY <1>1, OwnerUntouched DEF PeerInv
<1>4. MirrorInv' /\ stale' = stale /\ unmarked' = unmarked
  BY <1>1, <1>2, MirrorUntouched DEF PairFails
<1>5. ManagerTyped'
  BY PeerAssumption DEF PeerInv, ManagerTyped, MirrorTyped, ClientOK, PairFails, NoPair, PairAt
<1>6. SyncOK'
  BY <1>3, SyncKept DEF PeerInv, PairFails
<1>7. PairOK'
  BY PairEmpty DEF PairFails, NoPair, PairAt
<1>8. ClientOK'
  BY <1>4, PeerAssumption DEF PeerInv, ManagerTyped, ClientOK, PairFails, NoPair, PairAt
<1> QED
  BY <1>3, <1>4, <1>5, <1>6, <1>7, <1>8 DEF PeerInv, MirrorInv

(* The owner answers with a page or a snapshot, faithful as it is made.    *)
LEMMA AnswerSyncKeeps ==
  ASSUME PeerInv, AnswerSync
  PROVE  PeerInv'
<1>1. UNCHANGED ownerVars
  BY DEF AnswerSync, Elsewhere
<1>2. MirrorInv
  BY DEF PeerInv, MirrorInv
<1>3. OwnerTyped' /\ OwnerOK' /\ Carry
  BY <1>1, OwnerUntouched DEF PeerInv
<1>4. MirrorInv' /\ stale' = stale /\ unmarked' = unmarked
  BY <1>1, <1>2, MirrorUntouched DEF AnswerSync, Elsewhere
<1>5. ManagerTyped'
  BY PeerAssumption
     DEF PeerInv, ManagerTyped, MirrorTyped, ClientOK, AnswerSync, Elsewhere, SyncAnswered,
         SyncAt
<1>6. SyncOK'
  <2>1. PICK x : x = sync'.answer
    OBVIOUS
  <2>2. /\ x = IF ~Permitted(sync.client) THEN Error
               ELSE IF sync.at = "changes" THEN Changes(sync.after) ELSE Snapshot
        /\ sync'.at = sync.at
    BY <2>1 DEF AnswerSync, SyncAnswered, SyncAt
  <2>3. sync.at = "changes" /\ Answer(x) => x \in Batch /\ BatchOK(x)'
    <3>1. sync.after \in 0..MaxChange
      BY DEF PeerInv, ManagerTyped
    <3>2. Changes(sync.after) \in Batch /\ BatchOK(Changes(sync.after))
      BY <3>1, ChangesAreOK DEF PeerInv
    <3> QED
      BY <1>3, <2>2, <3>2 DEF Carry, Answer
  <2>4. sync.at = "snapshot" /\ Answer(x) => x \in Full /\ SnapshotOK(x)'
    <3>1. Snapshot \in Full /\ SnapshotOK(Snapshot)
      BY SnapshotIsOK DEF PeerInv
    <3> QED
      BY <1>3, <2>2, <3>1 DEF Carry, Answer
  <2> QED
    BY <2>1, <2>2, <2>3, <2>4, SyncNow
<1>7. PairOK'
  BY <1>3, PairKept DEF PeerInv, AnswerSync, Elsewhere
<1>8. ClientOK'
  BY <1>4, PeerAssumption
     DEF PeerInv, ManagerTyped, ClientOK, AnswerSync, Elsewhere, SyncAnswered, SyncAt
<1> QED
  BY <1>3, <1>4, <1>5, <1>6, <1>7, <1>8 DEF PeerInv, MirrorInv

(* The owner answers the first request of a new peer.                      *)
LEMMA AnswerFirstKeeps ==
  ASSUME PeerInv, AnswerFirst
  PROVE  PeerInv'
<1>1. UNCHANGED ownerVars
  BY DEF AnswerFirst, Elsewhere
<1>2. MirrorInv
  BY DEF PeerInv, MirrorInv
<1>3. OwnerTyped' /\ OwnerOK' /\ Carry
  BY <1>1, OwnerUntouched DEF PeerInv
<1>4. MirrorInv' /\ stale' = stale /\ unmarked' = unmarked
  BY <1>1, <1>2, MirrorUntouched DEF AnswerFirst, Elsewhere
<1>5. ManagerTyped'
  BY PeerAssumption
     DEF PeerInv, ManagerTyped, MirrorTyped, ClientOK, AnswerFirst, Elsewhere, PairAt
<1>6. SyncOK'
  BY <1>3, SyncKept DEF PeerInv, AnswerFirst, Elsewhere
<1>7. PairOK'
  <2>1. PICK x : x = Snapshot
    OBVIOUS
  <2>2. pair'.answer = x
    BY <2>1 DEF AnswerFirst, PairAt
  <2>3. x \in Full /\ SnapshotOK(x)'
    BY <1>3, <2>1, SnapshotIsOK DEF PeerInv, Carry
  <2> QED
    BY <2>2, <2>3, PairNow
<1>8. ClientOK'
  BY <1>4, PeerAssumption DEF PeerInv, ManagerTyped, ClientOK, AnswerFirst, Elsewhere, PairAt
<1> QED
  BY <1>3, <1>4, <1>5, <1>6, <1>7, <1>8 DEF PeerInv, MirrorInv

(* The manager applies a page that begins at the cursor, or leaves the     *)
(* mirror alone.                                                           *)
LEMMA SyncApplyKeeps ==
  ASSUME PeerInv, SyncApply
  PROVE  PeerInv'
<1>1. UNCHANGED ownerVars
  BY DEF SyncApply
<1>2. MirrorInv
  BY DEF PeerInv, MirrorInv
<1>3. OwnerTyped' /\ OwnerOK' /\ Carry
  BY <1>1, OwnerUntouched DEF PeerInv
<1>4. /\ MirrorInv'
      /\ ~stale' => client' # NoGrant \/ unmarked'
  <2>1. CASE UNCHANGED mirrorVars
    BY <1>1, <1>2, <2>1, MirrorUntouched DEF PeerInv, ClientOK, SyncApply
  <2>2. CASE /\ StillCurrent(sync.client) /\ sync.answer # Error
             /\ BatchAccepted(sync.answer) /\ ApplyBatch(sync.answer)
    <3>1. /\ sync.answer \in Batch /\ BatchOK(sync.answer)
          /\ client # NoGrant /\ client' = client
      BY <2>2 DEF SyncApply, PeerInv, SyncOK, Answer, ClientOK, StillCurrent
    <3>2. MirrorInv'
      BY <1>1, <1>2, <2>2, <3>1, BatchApplied
    <3> QED
      BY <3>1, <3>2
  <2> QED
    BY <2>1, <2>2 DEF SyncApply
<1>5. ManagerTyped'
  BY PeerAssumption
     DEF PeerInv, ManagerTyped, MirrorTyped, ClientOK, SyncApply, Done, Late, Idle, Again,
         SyncAt
<1>6. SyncOK'
  BY SyncEmpty DEF SyncApply, Done, Late, Idle, Again, SyncAt
<1>7. PairOK'
  BY <1>3, PairKept DEF PeerInv, SyncApply
<1>8. ClientOK'
  BY <1>4, PeerAssumption
     DEF PeerInv, ManagerTyped, ClientOK, SyncApply, Done, Late, Idle, Again, SyncAt
<1> QED
  BY <1>3, <1>4, <1>5, <1>6, <1>7, <1>8 DEF PeerInv, MirrorInv

(* It replaces the mirror by a snapshot.                                   *)
LEMMA SyncReplaceKeeps ==
  ASSUME PeerInv, SyncReplace
  PROVE  PeerInv'
<1>1. UNCHANGED ownerVars
  BY DEF SyncReplace
<1>2. MirrorInv
  BY DEF PeerInv, MirrorInv
<1>3. OwnerTyped' /\ OwnerOK' /\ Carry
  BY <1>1, OwnerUntouched DEF PeerInv
<1>4. /\ MirrorInv'
      /\ ~stale' => client' # NoGrant \/ unmarked'
  <2>1. CASE UNCHANGED mirrorVars
    BY <1>1, <1>2, <2>1, MirrorUntouched DEF PeerInv, ClientOK, SyncReplace
  <2>2. CASE MarkStale
    BY <1>1, <1>2, <2>2, MarkedStale
  <2>3. CASE MarkRefused
    BY <1>1, <1>2, <2>3, MarkLost
  <2>4. CASE /\ StillCurrent(sync.client) /\ sync.answer # Error
             /\ StoreSnapshot(sync.answer) /\ (Live \/ Marked \/ Refused(FALSE))
    <3>1. /\ sync.answer \in Full /\ SnapshotOK(sync.answer)
          /\ client # NoGrant /\ client' = client
      BY <2>4 DEF SyncReplace, PeerInv, SyncOK, Answer, ClientOK, StillCurrent
    <3>2. stale' \in BOOLEAN /\ unmarked' \in BOOLEAN
      BY <2>4 DEF Live, Marked, Refused
    <3>3. MirrorInv'
      BY <1>1, <1>2, <2>4, <3>1, <3>2, SnapshotStored
    <3> QED
      BY <3>1, <3>3
  <2> QED
    BY <2>1, <2>2, <2>3, <2>4 DEF SyncReplace, ApplySnapshot, StoredThenMark
<1>5. ManagerTyped'
  BY PeerAssumption
     DEF PeerInv, ManagerTyped, MirrorTyped, ClientOK, SyncReplace, Done, Late, Idle, SyncAt
<1>6. SyncOK'
  BY SyncEmpty DEF SyncReplace, Done, Late, Idle, SyncAt
<1>7. PairOK'
  BY <1>3, PairKept DEF PeerInv, SyncReplace
<1>8. ClientOK'
  BY <1>4, PeerAssumption
     DEF PeerInv, ManagerTyped, ClientOK, SyncReplace, Done, Late, Idle, SyncAt
<1> QED
  BY <1>3, <1>4, <1>5, <1>6, <1>7, <1>8 DEF PeerInv, MirrorInv

(* A new connection brings its snapshot with it.                           *)
LEMMA PairCommitKeeps ==
  ASSUME PeerInv, PairCommit
  PROVE  PeerInv'
<1>1. UNCHANGED ownerVars
  BY DEF PairCommit
<1>2. MirrorInv
  BY DEF PeerInv, MirrorInv
<1>3. OwnerTyped' /\ OwnerOK' /\ Carry
  BY <1>1, OwnerUntouched DEF PeerInv
<1>4. /\ MirrorInv'
      /\ ~stale' => client' # NoGrant \/ unmarked'
  <2>1. CASE MarkStale
    BY <1>1, <1>2, <2>1, MarkedStale
  <2>2. CASE MarkRefused
    BY <1>1, <1>2, <2>2, MarkLost
  <2>3. CASE /\ StoreSnapshot(pair.answer)
             /\ (Live /\ client' = pair.client) \/ Marked \/ Refused(FALSE)
    <3>1. pair.answer \in Full /\ SnapshotOK(pair.answer) /\ pair.client # NoGrant
      BY DEF PairCommit, PeerInv, PairOK, ClientOK
    <3>2. stale' \in BOOLEAN /\ unmarked' \in BOOLEAN
      BY <2>3 DEF Live, Marked, Refused
    <3>3. MirrorInv'
      BY <1>1, <1>2, <2>3, <3>1, <3>2, SnapshotStored
    <3>4. ~stale' => client' # NoGrant \/ unmarked'
      BY <2>3, <3>1 DEF Live, Marked, Refused
    <3> QED
      BY <3>3, <3>4
  <2> QED
    BY <2>1, <2>2, <2>3 DEF PairCommit, ApplySnapshot, StoredThenMark
<1>5. ManagerTyped'
  BY PeerAssumption
     DEF PeerInv, ManagerTyped, MirrorTyped, ClientOK, PairCommit, Done, Late, NoPair, PairAt
<1>6. SyncOK'
  BY <1>3, SyncKept DEF PeerInv, PairCommit
<1>7. PairOK'
  BY PairEmpty DEF PairCommit, Done, Late, NoPair, PairAt
<1>8. ClientOK'
  BY <1>4, PeerAssumption
     DEF PeerInv, ManagerTyped, ClientOK, PairCommit, Done, Late, NoPair, PairAt
<1> QED
  BY <1>3, <1>4, <1>5, <1>6, <1>7, <1>8 DEF PeerInv, MirrorInv

(* The receiver disconnects.                                               *)
LEMMA DisconnectKeeps ==
  ASSUME PeerInv, Disconnect
  PROVE  PeerInv'
<1>1. UNCHANGED ownerVars
  BY DEF Disconnect
<1>2. MirrorInv
  BY DEF PeerInv, MirrorInv
<1>3. OwnerTyped' /\ OwnerOK' /\ Carry
  BY <1>1, OwnerUntouched DEF PeerInv
<1>4. MirrorInv' /\ (~stale' => client' # NoGrant \/ unmarked')
  BY <1>1, <1>2, MarkedStale, MarkLost DEF Disconnect
<1>5. ManagerTyped'
  BY PeerAssumption DEF PeerInv, ManagerTyped, MirrorTyped, ClientOK, Disconnect, Done, Late, PairAt
<1>6. SyncOK'
  BY <1>3, SyncKept DEF PeerInv, Disconnect
<1>7. PairOK'
  BY <1>3, PairKept DEF PeerInv, Disconnect, PairAt
<1>8. ClientOK'
  BY <1>4, PeerAssumption DEF PeerInv, ManagerTyped, ClientOK, Disconnect, Done, Late, PairAt
<1> QED
  BY <1>3, <1>4, <1>5, <1>6, <1>7, <1>8 DEF PeerInv, MirrorInv

(* The receiver restarts with what it stored.                              *)
LEMMA ReceiverRestartKeeps ==
  ASSUME PeerInv, ReceiverRestart
  PROVE  PeerInv'
<1>1. UNCHANGED ownerVars
  BY DEF ReceiverRestart
<1>2. MirrorInv
  BY DEF PeerInv, MirrorInv
<1>3. OwnerTyped' /\ OwnerOK' /\ Carry
  BY <1>1, OwnerUntouched DEF PeerInv
<1>4. MirrorInv' /\ stale' = TRUE
  BY <1>1, <1>2, MarkedStale DEF ReceiverRestart
<1>5. ManagerTyped'
  BY PeerAssumption
     DEF PeerInv, ManagerTyped, MirrorTyped, ClientOK, ReceiverRestart, Idle, NoPair, SyncAt,
         PairAt
<1>6. SyncOK'
  BY SyncEmpty DEF ReceiverRestart, Idle, NoPair, SyncAt, PairAt
<1>7. PairOK'
  BY PairEmpty DEF ReceiverRestart, Idle, NoPair, SyncAt, PairAt
<1>8. ClientOK'
  BY <1>4, PeerAssumption
     DEF PeerInv, ManagerTyped, ClientOK, ReceiverRestart, Idle, NoPair, SyncAt, PairAt
<1> QED
  BY <1>3, <1>4, <1>5, <1>6, <1>7, <1>8 DEF PeerInv, MirrorInv

----------------------------------------------------------------------------
(* The tables are empty when the two first run.                            *)
LEMMA PeerInitInv == PeerInit => PeerInv
<1> SUFFICES ASSUME PeerInit PROVE PeerInv
  OBVIOUS
<1>1. DOMAIN changeLog = {} /\ latest = 0 /\ 1..latest = {}
  BY FS_EmptySet DEF PeerInit, latest
<1>2. OwnerTyped
  BY <1>1, PeerAssumption DEF PeerInit, OwnerTyped, MaybeArtifact
<1>3. MirrorTyped
  <2>1. mirror \in [Publics -> MaybeArtifact]
    BY DEF PeerInit, MaybeArtifact
  <2>2. PICK m : m = [seq |-> 0, withdrawn |-> FALSE]
    OBVIOUS
  <2>3. m \in Mark
    BY <2>2, PeerAssumption DEF Mark
  <2>4. watermarks \in [Publics -> Mark]
    <3>1. watermarks = [p \in Publics |-> m]
      BY <2>2 DEF PeerInit
    <3> QED
      BY <2>3, <3>1
  <2>5. history \subseteq Known
    BY DEF PeerInit
  <2>6. lastBatch \in Batch \cup {NoAnswer}
    BY DEF PeerInit
  <2>7. cursor \in 0..MaxChange
    <3>1. cursor = 0 /\ MaxChange \in Nat
      BY PeerAssumption DEF PeerInit
    <3> QED
      BY <3>1
  <2>8. stale \in BOOLEAN /\ unmarked \in BOOLEAN /\ synced \in BOOLEAN
    BY DEF PeerInit
  <2> QED
    BY <2>1, <2>4, <2>5, <2>6, <2>7, <2>8 DEF MirrorTyped
<1>4. ManagerTyped /\ ClientOK
  BY PeerAssumption DEF PeerInit, ManagerTyped, ClientOK, Idle, NoPair, SyncAt, PairAt
<1>5. OwnerOK /\ MirrorOK
  BY <1>1 DEF PeerInit, OwnerOK, MirrorOK, FaithfulTo
<1>6. SyncOK /\ PairOK
  BY DEF PeerInit, SyncOK, PairOK, Answer, Idle, NoPair, SyncAt, PairAt
<1> QED
  BY <1>2, <1>3, <1>4, <1>5, <1>6 DEF PeerInv

(* The invariant holds in every state of every execution.                  *)
THEOREM PeerInvariant == PeerSpec => []PeerInv
<1>1. PeerInv /\ [PeerNext]_peerVars => PeerInv'
  <2> SUFFICES ASSUME PeerInv, [PeerNext]_peerVars PROVE PeerInv'
    OBVIOUS
  <2>1. CASE OwnerStep
    BY <2>1, OwnerStepKeeps
  <2>2. CASE \E g \in GrantIds : Invite(g) \/ Revoke(g) \/ PairAsk(g)
    BY <2>2, InviteKeeps, RevokeKeeps, PairAskKeeps
  <2>3. CASE SyncStep \/ AnswerSync \/ LoseSync
    BY <2>3, SyncPickKeeps, SyncAskKeeps, SyncApplyKeeps, SyncAgainKeeps, SyncReplaceKeeps,
       AnswerSyncKeeps, LoseSyncKeeps DEF SyncStep
  <2>4. CASE AnswerPair \/ AnswerFirst \/ PairFails \/ PairCommit
    BY <2>4, AnswerPairKeeps, AnswerFirstKeeps, PairFailsKeeps, PairCommitKeeps
  <2>5. CASE StopService \/ Disconnect \/ ReceiverRestart
    BY <2>5, StopServiceKeeps, DisconnectKeeps, ReceiverRestartKeeps
  <2>6. CASE UNCHANGED peerVars
    <3>1. /\ UNCHANGED ownerVars /\ UNCHANGED mirrorVars
          /\ UNCHANGED <<grants, client, sync, pair, faults>>
      BY <2>6 DEF peerVars
    <3>2. OwnerTyped' /\ OwnerOK' /\ Carry
      BY <3>1, OwnerUntouched DEF PeerInv
    <3>3. MirrorInv' /\ stale' = stale /\ unmarked' = unmarked
      BY <3>1, MirrorUntouched DEF PeerInv, MirrorInv
    <3>4. SyncOK' /\ PairOK'
      BY <3>1, <3>2, SyncKept, PairKept DEF PeerInv
    <3>5. ManagerTyped' /\ ClientOK'
      BY <3>1, <3>3 DEF PeerInv, ManagerTyped, ClientOK
    <3> QED
      BY <3>2, <3>3, <3>4, <3>5 DEF PeerInv, MirrorInv
  <2> QED
    BY <2>1, <2>2, <2>3, <2>4, <2>5, <2>6 DEF PeerNext
<1> QED
  BY <1>1, PeerInitInv, PTL DEF PeerSpec

(* The publications, the mirror and the manager have the types of their    *)
(* tables and fields.                                                      *)
THEOREM PeerTypes == PeerSpec => []PeerTypeOK
<1>1. PeerInv => PeerTypeOK
  BY DEF PeerInv, OwnerTyped, MirrorTyped, ManagerTyped, PeerTypeOK, Mark, Known
<1> QED
  BY <1>1, PeerInvariant, PTL

(* However pages, lost answers, fall-backs, pairings and restarts follow   *)
(* on each other, the mirror says of every artifact what the owner shows,  *)
(* unless something changed behind its cursor; and it is live only while   *)
(* the manager has a connection, or since the core refused the mark that   *)
(* it has none.                                                            *)
THEOREM MirrorTheorem == PeerSpec => []MirrorFaithful
<1>1. ASSUME PeerInv PROVE MirrorFaithful
  <2>1. ASSUME NEW p \in Publics, LastChange(p) <= cursor PROVE mirror[p] = shown[p]
    <3>1. cursor \in Nat
      BY <1>1, PeerAssumption DEF PeerInv, MirrorTyped
    <3>2. Quiet(p, cursor)
      BY <1>1, <2>1, <3>1, LastChangeFacts DEF PeerInv
    <3> QED
      BY <1>1, <3>2 DEF PeerInv, MirrorOK, FaithfulTo
  <2> QED
    BY <1>1, <2>1 DEF MirrorFaithful, PeerInv, ClientOK
<1> QED
  BY <1>1, PeerInvariant, PTL

----------------------------------------------------------------------------
(* The labels of SpeakerLabels, for any number of segments, events, labels *)
(* and accidents and any size of a page.                                   *)

(* What a commit says of the texts does not matter here; none of them is a *)
(* person's.                                                               *)
CommitsOK == \E R : commits \in Seq(R) /\ \A c \in R : ~c.human

LabelTable == \E L : label \in [Segments -> L]

(* The lock of the status is held for the first commit, which is of the    *)
(* analysis that is on, or was when the application began to be left.      *)
HolderOK ==
  holder => /\ commits # <<>> /\ enabled
            /\ Head(commits).by = generation \/ stopped

LabelsInv == CommitsOK /\ LabelTable /\ HolderOK /\ pending = Len(commits)

(* One commit more, or one less.                                           *)
LEMMA CommitAppended ==
  ASSUME CommitsOK, NEW c, ~c.human, commits' = Append(commits, c)
  PROVE  /\ CommitsOK' /\ Len(commits') = Len(commits) + 1
         /\ commits # <<>> => commits' # <<>> /\ Head(commits') = Head(commits)
<1>1. PICK R : commits \in Seq(R) /\ \A d \in R : ~d.human
  BY DEF CommitsOK
<1>2. commits \in Seq(R \cup {c})
  BY <1>1
<1>3. commits' \in Seq(R \cup {c}) /\ Len(commits') = Len(commits) + 1
  BY <1>2
<1>4. \A d \in R \cup {c} : ~d.human
  BY <1>1
<1>5. CommitsOK'
  BY <1>3, <1>4 DEF CommitsOK
<1>6. commits # <<>> => commits' # <<>> /\ Head(commits') = Head(commits)
  BY <1>2
<1> QED
  BY <1>3, <1>5, <1>6

(* The first commit is not a person's, and the rest are commits still.     *)
LEMMA CommitTaken ==
  ASSUME CommitsOK, commits # <<>>
  PROVE  /\ ~Head(commits).human
         /\ Len(Tail(commits)) = Len(commits) - 1
         /\ commits' = Tail(commits) => CommitsOK'
<1>1. PICK R : commits \in Seq(R) /\ \A d \in R : ~d.human
  BY DEF CommitsOK
<1>2. Head(commits) \in R /\ Tail(commits) \in Seq(R) /\ Len(Tail(commits)) = Len(commits) - 1
  BY <1>1
<1>3. commits' = Tail(commits) => CommitsOK'
  BY <1>1, <1>2 DEF CommitsOK
<1> QED
  BY <1>1, <1>2, <1>3

(* A label more.                                                           *)
LEMMA LabelAssigned ==
  ASSUME LabelTable, NEW c, Assign(c)
  PROVE  /\ LabelTable'
         /\ \A s \in Segments : label'[s] # label[s] =>
              /\ s = c.segment
              /\ label'[s].human = c.human /\ label'[s].by = c.by /\ label'[s].source = c.source
<1>1. PICK L : label \in [Segments -> L]
  BY DEF LabelTable
<1>2. PICK v : v = [source |-> c.source, revision |-> label[c.segment].revision + 1,
                    human |-> c.human, by |-> c.by]
  OBVIOUS
<1>3. label' = [label EXCEPT ![c.segment] = v]
  BY <1>2 DEF Assign
<1>4. label' \in [Segments -> L \cup {v}]
  BY <1>1, <1>3
<1>5. LabelTable'
  BY <1>4 DEF LabelTable
<1>6. ASSUME NEW s \in Segments, label'[s] # label[s] PROVE s = c.segment /\ label'[s] = v
  BY <1>1, <1>3, <1>6
<1> QED
  BY <1>2, <1>5, <1>6

(* A step that leaves the commits and the labels alone, and the status too *)
(* while it is locked.                                                     *)
LEMMA LabelsApart ==
  ASSUME LabelsInv, UNCHANGED commitVars, UNCHANGED label,
         holder => enabled' = enabled /\ (UNCHANGED <<generation, stopped>> \/ stopped')
  PROVE  LabelsInv'
<1>1. CommitsOK' /\ LabelTable' /\ pending' = Len(commits')
  BY DEF LabelsInv, CommitsOK, LabelTable, commitVars
<1>2. HolderOK'
  BY DEF LabelsInv, HolderOK, commitVars
<1> QED
  BY <1>1, <1>2 DEF LabelsInv

(* The thread: only Submit hands a commit over, only with the status       *)
(* unlocked is the analysis ended, and it waits until no commit is left.   *)
LEMMA ThreadKeeps ==
  ASSUME LabelsInv, Thread
  PROVE  LabelsInv'
<1>1. CASE Start \/ Look \/ Read \/ EndOfPage \/ Admit
  BY <1>1, LabelsApart DEF Start, Look, Read, EndOfPage, Admit, switchVars, ledgerVars
<1>2. CASE Leave
  BY <1>2, LabelsApart DEF Leave, Unlocked, ledgerVars
<1>3. CASE Submit
  <2>1. CASE UNCHANGED commitVars
    BY <1>3, <2>1, LabelsApart DEF Submit, switchVars, ledgerVars
  <2>2. CASE /\ pending' = pending + 1 /\ UNCHANGED holder
             /\ commits' = Append(commits, [segment |-> ThisOne.segment,
                   source |-> ThisOne.source, expected |-> ThisOne.expected,
                   human |-> FALSE, by |-> worker.mine])
    <3>1. PICK c : ~c.human /\ commits' = Append(commits, c)
      BY <2>2
    <3>2. /\ CommitsOK' /\ Len(commits') = Len(commits) + 1
          /\ commits # <<>> => commits' # <<>> /\ Head(commits') = Head(commits)
      BY <3>1, CommitAppended DEF LabelsInv
    <3>3. LabelTable'
      BY <1>3 DEF Submit, ledgerVars, LabelsInv, LabelTable
    <3>4. HolderOK'
      BY <1>3, <2>2, <3>2 DEF Submit, switchVars, LabelsInv, HolderOK
    <3> QED
      BY <2>2, <3>2, <3>3, <3>4 DEF LabelsInv
  <2> QED
    BY <1>3, <2>1, <2>2 DEF Submit
<1>4. CASE Answered
  <2>1. ~holder
    BY <1>4 DEF Answered, LabelsInv, HolderOK
  <2> QED
    BY <1>4, <2>1, LabelsApart DEF Answered, ledgerVars
<1> QED
  BY <1>1, <1>2, <1>3, <1>4 DEF Thread

(* The core: it locks the status for a commit that is wanted and lets go   *)
(* of it with the commit.                                                  *)
LEMMA CoreKeeps ==
  ASSUME LabelsInv, Core
  PROVE  LabelsInv'
<1>1. ASSUME commits # <<>>, commits' = Tail(commits), pending' = pending - 1, ~holder',
             LabelTable'
      PROVE  LabelsInv'
  BY <1>1, CommitTaken DEF LabelsInv, HolderOK
<1>2. CASE Begin
  <2>1. CASE Wanted(Head(commits))
    <3>1. UNCHANGED <<commits, pending, label, enabled, generation, stopped>>
      BY <1>2, <2>1 DEF Begin, switchVars, ledgerVars
    <3>2. commits # <<>> /\ enabled /\ Head(commits).by = generation
      BY <1>2, <2>1 DEF Begin, Wanted, Interrupted
    <3> QED
      BY <3>1, <3>2 DEF LabelsInv, CommitsOK, LabelTable, HolderOK
  <2>2. CASE ~Wanted(Head(commits))
    <3>1. LabelTable'
      BY <1>2 DEF Begin, ledgerVars, LabelsInv, LabelTable
    <3> QED
      BY <1>1, <1>2, <2>2, <3>1 DEF Begin
  <2> QED
    BY <2>1, <2>2
<1>3. CASE Commit
  <2>1. commits # <<>>
    BY <1>3 DEF Commit, LabelsInv, HolderOK
  <2>2. LabelTable'
    <3>1. CASE UNCHANGED label
      BY <3>1 DEF LabelsInv, LabelTable
    <3>2. CASE Assign(Head(commits))
      BY <3>2, LabelAssigned DEF LabelsInv
    <3> QED
      BY <1>3, <3>1, <3>2 DEF Commit
  <2> QED
    BY <1>1, <1>3, <2>1, <2>2 DEF Commit
<1> QED
  BY <1>2, <1>3 DEF Core

(* Mishaps end the analysis with the status unlocked only.                 *)
LEMMA MishapKeeps ==
  ASSUME LabelsInv, Mishap
  PROVE  LabelsInv'
<1>1. UNCHANGED ledgerVars /\ UNCHANGED commitVars /\ UNCHANGED <<generation, stopped>>
  BY DEF Mishap, ReadFails, RunFails, Yield, Uncontained, TimedOut, switchVars
<1>2. UNCHANGED enabled \/ ~holder
  BY DEF Mishap, ReadFails, RunFails, Yield, Uncontained, TimedOut, switchVars, Unlocked
<1> QED
  BY <1>1, <1>2, LabelsApart DEF ledgerVars

(* The operator waits for the status, except when the application is left. *)
LEMMA OperatorKeeps ==
  ASSUME LabelsInv, Operator
  PROVE  LabelsInv'
<1>1. ASSUME NEW s \in Segments, Capture(s) \/ Final(s, "success") \/ Final(s, "failed")
      PROVE  LabelsInv'
  BY <1>1, LabelsApart DEF Capture, Final, switchVars
<1>2. ASSUME NEW s \in Segments, Correct(s) PROVE LabelsInv'
  <2>1. /\ \E c : Assign(c)
        /\ ~holder /\ UNCHANGED commitVars
    BY <1>2 DEF Correct, Unlocked
  <2>2. LabelTable'
    BY <2>1, LabelAssigned DEF LabelsInv
  <2> QED
    BY <2>1, <2>2 DEF LabelsInv, CommitsOK, HolderOK, commitVars
<1>3. CASE Ask \/ Enable \/ Disable \/ Shutdown
  BY <1>3, LabelsApart DEF Ask, Enable, Disable, Shutdown, Unlocked, ledgerVars
<1> QED
  BY <1>1, <1>2, <1>3 DEF Operator

(* The invariant holds in every state of every execution.                  *)
THEOREM LabelsInvariant == Spec => []LabelsInv
<1>1. Init => LabelsInv
  <2> SUFFICES ASSUME Init PROVE LabelsInv
    OBVIOUS
  <2>1. commits = <<>> /\ pending = 0 /\ ~holder
    BY DEF Init
  <2>2. CommitsOK
    <3>1. commits \in Seq({}) /\ \A c \in {} : ~c.human
      BY <2>1
    <3> QED
      BY <3>1 DEF CommitsOK
  <2>3. LabelTable
    <3>1. PICK v : v = [source |-> 0, revision |-> 0, human |-> FALSE, by |-> 0]
      OBVIOUS
    <3>2. label \in [Segments -> {v}]
      BY <3>1 DEF Init
    <3> QED
      BY <3>2 DEF LabelTable
  <2> QED
    BY <2>1, <2>2, <2>3 DEF LabelsInv, HolderOK
<1>2. LabelsInv /\ [Next]_vars => LabelsInv'
  <2>1. ASSUME LabelsInv, UNCHANGED vars PROVE LabelsInv'
    BY <2>1, LabelsApart DEF vars, commitVars
  <2> QED
    BY <2>1, ThreadKeeps, CoreKeeps, MishapKeeps, OperatorKeeps DEF Next
<1> QED
  BY <1>1, <1>2, PTL DEF Spec

(* A label that the analysis gives is of the analysis that is on, unless   *)
(* the application is being left; it is made from the current text, and no *)
(* label of a person is replaced.                                          *)
THEOREM LabelsTheorem == Spec => LabelsWelcome
<1> DEFINE Welcome ==
  \A s \in Segments :
    label'[s] # label[s] /\ ~label'[s].human =>
      /\ enabled /\ (label'[s].by = generation \/ stopped)
      /\ label'[s].source = Current(s)
      /\ ~label[s].human
<1>1. ASSUME LabelsInv, Next, ~UNCHANGED label
      PROVE  \/ \E s \in Segments : Correct(s)
             \/ Commit
  BY <1>1 DEF Next, Thread, Core, Mishap, Operator, Start, Leave, Look, Read, EndOfPage, Admit,
     Submit, Answered, Begin, ReadFails, RunFails, Yield, Uncontained, TimedOut, Capture, Final,
     Ask, Enable, Disable, Shutdown, ledgerVars
<1>2. ASSUME LabelsInv, NEW t \in Segments, Correct(t) PROVE Welcome
  <2>1. PICK c : c.human /\ Assign(c)
    BY <1>2 DEF Correct
  <2> QED
    BY <1>2, <2>1, LabelAssigned DEF LabelsInv
<1>3. ASSUME LabelsInv, Commit PROVE Welcome
  <2>1. PICK c : c = Head(commits)
    OBVIOUS
  <2>2. commits # <<>> /\ enabled /\ (c.by = generation \/ stopped)
    BY <1>3, <2>1 DEF Commit, LabelsInv, HolderOK
  <2>3. ~c.human
    BY <1>3, <2>1, <2>2, CommitTaken DEF LabelsInv
  <2>4. CASE UNCHANGED label
    BY <2>4
  <2>5. CASE Assign(c) /\ ~Conflicts(c)
    <3>1. Current(c.segment) = c.source /\ ~label[c.segment].human
      BY <2>3, <2>5 DEF Conflicts
    <3> QED
      BY <1>3, <2>2, <2>5, <3>1, LabelAssigned DEF LabelsInv
  <2> QED
    BY <1>3, <2>1, <2>4, <2>5 DEF Commit
<1>4. LabelsInv /\ [Next]_vars => [Welcome]_vars
  <2> SUFFICES ASSUME LabelsInv, Next PROVE Welcome
    OBVIOUS
  <2>1. CASE UNCHANGED label
    BY <2>1
  <2> QED
    BY <1>1, <1>2, <1>3, <2>1
<1> HIDE DEF Welcome
<1>5. Spec => [][Welcome]_vars
  BY <1>4, LabelsInvariant, PTL DEF Spec
<1> QED
  BY <1>5 DEF LabelsWelcome, Welcome

(* When the end of the analysis is reported, the core has no commit of it  *)
(* left: the safety half of ShutdownReleases.                              *)
THEOREM NothingLeftToCommit == Spec => [](ShutdownComplete => commits = <<>>)
<1>1. LabelsInv => (ShutdownComplete => commits = <<>>)
  <2> SUFFICES ASSUME LabelsInv, ShutdownComplete PROVE commits = <<>>
    OBVIOUS
  <2>1. PICK R : commits \in Seq(R)
    BY DEF LabelsInv, CommitsOK
  <2>2. Len(commits) = 0
    BY DEF LabelsInv, ShutdownComplete
  <2> QED
    BY <2>1, <2>2
<1> QED
  BY <1>1, LabelsInvariant, PTL

----------------------------------------------------------------------------
(* The installer of the models.                                            *)

Providers == {"modelscope", "huggingface"}
Ats == {"open", "write", "inspect", "remove", "probe", "ensure", "fetch", "body", "return", "over"}
Part == [whole : BOOLEAN, from : SUBSET Providers]
Directory == [file : [1 .. Files -> Part], marker : BOOLEAN]
Process == [at : Ats, round : {0, 1}, order : Seq(Providers), ready : SUBSET (1 .. Models),
            model : Nat, provider : Nat, file : Nat, attempt : Nat]

(* A process that downloads is at a file of a model, with a provider.      *)
Bounded(s) ==
  /\ s.at \in {"ensure", "fetch", "body"} => s.model \in 1 .. Models /\ Len(s.order) >= 1
  /\ s.at \in {"fetch", "body"} =>
       s.provider \in 1 .. Len(s.order) /\ s.file \in 1 .. Files + 1 /\ s.attempt >= 1
  /\ s.at = "body" => s.file <= Files

(* A directory is filled by one provider, one file after another; it is    *)
(* marked when something is in every file.                                 *)
Sound(d) ==
  /\ \E v \in Providers : \A f \in 1 .. Files : d.file[f].from \in {{}, {v}}
  /\ \A f, g \in 1 .. Files : f < g /\ d.file[g].from # {} => d.file[f].whole
  /\ d.marker => \A f \in 1 .. Files : d.file[f].from # {}

(* How far a download is: the files before are whole and of this provider, *)
(* those after are not there.                                              *)
Filled(s, d, v) ==
  /\ ~d.marker
  /\ \A f \in 1 .. Files :
       /\ f < s.file => d.file[f].whole /\ d.file[f].from = {v}
       /\ f > s.file => d.file[f].from = {}
       /\ f = s.file => /\ d.file[f].from \in {{}, {v}}
                        /\ s.at = "body" => d.file[f].from = {v}
                        /\ s.at = "fetch" /\ s.attempt = 1 => d.file[f].from = {}

(* What an installer that works alone knows of the directories.            *)
Progress(s, ds) ==
  /\ s.at = "ensure" => \A n \in 1 .. Models : n < s.model /\ n \notin s.ready => ds[n] = NoDir
  /\ s.at \in {"fetch", "body"} =>
       /\ Filled(s, ds[s.model], s.order[s.provider])
       /\ \A n \in 1 .. Models : n > s.model /\ n \notin s.ready => ds[n] = NoDir

Alone ==
  /\ \A p, q \in Working : p = q
  /\ \A m \in 1 .. Models : Sound(dir[m])
  /\ \A p \in Processes : Progress(proc[p], dir)

InstallInv ==
  /\ dir \in [1 .. Models -> Directory]
  /\ lock \in [by : Processes \cup {Nobody}, written : BOOLEAN]
  /\ proc \in [Processes -> Process]
  /\ child \in Processes \cup {Nobody}
  /\ \A p \in Processes : Bounded(proc[p])
  /\ ~overlapped => Alone

(* A step of an installer: what it becomes, and what it knows if alone.    *)
Advances(p, s) ==
  /\ Go(p, s)
  /\ s \in Process /\ Bounded(s)
  /\ dir' \in [1 .. Models -> Directory]
  /\ lock' \in [by : Processes \cup {Nobody}, written : BOOLEAN]
  /\ child' \in Processes \cup {Nobody}
  /\ dir' = dir \/ p \in Working
  /\ ~overlapped => /\ \A m \in 1 .. Models : Sound(dir'[m])
                    /\ Progress(s, dir')

----------------------------------------------------------------------------
(* A finite set of at most one element.                                    *)
LEMMA Single ==
  ASSUME NEW S, IsFiniteSet(S), ~(Cardinality(S) > 1)
  PROVE  \A p, q \in S : p = q
<1>1. SUFFICES ASSUME NEW p \in S, NEW q \in S, p # q
               PROVE  FALSE
  OBVIOUS
<1>2. IsFiniteSet({p}) /\ Cardinality({p}) = 1
  BY FS_Singleton
<1>3. Cardinality({p} \cup {q}) = 2
  BY <1>1, <1>2, FS_AddElement
<1>4. {p} \cup {q} \subseteq S
  OBVIOUS
<1>5. Cardinality({p} \cup {q}) <= Cardinality(S) /\ Cardinality(S) \in Nat
  BY <1>4, FS_Subset, FS_CardinalityType
<1>6. QED
  BY <1>3, <1>5

(* Nobody else works while one works alone: a step keeps the invariant.    *)
LEMMA AdvanceStep ==
  ASSUME InstallInv, NEW p \in Processes, NEW s, Advances(p, s),
         overlapped' = (overlapped \/ Cardinality(Working') > 1)
  PROVE  InstallInv'
<1>1. /\ s \in Process /\ Bounded(s)
      /\ proc' = [proc EXCEPT ![p] = s]
      /\ proc \in [Processes -> Process]
  BY DEF Advances, Go, InstallInv
<1>2. /\ proc' \in [Processes -> Process] /\ proc'[p] = s
      /\ \A q \in Processes \ {p} : proc'[q] = proc[q]
  BY <1>1
<1>3. \A q \in Processes : Bounded(proc[q])'
  <2>1. \A q \in Processes : Bounded(proc'[q])
    BY <1>1, <1>2 DEF InstallInv
  <2>2. QED
    BY <2>1 DEF Bounded
<1>4. ASSUME ~overlapped' PROVE Alone'
  <2>1. ~overlapped /\ ~(Cardinality(Working') > 1)
    BY <1>4
  <2>2. Alone
    BY <2>1 DEF InstallInv
  <2>3. IsFiniteSet(Working')
    <3>1. Working' \subseteq Processes
      BY DEF Working
    <3>2. QED
      BY <3>1, InstallAssumption, FS_Subset
  <2>4. \A a, b \in Working' : a = b
    BY <2>1, <2>3, Single
  <2>5. \A m \in 1 .. Models : Sound(dir'[m])
    BY <2>1 DEF Advances
  <2>6. ASSUME NEW q \in Processes PROVE Progress(proc'[q], dir')
    <3>1. CASE q = p
      BY <1>2, <2>1, <3>1 DEF Advances
    <3>2. CASE q # p /\ dir' = dir
      BY <1>2, <2>2, <3>2 DEF Alone
    <3>3. CASE q # p /\ p \in Working
      <4>1. q \notin Working
        BY <2>2, <3>3 DEF Alone
      <4>2. proc'[q] = proc[q] /\ proc[q].at \notin {"ensure", "fetch", "body"}
        BY <1>2, <3>3, <4>1 DEF Working
      <4>3. QED
        BY <4>2 DEF Progress
    <3>4. QED
      BY <3>1, <3>2, <3>3 DEF Advances
  <2>7. QED
    BY <2>4, <2>5, <2>6 DEF Alone, Sound, Progress, Filled, NoDir, NoFile
<1>5. QED
  BY <1>2, <1>3, <1>4 DEF InstallInv, Advances

----------------------------------------------------------------------------
(* The records of the installers.                                          *)
LEMMA Relabelled ==
  ASSUME NEW x \in Process, NEW at \in Ats
  PROVE  /\ [x EXCEPT !.at = at] \in Process /\ [x EXCEPT !.at = at].at = at
         /\ [x EXCEPT !.at = at].order = x.order /\ [x EXCEPT !.at = at].ready = x.ready
         /\ [x EXCEPT !.at = at].model = x.model /\ [x EXCEPT !.at = at].provider = x.provider
         /\ [x EXCEPT !.at = at].file = x.file /\ [x EXCEPT !.at = at].attempt = x.attempt
  BY DEF Process

(* An installer that is over, or only opens the lock, is a process.        *)
LEMMA OverRecord ==
  /\ Over \in Process /\ Over.at = "over"
  /\ [Over EXCEPT !.at = "open"] \in Process /\ [Over EXCEPT !.at = "open"].at = "open"
<1>1. <<>> \in Seq(Providers)
  OBVIOUS
<1>2. Over \in Process /\ Over.at = "over"
  BY <1>1 DEF Over, Process, Ats
<1>3. QED
  BY <1>2, Relabelled DEF Ats

(* A process that does not download needs to know nothing.                 *)
LEMMA Aside ==
  ASSUME InstallInv, NEW p \in Processes, NEW s \in Process, Go(p, s),
         s.at \notin {"ensure", "fetch", "body"}, dir' = dir,
         lock' \in [by : Processes \cup {Nobody}, written : BOOLEAN],
         child' \in Processes \cup {Nobody}
  PROVE  Advances(p, s)
  BY DEF Bounded, Progress, Advances, InstallInv, Alone

(* The application starts an installer.                                    *)
LEMMA StartDownloadStep ==
  ASSUME InstallInv, NEW p \in Processes, StartDownload(p)
  PROVE  \E s : Advances(p, s)
<1> DEFINE s == [Over EXCEPT !.at = "open"]
<1>1. Go(p, s) /\ dir' = dir /\ lock' = lock /\ child' = p
  BY DEF StartDownload
<1>2. Advances(p, s)
  BY <1>1, OverRecord, Aside DEF InstallInv
<1>3. QED
  BY <1>2

(* An installer dies.                                                      *)
LEMMA DiesStep ==
  ASSUME InstallInv, NEW p \in Processes, Dies(p)
  PROVE  \E s : Advances(p, s)
<1>1. Go(p, Over) /\ dir' = dir /\ lock' = lock /\ child' = child
  BY DEF Dies
<1>2. Advances(p, Over)
  BY <1>1, OverRecord, Aside DEF InstallInv
<1>3. QED
  BY <1>2

(* The steps at the lock touch no directory.                               *)
LEMMA LockSteps ==
  ASSUME InstallInv, NEW p \in Processes,
         OpenLock(p) \/ WritePid(p) \/ InspectLock(p) \/ RemoveLock(p) \/ Return(p)
  PROVE  \E s : Advances(p, s)
<1> DEFINE Lock == [by : Processes \cup {Nobody}, written : BOOLEAN]
<1>1. PICK x \in Process : x = proc[p]
  BY DEF InstallInv
<1>2. lock \in Lock /\ child \in Processes \cup {Nobody}
  BY DEF InstallInv
<1>3. NoLock \in Lock /\ [by |-> p, written |-> FALSE] \in Lock
  BY DEF NoLock, Nobody
<1>4. ASSUME NEW at \in Ats \ {"ensure", "fetch", "body"}, Go(p, [x EXCEPT !.at = at]),
             dir' = dir, lock' \in Lock, child' = child
      PROVE  \E s : Advances(p, s)
  <2>1. Advances(p, [x EXCEPT !.at = at])
    BY <1>1, <1>2, <1>4, Relabelled, Aside
  <2>2. QED
    BY <2>1
<1>5. ASSUME Go(p, Over), dir' = dir, lock' \in Lock, child' = child
      PROVE  \E s : Advances(p, s)
  <2>1. Advances(p, Over)
    BY <1>2, <1>5, OverRecord, Aside
  <2>2. QED
    BY <2>1
<1>6. CASE OpenLock(p)
  <2>1. CASE lock' = [by |-> p, written |-> FALSE] /\ Go(p, [proc[p] EXCEPT !.at = "write"])
    BY <1>1, <1>3, <1>4, <1>6, <2>1 DEF OpenLock, Ats
  <2>2. CASE UNCHANGED lock /\ Go(p, [proc[p] EXCEPT !.at = "inspect"])
    BY <1>1, <1>2, <1>4, <1>6, <2>2 DEF OpenLock, Ats
  <2>3. QED
    BY <1>6, <2>1, <2>2 DEF OpenLock
<1>7. CASE WritePid(p)
  <2>1. [lock EXCEPT !.written = TRUE] \in Lock
    BY <1>2
  <2>2. lock' \in Lock
    BY <1>2, <1>7, <2>1 DEF WritePid
  <2>3. QED
    BY <1>1, <1>4, <1>7, <2>2 DEF WritePid, Ats
<1>8. CASE InspectLock(p)
  <2>1. Go(p, Over) \/ Go(p, [x EXCEPT !.at = "remove"])
    BY <1>1, <1>8 DEF InspectLock
  <2>2. QED
    BY <1>2, <1>4, <1>5, <1>8, <2>1 DEF InspectLock, Ats
<1>9. CASE RemoveLock(p)
  <2> DEFINE s == [x EXCEPT !.at = "open", !.round = 1]
  <2>1. s \in Process /\ s.at = "open"
    BY DEF Process, Ats
  <2>2. dir' = dir /\ lock' = NoLock /\ child' = child /\ (Go(p, Over) \/ Go(p, s))
    BY <1>1, <1>9 DEF RemoveLock
  <2> HIDE DEF s
  <2>3. CASE Go(p, s)
    <3>1. Advances(p, s)
      BY <1>2, <1>3, <2>1, <2>2, <2>3, Aside
    <3>2. QED
      BY <3>1
  <2>4. QED
    BY <1>3, <1>5, <2>2, <2>3
<1>10. CASE Return(p)
  BY <1>3, <1>5, <1>10 DEF Return
<1>11. QED
  BY <1>6, <1>7, <1>8, <1>9, <1>10

(* The providers are asked: the first model is looked at next.             *)
LEMMA ProbeStep ==
  ASSUME InstallInv, NEW p \in Processes, Probe(p)
  PROVE  \E s : Advances(p, s)
<1>1. PICK x \in Process : x = proc[p]
  BY DEF InstallInv
<1>2. dir' = dir /\ lock' = lock /\ child' = child
  BY DEF Probe
<1>3. ASSUME NEW o \in Seq(Providers), Len(o) >= 1,
             Go(p, [x EXCEPT !.at = "ensure", !.model = 1, !.order = o])
      PROVE  \E s : Advances(p, s)
  <2>1. PICK s : s = [x EXCEPT !.at = "ensure", !.model = 1, !.order = o]
    OBVIOUS
  <2>2. s \in Process /\ s.at = "ensure" /\ s.model = 1 /\ s.order = o
    BY <2>1 DEF Process, Ats
  <2>3. 1 \in 1 .. Models
    BY InstallAssumption
  <2>4. Bounded(s) /\ Progress(s, dir')
    BY <1>3, <2>2, <2>3 DEF Bounded, Progress
  <2>5. Advances(p, s)
    BY <1>2, <1>3, <2>1, <2>2, <2>4 DEF Advances, InstallInv, Alone
  <2>6. QED
    BY <2>5
<1>4. ASSUME NEW o \in Orders PROVE o \in Seq(Providers) /\ Len(o) >= 1
  <2>1. /\ <<"modelscope", "huggingface">> \in Seq(Providers)
        /\ Len(<<"modelscope", "huggingface">>) = 2
    BY DEF Providers
  <2>2. <<"modelscope">> \in Seq(Providers) /\ Len(<<"modelscope">>) = 1
    BY DEF Providers
  <2>3. <<"huggingface">> \in Seq(Providers) /\ Len(<<"huggingface">>) = 1
    BY DEF Providers
  <2>4. CASE o = <<"modelscope", "huggingface">>
    BY <2>1, <2>4
  <2>5. CASE o = <<"modelscope">>
    BY <2>2, <2>5
  <2>6. CASE o = <<"huggingface">>
    BY <2>3, <2>6
  <2>7. QED
    BY <2>4, <2>5, <2>6 DEF Orders
<1>5. CASE Go(p, [proc[p] EXCEPT !.at = "return"])
  <2>1. Advances(p, [x EXCEPT !.at = "return"])
    BY <1>1, <1>2, <1>5, Relabelled, Aside DEF Ats, InstallInv
  <2>2. QED
    BY <2>1
<1>6. CASE \E o \in Orders : Go(p, [proc[p] EXCEPT !.at = "ensure", !.model = 1, !.order = o])
  BY <1>1, <1>3, <1>4, <1>6
<1>7. QED
  <2>1. <<"modelscope", "huggingface">> \in Orders
    BY DEF Orders
  <2>2. QED
    BY <1>5, <1>6, <2>1 DEF Probe

----------------------------------------------------------------------------
(* A directory that was removed is sound, and ready to be filled.          *)
LEMMA Removed == NoDir \in Directory /\ Sound(NoDir)
<1>1. NoDir \in Directory /\ NoDir.marker = FALSE
  BY DEF NoDir, NoFile, Directory, Part
<1>2. \A f \in 1 .. Files : NoDir.file[f].from = {}
  BY DEF NoDir, NoFile
<1>3. QED
  BY <1>1, <1>2 DEF Sound, Providers

(* It is what a download begins with.                                      *)
LEMMA ReadyToFill ==
  ASSUME NEW s, NEW v, s.at = "fetch", s.file = 1
  PROVE  Filled(s, NoDir, v)
<1>1. NoDir.marker = FALSE /\ \A f \in 1 .. Files : NoDir.file[f].from = {}
  BY DEF NoDir, NoFile
<1>2. \A f \in 1 .. Files : ~(f < 1)
  OBVIOUS
<1>3. QED
  BY <1>1, <1>2 DEF Filled

(* What one provider fills is sound.                                       *)
LEMMA FilledSound ==
  ASSUME NEW s, s.file \in Nat, NEW d \in Directory, NEW v \in Providers, Filled(s, d, v)
  PROVE  Sound(d)
<1>1. ~d.marker
  BY DEF Filled
<1>2. ASSUME NEW f \in 1 .. Files PROVE d.file[f].from \in {{}, {v}}
  <2>1. f < s.file \/ f > s.file \/ f = s.file
    OBVIOUS
  <2>2. QED
    BY <2>1 DEF Filled
<1>3. ASSUME NEW f \in 1 .. Files, NEW g \in 1 .. Files, f < g, d.file[g].from # {}
      PROVE  d.file[f].whole
  <2>1. ~(g > s.file)
    BY <1>3 DEF Filled
  <2>2. f < s.file
    BY <1>3, <2>1
  <2>3. QED
    BY <2>2 DEF Filled
<1>4. QED
  BY <1>1, <1>2, <1>3 DEF Sound

(* What is known of an installer that downloads.                           *)
LEMMA AtWork ==
  ASSUME InstallInv, NEW p \in Processes, proc[p].at \in {"fetch", "body"}
  PROVE  /\ p \in Working /\ proc[p] \in Process
         /\ proc[p].model \in 1 .. Models /\ dir[proc[p].model] \in Directory
         /\ proc[p].provider \in 1 .. Len(proc[p].order)
         /\ proc[p].order[proc[p].provider] \in Providers
         /\ proc[p].file \in 1 .. Files + 1 /\ proc[p].attempt >= 1
         /\ proc[p].at = "body" => proc[p].file <= Files
         /\ ~overlapped =>
              /\ Filled(proc[p], dir[proc[p].model], proc[p].order[proc[p].provider])
              /\ \A n \in 1 .. Models : n > proc[p].model /\ n \notin proc[p].ready => dir[n] = NoDir
              /\ \A n \in 1 .. Models : Sound(dir[n])
<1>1. p \in Working /\ proc[p] \in Process /\ Bounded(proc[p])
  BY DEF Working, InstallInv
<1>2. /\ proc[p].model \in 1 .. Models /\ proc[p].provider \in 1 .. Len(proc[p].order)
      /\ proc[p].file \in 1 .. Files + 1 /\ proc[p].attempt >= 1
      /\ proc[p].at = "body" => proc[p].file <= Files
  BY <1>1 DEF Bounded
<1>3. proc[p].order \in Seq(Providers)
  BY <1>1 DEF Process
<1>4. proc[p].order[proc[p].provider] \in Providers
  BY <1>2, <1>3
<1>5. dir[proc[p].model] \in Directory
  BY <1>2 DEF InstallInv
<1>6. ASSUME ~overlapped
      PROVE  Progress(proc[p], dir) /\ \A n \in 1 .. Models : Sound(dir[n])
  BY <1>6 DEF InstallInv, Alone
<1>7. QED
  BY <1>1, <1>2, <1>4, <1>5, <1>6 DEF Progress

(* A step of a download: the directory is filled further.                  *)
LEMMA Fills ==
  ASSUME InstallInv, NEW p \in Processes, proc[p].at \in {"fetch", "body"},
         NEW s \in Process, Go(p, s), s.at \in {"fetch", "body"},
         s.model = proc[p].model, s.ready = proc[p].ready,
         s.provider \in 1 .. Len(s.order), s.file \in 1 .. Files + 1, s.attempt >= 1,
         s.at = "body" => s.file <= Files,
         NEW d \in Directory, dir' = [dir EXCEPT ![s.model] = d],
         ~overlapped => Filled(s, d, s.order[s.provider]),
         lock' = lock, child' = child
  PROVE  Advances(p, s)
<1>1. s.model \in 1 .. Models /\ p \in Working
  BY AtWork
<1>2. s.order \in Seq(Providers)
  BY DEF Process
<1>3. s.order[s.provider] \in Providers
  BY <1>2
<1>4. /\ dir' \in [1 .. Models -> Directory] /\ dir'[s.model] = d
      /\ \A n \in 1 .. Models : n # s.model => dir'[n] = dir[n]
  BY <1>1 DEF InstallInv
<1>5. Bounded(s)
  <2>1. Len(s.order) \in Nat
    BY <1>2
  <2>2. Len(s.order) >= 1
    BY <2>1
  <2>3. QED
    BY <1>1, <2>2 DEF Bounded
<1>6. ASSUME ~overlapped
      PROVE  (\A n \in 1 .. Models : Sound(dir'[n])) /\ Progress(s, dir')
  <2>1. Sound(d)
    BY <1>3, <1>6, FilledSound
  <2>2. /\ \A n \in 1 .. Models : Sound(dir[n])
        /\ \A n \in 1 .. Models : n > s.model /\ n \notin s.ready => dir[n] = NoDir
    BY <1>6, AtWork
  <2>3. \A n \in 1 .. Models : Sound(dir'[n])
    BY <1>4, <2>1, <2>2
  <2>4. \A n \in 1 .. Models : n > s.model /\ n \notin s.ready => dir'[n] = NoDir
    BY <1>1, <1>4, <2>2
  <2>5. Filled(s, dir'[s.model], s.order[s.provider])
    BY <1>4, <1>6
  <2>6. QED
    BY <2>3, <2>4, <2>5 DEF Progress
<1>7. QED
  BY <1>1, <1>4, <1>5, <1>6 DEF Advances, InstallInv

(* The first model that is missing is downloaded next, into nothing.       *)
LEMMA DownloadNext ==
  ASSUME NEW x \in Process, Len(x.order) >= 1, NEW m \in Nat \ {0}, NEW ds
  PROVE  /\ Download(x, m) \in Process /\ Bounded(Download(x, m))
         /\ (\A n \in 1 .. Models : n >= m /\ n \notin x.ready => ds[n] = NoDir)
              => Progress(Download(x, m), ds)
<1> DEFINE missing == {n \in m .. Models : n \notin x.ready}
<1>1. CASE missing = {}
  <2>1. PICK s : s = [x EXCEPT !.at = "return"]
    OBVIOUS
  <2>2. Download(x, m) = s
    BY <1>1, <2>1 DEF Download
  <2>3. s \in Process /\ s.at = "return"
    BY <2>1, Relabelled DEF Ats
  <2>4. QED
    BY <2>2, <2>3 DEF Bounded, Progress
<1>2. CASE missing # {}
  <2>1. missing \subseteq Nat
    OBVIOUS
  <2>2. \E n \in missing : \A o \in missing : n <= o
    BY <1>2, <2>1, LeastNatural
  <2>3. PICK k : k = CHOOSE n \in missing : \A o \in missing : n <= o
    OBVIOUS
  <2>4. k \in missing /\ \A o \in missing : k <= o
    BY <2>2, <2>3
  <2>5. PICK s : s = [x EXCEPT !.at = "fetch", !.provider = 1, !.file = 1, !.attempt = 1,
                         !.model = k]
    OBVIOUS
  <2>6. Download(x, m) = s
    BY <1>2, <2>3, <2>5 DEF Download
  <2>7. k \in Nat /\ k \in 1 .. Models /\ k >= m /\ k \notin x.ready
    BY <2>4, InstallAssumption
  <2>8. /\ s \in Process /\ s.at = "fetch" /\ s.provider = 1 /\ s.file = 1 /\ s.attempt = 1
        /\ s.model = k /\ s.order = x.order /\ s.ready = x.ready
    BY <2>5, <2>7 DEF Process, Ats
  <2>9. Len(x.order) \in Nat
    BY DEF Process
  <2>10. Bounded(s)
    BY <2>7, <2>8, <2>9, InstallAssumption DEF Bounded
  <2>11. ASSUME \A n \in 1 .. Models : n >= m /\ n \notin x.ready => ds[n] = NoDir
         PROVE  Progress(s, ds)
    <3>1. ds[k] = NoDir
      BY <2>7, <2>11
    <3>2. Filled(s, ds[s.model], s.order[s.provider])
      BY <2>8, <3>1, ReadyToFill
    <3>3. \A n \in 1 .. Models : n > s.model /\ n \notin s.ready => ds[n] = NoDir
      BY <2>7, <2>8, <2>11
    <3>4. QED
      BY <2>8, <3>2, <3>3 DEF Progress
  <2>12. QED
    BY <2>6, <2>8, <2>10, <2>11
<1>3. QED
  BY <1>1, <1>2

----------------------------------------------------------------------------
(* A model is looked at: it is complete and marked, or it is removed.      *)
LEMMA EnsureStep ==
  ASSUME InstallInv, NEW p \in Processes, Ensure(p)
  PROVE  \E s : Advances(p, s)
<1>1. PICK x \in Process : x = proc[p]
  BY DEF InstallInv
<1>2. /\ x.at = "ensure" /\ p \in Working /\ x.model \in 1 .. Models /\ Len(x.order) >= 1
      /\ lock' = lock /\ child' = child
  BY <1>1 DEF Ensure, Working, InstallInv, Bounded
<1>3. PICK m \in 1 .. Models : m = x.model
  BY <1>2
<1>4. PICK c : c = IF Ready(m) THEN [x EXCEPT !.ready = @ \cup {m}] ELSE x
  OBVIOUS
<1>5. /\ c \in Process /\ c.at = x.at /\ c.model = m /\ c.order = x.order
      /\ c.ready = IF Ready(m) THEN x.ready \cup {m} ELSE x.ready
  BY <1>3, <1>4 DEF Process
<1>6. PICK e : e = IF Ready(m) THEN [dir[m] EXCEPT !.marker = TRUE] ELSE NoDir
  OBVIOUS
<1>7. /\ e \in Directory
      /\ Ready(m) => e.file = dir[m].file
      /\ ~Ready(m) => e = NoDir
  BY <1>6, Removed DEF InstallInv, Directory
<1>8. /\ dir' = [dir EXCEPT ![m] = e]
      /\ Go(p, IF m < Models THEN [c EXCEPT !.model = @ + 1] ELSE Download(c, 1))
  BY <1>1, <1>3, <1>4, <1>6 DEF Ensure
<1>9. /\ dir' \in [1 .. Models -> Directory] /\ dir'[m] = e
      /\ \A n \in 1 .. Models : n # m => dir'[n] = dir[n]
  BY <1>8, <1>7 DEF InstallInv
<1>10. ASSUME ~overlapped
       PROVE  /\ \A n \in 1 .. Models : Sound(dir'[n])
              /\ \A n \in 1 .. Models : n <= m /\ n \notin c.ready => dir'[n] = NoDir
  <2>1. Progress(x, dir) /\ \A n \in 1 .. Models : Sound(dir[n])
    BY <1>1, <1>10 DEF InstallInv, Alone
  <2>2. Sound(e)
    <3>1. CASE Ready(m)
      <4>1. \A f \in 1 .. Files : dir[m].file[f].from # {}
        BY <3>1 DEF Ready, Present
      <4>2. Sound(dir[m]) /\ e.file = dir[m].file
        BY <1>7, <2>1, <3>1
      <4>3. QED
        BY <4>1, <4>2 DEF Sound
    <3>2. QED
      BY <1>7, <3>1, Removed
  <2>3. ASSUME NEW n \in 1 .. Models, n <= m, n \notin c.ready PROVE dir'[n] = NoDir
    <3>1. CASE n = m
      BY <1>5, <1>7, <1>9, <2>3, <3>1
    <3>2. CASE n # m
      <4>1. n < m /\ n \notin x.ready
        BY <1>5, <2>3, <3>2
      <4>2. QED
        BY <1>2, <1>3, <1>9, <2>1, <3>2, <4>1 DEF Progress
    <3>3. QED
      BY <3>1, <3>2
  <2>4. QED
    BY <1>9, <2>1, <2>2, <2>3
<1>11. CASE m < Models
  <2>0. m + 1 \in Nat
    OBVIOUS
  <2>1. PICK s : s = [c EXCEPT !.model = @ + 1]
    OBVIOUS
  <2>s. s = [c EXCEPT !.model = m + 1]
    BY <1>5, <2>1
  <2>2. /\ s \in Process /\ s.at = "ensure" /\ s.model = m + 1 /\ s.order = x.order
        /\ s.ready = c.ready
    BY <1>2, <1>5, <2>0, <2>s DEF Process
  <2>3. m + 1 \in 1 .. Models /\ \A n \in 1 .. Models : n < m + 1 <=> n <= m
    BY <1>11, InstallAssumption
  <2>4. Bounded(s)
    BY <1>2, <2>2, <2>3 DEF Bounded
  <2>5. ASSUME ~overlapped PROVE Progress(s, dir')
    BY <1>10, <2>2, <2>3, <2>5 DEF Progress
  <2>6. Advances(p, s)
    BY <1>2, <1>8, <1>9, <1>10, <1>11, <2>1, <2>2, <2>4, <2>5 DEF Advances, InstallInv
  <2>7. QED
    BY <2>6
<1>12. CASE ~(m < Models)
  <2>1. Go(p, Download(c, 1)) /\ m = Models
    BY <1>8, <1>12, InstallAssumption
  <2>2. Len(c.order) >= 1
    BY <1>2, <1>5
  <2>3. PICK s : s = Download(c, 1)
    OBVIOUS
  <2>4. /\ s \in Process /\ Bounded(s)
        /\ (\A n \in 1 .. Models : n >= 1 /\ n \notin c.ready => dir'[n] = NoDir)
             => Progress(s, dir')
    BY <1>5, <2>2, <2>3, DownloadNext
  <2>5. ASSUME ~overlapped PROVE Progress(s, dir')
    BY <1>10, <2>1, <2>4, <2>5
  <2>6. Advances(p, s)
    BY <1>2, <1>9, <1>10, <2>1, <2>3, <2>4, <2>5 DEF Advances, InstallInv
  <2>7. QED
    BY <2>6
<1>13. QED
  BY <1>11, <1>12

(* A provider is given up: the next one begins anew, or all is over.       *)
LEMMA GiveUpStep ==
  ASSUME InstallInv, NEW p \in Processes, proc[p].at \in {"fetch", "body"}, GiveUp(p),
         lock' = lock, child' = child
  PROVE  \E s : Advances(p, s)
<1>1. PICK x \in Process : x = proc[p]
  BY DEF InstallInv
<1>2. PICK q : q = [x EXCEPT !.at = "fetch"]
  OBVIOUS
<1>3. /\ q \in Process /\ q.at = "fetch" /\ q.model = x.model /\ q.order = x.order
      /\ q.provider = x.provider /\ q.ready = x.ready
  BY <1>2, Relabelled DEF Ats
<1>4. CASE q.provider < Len(q.order)
  <2>0. x.provider + 1 \in Nat
    BY DEF Process
  <2>1. PICK s : s = [q EXCEPT !.provider = @ + 1, !.file = 1, !.attempt = 1]
    OBVIOUS
  <2>s. s = [q EXCEPT !.provider = x.provider + 1, !.file = 1, !.attempt = 1]
    BY <1>3, <2>1
  <2>2. /\ s \in Process /\ s.at = "fetch" /\ s.model = x.model /\ s.order = x.order
        /\ s.ready = x.ready /\ s.provider = x.provider + 1 /\ s.file = 1 /\ s.attempt = 1
    BY <1>3, <2>0, <2>s DEF Process
  <2>3. Go(p, s) /\ dir' = [dir EXCEPT ![s.model] = NoDir]
    BY <1>1, <1>2, <1>3, <1>4, <2>1, <2>2 DEF GiveUp, LeftForNext
  <2>4. x.provider \in 1 .. Len(x.order) /\ Len(x.order) \in Nat
    BY <1>1, AtWork DEF Process
  <2>5. s.provider \in 1 .. Len(s.order) /\ s.file \in 1 .. Files + 1 /\ s.attempt >= 1
    BY <1>3, <1>4, <2>2, <2>4, InstallAssumption
  <2>6. Filled(s, NoDir, s.order[s.provider])
    BY <2>2, ReadyToFill
  <2>7. Advances(p, s)
    BY <1>1, <2>2, <2>3, <2>5, <2>6, Removed, Fills
  <2>8. QED
    BY <2>7
<1>5. CASE ~(q.provider < Len(q.order))
  <2>1. PICK s : s = [q EXCEPT !.at = "return"]
    OBVIOUS
  <2>2. s \in Process /\ s.at = "return"
    BY <1>3, <2>1, Relabelled DEF Ats
  <2>3. Go(p, s) /\ dir' = dir
    BY <1>1, <1>2, <1>5, <2>1 DEF GiveUp
  <2>4. Advances(p, s)
    BY <2>2, <2>3, Aside DEF InstallInv
  <2>5. QED
    BY <2>4
<1>6. QED
  BY <1>4, <1>5

----------------------------------------------------------------------------
(* A file of a directory is written.                                       *)
LEMMA WrittenFile ==
  ASSUME InstallInv, NEW p \in Processes, proc[p].at \in {"fetch", "body"},
         proc[p].file <= Files, NEW whole \in BOOLEAN
  PROVE  \E d \in Directory :
           /\ Written(p, whole) = [dir EXCEPT ![proc[p].model] = d]
           /\ d.marker = dir[proc[p].model].marker
           /\ d.file[proc[p].file].whole = whole
           /\ d.file[proc[p].file].from =
                dir[proc[p].model].file[proc[p].file].from \cup {proc[p].order[proc[p].provider]}
           /\ \A f \in 1 .. Files : f # proc[p].file => d.file[f] = dir[proc[p].model].file[f]
<1>1. PICK m \in 1 .. Models : m = proc[p].model
  BY AtWork
<1>2. PICK v \in Providers : v = proc[p].order[proc[p].provider]
  BY AtWork
<1>3. PICK f \in 1 .. Files : f = proc[p].file
  <2>1. proc[p].file \in 1 .. Files + 1
    BY AtWork
  <2>2. proc[p].file \in 1 .. Files
    BY <2>1, InstallAssumption
  <2>3. QED
    BY <2>2
<1>4. PICK o \in Directory : o = dir[m]
  BY DEF InstallInv
<1>5. PICK r : r = [whole |-> whole, from |-> o.file[f].from \cup {v}]
  OBVIOUS
<1>6. o.file \in [1 .. Files -> Part] /\ r \in Part
  BY <1>5 DEF Directory, Part
<1>7. PICK d : d = [o EXCEPT !.file = [o.file EXCEPT ![f] = r]]
  OBVIOUS
<1>8. d \in Directory /\ d.marker = o.marker /\ d.file = [o.file EXCEPT ![f] = r]
  BY <1>6, <1>7 DEF Directory
<1>9. Written(p, whole) = [dir EXCEPT ![m] = d]
  <2>1. Written(p, whole) = [dir EXCEPT ![m].file[f] = r]
    BY <1>1, <1>2, <1>3, <1>4, <1>5 DEF Written
  <2>2. d = [dir[m] EXCEPT !.file[f] = r]
    BY <1>4, <1>6, <1>7 DEF Directory
  <2>3. QED
    BY <2>1, <2>2
<1>10. d.file[f] = r /\ \A g \in 1 .. Files : g # f => d.file[g] = o.file[g]
  BY <1>6, <1>8
<1>11. d.file[f].whole = whole /\ d.file[f].from = o.file[f].from \cup {v}
  BY <1>5, <1>10
<1>12. \A g \in 1 .. Files : g # f => d.file[g] = o.file[g]
  BY <1>10
<1>13. QED
  BY <1>1, <1>2, <1>3, <1>4, <1>8, <1>9, <1>11, <1>12

(* A download begins a file, goes on with one, and completes it.           *)
LEMMA FileSteps ==
  ASSUME InstallInv, NEW p \in Processes, Skip(p) \/ FirstBytes(p) \/ Resume(p) \/ LastBytes(p)
  PROVE  \E s : Advances(p, s)
<1>1. proc[p].at \in {"fetch", "body"} /\ proc[p].file <= Files
  BY AtWork DEF Skip, FirstBytes, Resume, LastBytes, AtFile
<1>2. PICK x \in Process : x = proc[p]
  BY DEF InstallInv
<1>3. PICK m \in 1 .. Models : m = x.model
  BY <1>1, <1>2, AtWork
<1>4. PICK o \in Directory : o = dir[m]
  BY DEF InstallInv
<1>5. PICK v \in Providers : v = x.order[x.provider]
  BY <1>1, <1>2, AtWork
<1>6. PICK f \in 1 .. Files : f = x.file
  BY <1>1, <1>2, AtWork, InstallAssumption
<1>7. /\ x.provider \in 1 .. Len(x.order) /\ x.attempt >= 1 /\ x.attempt \in Nat
      /\ ~overlapped => Filled(x, o, v)
  BY <1>1, <1>2, <1>3, <1>4, <1>5, AtWork DEF Process
<1>8. PICK b : b = [x EXCEPT !.at = "body"]
  OBVIOUS
<1>9. /\ b \in Process /\ b.at = "body" /\ b.model = m /\ b.ready = x.ready /\ b.order = x.order
      /\ b.provider = x.provider /\ b.file = f /\ b.attempt = x.attempt
  BY <1>3, <1>6, <1>8, Relabelled DEF Ats
<1>10. PICK n : n = [x EXCEPT !.file = f + 1, !.attempt = 1]
  OBVIOUS
<1>11. /\ n \in Process /\ n.at = x.at /\ n.model = m /\ n.ready = x.ready /\ n.order = x.order
       /\ n.provider = x.provider /\ n.file = f + 1 /\ n.attempt = 1
  <2>1. f + 1 \in Nat
    OBVIOUS
  <2>2. QED
    BY <1>3, <1>10, <2>1 DEF Process
<1>n. n = NextFile(p)
  BY <1>2, <1>6, <1>10 DEF NextFile
<1>12. f + 1 \in 1 .. Files + 1 /\ f \in 1 .. Files + 1 /\ f <= Files
  BY InstallAssumption
<1>13. dir = [dir EXCEPT ![m] = o]
  BY <1>4 DEF InstallInv
<1>14. CASE Skip(p)
  <2>1. Go(p, n) /\ dir' = dir /\ lock' = lock /\ child' = child /\ x.at = "fetch"
        /\ x.attempt = 1 /\ o.file[f].from # {}
    BY <1>2, <1>3, <1>4, <1>6, <1>n, <1>14 DEF Skip, AtFile, Present
  <2>2. overlapped
    BY <1>6, <1>7, <2>1 DEF Filled
  <2>3. Advances(p, n)
    BY <1>1, <1>2, <1>3, <1>7, <1>11, <1>12, <1>13, <2>1, <2>2, Fills
  <2>4. QED
    BY <2>3
<1>15. CASE Resume(p)
  <2>1. /\ Go(p, b) /\ dir' = dir /\ lock' = lock /\ child' = child
        /\ o.file[f].from # {}
    BY <1>2, <1>3, <1>4, <1>6, <1>8, <1>15 DEF Resume, Present
  <2>2. ASSUME ~overlapped PROVE Filled(b, o, v)
    BY <1>6, <1>7, <1>9, <2>1, <2>2 DEF Filled
  <2>3. Advances(p, b)
    BY <1>1, <1>2, <1>3, <1>5, <1>7, <1>9, <1>12, <1>13, <2>1, <2>2, Fills
  <2>4. QED
    BY <2>3
<1>16. CASE FirstBytes(p)
  <2>1. /\ Go(p, b) /\ lock' = lock /\ child' = child /\ dir' = Written(p, FALSE)
        /\ o.file[f].from = {}
    BY <1>2, <1>3, <1>4, <1>6, <1>8, <1>16 DEF FirstBytes, Present
  <2>w. FALSE \in BOOLEAN
    OBVIOUS
  <2>d. PICK d \in Directory :
           /\ Written(p, FALSE) = [dir EXCEPT ![proc[p].model] = d]
           /\ d.marker = dir[proc[p].model].marker
           /\ d.file[proc[p].file].whole = FALSE
           /\ d.file[proc[p].file].from =
                dir[proc[p].model].file[proc[p].file].from \cup {proc[p].order[proc[p].provider]}
           /\ \A g \in 1 .. Files : g # proc[p].file => d.file[g] = dir[proc[p].model].file[g]
    BY <1>1, <2>w, WrittenFile
  <2>2. /\ dir' = [dir EXCEPT ![m] = d]
        /\ d.marker = o.marker
        /\ d.file[f].from = o.file[f].from \cup {v}
        /\ \A g \in 1 .. Files : g # f => d.file[g] = o.file[g]
    BY <1>2, <1>3, <1>4, <1>5, <1>6, <2>1, <2>d
  <2>3. d.file[f].from = {v}
    BY <2>1, <2>2
  <2>4. ASSUME ~overlapped PROVE Filled(b, d, v)
    BY <1>6, <1>7, <1>9, <2>2, <2>3, <2>4 DEF Filled
  <2>e. dir' = [dir EXCEPT ![b.model] = d] /\ b.order[b.provider] = v
    BY <1>5, <1>9, <2>2
  <2>5. Advances(p, b)
    BY <1>1, <1>2, <1>3, <1>7, <1>9, <1>12, <2>1, <2>e, <2>4, Fills
  <2>6. QED
    BY <2>5
<1>17. CASE LastBytes(p)
  <2>1. /\ x.at = "body" /\ lock' = lock /\ child' = child /\ dir' = Written(p, TRUE)
        /\ Go(p, [n EXCEPT !.at = "fetch"])
    BY <1>2, <1>n, <1>17 DEF LastBytes
  <2>w. TRUE \in BOOLEAN
    OBVIOUS
  <2>d. PICK d \in Directory :
           /\ Written(p, TRUE) = [dir EXCEPT ![proc[p].model] = d]
           /\ d.marker = dir[proc[p].model].marker
           /\ d.file[proc[p].file].whole = TRUE
           /\ d.file[proc[p].file].from =
                dir[proc[p].model].file[proc[p].file].from \cup {proc[p].order[proc[p].provider]}
           /\ \A g \in 1 .. Files : g # proc[p].file => d.file[g] = dir[proc[p].model].file[g]
    BY <1>1, <2>w, WrittenFile
  <2>2. /\ dir' = [dir EXCEPT ![m] = d]
        /\ d.marker = o.marker
        /\ d.file[f].whole = TRUE
        /\ d.file[f].from = o.file[f].from \cup {v}
        /\ \A g \in 1 .. Files : g # f => d.file[g] = o.file[g]
    BY <1>2, <1>3, <1>4, <1>5, <1>6, <2>1, <2>d
  <2>3. PICK s : s = [n EXCEPT !.at = "fetch"]
    OBVIOUS
  <2>4. /\ s \in Process /\ s.at = "fetch" /\ s.model = m /\ s.ready = x.ready
        /\ s.order = x.order /\ s.provider = x.provider /\ s.file = f + 1 /\ s.attempt = 1
    BY <1>11, <2>3, Relabelled DEF Ats
  <2>5. ASSUME ~overlapped PROVE Filled(s, d, v)
    <3>1. Filled(x, o, v) /\ x.at = "body" /\ x.file = f
      BY <1>6, <1>7, <2>1, <2>5
    <3>2. ~d.marker /\ d.file[f].from = {v}
      BY <2>2, <3>1 DEF Filled
    <3>3. ASSUME NEW g \in 1 .. Files, g < f + 1
          PROVE  d.file[g].whole /\ d.file[g].from = {v}
      <4>1. CASE g = f
        BY <2>2, <3>2, <4>1
      <4>2. CASE g < f
        BY <2>2, <3>1, <4>2 DEF Filled
      <4>3. QED
        BY <3>3, <4>1, <4>2
    <3>4. ASSUME NEW g \in 1 .. Files, g >= f + 1 PROVE d.file[g].from = {}
      <4>1. g # f /\ g > f
        BY <3>4
      <4>2. QED
        BY <2>2, <3>1, <4>1 DEF Filled
    <3>5. QED
      BY <2>4, <3>2, <3>3, <3>4 DEF Filled
  <2>e. dir' = [dir EXCEPT ![s.model] = d] /\ s.order[s.provider] = v /\ s.attempt >= 1
    BY <1>5, <2>2, <2>4
  <2>6. Advances(p, s)
    BY <1>1, <1>2, <1>3, <1>7, <1>12, <2>1, <2>e, <2>3, <2>4, <2>5, Fills
  <2>7. QED
    BY <2>6
<1>18. QED
  BY <1>14, <1>15, <1>16, <1>17

(* A request fails: once more, or the provider is given up.                *)
LEMMA RequestFailsStep ==
  ASSUME InstallInv, NEW p \in Processes, RequestFails(p)
  PROVE  \E s : Advances(p, s)
<1>1. proc[p].at \in {"fetch", "body"} /\ lock' = lock /\ child' = child
  BY DEF RequestFails, AtFile
<1>2. PICK x \in Process : x = proc[p]
  BY DEF InstallInv
<1>3. PICK o \in Directory : o = dir[x.model]
  BY <1>1, <1>2, AtWork
<1>4. PICK v \in Providers : v = x.order[x.provider]
  BY <1>1, <1>2, AtWork
<1>5. /\ x.provider \in 1 .. Len(x.order) /\ x.attempt >= 1 /\ x.attempt \in Nat /\ x.attempt + 1 \in Nat
      /\ x.file \in 1 .. Files + 1 /\ x.model \in 1 .. Models
      /\ ~overlapped => Filled(x, o, v)
  BY <1>1, <1>2, <1>3, <1>4, AtWork DEF Process
<1>6. CASE UNCHANGED dir /\ Go(p, [proc[p] EXCEPT !.at = "fetch", !.attempt = @ + 1])
  <2>1. PICK s : s = [x EXCEPT !.at = "fetch", !.attempt = x.attempt + 1]
    OBVIOUS
  <2>2. /\ s \in Process /\ s.at = "fetch" /\ s.model = x.model /\ s.ready = x.ready
        /\ s.order = x.order /\ s.provider = x.provider /\ s.file = x.file
        /\ s.attempt = x.attempt + 1
    BY <1>5, <2>1 DEF Process, Ats
  <2>3. Go(p, s)
    BY <1>2, <1>6, <2>1
  <2>4. ASSUME ~overlapped PROVE Filled(s, o, v)
    BY <1>5, <2>2, <2>4 DEF Filled
  <2>5. dir' = [dir EXCEPT ![s.model] = o]
    BY <1>3, <1>6, <2>2 DEF InstallInv
  <2>6. s.attempt >= 1
    BY <1>5, <2>2
  <2>7. Advances(p, s)
    BY <1>1, <1>2, <1>4, <1>5, <2>2, <2>3, <2>4, <2>5, <2>6, Fills
  <2>8. QED
    BY <2>7
<1>7. CASE GiveUp(p)
  BY <1>1, <1>7, GiveUpStep
<1>8. QED
  BY <1>6, <1>7 DEF RequestFails

(* All files are there: the model is marked, and the next one follows.     *)
LEMMA FinishStep ==
  ASSUME InstallInv, NEW p \in Processes, Finish(p)
  PROVE  \E s : Advances(p, s)
<1>1. proc[p].at = "fetch" /\ lock' = lock /\ child' = child
  BY DEF Finish
<1>2. CASE ~Ready(proc[p].model)
  BY <1>1, <1>2, GiveUpStep DEF Finish
<1>3. CASE Ready(proc[p].model)
  <2>1. PICK x \in Process : x = proc[p]
    BY DEF InstallInv
  <2>2. PICK m \in 1 .. Models : m = x.model
    BY <1>1, <2>1, AtWork
  <2>3. PICK d : d = [dir[m] EXCEPT !.marker = TRUE]
    OBVIOUS
  <2>4. d \in Directory /\ d.file = dir[m].file
    BY <2>3 DEF InstallInv, Directory
  <2>5. dir' = [dir EXCEPT ![m] = d] /\ Go(p, Download(x, m + 1))
    BY <1>3, <2>1, <2>2, <2>3 DEF Finish
  <2>6. /\ dir' \in [1 .. Models -> Directory] /\ dir'[m] = d
        /\ \A n \in 1 .. Models : n # m => dir'[n] = dir[n]
    BY <2>4, <2>5 DEF InstallInv
  <2>7. Len(x.order) >= 1 /\ m + 1 \in Nat \ {0} /\ p \in Working
    BY <1>1, <2>1, AtWork DEF Process
  <2>8. PICK s : s = Download(x, m + 1)
    OBVIOUS
  <2>9. /\ s \in Process /\ Bounded(s)
        /\ (\A n \in 1 .. Models : n >= m + 1 /\ n \notin x.ready => dir'[n] = NoDir)
             => Progress(s, dir')
    BY <2>7, <2>8, DownloadNext
  <2>10. ASSUME ~overlapped
         PROVE  (\A n \in 1 .. Models : Sound(dir'[n])) /\ Progress(s, dir')
    <3>1. /\ \A n \in 1 .. Models : Sound(dir[n])
          /\ \A n \in 1 .. Models : n > m /\ n \notin x.ready => dir[n] = NoDir
      BY <1>1, <2>1, <2>2, <2>10, AtWork
    <3>2. \A f \in 1 .. Files : d.file[f].from # {}
      BY <1>3, <2>1, <2>2, <2>4 DEF Ready, Present
    <3>3. Sound(d)
      BY <2>4, <3>1, <3>2 DEF Sound
    <3>4. \A n \in 1 .. Models : n >= m + 1 /\ n \notin x.ready => dir'[n] = NoDir
      BY <2>6, <3>1
    <3>5. QED
      BY <2>6, <2>9, <3>1, <3>3, <3>4
  <2>11. Advances(p, s)
    BY <1>1, <2>5, <2>6, <2>7, <2>8, <2>9, <2>10 DEF Advances, InstallInv
  <2>12. QED
    BY <2>11
<1>4. QED
  BY <1>2, <1>3

----------------------------------------------------------------------------
(* Every step of an installer, and every other one.                        *)
LEMMA InstallStep ==
  ASSUME InstallInv, InstallNext
  PROVE  InstallInv'
<1>1. overlapped' = (overlapped \/ Cardinality(Working') > 1)
  BY DEF InstallNext
<1>2. CASE \E p \in Processes : Installer(p) \/ StartDownload(p) \/ Dies(p) \/ RequestFails(p)
  <2>1. PICK p \in Processes : Installer(p) \/ StartDownload(p) \/ Dies(p) \/ RequestFails(p)
    BY <1>2
  <2>2. \E s : Advances(p, s)
    BY <2>1, LockSteps, ProbeStep, EnsureStep, FileSteps, FinishStep, StartDownloadStep,
       DiesStep, RequestFailsStep DEF Installer
  <2>3. QED
    BY <1>1, <2>2, AdvanceStep
<1>3. CASE RestartApplication
  <2>1. UNCHANGED <<dir, lock, proc>> /\ child' = Nobody
    BY <1>3 DEF RestartApplication
  <2>2. ~overlapped' => ~overlapped
    BY <1>1
  <2>3. QED
    BY <2>1, <2>2 DEF InstallInv, Alone, Working, Bounded, Sound, Progress, Filled, NoDir, NoFile
<1>4. QED
  BY <1>2, <1>3 DEF InstallNext, AnyInstaller, Asker

(* The inductive invariant: what a lone installer has filled and will fill.*)
THEOREM InstallInvariant == InstallSpec => []InstallInv
<1>1. ASSUME InstallInit PROVE InstallInv
  <2>1. /\ dir \in [1 .. Models -> Directory]
        /\ \A m \in 1 .. Models : dir[m] = NoDir
    BY <1>1, Removed DEF InstallInit
  <2>2. proc \in [Processes -> Process] /\ \A p \in Processes : proc[p].at = "over"
    BY <1>1, OverRecord DEF InstallInit
  <2>3. \A p \in Processes : Bounded(proc[p]) /\ Progress(proc[p], dir)
    BY <2>2 DEF Bounded, Progress
  <2>4. Working = {}
    BY <2>2 DEF Working
  <2>5. QED
    BY <1>1, <2>1, <2>2, <2>3, <2>4, Removed DEF InstallInit, InstallInv, Alone, NoLock, Nobody
<1>2. ASSUME InstallInv, UNCHANGED installVars PROVE InstallInv'
  BY <1>2 DEF installVars, programVars, InstallInv, Alone, Working, Bounded, Sound, Progress,
     Filled, NoDir, NoFile
<1>3. InstallInv /\ [InstallNext]_installVars => InstallInv'
  BY <1>2, InstallStep
<1>4. QED
  BY <1>1, <1>3, PTL DEF InstallSpec

(* The directories, the lock and the handle have their types, for any      *)
(* number of processes, models and files.                                  *)
THEOREM InstallTypes == InstallSpec => []InstallTypeOK
<1>1. InstallInv => InstallTypeOK
  BY DEF InstallInv, InstallTypeOK, Directory
<1>2. QED
  BY <1>1, InstallInvariant, PTL

(* A model that is marked complete is of one provider, and no file of it   *)
(* but the last can be cut off: ensure_model_dir_ready and what follows    *)
(* it, whoever dies and whatever fails, for any number of models, files,   *)
(* attempts and installers that did not work at once.                      *)
THEOREM MarkedTheorem == InstallSpec => []MarkedIsSound
<1>1. ASSUME InstallInv PROVE MarkedIsSound
  <2>1. SUFFICES ASSUME NEW m \in 1 .. Models, dir[m].marker, ~overlapped
                 PROVE  /\ Cardinality(UNION {dir[m].file[f].from : f \in 1 .. Files}) = 1
                        /\ \A f \in 1 .. Files - 1 : dir[m].file[f].whole
    BY DEF MarkedIsSound
  <2>2. Sound(dir[m])
    BY <1>1, <2>1 DEF InstallInv, Alone
  <2>3. \A f \in 1 .. Files : dir[m].file[f].from # {}
    BY <2>1, <2>2 DEF Sound
  <2>4. PICK v \in Providers : \A f \in 1 .. Files : dir[m].file[f].from \in {{}, {v}}
    BY <2>2 DEF Sound
  <2>5. \A f \in 1 .. Files : dir[m].file[f].from = {v}
    BY <2>3, <2>4
  <2>6. 1 \in 1 .. Files
    BY InstallAssumption
  <2>7. UNION {dir[m].file[f].from : f \in 1 .. Files} = {v}
    BY <2>5, <2>6
  <2>8. Cardinality(UNION {dir[m].file[f].from : f \in 1 .. Files}) = 1
    BY <2>7, FS_Singleton
  <2>9. ASSUME NEW f \in 1 .. Files - 1 PROVE dir[m].file[f].whole
    <3>1. f \in 1 .. Files /\ f + 1 \in 1 .. Files /\ f < f + 1
      BY InstallAssumption
    <3>2. QED
      BY <2>2, <2>3, <3>1 DEF Sound
  <2>10. QED
    BY <2>8, <2>9
<1>2. QED
  BY <1>1, InstallInvariant, PTL
=============================================================================
