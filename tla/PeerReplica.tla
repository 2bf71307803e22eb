----------------------------- MODULE PeerReplica -----------------------------
(***************************************************************************)
(* The publications of one meeting, mirrored on another device over the    *)
(* LAN.  The owner publishes and hides (analysis.rs of forum-core), hands  *)
(* out grants and answers requests (forum-gateway, lan.rs).  The other     *)
(* device pairs, polls for changes, falls back to full snapshots           *)
(* (forum-shell, lan_manager.rs: pair, sync_peer) and keeps the mirror in  *)
(* its own store (forum.rs: apply_peer_snapshot, apply_peer_changes).      *)
(*                                                                         *)
(* A request waits at the owner until it is answered or given up, so that  *)
(* anything may happen before its answer is read, and after.               *)
(*                                                                         *)
(* Abstracted: one meeting, one pairing at a time; an expired grant is a   *)
(* revoked one; a malformed answer, which no owner sends, is left out.     *)
(* The mark of a disconnection is a call like any other: the core's        *)
(* channel may be full, and then it is lost (actor.rs: try_call).          *)
(* The evidence of a public copy is told apart by the publication that     *)
(* made its ids.                                                           *)
(***************************************************************************)
EXTENDS Integers, FiniteSets, FiniteSetsExt

CONSTANTS
  Publics,      \* public ids of the meeting's artifacts
  NoArtifact,   \* nothing is public under an id
  GrantIds,       \* ids of the invitations the owner may make
  NoGrant,      \* no client
  PageLimit,    \* changes in one answer at most; 1000 in the code
  MaxChange,    \* bound: publication_seq
  MaxEdition,   \* bound: revisions of an artifact
  MaxFaults     \* bound: lost answers, refused or late calls of the store

VARIABLES
  changeLog,  \* table publication_changes: what changed at each sequence number
  revision,   \* current revision of each artifact
  shown,      \* publication_projection: the active public copy
  grants,     \* the owner's grants: none, invite, peer
  mirror,     \* table peer_publications
  cursor,     \* peer_sessions.cursor
  stale,      \* peer_sessions.stale
  unmarked,   \* history: no connection, and its mark was refused after the last import
  synced,     \* snapshot_sha256 is there: a first snapshot was applied
  lastBatch,  \* last_batch_sha256
  watermarks, \* peer_publication_watermarks
  history,    \* peer_publication_history
  client,     \* the manager's current client, by its grant
  sync,       \* the polling thread: where it is, its client, the answer
  pair,       \* the pairing call: the same, and whether nothing changed meanwhile
  faults      \* lost answers, refused or late calls so far

ownerVars == <<changeLog, revision, shown>>
mirrorVars == <<mirror, cursor, stale, unmarked, synced, lastBatch, watermarks, history>>
peerVars == <<ownerVars, grants, mirrorVars, client, sync, pair, faults>>

ASSUME PeerAssumption ==
  /\ PageLimit \in Nat \ {0}
  /\ MaxChange \in Nat /\ MaxEdition \in Nat \ {0} /\ MaxFaults \in Nat
  /\ NoGrant \notin GrantIds

Seqs == 1..MaxChange
latest == Cardinality(DOMAIN changeLog)

Artifact == [revision : 1..MaxEdition, evidence : Seqs, seq : Seqs]
MaybeArtifact == Artifact \cup {NoArtifact}
ASSUME NoArtifactIsNone == NoArtifact \notin Publics \cup Artifact

Change == [seq : Seqs, public : Publics, artifact : MaybeArtifact]
Batch == [after : 0..MaxChange, cursor : 0..MaxChange, changes : SUBSET Change]
Full == [cursor : 0..MaxChange, artifacts : [Publics -> MaybeArtifact]]

NoAnswer == [none |-> TRUE]      \* no answer yet, no batch yet
Error == [error |-> TRUE]

----------------------------------------------------------------------------
(* The owner.                                                              *)

Entry(p, active) == [public |-> p, revision |-> IF p = NoArtifact THEN 0 ELSE revision[p],
                     active |-> active]

Record(p, active) ==
  /\ latest < MaxChange
  /\ changeLog' = [i \in 1..(latest + 1) |->
                     IF i = latest + 1 THEN Entry(p, active) ELSE changeLog[i]]

(* publish_in_transaction: a new sequence number and new evidence ids, for *)
(* a hidden revision that is shown again too, and for one that is public   *)
(* and published by another command.                                       *)
Publish(p) ==
  /\ Record(p, TRUE)
  /\ shown' = [shown EXCEPT ![p] = [revision |-> revision[p], evidence |-> latest + 1,
                                    seq |-> latest + 1]]
  /\ UNCHANGED revision

(* tombstone: only what is public leaves a trace.                          *)
Hide(p) ==
  /\ shown[p] # NoArtifact
  /\ Record(p, FALSE)
  /\ shown' = [shown EXCEPT ![p] = NoArtifact]
  /\ UNCHANGED revision

(* edit_artifact: hidden, with a new revision.                             *)
Edit(p) ==
  /\ revision[p] < MaxEdition
  /\ revision' = [revision EXCEPT ![p] = @ + 1]
  /\ IF shown[p] = NoArtifact THEN UNCHANGED <<changeLog, shown>>
     ELSE Record(p, FALSE) /\ shown' = [shown EXCEPT ![p] = NoArtifact]

(* Publications of other meetings count in the same sequence.              *)
OtherMeeting == Record(NoArtifact, FALSE) /\ UNCHANGED <<revision, shown>>

(* public_snapshot *)
Snapshot == [cursor |-> latest, artifacts |-> shown]

(* public_changes: the first PageLimit changes after a cursor; content     *)
(* only where it is what is public now.                                    *)
After(c) == {i \in DOMAIN changeLog : i > c /\ changeLog[i].public # NoArtifact}
FirstPage(c) == {i \in After(c) : Cardinality({k \in After(c) : k <= i}) <= PageLimit}
ChangeAt(i) ==
  LET p == changeLog[i].public IN
  [seq |-> i, public |-> p,
   artifact |-> IF shown[p] # NoArtifact /\ shown[p].seq = i THEN shown[p] ELSE NoArtifact]

(* Mutant: the newest sequence number, although the page ended before it. *)
BatchCursorLatest(c) == latest

(* The cursor of an answer (lan_manager.rs: readers).                      *)
BatchCursor(c) == IF Cardinality(FirstPage(c)) = PageLimit THEN Max(FirstPage(c)) ELSE latest

Changes(c) == [after |-> c, cursor |-> BatchCursor(c),
               changes |-> {ChangeAt(i) : i \in FirstPage(c)}]

OwnerStep ==
  /\ \/ \E p \in Publics : Publish(p) \/ Hide(p) \/ Edit(p)
     \/ OtherMeeting
  /\ UNCHANGED <<grants, mirrorVars, client, sync, pair, faults>>

Elsewhere == UNCHANGED <<ownerVars, mirrorVars, client, faults>>

(* LanGateway::invite, revoke, and the end of the service, which forgets   *)
(* every grant.                                                            *)
Invite(g) ==
  /\ grants[g] = "none"
  /\ grants' = [grants EXCEPT ![g] = "invite"]
  /\ UNCHANGED <<sync, pair>> /\ Elsewhere

Revoke(g) ==
  /\ grants[g] \in {"invite", "peer"}
  /\ grants' = [grants EXCEPT ![g] = "revoked"]
  /\ UNCHANGED <<sync, pair>> /\ Elsewhere

StopService ==
  /\ \E g \in GrantIds : grants[g] \in {"invite", "peer"}
  /\ grants' = [g \in GrantIds |-> IF grants[g] = "none" THEN "none" ELSE "revoked"]
  /\ UNCHANGED <<sync, pair>> /\ Elsewhere

Permitted(g) == grants[g] = "peer"

----------------------------------------------------------------------------
(* The mirror.                                                             *)

(* Mutant: a watermark refuses its own publication. *)
RegressedAlways(p, a, marks) == a.seq <= marks[p].seq

(* record_peer_version *)
Regressed(p, a, marks) ==
  a.seq < marks[p].seq \/ (marks[p].withdrawn /\ a.seq <= marks[p].seq)

RevisionRefused(p, a) ==
  \E h \in history : /\ h.public = p
                     /\ \/ h.revision = a.revision /\ h.evidence # a.evidence
                        \/ h.revision > a.revision

(* replace_peer: its checks and what it stores.                            *)
Replaceable(c, list, marks) ==
  /\ c >= cursor
  /\ c = cursor /\ synced => list = mirror
  /\ \A p \in Publics : list[p] # NoArtifact =>
       ~Regressed(p, list[p], marks) /\ ~RevisionRefused(p, list[p])

Replace(c, list, marks) ==
  /\ mirror' = list
  /\ cursor' = c
  /\ synced' = TRUE
  /\ watermarks' = [p \in Publics |->
       IF list[p] # NoArtifact THEN [seq |-> list[p].seq, withdrawn |-> FALSE]
       ELSE IF mirror[p] # NoArtifact THEN [seq |-> c, withdrawn |-> TRUE]
       ELSE marks[p]]
  /\ history' = history \cup
       {[public |-> p, revision |-> list[p].revision, evidence |-> list[p].evidence] :
          p \in {q \in Publics : list[q] # NoArtifact}}

(* apply_peer_snapshot *)
SnapshotAccepted(s) == Replaceable(s.cursor, s.artifacts, watermarks)
StoreSnapshot(s) == Replace(s.cursor, s.artifacts, watermarks) /\ lastBatch' = NoAnswer
Live == stale' = FALSE /\ unmarked' = FALSE
ApplySnapshot(s) == StoreSnapshot(s) /\ Live

(* apply_peer_changes: the last change of an id decides.                   *)
ChangesOf(b, p) == {ch \in b.changes : ch.public = p}
Newest(b, p) == CHOOSE ch \in ChangesOf(b, p) : \A x \in ChangesOf(b, p) : x.seq <= ch.seq
Listed(b) ==
  [p \in Publics |-> IF ChangesOf(b, p) = {} THEN mirror[p] ELSE Newest(b, p).artifact]
Withdrawn(b, p) == {ch.seq : ch \in {x \in ChangesOf(b, p) : x.artifact = NoArtifact}}
Marks(b) == [p \in Publics |->
  IF Withdrawn(b, p) = {} THEN watermarks[p]
  ELSE [seq |-> Max(Withdrawn(b, p) \cup {watermarks[p].seq}), withdrawn |-> TRUE]]

Repeated(b) == b.cursor = cursor /\ lastBatch = b
BatchAccepted(b) ==
  Repeated(b) \/ (b.after = cursor /\ Replaceable(b.cursor, Listed(b), Marks(b)))
ApplyBatch(b) ==
  IF Repeated(b)
  THEN Live /\ UNCHANGED <<mirror, cursor, synced, lastBatch, watermarks, history>>
  ELSE Replace(b.cursor, Listed(b), Marks(b)) /\ lastBatch' = b /\ Live

(* mark_peer_disconnected is carried out; or it is refused, and the mirror *)
(* stays as the calls before it left it.                                   *)
Marked == stale' = TRUE /\ unmarked' = FALSE
Refused(before) == stale' = before /\ unmarked' = (client' = NoGrant)

Unreplaced == UNCHANGED <<mirror, cursor, synced, lastBatch, watermarks, history>>
MarkStale == Marked /\ Unreplaced
MarkRefused == Refused(stale) /\ Unreplaced

(* A snapshot whose call came back too late is stored, if it is accepted,  *)
(* before the mark that follows it, or the call never got into the queue.  *)
(* An overload that made the one late may refuse the other.                *)
StoredThenMark(s) ==
  \/ SnapshotAccepted(s) /\ StoreSnapshot(s) /\ (Marked \/ Refused(FALSE))
  \/ MarkStale \/ MarkRefused

----------------------------------------------------------------------------
(* The manager: lan_manager.rs.                                            *)

SyncAt(at, g, after, answer) == [at |-> at, client |-> g, after |-> after, answer |-> answer]
PairAt(at, g, answer, undisturbed) ==
  [at |-> at, client |-> g, answer |-> answer, undisturbed |-> undisturbed]
Idle == SyncAt("idle", NoGrant, 0, NoAnswer)
NoPair == PairAt("idle", NoGrant, NoAnswer, TRUE)

(* A call of the receiver's store is done; or it is done and its answer    *)
(* comes too late; or it is refused.                                       *)
Late == faults < MaxFaults /\ faults' = faults + 1
Done == UNCHANGED faults

(* current: the client is still the one the manager holds.                 *)
StillCurrent(g) == client = g

(* sync_peer: the copy of the client, then the cursor.                     *)
SyncPick ==
  /\ sync.at = "idle" /\ client # NoGrant
  /\ sync' = SyncAt("picked", client, 0, NoAnswer)
  /\ UNCHANGED <<ownerVars, grants, mirrorVars, client, pair, faults>>

SyncAsk ==
  /\ sync.at = "picked"
  /\ sync' = SyncAt("changes", sync.client, cursor, NoAnswer)
  /\ UNCHANGED <<ownerVars, grants, mirrorVars, client, pair, faults>>

SyncAnswered(answer) == SyncAt(sync.at, sync.client, sync.after, answer)
Again == SyncAt("again", sync.client, sync.after, NoAnswer)

(* The owner reads for the answer (serve_tls, bounded_read).               *)
AnswerSync ==
  /\ sync.at \in {"changes", "snapshot"} /\ sync.answer = NoAnswer
  /\ sync' = SyncAnswered(IF ~Permitted(sync.client) THEN Error
                          ELSE IF sync.at = "changes" THEN Changes(sync.after) ELSE Snapshot)
  /\ UNCHANGED <<pair, grants>> /\ Elsewhere

(* The network or the deadline.                                            *)
LoseSync ==
  /\ sync.at \in {"changes", "snapshot"} /\ sync.answer # Error
  /\ Late
  /\ sync' = SyncAnswered(Error)
  /\ UNCHANGED <<ownerVars, grants, mirrorVars, client, pair>>

SyncApply ==
  /\ sync.at = "changes" /\ sync.answer # NoAnswer
  /\ \/ /\ ~StillCurrent(sync.client)
        /\ sync' = Idle /\ Done /\ UNCHANGED mirrorVars
     \/ /\ StillCurrent(sync.client) /\ sync.answer # Error
        /\ BatchAccepted(sync.answer) /\ ApplyBatch(sync.answer)
        /\ \/ sync' = Idle /\ Done
           \/ sync' = Again /\ Late
     \/ /\ StillCurrent(sync.client)
        /\ \/ sync.answer = Error /\ Done
           \/ sync.answer # Error /\ ~BatchAccepted(sync.answer) /\ Done
           \/ sync.answer # Error /\ Late
        /\ sync' = Again
        /\ UNCHANGED mirrorVars
  /\ UNCHANGED <<ownerVars, grants, client, pair>>

(* A gap or an expired cursor needs the full snapshot.                     *)
SyncAgain ==
  /\ sync.at = "again"
  /\ sync' = IF StillCurrent(sync.client)
             THEN SyncAt("snapshot", sync.client, sync.after, NoAnswer)
             ELSE Idle
  /\ UNCHANGED <<ownerVars, grants, mirrorVars, client, pair, faults>>

SyncReplace ==
  /\ sync.at = "snapshot" /\ sync.answer # NoAnswer
  /\ UNCHANGED client
  /\ \/ /\ ~StillCurrent(sync.client)
        /\ Done /\ UNCHANGED mirrorVars
     \/ /\ StillCurrent(sync.client) /\ sync.answer # Error
        /\ SnapshotAccepted(sync.answer) /\ ApplySnapshot(sync.answer)
        /\ Done
     \/ /\ StillCurrent(sync.client)
        /\ \/ sync.answer = Error
           \/ sync.answer # Error /\ ~SnapshotAccepted(sync.answer)
        /\ \/ Done /\ MarkStale
           \/ Late /\ MarkRefused
     \/ /\ StillCurrent(sync.client) /\ sync.answer # Error
        /\ Late /\ StoredThenMark(sync.answer)
  /\ sync' = Idle
  /\ UNCHANGED <<ownerVars, grants, pair>>

(* LanClient::pair: the invitation, the lease, the first snapshot.         *)
PairAsk(g) ==
  /\ pair.at = "idle" /\ grants[g] # "none"
  /\ pair' = PairAt("invited", g, NoAnswer, TRUE)
  /\ UNCHANGED <<ownerVars, grants, mirrorVars, client, sync, faults>>

(* An invitation is used up by the first who brings it.                    *)
AnswerPair ==
  /\ pair.at = "invited" /\ grants[pair.client] = "invite"
  /\ grants' = [grants EXCEPT ![pair.client] = "peer"]
  /\ pair' = PairAt("paired", pair.client, pair.answer, pair.undisturbed)
  /\ UNCHANGED sync /\ Elsewhere

AnswerFirst ==
  /\ pair.at = "paired" /\ pair.answer = NoAnswer /\ Permitted(pair.client)
  /\ pair' = PairAt(pair.at, pair.client, Snapshot, pair.undisturbed)
  /\ UNCHANGED <<sync, grants>> /\ Elsewhere

(* Refused or lost on the way, or the manager changed meanwhile.           *)
PairFails ==
  /\ pair.at # "idle"
  /\ pair' = NoPair
  /\ UNCHANGED <<ownerVars, grants, mirrorVars, client, sync, faults>>

PairCommit ==
  /\ pair.at = "paired" /\ pair.answer # NoAnswer /\ pair.undisturbed
  /\ \/ /\ SnapshotAccepted(pair.answer) /\ ApplySnapshot(pair.answer)
        /\ client' = pair.client /\ Done
     \/ /\ UNCHANGED client
        /\ \/ ~SnapshotAccepted(pair.answer) /\ Done /\ MarkStale
           \/ Late /\ StoredThenMark(pair.answer)
  /\ pair' = NoPair
  /\ UNCHANGED <<ownerVars, grants, sync>>

(* disconnect, stop: the connection is given up before the store is told,  *)
(* the generation moves on, a pairing under way ends.  The operator may    *)
(* disconnect again what is still shown as live.                           *)
Disconnect ==
  /\ client # NoGrant \/ pair.at # "idle" \/ ~stale
  /\ client' = NoGrant
  /\ pair' = PairAt(pair.at, pair.client, pair.answer, FALSE)
  /\ \/ Done /\ MarkStale
     \/ Late /\ MarkRefused
  /\ UNCHANGED <<ownerVars, grants, sync>>

(* The receiver ends and starts again (LanManager::new): without the mark  *)
(* there is no manager.                                                    *)
ReceiverRestart ==
  /\ client' = NoGrant /\ sync' = Idle /\ pair' = NoPair
  /\ MarkStale
  /\ UNCHANGED <<ownerVars, grants, faults>>

SyncStep == SyncPick \/ SyncAsk \/ SyncApply \/ SyncAgain \/ SyncReplace

PeerNext ==
  \/ OwnerStep
  \/ \E g \in GrantIds : Invite(g) \/ Revoke(g) \/ PairAsk(g)
  \/ StopService
  \/ SyncStep \/ AnswerSync \/ LoseSync
  \/ AnswerPair \/ AnswerFirst \/ PairFails \/ PairCommit
  \/ Disconnect \/ ReceiverRestart

PeerInit ==
  /\ changeLog = [i \in {} |-> Entry(NoArtifact, FALSE)]
  /\ revision = [p \in Publics |-> 1]
  /\ shown = [p \in Publics |-> NoArtifact]
  /\ grants = [g \in GrantIds |-> "none"]
  /\ mirror = [p \in Publics |-> NoArtifact]
  /\ cursor = 0 /\ stale = TRUE /\ unmarked = FALSE /\ synced = FALSE /\ lastBatch = NoAnswer
  /\ watermarks = [p \in Publics |-> [seq |-> 0, withdrawn |-> FALSE]]
  /\ history = {}
  /\ client = NoGrant /\ sync = Idle /\ pair = NoPair
  /\ faults = 0

PeerSpec == PeerInit /\ [][PeerNext]_peerVars

(* The polling thread goes on and the owner answers, late or not.          *)
PeerFairSpec == PeerSpec /\ WF_peerVars(SyncStep) /\ WF_peerVars(AnswerSync)

----------------------------------------------------------------------------
PeerTypeOK ==
  /\ DOMAIN changeLog = 1..latest /\ latest \in 0..MaxChange
  /\ \A i \in DOMAIN changeLog : changeLog[i] \in [public : Publics \cup {NoArtifact},
                                             revision : 0..MaxEdition, active : BOOLEAN]
  /\ revision \in [Publics -> 1..MaxEdition]
  /\ shown \in [Publics -> MaybeArtifact]
  /\ grants \in [GrantIds -> {"none", "invite", "peer", "revoked"}]
  /\ mirror \in [Publics -> MaybeArtifact]
  /\ cursor \in 0..MaxChange
  /\ stale \in BOOLEAN /\ unmarked \in BOOLEAN /\ synced \in BOOLEAN
  /\ lastBatch \in Batch \cup {NoAnswer}
  /\ watermarks \in [Publics -> [seq : 0..MaxChange, withdrawn : BOOLEAN]]
  /\ history \subseteq [public : Publics, revision : 1..MaxEdition, evidence : Seqs]
  /\ client \in GrantIds \cup {NoGrant}
  /\ sync.at \in {"idle", "picked", "changes", "again", "snapshot"}
  /\ sync.client \in GrantIds \cup {NoGrant} /\ sync.after \in 0..MaxChange
  /\ pair.at \in {"idle", "invited", "paired"}
  /\ faults \in 0..MaxFaults

LastChange(p) == Max({0} \cup {i \in DOMAIN changeLog : changeLog[i].public = p})

(* What the mirror says of an artifact is what the owner shows, unless a   *)
(* change after the mirror's cursor says otherwise: nothing hidden stays,  *)
(* nothing shown is missing, however pages, lost answers, fallbacks,       *)
(* repeated pairings and restarts follow on each other.  And it counts as  *)
(* live only while the manager has a connection for it, or as long as the  *)
(* core's full channel has refused the mark of its disconnection, which    *)
(* disconnect and pair of lan_manager.rs then lose: no answer that was on  *)
(* its way makes it live after the disconnection.                          *)
MirrorFaithful ==
  /\ \A p \in Publics : LastChange(p) <= cursor => mirror[p] = shown[p]
  /\ ~stale => client # NoGrant \/ unmarked

(* "republished": the same revision under a new sequence number.           *)
Republished ==
  \E i, k \in DOMAIN changeLog : /\ i < k /\ changeLog[i].active /\ changeLog[k].active
                                 /\ changeLog[i].public = changeLog[k].public
                                 /\ changeLog[i].revision = changeLog[k].revision

InStep == ~stale /\ cursor = latest /\ mirror = shown

(* As long as a connection lasts the mirror gets in step with the owner    *)
(* and stays so when no more changes come, whatever was lost before; of    *)
(* revisions that were hidden and shown again see the findings.            *)
MirrorCatchesUp ==
  (/\ <>[](client # NoGrant /\ grants[client] = "peer")
   /\ []~Republished) => <>[]InStep

(* Published twice without being hidden in between.                        *)
Reissued ==
  \E i, k \in DOMAIN changeLog : /\ i < k /\ changeLog[i].active /\ changeLog[k].active
                                 /\ changeLog[i].public = changeLog[k].public
                                 /\ \A j \in (i + 1)..(k - 1) :
                                      changeLog[j].public # changeLog[k].public

(* A test of forum-core shows a hidden publication accepted again "with a  *)
(* higher sequence number" (forum_tests.rs, republished): the snapshot of  *)
(* the owner, never older than the mirror, is always accepted.             *)
SnapshotsAccepted ==
  sync.at = "snapshot" /\ sync.answer \in Full /\ ~Reissued => SnapshotAccepted(sync.answer)
=============================================================================
