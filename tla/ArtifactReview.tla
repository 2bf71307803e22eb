--------------------------- MODULE ArtifactReview ---------------------------
(***************************************************************************)
(* The analysis artifacts of one meeting in the ledger of forum-core: what *)
(* an analysis job made of a frozen snapshot of its inputs, the operator's *)
(* edits and reviews of it, its public copy, and the invalidation that     *)
(* follows every change of an input, through artifacts made from other     *)
(* artifacts.  Every handler is one immediate transaction, hence one       *)
(* action; its error returns are its guards.                               *)
(*                                                                         *)
(* Abstracted: a text is its revision, a public copy a member of Copies,   *)
(* the content of an artifact one of the three forms the checks tell       *)
(* apart.  The job that made an artifact is in AnalysisJobs, which shows   *)
(* that it finishes only with a snapshot that is current; the mirror that  *)
(* a peer's publications come from is in PeerReplica.                      *)
(***************************************************************************)
EXTENDS ReviewTables

sourceVars == <<texts, speakers, gaps, peers>>
bornVars == <<finished, kind, snapshot, covered>>
stateVars == <<content, revision, validation, review, publication, projection>>
vars == <<sourceVars, mode, bornVars, stateVars>>

----------------------------------------------------------------------------
(* What a snapshot holds.                                                  *)

SourceInput == [segment : Segments, revision : 0..MaxInput,
                speaker : Speakers \cup {NoSpeaker}]
PublishedInput == [id : Artifacts, revision : 1..MaxRevision,
                   copy : Copies \cup {NoCopy}]
PeerInput == [peer : Peers, revision : 1..MaxInput]

Snapshot == [sources : SUBSET SourceInput, artifacts : SUBSET PublishedInput,
             peers : SUBSET PeerInput, window : SUBSET GapPlaces,
             complete : BOOLEAN]

SnapshotCurrent(snap) == ~(snap.complete /\ LostAudio(snap)) /\ Unchanged(snap)

(* snapshot_for: what a job started now would freeze.  Minutes and the     *)
(* other full passes look at the whole audio, an insight at a part; a      *)
(* report may be restricted to selected publications of other kinds.       *)
SourceSnapshots(k) ==
  {[sources |-> {TextOf(s) : s \in segs}, artifacts |-> {}, peers |-> {},
    window |-> w, complete |-> c] :
     segs \in (SUBSET Segments) \ {{}},
     w \in IF k = "insight" THEN Windows ELSE {GapPlaces},
     c \in BOOLEAN}

ReportSnapshots(k) ==
  {[sources |-> {}, artifacts |-> {InputOf(a) : a \in as},
    peers |-> {PeerOf(p) : p \in ps}, window |-> {}, complete |-> TRUE] :
     as \in SUBSET {a \in Artifacts : Offered(a) /\ kind[a] # k},
     ps \in SUBSET {p \in Peers : peers[p].live /\ peers[p].revision > 0}}

SnapshotsNow(k) ==
  IF k \in SourceKinds THEN {snap \in SourceSnapshots(k) : SnapshotCurrent(snap)}
  ELSE {snap \in ReportSnapshots(k) : snap.artifacts \cup snap.peers # {}}

----------------------------------------------------------------------------
(* Invalidation.                                                           *)

DependsOnSource(a, s) == a \in finished /\ \E i \in snapshot[a].sources : i.segment = s
DependsOnArtifact(a, b) == a \in finished /\ \E i \in snapshot[a].artifacts : i.id = b
DependsOnPeer(a, p) == a \in finished /\ \E i \in snapshot[a].peers : i.peer = p

Dependents(b) == {a \in Artifacts : DependsOnArtifact(a, b)}

(* Mutant: only the artifacts named, not those made from them. *)
ClosureShallow(roots) == roots

(* invalidate_artifacts follows artifact_dependencies to the end: the       *)
(* least set that holds the roots and everything made from a member.       *)
Closure(roots) ==
  {a \in Artifacts : \A set \in SUBSET Artifacts :
     roots \subseteq set /\ (\A b \in set : Dependents(b) \subseteq set) => a \in set}

(* An invalidated artifact loses its validity, its place in publication    *)
(* and its projection (tombstone), once.                                   *)
StaleValidation(dead, val) ==
  [a \in Artifacts |-> IF a \in dead THEN "stale" ELSE val[a]]
StalePublication(dead, pub) ==
  [a \in Artifacts |->
     IF a \in dead /\ validation[a] # "stale" /\ pub[a] = "published"
     THEN "withdrawn" ELSE pub[a]]

(* own: artifacts whose handler withdraws the projection itself.           *)
Tombstoned(dead, own) ==
  [a \in Artifacts |-> IF a \in own \/ (a \in dead /\ validation[a] # "stale")
                       THEN [projection[a] EXCEPT !.active = FALSE] ELSE projection[a]]

Invalidate(roots) ==
  LET dead == Closure(roots) IN
  /\ validation' = StaleValidation(dead, validation)
  /\ publication' = StalePublication(dead, publication)
  /\ projection' = Tombstoned(dead, {})
  /\ UNCHANGED <<bornVars, content, revision, review, mode>>

----------------------------------------------------------------------------
Init ==
  /\ texts = [s \in Segments |-> 0]
  /\ speakers = [s \in Segments |-> NoSpeaker]
  /\ gaps = {}
  /\ peers = [p \in Peers |-> [revision |-> 0, live |-> FALSE]]
  /\ mode = "gated"
  /\ finished = {}
  /\ kind = [a \in Artifacts |-> "insight"]
  /\ snapshot = [a \in Artifacts |-> [sources |-> {}, artifacts |-> {}, peers |-> {},
                                      window |-> {}, complete |-> FALSE]]
  /\ covered = [a \in Artifacts |-> FALSE]
  /\ content = [a \in Artifacts |-> "topics"]
  /\ revision = [a \in Artifacts |-> 1]
  /\ validation = [a \in Artifacts |-> "needs_review"]
  /\ review = [a \in Artifacts |-> "draft"]
  /\ publication = [a \in Artifacts |-> "private"]
  /\ projection = [a \in Artifacts |-> [active |-> FALSE, revision |-> 0, copy |-> NoCopy]]

(* ingest_final and revise_transcript: a new current revision; the speaker *)
(* of the old one is not that of the new one unless recognition says so.   *)
ChangeText(s) ==
  /\ texts[s] < MaxInput
  /\ texts' = [texts EXCEPT ![s] = @ + 1]
  /\ \E v \in Speakers \cup {NoSpeaker} : speakers' = [speakers EXCEPT ![s] = v]
  /\ Invalidate({a \in Artifacts : DependsOnSource(a, s)})
  /\ UNCHANGED <<gaps, peers>>

(* apply_assignment: only a changed label counts.                          *)
AssignSpeaker(s) ==
  /\ texts[s] > 0
  /\ \E v \in (Speakers \cup {NoSpeaker}) \ {speakers[s]} :
       speakers' = [speakers EXCEPT ![s] = v]
  /\ Invalidate({a \in Artifacts : DependsOnSource(a, s)})
  /\ UNCHANGED <<texts, gaps, peers>>

(* register_gap with invalidate_analysis_gap, which looks at artifacts of  *)
(* complete coverage only.                                                 *)
RegisterGap(g) ==
  /\ g \notin gaps
  /\ gaps' = gaps \cup {g}
  /\ Invalidate({a \in finished : /\ validation[a] # "stale"
                                  /\ covered[a]
                                  /\ snapshot[a].sources # {}
                                  /\ snapshot[a].window \cap (gaps \cup {g}) # {}})
  /\ UNCHANGED <<texts, speakers, peers>>

(* replace_peer with a new copy of p, or without p.                        *)
MirrorChanges(p) ==
  /\ \/ /\ peers[p].revision < MaxInput
        /\ peers' = [peers EXCEPT ![p] = [revision |-> @.revision + 1, live |-> TRUE]]
     \/ /\ peers[p].live
        /\ peers' = [peers EXCEPT ![p].live = FALSE]
  /\ Invalidate({a \in Artifacts : DependsOnPeer(a, p)})
  /\ UNCHANGED <<texts, speakers, gaps>>

(* The peer answers again, with the copy that is mirrored already.         *)
MirrorReturns(p) ==
  /\ peers[p].revision > 0 /\ ~peers[p].live
  /\ peers' = [peers EXCEPT ![p].live = TRUE]
  /\ UNCHANGED <<texts, speakers, gaps, mode, bornVars, stateVars>>

SetInsightSettings ==
  /\ mode' = IF mode = "gated" THEN "automatic" ELSE "gated"
  /\ UNCHANGED <<sourceVars, bornVars, stateVars>>

----------------------------------------------------------------------------
(* validate_content: a claim without support needs the operator; topics    *)
(* alone are valid but give nothing to publish.                            *)
Validated(form) == IF form = "unsupported" THEN "needs_review" ELSE "valid"

(* publication_coverage_ready *)
CoverageReady(k, form, cov) == cov \/ (k = "insight" /\ form = "cited")

(* The checks of publish_in_transaction on an artifact; the public         *)
(* evidence must be cited, so there must be a cited claim.                 *)
PublicationPolicy(k, form, val, rev, cov) ==
  /\ val = "valid"
  /\ rev = "approved"
  /\ CoverageReady(k, form, cov)
  /\ form = "cited"
  /\ k \notin Unpublishable

(* finish_analysis_job, with auto_publish_insight in the same transaction. *)
Finish(a, k, snap, form, cov) ==
  LET auto == k = "insight" /\ mode = "automatic"
              /\ PublicationPolicy(k, form, Validated(form), "approved", cov)
  IN
  /\ a \notin finished
  /\ cov => snap.complete
  /\ finished' = finished \cup {a}
  /\ kind' = [kind EXCEPT ![a] = k]
  /\ snapshot' = [snapshot EXCEPT ![a] = snap]
  /\ covered' = [covered EXCEPT ![a] = cov]
  /\ content' = [content EXCEPT ![a] = form]
  /\ validation' = [validation EXCEPT ![a] = Validated(form)]
  /\ revision' = [revision EXCEPT ![a] = 1]
  /\ review' = [review EXCEPT ![a] = IF auto THEN "approved" ELSE "draft"]
  /\ publication' = [publication EXCEPT ![a] = IF auto THEN "published" ELSE "private"]
  /\ IF auto
     THEN \E c \in Copies : projection' =
            [projection EXCEPT ![a] = [active |-> TRUE, revision |-> 1, copy |-> c]]
     ELSE UNCHANGED projection
  /\ UNCHANGED <<sourceVars, mode>>

(* edit_artifact: a new revision, a draft again, private again.            *)
EditArtifact(a, form) ==
  LET dead == Closure(Dependents(a)) IN
  /\ a \in finished
  /\ SnapshotCurrent(snapshot[a])
  /\ revision[a] < MaxRevision
  /\ revision' = [revision EXCEPT ![a] = @ + 1]
  /\ content' = [content EXCEPT ![a] = form]
  /\ validation' = [StaleValidation(dead, validation) EXCEPT ![a] = Validated(form)]
  /\ review' = [review EXCEPT ![a] = "draft"]
  /\ publication' = [StalePublication(dead, publication) EXCEPT ![a] = "private"]
  /\ projection' = Tombstoned(dead, {a})
  /\ UNCHANGED <<sourceVars, mode, bornVars>>

(* review_artifact: withdrawing the approval of a published artifact       *)
(* withdraws the publication.                                              *)
ReviewArtifact(a, verdict) ==
  LET withdraws == verdict # "approved" /\ publication[a] = "published"
      dead == IF withdraws THEN Closure(Dependents(a)) ELSE {}
  IN
  /\ a \in finished
  /\ validation[a] # "stale"
  /\ SnapshotCurrent(snapshot[a])
  /\ verdict = "approved" => validation[a] = "valid"
  /\ review' = [review EXCEPT ![a] = verdict]
  /\ validation' = StaleValidation(dead, validation)
  /\ publication' = [StalePublication(dead, publication)
                       EXCEPT ![a] = IF withdraws THEN "withdrawn" ELSE @]
  /\ projection' = Tombstoned(dead, IF withdraws THEN {a} ELSE {})
  /\ UNCHANGED <<sourceVars, mode, bornVars, content, revision>>

(* A revision has one public copy for good.                                *)
CopyKept(a, c) ==
  projection[a].revision = revision[a] => projection[a].copy = c

(* publish_in_transaction; a repetition of the command that made the       *)
(* active projection changes nothing.                                      *)
Publish(a, c, rev) ==
  LET dead == Closure(Dependents(a)) IN
  /\ PublicationPolicy(kind[a], content[a], validation[a], rev, covered[a])
  /\ SnapshotCurrent(snapshot[a])
  /\ CopyKept(a, c)
  /\ validation' = StaleValidation(dead, validation)
  /\ publication' = [StalePublication(dead, publication) EXCEPT ![a] = "published"]
  /\ projection' = [Tombstoned(dead, {})
                      EXCEPT ![a] = [active |-> TRUE, revision |-> revision[a], copy |-> c]]
  /\ UNCHANGED <<sourceVars, mode, bornVars, content, revision>>

PublishArtifact(a, c) ==
  a \in finished /\ Publish(a, c, review[a]) /\ UNCHANGED review

(* approve_and_publish_artifact: both or neither.                          *)
ApproveAndPublish(a, c) ==
  /\ a \in finished
  /\ Publish(a, c, "approved")
  /\ review' = [review EXCEPT ![a] = "approved"]

(* set_artifact_visibility *)
SetVisibility(a, p) ==
  LET dead == Closure(Dependents(a)) IN
  /\ a \in finished
  /\ validation' = StaleValidation(dead, validation)
  /\ publication' = [StalePublication(dead, publication) EXCEPT ![a] = p]
  /\ projection' = Tombstoned(dead, {a})
  /\ UNCHANGED <<sourceVars, mode, bornVars, content, revision, review>>

Next ==
  \/ \E s \in Segments : ChangeText(s) \/ AssignSpeaker(s)
  \/ \E g \in GapPlaces : RegisterGap(g)
  \/ \E p \in Peers : MirrorChanges(p) \/ MirrorReturns(p)
  \/ SetInsightSettings
  \/ \E a \in Artifacts \ finished, k \in Kinds :
       \E snap \in SnapshotsNow(k), form \in Forms, cov \in BOOLEAN :
         Finish(a, k, snap, form, cov)
  \/ \E a \in Artifacts, form \in Forms : EditArtifact(a, form)
  \/ \E a \in Artifacts, v \in Verdicts : ReviewArtifact(a, v)
  \/ \E a \in Artifacts, c \in Copies : PublishArtifact(a, c) \/ ApproveAndPublish(a, c)
  \/ \E a \in Artifacts, p \in Visibilities : SetVisibility(a, p)

Spec == Init /\ [][Next]_vars

----------------------------------------------------------------------------
(* The columns hold what their types say.                                  *)
TypeOK ==
  /\ texts \in [Segments -> 0..MaxInput]
  /\ speakers \in [Segments -> Speakers \cup {NoSpeaker}]
  /\ gaps \subseteq GapPlaces
  /\ peers \in [Peers -> [revision : 0..MaxInput, live : BOOLEAN]]
  /\ mode \in {"gated", "automatic"}
  /\ finished \subseteq Artifacts
  /\ kind \in [Artifacts -> SourceKinds \cup ReportKinds]
  /\ snapshot \in [Artifacts -> Snapshot]
  /\ covered \in [Artifacts -> BOOLEAN]
  /\ content \in [Artifacts -> Contents]
  /\ revision \in [Artifacts -> 1..MaxRevision]
  /\ validation \in [Artifacts -> {"valid", "needs_review", "stale"}]
  /\ review \in [Artifacts -> {"draft", "approved", "rejected"}]
  /\ publication \in [Artifacts -> {"private", "published", "hidden", "withdrawn"}]
  /\ projection \in [Artifacts -> [active : BOOLEAN, revision : 0..MaxRevision,
                                   copy : Copies \cup {NoCopy}]]

=============================================================================
