---------------------------- MODULE ReviewTables ----------------------------
(***************************************************************************)
(* The tables of artifacts in the ledger of forum-core, the ids and kinds  *)
(* that occur in them, and what it means that the inputs of an artifact    *)
(* are current.  What the handlers do with them is in ArtifactReview.      *)
(***************************************************************************)
EXTENDS Integers, FiniteSets

CONSTANTS
  Segments,     \* captured audio segments
  Speakers,     \* anonymous speakers of the meeting
  NoSpeaker,    \* nobody was recognised, or the speaker is unknown
  GapPlaces,    \* stretches of audio that may turn out to be lost
  Windows,      \* the stretches an insight may look at
  Peers,        \* aliases of publications mirrored from peer devices
  Artifacts,    \* ids an artifact may get
  Kinds,        \* the kinds of analysis that occur
  Copies,       \* public copies the operator may confirm
  NoCopy,       \* no public copy was ever made
  Forms,        \* the forms of content that occur
  Verdicts,     \* the verdicts of a review that occur
  Visibilities, \* what an operator may set instead of publishing
  MaxInput,     \* bound: revisions of a segment, of a peer's publication
  MaxRevision   \* bound: revisions of an artifact

SourceKinds == {"insight", "minutes", "suggested_questions", "redaction_review"}
ReportKinds == {"event_report", "closing_brief"}
Unpublishable == {"suggested_questions", "redaction_review"}

(* What validate_content tells apart: all claims cited; a claim without    *)
(* support; topics and no claim.                                           *)
Contents == {"cited", "unsupported", "topics"}

ASSUME ReviewAssumption ==
  /\ Kinds \subseteq SourceKinds \cup ReportKinds
  /\ Windows \subseteq SUBSET GapPlaces
  /\ Artifacts \cap Peers = {}
  /\ NoSpeaker \notin Speakers
  /\ NoCopy \notin Copies
  /\ Forms \subseteq Contents
  /\ Verdicts \subseteq {"draft", "approved", "rejected"}
  /\ Visibilities \subseteq {"hidden", "withdrawn", "private"}
  /\ MaxInput \in Nat
  /\ MaxRevision \in Nat \ {0}

VARIABLES
  texts,        \* current revision of each segment; 0: no result yet
  speakers,     \* analysis_speaker of each segment
  gaps,         \* table audio_gaps
  peers,        \* peer_publications: revision, and is the mirror live
  mode,         \* insight_settings.mode
  finished,     \* artifacts that exist
  kind,         \* kind of an artifact
  snapshot,     \* its analysis_snapshots row, the artifact_dependencies too
  covered,      \* coverage_complete
  content,      \* form of the content of the current revision
  revision,     \* current revision
  validation, review, publication,   \* the columns of those names
  projection    \* publication_projection: active, revision, copy

----------------------------------------------------------------------------
(* load of a published input: all that snapshot_for asks of it.  The copy   *)
(* it freezes is the one in the active projection.                         *)
Offered(a) ==
  /\ a \in finished
  /\ publication[a] = "published"
  /\ review[a] = "approved"
  /\ validation[a] = "valid"
  /\ projection[a].active

TextOf(s) == [segment |-> s, revision |-> texts[s], speaker |-> speakers[s]]
InputOf(a) == [id |-> a, revision |-> revision[a], copy |-> projection[a].copy]
PeerOf(p) == [peer |-> p, revision |-> peers[p].revision]

LostAudio(snap) == snap.sources # {} /\ snap.window \cap gaps # {}

SourcesUnchanged(snap) == \A i \in snap.sources : i = TextOf(i.segment)
ArtifactsUnchanged(snap) ==
  \A i \in snap.artifacts : Offered(i.id) /\ i = InputOf(i.id)
PeersUnchanged(snap) ==
  \A i \in snap.peers : peers[i.peer].live /\ i = PeerOf(i.peer)

Unchanged(snap) ==
  SourcesUnchanged(snap) /\ ArtifactsUnchanged(snap) /\ PeersUnchanged(snap)

(* Whatever is public now - served by public_snapshot or read aloud - is   *)
(* the copy confirmed for the artifact's current revision, approved,       *)
(* valid, and made from inputs none of which has changed since: no         *)
(* correction, speaker change, lost audio, withdrawn or replaced input,    *)
(* however far behind the artifact, leaves it standing.  A partial insight *)
(* claims no complete coverage, so a gap does not touch it.                *)
PublicIsCurrent ==
  \A a \in Artifacts : projection[a].active =>
    /\ Offered(a)
    /\ projection[a].revision = revision[a]
    /\ Unchanged(snapshot[a])
    /\ covered[a] => ~LostAudio(snapshot[a])
=============================================================================
