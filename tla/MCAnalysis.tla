----------------------------- MODULE MCAnalysis -----------------------------
(***************************************************************************)
(* The jobs that analyse a meeting and the artifacts they make, in one     *)
(* instance for TLC: an execution explores one of AnalysisJobs and         *)
(* ArtifactReview, chosen at its beginning; they share no state.           *)
(***************************************************************************)
EXTENDS AnalysisJobs, ReviewTables

VARIABLES part

reviewVars == <<texts, speakers, gaps, peers, mode, finished, kind, snapshot, covered, content,
  revision, validation, review, publication, projection>>

(* Every insight looks at the place where audio may be lost.               *)
WholeAudio == {GapPlaces}

Review == INSTANCE ArtifactReview

InitAll == Init /\ Review!Init /\ part \in {"jobs", "artifacts"}

(* Ids are compared for equality only, so one of them may be the first.    *)
Created == {j \in Jobs : jobs[j].state # "absent"}
JobsInTurn == Created' # {} => (CHOOSE j \in Jobs : TRUE) \in Created'
ArtifactsInTurn == finished' # {} => (CHOOSE a \in Artifacts : TRUE) \in finished'

(* The settings are read when an artifact is made, and never again.        *)
SettingsMatter == mode' # mode => finished # Artifacts

NextAll ==
  /\ UNCHANGED part
  /\ \/ part = "jobs" /\ Next /\ JobsInTurn /\ UNCHANGED reviewVars
     \/ part = "artifacts" /\ Review!Next /\ ArtifactsInTurn /\ SettingsMatter
        /\ UNCHANGED vars

SpecAll == InitAll /\ [][NextAll]_<<part, vars, reviewVars>>

(* Insights and the minutes of a stopped meeting meet in the queue only:   *)
(* behaviours go on with insights before the first stop or with minutes.   *)
OneKind ==
  \/ stops = 0
  \/ seq <= 1 /\ \A j \in Jobs : jobs[j].kind = "minutes"

=============================================================================
