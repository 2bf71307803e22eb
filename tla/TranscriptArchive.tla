------------------------- MODULE TranscriptArchive -------------------------
(***************************************************************************)
(* What a session's ledger promises to the reader of its transcript.       *)
(* Audio segments are announced while capture is open.  Each segment's     *)
(* best result improves from nothing over a failed or a recognised text to *)
(* an operator's text, never back.  The transcript is sealed once, when    *)
(* capture is closed and no segment is left without a result; afterwards   *)
(* no segment is added, while results may still improve.                   *)
(***************************************************************************)
CONSTANT Segments

VARIABLES
  open,      \* is capture open?
  expected,  \* announced segments
  result,    \* segment -> its best result so far
  closed     \* is the transcript sealed?

archiveVars == <<open, expected, result, closed>>

Results == {"none", "failed", "recognised", "operator"}

(* The results that may take the place of one. *)
Improvements(r) ==
  CASE r = "none"       -> {"failed", "recognised"}
    [] r = "failed"     -> {"failed", "recognised", "operator"}
    [] r = "recognised" -> {"operator"}
    [] r = "operator"   -> {"operator"}

ArchiveInit ==
  /\ open = TRUE
  /\ expected = {}
  /\ result = [s \in Segments |-> "none"]
  /\ closed = FALSE

Announce(s) ==
  /\ open
  /\ s \notin expected
  /\ expected' = expected \cup {s}
  /\ UNCHANGED <<open, result, closed>>

Improve(s, r) ==
  /\ s \in expected
  /\ r \in Improvements(result[s])
  /\ result' = [result EXCEPT ![s] = r]
  /\ UNCHANGED <<open, expected, closed>>

StopAnnouncing ==
  /\ open
  /\ open' = FALSE
  /\ UNCHANGED <<expected, result, closed>>

Close ==
  /\ ~open
  /\ ~closed
  /\ \A s \in expected : result[s] # "none"
  /\ closed' = TRUE
  /\ UNCHANGED <<open, expected, result>>

ArchiveNext ==
  \/ \E s \in Segments : Announce(s)
  \/ \E s \in Segments, r \in Results : Improve(s, r)
  \/ StopAnnouncing
  \/ Close

ArchiveSpec == ArchiveInit /\ [][ArchiveNext]_archiveVars
=============================================================================
