------------------------------ MODULE MCCapture ------------------------------
(***************************************************************************)
(* The capture of a meeting in one instance for TLC, and beside it the     *)
(* delivery of its finals with fair processes: an execution explores one   *)
(* of them, chosen at its beginning.  A single source is taken with two    *)
(* accidents, two sources with one and recorded.                          *)
(***************************************************************************)
EXTENDS CaptureJournal

VARIABLES
  part,
  \* FinalDelivery
  state, incomplete, sealed, tracks, captures, revisions, lost, finals, producerSeals,
  reconciliations, captureSeals, closed, host, open, ready, network, delivery, plan, planned,
  replayed, asrAt, asrRun, seq, accepted, runSealed, input, batch, call, finalOutbox, messages

deliveryVars == <<state, incomplete, sealed, tracks, captures, revisions, lost, finals,
  producerSeals, reconciliations, captureSeals, closed, host, open, ready, network, delivery,
  plan, planned, replayed, asrAt, asrRun, seq, accepted, runSealed, input, batch, call,
  finalOutbox, messages>>
all == <<part, vars, deliveryVars>>

TwoSources == INSTANCE CaptureJournal WITH MaxFaults <- 1, MaxRuns <- 3

Delivery == INSTANCE FinalDelivery WITH
  Tracks <- {"track"}, Segments <- {"s1", "s2"}, Gaps <- {}, Runs <- 1..2, NoRun <- 0,
  Statuses <- {"success", "failed"}, MaxSeq <- 2, MaxRevision <- 2, MaxSample <- 1,
  MaxHost <- 2, MaxLoss <- 1,
  gaps <- lost, journal <- closed, phase <- asrAt, run <- asrRun, outbox <- finalOutbox,
  losses <- messages

InitAll ==
  /\ part \in {"one source", "two sources", "delivery"}
  /\ Init /\ (part = "two sources" <=> Dual) /\ (part # "one source" => recording)
  /\ Delivery!DeliveryInit

NextAll ==
  /\ UNCHANGED part
  /\ \/ part = "one source" /\ Next /\ UNCHANGED deliveryVars
     \/ part = "two sources" /\ TwoSources!Next /\ UNCHANGED deliveryVars
     \/ part = "delivery" /\ Delivery!DeliveryNext /\ UNCHANGED vars

(* The fairness of each module, for the part that is explored.             *)
FairAll ==
  /\ WF_vars(\/ part = "one source" /\ Work
             \/ part = "two sources" /\ TwoSources!Work)
  /\ WF_vars(part # "delivery" /\ Recognise)
  /\ WF_vars(part # "delivery" /\ RequestStop)
  /\ WF_vars(\/ part = "one source" /\ Recover
             \/ part = "two sources" /\ TwoSources!Recover)
  /\ WF_deliveryVars(part = "delivery" /\ Delivery!AsrStep)
  /\ WF_deliveryVars(part = "delivery" /\ Delivery!ServerStep)
  /\ WF_deliveryVars(part = "delivery" /\ Delivery!HostStep)
  /\ WF_deliveryVars(part = "delivery" /\ Delivery!CaptureStep)

SpecAll == InitAll /\ [][NextAll]_all /\ FairAll

----------------------------------------------------------------------------
(* A recorded meeting ends sealed with a result for every segment.         *)
RecordingEnds == part # "delivery" => RecordingEndsComplete

(* What FinalDelivery says of the end: the transcript seals.               *)
TranscriptSeals == Delivery!TranscriptSeals
=============================================================================
