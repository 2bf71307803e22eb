------------------------------ MODULE MCLedger ------------------------------
(***************************************************************************)
(* The ledger in one instance for TLC: alone, with handlers called in any  *)
(* order, or under the delivery of finals by three hosts.  An execution    *)
(* explores one of them, chosen at its beginning.  The ledger alone has    *)
(* two runs of the ASR process and two tracks, the delivery three runs and *)
(* one track.                                                              *)
(***************************************************************************)
EXTENDS FinalDelivery, TLC

VARIABLE part

all == <<part, deliveryVars>>

(* The ids of segments are interchangeable, and so are those of tracks.    *)
LedgerSymmetry ==
  {s @@ t : s \in Permutations(Segments), t \in Permutations(Tracks)}

InitAll ==
  /\ ProcessesInit
  /\ \/ part = "ledger" /\ Init
     \/ part = "delivery" /\ Prepared

(* The third run stays unused. *)
TwoRuns == finals'[3] = {} /\ \A p \in producerSeals' \cup reconciliations' : p.run # 3

NextAll ==
  /\ UNCHANGED part
  /\ \/ part = "ledger" /\ Next /\ TwoRuns /\ UNCHANGED processVars
     \/ part = "delivery" /\ DeliveryNext

SpecAll == InitAll /\ [][NextAll]_all
=============================================================================
