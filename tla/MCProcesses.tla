---------------------------- MODULE MCProcesses ----------------------------
(***************************************************************************)
(* Four parts of the application in one instance for TLC.  They share no   *)
(* state, so an execution explores one of them, chosen at its beginning;   *)
(* the others stay as they are.  The translator is taken twice: with more  *)
(* processes and a recovery asked for, and with a correction.              *)
(***************************************************************************)
EXTENDS CoreActor, LiveRuntime, TranslatorNode, TLC

VARIABLE part
all == <<part, vars, runtimeVars, nodeVars>>

Accidents == INSTANCE TranslatorNode WITH MaxRuns <- 2, MaxActions <- 0, MaxCorrections <- 1

InitAll ==
  /\ part \in {"actor", "runtime", "recoveries", "accidents"}
  /\ Init /\ RuntimeInit /\ NodeInit

NextAll ==
  /\ UNCHANGED part
  /\ \/ part = "actor" /\ Next /\ UNCHANGED <<runtimeVars, nodeVars>>
     \/ part = "runtime" /\ RuntimeNext /\ UNCHANGED <<vars, nodeVars>>
     \/ part = "recoveries" /\ NodeNext /\ UNCHANGED <<vars, runtimeVars>>
     \/ part = "accidents" /\ Accidents!NodeNext /\ UNCHANGED <<vars, runtimeVars>>

(* The fairness of each module, for the part that is explored.             *)
FairAll ==
  /\ WF_vars(part = "actor" /\ ThreadStep)
  /\ \A x \in Calls \cup Closers : WF_vars(part = "actor" /\ Hear(x))
  /\ WF_runtimeVars(part = "runtime" /\ Worker)
  /\ WF_nodeVars((part = "recoveries" /\ Loop) \/ (part = "accidents" /\ Accidents!Loop))
  /\ WF_nodeVars((part = "recoveries" /\ Complete) \/ (part = "accidents" /\ Accidents!Complete))

SpecAll == InitAll /\ [][NextAll]_all /\ FairAll

----------------------------------------------------------------------------
(* Every text is settled.                                                  *)
EveryTextSettles == part \in {"recoveries", "accidents"} => TextsSettle
=============================================================================
