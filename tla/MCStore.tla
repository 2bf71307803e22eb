------------------------------- MODULE MCStore -------------------------------
(***************************************************************************)
(* The bookkeeping of translations, the gateways and the Python agent in   *)
(* one instance for TLC.  They share no state: an execution explores one   *)
(* of them, chosen at its beginning.                                       *)
(*                                                                         *)
(* Two translations, context, failures and directions together are too     *)
(* many states: there are either two translations, of one attempt each,    *)
(* that use each other's texts (the constants of the configuration), or    *)
(* one through its failures, retries, revisions and changes of direction.  *)
(***************************************************************************)
EXTENDS TranslationCoverage, ReadGateway, ForumAgent, TLC

CONSTANT OneTranslation

VARIABLE part

all == <<part, vars, gatewayVars, agentVars>>

(* A direction into the only language; into no language, one or all.       *)
OneTarget == {Targets}
AnyTargets == SUBSET Targets

Revisions == INSTANCE TranslationCoverage WITH
  Translations <- {OneTranslation}, TargetChoices <- AnyTargets,
  Outcomes <- {"success", "failed"}, MaxContext <- 0, MaxRequest <- 2, MaxAttempt <- 2,
  MaxEpoch <- 2

InitAll ==
  /\ part \in {"two", "one", "gateways", "agent"}
  /\ Init /\ GatewayInit /\ AgentInit

(* Ids are compared for equality only, so one of them may be the first.    *)
TranslationsInTurn == Known' # {} => OneTranslation \in Known'

NextAll ==
  /\ UNCHANGED part
  /\ \/ part = "two" /\ Next /\ TranslationsInTurn /\ UNCHANGED <<gatewayVars, agentVars>>
     \/ part = "one" /\ Revisions!Next /\ UNCHANGED <<gatewayVars, agentVars>>
     \/ part = "gateways" /\ GatewayNext /\ UNCHANGED <<vars, agentVars>>
     \/ part = "agent" /\ AgentNext /\ UNCHANGED <<vars, gatewayVars>>

SpecAll == InitAll /\ [][NextAll]_all
=============================================================================
