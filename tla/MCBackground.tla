---------------------------- MODULE MCBackground ----------------------------
(***************************************************************************)
(* Work beside a meeting in one instance for TLC.  The parts share no      *)
(* state: an execution explores one of them, chosen at its beginning.      *)
(* SpeakerLabels is taken twice: with more texts, and with more of what    *)
(* the operator does and an accident.                                      *)
(***************************************************************************)
EXTENDS SpeakerLabels, PeerReplica, ModelInstall

VARIABLES
  part,
  \* ReadGateway
  gate, grant, conn, shut, reader, active

gatewayVars == <<gate, grant, conn, shut, reader, active>>
all == <<part, vars, peerVars, gatewayVars, installVars>>

Switches == INSTANCE SpeakerLabels WITH
  MaxSeq <- 2, MaxRevision <- 2, MaxGeneration <- 2, MaxAccidents <- 1

Gateway == INSTANCE ReadGateway WITH
  Slots <- 2, GrantLimit <- 1, MaxGateway <- 1, MaxGrant <- 1, MaxConn <- 2, Pieces <- 1

InitAll ==
  /\ part \in {"texts", "switches", "peer", "gateway", "install"}
  /\ Init /\ PeerInit /\ Gateway!GatewayInit /\ InstallInit

(* Ids are compared for equality only, so one of them may be the first.    *)
PublicsInTurn == changeLog' # <<>> => changeLog'[1].public = CHOOSE p \in Publics : TRUE

NextAll ==
  /\ UNCHANGED part
  /\ \/ part = "texts" /\ Next /\ UNCHANGED <<peerVars, gatewayVars, installVars>>
     \/ part = "switches" /\ Switches!Next /\ UNCHANGED <<peerVars, gatewayVars, installVars>>
     \/ part = "peer" /\ PeerNext /\ PublicsInTurn /\ UNCHANGED <<vars, gatewayVars, installVars>>
     \/ part = "gateway" /\ Gateway!GatewayNext /\ UNCHANGED <<vars, peerVars, installVars>>
     \/ part = "install" /\ InstallNext /\ UNCHANGED <<vars, peerVars, gatewayVars>>

(* The fairness of each module, for the part that is explored: the thread  *)
(* that labels and the core, the mirror's polling thread and its owner, the*)
(* installers and an operator who asks for the models until they are there,*)
(* the accepting thread, the drop of a gateway, and its requests.          *)
FairAll ==
  /\ WF_vars(\/ part = "texts" /\ Thread
             \/ part = "switches" /\ Switches!Thread)
  /\ WF_vars(part \in {"texts", "switches"} /\ Core)
  /\ WF_peerVars(part = "peer" /\ SyncStep)
  /\ WF_peerVars(part = "peer" /\ AnswerSync)
  /\ \A p \in Processes : WF_programVars(part = "install" /\ Installer(p))
  /\ WF_programVars(part = "install" /\ Asker)
  /\ WF_gatewayVars(part = "gateway" /\ Gateway!Worker(1))
  /\ WF_gatewayVars(part = "gateway" /\ Gateway!Drop(1))
  /\ \A c \in {1, 2} : WF_gatewayVars(part = "gateway" /\ Gateway!Request(c))

SpecAll == InitAll /\ [][NextAll]_all /\ FairAll

----------------------------------------------------------------------------
(* What ReadGateway says of the end of a gateway.                          *)
DropEnds == part = "gateway" => Gateway!DropEnds

(* What ModelInstall says of the end of a download.                        *)
ModelsArrive == part = "install" => InstallCompletes
=============================================================================
