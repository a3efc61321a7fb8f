------------------------------ MODULE MCClient ------------------------------
(***************************************************************************)
(* What one game has to come to in the end: its menu and its connection,   *)
(* its chain of panels, the phase of its disaster mode.  They do not meet, *)
(* so a behaviour is about one of them and the others stay as they begin.  *)
(*                                                                         *)
(* Two chunks; two lost connections, one in a download and one in the      *)
(* game; two starters and three panels; two players.                       *)
(***************************************************************************)
EXTENDS Connection, Sequences

CONSTANTS
  Panels, Starters,
  Players, MaxAdvances, MaxMoves, MaxHosts

ASSUME DisastersAssumption ==
  MaxAdvances \in Nat /\ MaxMoves \in Nat /\ MaxHosts \in Nat

VARIABLES
  part, \* what this behaviour is about
  panelNerve, alive, solid, isOn, starter, restarts,
  phase, lastPhase, disableClock, stage, hostPlayer, isHost, phaseUp, phaseDown,
  advances, moves, hosts

Chains    == INSTANCE PatanPanels WITH nerve <- panelNerve
Disasters == INSTANCE DisasterSync WITH host <- hostPlayer

chainVars    == <<panelNerve, alive, solid, isOn, starter, restarts>>
disasterVars == <<phase, lastPhase, disableClock, stage, hostPlayer, isHost, phaseUp,
                  phaseDown, advances, moves, hosts>>

allVars == <<vars, part, chainVars, disasterVars>>

OnlyMenu      == part = "menu" /\ UNCHANGED <<part, chainVars, disasterVars>>
OnlyChain     == part = "chain" /\ UNCHANGED <<part, vars, disasterVars>>
OnlyDisasters == part = "disasters" /\ UNCHANGED <<part, vars, chainVars>>

(* Who is the first host matters to the disasters only. *)
MCInit ==
  /\ part \in {"menu", "chain", "disasters"}
  /\ Init /\ Chains!Init /\ Disasters!Init
  /\ part # "disasters" => hostPlayer = CHOOSE p \in Players : TRUE

NextMenu      == OnlyMenu /\ Next
NextChain     == OnlyChain /\ Chains!Next
NextDisasters == OnlyDisasters /\ Disasters!Next

MCNext == NextMenu \/ NextChain \/ NextDisasters

(* The fairness of each module, for the behaviours that are about it. *)
MenuFairness ==
  /\ WF_vars(part = "menu" /\ crash = "none" /\ NetStep)
  /\ WF_vars(part = "menu" /\ crash = "none" /\ Frame)
  /\ SF_vars(part = "menu" /\ crash = "none" /\ Drop)
  /\ SF_vars(part = "menu" /\ crash = "none" /\ ReceiveChunk)

ChainFairness ==
  /\ \A s \in Starters : WF_chainVars(part = "chain" /\ Chains!ExecuteStarter(s))
  /\ \A i \in 1 .. Panels : WF_chainVars(part = "chain" /\ Chains!ExecutePanel(i))
  /\ WF_chainVars(part = "chain" /\ Chains!ExecuteLast)

DisasterFairness ==
  \A p \in Players :
    /\ WF_disasterVars(part = "disasters" /\ Disasters!LearnHost(p))
    /\ WF_disasterVars(part = "disasters" /\ Disasters!SeeNewNerve(p))
    /\ WF_disasterVars(part = "disasters" /\ Disasters!Refresh(p))
    /\ WF_disasterVars(part = "disasters" /\ Disasters!Redistribute(p))
    /\ WF_disasterVars(part = "disasters" /\ Disasters!handleUpdate(p))

MCSpec ==
  MCInit /\ [][MCNext]_allVars /\ MenuFairness /\ ChainFairness /\ DisasterFairness

-----------------------------------------------------------------------------
(* The starters of the chain of panels can be touched again (PatanPanels). *)
StartersComeBack == Chains!StartersComeBack

(* The games come to the host's phase of the disaster mode (DisasterSync). *)
DisasterFollows == Disasters!DisasterFollows
=============================================================================
