---------------------------- MODULE PatanPanels -----------------------------
(***************************************************************************)
(* A chain of panels that unfold one after the other when a player steps   *)
(* on a starter, and fold up again from the first one as soon as the last  *)
(* is open.  Starter and panels only know of each other through a stage    *)
(* switch, the panels through the links mLast and mNext.                   *)
(*                                                                         *)
(* The listeners of the switch are taken to be called when it changes; the *)
(* first panel is taken to be the only one that is placed with a switch.   *)
(* Of a nerve with an animation or a rotation only its end is a step.      *)
(***************************************************************************)
EXTENDS Integers

CONSTANTS
  Panels,  \* the number of panels in the chain, mNext from each to the next
  Starters \* blocks that turn on the same switch

(* The last panel finds the first one by its link to the panel before it. *)
ASSUME PanelsAssumption == Panels \in Nat /\ Panels >= 2

VARIABLES
  nerve,    \* per panel; StartedNext is StartNext after its first step
  alive,    \* per panel: it is executed
  solid,    \* per panel: its collision is valid
  isOn,     \* the stage switch OpenSwitchOff of the panels, StartSwitchOn of
            \*   the starters
  starter,  \* per starter: its nerve
  restarts  \* history: the chain has been started while a panel was alive

vars == <<nerve, alive, solid, isOn, starter, restarts>>

Chain == 1 .. Panels

Closing == {"CloseSign", "CloseFace", "Close"}

TypeOK ==
  /\ nerve \in [Chain -> {"OpenStart", "Open", "StartNext", "StartedNext"} \cup Closing]
  /\ alive \in [Chain -> BOOLEAN]
  /\ solid \in [Chain -> BOOLEAN]
  /\ isOn \in BOOLEAN
  /\ starter \in [Starters -> {"OffWait", "ToOn", "OnWait", "ToOff"}]
  /\ restarts \in BOOLEAN

(* A panel does not appear before it is started. *)
Init ==
  /\ nerve = [i \in Chain |-> "OpenStart"]
  /\ alive = [i \in Chain |-> FALSE]
  /\ solid = [i \in Chain |-> FALSE]
  /\ isOn = FALSE
  /\ starter = [s \in Starters |-> "OffWait"]
  /\ restarts = FALSE

-----------------------------------------------------------------------------
start(i) ==
  /\ alive' = [alive EXCEPT ![i] = TRUE]
  /\ nerve' = [nerve EXCEPT ![i] = "OpenStart"]
  /\ solid' = [solid EXCEPT ![i] = FALSE]

(* The starters *)

(* A touch; and a mutant that sets the nerve of a panel. *)
SetPanelNerve(s) ==
  /\ starter[s] = "OffWait"
  /\ starter' = [starter EXCEPT ![s] = "OpenStart"]
  /\ UNCHANGED <<nerve, alive, solid, isOn, restarts>>

receiveMsg(s) ==
  /\ starter[s] = "OffWait"
  /\ starter' = [starter EXCEPT ![s] = "ToOn"]
  /\ UNCHANGED <<nerve, alive, solid, isOn, restarts>>

exeToOn(s) ==
  /\ starter[s] = "ToOn"
  /\ starter' = [starter EXCEPT ![s] = "OnWait"]
  /\ isOn' = TRUE
  /\ IF isOn THEN UNCHANGED <<nerve, alive, solid>> ELSE start(1)
  /\ restarts' = (restarts \/ (~isOn /\ \E i \in Chain : alive[i]))

exeToOff(s) ==
  /\ starter[s] = "ToOff"
  /\ starter' = [starter EXCEPT ![s] = "OffWait"]
  /\ UNCHANGED <<nerve, alive, solid, isOn, restarts>>

(* The starters' listener: only one that waits is closed. *)
CloseStarters ==
  starter' = [s \in Starters |-> IF starter[s] = "OnWait" THEN "ToOff" ELSE starter[s]]

-----------------------------------------------------------------------------
(* The panels *)

exeOpenStart(i) ==
  /\ alive[i] /\ nerve[i] = "OpenStart"
  /\ nerve' = [nerve EXCEPT ![i] = "Open"]
  /\ UNCHANGED <<alive, solid, isOn, starter, restarts>>

exeOpen(i) ==
  /\ alive[i] /\ nerve[i] = "Open"
  /\ nerve' = [nerve EXCEPT ![i] = "StartNext"]
  /\ solid' = [solid EXCEPT ![i] = TRUE]
  /\ UNCHANGED <<alive, isOn, starter, restarts>>

StartNext(i) ==
  /\ alive[i] /\ nerve[i] = "StartNext" /\ i < Panels
  /\ alive' = [alive EXCEPT ![i + 1] = TRUE]
  /\ nerve' = [nerve EXCEPT ![i] = "StartedNext", ![i + 1] = "OpenStart"]
  /\ solid' = [solid EXCEPT ![i + 1] = FALSE]
  /\ UNCHANGED <<isOn, starter, restarts>>

(* A mutant: the last panel begins with itself. *)
CloseItself ==
  /\ alive[Panels] /\ nerve[Panels] = "StartNext"
  /\ nerve' = [nerve EXCEPT ![Panels] = "CloseSign"]
  /\ UNCHANGED <<alive, solid, isOn, starter, restarts>>

(* In every step the last panel sees to it that the first one is closing,
   also if that one is dead. *)
StartClose ==
  /\ alive[Panels] /\ nerve[Panels] = "StartNext"
  /\ nerve[1] \notin Closing
  /\ nerve' = [nerve EXCEPT ![1] = "CloseSign"]
  /\ UNCHANGED <<alive, solid, isOn, starter, restarts>>

exeCloseSign(i) ==
  /\ alive[i] /\ nerve[i] = "CloseSign"
  /\ nerve' = [nerve EXCEPT ![i] = "CloseFace"]
  /\ UNCHANGED <<alive, solid, isOn, starter, restarts>>

exeCloseFace(i) ==
  /\ alive[i] /\ nerve[i] = "CloseFace"
  /\ nerve' = [nerve EXCEPT ![i] = "Close"]
  /\ solid' = [solid EXCEPT ![i] = FALSE]
  /\ UNCHANGED <<alive, isOn, starter, restarts>>

(* Folded onto the next panel, which closes in its turn. *)
exeClose(i) ==
  /\ alive[i] /\ nerve[i] = "Close" /\ i < Panels
  /\ nerve' = [nerve EXCEPT ![i + 1] = "CloseSign"]
  /\ alive' = [alive EXCEPT ![i] = FALSE]
  /\ UNCHANGED <<solid, isOn, starter, restarts>>

(* The last panel of the chain turns the switch off; a mutant leaves it. *)
LeaveStageSwitch == isOn' = isOn

tryOffStageSwitch == isOn' = FALSE

CloseLast ==
  /\ alive[Panels] /\ nerve[Panels] = "Close"
  /\ alive' = [alive EXCEPT ![Panels] = FALSE]
  /\ tryOffStageSwitch
  /\ IF isOn /\ ~isOn' THEN CloseStarters ELSE UNCHANGED starter
  /\ UNCHANGED <<nerve, solid, restarts>>

ExecutePanel(i) ==
  \/ exeOpenStart(i) \/ exeOpen(i) \/ StartNext(i)
  \/ exeCloseSign(i) \/ exeCloseFace(i) \/ exeClose(i)

ExecuteLast == StartClose \/ CloseLast

ExecuteStarter(s) == exeToOn(s) \/ exeToOff(s)

Next ==
  \/ \E s \in Starters : receiveMsg(s) \/ ExecuteStarter(s)
  \/ \E i \in Chain : ExecutePanel(i)
  \/ ExecuteLast

(* Every live actor is executed in every frame, and every animation ends. *)
Fairness ==
  /\ \A s \in Starters : WF_vars(ExecuteStarter(s))
  /\ \A i \in Chain : WF_vars(ExecutePanel(i))
  /\ WF_vars(ExecuteLast)

Spec == Init /\ [][Next]_vars
FairSpec == Spec /\ Fairness

-----------------------------------------------------------------------------
(* A starter that was touched becomes one that can be touched again, though
   nothing but the last panel turns the switch off, and it closes only the
   starters that wait at that moment (PatanPanelStarter.cpp:55-84,
   PatanPanel.cpp:141-199). *)
StartersComeBack == \A s \in Starters : starter[s] = "ToOn" ~> starter[s] = "OffWait"

(* The folding never meets the unfolding: a panel that closes has only open
   panels after it and none but dead ones before it, the chain is not started
   while one of its panels is alive, and what is not solid is not open. *)
FoldsFromTheFirst ==
  /\ ~restarts
  /\ \A i \in Chain : alive[i] /\ nerve[i] \in Closing =>
       /\ \A j \in 1 .. i - 1 : ~alive[j]
       /\ \A j \in i + 1 .. Panels : alive[j] /\ solid[j]
==============================================================================
