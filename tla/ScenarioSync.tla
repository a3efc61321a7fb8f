---------------------------- MODULE ScenarioSync ----------------------------
(***************************************************************************)
(* The scenario of an island, which a player's progress changes.  A game   *)
(* reports its own changes from the game thread and applies the others'    *)
(* on the network thread; while it applies one, a flag keeps the game      *)
(* thread's hooks from reporting (GoalItemSync.cpp:77-114, 278-312).  The   *)
(* server tells the others, then stores the change, and replays what it    *)
(* has stored to a player that enters the scene, on a thread of its own.   *)
(*                                                                         *)
(* One island: they do not meet.  The packets are reliable and ordered.    *)
(***************************************************************************)
EXTENDS Integers, Sequences

CONSTANTS
  Players,
  Scenarios,
  None,
  MaxChanges, \* bound: changes by the games
  MaxVisits   \* bound: scenes that are built

VARIABLES
  stored,       \* the server's islandToScenarioMap, for the island
  storing,      \* a change that the server thread has redistributed
  replaying,    \* per player: a replay thread, from its start to its end
  scenario,     \* per player: what its game has
  visiting,     \* per player: its handlers find a scene
  hookEnabled,  \* per player: sIsPhaseHookEnabled
  handling,     \* per player: the change its network thread is applying
  changing,     \* per player: a change whose hook has not looked at the flag
  up,           \* per player: ToS_ScenarioUpdate on their way
  down,         \* per player: ToC_ScenarioUpdate on their way
  entering,     \* per player: a ToS_SingleModeSceneEnter is on its way
  changes,      \* history: changes by the games
  visits,       \* history: scenes that were built
  since         \* history, of the time since all was quiet: the changes, whether
                \*   the flag hid one, whether a replay or another change met one

serverVars == <<stored, storing, replaying>>
gameVars   == <<scenario, visiting, hookEnabled, handling, changing>>
netVars    == <<up, down, entering>>
histVars   == <<changes, visits>>
vars == <<serverVars, gameVars, netVars, histVars, since>>

Known == Scenarios \cup {None}

TypeOK ==
  /\ stored \in Known
  /\ storing \in Known
  /\ replaying \in [Players -> Known \cup {"started"}]
  /\ scenario \in [Players -> Scenarios]
  /\ visiting \in [Players -> BOOLEAN]
  /\ hookEnabled \in [Players -> BOOLEAN]
  /\ handling \in [Players -> Known \cup {"applied"}]
  /\ changing \in [Players -> Known]
  /\ up \in [Players -> Seq(Scenarios)]
  /\ down \in [Players -> Seq(Scenarios)]
  /\ entering \in [Players -> BOOLEAN]
  /\ changes \in 0 .. MaxChanges
  /\ visits \in 0 .. MaxVisits
  /\ since \in [changes : 0 .. MaxChanges, hidden : BOOLEAN, met : BOOLEAN]

Init ==
  /\ stored = None /\ storing = None
  /\ replaying = [p \in Players |-> None]
  /\ scenario \in [Players -> Scenarios]
  /\ visiting = [p \in Players |-> TRUE]
  /\ hookEnabled = [p \in Players |-> TRUE]
  /\ handling = [p \in Players |-> None]
  /\ changing = [p \in Players |-> None]
  /\ up = [p \in Players |-> <<>>]
  /\ down = [p \in Players |-> <<>>]
  /\ entering = [p \in Players |-> FALSE]
  /\ changes = 0 /\ visits = 0
  /\ since = [changes |-> 0, hidden |-> FALSE, met |-> FALSE]

-----------------------------------------------------------------------------
Quiet ==
  /\ storing = None
  /\ \A p \in Players :
       /\ replaying[p] = None /\ handling[p] = None /\ changing[p] = None
       /\ up[p] = <<>> /\ down[p] = <<>> /\ ~entering[p]

(* The game thread: setScenarioIDHook sets the scenario, then reads the flag. *)
Change(p, s) ==
  /\ changes < MaxChanges
  /\ visiting[p] /\ changing[p] = None
  /\ scenario' = [scenario EXCEPT ![p] = s]
  /\ changing' = [changing EXCEPT ![p] = s]
  /\ changes' = changes + 1
  /\ since' = IF Quiet THEN [changes |-> 1, hidden |-> FALSE, met |-> FALSE]
                       ELSE [since EXCEPT !.changes = @ + 1]
  /\ UNCHANGED <<serverVars, visiting, hookEnabled, handling, netVars, visits>>

Report(p) ==
  /\ changing[p] # None
  /\ changing' = [changing EXCEPT ![p] = None]
  /\ IF hookEnabled[p]
       THEN up' = [up EXCEPT ![p] = Append(@, changing[p])] /\ UNCHANGED since
       ELSE since' = [since EXCEPT !.hidden = TRUE] /\ UNCHANGED up
  /\ UNCHANGED <<serverVars, scenario, visiting, hookEnabled, handling, down,
                 entering, histVars>>

Leave(p) ==
  /\ visiting[p] /\ changing[p] = None /\ handling[p] = None
  /\ visiting' = [visiting EXCEPT ![p] = FALSE]
  /\ UNCHANGED <<serverVars, scenario, hookEnabled, handling, changing, netVars,
                 histVars, since>>

(* The scene is there when SceneEnter is sent (singleModeSceneInitHook). *)
Enter(p) ==
  /\ ~visiting[p] /\ ~entering[p] /\ visits < MaxVisits
  /\ visiting' = [visiting EXCEPT ![p] = TRUE]
  /\ entering' = [entering EXCEPT ![p] = TRUE]
  /\ visits' = visits + 1
  /\ UNCHANGED <<serverVars, scenario, hookEnabled, handling, changing, up, down,
                 changes, since>>

-----------------------------------------------------------------------------
(* The network thread: handleToC_ScenarioUpdate *)

DropUpdate(p) ==
  /\ down[p] # <<>> /\ handling[p] = None
  /\ ~visiting[p]
  /\ down' = [down EXCEPT ![p] = Tail(@)]
  /\ UNCHANGED <<serverVars, gameVars, up, entering, histVars, since>>

BeginUpdate(p) ==
  /\ down[p] # <<>> /\ handling[p] = None
  /\ visiting[p]
  /\ down' = [down EXCEPT ![p] = Tail(@)]
  /\ handling' = [handling EXCEPT ![p] = Head(down[p])]
  /\ hookEnabled' = [hookEnabled EXCEPT ![p] = FALSE]
  /\ since' = [since EXCEPT !.met = @ \/ up[p] # <<>> \/ changing[p] # None]
  /\ UNCHANGED <<serverVars, scenario, visiting, changing, up, entering, histVars>>

ApplyUpdate(p) ==
  /\ handling[p] \in Scenarios
  /\ scenario' = [scenario EXCEPT ![p] = handling[p]]
  /\ handling' = [handling EXCEPT ![p] = "applied"]
  /\ UNCHANGED <<serverVars, visiting, hookEnabled, changing, netVars, histVars, since>>

EndUpdate(p) ==
  /\ handling[p] = "applied"
  /\ handling' = [handling EXCEPT ![p] = None]
  /\ hookEnabled' = [hookEnabled EXCEPT ![p] = TRUE]
  /\ UNCHANGED <<serverVars, scenario, visiting, changing, netVars, histVars, since>>

-----------------------------------------------------------------------------
(* The server *)

Others(p) == Players \ {p}

(* handleScenarioUpdate first redistributes, then stores. *)
Redistribute(p) ==
  /\ up[p] # <<>> /\ storing = None
  /\ up' = [up EXCEPT ![p] = Tail(@)]
  /\ down' = [q \in Players |-> IF q \in Others(p) THEN Append(down[q], Head(up[p]))
                                                  ELSE down[q]]
  /\ storing' = Head(up[p])
  /\ since' = [since EXCEPT !.met =
                 \/ @ \/ down[p] # <<>> \/ handling[p] # None
                 \/ \E q \in Players : replaying[q] \in Scenarios]
  /\ UNCHANGED <<stored, replaying, gameVars, entering, histVars>>

(* What the map then has for the island; a mutant inserts, and so keeps what is
   there. *)
Inserted == IF stored = None THEN storing ELSE stored

Assigned == storing

Store ==
  /\ storing # None
  /\ stored' = Assigned /\ storing' = None
  /\ UNCHANGED <<replaying, gameVars, netVars, histVars, since>>

(* handleSingleModeSceneEnter, a thread of its own: it reads, then sends. *)
StartReplay(p) ==
  /\ entering[p] /\ replaying[p] = None /\ storing = None
  /\ entering' = [entering EXCEPT ![p] = FALSE]
  /\ replaying' = [replaying EXCEPT ![p] = "started"]
  /\ UNCHANGED <<stored, storing, gameVars, up, down, histVars, since>>

ReadScenario(p) ==
  /\ replaying[p] = "started"
  /\ replaying' = [replaying EXCEPT ![p] = stored]
  /\ since' = [since EXCEPT !.met = @ \/ storing # None]
  /\ UNCHANGED <<stored, storing, gameVars, netVars, histVars>>

SendReplay(p) ==
  /\ replaying[p] \in Scenarios
  /\ replaying' = [replaying EXCEPT ![p] = None]
  /\ down' = [down EXCEPT ![p] = Append(@, replaying[p])]
  /\ UNCHANGED <<stored, storing, gameVars, up, entering, histVars, since>>

Next ==
  \/ \E p \in Players :
       \/ \E s \in Scenarios : Change(p, s)
       \/ Report(p) \/ Leave(p) \/ Enter(p)
       \/ DropUpdate(p) \/ BeginUpdate(p) \/ ApplyUpdate(p) \/ EndUpdate(p)
       \/ Redistribute(p) \/ StartReplay(p) \/ ReadScenario(p) \/ SendReplay(p)
  \/ Store

Spec == Init /\ [][Next]_vars

-----------------------------------------------------------------------------
(* A change of one player reaches the server and every game with a scene, and
   comes back from none of them - also the games that enter meanwhile and what
   they had before.  Unless a second change crossed it, the flag hid it, or a
   replay met it: read before and sent after it, or on its way to the player
   while that player's change was on its way up (GoalItemSync.cpp:93-114,
   278-312, ProjectPacketHandler.cpp:54-63, 127-134). *)
ScenariosAgree ==
  Quiet /\ since.changes = 1 /\ ~since.hidden /\ ~since.met =>
    \A p \in Players : visiting[p] => scenario[p] = stored
==============================================================================
