------------------------------ MODULE KillSync ------------------------------
(***************************************************************************)
(* The objects that are gone for all players when one has killed them.  A  *)
(* game reports an object by its id, the others kill theirs.  The kill of  *)
(* a kameck or a donketsu is hooked, so the kill that the handler makes is *)
(* reported as well, to the game it came from among others; that of a      *)
(* shadow mario is not, for the hook is in a nerve of the player's fight.  *)
(* mKilledByHook is there to end that exchange.                            *)
(*                                                                         *)
(* One object: they do not meet.  It is taken not to come back while its   *)
(* scene lasts; a new scene has a new one.  The packets are reliable and   *)
(* ordered, and the server keeps none of them.                             *)
(***************************************************************************)
EXTENDS Integers

CONSTANTS
  Players,
  MaxVisits \* bound: scenes that are built

VARIABLES
  hooked,       \* the object's kill() is hooked
  inScene,      \* per player: its handlers find a scene
  striking,     \* per player: the game thread is about to kill the object
  dead,         \* per player: the object has been killed
  killedByHook, \* per player: mKilledByHook
  killUp,       \* per player: how many reports are on their way to the server
  killDown,     \* per player: and how many to the game
  reports,      \* history, per player: reports since the scene was built
  heard,        \* history, per player: a report was made since
  scenes         \* history: scenes that were built

objectVars == <<striking, dead, killedByHook>>
vars == <<hooked, inScene, objectVars, killUp, killDown, reports, heard, scenes>>

TypeOK ==
  /\ hooked \in BOOLEAN
  /\ inScene \in [Players -> BOOLEAN]
  /\ striking \in [Players -> BOOLEAN]
  /\ dead \in [Players -> BOOLEAN]
  /\ killedByHook \in [Players -> BOOLEAN]
  /\ killUp \in [Players -> Nat]
  /\ killDown \in [Players -> Nat]
  /\ reports \in [Players -> Nat]
  /\ heard \in [Players -> BOOLEAN]
  /\ scenes \in 0 .. MaxVisits

Nobody == [p \in Players |-> FALSE]
Zero == [p \in Players |-> 0]

Init ==
  /\ hooked \in BOOLEAN
  /\ inScene = [p \in Players |-> TRUE]
  /\ striking = Nobody /\ dead = Nobody /\ killedByHook = Nobody
  /\ killUp = Zero /\ killDown = Zero
  /\ reports = Zero /\ heard = Nobody
  /\ scenes = 0

-----------------------------------------------------------------------------
(* The game thread *)

(* sendPacket of a KillActorByObjId. *)
Report(p) ==
  /\ killUp' = [killUp EXCEPT ![p] = @ + 1]
  /\ reports' = [reports EXCEPT ![p] = @ + 1]
  /\ heard' = [q \in Players |-> heard[q] \/ inScene[q]]

(* Only an object that is there is struck, but the handler may be faster. *)
Strike(p) ==
  /\ inScene[p] /\ ~dead[p] /\ ~striking[p]
  /\ striking' = [striking EXCEPT ![p] = TRUE]
  /\ UNCHANGED <<hooked, inScene, dead, killedByHook, killUp, killDown, reports,
                 heard, scenes>>

(* kameckKillHook, donketsuKill, or the first step of shadowMarioKill's nerve. *)
Kill(p) ==
  /\ striking[p]
  /\ striking' = [striking EXCEPT ![p] = FALSE]
  /\ dead' = [dead EXCEPT ![p] = TRUE]
  /\ Report(p)
  /\ UNCHANGED <<hooked, inScene, killedByHook, killDown, scenes>>

Leave(p) ==
  /\ inScene[p] /\ ~striking[p]
  /\ inScene' = [inScene EXCEPT ![p] = FALSE]
  /\ UNCHANGED <<hooked, objectVars, killUp, killDown, reports, heard, scenes>>

(* A new scene, whose placement holders are new. *)
Enter(p) ==
  /\ ~inScene[p] /\ scenes < MaxVisits
  /\ inScene' = [inScene EXCEPT ![p] = TRUE]
  /\ dead' = [dead EXCEPT ![p] = FALSE]
  /\ killedByHook' = [killedByHook EXCEPT ![p] = FALSE]
  /\ reports' = [reports EXCEPT ![p] = 0]
  /\ heard' = [heard EXCEPT ![p] = FALSE]
  /\ scenes' = scenes + 1
  /\ UNCHANGED <<hooked, striking, killUp, killDown>>

-----------------------------------------------------------------------------
(* The server and the network thread *)

Redistribute(p) ==
  /\ killUp[p] > 0
  /\ killUp' = [killUp EXCEPT ![p] = @ - 1]
  /\ killDown' = [q \in Players |-> IF q = p THEN killDown[q] ELSE killDown[q] + 1]
  /\ UNCHANGED <<hooked, inScene, objectVars, reports, heard, scenes>>

(* The handler leaves an object alone that it has killed before; and a mutant
   kills it again. *)
SparesNone(p) == FALSE

Spares(p) == killedByHook[p]

(* handleToC_MiscMapSync: actor->kill() goes through the hook. *)
handleKill(p) ==
  /\ killDown[p] > 0
  /\ killDown' = [killDown EXCEPT ![p] = @ - 1]
  /\ IF inScene[p] /\ ~Spares(p)
     THEN /\ dead' = [dead EXCEPT ![p] = TRUE]
          /\ killedByHook' = [killedByHook EXCEPT ![p] = TRUE]
          /\ IF hooked THEN Report(p) ELSE UNCHANGED <<killUp, reports, heard>>
     ELSE UNCHANGED <<dead, killedByHook, killUp, reports, heard>>
  /\ UNCHANGED <<hooked, inScene, striking, scenes>>

Next ==
  \E p \in Players : Strike(p) \/ Kill(p) \/ Leave(p) \/ Enter(p)
                     \/ Redistribute(p) \/ handleKill(p)

Spec == Init /\ [][Next]_vars

-----------------------------------------------------------------------------
Quiet == killUp = Zero /\ killDown = Zero /\ striking = Nobody

(* The games do not go on killing an object for each other: none reports it
   more than twice in a scene, once for its player and once for the handler,
   also if the other's report is that of its own; and when all has arrived the
   object is gone from every scene that was there when somebody reported it
   (MiscMapSync.cpp:33-45, 158-177, 295-309). *)
KillsSettle ==
  /\ \A p \in Players : reports[p] <= 2
  /\ Quiet => \A p \in Players : inScene[p] /\ heard[p] => dead[p]
=============================================================================
