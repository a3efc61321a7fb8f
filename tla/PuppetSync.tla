----------------------------- MODULE PuppetSync -----------------------------
(***************************************************************************)
(* What one game, the watcher's, shows of the player of another: where it  *)
(* is and what figure it has.  Both are sent when they change only, the    *)
(* figure reliably, the pose not; and every player list makes the data of  *)
(* all players anew, in the watcher's game and in the player's own, which  *)
(* is what makes the player's game send again.  Lists, poses and figures   *)
(* go through channels of their own, so that they overtake each other.     *)
(*                                                                         *)
(* The server never writes mPlayerFigure, so that a list says None of all; *)
(* NetClient::exeConnect takes the event that would call onConnect.  The   *)
(* destructor of a puppet is taken to run with its scene.                  *)
(***************************************************************************)
EXTENDS Integers, Sequences

CONSTANTS
  Places,  \* where a player can be, but the origin; from one to another is a move
  Figures, \* but NoFigure
  MaxEvents \* bound: scenes, lists without one, moves, figures and lost poses

VARIABLES
  scene,      \* per game: its scene
  enterUp,    \* per game: a ToS_SingleModeSceneEnter is on its way
  listDown,   \* per game: how many player lists are on their way
  place,      \* the player's place
  lastPlace,  \* mLastTrans of the player's local data
  still,      \* its mFramesWithZeroDelta, 4 and more being the same
  figure,     \* the player's figure
  lastFigure, \* mLastFigure of its local data
  poses,      \* poses on their way, through the server
  figures,    \* changes of the figure on their way, through the server
  shown,      \* the watcher's game: mPoseData of the player
  puppet,     \* the player has a puppet there
  look,       \* and the figure of that puppet
  events,     \* history: scenes, lists without one, moves, figures, lost poses
  unseen      \* history: the last pose, the last figure did not count; a figure
              \*   changed before it was sent again after a list

gameVars   == <<place, lastPlace, still, figure, lastFigure>>
sentVars   == <<poses, figures>>
watchVars  == <<shown, puppet, look>>
vars == <<scene, enterUp, listDown, gameVars, sentVars, watchVars,
          events, unseen>>

Ends == {"player", "watcher"}

Origin == "origin"
Anywhere == "anywhere"
NoFigure == "none"

TypeOK ==
  /\ scene \in [Ends -> {"out", "loading", "in"}]
  /\ enterUp \in [Ends -> BOOLEAN]
  /\ listDown \in [Ends -> Nat]
  /\ place \in Places
  /\ lastPlace \in Places \cup {Anywhere}
  /\ still \in 0 .. 4
  /\ figure \in Figures \cup {NoFigure}
  /\ lastFigure \in Figures \cup {NoFigure}
  /\ poses \in Seq(Places)
  /\ figures \in Seq(Figures \cup {NoFigure})
  /\ shown \in Places \cup {Origin}
  /\ puppet \in BOOLEAN
  /\ look \in Figures \cup {NoFigure}
  /\ events \in 0 .. MaxEvents
  /\ unseen \in [pose : BOOLEAN, figure : BOOLEAN, unsaid : BOOLEAN]

(* Both have just had the list that their scenes brought about. *)
Init ==
  /\ scene = [g \in Ends |-> "in"]
  /\ enterUp = [g \in Ends |-> FALSE]
  /\ listDown = [g \in Ends |-> 0]
  /\ place \in Places
  /\ lastPlace = Anywhere
  /\ still = 0
  /\ figure = NoFigure /\ lastFigure = NoFigure
  /\ poses = <<>> /\ figures = <<>>
  /\ shown = Origin /\ puppet = TRUE /\ look = NoFigure
  /\ events = 0
  /\ unseen = [pose |-> FALSE, figure |-> FALSE, unsaid |-> FALSE]

-----------------------------------------------------------------------------
(* Scenes and lists *)

(* singleModeSceneInitHook: the puppets are there, the scene is not yet the
   current one, for which the handlers look. *)
Enter(g) ==
  /\ scene[g] = "out" /\ ~enterUp[g] /\ events < MaxEvents
  /\ scene' = [scene EXCEPT ![g] = "loading"]
  /\ enterUp' = [enterUp EXCEPT ![g] = TRUE]
  /\ events' = events + 1
  /\ UNCHANGED <<listDown, gameVars, sentVars, watchVars, unseen>>

Begin(g) ==
  /\ scene[g] = "loading"
  /\ scene' = [scene EXCEPT ![g] = "in"]
  /\ UNCHANGED <<enterUp, listDown, gameVars, sentVars, watchVars, events,
                 unseen>>

(* sceneDestroyHook, and the puppets' destructors. *)
Leave(g) ==
  /\ scene[g] = "in"
  /\ scene' = [scene EXCEPT ![g] = "out"]
  /\ puppet' = (puppet /\ g = "player")
  /\ UNCHANGED <<enterUp, listDown, gameVars, sentVars, shown, look, events,
                 unseen>>

SendList == listDown' = [g \in Ends |-> listDown[g] + 1]

(* handleSingleModeSceneEnter. *)
ReceiveEnter(g) ==
  /\ enterUp[g]
  /\ enterUp' = [enterUp EXCEPT ![g] = FALSE]
  /\ SendList
  /\ UNCHANGED <<scene, gameVars, sentVars, watchVars, events, unseen>>

(* Somebody else comes, goes or enters a scene. *)
News ==
  /\ events < MaxEvents
  /\ events' = events + 1
  /\ SendList
  /\ UNCHANGED <<scene, enterUp, gameVars, sentVars, watchVars, unseen>>

Listed(g) ==
  /\ listDown[g] > 0
  /\ listDown' = [listDown EXCEPT ![g] = @ - 1]

(* handlePlayerListPacket in the player's game: new local data; and a mutant
   that keeps the old. *)
KeepData == UNCHANGED <<lastPlace, still, lastFigure>>

NewData == lastPlace' = Anywhere /\ still' = 0 /\ lastFigure' = NoFigure

PlayerListed ==
  /\ Listed("player")
  /\ NewData
  /\ unseen' = [unseen EXCEPT !.unsaid = @ \/ figure # lastFigure]
  /\ UNCHANGED <<scene, enterUp, place, figure, sentVars, watchVars, events>>

(* And in the watcher's: a puppet, if there are any, and a pose at the origin. *)
WatcherListed ==
  /\ Listed("watcher")
  /\ shown' = Origin
  /\ puppet' = (scene["watcher"] # "out")
  /\ look' = NoFigure
  /\ UNCHANGED <<scene, enterUp, gameVars, sentVars, events, unseen>>

-----------------------------------------------------------------------------
(* The player's game *)

ChangeFigure ==
  /\ events < MaxEvents
  /\ figure' \in (Figures \cup {NoFigure}) \ {figure}
  /\ events' = events + 1
  /\ unseen' = [unseen EXCEPT !.unsaid = @ \/ figure # lastFigure]
  /\ UNCHANGED <<scene, enterUp, listDown, place, lastPlace, still, lastFigure, sentVars,
                 watchVars>>

Move ==
  /\ events < MaxEvents
  /\ place' \in Places \ {place}
  /\ events' = events + 1
  /\ UNCHANGED <<scene, enterUp, listDown, lastPlace, still, figure, lastFigure, sentVars,
                 watchVars, unseen>>

(* mFramesWithZeroDelta. *)
CountStill(moving) == IF moving THEN 0 ELSE IF still < 4 THEN still + 1 ELSE 4

(* PlayerData::updateLocal.  A frame in which the player moves is sent in one
   of six, one without a move if there were three before.  New data has no
   last place, so that its first frame may be either. *)
updateLocal ==
  /\ scene["player"] = "in"
  /\ \E moving, interval \in BOOLEAN :
       /\ lastPlace # Anywhere => moving = (place # lastPlace)
       /\ still' = CountStill(moving)
       /\ poses' = IF (moving /\ interval) \/ still = 3 THEN Append(poses, place) ELSE poses
  /\ lastPlace' = place
  /\ figures' = IF figure # lastFigure THEN Append(figures, figure) ELSE figures
  /\ lastFigure' = figure
  /\ unseen' = [unseen EXCEPT !.unsaid = @ /\ figure = lastFigure]
  /\ UNCHANGED <<scene, enterUp, listDown, place, figure, watchVars,
                 events>>

-----------------------------------------------------------------------------
(* The server and the watcher's game *)

(* A pose may be lost on either way; that is noticed where it should arrive. *)
LosePose ==
  /\ poses # <<>> /\ events < MaxEvents
  /\ poses' = Tail(poses)
  /\ events' = events + 1
  /\ unseen' = [unseen EXCEPT !.pose = TRUE]
  /\ UNCHANGED <<scene, enterUp, listDown, gameVars, figures, watchVars>>

(* A packet that arrives before a list is forgotten with it. *)
Overtakes == listDown["watcher"] > 0

handlePosePacket ==
  /\ poses # <<>>
  /\ poses' = Tail(poses)
  /\ shown' = IF scene["watcher"] = "in" THEN Head(poses) ELSE shown
  /\ unseen' = [unseen EXCEPT !.pose = scene["watcher"] # "in" \/ Overtakes]
  /\ UNCHANGED <<scene, enterUp, listDown, gameVars, figures, puppet, look,
                 events>>

handleFigureChangePacket ==
  /\ figures # <<>>
  /\ figures' = Tail(figures)
  /\ look' = IF puppet /\ scene["watcher"] = "in" THEN Head(figures) ELSE look
  /\ unseen' = [unseen EXCEPT !.figure =
                  ~(puppet /\ scene["watcher"] = "in") \/ Overtakes]
  /\ UNCHANGED <<scene, enterUp, listDown, gameVars, poses, shown, puppet,
                 events>>

Next ==
  \/ \E g \in Ends : Enter(g) \/ Begin(g) \/ Leave(g) \/ ReceiveEnter(g)
  \/ News \/ PlayerListed \/ WatcherListed
  \/ ChangeFigure \/ Move \/ updateLocal
  \/ LosePose \/ handlePosePacket \/ handleFigureChangePacket

Spec == Init /\ [][Next]_vars

-----------------------------------------------------------------------------
(* Nothing is on its way, both play, and the player has stood for a while. *)
Quiet ==
  /\ \A g \in Ends : scene[g] = "in" /\ ~enterUp[g] /\ listDown[g] = 0
  /\ poses = <<>> /\ figures = <<>>
  /\ still = 4 /\ lastPlace = place /\ lastFigure = figure

(* Once all has settled the watcher's game has a puppet of the player, at the
   player's place and with its figure: although a list puts it at the origin and
   takes its figure away, the player's game has had one as well and has sent both
   again, the place after four frames without a move.  Unless the last pose or
   figure was lost, came before the list or while the watcher had no scene, or
   the player changed back to the figure of new data before the list was seen
   (PlayerData.cpp:125-163, 209-250, MultiplayerManager.cpp:186-248). *)
PuppetSettles ==
  Quiet => /\ puppet
           /\ unseen.pose \/ shown = place
           /\ unseen.figure \/ unseen.unsaid \/ look = figure
=============================================================================
