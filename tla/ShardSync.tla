----------------------------- MODULE ShardSync ------------------------------
(***************************************************************************)
(* The shards of a zone.  A game reports the shards its player takes; the  *)
(* others collect them without the player.  Whoever takes the last shard   *)
(* gets the shine; a game that hears of the last one removes its shards,   *)
(* "let the other party grab the shine" (MiscMapSync.cpp:277).  The server *)
(* redistributes first, then records, and replays its record to a player   *)
(* that enters the scene.                                                  *)
(*                                                                         *)
(* The first step of the nerve Got, which is the game's code, is taken to  *)
(* collect the shard and to make the shine appear; the hooks in it are     *)
(* shardGot and shardGotFinalCheck.                                        *)
(***************************************************************************)
EXTENDS Integers, Sequences, FiniteSets

CONSTANTS
  Players,
  Shards,
  None,
  MaxVisits \* bound: scenes that are built

VARIABLES
  collectedShards, \* the server's list
  recording,       \* a shard that the server thread has redistributed
  replayed,        \* per player: what its replay thread has sent, or None
  collected,       \* per player: the shards its game data has
  gotByHook,       \* per player: shards in Got with mCollectedByHook
  removed,         \* per player: the handler has killed the zone's shards
  shines,          \* per player: how often the shine has appeared in its game
  playing,         \* per player: its handlers find a scene
  shardUp,         \* per player: ShardCollect packets on their way to the server
  shardDown,       \* per player: ShardCollect packets on their way to the game
  visit,           \* per player: a ToS_SingleModeSceneEnter is on its way
  shardVisits,     \* history: scenes that were built
  crossed          \* history: the last shard was taken by a player who had not
                   \*   heard of them all, or some shard was taken twice

serverVars == <<collectedShards, recording, replayed>>
gameVars   == <<collected, gotByHook, removed, shines, playing>>
netVars    == <<shardUp, shardDown, visit>>
vars == <<serverVars, gameVars, netVars, shardVisits, crossed>>

Recorded == {collectedShards[i] : i \in 1 .. Len(collectedShards)}

TypeOK ==
  /\ collectedShards \in Seq(Shards)
  /\ recording \in Shards \cup {None}
  /\ replayed \in [Players -> Nat \cup {None}]
  /\ collected \in [Players -> SUBSET Shards]
  /\ gotByHook \in [Players -> SUBSET Shards]
  /\ removed \in [Players -> BOOLEAN]
  /\ shines \in [Players -> Nat]
  /\ playing \in [Players -> BOOLEAN]
  /\ shardUp \in [Players -> Seq(Shards)]
  /\ shardDown \in [Players -> Seq(Shards)]
  /\ visit \in [Players -> BOOLEAN]
  /\ shardVisits \in 0 .. MaxVisits
  /\ crossed \in BOOLEAN

Init ==
  /\ collectedShards = <<>> /\ recording = None
  /\ replayed = [p \in Players |-> None]
  /\ collected = [p \in Players |-> {}]
  /\ gotByHook = [p \in Players |-> {}]
  /\ removed = [p \in Players |-> FALSE]
  /\ shines = [p \in Players |-> 0]
  /\ playing = [p \in Players |-> TRUE]
  /\ shardUp = [p \in Players |-> <<>>]
  /\ shardDown = [p \in Players |-> <<>>]
  /\ visit = [p \in Players |-> FALSE]
  /\ shardVisits = 0 /\ crossed = FALSE

-----------------------------------------------------------------------------
(* The games *)

(* The last shard of the zone, as a game sees it: isFinalShard behind the
   hook, which says no to a shard that another player has taken.  A mutant is
   the game's own check. *)
isFinalShard(p, s, byHook) == collected[p] \cup {s} = Shards

shardGotFinalCheck(p, s, byHook) == ~byHook /\ collected[p] \cup {s} = Shards

Taken == UNION {collected[q] : q \in Players}

(* The player takes a shard: the first step of its nerve Got. *)
Take(p, s) ==
  /\ playing[p] /\ ~removed[p]
  /\ s \notin collected[p]
  /\ collected' = [collected EXCEPT ![p] = @ \cup {s}]
  /\ shardUp' = [shardUp EXCEPT ![p] = Append(@, s)]
  /\ shines' = [shines EXCEPT ![p] =
                  @ + IF shardGotFinalCheck(p, s, FALSE) THEN 1 ELSE 0]
  /\ crossed' = \/ crossed \/ s \in Taken
                \/ Taken \cup {s} = Shards /\ collected[p] \cup {s} # Shards
  /\ UNCHANGED <<serverVars, gotByHook, removed, playing, shardDown, visit, shardVisits>>

(* The first step of a shard that the handler has put into Got. *)
GotByHook(p, s) ==
  /\ playing[p] /\ ~removed[p]
  /\ s \in gotByHook[p]
  /\ gotByHook' = [gotByHook EXCEPT ![p] = @ \ {s}]
  /\ shines' = [shines EXCEPT ![p] =
                  @ + IF shardGotFinalCheck(p, s, TRUE) THEN 1 ELSE 0]
  /\ UNCHANGED <<serverVars, collected, removed, playing, netVars, shardVisits, crossed>>

(* The handler's ShardCollect with a scene: nothing new, the last shard of the
   zone, or another one. *)
CollectShard(p, s) ==
  /\ collected' = [collected EXCEPT ![p] = @ \cup {s}]
  /\ IF collected[p] \cup {s} = Shards
       THEN /\ removed' = [removed EXCEPT ![p] = TRUE]
            /\ gotByHook' = [gotByHook EXCEPT ![p] = {}]
       ELSE /\ gotByHook' = [gotByHook EXCEPT ![p] = @ \cup {s}]
            /\ UNCHANGED removed

handleShardCollect(p) ==
  /\ shardDown[p] # <<>>
  /\ shardDown' = [shardDown EXCEPT ![p] = Tail(@)]
  /\ IF playing[p] /\ Head(shardDown[p]) \notin collected[p]
       THEN CollectShard(p, Head(shardDown[p]))
       ELSE UNCHANGED <<collected, gotByHook, removed>>
  /\ UNCHANGED <<serverVars, shines, playing, shardUp, visit, shardVisits, crossed>>

Leave(p) ==
  /\ playing[p]
  /\ playing' = [playing EXCEPT ![p] = FALSE]
  /\ UNCHANGED <<serverVars, collected, gotByHook, removed, shines, netVars,
                 shardVisits, crossed>>

(* A new scene, of which the server is told; the game data has stayed. *)
Enter(p) ==
  /\ ~playing[p] /\ ~visit[p] /\ shardVisits < MaxVisits
  /\ playing' = [playing EXCEPT ![p] = TRUE]
  /\ gotByHook' = [gotByHook EXCEPT ![p] = {}]
  /\ removed' = [removed EXCEPT ![p] = FALSE]
  /\ visit' = [visit EXCEPT ![p] = TRUE]
  /\ shardVisits' = shardVisits + 1
  /\ UNCHANGED <<serverVars, collected, shines, shardUp, shardDown, crossed>>

-----------------------------------------------------------------------------
(* The server *)

Redistribute(p) ==
  /\ shardUp[p] # <<>> /\ recording = None
  /\ recording' = Head(shardUp[p])
  /\ shardUp' = [shardUp EXCEPT ![p] = Tail(@)]
  /\ shardDown' = [q \in Players |-> IF q = p THEN shardDown[q]
                                     ELSE Append(shardDown[q], Head(shardUp[p]))]
  /\ UNCHANGED <<collectedShards, replayed, gameVars, visit, shardVisits, crossed>>

(* A shard is appended, also one that is in the list. *)
Record ==
  /\ recording # None
  /\ collectedShards' = Append(collectedShards, recording)
  /\ recording' = None
  /\ UNCHANGED <<replayed, gameVars, netVars, shardVisits, crossed>>

StartReplay(p) ==
  /\ visit[p] /\ replayed[p] = None /\ recording = None
  /\ visit' = [visit EXCEPT ![p] = FALSE]
  /\ replayed' = [replayed EXCEPT ![p] = 0]
  /\ UNCHANGED <<collectedShards, recording, gameVars, shardUp, shardDown,
                 shardVisits, crossed>>

(* The replay thread sends the next of the list, which may have grown. *)
Replay(p) ==
  /\ replayed[p] # None
  /\ IF replayed[p] < Len(collectedShards)
       THEN /\ replayed' = [replayed EXCEPT ![p] = @ + 1]
            /\ shardDown' = [shardDown EXCEPT ![p] =
                               Append(@, collectedShards[replayed[p] + 1])]
       ELSE /\ replayed' = [replayed EXCEPT ![p] = None]
            /\ UNCHANGED shardDown
  /\ UNCHANGED <<collectedShards, recording, gameVars, shardUp, visit, shardVisits,
                 crossed>>

Next ==
  \/ \E p \in Players :
       \/ \E s \in Shards : Take(p, s) \/ GotByHook(p, s)
       \/ handleShardCollect(p) \/ Leave(p) \/ Enter(p)
       \/ Redistribute(p) \/ StartReplay(p) \/ Replay(p)
  \/ Record

Spec == Init /\ [][Next]_vars

-----------------------------------------------------------------------------
Quiet ==
  /\ recording = None
  /\ \A p \in Players : /\ shardUp[p] = <<>> /\ shardDown[p] = <<>>
                        /\ ~visit[p] /\ replayed[p] = None

(* When all has arrived every game with a scene has all shards that were taken;
   and once a zone is complete its shine has appeared exactly once, in one game
   of all, unless the last shards were taken by players who had not heard of
   each other: then it may appear nowhere, or twice (MiscMapSync.cpp:47-74,
   251-293, ProjectPacketHandler.cpp:100-112, 156-176). *)
OneShine ==
  Quiet =>
    /\ \A p \in Players : playing[p] => Recorded \subseteq collected[p]
    /\ Recorded = Shards /\ ~crossed =>
         \E p \in Players : /\ shines[p] = 1
                            /\ \A q \in Players \ {p} : shines[q] = 0
==============================================================================
