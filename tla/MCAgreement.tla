---------------------------- MODULE MCAgreement -----------------------------
(***************************************************************************)
(* What two games have to agree on: who plays and who is the host, the     *)
(* jump-flip panels, the scenario of an island, the shards of a zone, the  *)
(* bowser's health, the objects that are gone for all, where a puppet is   *)
(* and its animations, the parts of the map that follow the clock or a     *)
(* chain of panels.  These share nothing but the connection, so one run    *)
(* checks them one at a time: a behaviour is about one part, and the       *)
(* variables of the others stay as they begin.                             *)
(*                                                                         *)
(* The chain of panels, which is local to a game, is the module extended;  *)
(* two starters and a chain of three, so that there is a panel that is     *)
(* neither the first nor the last.                                         *)
(***************************************************************************)
EXTENDS PatanPanels, Sequences, TLC

CONSTANTS
  MaxPeers, Hashes, MaxEnters, MaxLosses, MaxShared,
  Players, Shards, Scenarios, None,
  MaxFlips, MaxLost,
  MaxChanges, MaxVisits,
  MaxShardVisits,
  Damages, MaxHits,
  Interval, Capacity, MaxActions,
  WaitTime, RotateSignTime, RotateTime, DelayTime, Period, Turns, KeyPoses,
  Places, Figures, MaxEvents

(* Bounds are numbers, an action waits for a frame at least, damage is not negative,
   a zone has a shard, and no scenario, shard, number or place has the name of
   another thing. *)
ASSUME PartsAssumption ==
  /\ MaxFlips \in Nat /\ MaxLost \in Nat /\ MaxChanges \in Nat /\ MaxVisits \in Nat
  /\ MaxShardVisits \in Nat /\ MaxHits \in Nat /\ MaxEvents \in Nat
  /\ Shards # {} /\ None \notin Shards /\ None \notin Nat
  /\ "anywhere" \notin Places
  /\ Interval \in Nat \ {0} /\ Capacity \in Nat /\ MaxActions \in Nat
  /\ Damages \subseteq Nat
  /\ Scenarios \cap {None, "started", "applied"} = {}
  /\ None \notin {"started", "applied"}

(* What Sessions assumes of its constants. *)
ASSUME ListsAssumption ==
  /\ MaxPeers \in Nat /\ MaxEnters \in Nat /\ MaxLosses \in Nat /\ MaxShared \in Nat
  /\ None \notin Players \cup Hashes

(* A part rotates for a frame at least and is back after some turns; one that moves
   does so for a frame at least; the clock that the games share has a first frame. *)
ASSUME ClocksAssumption ==
  /\ WaitTime \in Nat /\ RotateSignTime \in Nat /\ DelayTime \in Nat
  /\ RotateTime \in Nat \ {0} /\ Turns \in Nat \ {0} /\ Period \in Nat \ {0}
  /\ KeyPoses \in Seq([wait : Nat, move : Nat])
  /\ \E i \in 1 .. Len(KeyPoses) : KeyPoses[i].move # 0

CONSTANTS p1, p2, h1, h2, s1, s2, b1, b2, x1, x2, f1, none

MCPlayers  == {p1, p2}
MCHashes   == {h1, h2}
MCTwo      == {s1, s2}
MCStarters == {b1, b2}
MCPlaces   == {x1, x2}
MCFigures  == {f1}
MCKeyPoses == <<[wait |-> 2, move |-> 2], [wait |-> 0, move |-> 1]>>
MCSymmetry == Permutations(MCPlayers) \cup Permutations(MCHashes)

VARIABLES
  part, \* the part this behaviour is about
  peer, hello, enter, client, order, thread, peerOf, lists, players, local, enters,
  losses, shared, overtaken,
  jumpFlipState, lastFlip, flipUp, flipDown, wanted, panel, turning, hasty, flips,
  lost, sinceQuiet,
  stored, storing, replaying, scenario, visiting, hookEnabled, handling, changing,
  up, down, entering, changes, visits, since,
  collectedShards, recording, replayed, collected, gotByHook, removed, shines,
  playing, shardUp, shardDown, visit, shardVisits, crossed,
  health, applying, struck, healthUp, healthDown, hits, hitters,
  queue, index, frame, sent, played,
  clock, built, half, partNerve, angle, moved, cycle, seen, missed,
  scene, enterUp, listDown, place, lastPlace, still, figure, lastFigure, poses,
  figures, shown, puppet, look, events, unseen,
  hooked, inScene, striking, dead, killedByHook, killUp, killDown, reports, heard,
  scenes

Lists   == INSTANCE Sessions WITH Games <- Players, down <- lists
Flips   == INSTANCE JumpFlip
Islands == INSTANCE ScenarioSync
Zones   == INSTANCE ShardSync WITH MaxVisits <- MaxShardVisits
Bowsers == INSTANCE BowserHealth
Actions == INSTANCE ActionQueue
Clocks  == INSTANCE ClockParts
Puppets == INSTANCE PuppetSync
Kills   == INSTANCE KillSync

listVars   == <<peer, hello, enter, client, order, thread, peerOf, lists, players,
                local, enters, losses, shared, overtaken>>
flipVars   == <<jumpFlipState, lastFlip, flipUp, flipDown, wanted, panel, turning,
                hasty, flips, lost, sinceQuiet>>
islandVars == <<stored, storing, replaying, scenario, visiting, hookEnabled,
                handling, changing, up, down, entering, changes, visits, since>>
zoneVars   == <<collectedShards, recording, replayed, collected, gotByHook, removed,
                shines, playing, shardUp, shardDown, visit, shardVisits, crossed>>
bowserVars == <<health, applying, struck, healthUp, healthDown, hits, hitters>>
actionVars == <<queue, index, frame, sent, played>>
clockVars  == <<clock, built, half, partNerve, angle, moved, cycle, seen, missed>>
puppetVars == <<scene, enterUp, listDown, place, lastPlace, still, figure,
                lastFigure, poses, figures, shown, puppet, look, events, unseen>>
killVars   == <<hooked, inScene, striking, dead, killedByHook, killUp, killDown,
                reports, heard, scenes>>

allVars == <<vars, part, listVars, flipVars, islandVars, zoneVars, bowserVars,
             actionVars, clockVars, puppetVars, killVars>>

Parts ==
  {"panels", "lists", "flips", "islands", "zones", "bowsers", "actions", "clocks",
   "puppets", "kills"}

(* Where a part may begin in several ways, one will do for the other parts; and
   the places are alike, so that one will do for all. *)
MCInit ==
  /\ part \in Parts
  /\ Init /\ Lists!Init /\ Flips!Init /\ Islands!Init /\ Zones!Init /\ Bowsers!Init
  /\ Actions!Init /\ Clocks!Init /\ Puppets!Init /\ Kills!Init
  /\ part # "flips" => ~jumpFlipState /\ lastFlip = "never"
  /\ part # "islands" => \A p \in Players : scenario[p] = s1
  /\ place = x1
  /\ part # "kills" => ~hooked

NextPanels ==
  /\ part = "panels" /\ Next
  /\ UNCHANGED <<part, listVars, flipVars, islandVars, zoneVars, bowserVars,
                 actionVars, clockVars, puppetVars, killVars>>

NextLists ==
  /\ part = "lists" /\ Lists!Next
  /\ UNCHANGED <<part, vars, flipVars, islandVars, zoneVars, bowserVars,
                 actionVars, clockVars, puppetVars, killVars>>

NextFlips ==
  /\ part = "flips" /\ Flips!Next
  /\ UNCHANGED <<part, vars, listVars, islandVars, zoneVars, bowserVars,
                 actionVars, clockVars, puppetVars, killVars>>

NextIslands ==
  /\ part = "islands" /\ Islands!Next
  /\ UNCHANGED <<part, vars, listVars, flipVars, zoneVars, bowserVars,
                 actionVars, clockVars, puppetVars, killVars>>

NextZones ==
  /\ part = "zones" /\ Zones!Next
  /\ UNCHANGED <<part, vars, listVars, flipVars, islandVars, bowserVars,
                 actionVars, clockVars, puppetVars, killVars>>

NextBowsers ==
  /\ part = "bowsers" /\ Bowsers!Next
  /\ UNCHANGED <<part, vars, listVars, flipVars, islandVars, zoneVars,
                 actionVars, clockVars, puppetVars, killVars>>

NextActions ==
  /\ part = "actions" /\ Actions!Next
  /\ UNCHANGED <<part, vars, listVars, flipVars, islandVars, zoneVars,
                 bowserVars, clockVars, puppetVars, killVars>>

NextClocks ==
  /\ part = "clocks" /\ Clocks!Next
  /\ UNCHANGED <<part, vars, listVars, flipVars, islandVars, zoneVars,
                 bowserVars, actionVars, puppetVars, killVars>>

NextPuppets ==
  /\ part = "puppets" /\ Puppets!Next
  /\ UNCHANGED <<part, vars, listVars, flipVars, islandVars, zoneVars,
                 bowserVars, actionVars, clockVars, killVars>>

NextKills ==
  /\ part = "kills" /\ Kills!Next
  /\ UNCHANGED <<part, vars, listVars, flipVars, islandVars, zoneVars,
                 bowserVars, actionVars, clockVars, puppetVars>>

MCNext ==
  \/ NextPanels \/ NextLists \/ NextFlips \/ NextIslands \/ NextZones \/ NextBowsers
  \/ NextActions \/ NextClocks \/ NextPuppets \/ NextKills

MCSpec == MCInit /\ [][MCNext]_allVars

-----------------------------------------------------------------------------
(* The player lists and their types, as Sessions states them. *)
ListsSettle == Lists!TypeOK /\ Lists!ListsSettle

(* One game times the disasters (Sessions). *)
OneHost == Lists!OneHost

(* The jump-flip panels of all games (JumpFlip). *)
FlipsAgree == Flips!TypeOK /\ Flips!FlipsAgree

(* The scenario of an island (ScenarioSync). *)
ScenariosAgree == Islands!TypeOK /\ Islands!ScenariosAgree

(* The shards of a zone and its one shine (ShardSync). *)
OneShine == Zones!TypeOK /\ Zones!OneShine

(* A spectator's bowser (BowserHealth). *)
LagsAHit == Bowsers!TypeOK /\ Bowsers!LagsAHit

(* The animations of a puppet (ActionQueue). *)
ActionsInTime == Actions!TypeOK /\ Actions!ActionsInTime

(* A part that follows the shared clock (ClockParts). *)
ClockPartsAgree == Clocks!TypeOK /\ Clocks!ClockPartsAgree

(* Where a puppet is, and its figure (PuppetSync). *)
PuppetSettles == Puppets!TypeOK /\ Puppets!PuppetSettles

(* The objects that are gone for all (KillSync). *)
KillsSettle == Kills!TypeOK /\ Kills!KillsSettle
=============================================================================
