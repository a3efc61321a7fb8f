---------------------------- MODULE BowserHealth ----------------------------
(***************************************************************************)
(* The health of the dark bowser, of which every game has one of its own.  *)
(* A hook on DarkBowser::requestDamage halves the amount, "more players =  *)
(* need more health", and reports the health that is left; a game that     *)
(* hears of another health requests the difference as damage, with the     *)
(* report switched off.  That call goes through the hook as well, so it    *)
(* is halved too.                                                          *)
(*                                                                         *)
(* The game's own requestDamage is taken to subtract what it is given.     *)
(* The packets are reliable and ordered; all players are in the scene.     *)
(***************************************************************************)
EXTENDS Integers, Sequences

CONSTANTS
  Players,
  Damages, \* the amounts of the game
  MaxHits  \* bound: hits

VARIABLES
  health,     \* per player: mHealth of its bowser
  applying,   \* per player: the difference its network thread is requesting, or 0
  struck,     \* per player: its game thread is in the hook, past the call
  healthUp,   \* per player: DarkBowserHealth packets on their way to the server
  healthDown, \* per player: DarkBowserHealth packets on their way to the game
  hits,       \* history: hits
  hitters     \* history: who has hit

vars == <<health, applying, struck, healthUp, healthDown, hits, hitters>>

TypeOK ==
  /\ health \in [Players -> Int]
  /\ applying \in [Players -> Int]
  /\ struck \in [Players -> BOOLEAN]
  /\ healthUp \in [Players -> Seq(Int)]
  /\ healthDown \in [Players -> Seq(Int)]
  /\ hits \in 0 .. MaxHits
  /\ hitters \subseteq Players

(* All bowsers begin with the same health, counted from there. *)
Init ==
  /\ health = [p \in Players |-> 0]
  /\ applying = [p \in Players |-> 0]
  /\ struck = [p \in Players |-> FALSE]
  /\ healthUp = [p \in Players |-> <<>>]
  /\ healthDown = [p \in Players |-> <<>>]
  /\ hits = 0 /\ hitters = {}

-----------------------------------------------------------------------------
(* amount /= 2 rounds towards zero. *)
Halve(amount) == IF amount >= 0 THEN amount \div 2 ELSE -((-amount) \div 2)

(* bowserDamageHook in the game thread: the hit, then the report, unless the
   handler has switched it off. *)
Hit(p) ==
  /\ hits < MaxHits /\ ~struck[p]
  /\ \E d \in Damages : health' = [health EXCEPT ![p] = @ - Halve(d)]
  /\ struck' = [struck EXCEPT ![p] = TRUE]
  /\ hits' = hits + 1
  /\ hitters' = hitters \cup {p}
  /\ UNCHANGED <<applying, healthUp, healthDown>>

sDisableBowserDamageHook(p) == applying[p] # 0

sendDarkBowserHealthPacket(p) ==
  /\ struck[p]
  /\ struck' = [struck EXCEPT ![p] = FALSE]
  /\ healthUp' = IF sDisableBowserDamageHook(p) THEN healthUp
                 ELSE [healthUp EXCEPT ![p] = Append(@, health[p])]
  /\ UNCHANGED <<health, applying, healthDown, hits, hitters>>

(* handleMiscMapSync on the server. *)
Redistribute(p) ==
  /\ healthUp[p] # <<>>
  /\ healthUp' = [healthUp EXCEPT ![p] = Tail(@)]
  /\ healthDown' = [q \in Players |-> IF q = p THEN healthDown[q]
                                      ELSE Append(healthDown[q], Head(healthUp[p]))]
  /\ UNCHANGED <<health, applying, struck, hits, hitters>>

(* What the network thread requests when it hears of a health, and a mutant
   that has the two the wrong way round. *)
Backwards(p, newHealth) == newHealth - health[p]

toDamage(p, newHealth) == health[p] - newHealth

(* The network thread reads the health and switches the report off; the
   damage comes a moment later.  Equal health needs nothing. *)
ReadHealth(p) ==
  /\ healthDown[p] # <<>> /\ applying[p] = 0
  /\ healthDown' = [healthDown EXCEPT ![p] = Tail(@)]
  /\ applying' = [applying EXCEPT ![p] = toDamage(p, Head(healthDown[p]))]
  /\ UNCHANGED <<health, struck, healthUp, hits, hitters>>

ApplyDamage(p) ==
  /\ applying[p] # 0
  /\ health' = [health EXCEPT ![p] = @ - Halve(applying[p])]
  /\ applying' = [applying EXCEPT ![p] = 0]
  /\ UNCHANGED <<struck, healthUp, healthDown, hits, hitters>>

Next ==
  \E p \in Players :
    \/ Hit(p) \/ sendDarkBowserHealthPacket(p)
    \/ Redistribute(p)
    \/ ReadHealth(p) \/ ApplyDamage(p)

Spec == Init /\ [][Next]_vars

-----------------------------------------------------------------------------
Quiet ==
  \A p \in Players : /\ healthUp[p] = <<>> /\ healthDown[p] = <<>>
                     /\ applying[p] = 0 /\ ~struck[p]

(* "bowser health sync": when all reports have arrived, the bowsers of all
   games have the same health (MiscMapSync.cpp:131-138, 210, 334-337). *)
HealthInSync == Quiet => \A p, q \in Players : health[p] = health[q]

(* What is left of it while only one player hits: no other bowser is ever
   weaker than that player's, and when all reports have arrived it is behind
   by no more than one hit, however many there were. *)
LagsAHit ==
  \A p, q \in Players :
    hitters = {p} =>
      /\ health[q] >= health[p]
      /\ Quiet => \E d \in Damages : health[q] - health[p] <= Halve(d)
=============================================================================
