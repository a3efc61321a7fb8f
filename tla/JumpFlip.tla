------------------------------ MODULE JumpFlip ------------------------------
(***************************************************************************)
(* The jump-flip panels, which turn over when a player jumps.  The server  *)
(* keeps one state for all of them and does not care what a game asks for: *)
(* every report flips it.  Reports and answers are unreliable packets, so  *)
(* they may be lost, but ENet does not deliver them out of order.          *)
(*                                                                         *)
(* A game's panels all do the same, so one stands for all of them.         *)
(***************************************************************************)
EXTENDS Integers, Sequences

CONSTANTS
  Players,
  MaxFlips, \* bound: jumps
  MaxLost   \* bound: lost packets

VARIABLES
  jumpFlipState, \* the server's state, which its file keeps
  lastFlip,      \* when the server last took a report: "never", "now" or "before"
  flipUp,        \* per player: ToS_JumpFlip on their way
  flipDown,      \* per player: ToC_JumpFlip on their way
  wanted,        \* per player: sJumpFlipPanelState
  panel,         \* per player: mFlipState of its panels
  turning,       \* per player: "no", or "early" or "late" in a flip
  hasty,         \* per player: its last jump was less than 32 ms ago
  flips,         \* history: jumps
  lost,          \* history: lost packets
  sinceQuiet     \* history, of the time since all was quiet: whether all games
                 \*   agreed, the jumps, and whether a packet was lost or ignored

gameVars == <<wanted, panel, turning, hasty>>
vars == <<jumpFlipState, lastFlip, flipUp, flipDown, gameVars, flips, lost, sinceQuiet>>

TypeOK ==
  /\ jumpFlipState \in BOOLEAN
  /\ lastFlip \in {"never", "now", "before"}
  /\ flipUp \in [Players -> Seq(BOOLEAN)]
  /\ flipDown \in [Players -> Seq(BOOLEAN)]
  /\ wanted \in [Players -> BOOLEAN]
  /\ panel \in [Players -> BOOLEAN]
  /\ turning \in [Players -> {"no", "early", "late"}]
  /\ hasty \in [Players -> BOOLEAN]
  /\ flips \in 0 .. MaxFlips
  /\ lost \in 0 .. MaxLost
  /\ sinceQuiet \in [agreed : BOOLEAN, jumps : 0 .. MaxFlips, disturbed : BOOLEAN]

(* The games have just started; the server may have read its state from a
   file, or have taken reports before, and does not tell a game of it. *)
Init ==
  /\ jumpFlipState \in BOOLEAN
  /\ lastFlip \in {"never", "before"}
  /\ flipUp = [p \in Players |-> <<>>]
  /\ flipDown = [p \in Players |-> <<>>]
  /\ wanted = [p \in Players |-> FALSE]
  /\ panel = [p \in Players |-> FALSE]
  /\ turning = [p \in Players |-> "no"]
  /\ hasty = [p \in Players |-> FALSE]
  /\ flips = 0 /\ lost = 0
  /\ sinceQuiet = [agreed |-> ~jumpFlipState, jumps |-> 0, disturbed |-> FALSE]

-----------------------------------------------------------------------------
(* Nothing is on its way, and no panel has to turn. *)
Quiet ==
  \A p \in Players : /\ flipUp[p] = <<>> /\ flipDown[p] = <<>>
                     /\ turning[p] = "no" /\ panel[p] = wanted[p]

Agreed == \A p \in Players : panel[p] = jumpFlipState

-----------------------------------------------------------------------------
(* The games *)

(* A player jumps: all panels of its game turn, and it reports what to. *)
Jump(p) ==
  /\ flips < MaxFlips
  /\ turning[p] # "early" /\ ~hasty[p]
  /\ hasty' = [hasty EXCEPT ![p] = TRUE]
  /\ flipUp' = [flipUp EXCEPT ![p] = Append(@, ~panel[p])]
  /\ wanted' = [wanted EXCEPT ![p] = ~panel[p]]
  /\ panel' = [panel EXCEPT ![p] = ~@]
  /\ turning' = [turning EXCEPT ![p] = "early"]
  /\ flips' = flips + 1
  /\ sinceQuiet' = IF Quiet THEN [agreed |-> Agreed, jumps |-> 1, disturbed |-> FALSE]
                       ELSE [sinceQuiet EXCEPT !.jumps = @ + 1]
  /\ UNCHANGED <<jumpFlipState, lastFlip, flipDown, lost>>

Calm(p) ==
  /\ hasty[p]
  /\ hasty' = [hasty EXCEPT ![p] = FALSE]
  /\ UNCHANGED <<jumpFlipState, lastFlip, flipUp, flipDown, wanted, panel, turning,
                 flips, lost, sinceQuiet>>

(* A panel that is not turning turns to the state that is wanted. *)
Follow(p) ==
  /\ turning[p] = "no" /\ panel[p] # wanted[p]
  /\ panel' = [panel EXCEPT ![p] = ~@]
  /\ turning' = [turning EXCEPT ![p] = "early"]
  /\ UNCHANGED <<jumpFlipState, lastFlip, flipUp, flipDown, wanted, hasty, flips,
                 lost, sinceQuiet>>

Turn(p) ==
  /\ turning[p] # "no"
  /\ turning' = [turning EXCEPT ![p] = IF @ = "early" THEN "late" ELSE "no"]
  /\ UNCHANGED <<jumpFlipState, lastFlip, flipUp, flipDown, wanted, panel, hasty,
                 flips, lost, sinceQuiet>>

handleToC_JumpFlip(p) ==
  /\ flipDown[p] # <<>>
  /\ wanted' = [wanted EXCEPT ![p] = Head(flipDown[p])]
  /\ flipDown' = [flipDown EXCEPT ![p] = Tail(@)]
  /\ UNCHANGED <<jumpFlipState, lastFlip, flipUp, panel, turning, hasty, flips,
                 lost, sinceQuiet>>

-----------------------------------------------------------------------------
(* The server *)

(* A report within 16 ms of the last one is not taken; nor is the first one,
   for which the time of the last one is set. *)
IgnoreReport(p) ==
  /\ flipUp[p] # <<>> /\ lastFlip # "before"
  /\ lastFlip' = "now"
  /\ flipUp' = [flipUp EXCEPT ![p] = Tail(@)]
  /\ sinceQuiet' = [sinceQuiet EXCEPT !.disturbed = TRUE]
  /\ UNCHANGED <<jumpFlipState, flipDown, gameVars, flips, lost>>

Elapse ==
  /\ lastFlip = "now"
  /\ lastFlip' = "before"
  /\ UNCHANGED <<jumpFlipState, flipUp, flipDown, gameVars, flips, lost, sinceQuiet>>

(* Who has to hear that the state is s now that p has reported: the others,
   and p if it is mistaken; and a mutant that does not tell p. *)
OthersOnly(p, s) == {q \in Players : q # p}

Audience(p, s) ==
  {q \in Players : q # p \/ Head(flipUp[p]) # s}

handleJumpFlip(p) ==
  /\ flipUp[p] # <<>> /\ lastFlip = "before"
  /\ lastFlip' = "now"
  /\ jumpFlipState' = ~jumpFlipState
  /\ flipUp' = [flipUp EXCEPT ![p] = Tail(@)]
  /\ flipDown' = [q \in Players |->
                    IF q \in Audience(p, ~jumpFlipState)
                      THEN Append(flipDown[q], ~jumpFlipState) ELSE flipDown[q]]
  /\ UNCHANGED <<gameVars, flips, lost, sinceQuiet>>

-----------------------------------------------------------------------------
(* The network *)

LoseReport(p) ==
  /\ flipUp[p] # <<>> /\ lost < MaxLost
  /\ flipUp' = [flipUp EXCEPT ![p] = Tail(@)]
  /\ sinceQuiet' = [sinceQuiet EXCEPT !.disturbed = TRUE]
  /\ lost' = lost + 1
  /\ UNCHANGED <<jumpFlipState, lastFlip, flipDown, gameVars, flips>>

LoseAnswer(p) ==
  /\ flipDown[p] # <<>> /\ lost < MaxLost
  /\ flipDown' = [flipDown EXCEPT ![p] = Tail(@)]
  /\ sinceQuiet' = [sinceQuiet EXCEPT !.disturbed = TRUE]
  /\ lost' = lost + 1
  /\ UNCHANGED <<jumpFlipState, lastFlip, flipUp, gameVars, flips>>

Next ==
  \/ \E p \in Players :
       \/ Jump(p) \/ Calm(p) \/ Follow(p) \/ Turn(p)
       \/ handleToC_JumpFlip(p)
       \/ IgnoreReport(p) \/ handleJumpFlip(p)
       \/ LoseReport(p) \/ LoseAnswer(p)
  \/ Elapse

Spec == Init /\ [][Next]_vars

-----------------------------------------------------------------------------
(* However confused the games are - after lost, ignored or crossing jumps - one
   jump of anybody that nothing disturbs brings all of them to the server's
   state; and two jumps that cross leave games that agreed in agreement, though
   both players turned their own panels first and the server flipped twice
   (ProjectPacketHandler.cpp:136-154, MiscMapSync.cpp:85-116). *)
FlipsAgree ==
  Quiet /\ ~sinceQuiet.disturbed =>
    (sinceQuiet.jumps = 1 \/ (sinceQuiet.jumps = 2 /\ sinceQuiet.agreed) => Agreed)
==============================================================================
