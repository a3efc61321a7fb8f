----------------------------- MODULE MCGoalSync -----------------------------
(* Two players, two shines, one thread that replays, an operator that may
   set the counter below zero. *)
EXTENDS GoalSync, TLC

CONSTANTS p1, p2, g1, g2, w1, nobody, unread

MCPlayers == {p1, p2}
MCGoals   == {g1, g2}
MCWorkers == {w1}
MCAmounts == {-1}
MCSymmetry ==
  Permutations(MCPlayers) \cup Permutations(MCGoals)
=============================================================================
