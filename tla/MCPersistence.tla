--------------------------- MODULE MCPersistence ---------------------------
(* One uploaded save and one scenario change, so that documents differ in size. *)
EXTENDS Persistence, TLC
CONSTANTS s1, s2, t1, v1, dflt, mixed, none, sc0, sc1

(* What setshines is given. *)
SetTo == {-1}

(* No property tells one shine from another. *)
Symmetry == Permutations(Shines)
==============================================================================
