\* Two players, the three damages of an attack, three hits.
CONSTANTS
  Players = {p1, p2}
  Damages = {2, 3, 10}
  MaxHits = 3
SPECIFICATION Spec
INVARIANT HealthInSync
CHECK_DEADLOCK FALSE
