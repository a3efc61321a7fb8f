CONSTANTS
  p1 = p1
  p2 = p2
  g1 = g1
  g2 = g2
  w1 = w1
  nobody = nobody
  unread = unread
  Players <- MCPlayers
  Goals <- MCGoals
  Workers <- MCWorkers
  Nobody = nobody
  Unread = unread
  Amounts <- MCAmounts
  MaxEvents = 3
  MaxIncidents = 2
SPECIFICATION Spec
SYMMETRY MCSymmetry
CHECK_DEADLOCK FALSE
INVARIANTS
  TypeOK
  NoDoubleCount
  CountsSettle
  ShinesSettle
