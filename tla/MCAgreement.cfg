\* Two players, two places and two hashes that differ, one lost connection; one lost packet;
\* two shards, two scenarios; a chain of three panels; a clock of 13 frames that
\* starts again within a cycle of 5.
CONSTANTS
  p1 = p1
  p2 = p2
  h1 = h1
  h2 = h2
  s1 = s1
  s2 = s2
  b1 = b1
  b2 = b2
  x1 = x1
  x2 = x2
  f1 = f1
  none = none
  Panels = 3
  Starters <- MCStarters
  Players <- MCPlayers
  Shards <- MCTwo
  Scenarios <- MCTwo
  None = none
  MaxPeers = 2
  Hashes <- MCHashes
  MaxEnters = 1
  MaxLosses = 1
  MaxShared = 0
  MaxFlips = 3
  MaxLost = 1
  MaxChanges = 2
  MaxVisits = 2
  MaxShardVisits = 1
  Damages = {2, 3, 10}
  MaxHits = 4
  Interval = 2
  Capacity = 4
  MaxActions = 6
  WaitTime = 2
  RotateSignTime = 1
  RotateTime = 2
  DelayTime = 1
  Period = 13
  Turns = 2
  KeyPoses <- MCKeyPoses
  Places <- MCPlaces
  Figures <- MCFigures
  MaxEvents = 3
SPECIFICATION MCSpec
SYMMETRY MCSymmetry
INVARIANTS
  FoldsFromTheFirst
  ListsSettle
  OneHost
  FlipsAgree
  ScenariosAgree
  OneShine
  LagsAHit
  ActionsInTime
  ClockPartsAgree
  PuppetSettles
  KillsSettle
CHECK_DEADLOCK FALSE
