CONSTANTS
  Chunks = 2
  MaxLosses = 2
  MaxFailures = 1
  Panels = 3
  Starters = {b1, b2}
  Players = {p1, p2}
  MaxAdvances = 1
  MaxMoves = 1
  MaxHosts = 1
SPECIFICATION MCSpec
INVARIANTS
  TypeOK
  CancelSticks
  NoNullPointer
  LockComesBack
  SinglePlayerStarts
PROPERTIES
  DownloadEnds
  StartersComeBack
  DisasterFollows
CHECK_DEADLOCK FALSE
