CONSTANTS
  g1 = g1
  g2 = g2
  h1 = h1
  h2 = h2
  None = None
  Games = {g1, g2}
  MaxPeers = 3
  Hashes = {h1, h2}
  MaxEnters = 0
  MaxLosses = 1
  MaxShared = 1
SPECIFICATION MCSpec
INVARIANTS NoGhostListed
PROPERTIES ErasedComesBack
CHECK_DEADLOCK FALSE
