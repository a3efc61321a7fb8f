CONSTANTS
  p1 = p1
  p2 = p2
  s1 = s1
  s2 = s2
  w1 = w1
  w2 = w2
  none = none
  dflt = dflt
  unsent = unsent
  zero = zero
  Players <- MCPlayers
  Writers <- MCOne
  MayLeave <- MCOther
  Places <- MCOwnPlace
  Slots <- MCSlots
  Workers <- MCWorkers
  NoSlot = none
  DefaultImage = dflt
  Unsent = unsent
  Zero = zero
  ChunkCount = 2
  MaxResets = 0
  MaxWrites = 2
  MaxJoins = 1
SPECIFICATION FairSpec
CHECK_DEADLOCK FALSE
INVARIANTS
  TypeOK
  SavedWhenQuiet
  DownloadedWhole
PROPERTIES
  SavesReachServer
