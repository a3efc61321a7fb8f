CONSTANTS
  p1 = p1
  p2 = p2
  s1 = s1
  s2 = s2
  w1 = w1
  w2 = w2
  none = none
  dflt = dflt
  unsent = unsent
  zero = zero
  Players <- MCPlayers
  Writers <- MCPlayers
  MayLeave <- MCOne
  Places <- MCOwnPlace
  Slots <- MCSlots
  Workers <- MCWorkers
  NoSlot = none
  DefaultImage = dflt
  Unsent = unsent
  Zero = zero
  ChunkCount = 2
  MaxResets = 0
  MaxWrites = 1
  MaxJoins = 1
SPECIFICATION FairSpec
CHECK_DEADLOCK FALSE
PROPERTIES
  SavesReachServer
