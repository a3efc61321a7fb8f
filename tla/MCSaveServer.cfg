CONSTANTS
  s1 = s1
  s2 = s2
  w1 = w1
  w2 = w2
  none = none
  dflt = dflt
  img1 = img1
  unsent = unsent
  Slots <- MCSlots
  Workers <- MCWorkers
  Images <- MCImages
  NoSlot = none
  DefaultImage = dflt
  Unsent = unsent
  ChunkCount = 2
  MaxResets = 1
SPECIFICATION FairSpec
INVARIANTS
  TypeOK
  SingleSource
  SizeMatchesChunks
  OneHolder
PROPERTIES
  ImplementsRegister
  CommitNotBlocked
