CONSTANTS
  Procs = {p0, p1}
  Addresses <- MCTwoBlocks
  NoOwner = NoOwner
  MaxEvents = 12
  BlockSize = 2
  Ways = 1
  MaxAccesses = 2
  LevelBlockSize = 2
  NumAddresses = 8
  LevelPrefetchDistance = 1
  AccessedAddresses <- MCAccessed
  TableSize = 1
  L1Sets = 1
  L1Ways = 2
  L2Sets = 2
  L2Ways = 1
  L3Sets = 2
  L3Ways = 1
  Setups <- MCSetups
SPECIFICATION CoresSpec
VIEW CoresView
INVARIANTS EveryHolderIsAProcessor CachedBlocksAreTracked
PROPERTIES DirtyUntilWritten
