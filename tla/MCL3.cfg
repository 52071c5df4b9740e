CONSTANTS
  LevelBlockSize = 2
  NumAddresses = 8
  AccessedAddresses <- MCAccessed
  LevelPrefetchDistance = 1
  TableSize = 1
  L1Sets = 1
  L1Ways = 2
  L2Sets = 2
  L2Ways = 1
  L3Sets = 2
  L3Ways = 1
  Setups <- MCSetups
SPECIFICATION HierarchySpec
INVARIANTS L3IsSuperset
