CONSTANTS
  Ways = 2
  NumSets = 2
  BlockSize = 2
  PrefetchDistance = 2
  AddressSpace = 12
  UsedConfigs <- MCConfigs
  Addresses <- MCAddresses
  Strides <- MCStrides
SPECIFICATION Spec
VIEW StateView
INVARIANTS UniqueTags NoLostWrite
PROPERTIES DemandBlockStays
