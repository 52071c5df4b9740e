CONSTANTS
  Procs = {p0, p1}
  Addresses <- MCTwoBlocks
  NoOwner = NoOwner
  MaxEvents = 12
  BlockSize = 2
  Ways = 1
  MaxAccesses = 2
SPECIFICATION DeliverySpec
INVARIANTS ModifiedIsExclusive
