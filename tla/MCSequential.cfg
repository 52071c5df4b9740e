CONSTANTS
  Procs = {p0, p1, p2}
  Addresses = {a0, a1}
  NoOwner = NoOwner
  MaxEvents = 1
  NumAddresses = 8
  Ways = 4
  Policies = {"LRU", "FIFO", "Random", "NRU", "PLRU"}
  MaxInstalls = 9
  TableSize = 2
  StreamAddresses = {0, 2, 4, 6, 3}
  Memory = 4
  VictimAddresses = {0, 1, 2}
  MaxVictims = 2
  SizeRange = 16
  MaxQueued = 3
  WriteAddresses = {1, 2, 3}
  BufferAddresses = {0, 1, 2, 3}
  BufferSize = 3
  MaxBufferWrites = 7
  PoolSize = 3
  Requests = {1, 2, 3}
  PoolBlocks = 3
  FetchAddresses = {0, 3, 4}
  PageSize = 4
  FetchSpace = 8
  MaxDistance = 3
  MaxOutcomes = 3
  Unseen = Unseen
  BlockSizes = {0, 2, 3}
  FirstSizes = {0, 4, 6, 8}
  FirstWays = {0, 1, 2, 3}
  SecondSizes <- MCSecondSizes
  SecondWays = {0, 2, 3}
  Distances = {0, 1, 2}
  SweepValues = {0, 4, 16}
  Leftovers = {0, 5}
  JsonLines <- MCJsonLines
  MaxFileLines = 5
  Nothing = Nothing
  Arguments = {"-h", "-b", "--flag", "-p", "-e", "-c", "-unknown", "number", "trace.txt", "missing.txt"}
  MaxArgs = 4
  LegacyArgs = 3
  TraceLines <- MCTraceLines
  MaxTrace = 3
  DetectLines = 2
  MaxHanded = 4
  MinPattern = 4
  MinLoop = 9
  MaxLoop = 50
  Counts = {6, 9, 18}
  Strides = {2, 4}
  LoopSizes = {3, 4}
  RegionSize = 2
  NumRegions = 2
  LoopAddresses = {0, 1, 4, 9}
  MaxDrawn = 2
  ProfiledAddresses = {0, 1, 6}
  RegionNames = {"heap", "stack"}
  RegionRanges <- MCRegionRanges
  MaxRegions = 2
  MaxRecent = 6
  MinRecent = 4
  MinRepeated = 2
  MaxProfiled = 7
SPECIFICATION SequentialSpec
SYMMETRY Symmetry
INVARIANTS
  OwnerSharersExclusive
  VictimIsValid EvictsOldest
  SteadyEntryPredicts
  VictimIsLatest
  WritePassedOnOrKept
  FlushIsComplete
  ReusedBlocksOwned
  StrideRunsAhead
  AcceptedConfigsBuild 
  RunsWhatWasAsked
  TraceIsRecognised
  ProfileIsOfItsRun ProfiledLoopIsRecognised
PROPERTIES
  LosersNamed ImplementsCoherenceSpec
  DropsLeastRecent NoAccessSkipped
CHECK_DEADLOCK FALSE
