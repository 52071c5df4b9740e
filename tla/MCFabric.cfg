CONSTANTS
  Workers = {w0, w1, w2}
  Client = Client
  NumJobs = 2
  Chunks = 2
  Procs = {p0, p1, p2}
  Latencies = {1, 2}
  MaxAccesses = 2
  NumProcs = 6
  Senders = {1, 2, 5}
  Destinations = {0, 6}
  Topologies = {"Bus", "Crossbar", "Mesh", "Ring", "Torus"}
  MaxSends = 2
  Caches = {c1, c2, c3}
SPECIFICATION FabricSpec
INVARIANTS
  OnePlace NothingLost
  ResultIsLongest
  InOrderOnce BusExclusive PortsAreReleased FewestHops
  LatestIsKept
PROPERTIES
  PoolShutsDown ResultsReturned
  TracesReturn SendReturns SnoopImplementsCoherenceSpec
