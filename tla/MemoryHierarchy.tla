--------------------------- MODULE MemoryHierarchy ---------------------------
(***************************************************************************)
(* MemoryHierarchy::access in src/core/memory_hierarchy.cpp: L1 with the   *)
(* L2 as its next level, the second access of the L2 that the hierarchy    *)
(* makes on an L1 miss, and the L3.  The whole call is one step: nothing   *)
(* runs concurrently.  The policies are deterministic.                     *)
(***************************************************************************)
EXTENDS StrideTable, Sequences

CONSTANTS LevelBlockSize, AccessedAddresses, LevelPrefetchDistance,
          L1Sets, L1Ways, L2Sets, L2Ways, L3Sets, L3Ways,
          Setups      \* MemoryHierarchyConfigs: a Cache configuration per level,
                      \* and which of the levels below the L1 there are

L1 == INSTANCE CacheOps WITH NumSets <- L1Sets, Ways <- L1Ways, BlockSize <- LevelBlockSize,
                             PrefetchDistance <- LevelPrefetchDistance, AddressSpace <- NumAddresses
L2 == INSTANCE CacheOps WITH NumSets <- L2Sets, Ways <- L2Ways, BlockSize <- LevelBlockSize,
                             PrefetchDistance <- LevelPrefetchDistance, AddressSpace <- NumAddresses
L3 == INSTANCE CacheOps WITH NumSets <- L3Sets, Ways <- L3Ways, BlockSize <- LevelBlockSize,
                             PrefetchDistance <- LevelPrefetchDistance, AddressSpace <- NumAddresses

ASSUME HierarchyAssumption ==
  /\ {L1Sets, L1Ways, L2Sets, L2Ways, L3Sets, L3Ways, LevelBlockSize} \subseteq Nat \ {0}
  /\ LevelPrefetchDistance \in Nat
  /\ AccessedAddresses \subseteq 0..(NumAddresses - 1)
  /\ Setups \subseteq [l1 : L1!Configs, l2 : L1!Configs, l3 : L1!Configs,
                       below : SUBSET {"L2", "L3"}]
  /\ \A s \in Setups : "Random" \notin {s.l1.replacement, s.l2.replacement, s.l3.replacement}

VARIABLES l1, l2, l3,
          below,         \* which of the optional levels are configured
          predictor,
          memoryWrites   \* blocks written back to memory in the last access

hierarchyVars == <<l1, l2, l3, below, predictor, memoryWrites>>

NoPicks == <<0, 0>>

HierarchyInit ==
  /\ \E s \in Setups : /\ l1 = L1!NewCache(s.l1)
                       /\ l2 = L2!NewCache(s.l2)
                       /\ l3 = L3!NewCache(s.l3)
                       /\ below = s.below
  /\ predictor = NewTable
  /\ memoryWrites = {}

\* An access of the L2: it has no next level, what it writes back is memory's.
L2Step(level, request) ==
  LET r == L2!Access(level.cache, request.addr, request.isWrite, 0, NoPicks)
  IN  [cache |-> r.cache, memory |-> level.memory \cup L2!PassedOn(r.requests)]

\* The L2 after the requests, one after the other.
InOrder(level, requests) ==
  LET after[n \in 0..Len(requests)] ==
        IF n = 0 THEN level ELSE L2Step(after[n - 1], requests[n])
  IN  after[Len(requests)]

\* Faulty variant: the write-backs of the L1 do not reach the L2.
ForwardReads(level, requests) ==
  InOrder(level, SelectSeq(requests, LAMBDA r : ~r.isWrite))

\* What the L1 asks for reaches the L2, its next level.
Forward(level, requests) == InOrder(level, requests)

\* access(): an L1 without a next level writes its victims back to memory.
hierarchyAccess(a, isWrite) ==
  LET table == IF l1.config.prefetch THEN update(predictor, a) ELSE predictor
      stride == getStride(table, a)
      first == L1!Access(l1, a, isWrite, stride, NoPicks)
      l1Hit == L1!Hits(l1, a)
      fetched == IF "L2" \in below THEN Forward([cache |-> l2, memory |-> {}], first.requests)
                 ELSE [cache |-> l2, memory |-> L1!PassedOn(first.requests)]
      second == IF "L2" \in below /\ ~l1Hit
                THEN L2Step(fetched, [addr |-> a, isWrite |-> isWrite]) ELSE fetched
      l3Access == /\ "L3" \in below /\ ~l1Hit
                  /\ "L2" \in below => ~L2!Hits(fetched.cache, a)
  IN  /\ l1' = first.cache
      /\ l2' = second.cache
      /\ memoryWrites' = second.memory
      /\ l3' = IF l3Access THEN L3!Access(l3, a, isWrite, 0, NoPicks).cache ELSE l3
      /\ predictor' = table
      /\ UNCHANGED below

HierarchyNext == \E a \in AccessedAddresses, isWrite \in BOOLEAN : hierarchyAccess(a, isWrite)

HierarchySpec == HierarchyInit /\ [][HierarchyNext]_hierarchyVars

-----------------------------------------------------------------------------
(* Properties *)

\* The blocks in a cache of the given sets, and those whose eviction calls for
\* a write-back.
Held(c, sets) ==
  UNION {{c.blocks[s][w].tag * sets + s : w \in {v \in DOMAIN c.blocks[s] : c.blocks[s][v].valid}}
         : s \in DOMAIN c.blocks}
Dirty(c, sets) ==
  UNION {{c.blocks[s][w].tag * sets + s :
            w \in {v \in DOMAIN c.blocks[s] : c.blocks[s][v].valid
                                              /\ L1!requiresWriteback(c.blocks[s][v])}}
         : s \in DOMAIN c.blocks}

\* A block that is dirty in the L1 or in the L2 stays dirty in one of them
\* until it is written back to memory, whatever evictions an access causes on
\* both levels.
DirtyUntilWritten ==
  [][\A b \in Dirty(l1, L1Sets) \cup Dirty(l2, L2Sets) :
       b \in Dirty(l1', L1Sets) \cup Dirty(l2', L2Sets) \cup memoryWrites']_hierarchyVars

\* What docs/features/l3-cache.md says of the L3, with l3Inclusive at its default
\* of true: it holds a superset of the blocks in the L1 and the L2.
L3IsSuperset ==
  "L3" \in below => Held(l1, L1Sets) \cup Held(l2, L2Sets) \subseteq Held(l3, L3Sets)
=============================================================================
