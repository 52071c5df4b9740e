-------------------------- MODULE SequentialProofs --------------------------
(***************************************************************************)
(* Proofs about the components that one thread uses at a time: the memory  *)
(* pool, the write policies, the write-combining buffer, the victim cache, *)
(* the stride predictor, the adaptive prefetcher, the configurations a     *)
(* user gives and the command line, for any sizes and any sequence of      *)
(* calls.                                                                  *)
(***************************************************************************)
EXTENDS MemoryPool, WritePolicy, WriteCombiningBuffer, VictimCache, StridePredictor, AdaptivePrefetcher,
        Config, Program, FiniteSetTheorems, FunctionTheorems, WellFoundedInduction, TLAPS

(* Memory pool *)

\* A range handed out lies in a block the pool has left behind, or in the
\* current one before currentIndex_: what is cut next is free.
Behind(m, r) ==
  /\ r.block \in Nat /\ r.cells \subseteq 0..(PoolSize - 1)
  /\ r.block <= m.current
  /\ r.block = m.current => \A k \in r.cells : k < m.index

Disjoint(s) ==
  \A i, j \in DOMAIN s : i # j /\ s[i].block = s[j].block => s[i].cells \cap s[j].cells = {}

Pools == [blocks : Nat, current : Nat, index : 0..PoolSize]
Ranges == [block : Int, cells : SUBSET Int]

\* While currentBlock_ is the number of a block the pool has, so are the blocks
\* of everything handed out since the last reset: currentBlock_ only grows in
\* between, and once it has run past the blocks it stays past them.
MemoryInv ==
  /\ memory \in Pools
  /\ live \in Seq(Ranges)
  /\ memory.current < memory.blocks =>
       Disjoint(live) /\ \A i \in DOMAIN live : Behind(memory, live[i])

\* A new pool has handed nothing out.
LEMMA MemoryInitially == MemoryInit => MemoryInv
BY PoolAssumption DEF MemoryInit, MemoryInv, Pools, allocateNewBlock, Disjoint

\* Cutting a range from the block, or from the next one, keeps the invariant.
LEMMA MemoryStep == MemoryInv /\ [MemoryNext]_memoryVars => MemoryInv'
<1> SUFFICES ASSUME MemoryInv, [MemoryNext]_memoryVars PROVE MemoryInv'
  OBVIOUS
<1> USE PoolAssumption DEF MemoryInv
<1>1. ASSUME NEW n \in Requests, allocate(n)
      PROVE  MemoryInv'
  <2>1. PICK m \in Pools, b \in Int :
          /\ memory' = [m EXCEPT !.index = m.index + n]
          /\ live' = Append(live, [block |-> b, cells |-> m.index..(m.index + n - 1)])
          /\ m.index + n \in 0..PoolSize
          /\ m.current >= memory.current
          /\ m.current = memory.current => m.index = memory.index
          /\ m.current < m.blocks => b = m.current /\ memory.current < memory.blocks
    <3>1. /\ Room(memory, n) \in Pools
          /\ Room(memory, n).index + n \in 0..PoolSize
          /\ Room(memory, n).current >= memory.current
          /\ Room(memory, n).current = memory.current => Room(memory, n).index = memory.index
          /\ Room(memory, n).current < Room(memory, n).blocks => memory.current < memory.blocks
      BY DEF Room, Fits, allocateNewBlock, Pools
    <3>2. PICK m \in Pools : m = Room(memory, n)
      BY <3>1
    <3>3. PICK b \in Indexed(m) :
            live' = Append(live, [block |-> b, cells |-> m.index..(m.index + n - 1)])
      BY <1>1, <3>2 DEF allocate
    <3>4. b \in Int /\ (m.current < m.blocks => b = m.current)
      <4>1. m.current \in Int /\ m.blocks \in Int
        BY DEF Pools
      <4> QED BY <4>1 DEF Indexed, NoBlock
    <3>5. memory' = [m EXCEPT !.index = m.index + n]
      BY <1>1, <3>2 DEF allocate
    <3> QED BY <3>1, <3>2, <3>3, <3>4, <3>5
  <2>2. PICK r \in Ranges : r = [block |-> b, cells |-> m.index..(m.index + n - 1)]
    BY <2>1 DEF Ranges, Pools
  <2>3. /\ memory' \in Pools
        /\ memory'.current = m.current /\ memory'.index = m.index + n /\ memory'.blocks = m.blocks
    BY <2>1 DEF Pools
  <2>4. /\ live' \in Seq(Ranges)
        /\ DOMAIN live' = 1..(Len(live) + 1)
        /\ live'[Len(live) + 1] = r
        /\ \A i \in DOMAIN live : live'[i] = live[i]
        /\ DOMAIN live = 1..Len(live) /\ Len(live) \in Nat
    BY <2>1, <2>2
  <2>5. SUFFICES ASSUME memory'.current < memory'.blocks
                 PROVE  Disjoint(live') /\ \A i \in DOMAIN live' : Behind(memory', live'[i])
    BY <2>3, <2>4
  <2>6. b = m.current /\ Disjoint(live) /\ \A i \in DOMAIN live : Behind(memory, live[i])
    BY <2>1, <2>3, <2>5
  <2>7. Behind(memory', r)
    <3>1. /\ m.index \in Nat /\ n \in Nat /\ m.current \in Nat /\ m.index + n <= PoolSize
          /\ PoolSize \in Nat
      BY <2>1 DEF Pools
    <3>2. r.block = m.current /\ r.cells = m.index..(m.index + n - 1)
      BY <2>2, <2>6
    <3>3. r.cells \subseteq 0..(PoolSize - 1) /\ \A k \in r.cells : k < m.index + n
      BY <3>1, <3>2
    <3> QED BY <2>3, <3>1, <3>2, <3>3 DEF Behind
  <2>8. ASSUME NEW i \in DOMAIN live
        PROVE  /\ Behind(memory', live[i])
               /\ live[i].block = r.block => live[i].cells \cap r.cells = {}
    <3>1. Behind(memory, live[i])
      BY <2>6
    <3>2. /\ live[i].block <= memory.current /\ memory.current \in Nat /\ m.current \in Nat
          /\ m.index \in Nat /\ n \in Nat /\ live[i].block \in Nat
      BY <3>1 DEF Behind, Pools
    <3>3. live[i].block = m.current => \A k \in live[i].cells : k \in Int /\ k < m.index
      <4> SUFFICES ASSUME live[i].block = m.current
                   PROVE  \A k \in live[i].cells : k \in Int /\ k < m.index
        OBVIOUS
      <4>1. m.current = memory.current /\ m.index = memory.index
        BY <2>1, <3>2
      <4>2. live[i].cells \subseteq Int
        BY <3>1 DEF Behind
      <4> QED BY <3>1, <4>1, <4>2 DEF Behind
    <3>4. r.block = m.current /\ r.cells = m.index..(m.index + n - 1)
      BY <2>2, <2>6
    <3>5. Behind(memory', live[i])
      <4>1. live[i].cells \subseteq 0..(PoolSize - 1)
        BY <3>1 DEF Behind
      <4>2. live[i].block <= memory'.current
        BY <2>1, <2>3, <3>2
      <4>3. live[i].block = memory'.current => \A k \in live[i].cells : k < memory'.index
        BY <2>3, <3>2, <3>3
      <4> QED BY <3>2, <4>1, <4>2, <4>3 DEF Behind
    <3> QED BY <3>2, <3>3, <3>4, <3>5
  <2>9. \A i \in DOMAIN live' : Behind(memory', live'[i])
    BY <2>4, <2>7, <2>8
  <2>10. Disjoint(live')
    <3> SUFFICES ASSUME NEW i \in DOMAIN live', NEW j \in DOMAIN live', i # j,
                        live'[i].block = live'[j].block
                 PROVE  live'[i].cells \cap live'[j].cells = {}
      BY DEF Disjoint
    <3>1. CASE i \in DOMAIN live /\ j \in DOMAIN live
      BY <2>4, <2>6, <3>1 DEF Disjoint
    <3>2. CASE i \in DOMAIN live /\ j = Len(live) + 1
      BY <2>4, <2>8, <3>2
    <3>3. CASE j \in DOMAIN live /\ i = Len(live) + 1
      BY <2>4, <2>8, <3>3
    <3> QED BY <2>4, <3>1, <3>2, <3>3
  <2> QED BY <2>9, <2>10
<1>2. CASE resetPool \/ moveFrom
  <2>1. memory' \in Pools
    <3>1. memory \in Pools
      OBVIOUS
    <3>2. CASE resetPool
      BY <3>1, <3>2 DEF resetPool, Pools
    <3>3. CASE moveFrom
      BY <3>3 DEF moveFrom, Pools
    <3> QED BY <1>2, <3>2, <3>3
  <2>2. live' = <<>>
    BY <1>2 DEF resetPool, moveFrom
  <2> QED BY <2>1, <2>2 DEF Disjoint
<1>3. CASE UNCHANGED memoryVars
  BY <1>3 DEF memoryVars, Disjoint, Behind
<1> QED BY <1>1, <1>2, <1>3 DEF MemoryNext

\* For any block size, any requests that fit into a block and any sequence of
\* allocations, resets and moves: while currentBlock_ has not run past the blocks
\* the pool has, everything handed out since the last reset lies in one of them,
\* within its bounds, and no two allocations share an object.
THEOREM PoolReuseIsSound == MemorySpec => []ReusedBlocksOwned
<1>1. MemoryInv => ReusedBlocksOwned
  <2> SUFFICES ASSUME MemoryInv, memory.current < memory.blocks, NEW i \in DOMAIN live
               PROVE  /\ live[i].block \in 0..(memory.blocks - 1)
                      /\ live[i].cells \subseteq 0..(PoolSize - 1)
    BY DEF MemoryInv, ReusedBlocksOwned, AllocationsOwned, Disjoint
  <2>1. Behind(memory, live[i]) /\ memory.current \in Nat /\ memory.blocks \in Nat
    BY DEF MemoryInv, Pools
  <2> QED BY <2>1 DEF Behind
<1> QED BY <1>1, MemoryInitially, MemoryStep, PTL DEF MemorySpec

-----------------------------------------------------------------------------
(* Write policies *)

WriteInv ==
  /\ writePolicy \in WritePolicies
  /\ WritePassedOnOrKept

\* Under every policy a write is passed on, or kept in a block that is written back
\* when it goes, through any sequence of reads, writes and evictions.
THEOREM PoliciesLoseNoWrite == WriteSpec => []WritePassedOnOrKept
<1>1. WriteInit => WriteInv
  BY DEF WriteInit, WriteInv, WritePassedOnOrKept
<1>2. WriteInv /\ [WriteNext]_writeVars => WriteInv'
  <2> SUFFICES ASSUME WriteInv, [WriteNext]_writeVars PROVE WriteInv'
    OBVIOUS
  <2> USE DEF WriteInv, WritePolicies, WritePassedOnOrKept
  <2>1. ASSUME NEW a \in WriteAddresses, PolicyWrite(a)
        PROVE  WriteInv'
    BY <2>1 DEF PolicyWrite, policyWritesBack, policyAllocates, Forwards, Takes, handleWrite
  <2>2. ASSUME NEW a \in WriteAddresses, PolicyRead(a) \/ PolicyEvict(a)
        PROVE  WriteInv'
    BY <2>2 DEF PolicyRead, PolicyEvict, policyWritesBack
  <2>3. CASE UNCHANGED writeVars
    BY <2>3 DEF writeVars, policyWritesBack
  <2> QED BY <2>1, <2>2, <2>3 DEF WriteNext
<1> QED BY <1>1, <1>2, PTL DEF WriteSpec, WriteInv

-----------------------------------------------------------------------------
(* Stride predictor *)

Entries == [valid : BOOLEAN, lastAddress : Nat, stride : Int, confidence : 0..3]

\* What an entry knows of the addresses s it has seen: k equal distances in a row
\* have raised its confidence to k - 1 at least.
Learned(e, s) ==
  /\ Len(s) > 0 => e.valid /\ e.lastAddress = s[1]
  /\ Len(s) > 1 => e.stride = Distance(s[1], s[2])
  /\ Len(s) > 2 /\ Distance(s[1], s[2]) = Distance(s[2], s[3]) => e.confidence >= 1
  /\ Len(s) > 3 /\ Distance(s[1], s[2]) = Distance(s[2], s[3])
                /\ Distance(s[2], s[3]) = Distance(s[3], s[4]) => e.confidence >= 2

Rows == 0..(TableSize - 1)

StrideInv ==
  /\ table \in [Rows -> Entries]
  /\ seen \in [Rows -> Seq(Nat)]
  /\ \A i \in Rows : Learned(table[i], seen[i])

\* What the model remembers.
LEMMA Remembered ==
  ASSUME NEW a \in Nat, NEW s \in Seq(Nat)
  PROVE  /\ Remember(a, s) \in Seq(Nat) /\ Len(Remember(a, s)) <= Len(s) + 1
         /\ \A i \in 1..Len(Remember(a, s)) : Remember(a, s)[i] = IF i = 1 THEN a ELSE s[i - 1]
<1> DEFINE q == <<a>> \o s
           n == IF Len(s) < Memory THEN Len(s) + 1 ELSE Memory
<1>1. /\ q \in Seq(Nat) /\ Len(q) = Len(s) + 1
      /\ \A i \in 1..(Len(s) + 1) : q[i] = IF i = 1 THEN a ELSE s[i - 1]
  OBVIOUS
<1>2. n \in 0..(Len(s) + 1)
  BY StreamAssumption
<1> HIDE DEF q, n
<1>3. /\ SubSeq(q, 1, n) \in Seq(Nat) /\ Len(SubSeq(q, 1, n)) = n
      /\ \A i \in 1..n : SubSeq(q, 1, n)[i] = q[i]
  BY <1>1, <1>2
<1>4. Remember(a, s) = SubSeq(q, 1, n)
  BY DEF Remember, q, n
<1>5. Len(Remember(a, s)) = n /\ \A i \in 1..n : Remember(a, s)[i] = q[i]
  BY <1>3, <1>4
<1>6. \A i \in 1..n : q[i] = IF i = 1 THEN a ELSE s[i - 1]
  <2>1. 1..n \subseteq 1..(Len(s) + 1)
    BY <1>2
  <2> QED BY <1>1, <2>1
<1>7. n <= Len(s) + 1
  BY <1>2
<1>8. Remember(a, s) \in Seq(Nat)
  BY <1>3, <1>4
<1> QED BY <1>5, <1>6, <1>7, <1>8

\* One more address keeps what an entry knows true.
LEMMA EntryLearns ==
  ASSUME NEW e \in Entries, NEW s \in Seq(Nat), Learned(e, s), NEW a \in Nat
  PROVE  UpdatedEntry(e, a) \in Entries /\ Learned(UpdatedEntry(e, a), Remember(a, s))
<1> DEFINE u == UpdatedEntry(e, a)
           r == Remember(a, s)
<1>1. u \in Entries /\ u.valid /\ u.lastAddress = a
  <2>1. Distance(a, e.lastAddress) \in Int
    BY TableAssumption DEF Entries, Distance
  <2> QED BY <2>1 DEF UpdatedEntry, Entries, Bump, Drop
<1>2. e.valid => /\ u.stride = Distance(a, e.lastAddress)
                 /\ Distance(a, e.lastAddress) = e.stride =>
                      /\ u.confidence >= 1
                      /\ e.confidence >= 1 => u.confidence >= 2
  BY DEF UpdatedEntry, Entries, Bump
<1>3. Len(r) \in Nat /\ Len(s) \in Nat /\ Len(r) <= Len(s) + 1
  <2>1. r \in Seq(Nat) /\ Len(r) <= Len(s) + 1
    BY Remembered
  <2> QED BY <2>1
<1>4. /\ Len(r) > 0 => r[1] = a
      /\ Len(r) > 1 => Len(s) > 0 /\ r[2] = s[1]
      /\ Len(r) > 2 => Len(s) > 1 /\ r[3] = s[2]
      /\ Len(r) > 3 => Len(s) > 2 /\ r[4] = s[3]
  <2> DEFINE n == Len(r)
             k == Len(s)
             Read(i) == r[i] = IF i = 1 THEN a ELSE s[i - 1]
  <2>1. \A i \in 1..n : Read(i)
    BY Remembered
  <2>2. n \in Nat /\ k \in Nat /\ n <= k + 1
    BY <1>3
  <2> HIDE DEF n, k, Read, r
  <2>3. /\ n > 0 => Read(1)
        /\ n > 1 => k > 0 /\ Read(2)
        /\ n > 2 => k > 1 /\ Read(3)
        /\ n > 3 => k > 2 /\ Read(4)
    BY <2>1, <2>2
  <2>4. Read(1) => r[1] = a
    BY DEF Read
  <2>5. /\ Read(2) => r[2] = s[1]
        /\ Read(3) => r[3] = s[2]
        /\ Read(4) => r[4] = s[3]
    BY DEF Read
  <2> QED BY <2>3, <2>4, <2>5 DEF n, k
<1> HIDE DEF u, r
<1>5. (Len(r) > 3 => Len(r) > 2) /\ (Len(r) > 2 => Len(r) > 1) /\ (Len(r) > 1 => Len(r) > 0)
  <2>1. \A n \in Nat : (n > 3 => n > 2) /\ (n > 2 => n > 1) /\ (n > 1 => n > 0)
    OBVIOUS
  <2> QED BY <1>3, <2>1, Zenon
<1>6. Len(r) > 0 => u.valid /\ u.lastAddress = r[1]
  BY <1>1, <1>4
<1>7. Len(r) > 1 => u.stride = Distance(r[1], r[2])
  BY <1>2, <1>3, <1>4 DEF Learned
<1>8. Len(r) > 2 /\ Distance(r[1], r[2]) = Distance(r[2], r[3]) => u.confidence >= 1
  <2> SUFFICES ASSUME Len(r) > 2, Distance(r[1], r[2]) = Distance(r[2], r[3])
               PROVE  u.confidence >= 1
    OBVIOUS
  <2>1. Len(r) > 0 /\ Len(r) > 1
    BY <1>5, Zenon
  <2>2. /\ r[1] = a /\ r[2] = s[1] /\ r[3] = s[2]
        /\ Len(s) > 0 /\ Len(s) > 1
    BY <1>4, <2>1, Zenon
  <2>3. Distance(a, s[1]) = Distance(s[1], s[2])
    BY <2>2
  <2>4. e.valid /\ e.lastAddress = s[1] /\ e.stride = Distance(s[1], s[2])
    BY <2>2 DEF Learned
  <2> QED BY <1>2, <2>3, <2>4
<1>9. Len(r) > 3 /\ Distance(r[1], r[2]) = Distance(r[2], r[3])
        /\ Distance(r[2], r[3]) = Distance(r[3], r[4]) => u.confidence >= 2
  <2> SUFFICES ASSUME Len(r) > 3, Distance(r[1], r[2]) = Distance(r[2], r[3]),
                      Distance(r[2], r[3]) = Distance(r[3], r[4])
               PROVE  u.confidence >= 2
    OBVIOUS
  <2>1. Len(r) > 0 /\ Len(r) > 1 /\ Len(r) > 2
    BY <1>5, Zenon
  <2>2. /\ r[1] = a /\ r[2] = s[1] /\ r[3] = s[2] /\ r[4] = s[3]
        /\ Len(s) > 0 /\ Len(s) > 1 /\ Len(s) > 2
    BY <1>4, <2>1, Zenon
  <2>3. Distance(a, s[1]) = Distance(s[1], s[2]) /\ Distance(s[1], s[2]) = Distance(s[2], s[3])
    BY <2>2
  <2>4. e.valid /\ e.lastAddress = s[1] /\ e.stride = Distance(s[1], s[2]) /\ e.confidence >= 1
    BY <2>2, <2>3 DEF Learned
  <2> QED BY <1>2, <2>3, <2>4
<1> QED BY <1>1, <1>6, <1>7, <1>8, <1>9 DEF Learned, u, r

\* For any table and any stream of addresses, an entry that saw three equal
\* distances in a row predicts that stride.
THEOREM SteadyStreamsArePredicted == StrideSpec => []SteadyEntryPredicts
<1>1. StrideInit => StrideInv
  BY TableAssumption DEF StrideInit, StrideInv, NewTable, Rows, Entries, Learned
<1>2. StrideInv /\ [StrideNext]_strideVars => StrideInv'
  <2> SUFFICES ASSUME StrideInv, [StrideNext]_strideVars PROVE StrideInv'
    OBVIOUS
  <2>1. ASSUME NEW a \in StreamAddresses, Feed(a)
        PROVE  StrideInv'
    <3> DEFINE k == a % TableSize
    <3>1. a \in Nat /\ k \in Rows
      BY TableAssumption, StreamAssumption DEF Rows
    <3>2. /\ table' = [table EXCEPT ![k] = UpdatedEntry(table[k], a)]
          /\ seen' = [seen EXCEPT ![k] = Remember(a, seen[k])]
      BY <2>1 DEF Feed, update
    <3> HIDE DEF k
    <3>3. /\ UpdatedEntry(table[k], a) \in Entries /\ Remember(a, seen[k]) \in Seq(Nat)
          /\ Learned(UpdatedEntry(table[k], a), Remember(a, seen[k]))
      BY <3>1, EntryLearns, Remembered DEF StrideInv
    <3> QED BY <3>1, <3>2, <3>3 DEF StrideInv
  <2>2. CASE UNCHANGED strideVars
    BY <2>2 DEF strideVars, StrideInv
  <2> QED BY <2>1, <2>2 DEF StrideNext
<1>3. StrideInv => SteadyEntryPredicts
  <2> SUFFICES ASSUME StrideInv, NEW i \in Rows, NEW d, Steady(seen[i], d, 3)
               PROVE  getStride(table, i) = d
    BY DEF SteadyEntryPredicts, StrideInv
  <2>1. i % TableSize = i
    BY TableAssumption DEF Rows
  <2>2. seen[i] \in Seq(Nat) /\ Learned(table[i], seen[i]) /\ Len(seen[i]) > 3
    BY DEF StrideInv, Steady
  <2>3. /\ Distance(seen[i][1], seen[i][2]) = d /\ Distance(seen[i][2], seen[i][3]) = d
        /\ Distance(seen[i][3], seen[i][4]) = d
    BY DEF Steady
  <2>4. table[i].valid /\ table[i].stride = d /\ table[i].confidence >= 2
    BY <2>2, <2>3 DEF Learned
  <2> QED BY <2>1, <2>4 DEF getStride, Confident
<1> QED BY <1>1, <1>2, <1>3, PTL DEF StrideSpec

-----------------------------------------------------------------------------
(* Adaptive prefetcher *)

\* Adaptive keeps both confidences at their initial value until it has become
\* Stride for good, as neither is above the other.
StrategyFits(f) ==
  /\ initialStrategy = "Stride" => f.strategy = "Stride"
  /\ initialStrategy = "Adaptive" =>
       f.strategy = "Stride" \/ (f.strategy = "Adaptive" /\ f.sequential = 50 /\ f.stride = 50)

\* The maps know the last two addresses of every page.
HistoryFits(f, p) ==
  LET s == lastTwo[p]
  IN  /\ s \in Seq(FetchAddresses)
      /\ f.lastAccess[p] = IF s = <<>> THEN Unseen ELSE s[1]
      /\ s # <<>> => Page(s[1]) = p
      /\ Len(s) = 2 => f.strideOf[p] = s[1] - s[2]

Fields == {"distance", "useful", "useless", "strategy", "sequential", "stride",
           "lastAccess", "strideOf"}

PrefetcherInv ==
  /\ initialStrategy \in Strategies
  /\ DOMAIN prefetcher = Fields
  /\ prefetcher.distance \in 1..MaxDistance
  /\ DOMAIN prefetcher.lastAccess = Pages /\ DOMAIN prefetcher.strideOf = Pages
  /\ DOMAIN lastTwo = Pages
  /\ StrategyFits(prefetcher)
  /\ \A p \in Pages : HistoryFits(prefetcher, p)

LEMMA AddressesAreNumbers == FetchAddresses \subseteq Int /\ Unseen \notin FetchAddresses
<1>1. FetchSpace \in Nat /\ FetchAddresses \subseteq 0..(FetchSpace - 1)
  BY PrefetcherAssumption, Zenon
<1>2. FetchAddresses \subseteq Int
  BY <1>1
<1> QED BY <1>2, PrefetcherAssumption, Zenon

\* The distance stays between 1 and maxPrefetchDistance.
LEMMA DistanceFits ==
  ASSUME NEW f, f.distance \in 1..MaxDistance
  PROVE  NewDistance(f) \in 1..MaxDistance
<1> USE PrefetcherAssumption
<1> DEFINE d == f.distance
<1>1. d * 2 \in Int /\ d \div 2 \in Nat /\ d \div 2 <= d
  OBVIOUS
<1>2. Longer(f) \in 1..MaxDistance
  <2>1. \E x \in {d * 2, MaxDistance} : \A y \in {d * 2, MaxDistance} : x <= y
    OBVIOUS
  <2>2. Longer(f) \in {d * 2, MaxDistance} /\ Longer(f) <= MaxDistance
    BY <2>1 DEF Longer, Min
  <2> QED BY <2>2
<1>3. Max({d \div 2, 1}) \in 1..MaxDistance
  <2>1. \E x \in {d \div 2, 1} : \A y \in {d \div 2, 1} : x >= y
    BY <1>1
  <2>2. Max({d \div 2, 1}) \in {d \div 2, 1} /\ Max({d \div 2, 1}) >= 1
    BY <2>1 DEF Max
  <2> QED BY <1>1, <2>2
<1> QED BY <1>2, <1>3 DEF NewDistance

\* Every call keeps the invariant.
LEMMA PrefetcherStep == PrefetcherInv /\ [PrefetcherNext]_prefetcherVars => PrefetcherInv'
<1> SUFFICES ASSUME PrefetcherInv, [PrefetcherNext]_prefetcherVars PROVE PrefetcherInv'
  OBVIOUS
\* A call that leaves the history alone.
<1>1. ASSUME UNCHANGED <<initialStrategy, lastTwo>>, DOMAIN prefetcher' = Fields,
             prefetcher'.lastAccess = prefetcher.lastAccess,
             prefetcher'.strideOf = prefetcher.strideOf,
             prefetcher'.distance \in 1..MaxDistance, StrategyFits(prefetcher')
      PROVE  PrefetcherInv'
  BY <1>1 DEF PrefetcherInv, StrategyFits, HistoryFits
<1>2. ASSUME NEW good \in BOOLEAN, recordPrefetchOutcome(good)
      PROVE  PrefetcherInv'
  <2> DEFINE f == [prefetcher EXCEPT !.useful = @ + (IF good THEN 1 ELSE 0),
                                     !.useless = @ + (IF good THEN 0 ELSE 1)]
  <2>1. /\ DOMAIN f = Fields /\ f.strategy = prefetcher.strategy
        /\ f.sequential = prefetcher.sequential /\ f.stride = prefetcher.stride
        /\ f.distance = prefetcher.distance
        /\ f.lastAccess = prefetcher.lastAccess /\ f.strideOf = prefetcher.strideOf
    BY DEF PrefetcherInv, Fields
  <2>2. prefetcher' = updateConfidence(f, good) /\ UNCHANGED <<initialStrategy, lastTwo>>
    BY <1>2 DEF recordPrefetchOutcome
  <2> HIDE DEF f
  <2>3. /\ DOMAIN prefetcher' = Fields /\ prefetcher'.strategy = f.strategy
        /\ prefetcher'.distance = f.distance
        /\ prefetcher'.lastAccess = f.lastAccess /\ prefetcher'.strideOf = f.strideOf
        /\ f.strategy = "Adaptive" => /\ prefetcher'.sequential = f.sequential
                                      /\ prefetcher'.stride = f.stride
    BY <2>1, <2>2 DEF updateConfidence, Fields
  <2>4. StrategyFits(prefetcher')
    BY <2>1, <2>3 DEF PrefetcherInv, StrategyFits
  <2> QED BY <1>1, <2>1, <2>2, <2>3, <2>4 DEF PrefetcherInv
<1>3. CASE adaptPrefetchDistance
  <2>1. UNCHANGED <<initialStrategy, lastTwo>>
    BY <1>3 DEF adaptPrefetchDistance
  <2>2. CASE prefetcher' = prefetcher
    BY <1>1, <2>1, <2>2 DEF PrefetcherInv
  <2>3. CASE prefetcher' = [prefetcher EXCEPT !.distance = NewDistance(prefetcher),
               !.strategy = IF @ = "Adaptive" THEN chooseBestStrategy(prefetcher) ELSE @]
    <3>1. /\ DOMAIN prefetcher' = Fields
          /\ prefetcher'.distance = NewDistance(prefetcher)
          /\ prefetcher'.strategy = IF prefetcher.strategy = "Adaptive"
                                    THEN chooseBestStrategy(prefetcher) ELSE prefetcher.strategy
          /\ prefetcher'.lastAccess = prefetcher.lastAccess
          /\ prefetcher'.strideOf = prefetcher.strideOf
      BY <2>3 DEF PrefetcherInv, Fields
    <3>2. StrategyFits(prefetcher')
      BY <3>1 DEF PrefetcherInv, StrategyFits, chooseBestStrategy
    <3> QED BY <1>1, <2>1, <3>1, <3>2, DistanceFits DEF PrefetcherInv
  <2> QED BY <1>3, <2>2, <2>3 DEF adaptPrefetchDistance
<1>4. CASE resetPrefetcherStats
  <2>1. /\ UNCHANGED <<initialStrategy, lastTwo>>
        /\ prefetcher' = [prefetcher EXCEPT !.useful = 0, !.useless = 0]
    BY <1>4 DEF resetPrefetcherStats
  <2>2. /\ DOMAIN prefetcher' = Fields
        /\ prefetcher'.distance = prefetcher.distance
        /\ prefetcher'.strategy = prefetcher.strategy
        /\ prefetcher'.sequential = prefetcher.sequential
        /\ prefetcher'.stride = prefetcher.stride
        /\ prefetcher'.lastAccess = prefetcher.lastAccess
        /\ prefetcher'.strideOf = prefetcher.strideOf
    BY <2>1 DEF PrefetcherInv, Fields
  <2> QED BY <1>1, <2>1, <2>2 DEF PrefetcherInv, StrategyFits
<1>5. ASSUME NEW a \in FetchAddresses, updateHistory(a)
      PROVE  PrefetcherInv'
  <2> DEFINE p == Page(a)
             s == lastTwo[p]
             stride == IF prefetcher.lastAccess[p] = Unseen THEN prefetcher.strideOf[p]
                       ELSE a - prefetcher.lastAccess[p]
             t == IF s = <<>> THEN <<a>> ELSE <<a, s[1]>>
  <2>1. p \in Pages
    BY DEF Pages
  <2>2. /\ prefetcher' = [prefetcher EXCEPT !.strideOf[p] = stride, !.lastAccess[p] = a]
        /\ lastTwo' = [lastTwo EXCEPT ![p] = t] /\ initialStrategy' = initialStrategy
    BY <1>5, <2>1 DEF updateHistory, Recorded, PrefetcherInv, Fields
  <2>3. s \in Seq(FetchAddresses) /\ HistoryFits(prefetcher, p) /\ Unseen \notin FetchAddresses
    BY <2>1, AddressesAreNumbers DEF PrefetcherInv, HistoryFits
  <2>4. /\ t \in Seq(FetchAddresses) /\ t # <<>> /\ t[1] = a
        /\ Len(t) = 2 => s # <<>> /\ t[2] = s[1]
    BY <2>3
  <2>5. Len(t) = 2 => stride = t[1] - t[2]
    <3> SUFFICES ASSUME Len(t) = 2 PROVE stride = t[1] - t[2]
      OBVIOUS
    <3>1. s # <<>> /\ t[2] = s[1] /\ t[1] = a
      BY <2>4
    <3>2. s[1] \in FetchAddresses
      BY <2>3, <3>1
    <3>3. prefetcher.lastAccess[p] = s[1]
      BY <2>3, <3>1 DEF HistoryFits
    <3> QED BY <2>3, <3>1, <3>2, <3>3
  <2> HIDE DEF p, s, stride, t
  <2>6. /\ DOMAIN prefetcher' = Fields
        /\ prefetcher'.distance = prefetcher.distance
        /\ prefetcher'.strategy = prefetcher.strategy
        /\ prefetcher'.sequential = prefetcher.sequential
        /\ prefetcher'.stride = prefetcher.stride
        /\ prefetcher'.lastAccess = [prefetcher.lastAccess EXCEPT ![p] = a]
        /\ prefetcher'.strideOf = [prefetcher.strideOf EXCEPT ![p] = stride]
    BY <2>2 DEF PrefetcherInv, Fields
  <2>7. HistoryFits(prefetcher, p)'
    BY <2>1, <2>2, <2>4, <2>5, <2>6 DEF HistoryFits, PrefetcherInv, p
  <2>8. ASSUME NEW x \in Pages, x # p
        PROVE  HistoryFits(prefetcher, x)'
    BY <2>1, <2>2, <2>6, <2>8 DEF HistoryFits, PrefetcherInv
  <2>9. StrategyFits(prefetcher)'
    BY <2>2, <2>6 DEF PrefetcherInv, StrategyFits
  <2>10. /\ DOMAIN prefetcher'.lastAccess = Pages /\ DOMAIN prefetcher'.strideOf = Pages
         /\ DOMAIN lastTwo' = Pages
    BY <2>2, <2>6 DEF PrefetcherInv
  <2> QED BY <2>2, <2>6, <2>7, <2>8, <2>9, <2>10 DEF PrefetcherInv
<1>6. CASE UNCHANGED prefetcherVars
  BY <1>6 DEF prefetcherVars, PrefetcherInv, StrategyFits, HistoryFits
<1> QED BY <1>2, <1>3, <1>4, <1>5, <1>6 DEF PrefetcherNext

\* For any pages, stream and outcomes, a prefetcher built with Stride or Adaptive
\* fetches what the stream of the page reaches in 1 to maxPrefetchDistance steps.
THEOREM StreamsAreRunAhead == PrefetcherSpec => []StrideRunsAhead
<1>1. PrefetcherInit => PrefetcherInv
  <2> SUFFICES ASSUME PrefetcherInit PROVE PrefetcherInv
    OBVIOUS
  <2>1. /\ DOMAIN prefetcher = Fields /\ prefetcher.distance = 1
        /\ prefetcher.strategy = initialStrategy
        /\ prefetcher.sequential = 50 /\ prefetcher.stride = 50
        /\ prefetcher.lastAccess = [p \in Pages |-> Unseen]
        /\ prefetcher.strideOf = [p \in Pages |-> Unseen]
    BY DEF PrefetcherInit, Fields
  <2> QED BY <2>1, PrefetcherAssumption
          DEF PrefetcherInit, PrefetcherInv, StrategyFits, HistoryFits
<1>2. PrefetcherInv => StrideRunsAhead
  <2> SUFFICES ASSUME PrefetcherInv, initialStrategy # "Sequential", NEW p \in Pages,
                      Len(lastTwo[p]) = 2, lastTwo[p][1] # lastTwo[p][2]
               PROVE  getPrefetchAddress(prefetcher, lastTwo[p][1])
                        = (lastTwo[p][1] + (lastTwo[p][1] - lastTwo[p][2]) * prefetcher.distance)
                          % FetchSpace
    BY DEF StrideRunsAhead, PrefetcherInv
  <2> DEFINE x == lastTwo[p][1]
             y == lastTwo[p][2]
  <2>1. /\ lastTwo[p] \in Seq(FetchAddresses) /\ lastTwo[p] # <<>>
        /\ Page(x) = p /\ prefetcher.strideOf[p] = x - y
    BY DEF PrefetcherInv, HistoryFits
  <2>2. x \in Int /\ y \in Int
    <3>1. x \in FetchAddresses /\ y \in FetchAddresses
      BY <2>1
    <3> QED BY <3>1, AddressesAreNumbers
  <2>3. x - y # 0 /\ x - y # Unseen
    <3>1. x - y \in Int /\ x - y # 0
      BY <2>2
    <3> QED BY <3>1, PrefetcherAssumption, Zenon
  <2>4. detectStride(prefetcher, x) = x - y
    BY <2>1, <2>3 DEF detectStride
  <2>5. (IF prefetcher.strategy = "Adaptive" THEN chooseBestStrategy(prefetcher)
         ELSE prefetcher.strategy) = "Stride"
    BY DEF PrefetcherInv, StrategyFits, Strategies, chooseBestStrategy
  <2> HIDE DEF x, y
  <2>6. getPrefetchAddress(prefetcher, x) = (x + (x - y) * prefetcher.distance) % FetchSpace
    BY <2>3, <2>4, <2>5 DEF getPrefetchAddress
  <2> QED BY <2>6 DEF x, y
<1> QED BY <1>1, <1>2, PrefetcherStep, PTL DEF PrefetcherSpec

-----------------------------------------------------------------------------
(* Write-combining buffer *)

Slot == [address : BufferAddresses \cup {0}, valid : BOOLEAN, stamp : Nat]

Held(b) == {i \in Slots : b.entries[i].valid}

\* An address is in one entry, stamped with its last write, and until an eviction
\* is reported every address written is in one.
BufferInv ==
  /\ buffer \in [entries : [Slots -> Slot], time : Nat]
  /\ written \in [BufferAddresses -> Nat]
  /\ evicted \in BOOLEAN
  /\ \A i \in Held(buffer) : LET e == buffer.entries[i]
                             IN  /\ e.address \in BufferAddresses
                                 /\ e.stamp = written[e.address] /\ e.stamp > 0
  /\ \A i, j \in Held(buffer) : buffer.entries[i].address = buffer.entries[j].address => i = j
  /\ ~evicted => \A a \in Unflushed : \E i \in Held(buffer) : buffer.entries[i].address = a

\* A set of natural numbers that is not empty has a least element, and it is
\* what Min returns.
LEMMA LeastElement ==
  ASSUME NEW S \in SUBSET Nat, S # {}
  PROVE  Min(S) \in S /\ \A y \in S : Min(S) <= y
<1>1. PICK x \in S : \A y \in S : ~(<<y, x>> \in OpToRel(<, Nat))
  BY NatLessThanWellFounded, WFMin, Zenon
<1>2. \A y \in S : ~(y < x)
  BY <1>1 DEF OpToRel
<1>3. \A y \in S : x <= y
  BY <1>2
<1> QED BY <1>3 DEF Min

\* The entry tryWrite uses: one that has the address if there is one, else an
\* empty one if there is one, else one whose stamp is the smallest.
LEMMA SlotIsRight ==
  ASSUME NEW b \in [entries : [Slots -> Slot], time : Nat], NEW a
  PROVE  LET k == SlotFor(b, a)
         IN  /\ k \in Slots
             /\ Matching(b, a) # {} => k \in Matching(b, a)
             /\ Matching(b, a) = {} /\ Empty(b) # {} => k \in Empty(b)
             /\ Matching(b, a) = {} /\ Empty(b) = {} =>
                  \A j \in Slots : b.entries[k].stamp <= b.entries[j].stamp
<1> DEFINE O == {i \in Slots : \A j \in Slots : b.entries[i].stamp <= b.entries[j].stamp}
           stamps == {b.entries[i].stamp : i \in Slots}
<1>1. Slots \subseteq Nat /\ 1 \in Slots
  BY BufferAssumption DEF Slots
<1>2. \A S \in SUBSET Slots : S # {} => Min(S) \in S
  BY <1>1, LeastElement
<1>3. \A i \in Slots : b.entries[i].stamp \in Nat
  BY DEF Slot
<1>4. stamps \in SUBSET Nat /\ stamps # {}
  BY <1>1, <1>3
<1>5. Min(stamps) \in stamps /\ \A y \in stamps : Min(stamps) <= y
  BY <1>4, LeastElement
<1>6. PICK i \in Slots : b.entries[i].stamp = Min(stamps)
  BY <1>5
<1>7. i \in O
  BY <1>5, <1>6
<1>8. Min(O) \in O
  BY <1>2, <1>7
<1>9. OldestSlot(b) = Min(O)
  BY DEF OldestSlot
<1>10. Matching(b, a) \subseteq Slots /\ Empty(b) \subseteq Slots
  BY DEF Matching, Empty
<1>11. CASE Matching(b, a) # {}
  <2>1. SlotFor(b, a) = Min(Matching(b, a))
    BY <1>11 DEF SlotFor
  <2> QED BY <1>2, <1>10, <1>11, <2>1
<1>12. CASE Matching(b, a) = {} /\ Empty(b) # {}
  <2>1. SlotFor(b, a) = Min(Empty(b))
    BY <1>12 DEF SlotFor
  <2> QED BY <1>2, <1>10, <1>12, <2>1
<1>13. CASE Matching(b, a) = {} /\ Empty(b) = {}
  <2>1. SlotFor(b, a) = Min(O)
    BY <1>9, <1>13 DEF SlotFor
  <2> QED BY <1>8, <1>13, <2>1
<1> QED BY <1>11, <1>12, <1>13

\* What tryWrite changes.
LEMMA WriteEffect ==
  ASSUME BufferInv, NEW a \in BufferAddresses, tryWrite(a)
  PROVE  LET k == SlotFor(buffer, a)
             new == [address |-> a, valid |-> TRUE, stamp |-> buffer.time + 1]
         IN  /\ k \in Slots /\ new \in Slot
             /\ buffer' \in [entries : [Slots -> Slot], time : Nat]
             /\ buffer'.entries = [buffer.entries EXCEPT ![k] = new]
             /\ Held(buffer') = Held(buffer) \cup {k}
             /\ buffer'.time = buffer.time + 1
             /\ \A j \in Held(buffer) : j # k => buffer.entries[j].address # a
<1> DEFINE k == SlotFor(buffer, a)
           new == [address |-> a, valid |-> TRUE, stamp |-> buffer.time + 1]
<1>1. buffer \in [entries : [Slots -> Slot], time : Nat]
  BY DEF BufferInv
<1>2. k \in Slots /\ (Matching(buffer, a) # {} => k \in Matching(buffer, a))
  BY <1>1, SlotIsRight
<1>3. new \in Slot
  BY <1>1 DEF Slot
<1>4. buffer' = [entries |-> [buffer.entries EXCEPT ![k] = new], time |-> buffer.time + 1]
  BY DEF tryWrite, Stamp
<1> HIDE DEF k
<1>5. /\ buffer' \in [entries : [Slots -> Slot], time : Nat]
      /\ buffer'.entries = [buffer.entries EXCEPT ![k] = new]
      /\ buffer'.time = buffer.time + 1
  BY <1>1, <1>2, <1>3, <1>4
<1>6. Held(buffer') = Held(buffer) \cup {k}
  BY <1>1, <1>2, <1>5 DEF Held
<1>7. ASSUME NEW j \in Held(buffer), j # k, buffer.entries[j].address = a
      PROVE  FALSE
  <2>1. j \in Matching(buffer, a)
    BY <1>7 DEF Held, Matching
  <2>2. k \in Held(buffer) /\ buffer.entries[k].address = a
    BY <1>2, <2>1 DEF Held, Matching
  <2> QED BY <1>7, <2>2 DEF BufferInv
<1> QED BY <1>2, <1>3, <1>5, <1>6, <1>7 DEF k

\* Every call keeps the invariant.
LEMMA BufferStep == BufferInv /\ [BufferNext]_bufferVars => BufferInv'
<1> SUFFICES ASSUME BufferInv, [BufferNext]_bufferVars PROVE BufferInv'
  OBVIOUS
<1>1. ASSUME NEW a \in BufferAddresses, tryWrite(a)
      PROVE  BufferInv'
  <2> DEFINE k == SlotFor(buffer, a)
             new == [address |-> a, valid |-> TRUE, stamp |-> buffer.time + 1]
  <2>1. /\ k \in Slots /\ new \in Slot
        /\ buffer' \in [entries : [Slots -> Slot], time : Nat]
        /\ buffer'.entries = [buffer.entries EXCEPT ![k] = new]
        /\ Held(buffer') = Held(buffer) \cup {k}
        /\ \A j \in Held(buffer) : j # k => buffer.entries[j].address # a
    BY <1>1, WriteEffect
  <2>2. /\ written' = [written EXCEPT ![a] = buffer.time + 1]
        /\ evicted' = (evicted \/ ~tryWriteReturns(buffer, a))
    BY <1>1 DEF tryWrite
  <2>3. buffer \in [entries : [Slots -> Slot], time : Nat] /\ buffer.time \in Nat
    BY DEF BufferInv
  <2>4. /\ Matching(buffer, a) # {} => k \in Matching(buffer, a)
        /\ Matching(buffer, a) = {} /\ Empty(buffer) # {} => k \in Empty(buffer)
    BY <2>3, SlotIsRight
  <2> HIDE DEF k
  <2>5. /\ buffer'.entries[k] = new
        /\ \A j \in Slots : j # k => buffer'.entries[j] = buffer.entries[j]
    BY <2>1, <2>3
  <2>6. /\ written' \in [BufferAddresses -> Nat] /\ evicted' \in BOOLEAN
        /\ written'[a] = buffer.time + 1
        /\ \A x \in BufferAddresses : x # a => written'[x] = written[x]
    BY <2>2, <2>3 DEF BufferInv
  <2>7. ASSUME NEW i \in Held(buffer')
        PROVE  LET e == buffer'.entries[i]
               IN  /\ e.address \in BufferAddresses
                   /\ e.stamp = written'[e.address] /\ e.stamp > 0
    <3>1. CASE i = k
      BY <2>3, <2>5, <2>6, <3>1
    <3>2. CASE i # k
      <4>1. i \in Held(buffer) /\ i \in Slots /\ buffer'.entries[i] = buffer.entries[i]
        BY <2>1, <2>5, <3>2 DEF Held
      <4>2. buffer.entries[i].address # a
        BY <2>1, <3>2, <4>1
      <4> QED BY <2>6, <4>1, <4>2 DEF BufferInv
    <3> QED BY <3>1, <3>2
  <2>8. ASSUME NEW i \in Held(buffer'), NEW j \in Held(buffer'),
               buffer'.entries[i].address = buffer'.entries[j].address
        PROVE  i = j
    <3>1. \A x \in Held(buffer') : x # k => /\ x \in Held(buffer)
                                            /\ buffer'.entries[x] = buffer.entries[x]
      BY <2>1, <2>5 DEF Held
    <3>2. buffer'.entries[k].address = a
      BY <2>5
    <3> QED BY <2>1, <2>8, <3>1, <3>2 DEF BufferInv
  <2>9. ASSUME ~evicted', NEW x \in BufferAddresses, written'[x] > 0
        PROVE  \E i \in Held(buffer') : buffer'.entries[i].address = x
    <3>1. CASE x = a
      BY <2>1, <2>5, <3>1
    <3>2. CASE x # a
      <4>1. ~evicted /\ tryWriteReturns(buffer, a) /\ x \in Unflushed
        BY <2>2, <2>6, <2>9, <3>2 DEF Unflushed
      <4>2. PICK i \in Held(buffer) : buffer.entries[i].address = x
        BY <4>1 DEF BufferInv
      <4>3. k \in Matching(buffer, a) \/ k \in Empty(buffer)
        BY <2>4, <4>1 DEF tryWriteReturns
      <4>4. i # k
        BY <3>2, <4>2, <4>3 DEF Matching, Empty, Held
      <4> QED BY <2>1, <2>5, <4>2, <4>4 DEF Held
    <3> QED BY <3>1, <3>2
  <2>10. Unflushed' = {x \in BufferAddresses : written'[x] > 0}
    BY DEF Unflushed
  <2> QED BY <2>1, <2>6, <2>7, <2>8, <2>9, <2>10 DEF BufferInv
<1>2. CASE flush
  <2>1. /\ buffer' = [buffer EXCEPT !.entries = [i \in Slots |-> [@[i] EXCEPT !.valid = FALSE]]]
        /\ written' = [a \in BufferAddresses |-> 0] /\ evicted' = FALSE
    BY <1>2 DEF flush
  <2>2. buffer \in [entries : [Slots -> Slot], time : Nat]
    BY DEF BufferInv
  <2>3. /\ buffer'.entries = [i \in Slots |-> [buffer.entries[i] EXCEPT !.valid = FALSE]]
        /\ buffer' = [entries |-> buffer'.entries, time |-> buffer.time]
    BY <2>1, <2>2
  <2>4. \A i \in Slots : /\ [buffer.entries[i] EXCEPT !.valid = FALSE] \in Slot
                         /\ [buffer.entries[i] EXCEPT !.valid = FALSE].valid = FALSE
    BY <2>2 DEF Slot
  <2>5. buffer' \in [entries : [Slots -> Slot], time : Nat]
    BY <2>2, <2>3, <2>4
  <2>6. Held(buffer') = {}
    BY <2>3, <2>4 DEF Held
  <2>7. Unflushed' = {}
    BY <2>1 DEF Unflushed
  <2> QED BY <2>1, <2>5, <2>6, <2>7 DEF BufferInv
<1>3. CASE UNCHANGED bufferVars
  BY <1>3 DEF bufferVars, BufferInv, Unflushed, Held
<1> QED BY <1>1, <1>2, <1>3 DEF BufferNext

\* Nothing is pending at first.
LEMMA BufferInitially == BufferInit => BufferInv
<1> SUFFICES ASSUME BufferInit PROVE BufferInv
  OBVIOUS
<1>1. Held(buffer) = {} /\ Unflushed = {}
  BY DEF BufferInit, Held, Unflushed
<1>2. buffer \in [entries : [Slots -> Slot], time : Nat]
  BY DEF BufferInit, Slot
<1> QED BY <1>1, <1>2 DEF BufferInit, BufferInv

\* For any number of entries and any sequence of writes and flushes, a flush returns
\* every address written since the last one, once, unless tryWrite reported an
\* eviction in between.
THEOREM FlushesAreComplete == BufferSpec => []FlushIsComplete
<1>1. BufferInv => FlushIsComplete
  <2> SUFFICES ASSUME BufferInv, ~evicted
               PROVE  Pending(buffer) = Unflushed /\ getOccupancy(buffer) = Cardinality(Unflushed)
    BY DEF FlushIsComplete
  <2>1. Slots \ Empty(buffer) = Held(buffer)
    BY DEF Empty, Held
  <2>2. \A i \in Held(buffer) : buffer.entries[i].address \in Unflushed
    BY DEF BufferInv, Unflushed
  <2>3. \A a \in Unflushed : \E i \in Held(buffer) : buffer.entries[i].address = a
    BY DEF BufferInv
  <2>4. Pending(buffer) = Unflushed
    BY <2>1, <2>2, <2>3 DEF Pending
  <2> DEFINE F == [i \in Held(buffer) |-> buffer.entries[i].address]
  <2>5. /\ F \in [Held(buffer) -> Unflushed]
        /\ \A i, j \in Held(buffer) : F[i] = F[j] => i = j
        /\ \A a \in Unflushed : \E i \in Held(buffer) : F[i] = a
    BY <2>2, <2>3 DEF BufferInv
  <2> HIDE DEF F
  <2>6. ExistsBijection(Held(buffer), Unflushed)
    <3>1. F \in Bijection(Held(buffer), Unflushed)
      BY <2>5, Fun_IsBij
    <3> QED BY <3>1 DEF ExistsBijection
  <2>7. IsFiniteSet(Held(buffer))
    <3>1. IsFiniteSet(Slots)
      BY BufferAssumption, FS_Interval DEF Slots
    <3> QED BY <3>1, FS_Subset DEF Held
  <2>8. Cardinality(Unflushed) = Cardinality(Held(buffer))
    BY <2>6, <2>7, FS_Bijection
  <2> QED BY <2>1, <2>4, <2>8 DEF getOccupancy
<1> QED BY <1>1, BufferInitially, BufferStep, PTL DEF BufferSpec

\* For any number of entries the pending write that tryWrite drops is older than
\* every other.
THEOREM LeastRecentIsDropped == BufferSpec => DropsLeastRecent
<1>1. ASSUME BufferInv, [BufferNext]_bufferVars
      PROVE  [\A a \in BufferAddresses : \A i, j \in Pending(buffer) :
                tryWrite(a) /\ written[i] < written[j] /\ i \in Pending(buffer')
                  => j \in Pending(buffer')]_bufferVars
  <2> SUFFICES ASSUME NEW a \in BufferAddresses, tryWrite(a), NEW x \in Pending(buffer),
                      NEW y \in Pending(buffer), written[x] < written[y],
                      y \notin Pending(buffer')
               PROVE  FALSE
    OBVIOUS
  <2> DEFINE k == SlotFor(buffer, a)
  <2>1. \A b : Slots \ Empty(b) = Held(b)
    BY DEF Empty, Held
  <2>2. PICK i \in Held(buffer), j \in Held(buffer) :
          buffer.entries[i].address = x /\ buffer.entries[j].address = y
    BY <2>1 DEF Pending
  <2>3. /\ k \in Slots
        /\ buffer'.entries = [buffer.entries EXCEPT ![k] = [address |-> a, valid |-> TRUE,
                                                            stamp |-> buffer.time + 1]]
        /\ Held(buffer') = Held(buffer) \cup {k}
    BY <1>1, WriteEffect
  <2>4. buffer \in [entries : [Slots -> Slot], time : Nat]
    BY <1>1 DEF BufferInv
  <2>5. /\ Matching(buffer, a) # {} => k \in Matching(buffer, a)
        /\ Matching(buffer, a) = {} /\ Empty(buffer) # {} => k \in Empty(buffer)
        /\ Matching(buffer, a) = {} /\ Empty(buffer) = {} =>
             \A n \in Slots : buffer.entries[k].stamp <= buffer.entries[n].stamp
    BY <2>4, SlotIsRight
  <2> HIDE DEF k
  <2>6. i \in Slots /\ j \in Slots /\ buffer.entries[j].valid
    BY DEF Held
  <2>7. \A n \in Held(buffer') : buffer'.entries[n].address # y
    BY <2>1 DEF Pending
  <2>8. j = k /\ a # y
    BY <2>2, <2>3, <2>4, <2>6, <2>7
  <2>9. Matching(buffer, a) = {} /\ Empty(buffer) = {}
    BY <2>2, <2>5, <2>6, <2>8 DEF Matching, Empty
  <2>10. buffer.entries[j].stamp <= buffer.entries[i].stamp
    BY <2>5, <2>6, <2>8, <2>9
  <2>11. /\ buffer.entries[i].stamp = written[x] /\ buffer.entries[j].stamp = written[y]
         /\ written[x] \in Nat /\ written[y] \in Nat
    BY <1>1, <2>2 DEF BufferInv
  <2> QED BY <2>10, <2>11
<1> QED BY <1>1, BufferInitially, BufferStep, PTL DEF BufferSpec, DropsLeastRecent

(* Victim cache *)

VictimBlocks == [address : VictimAddresses, valid : BOOLEAN, dirty : BOOLEAN]

\* Every slot has an address of its own, and a valid block is the last copy
\* inserted: the flags l are those of the last copies.
Current(s, l) ==
  /\ s \in Seq(VictimBlocks)
  /\ \A i, j \in 1..Len(s) : s[i].address = s[j].address => i = j
  /\ \A i \in 1..Len(s) : s[i].valid => s[i].dirty = l[s[i].address]

VictimInv == Current(victims.blocks, latest) /\ latest \in [VictimAddresses -> BOOLEAN]

\* Giving up the block of a slot makes no other one stale.  An index past the
\* last slot changes nothing.
LEMMA ClearedIsCurrent ==
  ASSUME NEW s, NEW l, Current(s, l), NEW k
  PROVE  Current([s EXCEPT ![k].valid = FALSE], l)
<1> DEFINE t == [s EXCEPT ![k].valid = FALSE]
<1>1. s \in Seq(VictimBlocks) /\ Len(s) \in Nat /\ DOMAIN s = 1..Len(s)
  BY DEF Current
<1>2. DOMAIN t = 1..Len(s)
  BY <1>1
<1>3. \A i \in 1..Len(s) : t[i] = IF i = k THEN [s[i] EXCEPT !.valid = FALSE] ELSE s[i]
  BY <1>1
<1>4. t = [i \in 1..Len(s) |-> t[i]]
  BY <1>1
<1> HIDE DEF t
<1>5. ASSUME NEW i \in 1..Len(s)
      PROVE  /\ t[i] \in VictimBlocks /\ t[i].address = s[i].address /\ t[i].dirty = s[i].dirty
             /\ t[i].valid => s[i].valid
  <2>1. s[i] \in VictimBlocks
    BY <1>1
  <2> QED BY <1>3, <2>1 DEF VictimBlocks
<1>6. t \in Seq(VictimBlocks) /\ Len(t) = Len(s)
  BY <1>1, <1>4, <1>5
<1>7. Current(t, l)
  BY <1>5, <1>6 DEF Current
<1> QED BY <1>7 DEF t

\* The first slot with a property.
LEMMA FirstSlot ==
  ASSUME NEW n \in Nat, NEW T \in SUBSET (1..n), NEW at,
         at = IF T # {} THEN Min(T) ELSE 0
  PROVE  at \in 0..n /\ (at # 0 <=> T # {}) /\ (at # 0 => at \in T)
<1>1. T \in SUBSET Nat
  OBVIOUS
<1>2. T # {} => Min(T) \in T
  BY <1>1, LeastElement
<1> HIDE DEF Min
<1>3. CASE T = {}
  BY <1>3
<1>4. CASE T # {}
  <2>1. at \in T
    BY <1>2, <1>4
  <2> QED BY <1>4, <2>1
<1> QED BY <1>3, <1>4

\* A new block goes to an invalid slot or to a new one; either way its address
\* is in no other slot.
LEMMA PlacedIsCurrent ==
  ASSUME NEW s, NEW l \in [VictimAddresses -> BOOLEAN], Current(s, l),
         NEW a \in VictimAddresses, NEW dirty \in BOOLEAN,
         NEW at \in 1..(Len(s) + 1),
         \A i \in 1..Len(s) : s[i].address = a => i = at
  PROVE  LET block == [address |-> a, valid |-> TRUE, dirty |-> dirty]
             t == IF at = Len(s) + 1 THEN Append(s, block) ELSE [s EXCEPT ![at] = block]
         IN  Current(t, [l EXCEPT ![a] = dirty])
<1> DEFINE block == [address |-> a, valid |-> TRUE, dirty |-> dirty]
           t == IF at = Len(s) + 1 THEN Append(s, block) ELSE [s EXCEPT ![at] = block]
           m == [l EXCEPT ![a] = dirty]
<1>0. block \in VictimBlocks /\ block.address = a /\ block.dirty = dirty
  BY DEF VictimBlocks
<1>1. s \in Seq(VictimBlocks) /\ Len(s) \in Nat /\ DOMAIN s = 1..Len(s)
  BY DEF Current
<1> HIDE DEF block
<1>2. /\ t \in Seq(VictimBlocks) /\ at \in 1..Len(t)
      /\ \A i \in 1..Len(t) : t[i] = IF i = at THEN block ELSE s[i]
      /\ \A i \in 1..Len(t) : i # at => i \in 1..Len(s)
  <2>1. CASE at = Len(s) + 1
    BY <1>0, <1>1, <2>1
  <2>2. CASE at # Len(s) + 1
    BY <1>0, <1>1, <2>2
  <2> QED BY <2>1, <2>2
<1>3. m[a] = dirty /\ \A b \in VictimAddresses : b # a => m[b] = l[b]
  OBVIOUS
<1> HIDE DEF t, m
<1>4. \A i, j \in 1..Len(t) : t[i].address = t[j].address => i = j
  <2> SUFFICES ASSUME NEW i \in 1..Len(t), NEW j \in 1..Len(t), t[i].address = t[j].address
               PROVE  i = j
    OBVIOUS
  <2>1. CASE i = at
    BY <1>0, <1>2, <2>1
  <2>2. CASE j = at
    BY <1>0, <1>2, <2>2
  <2>3. CASE i # at /\ j # at
    BY <1>2, <2>3 DEF Current
  <2> QED BY <2>1, <2>2, <2>3
<1>5. ASSUME NEW i \in 1..Len(t), t[i].valid
      PROVE  t[i].dirty = m[t[i].address]
  <2>1. CASE i = at
    BY <1>0, <1>2, <1>3, <2>1
  <2>2. CASE i # at
    <3>1. i \in 1..Len(s) /\ t[i] = s[i]
      BY <1>2, <2>2
    <3>2. s[i].dirty = l[s[i].address]
      BY <1>5, <3>1 DEF Current
    <3>3. s[i].address # a
      BY <2>2, <3>1
    <3>4. s[i] \in VictimBlocks
      BY <1>1, <3>1
    <3>5. s[i].address \in VictimAddresses
      BY <3>4 DEF VictimBlocks
    <3> QED BY <1>3, <3>1, <3>2, <3>3, <3>5
  <2> QED BY <2>1, <2>2
<1>6. Current(t, m)
  BY <1>2, <1>4, <1>5 DEF Current
<1> QED BY <1>6 DEF t, m, block

\* An eviction keeps the address of every slot.
LEMMA EvictedIsCurrent ==
  ASSUME NEW v, NEW l, Current(v.blocks, l)
  PROVE  LET w == evictOldestBlock(v)
         IN  /\ Current(w.blocks, l) /\ Len(w.blocks) = Len(v.blocks)
             /\ \A i \in 1..Len(v.blocks) : w.blocks[i].address = v.blocks[i].address
<1>1. CASE v.fifo = <<>> \/ v.size = 0
  BY <1>1 DEF evictOldestBlock
<1>2. CASE ~(v.fifo = <<>> \/ v.size = 0)
  <2> DEFINE k == Head(v.fifo)
             s == v.blocks
             t == [s EXCEPT ![k].valid = FALSE]
  <2>1. evictOldestBlock(v).blocks = t
    BY <1>2 DEF evictOldestBlock
  <2>2. Current(t, l)
    <3> HIDE DEF s, k
    <3> QED BY ClearedIsCurrent DEF s
  <2>3. s \in Seq(VictimBlocks) /\ Len(s) \in Nat /\ DOMAIN s = 1..Len(s) 
    BY DEF Current
  <2>4. Len(t) = Len(s) /\ \A i \in 1..Len(s) : t[i].address = s[i].address
    <3>1. \A i \in 1..Len(s) : s[i] \in VictimBlocks
      BY <2>3
    <3>2. t \in Seq(VictimBlocks) /\ DOMAIN t = 1..Len(s)
      BY <2>2, <2>3 DEF Current
    <3>3. \A i \in 1..Len(s) : t[i] = IF i = k THEN [s[i] EXCEPT !.valid = FALSE] ELSE s[i]
      BY <2>3
    <3> HIDE DEF t, s
    <3>4. Len(t) = Len(s)
      BY <2>3, <3>2
    <3> QED BY <3>1, <3>3, <3>4 DEF VictimBlocks
  <2> QED BY <2>1, <2>2, <2>4
<1> QED BY <1>1, <1>2

\* What the searches over the slots answer.
LEMMA SlotsFound ==
  ASSUME NEW v, v.blocks \in Seq(VictimBlocks), NEW a
  PROVE  LET n == Len(v.blocks)
             same == SameBlock(v, a)
             valid == ValidAt(v, a)
         IN  /\ same \in 0..n
             /\ same # 0 => v.blocks[same].address = a
             /\ same = 0 => \A i \in 1..n : v.blocks[i].address # a
             /\ findBlock(v, a) <=> \E i \in 1..n : v.blocks[i].address = a /\ v.blocks[i].valid
<1> DEFINE s == v.blocks
           n == Len(s)
           S == {i \in 1..n : s[i].address = a}
           V == {i \in 1..n : s[i].address = a /\ s[i].valid}
<1>1. n \in Nat /\ S \in SUBSET (1..n) /\ V \in SUBSET (1..n)
  OBVIOUS
<1>2. SameBlock(v, a) = IF S # {} THEN Min(S) ELSE 0
  BY Zenon DEF SameBlock, SelectInSeq
<1>3. ValidAt(v, a) = IF V # {} THEN Min(V) ELSE 0
  BY Zenon DEF ValidAt, SelectInSeq
<1>4. SameBlock(v, a) \in 0..n /\ (SameBlock(v, a) # 0 <=> S # {}) /\ (SameBlock(v, a) # 0 => SameBlock(v, a) \in S)
  <2> HIDE DEF n, S
  <2> QED BY <1>1, <1>2, FirstSlot
<1>5. ValidAt(v, a) # 0 <=> V # {}
  <2> HIDE DEF n, V
  <2> QED BY <1>1, <1>3, FirstSlot
<1> QED BY <1>4, <1>5 DEF findBlock

\* The loop over the slots that drops a range.
LEMMA RangeDroppedIsCurrent ==
  ASSUME NEW v, NEW l, Current(v.blocks, l), NEW first, NEW last
  PROVE  Current(invalidateBlocksInRange(v, first, last).blocks, l)
<1> DEFINE Round(g, i) == IF i = 0 THEN v ELSE DropInRange(g[i - 1], i, first, last)
           N == Len(v.blocks)
           Good(n) == \E g : g = [i \in 0..n |-> Round(g, i)]
           Bad == {n \in 0..N : ~Good(n)}
<1>1. N \in Nat
  BY DEF Current
<1>2. Good(0)
  <2> DEFINE g == [i \in 0..0 |-> v]
  <2>1. g = [i \in 0..0 |-> Round(g, i)]
    OBVIOUS
  <2> QED BY <2>1
<1>3. ASSUME NEW n \in 1..N, Good(n - 1)
      PROVE  Good(n)
  <2>1. PICK g : g = [i \in 0..(n - 1) |-> Round(g, i)]
    BY <1>3
  <2>2. PICK h : h = [i \in 0..n |-> IF i = n THEN Round(g, n) ELSE g[i]]
    OBVIOUS
  <2>3. ASSUME NEW i \in 0..n PROVE h[i] = Round(h, i)
    <3>1. i # 0 => h[i - 1] = g[i - 1]
      BY <1>1, <2>2
    <3>2. Round(h, i) = Round(g, i)
      BY <3>1
    <3>3. h[i] = Round(g, i)
      <4>1. \A j \in 0..(n - 1) : g[j] = Round(g, j)
        BY <2>1
      <4>2. i # n => i \in 0..(n - 1)
        BY <1>1
      <4> HIDE DEF Round
      <4> QED BY <2>2, <4>1, <4>2
    <3> QED BY <3>2, <3>3
  <2>4. h = [i \in 0..n |-> Round(h, i)]
    <3> HIDE DEF Round
    <3> QED BY <2>2, <2>3
  <2> QED BY <2>4
<1> HIDE DEF Good, N
<1>4. Good(N)
  <2> SUFFICES ASSUME Bad # {} PROVE FALSE
    BY <1>1
  <2>1. Bad \in SUBSET Nat
    BY <1>1
  <2>2. Min(Bad) \in Bad /\ \A y \in Bad : Min(Bad) <= y
    <3> HIDE DEF Bad
    <3> QED BY <2>1, LeastElement
  <2>3. PICK n \in 0..N : ~Good(n) /\ \A y \in Bad : n <= y
    BY <2>2
  <2>4. n # 0
    BY <1>2, <2>3
  <2>5. Good(n - 1)
    BY <1>1, <2>3, <2>4
  <2> QED BY <1>1, <1>3, <2>3, <2>4, <2>5
<1>5. \E g : g = [i \in 0..N |-> Round(g, i)]
  BY <1>4 DEF Good
<1> DEFINE f == CHOOSE g : g = [i \in 0..N |-> Round(g, i)]
<1>6. f = [i \in 0..N |-> Round(f, i)]
  BY <1>5, Zenon
<1>7. invalidateBlocksInRange(v, first, last) = f[N]
  BY Zenon DEF invalidateBlocksInRange, N
<1> HIDE DEF f
<1> DEFINE Odd == {i \in 0..N : ~Current(f[i].blocks, l)}
<1>8. Odd = {}
  <2> SUFFICES ASSUME Odd # {} PROVE FALSE
    OBVIOUS
  <2>1. Odd \in SUBSET Nat
    BY <1>1
  <2>2. Min(Odd) \in Odd /\ \A y \in Odd : Min(Odd) <= y
    <3> HIDE DEF Odd
    <3> QED BY <2>1, LeastElement
  <2>3. PICK i \in 0..N : ~Current(f[i].blocks, l) /\ \A y \in Odd : i <= y
    BY <2>2
  <2>4. f[i] = Round(f, i)
    <3> HIDE DEF Round
    <3> QED BY <1>6
  <2>5. i # 0
    BY <2>3, <2>4
  <2>6. Current(f[i - 1].blocks, l)
    BY <1>1, <2>3, <2>5
  <2>7. PICK u : u = f[i - 1]
    OBVIOUS
  <2>8. f[i] = DropInRange(u, i, first, last)
    BY <2>4, <2>5, <2>7
  <2>9. f[i].blocks = u.blocks \/ f[i].blocks = [u.blocks EXCEPT ![i].valid = FALSE]
    BY <2>8 DEF DropInRange, Invalidated
  <2>10. Current([u.blocks EXCEPT ![i].valid = FALSE], l)
    BY <2>6, <2>7, ClearedIsCurrent
  <2> QED BY <2>3, <2>6, <2>7, <2>9, <2>10
<1> QED BY <1>1, <1>7, <1>8

\* A sort keeps some of the blocks, each once.
LEMMA SortedIsCurrent ==
  ASSUME NEW v, NEW l, Current(v.blocks, l), NEW s \in SortedBlocks(v)
  PROVE  Current(s, l)
<1> DEFINE b == v.blocks
           T == ToSet(b)
<1>1. b \in Seq(VictimBlocks) /\ Len(b) \in Nat /\ DOMAIN b = 1..Len(b)
  BY DEF Current
<1>2. Cardinality(T) \in Nat
  <2>1. b \in Surjection(1..Len(b), T)
    BY <1>1 DEF Surjection, ToSet
  <2>2. IsFiniteSet(1..Len(b))
    BY <1>1, FS_Interval
  <2>3. IsFiniteSet(T)
    BY <2>1, <2>2, FS_Surjection
  <2> QED BY <2>3, FS_CardinalityType
<1>3. s \in [1..Cardinality(T) -> T] /\ \A i, j \in 1..Cardinality(T) : i # j => s[i] # s[j]
  BY DEF SortedBlocks, SetToSeqs
<1>4. \A x \in T : x \in VictimBlocks /\ \E k \in 1..Len(b) : x = b[k]
  BY <1>1 DEF ToSet
<1> HIDE DEF T
<1>5. s \in Seq(VictimBlocks) /\ Len(s) = Cardinality(T)
  BY <1>2, <1>3, <1>4
<1>6. ASSUME NEW i \in 1..Len(s), NEW j \in 1..Len(s), s[i].address = s[j].address
      PROVE  i = j
  <2>1. PICK k \in 1..Len(b), m \in 1..Len(b) : s[i] = b[k] /\ s[j] = b[m]
    BY <1>3, <1>4, <1>5
  <2>2. k = m
    BY <1>6, <2>1 DEF Current
  <2> QED BY <1>3, <1>5, <2>1, <2>2
<1>7. ASSUME NEW i \in 1..Len(s), s[i].valid
      PROVE  s[i].dirty = l[s[i].address]
  <2>1. PICK k \in 1..Len(b) : s[i] = b[k]
    BY <1>3, <1>4, <1>5
  <2> QED BY <1>7, <2>1 DEF Current
<1> QED BY <1>5, <1>6, <1>7 DEF Current

\* An inserted block is the last copy of its address, in a slot of its own.
LEMMA InsertedIsCurrent ==
  ASSUME NEW v, NEW l \in [VictimAddresses -> BOOLEAN], Current(v.blocks, l),
         NEW a \in VictimAddresses, NEW dirty \in BOOLEAN
  PROVE  Current(insertBlock(v, [address |-> a, valid |-> TRUE, dirty |-> dirty]).blocks,
                 [l EXCEPT ![a] = dirty])
<1> DEFINE block == [address |-> a, valid |-> TRUE, dirty |-> dirty]
           same == SameBlock(v, a)
           w == IF v.size >= MaxVictims THEN evictOldestBlock(v) ELSE v
           F == {i \in 1..Len(w.blocks) : ~w.blocks[i].valid}
           free == IF F # {} THEN Min(F) ELSE 0
           at == IF free = 0 THEN Len(w.blocks) + 1 ELSE free
<1>0. v.blocks \in Seq(VictimBlocks) /\ Len(v.blocks) \in Nat
  BY DEF Current
<1>1. CASE same # 0
  <2>1. insertBlock(v, block).blocks = [v.blocks EXCEPT ![same] = block]
    BY <1>1 DEF insertBlock
  <2>2. same \in 1..Len(v.blocks) /\ v.blocks[same].address = a
    BY <1>0, <1>1, SlotsFound
  <2>3. \A i \in 1..Len(v.blocks) : v.blocks[i].address = a => i = same
    BY <2>2 DEF Current
  <2>4. PICK k \in 1..(Len(v.blocks) + 1) : k = same /\ k # Len(v.blocks) + 1
    BY <1>0, <2>2
  <2> HIDE DEF same
  <2>5. Current([v.blocks EXCEPT ![k] = block], [l EXCEPT ![a] = dirty])
    BY <2>3, <2>4, PlacedIsCurrent
  <2> QED BY <2>1, <2>4, <2>5
<1>2. CASE same = 0
  <2>1. insertBlock(v, block) = AsNew(w, block)
    BY <1>2 DEF insertBlock
  <2>2. \A i \in 1..Len(v.blocks) : v.blocks[i].address # a
    BY <1>0, <1>2, SlotsFound
  <2>3. Current(w.blocks, l) /\ \A i \in 1..Len(w.blocks) : w.blocks[i].address # a
    <3>1. CASE w = v
      BY <2>2, <3>1
    <3>2. CASE w = evictOldestBlock(v)
      BY <2>2, <3>2, EvictedIsCurrent
    <3> QED BY <3>1, <3>2
  <2> HIDE DEF w
  <2>4. AsNew(w, block).blocks = IF free = 0 THEN Append(w.blocks, block) ELSE [w.blocks EXCEPT ![at] = block]
    BY Zenon DEF AsNew, SelectInSeq
  <2>5. Len(w.blocks) \in Nat
    BY <2>3 DEF Current
  <2>6. free \in 0..Len(w.blocks)
    <3>1. F \in SUBSET (1..Len(w.blocks))
      OBVIOUS
    <3> HIDE DEF F
    <3> QED BY <2>5, <3>1, FirstSlot
  <2> HIDE DEF free
  <2>7. PICK k \in 1..(Len(w.blocks) + 1) :
          AsNew(w, block).blocks = IF k = Len(w.blocks) + 1 THEN Append(w.blocks, block) ELSE [w.blocks EXCEPT ![k] = block]
    <3>1. at \in 1..(Len(w.blocks) + 1) /\ (free = 0 <=> at = Len(w.blocks) + 1)
      BY <2>5, <2>6
    <3> QED BY <2>4, <3>1
  <2>8. Current(AsNew(w, block).blocks, [l EXCEPT ![a] = dirty])
    <3>1. PICK t : t = w.blocks
      OBVIOUS
    <3>2. Current(t, l) /\ \A i \in 1..Len(t) : t[i].address = a => i = k
      BY <2>3, <3>1
    <3>3. k \in 1..(Len(t) + 1)
      BY <2>7, <3>1
    <3>4. Current(IF k = Len(t) + 1 THEN Append(t, block) ELSE [t EXCEPT ![k] = block],
                  [l EXCEPT ![a] = dirty])
      BY <3>2, <3>3, PlacedIsCurrent
    <3> QED BY <2>7, <3>1, <3>4
  <2> QED BY <2>1, <2>8
<1> QED BY <1>1, <1>2

\* An empty victim cache holds nothing stale.
LEMMA VictimInitially == VictimInit => VictimInv
<1> SUFFICES ASSUME VictimInit PROVE VictimInv
  OBVIOUS
<1>1. victims.blocks = <<>> /\ latest \in [VictimAddresses -> BOOLEAN]
  BY DEF VictimInit
<1> QED BY <1>1 DEF VictimInv, Current

\* Every call keeps the invariant.
LEMMA VictimStep == VictimInv /\ [VictimNext]_victimVars => VictimInv'
<1> SUFFICES ASSUME VictimInv, [VictimNext]_victimVars PROVE VictimInv'
  OBVIOUS
<1>0. Current(victims.blocks, latest) /\ latest \in [VictimAddresses -> BOOLEAN]
  BY DEF VictimInv
<1>1. ASSUME NEW a \in VictimAddresses, SearchAndRemove(a)
      PROVE  VictimInv'
  <2>1. latest' = latest /\ victims' = searchAndRemove(victims, a)
    BY <1>1 DEF SearchAndRemove
  <2>2. \/ victims'.blocks = victims.blocks
        \/ victims'.blocks = [victims.blocks EXCEPT ![ValidAt(victims, a)].valid = FALSE]
    BY <2>1 DEF searchAndRemove, Invalidated
  <2>3. Current([victims.blocks EXCEPT ![ValidAt(victims, a)].valid = FALSE], latest)
    BY <1>0, ClearedIsCurrent
  <2> QED BY <1>0, <2>1, <2>2, <2>3 DEF VictimInv
<1>2. ASSUME NEW a \in VictimAddresses, NEW dirty \in BOOLEAN, Insert(a, dirty)
      PROVE  VictimInv'
  <2>1. /\ victims' = insertBlock(victims, [address |-> a, valid |-> TRUE, dirty |-> dirty])
        /\ latest' = [latest EXCEPT ![a] = dirty]
    BY <1>2 DEF Insert
  <2>2. Current(victims'.blocks, latest')
    BY <1>0, <2>1, InsertedIsCurrent
  <2>3. latest' \in [VictimAddresses -> BOOLEAN]
    BY <1>0, <2>1
  <2> QED BY <2>2, <2>3 DEF VictimInv
<1>3. ASSUME NEW first, NEW last, InvalidateRange(first, last)
      PROVE  VictimInv'
  <2>1. latest' = latest /\ victims' = invalidateBlocksInRange(victims, first, last)
    BY <1>3 DEF InvalidateRange
  <2>2. Current(victims'.blocks, latest)
    BY <1>0, <2>1, RangeDroppedIsCurrent
  <2> QED BY <1>0, <2>1, <2>2 DEF VictimInv
<1>4. CASE Sort
  <2>1. PICK s \in SortedBlocks(victims) : victims' = [victims EXCEPT !.blocks = s]
    BY <1>4 DEF Sort
  <2>2. Current(s, latest)
    BY <1>0, SortedIsCurrent
  <2>3. latest' = latest
    BY <1>4 DEF Sort
  <2>4. victims'.blocks = s
    BY <2>1
  <2> QED BY <1>0, <2>2, <2>3, <2>4 DEF VictimInv
<1>5. CASE UNCHANGED victimVars
  BY <1>0, <1>5 DEF victimVars, VictimInv
<1> QED BY <1>1, <1>2, <1>3, <1>4, <1>5 DEF VictimNext

\* For any addresses, any size and any sequence of insertions, removals,
\* evictions and sorts, an address is kept once and what a search of the victim
\* cache finds is the copy inserted last.
THEOREM VictimsAreLatest == VictimSpec => []VictimIsLatest
<1>1. VictimInv => VictimIsLatest
  <2> SUFFICES ASSUME VictimInv PROVE VictimIsLatest
    OBVIOUS
  <2> DEFINE s == victims.blocks
  <2>0. s \in Seq(VictimBlocks) /\ DOMAIN s = 1..Len(s) /\ \A i \in 1..Len(s) : s[i] \in VictimBlocks
    BY DEF VictimInv, Current
  <2>1. \A i, j \in DOMAIN s : s[i].address = s[j].address => i = j
    BY <2>0 DEF VictimInv, Current
  <2>2. \A a : findBlock(victims, a) <=> \E i \in 1..Len(s) : s[i].address = a /\ s[i].valid
    BY <2>0, SlotsFound
  <2>3. \A i \in 1..Len(s) : s[i].valid => s[i].dirty = latest[s[i].address]
    BY DEF VictimInv, Current
  <2>4. ASSUME NEW a
        PROVE  a \in {b.address : b \in DirtyVictims(victims)}
                 <=> a \in VictimAddresses /\ findBlock(victims, a) /\ latest[a]
    <3>1. a \in {b.address : b \in DirtyVictims(victims)}
            <=> \E i \in 1..Len(s) : s[i].address = a /\ s[i].valid /\ s[i].dirty
      BY <2>0 DEF DirtyVictims, ToSet
    <3>2. \A i \in 1..Len(s) : s[i].address \in VictimAddresses
      BY <2>0 DEF VictimBlocks
    <3> QED BY <2>2, <2>3, <3>1, <3>2
  <2> QED BY <2>1, <2>4 DEF VictimIsLatest
<1> QED BY <1>1, VictimInitially, VictimStep, PTL DEF VictimSpec

-----------------------------------------------------------------------------
(* Configurations *)

\* What divides n leaves a quotient.
LEMMA Quotient ==
  ASSUME NEW n \in Nat \ {0}, NEW m \in Nat \ {0}, n % m = 0
  PROVE  n \div m \in Nat \ {0} /\ n = m * (n \div m)
<1>1. n = m * (n \div m) + (n % m)
  OBVIOUS
<1>2. n \div m \in Int
  OBVIOUS
<1> DEFINE q == n \div m
<1>3. n = m * q /\ q \in Int
  BY <1>1, <1>2
<1> HIDE DEF q
<1>4. q > 0
  BY <1>3
<1> QED BY <1>3, <1>4 DEF q

\* A product is divided by its factors.
LEMMA Multiple ==
  ASSUME NEW m \in Nat \ {0}, NEW q \in Nat
  PROVE  (m * q) % m = 0
OBVIOUS

\* If whole sets fill a size that is a power of two, and there is more than one,
\* they can be paired.
LEMMA SetsArePaired ==
  ASSUME NEW n \in Nat, NEW m \in Nat \ {0}, isValidSize(n), n % m = 0, n >= 2 * m
  PROVE  n % (2 * m) = 0
<1> DEFINE q == n \div m
<1>1. q \in Nat \ {0} /\ n = m * q
  BY Quotient DEF isValidSize
<1> HIDE DEF q
<1>2. q >= 2 /\ q <= n
  BY <1>1
<1>3. n % q = 0
  BY <1>1, Multiple
<1>4. q % 2 = 0
  BY <1>1, <1>2, <1>3 DEF isValidSize
<1>5. PICK r \in Nat : q = 2 * r
  BY <1>1, <1>4
<1>6. n = (2 * m) * r
  BY <1>1, <1>5
<1> QED BY <1>6, Multiple

\* A level that the constructor lets through can be built.
LEMMA ConstructedIsBuildable ==
  ASSUME NEW size \in Int, NEW ways \in Int, NEW block \in Int, NEW prefetch, NEW distance,
         Constructed(CacheConfig(size, ways, block, prefetch, distance))
  PROVE  /\ size \in Nat /\ ways * block \in Nat \ {0}
         /\ size % (ways * block) = 0 /\ size >= ways * block
<1>1. /\ size > 0 /\ ways > 0 /\ block > 0
      /\ size % (ways * block) = 0
  BY DEF Constructed, Consistent, CacheConfig, isValidSize
<1>2. ways * block \in Nat \ {0}
  BY <1>1
<1> DEFINE m == ways * block
<1> HIDE DEF m
<1>3. m \in Nat \ {0} /\ size % m = 0 /\ size \in Nat \ {0}
  BY <1>1, <1>2 DEF m
<1>4. size >= m
  BY <1>3
<1> QED BY <1>2, <1>3, <1>4 DEF m

Accepted(c) ==
  /\ Buildable(c.l1)
  /\ c.l2 # Nothing => Buildable(c.l2) /\ c.l2.blockSize = c.l1.blockSize
  /\ c.l1.size >= 2 * c.l1.associativity * c.l1.blockSize =>
       \A d \in BenchmarkConfigs(c) : Buildable(d.l1)

\* A first level whose sets can be paired, if there are two, can be built with all
\* that --benchmark makes of it.
LEMMA HierarchyIsAccepted ==
  ASSUME NEW size \in Nat, NEW ways \in Int, NEW block \in Int, NEW prefetch, NEW distance,
         NEW l2, NEW adaptive,
         ways * block \in Nat \ {0}, size % (ways * block) = 0, size >= ways * block,
         size >= 2 * (ways * block) => size % (2 * (ways * block)) = 0,
         l2 # Nothing => Buildable(l2) /\ l2.blockSize = block
  PROVE  Accepted(Hierarchy(CacheConfig(size, ways, block, prefetch, distance), l2, adaptive))
<1> DEFINE l1 == CacheConfig(size, ways, block, prefetch, distance)
           c == Hierarchy(l1, l2, adaptive)
           m == ways * block
<1>1. /\ c.l1 = l1 /\ c.l2 = l2
      /\ l1.size = size /\ l1.associativity = ways /\ l1.blockSize = block
  BY DEF Hierarchy, CacheConfig
<1>2. Buildable(l1)
  BY <1>1 DEF Buildable
<1>3. ASSUME c.l1.size >= 2 * c.l1.associativity * c.l1.blockSize, NEW d \in BenchmarkConfigs(c)
      PROVE  Buildable(d.l1)
  <2>1. 2 * ways * block = 2 * m /\ (2 * ways) * block = 2 * m
    OBVIOUS
  <2>2. size >= 2 * m
    BY <1>1, <1>3, <2>1
  <2>3. m \in Nat \ {0} /\ size % m = 0
    OBVIOUS
  <2>4. size % (2 * m) = 0
    BY <2>2
  <2> HIDE DEF m
  <2>5. (2 * size) % m = 0 /\ 2 * size >= m
    <3>1. size \in Nat \ {0}
      BY <2>2, <2>3
    <3>2. PICK q \in Nat : size = m * q
      BY <2>3, <3>1, Quotient
    <3>3. 2 * size = m * (2 * q)
      BY <2>3, <3>2
    <3>4. (m * (2 * q)) % m = 0
      BY <2>3, <3>2, Multiple
    <3>5. 2 * size >= m
      BY <2>2, <2>3
    <3> QED BY <3>3, <3>4, <3>5
  <2>6. CASE d = c
    BY <1>1, <1>2, <2>6
  <2>7. CASE d = [c EXCEPT !.l1.size = 2 * @]
    <3>1. d.l1.size = 2 * size /\ d.l1.associativity = ways /\ d.l1.blockSize = block
      BY <2>7 DEF Hierarchy, CacheConfig
    <3> QED BY <2>5, <3>1 DEF Buildable, m
  <2>8. CASE d = [c EXCEPT !.l1.associativity = 2 * @]
    <3>1. d.l1.size = size /\ d.l1.associativity = 2 * ways /\ d.l1.blockSize = block
      BY <2>8 DEF Hierarchy, CacheConfig
    <3> QED BY <2>1, <2>2, <2>4, <3>1 DEF Buildable
  <2>9. CASE d = [InBoth(InBoth(c, "prefetchEnabled", TRUE), "prefetchDistance", 4) EXCEPT
                    !.useStridePrediction = TRUE, !.useAdaptivePrefetching = TRUE]
    <3>1. d.l1.size = size /\ d.l1.associativity = ways /\ d.l1.blockSize = block
      BY <2>9 DEF InBoth, Hierarchy, CacheConfig
    <3> QED BY <1>1, <1>2, <3>1 DEF Buildable
  <2> QED BY <1>3, <2>6, <2>7, <2>8, <2>9 DEF BenchmarkConfigs
<1> QED BY <1>1, <1>2, <1>3 DEF Accepted

\* What the two ways of giving numbers accept.
LEMMA BuiltIsAccepted ==
  ASSUME NEW block \in Int, NEW size \in Int, NEW ways \in Int, NEW size2 \in Int,
         NEW ways2 \in Int, NEW prefetch, NEW distance, NEW c,
         c = Built(block, size, ways, size2, ways2, prefetch, distance),
         c # Nothing, isValidSize(size)
  PROVE  Accepted(c)
<1> DEFINE l1 == CacheConfig(size, ways, block, prefetch, distance)
           new == CacheConfig(size2, ways2, block, prefetch, distance)
           l2 == IF size2 > 0 THEN new ELSE Nothing
<1>1. c = Hierarchy(l1, l2, prefetch) /\ Constructed(l1) /\ (l2 = Nothing \/ Constructed(l2))
  BY DEF Built
<1>2. ASSUME l2 # Nothing PROVE Buildable(l2) /\ l2.blockSize = block
  <2>1. l2 = new /\ Constructed(new)
    BY <1>1, <1>2
  <2>2. size2 % (ways2 * block) = 0 /\ size2 >= ways2 * block
    BY <2>1, ConstructedIsBuildable
  <2>3. new.size = size2 /\ new.associativity = ways2 /\ new.blockSize = block
    BY DEF CacheConfig
  <2> QED BY <2>1, <2>2, <2>3 DEF Buildable
<1>3. /\ size \in Nat /\ ways * block \in Nat \ {0}
      /\ size % (ways * block) = 0 /\ size >= ways * block
  BY <1>1, ConstructedIsBuildable
<1>4. size >= 2 * (ways * block) => size % (2 * (ways * block)) = 0
  BY <1>3, SetsArePaired
<1> HIDE DEF l2
<1> QED BY <1>1, <1>2, <1>3, <1>4, HierarchyIsAccepted

\* Whatever numbers are given, a configuration that createFromCommandLine or
\* parseConfigString accepts can be built, and so can those --benchmark derives.
THEOREM AcceptedConfigsAreBuilt == ConfigSpec => []AcceptedConfigsBuild
<1> DEFINE Inv == origin = "checked" /\ config # Nothing => Accepted(config)
<1>1. Inv <=> AcceptedConfigsBuild
  BY DEF AcceptedConfigsBuild, Accepted
<1>2. ConfigInit => Inv
  BY DEF ConfigInit
<1>3. Inv /\ [ConfigNext]_configVars => Inv'
  <2> SUFFICES ASSUME Inv, [ConfigNext]_configVars, origin' = "checked", config' # Nothing
               PROVE  Accepted(config')
    OBVIOUS
  <2>1. CASE Create
    <3>1. PICK b \in BlockSizes, s \in FirstSizes, w \in FirstWays, s2 \in SecondSizes,
               w2 \in SecondWays, p \in BOOLEAN, d \in Distances :
            \/ config' = createFromCommandLine(b, s, w, s2, w2, p, d)
            \/ config' = parseConfigString(b, s, w, s2, w2, p, d)
      BY <2>1 DEF Create, Take
    <3>2. b \in Int /\ s \in Int /\ w \in Int /\ s2 \in Int /\ w2 \in Int
      BY ConfigAssumption
    <3>3. CASE config' = createFromCommandLine(b, s, w, s2, w2, p, d)
      <4>1. config' = Built(b, s, w, s2, w2, p, d) /\ isValidSize(s)
        BY <3>3 DEF createFromCommandLine
      <4> QED BY <3>2, <4>1, BuiltIsAccepted
    <3>4. CASE config' = parseConfigString(b, s, w, s2, w2, p, d)
      <4>1. config' = Built(b, s, w, s2, w2, p, d) /\ validateConfig(config')
        BY <3>4 DEF parseConfigString
      <4>2. config'.l1.size = s
        BY <4>1 DEF Built, Hierarchy, CacheConfig
      <4>3. isValidSize(s)
        BY <4>1, <4>2 DEF validateConfig
      <4> QED BY <3>2, <4>1, <4>3, BuiltIsAccepted
    <3> QED BY <3>1, <3>3, <3>4
  <2>2. CASE Default
    <3>1. PICK on : on = TRUE
      OBVIOUS
    <3> DEFINE l2 == CacheConfig(262144, 8, 64, on, 4)
    <3>2. Buildable(l2) /\ l2.blockSize = 64
      BY DEF Buildable, CacheConfig
    <3>3. config' = Hierarchy(CacheConfig(32768, 4, 64, on, 4), l2, on)
      BY <2>2, <3>1 DEF Default, Take, getDefaultConfig
    <3> HIDE DEF l2
    <3> QED BY <3>2, <3>3, HierarchyIsAccepted
  <2>3. CASE Sweep \/ Save \/ Load
    BY <2>3 DEF Sweep, Save, Load, Take
  <2>4. ASSUME NEW line \in JsonLines, Write(line) PROVE Accepted(config')
    BY <2>4 DEF Write
  <2>5. CASE UNCHANGED configVars
    BY <2>5 DEF configVars
  <2> QED BY <2>1, <2>2, <2>3, <2>4, <2>5 DEF ConfigNext
<1> QED BY <1>1, <1>2, <1>3, PTL DEF ConfigSpec

-----------------------------------------------------------------------------
(* JSON files *)

\* The levels and the fields a JSON file sets, its lines, and what is read.
JsonLevels == {"l1", "l2", "l3"}
JsonFields == {"size", "associativity", "blockSize"}
ConfigLines == [kind : {"blank", "open", "inline", "close", "set"}, key : STRING, value : Int]
ReadConfigs == [l1 : CacheConfigs, l2 : CacheConfigs \cup {Nothing}, l3 : CacheConfigs \cup {Nothing},
                useStridePrediction : BOOLEAN, useAdaptivePrefetching : BOOLEAN]

Braces == {"open", "inline", "close"}

\* The section parseJsonConfig is in after n lines.
InSection(lines, n, s) ==
  \/ s = "" /\ \A j \in 1..n : lines[j].kind \notin Braces
  \/ \E j \in 1..n : /\ lines[j].kind \in Braces
                     /\ \A k \in (j + 1)..n : lines[k].kind \notin Braces
                     /\ s = IF lines[j].kind = "close" THEN "" ELSE lines[j].key

\* It is the section of the last brace.
LEMMA SectionIsLastBrace ==
  ASSUME NEW lines \in Seq(ConfigLines), NEW i \in 1..Len(lines), NEW s, InSection(lines, i - 1, s)
  PROVE  LastBraceSection(lines, i) = s
<1> DEFINE braces == {j \in 1..(i - 1) : lines[j].kind \in Braces}
           last == CHOOSE j \in braces : \A k \in braces : k <= j
<1>1. LastBraceSection(lines, i) =
        IF braces = {} \/ lines[last].kind = "close" THEN "" ELSE lines[last].key
  BY DEF LastBraceSection, Braces
<1>2. CASE s = "" /\ \A j \in 1..(i - 1) : lines[j].kind \notin Braces
  BY <1>1, <1>2
<1>3. ASSUME NEW j \in 1..(i - 1), lines[j].kind \in Braces,
             \A k \in (j + 1)..(i - 1) : lines[k].kind \notin Braces,
             s = IF lines[j].kind = "close" THEN "" ELSE lines[j].key
      PROVE  LastBraceSection(lines, i) = s
  <2>1. j \in braces /\ braces \in SUBSET Int
    <3>1. j \in braces
      BY <1>3
    <3>2. ASSUME NEW k \in braces PROVE k \in Int
      BY <3>2
    <3> QED BY <3>1, <3>2
  <2>2. ASSUME NEW k \in braces PROVE k <= j
    <3>1. k \in 1..(i - 1) /\ lines[k].kind \in Braces
      OBVIOUS
    <3>2. k \notin (j + 1)..(i - 1)
      BY <1>3, <3>1
    <3> QED BY <3>1, <3>2
  <2> HIDE DEF braces
  <2>3. \A m \in braces : (\A k \in braces : k <= m) => m = j
    BY <2>1, <2>2
  <2>4. last = j
    BY <2>1, <2>2, <2>3
  <2> HIDE DEF last
  <2> QED BY <1>1, <1>3, <2>1, <2>4
<1> QED BY <1>2, <1>3 DEF InSection

\* d differs from c in the field that key names, of level L, only.
SetIn(c, L, key, v, d) ==
  /\ d \in ReadConfigs
  /\ d[L] # Nothing
  /\ \A M \in JsonLevels : M # L => d[M] = c[M]
  /\ key \in JsonFields => d[L][key] = v
  /\ \A f \in JsonFields : f # key /\ c[L] # Nothing => d[L][f] = c[L][f]

\* A setting changes its own field of its own level only.
LEMMA SettingIsLocal ==
  ASSUME NEW c \in ReadConfigs, NEW L \in JsonLevels, NEW key, NEW v \in Int,
         NEW old, c[L] = Nothing => old = ZeroCache, c[L] # Nothing => old = c[L],
         NEW d, d = [c EXCEPT ![L] = AssignJson(old, key, v)]
  PROVE  SetIn(c, L, key, v, d)
<1>1. old \in CacheConfigs
  <2>1. ZeroCache \in CacheConfigs
    BY DEF ZeroCache, CacheConfig, CacheConfigs
  <2> QED BY <2>1 DEF ReadConfigs, JsonLevels
<1>2. PICK new : new = AssignJson(old, key, v)
  OBVIOUS
<1>3. /\ new \in CacheConfigs
      /\ key \in JsonFields => new[key] = v
      /\ \A f \in JsonFields : f # key => new[f] = old[f]
  <2>1. CASE key = "size"
    <3>1. new = [old EXCEPT !.size = v]
      BY <1>2, <2>1 DEF AssignJson
    <3> QED BY <1>1, <2>1, <3>1 DEF CacheConfigs, JsonFields
  <2>2. CASE key = "associativity"
    <3>1. new = [old EXCEPT !.associativity = v]
      BY <1>2, <2>2 DEF AssignJson
    <3> QED BY <1>1, <2>2, <3>1 DEF CacheConfigs, JsonFields
  <2>3. CASE key = "blockSize"
    <3>1. new = [old EXCEPT !.blockSize = v]
      BY <1>2, <2>3 DEF AssignJson
    <3> QED BY <1>1, <2>3, <3>1 DEF CacheConfigs, JsonFields
  <2>4. CASE key \notin JsonFields
    BY <1>1, <1>2, <2>4 DEF AssignJson, JsonFields
  <2> QED BY <2>1, <2>2, <2>3, <2>4 DEF JsonFields
<1>4. new # Nothing
  BY <1>3, NothingAssumption
<1>5. d \in ReadConfigs /\ d[L] = new /\ \A M \in JsonLevels : M # L => d[M] = c[M]
  <2> HIDE DEF CacheConfigs
  <2>1. CASE L = "l1"
    <3>1. d = [c EXCEPT !.l1 = new]
      BY <1>2, <2>1
    <3> QED BY <1>3, <2>1, <3>1 DEF ReadConfigs, JsonLevels
  <2>2. CASE L = "l2"
    <3>1. d = [c EXCEPT !.l2 = new]
      BY <1>2, <2>2
    <3> QED BY <1>3, <2>2, <3>1 DEF ReadConfigs, JsonLevels
  <2>3. CASE L = "l3"
    <3>1. d = [c EXCEPT !.l3 = new]
      BY <1>2, <2>3
    <3> QED BY <1>3, <2>3, <3>1 DEF ReadConfigs, JsonLevels
  <2> QED BY <2>1, <2>2, <2>3 DEF JsonLevels
<1> QED BY <1>3, <1>4, <1>5 DEF SetIn

\* f[i] is the state after the first i lines.
Reading(f, lines, start) ==
  /\ f[0] = [section |-> "", config |-> start]
  /\ \A i \in 1..Len(lines) : f[i] = JsonLine(f[i - 1], lines[i])

\* parseJsonConfig goes through the lines one by one.
LEMMA JsonLineByLine ==
  ASSUME NEW lines \in Seq(ConfigLines), NEW start
  PROVE  \E f : Reading(f, lines, start) /\ parseJsonConfig(lines, start) = JsonDefaults(f[Len(lines)].config)
<1> DEFINE Round(g, i) == IF i = 0 THEN [section |-> "", config |-> start]
                          ELSE JsonLine(g[i - 1], lines[i])
           N == Len(lines)
           Good(n) == \E g : g = [i \in 0..n |-> Round(g, i)]
           Bad == {n \in 0..N : ~Good(n)}
<1>1. N \in Nat
  OBVIOUS
<1>2. Good(0)
  <2> DEFINE g == [i \in 0..0 |-> [section |-> "", config |-> start]]
  <2>1. g = [i \in 0..0 |-> Round(g, i)]
    OBVIOUS
  <2> QED BY <2>1
<1>3. ASSUME NEW n \in 1..N, Good(n - 1)
      PROVE  Good(n)
  <2>1. PICK g : g = [i \in 0..(n - 1) |-> Round(g, i)]
    BY <1>3
  <2>2. PICK h : h = [i \in 0..n |-> IF i = n THEN Round(g, n) ELSE g[i]]
    OBVIOUS
  <2>3. ASSUME NEW i \in 0..n PROVE h[i] = Round(h, i)
    <3>1. i # 0 => h[i - 1] = g[i - 1]
      <4>1. i # 0 => i - 1 \in 0..n /\ i - 1 # n
        BY <1>1
      <4> HIDE DEF Round
      <4> QED BY <2>2, <4>1
    <3>2. Round(h, i) = Round(g, i)
      BY <3>1
    <3>3. h[i] = Round(g, i)
      <4>1. \A j \in 0..(n - 1) : g[j] = Round(g, j)
        <5> HIDE DEF Round
        <5> QED BY <2>1
      <4>2. i # n => i \in 0..(n - 1)
        BY <1>1
      <4> HIDE DEF Round
      <4> QED BY <2>2, <4>1, <4>2
    <3> QED BY <3>2, <3>3
  <2>4. h = [i \in 0..n |-> Round(h, i)]
    <3> HIDE DEF Round
    <3> QED BY <2>2, <2>3
  <2> QED BY <2>4
<1> HIDE DEF Good
<1>4. Good(N)
  <2> HIDE DEF N
  <2> SUFFICES ASSUME Bad # {} PROVE FALSE
    BY <1>1
  <2>1. Bad \in SUBSET Nat
    BY <1>1
  <2>2. Min(Bad) \in Bad /\ \A y \in Bad : Min(Bad) <= y
    <3> HIDE DEF Bad
    <3> QED BY <2>1, LeastElement
  <2>3. PICK n \in 0..N : ~Good(n) /\ \A y \in Bad : n <= y
    BY <2>2
  <2>4. n # 0
    BY <1>2, <2>3
  <2>5. Good(n - 1)
    BY <1>1, <2>3, <2>4
  <2> QED BY <1>1, <1>3, <2>3, <2>4, <2>5
<1> DEFINE f == CHOOSE g : g = [i \in 0..N |-> Round(g, i)]
<1>5. f = [i \in 0..N |-> Round(f, i)]
  BY <1>4, Zenon DEF Good
<1>6. parseJsonConfig(lines, start) = JsonDefaults(f[N].config)
  BY Zenon DEF parseJsonConfig
<1> HIDE DEF f
<1>7. \A i \in 0..N : f[i] = Round(f, i)
  <2> HIDE DEF Round, N
  <2> QED BY <1>5
<1>8. f[0] = [section |-> "", config |-> start]
  <2>1. f[0] = Round(f, 0)
    <3> HIDE DEF Round, N
    <3> QED BY <1>1, <1>7
  <2> QED BY <2>1
<1>9. ASSUME NEW i \in 1..N PROVE f[i] = JsonLine(f[i - 1], lines[i])
  <2>1. i \in 0..N /\ i # 0
    BY <1>1
  <2>2. f[i] = Round(f, i)
    <3> HIDE DEF Round, N
    <3> QED BY <1>7, <2>1
  <2> QED BY <2>1, <2>2
<1> QED BY <1>6, <1>8, <1>9 DEF Reading

-----------------------------------------------------------------------------
\* The settings among the first n lines that stand in a section of the level,
\* and those of them that set the field.
InLevel(lines, n, level) ==
  {i \in 1..n : lines[i].kind = "set" /\ LevelOf(LastBraceSection(lines, i)) = level}
Made(lines, n, level, f) == {i \in InLevel(lines, n, level) : normalizeConfigKey(lines[i].key) = f}

\* c holds what the first n lines set.
Holds(lines, n, c) ==
  /\ c \in ReadConfigs
  /\ \A level \in JsonLevels, f \in JsonFields : \A i \in Made(lines, n, level, f) :
       (\A j \in Made(lines, n, level, f) : j <= i) =>
         c[level] # Nothing /\ c[level][f] = lines[i].value
  /\ \A level \in {"l2", "l3"} : c[level] # Nothing => InLevel(lines, n, level) # {}

\* A line that is no setting of a level changes nothing that is held.
LEMMA OtherLine ==
  ASSUME NEW lines \in Seq(ConfigLines), NEW n \in 1..Len(lines), NEW c, Holds(lines, n - 1, c),
         lines[n].kind # "set" \/ LevelOf(LastBraceSection(lines, n)) \notin JsonLevels
  PROVE  Holds(lines, n, c)
<1>1. ASSUME NEW level \in JsonLevels PROVE InLevel(lines, n, level) = InLevel(lines, n - 1, level)
  <2>1. n \notin InLevel(lines, n, level)
    BY DEF InLevel
  <2>2. \A i \in 1..n : i # n => i \in 1..(n - 1)
    OBVIOUS
  <2>3. \A i \in 1..(n - 1) : i \in 1..n
    OBVIOUS
  <2> QED BY <2>1, <2>2, <2>3 DEF InLevel
<1>2. ASSUME NEW level \in JsonLevels, NEW f PROVE Made(lines, n, level, f) = Made(lines, n - 1, level, f)
  BY <1>1 DEF Made
<1> QED BY <1>1, <1>2 DEF Holds, JsonLevels

\* A setting of a level is held from then on.
LEMMA SettingLine ==
  ASSUME NEW lines \in Seq(ConfigLines), NEW n \in 1..Len(lines), NEW c, Holds(lines, n - 1, c),
         lines[n].kind = "set", NEW L \in JsonLevels, LevelOf(LastBraceSection(lines, n)) = L,
         NEW key, key = normalizeConfigKey(lines[n].key),
         NEW old, c[L] = Nothing => old = ZeroCache, c[L] # Nothing => old = c[L],
         NEW d, d = [c EXCEPT ![L] = AssignJson(old, key, lines[n].value)]
  PROVE  Holds(lines, n, d)
<1>1. c \in ReadConfigs /\ lines[n].value \in Int
  <2>1. lines[n] \in ConfigLines
    OBVIOUS
  <2>2. lines[n].value \in Int
    BY <2>1 DEF ConfigLines
  <2> QED BY <2>2 DEF Holds
<1>2. /\ d \in ReadConfigs
      /\ d[L] # Nothing
      /\ \A M \in JsonLevels : M # L => d[M] = c[M]
      /\ key \in JsonFields => d[L][key] = lines[n].value
      /\ \A f \in JsonFields : f # key /\ c[L] # Nothing => d[L][f] = c[L][f]
  <2>1. PICK v \in Int : v = lines[n].value
    BY <1>1
  <2>2. d = [c EXCEPT ![L] = AssignJson(old, key, v)]
    BY <2>1
  <2>3. SetIn(c, L, key, v, d)
    BY <1>1, <2>1, <2>2, SettingIsLocal
  <2> QED BY <2>1, <2>3 DEF SetIn
<1>3. ASSUME NEW level \in JsonLevels
      PROVE  InLevel(lines, n, level) = InLevel(lines, n - 1, level) \cup (IF level = L THEN {n} ELSE {})
  <2>1. n \in InLevel(lines, n, level) <=> level = L
    BY DEF InLevel
  <2>2. \A i \in 1..n : i # n => i \in 1..(n - 1)
    OBVIOUS
  <2>3. \A i \in 1..(n - 1) : i \in 1..n
    OBVIOUS
  <2> QED BY <2>1, <2>2, <2>3 DEF InLevel
<1>4. ASSUME NEW level \in JsonLevels, NEW f \in JsonFields, NEW i \in Made(lines, n, level, f),
             \A j \in Made(lines, n, level, f) : j <= i
      PROVE  d[level] # Nothing /\ d[level][f] = lines[i].value
  <2>1. CASE level = L /\ f = key
    <3>1. n \in Made(lines, n, level, f)
      BY <1>3, <2>1 DEF Made
    <3>2. i = n
      <4>1. i \in 1..n /\ n <= i
        BY <1>4, <3>1 DEF Made, InLevel
      <4> QED BY <4>1
    <3> QED BY <1>2, <2>1, <3>2
  <2>2. CASE ~(level = L /\ f = key)
    <3>1. Made(lines, n, level, f) = Made(lines, n - 1, level, f)
      BY <1>3, <2>2 DEF Made
    <3>2. c[level] # Nothing /\ c[level][f] = lines[i].value
      BY <1>4, <3>1 DEF Holds
    <3> QED BY <1>2, <2>2, <3>2
  <2> QED BY <2>1, <2>2
<1>5. ASSUME NEW level \in {"l2", "l3"}, d[level] # Nothing PROVE InLevel(lines, n, level) # {}
  <2>1. level \in JsonLevels
    BY DEF JsonLevels
  <2>2. CASE level = L
    BY <1>3, <2>1, <2>2
  <2>3. CASE level # L
    <3>1. InLevel(lines, n - 1, level) # {}
      BY <1>2, <1>5, <2>1, <2>3 DEF Holds
    <3> QED BY <1>3, <2>1, <3>1
  <2> QED BY <2>2, <2>3
<1> QED BY <1>2, <1>4, <1>5 DEF Holds

\* st is the state parseJsonConfig may be in after the first n lines.
StateAfter(lines, n, st) ==
  \E s, c : st = [section |-> s, config |-> c] /\ InSection(lines, n, s) /\ Holds(lines, n, c)

\* One line of parseJsonConfig.
LEMMA JsonLineHolds ==
  ASSUME NEW lines \in Seq(ConfigLines), NEW n \in 1..Len(lines),
         NEW st, StateAfter(lines, n - 1, st)
  PROVE  StateAfter(lines, n, JsonLine(st, lines[n]))
<1>0. PICK s, c : st = [section |-> s, config |-> c] /\ InSection(lines, n - 1, s) /\ Holds(lines, n - 1, c)
  BY DEF StateAfter
<1>1. lines[n] \in ConfigLines /\ n \in 1..n /\ \A k : k \notin (n + 1)..n
  OBVIOUS
<1>2. PICK level : level = LevelOf(s) /\ level = LevelOf(st.section)
  BY <1>0
<1>3. level \in JsonLevels \cup {"none"}
  BY <1>2 DEF LevelOf, JsonLevels
<1>4. ASSUME lines[n].kind \notin Braces PROVE InSection(lines, n, s)
  <2>1. \A j \in 1..n : j # n => j \in 1..(n - 1)
    OBVIOUS
  <2>2. \A j \in 1..(n - 1) : j \in 1..n /\ \A k \in (j + 1)..n : k # n => k \in (j + 1)..(n - 1)
    OBVIOUS
  <2> QED BY <1>0, <1>4, <2>1, <2>2 DEF InSection
<1>5. CASE lines[n].kind \in {"open", "inline"}
  <2>1. JsonLine(st, lines[n]) = [st EXCEPT !.section = lines[n].key]
    BY <1>5 DEF JsonLine
  <2>2. JsonLine(st, lines[n]) = [section |-> lines[n].key, config |-> c]
    BY <1>0, <2>1
  <2>3. InSection(lines, n, lines[n].key)
    BY <1>1, <1>5 DEF InSection, Braces
  <2>4. Holds(lines, n, c)
    BY <1>0, <1>5, OtherLine
  <2> QED BY <2>2, <2>3, <2>4 DEF StateAfter
<1>6. CASE lines[n].kind = "close"
  <2>1. JsonLine(st, lines[n]) = [st EXCEPT !.section = ""]
    BY <1>6 DEF JsonLine, ClosedSection
  <2>2. JsonLine(st, lines[n]) = [section |-> "", config |-> c]
    BY <1>0, <2>1
  <2>3. InSection(lines, n, "")
    BY <1>1, <1>6 DEF InSection, Braces
  <2>4. Holds(lines, n, c)
    BY <1>0, <1>6, OtherLine
  <2> QED BY <2>2, <2>3, <2>4 DEF StateAfter
<1>7. CASE lines[n].kind = "blank"
  <2>1. JsonLine(st, lines[n]) = [section |-> s, config |-> c]
    BY <1>0, <1>7 DEF JsonLine
  <2>2. Holds(lines, n, c)
    BY <1>0, <1>7, OtherLine
  <2> QED BY <1>4, <1>7, <2>1, <2>2 DEF StateAfter, Braces
<1>8. CASE lines[n].kind = "set"
  <2>1. LevelOf(LastBraceSection(lines, n)) = level
    <3>1. LastBraceSection(lines, n) = s
      BY <1>0, <1>8, SectionIsLastBrace
    <3> QED BY <1>2, <3>1
  <2>2. CASE level = "none"
    <3>1. JsonLine(st, lines[n]) = [section |-> s, config |-> c]
      BY <1>0, <1>2, <1>8, <2>2 DEF JsonLine
    <3>2. Holds(lines, n, c)
      BY <1>0, <2>1, <2>2, OtherLine DEF JsonLevels
    <3> QED BY <1>4, <1>8, <3>1, <3>2 DEF StateAfter, Braces
  <2>3. CASE level # "none"
    <3>1. level \in JsonLevels
      BY <1>3, <2>3
    <3>2. PICK key : key = normalizeConfigKey(lines[n].key)
      OBVIOUS
    <3>3. PICK old : old = IF c[level] = Nothing THEN ZeroCache ELSE c[level]
      OBVIOUS
    <3>4. PICK d : d = [c EXCEPT ![level] = AssignJson(old, key, lines[n].value)]
      OBVIOUS
    <3>5. JsonLine(st, lines[n]) = [st EXCEPT !.config = d]
      BY <1>0, <1>2, <1>8, <2>3, <3>2, <3>3, <3>4 DEF JsonLine
    <3>6. JsonLine(st, lines[n]) = [section |-> s, config |-> d]
      BY <1>0, <3>5
    <3>7. Holds(lines, n, d)
      BY <1>0, <1>8, <2>1, <3>1, <3>2, <3>3, <3>4, SettingLine
    <3> QED BY <1>4, <1>8, <3>6, <3>7 DEF StateAfter, Braces
  <2> QED BY <2>2, <2>3
<1> QED BY <1>1, <1>5, <1>6, <1>7, <1>8 DEF ConfigLines

\* What all the lines set is held at the end.
LEMMA JsonLinesHold ==
  ASSUME NEW lines \in Seq(ConfigLines), NEW start \in ReadConfigs, start.l2 = Nothing, start.l3 = Nothing
  PROVE  \E c : Holds(lines, Len(lines), c) /\ parseJsonConfig(lines, start) = JsonDefaults(c)
<1>1. PICK f : Reading(f, lines, start) /\ parseJsonConfig(lines, start) = JsonDefaults(f[Len(lines)].config)
  BY JsonLineByLine
<1> DEFINE Right(n) == StateAfter(lines, n, f[n])
           N == Len(lines)
           Bad == {n \in 0..N : ~Right(n)}
<1>2. N \in Nat /\ DOMAIN lines = 1..N
  OBVIOUS
<1>3. Right(0)
  <2>2. \A i : i \notin 1..0
    OBVIOUS
  <2>3. InSection(lines, 0, "")
    BY <2>2 DEF InSection
  <2>4. \A level, x : InLevel(lines, 0, level) = {} /\ Made(lines, 0, level, x) = {}
    BY <2>2 DEF InLevel, Made
  <2>5. Holds(lines, 0, start)
    BY <2>4 DEF Holds
  <2> QED BY <1>1, <2>3, <2>5 DEF Reading, StateAfter
<1>4. ASSUME NEW n \in 1..N, Right(n - 1) PROVE Right(n)
  <2>2. PICK st : st = f[n - 1]
    OBVIOUS
  <2>3. f[n] = JsonLine(st, lines[n])
    BY <1>1, <2>2 DEF Reading
  <2>5. StateAfter(lines, n, JsonLine(st, lines[n]))
    BY <1>4, <2>2, JsonLineHolds
  <2> QED BY <2>3, <2>5
<1> HIDE DEF Right, N
<1>5. Right(N)
  <2> SUFFICES ASSUME Bad # {} PROVE FALSE
    BY <1>2
  <2>1. Bad \in SUBSET Nat
    BY <1>2
  <2>2. Min(Bad) \in Bad /\ \A y \in Bad : Min(Bad) <= y
    <3> HIDE DEF Bad
    <3> QED BY <2>1, LeastElement
  <2>3. PICK n \in 0..N : ~Right(n) /\ \A y \in Bad : n <= y
    BY <2>2
  <2>4. n # 0
    BY <1>3, <2>3
  <2>5. Right(n - 1)
    BY <1>2, <2>3, <2>4
  <2> QED BY <1>2, <1>4, <2>3, <2>4, <2>5
<1>6. PICK s, c : f[N] = [section |-> s, config |-> c] /\ Holds(lines, N, c)
  BY <1>5 DEF Right, StateAfter
<1>7. f[N].config = c
  BY <1>6
<1> QED BY <1>1, <1>6, <1>7 DEF N

\* The defaults leave what a file sets to a positive number.
LEMMA DefaultsKeepSettings ==
  ASSUME NEW c \in ReadConfigs, NEW d, d = JsonDefaults(c)
  PROVE  \A level \in JsonLevels : /\ d[level] = Nothing <=> c[level] = Nothing
                               /\ \A f \in JsonFields :
                                    c[level] # Nothing /\ c[level][f] > 0 => d[level][f] = c[level][f]
<1>1. PICK one : one = OrOne(c.l1.prefetchDistance)
  OBVIOUS
<1>2. PICK first : first = [c.l1 EXCEPT !.prefetchDistance = one]
  OBVIOUS
<1>3. /\ c.l1 \in CacheConfigs /\ one \in Int
      /\ c.l2 # Nothing => c.l2 \in CacheConfigs
      /\ c.l1 # Nothing
  BY <1>1, NothingAssumption DEF ReadConfigs, CacheConfigs, OrOne
<1>4. first \in CacheConfigs /\ \A f \in JsonFields : first[f] = c.l1[f]
  BY <1>2, <1>3 DEF CacheConfigs, JsonFields
<1>5. first # Nothing
  BY <1>4, NothingAssumption
<1>6. PICK e : e = [c EXCEPT !.l1 = first]
  OBVIOUS
<1>7. e.l1 = first /\ e.l2 = c.l2 /\ e.l3 = c.l3 /\ e \in ReadConfigs
  <2> HIDE DEF CacheConfigs
  <2> QED BY <1>4, <1>6 DEF ReadConfigs
<1>8. CASE c.l2 = Nothing
  <2>1. d = e
    BY <1>1, <1>2, <1>6, <1>7, <1>8 DEF JsonDefaults
  <2> QED BY <1>3, <1>4, <1>5, <1>7, <1>8, <2>1 DEF JsonLevels
<1>9. CASE c.l2 # Nothing
  <2>1. PICK block : block = IF c.l2.blockSize = 0 THEN first.blockSize ELSE c.l2.blockSize
    OBVIOUS
  <2>2. PICK two : two = OrOne(c.l2.prefetchDistance)
    OBVIOUS
  <2>3. block \in Int /\ two \in Int
    BY <1>3, <1>4, <1>9, <2>1, <2>2 DEF CacheConfigs, OrOne
  <2>4. PICK second : second = [c.l2 EXCEPT !.blockSize = block, !.prefetchDistance = two]
    OBVIOUS
  <2>5. second \in CacheConfigs /\ \A f \in JsonFields : c.l2[f] > 0 => second[f] = c.l2[f]
    <3>1. c.l2 \in CacheConfigs /\ c.l2.blockSize \in Int
      BY <1>3, <1>9 DEF CacheConfigs
    <3>2. second \in CacheConfigs
      BY <2>3, <2>4, <3>1 DEF CacheConfigs
    <3>3. second.size = c.l2.size /\ second.associativity = c.l2.associativity /\ second.blockSize = block
      BY <2>4, <3>1 DEF CacheConfigs
    <3>4. c.l2.blockSize > 0 => block = c.l2.blockSize
      BY <2>1, <3>1
    <3> QED BY <3>2, <3>3, <3>4 DEF JsonFields
  <2>6. second # Nothing
    BY <2>5, NothingAssumption
  <2>7. d = [e EXCEPT !.l2 = second]
    <3>1. PICK mid : mid = [e EXCEPT !.l2 = [c.l2 EXCEPT !.blockSize = block]]
      OBVIOUS
    <3>2. mid.l2 = [c.l2 EXCEPT !.blockSize = block] /\ mid.l2.prefetchDistance = c.l2.prefetchDistance
      BY <1>3, <1>7, <1>9, <3>1 DEF ReadConfigs, CacheConfigs
    <3>3. d = [mid EXCEPT !.l2 = [mid.l2 EXCEPT !.prefetchDistance = OrOne(mid.l2.prefetchDistance)]]
      <4>1. e = [c EXCEPT !.l1.prefetchDistance = OrOne(@)]
        BY <1>1, <1>2, <1>6
      <4>2. d = IF e.l2 = Nothing THEN e
                ELSE [e EXCEPT !.l2.blockSize = IF @ = 0 THEN e.l1.blockSize ELSE @,
                               !.l2.prefetchDistance = OrOne(@)]
        BY <4>1 DEF JsonDefaults
      <4>3. block = IF e.l2.blockSize = 0 THEN e.l1.blockSize ELSE e.l2.blockSize
        BY <1>7, <2>1
      <4>4. d = [e EXCEPT !.l2.blockSize = block, !.l2.prefetchDistance = OrOne(@)]
        BY <1>7, <1>9, <4>2, <4>3
      <4>5. d = [[e EXCEPT !.l2.blockSize = block] EXCEPT !.l2.prefetchDistance = OrOne(@)]
        BY ONLY <4>4
      <4>6. mid = [e EXCEPT !.l2.blockSize = block]
        BY <1>7, <3>1
      <4>7. d = [mid EXCEPT !.l2.prefetchDistance = OrOne(@)]
        BY <4>5, <4>6
      <4> QED BY <4>7
    <3>4. second = [mid.l2 EXCEPT !.prefetchDistance = two]
      BY <2>4, <3>2
    <3>5. d = [mid EXCEPT !.l2 = second]
      BY <2>2, <3>2, <3>3, <3>4
    <3> QED BY <3>1, <3>5
  <2>8. d.l1 = first /\ d.l2 = second /\ d.l3 = c.l3
    BY <1>7, <2>7 DEF ReadConfigs
  <2> QED BY <1>3, <1>4, <1>5, <1>9, <2>5, <2>6, <2>8 DEF JsonLevels
<1> QED BY <1>8, <1>9

\* JsonFollowsLastBrace of a given file and of the configuration read from it.
FollowsLastBrace(lines, c) ==
  LET sets == {i \in DOMAIN lines : lines[i].kind = "set"}
      For(level, f) == {i \in sets : LevelOf(LastBraceSection(lines, i)) = level
                                       /\ normalizeConfigKey(lines[i].key) = f}
  IN  /\ \A level \in JsonLevels, f \in JsonFields : \A i \in For(level, f) :
           (\A j \in For(level, f) : j <= i) /\ lines[i].value > 0 =>
             c[level] # Nothing /\ c[level][f] = lines[i].value
      /\ \A level \in {"l2", "l3"} :
           c[level] # Nothing => \E i \in sets : LevelOf(LastBraceSection(lines, i)) = level

LEMMA JsonReadFollowsLastBrace ==
  ASSUME NEW lines \in Seq(ConfigLines), NEW start \in Uninitialised
  PROVE  FollowsLastBrace(lines, parseJsonConfig(lines, start))
<1> DEFINE sets == {i \in DOMAIN lines : lines[i].kind = "set"}
           For(level, f) == {i \in sets : LevelOf(LastBraceSection(lines, i)) = level
                                            /\ normalizeConfigKey(lines[i].key) = f}
<1>2. start \in ReadConfigs /\ start.l2 = Nothing /\ start.l3 = Nothing
  <2>1. PICK n \in Leftovers, enabled \in BOOLEAN, distance \in Leftovers :
          start = Hierarchy(CacheConfig(n, n, n, enabled, distance), Nothing, FALSE)
    BY DEF Uninitialised, Hierarchy, CacheConfig
  <2>2. n \in Int /\ distance \in Int
    BY ConfigAssumption
  <2>3. PICK l1 \in CacheConfigs : l1 = CacheConfig(n, n, n, enabled, distance)
    BY <2>2 DEF CacheConfig, CacheConfigs
  <2>4. start = [l1 |-> l1, l2 |-> Nothing, l3 |-> Nothing,
                 useStridePrediction |-> FALSE, useAdaptivePrefetching |-> FALSE]
    BY <2>1, <2>3 DEF Hierarchy
  <2> HIDE DEF CacheConfigs
  <2> QED BY <2>4 DEF ReadConfigs
<1>4. PICK c : Holds(lines, Len(lines), c) /\ parseJsonConfig(lines, start) = JsonDefaults(c)
  BY <1>2, JsonLinesHold
<1>5. PICK d : d = parseJsonConfig(lines, start)
  OBVIOUS
<1>6. c \in ReadConfigs
  BY <1>4 DEF Holds
<1>7. \A level \in JsonLevels : /\ d[level] = Nothing <=> c[level] = Nothing
                            /\ \A f \in JsonFields :
                                 c[level] # Nothing /\ c[level][f] > 0 => d[level][f] = c[level][f]
  BY <1>4, <1>5, <1>6, DefaultsKeepSettings
<1>8. \A level, f : For(level, f) = Made(lines, Len(lines), level, f)
  BY DEF Made, InLevel
<1>9. \A level : InLevel(lines, Len(lines), level) = {i \in sets : LevelOf(LastBraceSection(lines, i)) = level}
  BY DEF InLevel
<1>10. ASSUME NEW level \in JsonLevels, NEW f \in JsonFields, NEW i \in For(level, f),
              \A j \in For(level, f) : j <= i, lines[i].value > 0
       PROVE  d[level] # Nothing /\ d[level][f] = lines[i].value
  <2> HIDE DEF For
  <2>1. c[level] # Nothing /\ c[level][f] = lines[i].value
    BY <1>4, <1>8, <1>10 DEF Holds
  <2> QED BY <1>7, <1>10, <2>1
<1>11. ASSUME NEW level \in {"l2", "l3"}, d[level] # Nothing
       PROVE  \E i \in sets : LevelOf(LastBraceSection(lines, i)) = level
  <2> HIDE DEF sets
  <2>1. level \in JsonLevels
    BY DEF JsonLevels
  <2>2. InLevel(lines, Len(lines), level) # {}
    BY <1>4, <1>7, <1>11, <2>1 DEF Holds
  <2> QED BY <1>9, <2>2
<1>12. FollowsLastBrace(lines, d)
  BY <1>10, <1>11 DEF FollowsLastBrace
<1> QED BY <1>5, <1>12

\* Whatever JSON file a user writes, objects on one line and settings behind
\* nested objects included: parseJsonConfig gives every level the last of the
\* settings that the last brace before them puts in its section, and no others.
THEOREM JsonFilesFollowLastBrace == ConfigSpec => []JsonFollowsLastBrace
<1> DEFINE Inv == /\ origin \in {"none", "file"} => file \in Seq(ConfigLines)
                  /\ origin = "file" => FollowsLastBrace(file, config)
<1>1. Inv => JsonFollowsLastBrace
  <2> SUFFICES ASSUME Inv, origin = "file" PROVE JsonFollowsLastBrace
    BY DEF JsonFollowsLastBrace
  <2> DEFINE sets == {i \in DOMAIN file : file[i].kind = "set"}
             section == [i \in sets |-> LastBraceSection(file, i)]
  <2>1. FollowsLastBrace(file, config)
    OBVIOUS
  <2>2. DOMAIN section = sets /\ \A i \in sets : /\ section[i] = LastBraceSection(file, i)
                                                /\ file[i].kind # "inline"
    OBVIOUS
  <2> HIDE DEF section
  <2>3. SettingsKept(section)
    BY <2>1, <2>2 DEF FollowsLastBrace, SettingsKept, JsonLevels, JsonFields
  <2> QED BY <2>3 DEF JsonFollowsLastBrace, section
<1>2. ConfigInit => Inv
  BY DEF ConfigInit
<1>3. Inv /\ [ConfigNext]_configVars => Inv'
  <2> SUFFICES ASSUME Inv, [ConfigNext]_configVars PROVE Inv'
    OBVIOUS
  <2>1. CASE Create
    BY <2>1 DEF Create, Take
  <2>2. CASE Default
    BY <2>2 DEF Default, Take
  <2>3. CASE Sweep
    BY <2>3 DEF Sweep, Take
  <2>4. CASE Save
    BY <2>4 DEF Save
  <2>5. ASSUME NEW line \in JsonLines, Write(line) PROVE Inv'
    <3>1. line \in ConfigLines
      BY ConfigAssumption DEF ConfigLines
    <3>2. origin = "none" /\ origin' = "none" /\ file' = Append(file, line)
      BY <2>5 DEF Write
    <3> QED BY <3>1, <3>2
  <2>6. CASE Load
    <3>1. PICK start \in Uninitialised :
            Take(loadConfig(file, IF origin = "INI" THEN "INI" ELSE "JSON", start),
                 IF origin = "none" THEN "file" ELSE "reloaded")
      BY <2>6 DEF Load
    <3>2. file' = file
      BY <2>6 DEF Load
    <3>3. CASE origin = "none"
      <4>1. origin' = "file" /\ config' = parseJsonConfig(file, start) /\ file \in Seq(ConfigLines)
        BY <3>1, <3>3 DEF Take, loadConfig
      <4>2. FollowsLastBrace(file, parseJsonConfig(file, start))
        BY <4>1, JsonReadFollowsLastBrace
      <4>3. FollowsLastBrace(file', config')
        BY <3>2, <4>1, <4>2
      <4> QED BY <3>2, <4>1, <4>3
    <3>4. CASE origin # "none"
      <4>1. origin' = "reloaded"
        BY <3>1, <3>4 DEF Take
      <4> QED BY <4>1
    <3> QED BY <3>3, <3>4
  <2>7. CASE UNCHANGED configVars
    BY <2>7 DEF configVars
  <2> QED BY <2>1, <2>2, <2>3, <2>4, <2>5, <2>6, <2>7 DEF ConfigNext
<1> QED BY <1>1, <1>2, <1>3, PTL DEF ConfigSpec

-----------------------------------------------------------------------------
(* Command line *)

\* The arguments before n that are values of the one before them.
ValuesBefore(n) ==
  {values \in SUBSET (1..(n - 1)) :
     \A j \in 1..(n - 1) :
       j \in values <=> j > 1 /\ j - 1 \notin values /\ TakesValue(argv[j - 1], argv[j])}

\* What the options say of the arguments that are no values, at positions own.
OptionsTellOf(o, own) ==
  /\ o.traceFile # "" => \E i \in own : /\ ~IsOption(argv[i]) /\ o.traceFile = argv[i]
                                        /\ \A j \in own : j > i => IsOption(argv[j])
  /\ o.help <=> \E i \in own : argv[i] = "-h"
  /\ o.version <=> \E i \in own : argv[i] = "-v"
  /\ o.configFile # "" <=> \E i \in own : argv[i] = "-c"
  /\ \A i \in own : argv[i] # "-unknown"

OptionsType ==
  [help : BOOLEAN, version : BOOLEAN, benchmark : BOOLEAN, export : BOOLEAN,
   configFile : Arguments \cup {""}, traceFile : Arguments \cup {""}, failed : BOOLEAN]

\* The options are those of the arguments before next, which is no value itself.
ReadSoFar ==
  \E values \in ValuesBefore(next) :
    /\ next > 1 /\ next <= Len(argv) =>
         next - 1 \in values \/ ~TakesValue(argv[next - 1], argv[next])
    /\ OptionsTellOf(options, 1..(next - 1) \ values)

ProgramInv ==
  /\ argv \in Seq(Arguments)
  /\ next \in 1..(Len(argv) + 1)
  /\ options \in OptionsType
  /\ phase # "end" => ReadSoFar
  /\ phase \in {"config", "trace", "run"} =>
       next = Len(argv) + 1 /\ ~options.help /\ ~options.version
  /\ phase \in {"trace", "run"} => (chosen = "file" <=> options.configFile # "")
  /\ phase = "run" => options.traceFile # ""

\* One more argument.
LEMMA ArgumentTold ==
  ASSUME NEW o \in OptionsType, NEW n \in Nat, NEW own, \A i \in own : i \in Nat /\ i < n,
         OptionsTellOf(o, own), argv[n] \in Arguments, HasValue(n) => argv[n + 1] \in Arguments,
         ~ReadArgument(o, n).failed
  PROVE  OptionsTellOf(ReadArgument(o, n), own \cup {n})
<1> DEFINE a == argv[n]
           p == ReadArgument(o, n)
<1>1. "" \notin Arguments
  BY ProgramAssumption
<1>2. a # "-unknown" /\ (a = "-c" => HasValue(n))
  BY DEF ReadArgument, OptionsType, IsOption
<1>3. p.help <=> o.help \/ a = "-h"
  BY DEF ReadArgument, OptionsType, IsOption
<1>4. p.version <=> o.version \/ a = "-v"
  BY DEF ReadArgument, OptionsType, IsOption
<1>5. p.configFile = IF a = "-c" THEN argv[n + 1] ELSE o.configFile
  BY <1>2 DEF ReadArgument, OptionsType, IsOption
<1>6. p.traceFile = IF IsOption(a) THEN o.traceFile ELSE a
  BY <1>2 DEF ReadArgument, OptionsType, IsOption
<1> HIDE DEF a, p
<1>7. p.help <=> \E i \in own \cup {n} : argv[i] = "-h"
  BY <1>3 DEF OptionsTellOf, a
<1>8. p.version <=> \E i \in own \cup {n} : argv[i] = "-v"
  BY <1>4 DEF OptionsTellOf, a
<1>9. p.configFile # "" <=> \E i \in own \cup {n} : argv[i] = "-c"
  BY <1>1, <1>2, <1>5 DEF OptionsTellOf, a
<1>10. \A i \in own \cup {n} : argv[i] # "-unknown"
  BY <1>2 DEF OptionsTellOf, a
<1>11. ASSUME p.traceFile # ""
       PROVE  \E i \in own \cup {n} : /\ ~IsOption(argv[i]) /\ p.traceFile = argv[i]
                                      /\ \A j \in own \cup {n} : j > i => IsOption(argv[j])
  <2>1. CASE IsOption(a)
    <3>1. PICK i \in own : /\ ~IsOption(argv[i]) /\ o.traceFile = argv[i]
                           /\ \A j \in own : j > i => IsOption(argv[j])
      BY <1>6, <1>11, <2>1 DEF OptionsTellOf
    <3> QED BY <1>6, <2>1, <3>1 DEF a
  <2>2. CASE ~IsOption(a)
    <3>1. \A j \in own \cup {n} : ~(j > n)
      OBVIOUS
    <3> QED BY <1>6, <2>2, <3>1 DEF a
  <2> QED BY <2>1, <2>2
<1> QED BY <1>7, <1>8, <1>9, <1>10, <1>11 DEF OptionsTellOf, p

\* One turn of the loop.
LEMMA ArgumentRead ==
  ASSUME ProgramInv, ParseArgument
  PROVE  ProgramInv'
<1> DEFINE n == next
           m == After(n)
           o == ReadArgument(options, n)
<1>1. /\ phase = "parse" /\ n \in 1..Len(argv) /\ argv \in Seq(Arguments)
      /\ argv' = argv /\ next' = m /\ options' = o
      /\ phase' \in {"parse", "end"} /\ (o.failed => phase' = "end")
  BY DEF ParseArgument, ProgramInv, Exit, Continue
<1>2. /\ Len(argv) \in Nat /\ n \in Nat /\ n > 0 /\ n <= Len(argv)
      /\ argv[n] \in Arguments /\ (n < Len(argv) => argv[n + 1] \in Arguments)
  BY <1>1
<1>3. /\ m = IF HasValue(n) THEN n + 2 ELSE n + 1
      /\ HasValue(n) <=> n < Len(argv) /\ TakesValue(argv[n], argv[n + 1])
  BY DEF After, HasValue
<1>4. m \in 1..(Len(argv) + 1)
  BY <1>2, <1>3
<1>5. o \in OptionsType
  BY <1>2, <1>3 DEF ReadArgument, ProgramInv, OptionsType
<1>6. PICK v \in ValuesBefore(n) :
        /\ n > 1 => n - 1 \in v \/ ~TakesValue(argv[n - 1], argv[n])
        /\ OptionsTellOf(options, 1..(n - 1) \ v)
  BY <1>1, <1>2 DEF ProgramInv, ReadSoFar
<1>7. /\ v \in SUBSET (1..(n - 1))
      /\ \A j \in 1..(n - 1) :
           j \in v <=> j > 1 /\ j - 1 \notin v /\ TakesValue(argv[j - 1], argv[j])
  BY <1>6 DEF ValuesBefore
<1>8. options \in OptionsType
  BY DEF ProgramInv
<1> DEFINE w == IF HasValue(n) THEN v \cup {n + 1} ELSE v
<1> HIDE DEF n, m, o
<1>9. w \in SUBSET (1..(m - 1)) /\ 1..(m - 1) \ w = (1..(n - 1) \ v) \cup {n}
  BY <1>2, <1>3, <1>7
<1>10. ASSUME NEW j \in 1..(m - 1)
       PROVE  j \in w <=> j > 1 /\ j - 1 \notin w /\ TakesValue(argv[j - 1], argv[j])
  <2>1. CASE j < n
    <3>1. j \in 1..(n - 1) /\ (j \in w <=> j \in v) /\ (j - 1 \in w <=> j - 1 \in v)
      BY <1>2, <1>7, <2>1
    <3> QED BY <1>7, <3>1
  <2>2. CASE j = n
    <3>1. j \notin w /\ (j - 1 \in w <=> n - 1 \in v)
      BY <1>2, <1>7, <2>2
    <3> QED BY <1>6, <2>2, <3>1
  <2>3. CASE j = n + 1
    <3>1. HasValue(n)
      BY <1>2, <1>3, <2>3
    <3>2. j \in w /\ j - 1 \notin w /\ j > 1 /\ j - 1 = n
      BY <1>2, <1>7, <2>3, <3>1
    <3> QED BY <1>3, <2>3, <3>1, <3>2
  <2> QED BY <1>2, <1>3, <2>1, <2>2, <2>3
<1>11. m <= Len(argv) => m - 1 \in w \/ ~TakesValue(argv[m - 1], argv[m])
  <2>1. CASE HasValue(n)
    BY <1>2, <1>3, <2>1
  <2>2. CASE ~HasValue(n)
    BY <1>2, <1>3, <2>2
  <2> QED BY <2>1, <2>2
<1>12. ~o.failed => OptionsTellOf(o, 1..(m - 1) \ w)
  <2> SUFFICES ASSUME ~o.failed PROVE OptionsTellOf(o, 1..(m - 1) \ w)
    OBVIOUS
  <2> DEFINE own == 1..(n - 1) \ v
  <2>1. \A i \in own : i \in Nat /\ i < n
    BY <1>2
  <2> HIDE DEF own
  <2>2. OptionsTellOf(options, own)
    BY <1>6 DEF own
  <2>3. OptionsTellOf(o, own \cup {n})
    BY <1>2, <1>3, <1>8, <2>1, <2>2, ArgumentTold DEF o
  <2> QED BY <1>9, <2>3 DEF own
<1>13. w \in ValuesBefore(m)
  BY <1>9, <1>10 DEF ValuesBefore
<1> HIDE DEF w
<1>14. phase' # "end" => ReadSoFar'
  <2> SUFFICES ASSUME phase' # "end" PROVE ReadSoFar'
    OBVIOUS
  <2>1. OptionsTellOf(o, 1..(m - 1) \ w)
    BY <1>1, <1>12
  <2>2. PICK x \in ValuesBefore(m) :
          /\ m <= Len(argv) => m - 1 \in x \/ ~TakesValue(argv[m - 1], argv[m])
          /\ OptionsTellOf(o, 1..(m - 1) \ x)
    BY <1>11, <1>13, <2>1
  <2>3. OptionsTellOf(options, 1..(next - 1) \ x)'
    BY <1>1, <2>2 DEF OptionsTellOf
  <2>4. x \in ValuesBefore(next)'
    BY <1>1, <2>2 DEF ValuesBefore
  <2> QED BY <1>1, <2>2, <2>3, <2>4 DEF ReadSoFar
<1> QED BY <1>1, <1>4, <1>5, <1>14 DEF ProgramInv

\* The steps of main read no more arguments.
LEMMA ProgramStep == ProgramInv /\ [ProgramNext]_programVars => ProgramInv'
<1> SUFFICES ASSUME ProgramInv, [ProgramNext]_programVars PROVE ProgramInv'
  OBVIOUS
<1>1. CASE ParseArgument
  BY <1>1, ArgumentRead
<1>2. ASSUME UNCHANGED <<argv, next, options>>, ReadSoFar PROVE ReadSoFar'
  <2>1. PICK x \in ValuesBefore(next) :
          /\ next > 1 /\ next <= Len(argv) =>
               next - 1 \in x \/ ~TakesValue(argv[next - 1], argv[next])
          /\ OptionsTellOf(options, 1..(next - 1) \ x)
    BY <1>2 DEF ReadSoFar
  <2>2. OptionsTellOf(options, 1..(next - 1) \ x)'
    BY <1>2, <2>1 DEF OptionsTellOf
  <2>3. x \in ValuesBefore(next)'
    BY <1>2, <2>1 DEF ValuesBefore
  <2> QED BY <1>2, <2>1, <2>2, <2>3 DEF ReadSoFar
<1>3. CASE ParseCommandLine
  <2>1. next = Len(argv) + 1
    <3>1. argv \in Seq(Arguments) /\ next \in 1..(Len(argv) + 1) /\ next > Len(argv)
      BY <1>3 DEF ParseCommandLine, ProgramInv
    <3>2. Len(argv) \in Nat
      BY <3>1
    <3> QED BY <3>1, <3>2
  <2> QED BY <1>2, <1>3, <2>1 DEF ParseCommandLine, ProgramInv, Exit, Continue
<1>4. CASE LoadConfiguration
  BY <1>2, <1>4 DEF LoadConfiguration, ProgramInv, Exit, Continue
<1>5. CASE CheckTrace
  BY <1>2, <1>5 DEF CheckTrace, ProgramInv, Exit, Continue
<1>6. CASE Run
  BY <1>2, <1>6 DEF Run, ProgramInv, Exit
<1>7. CASE UNCHANGED programVars
  BY <1>2, <1>7 DEF programVars, ProgramInv
<1> QED BY <1>1, <1>3, <1>4, <1>5, <1>6, <1>7 DEF ProgramNext

\* However long the command line is and whatever is on it, the program that runs is
\* the one asked for: no value of an option is mistaken for an option or the trace.
THEOREM WhatWasAskedRuns == ProgramSpec => []RunsWhatWasAsked
<1>1. ProgramInit => ProgramInv
  <2> SUFFICES ASSUME ProgramInit PROVE ProgramInv
    OBVIOUS
  <2>1. argv \in Seq(Arguments)
    BY ProgramAssumption DEF ProgramInit, BoundedSeq, SeqOf
  <2>2. options \in OptionsType
    BY DEF ProgramInit, NoOptions, OptionsType
  <2>3. {} \in ValuesBefore(1) /\ 1..0 \ {} = {}
    BY DEF ValuesBefore
  <2>4. OptionsTellOf(options, {})
    BY DEF OptionsTellOf, ProgramInit, NoOptions
  <2>5. next = 1 /\ phase = "parse" /\ 1 - 1 = 0
    BY DEF ProgramInit
  <2>6. ReadSoFar
    BY <2>3, <2>4, <2>5 DEF ReadSoFar
  <2>7. Len(argv) \in Nat
    BY <2>1
  <2> QED BY <2>1, <2>2, <2>5, <2>6, <2>7 DEF ProgramInv
<1>2. ProgramInv => RunsWhatWasAsked
  <2> SUFFICES ASSUME ProgramInv, phase = "run" PROVE RunsWhatWasAsked
    BY DEF RunsWhatWasAsked
  <2>1. PICK v \in ValuesBefore(next) : OptionsTellOf(options, 1..(next - 1) \ v)
    BY DEF ProgramInv, ReadSoFar
  <2>2. argv \in Seq(Arguments) /\ next = Len(argv) + 1
    BY DEF ProgramInv
  <2>3. DOMAIN argv = 1..(next - 1)
    BY <2>2
  <2>4. v \in Readings
    BY <2>1, <2>3 DEF ValuesBefore, Readings
  <2>5. /\ options.traceFile # "" /\ ~options.help /\ ~options.version
        /\ chosen = "file" <=> options.configFile # ""
    BY DEF ProgramInv
  <2> DEFINE own == DOMAIN argv \ v
  <2>6. OptionsTellOf(options, own)
    BY <2>1, <2>3
  <2> HIDE DEF own
  <2>7. /\ \E i \in own : /\ ~IsOption(argv[i]) /\ options.traceFile = argv[i]
                          /\ \A j \in own : j > i => IsOption(argv[j])
        /\ {"-h", "-v", "-unknown"} \cap {argv[i] : i \in own} = {}
        /\ (chosen = "file") <=> "-c" \in {argv[i] : i \in own}
    BY <2>5, <2>6 DEF OptionsTellOf
  <2> QED BY <2>4, <2>7 DEF RunsWhatWasAsked, own
<1> QED BY <1>1, <1>2, ProgramStep, PTL DEF ProgramSpec
=============================================================================
