-------------------------- MODULE HierarchyProofs --------------------------
(***************************************************************************)
(* Proofs about the memory hierarchy, for any geometry of its levels, any  *)
(* policies and any addresses.  P1 and P2 bring in the lemmas about one    *)
(* cache, for the geometry of the L1 and of the L2.  P1 and L1 instantiate *)
(* the same definitions, but to the provers their operators are different  *)
(* symbols: the first two sections show, from the policies up to an        *)
(* access, that they are the same, and the lemmas of P1 and P2 then speak  *)
(* about the hierarchy's levels.                                           *)
(***************************************************************************)
EXTENDS MemoryHierarchy, TLAPS

P1 == INSTANCE CacheOpsProofs WITH NumSets <- L1Sets, Ways <- L1Ways, BlockSize <- LevelBlockSize,
                                   PrefetchDistance <- LevelPrefetchDistance, AddressSpace <- NumAddresses
P2 == INSTANCE CacheOpsProofs WITH NumSets <- L2Sets, Ways <- L2Ways, BlockSize <- LevelBlockSize,
                                   PrefetchDistance <- LevelPrefetchDistance, AddressSpace <- NumAddresses

-----------------------------------------------------------------------------
(* P1 and L1 *)

\* P1 and L1 agree on the replacement policies.
LEMMA SamePolicies1 ==
  /\ \A k, s, w : P1!onAccess(k, s, w) = L1!onAccess(k, s, w) /\ P1!onInstall(k, s, w) = L1!onInstall(k, s, w)
  /\ \A k, s, p : /\ P1!selectVictim(k, s, P1!Way, p) = L1!selectVictim(k, s, L1!Way, p)
                  /\ P1!afterVictim(k, s, P1!Way) = L1!afterVictim(k, s, L1!Way)
  /\ \A k : P1!NewPolicy(k) = L1!NewPolicy(k)
<1>1. ASSUME NEW k, NEW s, NEW w
      PROVE  P1!onAccess(k, s, w) = L1!onAccess(k, s, w) /\ P1!onInstall(k, s, w) = L1!onInstall(k, s, w)
  <2>1. P1!Path(w) = L1!Path(w)
    BY DEF P1!Path, L1!Path
  <2>2. P1!LRUTouch(s, w) = L1!LRUTouch(s, w)
    BY DEF P1!LRUTouch, L1!LRUTouch, P1!Place, L1!Place
  <2>3. P1!NRUAccess(s, w) = L1!NRUAccess(s, w)
    BY DEF P1!NRUAccess, L1!NRUAccess, P1!NRUNew, L1!NRUNew, P1!ClearInterval, L1!ClearInterval
  <2>4. P1!PLRUTouch(s, w) = L1!PLRUTouch(s, w)
    BY DEF P1!PLRUTouch, L1!PLRUTouch, P1!Path, L1!Path, P1!Parent, L1!Parent
  <2>5. P1!FIFOInstall(s, w) = L1!FIFOInstall(s, w) /\ P1!NRUInstall(s, w) = L1!NRUInstall(s, w)
    BY DEF P1!FIFOInstall, L1!FIFOInstall, P1!NRUInstall, L1!NRUInstall
  <2> QED BY <2>2, <2>3, <2>4, <2>5 DEF P1!onAccess, L1!onAccess, P1!onInstall, L1!onInstall
<1>2. ASSUME NEW k, NEW s, NEW p
      PROVE  /\ P1!selectVictim(k, s, P1!Way, p) = L1!selectVictim(k, s, L1!Way, p)
             /\ P1!afterVictim(k, s, P1!Way) = L1!afterVictim(k, s, L1!Way)
  <2>1. P1!Way = L1!Way
    BY DEF P1!Way, L1!Way
  <2>2. PICK V : V = L1!Way
    OBVIOUS
  <2>3. \A S : P1!Min(S) = L1!Min(S)
    BY DEF P1!Min, L1!Min
  <2>4. P1!LRUVictim(s, V) = L1!LRUVictim(s, V)
    BY DEF P1!LRUVictim, L1!LRUVictim
  <2>5. P1!FIFOVictim(s, V) = L1!FIFOVictim(s, V)
    BY <2>3 DEF P1!FIFOVictim, L1!FIFOVictim
  <2>6. P1!NRUVictim(s, V) = L1!NRUVictim(s, V) /\ P1!NRUAfterVictim(s, V) = L1!NRUAfterVictim(s, V)
    BY <2>3 DEF P1!NRUVictim, L1!NRUVictim, P1!NRUAfterVictim, L1!NRUAfterVictim, P1!NRUNew, L1!NRUNew
  <2>7. P1!PLRULeaf(s) = L1!PLRULeaf(s)
    BY DEF P1!PLRULeaf, L1!PLRULeaf, P1!Path, L1!Path, P1!Parent, L1!Parent, P1!Way, L1!Way
  <2>8. P1!PLRUVictim(s, V) = L1!PLRUVictim(s, V) /\ P1!RandomVictim(V, p) = L1!RandomVictim(V, p)
    BY <2>3, <2>7 DEF P1!PLRUVictim, L1!PLRUVictim, P1!RandomVictim, L1!RandomVictim
  <2> QED BY <2>1, <2>2, <2>4, <2>5, <2>6, <2>8
          DEF P1!selectVictim, L1!selectVictim, P1!afterVictim, L1!afterVictim
<1>3. ASSUME NEW k PROVE P1!NewPolicy(k) = L1!NewPolicy(k)
  BY DEF P1!NewPolicy, L1!NewPolicy, P1!LRUNew, L1!LRUNew, P1!FIFONew, L1!FIFONew, P1!Way, L1!Way,
         P1!NRUNew, L1!NRUNew, P1!PLRUNew, L1!PLRUNew
<1> QED BY <1>1, <1>2, <1>3

\* P1 and L1 agree on addresses, blocks and the stream buffer.
LEMMA SameParts1 ==
  /\ \A a : /\ P1!BlockNumber(a) = L1!BlockNumber(a) /\ P1!SetIndex(a) = L1!SetIndex(a)
            /\ P1!Tag(a) = L1!Tag(a) /\ P1!ReadRequest(a) = L1!ReadRequest(a)
            /\ P1!WriteRequest(a) = L1!WriteRequest(a)
  /\ \A s, t : P1!VictimAddress(s, t) = L1!VictimAddress(s, t)
  /\ \A b : P1!requiresWriteback(b) = L1!requiresWriteback(b)
  /\ \A q : P1!PassedOn(q) = L1!PassedOn(q)
  /\ \A S : P1!Min(S) = L1!Min(S)
  /\ \A s, a : /\ P1!StreamHit(s, a) = L1!StreamHit(s, a) /\ P1!StreamAccess(s, a) = L1!StreamAccess(s, a)
               /\ P1!StreamPrefetch(s, a) = L1!StreamPrefetch(s, a)
  /\ \A s : P1!StreamShift(s) = L1!StreamShift(s)
  /\ \A a, w : P1!InstalledBlock(a, w) = L1!InstalledBlock(a, w)
  /\ \A b, w : P1!WrittenBlock(b, w) = L1!WrittenBlock(b, w)
<1>1. \A a : /\ P1!BlockNumber(a) = L1!BlockNumber(a) /\ P1!SetIndex(a) = L1!SetIndex(a)
             /\ P1!Tag(a) = L1!Tag(a) /\ P1!ReadRequest(a) = L1!ReadRequest(a)
             /\ P1!WriteRequest(a) = L1!WriteRequest(a)
  BY DEF P1!BlockNumber, L1!BlockNumber, P1!SetIndex, L1!SetIndex, P1!Tag, L1!Tag,
         P1!ReadRequest, L1!ReadRequest, P1!WriteRequest, L1!WriteRequest
<1>2. \A s, t : P1!VictimAddress(s, t) = L1!VictimAddress(s, t)
  BY DEF P1!VictimAddress, L1!VictimAddress
<1>3. \A b : P1!requiresWriteback(b) = L1!requiresWriteback(b)
  BY DEF P1!requiresWriteback, L1!requiresWriteback
<1>4. ASSUME NEW q PROVE P1!PassedOn(q) = L1!PassedOn(q)
  BY <1>1 DEF P1!PassedOn, L1!PassedOn
<1>5. \A S : P1!Min(S) = L1!Min(S)
  BY DEF P1!Min, L1!Min
<1>6. ASSUME NEW s, NEW a
      PROVE  /\ P1!StreamHit(s, a) = L1!StreamHit(s, a) /\ P1!StreamAccess(s, a) = L1!StreamAccess(s, a)
             /\ P1!StreamPrefetch(s, a) = L1!StreamPrefetch(s, a)
  <2>1. P1!StreamHit(s, a) = L1!StreamHit(s, a) /\ P1!StreamPrefetch(s, a) = L1!StreamPrefetch(s, a)
    BY DEF P1!StreamHit, L1!StreamHit, P1!StreamPrefetch, L1!StreamPrefetch
  <2>2. P1!StreamAccess(s, a) = L1!StreamAccess(s, a)
    BY <1>5 DEF P1!StreamAccess, L1!StreamAccess
  <2> QED BY <2>1, <2>2
<1>7. ASSUME NEW s PROVE P1!StreamShift(s) = L1!StreamShift(s)
  BY DEF P1!StreamShift, L1!StreamShift
<1>8. ASSUME NEW a, NEW w PROVE P1!InstalledBlock(a, w) = L1!InstalledBlock(a, w)
  BY <1>1 DEF P1!InstalledBlock, L1!InstalledBlock
<1>9. ASSUME NEW b, NEW w PROVE P1!WrittenBlock(b, w) = L1!WrittenBlock(b, w)
  BY DEF P1!WrittenBlock, L1!WrittenBlock
<1> QED BY <1>1, <1>2, <1>3, <1>4, <1>5, <1>6, <1>7, <1>8, <1>9

\* P1 and L1 agree on the lookup and the choice of a victim.
LEMMA SameLookup1 ==
  ASSUME NEW c
  PROVE  /\ \A a : P1!Holding(c, a) = L1!Holding(c, a) /\ P1!Present(c, a) = L1!Present(c, a)
         /\ \A s : P1!policyAfterVictim(c, s) = L1!policyAfterVictim(c, s)
         /\ \A s, p : P1!findVictim(c, s, p) = L1!findVictim(c, s, p)
<1>1. ASSUME NEW a PROVE P1!Holding(c, a) = L1!Holding(c, a) /\ P1!Present(c, a) = L1!Present(c, a)
  BY SameParts1 DEF P1!Holding, L1!Holding, P1!Present, L1!Present, P1!Way, L1!Way
<1>2. \A s : P1!invalidWays(c, s) = L1!invalidWays(c, s)
  BY DEF P1!invalidWays, L1!invalidWays, P1!Way, L1!Way
<1>3. ASSUME NEW s PROVE P1!policyAfterVictim(c, s) = L1!policyAfterVictim(c, s)
  BY <1>2, SamePolicies1 DEF P1!policyAfterVictim, L1!policyAfterVictim
<1>4. ASSUME NEW s, NEW p PROVE P1!findVictim(c, s, p) = L1!findVictim(c, s, p)
  BY <1>2, SamePolicies1, SameParts1 DEF P1!findVictim, L1!findVictim
<1> QED BY <1>1, <1>3, <1>4

\* P1 and L1 agree on an eviction and the fetch.
LEMMA SameReplacement1 ==
  ASSUME NEW c, NEW a, NEW isWrite, NEW pick
  PROVE  P1!Replacement(c, a, isWrite, pick) = L1!Replacement(c, a, isWrite, pick)
<1>1. PICK s, w, victim, new, policy :
        /\ s = L1!SetIndex(a) /\ w = L1!findVictim(c, s, pick) /\ victim = c.blocks[s][w]
        /\ new = L1!InstalledBlock(a, isWrite)
        /\ policy = L1!onInstall(c.config.replacement, L1!policyAfterVictim(c, s), w)
  OBVIOUS
<1>2. PICK write, read : write = L1!WriteRequest(L1!VictimAddress(s, victim.tag)) /\ read = L1!ReadRequest(a)
  OBVIOUS
<1>3. L1!Replacement(c, a, isWrite, pick) =
        [cache |-> [c EXCEPT !.blocks[s][w] = new, !.policy[s] = policy],
         requests |-> (IF victim.valid /\ L1!requiresWriteback(victim) THEN <<write>> ELSE <<>>) \o <<read>>]
  BY <1>1, <1>2 DEF L1!Replacement
<1>4. /\ s = P1!SetIndex(a) /\ w = P1!findVictim(c, s, pick)
      /\ new = P1!InstalledBlock(a, isWrite)
      /\ write = P1!WriteRequest(P1!VictimAddress(s, victim.tag)) /\ read = P1!ReadRequest(a)
      /\ policy = P1!onInstall(c.config.replacement, P1!policyAfterVictim(c, s), w)
      /\ P1!requiresWriteback(victim) = L1!requiresWriteback(victim)
  BY <1>1, <1>2, SameParts1, SamePolicies1, SameLookup1
<1>5. P1!Replacement(c, a, isWrite, pick) =
        [cache |-> [c EXCEPT !.blocks[s][w] = new, !.policy[s] = policy],
         requests |-> (IF victim.valid /\ P1!requiresWriteback(victim) THEN <<write>> ELSE <<>>) \o <<read>>]
  BY <1>1, <1>4 DEF P1!Replacement
<1> QED BY <1>3, <1>4, <1>5

\* P1 and L1 agree on a whole access.
LEMMA SameAccess1 ==
  ASSUME NEW c, NEW a, NEW isWrite, NEW stride, NEW picks
  PROVE  P1!Access(c, a, isWrite, stride, picks) = L1!Access(c, a, isWrite, stride, picks)
<1>1. P1!OnHit(c, a, isWrite) = L1!OnHit(c, a, isWrite)
  <2>1. PICK s, w, policy, write, new :
          /\ s = L1!SetIndex(a) /\ w = L1!Min(L1!Holding(c, a))
          /\ policy = L1!onAccess(c.config.replacement, c.policy[s], w)
          /\ new = L1!WrittenBlock(c.blocks[s][w], c.config.write) /\ write = L1!WriteRequest(a)
    OBVIOUS
  <2>2. L1!OnHit(c, a, isWrite) =
          [cache |-> [c EXCEPT !.blocks[s][w] = IF isWrite THEN new ELSE @, !.policy[s] = policy],
           requests |-> IF isWrite /\ c.config.write = "WriteThrough" THEN <<write>> ELSE <<>>]
    BY <2>1 DEF L1!OnHit
  <2>3. /\ s = P1!SetIndex(a) /\ w = P1!Min(P1!Holding(c, a))
        /\ policy = P1!onAccess(c.config.replacement, c.policy[s], w)
        /\ new = P1!WrittenBlock(c.blocks[s][w], c.config.write) /\ write = P1!WriteRequest(a)
    BY <2>1, SameParts1, SamePolicies1, SameLookup1
  <2>4. P1!OnHit(c, a, isWrite) =
          [cache |-> [c EXCEPT !.blocks[s][w] = IF isWrite THEN new ELSE @, !.policy[s] = policy],
           requests |-> IF isWrite /\ c.config.write = "WriteThrough" THEN <<write>> ELSE <<>>]
    BY <2>3 DEF P1!OnHit
  <2> QED BY <2>2, <2>4
<1>2. P1!StreamServes(c, a) = L1!StreamServes(c, a)
  BY SameParts1, SameLookup1 DEF P1!StreamServes, L1!StreamServes
<1>3. P1!OnStreamHit(c, a, isWrite) = L1!OnStreamHit(c, a, isWrite)
  <2>1. PICK s, t : s = L1!StreamAccess(c.stream, a) /\ t = L1!StreamShift(s)
    OBVIOUS
  <2>2. s = P1!StreamAccess(c.stream, a) /\ t = P1!StreamShift(s)
    BY <2>1, SameParts1
  <2> QED BY <2>1, <2>2 DEF P1!OnStreamHit, L1!OnStreamHit
<1>4. ASSUME NEW r, NEW pick
      PROVE  P1!Prefetched(r, a, isWrite, stride, pick) = L1!Prefetched(r, a, isWrite, stride, pick)
  <2>1. PICK pa, i : pa = (a + stride) % NumAddresses /\ i = L1!Replacement(r.cache, pa, FALSE, pick)
    OBVIOUS
  <2>2. /\ i = P1!Replacement(r.cache, pa, FALSE, pick)
        /\ P1!PrefetchNeeded(r.cache, pa) = L1!PrefetchNeeded(r.cache, pa)
    BY <2>1, SameReplacement1, SameLookup1 DEF P1!PrefetchNeeded, L1!PrefetchNeeded
  <2>3. PICK d : d = IF L1!PrefetchNeeded(r.cache, pa) THEN i ELSE [cache |-> r.cache, requests |-> <<>>]
    OBVIOUS
  <2>4. PICK s : s = L1!StreamPrefetch(d.cache.stream, pa)
    OBVIOUS
  <2>5. s = P1!StreamPrefetch(d.cache.stream, pa)
    BY <2>4, SameParts1
  <2>6. L1!Prefetched(r, a, isWrite, stride, pick) =
          IF isWrite \/ stride = 0 THEN r
          ELSE [cache |-> [d.cache EXCEPT !.stream = s], requests |-> r.requests \o d.requests]
    BY <2>1, <2>3, <2>4 DEF L1!Prefetched
  <2>7. P1!Prefetched(r, a, isWrite, stride, pick) =
          IF isWrite \/ stride = 0 THEN r
          ELSE [cache |-> [d.cache EXCEPT !.stream = s], requests |-> r.requests \o d.requests]
    BY <2>1, <2>2, <2>3, <2>5 DEF P1!Prefetched
  <2> QED BY <2>6, <2>7
<1> QED BY <1>1, <1>2, <1>3, <1>4, SameLookup1, SameReplacement1 DEF P1!Access, L1!Access

-----------------------------------------------------------------------------
(* P2 and L2 *)

\* P2 and L2 agree on the replacement policies.
LEMMA SamePolicies2 ==
  /\ \A k, s, w : P2!onAccess(k, s, w) = L2!onAccess(k, s, w) /\ P2!onInstall(k, s, w) = L2!onInstall(k, s, w)
  /\ \A k, s, p : /\ P2!selectVictim(k, s, P2!Way, p) = L2!selectVictim(k, s, L2!Way, p)
                  /\ P2!afterVictim(k, s, P2!Way) = L2!afterVictim(k, s, L2!Way)
  /\ \A k : P2!NewPolicy(k) = L2!NewPolicy(k)
<1>1. ASSUME NEW k, NEW s, NEW w
      PROVE  P2!onAccess(k, s, w) = L2!onAccess(k, s, w) /\ P2!onInstall(k, s, w) = L2!onInstall(k, s, w)
  <2>1. P2!Path(w) = L2!Path(w)
    BY DEF P2!Path, L2!Path
  <2>2. P2!LRUTouch(s, w) = L2!LRUTouch(s, w)
    BY DEF P2!LRUTouch, L2!LRUTouch, P2!Place, L2!Place
  <2>3. P2!NRUAccess(s, w) = L2!NRUAccess(s, w)
    BY DEF P2!NRUAccess, L2!NRUAccess, P2!NRUNew, L2!NRUNew, P2!ClearInterval, L2!ClearInterval
  <2>4. P2!PLRUTouch(s, w) = L2!PLRUTouch(s, w)
    BY DEF P2!PLRUTouch, L2!PLRUTouch, P2!Path, L2!Path, P2!Parent, L2!Parent
  <2>5. P2!FIFOInstall(s, w) = L2!FIFOInstall(s, w) /\ P2!NRUInstall(s, w) = L2!NRUInstall(s, w)
    BY DEF P2!FIFOInstall, L2!FIFOInstall, P2!NRUInstall, L2!NRUInstall
  <2> QED BY <2>2, <2>3, <2>4, <2>5 DEF P2!onAccess, L2!onAccess, P2!onInstall, L2!onInstall
<1>2. ASSUME NEW k, NEW s, NEW p
      PROVE  /\ P2!selectVictim(k, s, P2!Way, p) = L2!selectVictim(k, s, L2!Way, p)
             /\ P2!afterVictim(k, s, P2!Way) = L2!afterVictim(k, s, L2!Way)
  <2>1. P2!Way = L2!Way
    BY DEF P2!Way, L2!Way
  <2>2. PICK V : V = L2!Way
    OBVIOUS
  <2>3. \A S : P2!Min(S) = L2!Min(S)
    BY DEF P2!Min, L2!Min
  <2>4. P2!LRUVictim(s, V) = L2!LRUVictim(s, V)
    BY DEF P2!LRUVictim, L2!LRUVictim
  <2>5. P2!FIFOVictim(s, V) = L2!FIFOVictim(s, V)
    BY <2>3 DEF P2!FIFOVictim, L2!FIFOVictim
  <2>6. P2!NRUVictim(s, V) = L2!NRUVictim(s, V) /\ P2!NRUAfterVictim(s, V) = L2!NRUAfterVictim(s, V)
    BY <2>3 DEF P2!NRUVictim, L2!NRUVictim, P2!NRUAfterVictim, L2!NRUAfterVictim, P2!NRUNew, L2!NRUNew
  <2>7. P2!PLRULeaf(s) = L2!PLRULeaf(s)
    BY DEF P2!PLRULeaf, L2!PLRULeaf, P2!Path, L2!Path, P2!Parent, L2!Parent, P2!Way, L2!Way
  <2>8. P2!PLRUVictim(s, V) = L2!PLRUVictim(s, V) /\ P2!RandomVictim(V, p) = L2!RandomVictim(V, p)
    BY <2>3, <2>7 DEF P2!PLRUVictim, L2!PLRUVictim, P2!RandomVictim, L2!RandomVictim
  <2> QED BY <2>1, <2>2, <2>4, <2>5, <2>6, <2>8
          DEF P2!selectVictim, L2!selectVictim, P2!afterVictim, L2!afterVictim
<1>3. ASSUME NEW k PROVE P2!NewPolicy(k) = L2!NewPolicy(k)
  BY DEF P2!NewPolicy, L2!NewPolicy, P2!LRUNew, L2!LRUNew, P2!FIFONew, L2!FIFONew, P2!Way, L2!Way,
         P2!NRUNew, L2!NRUNew, P2!PLRUNew, L2!PLRUNew
<1> QED BY <1>1, <1>2, <1>3

\* P2 and L2 agree on addresses, blocks and the stream buffer.
LEMMA SameParts2 ==
  /\ \A a : /\ P2!BlockNumber(a) = L2!BlockNumber(a) /\ P2!SetIndex(a) = L2!SetIndex(a)
            /\ P2!Tag(a) = L2!Tag(a) /\ P2!ReadRequest(a) = L2!ReadRequest(a)
            /\ P2!WriteRequest(a) = L2!WriteRequest(a)
  /\ \A s, t : P2!VictimAddress(s, t) = L2!VictimAddress(s, t)
  /\ \A b : P2!requiresWriteback(b) = L2!requiresWriteback(b)
  /\ \A q : P2!PassedOn(q) = L2!PassedOn(q)
  /\ \A S : P2!Min(S) = L2!Min(S)
  /\ \A s, a : /\ P2!StreamHit(s, a) = L2!StreamHit(s, a) /\ P2!StreamAccess(s, a) = L2!StreamAccess(s, a)
               /\ P2!StreamPrefetch(s, a) = L2!StreamPrefetch(s, a)
  /\ \A s : P2!StreamShift(s) = L2!StreamShift(s)
  /\ \A a, w : P2!InstalledBlock(a, w) = L2!InstalledBlock(a, w)
  /\ \A b, w : P2!WrittenBlock(b, w) = L2!WrittenBlock(b, w)
<1>1. \A a : /\ P2!BlockNumber(a) = L2!BlockNumber(a) /\ P2!SetIndex(a) = L2!SetIndex(a)
             /\ P2!Tag(a) = L2!Tag(a) /\ P2!ReadRequest(a) = L2!ReadRequest(a)
             /\ P2!WriteRequest(a) = L2!WriteRequest(a)
  BY DEF P2!BlockNumber, L2!BlockNumber, P2!SetIndex, L2!SetIndex, P2!Tag, L2!Tag,
         P2!ReadRequest, L2!ReadRequest, P2!WriteRequest, L2!WriteRequest
<1>2. \A s, t : P2!VictimAddress(s, t) = L2!VictimAddress(s, t)
  BY DEF P2!VictimAddress, L2!VictimAddress
<1>3. \A b : P2!requiresWriteback(b) = L2!requiresWriteback(b)
  BY DEF P2!requiresWriteback, L2!requiresWriteback
<1>4. ASSUME NEW q PROVE P2!PassedOn(q) = L2!PassedOn(q)
  BY <1>1 DEF P2!PassedOn, L2!PassedOn
<1>5. \A S : P2!Min(S) = L2!Min(S)
  BY DEF P2!Min, L2!Min
<1>6. ASSUME NEW s, NEW a
      PROVE  /\ P2!StreamHit(s, a) = L2!StreamHit(s, a) /\ P2!StreamAccess(s, a) = L2!StreamAccess(s, a)
             /\ P2!StreamPrefetch(s, a) = L2!StreamPrefetch(s, a)
  <2>1. P2!StreamHit(s, a) = L2!StreamHit(s, a) /\ P2!StreamPrefetch(s, a) = L2!StreamPrefetch(s, a)
    BY DEF P2!StreamHit, L2!StreamHit, P2!StreamPrefetch, L2!StreamPrefetch
  <2>2. P2!StreamAccess(s, a) = L2!StreamAccess(s, a)
    BY <1>5 DEF P2!StreamAccess, L2!StreamAccess
  <2> QED BY <2>1, <2>2
<1>7. ASSUME NEW s PROVE P2!StreamShift(s) = L2!StreamShift(s)
  BY DEF P2!StreamShift, L2!StreamShift
<1>8. ASSUME NEW a, NEW w PROVE P2!InstalledBlock(a, w) = L2!InstalledBlock(a, w)
  BY <1>1 DEF P2!InstalledBlock, L2!InstalledBlock
<1>9. ASSUME NEW b, NEW w PROVE P2!WrittenBlock(b, w) = L2!WrittenBlock(b, w)
  BY DEF P2!WrittenBlock, L2!WrittenBlock
<1> QED BY <1>1, <1>2, <1>3, <1>4, <1>5, <1>6, <1>7, <1>8, <1>9

\* P2 and L2 agree on the lookup and the choice of a victim.
LEMMA SameLookup2 ==
  ASSUME NEW c
  PROVE  /\ \A a : P2!Holding(c, a) = L2!Holding(c, a) /\ P2!Present(c, a) = L2!Present(c, a)
         /\ \A s : P2!policyAfterVictim(c, s) = L2!policyAfterVictim(c, s)
         /\ \A s, p : P2!findVictim(c, s, p) = L2!findVictim(c, s, p)
<1>1. ASSUME NEW a PROVE P2!Holding(c, a) = L2!Holding(c, a) /\ P2!Present(c, a) = L2!Present(c, a)
  BY SameParts2 DEF P2!Holding, L2!Holding, P2!Present, L2!Present, P2!Way, L2!Way
<1>2. \A s : P2!invalidWays(c, s) = L2!invalidWays(c, s)
  BY DEF P2!invalidWays, L2!invalidWays, P2!Way, L2!Way
<1>3. ASSUME NEW s PROVE P2!policyAfterVictim(c, s) = L2!policyAfterVictim(c, s)
  BY <1>2, SamePolicies2 DEF P2!policyAfterVictim, L2!policyAfterVictim
<1>4. ASSUME NEW s, NEW p PROVE P2!findVictim(c, s, p) = L2!findVictim(c, s, p)
  BY <1>2, SamePolicies2, SameParts2 DEF P2!findVictim, L2!findVictim
<1> QED BY <1>1, <1>3, <1>4

\* P2 and L2 agree on an eviction and the fetch.
LEMMA SameReplacement2 ==
  ASSUME NEW c, NEW a, NEW isWrite, NEW pick
  PROVE  P2!Replacement(c, a, isWrite, pick) = L2!Replacement(c, a, isWrite, pick)
<1>1. PICK s, w, victim, new, policy :
        /\ s = L2!SetIndex(a) /\ w = L2!findVictim(c, s, pick) /\ victim = c.blocks[s][w]
        /\ new = L2!InstalledBlock(a, isWrite)
        /\ policy = L2!onInstall(c.config.replacement, L2!policyAfterVictim(c, s), w)
  OBVIOUS
<1>2. PICK write, read : write = L2!WriteRequest(L2!VictimAddress(s, victim.tag)) /\ read = L2!ReadRequest(a)
  OBVIOUS
<1>3. L2!Replacement(c, a, isWrite, pick) =
        [cache |-> [c EXCEPT !.blocks[s][w] = new, !.policy[s] = policy],
         requests |-> (IF victim.valid /\ L2!requiresWriteback(victim) THEN <<write>> ELSE <<>>) \o <<read>>]
  BY <1>1, <1>2 DEF L2!Replacement
<1>4. /\ s = P2!SetIndex(a) /\ w = P2!findVictim(c, s, pick)
      /\ new = P2!InstalledBlock(a, isWrite)
      /\ write = P2!WriteRequest(P2!VictimAddress(s, victim.tag)) /\ read = P2!ReadRequest(a)
      /\ policy = P2!onInstall(c.config.replacement, P2!policyAfterVictim(c, s), w)
      /\ P2!requiresWriteback(victim) = L2!requiresWriteback(victim)
  BY <1>1, <1>2, SameParts2, SamePolicies2, SameLookup2
<1>5. P2!Replacement(c, a, isWrite, pick) =
        [cache |-> [c EXCEPT !.blocks[s][w] = new, !.policy[s] = policy],
         requests |-> (IF victim.valid /\ P2!requiresWriteback(victim) THEN <<write>> ELSE <<>>) \o <<read>>]
  BY <1>1, <1>4 DEF P2!Replacement
<1> QED BY <1>3, <1>4, <1>5

\* P2 and L2 agree on a whole access.
LEMMA SameAccess2 ==
  ASSUME NEW c, NEW a, NEW isWrite, NEW stride, NEW picks
  PROVE  P2!Access(c, a, isWrite, stride, picks) = L2!Access(c, a, isWrite, stride, picks)
<1>1. P2!OnHit(c, a, isWrite) = L2!OnHit(c, a, isWrite)
  <2>1. PICK s, w, policy, write, new :
          /\ s = L2!SetIndex(a) /\ w = L2!Min(L2!Holding(c, a))
          /\ policy = L2!onAccess(c.config.replacement, c.policy[s], w)
          /\ new = L2!WrittenBlock(c.blocks[s][w], c.config.write) /\ write = L2!WriteRequest(a)
    OBVIOUS
  <2>2. L2!OnHit(c, a, isWrite) =
          [cache |-> [c EXCEPT !.blocks[s][w] = IF isWrite THEN new ELSE @, !.policy[s] = policy],
           requests |-> IF isWrite /\ c.config.write = "WriteThrough" THEN <<write>> ELSE <<>>]
    BY <2>1 DEF L2!OnHit
  <2>3. /\ s = P2!SetIndex(a) /\ w = P2!Min(P2!Holding(c, a))
        /\ policy = P2!onAccess(c.config.replacement, c.policy[s], w)
        /\ new = P2!WrittenBlock(c.blocks[s][w], c.config.write) /\ write = P2!WriteRequest(a)
    BY <2>1, SameParts2, SamePolicies2, SameLookup2
  <2>4. P2!OnHit(c, a, isWrite) =
          [cache |-> [c EXCEPT !.blocks[s][w] = IF isWrite THEN new ELSE @, !.policy[s] = policy],
           requests |-> IF isWrite /\ c.config.write = "WriteThrough" THEN <<write>> ELSE <<>>]
    BY <2>3 DEF P2!OnHit
  <2> QED BY <2>2, <2>4
<1>2. P2!StreamServes(c, a) = L2!StreamServes(c, a)
  BY SameParts2, SameLookup2 DEF P2!StreamServes, L2!StreamServes
<1>3. P2!OnStreamHit(c, a, isWrite) = L2!OnStreamHit(c, a, isWrite)
  <2>1. PICK s, t : s = L2!StreamAccess(c.stream, a) /\ t = L2!StreamShift(s)
    OBVIOUS
  <2>2. s = P2!StreamAccess(c.stream, a) /\ t = P2!StreamShift(s)
    BY <2>1, SameParts2
  <2> QED BY <2>1, <2>2 DEF P2!OnStreamHit, L2!OnStreamHit
<1>4. ASSUME NEW r, NEW pick
      PROVE  P2!Prefetched(r, a, isWrite, stride, pick) = L2!Prefetched(r, a, isWrite, stride, pick)
  <2>1. PICK pa, i : pa = (a + stride) % NumAddresses /\ i = L2!Replacement(r.cache, pa, FALSE, pick)
    OBVIOUS
  <2>2. /\ i = P2!Replacement(r.cache, pa, FALSE, pick)
        /\ P2!PrefetchNeeded(r.cache, pa) = L2!PrefetchNeeded(r.cache, pa)
    BY <2>1, SameReplacement2, SameLookup2 DEF P2!PrefetchNeeded, L2!PrefetchNeeded
  <2>3. PICK d : d = IF L2!PrefetchNeeded(r.cache, pa) THEN i ELSE [cache |-> r.cache, requests |-> <<>>]
    OBVIOUS
  <2>4. PICK s : s = L2!StreamPrefetch(d.cache.stream, pa)
    OBVIOUS
  <2>5. s = P2!StreamPrefetch(d.cache.stream, pa)
    BY <2>4, SameParts2
  <2>6. L2!Prefetched(r, a, isWrite, stride, pick) =
          IF isWrite \/ stride = 0 THEN r
          ELSE [cache |-> [d.cache EXCEPT !.stream = s], requests |-> r.requests \o d.requests]
    BY <2>1, <2>3, <2>4 DEF L2!Prefetched
  <2>7. P2!Prefetched(r, a, isWrite, stride, pick) =
          IF isWrite \/ stride = 0 THEN r
          ELSE [cache |-> [d.cache EXCEPT !.stream = s], requests |-> r.requests \o d.requests]
    BY <2>1, <2>2, <2>3, <2>5 DEF P2!Prefetched
  <2> QED BY <2>6, <2>7
<1> QED BY <1>1, <1>2, <1>3, <1>4, SameLookup2, SameReplacement2 DEF P2!Access, L2!Access

-----------------------------------------------------------------------------
(* One level *)

Asks == [addr : Nat, isWrite : BOOLEAN]
Sound1(c) == P1!CacheFits(c) /\ P1!Unique(c)
Sound2(c) == P2!CacheFits(c) /\ P2!Unique(c)

\* The instances meet the assumptions of the module they are made of.
LEMMA Geometry ==
  /\ L1Ways \in Nat \ {0} /\ L2Ways \in Nat \ {0} /\ L1Sets \in Nat \ {0} /\ L2Sets \in Nat \ {0}
  /\ LevelBlockSize \in Nat \ {0} /\ LevelPrefetchDistance \in Nat /\ NumAddresses \in Nat \ {0}
BY HierarchyAssumption, TableAssumption

\* An access of the L1 keeps it well formed and loses no block that is due.
LEMMA L1Access ==
  ASSUME NEW c, Sound1(c), NEW a \in Nat, NEW isWrite \in BOOLEAN, NEW stride \in Int, NEW picks,
         NEW r, r = L1!Access(c, a, isWrite, stride, picks)
  PROVE  /\ Sound1(r.cache) /\ r.cache.config = c.config /\ r.requests \in Seq(Asks)
         /\ \A b : P1!Due(c, b) => P1!Due(r.cache, b) \/ b \in L1!PassedOn(r.requests)
         /\ ~c.config.prefetch /\ ~L1!Present(c, a) =>
              Len(r.requests) > 0 /\ r.requests[Len(r.requests)].addr = a
<1>1. r = P1!Access(c, a, isWrite, stride, picks)
  BY SameAccess1
<1>2. P1!CacheFits(c) /\ P1!Unique(c)
  BY DEF Sound1
<1>3. Sound1(r.cache) /\ r.cache.config = c.config
  BY <1>1, <1>2, Geometry, P1!AccessKeeps DEF Sound1
<1>4. /\ r.requests \in Seq(P1!Requests)
      /\ \A b : P1!Due(c, b) => P1!Due(r.cache, b) \/ b \in P1!PassedOn(r.requests)
  BY <1>1, <1>2, Geometry, P1!AccessKeepsDue
<1>5. ~c.config.prefetch /\ ~P1!Present(c, a) =>
        Len(r.requests) > 0 /\ r.requests[Len(r.requests)] = P1!ReadRequest(a)
  BY <1>1, <1>2, Geometry, P1!AccessFetches
<1>6. P1!Requests = Asks /\ P1!ReadRequest(a).addr = a
  BY DEF P1!Requests, Asks, P1!ReadRequest
<1>7. P1!PassedOn(r.requests) = L1!PassedOn(r.requests) /\ P1!Present(c, a) = L1!Present(c, a)
  BY SameParts1, SameLookup1
<1> QED BY <1>3, <1>4, <1>5, <1>6, <1>7

\* Block b is due a write-back in the L2, or written back.
Kept(level, b) == P2!Due(level.cache, b) \/ b \in level.memory

\* An access of the L2 keeps it well formed and loses no block that is due;
\* without a stream buffer a write is due there afterwards, or written through,
\* and the block is present.
LEMMA L2Access ==
  ASSUME NEW level, Sound2(level.cache), NEW q \in Asks, NEW n, n = L2Step(level, q)
  PROVE  /\ Sound2(n.cache) /\ n.cache.config = level.cache.config
         /\ \A b : Kept(level, b) => Kept(n, b)
         /\ ~level.cache.config.prefetch =>
              /\ L2!Present(n.cache, q.addr)
              /\ q.isWrite => Kept(n, L1!BlockNumber(q.addr))
<1> DEFINE c == level.cache
<1>1. PICK a \in Nat, isWrite \in BOOLEAN : a = q.addr /\ isWrite = q.isWrite
  BY DEF Asks
<1>2. PICK stride \in Int : stride = 0
  OBVIOUS
<1>3. PICK r : r = P2!Access(c, a, isWrite, stride, NoPicks)
  OBVIOUS
<1>4. r = L2!Access(c, a, isWrite, stride, NoPicks)
  BY <1>3, SameAccess2
<1>5. n.cache = r.cache /\ n.memory = level.memory \cup P2!PassedOn(r.requests)
  <2>1. P2!PassedOn(r.requests) = L2!PassedOn(r.requests)
    BY SameParts2
  <2>2. r = L2!Access(level.cache, q.addr, q.isWrite, 0, NoPicks)
    BY <1>1, <1>2, <1>4
  <2> QED BY <2>1, <2>2 DEF L2Step
<1>6. P2!CacheFits(c) /\ P2!Unique(c)
  BY DEF Sound2
<1> HIDE DEF c
<1>7. Sound2(r.cache) /\ r.cache.config = c.config
  BY <1>3, <1>6, Geometry, P2!AccessKeeps DEF Sound2
<1>8. \A b : P2!Due(c, b) \/ (isWrite /\ ~c.config.prefetch /\ b = P2!BlockNumber(a)) =>
        P2!Due(r.cache, b) \/ b \in P2!PassedOn(r.requests)
  BY <1>3, <1>6, Geometry, P2!AccessKeepsDue
<1>9. ~c.config.prefetch => P2!Present(r.cache, a)
  BY <1>3, <1>6, Geometry, P2!AccessFetches
<1>10. P2!Present(r.cache, a) = L2!Present(r.cache, a)
  BY SameLookup2
<1>11. P2!BlockNumber(a) = L1!BlockNumber(a)
  BY DEF P2!BlockNumber, L1!BlockNumber
<1>12. \A b : Kept(level, b) => Kept(n, b)
  BY <1>5, <1>8 DEF Kept, c
<1>13. ~c.config.prefetch /\ isWrite => Kept(n, P2!BlockNumber(a))
  BY <1>5, <1>8 DEF Kept
<1> QED BY <1>1, <1>5, <1>7, <1>9, <1>10, <1>11, <1>12, <1>13 DEF c

\* The requests of the L1 leave the L2 well formed and lose no block that is
\* due; without a stream buffer in the L2 every block written is due there or
\* written back, and the block asked for last is present.
LEMMA ForwardKeeps ==
  ASSUME NEW level, Sound2(level.cache), NEW reqs \in Seq(Asks), NEW n, n = Forward(level, reqs)
  PROVE  /\ Sound2(n.cache) /\ n.cache.config = level.cache.config
         /\ \A b : Kept(level, b) => Kept(n, b)
         /\ ~level.cache.config.prefetch =>
              /\ \A b \in L1!PassedOn(reqs) : Kept(n, b)
              /\ Len(reqs) > 0 => L2!Present(n.cache, reqs[Len(reqs)].addr)
<1> DEFINE Round(g, i) == IF i = 0 THEN level ELSE L2Step(g[i - 1], reqs[i])
           N == Len(reqs)
           Good(m) == \E g : g = [i \in 0..m |-> Round(g, i)]
           Bad == {m \in 0..N : ~Good(m)}
<1>1. N \in Nat /\ \A i \in 1..N : reqs[i] \in Asks
  OBVIOUS
<1>2. Good(0)
  <2> DEFINE g == [i \in 0..0 |-> level]
  <2>1. g = [i \in 0..0 |-> Round(g, i)]
    OBVIOUS
  <2> QED BY <2>1
<1>3. ASSUME NEW m \in 1..N, Good(m - 1)
      PROVE  Good(m)
  <2>1. PICK g : g = [i \in 0..(m - 1) |-> Round(g, i)]
    BY <1>3
  <2>2. PICK h : h = [i \in 0..m |-> IF i = m THEN Round(g, m) ELSE g[i]]
    OBVIOUS
  <2>3. ASSUME NEW i \in 0..m PROVE h[i] = Round(h, i)
    <3>1. i # 0 => h[i - 1] = g[i - 1]
      BY <1>1, <2>2
    <3>2. Round(h, i) = Round(g, i)
      BY <3>1
    <3>3. h[i] = Round(g, i)
      <4>1. \A j \in 0..(m - 1) : g[j] = Round(g, j)
        BY <2>1
      <4>2. i # m => i \in 0..(m - 1)
        BY <1>1
      <4> HIDE DEF Round
      <4> QED BY <2>2, <4>1, <4>2
    <3> QED BY <3>2, <3>3
  <2>4. h = [i \in 0..m |-> Round(h, i)]
    <3> HIDE DEF Round
    <3> QED BY <2>2, <2>3
  <2> QED BY <2>4
<1> HIDE DEF Good, N
<1>4. Good(N)
  <2> SUFFICES ASSUME Bad # {} PROVE FALSE
    BY <1>1
  <2>1. Bad \in SUBSET Nat
    BY <1>1
  <2>2. P1!Min(Bad) \in Bad /\ \A y \in Bad : P1!Min(Bad) <= y
    <3> HIDE DEF Bad
    <3> QED BY <2>1, Geometry, P1!MinOfNaturals
  <2>3. PICK m \in 0..N : ~Good(m) /\ \A y \in Bad : m <= y
    BY <2>2
  <2>4. m # 0
    BY <1>2, <2>3
  <2>5. m \in 1..N /\ m - 1 \in 0..N /\ m - 1 \notin Bad
    BY <1>1, <2>3, <2>4
  <2> QED BY <1>3, <2>3, <2>5
<1> DEFINE f == CHOOSE g : g = [i \in 0..N |-> Round(g, i)]
<1>5. f = [i \in 0..N |-> Round(f, i)]
  BY <1>4, Zenon DEF Good
<1>6. n = f[N]
  BY Zenon DEF Forward, InOrder, N
<1> HIDE DEF f
<1>7. f[0] = level /\ \A i \in 1..N : f[i] = L2Step(f[i - 1], reqs[i])
  <2>1. \A i \in 0..N : f[i] = Round(f, i)
    <3> HIDE DEF Round
    <3> QED BY <1>5
  <2> QED BY <1>1, <2>1
<1> HIDE DEF Round
\* The same after every request.
<1> DEFINE Due(i) == \A b : Kept(level, b) => Kept(f[i], b)
           Handed(i) == \A j \in 1..i : reqs[j].isWrite => Kept(f[i], L1!BlockNumber(reqs[j].addr))
           There(i) == i > 0 => L2!Present(f[i].cache, reqs[i].addr)
           Right(i) == /\ Sound2(f[i].cache) /\ f[i].cache.config = level.cache.config /\ Due(i)
                       /\ ~level.cache.config.prefetch => Handed(i) /\ There(i)
           Wrong == {i \in 0..N : ~Right(i)}
<1>8. Right(0)
  BY <1>7
<1>9. ASSUME NEW i \in 1..N, Right(i - 1) PROVE Right(i)
  <2>1. PICK u, q : u = f[i - 1] /\ q = reqs[i]
    OBVIOUS
  <2>2. q \in Asks /\ f[i] = L2Step(u, q) /\ Sound2(u.cache) /\ u.cache.config = level.cache.config
    BY <1>1, <1>7, <1>9, <2>1
  <2>3. /\ Sound2(f[i].cache) /\ f[i].cache.config = u.cache.config
        /\ \A b : Kept(u, b) => Kept(f[i], b)
        /\ ~u.cache.config.prefetch =>
             /\ L2!Present(f[i].cache, q.addr)
             /\ q.isWrite => Kept(f[i], L1!BlockNumber(q.addr))
    BY <2>2, L2Access
  <2>4. Due(i)
    BY <1>9, <2>1, <2>3
  <2>5. ASSUME ~level.cache.config.prefetch PROVE Handed(i) /\ There(i)
    <3>1. There(i)
      BY <2>1, <2>2, <2>3, <2>5
    <3>2. ASSUME NEW j \in 1..i, reqs[j].isWrite PROVE Kept(f[i], L1!BlockNumber(reqs[j].addr))
      <4>1. CASE j = i
        BY <2>1, <2>2, <2>3, <2>5, <3>2, <4>1
      <4>2. CASE j # i
        <5>1. j \in 1..(i - 1)
          BY <1>1, <4>2
        <5>2. Kept(u, L1!BlockNumber(reqs[j].addr))
          BY <1>9, <2>1, <2>5, <3>2, <5>1
        <5> QED BY <2>3, <5>2
      <4> QED BY <4>1, <4>2
    <3> QED BY <3>1, <3>2
  <2> QED BY <2>2, <2>3, <2>4, <2>5
<1> HIDE DEF Right
<1>10. Right(N)
  <2> SUFFICES ASSUME Wrong # {} PROVE FALSE
    BY <1>1
  <2>1. Wrong \in SUBSET Nat
    BY <1>1
  <2>2. P1!Min(Wrong) \in Wrong /\ \A y \in Wrong : P1!Min(Wrong) <= y
    <3> HIDE DEF Wrong
    <3> QED BY <2>1, Geometry, P1!MinOfNaturals
  <2>3. PICK i \in 0..N : ~Right(i) /\ \A y \in Wrong : i <= y
    BY <2>2
  <2>4. i # 0
    BY <1>8, <2>3
  <2>5. i \in 1..N /\ i - 1 \in 0..N /\ i - 1 \notin Wrong
    BY <1>1, <2>3, <2>4
  <2> QED BY <1>9, <2>3, <2>5
<1>11. ASSUME ~level.cache.config.prefetch, NEW b \in L1!PassedOn(reqs) PROVE Kept(n, b)
  <2>1. PICK j \in 1..N : reqs[j].isWrite /\ b = L1!BlockNumber(reqs[j].addr)
    BY DEF L1!PassedOn, N
  <2> QED BY <1>6, <1>10, <1>11, <2>1 DEF Right
<1> QED BY <1>6, <1>10, <1>11 DEF Right, N

-----------------------------------------------------------------------------
(* The hierarchy *)

\* The predictor's table is well formed.
Entry == [valid : BOOLEAN, lastAddress : Int, stride : Int, confidence : Int]
Table(t) == t \in [0..(TableSize - 1) -> Entry]

\* It stays so, and the strides it answers are integers.
LEMMA TableKept ==
  /\ Table(NewTable)
  /\ \A t, a : Table(t) /\ a \in Nat => Table(update(t, a)) /\ getStride(t, a) \in Int
<1>1. Table(NewTable)
  BY DEF Table, NewTable, Entry
<1>2. ASSUME NEW t, NEW a \in Nat, Table(t) PROVE Table(update(t, a)) /\ getStride(t, a) \in Int
  <2>1. a % TableSize \in 0..(TableSize - 1)
    BY TableAssumption
  <2>2. PICK e \in Entry : e = t[a % TableSize]
    BY <1>2, <2>1 DEF Table
  <2>3. UpdatedEntry(e, a) \in Entry
    <3>1. Distance(a, e.lastAddress) \in Int
      BY TableAssumption DEF Entry, Distance
    <3> QED BY <3>1 DEF UpdatedEntry, Entry, Bump, Drop
  <2>4. Table(update(t, a))
    <3> HIDE DEF Entry
    <3> QED BY <1>2, <2>1, <2>2, <2>3 DEF Table, update
  <2>5. getStride(t, a) \in Int
    BY <2>2 DEF getStride, Entry
  <2> QED BY <2>4, <2>5
<1> QED BY <1>1, <1>2

\* Dirty is what the lemmas about one level call due.
LEMMA DirtyIsDue ==
  /\ \A c, b : Sound1(c) => (b \in Dirty(c, L1Sets) <=> P1!Due(c, b))
  /\ \A c, b : Sound2(c) => (b \in Dirty(c, L2Sets) <=> P2!Due(c, b))
<1>1. ASSUME NEW c, NEW b, Sound1(c) PROVE b \in Dirty(c, L1Sets) <=> P1!Due(c, b)
  <2>1. DOMAIN c.blocks = P1!Sets /\ \A s \in P1!Sets : DOMAIN c.blocks[s] = P1!Way
    BY <1>1 DEF Sound1, P1!CacheFits
  <2> QED BY <2>1 DEF Dirty, P1!Due, P1!requiresWriteback, L1!requiresWriteback
<1>2. ASSUME NEW c, NEW b, Sound2(c) PROVE b \in Dirty(c, L2Sets) <=> P2!Due(c, b)
  <2>1. DOMAIN c.blocks = P2!Sets /\ \A s \in P2!Sets : DOMAIN c.blocks[s] = P2!Way
    BY <1>2 DEF Sound2, P2!CacheFits
  <2> QED BY <2>1 DEF Dirty, P2!Due, P2!requiresWriteback, L1!requiresWriteback
<1> QED BY <1>1, <1>2

\* The levels are well formed, and their configurations those of a set-up.
LevelsOK ==
  /\ Sound1(l1) /\ Sound2(l2) /\ Table(predictor)
  /\ \E s \in Setups : l1.config = s.l1 /\ l2.config = s.l2 /\ below = s.below

\* What an access does to the levels: the L1's own access, the requests it
\* makes of the L2, and the second access of the L2.
LEMMA AccessOfLevels ==
  ASSUME LevelsOK, NEW a \in AccessedAddresses, NEW isWrite \in BOOLEAN, hierarchyAccess(a, isWrite)
  PROVE  /\ Sound1(l1') /\ Sound2(l2') /\ Table(predictor')
         /\ l1'.config = l1.config /\ l2'.config = l2.config /\ below' = below
         /\ ("L2" \in below => ~l2.config.prefetch) =>
              \A b : P1!Due(l1, b) \/ P2!Due(l2, b) =>
                P1!Due(l1', b) \/ P2!Due(l2', b) \/ b \in memoryWrites'
         /\ "L2" \in below /\ ~l1.config.prefetch /\ ~l2.config.prefetch => l3' = l3
<1>1. a \in Nat
  BY HierarchyAssumption
<1>2. Sound1(l1) /\ Sound2(l2) /\ Table(predictor)
  BY DEF LevelsOK
<1>3. PICK table, stride, start, q :
        /\ table = IF l1.config.prefetch THEN update(predictor, a) ELSE predictor
        /\ stride = getStride(table, a)
        /\ start = [cache |-> l2, memory |-> {}]
        /\ q = [addr |-> a, isWrite |-> isWrite]
  OBVIOUS
<1>4. Table(table) /\ stride \in Int
  BY <1>1, <1>2, <1>3, TableKept
<1>5. PICK first : first = L1!Access(l1, a, isWrite, stride, NoPicks)
  OBVIOUS
<1>6. PICK fetched : fetched = IF "L2" \in below THEN Forward(start, first.requests)
                               ELSE [cache |-> l2, memory |-> L1!PassedOn(first.requests)]
  OBVIOUS
<1>7. PICK second : second = IF "L2" \in below /\ ~L1!Hits(l1, a) THEN L2Step(fetched, q) ELSE fetched
  OBVIOUS
<1>8. /\ l1' = first.cache /\ l2' = second.cache /\ memoryWrites' = second.memory
      /\ predictor' = table /\ below' = below
      /\ "L2" \in below /\ (L1!Hits(l1, a) \/ L2!Hits(fetched.cache, a)) => l3' = l3
  BY <1>3, <1>5, <1>6, <1>7 DEF hierarchyAccess
<1>9. /\ Sound1(first.cache) /\ first.cache.config = l1.config /\ first.requests \in Seq(Asks)
      /\ \A b : P1!Due(l1, b) => P1!Due(first.cache, b) \/ b \in L1!PassedOn(first.requests)
      /\ ~l1.config.prefetch /\ ~L1!Present(l1, a) =>
           Len(first.requests) > 0 /\ first.requests[Len(first.requests)].addr = a
  BY <1>1, <1>2, <1>4, <1>5, L1Access
<1>10. CASE "L2" \notin below
  <2>1. second.cache = l2 /\ second.memory = L1!PassedOn(first.requests)
    BY <1>6, <1>7, <1>10
  <2> QED BY <1>2, <1>4, <1>8, <1>9, <1>10, <2>1
<1>11. CASE "L2" \in below
  <2>1. start.cache = l2 /\ fetched = Forward(start, first.requests)
    BY <1>3, <1>6, <1>11
  <2>2. /\ Sound2(fetched.cache) /\ fetched.cache.config = l2.config
        /\ \A b : Kept(start, b) => Kept(fetched, b)
        /\ ~l2.config.prefetch =>
             /\ \A b \in L1!PassedOn(first.requests) : Kept(fetched, b)
             /\ Len(first.requests) > 0 =>
                  L2!Present(fetched.cache, first.requests[Len(first.requests)].addr)
    BY <1>2, <1>9, <2>1, ForwardKeeps
  <2>3. /\ Sound2(second.cache) /\ second.cache.config = l2.config
        /\ \A b : Kept(fetched, b) => Kept(second, b)
    <3>1. CASE L1!Hits(l1, a)
      BY <1>7, <2>2, <3>1
    <3>2. CASE ~L1!Hits(l1, a)
      <4>1. q \in Asks
        BY <1>1, <1>3 DEF Asks
      <4> QED BY <1>7, <1>11, <2>2, <3>2, <4>1, L2Access
    <3> QED BY <3>1, <3>2
  <2>4. ASSUME ~l2.config.prefetch, NEW b, P1!Due(l1, b) \/ P2!Due(l2, b)
        PROVE  P1!Due(l1', b) \/ P2!Due(l2', b) \/ b \in memoryWrites'
    <3>1. P1!Due(l1', b) \/ Kept(second, b)
      <4>1. CASE P1!Due(l1, b)
        BY <1>8, <1>9, <2>2, <2>3, <2>4, <4>1
      <4>2. CASE P2!Due(l2, b)
        <5>1. Kept(start, b)
          BY <2>1, <4>2 DEF Kept
        <5> QED BY <2>2, <2>3, <5>1
      <4> QED BY <2>4, <4>1, <4>2
    <3> QED BY <1>8, <3>1 DEF Kept
  <2>5. ASSUME ~l1.config.prefetch, ~l2.config.prefetch PROVE l3' = l3
    <3>1. CASE L1!Hits(l1, a)
      BY <1>8, <1>11, <3>1
    <3>2. CASE ~L1!Hits(l1, a)
      <4>1. ~L1!Present(l1, a)
        BY <3>2 DEF L1!Hits
      <4>2. L2!Present(fetched.cache, a)
        BY <1>9, <2>2, <2>5, <4>1
      <4> QED BY <1>8, <1>11, <4>2 DEF L2!Hits
    <3> QED BY <3>1, <3>2
  <2> QED BY <1>4, <1>8, <1>9, <1>11, <2>3, <2>4, <2>5
<1> QED BY <1>10, <1>11

\* Every step of the hierarchy is an access or leaves it alone.
LEMMA LevelsKept == HierarchySpec => []LevelsOK
<1>1. HierarchyInit => LevelsOK
  <2> SUFFICES ASSUME HierarchyInit PROVE LevelsOK
    OBVIOUS
  <2>1. PICK s \in Setups : l1 = L1!NewCache(s.l1) /\ l2 = L2!NewCache(s.l2) /\ below = s.below
    BY DEF HierarchyInit
  <2>2. PICK k, m : k = s.l1 /\ m = s.l2
    OBVIOUS
  <2>3. k \in P1!Configs /\ m \in P2!Configs
    BY <2>2, HierarchyAssumption DEF L1!Configs, L1!Kinds, P1!Configs, P1!Kinds, P2!Configs, P2!Kinds
  <2>4. l1 = P1!NewCache(k)
    <3>1. L1!EmptyBlock = P1!EmptyBlock /\ L1!NewStream = P1!NewStream /\ L1!Sets = P1!Sets /\ L1!Way = P1!Way
      BY DEF L1!EmptyBlock, P1!EmptyBlock, L1!NewStream, P1!NewStream, L1!Sets, P1!Sets, L1!Way, P1!Way
    <3>2. L1!NewPolicy(k.replacement) = P1!NewPolicy(k.replacement)
      BY SamePolicies1
    <3> QED BY <2>1, <2>2, <3>1, <3>2 DEF L1!NewCache, P1!NewCache
  <2>5. l2 = P2!NewCache(m)
    <3>1. L2!EmptyBlock = P2!EmptyBlock /\ L2!NewStream = P2!NewStream /\ L2!Sets = P2!Sets /\ L2!Way = P2!Way
      BY DEF L2!EmptyBlock, P2!EmptyBlock, L2!NewStream, P2!NewStream, L2!Sets, P2!Sets, L2!Way, P2!Way
    <3>2. L2!NewPolicy(m.replacement) = P2!NewPolicy(m.replacement)
      BY SamePolicies2
    <3> QED BY <2>1, <2>2, <3>1, <3>2 DEF L2!NewCache, P2!NewCache
  <2>6. Sound1(l1) /\ l1.config = k
    BY <2>3, <2>4, Geometry, P1!NewCacheFits DEF Sound1
  <2>7. Sound2(l2) /\ l2.config = m
    BY <2>3, <2>5, Geometry, P2!NewCacheFits DEF Sound2
  <2>8. Table(predictor)
    BY TableKept DEF HierarchyInit
  <2> QED BY <2>1, <2>2, <2>6, <2>7, <2>8 DEF LevelsOK
<1>2. LevelsOK /\ [HierarchyNext]_hierarchyVars => LevelsOK'
  <2> SUFFICES ASSUME LevelsOK, [HierarchyNext]_hierarchyVars PROVE LevelsOK'
    OBVIOUS
  <2>1. CASE HierarchyNext
    <3>1. PICK a \in AccessedAddresses, isWrite \in BOOLEAN : hierarchyAccess(a, isWrite)
      BY <2>1 DEF HierarchyNext
    <3>2. /\ Sound1(l1') /\ Sound2(l2') /\ Table(predictor')
          /\ l1'.config = l1.config /\ l2'.config = l2.config /\ below' = below
      BY <3>1, AccessOfLevels
    <3> QED BY <3>2 DEF LevelsOK, Sound1, Sound2, Table, P1!CacheFits, P2!CacheFits, P1!Unique, P2!Unique
  <2>2. CASE UNCHANGED hierarchyVars
    BY <2>2 DEF hierarchyVars, LevelsOK, Sound1, Sound2, Table, P1!CacheFits, P2!CacheFits, P1!Unique, P2!Unique
  <2> QED BY <2>1, <2>2
<1> QED BY <1>1, <1>2, PTL DEF HierarchySpec

\* With an L2 and no prefetching on either level the L3 holds nothing.
L3StaysEmpty ==
  "L2" \in below /\ ~l1.config.prefetch /\ ~l2.config.prefetch
    => \A s \in DOMAIN l3.blocks : \A w \in DOMAIN l3.blocks[s] : ~l3.blocks[s][w].valid

\* Why the L3 is no superset of the other levels, for any geometry, any policies,
\* any addresses and any sequence of accesses: by the time the hierarchy looks a
\* block up in the L2, the L1's own fetch has brought it there, so the lookup
\* hits and no block ever reaches the L3.
THEOREM L3IsNeverUsed == HierarchySpec => []L3StaysEmpty
<1>1. HierarchyInit => L3StaysEmpty
  BY DEF HierarchyInit, L3StaysEmpty, L3!NewCache, L3!EmptyBlock
<1>2. LevelsOK /\ L3StaysEmpty /\ [HierarchyNext]_hierarchyVars => L3StaysEmpty'
  <2> SUFFICES ASSUME LevelsOK, L3StaysEmpty, [HierarchyNext]_hierarchyVars PROVE L3StaysEmpty'
    OBVIOUS
  <2>1. CASE HierarchyNext
    <3>1. PICK a \in AccessedAddresses, isWrite \in BOOLEAN : hierarchyAccess(a, isWrite)
      BY <2>1 DEF HierarchyNext
    <3>2. /\ l1'.config = l1.config /\ l2'.config = l2.config /\ below' = below
          /\ "L2" \in below /\ ~l1.config.prefetch /\ ~l2.config.prefetch => l3' = l3
      BY <3>1, AccessOfLevels
    <3> QED BY <3>2 DEF L3StaysEmpty
  <2>2. CASE UNCHANGED hierarchyVars
    BY <2>2 DEF hierarchyVars, L3StaysEmpty
  <2> QED BY <2>1, <2>2
<1> QED BY <1>1, <1>2, LevelsKept, PTL DEF HierarchySpec

\* For any geometry of the levels, any policies and write policies, any
\* addresses and any sequence of accesses, with or without prefetching in the
\* L1: a block that is dirty in the L1 or in the L2 is dirty in one of them or
\* written back to memory after the next access.  The L2, where there is one,
\* has no stream buffer: one that serves a write-back of the L1 drops it.
THEOREM DirtyBlocksAreKept ==
  ASSUME \A s \in Setups : "L2" \in s.below => ~s.l2.prefetch
  PROVE  HierarchySpec => DirtyUntilWritten
<1> DEFINE Step == \A b \in Dirty(l1, L1Sets) \cup Dirty(l2, L2Sets) :
                     b \in Dirty(l1', L1Sets) \cup Dirty(l2', L2Sets) \cup memoryWrites'
<1>1. LevelsOK /\ LevelsOK' /\ [HierarchyNext]_hierarchyVars => [Step]_hierarchyVars
  <2> SUFFICES ASSUME LevelsOK, LevelsOK', HierarchyNext PROVE Step
    OBVIOUS
  <2>1. PICK a \in AccessedAddresses, isWrite \in BOOLEAN : hierarchyAccess(a, isWrite)
    BY DEF HierarchyNext
  <2>2. Sound1(l1) /\ Sound2(l2) /\ ("L2" \in below => ~l2.config.prefetch)
    BY DEF LevelsOK
  <2>3. /\ Sound1(l1') /\ Sound2(l2')
        /\ \A b : P1!Due(l1, b) \/ P2!Due(l2, b) => P1!Due(l1', b) \/ P2!Due(l2', b) \/ b \in memoryWrites'
    BY <2>1, <2>2, AccessOfLevels
  <2> QED BY <2>2, <2>3, DirtyIsDue
<1> QED BY <1>1, LevelsKept, PTL DEF HierarchySpec, DirtyUntilWritten
=============================================================================
