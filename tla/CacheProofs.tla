----------------------------- MODULE CacheProofs -----------------------------
(***************************************************************************)
(* Proofs about a set of blocks under a replacement policy and about a     *)
(* cache, for any associativity, number of sets and block size.            *)
(***************************************************************************)
EXTENDS Cache, PolicySet, CacheOpsProofs

(* PolicySet *)

\* The order LRU keeps, and the stamps FIFO keeps of the valid blocks, agree with
\* what really came before what.
AgesAgree ==
  /\ kind = "LRU" =>
       \A i, j \in 1..Ways : <<policy[i], policy[j]>> \in before => j < i
  /\ kind = "FIFO" =>
       /\ \A v, w \in valid : <<v, w>> \in before => policy.stamp[v] < policy.stamp[w]
       /\ \A w \in valid : policy.stamp[w] < policy.counter

SetInv == /\ kind \in Kinds
          /\ PolicyFits(kind, policy)
          /\ valid \subseteq Way
          /\ before \subseteq Way \X Way
          /\ AgesAgree

\* Nothing has been used at first.
LEMMA SetInitially == PolicyInit => SetInv
<1> SUFFICES ASSUME PolicyInit PROVE SetInv
  OBVIOUS
<1>1. kind \in Kinds /\ valid = {} /\ before = {}
  BY PolicySetAssumption DEF PolicyInit
<1>2. PolicyFits(kind, policy)
  BY <1>1, PolicyKept DEF PolicyInit
<1> QED BY <1>1, <1>2 DEF SetInv, AgesAgree

\* Touching the way used last keeps the order in agreement with the ages.
LEMMA TouchAgrees ==
  ASSUME SetInv, kind = "LRU", NEW w \in Way, policy' = LRUTouch(policy, w), before' = Latest(w)
  PROVE  \A i, j \in 1..Ways : <<policy'[i], policy'[j]>> \in before' => j < i
<1> SUFFICES ASSUME NEW i \in 1..Ways, NEW j \in 1..Ways,
                    <<policy'[i], policy'[j]>> \in before', i <= j
             PROVE  FALSE
  OBVIOUS
<1>1. Ordered(policy)
  BY DEF SetInv, PolicyFits
<1>2. /\ Ordered(policy') /\ policy'[1] = w
      /\ policy'[i] # w /\ policy'[j] # w /\ i <= j =>
           \E k, m \in 1..Ways : policy[k] = policy'[i] /\ policy[m] = policy'[j] /\ k <= m
  BY <1>1, TouchOrdered
<1>3. policy'[i] # w
  BY DEF Latest
<1>4. CASE policy'[j] = w
  <2>1. j = 1 /\ i = 1
    BY <1>2, <1>4, WaysAssumption DEF Ordered
  <2> QED BY <1>2, <1>3, <2>1
<1>5. CASE policy'[j] # w
  <2>1. <<policy'[i], policy'[j]>> \in before
    BY <1>5 DEF Latest
  <2> QED BY <1>2, <1>3, <1>5, <2>1 DEF SetInv, AgesAgree
<1> QED BY <1>4, <1>5

\* Filling a way gives it the youngest stamp.
LEMMA FillKeeps ==
  ASSUME SetInv, NEW w \in Way, NEW s, PolicyFits(kind, s), kind # "NRU" => s = policy, Fill(w, s)
  PROVE  SetInv'
<1>1. /\ policy' = onInstall(kind, s, w) /\ valid' = valid \cup {w}
      /\ before' = Latest(w) /\ kind' = kind
  BY DEF Fill
<1>2. PolicyFits(kind', policy')
  BY <1>1, PolicyKept DEF SetInv
<1>3. before' \subseteq Way \X Way
  BY <1>1 DEF Latest, SetInv
<1>4. CASE kind = "LRU"
  <2>1. policy' = LRUTouch(policy, w)
    BY <1>1, <1>4 DEF onInstall
  <2>2. \A i, j \in 1..Ways : <<policy'[i], policy'[j]>> \in before' => j < i
    BY <1>1, <1>4, <2>1, TouchAgrees
  <2> QED BY <1>1, <1>2, <1>3, <1>4, <2>2 DEF SetInv, AgesAgree
<1>5. CASE kind = "FIFO"
  <2>1. policy' = [stamp |-> [policy.stamp EXCEPT ![w] = policy.counter],
                   counter |-> policy.counter + 1]
    BY <1>1, <1>5 DEF onInstall, FIFOInstall
  <2>2. policy.stamp \in [Way -> Nat] /\ policy.counter \in Nat
    BY <1>5 DEF SetInv, PolicyFits
  <2>3. \A v \in valid' : policy'.stamp[v] < policy'.counter
    BY <1>1, <1>5, <2>1, <2>2 DEF SetInv, AgesAgree
  <2>4. ASSUME NEW v \in valid', NEW u \in valid', <<v, u>> \in before'
        PROVE  policy'.stamp[v] < policy'.stamp[u]
    <3>1. v # w /\ v \in valid
      BY <1>1, <2>4 DEF Latest
    <3>2. CASE u = w
      BY <1>5, <2>1, <2>2, <3>1, <3>2 DEF SetInv, AgesAgree
    <3>3. CASE u # w
      <4>1. u \in valid /\ <<v, u>> \in before
        BY <1>1, <2>4, <3>3 DEF Latest
      <4>2. policy.stamp[v] < policy.stamp[u]
        BY <1>5, <3>1, <4>1 DEF SetInv, AgesAgree
      <4>3. v \in Way /\ u \in Way
        BY <3>1, <4>1 DEF SetInv
      <4> QED BY <2>1, <2>2, <3>1, <3>3, <4>2, <4>3
    <3> QED BY <3>2, <3>3
  <2> QED BY <1>1, <1>2, <1>3, <1>5, <2>3, <2>4 DEF SetInv, AgesAgree
<1>6. CASE kind \notin {"LRU", "FIFO"}
  BY <1>1, <1>2, <1>3, <1>6 DEF SetInv, AgesAgree
<1> QED BY <1>4, <1>5, <1>6

\* Every operation of the cache on a set keeps the invariant.
LEMMA SetStep == SetInv /\ [PolicyNext]_policySetVars => SetInv'
<1> SUFFICES ASSUME SetInv, [PolicyNext]_policySetVars PROVE SetInv'
  OBVIOUS
<1>1. ASSUME NEW w \in Way, Hit(w)
      PROVE  SetInv'
  <2>1. /\ policy' = onAccess(kind, policy, w) /\ kind' = kind /\ valid' = valid
        /\ before' = IF kind = "FIFO" THEN before ELSE Latest(w)
    BY <1>1 DEF Hit
  <2>2. PolicyFits(kind', policy')
    BY <2>1, PolicyKept DEF SetInv
  <2>3. before' \subseteq Way \X Way
    BY <2>1 DEF Latest, SetInv
  <2>4. CASE kind = "LRU"
    <3>1. policy' = LRUTouch(policy, w) /\ before' = Latest(w)
      BY <2>1, <2>4 DEF onAccess
    <3>2. \A i, j \in 1..Ways : <<policy'[i], policy'[j]>> \in before' => j < i
      BY <2>4, <3>1, TouchAgrees
    <3> QED BY <2>1, <2>2, <2>3, <2>4, <3>2 DEF SetInv, AgesAgree
  <2>5. CASE kind = "FIFO"
    <3>1. policy' = policy /\ before' = before
      BY <2>1, <2>5 DEF onAccess
    <3> QED BY <2>1, <2>2, <2>3, <3>1 DEF SetInv, AgesAgree
  <2>6. CASE kind \notin {"LRU", "FIFO"}
    BY <2>1, <2>2, <2>3, <2>6 DEF SetInv, AgesAgree
  <2> QED BY <2>4, <2>5, <2>6
<1>2. ASSUME NEW w \in Way, Invalidate(w)
      PROVE  SetInv'
  BY <1>2 DEF Invalidate, SetInv, AgesAgree
<1>3. CASE FillInvalid
  <2>1. Min(Way \ valid) \in Way
    BY <1>3, MinOfWays DEF FillInvalid, SetInv
  <2> QED BY <1>3, <2>1, FillKeeps DEF FillInvalid, SetInv
<1>4. ASSUME NEW pick \in Way, Replace(pick)
      PROVE  SetInv'
  <2> DEFINE w == selectVictim(kind, policy, Way, pick)
             s == afterVictim(kind, policy, Way)
  <2>1. Way # {}
    BY WaysAssumption DEF Way
  <2>2. w \in Way
    BY <2>1, VictimAmongValid DEF SetInv
  <2>3. PolicyFits(kind, s)
    BY PolicyKept DEF SetInv
  <2>4. kind # "NRU" => s = policy
    BY DEF afterVictim
  <2>5. Fill(w, s)
    BY <1>4 DEF Replace
  <2> HIDE DEF w, s
  <2> QED BY <2>2, <2>3, <2>4, <2>5, FillKeeps
<1>5. CASE Stop \/ UNCHANGED policySetVars
  <2>1. UNCHANGED <<kind, policy, valid, before>>
    BY <1>5 DEF Stop, policySetVars
  <2> QED BY <2>1 DEF SetInv, AgesAgree
<1> QED BY <1>1, <1>2, <1>3, <1>4, <1>5 DEF PolicyNext

\* For any associativity and any history of hits, fills and invalidations, each
\* of the five policies names a victim among the valid blocks.
THEOREM PoliciesNameValidBlocks == PolicySpec => []VictimIsValid
<1>1. ASSUME SetInv PROVE VictimIsValid
  <2> SUFFICES ASSUME NEW V \in (SUBSET Way) \ {{}}, NEW v \in Victims(V)
               PROVE  v \in V
    BY DEF VictimIsValid
  <2>1. PICK pick \in Way : v = selectVictim(kind, policy, V, pick)
    BY DEF Victims
  <2>2. V \in SUBSET Way /\ V # {}
    OBVIOUS
  <2> QED BY <1>1, <2>1, <2>2, VictimAmongValid DEF SetInv
<1> QED BY <1>1, SetInitially, SetStep, PTL DEF PolicySpec

\* For any associativity LRU evicts the valid block used, and FIFO the one
\* filled, before all other valid ones.
THEOREM LRUAndFIFOEvictOldest == PolicySpec => []EvictsOldest
<1>1. ASSUME SetInv PROVE EvictsOldest
  <2> SUFFICES ASSUME kind \in {"LRU", "FIFO"}, NEW V \in (SUBSET valid) \ {{}},
                      NEW v \in Victims(V), NEW w \in V, <<w, v>> \in before
               PROVE  FALSE
    BY DEF EvictsOldest
  <2>0. V \in SUBSET Way /\ V # {}
    BY <1>1 DEF SetInv
  <2>1. CASE kind = "LRU"
    <3>1. v = LRUVictim(policy, V) /\ Ordered(policy)
      BY <1>1, <2>1 DEF Victims, selectVictim, SetInv, PolicyFits
    <3>2. PICK i \in 1..Ways : /\ v = policy[i] /\ policy[i] \in V
                               /\ \A j \in 1..Ways : j > i => policy[j] \notin V
      BY <2>0, <3>1, LastOfOrder
    <3>3. PICK j \in 1..Ways : policy[j] = w
      BY <2>0, <3>1 DEF Ordered
    <3>4. i < j
      BY <1>1, <2>1, <3>2, <3>3 DEF SetInv, AgesAgree
    <3> QED BY <3>2, <3>3, <3>4
  <2>2. CASE kind = "FIFO"
    <3>1. v = FIFOVictim(policy, V) /\ policy.stamp \in [Way -> Nat]
      BY <1>1, <2>2 DEF Victims, selectVictim, SetInv, PolicyFits
    <3>2. v \in V /\ policy.stamp[v] <= policy.stamp[w]
      BY <2>0, <3>1, OldestStamp
    <3>3. policy.stamp[w] < policy.stamp[v]
      BY <1>1, <2>2, <3>2 DEF SetInv, AgesAgree
    <3> QED BY <2>0, <3>1, <3>2, <3>3
  <2> QED BY <2>1, <2>2
<1> QED BY <1>1, SetInitially, SetStep, PTL DEF PolicySpec

-----------------------------------------------------------------------------
(* Cache *)

\* A write to block b is kept: the block is there and dirty.
Owed(c, b) ==
  \E s \in Sets, w \in Way :
    c.blocks[s][w].valid /\ c.blocks[s][w].dirty /\ c.blocks[s][w].tag * NumSets + s = b

CacheInv == /\ CacheFits(cache) /\ Unique(cache)
            /\ cache.config \in UsedConfigs
            /\ ~cache.config.prefetch => \A b \in unsaved : Owed(cache, b)

LEMMA CacheInitially == Init => CacheInv
<1> SUFFICES ASSUME Init PROVE CacheInv
  OBVIOUS
<1>1. PICK config \in UsedConfigs : cache = NewCache(config)
  BY DEF Init
<1>2. config \in Configs /\ config.replacement \in Kinds
  BY CacheUseAssumption DEF Configs
<1>3. EmptyBlock \in Block
  BY DEF EmptyBlock, Block
<1>4. PolicyFits(config.replacement, NewPolicy(config.replacement))
  BY <1>2, PolicyKept
<1>5. /\ DOMAIN cache = {"config", "blocks", "policy", "stream"}
      /\ cache.config = config
      /\ cache.blocks = [s \in Sets |-> [w \in Way |-> EmptyBlock]]
      /\ cache.policy = [s \in Sets |-> NewPolicy(config.replacement)]
  BY <1>1 DEF NewCache
<1>6. CacheFits(cache)
  BY <1>2, <1>3, <1>4, <1>5 DEF CacheFits
<1>7. Unique(cache)
  BY <1>5 DEF Unique, EmptyBlock
<1> QED BY <1>5, <1>6, <1>7 DEF CacheInv, Init

\* Without a stream buffer an access keeps every write it does not pass on.
LEMMA AccessKeepsWrites ==
  ASSUME CacheInv, ~cache.config.prefetch, NEW a \in Nat, NEW isWrite \in BOOLEAN,
         NEW stride, NEW picks, access(a, isWrite, stride, picks), NEW b \in unsaved'
  PROVE  Owed(cache', b)
<1> DEFINE r == Access(cache, a, isWrite, stride, picks)
           s == SetIndex(a)
<1>1. CacheFits(cache) /\ Unique(cache) /\ \A d \in unsaved : Owed(cache, d)
  BY DEF CacheInv
<1>2. /\ cache' = r.cache /\ b \notin PassedOn(r.requests)
      /\ b \in unsaved \/ (isWrite /\ b = BlockNumber(a))
  BY DEF access
<1>3. /\ s \in Sets /\ Tag(a) \in Nat /\ BlockNumber(a) \in Nat
      /\ Tag(a) * NumSets + s = BlockNumber(a)
  BY AddressParts
<1>4. CASE Present(cache, a)
  <2> DEFINE w == Min(Holding(cache, a))
             new == cache'.blocks
  <2>1. r = OnHit(cache, a, isWrite)
    BY <1>4 DEF Access
  <2>2. /\ w \in Way
        /\ new[s][w] = IF isWrite THEN WrittenBlock(cache.blocks[s][w], cache.config.write)
                       ELSE cache.blocks[s][w]
        /\ new[s][w].valid /\ new[s][w].tag = Tag(a)
        /\ \A t \in Sets, v \in Way : t # s \/ v # w => new[t][v] = cache.blocks[t][v]
    BY <1>1, <1>2, <1>4, <2>1, HitEffect
  <2>3. r.requests = IF isWrite /\ cache.config.write = "WriteThrough"
                     THEN <<WriteRequest(a)>> ELSE <<>>
    BY <2>1 DEF OnHit
  <2>4. cache.blocks[s][w] \in Block /\ cache.blocks[s][w].tag = Tag(a)
    BY <1>1, <1>3, <1>4, <2>2, HeldBlock DEF CacheFits
  <2> HIDE DEF r, w, new, s
  <2>5. CASE isWrite /\ cache.config.write = "WriteThrough"
    <3>1. b # BlockNumber(a) /\ b \in unsaved
      BY <1>2, <2>3, <2>5, PassedOnParts
    <3>2. PICK t \in Sets, v \in Way :
            /\ cache.blocks[t][v].valid /\ cache.blocks[t][v].dirty
            /\ cache.blocks[t][v].tag * NumSets + t = b
      BY <1>1, <3>1 DEF Owed
    <3>3. t # s \/ v # w
      BY <1>3, <2>4, <3>1, <3>2
    <3>4. new[t][v] = cache.blocks[t][v]
      BY <2>2, <3>3
    <3> QED BY <3>2, <3>4 DEF Owed, new
  <2>6. CASE isWrite /\ cache.config.write # "WriteThrough"
    <3>1. new[s][w].dirty
      BY <2>2, <2>4, <2>6 DEF WrittenBlock, Block
    <3>2. CASE b = BlockNumber(a)
      BY <1>3, <2>2, <3>1, <3>2 DEF Owed, new
    <3>3. CASE b # BlockNumber(a)
      <4>1. PICK t \in Sets, v \in Way :
              /\ cache.blocks[t][v].valid /\ cache.blocks[t][v].dirty
              /\ cache.blocks[t][v].tag * NumSets + t = b
        BY <1>1, <1>2, <3>3 DEF Owed
      <4>2. t # s \/ v # w
        BY <1>3, <2>4, <3>3, <4>1
      <4>3. new[t][v] = cache.blocks[t][v]
        BY <2>2, <4>2
      <4> QED BY <4>1, <4>3 DEF Owed, new
    <3> QED BY <3>2, <3>3
  <2>7. CASE ~isWrite
    <3>1. \A t \in Sets, v \in Way : new[t][v] = cache.blocks[t][v]
      BY <2>2, <2>7
    <3> QED BY <1>1, <1>2, <2>7, <3>1 DEF Owed, new
  <2> QED BY <2>5, <2>6, <2>7
<1>5. CASE ~Present(cache, a)
  <2> DEFINE w == findVictim(cache, s, picks[1])
             new == cache'.blocks
             victim == cache.blocks[s][w]
  <2>1. r = Replacement(cache, a, isWrite, picks[1])
    BY <1>5 DEF Access, StreamServes
  <2>2. /\ w \in Way /\ new[s][w] = InstalledBlock(a, isWrite)
        /\ \A t \in Sets, v \in Way : t # s \/ v # w => new[t][v] = cache.blocks[t][v]
    BY <1>1, <1>2, <2>1, ReplacementEffect
  <2>3. r.requests = (IF victim.valid /\ requiresWriteback(victim)
                      THEN <<WriteRequest(VictimAddress(s, victim.tag))>> ELSE <<>>)
                     \o <<ReadRequest(a)>>
    <3> DEFINE q == (IF victim.valid /\ requiresWriteback(victim)
                     THEN <<WriteRequest(VictimAddress(s, victim.tag))>> ELSE <<>>)
                    \o <<ReadRequest(a)>>
    <3>1. PICK x : Replacement(cache, a, isWrite, picks[1]) = [cache |-> x, requests |-> q]
      BY DEF Replacement
    <3> HIDE DEF q, r
    <3>2. r.requests = q
      BY <2>1, <3>1
    <3> QED BY <3>2 DEF q
  <2>4. victim \in Block /\ victim.tag \in Nat
    BY <1>1, <1>3, <2>2 DEF CacheFits, Block
  <2> HIDE DEF r, w, new, s, victim
  <2>5. CASE isWrite /\ b = BlockNumber(a)
    <3>1. new[s][w].valid /\ new[s][w].dirty /\ new[s][w].tag = Tag(a)
      BY <2>2, <2>5 DEF InstalledBlock
    <3> QED BY <1>3, <2>2, <2>5, <3>1 DEF Owed, new
  <2>6. CASE b \in unsaved
    <3>1. PICK t \in Sets, v \in Way :
            /\ cache.blocks[t][v].valid /\ cache.blocks[t][v].dirty
            /\ cache.blocks[t][v].tag * NumSets + t = b
      BY <1>1, <2>6 DEF Owed
    <3>2. t # s \/ v # w
      <4> SUFFICES ASSUME t = s, v = w PROVE FALSE
        OBVIOUS
      <4>1. victim.valid /\ requiresWriteback(victim) /\ b = victim.tag * NumSets + s
        BY <3>1 DEF victim, requiresWriteback
      <4>2. PassedOn(r.requests) = {BlockNumber(VictimAddress(s, victim.tag))}
        BY <2>3, <4>1, PassedOnParts
      <4>3. BlockNumber(VictimAddress(s, victim.tag)) = victim.tag * NumSets + s
        BY <1>3, <2>4, VictimAddressParts
      <4> QED BY <1>2, <4>1, <4>2, <4>3
    <3>3. new[t][v] = cache.blocks[t][v]
      BY <2>2, <3>2
    <3> QED BY <3>1, <3>3 DEF Owed, new
  <2> QED BY <1>2, <2>5, <2>6
<1> QED BY <1>4, <1>5

\* A coherence request leaves every block as it is or puts it into the state asked for.
LEMMA StateBlocks ==
  ASSUME NEW c, CacheFits(c), Unique(c), NEW a \in Nat,
         NEW state \in {"Invalid", "Shared", "Modified"}, NEW r, r = WithState(c, a, state)
  PROVE  /\ r.config = c.config
         /\ \A t \in Sets, v \in Way :
              \/ r.blocks[t][v] = c.blocks[t][v]
              \/ /\ t = SetIndex(a) /\ c.blocks[t][v].valid /\ c.blocks[t][v].tag = Tag(a)
                 /\ r.blocks[t][v] = InState(c.blocks[t][v], state)
BY StateEffect

\* Every call keeps the invariant.
LEMMA CacheStep == CacheInv /\ [Next]_vars => CacheInv'
<1> SUFFICES ASSUME CacheInv, [Next]_vars PROVE CacheInv'
  OBVIOUS
<1>1. Addresses \subseteq Nat
  BY CacheUseAssumption, CacheAssumption
<1>2. CacheFits(cache) /\ Unique(cache)
  BY DEF CacheInv
<1>3. ASSUME NEW a \in Addresses, NEW isWrite \in BOOLEAN, NEW stride \in Predicted,
             NEW picks \in Picks, access(a, isWrite, stride, picks)
      PROVE  CacheInv'
  <2>1. a \in Nat /\ stride \in Int
    BY <1>1, CacheUseAssumption DEF Predicted
  <2>2. cache' = Access(cache, a, isWrite, stride, picks).cache
    BY <1>3 DEF access
  <2>3. CacheFits(cache') /\ cache'.config = cache.config /\ Unique(cache')
    BY <1>2, <2>1, <2>2, AccessKeeps
  <2>4. ~cache.config.prefetch => \A b \in unsaved' : Owed(cache', b)
    BY <1>3, <2>1, AccessKeepsWrites
  <2> QED BY <2>3, <2>4 DEF CacheInv, CacheFits, Unique, Owed
<1>4. ASSUME NEW a \in Addresses, NEW state \in {"Invalid", "Shared", "Modified"},
             cache' = WithState(cache, a, state),
             unsaved' = IF state = "Invalid" THEN unsaved \ {BlockNumber(a)} ELSE unsaved
      PROVE  CacheInv'
  <2>1. /\ CacheFits(cache') /\ cache'.config = cache.config /\ Unique(cache')
        /\ \A t \in Sets, v \in Way :
             \/ cache'.blocks[t][v] = cache.blocks[t][v]
             \/ /\ t = SetIndex(a) /\ cache.blocks[t][v].valid /\ cache.blocks[t][v].tag = Tag(a)
                /\ cache'.blocks[t][v] = InState(cache.blocks[t][v], state)
    <3>1. a \in Nat
      BY <1>1
    <3>2. CacheFits(cache') /\ Unique(cache')
      <4>1. CacheFits(WithState(cache, a, state)) /\ Unique(WithState(cache, a, state))
        BY <1>2, <3>1, StateEffect, Zenon
      <4> QED BY <1>4, <4>1, Zenon
    <3> QED BY <1>2, <1>4, <3>1, <3>2, StateBlocks
  <2>2. ASSUME ~cache.config.prefetch, NEW b \in unsaved'
        PROVE  Owed(cache', b)
    <3>1. PICK t \in Sets, v \in Way :
            /\ cache.blocks[t][v].valid /\ cache.blocks[t][v].dirty
            /\ cache.blocks[t][v].tag * NumSets + t = b
      BY <1>4, <2>2 DEF CacheInv, Owed
    <3>2. CASE cache'.blocks[t][v] = cache.blocks[t][v]
      BY <3>1, <3>2 DEF Owed
    <3>3. CASE cache'.blocks[t][v] # cache.blocks[t][v]
      <4>1. /\ t = SetIndex(a) /\ cache.blocks[t][v].tag = Tag(a)
            /\ cache'.blocks[t][v] = InState(cache.blocks[t][v], state)
        BY <2>1, <3>3
      <4>2. b = BlockNumber(a)
        BY <1>1, <3>1, <4>1, AddressParts
      <4>3. state # "Invalid"
        BY <1>4, <2>2, <4>2
      <4>4. cache.blocks[t][v] \in Block
        BY <1>2 DEF CacheFits
      <4>5. /\ cache'.blocks[t][v].valid /\ cache'.blocks[t][v].dirty
            /\ cache'.blocks[t][v].tag = cache.blocks[t][v].tag
        <5> DEFINE old == cache.blocks[t][v]
        <5>1. old \in Block /\ old.dirty
          BY <3>1, <4>4
        <5> HIDE DEF old
        <5>2. InState(old, state).valid /\ InState(old, state).dirty /\ InState(old, state).tag = old.tag
          BY <4>3, <5>1 DEF InState, Block
        <5> QED BY <4>1, <5>2 DEF old
      <4> QED BY <3>1, <4>5 DEF Owed
    <3> QED BY <3>2, <3>3
  <2> QED BY <2>1, <2>2 DEF CacheInv, CacheFits, Unique, Owed
<1>5. ASSUME NEW a \in Addresses, invalidateBlock(a)
      PROVE  CacheInv'
  BY <1>4, <1>5 DEF invalidateBlock
<1>6. ASSUME NEW a \in Addresses, NEW state \in {"Shared", "Modified"}, updateMESIState(a, state)
      PROVE  CacheInv'
  BY <1>4, <1>6 DEF updateMESIState
<1>7. CASE UNCHANGED vars
  <2>1. cache' = cache /\ unsaved' = unsaved
    BY <1>7 DEF vars
  <2> QED BY <2>1 DEF CacheInv, CacheFits, Unique, Owed
<1> QED BY <1>3, <1>5, <1>6, <1>7 DEF Next

\* For every geometry, policy, write policy and predictor, and whatever the order
\* of accesses, prefetches and coherence operations, a block is in at most one
\* way of its set.
THEOREM BlocksAreUnique == Spec => []UniqueTags
<1>1. CacheInv => UniqueTags
  BY DEF CacheInv, Unique, UniqueTags, BlocksOf
<1> QED BY <1>1, CacheInitially, CacheStep, PTL DEF Spec

\* In a cache without a stream buffer every accepted write stays due a write-back
\* until it has been passed on.
THEOREM WritesAreKept == Spec => []NoLostWrite
<1>1. CacheInv => NoLostWrite
  BY DEF CacheInv, Owed, NoLostWrite, BlocksOf, requiresWriteback
<1> QED BY <1>1, CacheInitially, CacheStep, PTL DEF Spec

-----------------------------------------------------------------------------
(* The prefetch that follows a demand fetch *)

\* A replacement writes to one address at most and reads the one it fetches.
LEMMA ReplacementRequests ==
  ASSUME NEW c, NEW a, NEW isWrite, NEW pick
  PROVE  \E x : Replacement(c, a, isWrite, pick).requests \in Seq({WriteRequest(x), ReadRequest(a)})
<1> DEFINE victim == c.blocks[SetIndex(a)][findVictim(c, SetIndex(a), pick)]
           x == VictimAddress(SetIndex(a), victim.tag)
           q == (IF victim.valid /\ requiresWriteback(victim) THEN <<WriteRequest(x)>> ELSE <<>>)
                \o <<ReadRequest(a)>>
<1>1. PICK y : Replacement(c, a, isWrite, pick) = [cache |-> y, requests |-> q]
  BY DEF Replacement
<1>2. q \in Seq({WriteRequest(x), ReadRequest(a)})
  <2> DEFINE S == {WriteRequest(x), ReadRequest(a)}
             h == IF victim.valid /\ requiresWriteback(victim) THEN <<WriteRequest(x)>> ELSE <<>>
  <2>1. h \in Seq(S) /\ <<ReadRequest(a)>> \in Seq(S)
    <3>1. WriteRequest(x) \in S /\ ReadRequest(a) \in S
      OBVIOUS
    <3>2. h = <<WriteRequest(x)>> \/ h = <<>>
      OBVIOUS
    <3> HIDE DEF h, S
    <3>3. <<>> \in Seq(S) /\ \A z \in S : <<z>> \in Seq(S)
      OBVIOUS
    <3> QED BY <3>1, <3>2, <3>3, Zenon
  <2> HIDE DEF h, S
  <2>2. h \o <<ReadRequest(a)>> \in Seq(S)
    BY <2>1
  <2> QED BY <2>2 DEF h, S
<1> HIDE DEF q, x
<1>3. Replacement(c, a, isWrite, pick).requests = q
  BY <1>1
<1> QED BY <1>2, <1>3

\* A replacement changes no block but the victim.
LEMMA OtherBlocksStay ==
  ASSUME NEW c, CacheFits(c), NEW a \in Nat, NEW isWrite \in BOOLEAN, NEW pick
  PROVE  LET r == Replacement(c, a, isWrite, pick).cache
             s == SetIndex(a)
             w == findVictim(c, s, pick)
         IN  /\ s \in Sets /\ w \in Way
             /\ \A t \in Sets, v \in Way : t # s \/ v # w => r.blocks[t][v] = c.blocks[t][v]
BY ReplacementEffect

\* LRU does not evict the block installed last from a set of two or more.
LEMMA DemandSurvives ==
  ASSUME NEW c, CacheFits(c), c.config.replacement = "LRU", Ways > 1,
         NEW a \in Nat, NEW isWrite \in BOOLEAN, NEW pick, NEW r,
         r = Replacement(c, a, isWrite, pick).cache,
         NEW b \in Nat, NEW write2 \in BOOLEAN, NEW pick2
  PROVE  Present(Replacement(r, b, write2, pick2).cache, a)
<1> DEFINE s == SetIndex(a)
           w == findVictim(c, s, pick)
           t == SetIndex(b)
           v == findVictim(r, t, pick2)
           end == Replacement(r, b, write2, pick2).cache
           order == r.policy[s]
<1>1. /\ CacheFits(r) /\ r.config = c.config /\ s \in Sets /\ w \in Way
      /\ r.blocks[s][w] = InstalledBlock(a, isWrite)
      /\ order = onInstall(c.config.replacement, policyAfterVictim(c, s), w)
  BY ReplacementEffect
<1>2. /\ t \in Sets /\ v \in Way
      /\ \A x \in Sets, y \in Way : x # t \/ y # v => end.blocks[x][y] = r.blocks[x][y]
  <2>1. CacheFits(r)
    BY <1>1
  <2> HIDE DEF s, w, order
  <2> QED BY <2>1, OtherBlocksStay
<1>3. r.blocks[s][w].valid /\ r.blocks[s][w].tag = Tag(a)
  BY <1>1 DEF InstalledBlock
<1>4. Ordered(order) /\ order[1] = w
  <2>1. PolicyFits("LRU", policyAfterVictim(c, s))
    BY <1>1, VictimIsAWay
  <2>2. order = LRUTouch(policyAfterVictim(c, s), w)
    BY <1>1 DEF onInstall
  <2>3. Ordered(policyAfterVictim(c, s))
    BY <2>1 DEF PolicyFits
  <2> HIDE DEF order, w, s
  <2> QED BY <1>1, <2>2, <2>3, TouchOrdered
<1>5. s # t \/ w # v
  <2> SUFFICES ASSUME s = t, w = v PROVE FALSE
    OBVIOUS
  <2>1. CASE invalidWays(r, t) # {}
    <3>1. v \in invalidWays(r, t)
      BY <2>1, MinOfWays DEF findVictim, invalidWays
    <3> QED BY <1>3, <3>1 DEF invalidWays
  <2>2. CASE invalidWays(r, t) = {}
    <3>1. v = LRUVictim(order, Way)
      BY <1>1, <2>2 DEF findVictim, selectVictim
    <3>2. Way \in SUBSET Way /\ Way # {}
      BY <1>2
    <3> HIDE DEF v, w, order, s, t
    <3>3. PICK i \in 1..Ways : v = order[i] /\ \A j \in 1..Ways : j > i => order[j] \notin Way
      BY <1>4, <3>1, <3>2, LastOfOrder
    <3>4. Ways \in 1..Ways /\ 1 \in 1..Ways
      BY WaysAssumption
    <3>5. order[Ways] \in Way
      BY <1>4, <3>4 DEF Ordered
    <3>6. i = Ways
      BY <3>3, <3>4, <3>5, WaysAssumption
    <3> QED BY <1>4, <3>3, <3>4, <3>6 DEF Ordered
  <2> QED BY <2>1, <2>2
<1> HIDE DEF s, w, t, v, end, order
<1>6. end.blocks[s][w] = r.blocks[s][w]
  BY <1>1, <1>2, <1>5
<1>7. w \in Holding(end, a)
  BY <1>1, <1>3, <1>6 DEF Holding, s
<1> QED BY <1>7 DEF Present, end

\* What an access fetches is there when it returns.
LEMMA FetchedIsThere ==
  ASSUME Ways > 1, NEW c, CacheFits(c), Unique(c),
         c.config.prefetch => c.config.replacement = "LRU",
         NEW a \in Nat, NEW isWrite \in BOOLEAN, NEW stride \in Int, NEW picks,
         NEW b \in Nat, NEW i,
         i \in DOMAIN Access(c, a, isWrite, stride, picks).requests,
         Access(c, a, isWrite, stride, picks).requests[i] = ReadRequest(b)
  PROVE  Present(Access(c, a, isWrite, stride, picks).cache, b)
<1> DEFINE e == Access(c, a, isWrite, stride, picks)
<1>0. \A x, y : /\ WriteRequest(x) # ReadRequest(y)
                /\ ReadRequest(x) = ReadRequest(y) => x = y
  BY DEF WriteRequest, ReadRequest
<1>1. CASE Present(c, a)
  <2>1. e = OnHit(c, a, isWrite)
    BY <1>1 DEF Access
  <2>2. e.requests = <<WriteRequest(a)>> \/ e.requests = <<>>
    BY <2>1 DEF OnHit
  <2> HIDE DEF e
  <2>3. e.requests[i] = ReadRequest(b) /\ i \in DOMAIN e.requests
    BY DEF e
  <2> QED BY <1>0, <2>2, <2>3
<1>2. CASE ~Present(c, a) /\ StreamServes(c, a)
  <2>1. e = OnStreamHit(c, a, isWrite)
    BY <1>2 DEF Access
  <2>2. e.requests = <<>>
    BY <2>1 DEF OnStreamHit
  <2> QED BY <2>2
<1>3. CASE ~Present(c, a) /\ ~StreamServes(c, a)
  <2> DEFINE r == Replacement(c, a, isWrite, picks[1])
             p == Prefetched(r, a, isWrite, stride, picks[2])
             pa == (a + stride) % AddressSpace
             f == Replacement(r.cache, pa, FALSE, picks[2])
             d == IF PrefetchNeeded(r.cache, pa) THEN f
                  ELSE [cache |-> r.cache, requests |-> <<>>]
  <2>1. e = IF c.config.prefetch THEN p ELSE r
    BY <1>3 DEF Access
  <2>2. CacheFits(r.cache) /\ Unique(r.cache) /\ Present(r.cache, a)
    BY <1>3, ReplacementKeeps
  <2>3. p = IF isWrite \/ stride = 0 THEN r
            ELSE [cache |-> [d.cache EXCEPT !.stream = StreamPrefetch(@, pa)],
                  requests |-> r.requests \o d.requests]
    BY DEF Prefetched
  <2>4. PICK x : r.requests \in Seq({WriteRequest(x), ReadRequest(a)})
    BY ReplacementRequests
  <2>5. PICK y : f.requests \in Seq({WriteRequest(y), ReadRequest(pa)})
    BY ReplacementRequests
  <2>6. pa \in Nat
    BY CacheAssumption
  <2>7. i \in DOMAIN e.requests /\ e.requests[i] = ReadRequest(b)
    OBVIOUS
  <2> HIDE DEF e, p, pa
  <2>8. CASE e = r
    <3>1. ReadRequest(b) \in {WriteRequest(x), ReadRequest(a)}
      <4> HIDE DEF r
      <4> QED BY <2>4, <2>7, <2>8
    <3>2. b = a
      BY <1>0, <3>1
    <3> HIDE DEF r
    <3> QED BY <2>2, <2>8, <3>2 DEF e
  <2>9. CASE e # r
    <3>1. /\ c.config.prefetch
          /\ e = [cache |-> [d.cache EXCEPT !.stream = StreamPrefetch(@, pa)],
                  requests |-> r.requests \o d.requests]
      BY <2>1, <2>3, <2>9
    <3>2. PICK z : e.cache = [d.cache EXCEPT !.stream = z]
      BY <3>1
    <3>3. e.requests = r.requests \o d.requests
      BY <3>1
    <3>4. CASE PrefetchNeeded(r.cache, pa)
      <4>1. d = f
        BY <3>4
      <4>2. /\ CacheFits(f.cache) /\ Present(f.cache, pa)
        BY <2>2, <2>6, <3>4, ReplacementKeeps DEF PrefetchNeeded
      <4>3. Present(f.cache, a)
        BY <2>6, <3>1, DemandSurvives
      <4> HIDE DEF d, f, r
      <4>4. e.requests \in Seq({WriteRequest(x), ReadRequest(a), WriteRequest(y), ReadRequest(pa)})
        BY <2>4, <2>5, <3>3, <4>1
      <4>5. ReadRequest(b) \in {WriteRequest(x), ReadRequest(a), WriteRequest(y), ReadRequest(pa)}
        BY <2>7, <4>4
      <4>6. b = a \/ b = pa
        BY <1>0, <4>5
      <4>7. e.cache.blocks = f.cache.blocks
        BY <3>2, <4>1, <4>2, StreamAside
      <4>8. Present(f.cache, b)
        BY <4>2, <4>3, <4>6
      <4> QED BY <4>7, <4>8 DEF Present, Holding, e
    <3>5. CASE ~PrefetchNeeded(r.cache, pa)
      <4>1. d.cache = r.cache /\ d.requests = <<>>
        BY <3>5
      <4> HIDE DEF d, r
      <4>2. e.requests = r.requests
        BY <2>4, <3>3, <4>1
      <4>3. ReadRequest(b) \in {WriteRequest(x), ReadRequest(a)}
        BY <2>4, <2>7, <4>2
      <4>4. b = a
        BY <1>0, <4>3
      <4>5. e.cache.blocks = r.cache.blocks
        BY <2>2, <3>2, <4>1, StreamAside
      <4> QED BY <2>2, <4>4, <4>5 DEF Present, Holding, e
    <3> QED BY <3>4, <3>5
  <2> QED BY <2>8, <2>9
<1> QED BY <1>1, <1>2, <1>3

\* In a cache of two or more ways that prefetches under LRU, if at all, no access
\* throws out in its prefetch the block it was called for.
THEOREM PrefetchSparesDemand ==
  ASSUME Ways > 1, \A config \in UsedConfigs : config.prefetch => config.replacement = "LRU"
  PROVE  Spec => DemandBlockStays
<1>1. ASSUME CacheInv, [Next]_vars
      PROVE  [\A a \in Addresses : ReadRequest(a) \in {requests'[i] : i \in DOMAIN requests'}
                => Present(cache', a)]_vars
  <2> SUFFICES ASSUME Next, NEW b \in Addresses, NEW i \in DOMAIN requests',
                      requests'[i] = ReadRequest(b)
               PROVE  Present(cache', b)
    BY <1>1
  <2>1. Addresses \subseteq Nat
    BY CacheUseAssumption, CacheAssumption
  <2>2. ASSUME NEW a \in Addresses, NEW isWrite \in BOOLEAN, NEW stride \in Predicted,
               NEW picks \in Picks, access(a, isWrite, stride, picks)
        PROVE  Present(cache', b)
    <3>1. a \in Nat /\ b \in Nat /\ stride \in Int
      BY <2>1, CacheUseAssumption DEF Predicted
    <3>2. /\ cache' = Access(cache, a, isWrite, stride, picks).cache
          /\ requests' = Access(cache, a, isWrite, stride, picks).requests
      BY <2>2 DEF access
    <3>3. /\ CacheFits(cache) /\ Unique(cache)
          /\ cache.config.prefetch => cache.config.replacement = "LRU"
      BY <1>1 DEF CacheInv
    <3> QED BY <3>1, <3>2, <3>3, FetchedIsThere
  <2>3. requests' # <<>>
    OBVIOUS
  <2> QED BY <2>2, <2>3 DEF Next, invalidateBlock, updateMESIState
<1> QED BY <1>1, CacheInitially, CacheStep, PTL DEF Spec, DemandBlockStays
=============================================================================
