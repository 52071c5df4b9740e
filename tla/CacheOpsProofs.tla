--------------------------- MODULE CacheOpsProofs ---------------------------
(***************************************************************************)
(* Lemmas about the replacement policies and the operations of a cache,    *)
(* for any associativity, number of sets and block size.                   *)
(***************************************************************************)
EXTENDS CacheOps, WellFoundedInduction, TLAPS

(* Least elements *)

\* A set of natural numbers that is not empty has a least element, and it is
\* what Min returns.
LEMMA MinOfNaturals ==
  ASSUME NEW S \in SUBSET Nat, S # {}
  PROVE  Min(S) \in S /\ \A y \in S : Min(S) <= y
<1>1. PICK x \in S : \A y \in S : ~(<<y, x>> \in OpToRel(<, Nat))
  BY NatLessThanWellFounded, WFMin, Zenon
<1>2. \A y \in S : ~(y < x)
  BY <1>1 DEF OpToRel
<1>3. \A y \in S : x <= y
  BY <1>2
<1> QED BY <1>3 DEF Min

\* Every way of a set is a natural number.
LEMMA MinOfWays ==
  ASSUME NEW V \in SUBSET Way, V # {}
  PROVE  Min(V) \in V
<1>1. V \in SUBSET Nat
  BY WaysAssumption DEF Way
<1> QED BY <1>1, MinOfNaturals

-----------------------------------------------------------------------------
(* Policies.  The state of a policy is well formed when lruOrder_ lists every *)
(* way once and the stamps and reference bits are there for every way.  The  *)
(* answers of PLRU and Random are among the valid blocks whatever the state.  *)

Ordered(order) ==
  /\ order \in [1..Ways -> Way]
  /\ \A w \in Way : \E i \in 1..Ways : order[i] = w
  /\ \A i, j \in 1..Ways : order[i] = order[j] => i = j

PolicyFits(k, s) ==
  /\ k = "LRU" => Ordered(s)
  /\ k = "FIFO" => s \in [stamp : [Way -> Nat], counter : Nat]
  /\ k = "NRU" => s \in [ref : SUBSET Way, counter : Nat]

\* A touched block is first and the others keep their order.
LEMMA TouchOrdered ==
  ASSUME NEW order, Ordered(order), NEW w \in Way
  PROVE  /\ Ordered(LRUTouch(order, w))
         /\ LRUTouch(order, w)[1] = w
         /\ \A i, j \in 1..Ways :
              LRUTouch(order, w)[i] # w /\ LRUTouch(order, w)[j] # w /\ i <= j =>
                \E k, m \in 1..Ways : /\ order[k] = LRUTouch(order, w)[i]
                                      /\ order[m] = LRUTouch(order, w)[j]
                                      /\ k <= m
<1> DEFINE p == Place(order, w)
           new == LRUTouch(order, w)
<1>1. Ways \in Nat \ {0} /\ 1 \in 1..Ways
  BY WaysAssumption
<1>2. p \in 1..Ways /\ order[p] = w
  BY DEF Ordered, Place
<1>3. new = [i \in 1..Ways |-> IF i = 1 THEN w ELSE order[IF i <= p THEN i - 1 ELSE i]]
  BY DEF LRUTouch, Ordered
<1> HIDE DEF p, new
<1> DEFINE old(i) == IF i = 1 THEN p ELSE IF i <= p THEN i - 1 ELSE i
<1>4. /\ \A i \in 1..Ways : old(i) \in 1..Ways /\ new[i] = order[old(i)]
      /\ new \in [1..Ways -> Way] /\ new[1] = w
  BY <1>1, <1>2, <1>3 DEF Ordered
<1>5. \A i, j \in 1..Ways : old(i) = old(j) => i = j
  BY <1>1, <1>2
<1>6. \A i, j \in 1..Ways : i # 1 /\ j # 1 /\ i <= j => old(i) <= old(j)
  BY <1>1, <1>2
<1>7. \A k \in 1..Ways : \E i \in 1..Ways : old(i) = k
  <2> SUFFICES ASSUME NEW k \in 1..Ways PROVE \E i \in 1..Ways : old(i) = k
    OBVIOUS
  <2>1. CASE k < p
    <3>1. k + 1 \in 1..Ways /\ old(k + 1) = k
      BY <1>1, <1>2, <2>1
    <3> QED BY <3>1
  <2>2. CASE k = p
    BY <1>1, <2>2
  <2>3. CASE k > p
    BY <1>1, <1>2, <2>3
  <2> QED BY <1>2, <2>1, <2>2, <2>3
<1> HIDE DEF old
<1>8. \A v \in Way : \E i \in 1..Ways : new[i] = v
  BY <1>4, <1>7 DEF Ordered
<1>9. \A i, j \in 1..Ways : new[i] = new[j] => i = j
  BY <1>4, <1>5 DEF Ordered
<1>10. Ordered(new)
  BY <1>4, <1>8, <1>9 DEF Ordered
<1>11. ASSUME NEW i \in 1..Ways, NEW j \in 1..Ways, new[i] # w, new[j] # w, i <= j
       PROVE  \E k, m \in 1..Ways : order[k] = new[i] /\ order[m] = new[j] /\ k <= m
  <2>1. old(i) <= old(j)
    BY <1>4, <1>6, <1>11
  <2> QED BY <1>4, <2>1
<1> QED BY <1>4, <1>10, <1>11 DEF new

\* A new policy is well formed, and every operation keeps it so.
LEMMA PolicyKept ==
  ASSUME NEW k \in Kinds
  PROVE  /\ PolicyFits(k, NewPolicy(k))
         /\ \A s : PolicyFits(k, s) => PolicyFits(k, afterVictim(k, s, Way))
         /\ \A s : \A w \in Way : PolicyFits(k, s) => /\ PolicyFits(k, onAccess(k, s, w))
                                                      /\ PolicyFits(k, onInstall(k, s, w))
<1> USE WaysAssumption
<1>1. CASE k = "LRU"
  <2>1. Ordered(LRUNew)
    <3>1. \A w \in Way : w + 1 \in 1..Ways /\ LRUNew[w + 1] = w
      BY DEF LRUNew, Way
    <3> QED BY <3>1 DEF Ordered, LRUNew, Way
  <2>2. NewPolicy(k) = LRUNew /\ \A s : afterVictim(k, s, Way) = s
    BY <1>1 DEF NewPolicy, afterVictim
  <2>3. \A s, w : onAccess(k, s, w) = LRUTouch(s, w) /\ onInstall(k, s, w) = LRUTouch(s, w)
    BY <1>1 DEF onAccess, onInstall
  <2> QED BY <1>1, <2>1, <2>2, <2>3, TouchOrdered DEF PolicyFits
<1>2. CASE k = "FIFO"
  BY <1>2 DEF PolicyFits, NewPolicy, afterVictim, onAccess, onInstall, FIFONew, FIFOInstall
<1>3. CASE k = "NRU"
  BY <1>3 DEF PolicyFits, NewPolicy, afterVictim, onAccess, onInstall,
              NRUNew, NRUAccess, NRUInstall, NRUAfterVictim
<1>4. CASE k \in {"PLRU", "Random"}
  BY <1>4 DEF PolicyFits
<1> QED BY <1>1, <1>2, <1>3, <1>4 DEF Kinds

\* LRU takes the last way of its order that is valid.
LEMMA LastOfOrder ==
  ASSUME NEW order, Ordered(order), NEW V \in SUBSET Way, V # {}
  PROVE  \E i \in 1..Ways : /\ LRUVictim(order, V) = order[i] /\ order[i] \in V
                            /\ \A j \in 1..Ways : j > i => order[j] \notin V
<1> USE WaysAssumption
<1> DEFINE after == {Ways - i : i \in {j \in 1..Ways : order[j] \in V}}
<1>1. DOMAIN order = 1..Ways
  BY DEF Ordered
<1>2. after \in SUBSET Nat /\ after # {}
  BY DEF Ordered
<1>3. PICK i \in 1..Ways : Min(after) = Ways - i /\ order[i] \in V
  BY <1>2, MinOfNaturals
<1>4. \A j \in 1..Ways : j > i => order[j] \notin V
  <2> SUFFICES ASSUME NEW j \in 1..Ways, order[j] \in V PROVE ~(j > i)
    OBVIOUS
  <2>1. Ways - j \in after
    OBVIOUS
  <2>2. Ways - i <= Ways - j
    BY <1>2, <1>3, <2>1, MinOfNaturals
  <2> QED BY <2>2
<1>5. \E n \in DOMAIN order : /\ order[n] \in V
                              /\ \A j \in DOMAIN order : j > n => order[j] \notin V
  BY <1>1, <1>3, <1>4
<1> DEFINE c == CHOOSE n \in DOMAIN order : /\ order[n] \in V
                                            /\ \A j \in DOMAIN order : j > n => order[j] \notin V
<1>6. /\ c \in DOMAIN order /\ order[c] \in V
      /\ \A j \in DOMAIN order : j > c => order[j] \notin V
  BY <1>5
<1>7. LRUVictim(order, V) = order[c]
  BY DEF LRUVictim
<1> QED BY <1>1, <1>6, <1>7

\* FIFO takes a valid way whose stamp is the smallest.
LEMMA OldestStamp ==
  ASSUME NEW s, s.stamp \in [Way -> Nat], NEW V \in SUBSET Way, V # {}
  PROVE  /\ FIFOVictim(s, V) \in V
         /\ \A w \in V : s.stamp[FIFOVictim(s, V)] <= s.stamp[w]
<1> DEFINE stamps == {s.stamp[v] : v \in V}
           oldest == {v \in V : \A w \in V : s.stamp[v] <= s.stamp[w]}
<1>1. stamps \in SUBSET Nat /\ stamps # {}
  OBVIOUS
<1>2. PICK v \in V : s.stamp[v] = Min(stamps)
  BY <1>1, MinOfNaturals
<1>3. v \in oldest
  BY <1>1, <1>2, MinOfNaturals
<1>4. Min(oldest) \in oldest
  BY <1>3, MinOfWays
<1> QED BY <1>4 DEF FIFOVictim

\* Every policy answers with one of the valid blocks.
LEMMA VictimAmongValid ==
  ASSUME NEW k \in Kinds, NEW s, PolicyFits(k, s), NEW V \in SUBSET Way, V # {}, NEW pick
  PROVE  selectVictim(k, s, V, pick) \in V
<1>1. CASE k = "LRU"
  <2>1. LRUVictim(s, V) \in V
    BY <1>1, LastOfOrder DEF PolicyFits
  <2> QED BY <1>1, <2>1 DEF selectVictim
<1>2. CASE k = "FIFO"
  <2>1. FIFOVictim(s, V) \in V
    BY <1>2, OldestStamp DEF PolicyFits
  <2> QED BY <1>2, <2>1 DEF selectVictim
<1>3. CASE k = "NRU"
  <2>1. NRUVictim(s, V) \in V
    BY MinOfWays DEF NRUVictim
  <2> QED BY <1>3, <2>1 DEF selectVictim
<1>4. CASE k = "PLRU"
  <2>1. PLRUVictim(s, V) \in V
    BY MinOfWays DEF PLRUVictim
  <2> QED BY <1>4, <2>1 DEF selectVictim
<1>5. CASE k = "Random"
  <2>1. RandomVictim(V, pick) \in V
    BY MinOfWays DEF RandomVictim
  <2> QED BY <1>5, <2>1 DEF selectVictim
<1> QED BY <1>1, <1>2, <1>3, <1>4, <1>5 DEF Kinds

-----------------------------------------------------------------------------
(* Cache *)

Block == [valid : BOOLEAN, dirty : BOOLEAN, tag : Nat,
          mesi : {"Invalid", "Shared", "Exclusive", "Modified"}]

\* What a Cache object always is.
CacheFits(c) ==
  /\ DOMAIN c = {"config", "blocks", "policy", "stream"}
  /\ c.config \in Configs
  /\ c.blocks \in [Sets -> [Way -> Block]]
  /\ DOMAIN c.policy = Sets
  /\ \A s \in Sets : PolicyFits(c.config.replacement, c.policy[s])

Unique(c) ==
  \A s \in Sets : \A v, w \in Way :
    /\ c.blocks[s][v].valid /\ c.blocks[s][w].valid
    /\ c.blocks[s][v].tag = c.blocks[s][w].tag
    => v = w

\* Tag and set index say which block an address is in.
LEMMA AddressParts ==
  ASSUME NEW a \in Nat
  PROVE  /\ BlockNumber(a) \in Nat /\ SetIndex(a) \in Sets /\ Tag(a) \in Nat
         /\ Tag(a) * NumSets + SetIndex(a) = BlockNumber(a)
<1> DEFINE b == BlockNumber(a)
<1>1. b \in Nat
  BY CacheAssumption DEF BlockNumber
<1> HIDE DEF b
<1>2. b % NumSets \in Sets /\ b \div NumSets \in Nat
  BY <1>1, CacheAssumption DEF Sets
<1>3. (b \div NumSets) * NumSets + (b % NumSets) = b
  BY <1>1, CacheAssumption
<1> QED BY <1>1, <1>2, <1>3 DEF b, SetIndex, Tag

\* The address a victim is written back to is an address of its block.
LEMMA VictimAddressParts ==
  ASSUME NEW s \in Sets, NEW t \in Nat
  PROVE  BlockNumber(VictimAddress(s, t)) = t * NumSets + s
<1> DEFINE n == t * NumSets + s
<1>1. n \in Nat
  BY CacheAssumption DEF Sets
<1> HIDE DEF n
<1>2. (n * BlockSize) \div BlockSize = n
  BY <1>1, CacheAssumption
<1> QED BY <1>2 DEF n, BlockNumber, VictimAddress

\* The way a block is installed in is a way of the set; in a full set it is the
\* choice of the policy.
LEMMA VictimIsAWay ==
  ASSUME NEW c, CacheFits(c), NEW s \in Sets, NEW pick
  PROVE  /\ findVictim(c, s, pick) \in Way
         /\ PolicyFits(c.config.replacement, policyAfterVictim(c, s))
<1>1. c.config.replacement \in Kinds /\ PolicyFits(c.config.replacement, c.policy[s])
  BY DEF CacheFits, Configs
<1>2. Way # {}
  BY WaysAssumption DEF Way
<1>3. selectVictim(c.config.replacement, c.policy[s], Way, pick) \in Way
  BY <1>1, <1>2, VictimAmongValid
<1>4. invalidWays(c, s) # {} => Min(invalidWays(c, s)) \in Way
  BY MinOfWays DEF invalidWays
<1>5. PolicyFits(c.config.replacement, afterVictim(c.config.replacement, c.policy[s], Way))
  BY <1>1, PolicyKept
<1> QED BY <1>1, <1>3, <1>4, <1>5 DEF findVictim, policyAfterVictim

\* What an eviction followed by an installation changes.
LEMMA ReplacementEffect ==
  ASSUME NEW c, CacheFits(c), NEW a \in Nat, NEW isWrite \in BOOLEAN, NEW pick
  PROVE  LET r == Replacement(c, a, isWrite, pick).cache
             s == SetIndex(a)
             w == findVictim(c, s, pick)
         IN  /\ CacheFits(r) /\ r.config = c.config
             /\ s \in Sets /\ w \in Way
             /\ r.blocks[s][w] = InstalledBlock(a, isWrite)
             /\ \A t \in Sets, v \in Way : t # s \/ v # w => r.blocks[t][v] = c.blocks[t][v]
             /\ r.policy[s] = onInstall(c.config.replacement, policyAfterVictim(c, s), w)
<1> DEFINE k == c.config.replacement
           s == SetIndex(a)
           w == findVictim(c, s, pick)
           r == Replacement(c, a, isWrite, pick).cache
           new == onInstall(k, policyAfterVictim(c, s), w)
           b == InstalledBlock(a, isWrite)
<1>1. s \in Sets /\ w \in Way /\ k \in Kinds
  BY AddressParts, VictimIsAWay DEF CacheFits, Configs
<1>2. PolicyFits(k, new)
  BY <1>1, VictimIsAWay, PolicyKept
<1>3. b \in Block
  BY AddressParts DEF InstalledBlock, Block
<1>4. r = [c EXCEPT !.blocks[s][w] = b, !.policy[s] = new]
  BY DEF Replacement
<1> HIDE DEF k, s, w, r, new, b
<1>5. /\ DOMAIN r = DOMAIN c /\ r.config = c.config
      /\ r.blocks = [c.blocks EXCEPT ![s][w] = b]
      /\ r.policy = [c.policy EXCEPT ![s] = new]
  BY <1>4 DEF CacheFits
<1>6. /\ r.blocks \in [Sets -> [Way -> Block]] /\ r.blocks[s][w] = b
      /\ \A t \in Sets, v \in Way : t # s \/ v # w => r.blocks[t][v] = c.blocks[t][v]
  BY <1>1, <1>3, <1>5 DEF CacheFits
<1>7. /\ DOMAIN r.policy = Sets /\ r.policy[s] = new
      /\ \A t \in Sets : PolicyFits(k, r.policy[t])
  BY <1>1, <1>2, <1>5 DEF CacheFits, k
<1>8. CacheFits(r)
  BY <1>5, <1>6, <1>7 DEF CacheFits, k
<1> QED BY <1>1, <1>5, <1>6, <1>7, <1>8 DEF k, s, w, r, new, b

\* Installing a block that is absent keeps every block in one way, and the block
\* is present.
LEMMA ReplacementKeeps ==
  ASSUME NEW c, CacheFits(c), Unique(c), NEW a \in Nat, ~Present(c, a),
         NEW isWrite \in BOOLEAN, NEW pick
  PROVE  LET r == Replacement(c, a, isWrite, pick).cache
         IN  CacheFits(r) /\ r.config = c.config /\ Unique(r) /\ Present(r, a)
<1> DEFINE s == SetIndex(a)
           w == findVictim(c, s, pick)
           r == Replacement(c, a, isWrite, pick).cache
<1>1. /\ CacheFits(r) /\ r.config = c.config
      /\ s \in Sets /\ w \in Way
      /\ r.blocks[s][w] = InstalledBlock(a, isWrite)
      /\ \A t \in Sets, v \in Way : t # s \/ v # w => r.blocks[t][v] = c.blocks[t][v]
  BY ReplacementEffect
<1>2. \A v \in Way : ~(c.blocks[s][v].valid /\ c.blocks[s][v].tag = Tag(a))
  BY DEF Present, Holding
<1> HIDE DEF w, r
<1>3. r.blocks[s][w].valid /\ r.blocks[s][w].tag = Tag(a)
  BY <1>1 DEF InstalledBlock
<1>4. w \in Holding(r, a)
  BY <1>1, <1>3 DEF Holding
<1>5. Unique(r)
  <2> SUFFICES ASSUME NEW t \in Sets, NEW v \in Way, NEW u \in Way,
                      r.blocks[t][v].valid, r.blocks[t][u].valid,
                      r.blocks[t][v].tag = r.blocks[t][u].tag, v # u
               PROVE  FALSE
    BY DEF Unique
  <2> HIDE DEF s
  <2>1. CASE t = s /\ v = w
    BY <1>1, <1>2, <1>3, <2>1
  <2>2. CASE t = s /\ u = w
    BY <1>1, <1>2, <1>3, <2>2
  <2>3. CASE t # s \/ (v # w /\ u # w)
    BY <1>1, <2>3 DEF Unique
  <2> QED BY <2>1, <2>2, <2>3
<1> QED BY <1>1, <1>4, <1>5 DEF Present, r

\* What findBlock finds.
LEMMA HeldBlock ==
  ASSUME NEW c, NEW a \in Nat, Present(c, a)
  PROVE  LET w == Min(Holding(c, a)) IN
         w \in Way /\ c.blocks[SetIndex(a)][w].valid /\ c.blocks[SetIndex(a)][w].tag = Tag(a)
<1>1. Holding(c, a) \in SUBSET Way /\ Holding(c, a) # {}
  BY DEF Holding, Present
<1>2. Min(Holding(c, a)) \in Holding(c, a)
  BY <1>1, MinOfWays
<1> QED BY <1>2 DEF Holding

\* A change of one block that keeps its tag and does not make it valid keeps every
\* block in one way.
LEMMA BlockChanged ==
  ASSUME NEW c, Unique(c), NEW r, NEW s \in Sets, NEW w \in Way,
         r.blocks[s][w].tag = c.blocks[s][w].tag,
         r.blocks[s][w].valid => c.blocks[s][w].valid,
         \A t \in Sets, v \in Way : t # s \/ v # w => r.blocks[t][v] = c.blocks[t][v]
  PROVE  Unique(r)
<1> SUFFICES ASSUME NEW t \in Sets, NEW v \in Way, NEW u \in Way,
                    r.blocks[t][v].valid, r.blocks[t][u].valid,
                    r.blocks[t][v].tag = r.blocks[t][u].tag
             PROVE  v = u
  BY DEF Unique
<1>1. \A x \in Way : /\ r.blocks[t][x].valid => c.blocks[t][x].valid
                     /\ r.blocks[t][x].tag = c.blocks[t][x].tag
  OBVIOUS
<1> QED BY <1>1 DEF Unique

\* A hit changes the block it finds, and no tag.
LEMMA HitEffect ==
  ASSUME NEW c, CacheFits(c), Unique(c), NEW a \in Nat, Present(c, a), NEW isWrite \in BOOLEAN
  PROVE  LET r == OnHit(c, a, isWrite).cache
             s == SetIndex(a)
             w == Min(Holding(c, a))
         IN  /\ CacheFits(r) /\ r.config = c.config /\ Unique(r)
             /\ s \in Sets /\ w \in Way
             /\ r.blocks[s][w] = IF isWrite THEN WrittenBlock(c.blocks[s][w], c.config.write)
                                 ELSE c.blocks[s][w]
             /\ r.blocks[s][w].valid /\ r.blocks[s][w].tag = Tag(a)
             /\ \A t \in Sets, v \in Way : t # s \/ v # w => r.blocks[t][v] = c.blocks[t][v]
<1> DEFINE k == c.config.replacement
           s == SetIndex(a)
           w == Min(Holding(c, a))
           r == OnHit(c, a, isWrite).cache
           new == onAccess(k, c.policy[s], w)
           old == c.blocks[s][w]
           b == IF isWrite THEN WrittenBlock(old, c.config.write) ELSE old
<1>1. s \in Sets /\ w \in Way /\ k \in Kinds /\ old.valid /\ old.tag = Tag(a)
  BY AddressParts, HeldBlock DEF CacheFits, Configs
<1>2. PolicyFits(k, new)
  BY <1>1, PolicyKept DEF CacheFits
<1>3. old \in Block
  BY <1>1 DEF CacheFits
<1>4. b \in Block /\ b.valid = old.valid /\ b.tag = old.tag
  <2> HIDE DEF old
  <2> QED BY <1>3 DEF Block, WrittenBlock
<1>5. r = [c EXCEPT !.blocks[s][w] = b, !.policy[s] = new]
  <2>1. r = [c EXCEPT !.blocks[s][w] = IF isWrite THEN WrittenBlock(@, c.config.write) ELSE @,
                      !.policy[s] = onAccess(k, @, w)]
    BY DEF OnHit
  <2> HIDE DEF r, w, s
  <2> QED BY <1>1, <2>1 DEF CacheFits
<1> HIDE DEF k, s, w, r, new, b, old
<1>6. /\ DOMAIN r = DOMAIN c /\ r.config = c.config
      /\ r.blocks = [c.blocks EXCEPT ![s][w] = b]
      /\ r.policy = [c.policy EXCEPT ![s] = new]
  BY <1>5 DEF CacheFits
<1>7. /\ r.blocks \in [Sets -> [Way -> Block]] /\ r.blocks[s][w] = b
      /\ \A t \in Sets, v \in Way : t # s \/ v # w => r.blocks[t][v] = c.blocks[t][v]
  BY <1>1, <1>4, <1>6 DEF CacheFits
<1>8. DOMAIN r.policy = Sets /\ \A t \in Sets : PolicyFits(k, r.policy[t])
  BY <1>1, <1>2, <1>6 DEF CacheFits, k
<1>9. CacheFits(r)
  BY <1>6, <1>7, <1>8 DEF CacheFits, k
<1>10. Unique(r)
  BY <1>1, <1>4, <1>7, BlockChanged DEF old
<1> QED BY <1>1, <1>4, <1>6, <1>7, <1>9, <1>10 DEF k, s, w, r, new, b, old

\* A change of state changes at most the block that findBlock finds, and no tag.
LEMMA StateEffect ==
  ASSUME NEW c, CacheFits(c), Unique(c), NEW a \in Nat,
         NEW state \in {"Invalid", "Shared", "Modified"}
  PROVE  LET r == WithState(c, a, state)
             s == SetIndex(a)
         IN  /\ CacheFits(r) /\ r.config = c.config /\ Unique(r)
             /\ \A t \in Sets, v \in Way :
                  \/ r.blocks[t][v] = c.blocks[t][v]
                  \/ /\ t = s /\ c.blocks[t][v].valid /\ c.blocks[t][v].tag = Tag(a)
                     /\ r.blocks[t][v] = InState(c.blocks[t][v], state)
<1>1. CASE ~Present(c, a)
  BY <1>1 DEF WithState
<1>2. CASE Present(c, a)
  <2> DEFINE s == SetIndex(a)
             w == Min(Holding(c, a))
             r == WithState(c, a, state)
             old == c.blocks[s][w]
             b == InState(old, state)
  <2>1. s \in Sets /\ w \in Way /\ old.valid /\ old.tag = Tag(a)
    BY <1>2, AddressParts, HeldBlock
  <2>2. old \in Block
    BY <2>1 DEF CacheFits
  <2>3. b \in Block /\ b.tag = old.tag
    <3> HIDE DEF old
    <3> QED BY <2>2 DEF Block, InState
  <2>4. r = [c EXCEPT !.blocks[s][w] = b]
    <3>1. r = [c EXCEPT !.blocks[s][w] = InState(@, state)]
      BY <1>2 DEF WithState
    <3> HIDE DEF r, w, s
    <3> QED BY <2>1, <3>1 DEF CacheFits
  <2> HIDE DEF s, w, r, b, old
  <2>5. /\ DOMAIN r = DOMAIN c /\ r.config = c.config /\ r.policy = c.policy
        /\ r.blocks = [c.blocks EXCEPT ![s][w] = b]
    BY <2>4 DEF CacheFits
  <2>6. /\ r.blocks \in [Sets -> [Way -> Block]] /\ r.blocks[s][w] = b
        /\ \A t \in Sets, v \in Way : t # s \/ v # w => r.blocks[t][v] = c.blocks[t][v]
    BY <2>1, <2>3, <2>5 DEF CacheFits
  <2>7. CacheFits(r)
    BY <2>5, <2>6 DEF CacheFits
  <2>8. Unique(r)
    BY <2>1, <2>3, <2>6, BlockChanged DEF old
  <2> QED BY <2>1, <2>5, <2>6, <2>7, <2>8 DEF s, w, r, b, old
<1> QED BY <1>1, <1>2

\* The stream buffer says nothing about the blocks.
LEMMA StreamAside ==
  ASSUME NEW c, CacheFits(c), NEW x
  PROVE  LET r == [c EXCEPT !.stream = x]
         IN  /\ CacheFits(r) /\ r.config = c.config /\ r.blocks = c.blocks
             /\ Unique(c) => Unique(r)
<1> DEFINE r == [c EXCEPT !.stream = x]
<1>1. /\ DOMAIN r = DOMAIN c
      /\ r.config = c.config /\ r.blocks = c.blocks /\ r.policy = c.policy
  BY DEF CacheFits
<1> HIDE DEF r
<1>2. CacheFits(r)
  BY <1>1 DEF CacheFits
<1> QED BY <1>1, <1>2 DEF r, Unique

\* An access keeps every block in one way: a demand fetch and a prefetch install
\* only what is absent.
LEMMA AccessKeeps ==
  ASSUME NEW c, CacheFits(c), Unique(c), NEW a \in Nat, NEW isWrite \in BOOLEAN,
         NEW stride \in Int, NEW picks
  PROVE  LET r == Access(c, a, isWrite, stride, picks).cache
         IN  CacheFits(r) /\ r.config = c.config /\ Unique(r)
<1>1. CASE Present(c, a)
  <2>1. Access(c, a, isWrite, stride, picks) = OnHit(c, a, isWrite)
    BY <1>1 DEF Access
  <2> QED BY <1>1, <2>1, HitEffect
<1>2. CASE ~Present(c, a) /\ StreamServes(c, a)
  <2>1. Access(c, a, isWrite, stride, picks) = OnStreamHit(c, a, isWrite)
    BY <1>2 DEF Access
  <2>2. PICK x : OnStreamHit(c, a, isWrite).cache = [c EXCEPT !.stream = x]
    BY DEF OnStreamHit
  <2> QED BY <2>1, <2>2, StreamAside
<1>3. CASE ~Present(c, a) /\ ~StreamServes(c, a)
  <2> DEFINE r == Replacement(c, a, isWrite, picks[1])
             p == Prefetched(r, a, isWrite, stride, picks[2])
  <2>1. Access(c, a, isWrite, stride, picks) = IF c.config.prefetch THEN p ELSE r
    BY <1>3 DEF Access
  <2>2. CacheFits(r.cache) /\ r.cache.config = c.config /\ Unique(r.cache)
    BY <1>3, ReplacementKeeps
  <2>3. CacheFits(p.cache) /\ p.cache.config = c.config /\ Unique(p.cache)
    <3> DEFINE pa == (a + stride) % AddressSpace
               i == IF PrefetchNeeded(r.cache, pa)
                    THEN Replacement(r.cache, pa, FALSE, picks[2])
                    ELSE [cache |-> r.cache, requests |-> <<>>]
    <3>1. pa \in Nat
      BY CacheAssumption
    <3> HIDE DEF r, pa
    <3>2. CacheFits(i.cache) /\ i.cache.config = c.config /\ Unique(i.cache)
      BY <2>2, <3>1, ReplacementKeeps DEF PrefetchNeeded
    <3>3. p = IF isWrite \/ stride = 0 THEN r
              ELSE [cache |-> [i.cache EXCEPT !.stream = StreamPrefetch(@, pa)],
                    requests |-> r.requests \o i.requests]
      BY DEF Prefetched, pa
    <3> HIDE DEF i, p
    <3>4. CASE isWrite \/ stride = 0
      BY <2>2, <3>3, <3>4
    <3>5. CASE ~(isWrite \/ stride = 0)
      <4>1. PICK x : p.cache = [i.cache EXCEPT !.stream = x]
        BY <3>3, <3>5
      <4> QED BY <3>2, <4>1, StreamAside
    <3> QED BY <3>4, <3>5
  <2> HIDE DEF r, p
  <2> QED BY <2>1, <2>2, <2>3
<1> QED BY <1>1, <1>2, <1>3

-----------------------------------------------------------------------------
\* What the calls of access() on the next level write.
LEMMA PassedOnParts ==
  ASSUME NEW x, NEW y
  PROVE  /\ PassedOn(<<>>) = {}
         /\ PassedOn(<<WriteRequest(x)>>) = {BlockNumber(x)}
         /\ PassedOn(<<>> \o <<ReadRequest(y)>>) = {}
         /\ PassedOn(<<WriteRequest(x)>> \o <<ReadRequest(y)>>) = {BlockNumber(x)}
<1>1. PassedOn(<<>>) = {}
  BY DEF PassedOn
<1>2. PassedOn(<<WriteRequest(x)>>) = {BlockNumber(x)}
  BY DEF PassedOn, WriteRequest
<1>3. PassedOn(<<>> \o <<ReadRequest(y)>>) = {}
  BY DEF PassedOn, ReadRequest
<1>4. PassedOn(<<WriteRequest(x)>> \o <<ReadRequest(y)>>) = {BlockNumber(x)}
  <2> DEFINE q == <<WriteRequest(x)>> \o <<ReadRequest(y)>>
  <2>1. DOMAIN q = 1..2 /\ q[1] = WriteRequest(x) /\ q[2] = ReadRequest(y)
    OBVIOUS
  <2> HIDE DEF q
  <2>2. {j \in DOMAIN q : q[j].isWrite} = {1}
    BY <2>1 DEF WriteRequest, ReadRequest
  <2>3. q[1].addr = x
    BY <2>1 DEF WriteRequest
  <2> QED BY <2>2, <2>3 DEF PassedOn, q
<1> QED BY <1>1, <1>2, <1>3, <1>4

-----------------------------------------------------------------------------
(* What an access hands to the next level *)

Requests == [addr : Nat, isWrite : BOOLEAN]

\* Block b is there and its eviction calls for a write-back.
Due(c, b) ==
  \E s \in Sets, w \in Way :
    /\ c.blocks[s][w].valid /\ requiresWriteback(c.blocks[s][w])
    /\ c.blocks[s][w].tag * NumSets + s = b

\* A new cache is well formed and empty.
LEMMA NewCacheFits ==
  ASSUME NEW config \in Configs
  PROVE  LET c == NewCache(config) IN CacheFits(c) /\ Unique(c) /\ c.config = config
<1> DEFINE c == NewCache(config)
<1>1. config.replacement \in Kinds
  BY DEF Configs
<1>2. EmptyBlock \in Block /\ ~EmptyBlock.valid
  BY DEF EmptyBlock, Block
<1>3. PolicyFits(config.replacement, NewPolicy(config.replacement))
  BY <1>1, PolicyKept
<1>4. /\ DOMAIN c = {"config", "blocks", "policy", "stream"} /\ c.config = config
      /\ c.blocks = [s \in Sets |-> [w \in Way |-> EmptyBlock]]
      /\ c.policy = [s \in Sets |-> NewPolicy(config.replacement)]
  BY DEF NewCache
<1> HIDE DEF c
<1>5. CacheFits(c)
  BY <1>2, <1>3, <1>4 DEF CacheFits
<1>6. Unique(c)
  BY <1>2, <1>4 DEF Unique
<1> QED BY <1>4, <1>5, <1>6 DEF c

\* The write-back of the victim, if it needs one, and the fetch.
LEMMA ReplacementAsks ==
  ASSUME NEW c, CacheFits(c), NEW a \in Nat, NEW isWrite, NEW pick
  PROVE  LET q == Replacement(c, a, isWrite, pick).requests
             s == SetIndex(a)
             victim == c.blocks[s][findVictim(c, s, pick)]
         IN  /\ q \in Seq(Requests) /\ Len(q) > 0 /\ q[Len(q)] = ReadRequest(a)
             /\ victim.valid /\ requiresWriteback(victim) => victim.tag * NumSets + s \in PassedOn(q)
<1> DEFINE s == SetIndex(a)
           victim == c.blocks[s][findVictim(c, s, pick)]
           x == VictimAddress(s, victim.tag)
           h == IF victim.valid /\ requiresWriteback(victim) THEN <<WriteRequest(x)>> ELSE <<>>
           q == Replacement(c, a, isWrite, pick).requests
<1>1. q = h \o <<ReadRequest(a)>>
  <2>1. PICK y : Replacement(c, a, isWrite, pick) = [cache |-> y, requests |-> h \o <<ReadRequest(a)>>]
    BY DEF Replacement
  <2> HIDE DEF h
  <2> QED BY <2>1
<1>2. s \in Sets /\ victim.tag \in Nat
  <2>1. s \in Sets /\ findVictim(c, s, pick) \in Way
    BY AddressParts, VictimIsAWay
  <2>2. victim \in Block
    BY <2>1 DEF CacheFits
  <2> QED BY <2>1, <2>2 DEF Block
<1>3. x \in Nat /\ BlockNumber(x) = victim.tag * NumSets + s
  <2> HIDE DEF s, victim
  <2>1. x \in Nat
    BY <1>2, CacheAssumption DEF VictimAddress, Sets
  <2> QED BY <1>2, <2>1, VictimAddressParts
<1> HIDE DEF s, victim, x, q
<1>4. ReadRequest(a) \in Requests /\ WriteRequest(x) \in Requests
  BY <1>3 DEF ReadRequest, WriteRequest, Requests
<1>5. CASE victim.valid /\ requiresWriteback(victim)
  <2>1. q = <<WriteRequest(x)>> \o <<ReadRequest(a)>>
    BY <1>1, <1>5
  <2>2. PassedOn(q) = {BlockNumber(x)}
    BY <2>1, PassedOnParts
  <2>3. PICK u, v : u = WriteRequest(x) /\ v = ReadRequest(a)
    OBVIOUS
  <2>4. q = <<u>> \o <<v>> /\ u \in Requests /\ v \in Requests
    BY <1>4, <2>1, <2>3
  <2>5. q \in Seq(Requests) /\ Len(q) > 0 /\ q[Len(q)] = v
    <3>1. <<u>> \in Seq(Requests) /\ <<v>> \in Seq(Requests)
      BY <2>4
    <3>2. Len(<<u>> \o <<v>>) = 2 /\ (<<u>> \o <<v>>)[2] = v
      OBVIOUS
    <3> QED BY <2>4, <3>1, <3>2
  <2> QED BY <1>3, <2>2, <2>3, <2>5 DEF s, victim, q
<1>6. CASE ~(victim.valid /\ requiresWriteback(victim))
  <2>1. q = <<>> \o <<ReadRequest(a)>>
    BY <1>1, <1>6
  <2>2. PICK v : v = ReadRequest(a)
    OBVIOUS
  <2>3. q = <<v>> /\ v \in Requests
    BY <1>4, <2>1, <2>2
  <2>4. q \in Seq(Requests) /\ Len(q) > 0 /\ q[Len(q)] = v
    BY <2>3
  <2> QED BY <1>6, <2>2, <2>4 DEF s, victim, q
<1> QED BY <1>5, <1>6

\* What two sequences of requests hand on.
LEMMA PassedOnOfBoth ==
  ASSUME NEW p \in Seq(Requests), NEW q \in Seq(Requests)
  PROVE  PassedOn(p) \subseteq PassedOn(p \o q) /\ PassedOn(q) \subseteq PassedOn(p \o q)
<1> DEFINE r == p \o q
<1>1. /\ Len(p) \in Nat /\ Len(q) \in Nat /\ DOMAIN r = 1..(Len(p) + Len(q))
      /\ DOMAIN p = 1..Len(p) /\ DOMAIN q = 1..Len(q)
  OBVIOUS
<1>2. \A i \in DOMAIN p : i \in DOMAIN r /\ r[i] = p[i]
  OBVIOUS
<1>3. \A i \in DOMAIN q : Len(p) + i \in DOMAIN r /\ r[Len(p) + i] = q[i]
  OBVIOUS
<1> HIDE DEF r
<1>4. ASSUME NEW b \in PassedOn(p) PROVE b \in PassedOn(r)
  <2>1. PICK i \in DOMAIN p : p[i].isWrite /\ b = BlockNumber(p[i].addr)
    BY DEF PassedOn
  <2> QED BY <1>2, <2>1 DEF PassedOn
<1>5. ASSUME NEW b \in PassedOn(q) PROVE b \in PassedOn(r)
  <2>1. PICK i \in DOMAIN q : q[i].isWrite /\ b = BlockNumber(q[i].addr)
    BY DEF PassedOn
  <2>2. PICK j \in DOMAIN r : r[j] = q[i]
    BY <1>3
  <2> QED BY <2>1, <2>2 DEF PassedOn
<1> QED BY <1>4, <1>5 DEF r

\* A replacement keeps what is due a write-back or writes it back.
LEMMA ReplacementKeepsDue ==
  ASSUME NEW c, CacheFits(c), NEW a \in Nat, NEW isWrite \in BOOLEAN, NEW pick, NEW r,
         r = Replacement(c, a, isWrite, pick), NEW b, Due(c, b)
  PROVE  Due(r.cache, b) \/ b \in PassedOn(r.requests)
<1> DEFINE s == SetIndex(a)
           w == findVictim(c, s, pick)
<1>1. PICK t \in Sets, v \in Way :
        /\ c.blocks[t][v].valid /\ requiresWriteback(c.blocks[t][v])
        /\ c.blocks[t][v].tag * NumSets + t = b
  BY DEF Due
<1>2. CASE t = s /\ v = w
  BY <1>1, <1>2, ReplacementAsks
<1>3. CASE t # s \/ v # w
  <2>1. r.cache.blocks[t][v] = c.blocks[t][v]
    BY <1>3, ReplacementEffect
  <2> QED BY <1>1, <2>1 DEF Due
<1> QED BY <1>2, <1>3

\* A hit keeps what is due, and a write is due or handed on.
LEMMA HitKeepsDue ==
  ASSUME NEW c, CacheFits(c), Unique(c), NEW a \in Nat, Present(c, a), NEW isWrite \in BOOLEAN,
         NEW r, r = OnHit(c, a, isWrite),
         NEW b, Due(c, b) \/ (isWrite /\ b = BlockNumber(a))
  PROVE  Due(r.cache, b) \/ b \in PassedOn(r.requests)
<1> DEFINE s == SetIndex(a)
           w == Min(Holding(c, a))
           old == c.blocks[s][w]
           new == r.cache.blocks
<1>1. s \in Sets /\ Tag(a) * NumSets + s = BlockNumber(a)
  BY AddressParts
<1>2. /\ w \in Way
      /\ new[s][w] = IF isWrite THEN WrittenBlock(old, c.config.write) ELSE old
      /\ new[s][w].valid /\ new[s][w].tag = Tag(a)
      /\ \A t \in Sets, v \in Way : t # s \/ v # w => new[t][v] = c.blocks[t][v]
  BY HitEffect
<1>3. r.requests = IF isWrite /\ c.config.write = "WriteThrough" THEN <<WriteRequest(a)>> ELSE <<>>
  BY DEF OnHit
<1>4. old \in Block /\ old.tag = Tag(a)
  BY <1>1, <1>2, HeldBlock DEF CacheFits
<1> HIDE DEF s, w, new, old
<1>5. CASE b = BlockNumber(a) /\ isWrite
  <2>1. CASE c.config.write = "WriteThrough"
    BY <1>3, <1>5, <2>1, PassedOnParts
  <2>2. CASE c.config.write # "WriteThrough"
    <3>1. requiresWriteback(new[s][w])
      BY <1>2, <1>4, <1>5, <2>2 DEF WrittenBlock, Block, requiresWriteback
    <3> QED BY <1>1, <1>2, <1>5, <3>1 DEF Due, new
  <2> QED BY <2>1, <2>2
<1>6. CASE ~(b = BlockNumber(a) /\ isWrite)
  <2>1. PICK t \in Sets, v \in Way :
          /\ c.blocks[t][v].valid /\ requiresWriteback(c.blocks[t][v])
          /\ c.blocks[t][v].tag * NumSets + t = b
    BY <1>6 DEF Due
  <2>2. new[t][v] = c.blocks[t][v]
    <3>1. CASE t = s /\ v = w
      <4>1. b = BlockNumber(a)
        BY <1>1, <1>4, <2>1, <3>1 DEF old
      <4> QED BY <1>2, <1>6, <3>1, <4>1 DEF old
    <3>2. CASE t # s \/ v # w
      BY <1>2, <3>2
    <3> QED BY <3>1, <3>2
  <2> QED BY <2>1, <2>2 DEF Due, new
<1> QED BY <1>5, <1>6

\* Only the stream buffer differs.
Restreamed(c, d) == \E x : d = [c EXCEPT !.stream = x]

\* The stream buffer is no part of the blocks.
LEMMA BlocksAside ==
  ASSUME NEW c, CacheFits(c), NEW r, Restreamed(c, r)
  PROVE  r.blocks = c.blocks
BY DEF CacheFits, Restreamed

\* p is r, r with a new stream buffer, or r followed by the replacement i.
Follows(p, r, i) ==
  \/ p = r
  \/ p.requests = r.requests \o <<>> /\ Restreamed(r.cache, p.cache)
  \/ p.requests = r.requests \o i.requests /\ Restreamed(i.cache, p.cache)

\* The two replacements of an access with a prefetch: the one of the demanded
\* block and, if the block to prefetch is not there, its own.
LEMMA PrefetchedParts ==
  ASSUME NEW r, NEW a \in Nat, NEW isWrite \in BOOLEAN, NEW stride \in Int, NEW pick,
         NEW p, p = Prefetched(r, a, isWrite, stride, pick),
         NEW no \in BOOLEAN, ~no, NEW pa, pa = (a + stride) % AddressSpace,
         NEW i, i = Replacement(r.cache, pa, no, pick)
  PROVE  Follows(p, r, i)
<1> DEFINE installed == IF PrefetchNeeded(r.cache, pa) THEN i ELSE [cache |-> r.cache, requests |-> <<>>]
<1>1. p = IF isWrite \/ stride = 0 THEN r
          ELSE [cache |-> [installed.cache EXCEPT !.stream = StreamPrefetch(@, pa)],
                requests |-> r.requests \o installed.requests]
  <2>1. no = FALSE
    OBVIOUS
  <2> QED BY <2>1 DEF Prefetched
<1>2. CASE isWrite \/ stride = 0
  BY <1>1, <1>2 DEF Follows
<1>3. CASE ~(isWrite \/ stride = 0) /\ PrefetchNeeded(r.cache, pa)
  <2>1. installed = i
    BY <1>3
  <2> HIDE DEF installed
  <2>2. PICK x : x = StreamPrefetch(i.cache.stream, pa)
    OBVIOUS
  <2>3. PICK y : y = [i.cache EXCEPT !.stream = x]
    OBVIOUS
  <2>4. p = [cache |-> y, requests |-> r.requests \o i.requests]
    BY <1>1, <1>3, <2>1, <2>2, <2>3
  <2>5. p.cache = y /\ p.requests = r.requests \o i.requests
    BY ONLY <2>4
  <2>6. Restreamed(i.cache, p.cache)
    BY ONLY <2>3, <2>5, Zenon DEF Restreamed
  <2> QED BY <2>5, <2>6 DEF Follows
<1>4. CASE ~(isWrite \/ stride = 0) /\ ~PrefetchNeeded(r.cache, pa)
  <2>1. installed.cache = r.cache /\ installed.requests = <<>>
    BY <1>4
  <2> HIDE DEF installed
  <2>2. PICK x : x = StreamPrefetch(r.cache.stream, pa)
    OBVIOUS
  <2>3. PICK y : y = [r.cache EXCEPT !.stream = x]
    OBVIOUS
  <2>4. p = [cache |-> y, requests |-> r.requests \o <<>>]
    BY <1>1, <1>4, <2>1, <2>2, <2>3
  <2>5. p.cache = y /\ p.requests = r.requests \o <<>>
    BY ONLY <2>4
  <2>6. Restreamed(r.cache, p.cache)
    BY ONLY <2>3, <2>5, Zenon DEF Restreamed
  <2> QED BY <2>5, <2>6 DEF Follows
<1> QED BY <1>2, <1>3, <1>4

\* Whatever an access evicts, on demand or for a prefetch, what is due a
\* write-back stays due or is handed on, and so is what is written unless the
\* stream buffer serves the write.
LEMMA AccessKeepsDue ==
  ASSUME NEW c, CacheFits(c), Unique(c), NEW a \in Nat, NEW isWrite \in BOOLEAN,
         NEW stride \in Int, NEW picks, NEW r, r = Access(c, a, isWrite, stride, picks)
  PROVE  /\ r.requests \in Seq(Requests)
         /\ \A b : Due(c, b) \/ (isWrite /\ ~c.config.prefetch /\ b = BlockNumber(a)) =>
              Due(r.cache, b) \/ b \in PassedOn(r.requests)
<1>0. <<>> \in Seq(Requests)
  OBVIOUS
<1>1. CASE Present(c, a)
  <2>1. r = OnHit(c, a, isWrite)
    BY <1>1 DEF Access
  <2>2. r.requests = IF isWrite /\ c.config.write = "WriteThrough" THEN <<WriteRequest(a)>> ELSE <<>>
    BY <2>1 DEF OnHit
  <2>3. WriteRequest(a) \in Requests
    BY DEF WriteRequest, Requests
  <2>4. <<WriteRequest(a)>> \in Seq(Requests)
    <3>1. \A x \in Requests : <<x>> \in Seq(Requests)
      OBVIOUS
    <3> QED BY <2>3, <3>1
  <2>5. r.requests \in Seq(Requests)
    BY <1>0, <2>2, <2>4
  <2> QED BY <1>1, <2>1, <2>5, HitKeepsDue
<1>2. CASE ~Present(c, a) /\ StreamServes(c, a)
  <2>1. r = OnStreamHit(c, a, isWrite)
    BY <1>2 DEF Access
  <2>2. PICK x : OnStreamHit(c, a, isWrite) = [cache |-> [c EXCEPT !.stream = x], requests |-> <<>>]
    BY DEF OnStreamHit
  <2>3. r.cache.blocks = c.blocks /\ r.requests = <<>>
    <3>1. r.cache = [c EXCEPT !.stream = x] /\ r.requests = <<>>
      BY <2>1, <2>2
    <3> QED BY <3>1, BlocksAside DEF Restreamed
  <2>4. c.config.prefetch
    BY <1>2 DEF StreamServes
  <2> QED BY <1>0, <2>3, <2>4 DEF Due
<1>3. CASE ~Present(c, a) /\ ~StreamServes(c, a)
  <2> DEFINE d == Replacement(c, a, isWrite, picks[1])
             p == Prefetched(d, a, isWrite, stride, picks[2])
  <2>1. r = IF c.config.prefetch THEN p ELSE d
    BY <1>3 DEF Access
  <2>2. CacheFits(d.cache) /\ d.requests \in Seq(Requests)
    BY <1>3, ReplacementKeeps, ReplacementAsks
  <2>3. ASSUME NEW b, Due(c, b) PROVE Due(d.cache, b) \/ b \in PassedOn(d.requests)
    <3>1. PICK q : q = d
      OBVIOUS
    <3> QED BY <2>3, <3>1, ReplacementKeepsDue
  <2>4. isWrite => Due(d.cache, BlockNumber(a))
    <3> DEFINE s == SetIndex(a)
               w == findVictim(c, s, picks[1])
    <3>1. /\ s \in Sets /\ w \in Way /\ Tag(a) * NumSets + s = BlockNumber(a)
          /\ d.cache.blocks[s][w] = InstalledBlock(a, isWrite)
      BY ReplacementEffect, AddressParts
    <3> HIDE DEF s, w, d
    <3>2. InstalledBlock(a, isWrite).valid /\ InstalledBlock(a, isWrite).tag = Tag(a)
      BY DEF InstalledBlock
    <3>3. isWrite => requiresWriteback(InstalledBlock(a, isWrite))
      BY DEF InstalledBlock, requiresWriteback
    <3> QED BY <3>1, <3>2, <3>3 DEF Due
  <2> HIDE DEF d
  <2>5. CASE ~c.config.prefetch
    BY <2>1, <2>2, <2>3, <2>4, <2>5
  <2>6. CASE c.config.prefetch
    <3> DEFINE pa == (a + stride) % AddressSpace
               i == Replacement(d.cache, pa, FALSE, picks[2])
    <3>1. pa \in Nat
      BY CacheAssumption
    <3>2. PICK pf : pf = FALSE /\ pf \in BOOLEAN
      OBVIOUS
    <3>3. CacheFits(i.cache) /\ i.requests \in Seq(Requests)
      <4> HIDE DEF pa
      <4> QED BY <2>2, <3>1, <3>2, ReplacementEffect, ReplacementAsks
    <3>4. \A b : Due(d.cache, b) => Due(i.cache, b) \/ b \in PassedOn(i.requests)
      <4> HIDE DEF pa
      <4>1. PICK q : q = i
        OBVIOUS
      <4> QED BY <2>2, <3>1, <3>2, <4>1, ReplacementKeepsDue
    <3>5. \/ r = d
          \/ r.requests = d.requests \o <<>> /\ Restreamed(d.cache, r.cache)
          \/ r.requests = d.requests \o i.requests /\ Restreamed(i.cache, r.cache)
      <4>1. r = Prefetched(d, a, isWrite, stride, picks[2])
        BY <2>1, <2>6
      <4>2. PICK e, k, ad : /\ k = picks[2] /\ ad = (a + stride) % AddressSpace
                             /\ e = Replacement(d.cache, ad, pf, k)
        OBVIOUS
      <4>3. Follows(r, d, e)
        <5>1. r = Prefetched(d, a, isWrite, stride, k)
          BY ONLY <4>1, <4>2
        <5>2. pf \in BOOLEAN /\ ~pf
          BY ONLY <3>2
        <5> QED BY ONLY <5>1, <5>2, <4>2, PrefetchedParts
      <4>4. e = i
        BY ONLY <3>2, <4>2
      <4> QED BY ONLY <4>3, <4>4 DEF Follows
    <3> HIDE DEF i, pa
    <3>7. CASE r = d
      BY <2>2, <2>3, <2>6, <3>7
    <3>8. CASE r.requests = d.requests \o <<>> /\ Restreamed(d.cache, r.cache)
      <4>1. r.requests = d.requests
        BY <2>2, <3>8
      <4>2. \A b : Due(d.cache, b) => Due(r.cache, b)
        <5>1. r.cache.blocks = d.cache.blocks
          BY <2>2, <3>8, BlocksAside
        <5> QED BY <5>1 DEF Due
      <4> QED BY <2>2, <2>3, <2>6, <4>1, <4>2
    <3>9. CASE r.requests = d.requests \o i.requests /\ Restreamed(i.cache, r.cache)
      <4>1. r.requests \in Seq(Requests)
        BY <2>2, <3>3, <3>9
      <4>2. PassedOn(d.requests) \subseteq PassedOn(r.requests) /\ PassedOn(i.requests) \subseteq PassedOn(r.requests)
        BY <2>2, <3>3, <3>9, PassedOnOfBoth
      <4>3. \A b : Due(i.cache, b) => Due(r.cache, b)
        <5>1. r.cache.blocks = i.cache.blocks
          BY <3>3, <3>9, BlocksAside
        <5> QED BY <5>1 DEF Due
      <4> QED BY <2>3, <2>6, <3>4, <4>1, <4>2, <4>3
    <3> QED BY <3>5, <3>7, <3>8, <3>9
  <2> QED BY <2>5, <2>6
<1> QED BY <1>1, <1>2, <1>3

\* Without a stream buffer the block accessed is there afterwards, and the last
\* request of a miss fetches it.
LEMMA AccessFetches ==
  ASSUME NEW c, CacheFits(c), Unique(c), ~c.config.prefetch, NEW a \in Nat, NEW isWrite \in BOOLEAN,
         NEW stride, NEW picks, NEW r, r = Access(c, a, isWrite, stride, picks)
  PROVE  /\ Present(r.cache, a)
         /\ ~Present(c, a) => Len(r.requests) > 0 /\ r.requests[Len(r.requests)] = ReadRequest(a)
<1>1. CASE Present(c, a)
  <2>1. r = OnHit(c, a, isWrite)
    BY <1>1 DEF Access
  <2> DEFINE s == SetIndex(a)
             w == Min(Holding(c, a))
  <2>2. w \in Way /\ r.cache.blocks[s][w].valid /\ r.cache.blocks[s][w].tag = Tag(a)
    BY <1>1, <2>1, HitEffect
  <2> QED BY <1>1, <2>2 DEF Present, Holding
<1>2. CASE ~Present(c, a)
  <2>1. r = Replacement(c, a, isWrite, picks[1])
    BY <1>2 DEF Access, StreamServes
  <2> QED BY <1>2, <2>1, ReplacementKeeps, ReplacementAsks
<1> QED BY <1>1, <1>2
=============================================================================
