---------------------------- MODULE TraceProofs ----------------------------
(***************************************************************************)
(* Proofs about what is made of a trace: the memory profiler, the trace    *)
(* analyzer and the parser, for windows, loops, traces and files of any    *)
(* length.                                                                 *)
(***************************************************************************)
EXTENDS MemoryProfiler, TraceTools, TraceParser, FiniteSetTheorems, SequenceTheorems,
        WellFoundedInduction, TLAPS

\* A set of natural numbers that is not empty has a least element, and it is
\* what Min returns.
LEMMA LeastNumber ==
  ASSUME NEW S \in SUBSET Nat, S # {}
  PROVE  Min(S) \in S /\ \A y \in S : Min(S) <= y
<1>1. PICK x \in S : \A y \in S : ~(<<y, x>> \in OpToRel(<, Nat))
  BY NatLessThanWellFounded, WFMin, Zenon
<1>2. \A y \in S : ~(y < x)
  BY <1>1 DEF OpToRel
<1>3. \A y \in S : x <= y
  BY <1>2
<1> QED BY <1>3 DEF Min

\* A number below n is its own remainder.
LEMMA SmallRemainder ==
  ASSUME NEW n \in Nat \ {0}, NEW k \in Nat, k < n
  PROVE  k % n = k
<1> DEFINE q == k \div n
           r == k % n
<1>1. k = q * n + r /\ q \in Nat /\ r \in Nat
  OBVIOUS
<1> HIDE DEF q, r
<1>2. q = 0
  BY <1>1
<1> QED BY <1>1, <1>2 DEF r

\* Whole rounds do not change a remainder.
LEMMA RoundsVanish ==
  ASSUME NEW n \in Nat \ {0}, NEW x \in Nat, NEW q \in Nat
  PROVE  (x + q * n) % n = x % n
<1> DEFINE p == x \div n
           m == x % n
<1>1. x = p * n + m /\ p \in Nat /\ m \in 0..(n - 1)
  OBVIOUS
<1> HIDE DEF p, m
<1>2. PICK k \in Nat : x + q * n = k * n + m
  <2>1. x + q * n = (p + q) * n + m /\ p + q \in Nat
    BY <1>1
  <2> QED BY <2>1
<1>3. (k * n + m) % n = m
  BY <1>1
<1> QED BY <1>2, <1>3 DEF m

\* The remainder of a sum is that of the remainder of a summand.
LEMMA RemainderOfSum ==
  ASSUME NEW n \in Nat \ {0}, NEW x \in Nat, NEW i \in Nat
  PROVE  (x + i) % n = (x + (i % n)) % n
<1> DEFINE q == i \div n
           r == i % n
<1>1. i = q * n + r /\ q \in Nat /\ r \in Nat
  OBVIOUS
<1> HIDE DEF q, r
<1>2. x + i = (x + r) + q * n /\ x + r \in Nat
  BY <1>1
<1>3. ((x + r) + q * n) % n = (x + r) % n
  BY <1>1, <1>2, RoundsVanish
<1> QED BY <1>2, <1>3 DEF r

-----------------------------------------------------------------------------
(* Memory profiler *)

Regions == [name : RegionNames, range : RegionRanges]
Stats == [total : Nat, addresses : SUBSET ProfiledAddresses]

\* What is kept of the run s: the last address, the last MaxRecent ones in
\* order, how often each address and each distance occurred.
Kept(t, s) ==
  /\ t.last = IF s = <<>> THEN <<>> ELSE <<s[Len(s)]>>
  /\ t.recent \in Seq(ProfiledAddresses)
  /\ Len(t.recent) = IF Len(s) > MaxRecent THEN MaxRecent ELSE Len(s)
  /\ \A i \in 1..Len(t.recent) : t.recent[i] = s[Len(s) - Len(t.recent) + i]
  /\ t.frequency \in [ProfiledAddresses -> Nat]
  /\ \A a \in ProfiledAddresses : t.frequency[a] = Cardinality({i \in 1..Len(s) : s[i] = a})
  /\ t.strides \in [Deltas -> Nat]
  /\ \A d \in Deltas : t.strides[d] = Cardinality({i \in 2..Len(s) : s[i] - s[i - 1] = d})

\* The regions have counted as many accesses as there are in s.
AllCounted(stats, s) == IsFiniteSet(Countings(stats)) /\ Cardinality(Countings(stats)) = Len(s)

ProfileInv ==
  /\ since \in Seq(ProfiledAddresses)
  /\ regions \in Seq(Regions)
  /\ regionStats \in [Names -> Stats]
  /\ redefined \in BOOLEAN
  /\ Kept(tracked, since)
  /\ ~redefined => AllCounted(regionStats, since)

\* Nothing is kept of an empty run, and no region has counted.
LEMMA NothingKept ==
  /\ Kept(NothingTracked, <<>>)
  /\ \A f : f = [n \in Names |-> NoStats] => f \in [Names -> Stats]
  /\ regionStats = [n \in Names |-> NoStats] => Countings(regionStats) = {}
<1>1. {i \in 1..0 : FALSE} = {} /\ Cardinality({}) = 0
  BY FS_EmptySet
<1>2. \A a : {i \in 1..Len(<<>>) : <<>>[i] = a} = {}
  OBVIOUS
<1>3. \A d : {i \in 2..Len(<<>>) : <<>>[i] - <<>>[i - 1] = d} = {}
  OBVIOUS
<1>4. Kept(NothingTracked, <<>>)
  BY <1>1, <1>2, <1>3, ProfilerAssumption DEF Kept, NothingTracked
<1>5. regionStats = [n \in Names |-> NoStats] => Countings(regionStats) = {}
  BY DEF Countings, NoStats
<1>6. NoStats \in Stats
  BY DEF NoStats, Stats
<1> QED BY <1>4, <1>5, <1>6

\* A set of positions before the last one is finite; it is counted once more
\* when the last one joins it.
LEMMA CountedOnceMore ==
  ASSUME NEW n \in Nat, NEW S \in SUBSET (1..n)
  PROVE  /\ IsFiniteSet(S) /\ Cardinality(S) \in Nat
         /\ Cardinality(S \cup {n + 1}) = Cardinality(S) + 1
<1>1. IsFiniteSet(S)
  <2>1. IsFiniteSet(1..n)
    BY FS_Interval
  <2> QED BY <2>1, FS_Subset
<1>2. n + 1 \notin S
  OBVIOUS
<1> QED BY <1>1, <1>2, FS_AddElement, FS_CardinalityType

\* One more access: the window moves on and three counters follow it.
LEMMA OneMoreIsKept ==
  ASSUME NEW s \in Seq(ProfiledAddresses), NEW t, Kept(t, s), NEW a \in ProfiledAddresses, NEW u,
         u = [last |-> <<a>>,
              recent |-> Window(Append(t.recent, a)),
              frequency |-> [t.frequency EXCEPT ![a] = @ + 1],
              strides |-> IF t.last = <<>> THEN t.strides
                          ELSE [t.strides EXCEPT ![a - t.last[1]] = @ + 1]]
  PROVE  Kept(u, Append(s, a))
<1> DEFINE n == Len(s)
           s2 == Append(s, a)
<1>1. /\ s2 \in Seq(ProfiledAddresses) /\ Len(s2) = n + 1 /\ s2 # <<>> /\ n \in Nat
      /\ s2[n + 1] = a /\ \A i \in 1..n : s2[i] = s[i]
  OBVIOUS
<1>2. \A i \in 1..n : s[i] \in ProfiledAddresses
  OBVIOUS
<1>3. ProfiledAddresses \subseteq Nat /\ MaxRecent \in Nat
  BY ProfilerAssumption
<1> HIDE DEF s2
<1>4. /\ u.recent \in Seq(ProfiledAddresses)
      /\ Len(u.recent) = IF n + 1 > MaxRecent THEN MaxRecent ELSE n + 1
      /\ \A i \in 1..Len(u.recent) : u.recent[i] = s2[n + 1 - Len(u.recent) + i]
  <2> DEFINE r == t.recent
             r2 == Append(r, a)
             k == Len(r)
  <2>1. /\ r \in Seq(ProfiledAddresses) /\ k \in Nat
        /\ k = IF n > MaxRecent THEN MaxRecent ELSE n
        /\ \A i \in 1..k : r[i] = s[n - k + i]
    BY DEF Kept
  <2> HIDE DEF r
  <2>2. /\ r2 \in Seq(ProfiledAddresses) /\ Len(r2) = k + 1 /\ r2 # <<>>
        /\ r2[k + 1] = a /\ \A i \in 1..k : r2[i] = r[i]
    BY <2>1, AppendProperties
  <2> HIDE DEF r2, k
  <2>3. \A i \in 1..(k + 1) : r2[i] = s2[n - k + i]
    <3> TAKE i \in 1..(k + 1)
    <3>1. CASE i = k + 1
      BY <1>1, <2>1, <2>2, <3>1
    <3>2. CASE i # k + 1
      <4>1. i \in 1..k /\ n - k + i \in 1..n
        BY <1>1, <1>3, <2>1, <3>2
      <4> QED BY <1>1, <2>1, <2>2, <4>1
    <3> QED BY <3>1, <3>2
  <2>4. u.recent = IF k + 1 > MaxRecent THEN Tail(r2) ELSE r2
    BY <2>2 DEF Window, r2, r
  <2>5. CASE k + 1 > MaxRecent
    <3>1. k = MaxRecent /\ n + 1 > MaxRecent
      BY <1>1, <1>3, <2>1, <2>5
    <3>2. /\ Tail(r2) \in Seq(ProfiledAddresses) /\ Len(Tail(r2)) = k
          /\ \A i \in 1..k : Tail(r2)[i] = r2[i + 1]
      BY <2>1, <2>2, HeadTailProperties
    <3>3. \A i \in 1..k : Tail(r2)[i] = s2[n + 1 - k + i]
      <4> TAKE i \in 1..k
      <4>1. i + 1 \in 1..(k + 1) /\ n - k + (i + 1) = n + 1 - k + i
        BY <1>1, <2>1
      <4> QED BY <2>3, <3>2, <4>1
    <3>4. u.recent = Tail(r2)
      BY <2>4, <2>5
    <3>5. Len(u.recent) = k
      BY <3>2, <3>4
    <3> QED BY <3>1, <3>2, <3>3, <3>4, <3>5
  <2>6. CASE ~(k + 1 > MaxRecent)
    <3>1. k = n /\ ~(n + 1 > MaxRecent)
      BY <1>1, <1>3, <2>1, <2>6
    <3> QED BY <1>1, <2>2, <2>3, <2>4, <2>6, <3>1
  <2> QED BY <2>5, <2>6
<1>5. /\ u.frequency \in [ProfiledAddresses -> Nat]
      /\ \A b \in ProfiledAddresses : u.frequency[b] = Cardinality({i \in 1..(n + 1) : s2[i] = b})
  <2>1. /\ t.frequency \in [ProfiledAddresses -> Nat]
        /\ \A b \in ProfiledAddresses : t.frequency[b] = Cardinality({i \in 1..n : s[i] = b})
    BY DEF Kept
  <2>2. u.frequency = [t.frequency EXCEPT ![a] = t.frequency[a] + 1]
    OBVIOUS
  <2>3. ASSUME NEW b \in ProfiledAddresses
        PROVE  u.frequency[b] = Cardinality({i \in 1..(n + 1) : s2[i] = b})
    <3> DEFINE S == {i \in 1..n : s[i] = b}
               S2 == {i \in 1..(n + 1) : s2[i] = b}
    <3>1. S2 = IF b = a THEN S \cup {n + 1} ELSE S
      BY <1>1
    <3>2. Cardinality(S \cup {n + 1}) = Cardinality(S) + 1
      BY <1>1, CountedOnceMore
    <3>3. t.frequency[b] = Cardinality(S)
      BY <2>1
    <3> HIDE DEF S, S2
    <3>4. u.frequency[b] = IF b = a THEN Cardinality(S) + 1 ELSE Cardinality(S)
      BY <2>1, <2>2, <3>3
    <3>5. u.frequency[b] = Cardinality(S2)
      BY <3>1, <3>2, <3>4
    <3> QED BY <3>5 DEF S2
  <2> QED BY <2>1, <2>2, <2>3
<1>6. /\ u.strides \in [Deltas -> Nat]
      /\ \A d \in Deltas :
           u.strides[d] = Cardinality({i \in 2..(n + 1) : s2[i] - s2[i - 1] = d})
  <2>1. /\ t.strides \in [Deltas -> Nat]
        /\ \A d \in Deltas : t.strides[d] = Cardinality({i \in 2..n : s[i] - s[i - 1] = d})
        /\ t.last = IF s = <<>> THEN <<>> ELSE <<s[n]>>
    BY DEF Kept
  <2>2. CASE n = 0
    <3>1. s = <<>>
      BY <2>2
    <3>2. u.strides = t.strides
      BY <2>1, <3>1
    <3>3. \A d : /\ {i \in 2..n : s[i] - s[i - 1] = d} = {}
                 /\ {i \in 2..(n + 1) : s2[i] - s2[i - 1] = d} = {}
      BY <2>2
    <3> QED BY <2>1, <3>2, <3>3
  <2>3. CASE n > 0
    <3>1. t.last = <<s[n]>>
      BY <2>1, <2>3
    <3> DEFINE e == a - s[n]
    <3>2. u.strides = [t.strides EXCEPT ![e] = t.strides[e] + 1]
      BY <3>1
    <3>3. e \in Deltas
      BY <1>1, <1>2, <2>3 DEF Deltas
    <3> HIDE DEF e
    <3>4. ASSUME NEW d \in Deltas
          PROVE  u.strides[d] = Cardinality({i \in 2..(n + 1) : s2[i] - s2[i - 1] = d})
      <4> DEFINE S == {i \in 2..n : s[i] - s[i - 1] = d}
                 S2 == {i \in 2..(n + 1) : s2[i] - s2[i - 1] = d}
      <4>1. S2 = IF d = e THEN S \cup {n + 1} ELSE S
        <5>1. \A i \in 2..n : s2[i] = s[i] /\ s2[i - 1] = s[i - 1]
          <6>1. \A i \in 2..n : i \in 1..n /\ i - 1 \in 1..n
            BY <1>1
          <6> QED BY <1>1, <6>1
        <5>2. s2[n + 1] - s2[(n + 1) - 1] = e
          BY <1>1, <2>3 DEF e
        <5> QED BY <1>1, <2>3, <5>1, <5>2
      <4>2. S \in SUBSET (1..n)
        BY <1>1
      <4>3. Cardinality(S \cup {n + 1}) = Cardinality(S) + 1
        BY <1>1, <4>2, CountedOnceMore
      <4>4. t.strides[d] = Cardinality(S)
        BY <2>1
      <4> HIDE DEF S, S2
      <4>5. u.strides[d] = IF d = e THEN Cardinality(S) + 1 ELSE Cardinality(S)
        BY <2>1, <3>2, <4>4
      <4>6. u.strides[d] = Cardinality(S2)
        BY <4>1, <4>3, <4>5
      <4> QED BY <4>6 DEF S2
    <3> QED BY <2>1, <3>2, <3>3, <3>4
  <2> QED BY <1>1, <2>2, <2>3
<1>7. u.last = <<s2[n + 1]>>
  BY <1>1
<1>8. Kept(u, s2)
  <2> HIDE DEF n
  <2> QED BY <1>1, <1>4, <1>5, <1>6, <1>7 DEF Kept
<1> QED BY <1>8 DEF s2

\* An address is counted in one region: the first that contains it, or "unknown".
LEMMA OneRegion ==
  ASSUME regions \in Seq(Regions), NEW a \in ProfiledAddresses
  PROVE  \E n \in Names : RegionsOf(a) = {n}
<1> DEFINE found == {i \in DOMAIN regions : contains(regions[i], a)}
<1>1. CASE found = {}
  BY <1>1 DEF RegionsOf, Names
<1>2. CASE found # {}
  <2>1. found \in SUBSET Nat
    OBVIOUS
  <2> HIDE DEF found
  <2>2. Min(found) \in found
    BY <1>2, <2>1, LeastNumber
  <2>3. regions[Min(found)].name \in RegionNames
    <3>1. Min(found) \in 1..Len(regions)
      BY <2>2 DEF found
    <3>2. regions[Min(found)] \in Regions
      BY <3>1
    <3> QED BY <3>2 DEF Regions
  <2>4. RegionsOf(a) = {regions[Min(found)].name}
    BY <1>2 DEF RegionsOf, found
  <2> QED BY <2>3, <2>4 DEF Names
<1> QED BY <1>1, <1>2

\* Counting an access in one region is one more counting.
LEMMA OneMoreCounting ==
  ASSUME NEW f \in [Names -> Stats], NEW g, NEW m \in Names, NEW a,
         g = [n \in Names |-> IF n \in {m} THEN addAccess(f[n], a) ELSE f[n]],
         IsFiniteSet(Countings(f))
  PROVE  IsFiniteSet(Countings(g)) /\ Cardinality(Countings(g)) = Cardinality(Countings(f)) + 1
<1> DEFINE C == Countings(f)
           D == Countings(g)
<1> DEFINE t == f[m].total + 1
<1>1. f[m].total \in Nat /\ g[m].total = t /\ \A n \in Names : n # m => g[n] = f[n]
  BY DEF addAccess, Stats
<1>2. \A n \in Names : f[n].total \in Nat
  BY DEF Stats
<1>3. 1..t = (1..f[m].total) \cup {t} /\ t \notin 1..f[m].total
  BY <1>1
<1> HIDE DEF t
<1>4. D = C \cup {<<m, t>>}
  <2>1. \A x \in D : x \in C \cup {<<m, t>>}
    BY <1>1, <1>3 DEF Countings
  <2>2. \A x \in C : x \in D
    BY <1>1, <1>3 DEF Countings
  <2>3. <<m, t>> \in D
    BY <1>1, <1>3 DEF Countings
  <2> QED BY <2>1, <2>2, <2>3
<1>5. <<m, t>> \notin C
  BY <1>3 DEF Countings
<1>6. /\ IsFiniteSet(C \cup {<<m, t>>})
      /\ Cardinality(C \cup {<<m, t>>}) = Cardinality(C) + 1
  BY <1>5, FS_AddElement
<1> QED BY <1>4, <1>6

\* Every call keeps the invariant.
LEMMA ProfileStep == ProfileInv /\ [ProfileNext]_profileVars => ProfileInv'
<1> SUFFICES ASSUME ProfileInv, [ProfileNext]_profileVars PROVE ProfileInv'
  OBVIOUS
<1>0. NoStats \in Stats
  BY DEF NoStats, Stats
<1>1. ASSUME NEW name \in RegionNames, NEW range \in RegionRanges, defineRegion(name, range)
      PROVE  ProfileInv'
  <2>1. /\ regions' = Append(regions, [name |-> name, range |-> range])
        /\ regionStats' = [regionStats EXCEPT ![name] = NoStats]
        /\ redefined' = (redefined \/ regionStats[name] # NoStats)
        /\ tracked' = tracked /\ since' = since
    BY <1>1 DEF defineRegion
  <2>2. regions' \in Seq(Regions)
    <3>1. [name |-> name, range |-> range] \in Regions
      BY DEF Regions
    <3> QED BY <2>1, <3>1, AppendProperties DEF ProfileInv
  <2>3. regionStats' \in [Names -> Stats]
    BY <1>0, <2>1 DEF ProfileInv
  <2>4. redefined' \in BOOLEAN
    BY <2>1
  <2>5. ~redefined' => ~redefined /\ regionStats' = regionStats
    BY <2>1 DEF ProfileInv, Names
  <2>6. ~redefined' => AllCounted(regionStats', since')
    <3> SUFFICES ASSUME ~redefined'
                 PROVE  AllCounted(regionStats', since')
      OBVIOUS
    <3>1. AllCounted(regionStats, since)
      BY <2>5 DEF ProfileInv
    <3> QED BY <2>1, <2>5, <3>1
  <2>7. since' \in Seq(ProfiledAddresses) /\ Kept(tracked', since')
    BY <2>1 DEF ProfileInv
  <2> QED BY <2>2, <2>3, <2>4, <2>6, <2>7 DEF ProfileInv, Kept
<1>2. ASSUME NEW a \in ProfiledAddresses, trackAccess(a)
      PROVE  ProfileInv'
  <2>1. since' = Append(since, a) /\ regions' = regions /\ redefined' = redefined
    BY <1>2 DEF trackAccess
  <2>2. since' \in Seq(ProfiledAddresses) /\ Len(since') = Len(since) + 1
    BY <2>1, AppendProperties DEF ProfileInv
  <2>3. Kept(tracked', since')
    <3>1. since \in Seq(ProfiledAddresses) /\ Kept(tracked, since)
      BY DEF ProfileInv
    <3>2. Kept(tracked', Append(since, a))
      BY <1>2, <3>1, OneMoreIsKept DEF trackAccess
    <3> QED BY <2>1, <3>2
  <2>4. PICK m \in Names : RegionsOf(a) = {m}
    BY OneRegion DEF ProfileInv
  <2>5. regionStats' = [n \in Names |-> IF n \in {m} THEN addAccess(regionStats[n], a)
                                         ELSE regionStats[n]]
    BY <1>2, <2>4 DEF trackAccess
  <2>6. regionStats \in [Names -> Stats]
    BY DEF ProfileInv
  <2>7. regionStats' \in [Names -> Stats]
    <3>1. ASSUME NEW x \in Stats PROVE addAccess(x, a) \in Stats
      BY DEF addAccess, Stats
    <3> QED BY <2>5, <2>6, <3>1
  <2>8. ~redefined' => AllCounted(regionStats', since')
    <3> SUFFICES ASSUME ~redefined'
                 PROVE  AllCounted(regionStats', since')
      OBVIOUS
    <3>1. AllCounted(regionStats, since)
      BY <2>1 DEF ProfileInv
    <3>2. /\ IsFiniteSet(Countings(regionStats'))
          /\ Cardinality(Countings(regionStats')) = Cardinality(Countings(regionStats)) + 1
      BY <2>5, <2>6, <3>1, OneMoreCounting DEF AllCounted
    <3> QED BY <2>2, <3>1, <3>2 DEF AllCounted
  <2>9. redefined' \in BOOLEAN /\ regions' \in Seq(Regions)
    BY <2>1 DEF ProfileInv
  <2> QED BY <2>2, <2>3, <2>7, <2>8, <2>9 DEF ProfileInv, Kept
<1>3. CASE resetProfiler
  <2>1. /\ tracked' = NothingTracked /\ since' = <<>> /\ redefined' = FALSE /\ regions' = regions
        /\ regionStats' = [n \in Names |-> NoStats]
    BY <1>3 DEF resetProfiler, Cleared
  <2>2. Countings(regionStats') = {}
    BY <2>1 DEF Countings, NoStats
  <2>3. Kept(tracked', since')
    BY <2>1, NothingKept
  <2>4. since' \in Seq(ProfiledAddresses) /\ Len(since') = 0
    BY <2>1
  <2>5. regions' \in Seq(Regions)
    BY <2>1 DEF ProfileInv
  <2>6. redefined' \in BOOLEAN
    BY <2>1
  <2>7. regionStats' \in [Names -> Stats]
    BY <1>0, <2>1
  <2> QED BY <2>2, <2>3, <2>4, <2>5, <2>6, <2>7, FS_EmptySet DEF ProfileInv, AllCounted
<1>4. CASE UNCHANGED profileVars
  <2>1. /\ tracked' = tracked /\ regions' = regions /\ regionStats' = regionStats
        /\ since' = since /\ redefined' = redefined
    BY <1>4 DEF profileVars
  <2> QED BY <2>1, Zenon DEF ProfileInv, Kept
<1> QED BY <1>1, <1>2, <1>3, <1>4 DEF ProfileNext

\* A new profiler has kept nothing.
LEMMA ProfileInitially == ProfileInit => ProfileInv
<1> SUFFICES ASSUME ProfileInit PROVE ProfileInv
  OBVIOUS
<1>1. /\ tracked = NothingTracked /\ since = <<>> /\ redefined = FALSE /\ regions = <<>>
      /\ regionStats = [n \in Names |-> NoStats]
  BY DEF ProfileInit
<1>2. Countings(regionStats) = {} /\ regionStats \in [Names -> Stats] /\ Kept(tracked, since)
  BY <1>1, NothingKept
<1>3. since \in Seq(ProfiledAddresses) /\ Len(since) = 0 /\ regions \in Seq(Regions)
  <2>1. <<>> \in Seq(ProfiledAddresses) /\ Len(<<>>) = 0 /\ <<>> \in Seq(Regions)
    OBVIOUS
  <2> QED BY <1>1, <2>1, Zenon
<1>4. redefined \in BOOLEAN
  BY <1>1
<1> QED BY <1>2, <1>3, <1>4, FS_EmptySet DEF ProfileInv, AllCounted

\* For any window, regions and addresses, and however accesses, definitions and
\* resets are mixed, the profile is that of the accesses since the last reset.
THEOREM ProfilesAreOfTheirRun == ProfileSpec => []ProfileIsOfItsRun
<1>1. ProfileInv => ProfileIsOfItsRun
  <2> SUFFICES ASSUME ProfileInv PROVE ProfileIsOfItsRun
    OBVIOUS
  <2> DEFINE r == tracked.recent
             n == Len(since)
             first == IF n > MaxRecent THEN n - MaxRecent + 1 ELSE 1
             window == SubSeq(since, first, n)
  <2>1. /\ since \in Seq(ProfiledAddresses) /\ n \in Nat /\ DOMAIN since = 1..n
        /\ \A i \in 1..n : since[i] \in ProfiledAddresses
    BY DEF ProfileInv
  <2>2. /\ r \in Seq(ProfiledAddresses)
        /\ Len(r) = IF n > MaxRecent THEN MaxRecent ELSE n
        /\ \A i \in 1..Len(r) : r[i] = since[n - Len(r) + i]
    BY DEF ProfileInv, Kept
  <2>3. MaxRecent \in Nat
    BY ProfilerAssumption
  <2> HIDE DEF r, n
  <2>4. first \in Int /\ first >= 1 /\ n - first + 1 = Len(r) /\ n - Len(r) = first - 1
    BY <2>1, <2>2, <2>3
  <2> HIDE DEF first
  <2>5. \A i \in first..n : since[i] \in ProfiledAddresses
    BY <2>1, <2>4
  <2>6. /\ window \in Seq(ProfiledAddresses)
        /\ Len(window) = IF first <= n THEN n - first + 1 ELSE 0
        /\ \A i \in 1..(n - first + 1) : window[i] = since[first + i - 1]
    BY <2>1, <2>4, <2>5, SubSeqProperties
  <2> HIDE DEF window
  <2>7. Len(window) = Len(r)
    BY <2>1, <2>2, <2>4, <2>6
  <2>8. \A i \in 1..Len(r) : r[i] = window[i]
    <3> TAKE i \in 1..Len(r)
    <3>1. r[i] = since[n - Len(r) + i] /\ i \in 1..(n - first + 1)
      BY <2>2, <2>4
    <3>2. n - Len(r) + i = first + i - 1
      BY <2>1, <2>2, <2>4
    <3> QED BY <2>6, <3>1, <3>2
  <2>9. r = window
    BY <2>2, <2>6, <2>7, <2>8, SeqEqual
  <2> QED BY <2>1, <2>9 DEF ProfileInv, AllCounted, Kept, ProfileIsOfItsRun, r, n, first, window
<1> QED BY <1>1, ProfileInitially, ProfileStep, PTL DEF ProfileSpec

\* A part of a run that repeats a loop repeats one of the same size, wherever it
\* starts.
LEMMA PartRepeats ==
  ASSUME NEW s \in Seq(ProfiledAddresses), NEW n \in Nat \ {0}, Repeats(s, n),
         NEW r \in Seq(ProfiledAddresses), NEW x \in Nat, Len(s) = x + Len(r),
         \A i \in 1..Len(r) : r[i] = s[x + i]
  PROVE  Repeats(r, n)
<1>1. \A k \in 0..(Len(s) - 1) : s[k + 1] = s[(k % n) + 1]
  <2> TAKE k \in 0..(Len(s) - 1)
  <2>1. CASE k < n
    <3>1. k % n = k
      <4>1. k \in Nat
        OBVIOUS
      <4> QED BY <2>1, <4>1, SmallRemainder, Zenon
    <3> QED BY <3>1
  <2>2. CASE ~(k < n)
    <3>1. k \in n..(Len(s) - 1)
      BY <2>2
    <3> QED BY <3>1 DEF Repeats
  <2> QED BY <2>1, <2>2
<1> SUFFICES ASSUME NEW i \in n..(Len(r) - 1) PROVE r[i + 1] = r[(i % n) + 1]
  BY DEF Repeats
<1> DEFINE j == i % n
<1>2. i \in Nat /\ j \in 0..(n - 1) /\ j + 1 \in 1..Len(r) /\ i + 1 \in 1..Len(r)
  OBVIOUS
<1>3. (x + i) % n = (x + j) % n
  <2>1. i \in Nat
    BY <1>2
  <2> QED BY <2>1, RemainderOfSum, Zenon
<1> HIDE DEF j
<1>4. r[i + 1] = s[x + i + 1] /\ r[j + 1] = s[x + j + 1]
  <2>1. x + (i + 1) = x + i + 1 /\ x + (j + 1) = x + j + 1
    BY <1>2
  <2>2. PICK u, v : u = i + 1 /\ v = j + 1
    OBVIOUS
  <2>3. r[u] = s[x + u] /\ r[v] = s[x + v]
    BY <1>2, <2>2
  <2> QED BY ONLY <2>1, <2>2, <2>3
<1>5. x + i \in 0..(Len(s) - 1) /\ x + j \in 0..(Len(s) - 1)
  BY <1>2
<1>6. s[x + i + 1] = s[((x + i) % n) + 1] /\ s[x + j + 1] = s[((x + j) % n) + 1]
  BY <1>1, <1>5
<1> QED BY <1>3, <1>4, <1>6 DEF j

\* For any window and any loop that it holds three times, the profiler recognises
\* a run that only repeats the loop.
THEOREM ProfiledLoopsAreRecognised == ProfileSpec => []ProfiledLoopIsRecognised
<1>1. ProfileInv => ProfiledLoopIsRecognised
  <2> SUFFICES ASSUME ProfileInv, NEW n \in MinRepeated..MaxRecent, Repeats(since, n),
                      3 * n <= Len(tracked.recent), Len(tracked.recent) >= MinRecent
               PROVE  detectAccessPattern(tracked) \in {"Sequential", "Strided", "Looping"}
    BY DEF ProfiledLoopIsRecognised
  <2> DEFINE r == tracked.recent
             x == Len(since) - Len(r)
  <2>1. n \in Nat \ {0} /\ MinRecent \in Nat /\ MinRepeated \in Nat /\ MaxRecent \in Nat
    BY ProfilerAssumption
  <2>2. /\ since \in Seq(ProfiledAddresses) /\ r \in Seq(ProfiledAddresses)
        /\ Len(r) = IF Len(since) > MaxRecent THEN MaxRecent ELSE Len(since)
        /\ \A i \in 1..Len(r) : r[i] = since[x + i]
    BY DEF ProfileInv, Kept
  <2> HIDE DEF r
  <2>3. x \in Nat /\ Len(since) = x + Len(r) /\ Len(r) \in Nat
    BY <2>1, <2>2
  <2> HIDE DEF x
  <2>4. Repeats(r, n)
    BY <2>1, <2>2, <2>3, PartRepeats
  <2>5. 3 * n <= Len(r) /\ Len(r) >= MinRecent
    BY DEF r
  <2>6. n \in CandidateSizes(r)
    <3>1. n <= Len(r) \div 3
      BY <2>1, <2>3, <2>5
    <3> QED BY <2>1, <2>3, <3>1 DEF CandidateSizes
  <2>7. ~(Len(r) < MinRecent)
    BY <2>1, <2>3, <2>5
  <2> QED BY <2>4, <2>6, <2>7 DEF detectAccessPattern, r
<1> QED BY <1>1, ProfileInitially, ProfileStep, PTL DEF ProfileSpec

-----------------------------------------------------------------------------
(* Trace tools *)

\* How a filter decides on the first i accesses.
Passing(s, limit, g, i) ==
  IF i = 0 THEN <<>> ELSE IF s[i] <= limit THEN Append(g[i - 1], s[i]) ELSE g[i - 1]

\* A filter yields a trace: by induction on the number of accesses it has seen.
LEMMA FilteredIsATrace ==
  ASSUME NEW s \in Seq(Int), NEW limit \in Int
  PROVE  Filtered(s, limit) \in Seq(Int)
<1> DEFINE Good(n) == \E g : g = [i \in 0..n |-> Passing(s, limit, g, i)]
           Bad == {n \in 0..Len(s) : ~Good(n)}
<1>1. Len(s) \in Nat /\ \A i \in 1..Len(s) : s[i] \in Int
  OBVIOUS
<1>2. Good(0)
  <2> DEFINE g == [i \in 0..0 |-> <<>>]
  <2>1. g = [i \in 0..0 |-> Passing(s, limit, g, i)]
    BY DEF Passing
  <2> QED BY <2>1
<1>3. ASSUME NEW n \in 1..Len(s), Good(n - 1)
      PROVE  Good(n)
  <2>1. PICK g : g = [i \in 0..(n - 1) |-> Passing(s, limit, g, i)]
    BY <1>3
  <2>2. PICK h : h = [i \in 0..n |-> IF i = n THEN Passing(s, limit, g, n) ELSE g[i]]
    OBVIOUS
  <2>3. ASSUME NEW i \in 0..n PROVE h[i] = Passing(s, limit, h, i)
    <3>1. i # 0 => h[i - 1] = g[i - 1]
      BY <2>2
    <3>2. Passing(s, limit, h, i) = Passing(s, limit, g, i)
      BY <3>1 DEF Passing
    <3>3. h[i] = Passing(s, limit, g, i)
      <4>1. \A j \in 0..(n - 1) : g[j] = Passing(s, limit, g, j)
        BY <2>1
      <4>2. i # n => i \in 0..(n - 1)
        OBVIOUS
      <4> QED BY <2>2, <4>1, <4>2
    <3> QED BY <3>2, <3>3
  <2>4. h = [i \in 0..n |-> Passing(s, limit, h, i)]
    BY <2>2, <2>3
  <2> QED BY <2>4
<1> HIDE DEF Good
<1>4. Good(Len(s))
  <2> SUFFICES ASSUME Bad # {} PROVE FALSE
    BY <1>1
  <2>1. Bad \in SUBSET Nat
    OBVIOUS
  <2>2. Min(Bad) \in Bad /\ \A y \in Bad : Min(Bad) <= y
    <3> HIDE DEF Bad
    <3> QED BY <2>1, LeastNumber
  <2>3. PICK n \in 0..Len(s) : ~Good(n) /\ \A y \in Bad : n <= y
    BY <2>2
  <2>4. n # 0
    BY <1>2, <2>3
  <2>5. Good(n - 1)
    BY <2>3, <2>4
  <2> QED BY <1>3, <2>3, <2>4, <2>5
<1>5. \E g : g = [i \in 0..Len(s) |-> Passing(s, limit, g, i)]
  BY <1>4 DEF Good
<1> DEFINE f == CHOOSE g : g = [i \in 0..Len(s) |-> Passing(s, limit, g, i)]
<1>6. f = [i \in 0..Len(s) |-> Passing(s, limit, f, i)]
  BY <1>5, Zenon
<1>7. Filtered(s, limit) = f[Len(s)]
  BY Zenon DEF Filtered, Passing
<1> HIDE DEF f
<1> DEFINE Odd == {i \in 0..Len(s) : f[i] \notin Seq(Int)}
<1>8. Odd = {}
  <2> SUFFICES ASSUME Odd # {} PROVE FALSE
    OBVIOUS
  <2>1. Odd \in SUBSET Nat
    OBVIOUS
  <2>2. Min(Odd) \in Odd /\ \A y \in Odd : Min(Odd) <= y
    <3> HIDE DEF Odd
    <3> QED BY <2>1, LeastNumber
  <2>3. PICK i \in 0..Len(s) : f[i] \notin Seq(Int) /\ \A y \in Odd : i <= y
    BY <2>2
  <2>4. f[i] = Passing(s, limit, f, i)
    BY <1>6
  <2>5. i # 0
    BY <2>3, <2>4 DEF Passing
  <2>6. f[i - 1] \in Seq(Int) /\ s[i] \in Int
    BY <1>1, <2>3, <2>5
  <2> QED BY <2>3, <2>4, <2>6 DEF Passing
<1> QED BY <1>1, <1>7, <1>8

\* The steps of a trace of n accesses are the positions 2 to n.
LEMMA StepsOfTrace ==
  ASSUME NEW s \in Seq(Int), Len(s) > 1
  PROVE  /\ Steps(s) = 2..Len(s) /\ IsFiniteSet(Steps(s)) /\ Cardinality(Steps(s)) = Len(s) - 1
         /\ \A i \in Steps(s) : s[i] \in Int /\ s[i - 1] \in Int /\ Step(s, i) \in Int
<1>1. Steps(s) = 2..Len(s) /\ Len(s) \in Nat
  BY DEF Steps
<1>2. IsFiniteSet(2..Len(s)) /\ Cardinality(2..Len(s)) = Len(s) - 1
  BY <1>1, FS_Interval
<1>3. \A i \in 2..Len(s) : i \in 1..Len(s) /\ i - 1 \in 1..Len(s)
  BY <1>1
<1>4. \A i \in 2..Len(s) : s[i] \in Int /\ s[i - 1] \in Int
  BY <1>3
<1> QED BY <1>1, <1>2, <1>4 DEF Step

\* No two strides can each be that of more than 60 % of the steps.
LEMMA OneStride ==
  ASSUME NEW s \in Seq(Int), Len(s) > 1, NEW d \in StridesOf(s), NEW e \in StridesOf(s)
  PROVE  d = e
<1> SUFFICES ASSUME d # e PROVE FALSE
  OBVIOUS
<1> DEFINE A == {i \in Steps(s) : Step(s, i) = d}
           B == {i \in Steps(s) : Step(s, i) = e}
           n == Len(s) - 1
<1>1. /\ IsFiniteSet(Steps(s)) /\ Cardinality(Steps(s)) = n /\ n \in Nat /\ n > 0
  BY StepsOfTrace
<1>2. 10 * Cardinality(A) > 6 * n /\ 10 * Cardinality(B) > 6 * n
  BY DEF StridesOf
<1>3. A \in SUBSET Steps(s) /\ B \in SUBSET Steps(s) /\ A \cap B = {}
  OBVIOUS
<1> HIDE DEF A, B, n
<1>4. IsFiniteSet(A) /\ IsFiniteSet(B)
  BY <1>1, <1>3, FS_Subset
<1>5. Cardinality(A \cup B) <= n
  <2>1. A \cup B \in SUBSET Steps(s)
    BY <1>3
  <2> QED BY <1>1, <2>1, FS_Subset
<1>6. Cardinality(A \cup B) = Cardinality(A) + Cardinality(B) - Cardinality(A \cap B)
  BY <1>4, FS_Union
<1>7. Cardinality(A \cap B) = 0
  BY <1>3, FS_EmptySet
<1>8. Cardinality(A) \in Nat /\ Cardinality(B) \in Nat
  BY <1>4, FS_CardinalityType
<1> QED BY <1>1, <1>2, <1>5, <1>6, <1>7, <1>8

\* The stride reported is one of the trace.
LEMMA StrideIsTaken ==
  ASSUME NEW s \in Seq(Int), Len(s) > 1, StridesOf(s) # {}
  PROVE  /\ Min(StridesOf(s)) \in StridesOf(s)
         /\ \E i \in Steps(s) : s[i] = s[i - 1] + Min(StridesOf(s))
<1>1. PICK d \in StridesOf(s) : TRUE
  OBVIOUS
<1>2. StridesOf(s) = {d}
  BY <1>1, OneStride
<1>3. PICK i \in Steps(s) : d = Step(s, i)
  BY <1>1 DEF StridesOf
<1>4. d \in Int /\ s[i] \in Int /\ s[i - 1] \in Int
  BY <1>3, StepsOfTrace
<1>5. Min({d}) = d
  BY <1>4 DEF Min
<1>6. s[i] = s[i - 1] + d
  BY <1>3, <1>4 DEF Step
<1> QED BY <1>2, <1>3, <1>5, <1>6

\* A trace of one stride is reported as what it is.
LEMMA SequentialIsRecognised ==
  ASSUME NEW s \in Seq(Int), Len(s) >= MinPattern, NEW d \in Nat \ {0},
         \A i \in 1..Len(s) : s[i] = 1 + (i - 1) * d
  PROVE  IF d \in {1, 4, 8} THEN detectPattern(s).pattern = "Sequential"
         ELSE detectPattern(s).pattern = "Strided" /\ detectPattern(s).stride = d
<1>1. Len(s) \in Nat /\ Len(s) > 1 /\ ~(Len(s) < MinPattern)
  BY ToolsAssumption
<1>2. Steps(s) = 2..Len(s) /\ IsFiniteSet(Steps(s)) /\ Cardinality(Steps(s)) = Len(s) - 1
  BY <1>1, StepsOfTrace
<1>3. \A i \in Steps(s) : s[i] - s[i - 1] = d
  <2> TAKE i \in Steps(s)
  <2>1. i \in 1..Len(s) /\ i - 1 \in 1..Len(s) /\ i \in Int
    BY <1>1, <1>2
  <2>2. s[i] = 1 + (i - 1) * d /\ s[i - 1] = 1 + ((i - 1) - 1) * d
    BY <2>1
  <2>3. (i - 1) * d = ((i - 1) - 1) * d + d
    BY <2>1
  <2> QED BY <2>1, <2>2, <2>3
<1>4. CASE d \in {1, 4, 8}
  <2>1. {i \in Steps(s) : s[i] - s[i - 1] \in {1, 4, 8}} = Steps(s)
    BY <1>3, <1>4
  <2>2. isSequentialPattern(s)
    <3>1. 10 * Cardinality(Steps(s)) > 7 * (Len(s) - 1)
      BY <1>1, <1>2
    <3> QED BY <1>1, <2>1, <3>1 DEF isSequentialPattern
  <2> QED BY <1>1, <1>4, <2>2 DEF detectPattern
<1>5. CASE d \notin {1, 4, 8}
  <2>1. {i \in Steps(s) : s[i] - s[i - 1] \in {1, 4, 8}} = {}
    BY <1>3, <1>5
  <2>2. ~isSequentialPattern(s)
    <3>1. Cardinality({}) = 0 /\ ~(10 * 0 > 7 * (Len(s) - 1))
      BY <1>1, FS_EmptySet
    <3> QED BY <2>1, <3>1 DEF isSequentialPattern
  <2>3. {i \in Steps(s) : Step(s, i) = d} = Steps(s)
    BY <1>3 DEF Step
  <2>4. 2 \in Steps(s)
    BY <1>1, <1>2
  <2>5. {Step(s, i) : i \in Steps(s)} = {d}
    BY <1>3, <2>4 DEF Step
  <2>6. 10 * Cardinality({i \in Steps(s) : Step(s, i) = d}) > 6 * (Len(s) - 1)
    <3>1. 10 * Cardinality(Steps(s)) > 6 * (Len(s) - 1)
      BY <1>1, <1>2
    <3> QED BY <2>3, <3>1
  <2>7. StridesOf(s) = {d}
    BY <2>5, <2>6 DEF StridesOf
  <2>8. detectTraceStride(s) = {d}
    BY <1>1, <2>7, ToolsAssumption DEF detectTraceStride
  <2>9. Min({d}) = d
    BY DEF Min
  <2> QED BY <1>1, <1>5, <2>2, <2>8, <2>9 DEF detectPattern
<1> QED BY <1>4, <1>5

\* A loop that the trace holds three times is among the sizes that are found.
LEMMA LoopIsFound ==
  ASSUME NEW s \in Seq(Int), Len(s) >= MinLoop, NEW n \in Nat \ {0}, n >= 3, n <= MaxLoop,
         3 * n <= Len(s), NEW loop,
         \A i \in 1..Len(s) : s[i] = loop[(i - 1) % n]
  PROVE  n \in loopSizesOf(s)
<1>1. Len(s) \in Nat /\ MaxLoop \in Nat /\ MinLoop \in Nat
  BY ToolsAssumption
<1>2. n \in Tested(s, n)
  <2>1. n % n = 0
    <3>1. (0 + 1 * n) % n = 0 % n /\ 0 % n = 0
      BY RoundsVanish, SmallRemainder
    <3> QED BY <3>1
  <2> QED BY <1>1, <2>1 DEF Tested
<1>3. Matches(s, n) = Tested(s, n)
  <2> SUFFICES ASSUME NEW i \in Tested(s, n) PROVE s[i + 1] = s[(i % n) + 1]
    BY DEF Matches
  <2> DEFINE j == i % n
  <2>1. i \in n..(Len(s) - 1)
    BY DEF Tested
  <2>2. i \in Nat /\ i + 1 \in 1..Len(s) /\ j \in Nat /\ j < n
    BY <1>1, <2>1
  <2>3. j % n = j
    <3> HIDE DEF j
    <3> QED BY <2>2, SmallRemainder
  <2> HIDE DEF j
  <2>4. j + 1 \in 1..Len(s)
    BY <1>1, <2>2
  <2>5. s[i + 1] = loop[i % n] /\ s[j + 1] = loop[j % n]
    <3>1. (i + 1) - 1 = i /\ (j + 1) - 1 = j
      BY <2>2
    <3> QED BY <2>2, <2>4, <3>1
  <2> QED BY <2>3, <2>5 DEF j
<1>4. IsFiniteSet(Tested(s, n)) /\ Cardinality(Tested(s, n)) \in Nat \ {0}
  <2>0. n \in Int /\ Len(s) - 1 \in Int
    BY <1>1
  <2>1. Tested(s, n) \in SUBSET (n..(Len(s) - 1)) /\ IsFiniteSet(n..(Len(s) - 1))
    BY <2>0, FS_Interval DEF Tested
  <2>2. IsFiniteSet(Tested(s, n))
    BY <2>1, FS_Subset
  <2> QED BY <1>2, <2>2, FS_CardinalityType, FS_EmptySet
<1>5. 10 * Cardinality(Matches(s, n)) > 8 * Cardinality(Tested(s, n))
  BY <1>3, <1>4
<1>6. n \in 3..Min({Len(s) \div 3, MaxLoop})
  <2>1. Len(s) \div 3 \in Nat /\ n <= Len(s) \div 3
    BY <1>1
  <2>2. Min({Len(s) \div 3, MaxLoop}) \in {Len(s) \div 3, MaxLoop}
    <3> DEFINE p == Len(s) \div 3
    <3> HIDE DEF p
    <3>1. {p, MaxLoop} \in SUBSET Nat /\ {p, MaxLoop} # {}
      BY <1>1, <2>1 DEF p
    <3>2. Min({p, MaxLoop}) \in {p, MaxLoop}
      BY <3>1, LeastNumber
    <3> QED BY <3>2 DEF p
  <2>3. n <= Min({Len(s) \div 3, MaxLoop}) /\ Min({Len(s) \div 3, MaxLoop}) \in Nat
    BY <1>1, <2>1, <2>2
  <2> QED BY <2>3
<1> QED BY <1>1, <1>2, <1>5, <1>6 DEF loopSizesOf

\* Such a trace is not reported as random, nor with a longer loop.
LEMMA LoopIsRecognised ==
  ASSUME NEW s \in Seq(Int), NEW n \in loopSizesOf(s), n \in Nat
  PROVE  /\ detectPattern(s).pattern # "Random"
         /\ detectPattern(s).pattern = "Looping" => detectPattern(s).loopSize <= n
<1>1. loopSizesOf(s) # {} /\ loopSizesOf(s) \in SUBSET Nat
  <2>1. loopSizesOf(s) \subseteq 3..Min({Len(s) \div 3, MaxLoop})
    BY DEF loopSizesOf
  <2> QED BY <2>1
<1>2. Min(loopSizesOf(s)) <= n
  BY <1>1, LeastNumber
<1> QED BY <1>1, <1>2 DEF detectPattern, NoReport

\* The report is that of the trace, and the trace is what made it.
ToolsInv ==
  /\ accesses \in Seq(Int)
  /\ report = NoReport \/ report = detectPattern(accesses)
  /\ made.kind = "sequential" =>
       /\ made.size \in Nat \ {0}
       /\ \A i \in 1..Len(accesses) : accesses[i] = 1 + (i - 1) * made.size
  /\ made.kind = "loop" =>
       \E loop : \A i \in 1..Len(accesses) : accesses[i] = loop[(i - 1) % made.size]

\* A function on 1..n is a sequence of length n.
LEMMA TraceOf ==
  ASSUME NEW n \in Nat, NEW f \in [1..n -> Int]
  PROVE  f \in Seq(Int) /\ Len(f) = n
OBVIOUS

\* What a generator makes is a trace, and one of the kind it was asked for.
LEMMA GeneratedIsATrace ==
  ASSUME NEW n \in Counts, Generate
  PROVE  ToolsInv'
<1>1. Counts \subseteq Nat /\ Counts # {} /\ Min(Counts) \in Nat
  <2>1. Counts \in SUBSET Nat /\ Counts # {}
    BY ToolsAssumption
  <2> QED BY <2>1, LeastNumber
<1>2. ASSUME NEW kind \in {"random", "locality", "looping"}, NEW size, NEW k \in Nat,
             NEW s \in [1..k -> Int], Make(kind, size, s)
      PROVE  ToolsInv'
  <2>1. accesses' = s /\ report' = NoReport /\ made'.kind = kind
    BY <1>2 DEF Make
  <2>2. accesses' \in Seq(Int)
    BY <2>1, TraceOf
  <2> QED BY <2>1, <2>2 DEF ToolsInv
<1>3. ASSUME NEW m \in Counts, NEW d \in Strides,
             Make("sequential", d, generateSequentialTrace(1, m, d))
      PROVE  ToolsInv'
  <2> DEFINE s == generateSequentialTrace(1, m, d)
  <2>1. accesses' = s /\ report' = NoReport /\ made'.kind = "sequential" /\ made'.size = d
    BY <1>3 DEF Make
  <2>2. m \in Nat /\ d \in Nat \ {0}
    BY ToolsAssumption
  <2>3. s \in [1..m -> Int] /\ \A i \in 1..m : s[i] = 1 + (i - 1) * d
    BY <2>2 DEF generateSequentialTrace
  <2> HIDE DEF s
  <2>4. s \in Seq(Int) /\ Len(s) = m
    BY <2>2, <2>3, TraceOf
  <2> QED BY <2>1, <2>2, <2>3, <2>4 DEF ToolsInv
<1>4. ASSUME NEW m \in Counts, NEW d \in Strides, NEW size \in LoopSizes,
             Make("looping", size, generateLoopingTrace(1, m, d, size))
      PROVE  ToolsInv'
  <2>1. m \in Nat /\ d \in Nat /\ size \in Nat \ {0}
    BY ToolsAssumption
  <2>2. generateLoopingTrace(1, m, d, size) \in [1..m -> Int]
    <3>1. \A i \in 1..m : (i - 1) % size \in Int
      BY <2>1
    <3>2. \A i \in 1..m : 1 + ((i - 1) % size) * d \in Int
      BY <2>1, <3>1
    <3> QED BY <3>2 DEF generateLoopingTrace
  <2> QED BY <1>2, <1>4, <2>1, <2>2
<1>5. ASSUME NEW s \in generateRandomTrace(Min(Counts)), Make("random", 0, s)
      PROVE  ToolsInv'
  <2>1. s \in [1..Min(Counts) -> Int]
    BY ToolsAssumption DEF generateRandomTrace
  <2> QED BY <1>1, <1>2, <1>5, <2>1
<1>6. ASSUME NEW s \in generateLocalityTrace(Min(Counts) \div NumRegions), Make("locality", 0, s)
      PROVE  ToolsInv'
  <2> DEFINE p == Min(Counts) \div NumRegions
             k == NumRegions * p
  <2>1. p \in Nat /\ k \in Nat /\ NumRegions \in Nat /\ RegionSize \in Nat
    BY <1>1, ToolsAssumption
  <2>2. PICK offset \in [1..k -> 0..(RegionSize - 1)] :
          s = [i \in 1..k |-> ((i - 1) \div p) * RegionSize * 10 + offset[i]]
    BY DEF generateLocalityTrace
  <2> HIDE DEF p
  <2>3. k > 0 => p > 0
    BY <2>1
  <2> HIDE DEF k
  <2>4. \A i \in 1..k : ((i - 1) \div p) * RegionSize * 10 + offset[i] \in Int
    <3> TAKE i \in 1..k
    <3>1. p > 0 /\ i - 1 \in Int /\ offset[i] \in Int
      BY <2>1, <2>3
    <3>2. (i - 1) \div p \in Int
      BY <2>1, <3>1
    <3> QED BY <2>1, <3>1, <3>2
  <2>5. s \in [1..k -> Int]
    BY <2>2, <2>4
  <2> QED BY <1>2, <1>6, <2>1, <2>5
<1> QED BY <1>3, <1>4, <1>5, <1>6 DEF Generate

\* Every use of the tools keeps the invariant.
LEMMA ToolsStep == ToolsInv /\ [ToolsNext]_toolVars => ToolsInv'
<1> SUFFICES ASSUME ToolsInv, [ToolsNext]_toolVars PROVE ToolsInv'
  OBVIOUS
<1>1. CASE Generate
  <2>1. PICK n \in Counts : TRUE
    BY <1>1 DEF Generate
  <2> QED BY <1>1, <2>1, GeneratedIsATrace
<1>2. CASE ProgramLoop
  <2>0. PICK n \in Counts, size \in LoopSizes : \E loop \in [0..(size - 1) -> LoopAddresses] :
          Make("loop", size, [i \in 1..n |-> loop[(i - 1) % size]])
    BY <1>2 DEF ProgramLoop
  <2>1. PICK loop \in [0..(size - 1) -> LoopAddresses] :
          Make("loop", size, [i \in 1..n |-> loop[(i - 1) % size]])
    BY <2>0
  <2>2. n \in Nat /\ size \in Nat \ {0} /\ LoopAddresses \subseteq Int
    BY ToolsAssumption
  <2> DEFINE s == [i \in 1..n |-> loop[(i - 1) % size]]
  <2>3. accesses' = s /\ report' = NoReport /\ made'.kind = "loop" /\ made'.size = size
    BY <2>1 DEF Make
  <2>4. \A i \in 1..n : (i - 1) % size \in 0..(size - 1)
    BY <2>2
  <2>5. s \in [1..n -> Int] /\ \A i \in 1..n : s[i] = loop[(i - 1) % size]
    BY <2>2, <2>4
  <2> HIDE DEF s
  <2>6. s \in Seq(Int) /\ Len(s) = n
    BY <2>2, <2>5, TraceOf
  <2> QED BY <2>3, <2>5, <2>6 DEF ToolsInv
<1>3. CASE Filter
  <2>1. PICK limit \in ToSet(accesses) : Make("filtered", 0, Filtered(accesses, limit))
    BY <1>3 DEF Filter
  <2>2. accesses \in Seq(Int) /\ limit \in Int
    BY DEF ToolsInv, ToSet
  <2>3. accesses' = Filtered(accesses, limit) /\ report' = NoReport /\ made'.kind = "filtered"
    BY <2>1 DEF Make
  <2>4. accesses' \in Seq(Int)
    BY <2>2, <2>3, FilteredIsATrace
  <2> QED BY <2>3, <2>4 DEF ToolsInv
<1>4. CASE analyzeTrace
  BY <1>4 DEF analyzeTrace, ToolsInv
<1>5. CASE UNCHANGED toolVars
  BY <1>5 DEF toolVars, ToolsInv
<1> QED BY <1>1, <1>2, <1>3, <1>4, <1>5 DEF ToolsNext

\* There is no trace at first.
LEMMA ToolsInitially == ToolsInit => ToolsInv
<1> SUFFICES ASSUME ToolsInit PROVE ToolsInv
  OBVIOUS
<1>1. accesses = <<>> /\ report = NoReport /\ made.kind = "none"
  BY DEF ToolsInit
<1>2. <<>> \in Seq(Int)
  OBVIOUS
<1> QED BY <1>1, <1>2 DEF ToolsInv

\* For traces, strides and loops of any length, the analyzer recognises a stride
\* and a loop, and reports no stride that was not taken.
THEOREM TracesAreRecognised == ToolsSpec => []TraceIsRecognised
<1>1. ToolsInv => TraceIsRecognised
  <2> SUFFICES ASSUME ToolsInv PROVE TraceIsRecognised
    OBVIOUS
  <2> DEFINE s == accesses
  <2>0. s \in Seq(Int) /\ Len(s) \in Nat /\ MinPattern \in Nat /\ MinPattern > 1
    BY ToolsAssumption DEF ToolsInv
  <2>1. ASSUME Analyzed, made.kind = "sequential"
        PROVE  IF made.size \in {1, 4, 8} THEN report.pattern = "Sequential"
               ELSE report.pattern = "Strided" /\ report.stride = made.size
    <3>1. report = detectPattern(s) /\ Len(s) >= MinPattern
      BY <2>1 DEF ToolsInv, Analyzed
    <3>2. made.size \in Nat \ {0} /\ \A i \in 1..Len(s) : s[i] = 1 + (i - 1) * made.size
      BY <2>1 DEF ToolsInv
    <3> QED BY <2>0, <3>1, <3>2, SequentialIsRecognised
  <2>2. ASSUME Analyzed, made.kind = "loop", Len(s) >= MinLoop,
               made.size \in 3..Min({Len(s) \div 3, MaxLoop})
        PROVE  /\ report.pattern # "Random"
               /\ report.pattern = "Looping" => report.loopSize <= made.size
    <3> DEFINE n == made.size
               p == Len(s) \div 3
    <3>1. report = detectPattern(s)
      BY <2>2 DEF ToolsInv, Analyzed
    <3>2. p \in Nat /\ MaxLoop \in Nat /\ {p, MaxLoop} \in SUBSET Nat /\ {p, MaxLoop} # {}
      BY <2>0, ToolsAssumption
    <3>3. n \in 3..Min({p, MaxLoop})
      BY <2>2
    <3> HIDE DEF n, p
    <3>4. Min({p, MaxLoop}) \in {p, MaxLoop} /\ \A y \in {p, MaxLoop} : Min({p, MaxLoop}) <= y
      BY <3>2, LeastNumber
    <3>5. n \in Nat \ {0} /\ n >= 3 /\ n <= p /\ n <= MaxLoop
      BY <3>2, <3>3, <3>4
    <3>6. 3 * n <= Len(s)
      BY <2>0, <3>5 DEF p
    <3>7. PICK loop : \A i \in 1..Len(s) : s[i] = loop[(i - 1) % n]
      BY <2>2 DEF ToolsInv, n
    <3>8. n \in loopSizesOf(s)
      BY <2>0, <2>2, <3>5, <3>6, <3>7, LoopIsFound
    <3>9. n \in Nat
      BY <3>5
    <3> QED BY <2>0, <3>1, <3>8, <3>9, LoopIsRecognised DEF n
  <2>3. ASSUME report.pattern = "Strided"
        PROVE  \E i \in Steps(s) : s[i] = s[i - 1] + report.stride
    <3>1. report = detectPattern(s)
      BY <2>3 DEF ToolsInv, NoReport
    <3>2. /\ detectTraceStride(s) # {} /\ report.stride = Min(detectTraceStride(s))
          /\ ~(Len(s) < MinPattern)
      BY <2>3, <3>1 DEF detectPattern, NoReport
    <3>3. detectTraceStride(s) = StridesOf(s) /\ Len(s) > 1
      BY <2>0, <3>2 DEF detectTraceStride
    <3> QED BY <2>0, <3>2, <3>3, StrideIsTaken
  <2> QED BY <2>1, <2>2, <2>3 DEF TraceIsRecognised
<1> QED BY <1>1, ToolsInitially, ToolsStep, PTL DEF ToolsSpec

-----------------------------------------------------------------------------
(* The parser *)

ResultsOf(t) == {Parsed(t[i], f) : i \in DOMAIN t, f \in Formats}

\* The file stays as it is, the reader within it.
ParserInv ==
  /\ trace \in Seq(TraceLines) /\ position \in 0..Len(trace) /\ format \in Formats
  /\ handed \in Seq(ResultsOf(trace))

\* What is left to read is within the file.
LEMMA LinesLeft ==
  ASSUME ParserInv, NEW p \in Nat
  PROVE  /\ LinesAfter(p) \in SUBSET ((p + 1)..Len(trace)) /\ LinesAfter(p) \in SUBSET Nat
         /\ AccessesAfter(p) \in SUBSET LinesAfter(p)
         /\ Len(trace) \in Nat /\ DOMAIN trace = 1..Len(trace)
         /\ \A i \in LinesAfter(p) : Parsed(trace[i], format) \in ResultsOf(trace)
<1>1. Len(trace) \in Nat /\ DOMAIN trace = 1..Len(trace)
  BY DEF ParserInv
<1>2. LinesAfter(p) \in SUBSET ((p + 1)..Len(trace)) /\ AccessesAfter(p) \in SUBSET LinesAfter(p)
  BY DEF LinesAfter, AccessesAfter
<1>3. (p + 1)..Len(trace) \in SUBSET Nat /\ (p + 1)..Len(trace) \in SUBSET DOMAIN trace
  BY <1>1
<1>4. ASSUME NEW i \in LinesAfter(p) PROVE Parsed(trace[i], format) \in ResultsOf(trace)
  BY <1>2, <1>3 DEF ResultsOf, ParserInv
<1> QED BY <1>1, <1>2, <1>3, <1>4

\* A line is an access wherever the reading starts before it.
LEMMA AccessLine ==
  ASSUME ParserInv, NEW p \in Nat, NEW i \in (p + 1)..Len(trace)
  PROVE  /\ i \in AccessesAfter(p) <=> ~Skipped(trace[i]) /\ Parsed(trace[i], format).error = "none"
         /\ i \in LinesAfter(p) <=> ~Skipped(trace[i])
BY DEF AccessesAfter, LinesAfter

\* AccessesOf goes through the lines one by one.
LEMMA LineByLine ==
  ASSUME ParserInv, NEW a \in Nat, a > 0, NEW b \in Nat, b >= a - 1, b <= Len(trace)
  PROVE  \E f : /\ AccessesOf(a, b) = f[b] /\ f[a - 1] = <<>>
                /\ \A i \in a..b : f[i] = IF i \in AccessesAfter(0)
                                          THEN Append(f[i - 1], Parsed(trace[i], format)) ELSE f[i - 1]
<1> DEFINE Round(g, i) == IF i = a - 1 THEN <<>>
                          ELSE IF ~Skipped(trace[i]) /\ Parsed(trace[i], format).error = "none"
                               THEN Append(g[i - 1], Parsed(trace[i], format)) ELSE g[i - 1]
           Good(n) == \E g : g = [i \in (a - 1)..n |-> Round(g, i)]
           Bad == {n \in (a - 1)..b : ~Good(n)}
<1>1. Good(a - 1)
  <2> DEFINE g == [i \in (a - 1)..(a - 1) |-> <<>>]
  <2>1. g = [i \in (a - 1)..(a - 1) |-> Round(g, i)]
    OBVIOUS
  <2> QED BY <2>1
<1>2. ASSUME NEW n \in a..b, Good(n - 1)
      PROVE  Good(n)
  <2>1. PICK g : g = [i \in (a - 1)..(n - 1) |-> Round(g, i)]
    BY <1>2
  <2>2. PICK h : h = [i \in (a - 1)..n |-> IF i = n THEN Round(g, n) ELSE g[i]]
    OBVIOUS
  <2>3. ASSUME NEW i \in (a - 1)..n PROVE h[i] = Round(h, i)
    <3>1. i # a - 1 => h[i - 1] = g[i - 1]
      <4>1. i # a - 1 => i - 1 \in (a - 1)..n /\ i - 1 # n
        OBVIOUS
      <4> HIDE DEF Round
      <4> QED BY <2>2, <4>1
    <3>2. Round(h, i) = Round(g, i)
      BY <3>1
    <3>3. h[i] = Round(g, i)
      <4>1. \A j \in (a - 1)..(n - 1) : g[j] = Round(g, j)
        BY <2>1
      <4>2. i # n => i \in (a - 1)..(n - 1)
        OBVIOUS
      <4> HIDE DEF Round
      <4> QED BY <2>2, <4>1, <4>2
    <3> QED BY <3>2, <3>3
  <2>4. h = [i \in (a - 1)..n |-> Round(h, i)]
    <3> HIDE DEF Round
    <3> QED BY <2>2, <2>3
  <2> QED BY <2>4
<1> HIDE DEF Good
<1>3. Good(b)
  <2> SUFFICES ASSUME Bad # {} PROVE FALSE
    OBVIOUS
  <2>1. Bad \in SUBSET Nat
    OBVIOUS
  <2>2. Min(Bad) \in Bad /\ \A y \in Bad : Min(Bad) <= y
    <3> HIDE DEF Bad
    <3> QED BY <2>1, LeastNumber
  <2>3. PICK n \in (a - 1)..b : ~Good(n) /\ \A y \in Bad : n <= y
    BY <2>2
  <2>4. n # a - 1
    BY <1>1, <2>3
  <2>5. n \in a..b /\ n - 1 \in (a - 1)..b /\ n - 1 \notin Bad
    BY <2>3, <2>4
  <2> QED BY <1>2, <2>3, <2>5
<1> DEFINE f == CHOOSE g : g = [i \in (a - 1)..b |-> Round(g, i)]
<1>4. f = [i \in (a - 1)..b |-> Round(f, i)]
  BY <1>3, Zenon DEF Good
<1>5. AccessesOf(a, b) = f[b]
  BY Zenon DEF AccessesOf
<1> HIDE DEF f
<1>6. \A i \in (a - 1)..b : f[i] = Round(f, i)
  <2> HIDE DEF Round
  <2> QED BY <1>4
<1>7. f[a - 1] = <<>>
  BY <1>6
<1>8. ASSUME NEW i \in a..b
      PROVE  f[i] = IF i \in AccessesAfter(0) THEN Append(f[i - 1], Parsed(trace[i], format)) ELSE f[i - 1]
  <2>1. i \in (0 + 1)..Len(trace) /\ i \in (a - 1)..b /\ i # a - 1
    BY LinesLeft
  <2>2. i \in AccessesAfter(0) <=> ~Skipped(trace[i]) /\ Parsed(trace[i], format).error = "none"
    BY <2>1, AccessLine
  <2> QED BY <1>6, <2>1, <2>2
<1> QED BY <1>5, <1>7, <1>8

\* Lines without an access give nothing.
LEMMA NothingFound ==
  ASSUME NEW f, NEW a \in Nat, NEW b \in Nat, b >= a, f[a] = <<>>,
         \A i \in (a + 1)..b : f[i] = f[i - 1]
  PROVE  f[b] = <<>>
<1> DEFINE Wrong == {i \in a..b : f[i] # <<>>}
<1> SUFFICES ASSUME Wrong # {} PROVE FALSE
  OBVIOUS
<1>1. Wrong \in SUBSET Nat
  OBVIOUS
<1>2. Min(Wrong) \in Wrong /\ \A y \in Wrong : Min(Wrong) <= y
  <2> HIDE DEF Wrong
  <2> QED BY <1>1, LeastNumber
<1>3. PICK i \in a..b : f[i] # <<>> /\ \A y \in Wrong : i <= y
  BY <1>2
<1>4. i \in (a + 1)..b /\ i - 1 \in a..b /\ i - 1 \notin Wrong
  BY <1>3
<1> QED BY <1>3, <1>4

\* From one access to the next there is one, and after the last there is none.
LEMMA NextFound ==
  ASSUME ParserInv, NEW b \in Nat, b >= position, b <= Len(trace),
         \A i \in (position + 1)..b : i \in AccessesAfter(0) => i = b
  PROVE  AccessesOf(position + 1, b) =
           IF b > position /\ b \in AccessesAfter(0) THEN <<Parsed(trace[b], format)>> ELSE <<>>
<1>1. position \in Nat
  BY DEF ParserInv
<1>2. PICK p \in Nat : p = position
  BY <1>1
<1>3. PICK f : /\ AccessesOf(p + 1, b) = f[b] /\ f[p] = <<>>
               /\ \A i \in (p + 1)..b : f[i] = IF i \in AccessesAfter(0)
                                               THEN Append(f[i - 1], Parsed(trace[i], format))
                                               ELSE f[i - 1]
  <2>1. PICK a \in Nat : a = p + 1
    OBVIOUS
  <2>2. a > 0 /\ b >= a - 1 /\ a - 1 = p
    BY <1>2, <2>1
  <2>3. \E f : /\ AccessesOf(a, b) = f[b] /\ f[a - 1] = <<>>
               /\ \A i \in a..b : f[i] = IF i \in AccessesAfter(0)
                                         THEN Append(f[i - 1], Parsed(trace[i], format)) ELSE f[i - 1]
    BY <2>2, LineByLine
  <2> QED BY <2>1, <2>2, <2>3
<1>4. CASE b > position /\ b \in AccessesAfter(0)
  <2>1. PICK c \in Nat : c = b - 1 /\ c >= p
    BY <1>2, <1>4
  <2>2. f[c] = <<>>
    <3>1. \A i \in (p + 1)..c : f[i] = f[i - 1]
      BY <1>2, <1>3, <2>1
    <3> QED BY <1>3, <2>1, <3>1, NothingFound
  <2>3. f[b] = Append(<<>>, Parsed(trace[b], format))
    <3>1. b \in (p + 1)..b
      BY <1>2, <1>4
    <3>2. f[b] = Append(f[b - 1], Parsed(trace[b], format))
      BY <1>3, <1>4, <3>1
    <3> QED BY <2>1, <2>2, <3>2
  <2>4. \A x : Append(<<>>, x) = <<x>>
    OBVIOUS
  <2> QED BY <1>2, <1>3, <1>4, <2>3, <2>4
<1>5. CASE ~(b > position /\ b \in AccessesAfter(0))
  <2>1. \A i \in (p + 1)..b : f[i] = f[i - 1]
    BY <1>2, <1>3, <1>5
  <2>2. f[b] = <<>>
    BY <1>2, <1>3, <2>1, NothingFound
  <2> QED BY <1>2, <1>3, <1>5, <2>2
<1> QED BY <1>4, <1>5

\* The place of a line among the accesses of the file.
Rank(i) == Cardinality({j \in AccessesAfter(0) : j <= i})

\* An access has the place after the last one's; other lines change nothing.
LEMMA RankOfLine ==
  ASSUME ParserInv, NEW i \in 1..Len(trace)
  PROVE  /\ Rank(i - 1) \in Nat
         /\ Rank(i) = IF i \in AccessesAfter(0) THEN Rank(i - 1) + 1 ELSE Rank(i - 1)
<1> DEFINE A == AccessesAfter(0)
           S == {j \in A : j <= i - 1}
           T == {j \in A : j <= i}
<1>1. A \in SUBSET (1..Len(trace)) /\ Len(trace) \in Nat
  BY LinesLeft
<1> HIDE DEF A
<1>2. IsFiniteSet(S)
  <2>1. IsFiniteSet(1..Len(trace))
    BY <1>1, FS_Interval
  <2> QED BY <1>1, <2>1, FS_Subset
<1>3. Cardinality(S) \in Nat
  BY <1>2, FS_CardinalityType
<1>4. CASE i \in A
  <2>1. T = S \cup {i} /\ i \notin S
    <3>1. \A j \in A : j <= i <=> (j <= i - 1 \/ j = i)
      BY <1>1
    <3>2. ~(i <= i - 1) /\ i <= i
      BY <1>1
    <3> QED BY <1>4, <3>1, <3>2
  <2>2. Cardinality(T) = Cardinality(S) + 1
    <3> HIDE DEF S, T
    <3> QED BY <1>2, <2>1, FS_AddElement
  <2> QED BY <1>3, <1>4, <2>2 DEF Rank, A
<1>5. CASE i \notin A
  <2>1. T = S
    <3>1. \A j \in A : j <= i <=> j <= i - 1
      BY <1>1, <1>5
    <3> QED BY <3>1
  <2> QED BY <1>3, <1>5, <2>1 DEF Rank, A
<1> QED BY <1>4, <1>5

\* All at once: every access of the file, each in its place.
LEMMA AllFound ==
  ASSUME ParserInv
  PROVE  /\ AccessesOf(1, Len(trace)) =
              [k \in 1..Cardinality(AccessesAfter(0)) |->
                 Parsed(trace[CHOOSE i \in AccessesAfter(0) : Rank(i) = k], format)]
         /\ AccessesOf(1, Len(trace)) \in Seq(ResultsOf(trace))
<1> DEFINE N == Len(trace)
           A == AccessesAfter(0)
           P(i) == Parsed(trace[i], format)
           R == ResultsOf(trace)
<1>1. N \in Nat /\ A \in SUBSET (1..N) /\ A \in SUBSET Nat /\ \A i \in A : P(i) \in R
  BY LinesLeft
<1>2. PICK f : /\ AccessesOf(1, N) = f[N] /\ f[0] = <<>>
               /\ \A i \in 1..N : f[i] = IF i \in A THEN Append(f[i - 1], P(i)) ELSE f[i - 1]
  BY <1>1, LineByLine
<1>3. \A i \in 1..N : Rank(i - 1) \in Nat /\ Rank(i) = IF i \in A THEN Rank(i - 1) + 1 ELSE Rank(i - 1)
  BY RankOfLine
<1>4. Rank(0) = 0 /\ Rank(N) = Cardinality(A)
  <2>1. {j \in A : j <= 0} = {} /\ {j \in A : j <= N} = A
    BY <1>1
  <2> QED BY <2>1, FS_EmptySet DEF Rank
<1> HIDE DEF N, A, P, R
<1> DEFINE Right(i) == /\ f[i] \in Seq(R) /\ Len(f[i]) = Rank(i)
                       /\ \A j \in A : j <= i => Rank(j) \in 1..Rank(i) /\ f[i][Rank(j)] = P(j)
                       /\ \A k \in 1..Rank(i) : \E j \in A : j <= i /\ Rank(j) = k
           Wrong == {i \in 0..N : ~Right(i)}
<1>5. Right(0)
  BY <1>1, <1>2, <1>4
<1>6. ASSUME NEW i \in 1..N, Right(i - 1) PROVE Right(i)
  <2>1. CASE i \notin A
    <3>1. f[i] = f[i - 1] /\ Rank(i) = Rank(i - 1) /\ \A j \in A : j <= i <=> j <= i - 1
      BY <1>1, <1>2, <1>3, <2>1
    <3> QED BY <1>6, <3>1
  <2>2. CASE i \in A
    <3>1. PICK s, x, r : s = f[i - 1] /\ x = P(i) /\ r = Rank(i - 1)
      OBVIOUS
    <3>2. s \in Seq(R) /\ x \in R /\ r \in Nat /\ Len(s) = r /\ f[i] = Append(s, x) /\ Rank(i) = r + 1
      BY <1>1, <1>2, <1>3, <1>6, <2>2, <3>1
    <3>3. /\ f[i] \in Seq(R) /\ Len(f[i]) = r + 1 /\ f[i][r + 1] = x
          /\ \A k \in 1..r : f[i][k] = s[k]
      BY <3>2
    <3>4. ASSUME NEW j \in A, j <= i PROVE Rank(j) \in 1..Rank(i) /\ f[i][Rank(j)] = P(j)
      <4>1. CASE j = i
        BY <3>1, <3>2, <3>3, <4>1
      <4>2. CASE j # i
        <5>1. j <= i - 1
          BY <1>1, <3>4, <4>2
        <5>2. Rank(j) \in 1..r /\ s[Rank(j)] = P(j)
          BY <1>6, <3>1, <5>1
        <5> QED BY <3>2, <3>3, <5>2
      <4> QED BY <4>1, <4>2
    <3>5. ASSUME NEW k \in 1..Rank(i) PROVE \E j \in A : j <= i /\ Rank(j) = k
      <4>1. CASE k = r + 1
        BY <2>2, <3>2, <4>1
      <4>2. CASE k # r + 1
        <5>1. k \in 1..Rank(i - 1)
          BY <3>1, <3>2, <4>2
        <5>2. PICK j \in A : j <= i - 1 /\ Rank(j) = k
          BY <1>6, <5>1
        <5> QED BY <1>1, <5>2
      <4> QED BY <4>1, <4>2
    <3> QED BY <3>2, <3>3, <3>4, <3>5
  <2> QED BY <2>1, <2>2
<1> HIDE DEF Right
<1>7. Right(N)
  <2> SUFFICES ASSUME Wrong # {} PROVE FALSE
    BY <1>1
  <2>1. Wrong \in SUBSET Nat
    BY <1>1
  <2>2. Min(Wrong) \in Wrong /\ \A y \in Wrong : Min(Wrong) <= y
    <3> HIDE DEF Wrong
    <3> QED BY <2>1, LeastNumber
  <2>3. PICK i \in 0..N : ~Right(i) /\ \A y \in Wrong : i <= y
    BY <2>2
  <2>4. i # 0
    BY <1>5, <2>3
  <2>5. i \in 1..N /\ i - 1 \in 0..N /\ i - 1 \notin Wrong
    BY <1>1, <2>3, <2>4
  <2> QED BY <1>6, <2>3, <2>5
<1>8. PICK q : q = f[N]
  OBVIOUS
<1>9. q \in Seq(R) /\ Len(q) = Cardinality(A)
  BY <1>4, <1>7, <1>8 DEF Right
<1>10. ASSUME NEW k \in 1..Cardinality(A)
       PROVE  q[k] = P(CHOOSE i \in A : Rank(i) = k)
  <2>1. \E i \in A : Rank(i) = k
    BY <1>4, <1>7, <1>10 DEF Right
  <2>2. PICK i \in A : i = (CHOOSE j \in A : Rank(j) = k) /\ Rank(i) = k
    BY <2>1
  <2>3. i <= N
    BY <1>1
  <2>4. q[Rank(i)] = P(i)
    BY <1>7, <1>8, <2>3 DEF Right
  <2> QED BY <2>2, <2>4
<1>11. q = [k \in 1..Cardinality(A) |-> q[k]]
  BY <1>9
<1>12. q = [k \in 1..Cardinality(A) |-> P(CHOOSE i \in A : Rank(i) = k)]
  BY <1>10, <1>11
<1> QED BY <1>2, <1>8, <1>9, <1>12 DEF N, A, P, R

\* What a step of the parser hands out.
Handed == \/ position' >= position /\ handed' = handed \o AccessesOf(position + 1, position')
          \/ handed' = AccessesOf(1, position')

\* A call that goes on from where the reader is.
LEMMA GoesOn ==
  ASSUME ParserInv, NEW seq, NEW p \in Nat, p >= position, p <= Len(trace),
         seq = IF p > position /\ p \in AccessesAfter(0) THEN <<Parsed(trace[p], format)>> ELSE <<>>,
         \A i \in (position + 1)..p : i \in AccessesAfter(0) => i = p,
         HandOut(handed, seq, p), UNCHANGED <<trace, opened, format>>
  PROVE  ParserInv' /\ Handed
<1>1. seq = AccessesOf(position + 1, p)
  BY NextFound
<1>2. position' = p /\ handed' = handed \o seq /\ trace' = trace /\ format' = format
  BY DEF HandOut
<1>3. Handed
  BY <1>1, <1>2 DEF Handed
<1>4. seq \in Seq(ResultsOf(trace))
  <2>1. p \in AccessesAfter(0) => Parsed(trace[p], format) \in ResultsOf(trace)
    BY LinesLeft
  <2>2. \A x \in ResultsOf(trace) : <<x>> \in Seq(ResultsOf(trace))
    OBVIOUS
  <2>3. <<>> \in Seq(ResultsOf(trace))
    OBVIOUS
  <2> QED BY <2>1, <2>2, <2>3
<1>5. handed' \in Seq(ResultsOf(trace))
  BY <1>2, <1>4 DEF ParserInv
<1>6. ParserInv'
  BY <1>2, <1>5 DEF ParserInv
<1> QED BY <1>3, <1>6

\* Every step keeps the reader within the file and hands out the accesses
\* between where it was, or the start of the file, and where it is.
LEMMA ParserStep ==
  ASSUME ParserInv, [TraceNext]_traceVars
  PROVE  ParserInv' /\ [Handed]_<<position, counts, handed>>
<1>0. Len(trace) \in Nat /\ position \in Nat /\ position <= Len(trace)
  BY DEF ParserInv
<1>1. CASE getNextAccess
  <2>1. CASE NextAccess(position) = {}
    <3>1. AccessesAfter(position) = {}
      BY <2>1 DEF NextAccess
    <3>2. ASSUME NEW i \in (position + 1)..Len(trace) PROVE i \notin AccessesAfter(0)
      <4>1. i \in (0 + 1)..Len(trace)
        BY <1>0
      <4> QED BY <1>0, <3>1, <4>1, AccessLine
    <3>3. HandOut(handed, <<>>, Len(trace)) /\ UNCHANGED <<trace, opened, format>>
      BY <1>1, <2>1 DEF getNextAccess
    <3>4. ~(Len(trace) > position /\ Len(trace) \in AccessesAfter(0))
      BY <1>0, <3>2
    <3> QED BY <1>0, <3>2, <3>3, <3>4, GoesOn
  <2>2. CASE NextAccess(position) # {}
    <3>1. AccessesAfter(position) # {} /\ NextAccess(position) = {Min(AccessesAfter(position))}
      BY <2>2 DEF NextAccess
    <3>2. PICK p : p = Min(AccessesAfter(position))
      OBVIOUS
    <3>3. /\ p \in AccessesAfter(position) /\ \A y \in AccessesAfter(position) : p <= y
          /\ p \in (position + 1)..Len(trace)
      BY <1>0, <3>1, <3>2, LinesLeft, LeastNumber
    <3>4. Min({p}) = p
      <4>1. {p} \in SUBSET Nat /\ {p} # {}
        BY <1>0, <3>3
      <4> QED BY <4>1, LeastNumber
    <3>5. HandOut(handed, <<Parsed(trace[p], format)>>, p) /\ UNCHANGED <<trace, opened, format>>
      BY <1>1, <2>2, <3>1, <3>2, <3>4 DEF getNextAccess
    <3>6. \A i \in (position + 1)..Len(trace) : i \in AccessesAfter(0) <=> i \in AccessesAfter(position)
      <4>1. \A i \in (position + 1)..Len(trace) : i \in (0 + 1)..Len(trace)
        BY <1>0
      <4> QED BY <1>0, <4>1, AccessLine
    <3>7. p \in Nat /\ p > position /\ p >= position /\ p <= Len(trace) /\ p \in AccessesAfter(0)
      BY <1>0, <3>3, <3>6
    <3>8. \A i \in (position + 1)..p : i \in AccessesAfter(0) => i = p
      BY <1>0, <3>3, <3>6
    <3> QED BY <3>5, <3>7, <3>8, GoesOn
  <2> QED BY <2>1, <2>2
<1>2. CASE getNextAccessWithError
  <2>0. \A i \in (position + 1)..Len(trace) : i \in AccessesAfter(0) =>
          i \in LinesAfter(position) /\ Parsed(trace[i], format).error = "none"
    <3>1. \A i \in (position + 1)..Len(trace) : i \in (0 + 1)..Len(trace)
      BY <1>0
    <3> QED BY <1>0, <3>1, AccessLine
  <2>1. CASE LinesAfter(position) = {}
    <3>1. HandOut(handed, <<>>, Len(trace)) /\ UNCHANGED <<trace, opened, format>>
      BY <1>2, <2>1 DEF getNextAccessWithError
    <3>2. ~(Len(trace) > position /\ Len(trace) \in AccessesAfter(0))
      BY <1>0, <2>0, <2>1
    <3> QED BY <1>0, <2>0, <2>1, <3>1, <3>2, GoesOn
  <2>2. CASE LinesAfter(position) # {}
    <3>1. PICK p : p = Min(LinesAfter(position))
      OBVIOUS
    <3>2. /\ p \in LinesAfter(position) /\ \A y \in LinesAfter(position) : p <= y
          /\ p \in (position + 1)..Len(trace)
      BY <1>0, <2>2, <3>1, LinesLeft, LeastNumber
    <3>3. /\ HandOut(handed, IF Parsed(trace[p], format).error = "none" THEN <<Parsed(trace[p], format)>>
                             ELSE <<>>, p)
          /\ UNCHANGED <<trace, opened, format>>
      BY <1>2, <2>2, <3>1 DEF getNextAccessWithError
    <3>4. p \in Nat /\ p > position /\ p >= position /\ p <= Len(trace)
      BY <1>0, <3>2
    <3>5. p \in AccessesAfter(0) <=> Parsed(trace[p], format).error = "none"
      <4>1. p \in (0 + 1)..Len(trace)
        BY <1>0, <3>4
      <4>2. ~Skipped(trace[p])
        BY <1>0, <3>2, AccessLine
      <4> QED BY <4>1, <4>2, AccessLine
    <3>6. \A i \in (position + 1)..p : i \in AccessesAfter(0) => i = p
      BY <1>0, <2>0, <3>2
    <3>7. HandOut(handed, IF p > position /\ p \in AccessesAfter(0) THEN <<Parsed(trace[p], format)>>
                          ELSE <<>>, p)
      BY <3>3, <3>4, <3>5
    <3> QED BY <3>3, <3>4, <3>6, <3>7, GoesOn
  <2> QED BY <2>1, <2>2
<1>3. CASE reset
  <2>1. position' = 0 /\ handed' = <<>> /\ trace' = trace /\ format' = format
    BY <1>3 DEF reset
  <2>2. AccessesOf(1, 0) = <<>>
    <3>1. PICK a \in Nat, b \in Nat : a = 1 /\ b = 0
      OBVIOUS
    <3>2. \E f : AccessesOf(a, b) = f[b] /\ f[a - 1] = <<>>
      BY <1>0, <3>1, LineByLine
    <3> QED BY <3>1, <3>2
  <2>3. <<>> \in Seq(ResultsOf(trace))
    OBVIOUS
  <2> QED BY <1>0, <2>1, <2>2, <2>3 DEF ParserInv, Handed
<1>4. CASE parseAll
  <2>1. PICK all : all = AccessesOf(1, Len(trace))
    OBVIOUS
  <2>2. HandOut(<<>>, all, Len(trace)) /\ UNCHANGED <<trace, opened, format>>
    BY <1>4, <2>1, AllFound DEF parseAll, Rank
  <2>3. all \in Seq(ResultsOf(trace))
    BY <2>1, AllFound
  <2>4. position' = Len(trace) /\ handed' = all /\ trace' = trace /\ format' = format
    BY <2>2, <2>3 DEF HandOut
  <2> QED BY <1>0, <2>1, <2>3, <2>4 DEF ParserInv, Handed
<1>5. CASE \E f \in Formats : setFormat(f)
  BY <1>5 DEF setFormat, ParserInv
<1>6. CASE UNCHANGED traceVars
  BY <1>6 DEF traceVars, ParserInv
<1> QED BY <1>1, <1>2, <1>3, <1>4, <1>5, <1>6 DEF TraceNext

\* At first nothing has been read.
LEMMA ParserInitially == TraceInit => ParserInv
<1> SUFFICES ASSUME TraceInit PROVE ParserInv
  OBVIOUS
<1>1. trace \in Seq(TraceLines)
  BY TraceAssumption DEF TraceInit, BoundedSeq, SeqOf
<1>2. format \in Formats
  BY DEF TraceInit, detectFormat, Formats
<1>3. handed \in Seq(ResultsOf(trace)) /\ position = 0
  BY DEF TraceInit
<1> QED BY <1>1, <1>2, <1>3 DEF ParserInv

\* For any lines and files of any length, whichever ways of reading are mixed,
\* no access of a trace file is passed over and none is handed out twice.
THEOREM AccessesAreHandedOut == TraceSpec => NoAccessSkipped
<1>1. ParserInv /\ [TraceNext]_traceVars => ParserInv' /\ [Handed]_<<position, counts, handed>>
  BY ParserStep
<1> QED BY <1>1, ParserInitially, PTL DEF TraceSpec, NoAccessSkipped, Handed
=============================================================================
