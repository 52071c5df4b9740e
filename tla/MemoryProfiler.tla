--------------------------- MODULE MemoryProfiler ---------------------------
(***************************************************************************)
(* MemoryProfiler: regions, counts per region, and the pattern of what was *)
(* accessed since the last reset.  Reads and writes differ only in which   *)
(* counter grows; they are counted together.  Times, firstAccess and       *)
(* lastAccess of a region, and the printing, are left out.                 *)
(***************************************************************************)
EXTENDS Integers, Sequences, SequencesExt, FiniteSets, FiniteSetsExt

CONSTANTS ProfiledAddresses,
          RegionNames, RegionRanges, \* names and <<first, last>> of regions
          MaxRegions,                \* bound on definitions
          MaxRecent,                 \* maxRecentAddresses: 100 in the code
          MinRecent,                 \* accesses that make a pattern: 10 in the code
          MinRepeated,               \* shortest loop looked for: 3 in the code
          MaxProfiled                \* bound on accesses between resets

ASSUME ProfilerAssumption ==
  /\ ProfiledAddresses \subseteq Nat /\ RegionRanges \subseteq Nat \X Nat
  /\ "unknown" \notin RegionNames
  /\ {MaxRegions, MaxRecent, MinRecent, MinRepeated, MaxProfiled} \subseteq Nat
  /\ MinRecent > 1 /\ MinRepeated > 0

VARIABLES tracked,   \* what trackAccess keeps of the addresses
          regions,   \* [name, range], in the order of their definition
          regionStats,
          since,     \* all accesses since the last reset
          redefined  \* a name was defined again since then

profileVars == <<tracked, regions, regionStats, since, redefined>>

Names == RegionNames \cup {"unknown"}
Deltas == {a - b : a, b \in ProfiledAddresses}
NoStats == [total |-> 0, addresses |-> {}]
NothingTracked == [last |-> <<>>, recent |-> <<>>,
                   frequency |-> [a \in ProfiledAddresses |-> 0],
                   strides |-> [d \in Deltas |-> 0]]

ProfileInit ==
  /\ tracked = NothingTracked
  /\ regions = <<>>
  /\ regionStats = [n \in Names |-> NoStats]
  /\ since = <<>>
  /\ redefined = FALSE

\* A name that is defined again starts from zero; both ranges stay.
defineRegion(name, range) ==
  /\ Len(regions) < MaxRegions
  /\ regions' = Append(regions, [name |-> name, range |-> range])
  /\ regionStats' = [regionStats EXCEPT ![name] = NoStats]
  /\ redefined' = (redefined \/ regionStats[name] # NoStats)
  /\ UNCHANGED <<tracked, since>>

contains(region, a) == region.range[1] <= a /\ a <= region.range[2]

\* The name of the first region that contains the address.
RegionsOf(a) ==
  LET found == {i \in DOMAIN regions : contains(regions[i], a)}
  IN  {IF found = {} THEN "unknown" ELSE regions[Min(found)].name}

addAccess(stats, a) == [total |-> stats.total + 1, addresses |-> stats.addresses \cup {a}]

\* The last addresses, the oldest dropped when there are too many.
Window(s) == IF Len(s) > MaxRecent THEN Tail(s) ELSE s

trackAccess(a) ==
  /\ Len(since) < MaxProfiled
  /\ tracked' = [last |-> <<a>>,
                 recent |-> Window(Append(tracked.recent, a)),
                 frequency |-> [tracked.frequency EXCEPT ![a] = @ + 1],
                 strides |-> IF tracked.last = <<>> THEN tracked.strides
                             ELSE [tracked.strides EXCEPT ![a - tracked.last[1]] = @ + 1]]
  /\ regionStats' = [n \in Names |-> IF n \in RegionsOf(a) THEN addAccess(regionStats[n], a)
                                     ELSE regionStats[n]]
  /\ since' = Append(since, a)
  /\ UNCHANGED <<regions, redefined>>

\* Faulty variant: the last address is kept, and a stride leads to it.
KeepsLast(t) == [NothingTracked EXCEPT !.last = t.last]

Cleared(t) == NothingTracked

\* MemoryProfiler::reset: the regions stay.
resetProfiler ==
  /\ tracked' = Cleared(tracked)
  /\ regionStats' = [n \in Names |-> NoStats]
  /\ since' = <<>>
  /\ redefined' = FALSE
  /\ UNCHANGED regions

ProfileNext ==
  \/ \E n \in RegionNames, r \in RegionRanges : defineRegion(n, r)
  \/ \E a \in ProfiledAddresses : trackAccess(a)
  \/ resetProfiler

ProfileSpec == ProfileInit /\ [][ProfileNext]_profileVars

-----------------------------------------------------------------------------
(* detectPattern *)

IsSequential(s) == \A i \in 2..Len(s) : s[i] - s[i - 1] \in {1, 4, 8}

StrideCount(t) == MapThenSumSet(LAMBDA d : t.strides[d], Deltas)
IsStrided(t) == \E d \in Deltas : 10 * t.strides[d] > 7 * StrideCount(t)

\* Position i + 1 repeats the position of the same place in the first round.
Repeats(s, n) == \A i \in n..(Len(s) - 1) : s[i + 1] = s[(i % n) + 1]

\* Faulty variant: the loop must fit more than three times.
ShortLoopSizes(s) == {n \in MinRepeated..(Len(s) \div 3) : 3 * n < Len(s)}

CandidateSizes(s) == MinRepeated..(Len(s) \div 3)

Touched(t) == {a \in ProfiledAddresses : t.frequency[a] > 0}
AccessCount(t) == MapThenSumSet(LAMBDA a : t.frequency[a], ProfiledAddresses)

detectAccessPattern(t) ==
  IF Len(t.recent) < MinRecent THEN "Unknown"
  ELSE IF IsSequential(t.recent) THEN "Sequential"
  ELSE IF IsStrided(t) THEN "Strided"
  ELSE IF \E n \in CandidateSizes(t.recent) : Repeats(t.recent, n) THEN "Looping"
  ELSE IF AccessCount(t) > 3 * Cardinality(Touched(t)) THEN "Clustered" ELSE "Random"

-----------------------------------------------------------------------------
(* Properties *)

\* The countings of the regions: of one that has counted k accesses, k.
Countings(stats) == UNION {{<<n, k>> : k \in 1..stats[n].total} : n \in Names}

\* What trackAccess keeps step by step is what the accesses since the last reset
\* give: nothing of an earlier run, no stride that leads out of one, is left; and
\* every access is counted in exactly one region, overlap or not, unless a region
\* in use was defined again.
ProfileIsOfItsRun ==
  /\ ~redefined => Cardinality(Countings(regionStats)) = Len(since)
  /\ tracked.recent = SubSeq(since, IF Len(since) > MaxRecent THEN Len(since) - MaxRecent + 1 ELSE 1, Len(since))
  /\ \A a \in ProfiledAddresses : tracked.frequency[a] = Cardinality({i \in DOMAIN since : since[i] = a})
  /\ \A d \in Deltas :
       tracked.strides[d] = Cardinality({i \in 2..Len(since) : since[i] - since[i - 1] = d})

\* A run that only repeats a loop which the window holds three times is never
\* called random or clustered, wherever in the loop the window starts.
ProfiledLoopIsRecognised ==
  \A n \in MinRepeated..MaxRecent :
    Repeats(since, n) /\ 3 * n <= Len(tracked.recent) /\ Len(tracked.recent) >= MinRecent
      => detectAccessPattern(tracked) \in {"Sequential", "Strided", "Looping"}
=============================================================================
