-------------------------- MODULE StridePredictor --------------------------
(***************************************************************************)
(* StridePredictor fed with a stream of addresses, as MemoryHierarchy does *)
(* before every access.  The model remembers the last addresses each entry *)
(* has seen, to say what should be predicted.                              *)
(***************************************************************************)
EXTENDS StrideTable, Sequences

CONSTANTS StreamAddresses,
          Memory     \* how many addresses the model remembers

ASSUME StreamAssumption == StreamAddresses \subseteq 0..(NumAddresses - 1) /\ Memory \in Nat

VARIABLES table,
          seen       \* per entry, the last addresses, the latest first

strideVars == <<table, seen>>

StrideInit ==
  /\ table = NewTable
  /\ seen = [i \in DOMAIN NewTable |-> <<>>]

Remember(a, s) == SubSeq(<<a>> \o s, 1, IF Len(s) < Memory THEN Len(s) + 1 ELSE Memory)

Feed(a) ==
  /\ table' = update(table, a)
  /\ seen' = [seen EXCEPT ![a % TableSize] = Remember(a, @)]

StrideNext == \E a \in StreamAddresses : Feed(a)

StrideSpec == StrideInit /\ [][StrideNext]_strideVars

-----------------------------------------------------------------------------
(* Properties *)

\* The last n + 1 addresses of s are d apart, across the end of the address
\* space too.
Steady(s, d, n) == Len(s) > n /\ \A i \in 1..n : Distance(s[i], s[i + 1]) = d

\* However irregular the addresses were before, three equal distances in a row
\* at an entry are enough for it to predict that stride.
SteadyEntryPredicts ==
  \A i \in DOMAIN table : \A d \in {Distance(a, b) : a, b \in StreamAddresses} :
    Steady(seen[i], d, 3) => getStride(table, i) = d
=============================================================================
