------------------------- MODULE AdaptivePrefetcher -------------------------
(***************************************************************************)
(* AdaptivePrefetcher, and the two functions of MemoryHierarchy that drive *)
(* it.  Confidences are kept in hundredths, rounded down.  The address     *)
(* history and the count of misses feed only the printed statistics.       *)
(* lastTwo is what the model adds: the last addresses of every page.       *)
(***************************************************************************)
EXTENDS Integers, Sequences, FiniteSetsExt

CONSTANTS FetchAddresses,  \* addresses accessed
          PageSize,        \* addresses with the same upper half: 2^16 in the code
          FetchSpace,      \* number of addresses: 2^32 in the code
          MaxDistance,     \* maxPrefetchDistance
          MaxOutcomes,     \* bound on the outcomes recorded between two resets
          Unseen           \* an entry lastAccessMap and strideMap do not have

ASSUME PrefetcherAssumption ==
  /\ FetchSpace \in Nat \ {0} /\ FetchAddresses \subseteq 0..(FetchSpace - 1)
  /\ PageSize \in Nat \ {0} /\ MaxDistance \in Nat \ {0} /\ MaxOutcomes \in Nat
  /\ Unseen \notin Int

VARIABLES prefetcher,
          initialStrategy, \* the strategy given to the constructor
          lastTwo          \* per page, its last two addresses, the latest first

prefetcherVars == <<prefetcher, initialStrategy, lastTwo>>

Strategies == {"Sequential", "Stride", "Adaptive"}
Page(a) == a \div PageSize
Pages == {Page(a) : a \in FetchAddresses}

PrefetcherInit ==
  /\ initialStrategy \in Strategies
  /\ prefetcher = [distance |-> 1, useful |-> 0, useless |-> 0, strategy |-> initialStrategy,
                   sequential |-> 50, stride |-> 50,
                   lastAccess |-> [p \in Pages |-> Unseen],
                   strideOf |-> [p \in Pages |-> Unseen]]
  /\ lastTwo = [p \in Pages |-> <<>>]

\* updateConfidence: only the strategy in use learns, and Adaptive is none.
Learnt(c, good) == (c * 9) \div 10 + IF good THEN 10 ELSE 0
updateConfidence(f, good) ==
  [f EXCEPT !.sequential = IF f.strategy = "Sequential" THEN Learnt(@, good) ELSE @,
            !.stride = IF f.strategy = "Stride" THEN Learnt(@, good) ELSE @]

recordPrefetchOutcome(good) ==
  /\ prefetcher.useful + prefetcher.useless < MaxOutcomes
  /\ prefetcher' = updateConfidence([prefetcher EXCEPT !.useful = @ + (IF good THEN 1 ELSE 0),
                                                       !.useless = @ + (IF good THEN 0 ELSE 1)], good)
  /\ UNCHANGED <<initialStrategy, lastTwo>>

chooseBestStrategy(f) == IF f.sequential > f.stride THEN "Sequential" ELSE "Stride"

Longer(f) == Min({f.distance * 2, MaxDistance})

\* Accuracy above 0.8 doubles the distance, below 0.5 halves it.
NewDistance(f) ==
  LET total == f.useful + f.useless
  IN  IF 5 * f.useful > 4 * total THEN Longer(f)
      ELSE IF 2 * f.useful < total THEN Max({f.distance \div 2, 1}) ELSE f.distance

\* adaptPrefetchDistance: nothing happens before the first outcome.
adaptPrefetchDistance ==
  /\ prefetcher' = IF prefetcher.useful + prefetcher.useless = 0 THEN prefetcher
                   ELSE [prefetcher EXCEPT !.distance = NewDistance(prefetcher),
                           !.strategy = IF @ = "Adaptive" THEN chooseBestStrategy(prefetcher) ELSE @]
  /\ UNCHANGED <<initialStrategy, lastTwo>>

\* Faulty variant: the last access is overwritten before the stride is taken.
Overwritten(f, a) ==
  [f EXCEPT !.strideOf[Page(a)] = IF f.lastAccess[Page(a)] = Unseen THEN @ ELSE 0,
            !.lastAccess[Page(a)] = a]

Recorded(f, a) ==
  [f EXCEPT !.strideOf[Page(a)] = IF f.lastAccess[Page(a)] = Unseen THEN @
                                  ELSE a - f.lastAccess[Page(a)],
            !.lastAccess[Page(a)] = a]

updateHistory(a) ==
  /\ prefetcher' = Recorded(prefetcher, a)
  /\ lastTwo' = [lastTwo EXCEPT ![Page(a)] = IF @ = <<>> THEN <<a>> ELSE <<a, @[1]>>]
  /\ UNCHANGED initialStrategy

resetPrefetcherStats ==
  /\ prefetcher' = [prefetcher EXCEPT !.useful = 0, !.useless = 0]
  /\ UNCHANGED <<initialStrategy, lastTwo>>

\* detectStride, and getPrefetchAddress without a stride of the caller's.
detectStride(f, a) == IF f.strideOf[Page(a)] = Unseen THEN 0 ELSE f.strideOf[Page(a)]
getPrefetchAddress(f, a) ==
  LET strategy == IF f.strategy = "Adaptive" THEN chooseBestStrategy(f) ELSE f.strategy
      step == IF strategy = "Stride" /\ detectStride(f, a) # 0 THEN detectStride(f, a) ELSE 1
  IN  (a + step * f.distance) % FetchSpace

PrefetcherNext ==
  \/ \E good \in BOOLEAN : recordPrefetchOutcome(good)
  \/ \E a \in FetchAddresses : updateHistory(a)
  \/ adaptPrefetchDistance
  \/ resetPrefetcherStats

PrefetcherSpec == PrefetcherInit /\ [][PrefetcherNext]_prefetcherVars

-----------------------------------------------------------------------------
(* Properties *)

\* A prefetcher built with Stride or Adaptive runs ahead of the stream of every
\* page: where the last two accesses were d apart, it fetches what the stream
\* reaches in some 1 to maxPrefetchDistance steps, whatever other pages were
\* accessed in between and however outcomes changed the distance and, for
\* Adaptive, the strategy.
StrideRunsAhead ==
  initialStrategy # "Sequential" =>
    \A p \in Pages :
      Len(lastTwo[p]) = 2 /\ lastTwo[p][1] # lastTwo[p][2] =>
        \E n \in 1..MaxDistance :
          /\ n = prefetcher.distance
          /\ getPrefetchAddress(prefetcher, lastTwo[p][1])
               = (lastTwo[p][1] + (lastTwo[p][1] - lastTwo[p][2]) * n) % FetchSpace
=============================================================================
