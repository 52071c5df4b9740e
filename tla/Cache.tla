------------------------------- MODULE Cache -------------------------------
(***************************************************************************)
(* A Cache object under the calls its users make: accesses, and the        *)
(* coherence operations of ProcessorCore.  unsaved is what the model adds: *)
(* the blocks that were written and whose write has not been passed on to  *)
(* the next level.                                                         *)
(***************************************************************************)
EXTENDS CacheOps

CONSTANTS UsedConfigs, \* configurations to start from
          Addresses,   \* addresses accessed
          Strides      \* what the stride predictor may answer

ASSUME CacheUseAssumption ==
  /\ UsedConfigs \subseteq Configs
  /\ Addresses \subseteq 0..(AddressSpace - 1) /\ Strides \subseteq Int

VARIABLES cache, requests, unsaved

vars == <<cache, requests, unsaved>>

Init == /\ \E config \in UsedConfigs : cache = NewCache(config)
        /\ requests = <<>>
        /\ unsaved = {}

access(a, isWrite, stride, picks) ==
  LET r == Access(cache, a, isWrite, stride, picks)
  IN  /\ cache' = r.cache
      /\ requests' = r.requests
      /\ unsaved' = (unsaved \cup IF isWrite THEN {BlockNumber(a)} ELSE {}) \ PassedOn(r.requests)

\* The block is given up for a remote write: its contents are the caller's.
invalidateBlock(a) ==
  /\ cache' = WithState(cache, a, "Invalid")
  /\ requests' = <<>>
  /\ unsaved' = unsaved \ {BlockNumber(a)}

\* ProcessorCore calls it with Shared and Modified.
updateMESIState(a, state) ==
  /\ cache' = WithState(cache, a, state)
  /\ requests' = <<>>
  /\ UNCHANGED unsaved

Picks == IF cache.config.replacement = "Random" THEN [1..2 -> Way] ELSE {<<0, 0>>}
Predicted == IF cache.config.prefetch THEN Strides ELSE {0}

Next == \E a \in Addresses :
          \/ \E isWrite \in BOOLEAN, stride \in Predicted, picks \in Picks :
               access(a, isWrite, stride, picks)
          \/ invalidateBlock(a)
          \/ \E state \in {"Shared", "Modified"} : updateMESIState(a, state)

Spec == Init /\ [][Next]_vars

-----------------------------------------------------------------------------
(* Properties *)

BlocksOf(s) == {w \in Way : cache.blocks[s][w].valid}

\* A block is in at most one way of its set, whatever the order of demand
\* fetches, prefetches and invalidations: otherwise a write would go to one
\* copy and a later read to the other.
UniqueTags ==
  \A s \in Sets : \A v, w \in BlocksOf(s) :
    cache.blocks[s][v].tag = cache.blocks[s][w].tag => v = w

\* A write the cache has accepted is not lost: until the write is passed on to
\* the next level, the block stays in the cache and is due a write-back.  This
\* is said of caches without a stream buffer: a write that the buffer serves is
\* a hit that changes no block.
NoLostWrite ==
  ~cache.config.prefetch =>
    \A b \in unsaved :
      \E s \in Sets : \E w \in BlocksOf(s) :
        /\ cache.blocks[s][w].tag * NumSets + s = b
        /\ requiresWriteback(cache.blocks[s][w])

\* An access that fetches its block leaves it in the cache: the prefetch that
\* follows in the same call does not throw the demanded block out again.
DemandBlockStays ==
  [][\A a \in Addresses : ReadRequest(a) \in {requests'[i] : i \in DOMAIN requests'}
       => Present(cache', a)]_vars
=============================================================================
