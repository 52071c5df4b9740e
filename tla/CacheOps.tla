------------------------------ MODULE CacheOps ------------------------------
(***************************************************************************)
(* The operations of Cache in src/core/cache.cpp, on a value that holds    *)
(* what one Cache object holds: its configuration, its blocks, a policy    *)
(* per set and the stream buffer.  An access makes calls of access() on    *)
(* the next level; nothing they return is used, so an operation yields     *)
(* them as requests, in the order they are made.                           *)
(***************************************************************************)
EXTENDS ReplacementPolicy

CONSTANTS NumSets, BlockSize,
          PrefetchDistance,  \* size of the stream buffer
          AddressSpace       \* addresses are computed modulo this

ASSUME CacheAssumption ==
  /\ NumSets \in Nat \ {0} /\ BlockSize \in Nat \ {0}
  /\ PrefetchDistance \in Nat /\ AddressSpace \in Nat \ {0}

Sets == 0..(NumSets - 1)
Configs == [replacement : Kinds, write : {"WriteBack", "WriteThrough"}, prefetch : BOOLEAN]

-----------------------------------------------------------------------------
(* Addresses *)

BlockNumber(a) == a \div BlockSize
SetIndex(a) == BlockNumber(a) % NumSets
Tag(a) == BlockNumber(a) \div NumSets

\* Faulty variant: the set index is left out of the victim's address.
AddressWithoutSet(s, tag) == tag * NumSets * BlockSize

\* The address of a victim, put together again from its tag and its set.
VictimAddress(s, tag) == (tag * NumSets + s) * BlockSize

ReadRequest(a) == [addr |-> a, isWrite |-> FALSE]
WriteRequest(a) == [addr |-> a, isWrite |-> TRUE]

\* Blocks whose contents the requests hand to the next level.
PassedOn(reqs) == {BlockNumber(reqs[i].addr) : i \in {j \in DOMAIN reqs : reqs[j].isWrite}}

-----------------------------------------------------------------------------
(* StreamBuffer: the prefetched addresses, and lastAccessedIndex *)

\* The constructor fills the buffer with zeros.
NewStream == [buffer |-> [i \in 1..PrefetchDistance |-> 0], last |-> -1]

StreamHit(s, a) == \E i \in DOMAIN s.buffer : s.buffer[i] = a

\* access() on a hit remembers the first position of the address.
StreamAccess(s, a) ==
  [s EXCEPT !.last = Min({i \in DOMAIN s.buffer : s.buffer[i] = a}) - 1]

\* Everything up to the remembered position leaves; the buffer gets shorter.
StreamShift(s) ==
  IF s.last < 0 THEN s
  ELSE [buffer |-> SubSeq(s.buffer, s.last + 2, Len(s.buffer)), last |-> -1]

\* The buffer is overwritten with consecutive addresses.  For an empty buffer
\* buffer[0] is outside of it; the buffer itself stays empty.
StreamPrefetch(s, a) ==
  [buffer |-> [i \in DOMAIN s.buffer |-> (a + i - 1) % AddressSpace], last |-> 0]

-----------------------------------------------------------------------------
EmptyBlock == [valid |-> FALSE, dirty |-> FALSE, tag |-> 0, mesi |-> "Invalid"]

NewCache(config) == [config |-> config,
                     blocks |-> [s \in Sets |-> [w \in Way |-> EmptyBlock]],
                     policy |-> [s \in Sets |-> NewPolicy(config.replacement)],
                     stream |-> NewStream]

\* findBlock
Holding(c, a) == {w \in Way : c.blocks[SetIndex(a)][w].valid
                              /\ c.blocks[SetIndex(a)][w].tag = Tag(a)}
Present(c, a) == Holding(c, a) # {}

requiresWriteback(b) == b.dirty \/ b.mesi = "Modified"

invalidWays(c, s) == {w \in Way : ~c.blocks[s][w].valid}

findVictim(c, s, pick) ==
  IF invalidWays(c, s) # {} THEN Min(invalidWays(c, s))
  ELSE selectVictim(c.config.replacement, c.policy[s], Way, pick)

\* The policy of the set after findVictim.
policyAfterVictim(c, s) ==
  IF invalidWays(c, s) # {} THEN c.policy[s]
  ELSE afterVictim(c.config.replacement, c.policy[s], Way)

\* installBlock: dirty under either write policy when the access is a write.
InstalledBlock(a, isWrite) ==
  [valid |-> TRUE, dirty |-> isWrite, tag |-> Tag(a),
   mesi |-> IF isWrite THEN "Modified" ELSE "Exclusive"]

\* Evict a victim, with a write-back if it needs one, fetch the block and
\* install it.
Replacement(c, a, isWrite, pick) ==
  LET s == SetIndex(a)
      w == findVictim(c, s, pick)
      victim == c.blocks[s][w]
  IN  [cache |-> [c EXCEPT !.blocks[s][w] = InstalledBlock(a, isWrite),
                           !.policy[s] = onInstall(c.config.replacement, policyAfterVictim(c, s), w)],
       requests |-> (IF victim.valid /\ requiresWriteback(victim)
                     THEN <<WriteRequest(VictimAddress(s, victim.tag))>> ELSE <<>>)
                    \o <<ReadRequest(a)>>]

\* Faulty variant: the block is prefetched although it may be present.
PrefetchBlindly(c, a) == TRUE

PrefetchNeeded(c, a) == ~Present(c, a)

\* handlePrefetch, for the stride the predictor has confidence in.
Prefetched(r, a, isWrite, stride, pick) ==
  LET pa == (a + stride) % AddressSpace
      installed == IF PrefetchNeeded(r.cache, pa) THEN Replacement(r.cache, pa, FALSE, pick)
                   ELSE [cache |-> r.cache, requests |-> <<>>]
  IN  IF isWrite \/ stride = 0 THEN r
      ELSE [cache |-> [installed.cache EXCEPT !.stream = StreamPrefetch(@, pa)],
            requests |-> r.requests \o installed.requests]

\* A write hit: write-through cleans the block and leaves its state alone.
WrittenBlock(b, write) == IF write = "WriteThrough" THEN [b EXCEPT !.dirty = FALSE]
                          ELSE [b EXCEPT !.dirty = TRUE, !.mesi = "Modified"]

OnHit(c, a, isWrite) ==
  LET s == SetIndex(a)
      w == Min(Holding(c, a))
  IN  [cache |-> [c EXCEPT !.blocks[s][w] = IF isWrite THEN WrittenBlock(@, c.config.write) ELSE @,
                           !.policy[s] = onAccess(c.config.replacement, @, w)],
       requests |-> IF isWrite /\ c.config.write = "WriteThrough" THEN <<WriteRequest(a)>>
                    ELSE <<>>]

\* A miss that the stream buffer serves: no block is installed.
StreamServes(c, a) == c.config.prefetch /\ ~Present(c, a) /\ StreamHit(c.stream, a)

OnStreamHit(c, a, isWrite) ==
  LET s == StreamAccess(c.stream, a)
  IN  [cache |-> [c EXCEPT !.stream = IF isWrite THEN s ELSE StreamShift(s)], requests |-> <<>>]

\* What access() returns.
Hits(c, a) == Present(c, a) \/ StreamServes(c, a)

\* access(): the cache after it and its requests.  stride is what the given
\* predictor answers, 0 without one; picks are the outcomes of the generator.
Access(c, a, isWrite, stride, picks) ==
  IF Present(c, a) THEN OnHit(c, a, isWrite)
  ELSE IF StreamServes(c, a) THEN OnStreamHit(c, a, isWrite)
  ELSE LET r == Replacement(c, a, isWrite, picks[1])
       IN  IF c.config.prefetch THEN Prefetched(r, a, isWrite, stride, picks[2]) ELSE r

-----------------------------------------------------------------------------
(* Coherence operations *)

InState(b, state) == [b EXCEPT !.mesi = state, !.valid = state # "Invalid"]

\* updateMESIState on a block that is present; Invalid makes it invalid and
\* does not clear dirty.  invalidateBlock is updateMESIState to Invalid.
WithState(c, a, state) ==
  LET s == SetIndex(a)
  IN  IF Present(c, a)
      THEN [c EXCEPT !.blocks[s][Min(Holding(c, a))] = InState(@, state)]
      ELSE c
=============================================================================
