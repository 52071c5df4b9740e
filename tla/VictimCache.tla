---------------------------- MODULE VictimCache ----------------------------
(***************************************************************************)
(* VictimCache: evicted blocks in a vector, a FIFO queue of indices into   *)
(* it, and a count of its own.  The hit, miss and eviction statistics and  *)
(* addressToIndex, which nothing reads, are left out.  latest is what the  *)
(* model adds: how the last inserted copy of each address looked.          *)
(***************************************************************************)
EXTENDS Integers, Sequences, SequencesExt

CONSTANTS VictimAddresses, \* addresses of blocks
          MaxVictims,      \* maxSize
          SizeRange,       \* number of values of size_t: 2^64 in the code
          MaxQueued        \* bound on the length of fifoQueue

ASSUME VictimAssumption ==
  /\ VictimAddresses \subseteq Nat
  /\ MaxVictims \in Nat \ {0} /\ SizeRange > MaxVictims /\ MaxQueued \in Nat

VARIABLES victims, \* blocks, fifoQueue and currentSize
          latest   \* dirty flag of the last copy inserted

victimVars == <<victims, latest>>

VictimInit == /\ victims = [blocks |-> <<>>, fifo |-> <<>>, size |-> 0]
              /\ latest = [a \in VictimAddresses |-> FALSE]

Less(n) == (n - 1) % SizeRange
More(n) == (n + 1) % SizeRange

\* Index of the first block that satisfies the test, 0 if there is none.
ValidAt(v, a) == SelectInSeq(v.blocks, LAMBDA b : b.address = a /\ b.valid)

\* findBlock; getDirtyBlocks.
findBlock(v, a) == ValidAt(v, a) # 0
DirtyVictims(v) == {b \in ToSet(v.blocks) : b.valid /\ b.dirty}

\* v when the block at index i is gone, with this queue.
Invalidated(v, i, queue) ==
  [blocks |-> [v.blocks EXCEPT ![i].valid = FALSE], fifo |-> queue, size |-> Less(v.size)]

searchAndRemove(v, a) ==
  LET i == ValidAt(v, a)
  IN  IF findBlock(v, a) THEN Invalidated(v, i, RemoveFirst(v.fifo, i)) ELSE v

\* The queue without its first index of a block with address a.
removeFromDataStructures(v, a) ==
  RemoveFirstMatch(v.fifo, LAMBDA j : v.blocks[j].address = a)

\* One round of the loop of invalidateBlocksInRange, and the loop.
DropInRange(v, i, first, last) ==
  LET a == v.blocks[i].address
  IN  IF v.blocks[i].valid /\ a \in first..last
      THEN Invalidated(v, i, removeFromDataStructures(v, a)) ELSE v

invalidateBlocksInRange(v, first, last) ==
  LET after[i \in 0..Len(v.blocks)] == IF i = 0 THEN v ELSE DropInRange(after[i - 1], i, first, last)
  IN  after[Len(v.blocks)]

evictOldestBlock(v) ==
  IF v.fifo = <<>> \/ v.size = 0 THEN v
  ELSE [blocks |-> [v.blocks EXCEPT ![Head(v.fifo)].valid = FALSE],
        fifo |-> Tail(v.fifo),
        size |-> Less(v.size)]

\* Faulty variant: every block is taken for a new one.
NeverSame(v, a) == 0

\* isSameBlock compares addresses only, so a removed block counts as present.
SameBlock(v, a) == SelectInSeq(v.blocks, LAMBDA b : b.address = a)

\* A new block goes to the first invalid slot, or to the end.
AsNew(v, block) ==
  LET free == SelectInSeq(v.blocks, LAMBDA b : ~b.valid)
      at == IF free = 0 THEN Len(v.blocks) + 1 ELSE free
  IN  [blocks |-> IF free = 0 THEN Append(v.blocks, block) ELSE [v.blocks EXCEPT ![at] = block],
       fifo |-> Append(v.fifo, at),
       size |-> More(v.size)]

insertBlock(v, block) ==
  LET same == SameBlock(v, block.address)
  IN  IF same # 0 THEN [v EXCEPT !.blocks[same] = block]
      ELSE AsNew(IF v.size >= MaxVictims THEN evictOldestBlock(v) ELSE v, block)

\* sortBlocksByAddress: valid blocks first, by address; std::sort leaves the
\* invalid ones in any order.  The indices in the queue stay as they are.
Arranged(s) == \A i \in DOMAIN s : \A j \in 1..(i - 1) :
                 s[i].valid => s[j].valid /\ s[j].address < s[i].address
SortedBlocks(v) == {s \in SetToSeqs(ToSet(v.blocks)) : Arranged(s)}

-----------------------------------------------------------------------------
Insert(a, dirty) ==
  /\ Len(victims.fifo) < MaxQueued
  /\ victims' = insertBlock(victims, [address |-> a, valid |-> TRUE, dirty |-> dirty])
  /\ latest' = [latest EXCEPT ![a] = dirty]

SearchAndRemove(a) == victims' = searchAndRemove(victims, a) /\ UNCHANGED latest

InvalidateRange(first, last) ==
  victims' = invalidateBlocksInRange(victims, first, last) /\ UNCHANGED latest

Sort == (\E s \in SortedBlocks(victims) : victims' = [victims EXCEPT !.blocks = s])
        /\ UNCHANGED latest

VictimNext ==
  \/ \E a \in VictimAddresses : SearchAndRemove(a) \/ \E dirty \in BOOLEAN : Insert(a, dirty)
  \/ \E first, last \in VictimAddresses : first <= last /\ InvalidateRange(first, last)
  \/ Sort

VictimSpec == VictimInit /\ [][VictimNext]_victimVars

-----------------------------------------------------------------------------
(* Properties *)

\* An address is kept once, so a search answers with the copy inserted last
\* and never with an older one whose dirty flag is out of date, whatever order
\* of insertions, removals, evictions and sorts came before.
VictimIsLatest ==
  /\ \A i, j \in DOMAIN victims.blocks :
       victims.blocks[i].address = victims.blocks[j].address => i = j
  /\ {b.address : b \in DirtyVictims(victims)}
       = {a \in VictimAddresses : findBlock(victims, a) /\ latest[a]}
=============================================================================
