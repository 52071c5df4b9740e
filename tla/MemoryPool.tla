---------------------------- MODULE MemoryPool ----------------------------
(***************************************************************************)
(* MemoryPool, the allocator behind PoolAllocator.  An allocation is a     *)
(* range of indices of a block; the model remembers the ranges handed out  *)
(* since the last reset.  deallocate does nothing, in the code as here.    *)
(* Reading blocks_[currentBlock_] past the end of the vector is undefined  *)
(* behaviour: the pointer found there may be that of any block, or of      *)
(* memory that is no block of the pool.                                    *)
(***************************************************************************)
EXTENDS Integers, Sequences

CONSTANTS PoolSize,   \* poolSize_, objects per block
          Requests,   \* sizes asked for, none larger than a block
          PoolBlocks  \* bound on currentBlock_

ASSUME PoolAssumption ==
  PoolSize \in Nat \ {0} /\ Requests \subseteq 1..PoolSize /\ PoolBlocks \in Nat

VARIABLES memory,  \* number of blocks_, currentBlock_, currentIndex_
          live     \* ranges handed out since the last reset

memoryVars == <<memory, live>>

allocateNewBlock(m) ==
  [blocks |-> IF m.current >= m.blocks THEN m.blocks + 1 ELSE m.blocks,
   current |-> m.current + 1, index |-> 0]

MemoryInit ==
  /\ memory = allocateNewBlock([blocks |-> 0, current |-> 0, index |-> 0])
  /\ live = <<>>

\* Faulty variant: a request one larger than the room left is taken to fit.
FitsByOne(m, n) == n <= PoolSize - m.index + 1

Fits(m, n) == n <= PoolSize - m.index

Room(m, n) == IF Fits(m, n) THEN m ELSE allocateNewBlock(m)

NoBlock == -1

\* The blocks that &blocks_[currentBlock_] may lead to.
Indexed(m) == IF m.current < m.blocks THEN {m.current} ELSE {NoBlock} \cup 0..(m.blocks - 1)

allocate(n) ==
  LET m == Room(memory, n)
  IN  /\ m.current < PoolBlocks
      /\ memory' = [m EXCEPT !.index = @ + n]
      /\ \E b \in Indexed(m) :
           live' = Append(live, [block |-> b, cells |-> m.index..(m.index + n - 1)])

resetPool ==
  /\ memory' = [blocks |-> memory.blocks, current |-> 0, index |-> 0]
  /\ live' = <<>>

\* The pool is moved from: its blocks and allocations belong to another one.
moveFrom ==
  /\ memory' = [blocks |-> 0, current |-> 0, index |-> 0]
  /\ live' = <<>>

MemoryNext == resetPool \/ moveFrom \/ \E n \in Requests : allocate(n)

MemorySpec == MemoryInit /\ [][MemoryNext]_memoryVars

-----------------------------------------------------------------------------
(* Properties *)

\* What allocate() promises: each pointer it has returned since the last reset
\* leads to memory of the pool, for as many objects as were asked for, and no
\* two of them share an object.
AllocationsOwned ==
  \A i \in DOMAIN live :
    /\ live[i].block \in 0..(memory.blocks - 1)
    /\ live[i].cells \subseteq 0..(PoolSize - 1)
    /\ \A j \in DOMAIN live :
         i # j /\ live[i].block = live[j].block => live[i].cells \cap live[j].cells = {}

\* The promise is kept while the pool goes through blocks it has: after a reset
\* the blocks of the earlier rounds are cut again from the first one on, and as
\* long as currentBlock_ has not run past them nothing overlaps, crosses the end
\* of a block or lies outside.
ReusedBlocksOwned == memory.current < memory.blocks => AllocationsOwned
=============================================================================
