------------------------------ MODULE MCCache ------------------------------
EXTENDS Cache

\* Write-back and write-through, with different policies, and prefetching.
MCConfigs ==
  {[replacement |-> "LRU", write |-> "WriteBack", prefetch |-> FALSE],
   [replacement |-> "PLRU", write |-> "WriteThrough", prefetch |-> FALSE],
   [replacement |-> "LRU", write |-> "WriteBack", prefetch |-> TRUE]}

\* Three blocks of set 1 and one of set 0, for two ways; 3 is not the address
\* of a block.
MCAddresses == {3, 4, 6, 10}
\* A prediction that stays in the block or leads to the next one, and one that
\* leads to another block of the same set.  A read without a prediction does
\* not prefetch, like every write; the hierarchy has it.
MCStrides == {1, 4}

\* What the last call requested has no influence on the next one, and no
\* property looks at unsaved in a cache that prefetches.
StateView == <<cache, IF cache.config.prefetch THEN {} ELSE unsaved>>
=============================================================================
