------------------------- MODULE MCMemoryHierarchy -------------------------
EXTENDS MemoryHierarchy

Config(write, prefetch) ==
  [replacement |-> "LRU", write |-> write, prefetch |-> prefetch]
Setup(l1Config, levels) ==
  [l1 |-> l1Config, l2 |-> Config("WriteBack", FALSE), l3 |-> Config("WriteBack", FALSE),
   below |-> levels]

\* Three levels with either write policy of the L1, two levels with
\* prefetching, and an L3 without an L2.
MCSetups == {Setup(Config("WriteBack", FALSE), {"L2", "L3"}),
             Setup(Config("WriteThrough", FALSE), {"L2", "L3"}),
             Setup(Config("WriteBack", TRUE), {"L2"}),
             Setup(Config("WriteBack", FALSE), {"L3"})}

\* Four blocks of two bytes, for two blocks in the L1 and two in the L2.
MCAccessed == {0, 2, 4, 6}

\* What the last access wrote back has no influence on the next one.
HierarchyView == <<l1, l2, l3, below, predictor>>
=============================================================================
