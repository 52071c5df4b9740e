----------------------- MODULE MCMultiProcessorSystem -----------------------
EXTENDS MultiProcessorSystem

\* Two blocks, more than an L1 of one way holds.
MCTwoBlocks == {0, 2}
=============================================================================
