-------------------------- MODULE MCGlobalBarrier --------------------------
EXTENDS GlobalBarrier
=============================================================================
