---------------------------- MODULE MCMemoryPool ----------------------------
EXTENDS MemoryPool
=============================================================================
