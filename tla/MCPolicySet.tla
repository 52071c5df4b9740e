---------------------------- MODULE MCPolicySet ----------------------------
EXTENDS PolicySet
=============================================================================
