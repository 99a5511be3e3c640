-------------------------- MODULE MCToolApprovals --------------------------
EXTENDS ToolApprovals, TLC

Symmetric == Permutations(Requests) \cup Permutations(Subscribers)
=============================================================================
