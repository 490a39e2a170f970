--------------------------- MODULE MCControlJobs ---------------------------
EXTENDS ControlJobs, TLC
Symmetric == Permutations(Consumers) \cup Permutations(Shards)
=============================================================================
