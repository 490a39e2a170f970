-------------------------- MODULE MCMediaUploads --------------------------
EXTENDS MediaUploads, TLC

CONSTANTS m1, m2, u1, u2

Symmetric == Permutations({m1, m2}) \cup Permutations({u1, u2})
============================================================================
