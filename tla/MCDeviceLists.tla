--------------------------- MODULE MCDeviceLists ---------------------------
EXTENDS DeviceLists, TLC

CONSTANTS p1, p2, r1, r2, h1, h2

Symmetric == Permutations({p1, p2}) \cup Permutations({r1, r2}) \cup Permutations({h1, h2})
=============================================================================
