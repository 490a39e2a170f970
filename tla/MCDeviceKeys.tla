---------------------------- MODULE MCDeviceKeys ----------------------------
EXTENDS DeviceKeys, TLC

CONSTANTS d1, d2, k1, k2, c1, c2, n1, n2, h1, h2

Symmetric ==
  UNION {Permutations(S) : S \in {{d1, d2}, {k1, k2}, {c1, c2}, {n1, n2}, {h1, h2}}}
=============================================================================
