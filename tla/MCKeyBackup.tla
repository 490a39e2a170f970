---------------------------- MODULE MCKeyBackup ----------------------------
EXTENDS KeyBackup, TLC

CONSTANTS s1, s2, c1, c2, h1, h2

Symmetric == Permutations({c1, c2}) \cup Permutations({h1, h2})
=============================================================================
