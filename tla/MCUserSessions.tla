--------------------------- MODULE MCUserSessions ---------------------------
EXTENDS UserSessions, TLC
CONSTANTS h1, h2
\* The handlers are interchangeable.
Symmetric == Permutations(Handlers)
=============================================================================
