----------------------------- MODULE MCUserData -----------------------------
EXTENDS UserData, TLC
MCRules == 1..3
MCSymmetry == {p @@ q : p \in Permutations(Names), q \in Permutations(Handlers)}
=============================================================================
