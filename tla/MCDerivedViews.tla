--------------------------- MODULE MCDerivedViews ---------------------------
EXTENDS DerivedViews, TLC
MCSymmetry == {p @@ q : p \in Permutations(Rooms), q \in Permutations(Workers)}
=============================================================================
