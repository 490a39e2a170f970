-------------------------- MODULE MCRoomAdmission --------------------------
EXTENDS RoomAdmission, TLC
CONSTANTS alice, bob, c1, c2
\* alice creates the room; bob has no power in it.
MCPower == [u \in Users |-> IF u = alice THEN 100 ELSE 0]
\* The handlers are interchangeable.
Symmetric == Permutations(Creations)
=============================================================================
