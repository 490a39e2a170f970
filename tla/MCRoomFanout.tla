---------------------------- MODULE MCRoomFanout ----------------------------
\* No symmetry: users are ordered, the two invocations differ in what they may
\* do, and a run with a liveness property may not use it.
EXTENDS RoomFanout, TLC
=============================================================================
