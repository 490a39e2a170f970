---------------------------- MODULE MCSyncStream ----------------------------
EXTENDS SyncStream, TLC
CONSTANTS d1, m1
\* The default, and a limit of one event with rooms the user has left.
SomeFilters == {[limit |-> 0, leave |-> FALSE], [limit |-> 1, leave |-> TRUE]}
=============================================================================
