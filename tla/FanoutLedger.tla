---------------------------- MODULE FanoutLedger ----------------------------
(***************************************************************************)
(* What the fanout of a room promises, without saying how: every committed *)
(* event is owed to a set of users, an owed delta enters a user's view at  *)
(* most once and only if it is owed, and it counts as settled only when    *)
(* the view holds it or the user was excused from it (the room forgotten,  *)
(* or the delta superseded).  A settled delta may be reopened.             *)
(***************************************************************************)
EXTENDS Naturals, Sequences

CONSTANT Users

VARIABLES
  head,     \* the last committed position
  owed,     \* <<position, user>> pairs still or once to be delivered
  view,     \* per user, the positions seen in order; 0 marks a forget
  excused,  \* owed pairs that need no entry
  settled   \* pairs the room considers done

vars == <<head, owed, view, excused, settled>>

Seen(k) == \E i \in 1..Len(view[k[2]]) : view[k[2]][i] = k[1]

Init ==
  /\ head = 0
  /\ owed = {}
  /\ view = [u \in Users |-> <<>>]
  /\ excused = {}
  /\ settled = {}

Commit(told) ==
  /\ head' = head + 1
  /\ owed' = owed \cup ({head + 1} \X told)
  /\ UNCHANGED <<view, excused, settled>>

Deliver(k) ==
  /\ ~Seen(k)
  /\ view' = [view EXCEPT ![k[2]] = Append(@, k[1])]
  /\ UNCHANGED <<head, owed, excused, settled>>

Excuse(k) ==
  /\ excused' = excused \cup {k}
  /\ UNCHANGED <<head, owed, view, settled>>

Settle(k) ==
  /\ Seen(k) \/ k \in excused
  /\ settled' = settled \cup {k}
  /\ UNCHANGED <<head, owed, view, excused>>

Supersede(k) ==
  /\ excused' = excused \cup {k}
  /\ settled' = settled \cup {k}
  /\ UNCHANGED <<head, owed, view>>

Reopen(k) ==
  /\ settled' = settled \ {k}
  /\ UNCHANGED <<head, owed, view, excused>>

ForgetView(u) ==
  /\ view' = [view EXCEPT ![u] = Append(@, 0)]
  /\ UNCHANGED <<head, owed, excused, settled>>

Next ==
  \/ \E told \in SUBSET Users : Commit(told)
  \/ \E k \in owed : Deliver(k) \/ Excuse(k) \/ Settle(k) \/ Supersede(k) \/ Reopen(k)
  \/ \E u \in Users : ForgetView(u)

Spec == Init /\ [][Next]_vars

=============================================================================
