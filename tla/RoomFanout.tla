----------------------------- MODULE RoomFanout -----------------------------
(***************************************************************************)
(* The hand-over of committed room events from a RoomDO to the UserDOs of  *)
(* its local members: the durable outbox a commit writes, the delivery     *)
(* loops and audits that drain it, and the user streams they append to.    *)
(*                                                                         *)
(* A Durable Object runs one JavaScript thread, so the code between two    *)
(* awaits on another object is one step here.  Several invocations of the  *)
(* RoomDO (Tasks) interleave at those awaits.  A call may fail before it   *)
(* runs, after it ran, or time out and run later (orphans); the RoomDO may *)
(* be evicted at any moment and come back with its durable tables, or with *)
(* one outbox row missing, which is the damage reconcileFanout repairs.    *)
(***************************************************************************)
EXTENDS Naturals, Sequences, FiniteSets

CONSTANTS
  Users,       \* user ids with this server's suffix, numbered in SQL sort order
  Ghosts,      \* those no account stands behind: they can only be invited
  Admissions,  \* concurrent invocations of admitEvent
  Repairs,     \* concurrent invocations of reconcileFanout
  MaxPos,      \* bound: events committed to the room
  MaxVersion,  \* bound: profile versions
  MaxFaults,   \* bound: failed calls and evictions
  MaxTotal,    \* bound: events and faults together
  AuditLimit   \* request.limit of reconcileFanout, 1000 in the repair job

ASSUME UsersAreOrdered == Users \subseteq Nat /\ IsFiniteSet(Users)
ASSUME GhostsAreUsers  == Ghosts \subseteq Users
ASSUME BoundsAreNat    == /\ MaxPos \in Nat /\ MaxVersion \in Nat
                          /\ MaxFaults \in Nat /\ MaxTotal \in Nat
                          /\ AuditLimit \in Nat

Tasks == Admissions \cup Repairs

VARIABLES
  membership,  \* RoomDO: room_membership_projection
  events,      \* RoomDO: room_events_metadata, indexed by room_pos
  outbox,      \* RoomDO: room_fanout_outbox, <<room_pos, user>> -> row
  pc,          \* what each invocation does next
  scope,       \* the users an invocation looks at (target_user_id or all)
  limit,       \* how many outbox rows it takes
  work,        \* the keys it still has to go through
  item,        \* the key its outstanding call is about
  reply,       \* the answer it is about to use
  orphans,     \* appends that still run although nobody waits for them
  stream,      \* UserDO: user_stream, the room position of each entry
  visible,     \* UserDO: room_sync_memberships[room]
  tombstone,   \* UserDO: forgotten_room_tombstones[room], 0 when absent
  forgetting,  \* gateway: room_pos read for a forget in progress, 0 if none
  waived,      \* history: deltas settled without an entry in the stream
  faults       \* history: faults so far

roomVars == <<membership, events>>
taskVars == <<pc, scope, limit, work, item, reply>>
userVars == <<stream, visible, tombstone>>
vars == <<roomVars, outbox, taskVars, orphans, userVars, forgetting, waived, faults>>

-----------------------------------------------------------------------------
(* Data *)

Buckets == {"join", "invite", "leave"}
Keys == (1..MaxPos) \X Users
NoMembership == [bucket |-> "none", pos |-> 0, version |-> 0]
Forget == 0  \* the stream entry of a forget; others carry their room position

Row(status, refresh) == [status |-> status, ack |-> 0, refresh |-> refresh]
Reply(ok, pos, row) == [ok |-> ok, pos |-> pos, row |-> row]
NoReply == Reply(FALSE, 0, FALSE)
NoItem == <<0, 0>>

\* ORDER BY room_pos ASC, user_id ASC
Before(j, k) == j[1] < k[1] \/ (j[1] = k[1] /\ j[2] < k[2])

IsLeast(k, S) == k \in S /\ \A j \in S : j = k \/ Before(k, j)

\* The local users an event is fanned out to and the bucket each is told:
\* members who are joined, and the one whose own membership the event sets.
BucketsAfter(members, pos) ==
  [u \in Users |-> IF members[u].bucket = "join" \/ members[u].pos = pos
                   THEN members[u].bucket ELSE "none"]

Targets(pos) == {u \in Users : events[pos].bucket[u] # "none"}
Owed == {k \in (1..Len(events)) \X Users : events[k[1]].bucket[k[2]] # "none"}

Pending == {k \in DOMAIN outbox : outbox[k].status # "acked"}

\* S is what listPendingFanoutOutbox, the target filter and slice(limit) return
IsBatch(S, users, n) ==
  LET candidates == {k \in Pending : k[2] \in users}
  IN  /\ S \subseteq candidates
      /\ Cardinality(S) <= n
      /\ S = candidates \/ Cardinality(S) = n
      /\ \A k \in S, j \in candidates \ S : Before(k, j)

EntriesOf(k) == {i \in 1..Len(stream[k[2]]) : stream[k[2]][i] = k[1]}

-----------------------------------------------------------------------------
(* RoomDO: committing an event *)

Goto(t, label) == pc' = [pc EXCEPT ![t] = label]

\* The transaction of admitEvent, as far as fanout is concerned, followed by
\* the start of its own delivery when the event has local targets.
Commit(t, subject, members, version) ==
  LET pos    == Len(events) + 1
      bucket == BucketsAfter(members, pos)
      told   == {u \in Users : bucket[u] # "none"}
  IN  /\ pos <= MaxPos /\ pos + faults <= MaxTotal
      /\ pc[t] = "idle"
      /\ membership' = members
      /\ events' = Append(events, [bucket |-> bucket, subject |-> subject, version |-> version])
      /\ outbox' = [k \in DOMAIN outbox \cup ({pos} \X told) |->
                      IF k[1] = pos THEN Row("pending", version > 0) ELSE outbox[k]]
      /\ Goto(t, IF told = {} THEN "idle" ELSE "list")
      /\ limit' = [limit EXCEPT ![t] = Cardinality(told)]
      /\ UNCHANGED <<scope, work, item, reply, orphans, userVars, forgetting, waived, faults>>

\* A membership event the room authorises; a repeated join is only an event
\* when it differs from the current one, which here means it drops a profile.
MayMove(u, b) ==
  LET was == membership[u].bucket
  IN  CASE b = "join"   -> /\ u \notin Ghosts
                           /\ was = "join" => membership[u].version > 0
        [] b = "invite" -> /\ was \in {"none", "leave"}
                           /\ \E v \in Users \ {u} : membership[v].bucket = "join"
        [] b = "leave"  -> was \in {"join", "invite"}

ChangeMembership(t, u, b) ==
  /\ MayMove(u, b)
  /\ Commit(t, u, [membership EXCEPT ![u] =
                     [bucket |-> b, pos |-> Len(events) + 1, version |-> 0]], 0)

SendEvent(t, u) ==
  /\ membership[u].bucket = "join"
  /\ Commit(t, u, membership, 0)

\* enqueueProfileRefresh: a re-join that carries the profile version
EnqueueProfileRefresh(t, u, v) ==
  /\ membership[u].bucket = "join"
  /\ membership[u].version < v
  /\ Commit(t, u, [membership EXCEPT ![u] =
                     [bucket |-> "join", pos |-> Len(events) + 1, version |-> v]], v)

-----------------------------------------------------------------------------
(* UserDO: appendRoomFanout *)

\* Mutant: the position of the delta is not compared with the tombstone.
SuppressedLeavesOnly(k) ==
  tombstone[k[2]] > 0 /\ events[k[1]].bucket[k[2]] = "leave"

Suppressed(k) ==
  LET gone == tombstone[k[2]]
  IN  gone > 0 /\ (events[k[1]].bucket[k[2]] = "leave" \/ k[1] <= gone)

\* Mutant: the dedupe key is not looked up before the append.
AppendWithoutDedupe(k, r) ==
  LET u == k[2]
  IN  /\ u \notin Ghosts
      /\ ~Suppressed(k)
      /\ r = Reply(TRUE, Len(stream[u]) + 1, FALSE)
      /\ stream' = [stream EXCEPT ![u] = Append(@, k[1])]
      /\ UNCHANGED <<visible, tombstone, waived>>

AppendRoomFanout(k, r) ==
  LET u == k[2]
  IN  \/ /\ u \in Ghosts
         /\ r = Reply(FALSE, 0, FALSE)
         /\ UNCHANGED <<userVars, waived>>
      \/ /\ u \notin Ghosts
         /\ Suppressed(k)
         /\ r = Reply(TRUE, 0, FALSE)
         /\ waived' = waived \cup {k}
         /\ UNCHANGED userVars
      \/ /\ u \notin Ghosts
         /\ ~Suppressed(k)
         /\ \E i \in EntriesOf(k) : r = Reply(TRUE, i, FALSE)
         /\ UNCHANGED <<userVars, waived>>
      \/ /\ u \notin Ghosts
         /\ ~Suppressed(k)
         /\ EntriesOf(k) = {}
         /\ r = Reply(TRUE, Len(stream[u]) + 1, FALSE)
         /\ stream' = [stream EXCEPT ![u] = Append(@, k[1])]
         /\ visible' = [visible EXCEPT ![u] =
                          [bucket |-> events[k[1]].bucket[u], pos |-> k[1]]]
         /\ tombstone' = [tombstone EXCEPT ![u] = 0]
         /\ UNCHANGED waived

-----------------------------------------------------------------------------
(* RoomDO: deliverPendingFanout *)

Acknowledge(k, pos) ==
  outbox' = [j \in DOMAIN outbox |->
               IF j = k THEN [outbox[j] EXCEPT !.status = "acked", !.ack = pos] ELSE outbox[j]]

ListPending(t) ==
  /\ pc[t] = "list"
  /\ \E S \in SUBSET Pending :
       /\ IsBatch(S, scope[t], limit[t])
       /\ work' = [work EXCEPT ![t] = S]
  /\ scope' = [scope EXCEPT ![t] = Users]
  /\ limit' = [limit EXCEPT ![t] = 0]
  /\ Goto(t, "deliver")
  /\ UNCHANGED <<roomVars, outbox, item, reply, orphans, userVars, forgetting, waived, faults>>

\* isStaleProfileRefreshOutboxItem
IsStale(k) ==
  /\ k \in DOMAIN outbox
  /\ outbox[k].refresh
  /\ membership[events[k[1]].subject].version > events[k[1]].version

SkipStale(t) ==
  /\ pc[t] = "deliver"
  /\ \E k \in work[t] :
       /\ IsLeast(k, work[t])
       /\ IsStale(k)
       /\ Acknowledge(k, 0)
       /\ work' = [work EXCEPT ![t] = @ \ {k}]
       /\ waived' = waived \cup {k}
  /\ UNCHANGED <<roomVars, pc, scope, limit, item, reply, orphans, userVars,
                 forgetting, faults>>

\* Mutant: the row is acknowledged when the call is sent.
CallAndAcknowledge(t) ==
  /\ pc[t] = "deliver"
  /\ \E k \in work[t] :
       /\ IsLeast(k, work[t])
       /\ ~IsStale(k)
       /\ Acknowledge(k, 0)
       /\ item' = [item EXCEPT ![t] = k]
       /\ work' = [work EXCEPT ![t] = @ \ {k}]
  /\ Goto(t, "call")
  /\ UNCHANGED <<roomVars, scope, limit, reply, orphans, userVars, forgetting, waived, faults>>

CallAppend(t) ==
  /\ pc[t] = "deliver"
  /\ \E k \in work[t] :
       /\ IsLeast(k, work[t])
       /\ ~IsStale(k)
       /\ item' = [item EXCEPT ![t] = k]
       /\ work' = [work EXCEPT ![t] = @ \ {k}]
  /\ Goto(t, "call")
  /\ UNCHANGED <<roomVars, outbox, scope, limit, reply, orphans, userVars,
                 forgetting, waived, faults>>

\* The UserDO runs the call the task waits for.
ServeAppend(t) ==
  /\ pc[t] = "call"
  /\ \E r \in [ok : BOOLEAN, pos : 0..(MaxPos + 1), row : {FALSE}] :
       /\ AppendRoomFanout(item[t], r)
       /\ reply' = [reply EXCEPT ![t] = r]
  /\ Goto(t, "settle")
  /\ UNCHANGED <<roomVars, outbox, scope, limit, work, item, orphans, forgetting, faults>>

\* Mutant: the answer is not looked at.
SettleUnchecked(t) ==
  /\ pc[t] = "settle"
  /\ Acknowledge(item[t], reply[t].pos)
  /\ item' = [item EXCEPT ![t] = NoItem]
  /\ reply' = [reply EXCEPT ![t] = NoReply]
  /\ Goto(t, "deliver")
  /\ UNCHANGED <<roomVars, scope, limit, work, orphans, userVars, forgetting, waived, faults>>

\* The RoomDO uses the answer: acknowledge, or keep the row as 'retrying'.
\* The failure branch overwrites the status another invocation may have set.
Settle(t) ==
  /\ pc[t] = "settle"
  /\ IF reply[t].ok
     THEN Acknowledge(item[t], reply[t].pos)
     ELSE outbox' = [k \in DOMAIN outbox |->
                       IF k = item[t] THEN [outbox[k] EXCEPT !.status = "retrying"]
                       ELSE outbox[k]]
  /\ item' = [item EXCEPT ![t] = NoItem]
  /\ reply' = [reply EXCEPT ![t] = NoReply]
  /\ Goto(t, "deliver")
  /\ UNCHANGED <<roomVars, scope, limit, work, orphans, userVars, forgetting, waived, faults>>

Return(t) ==
  /\ pc[t] = "deliver"
  /\ work[t] = {}
  /\ Goto(t, "idle")
  /\ UNCHANGED <<roomVars, outbox, scope, limit, work, item, reply, orphans, userVars,
                 forgetting, waived, faults>>

-----------------------------------------------------------------------------
(* RoomDO: reconcileFanout, called by the fanout repair job *)

StartReconcile(t, users) ==
  /\ pc[t] = "idle"
  /\ \E S \in SUBSET Pending :
       /\ IsBatch(S, users, AuditLimit)
       /\ work' = [work EXCEPT ![t] = S]
  /\ scope' = [scope EXCEPT ![t] = users]
  /\ limit' = [limit EXCEPT ![t] = AuditLimit]
  /\ Goto(t, "auditPending")
  /\ UNCHANGED <<roomVars, outbox, item, reply, orphans, userVars, forgetting, waived, faults>>

\* Reads the outbox row and asks the UserDO for the entry (inspectRoomFanout).
Inspect(t) ==
  /\ pc[t] \in {"auditPending", "auditEvents"}
  /\ \E k \in work[t] :
       /\ IsLeast(k, work[t])
       /\ item' = [item EXCEPT ![t] = k]
       /\ work' = [work EXCEPT ![t] = @ \ {k}]
       /\ \E i \in EntriesOf(k) \cup {0} :
            /\ i = 0 => EntriesOf(k) = {}
            /\ reply' = [reply EXCEPT ![t] = Reply(TRUE, i, k \in DOMAIN outbox)]
  /\ Goto(t, IF pc[t] = "auditPending" THEN "pendingSeen" ELSE "eventSeen")
  /\ UNCHANGED <<roomVars, outbox, scope, limit, orphans, userVars, forgetting, waived, faults>>

\* Uses the answer: acknowledge the row, or recreate it, or leave it alone.
AfterInspectWith(t, acknowledge, recreate) ==
  /\ pc[t] \in {"pendingSeen", "eventSeen"}
  /\ IF acknowledge THEN Acknowledge(item[t], reply[t].pos)
     ELSE IF recreate
          THEN outbox' = [j \in DOMAIN outbox \cup {item[t]} |->
                            IF j = item[t] THEN Row("repaired", FALSE) ELSE outbox[j]]
          ELSE UNCHANGED outbox
  /\ item' = [item EXCEPT ![t] = NoItem]
  /\ reply' = [reply EXCEPT ![t] = NoReply]
  /\ Goto(t, IF pc[t] = "pendingSeen" THEN "auditPending" ELSE "auditEvents")
  /\ UNCHANGED <<roomVars, scope, limit, work, orphans, userVars, forgetting, waived, faults>>

\* Mutant: a row that exists is acknowledged whether or not the entry does.
AfterInspectAnyRow(t) ==
  AfterInspectWith(t, reply[t].row \/ reply[t].pos > 0, pc[t] = "eventSeen")

\* Mutant: a row missing on both sides is not recreated.
AfterInspectNoRepair(t) ==
  AfterInspectWith(t, reply[t].row /\ reply[t].pos > 0, FALSE)

\* Acts on the answer: acknowledge what the stream already holds, recreate a
\* row that is missing on both sides.
AfterInspect(t) ==
  AfterInspectWith(t,
    reply[t].pos > 0 /\ (pc[t] = "pendingSeen" \/ reply[t].row),
    reply[t].pos = 0 /\ ~reply[t].row /\ pc[t] = "eventSeen")

\* From the pending rows to the committed events, and from there to delivery.
NextPhase(t) ==
  /\ work[t] = {}
  /\ \/ /\ pc[t] = "auditPending"
        /\ work' = [work EXCEPT ![t] = {k \in Owed : k[2] \in scope[t]}]
        /\ Goto(t, "auditEvents")
     \/ /\ pc[t] = "auditEvents"
        /\ Goto(t, "list")
        /\ UNCHANGED work
  /\ UNCHANGED <<roomVars, outbox, scope, limit, item, reply, orphans, userVars,
                 forgetting, waived, faults>>

-----------------------------------------------------------------------------
(* UserDO and gateway: forgetting the room *)

\* The gateway reads the authoritative membership (projectForSync) ...
QueryForget(u) ==
  /\ u \notin Ghosts
  /\ forgetting[u] = 0
  /\ membership[u].bucket = "leave"
  /\ forgetting' = [forgetting EXCEPT ![u] = membership[u].pos]
  /\ UNCHANGED <<roomVars, outbox, taskVars, orphans, userVars, waived, faults>>

\* ... and calls forgetRoom with it.  The request fingerprint names only the
\* user and the room, and an entry with that fingerprint answers the call.
ForgetRoom(u) ==
  /\ forgetting[u] > 0
  /\ forgetting' = [forgetting EXCEPT ![u] = 0]
  /\ IF \E i \in 1..Len(stream[u]) : stream[u][i] = Forget
     THEN UNCHANGED userVars
     ELSE /\ stream' = [stream EXCEPT ![u] = Append(@, Forget)]
          /\ tombstone' = [tombstone EXCEPT ![u] = forgetting[u]]
          /\ visible' = [visible EXCEPT ![u] = [bucket |-> "none", pos |-> 0]]
  /\ UNCHANGED <<roomVars, outbox, taskVars, orphans, waived, faults>>

-----------------------------------------------------------------------------
(* Faults *)

Fault ==
  /\ faults < MaxFaults /\ Len(events) + faults < MaxTotal
  /\ faults' = faults + 1

\* The call fails before the UserDO runs it, or times out and runs later.
CallFails(t) ==
  /\ Fault
  /\ pc[t] = "call"
  /\ \/ UNCHANGED orphans
     \/ orphans' = orphans \cup {item[t]}
  /\ reply' = [reply EXCEPT ![t] = NoReply]
  /\ Goto(t, "settle")
  /\ UNCHANGED <<roomVars, outbox, scope, limit, work, item, userVars, forgetting, waived>>

\* The UserDO ran the call and its answer is lost.
ReplyLost(t) ==
  /\ Fault
  /\ pc[t] = "settle"
  /\ reply[t].ok
  /\ reply' = [reply EXCEPT ![t] = NoReply]
  /\ UNCHANGED <<roomVars, outbox, pc, scope, limit, work, item, orphans, userVars,
                 forgetting, waived>>

\* inspectRoomFanout fails: nothing catches it and the audit ends.
InspectFails(t) ==
  /\ Fault
  /\ pc[t] \in {"pendingSeen", "eventSeen"}
  /\ Goto(t, "idle")
  /\ work' = [work EXCEPT ![t] = {}]
  /\ item' = [item EXCEPT ![t] = NoItem]
  /\ reply' = [reply EXCEPT ![t] = NoReply]
  /\ scope' = [scope EXCEPT ![t] = Users]
  /\ limit' = [limit EXCEPT ![t] = 0]
  /\ UNCHANGED <<roomVars, outbox, orphans, userVars, forgetting, waived>>

\* The RoomDO is evicted: every invocation dies, its outstanding appends may
\* still run, and one outbox row may be missing when it comes back.
Evict ==
  /\ Fault
  /\ \E S \in SUBSET {item[t] : t \in {s \in Tasks : pc[s] = "call"}} :
       orphans' = orphans \cup S
  /\ \E L \in {{}} \cup {{k} : k \in DOMAIN outbox} :
       outbox' = [k \in DOMAIN outbox \ L |-> outbox[k]]
  /\ pc' = [t \in Tasks |-> "idle"]
  /\ work' = [t \in Tasks |-> {}]
  /\ item' = [t \in Tasks |-> NoItem]
  /\ reply' = [t \in Tasks |-> NoReply]
  /\ scope' = [t \in Tasks |-> Users]
  /\ limit' = [t \in Tasks |-> 0]
  /\ UNCHANGED <<roomVars, userVars, forgetting, waived>>

\* An append nobody waits for any more reaches the UserDO.
LateAppend(k) ==
  /\ k \in orphans
  /\ orphans' = orphans \ {k}
  /\ \E r \in [ok : BOOLEAN, pos : 0..(MaxPos + 1), row : {FALSE}] : AppendRoomFanout(k, r)
  /\ UNCHANGED <<roomVars, outbox, taskVars, forgetting, faults>>

-----------------------------------------------------------------------------
Init ==
  /\ membership = [u \in Users |-> NoMembership]
  /\ events = <<>>
  /\ outbox = [k \in {} |-> Row("pending", FALSE)]
  /\ pc = [t \in Tasks |-> "idle"]
  /\ scope = [t \in Tasks |-> Users]
  /\ limit = [t \in Tasks |-> 0]
  /\ work = [t \in Tasks |-> {}]
  /\ item = [t \in Tasks |-> NoItem]
  /\ reply = [t \in Tasks |-> NoReply]
  /\ orphans = {}
  /\ stream = [u \in Users |-> <<>>]
  /\ visible = [u \in Users |-> [bucket |-> "none", pos |-> 0]]
  /\ tombstone = [u \in Users |-> 0]
  /\ forgetting = [u \in Users |-> 0]
  /\ waived = {}
  /\ faults = 0

\* Work a client starts.
Client ==
  \/ \E t \in Admissions, u \in Users :
       \/ \E b \in Buckets : ChangeMembership(t, u, b)
       \/ SendEvent(t, u)
       \/ \E v \in 1..MaxVersion : EnqueueProfileRefresh(t, u, v)
  \/ \E u \in Users : QueryForget(u) \/ ForgetRoom(u)

\* A repair job an operator starts, for the room, or for one user in the rooms
\* that user's own table lists.
RepairRoom == \E t \in Repairs : StartReconcile(t, Users)
RepairUser(u) == visible[u].bucket # "none" /\ \E t \in Repairs : StartReconcile(t, {u})

\* A step of an invocation already running.
Advance(t) ==
  \/ ListPending(t) \/ SkipStale(t) \/ CallAppend(t) \/ ServeAppend(t) \/ Settle(t)
  \/ Return(t) \/ Inspect(t) \/ AfterInspect(t) \/ NextPhase(t)

Faulty ==
  \/ \E t \in Tasks : CallFails(t) \/ ReplyLost(t) \/ InspectFails(t)
  \/ Evict

Next ==
  \/ Client
  \/ RepairRoom
  \/ \E u \in Users : RepairUser(u)
  \/ \E t \in Tasks : Advance(t)
  \/ \E k \in orphans : LateAppend(k)
  \/ Faulty

Spec == Init /\ [][Next]_vars

-----------------------------------------------------------------------------
(* Properties *)

\* Every table holds rows of its shape, and an invocation is in a known place.
TypeOK ==
  /\ membership \in [Users -> [bucket : Buckets \cup {"none"}, pos : Nat, version : Nat]]
  /\ events \in Seq([bucket : [Users -> Buckets \cup {"none"}], subject : Users, version : Nat])
  /\ Len(events) <= MaxPos
  /\ DOMAIN outbox \subseteq Keys
  /\ \A k \in DOMAIN outbox :
       outbox[k] \in [status : {"pending", "retrying", "repaired", "acked"},
                      ack : Nat, refresh : BOOLEAN]
  /\ pc \in [Tasks -> {"idle", "list", "deliver", "call", "settle", "auditPending",
                       "auditEvents", "pendingSeen", "eventSeen"}]
  /\ scope \in [Tasks -> SUBSET Users]
  /\ limit \in [Tasks -> Nat]
  /\ work \in [Tasks -> SUBSET Keys]
  /\ item \in [Tasks -> Keys \cup {NoItem}]
  /\ reply \in [Tasks -> [ok : BOOLEAN, pos : Nat, row : BOOLEAN]]
  /\ orphans \subseteq Keys
  /\ stream \in [Users -> Seq(Nat)]
  /\ visible \in [Users -> [bucket : Buckets \cup {"none"}, pos : Nat]]
  /\ tombstone \in [Users -> Nat]
  /\ forgetting \in [Users -> Nat]
  /\ waived \subseteq Keys
  /\ faults \in Nat

\* However often and by however many invocations a delta is delivered, the
\* user's stream holds at most one entry for its room position.
AtMostOnce ==
  \A u \in Users : \A i, j \in 1..Len(stream[u]) :
    stream[u][i] = stream[u][j] => i = j

\* An acknowledged row names the stream entry that holds its delta; one
\* acknowledged without an entry was suppressed by a forget or superseded.
AckIsDurable ==
  \A k \in DOMAIN outbox :
    outbox[k].status = "acked" =>
      IF outbox[k].ack = 0 THEN k \in waived
      ELSE outbox[k].ack \in EntriesOf(k)

\* Whatever an invocation or a late call still refers to is a committed delta.
OnlyOwed ==
  /\ DOMAIN outbox \subseteq Owed
  /\ orphans \subseteq Owed
  /\ \A t \in Tasks : work[t] \subseteq Owed
  /\ \A t \in Tasks :
       pc[t] \in {"call", "settle", "pendingSeen", "eventSeen"} => item[t] \in Owed

\* A stream holds nothing but forgets and deltas committed for its user.
EntriesOwed ==
  \A u \in Users : \A i \in 1..Len(stream[u]) :
    stream[u][i] = Forget \/ <<stream[u][i], u>> \in Owed

\* An answer is still true of the user's stream when the RoomDO uses it.
RepliesHold ==
  \A t \in Tasks :
    /\ pc[t] = "settle" /\ reply[t].ok =>
         IF reply[t].pos = 0 THEN item[t] \in waived ELSE reply[t].pos \in EntriesOf(item[t])
    /\ pc[t] \in {"pendingSeen", "eventSeen"} /\ reply[t].pos > 0 =>
         reply[t].pos \in EntriesOf(item[t])

\* The room and the streams agree, through every call under way.
DeliveryInv ==
  /\ TypeOK
  /\ OnlyOwed
  /\ EntriesOwed
  /\ RepliesHold
  /\ AtMostOnce
  /\ AckIsDurable

\* A room is only hidden by a forget that the stream tells of.
TombstonesTold ==
  \A u \in Users : tombstone[u] > 0 =>
    \E i \in 1..Len(stream[u]) : stream[u][i] = Forget

\* The inductive invariant behind AtMostOnce, AckIsDurable, ForgottenStaysHidden
\* and ImplementsLedger.
FanoutInv == DeliveryInv /\ TombstonesTold

\* A room hidden by a forget comes back only through an event committed after
\* the membership the forget was decided on, and never as a left room: a late
\* or repaired delivery of an older delta cannot revive it.
ForgottenStaysHidden ==
  [][\A u \in Users :
       tombstone[u] > 0 /\ visible'[u] # visible[u] =>
         /\ visible'[u].pos > tombstone[u]
         /\ visible'[u].bucket \in {"join", "invite"}]_vars

\* The fanout implements the ledger: what a user sees was owed to that user,
\* once, and the room considers a delta done only when it is.
Ledger == INSTANCE FanoutLedger WITH
  head    <- Len(events),
  owed    <- Owed,
  view    <- stream,
  excused <- waived,
  settled <- {k \in DOMAIN outbox : outbox[k].status = "acked"}

ImplementsLedger == Ledger!Spec

\* Once no call has failed and no invocation is running, every delta committed
\* for an existing user has been acknowledged (FLOW-ROOM-LOCAL-FANOUT: only the
\* failure of a user leaves a row in the outbox).
DrainedWhenQuiet ==
  faults = 0 /\ (\A t \in Tasks : pc[t] = "idle") =>
    \A k \in Owed : k[2] \in Ghosts \/ outbox[k].status = "acked"

\* A successful forget of a room the user is still out of removes it from every
\* bucket of the user's table.
ForgetTakesEffect ==
  [][\A u \in Users : ForgetRoom(u) /\ membership[u].bucket = "leave" =>
       visible'[u].bucket = "none"]_vars

\* Fairness: a running invocation goes on, a late append arrives, and the
\* operator's repair job for the room is run again and again.
RepairedSpec ==
  /\ Spec
  /\ \A t \in Tasks : WF_vars(Advance(t))
  /\ \A k \in Keys : WF_vars(LateAppend(k))
  /\ SF_vars(RepairRoom)

\* From some point on every delta owed to an existing user is in the stream or
\* was settled without an entry, and no row of an existing user is pending.
EventuallyDelivered ==
  <>[](/\ \A k \in Owed : k[2] \in Ghosts \/ EntriesOf(k) # {} \/ k \in waived
       /\ \A k \in Pending : k[2] \in Ghosts)
=============================================================================
