-------------------------- MODULE RoomFanoutProofs --------------------------
(***************************************************************************)
(* Proofs about RoomFanout for every set of users, invocations and bounds: *)
(* the inductive invariant FanoutInv, and from it at-most-once delivery,   *)
(* the durability of acknowledgements, what a forgotten room shows, and    *)
(* that the fanout implements FanoutLedger.                                *)
(***************************************************************************)
EXTENDS RoomFanout, FiniteSetTheorems, TLAPS

USE UsersAreOrdered, GhostsAreUsers, BoundsAreNat

(***************************************************************************)
(* What is owed, and how it grows.                                         *)
(***************************************************************************)
\* What is owed is a key of the outbox.
LEMMA OwedAreKeys ==
  ASSUME TypeOK
  PROVE  Owed \subseteq Keys
BY DEF TypeOK, Owed, Keys

\* An event of the log has the shape of one.
LEMMA EventType ==
  ASSUME TypeOK, NEW i \in 1..Len(events)
  PROVE  events[i] \in [bucket : [Users -> Buckets \cup {"none"}],
                        subject : Users, version : Nat]
<1> DEFINE E == [bucket : [Users -> Buckets \cup {"none"}], subject : Users, version : Nat]
<1>1. events \in Seq(E)
  BY DEF TypeOK
<1> HIDE DEF E
<1>2. events[i] \in E
  BY <1>1
<1> QED BY <1>2 DEF E

\* A step that commits nothing owes nothing new.
LEMMA OwedUnchanged ==
  ASSUME UNCHANGED events
  PROVE  Owed' = Owed
BY DEF Owed

\* What an append of the UserDO keeps and what its answer says.
LEMMA AppendFacts ==
  ASSUME TypeOK, EntriesOwed, AtMostOnce,
         NEW k \in Owed, NEW r,
         AppendRoomFanout(k, r),
         UNCHANGED events
  PROVE  /\ stream' \in [Users -> Seq(Nat)]
         /\ visible' \in [Users -> [bucket : Buckets \cup {"none"}, pos : Nat]]
         /\ tombstone' \in [Users -> Nat]
         /\ waived' \subseteq Keys
         /\ waived \subseteq waived'
         /\ \A j \in Owed : EntriesOf(j) \subseteq EntriesOf(j)'
         /\ EntriesOwed'
         /\ AtMostOnce'
         /\ r.ok => IF r.pos = 0 THEN k \in waived' ELSE r.pos \in EntriesOf(k)'
<1> DEFINE u == k[2]
<1>k. k \in Keys /\ k = <<k[1], k[2]>> /\ k[1] \in 1..Len(events) /\ k[2] \in Users
  BY OwedAreKeys DEF Owed
<1>o. Owed' = Owed
  BY OwedUnchanged
<1>s. stream \in [Users -> Seq(Nat)]
  BY DEF TypeOK
<1>1. CASE /\ UNCHANGED <<userVars, waived>>
           /\ \/ u \in Ghosts /\ r = Reply(FALSE, 0, FALSE)
              \/ \E i \in EntriesOf(k) : r = Reply(TRUE, i, FALSE)
  <2>1. UNCHANGED <<stream, visible, tombstone, waived>>
    BY <1>1 DEF userVars
  <2>2. EntriesOwed' /\ AtMostOnce'
    BY <2>1, <1>o DEF EntriesOwed, AtMostOnce
  <2>3. \A j \in Owed : EntriesOf(j)' = EntriesOf(j)
    BY <2>1 DEF EntriesOf
  <2>4. r.ok => r.pos \in EntriesOf(k) /\ r.pos # 0
    BY <1>1, <1>k, <1>s DEF Reply, EntriesOf
  <2> QED
    BY <2>1, <2>2, <2>3, <2>4 DEF TypeOK
<1>2. CASE r = Reply(TRUE, 0, FALSE) /\ waived' = waived \cup {k} /\ UNCHANGED userVars
  <2>1. UNCHANGED <<stream, visible, tombstone>>
    BY <1>2 DEF userVars
  <2>2. EntriesOwed' /\ AtMostOnce'
    BY <2>1, <1>o DEF EntriesOwed, AtMostOnce
  <2>3. \A j \in Owed : EntriesOf(j)' = EntriesOf(j)
    BY <2>1 DEF EntriesOf
  <2> QED
    BY <1>2, <1>k, <2>1, <2>2, <2>3 DEF TypeOK, Reply
<1>3. CASE /\ EntriesOf(k) = {}
           /\ r = Reply(TRUE, Len(stream[u]) + 1, FALSE)
           /\ stream' = [stream EXCEPT ![u] = Append(@, k[1])]
           /\ visible' = [visible EXCEPT ![u] =
                            [bucket |-> events[k[1]].bucket[u], pos |-> k[1]]]
           /\ tombstone' = [tombstone EXCEPT ![u] = 0]
           /\ UNCHANGED waived
  <2>1. stream' \in [Users -> Seq(Nat)]
    BY <1>3, <1>k, <1>s
  <2>2. /\ stream'[u] = Append(stream[u], k[1])
        /\ Len(stream'[u]) = Len(stream[u]) + 1
        /\ stream'[u][Len(stream[u]) + 1] = k[1]
        /\ \A i \in 1..Len(stream[u]) : stream'[u][i] = stream[u][i]
        /\ \A v \in Users : v # u => stream'[v] = stream[v]
        /\ Len(stream[u]) \in Nat
    BY <1>3, <1>k, <1>s
  <2>3. \A j \in Owed : EntriesOf(j) \subseteq EntriesOf(j)'
    <3> SUFFICES ASSUME NEW j \in Owed, NEW i \in EntriesOf(j)
                 PROVE  i \in EntriesOf(j)'
      OBVIOUS
    <3>1. j[2] \in Users
      BY DEF Owed
    <3>2. CASE j[2] = u
      BY <3>2, <2>2 DEF EntriesOf
    <3>3. CASE j[2] # u
      BY <3>1, <3>3, <2>2 DEF EntriesOf
    <3> QED BY <3>2, <3>3
  <2>4. EntriesOwed'
    <3> SUFFICES ASSUME NEW v \in Users, NEW i \in 1..Len(stream'[v])
                 PROVE  stream'[v][i] = Forget \/ <<stream'[v][i], v>> \in Owed
      BY <1>o DEF EntriesOwed
    <3>1. CASE v # u
      BY <3>1, <2>2 DEF EntriesOwed
    <3>2. CASE v = u /\ i \in 1..Len(stream[u])
      BY <3>2, <2>2 DEF EntriesOwed
    <3>3. CASE v = u /\ i = Len(stream[u]) + 1
      BY <3>3, <2>2, <1>k
    <3> QED BY <3>1, <3>2, <3>3, <2>2
  <2>5. AtMostOnce'
    <3> SUFFICES ASSUME NEW v \in Users, NEW i \in 1..Len(stream'[v]), NEW j \in 1..Len(stream'[v]),
                        stream'[v][i] = stream'[v][j]
                 PROVE  i = j
      BY DEF AtMostOnce
    <3>0. \A x \in 1..Len(stream[u]) : stream[u][x] # k[1]
      BY <1>3 DEF EntriesOf
    <3>1. CASE v # u
      BY <3>1, <2>2 DEF AtMostOnce
    <3>2. CASE v = u
      <4>1. CASE i \in 1..Len(stream[u]) /\ j \in 1..Len(stream[u])
        BY <4>1, <3>2, <2>2, <1>k DEF AtMostOnce
      <4>2. CASE i = Len(stream[u]) + 1 \/ j = Len(stream[u]) + 1
        BY <4>2, <3>0, <3>2, <2>2
      <4> QED BY <4>1, <4>2, <3>2, <2>2
    <3> QED BY <3>1, <3>2
  <2>6. r.pos \in EntriesOf(k)' /\ r.pos # 0
    BY <1>3, <1>k, <2>2 DEF Reply, EntriesOf
  <2>7. visible' \in [Users -> [bucket : Buckets \cup {"none"}, pos : Nat]]
    <3>0. events[k[1]] \in [bucket : [Users -> Buckets \cup {"none"}],
                             subject : Users, version : Nat]
      BY <1>k, EventType
    <3>1. events[k[1]].bucket \in [Users -> Buckets \cup {"none"}]
      BY <3>0
    <3>2. events[k[1]].bucket[u] \in Buckets \cup {"none"}
      BY <3>1, <1>k
    <3>3. k[1] \in Nat
      BY <1>k
    <3> QED BY <3>2, <3>3, <1>3, <1>k DEF TypeOK
  <2>8. tombstone' \in [Users -> Nat]
    BY <1>3, <1>k DEF TypeOK
  <2> QED
    BY <1>3, <2>1, <2>3, <2>4, <2>5, <2>6, <2>7, <2>8 DEF TypeOK
<1> QED
  BY <1>1, <1>2, <1>3 DEF AppendRoomFanout

(***************************************************************************)
(* The steps that touch neither the log nor a stream: what was owed and    *)
(* delivered stays as it is, so only the room's own tables are at stake.   *)
(***************************************************************************)
LEMMA StreamsUnchanged ==
  ASSUME EntriesOwed, AtMostOnce, UNCHANGED <<events, stream>>
  PROVE  /\ Owed' = Owed
         /\ \A k : EntriesOf(k)' = EntriesOf(k)
         /\ EntriesOwed'
         /\ AtMostOnce'
<1>1. Owed' = Owed
  BY OwedUnchanged
<1>2. EntriesOwed' /\ AtMostOnce'
  BY <1>1 DEF EntriesOwed, AtMostOnce
<1>3. \A k : EntriesOf(k)' = EntriesOf(k)
  BY DEF EntriesOf
<1> QED
  BY <1>1, <1>2, <1>3

\* A row acknowledged with a true answer keeps the table sound.
LEMMA AcknowledgeFacts ==
  ASSUME TypeOK, OnlyOwed, AckIsDurable, NEW k, NEW pos \in Nat,
         Acknowledge(k, pos),
         UNCHANGED <<events, stream>>,
         waived \subseteq waived',
         IF pos = 0 THEN k \in waived' ELSE pos \in EntriesOf(k)
  PROVE  /\ DOMAIN outbox' = DOMAIN outbox
         /\ \A j \in DOMAIN outbox :
              outbox'[j] \in [status : {"pending", "retrying", "repaired", "acked"},
                              ack : Nat, refresh : BOOLEAN]
         /\ AckIsDurable'
<1>1. DOMAIN outbox' = DOMAIN outbox
  BY DEF Acknowledge
<1>2. ASSUME NEW j \in DOMAIN outbox
      PROVE  outbox'[j] = IF j = k THEN [outbox[j] EXCEPT !.status = "acked", !.ack = pos]
                          ELSE outbox[j]
  BY <1>2 DEF Acknowledge
<1>3. ASSUME NEW j \in DOMAIN outbox
      PROVE  outbox'[j] \in [status : {"pending", "retrying", "repaired", "acked"},
                             ack : Nat, refresh : BOOLEAN]
  BY <1>2, <1>3 DEF TypeOK
<1>4. ASSUME NEW j \in DOMAIN outbox, outbox'[j].status = "acked"
      PROVE  IF outbox'[j].ack = 0 THEN j \in waived' ELSE outbox'[j].ack \in EntriesOf(j)
  <2>1. CASE j = k
    <3>1. outbox'[j].ack = pos
      BY <2>1, <1>2, <1>4 DEF TypeOK
    <3> QED BY <3>1, <2>1
  <2>2. CASE j # k
    BY <2>2, <1>2, <1>4 DEF AckIsDurable
  <2> QED BY <2>1, <2>2
<1>5. \A j : EntriesOf(j)' = EntriesOf(j)
  BY DEF EntriesOf
<1>6. AckIsDurable'
  BY <1>1, <1>4, <1>5 DEF AckIsDurable
<1> QED
  BY <1>1, <1>3, <1>6

LEMMA ListPendingKeeps ==
  ASSUME DeliveryInv, NEW t \in Tasks, ListPending(t)
  PROVE  DeliveryInv'
<1>0. UNCHANGED <<events, stream, outbox, waived>>
  BY DEF ListPending, roomVars, userVars
<1>s. /\ Owed' = Owed
      /\ \A k : EntriesOf(k)' = EntriesOf(k)
      /\ EntriesOwed' /\ AtMostOnce'
  BY <1>0, StreamsUnchanged DEF DeliveryInv
<1>1. PICK S \in SUBSET Pending : work' = [work EXCEPT ![t] = S]
  BY DEF ListPending
<1>2. S \subseteq Owed /\ S \subseteq Keys
  BY <1>1, OwedAreKeys DEF Pending, DeliveryInv, OnlyOwed
<1>3. TypeOK'
  BY <1>1, <1>2 DEF ListPending, DeliveryInv, TypeOK, Goto, roomVars, userVars
<1>4. OnlyOwed'
  BY <1>0, <1>1, <1>2, <1>s DEF ListPending, DeliveryInv, OnlyOwed, TypeOK, Goto
<1>5. RepliesHold'
  BY <1>0, <1>s DEF ListPending, DeliveryInv, RepliesHold, TypeOK, Goto
<1>6. AckIsDurable'
  BY <1>0, <1>s DEF DeliveryInv, AckIsDurable
<1> QED
  BY <1>s, <1>3, <1>4, <1>5, <1>6 DEF DeliveryInv

LEMMA SkipStaleKeeps ==
  ASSUME DeliveryInv, NEW t \in Tasks, SkipStale(t)
  PROVE  DeliveryInv'
<1>0. UNCHANGED <<events, stream, orphans, pc, item, reply>>
  BY DEF SkipStale, roomVars, userVars
<1>s. /\ Owed' = Owed
      /\ \A k : EntriesOf(k)' = EntriesOf(k)
      /\ EntriesOwed' /\ AtMostOnce'
  BY <1>0, StreamsUnchanged DEF DeliveryInv
<1>1. PICK k \in work[t] : /\ Acknowledge(k, 0)
                           /\ work' = [work EXCEPT ![t] = @ \ {k}]
                           /\ waived' = waived \cup {k}
  BY DEF SkipStale
<1>2. k \in Keys
  BY <1>1 DEF DeliveryInv, TypeOK
<1>3. /\ DOMAIN outbox' = DOMAIN outbox
      /\ \A j \in DOMAIN outbox :
           outbox'[j] \in [status : {"pending", "retrying", "repaired", "acked"},
                           ack : Nat, refresh : BOOLEAN]
      /\ AckIsDurable'
  BY <1>0, <1>1, AcknowledgeFacts DEF DeliveryInv
<1>4. TypeOK'
  BY <1>1, <1>2, <1>3 DEF SkipStale, DeliveryInv, TypeOK, roomVars, userVars
<1>5. OnlyOwed'
  BY <1>0, <1>1, <1>3, <1>s DEF DeliveryInv, OnlyOwed, TypeOK
<1>6. RepliesHold'
  BY <1>0, <1>1, <1>s DEF DeliveryInv, RepliesHold
<1> QED
  BY <1>s, <1>3, <1>4, <1>5, <1>6 DEF DeliveryInv

LEMMA CallAppendKeeps ==
  ASSUME DeliveryInv, NEW t \in Tasks, CallAppend(t)
  PROVE  DeliveryInv'
<1>0. UNCHANGED <<events, stream, orphans, outbox, reply, waived>>
  BY DEF CallAppend, roomVars, userVars
<1>s. /\ Owed' = Owed
      /\ \A k : EntriesOf(k)' = EntriesOf(k)
      /\ EntriesOwed' /\ AtMostOnce'
  BY <1>0, StreamsUnchanged DEF DeliveryInv
<1>1. PICK k \in work[t] : /\ item' = [item EXCEPT ![t] = k]
                           /\ work' = [work EXCEPT ![t] = @ \ {k}]
  BY DEF CallAppend
<1>2. k \in Keys /\ k \in Owed
  BY <1>1 DEF DeliveryInv, TypeOK, OnlyOwed
<1>4. TypeOK'
  BY <1>1, <1>2 DEF CallAppend, DeliveryInv, TypeOK, roomVars, userVars, Goto
<1>5. OnlyOwed'
  BY <1>0, <1>1, <1>2, <1>s DEF CallAppend, Goto, DeliveryInv, OnlyOwed, TypeOK
<1>6. RepliesHold'
  BY <1>0, <1>1, <1>s DEF CallAppend, Goto, DeliveryInv, RepliesHold, TypeOK
<1>7. AckIsDurable'
  BY <1>0, <1>s DEF DeliveryInv, AckIsDurable
<1> QED
  BY <1>s, <1>4, <1>5, <1>6, <1>7 DEF DeliveryInv

LEMMA ReturnKeeps ==
  ASSUME DeliveryInv, NEW t \in Tasks, Return(t)
  PROVE  DeliveryInv'
<1>0. UNCHANGED <<events, stream, outbox, waived, orphans, work, item, reply>>
  BY DEF Return, Goto, roomVars, userVars, taskVars
<1>s. /\ Owed' = Owed
      /\ \A k : EntriesOf(k)' = EntriesOf(k)
      /\ EntriesOwed' /\ AtMostOnce'
  BY <1>0, StreamsUnchanged DEF DeliveryInv
<1>4. TypeOK'
  BY DEF Return, Goto, DeliveryInv, TypeOK, roomVars, userVars, taskVars
<1>5. OnlyOwed'
  BY <1>0, <1>s DEF Return, Goto, DeliveryInv, OnlyOwed, TypeOK
<1>6. RepliesHold'
  BY <1>0, <1>s DEF Return, Goto, DeliveryInv, RepliesHold, TypeOK
<1>7. AckIsDurable'
  BY <1>0, <1>s DEF DeliveryInv, AckIsDurable
<1> QED
  BY <1>s, <1>4, <1>5, <1>6, <1>7 DEF DeliveryInv

LEMMA StartReconcileKeeps ==
  ASSUME DeliveryInv, NEW t \in Tasks, NEW users \in SUBSET Users, StartReconcile(t, users)
  PROVE  DeliveryInv'
<1>0. UNCHANGED <<events, stream, outbox, waived, orphans, item, reply>>
  BY DEF StartReconcile, Goto, roomVars, userVars, taskVars
<1>s. /\ Owed' = Owed
      /\ \A k : EntriesOf(k)' = EntriesOf(k)
      /\ EntriesOwed' /\ AtMostOnce'
  BY <1>0, StreamsUnchanged DEF DeliveryInv
<1>1. PICK S \in SUBSET Pending : work' = [work EXCEPT ![t] = S]
  BY DEF StartReconcile
<1>2. S \subseteq Owed /\ S \subseteq Keys
  BY <1>1, OwedAreKeys DEF Pending, DeliveryInv, OnlyOwed
<1>4. TypeOK'
  BY <1>1, <1>2 DEF StartReconcile, Goto, DeliveryInv, TypeOK, roomVars, userVars, taskVars
<1>5. OnlyOwed'
  BY <1>0, <1>s, <1>1, <1>2 DEF StartReconcile, Goto, DeliveryInv, OnlyOwed, TypeOK
<1>6. RepliesHold'
  BY <1>0, <1>s DEF StartReconcile, Goto, DeliveryInv, RepliesHold, TypeOK
<1>7. AckIsDurable'
  BY <1>0, <1>s DEF DeliveryInv, AckIsDurable
<1> QED
  BY <1>s, <1>4, <1>5, <1>6, <1>7 DEF DeliveryInv

LEMMA InspectKeeps ==
  ASSUME DeliveryInv, NEW t \in Tasks, Inspect(t)
  PROVE  DeliveryInv'
<1>0. UNCHANGED <<events, stream, outbox, waived, orphans>>
  BY DEF Inspect, Goto, roomVars, userVars, taskVars
<1>s. /\ Owed' = Owed
      /\ \A k : EntriesOf(k)' = EntriesOf(k)
      /\ EntriesOwed' /\ AtMostOnce'
  BY <1>0, StreamsUnchanged DEF DeliveryInv
<1>1. PICK k \in work[t] :
        /\ item' = [item EXCEPT ![t] = k]
        /\ work' = [work EXCEPT ![t] = @ \ {k}]
        /\ \E i \in EntriesOf(k) \cup {0} :
             reply' = [reply EXCEPT ![t] = Reply(TRUE, i, k \in DOMAIN outbox)]
  BY DEF Inspect
<1>2. k \in Keys /\ k \in Owed
  BY <1>1 DEF DeliveryInv, TypeOK, OnlyOwed
<1>3. PICK i \in EntriesOf(k) \cup {0} :
        reply' = [reply EXCEPT ![t] = [ok |-> TRUE, pos |-> i, row |-> k \in DOMAIN outbox]]
  BY <1>1 DEF Reply
<1>i. i \in Nat
  BY <1>3 DEF EntriesOf
<1>r. (k \in DOMAIN outbox) \in BOOLEAN
  OBVIOUS
<1>4. TypeOK'
  BY <1>1, <1>2, <1>3, <1>i, <1>r DEF Inspect, Goto, DeliveryInv, TypeOK, roomVars, userVars, taskVars
<1>5. OnlyOwed'
  BY <1>0, <1>s, <1>1, <1>2 DEF Inspect, Goto, DeliveryInv, OnlyOwed, TypeOK
<1>6. RepliesHold'
  <2>1. pc[t] \in {"auditPending", "auditEvents"}
        /\ pc' = [pc EXCEPT ![t] = IF pc[t] = "auditPending" THEN "pendingSeen" ELSE "eventSeen"]
    BY DEF Inspect, Goto
  <2>2. pc'[t] # "settle" /\ item'[t] = k /\ reply'[t].pos = i
    BY <1>1, <1>3, <2>1 DEF DeliveryInv, TypeOK
  <2>3. reply'[t].pos > 0 => reply'[t].pos \in EntriesOf(item'[t])
    BY <2>2, <1>3
  <2>4. \A s \in Tasks \ {t} : pc'[s] = pc[s] /\ item'[s] = item[s] /\ reply'[s] = reply[s]
    BY <1>1, <1>3, <2>1 DEF DeliveryInv, TypeOK
  <2> QED
    BY <1>0, <1>s, <2>2, <2>3, <2>4 DEF DeliveryInv, RepliesHold
<1>7. AckIsDurable'
  BY <1>0, <1>s DEF DeliveryInv, AckIsDurable
<1> QED
  BY <1>s, <1>4, <1>5, <1>6, <1>7 DEF DeliveryInv

LEMMA NextPhaseKeeps ==
  ASSUME DeliveryInv, NEW t \in Tasks, NextPhase(t)
  PROVE  DeliveryInv'
<1>0. UNCHANGED <<events, stream, outbox, waived, orphans, item, reply>>
  BY DEF NextPhase, roomVars, userVars
<1>s. /\ Owed' = Owed
      /\ \A k : EntriesOf(k)' = EntriesOf(k)
      /\ EntriesOwed' /\ AtMostOnce'
  BY <1>0, StreamsUnchanged DEF DeliveryInv
<1>2. Owed \subseteq Keys
  BY OwedAreKeys DEF DeliveryInv
<1>3. PICK S \in SUBSET Owed, next \in {"auditEvents", "list"} :
        /\ work' = [work EXCEPT ![t] = S]
        /\ pc' = [pc EXCEPT ![t] = next]
  <2>1. CASE pc[t] = "auditPending" /\ work' = [work EXCEPT ![t] = {k \in Owed : k[2] \in scope[t]}]
             /\ Goto(t, "auditEvents")
    <3>1. {k \in Owed : k[2] \in scope[t]} \in SUBSET Owed
      OBVIOUS
    <3> QED BY <2>1, <3>1 DEF Goto
  <2>2. CASE Goto(t, "list") /\ work' = work
    <3>1. work[t] \in SUBSET Owed /\ work' = [work EXCEPT ![t] = work[t]]
      BY <2>2 DEF DeliveryInv, OnlyOwed, TypeOK
    <3> QED BY <2>2, <3>1 DEF Goto
  <2> QED
    BY <2>1, <2>2 DEF NextPhase
<1>4. TypeOK'
  BY <1>2, <1>3 DEF NextPhase, DeliveryInv, TypeOK, roomVars, userVars, taskVars
<1>5. OnlyOwed'
  BY <1>0, <1>s, <1>3 DEF DeliveryInv, OnlyOwed, TypeOK
<1>6. RepliesHold'
  BY <1>0, <1>s, <1>3 DEF DeliveryInv, RepliesHold, TypeOK
<1>7. AckIsDurable'
  BY <1>0, <1>s DEF DeliveryInv, AckIsDurable
<1> QED
  BY <1>s, <1>4, <1>5, <1>6, <1>7 DEF DeliveryInv

LEMMA QueryForgetKeeps ==
  ASSUME DeliveryInv, NEW u \in Users, QueryForget(u)
  PROVE  DeliveryInv'
<1>0. UNCHANGED <<events, stream, outbox, waived, orphans, pc, work, item, reply>>
  BY DEF QueryForget, roomVars, userVars, taskVars
<1>s. /\ Owed' = Owed
      /\ \A k : EntriesOf(k)' = EntriesOf(k)
      /\ EntriesOwed' /\ AtMostOnce'
  BY <1>0, StreamsUnchanged DEF DeliveryInv
<1>4. TypeOK'
  BY DEF QueryForget, DeliveryInv, TypeOK, roomVars, userVars, taskVars
<1>5. OnlyOwed'
  BY <1>0, <1>s DEF QueryForget, DeliveryInv, OnlyOwed, TypeOK
<1>6. RepliesHold'
  BY <1>0, <1>s DEF QueryForget, DeliveryInv, RepliesHold, TypeOK
<1>7. AckIsDurable'
  BY <1>0, <1>s DEF DeliveryInv, AckIsDurable
<1> QED
  BY <1>s, <1>4, <1>5, <1>6, <1>7 DEF DeliveryInv

\* A fault is counted, and that is all the budget of faults comes to.
LEMMA FaultCounts ==
  ASSUME TypeOK, Fault
  PROVE  faults' \in Nat
  BY DEF TypeOK, Fault

LEMMA CallFailsKeeps ==
  ASSUME DeliveryInv, NEW t \in Tasks, CallFails(t)
  PROVE  DeliveryInv'
<1>0. UNCHANGED <<events, stream, outbox, waived, work, item>>
  BY DEF CallFails, Goto, NoReply, Reply, roomVars, userVars, taskVars
<1>s. /\ Owed' = Owed
      /\ \A k : EntriesOf(k)' = EntriesOf(k)
      /\ EntriesOwed' /\ AtMostOnce'
  BY <1>0, StreamsUnchanged DEF DeliveryInv
<1>1. pc[t] = "call" /\ item[t] \in Owed /\ item[t] \in Keys
  BY OwedAreKeys DEF CallFails, DeliveryInv, OnlyOwed
<1>2. orphans' \subseteq orphans \cup {item[t]}
  BY DEF CallFails
<1>f. faults' \in Nat
  BY FaultCounts DEF CallFails, DeliveryInv
<1>4. TypeOK'
  BY <1>f, <1>1, <1>2 DEF CallFails, Goto, NoReply, Reply, DeliveryInv, TypeOK, roomVars, userVars, taskVars
<1>5. OnlyOwed'
  BY <1>0, <1>s, <1>1, <1>2 DEF CallFails, Goto, NoReply, Reply, DeliveryInv, OnlyOwed, TypeOK
<1>6. RepliesHold'
  BY <1>0, <1>s DEF CallFails, Goto, NoReply, Reply, DeliveryInv, RepliesHold, TypeOK
<1>7. AckIsDurable'
  BY <1>0, <1>s DEF DeliveryInv, AckIsDurable
<1> QED
  BY <1>s, <1>4, <1>5, <1>6, <1>7 DEF DeliveryInv

LEMMA ReplyLostKeeps ==
  ASSUME DeliveryInv, NEW t \in Tasks, ReplyLost(t)
  PROVE  DeliveryInv'
<1>0. UNCHANGED <<events, stream, outbox, waived, orphans, pc, work, item>>
  BY DEF ReplyLost, NoReply, Reply, roomVars, userVars, taskVars
<1>s. /\ Owed' = Owed
      /\ \A k : EntriesOf(k)' = EntriesOf(k)
      /\ EntriesOwed' /\ AtMostOnce'
  BY <1>0, StreamsUnchanged DEF DeliveryInv
<1>f. faults' \in Nat
  BY FaultCounts DEF ReplyLost, DeliveryInv
<1>4. TypeOK'
  BY <1>f DEF ReplyLost, NoReply, Reply, DeliveryInv, TypeOK, roomVars, userVars, taskVars
<1>5. OnlyOwed'
  BY <1>0, <1>s DEF ReplyLost, NoReply, Reply, DeliveryInv, OnlyOwed, TypeOK
<1>6. RepliesHold'
  BY <1>0, <1>s DEF ReplyLost, NoReply, Reply, DeliveryInv, RepliesHold, TypeOK
<1>7. AckIsDurable'
  BY <1>0, <1>s DEF DeliveryInv, AckIsDurable
<1> QED
  BY <1>s, <1>4, <1>5, <1>6, <1>7 DEF DeliveryInv

LEMMA InspectFailsKeeps ==
  ASSUME DeliveryInv, NEW t \in Tasks, InspectFails(t)
  PROVE  DeliveryInv'
<1>0. UNCHANGED <<events, stream, outbox, waived, orphans>>
  BY DEF InspectFails, Goto, NoReply, Reply, NoItem, roomVars, userVars, taskVars
<1>s. /\ Owed' = Owed
      /\ \A k : EntriesOf(k)' = EntriesOf(k)
      /\ EntriesOwed' /\ AtMostOnce'
  BY <1>0, StreamsUnchanged DEF DeliveryInv
<1>f. faults' \in Nat
  BY FaultCounts DEF InspectFails, DeliveryInv
<1>1. /\ pc' = [pc EXCEPT ![t] = "idle"]
      /\ scope' = [scope EXCEPT ![t] = Users]
      /\ limit' = [limit EXCEPT ![t] = 0]
      /\ work' = [work EXCEPT ![t] = {}]
      /\ item' = [item EXCEPT ![t] = NoItem]
      /\ reply' = [reply EXCEPT ![t] = NoReply]
      /\ UNCHANGED <<membership, events, outbox, orphans, stream, visible, tombstone,
                     forgetting, waived>>
  BY DEF InspectFails, Goto, roomVars, userVars
<1>2. NoReply \in [ok : BOOLEAN, pos : Nat, row : BOOLEAN]
  BY DEF NoReply, Reply
<1>4. TypeOK'
  BY <1>f, <1>1, <1>2 DEF DeliveryInv, TypeOK
<1>5. OnlyOwed'
  BY <1>0, <1>s DEF InspectFails, Goto, NoReply, Reply, NoItem, DeliveryInv, OnlyOwed, TypeOK
<1>6. RepliesHold'
  BY <1>0, <1>s DEF InspectFails, Goto, NoReply, Reply, NoItem, DeliveryInv, RepliesHold, TypeOK
<1>7. AckIsDurable'
  BY <1>0, <1>s DEF DeliveryInv, AckIsDurable
<1> QED
  BY <1>s, <1>4, <1>5, <1>6, <1>7 DEF DeliveryInv

\* The outbox stays sound when the rows of some keys are taken away.
LEMMA EvictKeeps ==
  ASSUME DeliveryInv, Evict
  PROVE  DeliveryInv'
<1>0. UNCHANGED <<events, stream, waived>>
  BY DEF Evict, roomVars, userVars
<1>s. /\ Owed' = Owed
      /\ \A k : EntriesOf(k)' = EntriesOf(k)
      /\ EntriesOwed' /\ AtMostOnce'
  BY <1>0, StreamsUnchanged DEF DeliveryInv
<1>1. PICK S \in SUBSET {item[t] : t \in {s \in Tasks : pc[s] = "call"}} :
        orphans' = orphans \cup S
  BY DEF Evict
<1>2. S \subseteq Owed /\ S \subseteq Keys
  BY <1>1, OwedAreKeys DEF DeliveryInv, OnlyOwed
<1>3. PICK L \in {{}} \cup {{k} : k \in DOMAIN outbox} :
        outbox' = [k \in DOMAIN outbox \ L |-> outbox[k]]
  BY DEF Evict
<1>x. DOMAIN outbox' = DOMAIN outbox \ L /\ \A k \in DOMAIN outbox' : outbox'[k] = outbox[k]
  BY <1>3
<1>f. faults' \in Nat
  BY FaultCounts DEF Evict, DeliveryInv
<1>4. TypeOK'
  BY <1>f, <1>1, <1>2, <1>x DEF Evict, NoReply, Reply, NoItem, DeliveryInv, TypeOK, roomVars, userVars
<1>5. OnlyOwed'
  BY <1>s, <1>1, <1>2, <1>x DEF Evict, DeliveryInv, OnlyOwed
<1>6. RepliesHold'
  BY DEF Evict, RepliesHold
<1>7. AckIsDurable'
  BY <1>0, <1>s, <1>x DEF DeliveryInv, AckIsDurable
<1> QED
  BY <1>s, <1>4, <1>5, <1>6, <1>7 DEF DeliveryInv

LEMMA SettleKeeps ==
  ASSUME DeliveryInv, NEW t \in Tasks, Settle(t)
  PROVE  DeliveryInv'
<1>0. UNCHANGED <<events, stream, waived, work, orphans>>
  BY DEF Settle, roomVars, userVars
<1>s. /\ Owed' = Owed
      /\ \A k : EntriesOf(k)' = EntriesOf(k)
      /\ EntriesOwed' /\ AtMostOnce'
  BY <1>0, StreamsUnchanged DEF DeliveryInv
<1>1. pc[t] = "settle" /\ item[t] \in Keys /\ reply[t].pos \in Nat
  BY OwedAreKeys DEF Settle, DeliveryInv, OnlyOwed, TypeOK
<1>2. /\ DOMAIN outbox' = DOMAIN outbox
      /\ \A j \in DOMAIN outbox :
           outbox'[j] \in [status : {"pending", "retrying", "repaired", "acked"},
                           ack : Nat, refresh : BOOLEAN]
      /\ AckIsDurable'
  <2>1. CASE reply[t].ok
    <3>1. Acknowledge(item[t], reply[t].pos)
      BY <2>1 DEF Settle
    <3>2. IF reply[t].pos = 0 THEN item[t] \in waived ELSE reply[t].pos \in EntriesOf(item[t])
      BY <2>1, <1>1 DEF DeliveryInv, RepliesHold
    <3> QED
      BY <1>0, <1>1, <3>1, <3>2, AcknowledgeFacts DEF DeliveryInv
  <2>2. CASE ~reply[t].ok
    <3>1. outbox' = [k \in DOMAIN outbox |->
                       IF k = item[t] THEN [outbox[k] EXCEPT !.status = "retrying"]
                       ELSE outbox[k]]
      BY <2>2 DEF Settle
    <3>2. \A j \in DOMAIN outbox :
            /\ outbox'[j] \in [status : {"pending", "retrying", "repaired", "acked"},
                               ack : Nat, refresh : BOOLEAN]
            /\ outbox'[j].status = "acked" => outbox'[j] = outbox[j]
      BY <3>1 DEF DeliveryInv, TypeOK
    <3>3. DOMAIN outbox' = DOMAIN outbox
      BY <3>1
    <3> QED
      BY <1>0, <1>s, <3>2, <3>3 DEF DeliveryInv, AckIsDurable
  <2> QED BY <2>1, <2>2
<1>4. TypeOK'
  BY <1>2 DEF Settle, Goto, NoReply, Reply, NoItem, DeliveryInv, TypeOK, roomVars, userVars
<1>5. OnlyOwed'
  BY <1>0, <1>s, <1>2 DEF Settle, Goto, DeliveryInv, OnlyOwed, TypeOK
<1>6. RepliesHold'
  BY <1>0, <1>s DEF Settle, Goto, DeliveryInv, RepliesHold, TypeOK
<1> QED
  BY <1>s, <1>2, <1>4, <1>5, <1>6 DEF DeliveryInv

LEMMA AfterInspectKeeps ==
  ASSUME DeliveryInv, NEW t \in Tasks, AfterInspect(t)
  PROVE  DeliveryInv'
<1>0. /\ UNCHANGED <<events, stream, waived, work, orphans>>
      /\ pc[t] \in {"pendingSeen", "eventSeen"}
  BY DEF AfterInspect, AfterInspectWith, roomVars, userVars
<1>s. /\ Owed' = Owed
      /\ \A k : EntriesOf(k)' = EntriesOf(k)
      /\ EntriesOwed' /\ AtMostOnce'
  BY <1>0, StreamsUnchanged DEF DeliveryInv
<1>1. item[t] \in Owed /\ item[t] \in Keys /\ reply[t].pos \in Nat
  BY <1>0, OwedAreKeys DEF DeliveryInv, OnlyOwed, TypeOK
<1>2. /\ DOMAIN outbox' \subseteq DOMAIN outbox \cup {item[t]}
      /\ \A j \in DOMAIN outbox' :
           outbox'[j] \in [status : {"pending", "retrying", "repaired", "acked"},
                           ack : Nat, refresh : BOOLEAN]
      /\ AckIsDurable'
  <2>1. CASE Acknowledge(item[t], reply[t].pos) /\ reply[t].pos > 0
    <3>1. reply[t].pos \in EntriesOf(item[t]) /\ reply[t].pos # 0
      BY <2>1, <1>0, <1>1 DEF DeliveryInv, RepliesHold
    <3> QED
      BY <1>0, <1>1, <2>1, <3>1, AcknowledgeFacts DEF DeliveryInv
  <2>2. CASE outbox' = [j \in DOMAIN outbox \cup {item[t]} |->
                          IF j = item[t] THEN Row("repaired", FALSE) ELSE outbox[j]]
    <3>1. DOMAIN outbox' = DOMAIN outbox \cup {item[t]}
      BY <2>2
    <3>2. \A j \in DOMAIN outbox' :
            outbox'[j] \in [status : {"pending", "retrying", "repaired", "acked"},
                            ack : Nat, refresh : BOOLEAN]
      BY <2>2, <3>1 DEF DeliveryInv, TypeOK, Row
    <3>3. \A j \in DOMAIN outbox' :
            outbox'[j].status = "acked" => j \in DOMAIN outbox /\ outbox'[j] = outbox[j]
      BY <2>2, <3>1 DEF Row
    <3> QED
      BY <1>0, <1>s, <3>1, <3>2, <3>3 DEF DeliveryInv, AckIsDurable
  <2>3. CASE UNCHANGED outbox
    BY <1>0, <1>s, <2>3 DEF DeliveryInv, AckIsDurable, TypeOK
  <2> QED
    BY <2>1, <2>2, <2>3 DEF AfterInspect, AfterInspectWith
<1>4. TypeOK'
  BY <1>1, <1>2 DEF AfterInspect, AfterInspectWith, Goto, NoReply, Reply, NoItem, DeliveryInv,
                    TypeOK, roomVars, userVars
<1>5. OnlyOwed'
  BY <1>0, <1>s, <1>1, <1>2 DEF AfterInspect, AfterInspectWith, Goto, DeliveryInv, OnlyOwed, TypeOK
<1>6. RepliesHold'
  BY <1>0, <1>s DEF AfterInspect, AfterInspectWith, Goto, NoReply, Reply, DeliveryInv,
                    RepliesHold, TypeOK
<1> QED
  BY <1>s, <1>2, <1>4, <1>5, <1>6 DEF DeliveryInv

(***************************************************************************)
(* The steps of the user's side, and the commits that extend the log.      *)
(***************************************************************************)
LEMMA ServeAppendKeeps ==
  ASSUME DeliveryInv, NEW t \in Tasks, ServeAppend(t)
  PROVE  DeliveryInv'
<1>0. UNCHANGED <<events, outbox, work, item, orphans>>
  BY DEF ServeAppend, roomVars
<1>2. PICK k \in Owed : k = item[t]
  BY DEF ServeAppend, DeliveryInv, OnlyOwed
<1>1. PICK r \in [ok : BOOLEAN, pos : 0..(MaxPos + 1), row : {FALSE}] :
        /\ AppendRoomFanout(k, r)
        /\ reply' = [reply EXCEPT ![t] = r]
  BY <1>2 DEF ServeAppend
<1>3. /\ stream' \in [Users -> Seq(Nat)]
      /\ visible' \in [Users -> [bucket : Buckets \cup {"none"}, pos : Nat]]
      /\ tombstone' \in [Users -> Nat]
      /\ waived' \subseteq Keys
      /\ waived \subseteq waived'
      /\ \A j \in Owed : EntriesOf(j) \subseteq EntriesOf(j)'
      /\ EntriesOwed'
      /\ AtMostOnce'
      /\ r.ok => IF r.pos = 0 THEN k \in waived' ELSE r.pos \in EntriesOf(k)'
  BY <1>0, <1>1, <1>2, AppendFacts DEF DeliveryInv
<1>4. r \in [ok : BOOLEAN, pos : Nat, row : BOOLEAN]
  <2>1. 0..(MaxPos + 1) \subseteq Nat
    OBVIOUS
  <2> QED BY <2>1
<1>5. TypeOK'
  BY <1>1, <1>3, <1>4 DEF ServeAppend, Goto, DeliveryInv, TypeOK, roomVars
<1>6. OnlyOwed'
  BY <1>0, <1>2, OwedUnchanged DEF ServeAppend, Goto, DeliveryInv, OnlyOwed, TypeOK
<1>7. RepliesHold'
  <2>1. item' = item /\ pc' = [pc EXCEPT ![t] = "settle"]
    BY <1>0 DEF ServeAppend, Goto
  <2>2. reply'[t] = r /\ pc'[t] = "settle" /\ item'[t] = k
    BY <1>1, <1>2, <2>1 DEF DeliveryInv, TypeOK
  <2>3. /\ pc'[t] = "settle" /\ reply'[t].ok =>
             IF reply'[t].pos = 0 THEN item'[t] \in waived' ELSE reply'[t].pos \in EntriesOf(item[t])'
        /\ pc'[t] \notin {"pendingSeen", "eventSeen"}
    BY <1>3, <2>2 DEF EntriesOf
  <2>4. ASSUME NEW s \in Tasks, s # t
        PROVE  /\ pc'[s] = "settle" /\ reply'[s].ok =>
                    IF reply'[s].pos = 0 THEN item'[s] \in waived'
                    ELSE reply'[s].pos \in EntriesOf(item[s])'
               /\ pc'[s] \in {"pendingSeen", "eventSeen"} /\ reply'[s].pos > 0 =>
                    reply'[s].pos \in EntriesOf(item[s])'
    <3>1. pc'[s] = pc[s] /\ reply'[s] = reply[s] /\ item'[s] = item[s]
      BY <1>1, <2>1, <2>4 DEF DeliveryInv, TypeOK
    <3>2. CASE pc[s] \in {"settle", "pendingSeen", "eventSeen"}
      <4>1. PICK j \in Owed : j = item[s]
        BY <3>2 DEF DeliveryInv, OnlyOwed
      <4>2. EntriesOf(item[s]) = EntriesOf(j) /\ EntriesOf(item[s])' = EntriesOf(j)'
        BY <4>1, <3>1 DEF EntriesOf
      <4>3. EntriesOf(j) \subseteq EntriesOf(j)'
        BY <1>3
      <4> QED
        BY <1>3, <3>1, <4>2, <4>3 DEF DeliveryInv, RepliesHold
    <3>3. CASE pc[s] \notin {"settle", "pendingSeen", "eventSeen"}
      BY <3>1, <3>3
    <3> QED BY <3>2, <3>3
  <2> QED
    BY <2>3, <2>4 DEF RepliesHold
<1>8. AckIsDurable'
  BY <1>0, <1>3 DEF DeliveryInv, OnlyOwed, AckIsDurable
<1> QED
  BY <1>3, <1>5, <1>6, <1>7, <1>8 DEF DeliveryInv

\* What keeps the room's side sound when a stream has grown.
LEMMA GrowthKeepsRoom ==
  ASSUME OnlyOwed, AckIsDurable, RepliesHold,
         UNCHANGED <<events, outbox, taskVars>>,
         waived \subseteq waived',
         \A j \in Owed : EntriesOf(j) \subseteq EntriesOf(j)'
  PROVE  RepliesHold' /\ AckIsDurable'
<1>1. UNCHANGED <<pc, item, reply>>
  BY DEF taskVars
<1>2. ASSUME NEW s \in Tasks, pc[s] \in {"settle", "pendingSeen", "eventSeen"}
      PROVE  EntriesOf(item[s]) \subseteq EntriesOf(item[s])'
  <2>1. PICK j \in Owed : j = item[s]
    BY <1>2 DEF OnlyOwed
  <2>2. EntriesOf(item[s]) = EntriesOf(j) /\ EntriesOf(item[s])' = EntriesOf(j)'
    BY <2>1, <1>1 DEF EntriesOf
  <2> QED BY <2>2
<1>3. RepliesHold'
  BY <1>1, <1>2 DEF RepliesHold
<1>4. AckIsDurable'
  BY DEF OnlyOwed, AckIsDurable
<1> QED BY <1>3, <1>4

LEMMA LateAppendKeeps ==
  ASSUME DeliveryInv, NEW k \in orphans, LateAppend(k)
  PROVE  DeliveryInv'
<1>0. /\ UNCHANGED <<events, outbox, taskVars>>
      /\ orphans' = orphans \ {k}
      /\ k \in Owed
  BY DEF LateAppend, roomVars, DeliveryInv, OnlyOwed
<1>1. PICK r : AppendRoomFanout(k, r)
  BY DEF LateAppend
<1>3. /\ stream' \in [Users -> Seq(Nat)]
      /\ visible' \in [Users -> [bucket : Buckets \cup {"none"}, pos : Nat]]
      /\ tombstone' \in [Users -> Nat]
      /\ waived' \subseteq Keys
      /\ waived \subseteq waived'
      /\ \A j \in Owed : EntriesOf(j) \subseteq EntriesOf(j)'
      /\ EntriesOwed'
      /\ AtMostOnce'
  BY <1>0, <1>1, AppendFacts DEF DeliveryInv
<1>5. TypeOK'
  BY <1>0, <1>3 DEF LateAppend, DeliveryInv, TypeOK, roomVars, taskVars
<1>6. OnlyOwed'
  BY <1>0, OwedUnchanged DEF DeliveryInv, OnlyOwed, taskVars
<1>7. RepliesHold' /\ AckIsDurable'
  BY <1>0, <1>3, GrowthKeepsRoom DEF DeliveryInv
<1> QED
  BY <1>3, <1>5, <1>6, <1>7 DEF DeliveryInv

LEMMA ForgetRoomKeeps ==
  ASSUME DeliveryInv, NEW u \in Users, ForgetRoom(u)
  PROVE  DeliveryInv'
<1>0. UNCHANGED <<events, outbox, taskVars, orphans, waived>>
  BY DEF ForgetRoom, roomVars
<1>o. Owed' = Owed
  BY <1>0, OwedUnchanged
<1>t. stream \in [Users -> Seq(Nat)] /\ forgetting \in [Users -> Nat]
  BY DEF DeliveryInv, TypeOK
<1>1. CASE UNCHANGED userVars
  <2>1. UNCHANGED stream
    BY <1>1 DEF userVars
  <2>2. EntriesOwed' /\ AtMostOnce' /\ \A j \in Owed : EntriesOf(j) \subseteq EntriesOf(j)'
    BY <1>0, <2>1, StreamsUnchanged DEF DeliveryInv
  <2>3. TypeOK'
    BY <1>0, <1>1 DEF ForgetRoom, DeliveryInv, TypeOK, roomVars, taskVars, userVars
  <2>4. OnlyOwed' /\ RepliesHold' /\ AckIsDurable'
    BY <1>0, <1>o, <2>2, GrowthKeepsRoom DEF DeliveryInv, OnlyOwed, taskVars
  <2> QED
    BY <2>2, <2>3, <2>4 DEF DeliveryInv
<1>2. CASE /\ \A i \in 1..Len(stream[u]) : stream[u][i] # Forget
           /\ stream' = [stream EXCEPT ![u] = Append(@, Forget)]
           /\ tombstone' = [tombstone EXCEPT ![u] = forgetting[u]]
           /\ visible' = [visible EXCEPT ![u] = [bucket |-> "none", pos |-> 0]]
  <2>1. /\ stream' \in [Users -> Seq(Nat)]
        /\ Len(stream'[u]) = Len(stream[u]) + 1
        /\ stream'[u][Len(stream[u]) + 1] = Forget
        /\ \A i \in 1..Len(stream[u]) : stream'[u][i] = stream[u][i]
        /\ \A v \in Users : v # u => stream'[v] = stream[v]
        /\ Len(stream[u]) \in Nat
    BY <1>2, <1>t DEF Forget
  <2>2. \A j \in Owed : EntriesOf(j) \subseteq EntriesOf(j)'
    <3> SUFFICES ASSUME NEW j \in Owed, NEW i \in EntriesOf(j)
                 PROVE  i \in EntriesOf(j)'
      OBVIOUS
    <3>1. j[2] \in Users
      BY DEF Owed
    <3>2. CASE j[2] = u
      BY <3>2, <2>1 DEF EntriesOf
    <3>3. CASE j[2] # u
      BY <3>1, <3>3, <2>1 DEF EntriesOf
    <3> QED BY <3>2, <3>3
  <2>3. EntriesOwed'
    <3> SUFFICES ASSUME NEW v \in Users, NEW i \in 1..Len(stream'[v])
                 PROVE  stream'[v][i] = Forget \/ <<stream'[v][i], v>> \in Owed
      BY <1>o DEF EntriesOwed
    <3>1. CASE v # u
      BY <3>1, <2>1 DEF EntriesOwed, DeliveryInv
    <3>2. CASE v = u /\ i \in 1..Len(stream[u])
      BY <3>2, <2>1 DEF EntriesOwed, DeliveryInv
    <3>3. CASE v = u /\ i = Len(stream[u]) + 1
      BY <3>3, <2>1
    <3> QED BY <3>1, <3>2, <3>3, <2>1
  <2>4. AtMostOnce'
    <3> SUFFICES ASSUME NEW v \in Users, NEW i \in 1..Len(stream'[v]), NEW j \in 1..Len(stream'[v]),
                        stream'[v][i] = stream'[v][j]
                 PROVE  i = j
      BY DEF AtMostOnce
    <3>1. CASE v # u
      BY <3>1, <2>1 DEF AtMostOnce, DeliveryInv
    <3>2. CASE v = u /\ i \in 1..Len(stream[u]) /\ j \in 1..Len(stream[u])
      BY <3>2, <2>1 DEF AtMostOnce, DeliveryInv
    <3>3. CASE v = u /\ (i = Len(stream[u]) + 1 \/ j = Len(stream[u]) + 1)
      BY <3>3, <1>2, <2>1
    <3>4. v = u => /\ i \in 1..Len(stream[u]) \/ i = Len(stream[u]) + 1
                   /\ j \in 1..Len(stream[u]) \/ j = Len(stream[u]) + 1
      BY <2>1
    <3> QED BY <3>1, <3>2, <3>3, <3>4
  <2>5. TypeOK'
    BY <1>0, <1>2, <1>t, <2>1 DEF ForgetRoom, DeliveryInv, TypeOK, roomVars, taskVars
  <2>6. OnlyOwed' /\ RepliesHold' /\ AckIsDurable'
    BY <1>0, <1>o, <2>2, GrowthKeepsRoom DEF DeliveryInv, OnlyOwed, taskVars
  <2> QED
    BY <2>3, <2>4, <2>5, <2>6 DEF DeliveryInv
<1> QED
  BY <1>1, <1>2 DEF ForgetRoom

\* The shapes of the membership table and of the log.
MemberTable == [Users -> [bucket : Buckets \cup {"none"}, pos : Nat, version : Nat]]
EventLog == Seq([bucket : [Users -> Buckets \cup {"none"}], subject : Users, version : Nat])

\* A commit extends the log and owes its deltas; nothing already owed changes.
LEMMA CommitFacts ==
  ASSUME TypeOK, NEW t \in Tasks, NEW subject \in Users, NEW version \in Nat,
         NEW members \in MemberTable,
         Commit(t, subject, members, version)
  PROVE  /\ events' \in EventLog
         /\ Len(events') = Len(events) + 1
         /\ Len(events') <= MaxPos
         /\ \A i \in 1..Len(events) : events'[i] = events[i]
         /\ events'[Len(events) + 1].bucket = BucketsAfter(members, Len(events) + 1)
         /\ Owed \subseteq Owed'
         /\ \A u \in Users : BucketsAfter(members, Len(events) + 1)[u] # "none" =>
              <<Len(events) + 1, u>> \in Owed'
<1> DEFINE pos == Len(events) + 1
           bucket == BucketsAfter(members, pos)
           e == [bucket |-> bucket, subject |-> subject, version |-> version]
           E == [bucket : [Users -> Buckets \cup {"none"}], subject : Users, version : Nat]
<1>1. events \in Seq(E) /\ Len(events) \in Nat
  BY DEF TypeOK
<1>2. bucket \in [Users -> Buckets \cup {"none"}]
  <2>1. \A u \in Users : members[u].bucket \in Buckets \cup {"none"}
    BY DEF MemberTable
  <2> QED BY <2>1 DEF BucketsAfter
<1>3. e \in E
  BY <1>2
<1>4. events' = Append(events, e) /\ pos <= MaxPos
  BY DEF Commit
<1>5. e.bucket = bucket
  OBVIOUS
<1> HIDE DEF e, E, bucket
<1>6. /\ events' \in Seq(E)
      /\ Len(events') = pos
      /\ \A i \in 1..Len(events) : events'[i] = events[i]
      /\ events'[pos] = e
  BY <1>1, <1>3, <1>4
<1>7. Owed \subseteq Owed'
  BY <1>1, <1>6 DEF Owed
<1>8. \A u \in Users : bucket[u] # "none" => <<pos, u>> \in Owed'
  BY <1>1, <1>5, <1>6 DEF Owed
<1> QED
  BY <1>4, <1>5, <1>6, <1>7, <1>8 DEF E, bucket, EventLog

LEMMA CommitKeeps ==
  ASSUME DeliveryInv, NEW t \in Tasks, NEW subject \in Users, NEW version \in Nat,
         NEW members \in MemberTable,
         Commit(t, subject, members, version)
  PROVE  DeliveryInv'
<1>1. /\ events' \in EventLog
      /\ Len(events') = Len(events) + 1
      /\ Len(events') <= MaxPos
      /\ \A i \in 1..Len(events) : events'[i] = events[i]
      /\ events'[Len(events) + 1].bucket = BucketsAfter(members, Len(events) + 1)
      /\ Owed \subseteq Owed'
      /\ \A u \in Users : BucketsAfter(members, Len(events) + 1)[u] # "none" =>
           <<Len(events) + 1, u>> \in Owed'
  <2>1. TypeOK
    BY DEF DeliveryInv
  <2> QED BY <2>1, CommitFacts
<1> DEFINE pos == Len(events) + 1
           told == {u \in Users : BucketsAfter(members, pos)[u] # "none"}
<1>0. UNCHANGED <<stream, work, item, reply, orphans, waived, scope>>
  BY DEF Commit, userVars
<1>2. Cardinality(told) \in Nat
  BY FS_Subset, FS_CardinalityType
<1>3. pc[t] = "idle" /\ pc' = [pc EXCEPT ![t] = IF told = {} THEN "idle" ELSE "list"]
  BY DEF Commit, Goto
<1>4. outbox' = [k \in DOMAIN outbox \cup ({pos} \X told) |->
                   IF k[1] = pos THEN Row("pending", version > 0) ELSE outbox[k]]
  BY DEF Commit
<1>5. Len(events) \in Nat /\ pos \in 1..MaxPos
  BY <1>1 DEF DeliveryInv, TypeOK
<1>o. /\ DOMAIN outbox' = DOMAIN outbox \cup ({pos} \X told)
      /\ DOMAIN outbox' \subseteq Keys
      /\ DOMAIN outbox' \subseteq Owed'
  <2>1. DOMAIN outbox' = DOMAIN outbox \cup ({pos} \X told)
    BY <1>4
  <2>2. {pos} \X told \subseteq Keys
    BY <1>5 DEF Keys
  <2>3. {pos} \X told \subseteq Owed'
    <3>1. \A u \in told : <<pos, u>> \in Owed'
      BY <1>1
    <3>2. \A k \in {pos} \X told : k = <<pos, k[2]>> /\ k[2] \in told
      OBVIOUS
    <3> QED BY <3>1, <3>2, Zenon
  <2> QED
    BY <1>1, <2>1, <2>2, <2>3 DEF DeliveryInv, OnlyOwed, TypeOK
<1>p. \A k \in DOMAIN outbox' :
        \/ outbox'[k] = Row("pending", version > 0)
        \/ k \in DOMAIN outbox /\ outbox'[k] = outbox[k]
  BY <1>4, <1>o
<1>e. \A k : EntriesOf(k)' = EntriesOf(k)
  BY <1>0 DEF EntriesOf
<1>6. TypeOK'
  <2>1. \A k \in DOMAIN outbox' :
          outbox'[k] \in [status : {"pending", "retrying", "repaired", "acked"},
                          ack : Nat, refresh : BOOLEAN]
    <3>1. (version > 0) \in BOOLEAN
      OBVIOUS
    <3>2. Row("pending", version > 0) \in [status : {"pending", "retrying", "repaired", "acked"},
                                           ack : Nat, refresh : BOOLEAN]
      BY <3>1 DEF Row
    <3> QED
      BY <1>p, <3>2 DEF DeliveryInv, TypeOK
  <2>2. limit' \in [Tasks -> Nat] /\ membership' = members
    BY <1>2 DEF Commit, DeliveryInv, TypeOK
  <2> QED
    BY <1>0, <1>1, <1>3, <1>o, <2>1, <2>2 DEF Commit, DeliveryInv, TypeOK, userVars, MemberTable, EventLog
<1>7. OnlyOwed'
  BY <1>0, <1>1, <1>3, <1>o DEF DeliveryInv, OnlyOwed, TypeOK
<1>8. EntriesOwed'
  BY <1>0, <1>1 DEF DeliveryInv, EntriesOwed
<1>9. RepliesHold'
  BY <1>0, <1>3, <1>e DEF DeliveryInv, RepliesHold, TypeOK
<1>10. AtMostOnce'
  BY <1>0 DEF DeliveryInv, AtMostOnce
<1>11. AckIsDurable'
  BY <1>0, <1>p, <1>e DEF Row, DeliveryInv, AckIsDurable
<1> QED
  BY <1>6, <1>7, <1>8, <1>9, <1>10, <1>11 DEF DeliveryInv

\* The three kinds of event an admission commits.
LEMMA AdmissionKeeps ==
  ASSUME DeliveryInv, NEW t \in Admissions, NEW u \in Users,
         \/ \E b \in Buckets : ChangeMembership(t, u, b)
         \/ SendEvent(t, u)
         \/ \E v \in 1..MaxVersion : EnqueueProfileRefresh(t, u, v)
  PROVE  DeliveryInv'
<1>0. t \in Tasks /\ Len(events) + 1 \in Nat /\ membership \in MemberTable
  BY DEF Tasks, DeliveryInv, TypeOK, MemberTable
<1>1. ASSUME NEW b \in Buckets, ChangeMembership(t, u, b)
      PROVE  DeliveryInv'
  <2> DEFINE members == [membership EXCEPT ![u] =
                           [bucket |-> b, pos |-> Len(events) + 1, version |-> 0]]
  <2>1. members \in MemberTable
    BY <1>0 DEF MemberTable
  <2>2. Commit(t, u, members, 0)
    BY <1>1 DEF ChangeMembership
  <2> QED BY <1>0, <2>1, <2>2, CommitKeeps
<1>2. CASE SendEvent(t, u)
  BY <1>0, <1>2, CommitKeeps DEF SendEvent
<1>3. ASSUME NEW v \in 1..MaxVersion, EnqueueProfileRefresh(t, u, v)
      PROVE  DeliveryInv'
  <2> DEFINE members == [membership EXCEPT ![u] =
                           [bucket |-> "join", pos |-> Len(events) + 1, version |-> v]]
  <2>1. members \in MemberTable /\ v \in Nat
    BY <1>0 DEF Buckets, MemberTable
  <2>2. Commit(t, u, members, v)
    BY <1>3 DEF EnqueueProfileRefresh
  <2> QED BY <1>0, <2>1, <2>2, CommitKeeps
<1> QED
  BY <1>1, <1>2, <1>3

(***************************************************************************)
(* The invariant.                                                          *)
(***************************************************************************)
LEMMA InitEstablishes ==
  ASSUME Init
  PROVE  DeliveryInv
<1>1. TypeOK
  BY DEF Init, TypeOK, NoMembership, NoReply, Reply, NoItem, Row
<1>2. Owed = {} /\ \A t \in Tasks : pc[t] = "idle" /\ work[t] = {}
  BY DEF Init, Owed
<1>3. OnlyOwed
  BY <1>2 DEF Init, OnlyOwed
<1>4. EntriesOwed /\ AtMostOnce
  BY DEF Init, EntriesOwed, AtMostOnce
<1>5. RepliesHold
  BY <1>2 DEF RepliesHold
<1>6. AckIsDurable
  BY DEF Init, AckIsDurable
<1> QED BY <1>1, <1>3, <1>4, <1>5, <1>6 DEF DeliveryInv

LEMMA DeliveryKeeps ==
  ASSUME DeliveryInv, [Next]_vars
  PROVE  DeliveryInv'
<1>1. CASE Client
  BY <1>1, AdmissionKeeps, QueryForgetKeeps, ForgetRoomKeeps DEF Client
<1>2. CASE RepairRoom
  BY <1>2, StartReconcileKeeps DEF RepairRoom, Tasks
<1>3. CASE \E u \in Users : RepairUser(u)
  <2>1. PICK u \in Users, t \in Repairs : StartReconcile(t, {u})
    BY <1>3 DEF RepairUser
  <2> QED BY <2>1, StartReconcileKeeps DEF Tasks
<1>4. CASE \E t \in Tasks : Advance(t)
  <2>1. PICK t \in Tasks : Advance(t)
    BY <1>4
  <2> QED
    BY <2>1, ListPendingKeeps, SkipStaleKeeps, CallAppendKeeps, ServeAppendKeeps, SettleKeeps,
       ReturnKeeps, InspectKeeps, AfterInspectKeeps, NextPhaseKeeps DEF Advance
<1>5. CASE \E k \in orphans : LateAppend(k)
  BY <1>5, LateAppendKeeps
<1>6. CASE Faulty
  BY <1>6, CallFailsKeeps, ReplyLostKeeps, InspectFailsKeeps, EvictKeeps DEF Faulty
<1>7. CASE UNCHANGED vars
  <2>1. UNCHANGED <<events, stream, outbox, taskVars, orphans, waived>>
    BY <1>7 DEF vars, roomVars, userVars
  <2>2. EntriesOwed' /\ AtMostOnce' /\ Owed' = Owed
    BY <2>1, StreamsUnchanged DEF DeliveryInv
  <2>3. TypeOK'
    BY <1>7 DEF vars, roomVars, userVars, taskVars, DeliveryInv, TypeOK
  <2>4. OnlyOwed' /\ RepliesHold' /\ AckIsDurable'
    <3>1. \A k : EntriesOf(k)' = EntriesOf(k)
      BY <2>1 DEF EntriesOf
    <3> QED
      BY <2>1, <2>2, <3>1, GrowthKeepsRoom DEF DeliveryInv, OnlyOwed, taskVars
  <2> QED BY <2>2, <2>3, <2>4 DEF DeliveryInv
<1> QED
  BY <1>1, <1>2, <1>3, <1>4, <1>5, <1>6, <1>7 DEF Next

(***************************************************************************)
(* What a step does to the users.                                          *)
(***************************************************************************)

\* A step leaves the tables of the users alone, or is one append of an owed
\* delta, or one forget.
LEMMA UserSteps ==
  ASSUME DeliveryInv, [Next]_vars
  PROVE  \/ UNCHANGED <<userVars, waived>>
         \/ UNCHANGED userVars
         \/ \E k \in Owed : /\ UNCHANGED <<events, outbox>>
                            /\ \E r : AppendRoomFanout(k, r)
         \/ \E u \in Users : ForgetRoom(u)
<1>1. CASE Client
  BY <1>1, Zenon DEF Client, ChangeMembership, SendEvent, EnqueueProfileRefresh, Commit, QueryForget
<1>2. CASE RepairRoom \/ \E u \in Users : RepairUser(u)
  BY <1>2, Zenon DEF RepairRoom, RepairUser, StartReconcile
<1>3. ASSUME NEW t \in Tasks, Advance(t)
      PROVE  \/ UNCHANGED userVars
             \/ \E k \in Owed : UNCHANGED <<events, outbox>> /\ \E r : AppendRoomFanout(k, r)
  <2>1. CASE ServeAppend(t)
    <3>1. item[t] \in Owed
      BY <2>1 DEF ServeAppend, DeliveryInv, OnlyOwed
    <3>2. UNCHANGED <<events, outbox>> /\ \E r : AppendRoomFanout(item[t], r)
      BY <2>1 DEF ServeAppend, roomVars
    <3> QED BY <3>1, <3>2
  <2>2. CASE ~ServeAppend(t)
    BY <1>3, <2>2, Zenon DEF Advance, ListPending, SkipStale, CallAppend, Settle, Return, Inspect,
       AfterInspect, AfterInspectWith, NextPhase
  <2> QED BY <2>1, <2>2
<1>4. ASSUME NEW k \in orphans, LateAppend(k)
      PROVE  \E j \in Owed : UNCHANGED <<events, outbox>> /\ \E r : AppendRoomFanout(j, r)
  <2>1. k \in Owed
    BY DEF DeliveryInv, OnlyOwed
  <2>2. UNCHANGED <<events, outbox>> /\ \E r : AppendRoomFanout(k, r)
    BY <1>4 DEF LateAppend, roomVars
  <2> QED BY <2>1, <2>2
<1>5. CASE Faulty
  BY <1>5, Zenon DEF Faulty, CallFails, ReplyLost, InspectFails, Evict
<1>6. CASE UNCHANGED vars
  BY <1>6 DEF vars
<1> QED BY <1>1, <1>2, <1>3, <1>4, <1>5, <1>6 DEF Next

\* What an append does to the tables of its user: nothing, or one entry for the
\* delta, shown to a user whose tombstone is older and whose bucket it sets.
LEMMA AppendShows ==
  ASSUME DeliveryInv, NEW k \in Owed, NEW r, AppendRoomFanout(k, r)
  PROVE  \/ UNCHANGED userVars
         \/ /\ tombstone[k[2]] > 0 => /\ k[1] > tombstone[k[2]]
                                      /\ events[k[1]].bucket[k[2]] \in {"join", "invite"}
            /\ EntriesOf(k) = {}
            /\ stream' = [stream EXCEPT ![k[2]] = Append(@, k[1])]
            /\ visible' = [visible EXCEPT ![k[2]] =
                             [bucket |-> events[k[1]].bucket[k[2]], pos |-> k[1]]]
            /\ tombstone' = [tombstone EXCEPT ![k[2]] = 0]
            /\ UNCHANGED waived
<1>1. CASE UNCHANGED userVars
  BY <1>1
<1>2. CASE /\ ~Suppressed(k)
           /\ EntriesOf(k) = {}
           /\ stream' = [stream EXCEPT ![k[2]] = Append(@, k[1])]
           /\ visible' = [visible EXCEPT ![k[2]] =
                             [bucket |-> events[k[1]].bucket[k[2]], pos |-> k[1]]]
           /\ tombstone' = [tombstone EXCEPT ![k[2]] = 0]
           /\ UNCHANGED waived
  <2>1. k[1] \in 1..Len(events) /\ k[2] \in Users /\ events[k[1]].bucket[k[2]] # "none"
    BY DEF Owed
  <2>2. events[k[1]].bucket[k[2]] \in Buckets \cup {"none"}
    BY <2>1, EventType DEF DeliveryInv
  <2>3. tombstone[k[2]] \in Nat /\ k[1] \in Nat
    <3>1. tombstone \in [Users -> Nat] /\ Len(events) \in Nat
      BY DEF DeliveryInv, TypeOK
    <3> QED BY <2>1, <3>1
  <2>4. tombstone[k[2]] > 0 => /\ k[1] > tombstone[k[2]]
                               /\ events[k[1]].bucket[k[2]] \in {"join", "invite"}
    BY <1>2, <2>1, <2>2, <2>3 DEF Suppressed, Buckets
  <2> QED BY <1>2, <2>4
<1> QED BY <1>1, <1>2, Zenon DEF AppendRoomFanout

\* Streams only grow, and a tombstone is set together with the entry that tells
\* of it.
LEMMA TombstonesKeep ==
  ASSUME FanoutInv, [Next]_vars
  PROVE  TombstonesTold'
<1>0. /\ stream \in [Users -> Seq(Nat)] /\ tombstone \in [Users -> Nat]
      /\ forgetting \in [Users -> Nat] /\ DeliveryInv
  BY DEF FanoutInv, DeliveryInv, TypeOK
<1>1. CASE UNCHANGED userVars
  BY <1>1 DEF FanoutInv, TombstonesTold, userVars
<1>2. ASSUME NEW k \in Owed, NEW r, AppendRoomFanout(k, r)
      PROVE  TombstonesTold'
  <2>1. CASE /\ stream' = [stream EXCEPT ![k[2]] = Append(@, k[1])]
             /\ tombstone' = [tombstone EXCEPT ![k[2]] = 0]
    <3>1. k[2] \in Users /\ k[1] \in Nat
      BY DEF Owed
    <3>2. \A u \in Users \ {k[2]} : stream'[u] = stream[u] /\ tombstone'[u] = tombstone[u]
      BY <1>0, <2>1
    <3>3. tombstone'[k[2]] = 0
      BY <1>0, <2>1, <3>1
    <3>4. ASSUME NEW u \in Users, tombstone'[u] > 0
          PROVE  \E i \in 1..Len(stream'[u]) : stream'[u][i] = Forget
      <4>1. u # k[2]
        BY <3>3, <3>4
      <4>2. stream'[u] = stream[u] /\ tombstone'[u] = tombstone[u]
        BY <3>2, <4>1
      <4>3. \E i \in 1..Len(stream[u]) : stream[u][i] = Forget
        BY <3>4, <4>2 DEF FanoutInv, TombstonesTold
      <4> QED BY <4>2, <4>3
    <3> QED BY <3>4 DEF TombstonesTold
  <2> QED BY <1>0, <1>1, <1>2, <2>1, AppendShows
<1>3. ASSUME NEW u \in Users, ForgetRoom(u)
      PROVE  TombstonesTold'
  <2>1. CASE /\ stream' = [stream EXCEPT ![u] = Append(@, Forget)]
             /\ tombstone' = [tombstone EXCEPT ![u] = forgetting[u]]
    <3>1. \A v \in Users \ {u} : stream'[v] = stream[v] /\ tombstone'[v] = tombstone[v]
      BY <1>0, <2>1
    <3>2. /\ Len(stream'[u]) = Len(stream[u]) + 1 /\ Len(stream[u]) \in Nat
          /\ stream'[u][Len(stream[u]) + 1] = Forget
      BY <1>0, <2>1 DEF Forget
    <3>3. \E i \in 1..Len(stream'[u]) : stream'[u][i] = Forget
      BY <3>2
    <3> QED BY <3>1, <3>3 DEF FanoutInv, TombstonesTold
  <2> QED BY <1>1, <1>3, <2>1 DEF ForgetRoom
<1> QED BY <1>0, <1>1, <1>2, <1>3, UserSteps

LEMMA NextKeeps ==
  ASSUME FanoutInv, [Next]_vars
  PROVE  FanoutInv'
BY DeliveryKeeps, TombstonesKeep DEF FanoutInv

\* In every reachable state of the fanout, for any users, invocations and
\* bounds, FanoutInv holds.
THEOREM FanoutInvariant == Spec => []FanoutInv
<1>1. Init => FanoutInv
  BY InitEstablishes DEF FanoutInv, TombstonesTold, Init
<1>2. FanoutInv /\ [Next]_vars => FanoutInv'
  BY NextKeeps
<1> QED
  BY <1>1, <1>2, PTL DEF Spec

\* appendRoomFanout never writes a second entry for a delta, whatever retries,
\* late calls, audits and evictions deliver it again.
THEOREM DeliveredAtMostOnce == Spec => []AtMostOnce
<1>1. FanoutInv => AtMostOnce
  BY DEF FanoutInv, DeliveryInv
<1> QED
  BY <1>1, FanoutInvariant, PTL

\* An acknowledged outbox row always names the stream entry of its delta.
THEOREM AcknowledgedIsDurable == Spec => []AckIsDurable
<1>1. FanoutInv => AckIsDurable
  BY DEF FanoutInv, DeliveryInv
<1> QED
  BY <1>1, FanoutInvariant, PTL

\* A forgotten room comes back only through an event that is newer than the
\* membership the forget was decided on and that shows it as joined or invited.
THEOREM HiddenUntilNews == Spec => ForgottenStaysHidden
<1>1. ASSUME FanoutInv, [Next]_vars, NEW u \in Users, tombstone[u] > 0, visible'[u] # visible[u]
      PROVE  visible'[u].pos > tombstone[u] /\ visible'[u].bucket \in {"join", "invite"}
  <2>0. /\ visible \in [Users -> [bucket : Buckets \cup {"none"}, pos : Nat]]
        /\ DeliveryInv /\ TombstonesTold
    BY <1>1 DEF FanoutInv, DeliveryInv, TypeOK
  <2>1. ~UNCHANGED userVars
    BY <1>1 DEF userVars
  <2>2. ASSUME NEW k \in Owed, NEW r, AppendRoomFanout(k, r)
        PROVE  visible'[u].pos > tombstone[u] /\ visible'[u].bucket \in {"join", "invite"}
    <3>1. /\ tombstone[k[2]] > 0 => /\ k[1] > tombstone[k[2]]
                                   /\ events[k[1]].bucket[k[2]] \in {"join", "invite"}
          /\ visible' = [visible EXCEPT ![k[2]] =
                           [bucket |-> events[k[1]].bucket[k[2]], pos |-> k[1]]]
      BY <2>0, <2>1, <2>2, AppendShows
    <3>2. u = k[2]
      BY <1>1, <2>0, <3>1
    <3>3. visible'[u] = [bucket |-> events[k[1]].bucket[u], pos |-> k[1]]
      BY <2>0, <3>1, <3>2
    <3> QED BY <1>1, <3>1, <3>2, <3>3
  <2>3. ASSUME NEW v \in Users, ForgetRoom(v)
        PROVE  FALSE
    <3>1. visible' = [visible EXCEPT ![v] = [bucket |-> "none", pos |-> 0]]
      BY <2>1, <2>3 DEF ForgetRoom
    <3>2. u = v
      BY <1>1, <2>0, <3>1
    <3>3. \E i \in 1..Len(stream[v]) : stream[v][i] = Forget
      BY <1>1, <2>0, <3>2 DEF TombstonesTold
    <3> QED BY <2>1, <2>3, <3>3 DEF ForgetRoom
  <2> QED BY <1>1, <2>0, <2>1, <2>2, <2>3, UserSteps
<1>2. FanoutInv /\ [Next]_vars =>
        [\A u \in Users :
           tombstone[u] > 0 /\ visible'[u] # visible[u] =>
             /\ visible'[u].pos > tombstone[u]
             /\ visible'[u].bucket \in {"join", "invite"}]_vars
  BY <1>1
<1> QED BY <1>2, FanoutInvariant, PTL DEF Spec, ForgottenStaysHidden

(***************************************************************************)
(* The fanout implements the ledger.                                       *)
(***************************************************************************)

\* What the room considers done, as Ledger maps it.
Settled == {k \in DOMAIN outbox : outbox[k].status = "acked"}

\* A step of the ledger, or none.
LedgerStep == [Ledger!Next]_(Ledger!vars)

LEMMA LedgerStutters ==
  ASSUME UNCHANGED <<events, stream, waived>>, Settled' = Settled
  PROVE  LedgerStep
BY OwedUnchanged DEF LedgerStep, Ledger!vars, Settled

\* Nothing of the ledger is touched by calls, answers and audits under way.
LEMMA LedgerUntouched ==
  ASSUME UNCHANGED <<events, stream, waived, outbox>>
  PROVE  LedgerStep
BY LedgerStutters DEF Settled

LEMMA LedgerSettles ==
  ASSUME NEW k \in Owed, UNCHANGED <<events, stream, waived>>,
         EntriesOf(k) # {} \/ k \in waived, Settled' = Settled \cup {k}
  PROVE  LedgerStep
<1>1. Ledger!Settle(k)
  BY OwedUnchanged DEF Ledger!Settle, Ledger!Seen, EntriesOf, Settled
<1> QED BY <1>1 DEF LedgerStep, Ledger!Next

LEMMA LedgerReopens ==
  ASSUME NEW k \in Owed, UNCHANGED <<events, stream, waived>>, Settled' = Settled \ {k}
  PROVE  LedgerStep
<1>1. Ledger!Reopen(k)
  BY OwedUnchanged DEF Ledger!Reopen, Settled
<1> QED BY <1>1 DEF LedgerStep, Ledger!Next

\* An acknowledgement settles the delta when its row is still there.
LEMMA AcknowledgeSettles ==
  ASSUME DeliveryInv, NEW k, NEW pos \in Nat, Acknowledge(k, pos)
  PROVE  Settled' = IF k \in DOMAIN outbox THEN Settled \cup {k} ELSE Settled
<1>1. DOMAIN outbox' = DOMAIN outbox
  BY DEF Acknowledge
<1>2. \A j \in DOMAIN outbox : j # k => outbox'[j] = outbox[j]
  BY DEF Acknowledge
<1>3. ASSUME k \in DOMAIN outbox
      PROVE  outbox'[k].status = "acked"
  <2>1. outbox[k] \in [status : {"pending", "retrying", "repaired", "acked"},
                       ack : Nat, refresh : BOOLEAN]
    BY <1>3 DEF DeliveryInv, TypeOK
  <2>2. outbox'[k] = [outbox[k] EXCEPT !.status = "acked", !.ack = pos]
    BY <1>3 DEF Acknowledge
  <2> QED BY <2>1, <2>2
<1> QED BY <1>1, <1>2, <1>3 DEF Settled

\* A row written anew, or marked to be retried, is not settled.
LEMMA RewriteReopens ==
  ASSUME NEW k, NEW row, row.status # "acked",
         DOMAIN outbox' \in {DOMAIN outbox, DOMAIN outbox \cup {k}},
         \A j \in DOMAIN outbox' : outbox'[j] = IF j = k THEN row ELSE outbox[j]
  PROVE  Settled' = Settled \ {k}
BY DEF Settled

LEMMA CommitRefines ==
  ASSUME DeliveryInv, NEW t \in Tasks, NEW subject \in Users, NEW version \in Nat,
         NEW members \in MemberTable, Commit(t, subject, members, version)
  PROVE  LedgerStep
<1> DEFINE pos == Len(events) + 1
           bucket == BucketsAfter(members, pos)
           told == {u \in Users : bucket[u] # "none"}
<1>0. UNCHANGED <<stream, waived>>
  BY DEF Commit, userVars
<1>1. /\ Len(events') = pos /\ Len(events) \in Nat
      /\ \A i \in 1..Len(events) : events'[i] = events[i]
      /\ events'[pos].bucket = bucket
  <2>1. TypeOK
    BY DEF DeliveryInv
  <2>2. Len(events) \in Nat
    BY <2>1 DEF TypeOK
  <2> QED BY <2>1, <2>2, CommitFacts
<1>2. outbox' = [k \in DOMAIN outbox \cup ({pos} \X told) |->
                   IF k[1] = pos THEN Row("pending", version > 0) ELSE outbox[k]]
  BY DEF Commit
<1> HIDE DEF bucket
<1>3. Owed' = Owed \cup ({pos} \X told)
  <2>1. 1..Len(events') = 1..Len(events) \cup {pos}
    BY <1>1
  <2>2. ASSUME NEW k \in Owed'
        PROVE  k \in Owed \cup ({pos} \X told)
    <3>1. /\ k[1] \in 1..Len(events') /\ k[2] \in Users /\ k = <<k[1], k[2]>>
          /\ events'[k[1]].bucket[k[2]] # "none"
      BY DEF Owed
    <3>2. CASE k[1] = pos
      BY <1>1, <3>1, <3>2
    <3>3. CASE k[1] \in 1..Len(events)
      BY <1>1, <3>1, <3>3 DEF Owed
    <3> QED BY <2>1, <3>1, <3>2, <3>3
  <2>3. ASSUME NEW k \in {pos} \X told
        PROVE  k \in Owed'
    <3>1. k = <<pos, k[2]>> /\ k[2] \in Users /\ bucket[k[2]] # "none"
      OBVIOUS
    <3>2. pos \in 1..Len(events')
      BY <1>1
    <3>3. events'[k[1]].bucket[k[2]] # "none"
      BY <1>1, <3>1
    <3> QED BY <3>1, <3>2, <3>3 DEF Owed
  <2>4. Owed \subseteq Owed'
    BY <1>1, <2>1 DEF Owed
  <2> QED BY <2>2, <2>3, <2>4
<1>4. Settled' = Settled
  <2>1. DOMAIN outbox' = DOMAIN outbox \cup ({pos} \X told)
    BY <1>2
  <2>2. \A k \in DOMAIN outbox : k[1] # pos
    BY <1>1 DEF DeliveryInv, OnlyOwed, Owed
  <2>3. \A k \in DOMAIN outbox : outbox'[k] = outbox[k]
    BY <1>2, <2>2
  <2>4. \A k \in {pos} \X told : outbox'[k].status = "pending"
    BY <1>2 DEF Row
  <2> QED BY <2>1, <2>3, <2>4 DEF Settled
<1>5. Ledger!Commit(told)
  BY <1>0, <1>1, <1>3, <1>4 DEF Ledger!Commit, Settled
<1>6. told \in SUBSET Users
  OBVIOUS
<1> QED BY <1>5, <1>6 DEF LedgerStep, Ledger!Next

LEMMA AdmissionRefines ==
  ASSUME DeliveryInv, NEW t \in Admissions, NEW u \in Users,
         \/ \E b \in Buckets : ChangeMembership(t, u, b)
         \/ SendEvent(t, u)
         \/ \E v \in 1..MaxVersion : EnqueueProfileRefresh(t, u, v)
  PROVE  LedgerStep
<1>0. t \in Tasks /\ Len(events) + 1 \in Nat /\ membership \in MemberTable
  BY DEF Tasks, DeliveryInv, TypeOK, MemberTable
<1>1. ASSUME NEW b \in Buckets, ChangeMembership(t, u, b)
      PROVE  LedgerStep
  <2> DEFINE members == [membership EXCEPT ![u] =
                           [bucket |-> b, pos |-> Len(events) + 1, version |-> 0]]
  <2>1. members \in MemberTable
    BY <1>0 DEF MemberTable
  <2>2. Commit(t, u, members, 0)
    BY <1>1 DEF ChangeMembership
  <2> QED BY <1>0, <2>1, <2>2, CommitRefines
<1>2. CASE SendEvent(t, u)
  BY <1>0, <1>2, CommitRefines DEF SendEvent
<1>3. ASSUME NEW v \in 1..MaxVersion, EnqueueProfileRefresh(t, u, v)
      PROVE  LedgerStep
  <2> DEFINE members == [membership EXCEPT ![u] =
                           [bucket |-> "join", pos |-> Len(events) + 1, version |-> v]]
  <2>1. members \in MemberTable /\ v \in Nat
    BY <1>0 DEF Buckets, MemberTable
  <2>2. Commit(t, u, members, v)
    BY <1>3 DEF EnqueueProfileRefresh
  <2> QED BY <1>0, <2>1, <2>2, CommitRefines
<1> QED BY <1>1, <1>2, <1>3

\* An append that runs, whoever asked for it: the delta enters the view, its
\* user is excused from it, or nothing happens.
LEMMA AppendRefines ==
  ASSUME DeliveryInv, NEW k \in Owed, NEW r, AppendRoomFanout(k, r),
         UNCHANGED <<events, outbox>>
  PROVE  LedgerStep
<1>0. Settled' = Settled
  BY DEF Settled
<1>1. CASE UNCHANGED <<userVars, waived>>
  BY <1>1, LedgerUntouched DEF userVars
<1>2. CASE waived' = waived \cup {k} /\ UNCHANGED userVars
  <2>1. Ledger!Excuse(k)
    BY <1>0, <1>2, OwedUnchanged DEF Ledger!Excuse, Settled, userVars
  <2> QED BY <2>1 DEF LedgerStep, Ledger!Next
<1>3. CASE /\ EntriesOf(k) = {}
           /\ stream' = [stream EXCEPT ![k[2]] = Append(@, k[1])]
           /\ UNCHANGED waived
  <2>1. Ledger!Deliver(k)
    BY <1>0, <1>3, OwedUnchanged DEF Ledger!Deliver, Ledger!Seen, EntriesOf, Settled
  <2> QED BY <2>1 DEF LedgerStep, Ledger!Next
<1> QED BY <1>1, <1>2, <1>3, Zenon DEF AppendRoomFanout

\* The steps of an invocation.
LEMMA AdvanceRefines ==
  ASSUME DeliveryInv, NEW t \in Tasks, Advance(t)
  PROVE  LedgerStep
<1>1. CASE ListPending(t) \/ CallAppend(t) \/ Return(t) \/ Inspect(t) \/ NextPhase(t)
  <2>1. UNCHANGED <<events, stream, waived, outbox>>
    BY <1>1, Zenon DEF ListPending, CallAppend, Return, Inspect, NextPhase, roomVars, userVars
  <2> QED BY <2>1, LedgerUntouched
<1>2. CASE SkipStale(t)
  <2>1. PICK k \in work[t] : /\ IsStale(k) /\ Acknowledge(k, 0) /\ waived' = waived \cup {k}
    BY <1>2 DEF SkipStale
  <2>2. k \in Owed /\ k \in DOMAIN outbox
    BY <2>1 DEF IsStale, DeliveryInv, OnlyOwed
  <2>3. Settled' = Settled \cup {k}
    BY <2>1, <2>2, AcknowledgeSettles
  <2>4. UNCHANGED <<events, stream>>
    BY <1>2 DEF SkipStale, roomVars, userVars
  <2>5. Ledger!Supersede(k)
    BY <2>1, <2>3, <2>4, OwedUnchanged DEF Ledger!Supersede, Settled
  <2> QED BY <2>2, <2>5 DEF LedgerStep, Ledger!Next
<1>3. CASE ServeAppend(t)
  <2>1. item[t] \in Owed
    BY <1>3 DEF ServeAppend, DeliveryInv, OnlyOwed
  <2>2. UNCHANGED <<events, outbox>> /\ \E r : AppendRoomFanout(item[t], r)
    BY <1>3 DEF ServeAppend, roomVars
  <2> QED BY <2>1, <2>2, AppendRefines
<1>4. CASE Settle(t)
  <2> DEFINE k == item[t]
  <2>1. k \in Owed /\ UNCHANGED <<events, stream, waived>>
    BY <1>4 DEF Settle, DeliveryInv, OnlyOwed, roomVars, userVars
  <2>2. CASE reply[t].ok
    <3>1. Acknowledge(k, reply[t].pos)
      BY <1>4, <2>2 DEF Settle
    <3>2. reply[t].pos \in Nat
      BY DEF DeliveryInv, TypeOK
    <3>3. EntriesOf(k) # {} \/ k \in waived
      BY <1>4, <2>2 DEF Settle, DeliveryInv, RepliesHold
    <3>4. CASE k \in DOMAIN outbox
      BY <2>1, <3>1, <3>2, <3>3, <3>4, AcknowledgeSettles, LedgerSettles
    <3>5. CASE k \notin DOMAIN outbox
      BY <2>1, <3>1, <3>2, <3>5, AcknowledgeSettles, LedgerStutters
    <3> QED BY <3>4, <3>5
  <2>3. CASE ~reply[t].ok
    <3>1. outbox' = [j \in DOMAIN outbox |->
                       IF j = k THEN [outbox[j] EXCEPT !.status = "retrying"] ELSE outbox[j]]
      BY <1>4, <2>3 DEF Settle
    <3>2. CASE k \in DOMAIN outbox
      <4> DEFINE row == [outbox[k] EXCEPT !.status = "retrying"]
      <4>1. outbox[k] \in [status : {"pending", "retrying", "repaired", "acked"},
                           ack : Nat, refresh : BOOLEAN]
        BY <3>2 DEF DeliveryInv, TypeOK
      <4>2. row.status # "acked"
        BY <4>1
      <4>3. /\ DOMAIN outbox' = DOMAIN outbox
            /\ \A j \in DOMAIN outbox' : outbox'[j] = IF j = k THEN row ELSE outbox[j]
        BY <3>1
      <4> HIDE DEF row
      <4>4. Settled' = Settled \ {k}
        BY <4>2, <4>3, RewriteReopens
      <4> QED BY <2>1, <4>4, LedgerReopens
    <3>3. CASE k \notin DOMAIN outbox
      <4>1. Settled' = Settled
        BY <3>1, <3>3 DEF Settled
      <4> QED BY <2>1, <4>1, LedgerStutters
    <3> QED BY <3>2, <3>3
  <2> QED BY <2>2, <2>3
<1>5. CASE AfterInspect(t)
  <2> DEFINE k == item[t]
             acknowledge == reply[t].pos > 0 /\ (pc[t] = "pendingSeen" \/ reply[t].row)
             recreate == reply[t].pos = 0 /\ ~reply[t].row /\ pc[t] = "eventSeen"
  <2>0. AfterInspectWith(t, acknowledge, recreate)
    BY <1>5 DEF AfterInspect
  <2>1. /\ k \in Owed /\ UNCHANGED <<events, stream, waived>>
        /\ pc[t] \in {"pendingSeen", "eventSeen"}
    BY <2>0 DEF AfterInspectWith, DeliveryInv, OnlyOwed, roomVars, userVars
  <2>2. CASE acknowledge
    <3>1. Acknowledge(k, reply[t].pos)
      BY <2>0, <2>2 DEF AfterInspectWith
    <3>2. reply[t].pos \in Nat
      BY DEF DeliveryInv, TypeOK
    <3>3. EntriesOf(k) # {}
      BY <2>1, <2>2 DEF DeliveryInv, RepliesHold
    <3>4. CASE k \in DOMAIN outbox
      BY <2>1, <3>1, <3>2, <3>3, <3>4, AcknowledgeSettles, LedgerSettles
    <3>5. CASE k \notin DOMAIN outbox
      BY <2>1, <3>1, <3>2, <3>5, AcknowledgeSettles, LedgerStutters
    <3> QED BY <3>4, <3>5
  <2>3. CASE ~acknowledge /\ recreate
    <3> DEFINE row == Row("repaired", FALSE)
    <3>1. outbox' = [j \in DOMAIN outbox \cup {k} |-> IF j = k THEN row ELSE outbox[j]]
      BY <2>0, <2>3 DEF AfterInspectWith
    <3>2. row.status # "acked"
      BY DEF Row
    <3> HIDE DEF row
    <3>3. /\ DOMAIN outbox' = DOMAIN outbox \cup {k}
          /\ \A j \in DOMAIN outbox' : outbox'[j] = IF j = k THEN row ELSE outbox[j]
      BY <3>1
    <3>4. Settled' = Settled \ {k}
      BY <3>2, <3>3, RewriteReopens
    <3> QED BY <2>1, <3>4, LedgerReopens
  <2>4. CASE ~acknowledge /\ ~recreate
    <3>1. UNCHANGED outbox
      BY <2>0, <2>4 DEF AfterInspectWith
    <3> QED BY <2>1, <3>1, LedgerUntouched
  <2> QED BY <2>2, <2>3, <2>4
<1> QED BY <1>1, <1>2, <1>3, <1>4, <1>5 DEF Advance

LEMMA EvictRefines ==
  ASSUME DeliveryInv, Evict
  PROVE  LedgerStep
<1>0. UNCHANGED <<events, stream, waived>>
  BY DEF Evict, roomVars, userVars
<1>1. PICK L \in {{}} \cup {{k} : k \in DOMAIN outbox} :
         outbox' = [k \in DOMAIN outbox \ L |-> outbox[k]]
  BY DEF Evict
<1>2. Settled' = Settled \ L
  BY <1>1 DEF Settled
<1>3. CASE L = {}
  BY <1>0, <1>2, <1>3, LedgerStutters
<1>4. ASSUME NEW k \in DOMAIN outbox, L = {k}
      PROVE  LedgerStep
  <2>1. k \in Owed
    BY DEF DeliveryInv, OnlyOwed
  <2> QED BY <1>0, <1>2, <1>4, <2>1, LedgerReopens
<1> QED BY <1>1, <1>3, <1>4

LEMMA ForgetRefines ==
  ASSUME NEW u \in Users, ForgetRoom(u)
  PROVE  LedgerStep
<1>0. UNCHANGED <<events, outbox, waived>>
  BY DEF ForgetRoom, roomVars
<1>1. CASE UNCHANGED userVars
  BY <1>0, <1>1, LedgerUntouched DEF userVars
<1>2. CASE stream' = [stream EXCEPT ![u] = Append(@, Forget)]
  <2>1. Ledger!ForgetView(u)
    BY <1>0, <1>2, OwedUnchanged DEF Ledger!ForgetView, Forget
  <2> QED BY <2>1 DEF LedgerStep, Ledger!Next
<1> QED BY <1>1, <1>2 DEF ForgetRoom

LEMMA NextRefines ==
  ASSUME DeliveryInv, [Next]_vars
  PROVE  LedgerStep
<1>1. CASE Client
  <2>1. ASSUME NEW u \in Users, QueryForget(u)
        PROVE  LedgerStep
    <3>1. UNCHANGED <<events, stream, waived, outbox>>
      BY <2>1 DEF QueryForget, roomVars, userVars
    <3> QED BY <3>1, LedgerUntouched
  <2> QED BY <1>1, <2>1, AdmissionRefines, ForgetRefines DEF Client
<1>2. CASE RepairRoom \/ \E u \in Users : RepairUser(u)
  <2>1. UNCHANGED <<events, stream, waived, outbox>>
    BY <1>2, Zenon DEF RepairRoom, RepairUser, StartReconcile, roomVars, userVars
  <2> QED BY <2>1, LedgerUntouched
<1>3. CASE \E t \in Tasks : Advance(t)
  BY <1>3, AdvanceRefines
<1>4. ASSUME NEW k \in orphans, LateAppend(k)
      PROVE  LedgerStep
  <2>1. k \in Owed
    BY DEF DeliveryInv, OnlyOwed
  <2>2. UNCHANGED <<events, outbox>> /\ \E r : AppendRoomFanout(k, r)
    BY <1>4 DEF LateAppend, roomVars
  <2> QED BY <2>1, <2>2, AppendRefines
<1>5. CASE Faulty
  <2>1. ASSUME NEW t \in Tasks, CallFails(t) \/ ReplyLost(t) \/ InspectFails(t)
        PROVE  LedgerStep
    <3>1. UNCHANGED <<events, stream, waived, outbox>>
      BY <2>1, Zenon DEF CallFails, ReplyLost, InspectFails, roomVars, userVars
    <3> QED BY <3>1, LedgerUntouched
  <2> QED BY <1>5, <2>1, EvictRefines DEF Faulty
<1>6. CASE UNCHANGED vars
  <2>1. UNCHANGED <<events, stream, waived, outbox>>
    BY <1>6 DEF vars, roomVars, userVars
  <2> QED BY <2>1, LedgerUntouched
<1> QED BY <1>1, <1>2, <1>3, <1>4, <1>5, <1>6 DEF Next

\* The fanout implements the ledger: each commit, append, acknowledgement,
\* repair, eviction and forget of the code is one step of it or none.
THEOREM FanoutImplementsLedger == Spec => ImplementsLedger
<1>1. Init => Ledger!Init
  <2> SUFFICES ASSUME Init PROVE Ledger!Init
    OBVIOUS
  <2>1. Owed = {} /\ Len(events) = 0
    BY DEF Init, Owed
  <2>2. stream = [u \in Users |-> <<>>] /\ waived = {}
    BY DEF Init
  <2>3. Settled = {}
    BY DEF Init, Settled
  <2> QED BY <2>1, <2>2, <2>3 DEF Ledger!Init, Settled
<1>2. FanoutInv /\ [Next]_vars => [Ledger!Next]_(Ledger!vars)
  BY NextRefines DEF FanoutInv, LedgerStep
<1> QED BY <1>1, <1>2, FanoutInvariant, PTL DEF Spec, ImplementsLedger, Ledger!Spec

=============================================================================
