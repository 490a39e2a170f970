-------------------------- MODULE SyncStreamProofs ---------------------------
(***************************************************************************)
(* Proofs about SyncStream.  SyncInv is inductive for any devices, filters,*)
(* limits and visibility of the history.  In a room of shared history,     *)
(* while deltas are handed over in order and no client is more than a page *)
(* behind, what its clients know of the room has no silent gap and keeps   *)
(* the state.  And as long as no device's queue outgrows a page, no        *)
(* message that was accepted is lost to its device.                        *)
(***************************************************************************)
EXTENDS SyncStream, SequenceTheorems, FiniteSetTheorems, WellFoundedInduction, TLAPS

-----------------------------------------------------------------------------
(* Numbers *)

\* A set of natural numbers has a least one, a bounded one a largest.
LEMMA MinIsLeast ==
  ASSUME NEW S \in SUBSET Nat, S # {}
  PROVE  Min(S) \in S /\ \A x \in S : Min(S) <= x
<1> DEFINE R == StrictSubsetOrdering(Nat)
           Below(x) == 1..x
           T == {Below(x) : x \in S}
<1>1. \A x \in S : Below(x) \in FiniteSubsetsOf(Nat)
  BY FS_Interval DEF FiniteSubsetsOf
<1>2. PICK a \in S : \A x \in S : <<Below(x), Below(a)>> \notin R
  <2>1. T \subseteq FiniteSubsetsOf(Nat) /\ T # {}
    BY <1>1
  <2>2. IsWellFoundedOn(R, FiniteSubsetsOf(Nat))
    BY FS_StrictSubsetOrderingWellFounded
  <2> HIDE DEF R
  <2>3. \E t \in T : \A u \in T : <<u, t>> \notin R
    <3> HIDE DEF T
    <3> QED BY <2>1, <2>2, WFMin
  <2> QED BY <2>3
<1>3. \A x \in S : a <= x
  <2> SUFFICES ASSUME NEW x \in S, x < a PROVE FALSE
    OBVIOUS
  <2>1. Below(x) \subseteq Below(a) /\ a \in Below(a) /\ a \notin Below(x)
    OBVIOUS
  <2>2. Below(x) # Below(a) /\ Below(x) \in SUBSET Nat /\ Below(a) \in SUBSET Nat
    BY <2>1
  <2> HIDE DEF Below
  <2>3. <<Below(x), Below(a)>> \in R
    BY <2>1, <2>2 DEF StrictSubsetOrdering
  <2> QED BY <1>2, <2>3
<1> QED BY <1>3 DEF Min

LEMMA MaxIsLargest ==
  ASSUME NEW n \in Nat, NEW S \in SUBSET (0..n), S # {}
  PROVE  Max(S) \in S /\ \A x \in S : Max(S) >= x
<1> DEFINE T == {n - x : x \in S}
<1>0. \A x \in S : x \in Nat /\ n - x \in Nat
  OBVIOUS
<1>1. T \in SUBSET Nat /\ T # {}
  BY <1>0
<1>2. Min(T) \in T /\ \A t \in T : Min(T) <= t
  BY <1>1, MinIsLeast
<1>3. PICK a \in S : Min(T) = n - a
  BY <1>2
<1>4. \A x \in S : a >= x
  <2> SUFFICES ASSUME NEW x \in S PROVE a >= x
    OBVIOUS
  <2>1. n - x \in T
    OBVIOUS
  <2>2. n - a <= n - x
    BY <1>2, <1>3, <2>1
  <2> QED BY <1>0, <2>2
<1> QED BY <1>4 DEF Max

-----------------------------------------------------------------------------
(* The room *)

LEMMA EventFields ==
  ASSUME TypeOK, NEW p \in 1..Len(log)
  PROVE  /\ log[p] \in Events /\ log[p].kind \in Kinds /\ log[p].bucket \in Buckets
         /\ log[p].member \in 0..MaxLog /\ log[p].state \in 0..MaxLog
         /\ log[p].timeline \subseteq 1..MaxLog /\ log[p].pinned \subseteq 1..MaxLog
         /\ log[p].told \subseteq 1..MaxLog /\ log[p].limited \in BOOLEAN
<1>1. log[p] \in Events
  BY ElementOfSeq DEF TypeOK
<1> QED BY <1>1 DEF Events

\* What is true of the state of the room now.
LEMMA NowIs ==
  ASSUME TypeOK, EventsLookBack
  PROVE  /\ Len(log) \in 0..MaxLog /\ Now.bucket \in Buckets
         /\ Now.member \in 0..Len(log) /\ Now.state \in 0..Len(log)
         /\ Now.bucket = "none" <=> Now.member = 0
<1>1. Len(log) \in 0..MaxLog
  BY LenProperties, BoundsAreNat DEF TypeOK
<1>2. CASE Len(log) = 0
  BY <1>1, <1>2 DEF Now, EventAt, NoEvent, Buckets
<1>3. CASE Len(log) # 0
  <2>1. Len(log) \in 1..Len(log) /\ Now = log[Len(log)]
    BY <1>1, <1>3 DEF Now, EventAt
  <2>2. Now.bucket \in Buckets
    BY <2>1, EventFields
  <2> QED BY <1>1, <2>1, <2>2 DEF EventsLookBack
<1> QED BY <1>2, <1>3

\* A committed event brings nothing that is not there.
LEMMA CommittedEvent ==
  ASSUME TypeOK, EventsLookBack, NEW kind \in Kinds, Len(log) < MaxLog
  PROVE  LET p == Len(log) + 1
             e == NewEvent(kind)
         IN  /\ e \in Events /\ e.member \in 0..p /\ e.state \in 0..p
             /\ e.timeline \subseteq 1..p /\ e.told \subseteq 1..p
             /\ (e.bucket = "none" <=> e.member = 0)
<1> DEFINE p == Len(log) + 1
           own == kind \in MembershipKinds
           enters == kind = "join"
           state == IF kind = "state" THEN p ELSE Now.state
           history == HistoryStart(p)..p
           recent == IF enters THEN Latest(Backfill, history) ELSE {p}
           bucket == IF own THEN kind ELSE Now.bucket
           member == IF own THEN p ELSE Now.member
           timeline == IF kind = "invite" THEN {} ELSE recent
           pinned == IF enters THEN {p} ELSE {}
           limited == enters /\ Cardinality(history) > Cardinality(recent)
           told == StateOf(kind, state)
<1>1. /\ p \in 1..MaxLog /\ 1..p \subseteq 1..MaxLog /\ 0..p \subseteq 0..MaxLog
      /\ Now.bucket \in Buckets /\ Now.member \in 0..p /\ Now.state \in 0..p
      /\ Now.bucket = "none" <=> Now.member = 0
  BY NowIs, BoundsAreNat
<1>2. HistoryStart(p) \in 1..p
  <2>1. CASE Now.bucket = "invite"
    BY <1>1, <2>1, HistoryIsKnown DEF HistoryStart
  <2>2. CASE Now.bucket # "invite"
    BY <1>1, <2>2, HistoryIsKnown DEF HistoryStart
  <2> QED BY <2>1, <2>2
<1>3. history \subseteq 1..p
  BY <1>1, <1>2
<1>4. recent \subseteq 1..p
  BY <1>1, <1>3 DEF Latest
<1>5. state \in 0..p /\ member \in 0..p /\ bucket \in Buckets /\ (bucket = "none" <=> member = 0)
  BY <1>1 DEF Buckets, MembershipKinds
<1>6. told \subseteq 1..p
  BY <1>1, <1>5 DEF StateOf
<1>7. timeline \subseteq 1..p /\ pinned \subseteq 1..p /\ limited \in BOOLEAN
  BY <1>1, <1>4
<1>8. NewEvent(kind) = [kind |-> kind, bucket |-> bucket, member |-> member, state |-> state,
                        timeline |-> timeline, pinned |-> pinned, limited |-> limited,
                        told |-> told]
  BY DEF NewEvent
<1> HIDE DEF bucket, member, state, timeline, pinned, limited, told, recent, history
<1> QED BY <1>1, <1>5, <1>6, <1>7, <1>8 DEF Events

LEMMA OwedAreEvents ==
  ASSUME TypeOK
  PROVE  Owed \subseteq 1..Len(log) /\ Len(log) \in 0..MaxLog /\ 1..Len(log) \subseteq 1..MaxLog
BY LenProperties, BoundsAreNat DEF TypeOK, Owed

LEMMA CommitStep ==
  ASSUME StreamInv, NEW kind \in Kinds, Commit(kind)
  PROVE  StreamInv'
<1> DEFINE e == NewEvent(kind)
           n == Len(log)
<1>1. /\ n < MaxLog /\ log' = Append(log, e)
      /\ UNCHANGED <<user, syncs, clients, overtakes>>
  BY DEF Commit
<1>2. TypeOK /\ EventsLookBack /\ n \in 0..MaxLog /\ log \in Seq(Events)
  BY OwedAreEvents DEF StreamInv, TypeOK
<1>3. /\ e \in Events /\ e.member \in 0..(n + 1) /\ e.state \in 0..(n + 1)
      /\ e.timeline \subseteq 1..(n + 1) /\ e.told \subseteq 1..(n + 1)
      /\ (e.bucket = "none" <=> e.member = 0)
  BY <1>1, <1>2, CommittedEvent
<1> HIDE DEF e
<1>4. /\ log' \in Seq(Events) /\ Len(log') = n + 1 /\ log'[n + 1] = e
      /\ \A p \in 1..n : log'[p] = log[p]
  BY <1>1, <1>2, <1>3, AppendProperties
<1>5. TypeOK'
  BY <1>1, <1>2, <1>4, BoundsAreNat DEF TypeOK, user
<1>6. EventsLookBack'
  <2> SUFFICES ASSUME NEW p \in 1..(n + 1)
               PROVE  /\ log'[p].member \in 0..p /\ log'[p].state \in 0..p
                      /\ log'[p].timeline \subseteq 1..p /\ log'[p].told \subseteq 1..p
                      /\ log'[p].bucket = "none" <=> log'[p].member = 0
    BY <1>4 DEF EventsLookBack
  <2>1. CASE p = n + 1
    BY <1>3, <1>4, <2>1
  <2>2. CASE p \in 1..n
    BY <1>2, <1>4, <2>2 DEF EventsLookBack
  <2> QED BY <1>2, <2>1, <2>2
<1>7. Owed \subseteq Owed'
  BY <1>2, <1>4 DEF Owed
<1>8. EntriesAreOwed'
  BY <1>1, <1>7 DEF StreamInv, EntriesAreOwed, user
<1>9. NobodyIsAhead'
  <2>1. summary'.pos <= Len(log')
    BY <1>1, <1>2, <1>4 DEF StreamInv, NobodyIsAhead, TypeOK, user
  <2>2. \A r \in queue' : r.pos \in 1..Len(stream') /\ stream'[r.pos] = DeviceEntry(r.device, r.message)
    BY <1>1 DEF StreamInv, NobodyIsAhead, user
  <2>3. \A d \in Devices : syncs[d].snapshot \in Nat
    BY <1>2 DEF TypeOK, Syncs
  <2>4. ASSUME NEW d \in Devices
        PROVE  /\ clients'[d].born <= Len(stream') /\ clients'[d].token <= Len(stream')
               /\ clients'[d].seen \subseteq 1..Len(log')
               /\ syncs'[d].upper <= Len(stream') /\ syncs'[d].snapshot <= Len(log')
               /\ syncs'[d].deltas \subseteq Owed'
    BY <1>1, <1>2, <1>4, <1>7, <2>3 DEF StreamInv, NobodyIsAhead, user
  <2> QED BY <2>1, <2>2, <2>4 DEF NobodyIsAhead
<1>10. NothingInherited' /\ SentOnce'
  BY <1>1 DEF StreamInv, NothingInherited, SentOnce, user
<1> QED BY <1>5, <1>6, <1>8, <1>9, <1>10 DEF StreamInv

-----------------------------------------------------------------------------
(* The stream *)

\* The stream as it was, with entries more.
Grows ==
  /\ stream' \in Seq(Entries) /\ Len(stream) \in Nat /\ Len(stream') \in Nat
  /\ Len(stream) <= Len(stream')
  /\ \A i \in 1..Len(stream) : stream'[i] = stream[i]

\* What a step may leave alone keeps its part of the invariant.
LEMMA RoomKept ==
  ASSUME StreamInv, log' = log
  PROVE  EventsLookBack' /\ Owed' = Owed
BY DEF StreamInv, EventsLookBack, Owed

\* When the stream grows, nobody that was not ahead of it is.
LEMMA BehindKept ==
  ASSUME StreamInv, log' = log, Grows, UNCHANGED <<syncs, clients>>, summary'.pos <= Len(log),
         \A r \in queue' \ queue : /\ r.pos \in 1..Len(stream')
                                   /\ stream'[r.pos] = DeviceEntry(r.device, r.message)
  PROVE  NobodyIsAhead'
<1>1. ASSUME NEW r \in queue'
      PROVE  r.pos \in 1..Len(stream') /\ stream'[r.pos] = DeviceEntry(r.device, r.message)
  BY DEF StreamInv, NobodyIsAhead, Grows
<1>2. ASSUME NEW d \in Devices
      PROVE  /\ clients'[d].born <= Len(stream') /\ clients'[d].token <= Len(stream')
             /\ clients'[d].seen \subseteq 1..Len(log')
             /\ syncs'[d].upper <= Len(stream') /\ syncs'[d].snapshot <= Len(log')
             /\ syncs'[d].deltas \subseteq Owed'
  <2>1. clients[d].born \in Nat /\ clients[d].token \in Nat /\ syncs[d].upper \in Nat
    BY DEF StreamInv, TypeOK, Clients, Syncs
  <2> QED BY <2>1, RoomKept DEF StreamInv, NobodyIsAhead, Grows
<1> QED BY <1>1, <1>2 DEF NobodyIsAhead

LEMMA AppendStep ==
  ASSUME StreamInv, NEW p \in 1..MaxLog, AppendRoomFanout(p)
  PROVE  StreamInv'
<1> DEFINE n == Len(stream)
           entry == RoomEntry(p)
<1>1. /\ p \in Owed \ Told /\ overtakes' \in {overtakes, overtakes + 1} /\ overtakes' <= MaxOvertakes
      /\ stream' = Append(stream, entry) /\ summary' = [bucket |-> log[p].bucket, pos |-> p]
      /\ UNCHANGED <<room, devices, queue, accepted, syncs, clients>>
  <2>1. overtakes \in Nat
    BY DEF StreamInv, TypeOK
  <2> QED BY <2>1 DEF AppendRoomFanout
<1>2. TypeOK /\ stream \in Seq(Entries) /\ n \in Nat /\ p \in 1..Len(log) /\ log' = log
  BY <1>1, OwedAreEvents, LenProperties DEF StreamInv, TypeOK, room
<1>3. entry \in Entries /\ entry.pos = p /\ entry.to = Nobody
  BY DEF Entries, RoomEntry
<1>4. entry = RoomEntry(p)
  OBVIOUS
<1> HIDE DEF entry
<1>5. /\ stream' \in Seq(Entries) /\ Len(stream') = n + 1 /\ stream'[n + 1] = entry
      /\ \A i \in 1..n : stream'[i] = stream[i]
  BY <1>1, <1>2, <1>3, AppendProperties
<1>6. TypeOK'
  <2>1. overtakes' \in 0..MaxOvertakes
    BY <1>1, <1>2, BoundsAreNat DEF TypeOK
  <2>2. summary' \in [bucket : Buckets, pos : 0..MaxLog]
    BY <1>1, <1>2, EventFields
  <2> QED BY <1>1, <1>2, <1>5, <2>1, <2>2 DEF TypeOK
<1>7. EntriesAreOwed'
  <2> SUFFICES ASSUME NEW i \in 1..(n + 1)
               PROVE  \/ stream'[i].pos \in Owed /\ stream'[i] = RoomEntry(stream'[i].pos)
                      \/ /\ stream'[i].to \in Devices /\ stream'[i].message \in accepted
                         /\ stream'[i] = DeviceEntry(stream'[i].to, stream'[i].message)
    BY <1>1, <1>2, <1>5, RoomKept DEF EntriesAreOwed
  <2>1. CASE i = n + 1
    BY <1>1, <1>3, <1>4, <1>5, <2>1
  <2>2. CASE i \in 1..n
    BY <1>5, <2>2 DEF StreamInv, EntriesAreOwed
  <2> QED BY <1>2, <2>1, <2>2
<1>8. NobodyIsAhead'
  <2>1. Grows
    BY <1>2, <1>5 DEF Grows
  <2> QED BY <1>1, <1>2, <2>1, BehindKept
<1>9. SentOnce'
  BY <1>2, <1>3, <1>5 DEF StreamInv, SentOnce
<1>10. NothingInherited'
  BY <1>1 DEF StreamInv, NothingInherited
<1> QED BY <1>2, <1>6, <1>7, <1>8, <1>9, <1>10, RoomKept DEF StreamInv

\* A message that is not known is sent once to each device that is to have it.
LEMMA EnqueueStep ==
  ASSUME StreamInv, NEW m \in Messages, NEW target, EnqueueToDevice(m, target)
  PROVE  /\ StreamInv' /\ Grows
         /\ \A i \in 1..Len(stream') \ 1..Len(stream) :
              \E r \in queue' : /\ r.device = stream'[i].to /\ r.pos = i
                                /\ r.message = stream'[i].message
<1> DEFINE receivers == IF target = Everyone THEN devices ELSE devices \cap {target}
           k == Cardinality(receivers)
           n == Len(stream)
<1>1. /\ m \notin accepted /\ accepted' = accepted \cup {m}
      /\ UNCHANGED <<room, summary, devices, syncs, clients, overtakes>>
      /\ \E order \in [1..k -> receivers] :
           /\ \A i, j \in 1..k : order[i] = order[j] => i = j
           /\ stream' = stream \o [i \in 1..k |-> DeviceEntry(order[i], m)]
           /\ queue' = queue \cup {[device |-> order[i], pos |-> n + i, message |-> m] : i \in 1..k}
  BY DEF EnqueueToDevice
<1>2. TypeOK /\ stream \in Seq(Entries) /\ n \in Nat
  BY LenProperties DEF StreamInv, TypeOK
<1>3. receivers \subseteq devices /\ receivers \subseteq Devices /\ k \in Nat
  <2>1. receivers \subseteq devices /\ receivers \subseteq Devices
    BY <1>2 DEF TypeOK
  <2> HIDE DEF receivers
  <2> QED BY <2>1, DevicesAreDevices, FS_Subset, FS_CardinalityType
<1> HIDE DEF receivers, k
<1>0. PICK order \in [1..k -> receivers] :
           /\ \A i, j \in 1..k : order[i] = order[j] => i = j
           /\ stream' = stream \o [i \in 1..k |-> DeviceEntry(order[i], m)]
           /\ queue' = queue \cup {[device |-> order[i], pos |-> n + i, message |-> m] : i \in 1..k}
  BY <1>1
<1> DEFINE new == [i \in 1..k |-> DeviceEntry(order[i], m)]
<1>4. \A i \in 1..k : order[i] \in receivers /\ order[i] \in Devices /\ order[i] \in devices
  BY <1>3
<1>5. \A i \in 1..k : new[i] \in Entries /\ new[i] = DeviceEntry(order[i], m)
                      /\ new[i].to = order[i] /\ new[i].message = m
  BY <1>4, BoundsAreNat DEF DeviceEntry, Entries
<1>6. new \in Seq(Entries) /\ Len(new) = k
  <2>1. new \in [1..k -> Entries]
    BY <1>5
  <2> HIDE DEF new
  <2> QED BY <1>3, <2>1, SeqDef
<1>7. stream' = stream \o new
  BY <1>0
<1> HIDE DEF new
<1>8. /\ stream' \in Seq(Entries) /\ Len(stream') = n + k
      /\ \A i \in 1..n : stream'[i] = stream[i]
      /\ \A i \in 1..k : stream'[n + i] = new[i]
  <2>1. \A i \in 1..(n + k) : stream'[i] = IF i <= n THEN stream[i] ELSE new[i - n]
    BY <1>2, <1>6, <1>7, ConcatProperties
  <2>2. stream' \in Seq(Entries) /\ Len(stream') = n + k
    BY <1>2, <1>6, <1>7, ConcatProperties
  <2>3. \A i \in 1..k : n + i \in 1..(n + k) /\ ~(n + i <= n) /\ (n + i) - n = i
    BY <1>2, <1>3
  <2> QED BY <1>2, <1>3, <2>1, <2>2, <2>3
<1>9. Grows
  BY <1>2, <1>3, <1>8 DEF Grows
<1>10. \A i \in 1..(n + k) : i \notin 1..n => i - n \in 1..k /\ stream'[i] = new[i - n]
  <2>1. \A i \in 1..(n + k) : i \notin 1..n => i - n \in 1..k /\ n + (i - n) = i
    BY <1>2, <1>3
  <2> QED BY <1>8, <2>1
<1>11. \A r \in queue' \ queue :
         \E i \in 1..k : r = [device |-> order[i], pos |-> n + i, message |-> m]
  BY <1>0
<1>12. TypeOK'
  <2>1. \A i \in 1..k : [device |-> order[i], pos |-> n + i, message |-> m]
                          \in [device : Devices, pos : Nat, message : Messages]
    BY <1>2, <1>4
  <2>2. queue' \subseteq [device : Devices, pos : Nat, message : Messages]
    BY <1>0, <1>2, <2>1 DEF TypeOK
  <2>3. accepted' \subseteq Messages
    BY <1>1, <1>2 DEF TypeOK
  <2> QED BY <1>1, <1>2, <1>8, <2>2, <2>3 DEF TypeOK, room
<1>13. EntriesAreOwed'
  <2> SUFFICES ASSUME NEW i \in 1..(n + k)
               PROVE  \/ stream'[i].pos \in Owed /\ stream'[i] = RoomEntry(stream'[i].pos)
                      \/ /\ stream'[i].to \in Devices /\ stream'[i].message \in accepted'
                         /\ stream'[i] = DeviceEntry(stream'[i].to, stream'[i].message)
    BY <1>1, <1>2, <1>8, RoomKept DEF EntriesAreOwed, room
  <2>1. CASE i \in 1..n
    BY <1>1, <1>8, <2>1 DEF StreamInv, EntriesAreOwed
  <2>2. CASE i \notin 1..n
    <3>1. PICK j \in 1..k : stream'[i] = new[j]
      BY <1>10, <2>2
    <3>2. m \in accepted'
      BY <1>1
    <3> QED BY <1>4, <1>5, <3>1, <3>2
  <2> QED BY <2>1, <2>2
<1>14. NobodyIsAhead'
  <2>1. ASSUME NEW r \in queue' \ queue
        PROVE  r.pos \in 1..Len(stream') /\ stream'[r.pos] = DeviceEntry(r.device, r.message)
    <3> PICK i \in 1..k : r = [device |-> order[i], pos |-> n + i, message |-> m]
      BY <1>11
    <3>1. r.pos = n + i /\ r.device = order[i] /\ r.message = m
      OBVIOUS
    <3> QED BY <1>2, <1>3, <1>5, <1>8, <3>1
  <2>2. summary'.pos <= Len(log) /\ log' = log /\ UNCHANGED <<syncs, clients>>
    BY <1>1 DEF StreamInv, NobodyIsAhead, room
  <2> QED BY <1>9, <2>1, <2>2, BehindKept
<1>15. NothingInherited'
  <2> SUFFICES ASSUME NEW r \in queue' PROVE r.device \in devices /\ r.pos > clients[r.device].born
    BY <1>1 DEF NothingInherited
  <2>1. CASE r \in queue
    BY <2>1 DEF StreamInv, NothingInherited
  <2>2. CASE r \notin queue
    <3> PICK i \in 1..k : r = [device |-> order[i], pos |-> n + i, message |-> m]
      BY <1>11, <2>2
    <3>1. r.pos = n + i /\ r.device = order[i] /\ i \in Nat /\ i > 0
      OBVIOUS
    <3>2. order[i] \in Devices /\ order[i] \in devices
      BY <1>4
    <3>3. clients[order[i]].born <= n /\ clients[order[i]].born \in Nat
      BY <1>2, <3>2 DEF StreamInv, NobodyIsAhead, TypeOK, Clients
    <3> QED BY <1>2, <3>1, <3>2, <3>3
  <2> QED BY <2>1, <2>2
<1>16. SentOnce'
  <2> SUFFICES ASSUME NEW i \in 1..(n + k), NEW j \in 1..(n + k), stream'[i].to # Nobody,
                      stream'[i] = stream'[j]
               PROVE  i = j
    BY <1>8 DEF SentOnce
  <2>1. ASSUME NEW a \in 1..n, stream[a].to # Nobody PROVE stream[a].message # m
    <3>1. stream[a].message \in accepted
      <4>1. \A p : RoomEntry(p).to = Nobody
        BY DEF RoomEntry
      <4>2. \/ stream[a] = RoomEntry(stream[a].pos)
            \/ stream[a].message \in accepted
        BY DEF StreamInv, EntriesAreOwed
      <4> QED BY <2>1, <4>1, <4>2
    <3>2. m \notin accepted
      BY <1>1
    <3> QED BY <3>1, <3>2
  <2>2. CASE i \in 1..n /\ j \in 1..n
    BY <1>8, <2>2 DEF StreamInv, SentOnce
  <2>3. CASE i \in 1..n /\ j \notin 1..n
    BY <1>5, <1>8, <1>10, <2>1, <2>3
  <2>4. CASE i \notin 1..n /\ j \in 1..n
    BY <1>5, <1>8, <1>10, <2>1, <2>4
  <2>5. CASE i \notin 1..n /\ j \notin 1..n
    <3>1. i - n \in 1..k /\ j - n \in 1..k /\ order[i - n] = order[j - n]
      BY <1>5, <1>10, <2>5
    <3>2. i - n = j - n
      BY <1>0, <3>1
    <3> QED BY <1>2, <3>2
  <2> QED BY <2>2, <2>3, <2>4, <2>5
<1>17. \A i \in 1..Len(stream') \ 1..Len(stream) :
         \E r \in queue' : r.device = stream'[i].to /\ r.pos = i /\ r.message = stream'[i].message
  <2> SUFFICES ASSUME NEW i \in 1..(n + k), i \notin 1..n
               PROVE  \E r \in queue' : /\ r.device = stream'[i].to /\ r.pos = i
                                        /\ r.message = stream'[i].message
    BY <1>8
  <2> DEFINE j == i - n
             r == [device |-> order[j], pos |-> n + j, message |-> m]
  <2>1. j \in 1..k /\ n + j = i /\ stream'[i].to = order[j] /\ stream'[i].message = m
    BY <1>2, <1>3, <1>5, <1>10
  <2> HIDE DEF j
  <2>2. r \in queue'
    BY <1>0, <2>1
  <2>3. r.device = order[j] /\ r.pos = n + j /\ r.message = m
    OBVIOUS
  <2> HIDE DEF r
  <2> QED BY <2>1, <2>2, <2>3
<1> QED BY <1>1, <1>2, <1>9, <1>12, <1>13, <1>14, <1>15, <1>16, <1>17, RoomKept DEF StreamInv, room

-----------------------------------------------------------------------------
(* Clients *)

\* A step of the device d: its client and sync are new, as is what is queued.
DeviceStep(d, client, sync) ==
  /\ clients' = [clients EXCEPT ![d] = client] /\ syncs' = [syncs EXCEPT ![d] = sync]
  /\ log' = log /\ stream' = stream /\ summary' = summary /\ accepted' = accepted
  /\ overtakes' = overtakes

\* A client and a sync that are not ahead.
Behind(client, sync) ==
  /\ client \in Clients /\ client.born <= Len(stream) /\ client.token <= Len(stream)
  /\ client.seen \subseteq 1..Len(log)
  /\ sync \in Syncs /\ sync.upper <= Len(stream) /\ sync.snapshot <= Len(log)
  /\ sync.deltas \subseteq Owed

LEMMA ClientsAreBehind ==
  ASSUME StreamInv, NEW d \in Devices
  PROVE  Behind(clients[d], syncs[d])
BY DEF StreamInv, TypeOK, NobodyIsAhead, Behind

LEMMA NewAreBehind ==
  ASSUME StreamInv, NEW born \in Nat, born <= Len(stream)
  PROVE  /\ NewClient(born) \in Clients /\ NewClient(born).born = born
         /\ NewClient(born).token = 0 /\ NewClient(born).seen = {}
         /\ NoSync \in Syncs /\ NoSync.upper = 0 /\ NoSync.snapshot = 0 /\ NoSync.deltas = {}
         /\ NoSync.collected = FALSE /\ Len(stream) \in Nat /\ Len(log) \in Nat
<1>1. Len(stream) \in Nat /\ Len(log) \in Nat
  BY LenProperties DEF StreamInv, TypeOK
<1>2. 0 \in 0..MaxLog
  BY BoundsAreNat
<1> QED BY <1>1, <1>2 DEF NewClient, NoSync, Clients, Syncs, Buckets

LEMMA NewBehind ==
  ASSUME StreamInv, NEW d \in Devices, NEW born \in Nat, born <= Len(stream)
  PROVE  /\ Behind(NewClient(born), NoSync) /\ Behind(clients[d], NoSync)
         /\ Behind(NewClient(born), syncs[d])
<1>1. Behind(clients[d], syncs[d])
  BY ClientsAreBehind
<1>2. /\ NewClient(born) \in Clients /\ NewClient(born).born <= Len(stream)
      /\ NewClient(born).token <= Len(stream) /\ NewClient(born).seen \subseteq 1..Len(log)
      /\ NoSync \in Syncs /\ NoSync.upper <= Len(stream) /\ NoSync.snapshot <= Len(log)
      /\ NoSync.deltas \subseteq Owed
  <2>1. 0 <= Len(stream) /\ 0 <= Len(log)
    BY NewAreBehind
  <2> QED BY <2>1, NewAreBehind
<1> QED BY <1>1, <1>2 DEF Behind

LEMMA DeviceStepKeeps ==
  ASSUME StreamInv, NEW d \in Devices, NEW client, NEW sync, DeviceStep(d, client, sync),
         Behind(client, sync), devices' \subseteq Devices, queue' \subseteq queue,
         \A r \in queue' : r.device \in devices' /\ (r.device = d => r.pos > client.born)
  PROVE  StreamInv'
<1>1. TypeOK'
  BY DEF StreamInv, TypeOK, DeviceStep, Behind
<1>2. EventsLookBack' /\ Owed' = Owed
  BY RoomKept DEF DeviceStep
<1>3. EntriesAreOwed'
  BY <1>2 DEF StreamInv, EntriesAreOwed, DeviceStep
<1>4. \A e \in Devices : /\ clients'[e] = IF e = d THEN client ELSE clients[e]
                         /\ syncs'[e] = IF e = d THEN sync ELSE syncs[e]
  BY DEF DeviceStep, StreamInv, TypeOK
<1>5. NobodyIsAhead'
  <2>1. ASSUME NEW e \in Devices
        PROVE  /\ clients'[e].born <= Len(stream') /\ clients'[e].token <= Len(stream')
               /\ clients'[e].seen \subseteq 1..Len(log')
               /\ syncs'[e].upper <= Len(stream') /\ syncs'[e].snapshot <= Len(log')
               /\ syncs'[e].deltas \subseteq Owed'
    BY <1>2, <1>4 DEF StreamInv, NobodyIsAhead, DeviceStep, Behind
  <2>2. \A r \in queue' : r.pos \in 1..Len(stream') /\ stream'[r.pos] = DeviceEntry(r.device, r.message)
    BY DEF StreamInv, NobodyIsAhead, DeviceStep
  <2> QED BY <2>1, <2>2 DEF StreamInv, NobodyIsAhead, DeviceStep
<1>6. NothingInherited'
  <2> SUFFICES ASSUME NEW r \in queue' PROVE r.device \in devices' /\ r.pos > clients'[r.device].born
    BY DEF NothingInherited
  <2>1. r.device \in devices' /\ r.device \in Devices
    OBVIOUS
  <2> QED BY <1>4, <2>1 DEF StreamInv, NothingInherited
<1>7. SentOnce'
  BY DEF StreamInv, SentOnce, DeviceStep
<1> QED BY <1>1, <1>2, <1>3, <1>5, <1>6, <1>7 DEF StreamInv

\* How the devices come and go.
LEMMA LoginIs ==
  ASSUME StreamInv, NEW d \in Devices, Login(d)
  PROVE  /\ DeviceStep(d, NewClient(Len(stream)), syncs[d]) /\ queue' = queue
         /\ d \notin devices /\ devices' = devices \cup {d}
BY DEF Login, DeviceStep, room, StreamInv, TypeOK

LEMMA DeleteIs ==
  ASSUME StreamInv, NEW d \in Devices, DeleteDevice(d)
  PROVE  /\ DeviceStep(d, NewClient(0), NoSync) /\ queue' = {r \in queue : r.device # d}
         /\ devices' = devices \ {d}
BY DEF DeleteDevice, DeviceStep, room

LEMMA LoginStep ==
  ASSUME StreamInv, NEW d \in Devices, Login(d)
  PROVE  StreamInv'
<1>1. Len(stream) \in Nat
  BY LenProperties DEF StreamInv, TypeOK
<1>2. Behind(NewClient(Len(stream)), syncs[d])
  BY <1>1, NewBehind
<1>3. \A r \in queue : r.device \in devices
  BY DEF StreamInv, NothingInherited
<1>4. devices \subseteq Devices
  BY DEF StreamInv, TypeOK
<1> QED BY <1>2, <1>3, <1>4, LoginIs, DeviceStepKeeps

LEMMA DeleteStep ==
  ASSUME StreamInv, NEW d \in Devices, DeleteDevice(d)
  PROVE  StreamInv'
<1>1. Len(stream) \in Nat
  BY LenProperties DEF StreamInv, TypeOK
<1>2. Behind(NewClient(0), NoSync)
  BY <1>1, NewBehind
<1>3. \A r \in queue : r.device \in devices
  BY DEF StreamInv, NothingInherited
<1>4. devices \subseteq Devices
  BY DEF StreamInv, TypeOK
<1> QED BY <1>2, <1>3, <1>4, DeleteIs, DeviceStepKeeps

\* A client that starts over keeps its birth and the messages it has.
LEMMA StartOverIs ==
  ASSUME StreamInv, NEW d \in Devices, StartOver(d)
  PROVE  \E client :
           /\ DeviceStep(d, client, NoSync) /\ Behind(client, NoSync)
           /\ client.born = clients[d].born /\ client.token = 0 /\ client.got = clients[d].got
           /\ queue' = queue /\ devices' = devices
<1> DEFINE new == NewClient(clients[d].born)
           got == clients[d].got
           client == [new EXCEPT !.got = got]
<1>1. /\ clients[d].born \in Nat /\ clients[d].born <= Len(stream) /\ got \in SUBSET Messages
  BY ClientsAreBehind DEF Behind, Clients
<1>2. /\ new \in Clients /\ new.born = clients[d].born /\ new.token = 0 /\ new.seen = {}
      /\ Behind(new, NoSync)
  BY <1>1, NewAreBehind, NewBehind
<1>3. /\ clients' = [clients EXCEPT ![d] = client] /\ syncs' = [syncs EXCEPT ![d] = NoSync]
      /\ UNCHANGED <<room, user, overtakes>>
  BY DEF StartOver
<1> HIDE DEF new, got
<1>4. /\ client \in Clients /\ client.born = new.born /\ client.token = new.token
      /\ client.seen = new.seen /\ client.got = got
  BY <1>1, <1>2, Zenon DEF Clients
<1> HIDE DEF client
<1>5. Behind(client, NoSync)
  BY <1>2, <1>4 DEF Behind
<1>6. DeviceStep(d, client, NoSync) /\ queue' = queue /\ devices' = devices
  BY <1>3 DEF DeviceStep, room, user
<1>7. client.born = clients[d].born /\ client.token = 0 /\ client.got = clients[d].got
  BY <1>2, <1>4 DEF got
<1> QED BY <1>5, <1>6, <1>7

LEMMA StartOverStep ==
  ASSUME StreamInv, NEW d \in Devices, StartOver(d)
  PROVE  StreamInv'
<1>1. PICK client :
           /\ DeviceStep(d, client, NoSync) /\ Behind(client, NoSync)
           /\ client.born = clients[d].born
           /\ queue' = queue /\ devices' = devices
  BY StartOverIs
<1>2. \A r \in queue : r.device \in devices /\ (r.device = d => r.pos > clients[d].born)
  BY DEF StreamInv, NothingInherited
<1>3. devices \subseteq Devices
  BY DEF StreamInv, TypeOK
<1> QED BY <1>1, <1>2, <1>3, DeviceStepKeeps

\* A collection: what it collects, and what it deletes.
LEMMA CollectIs ==
  ASSUME StreamInv, NEW d \in Devices, NEW filter \in Filters, CollectSince(d, filter)
  PROVE  \E sync :
           /\ DeviceStep(d, clients[d], sync) /\ Behind(clients[d], sync)
           /\ sync.messages = {r.message : r \in Returned(d, clients[d].token)}
           /\ sync.upper = Len(stream) /\ devices' = devices /\ d \in devices
           /\ queue' = queue \ Acknowledged(d, clients[d].token)
           /\ sync.collected /\ (sync.initial <=> ~clients[d].synced)
           /\ ~sync.initial => sync.snapshot = 0
           /\ ~sync.initial => sync.deltas =
                {stream[i].pos : i \in {j \in (clients[d].token + 1)..Len(stream) :
                                         j <= clients[d].token + PageLimit}} \ {0}
           /\ sync.initial /\ summary.pos > 0 /\ summary.bucket # "leave" =>
                sync.snapshot = summary.pos
<1> DEFINE initial == ~clients[d].synced
           since == clients[d].token
           entries == IF initial THEN {} ELSE {i \in (since + 1)..Len(stream) : i <= since + PageLimit}
           shown == summary.pos > 0 /\ (summary.bucket = "leave" => filter.leave)
           deltas == {stream[i].pos : i \in entries} \ {0}
           snapshot == IF initial /\ shown THEN summary.pos ELSE 0
           messages == {r.message : r \in Returned(d, since)}
           sync == [collected |-> TRUE, initial |-> initial, upper |-> Len(stream),
                    deltas |-> deltas, snapshot |-> snapshot, messages |-> messages,
                    filter |-> filter]
<1>1. /\ syncs' = [syncs EXCEPT ![d] = sync] /\ queue' = queue \ Acknowledged(d, since)
      /\ UNCHANGED <<room, stream, summary, devices, accepted, clients, overtakes>>
  BY DEF CollectSince
<1>2. /\ TypeOK /\ Len(stream) \in Nat /\ Len(log) \in 0..MaxLog
      /\ Owed \subseteq 1..Len(log) /\ 1..Len(log) \subseteq 1..MaxLog
  BY LenProperties, OwedAreEvents DEF StreamInv, TypeOK
<1>3. since \in Nat
  BY <1>2 DEF TypeOK, Clients
<1>4. deltas \subseteq Owed
  <2> SUFFICES ASSUME NEW i \in entries, stream[i].pos # 0 PROVE stream[i].pos \in Owed
    OBVIOUS
  <2>1. i \in 1..Len(stream)
    BY <1>2, <1>3
  <2>2. \A e, m : DeviceEntry(e, m).pos = 0
    BY DEF DeviceEntry
  <2>3. \/ stream[i].pos \in Owed
        \/ stream[i] = DeviceEntry(stream[i].to, stream[i].message)
    BY <2>1 DEF StreamInv, EntriesAreOwed
  <2> QED BY <2>2, <2>3
<1>5. snapshot \in 0..MaxLog /\ snapshot <= Len(log)
  BY <1>2, BoundsAreNat DEF TypeOK, StreamInv, NobodyIsAhead
<1>6. messages \subseteq Messages
  BY <1>2 DEF TypeOK, Returned, EarliestRows, RowsOf
<1>7. initial \in BOOLEAN /\ filter \in [limit : Nat, leave : BOOLEAN]
  BY FiltersAreFilters
<1> HIDE DEF initial, deltas, snapshot, messages
<1>8. /\ sync \in Syncs /\ sync.upper = Len(stream) /\ sync.snapshot = snapshot
      /\ sync.deltas = deltas /\ sync.messages = messages
  <2>1. deltas \in SUBSET (1..MaxLog)
    BY <1>2, <1>4
  <2> QED BY <1>2, <1>5, <1>6, <1>7, <2>1 DEF Syncs
<1>9. sync.collected /\ sync.initial = initial
  OBVIOUS
<1>10. sync.initial <=> ~clients[d].synced
  BY <1>9 DEF initial
<1> HIDE DEF sync
<1>11. ~sync.initial => deltas = {stream[i].pos : i \in {j \in (since + 1)..Len(stream) :
                                                       j <= since + PageLimit}} \ {0}
  BY <1>9 DEF deltas, initial
<1>12. /\ sync.initial /\ summary.pos > 0 /\ summary.bucket # "leave" => snapshot = summary.pos
       /\ ~sync.initial => snapshot = 0
  BY <1>9 DEF snapshot, initial
<1>13. d \in devices
  BY DEF CollectSince
<1>14. Behind(clients[d], sync)
  BY <1>2, <1>4, <1>5, <1>8, ClientsAreBehind DEF Behind
<1>15. DeviceStep(d, clients[d], sync)
  BY <1>1, <1>2 DEF DeviceStep, room, TypeOK
<1> QED BY <1>1, <1>8, <1>9, <1>10, <1>11, <1>12, <1>13, <1>14, <1>15 DEF messages

LEMMA CollectStep ==
  ASSUME StreamInv, NEW d \in Devices, NEW filter \in Filters, CollectSince(d, filter)
  PROVE  StreamInv'
<1>1. PICK sync :
           /\ DeviceStep(d, clients[d], sync) /\ Behind(clients[d], sync)
           /\ devices' = devices /\ queue' \subseteq queue
  BY CollectIs
<1>2. \A r \in queue : r.device \in devices /\ (r.device = d => r.pos > clients[d].born)
  BY DEF StreamInv, NothingInherited
<1>3. devices \subseteq Devices
  BY DEF StreamInv, TypeOK
<1> QED BY <1>1, <1>2, <1>3, DeviceStepKeeps

-----------------------------------------------------------------------------
(* Answers *)

LEMMA CutIsPart ==
  ASSUME NEW events, NEW pinned, NEW limit
  PROVE  Cut(events, pinned, limit) \subseteq events
BY DEF Cut, Latest

\* A projection shows only what there is.
LEMMA ProjectionFits ==
  ASSUME StreamInv, NEW d \in Devices
  PROVE  LET view == Project(syncs[d])
         IN  /\ view.bucket \in Buckets
             /\ view.timeline \subseteq 1..Len(log) /\ view.told \subseteq 1..Len(log)
<1> DEFINE s == syncs[d]
           horizon == IF s.initial THEN s.snapshot
                      ELSE IF Now.bucket = "join" THEN Len(log) ELSE Now.member
           deltas == {log[p] : p \in s.deltas}
           limit == IF s.filter.limit = 0 THEN Backfill ELSE s.filter.limit
           events == IF s.initial THEN Latest(limit, 1..horizon)
                     ELSE (UNION {e.timeline : e \in deltas}) \cap 1..horizon
           pinned == UNION {e.pinned : e \in deltas}
           cut == Cut(events, pinned, s.filter.limit)
           timeline == IF Now.bucket = "invite" THEN {} ELSE cut
           told == IF Now.bucket = "invite" THEN {}
                   ELSE IF s.initial THEN {EventAt(horizon).state} \ {0}
                   ELSE (UNION {e.told : e \in deltas}) \cap 1..horizon
<1>1. /\ TypeOK /\ Len(log) \in 0..MaxLog /\ Now.member \in 0..Len(log) /\ Now.bucket \in Buckets
      /\ s.snapshot \in Nat /\ s.snapshot <= Len(log)
  BY NowIs, ClientsAreBehind DEF StreamInv, Behind, Syncs
<1>2. horizon \in 0..Len(log)
  BY <1>1
<1> HIDE DEF horizon
<1>3. 1..horizon \subseteq 1..Len(log)
  BY <1>1, <1>2
<1>4. events \subseteq 1..horizon
  BY DEF Latest
<1> HIDE DEF events
<1>5. timeline \subseteq 1..Len(log)
  BY <1>3, <1>4, CutIsPart
<1>6. told \subseteq 1..Len(log)
  <2>1. EventAt(horizon).state \in 0..Len(log)
    <3>1. CASE horizon = 0
      BY <1>1, <3>1 DEF EventAt, NoEvent
    <3>2. CASE horizon # 0
      <4>1. horizon \in 1..Len(log) /\ EventAt(horizon) = log[horizon]
        BY <1>2, <3>2 DEF EventAt
      <4>2. log[horizon].state \in 0..horizon
        BY <4>1 DEF StreamInv, EventsLookBack
      <4> QED BY <1>1, <1>2, <4>1, <4>2
    <3> QED BY <3>1, <3>2
  <2> QED BY <1>1, <1>3, <2>1
<1> HIDE DEF timeline, told
<1>7. Project(s).bucket = Now.bucket /\ Project(s).timeline = timeline /\ Project(s).told = told
  BY DEF Project, timeline, told, events, horizon
<1> QED BY <1>1, <1>5, <1>6, <1>7

\* What a client shows of a room it was given a view of.
Shows(client, view) ==
  /\ client.bucket = view.bucket /\ view.timeline \subseteq client.seen
  /\ view.limited /\ view.timeline # {} => Min(view.timeline) <= client.floor
  /\ \A p \in view.told : p <= client.state

\* A client forgets nothing of what it has seen.
Remembers(old, client) == old.seen \subseteq client.seen /\ old.floor <= client.floor

\* What a client learns of the room changes neither its token nor its messages.
LEMMA Learnt ==
  ASSUME StreamInv, NEW client \in Clients, NEW view, view.bucket \in Buckets,
         view.timeline \subseteq 1..Len(log), view.told \subseteq 1..Len(log)
  PROVE  LET c == Learn(client, view)
         IN  /\ c \in Clients /\ c.born = client.born /\ c.token = client.token
             /\ c.got = client.got /\ c.seen = client.seen \cup view.timeline
             /\ c.synced = client.synced /\ Shows(c, view) /\ Remembers(client, c)
<1> DEFINE told == view.told \cup {p \in view.timeline : log[p].kind = "state"}
           seen == client.seen \cup view.timeline
           floor == IF view.limited /\ view.timeline # {}
                    THEN Max({client.floor, Min(view.timeline)}) ELSE client.floor
           state == IF told = {} THEN client.state ELSE Max(told)
           bucket == view.bucket
<1>1. Len(log) \in 0..MaxLog /\ 1..Len(log) \subseteq 1..MaxLog /\ MaxLog \in Nat
  BY OwedAreEvents, BoundsAreNat DEF StreamInv
<1>2. seen \in SUBSET (1..MaxLog) /\ client.floor \in 0..MaxLog /\ client.state \in 0..MaxLog
  BY <1>1 DEF Clients
<1>3. /\ floor \in 0..MaxLog /\ client.floor <= floor
      /\ view.limited /\ view.timeline # {} => Min(view.timeline) <= floor
  <2>1. CASE view.timeline # {}
    <3>1. Min(view.timeline) \in view.timeline
      BY <2>1, MinIsLeast
    <3> DEFINE S == {client.floor, Min(view.timeline)}
    <3>2. S \in SUBSET (0..MaxLog) /\ S # {}
      BY <1>1, <1>2, <3>1
    <3>3. Max(S) \in S /\ \A x \in S : Max(S) >= x
      BY <1>1, <3>2, MaxIsLargest
    <3>4. /\ Max(S) \in 0..MaxLog /\ client.floor <= Max(S)
          /\ Min(view.timeline) <= Max(S)
      <4>1. client.floor \in S /\ Min(view.timeline) \in S
        OBVIOUS
      <4> HIDE DEF S
      <4>2. \A x \in S : x \in Nat
        BY <1>1, <3>2
      <4> QED BY <3>2, <3>3, <4>1, <4>2
    <3> QED BY <1>2, <3>4
  <2>2. CASE view.timeline = {}
    BY <1>2, <2>2
  <2> QED BY <2>1, <2>2
<1>4. state \in 0..MaxLog /\ \A p \in view.told : p <= state
  <2>1. told \in SUBSET (0..MaxLog) /\ view.told \subseteq told
    BY <1>1
  <2> HIDE DEF told
  <2>2. told # {} => Max(told) \in told /\ \A x \in told : Max(told) >= x
    BY <1>1, <2>1, MaxIsLargest
  <2>3. CASE told # {}
    <3>1. Max(told) \in 0..MaxLog /\ \A x \in told : x \in Nat
      BY <2>1, <2>2, <2>3
    <3>2. \A x \in told : x <= Max(told)
      BY <2>2, <2>3, <3>1
    <3> QED BY <2>1, <2>3, <3>1, <3>2
  <2>4. CASE told = {}
    BY <1>2, <2>1, <2>4
  <2> QED BY <2>3, <2>4
<1>5. Learn(client, view) = [client EXCEPT !.bucket = bucket, !.seen = seen, !.floor = floor,
                                           !.state = state]
  BY Zenon DEF Learn
<1>6. bucket \in Buckets
  OBVIOUS
<1> HIDE DEF bucket, seen, floor, state
<1> DEFINE c == [client EXCEPT !.bucket = bucket, !.seen = seen, !.floor = floor, !.state = state]
<1>7. /\ c \in Clients /\ c.born = client.born /\ c.token = client.token
      /\ c.got = client.got /\ c.seen = seen
  BY <1>2, <1>3, <1>4, <1>6, Zenon DEF Clients
<1>8. /\ c.synced = client.synced /\ c.bucket = bucket /\ c.floor = floor
      /\ c.state = state
  BY <1>2, <1>3, <1>4, <1>6, Zenon DEF Clients
<1> HIDE DEF c
<1>9. Learn(client, view) = c
  BY <1>5 DEF c
<1>10. bucket = view.bucket /\ client.seen \subseteq seen /\ view.timeline \subseteq seen
  BY DEF bucket, seen
<1>11. Shows(c, view) /\ Remembers(client, c)
  BY <1>3, <1>4, <1>7, <1>8, <1>10 DEF Shows, Remembers
<1> QED BY <1>7, <1>8, <1>9, <1>11 DEF seen

\* An answer arrives: the token moves to where the collection ended, and the
\* client has the messages it brought.
LEMMA AnswerIs ==
  ASSUME StreamInv, NEW d \in Devices, Answer(d)
  PROVE  /\ syncs[d].collected /\ queue' = queue /\ devices' = devices
         /\ \E client :
              /\ DeviceStep(d, client, NoSync) /\ Behind(client, NoSync)
              /\ client.born = clients[d].born /\ client.token = syncs[d].upper
              /\ client.got = clients[d].got \cup syncs[d].messages
              /\ client.synced /\ Remembers(clients[d], client)
              /\ IF InAnswer(syncs[d]) THEN Shows(client, Project(syncs[d]))
                 ELSE client.bucket = clients[d].bucket /\ client.state = clients[d].state
<1> DEFINE s == syncs[d]
           c == clients[d]
           upper == s.upper
           got == c.got \cup s.messages
           informed == [c EXCEPT !.synced = TRUE, !.token = upper, !.got = got]
           client == IF InAnswer(s) THEN Learn(informed, Project(s)) ELSE informed
<1>1. /\ s.collected /\ syncs' = [syncs EXCEPT ![d] = NoSync]
      /\ UNCHANGED <<room, user, overtakes>>
      /\ clients' = [clients EXCEPT ![d] = client]
  BY DEF Answer
<1>2. /\ c \in Clients /\ s \in Syncs /\ c.born <= Len(stream) /\ upper <= Len(stream)
      /\ c.seen \subseteq 1..Len(log)
  BY ClientsAreBehind DEF Behind
<1>3. upper \in Nat /\ got \in SUBSET Messages
  BY <1>2 DEF Clients, Syncs
<1> HIDE DEF upper, got
<1>4. /\ informed \in Clients /\ informed.born = c.born /\ informed.token = upper
      /\ informed.got = got /\ informed.seen = c.seen
  BY <1>2, <1>3, Zenon DEF Clients
<1>5. /\ informed.synced = TRUE /\ informed.bucket = c.bucket /\ informed.floor = c.floor
      /\ informed.state = c.state
  BY <1>2, <1>3, Zenon DEF Clients
<1> HIDE DEF informed
<1>6. /\ Project(s).bucket \in Buckets /\ Project(s).timeline \subseteq 1..Len(log)
      /\ Project(s).told \subseteq 1..Len(log)
  BY ProjectionFits
<1>7. /\ client \in Clients /\ client.born = c.born /\ client.token = upper /\ client.got = got
      /\ client.seen \subseteq 1..Len(log)
  BY <1>2, <1>4, <1>6, Learnt
<1>8. client.synced /\ Remembers(c, client)
  <2>1. Remembers(informed, informed) /\ (Remembers(informed, client) => Remembers(c, client))
    <3>1. informed.floor <= informed.floor
      BY <1>4, BoundsAreNat DEF Clients
    <3> HIDE DEF client
    <3> QED BY <1>4, <1>5, <3>1 DEF Remembers
  <2>2. Remembers(informed, client) /\ client.synced = informed.synced
    BY <1>4, <1>6, <2>1, Learnt
  <2> HIDE DEF client
  <2> QED BY <1>5, <2>1, <2>2
<1>9. InAnswer(s) => Shows(client, Project(s))
  BY <1>4, <1>6, Learnt
<1>10. ~InAnswer(s) => client.bucket = c.bucket /\ client.state = c.state
  BY <1>5
<1> HIDE DEF client
<1>11. Behind(c, NoSync)
  <2>1. c.born \in Nat
    BY <1>2 DEF Clients
  <2> QED BY <1>2, <2>1, NewBehind
<1>12. Behind(client, NoSync)
  BY <1>2, <1>7, <1>11 DEF Behind, upper
<1>13. DeviceStep(d, client, NoSync) /\ queue' = queue /\ devices' = devices
  BY <1>1 DEF DeviceStep, room, user
<1> QED BY <1>1, <1>7, <1>8, <1>9, <1>10, <1>12, <1>13 DEF upper, got

LEMMA LostIs ==
  ASSUME StreamInv, NEW d \in Devices, AnswerLost(d)
  PROVE  /\ DeviceStep(d, clients[d], NoSync) /\ Behind(clients[d], NoSync)
         /\ queue' = queue /\ devices' = devices
<1>1. clients' = [clients EXCEPT ![d] = clients[d]]
  BY DEF AnswerLost, StreamInv, TypeOK
<1>2. Behind(clients[d], NoSync)
  <2>1. clients[d].born \in Nat /\ clients[d].born <= Len(stream)
    BY ClientsAreBehind DEF Behind, Clients
  <2> QED BY <2>1, NewBehind
<1> QED BY <1>1, <1>2 DEF AnswerLost, DeviceStep, room, user

LEMMA AnswerStep ==
  ASSUME StreamInv, NEW d \in Devices, Answer(d) \/ AnswerLost(d)
  PROVE  StreamInv'
<1>1. \A r \in queue : r.device \in devices /\ (r.device = d => r.pos > clients[d].born)
  BY DEF StreamInv, NothingInherited
<1>2. devices \subseteq Devices
  BY DEF StreamInv, TypeOK
<1>3. CASE Answer(d)
  <2>1. PICK client : /\ DeviceStep(d, client, NoSync) /\ Behind(client, NoSync)
                      /\ client.born = clients[d].born
    BY <1>3, AnswerIs
  <2>2. queue' = queue /\ devices' = devices
    BY <1>3, AnswerIs
  <2> QED BY <1>1, <1>2, <2>1, <2>2, DeviceStepKeeps
<1>4. CASE AnswerLost(d)
  BY <1>1, <1>2, <1>4, LostIs, DeviceStepKeeps
<1> QED BY <1>3, <1>4

-----------------------------------------------------------------------------
(* The invariant *)

LEMMA InitStream == Init => StreamInv
<1> SUFFICES ASSUME Init PROVE StreamInv
  OBVIOUS
<1>1. Len(log) = 0 /\ Len(stream) = 0 /\ log \in Seq(Events) /\ stream \in Seq(Entries)
  BY DEF Init
<1>2. /\ NewClient(0) \in Clients /\ NewClient(0).born = 0 /\ NewClient(0).token = 0
      /\ NewClient(0).seen = {} /\ NoSync \in Syncs /\ NoSync.upper = 0
      /\ NoSync.snapshot = 0 /\ NoSync.deltas = {}
  BY BoundsAreNat DEF NewClient, NoSync, Clients, Syncs, Buckets
<1>3. TypeOK
  BY <1>1, <1>2, BoundsAreNat DEF Init, TypeOK, Buckets
<1>4. EventsLookBack /\ EntriesAreOwed /\ SentOnce
  BY <1>1 DEF EventsLookBack, EntriesAreOwed, SentOnce
<1>5. NobodyIsAhead /\ NothingInherited
  BY <1>1, <1>2 DEF Init, NobodyIsAhead, NothingInherited
<1> QED BY <1>3, <1>4, <1>5 DEF StreamInv

LEMMA StreamStutter == StreamInv /\ UNCHANGED vars => StreamInv'
<1> SUFFICES ASSUME StreamInv, UNCHANGED vars PROVE StreamInv'
  OBVIOUS
<1>1. TypeOK' /\ EventsLookBack' /\ Owed' = Owed
  BY RoomKept DEF StreamInv, TypeOK, vars, room, user
<1>2. EntriesAreOwed' /\ NobodyIsAhead'
  BY <1>1 DEF StreamInv, EntriesAreOwed, NobodyIsAhead, vars, room, user
<1>3. NothingInherited' /\ SentOnce'
  BY DEF StreamInv, NothingInherited, SentOnce, vars, user
<1> QED BY <1>1, <1>2, <1>3 DEF StreamInv

LEMMA StreamNext == StreamInv /\ [Next]_vars => StreamInv'
<1> SUFFICES ASSUME StreamInv, [Next]_vars PROVE StreamInv'
  OBVIOUS
<1>1. CASE UNCHANGED vars
  BY <1>1, StreamStutter
<1>2. ASSUME NEW kind \in Kinds, Commit(kind) PROVE StreamInv'
  BY <1>2, CommitStep
<1>3. ASSUME NEW p \in 1..MaxLog, AppendRoomFanout(p) PROVE StreamInv'
  BY <1>3, AppendStep
<1>4. ASSUME NEW m \in Messages, NEW target \in Devices \cup {Everyone},
             EnqueueToDevice(m, target)
      PROVE  StreamInv'
  BY <1>4, EnqueueStep
<1>5. ASSUME NEW d \in Devices, Login(d) \/ DeleteDevice(d) \/ StartOver(d) PROVE StreamInv'
  BY <1>5, LoginStep, DeleteStep, StartOverStep
<1>6. ASSUME NEW d \in Devices, Collect(d) PROVE StreamInv'
  BY <1>6, CollectStep DEF Collect
<1>7. ASSUME NEW d \in Devices, Answer(d) \/ AnswerLost(d) PROVE StreamInv'
  BY <1>7, AnswerStep
<1> QED BY <1>1, <1>2, <1>3, <1>4, <1>5, <1>6, <1>7 DEF Next

-----------------------------------------------------------------------------
(* Ends of sets *)

\* The set E holds the last of the numbers of S, at least one if there are any.
IsEndOf(E, S) ==
  /\ E \subseteq S
  /\ S # {} => E # {}
  /\ \A p \in S : p \in E \/ \A q \in E : p < q

\* What a limit leaves of a set is its end, and smaller if it is not all of it.
LEMMA LatestIsEnd ==
  ASSUME NEW m \in Nat, NEW S \in SUBSET (0..m), NEW n \in Nat \ {0}
  PROVE  IsEndOf(Latest(n, S), S)
<1> DEFINE After(p) == {q \in S : q > p}
<1>1. IsFiniteSet(S) /\ \A p \in S : p \in Nat
  <2>1. IsFiniteSet(0..m)
    BY FS_Interval
  <2>2. IsFiniteSet(S)
    BY <2>1, FS_Subset
  <2> QED BY <2>2
<1>2. \A p : IsFiniteSet(After(p)) /\ Cardinality(After(p)) \in Nat
  BY <1>1, FS_Subset, FS_CardinalityType
<1>3. ASSUME S # {} PROVE Latest(n, S) # {}
  <2>1. PICK last \in S : \A q \in S : last >= q
    BY <1>3, MaxIsLargest
  <2>2. After(last) = {}
    <3>1. \A q \in S : q \in Nat /\ last \in Nat /\ last >= q
      BY <1>1, <2>1
    <3>2. \A q \in S : ~(q > last)
      BY <3>1
    <3> QED BY <3>2
  <2>3. Cardinality(After(last)) < n
    BY <2>2, FS_EmptySet
  <2> QED BY <2>1, <2>3 DEF Latest
<1>4. ASSUME NEW p \in S, NEW q \in Latest(n, S), ~(p < q) PROVE p \in Latest(n, S)
  <2>1. q \in S /\ Cardinality(After(q)) < n
    BY DEF Latest
  <2>2. After(p) \subseteq After(q)
    <3>1. p \in Nat /\ q \in Nat
      BY <1>1, <2>1
    <3>2. \A x \in S : x > p => x > q
      BY <1>1, <1>4, <3>1
    <3> QED BY <3>2
  <2> HIDE DEF After
  <2>3. Cardinality(After(p)) <= Cardinality(After(q))
    BY <1>2, <2>2, FS_Subset
  <2>4. Cardinality(After(p)) < n
    BY <1>2, <2>1, <2>3
  <2> QED BY <2>4 DEF Latest, After
<1>5. Latest(n, S) \subseteq S
  BY DEF Latest
<1> QED BY <1>3, <1>4, <1>5 DEF IsEndOf

\* An answer's cut is an end of the events, whatever is pinned.
LEMMA CutIsEnd ==
  ASSUME NEW m \in Nat, NEW events \in SUBSET (0..m), NEW pinned, NEW limit \in Nat
  PROVE  IsEndOf(Cut(events, pinned, limit), events)
<1> DEFINE tail == IF limit = 0 THEN events ELSE Latest(limit, events)
           missed == (pinned \cap events) \ tail
<1>1. IsEndOf(tail, events)
  <2>1. CASE limit = 0
    BY <2>1 DEF IsEndOf
  <2>2. CASE limit # 0
    BY <2>2, LatestIsEnd
  <2> QED BY <2>1, <2>2
<1>2. Cut(events, pinned, limit) =
        IF missed = {} THEN tail ELSE {p \in events : p >= Min(missed)}
  BY DEF Cut
<1> HIDE DEF tail
<1>3. CASE missed = {}
  BY <1>1, <1>2, <1>3
<1>4. CASE missed # {}
  <2>1. Min(missed) \in missed
    <3>1. missed \in SUBSET Nat
      <4>1. missed \subseteq events /\ events \subseteq Nat
        OBVIOUS
      <4> HIDE DEF missed
      <4> QED BY <4>1
    <3> HIDE DEF missed
    <3> QED BY <1>4, <3>1, MinIsLeast
  <2>2. Min(missed) \in events
    BY <2>1
  <2> HIDE DEF missed
  <2>3. PICK first \in events : Cut(events, pinned, limit) = {p \in events : p >= first}
    BY <1>2, <1>4, <2>2
  <2>4. \A p \in events : p \in Nat
    OBVIOUS
  <2>5. first \in Nat /\ first >= first
    BY <2>3, <2>4
  <2>6. first \in Cut(events, pinned, limit)
    BY <2>3, <2>5
  <2>7. ASSUME NEW p \in events, NEW q \in Cut(events, pinned, limit),
               p \notin Cut(events, pinned, limit)
        PROVE  p < q
    <3>1. ~(p >= first) /\ q \in events /\ q >= first
      BY <2>3, <2>7
    <3>2. p \in Nat /\ q \in Nat
      BY <2>4, <3>1
    <3> QED BY <2>5, <3>1, <3>2
  <2>8. Cut(events, pinned, limit) \subseteq events
    BY <2>3
  <2> QED BY <2>6, <2>7, <2>8 DEF IsEndOf
<1> QED BY <1>3, <1>4

\* The end of an end is an end.
LEMMA EndOfEnd ==
  ASSUME NEW S \in SUBSET Nat, NEW E, NEW F, IsEndOf(E, S), IsEndOf(F, E)
  PROVE  IsEndOf(F, S)
BY DEF IsEndOf

\* An end that is not the whole has fewer elements.
LEMMA EndIsSmaller ==
  ASSUME NEW m \in Nat, NEW S \in SUBSET (0..m), NEW E \in SUBSET S, E # S
  PROVE  /\ Cardinality(E) < Cardinality(S)
         /\ Cardinality(E) \in Nat /\ Cardinality(S) \in Nat
<1>1. IsFiniteSet(S)
  <2>1. IsFiniteSet(0..m)
    BY FS_Interval
  <2> QED BY <2>1, FS_Subset
<1>2. /\ Cardinality(E) <= Cardinality(S) /\ Cardinality(E) # Cardinality(S)
      /\ IsFiniteSet(E)
  BY <1>1, FS_Subset
<1>3. Cardinality(E) \in Nat /\ Cardinality(S) \in Nat
  BY <1>1, <1>2, FS_CardinalityType
<1> QED BY <1>2, <1>3

-----------------------------------------------------------------------------
(* The log *)

\* What an entry of the stream tells is an event.
LEMMA EntryTells ==
  ASSUME StreamInv, NEW i \in 1..Len(stream)
  PROVE  /\ stream[i].pos \in 0..Len(log) /\ Len(log) \in Nat
         /\ stream[i].pos # 0 => stream[i].pos \in Owed /\ stream[i].pos \in 1..Len(log)
<1>1. Owed \subseteq 1..Len(log) /\ Len(log) \in Nat
  BY OwedAreEvents DEF StreamInv
<1>2. \A e, m : DeviceEntry(e, m).pos = 0
  BY DEF DeviceEntry
<1>3. \/ stream[i].pos \in Owed
      \/ stream[i] = DeviceEntry(stream[i].to, stream[i].message)
  BY DEF StreamInv, EntriesAreOwed
<1>4. stream[i].pos # 0 => stream[i].pos \in Owed
  BY <1>2, <1>3
<1>5. stream[i].pos # 0 => stream[i].pos \in 1..Len(log)
  BY <1>1, <1>4
<1> QED BY <1>1, <1>4, <1>5

\* The fields of the next event that its delta is made of.
LEMMA NewEventTells ==
  ASSUME StreamInv, NEW kind \in Kinds
  PROVE  LET p == Len(log) + 1
             e == NewEvent(kind)
         IN  /\ e.kind = kind
             /\ kind \in MembershipKinds => e.bucket = kind /\ e.member = p
             /\ kind = "state" => /\ e.bucket = Now.bucket /\ e.member = Now.member
                                  /\ e.state = p
             /\ kind \in {"join", "state"} => p \in e.timeline /\ e.state \in e.told \cup {0}
             /\ kind # "join" => e.timeline \subseteq {p}
             /\ kind = "join" /\ History = "shared" =>
                  \A q \in 1..p : q \in e.timeline \/ (e.limited /\ \A r \in e.timeline : q < r)
<1> DEFINE p == Len(log) + 1
           own == kind \in MembershipKinds
           enters == kind = "join"
           state == IF kind = "state" THEN p ELSE Now.state
           history == HistoryStart(p)..p
           recent == IF enters THEN Latest(Backfill, history) ELSE {p}
           bucket == IF own THEN kind ELSE Now.bucket
           member == IF own THEN p ELSE Now.member
           timeline == IF kind = "invite" THEN {} ELSE recent
           pinned == IF enters THEN {p} ELSE {}
           limited == enters /\ Cardinality(history) > Cardinality(recent)
           told == StateOf(kind, state)
           e == [kind |-> kind, bucket |-> bucket, member |-> member, state |-> state,
                 timeline |-> timeline, pinned |-> pinned, limited |-> limited, told |-> told]
<1>1. NewEvent(kind) = e
  BY DEF NewEvent
<1>2. /\ Len(log) \in Nat /\ p \in Nat /\ Now.bucket \in Buckets /\ Now.member \in 0..Len(log)
      /\ Now.bucket = "none" <=> Now.member = 0
  BY NowIs DEF StreamInv
<1>3. HistoryStart(p) \in 1..p
  <2>1. CASE Now.bucket = "invite"
    BY <1>2, <2>1, HistoryIsKnown DEF HistoryStart, Buckets
  <2>2. CASE Now.bucket # "invite"
    BY <1>2, <2>2, HistoryIsKnown DEF HistoryStart
  <2> QED BY <2>1, <2>2
<1>4. history \in SUBSET (0..p) /\ p \in history /\ Backfill \in Nat \ {0}
  BY <1>2, <1>3, LimitsArePositive
<1>5. IsEndOf(Latest(Backfill, history), history)
  <2> HIDE DEF history
  <2> QED BY <1>2, <1>4, LatestIsEnd
<1>6. p \in Latest(Backfill, history)
  <2>1. {q \in history : q > p} = {}
    BY <1>2, <1>3
  <2>2. Cardinality({q \in history : q > p}) < Backfill
    <3>1. Cardinality({q \in history : q > p}) = 0
      BY <2>1, FS_EmptySet
    <3> QED BY <1>4, <3>1
  <2> QED BY <1>4, <2>2 DEF Latest
<1>7. p \in recent /\ (kind # "join" => recent = {p})
  BY <1>6
<1>8. kind # "invite" => p \in timeline
  BY <1>7
<1>9. kind # "join" => timeline \subseteq {p}
  BY <1>7
<1>10. kind \in {"join", "state"} => state \in told \cup {0}
  BY DEF StateOf
<1>11. ASSUME kind = "join", History = "shared", NEW q \in 1..p, q \notin timeline
       PROVE  limited /\ \A r \in timeline : q < r
  <2>1. HistoryStart(p) = 1
    BY <1>11 DEF HistoryStart
  <2>2. timeline = Latest(Backfill, history) /\ recent = timeline /\ q \in history
    BY <1>11, <2>1
  <2>3. timeline \in SUBSET history /\ timeline # history
    BY <1>5, <1>11, <2>2 DEF IsEndOf
  <2>4. \A r \in timeline : q < r
    BY <1>5, <1>11, <2>2 DEF IsEndOf
  <2> HIDE DEF history, timeline, recent
  <2>5. Cardinality(timeline) < Cardinality(history)
        /\ Cardinality(timeline) \in Nat /\ Cardinality(history) \in Nat
    <3>1. p \in Nat /\ history \in SUBSET (0..p)
      BY <1>2, <1>4
    <3> HIDE DEF p
    <3> QED BY <2>3, <3>1, EndIsSmaller
  <2>6. limited
    BY <1>11, <2>2, <2>5
  <2> QED BY <2>4, <2>6
<1> HIDE DEF timeline, limited, told, recent, history
<1>12. /\ e.kind = kind /\ e.bucket = bucket /\ e.member = member /\ e.state = state
       /\ e.timeline = timeline /\ e.limited = limited /\ e.told = told
  OBVIOUS
<1>13. "state" \notin MembershipKinds
  BY DEF MembershipKinds
<1> HIDE DEF e
<1> QED BY <1>1, <1>8, <1>9, <1>10, <1>11, <1>12, <1>13

\* The log as it was, with one event more.
LEMMA LogGrows ==
  ASSUME StreamInv, NEW kind \in Kinds, Commit(kind)
  PROVE  /\ Len(log) \in Nat /\ Len(log') = Len(log) + 1
         /\ log'[Len(log) + 1] = NewEvent(kind)
         /\ \A p \in 1..Len(log) : log'[p] = log[p]
         /\ UNCHANGED <<stream, summary, devices, syncs, clients, overtakes>>
<1> DEFINE e == NewEvent(kind)
<1>1. /\ Len(log) < MaxLog /\ log' = Append(log, e)
      /\ UNCHANGED <<stream, summary, devices, syncs, clients, overtakes>>
  BY DEF Commit, user
<1>2. log \in Seq(Events) /\ Len(log) \in Nat
  BY LenProperties DEF StreamInv, TypeOK
<1>3. e \in Events
  BY <1>1, CommittedEvent DEF StreamInv
<1> HIDE DEF e
<1>4. /\ Len(log') = Len(log) + 1 /\ log'[Len(log) + 1] = e
      /\ \A p \in 1..Len(log) : log'[p] = log[p]
  BY <1>1, <1>2, <1>3, AppendProperties
<1> QED BY <1>1, <1>2, <1>4 DEF e

LEMMA CommitWalks ==
  ASSUME StreamInv, RoomWalks, NEW kind \in Kinds, Commit(kind)
  PROVE  RoomWalks'
<1> DEFINE n == Len(log)
           e == NewEvent(kind)
<1>1. /\ n \in Nat /\ Len(log') = n + 1 /\ log'[n + 1] = e
      /\ \A p \in 1..n : log'[p] = log[p]
  BY LogGrows
<1>2. /\ e.kind = kind
      /\ kind \in MembershipKinds => e.bucket = kind /\ e.member = n + 1
      /\ kind = "state" => e.bucket = Now.bucket /\ e.member = Now.member
  BY NewEventTells
<1>3. /\ kind \in MembershipKinds \/ kind = "state"
      /\ "state" \notin MembershipKinds
  BY DEF Kinds, MembershipKinds
<1>4. Now.member \in 0..n
  BY NowIs DEF StreamInv
<1> HIDE DEF e
<1>5. ASSUME NEW p \in 1..(n + 1)
      PROVE  /\ log'[p].kind \in MembershipKinds <=> log'[p].member = p
             /\ log'[p].member = p => log'[p].bucket = log'[p].kind
             /\ \A q \in 1..p : log'[p].member <= q =>
                  log'[q].member = log'[p].member /\ log'[q].bucket = log'[p].bucket
  <2>1. CASE p \in 1..n
    <3>1. log'[p] = log[p] /\ \A q \in 1..p : log'[q] = log[q]
      BY <1>1, <2>1
    <3> QED BY <2>1, <3>1 DEF RoomWalks
  <2>2. CASE p = n + 1 /\ kind \in MembershipKinds
    BY <1>1, <1>2, <2>2
  <2>3. CASE p = n + 1 /\ kind = "state"
    <3>1. /\ log'[p].kind = "state" /\ log'[p].member = Now.member
          /\ log'[p].bucket = Now.bucket /\ Now.member # p
      BY <1>1, <1>2, <1>4, <2>3
    <3>2. ASSUME NEW q \in 1..p, Now.member <= q
          PROVE  log'[q].member = Now.member /\ log'[q].bucket = Now.bucket
      <4>1. CASE q = p
        BY <3>1, <4>1
      <4>2. CASE q \in 1..n
        <5>1. n \in 1..n /\ Now = log[n] /\ log'[q] = log[q]
          BY <1>1, <4>2 DEF Now, EventAt
        <5> QED BY <3>2, <4>2, <5>1 DEF RoomWalks
      <4> QED BY <1>1, <2>3, <4>1, <4>2
    <3> QED BY <1>3, <3>1, <3>2
  <2> QED BY <1>1, <1>3, <2>1, <2>2, <2>3
<1> QED BY <1>1, <1>5 DEF RoomWalks

LEMMA CommitTells ==
  ASSUME StreamInv, DeltasTell, NEW kind \in Kinds, Commit(kind)
  PROVE  DeltasTell'
<1> DEFINE n == Len(log)
           e == NewEvent(kind)
<1>1. /\ n \in Nat /\ Len(log') = n + 1 /\ log'[n + 1] = e
      /\ \A p \in 1..n : log'[p] = log[p]
  BY LogGrows
<1>2. /\ e.kind = kind
      /\ kind \in {"join", "state"} => n + 1 \in e.timeline /\ e.state \in e.told \cup {0}
      /\ kind # "join" => e.timeline \subseteq {n + 1}
      /\ kind = "join" /\ History = "shared" =>
           \A q \in 1..(n + 1) : q \in e.timeline \/ (e.limited /\ \A r \in e.timeline : q < r)
  BY NewEventTells
<1> HIDE DEF e
<1>3. ASSUME NEW p \in 1..(n + 1)
      PROVE  /\ log'[p].kind \in {"join", "state"} =>
                  p \in log'[p].timeline /\ log'[p].state \in log'[p].told \cup {0}
             /\ log'[p].kind # "join" => log'[p].timeline \subseteq {p}
             /\ log'[p].kind = "join" /\ History = "shared" =>
                  \A q \in 1..p : \/ q \in log'[p].timeline
                                  \/ log'[p].limited /\ \A r \in log'[p].timeline : q < r
  <2>1. CASE p \in 1..n
    <3>1. log'[p] = log[p]
      BY <1>1, <2>1
    <3> QED BY <2>1, <3>1 DEF DeltasTell
  <2>2. CASE p = n + 1
    BY <1>1, <1>2, <2>2
  <2> QED BY <1>1, <2>1, <2>2
<1> QED BY <1>1, <1>3 DEF DeltasTell

\* A commit tells nobody anything yet.
LEMMA CommitOrders ==
  ASSUME StreamInv, ToldInOrder, NEW kind \in Kinds, Commit(kind)
  PROVE  ToldInOrder'
<1> DEFINE n == Len(log)
<1>1. /\ n \in Nat /\ Len(log') = n + 1 /\ stream' = stream /\ overtakes' = overtakes
      /\ \A p \in 1..n : log'[p] = log[p]
  BY LogGrows
<1>2. Told' = Told
  BY <1>1 DEF Told
<1>3. ASSUME NEW p \in Told, NEW q \in Owed', q < p PROVE q \in Owed
  <2>1. p \in 0..n
    BY EntryTells DEF Told
  <2>2. q \in 1..(n + 1) /\ (log'[q].bucket = "join" \/ log'[q].member = q)
    BY <1>1 DEF Owed
  <2>3. q \in 1..n
    BY <1>1, <1>3, <2>1, <2>2
  <2> QED BY <1>1, <2>2, <2>3 DEF Owed
<1> QED BY <1>1, <1>2, <1>3 DEF ToldInOrder

LEMMA CommitFollows ==
  ASSUME StreamInv, SummaryIsLast, SyncsFollow, NEW kind \in Kinds, Commit(kind)
  PROVE  SummaryIsLast' /\ SyncsFollow'
<1>1. /\ \A p \in 1..Len(log) : log'[p] = log[p]
      /\ stream' = stream /\ summary' = summary /\ devices' = devices /\ syncs' = syncs
      /\ clients' = clients
  BY LogGrows
<1>2. \A i \in 1..Len(stream) : stream[i].pos # 0 => log'[stream[i].pos] = log[stream[i].pos]
  BY <1>1, EntryTells
<1>3. \A i, n : IsLastTold(i, n)' <=> IsLastTold(i, n)
  BY <1>1 DEF IsLastTold
<1>4. SummaryIsLast'
  BY <1>1, <1>2, <1>3 DEF SummaryIsLast, IsLastTold
<1>5. ASSUME NEW d \in Devices, syncs[d].collected, Follows(clients[d], syncs[d])
      PROVE  Follows(clients[d], syncs[d])'
  <2>1. syncs[d].upper \in Nat /\ syncs[d].upper <= Len(stream) /\ Len(stream) \in Nat
    BY ClientsAreBehind, LenProperties DEF Behind, Syncs, StreamInv, TypeOK
  <2>2. \A i \in 1..syncs[d].upper : i \in 1..Len(stream)
    BY <2>1
  <2> QED BY <1>1, <1>2, <1>3, <1>5, <2>2 DEF Follows, IsLastTold
<1>6. SyncsFollow'
  BY <1>1, <1>5 DEF SyncsFollow
<1> QED BY <1>4, <1>6

\* When the stream grows, the syncs under way still follow their clients.
LEMMA GrowsFollows ==
  ASSUME StreamInv, SyncsFollow, Grows, log' = log, devices' = devices, syncs' = syncs,
         clients' = clients
  PROVE  SyncsFollow'
<1>1. ASSUME NEW d \in Devices, syncs[d].collected, Follows(clients[d], syncs[d])
      PROVE  Follows(clients[d], syncs[d])'
  <2> DEFINE c == clients[d]
             s == syncs[d]
             page == {j \in (c.token + 1)..s.upper : j <= c.token + PageLimit}
  <2>1. /\ s.upper \in Nat /\ s.upper <= Len(stream) /\ Len(stream) \in Nat
        /\ c.token \in Nat
    BY ClientsAreBehind, LenProperties DEF Behind, Syncs, Clients, StreamInv, TypeOK
  <2>2. \A i \in 1..s.upper : i \in 1..Len(stream) /\ stream'[i] = stream[i]
    BY <2>1 DEF Grows
  <2>3. \A i \in page : stream'[i] = stream[i]
    <3>1. page \subseteq 1..s.upper
      BY <2>1
    <3> QED BY <2>2, <3>1
  <2>4. \A i : IsLastTold(i, s.upper)' <=> IsLastTold(i, s.upper)
    <3>1. ASSUME NEW i PROVE IsLastTold(i, s.upper)' <=> IsLastTold(i, s.upper)
      <4>1. CASE i \in 1..s.upper
        <5>1. \A j \in (i + 1)..s.upper : j \in 1..s.upper
          BY <2>1, <4>1
        <5>2. \A j \in (i + 1)..s.upper : stream'[j].pos = 0 <=> stream[j].pos = 0
          BY <2>2, <5>1
        <5>3. stream'[i].pos # 0 <=> stream[i].pos # 0
          BY <2>2, <4>1
        <5> QED BY <4>1, <5>2, <5>3 DEF IsLastTold
      <4>2. CASE i \notin 1..s.upper
        BY <4>2 DEF IsLastTold
      <4> QED BY <4>1, <4>2
    <3> QED BY <3>1
  <2>5. {stream'[i].pos : i \in page} = {stream[i].pos : i \in page}
    <3> HIDE DEF page
    <3> QED BY <2>3
  <2>6. (~s.initial => s.deltas = {stream[i].pos : i \in page} \ {0})
         => (~s.initial => s.deltas = {stream'[i].pos : i \in page} \ {0})
    BY <2>5
  <2>7. (s.initial => \A i \in 1..s.upper : IsLastTold(i, s.upper) =>
            s.snapshot = stream[i].pos \/ log[stream[i].pos].bucket = "leave")
        => (s.initial => \A i \in 1..s.upper : IsLastTold(i, s.upper)' =>
            s.snapshot = stream'[i].pos \/ log'[stream'[i].pos].bucket = "leave")
    BY <2>2, <2>4
  <2>8. /\ s.initial <=> ~c.synced
        /\ c.token <= s.upper /\ (~s.initial => s.snapshot = 0)
        /\ ~s.initial => s.deltas = {stream[i].pos : i \in page} \ {0}
        /\ s.initial => \A i \in 1..s.upper : IsLastTold(i, s.upper) =>
            s.snapshot = stream[i].pos \/ log[stream[i].pos].bucket = "leave"
    BY <1>1 DEF Follows
  <2> HIDE DEF page
  <2>9. /\ s.initial <=> ~c.synced
        /\ c.token <= s.upper /\ (~s.initial => s.snapshot = 0)
        /\ ~s.initial => s.deltas = {stream'[i].pos : i \in page} \ {0}
        /\ s.initial => \A i \in 1..s.upper : IsLastTold(i, s.upper)' =>
            s.snapshot = stream'[i].pos \/ log'[stream'[i].pos].bucket = "leave"
    BY <2>6, <2>7, <2>8
  <2>10. clients'[d] = c /\ syncs'[d] = s
    OBVIOUS
  <2> QED BY <2>9, <2>10, Zenon DEF Follows, page
<1> QED BY <1>1 DEF SyncsFollow

LEMMA AppendTells ==
  ASSUME StreamInv, ToldInOrder, NEW p \in 1..MaxLog, AppendRoomFanout(p)
  PROVE  Grows /\ SummaryIsLast' /\ ToldInOrder'
<1> DEFINE n == Len(stream)
           entry == RoomEntry(p)
<1>1. /\ p \in Owed \ Told /\ stream' = Append(stream, entry) /\ log' = log
      /\ summary' = [bucket |-> log[p].bucket, pos |-> p]
      /\ overtakes' = overtakes + (IF \E q \in Owed \ Told : q < p THEN 1 ELSE 0)
  BY DEF AppendRoomFanout, room
<1>2. /\ stream \in Seq(Entries) /\ n \in Nat /\ p \in 1..Len(log) /\ Len(log) \in Nat
      /\ overtakes \in Nat
  BY <1>1, OwedAreEvents, LenProperties DEF StreamInv, TypeOK
<1>3. entry \in Entries /\ entry.pos = p
  BY DEF Entries, RoomEntry
<1> HIDE DEF entry
<1>4. /\ stream' \in Seq(Entries) /\ Len(stream') = n + 1 /\ stream'[n + 1].pos = p
      /\ \A i \in 1..n : stream'[i] = stream[i]
  BY <1>1, <1>2, <1>3, AppendProperties
<1>5. Grows
  BY <1>2, <1>4 DEF Grows
<1>6. ASSUME NEW i \in 1..(n + 1), IsLastTold(i, Len(stream))' PROVE i = n + 1
  <2>1. \A j \in (i + 1)..(n + 1) : stream'[j].pos = 0
    BY <1>4, <1>6 DEF IsLastTold
  <2>2. i <= n => n + 1 \in (i + 1)..(n + 1)
    BY <1>2
  <2> QED BY <1>2, <1>4, <2>1, <2>2
<1>7. SummaryIsLast'
  BY <1>1, <1>4, <1>6 DEF SummaryIsLast
<1>8. Told' = Told \cup {p}
  <2>1. \A x \in Told' : x \in Told \cup {p}
    <3> SUFFICES ASSUME NEW i \in 1..(n + 1) PROVE stream'[i].pos \in Told \cup {p}
      BY <1>4 DEF Told
    <3> QED BY <1>2, <1>4 DEF Told
  <2>2. \A x \in Told : x \in Told'
    <3> SUFFICES ASSUME NEW i \in 1..n PROVE stream[i].pos \in Told'
      BY DEF Told
    <3>1. i \in 1..Len(stream') /\ stream'[i].pos = stream[i].pos
      BY <1>2, <1>4
    <3> QED BY <3>1 DEF Told
  <2>3. p \in Told'
    <3>1. n + 1 \in 1..Len(stream')
      BY <1>2, <1>4
    <3> QED BY <1>4, <3>1 DEF Told
  <2> QED BY <2>1, <2>2, <2>3
<1>9. Owed' = Owed
  BY <1>1 DEF Owed
<1>10. ASSUME overtakes' = 0
       PROVE  /\ \A j \in 1..(n + 1) : \A i \in 1..(j - 1) :
                   stream'[i].pos # 0 /\ stream'[j].pos # 0 => stream'[i].pos < stream'[j].pos
              /\ \A x \in Told', q \in Owed : q < x => q \in Told'
  <2>1. overtakes = 0 /\ ~\E q \in Owed \ Told : q < p
    BY <1>1, <1>2, <1>10
  <2>2. /\ \A j \in 1..n : \A i \in 1..(j - 1) :
             stream[i].pos # 0 /\ stream[j].pos # 0 => stream[i].pos < stream[j].pos
        /\ \A x \in Told, q \in Owed : q < x => q \in Told
    BY <2>1 DEF ToldInOrder
  <2>3. ASSUME NEW i \in 1..n, stream[i].pos # 0 PROVE stream[i].pos < p
    <3>1. stream[i].pos \in Told /\ stream[i].pos \in 0..Len(log)
      BY EntryTells DEF Told
    <3>2. ~(p < stream[i].pos)
      BY <1>1, <2>2, <3>1
    <3>3. stream[i].pos # p
      BY <1>1, <3>1
    <3> QED BY <1>2, <3>1, <3>2, <3>3
  <2>4. ASSUME NEW j \in 1..(n + 1), NEW i \in 1..(j - 1), stream'[i].pos # 0, stream'[j].pos # 0
        PROVE  stream'[i].pos < stream'[j].pos
    <3>1. i \in 1..n /\ stream'[i] = stream[i]
      BY <1>2, <1>4
    <3>2. CASE j = n + 1
      BY <1>4, <2>3, <2>4, <3>1, <3>2
    <3>3. CASE j # n + 1
      <4>1. j \in 1..n /\ stream'[j] = stream[j]
        BY <1>2, <1>4, <3>3
      <4> QED BY <2>2, <2>4, <3>1, <4>1
    <3> QED BY <3>2, <3>3
  <2>5. ASSUME NEW x \in Told', NEW q \in Owed, q < x PROVE q \in Told'
    BY <1>8, <2>1, <2>2, <2>5
  <2> QED BY <2>4, <2>5
<1>11. ToldInOrder'
  BY <1>4, <1>9, <1>10 DEF ToldInOrder
<1> QED BY <1>5, <1>7, <1>11

\* Messages tell nothing of the room.
LEMMA EnqueueTells ==
  ASSUME StreamInv, SummaryIsLast, ToldInOrder, NEW m \in Messages, NEW target,
         EnqueueToDevice(m, target)
  PROVE  Grows /\ SummaryIsLast' /\ ToldInOrder'
<1> DEFINE n == Len(stream)
           k == Len(stream')
<1>1. /\ StreamInv' /\ Grows
      /\ \A i \in 1..k \ 1..n : \E r \in queue' : r.device = stream'[i].to
  BY EnqueueStep
<1>2. log' = log /\ summary' = summary /\ overtakes' = overtakes
  BY DEF EnqueueToDevice, room
<1>3. n \in Nat /\ k \in Nat /\ n <= k /\ \A i \in 1..n : stream'[i] = stream[i]
  BY <1>1 DEF Grows
<1>4. ASSUME NEW i \in 1..k, i \notin 1..n PROVE stream'[i].pos = 0
  <2>1. stream'[i].to \in Devices
    <3>1. PICK r \in queue' : r.device = stream'[i].to
      BY <1>1, <1>4
    <3>2. r.device \in Devices
      BY <1>1, <3>1 DEF StreamInv, TypeOK
    <3> QED BY <3>1, <3>2
  <2>2. \/ stream'[i] = RoomEntry(stream'[i].pos)
        \/ stream'[i] = DeviceEntry(stream'[i].to, stream'[i].message)
    BY <1>1 DEF StreamInv, EntriesAreOwed
  <2>3. \A q : RoomEntry(q).to = Nobody
    BY DEF RoomEntry
  <2>4. \A e, x : DeviceEntry(e, x).pos = 0
    BY DEF DeviceEntry
  <2>5. stream'[i] # RoomEntry(stream'[i].pos)
    BY <2>1, <2>3, DevicesAreDevices
  <2> QED BY <2>2, <2>4, <2>5
<1>5. SummaryIsLast'
  <2> SUFFICES ASSUME NEW i \in 1..k, IsLastTold(i, Len(stream))'
               PROVE  summary = [bucket |-> log[stream'[i].pos].bucket, pos |-> stream'[i].pos]
    BY <1>2 DEF SummaryIsLast
  <2>1. stream'[i].pos # 0 /\ \A j \in (i + 1)..k : stream'[j].pos = 0
    BY DEF IsLastTold
  <2>2. i \in 1..n /\ stream'[i] = stream[i]
    BY <1>3, <1>4, <2>1
  <2>3. \A j \in (i + 1)..n : j \in (i + 1)..k /\ stream'[j] = stream[j]
    BY <1>3, <2>2
  <2>4. IsLastTold(i, n)
    BY <2>1, <2>2, <2>3 DEF IsLastTold
  <2> QED BY <2>2, <2>4 DEF SummaryIsLast
<1>6. Owed' = Owed
  BY <1>2 DEF Owed
<1>7. \A x \in Told' : x = 0 \/ x \in Told
  <2> SUFFICES ASSUME NEW i \in 1..k, stream'[i].pos # 0 PROVE stream'[i].pos \in Told
    BY DEF Told
  <2> QED BY <1>3, <1>4 DEF Told
<1>8. Told \subseteq Told'
  <2> SUFFICES ASSUME NEW i \in 1..n PROVE stream[i].pos \in Told'
    BY DEF Told
  <2>1. i \in 1..k /\ stream'[i].pos = stream[i].pos
    BY <1>3
  <2> QED BY <2>1 DEF Told
<1>9. \A q \in Owed : q \in Nat /\ ~(q < 0)
  BY OwedAreEvents DEF StreamInv
<1>10. ASSUME overtakes = 0
       PROVE  /\ \A j \in 1..k : \A i \in 1..(j - 1) :
                   stream'[i].pos # 0 /\ stream'[j].pos # 0 => stream'[i].pos < stream'[j].pos
              /\ \A x \in Told', q \in Owed : q < x => q \in Told'
  <2>1. /\ \A j \in 1..n : \A i \in 1..(j - 1) :
             stream[i].pos # 0 /\ stream[j].pos # 0 => stream[i].pos < stream[j].pos
        /\ \A x \in Told, q \in Owed : q < x => q \in Told
    BY <1>10 DEF ToldInOrder
  <2>2. ASSUME NEW j \in 1..k, NEW i \in 1..(j - 1), stream'[i].pos # 0, stream'[j].pos # 0
        PROVE  stream'[i].pos < stream'[j].pos
    <3>1. j \in 1..n /\ i \in 1..n /\ stream'[j] = stream[j] /\ stream'[i] = stream[i]
      BY <1>3, <1>4, <2>2
    <3> QED BY <2>1, <2>2, <3>1
  <2>3. ASSUME NEW x \in Told', NEW q \in Owed, q < x PROVE q \in Told'
    BY <1>7, <1>8, <1>9, <2>1, <2>3
  <2> QED BY <2>2, <2>3
<1>11. ToldInOrder'
  BY <1>2, <1>6, <1>10 DEF ToldInOrder
<1> QED BY <1>1, <1>5, <1>11

\* What holds of the room, of what is told of it, and of the syncs.
TellInv == RoomWalks /\ DeltasTell /\ SummaryIsLast /\ ToldInOrder /\ SyncsFollow

LEMMA DeviceStepTells ==
  ASSUME StreamInv, TellInv, NEW d \in Devices, NEW client, NEW sync,
         DeviceStep(d, client, sync), devices \ {d} \subseteq devices',
         sync.collected => d \in devices' /\ Follows(client, sync)
  PROVE  TellInv'
<1>1. log' = log /\ stream' = stream /\ summary' = summary /\ overtakes' = overtakes
  BY DEF DeviceStep
<1>2. RoomWalks' /\ DeltasTell' /\ SummaryIsLast'
  BY <1>1 DEF TellInv, RoomWalks, DeltasTell, SummaryIsLast, IsLastTold
<1>3. ToldInOrder'
  BY <1>1 DEF TellInv, ToldInOrder, Told, Owed
<1>4. \A e \in Devices : /\ clients'[e] = IF e = d THEN client ELSE clients[e]
                         /\ syncs'[e] = IF e = d THEN sync ELSE syncs[e]
  BY DEF DeviceStep, StreamInv, TypeOK
<1>5. ASSUME NEW e \in Devices, syncs'[e].collected
      PROVE  e \in devices' /\ Follows(clients'[e], syncs'[e])
  BY <1>4, <1>5 DEF TellInv, SyncsFollow
<1>6. ASSUME NEW e \in Devices, Follows(clients'[e], syncs'[e])
      PROVE  Follows(clients[e], syncs[e])'
  BY <1>1, <1>6 DEF Follows, IsLastTold
<1>7. SyncsFollow'
  BY <1>5, <1>6 DEF SyncsFollow
<1> QED BY <1>2, <1>3, <1>7 DEF TellInv

\* collectSince takes what was told since the token, and the room as told last.
LEMMA CollectFollows ==
  ASSUME StreamInv, TellInv, NEW d \in Devices, NEW filter \in Filters,
         CollectSince(d, filter)
  PROVE  TellInv'
<1>1. PICK sync :
           /\ DeviceStep(d, clients[d], sync) /\ sync.upper = Len(stream)
           /\ devices' = devices /\ d \in devices
           /\ sync.initial <=> ~clients[d].synced
           /\ ~sync.initial => sync.snapshot = 0
           /\ ~sync.initial => sync.deltas =
                {stream[i].pos : i \in {j \in (clients[d].token + 1)..Len(stream) :
                                         j <= clients[d].token + PageLimit}} \ {0}
           /\ sync.initial /\ summary.pos > 0 /\ summary.bucket # "leave" =>
                sync.snapshot = summary.pos
  BY CollectIs
<1>2. clients[d].token <= sync.upper
  BY <1>1, ClientsAreBehind DEF Behind
<1>3. ASSUME sync.initial, NEW i \in 1..Len(stream), IsLastTold(i, Len(stream))
      PROVE  sync.snapshot = stream[i].pos \/ log[stream[i].pos].bucket = "leave"
  <2> DEFINE p == stream[i].pos
  <2>1. summary = [bucket |-> log[p].bucket, pos |-> p]
    BY <1>3 DEF TellInv, SummaryIsLast
  <2>2. p > 0
    BY <1>3, EntryTells DEF IsLastTold
  <2> HIDE DEF p
  <2>3. sync.snapshot = p \/ log[p].bucket = "leave"
    BY <1>1, <1>3, <2>1, <2>2
  <2> QED BY <2>3 DEF p
<1>4. Follows(clients[d], sync)
  BY <1>1, <1>2, <1>3 DEF Follows
<1> QED BY <1>1, <1>4, DeviceStepTells

LEMMA DevicesTell ==
  ASSUME StreamInv, TellInv, NEW d \in Devices,
         \/ Login(d) \/ DeleteDevice(d) \/ StartOver(d) \/ Answer(d) \/ AnswerLost(d)
  PROVE  TellInv'
<1>1. NoSync.collected = FALSE
  BY DEF NoSync
<1>2. CASE Login(d)
  <2>1. ~syncs[d].collected
    BY <1>2, LoginIs DEF TellInv, SyncsFollow
  <2> QED BY <1>2, <2>1, LoginIs, DeviceStepTells
<1>3. CASE DeleteDevice(d)
  BY <1>1, <1>3, DeleteIs, DeviceStepTells
<1>4. CASE StartOver(d)
  BY <1>1, <1>4, StartOverIs, DeviceStepTells
<1>5. CASE Answer(d)
  BY <1>1, <1>5, AnswerIs, DeviceStepTells
<1>6. CASE AnswerLost(d)
  BY <1>1, <1>6, LostIs, DeviceStepTells
<1> QED BY <1>2, <1>3, <1>4, <1>5, <1>6

LEMMA InitTells == Init => TellInv
<1> SUFFICES ASSUME Init PROVE TellInv
  OBVIOUS
<1>1. Len(log) = 0 /\ Len(stream) = 0 /\ Told = {}
  BY DEF Init, Told
<1>2. \A d \in Devices : syncs[d].collected = FALSE
  BY DEF Init, NoSync
<1>3. RoomWalks /\ DeltasTell /\ SummaryIsLast /\ SyncsFollow
  BY <1>1, <1>2 DEF RoomWalks, DeltasTell, SummaryIsLast, SyncsFollow
<1>4. ToldInOrder
  BY <1>1 DEF ToldInOrder
<1> QED BY <1>3, <1>4 DEF TellInv

LEMMA TellStutter == TellInv /\ UNCHANGED vars => TellInv'
<1> SUFFICES ASSUME TellInv, UNCHANGED vars PROVE TellInv'
  OBVIOUS
<1>1. RoomWalks' /\ DeltasTell' /\ SummaryIsLast'
  BY DEF TellInv, RoomWalks, DeltasTell, SummaryIsLast, IsLastTold, vars, room, user
<1>2. ToldInOrder' /\ SyncsFollow'
  BY DEF TellInv, ToldInOrder, Told, Owed, SyncsFollow, Follows, IsLastTold, vars, room, user
<1> QED BY <1>1, <1>2 DEF TellInv

LEMMA TellNext == StreamInv /\ TellInv /\ [Next]_vars => TellInv'
<1> SUFFICES ASSUME StreamInv, TellInv, [Next]_vars PROVE TellInv'
  OBVIOUS
<1>1. CASE UNCHANGED vars
  BY <1>1, TellStutter
<1>2. ASSUME NEW kind \in Kinds, Commit(kind) PROVE TellInv'
  BY <1>2, CommitWalks, CommitTells, CommitOrders, CommitFollows DEF TellInv
<1>3. ASSUME log' = log PROVE RoomWalks' /\ DeltasTell'
  BY <1>3 DEF TellInv, RoomWalks, DeltasTell
<1>4. ASSUME NEW p \in 1..MaxLog, AppendRoomFanout(p) PROVE TellInv'
  <2>1. log' = log /\ devices' = devices /\ syncs' = syncs /\ clients' = clients
    BY <1>4 DEF AppendRoomFanout, room
  <2> QED BY <1>3, <1>4, <2>1, AppendTells, GrowsFollows DEF TellInv
<1>5. ASSUME NEW m \in Messages, NEW target \in Devices \cup {Everyone},
             EnqueueToDevice(m, target)
      PROVE  TellInv'
  <2>1. log' = log /\ devices' = devices /\ syncs' = syncs /\ clients' = clients
    BY <1>5 DEF EnqueueToDevice, room
  <2> QED BY <1>3, <1>5, <2>1, EnqueueTells, GrowsFollows DEF TellInv
<1>6. ASSUME NEW d \in Devices,
             \/ Login(d) \/ DeleteDevice(d) \/ StartOver(d) \/ Answer(d) \/ AnswerLost(d)
      PROVE  TellInv'
  BY <1>6, DevicesTell
<1>7. ASSUME NEW d \in Devices, Collect(d) PROVE TellInv'
  BY <1>7, CollectFollows DEF Collect
<1> QED BY <1>1, <1>2, <1>4, <1>5, <1>6, <1>7 DEF Next

\* appendRoomFanout, enqueueToDevice, collectSince and deleteDevices: a message
\* is sent to a device once and queued for no later device under its id, and no
\* token is ahead of the stream.  The deltas of buildCommittedFanoutDeltas and
\* the summary of the room tell what the log holds, and a sync under way carries
\* just what its client's token does not cover.  All this for any devices,
\* filters, page limit and backfill, and each visibility of the history.
THEOREM SyncInvariant == Spec => []SyncInv
<1>1. Init => SyncInv
  BY InitStream, InitTells DEF SyncInv, TellInv
<1>2. SyncInv /\ [Next]_vars => SyncInv'
  BY StreamNext, TellNext DEF SyncInv, TellInv
<1> QED BY <1>1, <1>2, PTL DEF Spec

-----------------------------------------------------------------------------
(* What the clients know of the room *)

\* No delta was handed over before an older one.
NoneOvertaken == overtakes = 0

\* A page holds what is new in the stream for any client.
PagesFit == \A d \in Devices : clients[d].synced => Len(stream) <= clients[d].token + PageLimit

CoveredBy(token) == {stream[i].pos : i \in 1..token} \ {0}

\* What NoSilentGap and StateKept say of a client.
Knows(client) ==
  client.synced /\ Now.bucket = "join" /\ Now.member \in CoveredBy(client.token) =>
    /\ \A p \in CoveredBy(client.token) :
         log[p].bucket = "join" => p \in client.seen \/ p < client.floor
    /\ client.bucket = "join"
    /\ \A p \in CoveredBy(client.token) :
         (\A q \in CoveredBy(client.token) : q <= p) => log[p].state <= client.state

LEMMA CoveredAre ==
  ASSUME StreamInv, NEW token \in Nat, token <= Len(stream)
  PROVE  CoveredBy(token) \subseteq 1..Len(log) /\ Len(log) \in 0..MaxLog
<1>1. Len(log) \in 0..MaxLog /\ Len(stream) \in Nat
  BY OwedAreEvents, LenProperties DEF StreamInv, TypeOK
<1>2. \A i \in 1..token : i \in 1..Len(stream)
  BY <1>1
<1> QED BY <1>1, <1>2, EntryTells DEF CoveredBy

LEMMA KnowsIs ==
  ASSUME StreamInv
  PROVE  NoSilentGap /\ StateKept <=> \A d \in devices : Knows(clients[d])
<1>1. devices \subseteq Devices
  BY DEF StreamInv, TypeOK
<1>2. \A d : CoveredBy(clients[d].token) = Covered(d)
  BY DEF Covered, CoveredBy
<1>3. ASSUME NEW d \in Devices
      PROVE  Covered(d) \subseteq 0..Len(log) /\ Len(log) \in Nat
  BY <1>2, CoveredAre, ClientsAreBehind DEF Behind, Clients
<1>4. ASSUME NEW d \in Devices, Covered(d) # {}
      PROVE  /\ Max(Covered(d)) \in Covered(d)
             /\ \A q \in Covered(d) : q <= Max(Covered(d))
             /\ \A p \in Covered(d) : (\A q \in Covered(d) : q <= p) => p = Max(Covered(d))
  <2> DEFINE S == Covered(d)
  <2>0. S \in SUBSET (0..Len(log)) /\ S # {} /\ Len(log) \in Nat
    BY <1>3, <1>4
  <2> HIDE DEF S
  <2>1. Max(S) \in S /\ \A q \in S : Max(S) >= q
    BY <2>0, MaxIsLargest
  <2>2. \A q \in S : q \in Nat
    BY <2>0
  <2>3. PICK last \in S : last = Max(S) /\ \A q \in S : last >= q
    BY <2>1
  <2>4. \A q \in S : q <= last
    BY <2>2, <2>3
  <2>5. \A p \in S : (\A q \in S : q <= p) => p = last
    BY <2>2, <2>3
  <2> QED BY <2>1, <2>3, <2>4, <2>5 DEF S
<1>5. ASSUME NEW d \in Devices, Covered(d) # {}, log[Max(Covered(d))].state \in Nat
      PROVE  clients[d].state >= log[Max(Covered(d))].state <=>
               \A p \in Covered(d) : (\A q \in Covered(d) : q <= p) =>
                 log[p].state <= clients[d].state
  <2>1. clients[d].state \in Nat
    BY ClientsAreBehind, BoundsAreNat DEF Behind, Clients
  <2>2. PICK last \in Covered(d) :
          /\ last = Max(Covered(d)) /\ \A q \in Covered(d) : q <= last
          /\ \A p \in Covered(d) : (\A q \in Covered(d) : q <= p) => p = last
    BY <1>4, <1>5
  <2>3. log[last].state \in Nat
    BY <1>5, <2>2
  <2>4. clients[d].state >= log[last].state <=> log[last].state <= clients[d].state
    BY <2>1, <2>3
  <2> QED BY <2>2, <2>4
<1>6. ASSUME NEW d \in Devices, Covered(d) # {} PROVE log[Max(Covered(d))].state \in Nat
  <2>1. Max(Covered(d)) \in 1..Len(log)
    BY <1>2, <1>4, <1>6, CoveredAre, ClientsAreBehind DEF Behind, Clients
  <2> QED BY <2>1, EventFields DEF StreamInv
<1>7. ASSUME NEW d \in devices
      PROVE  Knows(clients[d]) <=>
               (CaughtUp(d) =>
                 /\ \A p \in Covered(d) :
                      log[p].bucket = "join" => p \in clients[d].seen \/ p < clients[d].floor
                 /\ clients[d].bucket = "join"
                 /\ clients[d].state >= log[Max(Covered(d))].state)
  <2>1. d \in Devices
    BY <1>1
  <2>2. CASE Covered(d) = {}
    BY <1>2, <2>2 DEF Knows, CaughtUp
  <2>3. CASE Covered(d) # {}
    BY <1>2, <1>5, <1>6, <2>1, <2>3 DEF Knows, CaughtUp
  <2> QED BY <2>2, <2>3
<1>8. \A d \in Devices : CaughtUp(d) => d \in devices
  BY DEF CaughtUp
<1> QED BY <1>1, <1>7, <1>8 DEF NoSilentGap, StateKept

\* While the user is in the room, every event since the join is of that membership.
LEMMA JoinedSince ==
  ASSUME StreamInv, RoomWalks, Now.bucket = "join"
  PROVE  /\ Now.member \in 1..Len(log) /\ log[Now.member].kind = "join"
         /\ \A p \in Now.member..Len(log) :
              log[p].bucket = "join" /\ log[p].kind \in {"join", "state"}
<1> DEFINE n == Len(log)
           J == Now.member
<1>1. /\ n \in Nat /\ J \in 0..n /\ (Now.bucket = "none" <=> J = 0)
  BY NowIs DEF StreamInv
<1>2. J \in 1..n /\ n \in 1..n /\ Now = log[n]
  BY <1>1 DEF Now, EventAt
<1>3. \A p \in J..n : p \in 1..n /\ log[p].member = J /\ log[p].bucket = "join"
  BY <1>2 DEF RoomWalks
<1>4. log[J].kind \in MembershipKinds /\ log[J].bucket = log[J].kind /\ log[J].bucket = "join"
  BY <1>1, <1>2, <1>3 DEF RoomWalks
<1>5. ASSUME NEW p \in J..n, p # J PROVE log[p].kind = "state"
  <2>1. p \in 1..n /\ log[p].kind \notin MembershipKinds
    BY <1>3, <1>5 DEF RoomWalks
  <2> QED BY <2>1, EventFields DEF StreamInv, Kinds
<1> QED BY <1>2, <1>3, <1>4, <1>5

\* An answer to a joined user: the view shows the end of what there is to show,
\* and says so if that is not all.
ShowsEndOf(view, whole) ==
  /\ view.bucket = "join" /\ IsEndOf(view.timeline, whole)
  /\ view.timeline # whole => view.limited

LEMMA InitialView ==
  ASSUME StreamInv, NEW d \in Devices, Now.bucket = "join", syncs[d].initial,
         syncs[d].snapshot # 0
  PROVE  LET view == Project(syncs[d])
             M == syncs[d].snapshot
         IN  /\ M \in 1..Len(log) /\ ShowsEndOf(view, 1..M)
             /\ log[M].state \in view.told \cup {0}
<1> DEFINE s == syncs[d]
           M == s.snapshot
           deltas == {log[p] : p \in s.deltas}
           limit == IF s.filter.limit = 0 THEN Backfill ELSE s.filter.limit
           events == Latest(limit, 1..M)
           pinned == UNION {e.pinned : e \in deltas}
           cut == Cut(events, pinned, s.filter.limit)
           limited == Limited(s, deltas, cut, events)
           told == {EventAt(M).state} \ {0}
<1>1. /\ M \in Nat /\ M <= Len(log) /\ Len(log) \in Nat /\ s.filter.limit \in Nat
      /\ Backfill \in Nat \ {0}
  BY ClientsAreBehind, OwedAreEvents, LimitsArePositive DEF Behind, Syncs, StreamInv
<1>2. M \in 1..Len(log) /\ limit \in Nat \ {0}
  BY <1>1
<1>3. /\ Project(s).bucket = "join" /\ Project(s).timeline = cut /\ Project(s).limited = limited
      /\ Project(s).told = told
  BY DEF Project
<1>4. 1..M \in SUBSET (0..M) /\ 1..M \in SUBSET Nat
  BY <1>1
<1>5. IsEndOf(events, 1..M)
  <2> HIDE DEF limit
  <2> QED BY <1>1, <1>2, <1>4, LatestIsEnd
<1>6. IsEndOf(cut, events)
  <2>1. events \in SUBSET (0..M)
    BY <1>4, <1>5 DEF IsEndOf
  <2> HIDE DEF events, pinned
  <2> QED BY <1>1, <2>1, CutIsEnd
<1> HIDE DEF events, cut
<1>7. IsEndOf(cut, 1..M)
  BY <1>4, <1>5, <1>6, EndOfEnd
<1>8. ASSUME cut # 1..M PROVE limited
  <2>1. cut \in SUBSET (1..M)
    BY <1>7 DEF IsEndOf
  <2>2. Cardinality(cut) < Cardinality(1..M)
    BY <1>1, <1>4, <1>8, <2>1, EndIsSmaller
  <2>3. Cardinality(1..M) = M
    <3>1. ASSUME NEW k \in Nat \ {0} PROVE Cardinality(1..k) = k
      <4>1. Cardinality(1..k) = IF 1 > k THEN 0 ELSE k - 1 + 1
        BY FS_Interval
      <4> QED BY <4>1
    <3> QED BY <1>1, <1>2, <3>1
  <2> QED BY <2>2, <2>3 DEF Limited
<1>9. log[M].state \in told \cup {0}
  BY <1>2 DEF EventAt
<1> QED BY <1>2, <1>3, <1>7, <1>8, <1>9 DEF ShowsEndOf

LEMMA LaterView ==
  ASSUME StreamInv, NEW d \in Devices, Now.bucket = "join", ~syncs[d].initial
  PROVE  LET view == Project(syncs[d])
             whole == UNION {log[p].timeline : p \in syncs[d].deltas}
         IN  /\ whole \subseteq 1..Len(log) /\ ShowsEndOf(view, whole)
             /\ \A p \in syncs[d].deltas : log[p].limited => view.limited
             /\ \A p \in syncs[d].deltas : log[p].told \subseteq view.told
<1> DEFINE s == syncs[d]
           whole == UNION {log[p].timeline : p \in s.deltas}
           deltas == {log[p] : p \in s.deltas}
           n == Len(log)
           events == (UNION {e.timeline : e \in deltas}) \cap 1..n
           pinned == UNION {e.pinned : e \in deltas}
           cut == Cut(events, pinned, s.filter.limit)
           limited == Limited(s, deltas, cut, events)
           told == (UNION {e.told : e \in deltas}) \cap 1..n
<1>1. n \in Nat /\ s.filter.limit \in Nat /\ s.deltas \subseteq 1..n
  BY ClientsAreBehind, OwedAreEvents DEF Behind, Syncs, StreamInv
<1>2. /\ Project(s).bucket = "join" /\ Project(s).timeline = cut /\ Project(s).limited = limited
      /\ Project(s).told = told
  BY DEF Project
<1>3. \A p \in s.deltas : log[p].timeline \subseteq 1..n /\ log[p].told \subseteq 1..n
  <2> SUFFICES ASSUME NEW p \in s.deltas
               PROVE  log[p].timeline \subseteq 1..n /\ log[p].told \subseteq 1..n
    OBVIOUS
  <2>1. p \in 1..n /\ log[p].timeline \subseteq 1..p /\ log[p].told \subseteq 1..p
    BY <1>1 DEF StreamInv, EventsLookBack
  <2>2. 1..p \subseteq 1..n
    BY <1>1, <2>1
  <2> QED BY <2>1, <2>2
<1>4. whole \subseteq 1..n
  BY <1>3
<1>5. events = whole
  <2>1. UNION {e.timeline : e \in deltas} = whole
    OBVIOUS
  <2> HIDE DEF whole, deltas
  <2> QED BY <1>4, <2>1
<1>6. IsEndOf(cut, events)
  <2>1. events \in SUBSET (0..n)
    BY <1>1
  <2> HIDE DEF events, pinned
  <2> QED BY <1>1, <2>1, CutIsEnd
<1>7. ASSUME cut # whole PROVE limited
  <2>1. cut \in SUBSET events /\ cut # events /\ events \in SUBSET (0..n)
    BY <1>1, <1>5, <1>6, <1>7 DEF IsEndOf
  <2> HIDE DEF cut, events, deltas
  <2>2. Cardinality(cut) < Cardinality(events)
    BY <1>1, <2>1, EndIsSmaller
  <2> QED BY <2>2 DEF Limited
<1>8. ASSUME NEW p \in s.deltas, log[p].limited PROVE limited
  <2>1. log[p] \in deltas
    OBVIOUS
  <2> HIDE DEF cut, events, deltas
  <2> QED BY <1>8, <2>1 DEF Limited
<1>9. ASSUME NEW p \in s.deltas PROVE log[p].told \subseteq told
  BY <1>3, <1>9
<1> HIDE DEF whole, events, cut, limited, told
<1>10. ShowsEndOf(Project(s), whole)
  BY <1>2, <1>5, <1>6, <1>7 DEF ShowsEndOf
<1> QED BY <1>2, <1>4, <1>8, <1>9, <1>10 DEF whole

LEMMA SeenOrBefore ==
  ASSUME NEW m \in Nat, NEW whole \in SUBSET (0..m), NEW client, NEW view,
         ShowsEndOf(view, whole), Shows(client, view), client.floor \in Nat, NEW p \in whole
  PROVE  p \in client.seen \/ p < client.floor
<1> DEFINE T == view.timeline
<1>1. /\ T \subseteq whole /\ (whole # {} => T # {}) /\ (p \in T \/ \A q \in T : p < q)
      /\ T # whole => view.limited
  BY DEF ShowsEndOf, IsEndOf
<1>2. T \subseteq client.seen /\ (view.limited /\ T # {} => Min(T) <= client.floor)
  BY DEF Shows
<1> HIDE DEF T
<1>3. CASE p \in T
  BY <1>2, <1>3
<1>4. CASE p \notin T
  <2>1. T # whole /\ T # {} /\ T \in SUBSET Nat
    BY <1>1, <1>4
  <2>2. Min(T) \in T
    BY <2>1, MinIsLeast
  <2>3. PICK least \in T : least = Min(T)
    BY <2>2
  <2>4. p < least /\ least <= client.floor
    BY <1>1, <1>2, <1>4, <2>1, <2>3
  <2>5. p \in Nat /\ least \in Nat
    BY <2>1, <2>3
  <2> QED BY <2>4, <2>5
<1> QED BY <1>3, <1>4

\* What comes before all there is to show lies before a limited timeline.
LEMMA BeforeAll ==
  ASSUME NEW m \in Nat, NEW whole \in SUBSET (0..m), whole # {}, NEW client, NEW view,
         ShowsEndOf(view, whole), Shows(client, view), client.floor \in Nat, NEW p \in Nat,
         view.limited, \A q \in whole : p < q
  PROVE  p < client.floor
<1> DEFINE T == view.timeline
<1>1. T \subseteq whole /\ T # {}
  BY DEF ShowsEndOf, IsEndOf
<1>2. Min(T) <= client.floor
  BY <1>1 DEF Shows
<1> HIDE DEF T
<1>3. T \in SUBSET Nat
  BY <1>1
<1>4. Min(T) \in T
  BY <1>1, <1>3, MinIsLeast
<1>5. PICK least \in T : least = Min(T)
  BY <1>4
<1>6. p < least /\ least <= client.floor /\ least \in Nat
  BY <1>1, <1>2, <1>3, <1>5
<1> QED BY <1>6

\* The first answer of a client shows the room as it was told last.
LEMMA InitialKnows ==
  ASSUME StreamInv, TellInv, NoneOvertaken, NEW d \in Devices, syncs[d].collected,
         syncs[d].initial, NEW client \in Clients, client.token = syncs[d].upper,
         InAnswer(syncs[d]) => Shows(client, Project(syncs[d]))
  PROVE  Knows(client)
<1> DEFINE s == syncs[d]
           n == Len(log)
           J == Now.member
           S == {i \in 1..s.upper : stream[i].pos # 0}
<1> SUFFICES ASSUME Now.bucket = "join", J \in CoveredBy(s.upper)
             PROVE  /\ \A p \in CoveredBy(s.upper) :
                         log[p].bucket = "join" => p \in client.seen \/ p < client.floor
                    /\ client.bucket = "join"
                    /\ \A p \in CoveredBy(s.upper) :
                         (\A q \in CoveredBy(s.upper) : q <= p) => log[p].state <= client.state
  BY DEF Knows
<1>1. /\ s.upper \in Nat /\ s.upper <= Len(stream) /\ Len(stream) \in Nat /\ n \in Nat
      /\ client.floor \in Nat /\ client.state \in Nat
  <2>1. s.upper \in Nat /\ s.upper <= Len(stream)
    BY ClientsAreBehind DEF Behind, Syncs
  <2>2. Len(stream) \in Nat /\ n \in Nat
    BY LenProperties DEF StreamInv, TypeOK
  <2>3. client.floor \in Nat /\ client.state \in Nat
    BY BoundsAreNat DEF Clients
  <2> QED BY <2>1, <2>2, <2>3
<1>2. CoveredBy(s.upper) \subseteq 1..n
  BY <1>1, CoveredAre
<1>3. PICK i \in S : \A j \in S : i >= j
  <2>1. S \in SUBSET (0..s.upper)
    BY <1>1
  <2>2. S # {}
    BY DEF CoveredBy
  <2> HIDE DEF S
  <2> QED BY <1>1, <2>1, <2>2, MaxIsLargest
<1>4. IsLastTold(i, s.upper)
  <2>1. \A j \in (i + 1)..s.upper : j \in 1..s.upper /\ ~(i >= j)
    BY <1>1
  <2>2. \A j \in (i + 1)..s.upper : stream[j].pos = 0
    BY <1>3, <2>1
  <2> QED BY <2>2 DEF IsLastTold
<1> DEFINE M == stream[i].pos
<1>5. M \in CoveredBy(s.upper) /\ M \in 1..n
  BY <1>2 DEF CoveredBy
<1>6. ASSUME NEW p \in CoveredBy(s.upper) PROVE p <= M
  <2>1. PICK j \in 1..s.upper : stream[j].pos = p /\ p # 0
    BY DEF CoveredBy
  <2>2. i >= j /\ i \in 1..Len(stream)
    BY <1>1, <1>3, <2>1
  <2>3. CASE i = j
    BY <1>2, <2>1, <2>3
  <2>4. CASE i # j
    <3>1. j \in 1..(i - 1)
      BY <1>1, <2>2, <2>4
    <3>2. p < M
      BY <2>1, <2>2, <3>1 DEF NoneOvertaken, TellInv, ToldInOrder
    <3> QED BY <1>2, <1>5, <3>2
  <2> QED BY <2>3, <2>4
<1>7. J <= M /\ J \in Nat
  BY <1>2, <1>6
<1>8. log[M].bucket = "join"
  <2>1. M \in J..n
    BY <1>1, <1>5, <1>7
  <2> QED BY <2>1, JoinedSince DEF TellInv
<1>9. s.snapshot = M
  BY <1>4, <1>8 DEF TellInv, SyncsFollow, Follows
<1> HIDE DEF M, S
<1>10. /\ M # 0 /\ M > 0 /\ InAnswer(s)
  BY <1>5, <1>9 DEF InAnswer
<1>11. /\ ShowsEndOf(Project(s), 1..M) /\ Shows(client, Project(s))
       /\ log[M].state \in Project(s).told \cup {0}
  BY <1>9, <1>10, InitialView
<1>12. ASSUME NEW p \in CoveredBy(s.upper) PROVE p \in client.seen \/ p < client.floor
  <2>1. p \in 1..M /\ 1..M \in SUBSET (0..M) /\ M \in Nat
    BY <1>2, <1>5, <1>6
  <2> QED BY <1>1, <1>11, <2>1, SeenOrBefore
<1>13. client.bucket = "join"
  BY <1>11 DEF ShowsEndOf, Shows
<1>14. log[M].state <= client.state
  BY <1>1, <1>11 DEF Shows
<1>15. ASSUME NEW p \in CoveredBy(s.upper), \A q \in CoveredBy(s.upper) : q <= p
       PROVE  p = M
  BY <1>2, <1>5, <1>6, <1>15
<1> QED BY <1>12, <1>13, <1>14, <1>15

\* A later answer adds the deltas it collected to what the client knew.
LEMMA LaterKnows ==
  ASSUME History = "shared", StreamInv, TellInv, NoneOvertaken, PagesFit,
         NEW d \in Devices, syncs[d].collected, ~syncs[d].initial,
         Knows(clients[d]), NEW client \in Clients, client.token = syncs[d].upper,
         Remembers(clients[d], client),
         IF InAnswer(syncs[d]) THEN Shows(client, Project(syncs[d]))
         ELSE client.bucket = clients[d].bucket /\ client.state = clients[d].state
  PROVE  Knows(client)
<1> DEFINE c == clients[d]
           s == syncs[d]
           n == Len(log)
           J == Now.member
           new == CoveredBy(s.upper)
           old == CoveredBy(c.token)
           view == Project(s)
           whole == UNION {log[p].timeline : p \in s.deltas}
<1> SUFFICES ASSUME Now.bucket = "join", J \in new
             PROVE  /\ \A p \in new :
                         log[p].bucket = "join" => p \in client.seen \/ p < client.floor
                    /\ client.bucket = "join"
                    /\ \A p \in new : (\A q \in new : q <= p) => log[p].state <= client.state
  BY DEF Knows
<1>1. /\ s.upper \in Nat /\ s.upper <= Len(stream) /\ Len(stream) \in Nat /\ n \in Nat
      /\ c.token \in Nat /\ client.floor \in Nat /\ client.state \in Nat
      /\ c.floor \in Nat /\ c.token <= Len(stream) /\ PageLimit \in Nat
  <2>1. s.upper \in Nat /\ s.upper <= Len(stream)
    BY ClientsAreBehind DEF Behind, Syncs
  <2>2. Len(stream) \in Nat /\ n \in Nat
    BY LenProperties DEF StreamInv, TypeOK
  <2>3. c.token \in Nat /\ c.floor \in Nat /\ c.token <= Len(stream)
    BY ClientsAreBehind, BoundsAreNat DEF Behind, Clients
  <2>4. client.floor \in Nat /\ client.state \in Nat
    BY BoundsAreNat DEF Clients
  <2> QED BY <2>1, <2>2, <2>3, <2>4, LimitsArePositive
<1>2. c.synced /\ c.token <= s.upper /\ s.snapshot = 0
  BY DEF TellInv, SyncsFollow, Follows
<1>3. s.deltas = {stream[i].pos : i \in (c.token + 1)..s.upper} \ {0}
  <2>1. s.deltas = {stream[i].pos : i \in {j \in (c.token + 1)..s.upper :
                                           j <= c.token + PageLimit}} \ {0}
    BY DEF TellInv, SyncsFollow, Follows
  <2>2. {j \in (c.token + 1)..s.upper : j <= c.token + PageLimit} = (c.token + 1)..s.upper
    BY <1>1, <1>2 DEF PagesFit
  <2> QED BY <2>1, <2>2
<1>4. new \subseteq 1..n /\ old \subseteq 1..n
  BY <1>1, CoveredAre
<1>5. new = old \cup s.deltas
  <2>1. 1..s.upper = 1..c.token \cup (c.token + 1)..s.upper
    BY <1>1, <1>2
  <2> QED BY <1>3, <2>1 DEF CoveredBy
<1>6. ASSUME NEW p \in old, NEW q \in s.deltas PROVE p < q
  <2>1. PICK i \in 1..c.token : stream[i].pos = p /\ p # 0
    BY DEF CoveredBy
  <2>2. PICK j \in (c.token + 1)..s.upper : stream[j].pos = q /\ q # 0
    BY <1>3
  <2>3. j \in 1..Len(stream) /\ i \in 1..(j - 1)
    BY <1>1, <2>1, <2>2
  <2> QED BY <2>1, <2>2, <2>3 DEF NoneOvertaken, TellInv, ToldInOrder
<1> HIDE DEF new, old
<1>7. /\ J \in 1..n /\ log[J].kind = "join"
      /\ \A p \in J..n : log[p].bucket = "join" /\ log[p].kind \in {"join", "state"}
  BY JoinedSince DEF TellInv
<1>8. J \in old => /\ c.bucket = "join"
                   /\ \A p \in old : log[p].bucket = "join" => p \in c.seen \/ p < c.floor
                   /\ \A p \in old : (\A q \in old : q <= p) => log[p].state <= c.state
  BY <1>2 DEF Knows, old
<1>9. ASSUME NEW p \in old, p \in c.seen \/ p < c.floor
      PROVE  p \in client.seen \/ p < client.floor
  <2>1. p \in Nat
    BY <1>4
  <2> QED BY <1>1, <1>9, <2>1 DEF Remembers
<1>10. CASE s.deltas = {}
  <2>1. ~InAnswer(s)
    BY <1>2, <1>10 DEF InAnswer
  <2>2. new = old /\ client.bucket = c.bucket /\ client.state = c.state
    BY <1>5, <1>10, <2>1
  <2> QED BY <1>8, <1>9, <2>2
<1>11. CASE s.deltas # {}
  <2>1. Shows(client, view)
    <3>1. InAnswer(s)
      BY <1>11 DEF InAnswer
    <3> QED BY <3>1
  <2>2. /\ whole \subseteq 1..n /\ ShowsEndOf(view, whole)
        /\ \A p \in s.deltas : log[p].limited => view.limited
        /\ \A p \in s.deltas : log[p].told \subseteq view.told
    BY LaterView
  <2>3. \A p \in s.deltas : p \in 1..n
    BY <1>4, <1>5
  <2>4. ASSUME NEW p \in s.deltas, log[p].kind \in {"join", "state"} PROVE p \in whole
    BY <2>3, <2>4 DEF TellInv, DeltasTell
  <2> HIDE DEF view, whole
  <2>5. whole \in SUBSET (0..n)
    <3>1. whole \subseteq 1..n
      BY <2>2 DEF whole
    <3> QED BY <1>1, <3>1
  <2>6. ASSUME NEW p \in whole PROVE p \in client.seen \/ p < client.floor
    BY <1>1, <2>1, <2>2, <2>5, SeenOrBefore
  <2>7. ASSUME NEW p \in s.deltas, log[p].bucket = "join"
        PROVE  p \in client.seen \/ p < client.floor
    <3>1. log[p].kind \in {"join", "state"}
      <4>1. p \in 1..n /\ log[p].kind \in Kinds
        BY <2>3, EventFields DEF StreamInv
      <4>2. log[p].kind \in MembershipKinds => log[p].bucket = log[p].kind
        BY <4>1 DEF TellInv, RoomWalks
      <4> QED BY <2>7, <4>1, <4>2 DEF Kinds, MembershipKinds
    <3> QED BY <2>4, <2>6, <3>1
  <2>8. ASSUME NEW p \in old, J \in s.deltas PROVE p \in client.seen \/ p < client.floor
    <3>1. p < J /\ p \in 1..J /\ p \in Nat
      BY <1>4, <1>6, <1>7, <2>8
    <3>2. CASE p \in whole
      BY <2>6, <3>2
    <3>3. CASE p \notin whole
      <4>1. \A q \in s.deltas : p \notin log[q].timeline
        BY <3>3 DEF whole
      <4>2. log[J].limited
        BY <1>7, <2>8, <3>1, <4>1 DEF TellInv, DeltasTell
      <4>3. view.limited /\ J \in whole
        BY <1>7, <2>2, <2>4, <2>8, <4>2
      <4>4. ASSUME NEW q \in s.deltas, NEW r \in log[q].timeline PROVE p < r
        <5>1. q \in 1..n /\ p < q /\ p \in 1..q
          BY <1>6, <2>3, <3>1
        <5>2. CASE log[q].kind = "join"
          BY <4>1, <4>4, <5>1, <5>2 DEF TellInv, DeltasTell
        <5>3. CASE log[q].kind # "join"
          <6>1. r = q
            BY <4>4, <5>1, <5>3 DEF TellInv, DeltasTell
          <6> QED BY <5>1, <6>1
        <5> QED BY <5>2, <5>3
      <4>5. \A r \in whole : p < r
        BY <4>4 DEF whole
      <4>6. p < client.floor
        BY <1>1, <2>1, <2>2, <2>5, <3>1, <4>3, <4>5, BeforeAll
      <4> QED BY <4>6
    <3> QED BY <3>2, <3>3
  <2>9. ASSUME NEW p \in new, log[p].bucket = "join"
        PROVE  p \in client.seen \/ p < client.floor
    <3>1. CASE p \in s.deltas
      BY <2>7, <2>9, <3>1
    <3>2. CASE p \in old /\ J \in s.deltas
      BY <2>8, <3>2
    <3>3. CASE p \in old /\ J \in old
      BY <1>8, <1>9, <2>9, <3>3
    <3> QED BY <1>5, <3>1, <3>2, <3>3
  <2>10. client.bucket = "join"
    BY <2>1, <2>2 DEF Shows, ShowsEndOf
  <2>11. ASSUME NEW p \in new, \A q \in new : q <= p PROVE log[p].state <= client.state
    <3>1. p \in s.deltas
      <4>1. PICK q \in s.deltas : TRUE
        BY <1>11
      <4>2. p \notin old
        <5>1. SUFFICES ASSUME p \in old PROVE FALSE
          OBVIOUS
        <5>2. p < q /\ q <= p /\ p \in Nat /\ q \in Nat
          BY <1>4, <1>5, <1>6, <2>11, <4>1, <5>1
        <5> QED BY <5>2
      <4> QED BY <1>5, <4>2
    <3>2. p \in J..n
      BY <1>4, <1>7, <2>11
    <3>3. log[p].state \in log[p].told \cup {0}
      BY <1>4, <1>7, <3>2 DEF TellInv, DeltasTell
    <3>4. log[p].state \in view.told \cup {0}
      BY <2>2, <3>1, <3>3
    <3> QED BY <1>1, <2>1, <3>4 DEF Shows
  <2> QED BY <2>9, <2>10, <2>11
<1> QED BY <1>10, <1>11

KnowInv == \A d \in devices : Knows(clients[d])

LEMMA CommitKnows ==
  ASSUME StreamInv, NEW d \in Devices, Knows(clients[d]), NEW kind \in Kinds, Commit(kind)
  PROVE  Knows(clients[d])'
<1> DEFINE c == clients[d]
           n == Len(log)
           e == NewEvent(kind)
<1>1. /\ n \in Nat /\ Len(log') = n + 1 /\ log'[n + 1] = e /\ stream' = stream
      /\ clients' = clients /\ \A p \in 1..n : log'[p] = log[p]
  BY LogGrows
<1>2. CoveredBy(c.token)' = CoveredBy(c.token) /\ CoveredBy(c.token) \subseteq 1..n
  BY <1>1, CoveredAre, ClientsAreBehind DEF Behind, Clients, CoveredBy
<1>3. Now' = e
  BY <1>1 DEF Now, EventAt
<1>4. /\ kind \in MembershipKinds => e.member = n + 1
      /\ kind = "state" => e.bucket = Now.bucket /\ e.member = Now.member
      /\ kind \in MembershipKinds \/ kind = "state"
  BY NewEventTells DEF Kinds
<1> HIDE DEF e
<1>5. CASE kind \in MembershipKinds
  <2>1. Now'.member \notin CoveredBy(c.token)'
    BY <1>1, <1>2, <1>3, <1>4, <1>5
  <2> QED BY <1>1, <2>1 DEF Knows
<1>6. CASE kind = "state"
  <2>1. Now'.member = Now.member /\ Now'.bucket = Now.bucket
    BY <1>3, <1>4, <1>6
  <2>2. \A p \in CoveredBy(c.token) : log'[p] = log[p]
    BY <1>1, <1>2
  <2> QED BY <1>1, <1>2, <2>1, <2>2 DEF Knows
<1> QED BY <1>4, <1>5, <1>6

LEMMA GrowsKnows ==
  ASSUME StreamInv, NEW d \in Devices, Knows(clients[d]), Grows, log' = log, clients' = clients
  PROVE  Knows(clients[d])'
<1> DEFINE c == clients[d]
<1>1. \A i \in 1..c.token : stream'[i] = stream[i]
  <2>1. c.token \in Nat /\ c.token <= Len(stream) /\ Len(stream) \in Nat
    BY ClientsAreBehind, LenProperties DEF Behind, Clients, StreamInv, TypeOK
  <2> QED BY <2>1 DEF Grows
<1>2. CoveredBy(c.token)' = CoveredBy(c.token)
  BY <1>1 DEF CoveredBy
<1>3. Now' = Now
  BY DEF Now, EventAt
<1> QED BY <1>2, <1>3 DEF Knows

\* A step of one device changes what no other client knows.
LEMMA DeviceKnows ==
  ASSUME StreamInv, KnowInv, NEW d \in Devices, NEW client, NEW sync,
         DeviceStep(d, client, sync), devices' \ {d} \subseteq devices, devices' \subseteq Devices,
         d \in devices' => Knows(client)
  PROVE  KnowInv'
<1>1. log' = log /\ stream' = stream
  BY DEF DeviceStep
<1>2. ASSUME NEW e \in devices' PROVE Knows(clients'[e])
  BY <1>2 DEF DeviceStep, StreamInv, TypeOK, KnowInv
<1>3. ASSUME NEW e \in devices', Knows(clients'[e]) PROVE Knows(clients[e])'
  BY <1>1, <1>3 DEF Knows, CoveredBy, Now, EventAt
<1> QED BY <1>2, <1>3 DEF KnowInv

LEMMA AnswerKnows ==
  ASSUME History = "shared", StreamInv, TellInv, NoneOvertaken, PagesFit, KnowInv,
         NEW d \in Devices, Answer(d)
  PROVE  KnowInv'
<1>1. PICK client :
           /\ DeviceStep(d, client, NoSync) /\ Behind(client, NoSync)
           /\ client.token = syncs[d].upper /\ Remembers(clients[d], client)
           /\ IF InAnswer(syncs[d]) THEN Shows(client, Project(syncs[d]))
              ELSE client.bucket = clients[d].bucket /\ client.state = clients[d].state
  BY AnswerIs
<1>2. /\ syncs[d].collected /\ devices' = devices /\ client \in Clients
      /\ devices \subseteq Devices
  BY <1>1, AnswerIs DEF Behind, StreamInv, TypeOK
<1>3. ASSUME d \in devices PROVE Knows(client)
  <2>1. Knows(clients[d])
    BY <1>3 DEF KnowInv
  <2>2. CASE syncs[d].initial
    BY <1>1, <1>2, <2>2, InitialKnows
  <2>3. CASE ~syncs[d].initial
    BY <1>1, <1>2, <2>1, <2>3, LaterKnows
  <2> QED BY <2>2, <2>3
<1> QED BY <1>1, <1>2, <1>3, DeviceKnows

\* A client that has not synced knows nothing yet, and is expected to know nothing.
LEMMA DevicesKnow ==
  ASSUME StreamInv, KnowInv, NEW d \in Devices,
         \/ Login(d) \/ DeleteDevice(d) \/ StartOver(d) \/ Collect(d) \/ AnswerLost(d)
  PROVE  KnowInv'
<1>1. \A born : NewClient(born).synced = FALSE
  BY DEF NewClient
<1>2. \A client : ~client.synced => Knows(client)
  BY DEF Knows
<1>3. devices \subseteq Devices /\ (d \in devices => Knows(clients[d]))
  BY DEF StreamInv, TypeOK, KnowInv
<1>4. CASE Login(d)
  BY <1>1, <1>2, <1>3, <1>4, LoginIs, DeviceKnows
<1>5. CASE DeleteDevice(d)
  BY <1>1, <1>2, <1>3, <1>5, DeleteIs, DeviceKnows
<1>6. CASE StartOver(d)
  <2>1. PICK client : /\ DeviceStep(d, client, NoSync) /\ client.token = 0
                      /\ devices' = devices
    BY <1>6, StartOverIs
  <2>2. CoveredBy(client.token) = {}
    BY <2>1 DEF CoveredBy
  <2>3. Knows(client)
    BY <2>2 DEF Knows
  <2> QED BY <1>3, <2>1, <2>3, DeviceKnows
<1>7. CASE Collect(d)
  <2>1. PICK filter \in Filters : CollectSince(d, filter)
    BY <1>7 DEF Collect
  <2> QED BY <1>3, <2>1, CollectIs, DeviceKnows
<1>8. CASE AnswerLost(d)
  BY <1>3, <1>8, LostIs, DeviceKnows
<1> QED BY <1>4, <1>5, <1>6, <1>7, <1>8

LEMMA InitKnows == Init => KnowInv
<1> SUFFICES ASSUME Init PROVE KnowInv
  OBVIOUS
<1>1. \A d \in devices : clients[d].synced = FALSE
  BY DEF Init, NewClient
<1> QED BY <1>1 DEF KnowInv, Knows

LEMMA KnowNext ==
  ASSUME History = "shared"
  PROVE  StreamInv /\ TellInv /\ NoneOvertaken /\ PagesFit /\ KnowInv /\ [Next]_vars => KnowInv'
<1> SUFFICES ASSUME StreamInv, TellInv, NoneOvertaken, PagesFit, KnowInv, [Next]_vars
             PROVE  KnowInv'
  OBVIOUS
<1>0. devices \subseteq Devices
  BY DEF StreamInv, TypeOK
<1>1. CASE UNCHANGED vars
  BY <1>1 DEF vars, room, user, KnowInv, Knows, CoveredBy, Now, EventAt
<1>2. ASSUME NEW kind \in Kinds, Commit(kind) PROVE KnowInv'
  BY <1>0, <1>2, LogGrows, CommitKnows DEF KnowInv
<1>3. ASSUME NEW p \in 1..MaxLog, AppendRoomFanout(p) PROVE KnowInv'
  <2>1. log' = log /\ devices' = devices /\ clients' = clients /\ Grows
    BY <1>3, AppendTells DEF AppendRoomFanout, room, TellInv
  <2> QED BY <1>0, <2>1, GrowsKnows DEF KnowInv
<1>4. ASSUME NEW m \in Messages, NEW target \in Devices \cup {Everyone},
             EnqueueToDevice(m, target)
      PROVE  KnowInv'
  <2>1. log' = log /\ devices' = devices /\ clients' = clients /\ Grows
    BY <1>4, EnqueueStep DEF EnqueueToDevice, room
  <2> QED BY <1>0, <2>1, GrowsKnows DEF KnowInv
<1>5. ASSUME NEW d \in Devices,
             \/ Login(d) \/ DeleteDevice(d) \/ StartOver(d) \/ Collect(d) \/ AnswerLost(d)
      PROVE  KnowInv'
  BY <1>5, DevicesKnow
<1>6. ASSUME NEW d \in Devices, Answer(d) PROVE KnowInv'
  BY <1>6, AnswerKnows
<1> QED BY <1>1, <1>2, <1>3, <1>4, <1>5, <1>6 DEF Next

\* collectSince and projectForSync: in a room of shared history, while deltas
\* are handed over in order and no client is more than a page of the stream
\* behind, no event that a token has passed is missing from what the client saw
\* without a limited timeline to say so.
THEOREM GapsAreSignalled ==
  ASSUME History = "shared"
  PROVE  Spec /\ [](NoneOvertaken /\ PagesFit) => []NoSilentGap
<1>1. Init => SyncInv /\ KnowInv
  BY InitStream, InitTells, InitKnows DEF SyncInv, TellInv
<1>2. SyncInv /\ NoneOvertaken /\ PagesFit /\ KnowInv /\ [Next]_vars => SyncInv' /\ KnowInv'
  BY StreamNext, TellNext, KnowNext DEF SyncInv, TellInv
<1>3. SyncInv /\ KnowInv => NoSilentGap
  BY KnowsIs DEF SyncInv, KnowInv
<1> QED BY <1>1, <1>2, <1>3, PTL DEF Spec

\* And the client shows the room as joined, with the state as of the last event
\* its token covers, or newer.
THEOREM StateIsKept ==
  ASSUME History = "shared"
  PROVE  Spec /\ [](NoneOvertaken /\ PagesFit) => []StateKept
<1>1. Init => SyncInv /\ KnowInv
  BY InitStream, InitTells, InitKnows DEF SyncInv, TellInv
<1>2. SyncInv /\ NoneOvertaken /\ PagesFit /\ KnowInv /\ [Next]_vars => SyncInv' /\ KnowInv'
  BY StreamNext, TellNext, KnowNext DEF SyncInv, TellInv
<1>3. SyncInv /\ KnowInv => StateKept
  BY KnowsIs DEF SyncInv, KnowInv
<1> QED BY <1>1, <1>2, <1>3, PTL DEF Spec

-----------------------------------------------------------------------------
(* Delivery *)

\* A page holds what is queued for a device.
QueuesFit == \A d \in Devices : Cardinality(RowsOf(d)) <= PageLimit

LEMMA QueueIsFinite ==
  ASSUME StreamInv
  PROVE  IsFiniteSet(queue)
<1> DEFINE Row(i) == [device |-> stream[i].to, pos |-> i, message |-> stream[i].message]
           f == [i \in 1..Len(stream) |-> Row(i)]
           S == {f[i] : i \in 1..Len(stream)}
<1>1. Len(stream) \in Nat /\ queue \subseteq [device : Devices, pos : Nat, message : Messages]
  BY LenProperties DEF StreamInv, TypeOK
<1>2. IsFiniteSet(S)
  <2>1. IsFiniteSet(1..Len(stream))
    BY <1>1, FS_Interval
  <2>2. f \in Surjection(1..Len(stream), S)
    BY DEF Surjection
  <2> HIDE DEF f, S
  <2> QED BY <2>1, <2>2, FS_Surjection
<1>3. queue \subseteq S
  <2> SUFFICES ASSUME NEW r \in queue PROVE r \in S
    OBVIOUS
  <2>1. r.pos \in 1..Len(stream) /\ stream[r.pos] = DeviceEntry(r.device, r.message)
    BY DEF StreamInv, NobodyIsAhead
  <2>2. stream[r.pos].to = r.device /\ stream[r.pos].message = r.message
    BY <2>1 DEF DeviceEntry
  <2>3. r = [device |-> r.device, pos |-> r.pos, message |-> r.message]
    BY <1>1
  <2>4. r = f[r.pos]
    BY <2>1, <2>2, <2>3
  <2> QED BY <2>1, <2>4
<1> QED BY <1>2, <1>3, FS_Subset

\* A page holds every one of no more rows than it has room for.
LEMMA PageHoldsAll ==
  ASSUME NEW rows, IsFiniteSet(rows), NEW n \in Nat, Cardinality(rows) <= n,
         \A r \in rows : r.pos \in Nat
  PROVE  EarliestRows(n, rows) = rows
<1> DEFINE f == [r \in rows |-> r.pos]
           P == {f[r] : r \in rows}
<1>1. P = {s.pos : s \in rows}
  OBVIOUS
<1>2. IsFiniteSet(P) /\ Cardinality(P) <= Cardinality(rows)
  <2>1. f \in Surjection(rows, P)
    BY DEF Surjection
  <2> HIDE DEF f, P
  <2> QED BY <2>1, FS_Surjection
<1>3. Cardinality(P) \in Nat /\ Cardinality(rows) \in Nat
  BY <1>2, FS_CardinalityType
<1>4. ASSUME NEW p \in P PROVE Cardinality({q \in P : q < p}) < n
  <2> DEFINE Q == {q \in P : q < p}
  <2>1. p \in Nat /\ Q \subseteq P /\ p \notin Q
    BY <1>1
  <2> HIDE DEF Q, P
  <2>2. IsFiniteSet(Q) /\ Cardinality(Q) <= Cardinality(P) /\ Cardinality(Q) # Cardinality(P)
    BY <1>2, <2>1, FS_Subset
  <2>3. Cardinality(Q) \in Nat
    BY <2>2, FS_CardinalityType
  <2>4. Cardinality(Q) < n
    BY <1>2, <1>3, <2>2, <2>3
  <2> QED BY <2>4 DEF Q
<1>5. \A r \in rows : r.pos \in P
  BY <1>1
<1> HIDE DEF P, f
<1> QED BY <1>1, <1>4, <1>5 DEF EarliestRows, Earliest

\* What DeliveryInv says of the message at i, of a device and its client.
Delivered(i, d, client, sync, rows) ==
  LET message == stream[i].message
  IN  /\ message \in client.got \/ \E r \in rows : r.device = d /\ r.pos = i
      /\ i <= client.token => message \in client.got
      /\ sync.collected /\ i <= sync.upper => message \in client.got \cup sync.messages

LEMMA DeliveryIs ==
  DeliveryInv <=>
    \A d \in devices : \A i \in (clients[d].born + 1)..Len(stream) :
      stream[i].to = d => Delivered(i, d, clients[d], syncs[d], queue)
BY DEF DeliveryInv, NoMessageLost, TokensAreEarned, Delivered

LEMMA DeliveryIsPrimed ==
  ASSUME stream' = stream
  PROVE  DeliveryInv' <=>
           \A d \in devices' : \A i \in (clients'[d].born + 1)..Len(stream) :
             stream[i].to = d => Delivered(i, d, clients'[d], syncs'[d], queue')
BY DEF DeliveryInv, NoMessageLost, TokensAreEarned, Delivered

\* A step of one device: the others lose nothing, so it is about d alone.
LEMMA DeviceDelivers ==
  ASSUME StreamInv, DeliveryInv, NEW d \in Devices, NEW client, NEW sync,
         DeviceStep(d, client, sync),
         devices' \ {d} \subseteq devices, \A r \in queue : r.device # d => r \in queue',
         d \in devices' => \A i \in (client.born + 1)..Len(stream) :
                             stream[i].to = d => Delivered(i, d, client, sync, queue')
  PROVE  DeliveryInv'
<1> SUFFICES ASSUME NEW e \in devices', NEW i \in (clients'[e].born + 1)..Len(stream),
                    stream[i].to = e
             PROVE  Delivered(i, e, clients'[e], syncs'[e], queue')
  BY DeliveryIsPrimed DEF DeviceStep
<1>1. CASE e = d
  <2>1. clients'[d] = client /\ syncs'[d] = sync
    BY DEF DeviceStep, StreamInv, TypeOK
  <2> QED BY <1>1, <2>1
<1>2. CASE e # d
  <2>1. e \in devices /\ clients'[e] = clients[e] /\ syncs'[e] = syncs[e]
    BY <1>2 DEF DeviceStep, StreamInv, TypeOK
  <2>2. Delivered(i, e, clients[e], syncs[e], queue)
    BY <2>1, DeliveryIs
  <2> QED BY <1>2, <2>1, <2>2 DEF Delivered
<1> QED BY <1>1, <1>2

\* Nothing is in the stream for a device that has just been created.
LEMMA LoginDelivers ==
  ASSUME StreamInv, DeliveryInv, NEW d \in Devices, Login(d)
  PROVE  DeliveryInv'
<1>1. /\ DeviceStep(d, NewClient(Len(stream)), syncs[d]) /\ queue' = queue
      /\ devices' = devices \cup {d}
  BY LoginIs
<1>2. Len(stream) \in Nat /\ NewClient(Len(stream)).born = Len(stream)
  BY LenProperties DEF StreamInv, TypeOK, NewClient
<1>3. \A i \in (NewClient(Len(stream)).born + 1)..Len(stream) : FALSE
  BY <1>2
<1> QED BY <1>1, <1>3, DeviceDelivers

LEMMA DeleteDelivers ==
  ASSUME StreamInv, DeliveryInv, NEW d \in Devices, DeleteDevice(d)
  PROVE  DeliveryInv'
BY DeleteIs, DeviceDelivers

LEMMA StartOverDelivers ==
  ASSUME StreamInv, DeliveryInv, NEW d \in Devices, StartOver(d)
  PROVE  DeliveryInv'
<1>1. PICK client :
           /\ DeviceStep(d, client, NoSync) /\ client.born = clients[d].born
           /\ client.token = 0 /\ client.got = clients[d].got
           /\ queue' = queue /\ devices' = devices
  BY StartOverIs
<1>2. /\ NoSync.collected = FALSE /\ clients[d].born \in Nat /\ d \in devices
  BY ClientsAreBehind DEF NoSync, Behind, Clients, StartOver
<1>3. ASSUME NEW i \in (client.born + 1)..Len(stream), stream[i].to = d
      PROVE  Delivered(i, d, client, NoSync, queue')
  <2>1. Delivered(i, d, clients[d], syncs[d], queue)
    BY <1>1, <1>2, <1>3, DeliveryIs
  <2>2. ~(i <= client.token)
    BY <1>1, <1>2
  <2> QED BY <1>1, <1>2, <2>1, <2>2 DEF Delivered
<1> QED BY <1>1, <1>3, DeviceDelivers

\* What a token acknowledges its client has; all the rest is returned.
LEMMA CollectDelivers ==
  ASSUME StreamInv, DeliveryInv, QueuesFit, NEW d \in Devices, NEW filter \in Filters,
         CollectSince(d, filter)
  PROVE  DeliveryInv'
<1> DEFINE since == clients[d].token
<1>1. PICK sync :
           /\ DeviceStep(d, clients[d], sync)
           /\ sync.messages = {r.message : r \in Returned(d, since)}
           /\ sync.upper = Len(stream) /\ devices' = devices
           /\ queue' = queue \ Acknowledged(d, since)
  BY CollectIs
<1>2. /\ d \in devices /\ since \in Nat /\ PageLimit \in Nat /\ clients[d].born \in Nat
      /\ Len(stream) \in Nat
  BY ClientsAreBehind, LimitsArePositive, LenProperties
  DEF CollectSince, Behind, Clients, StreamInv, TypeOK
<1>3. Returned(d, since) = {r \in RowsOf(d) : r.pos > since}
  <2> DEFINE rows == {r \in RowsOf(d) : r.pos > since}
  <2>1. IsFiniteSet(RowsOf(d)) /\ Cardinality(RowsOf(d)) <= PageLimit
    BY QueueIsFinite, FS_Subset DEF RowsOf, QueuesFit
  <2>2. IsFiniteSet(rows) /\ Cardinality(rows) <= PageLimit
    <3>1. rows \subseteq RowsOf(d)
      OBVIOUS
    <3> HIDE DEF rows
    <3>2. IsFiniteSet(rows) /\ Cardinality(rows) <= Cardinality(RowsOf(d))
      BY <2>1, <3>1, FS_Subset
    <3>3. Cardinality(rows) \in Nat /\ Cardinality(RowsOf(d)) \in Nat
      BY <2>1, <3>2, FS_CardinalityType
    <3> QED BY <1>2, <2>1, <3>2, <3>3
  <2>3. \A r \in rows : r.pos \in Nat
    BY DEF StreamInv, TypeOK, RowsOf
  <2> HIDE DEF rows
  <2>4. EarliestRows(PageLimit, rows) = rows
    BY <1>2, <2>2, <2>3, PageHoldsAll
  <2> QED BY <2>4 DEF Returned, rows
<1>4. \A r \in Acknowledged(d, since) : r.device = d /\ r.pos <= since
  BY DEF Acknowledged, EarliestRows, RowsOf
<1>5. ASSUME NEW i \in (clients[d].born + 1)..Len(stream), stream[i].to = d
      PROVE  Delivered(i, d, clients[d], sync, queue')
  <2>1. Delivered(i, d, clients[d], syncs[d], queue)
    BY <1>2, <1>5, DeliveryIs
  <2>2. CASE i <= since
    BY <2>1, <2>2 DEF Delivered
  <2>3. CASE ~(i <= since)
    <3>1. CASE stream[i].message \in clients[d].got
      BY <2>3, <3>1 DEF Delivered
    <3>2. CASE stream[i].message \notin clients[d].got
      <4>1. PICK r \in queue : r.device = d /\ r.pos = i
        BY <2>1, <3>2 DEF Delivered
      <4>2. stream[i].message = r.message
        <5>1. stream[r.pos] = DeviceEntry(r.device, r.message)
          BY <4>1 DEF StreamInv, NobodyIsAhead
        <5>2. \A e, m : DeviceEntry(e, m).message = m
          BY DEF DeviceEntry
        <5> QED BY <4>1, <5>1, <5>2
      <4>3. i \in Nat /\ i > since
        BY <1>2, <2>3
      <4>4. r \in Returned(d, since)
        BY <1>3, <4>1, <4>3 DEF RowsOf
      <4>5. r \in queue'
        BY <1>1, <1>4, <2>3, <4>1
      <4>6. stream[i].message \in sync.messages
        BY <1>1, <4>2, <4>4
      <4> QED BY <2>3, <4>1, <4>5, <4>6 DEF Delivered
    <3> QED BY <3>1, <3>2
  <2> QED BY <2>2, <2>3
<1>6. \A r \in queue : r.device # d => r \in queue'
  BY <1>1, <1>4
<1> QED BY <1>1, <1>5, <1>6, DeviceDelivers

LEMMA AnswerDelivers ==
  ASSUME StreamInv, DeliveryInv, NEW d \in Devices, Answer(d)
  PROVE  DeliveryInv'
<1>1. PICK client :
           /\ DeviceStep(d, client, NoSync) /\ client.born = clients[d].born
           /\ client.token = syncs[d].upper
           /\ client.got = clients[d].got \cup syncs[d].messages
  BY AnswerIs
<1>2. syncs[d].collected /\ queue' = queue /\ devices' = devices /\ NoSync.collected = FALSE
  BY AnswerIs DEF NoSync
<1>3. ASSUME NEW i \in (client.born + 1)..Len(stream), d \in devices, stream[i].to = d
      PROVE  Delivered(i, d, client, NoSync, queue')
  <2>1. Delivered(i, d, clients[d], syncs[d], queue)
    BY <1>1, <1>3, DeliveryIs
  <2> QED BY <1>1, <1>2, <2>1 DEF Delivered
<1> QED BY <1>1, <1>2, <1>3, DeviceDelivers

LEMMA LostDelivers ==
  ASSUME StreamInv, DeliveryInv, NEW d \in Devices, AnswerLost(d)
  PROVE  DeliveryInv'
<1>1. /\ DeviceStep(d, clients[d], NoSync) /\ queue' = queue /\ devices' = devices
      /\ NoSync.collected = FALSE
  BY LostIs DEF NoSync
<1>2. ASSUME NEW i \in (clients[d].born + 1)..Len(stream), d \in devices, stream[i].to = d
      PROVE  Delivered(i, d, clients[d], NoSync, queue')
  BY <1>1, <1>2, DeliveryIs DEF Delivered
<1> QED BY <1>1, <1>2, DeviceDelivers

\* When the stream grows, what is new in it for a device is queued, and no token
\* is past it.
LEMMA GrowsDelivers ==
  ASSUME StreamInv, DeliveryInv, Grows, devices' = devices, syncs' = syncs, clients' = clients,
         queue \subseteq queue',
         \A i \in 1..Len(stream') \ 1..Len(stream) :
           stream'[i].to \in devices => \E r \in queue' : r.device = stream'[i].to /\ r.pos = i
  PROVE  DeliveryInv'
<1> DEFINE Old(i, d) == /\ \/ stream[i].message \in clients[d].got
                           \/ \E r \in queue : r.device = d /\ r.pos = i
                        /\ i <= clients[d].token => stream[i].message \in clients[d].got
                        /\ syncs[d].collected /\ i <= syncs[d].upper =>
                             stream[i].message \in clients[d].got \cup syncs[d].messages
           New(i, d) == /\ \/ stream'[i].message \in clients[d].got
                           \/ \E r \in queue' : r.device = d /\ r.pos = i
                        /\ i <= clients[d].token => stream'[i].message \in clients[d].got
                        /\ syncs[d].collected /\ i <= syncs[d].upper =>
                             stream'[i].message \in clients[d].got \cup syncs[d].messages
<1>1. ASSUME NEW d \in devices, NEW i \in (clients[d].born + 1)..Len(stream'), stream'[i].to = d
      PROVE  New(i, d)
  <2>1. /\ d \in Devices /\ clients[d].born \in Nat /\ clients[d].token \in Nat
        /\ syncs[d].upper \in Nat /\ clients[d].token <= Len(stream)
        /\ syncs[d].upper <= Len(stream) /\ Len(stream) \in Nat /\ Len(stream') \in Nat
    BY ClientsAreBehind DEF StreamInv, TypeOK, Behind, Clients, Syncs, Grows
  <2>2. i \in Nat /\ i \in 1..Len(stream') /\ i > clients[d].born
    BY <2>1
  <2>3. CASE i <= Len(stream)
    <3>1. stream'[i] = stream[i] /\ i \in (clients[d].born + 1)..Len(stream)
      BY <2>1, <2>2, <2>3 DEF Grows
    <3>2. Old(i, d)
      BY <1>1, <3>1 DEF DeliveryInv, NoMessageLost, TokensAreEarned
    <3> QED BY <3>1, <3>2
  <2>4. CASE ~(i <= Len(stream))
    <3>1. i \in 1..Len(stream') \ 1..Len(stream)
      BY <2>1, <2>2, <2>4
    <3>2. \E r \in queue' : r.device = d /\ r.pos = i
      BY <1>1, <3>1
    <3>3. ~(i <= clients[d].token) /\ ~(i <= syncs[d].upper)
      BY <2>1, <2>2, <2>4
    <3> QED BY <3>2, <3>3
  <2> QED BY <2>3, <2>4
<1> QED BY <1>1 DEF DeliveryInv, NoMessageLost, TokensAreEarned

LEMMA CommitDelivers ==
  ASSUME StreamInv, DeliveryInv, NEW kind \in Kinds, Commit(kind)
  PROVE  DeliveryInv'
BY DEF Commit, user, DeliveryInv, NoMessageLost, TokensAreEarned

LEMMA AppendDelivers ==
  ASSUME StreamInv, DeliveryInv, NEW p \in 1..MaxLog, AppendRoomFanout(p)
  PROVE  DeliveryInv'
<1> DEFINE entry == RoomEntry(p)
<1>1. stream' = Append(stream, entry) /\ UNCHANGED <<devices, queue, syncs, clients>>
  BY DEF AppendRoomFanout
<1>2. stream \in Seq(Entries) /\ Len(stream) \in Nat /\ p \in 0..MaxLog
  BY LenProperties, BoundsAreNat DEF StreamInv, TypeOK
<1>3. entry \in Entries /\ entry.to = Nobody
  BY <1>2 DEF Entries, RoomEntry
<1> HIDE DEF entry
<1>4. /\ stream' \in Seq(Entries) /\ Len(stream') = Len(stream) + 1
      /\ stream'[Len(stream) + 1] = entry
      /\ \A i \in 1..Len(stream) : stream'[i] = stream[i]
  BY <1>1, <1>2, <1>3, AppendProperties
<1>5. Grows
  BY <1>2, <1>4 DEF Grows
<1>6. Nobody \notin devices
  BY DevicesAreDevices DEF StreamInv, TypeOK
<1>7. \A i \in 1..Len(stream') \ 1..Len(stream) : stream'[i].to \notin devices
  BY <1>2, <1>3, <1>4, <1>6
<1> QED BY <1>1, <1>5, <1>7, GrowsDelivers

LEMMA EnqueueDelivers ==
  ASSUME StreamInv, DeliveryInv, NEW m \in Messages, NEW target, EnqueueToDevice(m, target)
  PROVE  DeliveryInv'
<1>1. devices' = devices /\ syncs' = syncs /\ clients' = clients /\ queue \subseteq queue'
  BY DEF EnqueueToDevice
<1>2. /\ Grows
      /\ \A i \in 1..Len(stream') \ 1..Len(stream) :
           \E r \in queue' : r.device = stream'[i].to /\ r.pos = i
  BY EnqueueStep
<1> QED BY <1>1, <1>2, GrowsDelivers

LEMMA InitDelivers == Init => DeliveryInv
<1> SUFFICES ASSUME Init PROVE DeliveryInv
  OBVIOUS
<1>1. Len(stream) = 0 /\ \A d \in devices : clients[d].born = 0
  BY DEF Init, NewClient
<1> QED BY <1>1 DEF DeliveryInv, NoMessageLost, TokensAreEarned

LEMMA DeliveryNext ==
  StreamInv /\ QueuesFit /\ DeliveryInv /\ [Next]_vars => DeliveryInv'
<1> SUFFICES ASSUME StreamInv, QueuesFit, DeliveryInv, [Next]_vars PROVE DeliveryInv'
  OBVIOUS
<1>1. CASE UNCHANGED vars
  BY <1>1 DEF vars, user, DeliveryInv, NoMessageLost, TokensAreEarned
<1>2. ASSUME NEW kind \in Kinds, Commit(kind) PROVE DeliveryInv'
  BY <1>2, CommitDelivers
<1>3. ASSUME NEW p \in 1..MaxLog, AppendRoomFanout(p) PROVE DeliveryInv'
  BY <1>3, AppendDelivers
<1>4. ASSUME NEW m \in Messages, NEW target \in Devices \cup {Everyone},
             EnqueueToDevice(m, target)
      PROVE  DeliveryInv'
  BY <1>4, EnqueueDelivers
<1>5. ASSUME NEW d \in Devices, Login(d) \/ DeleteDevice(d) \/ StartOver(d) PROVE DeliveryInv'
  BY <1>5, LoginDelivers, DeleteDelivers, StartOverDelivers
<1>6. ASSUME NEW d \in Devices, Collect(d) PROVE DeliveryInv'
  BY <1>6, CollectDelivers DEF Collect
<1>7. ASSUME NEW d \in Devices, Answer(d) \/ AnswerLost(d) PROVE DeliveryInv'
  BY <1>7, AnswerDelivers, LostDelivers
<1> QED BY <1>1, <1>2, <1>3, <1>4, <1>5, <1>6, <1>7 DEF Next

\* collectSince, enqueueToDevice and deleteDevices: while the messages queued
\* for each device fit into one page of 10 000 rows, what the token of a client,
\* or the token of the answer on its way to it, has passed is in what the client
\* received, or in that answer.
THEOREM TokensPassNoMessage == Spec /\ []QueuesFit => []DeliveryInv
BY InitStream, StreamNext, InitDelivers, DeliveryNext, PTL DEF Spec

\* Then no message accepted for a device is ever lost to it: it is queued until
\* the device's client has received it, however many answers are lost before.
THEOREM NoMessageIsLost == Spec /\ []QueuesFit => []NoMessageLost
BY TokensPassNoMessage, PTL DEF DeliveryInv
=============================================================================
