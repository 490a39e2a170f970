------------------------ MODULE RoomAdmissionProofs ------------------------
(***************************************************************************)
(* Proofs about RoomAdmission, for any users, requests and number of       *)
(* handlers.  LogInv is inductive whatever is redacted; the membership     *)
(* projection agrees with the log, and what depends on that holds, as long *)
(* as no membership event is redacted.                                     *)
(***************************************************************************)
EXTENDS RoomAdmission, SequenceTheorems, TLAPS

-----------------------------------------------------------------------------
(* Requests and their events *)

\* Only a membership change is about a user.
LEMMA RequestFacts ==
  ASSUME NEW r \in AllRequests
  PROVE  /\ r.sender \in Users
         /\ IsMembership(r) => /\ r.about \in Users /\ Membership(r) \in Memberships
                               /\ r.route \notin {"send", "redact"}
         /\ ~IsMembership(r) /\ r.route \notin {"send", "redact"} => r.about \in {Rules, Create}
         /\ r.route = "redact" => r.arg \in 1..MaxEvents
<1>1. CASE r \in Requests
  BY <1>1 DEF Requests, IsMembership, MembershipRoutes, ClientMembershipRoutes, Membership, Memberships
<1>2. CASE r \in {Bootstrap[i] : i \in Steps}
  BY <1>2, CreatorIsUser DEF Bootstrap, Steps, Request, IsMembership, MembershipRoutes,
                             ClientMembershipRoutes, Membership, Memberships
<1> QED BY <1>1, <1>2 DEF AllRequests

\* The fields of an event.
LEMMA EventFacts ==
  ASSUME NEW r
  PROVE  /\ Event(r).by = r /\ Event(r).sender = r.sender
         /\ Event(r).type = IF IsMembership(r) THEN "member" ELSE r.route
         /\ Event(r).slot = IF r.route \in {"send", "redact"} THEN "none" ELSE r.about
         /\ Event(r).content = IF IsMembership(r) THEN Membership(r) ELSE r.arg
         /\ Event(r).reason = r.arg
BY DEF Event

\* An event that holds a slot of the state, and one that holds a membership.
LEMMA SlotFacts ==
  ASSUME NEW r \in AllRequests
  PROVE  /\ Event(r).slot # "none" => Event(r).slot \in Slots
         /\ Event(r).slot \in Users => IsMembership(r) /\ Event(r).type = "member"
         /\ IsMembership(r) => Event(r).slot = r.about
BY RequestFacts, EventFacts, SlotsApart DEF Slots, Rules, Create

LEMMA LogFacts ==
  ASSUME TypeOK
  PROVE  /\ Len(log) \in Nat /\ log \in Seq({Event(r) : r \in AllRequests})
         /\ \A i \in 1..Len(log) : log[i].by \in AllRequests /\ log[i] = Event(log[i].by)
<1>1. Len(log) \in Nat
  BY DEF TypeOK
<1>2. \A i \in 1..Len(log) : log[i].by \in AllRequests /\ log[i] = Event(log[i].by)
  BY DEF TypeOK
<1>3. log \in [1..Len(log) -> {Event(r) : r \in AllRequests}]
  BY <1>2 DEF TypeOK
<1> QED BY <1>1, <1>2, <1>3, SeqDef

-----------------------------------------------------------------------------
(* Answers *)

LEMMA AnswerFacts ==
  ASSUME NEW r
  PROVE  /\ Answer(r) = Fresh => Key(r) \notin DOMAIN dedupe /\ Authorized(r)
         /\ Answer(r).verdict = "commit" => Answer(r) = Fresh
         /\ Answer(r).verdict = "accepted" =>
              \/ IsNoOp(r) /\ Answer(r).pos = snapshot[r.about]
              \/ /\ Key(r) \in DOMAIN dedupe /\ dedupe[Key(r)].by = r /\ dedupe[Key(r)].ok
                 /\ Answer(r).pos = dedupe[Key(r)].pos
BY DEF Answer, Decide, Fresh, Accepted, Refused

\* What a redaction that is authorized is of.
LEMMA RedactionFacts ==
  ASSUME NEW r \in AllRequests, r.route = "redact", Authorized(r)
  PROVE  r.arg \in 1..Len(log)
<1>1. MayRedact(r.sender, r.arg)
  BY DEF Authorized
<1> QED BY <1>1, RequestFacts DEF MayRedact

LEMMA RecordFacts ==
  ASSUME NEW r, NEW ok, NEW pos, Record(r, ok, pos)
  PROVE  /\ DOMAIN dedupe' = DOMAIN dedupe \cup {Key(r)}
         /\ dedupe'[Key(r)] = [by |-> r, ok |-> ok, pos |-> pos]
         /\ \A k \in DOMAIN dedupe \ {Key(r)} : dedupe'[k] = dedupe[k]
BY DEF Record

-----------------------------------------------------------------------------
(* The transaction of an admission *)

\* The tables of the room, as in TypeOK.
RoomTyped ==
  /\ Len(log) \in 0..MaxEvents /\ log = [i \in 1..Len(log) |-> Event(log[i].by)]
  /\ \A i \in 1..Len(log) : log[i].by \in AllRequests
  /\ erased \subseteq 1..Len(log)
  /\ snapshot \in [Slots -> 0..Len(log)]
  /\ projection \in [Users -> [is : Memberships \cup {"none"}, pos : 0..Len(log)]]
  /\ \A k \in DOMAIN dedupe : dedupe[k] \in Rows

\* The part of LogInv that is about the tables of the room.
RoomInv == RoomTyped /\ SnapshotHoldsSlots /\ RowsNameTheirEvent /\ KeysKept /\ CommittedOnce

LogGrows ==
  Len(log) <= Len(log)' /\ \A i \in 1..Len(log) : i \in 1..Len(log)' /\ log'[i] = log[i]

\* What every commit does.
Commits(r) ==
  /\ log' = Append(log, Event(r))
  /\ Record(r, TRUE, Len(log) + 1)

LEMMA CommitLog ==
  ASSUME TypeOK, NEW r \in AllRequests, Commits(r), Len(log) + 1 <= MaxEvents
  PROVE  /\ Len(log)' = Len(log) + 1 /\ Len(log)' \in 0..MaxEvents
         /\ LogGrows /\ log'[Len(log) + 1] = Event(r)
         /\ log' = [i \in 1..Len(log)' |-> Event(log'[i].by)]
         /\ \A i \in 1..Len(log)' : /\ i \in 1..Len(log) \/ i = Len(log) + 1
                                    /\ log'[i].by \in AllRequests
<1> DEFINE n == Len(log)
<1>1. n \in Nat /\ log \in Seq({Event(q) : q \in AllRequests})
  BY LogFacts
<1>2. \A i \in 1..n : log[i].by \in AllRequests /\ log[i] = Event(log[i].by)
  BY LogFacts
<1>3. /\ log' \in Seq({Event(q) : q \in AllRequests}) /\ Len(log') = n + 1
      /\ log'[n + 1] = Event(r) /\ \A i \in 1..n : log'[i] = log[i]
  BY <1>1 DEF Commits
<1>4. \A i \in 1..(n + 1) : i \in 1..n \/ i = n + 1
  BY <1>1
<1>5. \A i \in 1..(n + 1) : log'[i].by \in AllRequests /\ log'[i] = Event(log'[i].by)
  BY <1>2, <1>3, <1>4, EventFacts
<1>6. log' = [i \in 1..(n + 1) |-> log'[i]]
  BY <1>1, <1>3
<1>7. log' = [i \in 1..(n + 1) |-> Event(log'[i].by)]
  BY <1>5, <1>6
<1>8. LogGrows /\ n + 1 \in 0..MaxEvents
  BY <1>1, <1>3, BoundsAreNat DEF LogGrows
<1> QED BY <1>3, <1>4, <1>5, <1>7, <1>8

\* The rows after a commit name events, also the new one.
LEMMA CommitRows ==
  ASSUME LogInv, NEW r \in AllRequests, Commits(r), Len(log) + 1 <= MaxEvents
  PROVE  (\A k \in DOMAIN dedupe : dedupe[k] \in Rows)' /\ RowsNameTheirEvent'
<1> DEFINE n == Len(log)
           row == [by |-> r, ok |-> TRUE, pos |-> n + 1]
<1>1. TypeOK /\ RowsNameTheirEvent
  BY DEF LogInv
<1>2. /\ n \in Nat /\ Len(log)' = n + 1 /\ LogGrows /\ log'[n + 1] = Event(r)
  BY <1>1, CommitLog, LogFacts
<1>3. row \in Rows' /\ row.ok /\ row.by = r /\ row.pos = n + 1
  BY <1>2 DEF Rows
<1>4. /\ DOMAIN dedupe' = DOMAIN dedupe \cup {Key(r)} /\ dedupe'[Key(r)] = row
      /\ \A k \in DOMAIN dedupe \ {Key(r)} : dedupe'[k] = dedupe[k]
  <2>1. Record(r, TRUE, n + 1)
    BY DEF Commits
  <2>2. DOMAIN dedupe' = DOMAIN dedupe \cup {Key(r)}
    BY <2>1, RecordFacts
  <2>3. dedupe'[Key(r)] = row
    BY <2>1 DEF Record
  <2>4. \A k \in DOMAIN dedupe \ {Key(r)} : dedupe'[k] = dedupe[k]
    BY <2>1, RecordFacts
  <2> QED BY <2>2, <2>3, <2>4
<1> HIDE DEF row
<1>5. \A k \in DOMAIN dedupe : dedupe[k] \in Rows'
  BY <1>1, <1>2 DEF TypeOK, Rows
<1>6. \A k \in DOMAIN dedupe' : dedupe'[k] \in Rows'
  BY <1>3, <1>4, <1>5
<1>7. ASSUME NEW k \in DOMAIN dedupe', dedupe'[k].ok
      PROVE  dedupe'[k].pos \in 1..Len(log)' /\ log'[dedupe'[k].pos].by = dedupe'[k].by
  <2>1. CASE k = Key(r)
    BY <2>1, <1>2, <1>3, <1>4, EventFacts
  <2>2. CASE k # Key(r)
    <3>1. k \in DOMAIN dedupe /\ dedupe'[k] = dedupe[k]
      BY <2>2, <1>4
    <3>2. dedupe[k].pos \in 1..n /\ log[dedupe[k].pos].by = dedupe[k].by
      BY <1>1, <1>7, <3>1 DEF RowsNameTheirEvent
    <3> QED BY <1>2, <3>1, <3>2 DEF LogGrows
  <2> QED BY <2>1, <2>2
<1>8. RowsNameTheirEvent'
  BY <1>7 DEF RowsNameTheirEvent
<1> QED BY <1>6, <1>8

\* A request commits when its key is not there, so it is the first of its key.
LEMMA CommitOnce ==
  ASSUME LogInv, NEW r \in AllRequests, Commits(r), Len(log) + 1 <= MaxEvents,
         Answer(r) = Fresh
  PROVE  KeysKept' /\ CommittedOnce'
<1> DEFINE n == Len(log)
           Id(q) == <<q.sender, q.route, q.about>>
<1>1. TypeOK /\ KeysKept /\ CommittedOnce
  BY DEF LogInv
<1>2. /\ n \in Nat /\ Len(log)' = n + 1 /\ LogGrows /\ log'[n + 1] = Event(r)
      /\ \A i \in 1..Len(log)' : i \in 1..n \/ i = n + 1
  BY <1>1, CommitLog, LogFacts
<1>3. log'[n + 1].by = r
  BY <1>2, EventFacts
<1>4. Key(r) \notin DOMAIN dedupe /\ DOMAIN dedupe' = DOMAIN dedupe \cup {Key(r)}
  BY AnswerFacts, RecordFacts DEF Commits
<1>5. ~IsMembership(r) => Key(r) = Id(r)
  BY DEF Key
<1>6. \A i \in 1..n : ~IsMembership(log[i].by) => Id(log[i].by) \in DOMAIN dedupe
  BY <1>1 DEF KeysKept
<1> HIDE DEF Id
<1>7. ASSUME NEW i \in 1..Len(log)', ~IsMembership(log'[i].by)
      PROVE  Id(log'[i].by) \in DOMAIN dedupe'
  <2>1. CASE i \in 1..n
    BY <1>2, <1>4, <1>6, <1>7, <2>1 DEF LogGrows
  <2>2. CASE i = n + 1
    BY <1>3, <1>4, <1>5, <1>7, <2>2
  <2> QED BY <1>2, <2>1, <2>2
<1>8. KeysKept'
  BY <1>7 DEF KeysKept, Id
<1>9. ASSUME NEW i \in 1..Len(log)', NEW j \in 1..Len(log)',
             ~IsMembership(log'[i].by), ~IsMembership(log'[j].by),
             Id(log'[i].by) = Id(log'[j].by)
      PROVE  i = j
  <2>1. CASE i \in 1..n /\ j \in 1..n
    <3>1. Id(log[i].by) = Id(log[j].by) => i = j
      BY <1>1, <1>2, <1>9, <2>1 DEF CommittedOnce, LogGrows, Id
    <3> QED BY <1>2, <1>9, <2>1, <3>1 DEF LogGrows
  <2>2. CASE i \in 1..n /\ j = n + 1
    BY <1>2, <1>3, <1>4, <1>5, <1>6, <1>9, <2>2 DEF LogGrows
  <2>3. CASE i = n + 1 /\ j \in 1..n
    BY <1>2, <1>3, <1>4, <1>5, <1>6, <1>9, <2>3 DEF LogGrows
  <2>4. CASE i = n + 1 /\ j = n + 1
    BY <2>4
  <2> QED BY <1>2, <2>1, <2>2, <2>3, <2>4
<1>10. CommittedOnce'
  BY <1>9 DEF CommittedOnce, Id
<1> QED BY <1>8, <1>10

\* The event that takes a slot in the snapshot.
LEMMA CommitSlots ==
  ASSUME LogInv, NEW r \in AllRequests, Commits(r), Len(log) + 1 <= MaxEvents,
         NEW slot, NEW pos \in 1..(Len(log) + 1), log'[pos].slot = slot,
         slot # "none" => slot \in Slots,
         snapshot' = IF slot = "none" THEN snapshot ELSE [snapshot EXCEPT ![slot] = pos]
  PROVE  snapshot' \in [Slots -> 0..Len(log)'] /\ SnapshotHoldsSlots'
<1>1. TypeOK /\ SnapshotHoldsSlots
  BY DEF LogInv
<1>2. Len(log) \in Nat /\ Len(log)' = Len(log) + 1 /\ LogGrows
  BY <1>1, CommitLog, LogFacts
<1>3. snapshot \in [Slots -> 0..Len(log)] /\ snapshot \in [Slots -> 0..Len(log)']
  BY <1>1, <1>2 DEF TypeOK
<1>4. snapshot' \in [Slots -> 0..Len(log)']
  BY <1>2, <1>3
<1>5. ASSUME NEW s \in Slots, snapshot'[s] # 0
      PROVE  log'[snapshot'[s]].slot = s
  <2>1. CASE s = slot /\ slot # "none"
    BY <1>3, <2>1
  <2>2. CASE snapshot'[s] = snapshot[s]
    <3>1. snapshot[s] \in 1..Len(log) /\ log[snapshot[s]].slot = s
      BY <1>1, <1>3, <1>5, <2>2 DEF SnapshotHoldsSlots
    <3> QED BY <1>2, <2>2, <3>1 DEF LogGrows
  <2> QED BY <1>3, <2>1, <2>2
<1>6. SnapshotHoldsSlots'
  BY <1>5 DEF SnapshotHoldsSlots
<1> QED BY <1>4, <1>6

LEMMA CommitEventKeeps ==
  ASSUME LogInv, NEW r \in AllRequests, Answer(r) = Fresh, CommitEvent(r)
  PROVE  RoomInv' /\ Commits(r) /\ Len(log) + 1 <= MaxEvents
<1> DEFINE n == Len(log)
           row == [is |-> Membership(r), pos |-> n + 1]
<1>1. TypeOK
  BY DEF LogInv
<1>2. /\ Commits(r) /\ n + 1 <= MaxEvents /\ UNCHANGED erased
      /\ snapshot' = IF Event(r).slot = "none" THEN snapshot
                     ELSE [snapshot EXCEPT ![Event(r).slot] = n + 1]
      /\ projection' = Project(r, n + 1)
  BY DEF CommitEvent, Commits
<1>3. /\ n \in Nat /\ Len(log)' = n + 1 /\ Len(log)' \in 0..MaxEvents /\ log'[n + 1] = Event(r)
      /\ log' = [i \in 1..Len(log)' |-> Event(log'[i].by)]
      /\ \A i \in 1..Len(log)' : log'[i].by \in AllRequests
  BY <1>1, <1>2, CommitLog, LogFacts
<1>4. snapshot' \in [Slots -> 0..Len(log)'] /\ SnapshotHoldsSlots'
  <2>1. Event(r).slot # "none" => Event(r).slot \in Slots
    BY SlotFacts
  <2>2. n + 1 \in 1..(n + 1)
    BY <1>3
  <2> QED BY <1>2, <1>3, <2>1, <2>2, CommitSlots
<1>5. /\ (\A k \in DOMAIN dedupe : dedupe[k] \in Rows)' /\ RowsNameTheirEvent'
      /\ KeysKept' /\ CommittedOnce'
  BY <1>2, CommitRows, CommitOnce
<1>6. projection' \in [Users -> [is : Memberships \cup {"none"}, pos : 0..Len(log)']]
  <2>1. projection \in [Users -> [is : Memberships \cup {"none"}, pos : 0..Len(log)']]
    BY <1>1, <1>3 DEF TypeOK
  <2>2. CASE ~IsMembership(r)
    BY <1>2, <2>1, <2>2 DEF Project
  <2>3. CASE IsMembership(r)
    <3>1. projection' = [projection EXCEPT ![r.about] = row]
      BY <1>2, <2>3 DEF Project
    <3>2. row \in [is : Memberships \cup {"none"}, pos : 0..Len(log)']
      BY <1>3, <2>3, RequestFacts
    <3> QED BY <2>1, <3>1, <3>2
  <2> QED BY <2>2, <2>3
<1>7. erased' \subseteq 1..Len(log)'
  BY <1>1, <1>2, <1>3 DEF TypeOK
<1> QED BY <1>2, <1>3, <1>4, <1>5, <1>6, <1>7 DEF RoomInv, RoomTyped

LEMMA CommitRedactionKeeps ==
  ASSUME LogInv, NEW r \in AllRequests, Answer(r) = Fresh, CommitRedaction(r)
  PROVE  /\ RoomInv' /\ Commits(r) /\ Len(log) + 1 <= MaxEvents
         /\ r.arg \in 1..Len(log) /\ log[r.arg].type \in Redactable
         /\ erased' = erased \cup {r.arg} /\ UNCHANGED projection
         /\ snapshot' = IF log[r.arg].slot = "none" THEN snapshot
                        ELSE [snapshot EXCEPT ![log[r.arg].slot] = r.arg]
<1> DEFINE n == Len(log)
<1>1. TypeOK
  BY DEF LogInv
<1>2. /\ Commits(r) /\ n + 1 <= MaxEvents /\ r.route = "redact" /\ log[r.arg].type \in Redactable
      /\ erased' = erased \cup {r.arg} /\ UNCHANGED projection
      /\ snapshot' = IF log[r.arg].slot = "none" THEN snapshot
                     ELSE [snapshot EXCEPT ![log[r.arg].slot] = r.arg]
  BY DEF CommitRedaction, Commits
<1>3. /\ n \in Nat /\ Len(log)' = n + 1 /\ Len(log)' \in 0..MaxEvents /\ LogGrows
      /\ log' = [i \in 1..Len(log)' |-> Event(log'[i].by)]
      /\ \A i \in 1..Len(log)' : log'[i].by \in AllRequests
  BY <1>1, <1>2, CommitLog, LogFacts
<1>4. r.arg \in 1..n
  BY <1>2, AnswerFacts, RedactionFacts
<1>5. snapshot' \in [Slots -> 0..Len(log)'] /\ SnapshotHoldsSlots'
  <2>1. log[r.arg].by \in AllRequests /\ log[r.arg] = Event(log[r.arg].by)
    BY <1>1, <1>4, LogFacts
  <2>2. log[r.arg].slot # "none" => log[r.arg].slot \in Slots
    BY <2>1, SlotFacts
  <2>3. r.arg \in 1..(n + 1) /\ log'[r.arg].slot = log[r.arg].slot
    BY <1>3, <1>4 DEF LogGrows
  <2> QED BY <1>2, <1>3, <2>2, <2>3, CommitSlots
<1>6. /\ (\A k \in DOMAIN dedupe : dedupe[k] \in Rows)' /\ RowsNameTheirEvent'
      /\ KeysKept' /\ CommittedOnce'
  BY <1>2, CommitRows, CommitOnce
<1>7. projection' \in [Users -> [is : Memberships \cup {"none"}, pos : 0..Len(log)']]
  BY <1>1, <1>2, <1>3 DEF TypeOK
<1>8. erased' \subseteq 1..Len(log)'
  <2>1. erased \subseteq 1..n /\ 1..n \subseteq 1..(n + 1)
    BY <1>1, <1>3 DEF TypeOK
  <2>2. erased' = erased \cup {r.arg} /\ Len(log)' = n + 1
    BY <1>2, <1>3
  <2> QED BY <1>4, <2>1, <2>2
<1> QED BY <1>2, <1>3, <1>4, <1>5, <1>6, <1>7, <1>8 DEF RoomInv, RoomTyped

\* A refusal that is recorded keeps the key and forgets the event.
LEMMA RefuseKeeps ==
  ASSUME LogInv, NEW r \in AllRequests, Refuse(r)
  PROVE  RoomInv' /\ LogGrows
<1> DEFINE row == [by |-> r, ok |-> FALSE, pos |-> 0]
<1>1. TypeOK /\ SnapshotHoldsSlots /\ RowsNameTheirEvent /\ KeysKept /\ CommittedOnce
  BY DEF LogInv
<1>2. UNCHANGED <<log, erased, snapshot, projection>> /\ Len(log) \in Nat
  BY <1>1, LogFacts DEF Refuse
<1>3. row \in Rows /\ ~row.ok
  BY <1>2 DEF Rows
<1>4. /\ DOMAIN dedupe' = DOMAIN dedupe \cup {Key(r)} /\ dedupe'[Key(r)] = row
      /\ \A k \in DOMAIN dedupe \ {Key(r)} : dedupe'[k] = dedupe[k]
  BY DEF Refuse, Record
<1> HIDE DEF row
<1>5. \A k \in DOMAIN dedupe' : dedupe'[k] \in Rows
  BY <1>1, <1>3, <1>4 DEF TypeOK
<1>6. Rows' = Rows
  BY <1>2 DEF Rows
<1>7. RoomTyped'
  BY <1>1, <1>2, <1>5, <1>6 DEF TypeOK, RoomTyped
<1>8. SnapshotHoldsSlots' /\ CommittedOnce'
  BY <1>1, <1>2 DEF SnapshotHoldsSlots, CommittedOnce
<1>9. RowsNameTheirEvent'
  BY <1>1, <1>2, <1>3, <1>4 DEF RowsNameTheirEvent
<1>10. KeysKept'
  BY <1>1, <1>2, <1>4 DEF KeysKept
<1>11. LogGrows
  BY <1>2 DEF LogGrows
<1> QED BY <1>7, <1>8, <1>9, <1>10, <1>11 DEF RoomInv

\* The room without a step of its own.
LEMMA RoomStays ==
  ASSUME LogInv, UNCHANGED room
  PROVE  RoomInv' /\ LogGrows
<1>1. UNCHANGED <<log, erased, snapshot, projection, dedupe>>
  BY DEF room
<1>2. TypeOK /\ Len(log) \in Nat
  BY LogFacts DEF LogInv
<1>3. RoomTyped'
  BY <1>1, <1>2 DEF TypeOK, RoomTyped, Rows
<1> QED BY <1>1, <1>2, <1>3 DEF LogInv, RoomInv, LogGrows, SnapshotHoldsSlots, RowsNameTheirEvent,
                                KeysKept, CommittedOnce

LEMMA AdmitKeeps ==
  ASSUME LogInv, NEW r \in AllRequests, AdmitEvent(r, Answer(r))
  PROVE  /\ RoomInv' /\ LogGrows
         /\ Answer(r) = Fresh => Len(log)' = Len(log) + 1 /\ log'[Len(log)'] = Event(r)
<1>1. TypeOK
  BY DEF LogInv
<1>2. CASE Answer(r) = Fresh /\ (CommitEvent(r) \/ CommitRedaction(r))
  <2>1. RoomInv' /\ Commits(r) /\ Len(log) + 1 <= MaxEvents
    BY <1>2, CommitEventKeeps, CommitRedactionKeeps
  <2> QED BY <1>1, <2>1, CommitLog
<1>3. CASE Answer(r).verdict \in {"forbidden", "conflict"} /\ Refuse(r)
  <2>1. Answer(r) # Fresh
    BY <1>3 DEF Fresh
  <2> QED BY <1>3, <2>1, RefuseKeeps
<1> QED BY <1>2, <1>3 DEF AdmitEvent

-----------------------------------------------------------------------------
(* The creation of the room *)

LEMMA BootstrapFacts ==
  /\ Steps = 1..4 /\ Len(Bootstrap) = 4
  /\ \A i \in Steps : /\ Bootstrap[i] \in AllRequests /\ Bootstrap[i].sender = Creator
                      /\ Bootstrap[i].route \notin {"send", "redact"}
<1>1. Steps = 1..4 /\ Len(Bootstrap) = 4
  BY DEF Steps, Bootstrap
<1>2. \A i \in Steps : Bootstrap[i].sender = Creator /\ Bootstrap[i].route \notin {"send", "redact"}
  BY <1>1 DEF Bootstrap, Request
<1> QED BY <1>1, <1>2 DEF AllRequests

\* An event that the log has had stays in it.
LEMMA HadForGood ==
  ASSUME LogGrows
  PROVE  \A i \in Steps : HasHad(i) => HasHad(i)'
<1> SUFFICES ASSUME NEW i \in Steps, NEW k \in 1..Len(log),
                    log[k].sender = Creator, log[k].slot = Bootstrap[i].about,
                    log[k].content = Event(Bootstrap[i]).content
             PROVE  HasHad(i)'
  BY DEF HasHad
<1>1. k \in 1..Len(log)' /\ log'[k] = log[k]
  BY DEF LogGrows
<1> QED BY <1>1 DEF HasHad

\* The event of a step itself is one.
LEMMA OwnEventCounts ==
  ASSUME NEW i \in Steps, NEW k \in 1..Len(log), log[k] = Event(Bootstrap[i])
  PROVE  HasHad(i)
BY BootstrapFacts, EventFacts DEF HasHad

\* An admission that was accepted without a commit has had its event.
LEMMA AcceptedHasHad ==
  ASSUME LogInv, NEW i \in Steps, Answer(Bootstrap[i]).verdict = "accepted"
  PROVE  HasHad(i)
<1> DEFINE r == Bootstrap[i]
<1>1. TypeOK /\ SnapshotHoldsSlots /\ RowsNameTheirEvent
  BY DEF LogInv
<1>2. r \in AllRequests /\ r.sender = Creator
  BY BootstrapFacts
<1>3. CASE IsNoOp(r)
  <2> DEFINE pos == snapshot[r.about]
  <2>1. IsMembership(r) /\ pos # 0 /\ log[pos].sender = Creator /\ log[pos].content = Membership(r)
    BY <1>2, <1>3 DEF IsNoOp
  <2>2. r.about \in Slots
    BY <1>2, <2>1, RequestFacts DEF Slots
  <2>3. pos \in 1..Len(log) /\ log[pos].slot = r.about
    BY <1>1, <2>1, <2>2, LogFacts DEF TypeOK, SnapshotHoldsSlots
  <2> QED BY <2>1, <2>3, EventFacts DEF HasHad
<1>4. CASE Key(r) \in DOMAIN dedupe /\ dedupe[Key(r)].by = r /\ dedupe[Key(r)].ok
  <2> DEFINE pos == dedupe[Key(r)].pos
  <2>1. pos \in 1..Len(log) /\ log[pos].by = r
    BY <1>1, <1>4 DEF RowsNameTheirEvent
  <2>2. log[pos] = Event(r)
    BY <1>1, <2>1, LogFacts
  <2> QED BY <2>1, <2>2, OwnEventCounts
<1> QED BY <1>3, <1>4, AnswerFacts

\* What a step of a handler or of the registry keeps of the creation.
CreationTyped ==
  /\ registry \in {"absent", "marked", "present"} /\ created \in BOOLEAN
  /\ creations \in [Creations -> [pc : {"admit", "register"}, step : Steps]]

CreationInv == CreationTyped /\ StepsAreDone /\ CreatedIsComplete

\* The log grows and no handler goes on.
LEMMA CreationStays ==
  ASSUME CreationInv, LogGrows, UNCHANGED <<creations, created>>,
         registry' \in {registry, "present"} \/ (registry = "absent" /\ registry' = "marked")
  PROVE  CreationInv'
<1>1. \A i \in Steps : HasHad(i) => HasHad(i)'
  BY HadForGood
<1>2. CreationTyped'
  BY DEF CreationInv, CreationTyped
<1>3. registry = "present" => registry' = "present"
  OBVIOUS
<1>4. StepsAreDone'
  BY <1>1, <1>3 DEF CreationInv, StepsAreDone, At
<1>5. CreatedIsComplete'
  BY <1>1, <1>3 DEF CreationInv, CreatedIsComplete
<1> QED BY <1>2, <1>4, <1>5 DEF CreationInv

\* A handler begins again.
LEMMA StopKeeps ==
  ASSUME CreationInv, LogGrows, NEW h \in Creations, Stop(h), UNCHANGED created,
         registry' = registry \/ (registry = "absent" /\ registry' = "marked")
  PROVE  CreationInv'
<1>1. \A i \in Steps : HasHad(i) => HasHad(i)'
  BY HadForGood
<1>2. creations' = [creations EXCEPT ![h] = Start]
  BY DEF Stop
<1>3. Start \in [pc : {"admit", "register"}, step : Steps] /\ Start.pc = "admit" /\ Start.step = 1
  BY BootstrapFacts DEF Start
<1> HIDE DEF Start
<1>4. /\ creations' \in [Creations -> [pc : {"admit", "register"}, step : Steps]]
      /\ creations'[h] = Start /\ \A g \in Creations : g # h => creations'[g] = creations[g]
  BY <1>2, <1>3 DEF CreationInv, CreationTyped
<1>5. CreationTyped'
  BY <1>4 DEF CreationInv, CreationTyped
<1>6. StepsAreDone'
  <2> SUFFICES ASSUME NEW g \in Creations
               PROVE  /\ \A i \in Steps : \/ i < creations'[g].step
                                          \/ i = creations'[g].step /\ creations'[g].pc = "register"
                                          => HasHad(i)'
                      /\ creations'[g].step > 1 => registry' = "present"
    BY DEF StepsAreDone, At
  <2>1. CASE g = h
    BY <1>3, <1>4, <2>1, BootstrapFacts
  <2>2. CASE g # h
    BY <1>1, <1>4, <2>2 DEF CreationInv, StepsAreDone, At
  <2> QED BY <2>1, <2>2
<1>7. CreatedIsComplete'
  BY <1>1 DEF CreationInv, CreatedIsComplete
<1> QED BY <1>5, <1>6, <1>7 DEF CreationInv

\* A step of a handler whose event is in the log goes to its registration.
LEMMA AdmittedKeeps ==
  ASSUME CreationInv, LogGrows, NEW h \in Creations, NEW i \in Steps, i = creations[h].step, HasHad(i)',
         creations' \in [Creations -> [pc : {"admit", "register"}, step : Steps]],
         \A g \in Creations : creations'[g].step = creations[g].step,
         \A g \in Creations : g # h => creations'[g].pc = creations[g].pc,
         registry' = registry, created' = created
  PROVE  CreationInv'
<1>1. \A j \in Steps : HasHad(j) => HasHad(j)'
  BY HadForGood
<1>2. CreationTyped'
  BY DEF CreationInv, CreationTyped
<1>3. StepsAreDone'
  <2> SUFFICES ASSUME NEW g \in Creations
               PROVE  /\ \A j \in Steps : \/ j < creations'[g].step
                                          \/ j = creations'[g].step /\ creations'[g].pc = "register"
                                          => HasHad(j)'
                      /\ creations'[g].step > 1 => registry' = "present"
    BY DEF StepsAreDone, At
  <2> QED BY <1>1 DEF CreationInv, StepsAreDone, At
<1>4. CreatedIsComplete'
  BY <1>1 DEF CreationInv, CreatedIsComplete
<1> QED BY <1>2, <1>3, <1>4 DEF CreationInv

\* A handler goes on once the room is registered.
LEMMA GoesOnKeeps ==
  ASSUME CreationInv, UNCHANGED room, NEW h \in Creations, EnsureRegistry(h)
  PROVE  CreationInv'
<1> DEFINE c == creations[h]
           next == Advanced(h)
<1>1. /\ creations' = [creations EXCEPT ![h] = next] /\ created' = (created \/ c.step = 4)
      /\ registry' = "present" /\ c.pc = "register"
  BY BootstrapFacts DEF EnsureRegistry, GoesOn, Registered, At
<1>2. \A i \in Steps : HasHad(i)' = HasHad(i)
  BY DEF room, HasHad
<1>3. creations \in [Creations -> [pc : {"admit", "register"}, step : Steps]] /\ c.step \in 1..4
  BY BootstrapFacts DEF CreationInv, CreationTyped
<1>4. /\ next \in [pc : {"admit", "register"}, step : Steps] /\ next.pc = "admit"
      /\ next.step = IF c.step = 4 THEN 1 ELSE c.step + 1
  BY <1>3, BootstrapFacts DEF Advanced, Start
<1> HIDE DEF next
<1>5. /\ creations' \in [Creations -> [pc : {"admit", "register"}, step : Steps]]
      /\ creations'[h] = next /\ \A g \in Creations : g # h => creations'[g] = creations[g]
  BY <1>1, <1>3, <1>4
<1>6. \A i \in Steps : i <= c.step => HasHad(i)
  BY <1>1, <1>3, BootstrapFacts DEF CreationInv, StepsAreDone, At
<1>7. CreationTyped'
  BY <1>1, <1>5 DEF CreationInv, CreationTyped
<1>8. StepsAreDone'
  <2> SUFFICES ASSUME NEW g \in Creations, NEW i \in Steps,
                      \/ i < creations'[g].step
                      \/ i = creations'[g].step /\ creations'[g].pc = "register"
               PROVE  HasHad(i)
    BY <1>1, <1>2 DEF StepsAreDone, At
  <2>1. CASE g = h
    BY <1>3, <1>4, <1>5, <1>6, <2>1, BootstrapFacts
  <2>2. CASE g # h
    BY <1>5, <2>2 DEF CreationInv, StepsAreDone, At
  <2> QED BY <2>1, <2>2
<1>9. CreatedIsComplete'
  <2> SUFFICES ASSUME created', NEW i \in Steps
               PROVE  HasHad(i)
    BY <1>1, <1>2 DEF CreatedIsComplete
  <2>1. CASE created
    BY <2>1 DEF CreationInv, CreatedIsComplete
  <2>2. CASE c.step = 4
    BY <2>2, <1>6, BootstrapFacts
  <2> QED BY <1>1, <2>1, <2>2
<1> QED BY <1>7, <1>8, <1>9 DEF CreationInv

-----------------------------------------------------------------------------
(* LogInv is inductive *)

LEMMA LogInvParts == LogInv => RoomInv /\ CreationInv
BY DEF LogInv, RoomInv, CreationInv, RoomTyped, CreationTyped, TypeOK

LEMMA LogInvWhole ==
  ASSUME RoomInv', CreationInv'
  PROVE  LogInv'
BY DEF LogInv, RoomInv, CreationInv, RoomTyped, CreationTyped, TypeOK

LEMMA AdmitStepKeeps ==
  ASSUME LogInv, NEW h \in Creations, AdmitStep(h)
  PROVE  LogInv'
<1>1. TypeOK /\ CreationInv /\ creations[h].step \in Steps
  BY LogInvParts DEF LogInv, TypeOK
<1> PICK i \in Steps : i = creations[h].step
  BY <1>1
<1> DEFINE r == Bootstrap[i]
<1>2. r \in AllRequests
  BY <1>1, BootstrapFacts
<1>3. /\ AdmitEvent(r, Answer(r)) \/ (Answer(r).verdict \in {"accepted", "recorded"} /\ UNCHANGED room)
      /\ UNCHANGED <<registry, created>>
      /\ Answer(r).verdict \notin {"commit", "accepted"} => Stop(h)
  BY DEF AdmitStep
<1>4. RoomInv' /\ LogGrows
  BY <1>2, <1>3, AdmitKeeps, RoomStays
<1>5. ASSUME Answer(r).verdict \in {"commit", "accepted"}
      PROVE  /\ creations' \in [Creations -> [pc : {"admit", "register"}, step : Steps]]
             /\ \A g \in Creations : creations'[g].step = creations[g].step
             /\ \A g \in Creations : g # h => creations'[g].pc = creations[g].pc
  <2>1. creations' = [creations EXCEPT ![h].pc = "register"]
    BY <1>5 DEF AdmitStep
  <2>2. creations \in [Creations -> [pc : {"admit", "register"}, step : Steps]]
    BY <1>1 DEF TypeOK
  <2>3. creations' \in [Creations -> [pc : {"admit", "register"}, step : Steps]]
    BY <2>1, <2>2
  <2>4. \A g \in Creations : creations'[g].step = creations[g].step
    BY <2>1, <2>2
  <2>5. \A g \in Creations : g # h => creations'[g].pc = creations[g].pc
    BY <2>1, <2>2
  <2> QED BY <2>3, <2>4, <2>5
<1>6. CASE Answer(r).verdict = "commit"
  <2>1. AdmitEvent(r, Answer(r)) /\ Answer(r) = Fresh
    BY <1>3, <1>6, AnswerFacts
  <2>2. Len(log)' = Len(log) + 1 /\ log'[Len(log)'] = Event(r)
    BY <1>2, <2>1, AdmitKeeps
  <2>3. Len(log)' \in 1..Len(log)'
    BY <1>1, <2>2, LogFacts
  <2>4. HasHad(i)'
    BY <1>1, <2>2, <2>3, BootstrapFacts, EventFacts DEF HasHad
  <2>5. UNCHANGED <<registry, created>>
    BY <1>3
  <2>6. CreationInv'
    BY <1>1, <1>4, <1>5, <1>6, <2>4, <2>5, AdmittedKeeps
  <2> QED BY <1>4, <2>6, LogInvWhole
<1>7. CASE Answer(r).verdict = "accepted"
  <2>1. HasHad(i)
    BY <1>1, <1>7, AcceptedHasHad
  <2>2. HasHad(i)'
    BY <1>1, <1>4, <2>1, HadForGood
  <2>3. UNCHANGED <<registry, created>>
    BY <1>3
  <2>4. CreationInv'
    BY <1>1, <1>4, <1>5, <1>7, <2>2, <2>3, AdmittedKeeps
  <2> QED BY <1>4, <2>4, LogInvWhole
<1>8. CASE Answer(r).verdict \notin {"commit", "accepted"}
  BY <1>1, <1>3, <1>4, <1>8, StopKeeps, LogInvWhole
<1> QED BY <1>6, <1>7, <1>8

LEMMA NextKeepsLog ==
  ASSUME LogInv, [Next]_vars
  PROVE  LogInv'
<1>1. CreationInv
  BY LogInvParts
<1>2. CASE UNCHANGED vars
  <2>1. UNCHANGED room /\ UNCHANGED <<registry, creations, created>>
    BY <1>2 DEF vars
  <2> QED BY <1>1, <2>1, RoomStays, CreationStays, LogInvWhole
<1>3. CASE ClientStep
  <2>1. PICK r \in ClientRequests : AdmitEvent(r, Answer(r))
    BY <1>3 DEF ClientStep
  <2>2. r \in AllRequests
    BY DEF ClientRequests, AllRequests
  <2>3. RoomInv' /\ LogGrows
    BY <2>1, <2>2, AdmitKeeps
  <2> QED BY <1>1, <1>3, <2>3, CreationStays, LogInvWhole DEF ClientStep
<1>4. CASE ClientRegistry
  BY <1>1, <1>4, RoomStays, CreationStays, LogInvWhole DEF ClientRegistry, Registered, LeavesMarker
<1>5. CASE RetryPendingShardRegistry
  BY <1>1, <1>5, RoomStays, CreationStays, LogInvWhole DEF RetryPendingShardRegistry, Registered
<1>6. ASSUME NEW h \in Creations, AdmitStep(h)
      PROVE  LogInv'
  BY <1>6, AdmitStepKeeps
<1>7. ASSUME NEW h \in Creations, EnsureRegistry(h)
      PROVE  LogInv'
  BY <1>1, <1>7, RoomStays, GoesOnKeeps, LogInvWhole DEF EnsureRegistry
<1>8. ASSUME NEW h \in Creations, EnsureRegistryFails(h)
      PROVE  LogInv'
  BY <1>1, <1>8, RoomStays, StopKeeps, LogInvWhole DEF EnsureRegistryFails, LeavesMarker
<1>9. ASSUME NEW h \in Creations, CreationLost(h)
      PROVE  LogInv'
  BY <1>1, <1>9, RoomStays, StopKeeps, LogInvWhole DEF CreationLost
<1> QED BY <1>2, <1>3, <1>4, <1>5, <1>6, <1>7, <1>8, <1>9 DEF Next, HandleCreateRoom

LEMMA InitLog ==
  ASSUME Init
  PROVE  LogInv
<1>1. Len(log) = 0 /\ 1..Len(log) = {} /\ DOMAIN dedupe = {}
  BY DEF Init
<1>2. log = [i \in 1..Len(log) |-> Event(log[i].by)]
  BY <1>1 DEF Init
<1>3. Start \in [pc : {"admit", "register"}, step : Steps] /\ Start.pc = "admit" /\ Start.step = 1
  BY BootstrapFacts DEF Start
<1>4. TypeOK
  <2>1. /\ Len(log) \in 0..MaxEvents /\ erased \subseteq 1..Len(log)
        /\ \A i \in 1..Len(log) : log[i].by \in AllRequests
    BY <1>1, BoundsAreNat DEF Init
  <2>2. snapshot \in [Slots -> 0..Len(log)]
    BY <1>1 DEF Init
  <2>3. projection \in [Users -> [is : Memberships \cup {"none"}, pos : 0..Len(log)]]
    BY <1>1 DEF Init
  <2>4. creations \in [Creations -> [pc : {"admit", "register"}, step : Steps]]
    BY <1>3 DEF Init
  <2> QED BY <1>1, <1>2, <2>1, <2>2, <2>3, <2>4 DEF Init, TypeOK
<1>5. \A h \in Creations : creations[h].pc = "admit" /\ creations[h].step = 1
  BY <1>3 DEF Init
<1>6. StepsAreDone
  BY <1>5, BootstrapFacts DEF StepsAreDone, At
<1>7. SnapshotHoldsSlots /\ RowsNameTheirEvent /\ KeysKept /\ CommittedOnce /\ CreatedIsComplete
  BY <1>1 DEF Init, SnapshotHoldsSlots, RowsNameTheirEvent, KeysKept, CommittedOnce, CreatedIsComplete
<1> QED BY <1>4, <1>6, <1>7 DEF LogInv

\* Whatever is redacted, the log, the rows that replay it and the handlers that
\* create the room stay in step.
THEOREM LogInvariant == Spec => []LogInv
<1>1. Init => LogInv
  BY InitLog
<1>2. LogInv /\ [Next]_vars => LogInv'
  BY NextKeepsLog
<1> QED BY <1>1, <1>2, PTL DEF Spec

\* A send, a redaction or a state write commits at most one event for its key.
THEOREM CommitsOnce == Spec => []CommittedOnce
<1>1. LogInv => CommittedOnce
  BY DEF LogInv
<1> QED BY <1>1, LogInvariant, PTL

\* A room whose creation was answered with success is registered and has had
\* every event of it.
THEOREM CreationIsComplete == Spec => []CreatedIsComplete
<1>1. LogInv => CreatedIsComplete
  BY DEF LogInv
<1> QED BY <1>1, LogInvariant, PTL

-----------------------------------------------------------------------------
(* The membership projection, as long as no membership event is redacted:  *)
(* redacting one takes its content from the log and its user back to it    *)
(* in the snapshot, and leaves the projection as it is.                    *)

MembersStay == "member" \notin Redactable

\* An admission gives a user the new event of its membership, or leaves the user.
Settles(r, u) ==
  \/ /\ snapshot'[u] = snapshot[u] /\ projection'[u] = projection[u]
     /\ snapshot[u] \in erased' <=> snapshot[u] \in erased
  \/ /\ IsMembership(r) /\ u = r.about /\ Answer(r) = Fresh
     /\ snapshot'[u] = Len(log) + 1 /\ snapshot'[u] \notin erased'
     /\ projection'[u] = [is |-> Membership(r), pos |-> Len(log) + 1]
     /\ log'[Len(log) + 1] = Event(r)

LEMMA CommitSettles ==
  ASSUME LogInv, NEW r \in AllRequests, Answer(r) = Fresh, CommitEvent(r), NEW u \in Users
  PROVE  Settles(r, u)
<1> DEFINE n == Len(log)
           slot == Event(r).slot
<1>1. TypeOK /\ n \in Nat
  BY LogFacts DEF LogInv
<1>2. /\ UNCHANGED erased /\ projection' = Project(r, n + 1)
      /\ snapshot' = IF slot = "none" THEN snapshot ELSE [snapshot EXCEPT ![slot] = n + 1]
      /\ Commits(r) /\ n + 1 <= MaxEvents
  BY DEF CommitEvent, Commits
<1>3. log'[n + 1] = Event(r)
  BY <1>1, <1>2, CommitLog
<1>4. /\ snapshot \in [Slots -> 0..n] /\ Users \subseteq Slots /\ erased \subseteq 1..n
      /\ DOMAIN projection = Users
  BY <1>1 DEF TypeOK, Slots
<1>5. slot \in Users => IsMembership(r)
  BY SlotFacts
<1>6. IsMembership(r) => slot = r.about /\ r.about \in Users /\ slot # "none"
  BY SlotFacts, RequestFacts, SlotsApart
<1> HIDE DEF slot
<1>7. CASE IsMembership(r) /\ u = r.about
  <2>1. snapshot'[u] = n + 1
    BY <1>2, <1>4, <1>6, <1>7
  <2>2. n + 1 \notin erased'
    BY <1>1, <1>2, <1>4
  <2>3. projection'[u] = [is |-> Membership(r), pos |-> n + 1]
    BY <1>2, <1>4, <1>7 DEF Project
  <2> QED BY <1>3, <1>7, <2>1, <2>2, <2>3 DEF Settles
<1>8. CASE ~(IsMembership(r) /\ u = r.about)
  <2>1. u # slot
    BY <1>5, <1>6, <1>8
  <2>2. snapshot'[u] = snapshot[u]
    BY <1>2, <1>4, <2>1
  <2>3. projection'[u] = projection[u]
    BY <1>2, <1>4, <1>6, <1>8 DEF Project
  <2> QED BY <1>2, <2>2, <2>3 DEF Settles
<1> QED BY <1>7, <1>8

LEMMA RedactionSettles ==
  ASSUME MembersStay, LogInv, NEW r \in AllRequests, Answer(r) = Fresh, CommitRedaction(r),
         NEW u \in Users
  PROVE  Settles(r, u)
<1> DEFINE e == log[r.arg]
<1>1. TypeOK /\ SnapshotHoldsSlots
  BY DEF LogInv
<1>2. /\ r.arg \in 1..Len(log) /\ e.type \in Redactable
      /\ erased' = erased \cup {r.arg} /\ UNCHANGED projection
      /\ snapshot' = IF e.slot = "none" THEN snapshot ELSE [snapshot EXCEPT ![e.slot] = r.arg]
  BY CommitRedactionKeeps
<1>3. e.by \in AllRequests /\ e = Event(e.by)
  BY <1>1, <1>2, LogFacts
<1>4. e.type # "member"
  BY <1>2 DEF MembersStay
<1>5. e.slot \notin Users
  BY <1>3, <1>4, SlotFacts
<1> HIDE DEF e
<1>6. snapshot \in [Slots -> 0..Len(log)] /\ u \in Slots
  BY <1>1 DEF TypeOK, Slots
<1>7. snapshot'[u] = snapshot[u]
  BY <1>2, <1>5, <1>6
<1>8. snapshot[u] # r.arg
  <2>1. ASSUME snapshot[u] = r.arg
        PROVE  FALSE
    <3>1. r.arg # 0
      BY <1>2, <1>1, LogFacts
    <3>2. e.slot = u
      BY <1>1, <1>6, <2>1, <3>1 DEF SnapshotHoldsSlots, e
    <3> QED BY <1>5, <3>2
  <2> QED BY <2>1
<1> QED BY <1>2, <1>7, <1>8 DEF Settles

\* What an admission does to each user.
LEMMA AdmissionSettles ==
  ASSUME MembersStay, LogInv, NEW r \in AllRequests, AdmitEvent(r, Answer(r)), NEW u \in Users
  PROVE  Settles(r, u)
<1>1. CASE Answer(r) = Fresh /\ CommitEvent(r)
  BY <1>1, CommitSettles
<1>2. CASE Answer(r) = Fresh /\ CommitRedaction(r)
  BY <1>2, RedactionSettles
<1>3. CASE Refuse(r)
  BY <1>3 DEF Refuse, Settles
<1> QED BY <1>1, <1>2, <1>3 DEF AdmitEvent

LEMMA ViewsKeep ==
  ASSUME LogInv, ViewsAgree, LogGrows, NEW r \in AllRequests, \A u \in Users : Settles(r, u)
  PROVE  ViewsAgree'
<1>1. TypeOK /\ Len(log) \in Nat
  BY LogFacts DEF LogInv
<1> SUFFICES ASSUME NEW u \in Users
             PROVE  /\ projection'[u].pos = snapshot'[u]
                    /\ projection'[u].is = IF snapshot'[u] = 0 \/ snapshot'[u] \in erased' THEN "none"
                                           ELSE log'[snapshot'[u]].content
  BY DEF ViewsAgree, Content
<1>2. projection[u].is = Content(u) /\ projection[u].pos = snapshot[u]
  BY DEF ViewsAgree
<1>3. snapshot[u] \in 0..Len(log)
  BY <1>1 DEF TypeOK, Slots
<1>4. CASE /\ snapshot'[u] = snapshot[u] /\ projection'[u] = projection[u]
           /\ snapshot[u] \in erased' <=> snapshot[u] \in erased
  <2>1. snapshot[u] # 0 => log'[snapshot[u]] = log[snapshot[u]]
    BY <1>1, <1>3 DEF LogGrows
  <2> QED BY <1>2, <1>4, <2>1 DEF Content
<1>5. CASE /\ IsMembership(r) /\ u = r.about
           /\ snapshot'[u] = Len(log) + 1 /\ snapshot'[u] \notin erased'
           /\ projection'[u] = [is |-> Membership(r), pos |-> Len(log) + 1]
           /\ log'[Len(log) + 1] = Event(r)
  BY <1>1, <1>5, EventFacts
<1> QED BY <1>4, <1>5 DEF Settles

\* The key of a succeeded row names an earlier membership than the current one.
LEMMA SpentKeep ==
  ASSUME LogInv, SpentKeys, NEW r \in AllRequests, \A u \in Users : Settles(r, u),
         AdmitEvent(r, Answer(r))
  PROVE  SpentKeys'
<1> DEFINE n == Len(log)
           Spent(q, k, last) == \E pos \in 0..(last - 1) : k = <<q.sender, q.route, q.about, q.arg, pos>>
<1>1. TypeOK /\ n \in Nat
  BY LogFacts DEF LogInv
<1>2. \A u \in Users : snapshot[u] \in 0..n /\ snapshot'[u] \in Nat /\ snapshot[u] <= snapshot'[u]
  BY <1>1 DEF TypeOK, Slots, Settles
<1>3. ASSUME NEW k \in DOMAIN dedupe, dedupe[k].ok, IsMembership(dedupe[k].by)
      PROVE  Spent(dedupe[k].by, k, snapshot'[dedupe[k].by.about])
  <2>1. dedupe[k].by \in AllRequests
    BY <1>1 DEF TypeOK, Rows
  <2>2. dedupe[k].by.about \in Users
    BY <1>3, <2>1, RequestFacts
  <2>3. PICK pos \in 0..(snapshot[dedupe[k].by.about] - 1) :
          k = <<dedupe[k].by.sender, dedupe[k].by.route, dedupe[k].by.about, dedupe[k].by.arg, pos>>
    BY <1>3 DEF SpentKeys
  <2>4. pos \in 0..(snapshot'[dedupe[k].by.about] - 1)
    BY <1>2, <2>2
  <2> QED BY <2>3, <2>4
<1>4. CASE Answer(r) = Fresh /\ (CommitEvent(r) \/ CommitRedaction(r))
  <2>1. Record(r, TRUE, n + 1)
    BY <1>4 DEF CommitEvent, CommitRedaction
  <2>2. /\ DOMAIN dedupe' = DOMAIN dedupe \cup {Key(r)} /\ dedupe'[Key(r)].by = r
        /\ \A k \in DOMAIN dedupe \ {Key(r)} : dedupe'[k] = dedupe[k]
    BY <2>1 DEF Record
  <2>3. ASSUME IsMembership(r)
        PROVE  Spent(r, Key(r), snapshot'[r.about])
    <3>1. CommitEvent(r) /\ r.about \in Users /\ r.route \notin {"send", "redact"}
      BY <1>4, <2>3, RequestFacts DEF CommitRedaction
    <3>2. snapshot' = [snapshot EXCEPT ![r.about] = n + 1]
      BY <2>3, <3>1, SlotFacts, SlotsApart DEF CommitEvent
    <3>3. snapshot'[r.about] = n + 1 /\ snapshot[r.about] \in 0..n
      BY <1>1, <1>2, <3>1, <3>2 DEF TypeOK, Slots
    <3>4. Key(r) = <<r.sender, r.route, r.about, r.arg, snapshot[r.about]>>
      BY <2>3 DEF Key
    <3>5. snapshot[r.about] \in 0..(snapshot'[r.about] - 1)
      BY <1>1, <3>3
    <3> QED BY <3>4, <3>5
  <2> HIDE DEF Spent
  <2>4. \A k \in DOMAIN dedupe' : dedupe'[k].ok /\ IsMembership(dedupe'[k].by) =>
          Spent(dedupe'[k].by, k, snapshot'[dedupe'[k].by.about])
    BY <1>3, <2>2, <2>3
  <2> QED BY <2>4 DEF SpentKeys, Spent
<1>5. CASE Refuse(r)
  <2>1. /\ DOMAIN dedupe' = DOMAIN dedupe \cup {Key(r)} /\ ~dedupe'[Key(r)].ok
        /\ \A k \in DOMAIN dedupe \ {Key(r)} : dedupe'[k] = dedupe[k]
    BY <1>5 DEF Refuse, Record
  <2> HIDE DEF Spent
  <2>2. \A k \in DOMAIN dedupe' : dedupe'[k].ok /\ IsMembership(dedupe'[k].by) =>
          Spent(dedupe'[k].by, k, snapshot'[dedupe'[k].by.about])
    BY <1>3, <2>1
  <2> QED BY <2>2 DEF SpentKeys, Spent
<1> QED BY <1>4, <1>5 DEF AdmitEvent

\* A ban of u ends only by the leave of somebody who outranks u.
BanKept(u) ==
  projection[u].is = "ban" /\ projection'[u].is # "ban" =>
    /\ projection'[u].is = "leave"
    /\ Outranks(log'[projection'[u].pos].sender, u)

\* Who joins or knocks does so for itself.
ForItself(r) == r.route \in {"join", "creator_join", "knock"} => r.about = r.sender

LEMMA BansKeep ==
  ASSUME ViewsAgree, NEW r \in AllRequests, ForItself(r), NEW u \in Users, Settles(r, u)
  PROVE  BanKept(u)
<1> SUFFICES ASSUME projection[u].is = "ban", projection'[u].is # "ban"
             PROVE  /\ projection'[u].is = "leave"
                    /\ Outranks(log'[projection'[u].pos].sender, u)
  BY DEF BanKept
<1>1. Content(u) = "ban"
  BY DEF ViewsAgree
<1>2. /\ IsMembership(r) /\ u = r.about /\ Answer(r) = Fresh
      /\ projection'[u].is = Membership(r) /\ projection'[u].pos = Len(log) + 1
      /\ log'[Len(log) + 1].sender = r.sender
  BY EventFacts DEF Settles
<1>3. Authorized(r)
  BY <1>2, AnswerFacts
<1>4. r.route # "ban"
  BY <1>2 DEF Membership
<1>5. r.route \notin {"join", "creator_join"}
  BY <1>1, <1>2, <1>3 DEF Authorized, MayJoin, ForItself
<1>6. r.route # "knock"
  BY <1>1, <1>2, <1>3 DEF Authorized, MayKnock, ForItself
<1>7. r.route \notin {"invite", "create_invite"}
  BY <1>1, <1>2, <1>3 DEF Authorized, MayInvite
<1>8. r.route \in {"leave", "unban", "kick"}
  BY <1>2, <1>4, <1>5, <1>6, <1>7 DEF IsMembership, MembershipRoutes, ClientMembershipRoutes
<1>9. MayRemove(r.sender, u, r.route)
  BY <1>2, <1>3, <1>8 DEF Authorized
<1>10. Outranks(r.sender, u)
  BY <1>1, <1>9 DEF MayRemove
<1> QED BY <1>2, <1>8, <1>10 DEF Membership

\* A step that admits nothing leaves every user as it is.
LEMMA ViewsStay ==
  ASSUME AdmissionInv, UNCHANGED room
  PROVE  ViewsAgree' /\ SpentKeys' /\ \A u \in Users : BanKept(u)
BY DEF AdmissionInv, room, ViewsAgree, SpentKeys, Content, BanKept

LEMMA AdmitKeepsViews ==
  ASSUME MembersStay, AdmissionInv, NEW r \in AllRequests, ForItself(r), AdmitEvent(r, Answer(r))
  PROVE  ViewsAgree' /\ SpentKeys' /\ \A u \in Users : BanKept(u)
<1>1. LogInv /\ ViewsAgree /\ SpentKeys
  BY DEF AdmissionInv
<1>2. LogGrows
  BY <1>1, AdmitKeeps
<1>3. \A u \in Users : Settles(r, u)
  BY <1>1, AdmissionSettles
<1>4. ViewsAgree'
  BY <1>1, <1>2, <1>3, ViewsKeep
<1>5. SpentKeys'
  BY <1>1, <1>3, SpentKeep
<1>6. \A u \in Users : BanKept(u)
  BY <1>1, <1>3, BansKeep
<1> QED BY <1>4, <1>5, <1>6

LEMMA NextKeepsViews ==
  ASSUME MembersStay, AdmissionInv, Next
  PROVE  ViewsAgree' /\ SpentKeys' /\ \A u \in Users : BanKept(u)
<1>1. CASE ClientStep
  <2>1. PICK r \in ClientRequests : AdmitEvent(r, Answer(r))
    BY <1>1 DEF ClientStep
  <2>2. r \in AllRequests /\ ForItself(r)
    BY DEF ClientRequests, AllRequests, ForItself, Requests, ClientMembershipRoutes
  <2> QED BY <2>1, <2>2, AdmitKeepsViews
<1>2. ASSUME NEW h \in Creations, AdmitStep(h)
      PROVE  ViewsAgree' /\ SpentKeys' /\ \A u \in Users : BanKept(u)
  <2>1. PICK i \in Steps : i = creations[h].step
    BY DEF AdmissionInv, LogInv, TypeOK
  <2> DEFINE r == Bootstrap[i]
  <2>2. AdmitEvent(r, Answer(r)) \/ UNCHANGED room
    BY <1>2, <2>1 DEF AdmitStep
  <2>3. r \in AllRequests
    BY BootstrapFacts
  <2>4. ForItself(r)
    BY BootstrapFacts DEF ForItself, Bootstrap, Request
  <2> QED BY <2>2, <2>3, <2>4, ViewsStay, AdmitKeepsViews
<1>3. ASSUME NEW h \in Creations, EnsureRegistry(h) \/ EnsureRegistryFails(h) \/ CreationLost(h)
      PROVE  UNCHANGED room
  BY <1>3 DEF EnsureRegistry, EnsureRegistryFails, CreationLost
<1>4. CASE ClientRegistry \/ RetryPendingShardRegistry
  BY <1>4, ViewsStay DEF ClientRegistry, RetryPendingShardRegistry
<1> QED BY <1>1, <1>2, <1>3, <1>4, ViewsStay DEF Next, HandleCreateRoom

\* The projection of the memberships and the dedupe table agree with the log.
THEOREM AdmissionInvariant ==
  ASSUME MembersStay
  PROVE  Spec => []AdmissionInv
<1>1. Init => AdmissionInv
  <2> SUFFICES ASSUME Init
               PROVE  AdmissionInv
    OBVIOUS
  <2>1. ViewsAgree
    BY DEF Init, ViewsAgree, Content, Slots
  <2>2. SpentKeys
    BY DEF Init, SpentKeys
  <2> QED BY <2>1, <2>2, InitLog DEF AdmissionInv
<1>2. AdmissionInv /\ [Next]_vars => AdmissionInv'
  <2> SUFFICES ASSUME AdmissionInv, [Next]_vars
               PROVE  AdmissionInv'
    OBVIOUS
  <2>1. LogInv'
    BY NextKeepsLog DEF AdmissionInv
  <2>2. ViewsAgree' /\ SpentKeys'
    <3>1. CASE Next
      BY <3>1, NextKeepsViews
    <3>2. CASE UNCHANGED vars
      BY <3>2, ViewsStay DEF vars
    <3> QED BY <3>1, <3>2
  <2> QED BY <2>1, <2>2 DEF AdmissionInv
<1> QED BY <1>1, <1>2, PTL DEF Spec

\* What an accepted answer claims is so, however old the row it is read from.
THEOREM AnswersAreTrue ==
  ASSUME MembersStay
  PROVE  Spec => []AcceptedIsTrue
<1>1. AdmissionInv => AcceptedIsTrue
  <2> SUFFICES ASSUME AdmissionInv, NEW r \in ClientRequests, Answer(r).verdict = "accepted"
               PROVE  IF IsMembership(r) THEN Content(r.about) = Membership(r)
                      ELSE log[Answer(r).pos].by = r
    BY DEF AcceptedIsTrue
  <2>1. /\ LogInv /\ SpentKeys /\ RowsNameTheirEvent
    BY DEF AdmissionInv, LogInv
  <2>2. CASE IsNoOp(r) /\ Answer(r).pos = snapshot[r.about]
    BY <2>2 DEF IsNoOp, Content
  <2>3. CASE /\ Key(r) \in DOMAIN dedupe /\ dedupe[Key(r)].by = r /\ dedupe[Key(r)].ok
             /\ Answer(r).pos = dedupe[Key(r)].pos
    <3>1. CASE ~IsMembership(r)
      BY <2>1, <2>3, <3>1 DEF RowsNameTheirEvent
    <3>2. CASE IsMembership(r)
      <4>1. Key(r) = <<r.sender, r.route, r.about, r.arg, snapshot[r.about]>>
        BY <3>2 DEF Key
      <4>2. PICK pos \in 0..(snapshot[r.about] - 1) :
              Key(r) = <<r.sender, r.route, r.about, r.arg, pos>>
        BY <2>1, <2>3, <3>2 DEF SpentKeys
      <4>3. pos = snapshot[r.about]
        BY <4>1, <4>2
      <4>4. snapshot[r.about] \in Nat
        <5>1. r \in AllRequests
          BY DEF ClientRequests, AllRequests
        <5>2. r.about \in Slots
          BY <3>2, <5>1, RequestFacts DEF Slots
        <5> QED BY <2>1, <5>2 DEF LogInv, TypeOK
      <4> QED BY <4>2, <4>3, <4>4
    <3> QED BY <3>1, <3>2
  <2> QED BY <2>2, <2>3, AnswerFacts
<1> QED BY <1>1, AdmissionInvariant, PTL

\* A ban ends only by the leave of somebody who outranks the banned user.
THEOREM BansHold ==
  ASSUME MembersStay
  PROVE  Spec => BanHolds
<1>1. AdmissionInv /\ [Next]_vars =>
        [\A u \in Users : projection[u].is = "ban" /\ projection'[u].is # "ban" =>
           /\ projection'[u].is = "leave"
           /\ Outranks(log'[projection'[u].pos].sender, u)]_vars
  BY NextKeepsViews DEF BanKept
<1> QED BY <1>1, AdmissionInvariant, PTL DEF Spec, BanHolds
============================================================================
