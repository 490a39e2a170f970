----------------------------- MODULE SyncStream -----------------------------
(***************************************************************************)
(* What the clients of one user learn by /sync: the room events fanned out *)
(* to the user's stream and the messages sent to the user's devices.       *)
(*                                                                         *)
(* A sync takes two steps.  The UserDO collects what is new after the      *)
(* client's token up to the end of the stream, and names that end as the   *)
(* next token; later, at a time of its own, the RoomDO projects the room   *)
(* for the answer.  Between the two, events are committed and fanned out.  *)
(* An answer may be lost, and the client then repeats its old token.  A    *)
(* long poll is a sequence of such collections with one answer.            *)
(*                                                                         *)
(* The room log is that of one RoomDO, of which the membership of the user *)
(* and one kind of state matter.  Its hand-over to the stream is the one   *)
(* FanoutLedger promises: every event owed, once; that it is in order is   *)
(* an assumption of its own (MaxOvertakes).                                *)
(***************************************************************************)
EXTENDS Naturals, Sequences, FiniteSetsExt

CONSTANTS
  Devices,      \* device ids
  Messages,     \* to-device transactions, each by its sender, type and txn id
  Filters,      \* filters of sync requests: [limit, leave], limit 0 if none
  History,      \* m.room.history_visibility of the room
  Backfill,     \* DEFAULT_INITIAL_SYNC_TIMELINE_LIMIT
  PageLimit,    \* rows one query of the stream or the queue returns (10 000)
  MaxLog,       \* bound: events of the room
  MaxOvertakes  \* bound: deltas appended before an older one

ASSUME HistoryIsKnown == History \in {"shared", "invited", "joined"}
ASSUME FiltersAreFilters == Filters \subseteq [limit : Nat, leave : BOOLEAN]
ASSUME LimitsArePositive == Backfill \in Nat \ {0} /\ PageLimit \in Nat \ {0}
ASSUME BoundsAreNat == MaxLog \in Nat /\ MaxOvertakes \in Nat

VARIABLES
  log,        \* RoomDO: the committed events, by room_pos
  stream,     \* UserDO: user_stream, by stream_pos
  summary,    \* UserDO: room_sync_memberships[room]
  devices,    \* UserDO: the devices not deleted
  queue,      \* UserDO: user_to_device_queue, rows not acknowledged
  accepted,   \* UserDO: to_device_txn_dedupe
  syncs,      \* gateway: the sync request of each device, after collectSince
  clients,    \* what each device's client has received
  overtakes   \* history: deltas appended before an older one

room == <<log>>
user == <<stream, summary, devices, queue, accepted>>
vars == <<room, user, syncs, clients, overtakes>>

Everyone == "*"
Nobody == "nobody"
Nothing == "nothing"

ASSUME DevicesAreDevices == IsFiniteSet(Devices) /\ Nobody \notin Devices

-----------------------------------------------------------------------------
(* The room *)

MembershipKinds == {"invite", "join", "leave"}

\* The events of others are state events here, all of the same type and key.
Kinds == MembershipKinds \cup {"state"}

NoEvent ==
  [kind |-> "none", bucket |-> "none", member |-> 0, state |-> 0, timeline |-> {},
   pinned |-> {}, limited |-> FALSE, told |-> {}]

\* The event at p; before the first there is none.
EventAt(p) == IF p = 0 THEN NoEvent ELSE log[p]
Now == EventAt(Len(log))

Latest(n, S) == {p \in S : Cardinality({q \in S : q > p}) < n}
Earliest(n, S) == {p \in S : Cardinality({q \in S : q < p}) < n}

\* Mutant: whatever the visibility, the history of a join begins with it.
StartAtJoin(p) == p

\* resolveJoinHistoryStartRoomPos, for a join at p
HistoryStart(p) ==
  CASE History = "joined"  -> p
    [] History = "invited" -> IF Now.bucket = "invite" THEN Now.member ELSE p
    [] History = "shared"  -> 1

\* Mutant: an event brings no state but itself.
StateItself(kind, state) == IF kind = "state" THEN {state} ELSE {}

\* The state a delta brings: a join or invite the snapshot, an event itself.
StateOf(kind, state) == IF kind = "leave" THEN {} ELSE {state} \ {0}

\* The next event, its effect on the projections of membership and state, and
\* the delta buildCommittedFanoutDeltas makes of it for this user: an event is
\* itself; a join brings the state and recent history as well.
NewEvent(kind) ==
  LET p       == Len(log) + 1
      own     == kind \in MembershipKinds
      enters  == kind = "join"
      state   == IF kind = "state" THEN p ELSE Now.state
      history == HistoryStart(p)..p
      recent  == IF enters THEN Latest(Backfill, history) ELSE {p}
  IN  [kind     |-> kind,
       bucket   |-> IF own THEN kind ELSE Now.bucket,
       member   |-> IF own THEN p ELSE Now.member,
       state    |-> state,
       timeline |-> IF kind = "invite" THEN {} ELSE recent,
       pinned   |-> IF enters THEN {p} ELSE {},
       limited  |-> enters /\ Cardinality(history) > Cardinality(recent),
       told     |-> StateOf(kind, state)]

\* The events this user is told of: all while joined, and the user's own.
Owed == {p \in 1..Len(log) : log[p].bucket = "join" \/ log[p].member = p}

-----------------------------------------------------------------------------
(* RoomDO commits, UserDO appends *)

RoomEntry(p) == [pos |-> p, to |-> Nobody, message |-> Nothing]
DeviceEntry(d, m) == [pos |-> 0, to |-> d, message |-> m]

Told == {stream[i].pos : i \in 1..Len(stream)}

Commit(kind) ==
  /\ Len(log) < MaxLog
  /\ CASE kind = "join"   -> Now.bucket # "join"
       [] kind = "invite" -> Now.bucket \in {"none", "leave"}
       [] kind = "leave"  -> Now.bucket \in {"join", "invite"}
       [] kind = "state"  -> TRUE
  /\ log' = Append(log, NewEvent(kind))
  /\ UNCHANGED <<user, syncs, clients, overtakes>>

\* appendRoomFanout, the first time it runs for this delta
AppendRoomFanout(p) ==
  /\ p \in Owed \ Told
  /\ overtakes' = overtakes + (IF \E q \in Owed \ Told : q < p THEN 1 ELSE 0)
  /\ overtakes' <= MaxOvertakes
  /\ stream' = Append(stream, RoomEntry(p))
  /\ summary' = [bucket |-> log[p].bucket, pos |-> p]
  /\ UNCHANGED <<room, devices, queue, accepted, syncs, clients>>

\* enqueueToDevice: the target is a device or all; a transaction known already
\* is answered from its row and changes nothing.
EnqueueToDevice(m, target) ==
  LET receivers == IF target = Everyone THEN devices ELSE devices \cap {target}
      n == Cardinality(receivers)
  IN  /\ m \notin accepted
      /\ accepted' = accepted \cup {m}
      /\ \E order \in [1..n -> receivers] :
           /\ \A i, j \in 1..n : order[i] = order[j] => i = j
           /\ stream' = stream \o [i \in 1..n |-> DeviceEntry(order[i], m)]
           /\ queue' = queue \cup {[device |-> order[i], pos |-> Len(stream) + i,
                                    message |-> m] : i \in 1..n}
      /\ UNCHANGED <<room, summary, devices, syncs, clients, overtakes>>

-----------------------------------------------------------------------------
(* Devices and their clients *)

NewClient(born) ==
  [born |-> born, synced |-> FALSE, token |-> 0, bucket |-> "none",
   seen |-> {}, floor |-> 0, state |-> 0, got |-> {}]

NoSync ==
  [collected |-> FALSE, initial |-> FALSE, upper |-> 0, deltas |-> {},
   snapshot |-> 0, messages |-> {}, filter |-> [limit |-> 0, leave |-> FALSE]]

\* A login that creates the device, or creates it anew.
Login(d) ==
  /\ d \notin devices
  /\ devices' = devices \cup {d}
  /\ clients' = [clients EXCEPT ![d] = NewClient(Len(stream))]
  /\ UNCHANGED <<room, stream, summary, queue, accepted, syncs, overtakes>>

\* Mutant: the messages queued for the device stay.
DeleteDeviceOnly(d) ==
  /\ d \in devices
  /\ devices' = devices \ {d}
  /\ syncs' = [syncs EXCEPT ![d] = NoSync]
  /\ clients' = [clients EXCEPT ![d] = NewClient(0)]
  /\ UNCHANGED <<room, stream, summary, queue, accepted, overtakes>>

\* deleteDevices: collectSince answers a sync of the device with 401 from now on.
DeleteDevice(d) ==
  /\ d \in devices
  /\ devices' = devices \ {d}
  /\ queue' = {r \in queue : r.device # d}
  /\ syncs' = [syncs EXCEPT ![d] = NoSync]
  /\ clients' = [clients EXCEPT ![d] = NewClient(0)]
  /\ UNCHANGED <<room, stream, summary, accepted, overtakes>>

\* The client drops its token and what it knows of rooms, as a second login on
\* the device does; the keys that messages brought it keeps.
StartOver(d) ==
  /\ d \in devices
  /\ clients[d].synced
  /\ clients' = [clients EXCEPT ![d] = [NewClient(@.born) EXCEPT !.got = clients[d].got]]
  /\ syncs' = [syncs EXCEPT ![d] = NoSync]
  /\ UNCHANGED <<room, user, overtakes>>

-----------------------------------------------------------------------------
(* A sync *)

RowsOf(d) == {r \in queue : r.device = d}
EarliestRows(n, rows) ==
  {r \in rows : r.pos \in Earliest(n, {s.pos : s \in rows})}

\* Mutant: what the answer will carry is acknowledged with what the token covers.
AcknowledgedAhead(d, since) == EarliestRows(PageLimit, RowsOf(d))

\* The rows collectSince acknowledges and the rows it returns.
Acknowledged(d, since) == {r \in EarliestRows(PageLimit, RowsOf(d)) : r.pos <= since}
Returned(d, since) == EarliestRows(PageLimit, {r \in RowsOf(d) : r.pos > since})

\* collectSince: the token acknowledges, everything after it is collected, and
\* the end of the stream becomes the next token.
CollectSince(d, filter) ==
  LET initial  == ~clients[d].synced
      since    == clients[d].token
      entries  == IF initial THEN {}
                  ELSE {i \in (since + 1)..Len(stream) : i <= since + PageLimit}
      shown    == summary.pos > 0 /\ (summary.bucket = "leave" => filter.leave)
  IN  /\ d \in devices
      /\ ~syncs[d].collected
      /\ syncs' = [syncs EXCEPT ![d] =
           [collected |-> TRUE, initial |-> initial, upper |-> Len(stream),
            deltas   |-> {stream[i].pos : i \in entries} \ {0},
            snapshot |-> IF initial /\ shown THEN summary.pos ELSE 0,
            messages |-> {r.message : r \in Returned(d, since)},
            filter   |-> filter]]
      /\ queue' = queue \ Acknowledged(d, since)
      /\ UNCHANGED <<room, stream, summary, devices, accepted, clients, overtakes>>

\* The last events of a filter's limit, or all; if that leaves out the user's
\* own join, from there on.
Cut(events, pinned, limit) ==
  LET tail   == IF limit = 0 THEN events ELSE Latest(limit, events)
      missed == (pinned \cap events) \ tail
  IN  IF missed = {} THEN tail ELSE {p \in events : p >= Min(missed)}

\* The answer leaves out events it should have shown.
Limited(s, deltas, cut, events) ==
  \/ \E e \in deltas : e.limited
  \/ Cardinality(cut) < (IF s.initial THEN s.snapshot ELSE Cardinality(events))

\* projectForSync on the merged deltas of the room (mergeRoomDeltaIntoTarget),
\* by the membership of now; an initial sync stops at its snapshot.
Project(s) ==
  LET horizon == IF s.initial THEN s.snapshot
                 ELSE IF Now.bucket = "join" THEN Len(log) ELSE Now.member
      deltas  == {log[p] : p \in s.deltas}
      limit   == IF s.filter.limit = 0 THEN Backfill ELSE s.filter.limit
      events  == IF s.initial THEN Latest(limit, 1..horizon)
                 ELSE (UNION {e.timeline : e \in deltas}) \cap 1..horizon
      cut     == Cut(events, UNION {e.pinned : e \in deltas}, s.filter.limit)
  IN  [bucket   |-> Now.bucket,
       timeline |-> IF Now.bucket = "invite" THEN {} ELSE cut,
       limited  |-> Limited(s, deltas, cut, events),
       told     |-> IF Now.bucket = "invite" THEN {}
                    ELSE IF s.initial THEN {EventAt(horizon).state} \ {0}
                    ELSE (UNION {e.told : e \in deltas}) \cap 1..horizon]

\* The room is in the answer when the collection named it and the projection
\* is not empty: no room the user is not in, nor one left unless asked for.
InAnswer(s) ==
  /\ s.deltas # {} \/ s.snapshot > 0
  /\ Now.bucket # "none"
  /\ Now.bucket = "leave" => s.filter.leave

\* What the client makes of a room: what is before a limited timeline it can
\* fetch by prev_batch, and the newest state it was told is the current one.
Learn(client, view) ==
  LET told == view.told \cup {p \in view.timeline : log[p].kind = "state"}
  IN  [client EXCEPT
        !.bucket = view.bucket,
        !.seen   = @ \cup view.timeline,
        !.floor  = IF view.limited /\ view.timeline # {}
                   THEN Max({@, Min(view.timeline)}) ELSE @,
        !.state  = IF told = {} THEN @ ELSE Max(told)]

\* assembleSyncResponse, and the client receives the answer.
Answer(d) ==
  LET s == syncs[d]
      informed == [clients[d] EXCEPT !.synced = TRUE, !.token = s.upper,
                                     !.got = @ \cup s.messages]
  IN  /\ s.collected
      /\ clients' = [clients EXCEPT ![d] =
           IF InAnswer(s) THEN Learn(informed, Project(s)) ELSE informed]
      /\ syncs' = [syncs EXCEPT ![d] = NoSync]
      /\ UNCHANGED <<room, user, overtakes>>

\* A projection or the handler fails, or the answer is lost.
AnswerLost(d) ==
  /\ syncs[d].collected
  /\ syncs' = [syncs EXCEPT ![d] = NoSync]
  /\ UNCHANGED <<room, user, clients, overtakes>>

-----------------------------------------------------------------------------
Init ==
  /\ log = <<>>
  /\ stream = <<>>
  /\ summary = [bucket |-> "none", pos |-> 0]
  /\ devices = Devices
  /\ queue = {}
  /\ accepted = {}
  /\ syncs = [d \in Devices |-> NoSync]
  /\ clients = [d \in Devices |-> NewClient(0)]
  /\ overtakes = 0

Collect(d) == \E filter \in Filters : CollectSince(d, filter)

Next ==
  \/ \E kind \in Kinds : Commit(kind)
  \/ \E p \in 1..MaxLog : AppendRoomFanout(p)
  \/ \E m \in Messages, target \in Devices \cup {Everyone} : EnqueueToDevice(m, target)
  \/ \E d \in Devices :
       \/ Login(d) \/ DeleteDevice(d) \/ StartOver(d)
       \/ Collect(d) \/ Answer(d) \/ AnswerLost(d)

Spec == Init /\ [][Next]_vars

-----------------------------------------------------------------------------
(* Properties *)

Buckets == MembershipKinds \cup {"none"}
Events ==
  [kind : Kinds, bucket : Buckets, member : 0..MaxLog, state : 0..MaxLog,
   timeline : SUBSET (1..MaxLog), pinned : SUBSET (1..MaxLog), limited : BOOLEAN,
   told : SUBSET (1..MaxLog)]
Entries == [pos : 0..MaxLog, to : Devices \cup {Nobody}, message : Messages \cup {Nothing}]
Clients ==
  [born : Nat, synced : BOOLEAN, token : Nat, bucket : Buckets, seen : SUBSET (1..MaxLog),
   floor : 0..MaxLog, state : 0..MaxLog, got : SUBSET Messages]
Syncs ==
  [collected : BOOLEAN, initial : BOOLEAN, upper : Nat, deltas : SUBSET (1..MaxLog),
   snapshot : 0..MaxLog, messages : SUBSET Messages, filter : [limit : Nat, leave : BOOLEAN]]

TypeOK ==
  /\ log \in Seq(Events) /\ Len(log) <= MaxLog
  /\ stream \in Seq(Entries)
  /\ summary \in [bucket : Buckets, pos : 0..MaxLog]
  /\ devices \subseteq Devices
  /\ queue \subseteq [device : Devices, pos : Nat, message : Messages]
  /\ accepted \subseteq Messages
  /\ overtakes \in 0..MaxOvertakes
  /\ syncs \in [Devices -> Syncs]
  /\ clients \in [Devices -> Clients]

\* An event, and the delta made of it, know of no later event.
EventsLookBack ==
  \A p \in 1..Len(log) :
    /\ log[p].member \in 0..p /\ log[p].state \in 0..p
    /\ log[p].timeline \subseteq 1..p /\ log[p].told \subseteq 1..p
    /\ log[p].bucket = "none" <=> log[p].member = 0

\* An entry of the stream tells of one event owed, or sends one message.
EntriesAreOwed ==
  \A i \in 1..Len(stream) :
    \/ stream[i].pos \in Owed /\ stream[i] = RoomEntry(stream[i].pos)
    \/ /\ stream[i].to \in Devices /\ stream[i].message \in accepted
       /\ stream[i] = DeviceEntry(stream[i].to, stream[i].message)

\* No token, sync or client is ahead of the stream and the room, and a message
\* that is queued is in the stream.
NobodyIsAhead ==
  /\ summary.pos <= Len(log)
  /\ \A r \in queue : r.pos \in 1..Len(stream) /\ stream[r.pos] = DeviceEntry(r.device, r.message)
  /\ \A d \in Devices :
       /\ clients[d].born <= Len(stream) /\ clients[d].token <= Len(stream)
       /\ clients[d].seen \subseteq 1..Len(log)
       /\ syncs[d].upper <= Len(stream) /\ syncs[d].snapshot <= Len(log)
       /\ syncs[d].deltas \subseteq Owed

\* A message accepted for a device is still queued until the device's client
\* has received it, whatever answers were lost in between: the token of an
\* answer that never arrived acknowledges nothing.
NoMessageLost ==
  \A d \in devices : \A i \in (clients[d].born + 1)..Len(stream) :
    stream[i].to = d =>
      \/ stream[i].message \in clients[d].got
      \/ \E r \in queue : r.device = d /\ r.pos = i

\* However often a sender repeats a transaction, and whatever devices come and
\* go in between, a device is sent its message at most once.
SentOnce ==
  \A i, j \in 1..Len(stream) :
    stream[i].to # Nobody /\ stream[i] = stream[j] => i = j

\* A device that comes back under its old id inherits no message from before.
NothingInherited ==
  \A r \in queue : r.device \in devices /\ r.pos > clients[r.device].born

\* The types, and what holds of a device's queue and of what is put into it.
StreamInv ==
  TypeOK /\ EventsLookBack /\ EntriesAreOwed /\ NobodyIsAhead /\ NothingInherited /\ SentOnce

\* A membership of the user lasts from its event to the next.
RoomWalks ==
  \A p \in 1..Len(log) :
    /\ log[p].kind \in MembershipKinds <=> log[p].member = p
    /\ log[p].member = p => log[p].bucket = log[p].kind
    /\ \A q \in 1..p : log[p].member <= q =>
         log[q].member = log[p].member /\ log[q].bucket = log[p].bucket

\* The delta of an event that joined users get brings the event and the state
\* of its time.  Only that of a join brings more: where history is shared, all
\* there was before, or it says that it leaves out what came before its first.
DeltasTell ==
  \A p \in 1..Len(log) :
    /\ log[p].kind \in {"join", "state"} =>
         p \in log[p].timeline /\ log[p].state \in log[p].told \cup {0}
    /\ log[p].kind # "join" => log[p].timeline \subseteq {p}
    /\ log[p].kind = "join" /\ History = "shared" =>
         \A q \in 1..p : \/ q \in log[p].timeline
                         \/ log[p].limited /\ \A r \in log[p].timeline : q < r

\* The entry i is the last of the first n by which the user learns of the room.
IsLastTold(i, n) ==
  i \in 1..n /\ stream[i].pos # 0 /\ \A j \in (i + 1)..n : stream[j].pos = 0

\* The summary of the room is that of the last event told.
SummaryIsLast ==
  \A i \in 1..Len(stream) : IsLastTold(i, Len(stream)) =>
    summary = [bucket |-> log[stream[i].pos].bucket, pos |-> stream[i].pos]

\* Unless a delta overtook an older one, events are told in their order and
\* none is told while an older one is still to be told.
ToldInOrder ==
  overtakes = 0 =>
    /\ \A j \in 1..Len(stream) : \A i \in 1..(j - 1) :
         stream[i].pos # 0 /\ stream[j].pos # 0 => stream[i].pos < stream[j].pos
    /\ \A p \in Told, q \in Owed : q < p => q \in Told

\* A sync under way is that of its device's client, whose token stands where it
\* stood: it collected one page of what followed, or an initial sync the room
\* as it was told last, if the user has not left it.
Follows(client, sync) ==
  /\ sync.initial <=> ~client.synced
  /\ client.token <= sync.upper
  /\ ~sync.initial => sync.snapshot = 0 /\ sync.deltas =
       {stream[i].pos : i \in {j \in (client.token + 1)..sync.upper :
                                j <= client.token + PageLimit}} \ {0}
  /\ sync.initial => \A i \in 1..sync.upper : IsLastTold(i, sync.upper) =>
       sync.snapshot = stream[i].pos \/ log[stream[i].pos].bucket = "leave"

SyncsFollow ==
  \A d \in Devices : syncs[d].collected => d \in devices /\ Follows(clients[d], syncs[d])

\* With it, what holds of the room, of the order in which its events are told,
\* and of the syncs that collect them: a token never skips what its answer,
\* under way at the time of other steps, does not carry.
SyncInv ==
  StreamInv /\ RoomWalks /\ DeltasTell /\ SummaryIsLast /\ ToldInOrder /\ SyncsFollow

\* What a client's token has passed it has received, and what the token of an
\* answer under way will pass that answer brings.
TokensAreEarned ==
  \A d \in devices : \A i \in (clients[d].born + 1)..Len(stream) : stream[i].to = d =>
    /\ i <= clients[d].token => stream[i].message \in clients[d].got
    /\ syncs[d].collected /\ i <= syncs[d].upper =>
         stream[i].message \in clients[d].got \cup syncs[d].messages

\* Messages are delivered, as long as a device's queue holds no more than the
\* one page a collection returns.
DeliveryInv == NoMessageLost /\ TokensAreEarned

Covered(d) == {stream[i].pos : i \in 1..clients[d].token} \ {0}

\* The client's token covers the join by which the user is now in the room.
CaughtUp(d) ==
  /\ d \in devices
  /\ clients[d].synced
  /\ Now.bucket = "join"
  /\ Now.member \in Covered(d)

\* While the user is in the room, an event that was told to the stream of a
\* joined user and that a client's token has passed is known to that client, or
\* lies before a timeline marked limited, from which it can page back to it.
\* This holds across kicks and rejoins between collection and projection, when
\* an answer left the room out although its token went past the events.
NoSilentGap ==
  \A d \in Devices : CaughtUp(d) =>
    \A p \in Covered(d) :
      log[p].bucket = "join" => p \in clients[d].seen \/ p < clients[d].floor

\* Such a client shows the room as joined, and with the state as it was at the
\* last event its token covers or later.
StateKept ==
  \A d \in Devices : CaughtUp(d) =>
    /\ clients[d].bucket = "join"
    /\ clients[d].state >= log[Max(Covered(d))].state
=============================================================================
