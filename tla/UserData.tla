------------------------------ MODULE UserData ------------------------------
(***************************************************************************)
(* Profile, presence, account data, tags and push rules of one user: the   *)
(* tables of its UserDO, the entries they add to the user's stream, what a *)
(* device learns of them by syncing, and how a new display name reaches    *)
(* the user's joined rooms.                                                *)
(*                                                                         *)
(* Each write of the UserDO is one step: its transaction, up to the first  *)
(* awaited call.  A changed display name is then sent to the rooms one     *)
(* awaited call after another, so calls of two changes interleave.         *)
(***************************************************************************)
EXTENDS Integers, FiniteSets, Sequences, SequencesExt

CONSTANTS
  Rooms,       \* rooms the user may be a member of
  Names,       \* display names
  Contents,    \* what account data, a presence or another profile field may be
  Tags,        \* tag names, of one room
  Rules,       \* user-defined push rules of one kind: numbers, ordered as ids
  Handlers,    \* profile changes that may be telling rooms at the same time
  Absent,      \* no value
  MaxPos,      \* bound: entries of the user's stream
  MaxVersion,  \* bound: version of the profile
  MaxMoves,    \* bound: joins and leaves
  MaxFaults,   \* bound: calls to a room that fail
  MaxLate      \* bound: writes that were authorised before a deactivation

\* The row of a push rule.
RuleRow == [index : Int, enabled : BOOLEAN]
ASSUME AbsentIsNothing == Absent \notin Names \cup Contents \cup Nat \cup RuleRow
ASSUME RulesAreOrdered == Rules \subseteq Nat /\ IsFiniteSet(Rules)
ASSUME BoundsAreNat == {MaxPos, MaxVersion, MaxMoves, MaxFaults, MaxLate} \subseteq Nat

VARIABLES
  profile,    \* per field: its value
  version,    \* profile_version of the profile's rows, 0 when there are none
  data,       \* account data, tags, presence: a value per slot
  rules,      \* per user-defined push rule: its row, or Absent
  override,   \* of a default push rule: whether it is enabled, or Absent
  stream,     \* the user's stream: [slot, content]
  device,     \* a syncing device: its token, its first token, what it knows
  account,    \* "active", "deactivated" or "erased"
  rooms,      \* RoomDOs: per room [joined, name, version] of the user
  recorded,   \* UserDO: rooms it has recorded the user as joined to
  refreshes,  \* UserDO: profile changes being told to the rooms
  moves, faults, late,
  history     \* history: every <<version, name>> the profile had

tables == <<profile, version, data, rules, override>>
told == <<rooms, recorded, refreshes, moves, faults>>
dataVars == <<tables, stream, device, account, told, late, history>>

Fields == {"displayname", "other"}
Values(f) == IF f = "displayname" THEN Names ELSE Contents
DataSlots == {"global", "room", "unread", "tags", "presence"}
RoomSlots == {"room", "unread", "tags"}   \* synced from the payload of the entry
Slots == DataSlots \cup {"push_rules"}
Blank == [s \in DataSlots |-> IF s = "tags" THEN {} ELSE Absent]
NotTelling == [left |-> <<>>, version |-> 0, name |-> Absent]

DataInit ==
  /\ profile = [f \in Fields |-> Absent]
  /\ version = 0
  /\ data = Blank
  /\ rules = [r \in Rules |-> Absent]
  /\ override = Absent
  /\ stream = <<>>
  /\ device = [since |-> Absent, first |-> 0, view |-> Absent]
  /\ account = "active"
  /\ rooms = [r \in Rooms |-> [joined |-> FALSE, name |-> Absent, version |-> 0]]
  /\ recorded = {}
  /\ refreshes = [h \in Handlers |-> NotTelling]
  /\ moves = 0 /\ faults = 0 /\ late = 0
  /\ history = {<<0, Absent>>}

-----------------------------------------------------------------------------
(* Writes.  None of them looks at the state of the account or the session: *)
(* the gateway did, in a call of its own.                                  *)

\* requireAccessSession
Authorised == (account = "active" /\ UNCHANGED late) \/ (late > 0 /\ late' = late - 1)

Entry(s, c) == [slot |-> s, content |-> c]

AppendAll(entries) ==
  /\ Len(stream) + Len(entries) <= MaxPos
  /\ stream' = stream \o entries

\* A changed display name is a change of presence: absent presence becomes
\* the default one.
TouchPresence(c) == IF c = Absent THEN "offline" ELSE c

Shows(f, v) == f = "displayname"

\* putProfileField and deleteProfileField: every row gets the next version,
\* which is counted from the rows there are.
SetField(f, v, h) ==
  LET next == [profile EXCEPT ![f] = v]
      empty == \A g \in Fields : next[g] = Absent
  IN /\ profile[f] # v
     /\ version < MaxVersion
     /\ profile' = next
     /\ version' = IF empty THEN 0 ELSE version + 1
     /\ history' = history \cup {<<version + 1, next["displayname"]>>}
     /\ IF Shows(f, v)
        THEN /\ AppendAll(<<Entry("presence", Absent)>>)
             /\ data' = [data EXCEPT !["presence"] = TouchPresence(@)]
             /\ refreshes[h].left = <<>>
             /\ refreshes' = [refreshes EXCEPT ![h] = IF recorded = {} THEN NotTelling ELSE
                  [left |-> SetToSeq(recorded), version |-> version + 1, name |-> next["displayname"]]]
        ELSE UNCHANGED <<stream, data, refreshes>>
     /\ UNCHANGED <<rules, override, device, account, rooms, recorded, moves, faults>>

PutProfileField(f, v, h) == v # Absent /\ SetField(f, v, h)

DeleteProfileField(f, h) == SetField(f, Absent, h)

Put(s, c) ==
  /\ data' = [data EXCEPT ![s] = c]
  /\ AppendAll(<<Entry(s, c)>>)
  /\ UNCHANGED <<profile, version, rules, override, device, account, told, history>>

PutGlobalAccountData(c) == Put("global", c)

PutRoomAccountData(c) == Put("room", c)

\* m.fully_read and m.marked_unread of the room, in one transaction
ApplyReadMarkers(c, u) ==
  /\ data' = [data EXCEPT !["room"] = c, !["unread"] = u]
  /\ AppendAll(<<Entry("room", c), Entry("unread", u)>>)
  /\ UNCHANGED <<profile, version, rules, override, device, account, told, history>>

SetPresence(c) == Put("presence", c)

\* The presence a sync request carries is written when it is another one.
SyncPresence(c) == data["presence"] # c /\ Put("presence", c)

PutTag(t) == Put("tags", data["tags"] \cup {t})

DeleteTag(t) == Put("tags", data["tags"] \ {t})

-----------------------------------------------------------------------------
(* Push rules *)

Custom(rs) == {r \in Rules : rs[r] # Absent}

\* comparePushRuleOrder
Precedes(rs, q, r) ==
  \/ rs[q].index < rs[r].index
  \/ rs[q].index = rs[r].index /\ q < r

Rank(rs, r) == Cardinality({q \in Custom(rs) : Precedes(rs, q, r)})

Reindex(rs) ==
  [r \in Rules |-> IF rs[r] = Absent THEN Absent ELSE [rs[r] EXCEPT !.index = Rank(rs, r)]]

\* Mutant: a rule placed before another gets the index of that rule.
IndexAt(r, side, ref) ==
  CASE side = "top" -> (IF Custom(rules) \ {r} = {} THEN 0
                        ELSE (CHOOSE i \in {rules[q].index : q \in Custom(rules) \ {r}} :
                                \A q \in Custom(rules) \ {r} : i <= rules[q].index) - 1)
    [] side = "before" -> rules[ref].index
    [] side = "after" -> rules[ref].index + 1

\* computePushRulePriorityIndex
PriorityIndex(r, side, ref) ==
  CASE side = "top" -> (IF Custom(rules) \ {r} = {} THEN 0
                        ELSE (CHOOSE i \in {rules[q].index : q \in Custom(rules) \ {r}} :
                                \A q \in Custom(rules) \ {r} : i <= rules[q].index) - 1)
    [] side = "before" -> rules[ref].index - 1
    [] side = "after" -> rules[ref].index + 1

RulesChange ==
  /\ AppendAll(<<Entry("push_rules", Absent)>>)
  /\ UNCHANGED <<profile, version, data, device, account, told, history>>

PutPushRule(r, side, ref) ==
  /\ side # "top" => ref \in Custom(rules) \ {r}
  /\ rules' = Reindex([rules EXCEPT ![r] = [index |-> PriorityIndex(r, side, ref), enabled |-> TRUE]])
  /\ RulesChange
  /\ UNCHANGED override

DeletePushRule(r) ==
  /\ rules[r] # Absent
  /\ rules' = Reindex([rules EXCEPT ![r] = Absent])
  /\ RulesChange
  /\ UNCHANGED override

\* Setting the actions of a rule keeps whether it is enabled.
SetPushRule(r, e) ==
  /\ rules[r] # Absent
  /\ rules' = [rules EXCEPT ![r].enabled = e]
  /\ RulesChange
  /\ UNCHANGED override

\* The row of a default rule is made when it is first changed.
SetDefaultRule(e) ==
  /\ override' = e
  /\ RulesChange
  /\ UNCHANGED rules

\* buildPushRulesView: the user's rules in order, the default rule after them.
RulesView ==
  [custom |-> Custom(rules),
   order |-> {x \in Custom(rules) \X Custom(rules) : Precedes(rules, x[1], x[2])},
   enabled |-> {r \in Custom(rules) : rules[r].enabled},
   default |-> override # FALSE]

-----------------------------------------------------------------------------
(* Deactivation, and the session's sync *)

\* With erase the tables are emptied.  Requests that have passed the gateway's
\* check of their session may be yet to come.
Deactivate(erase) ==
  /\ account = "active"
  /\ account' = IF erase THEN "erased" ELSE "deactivated"
  /\ late' = MaxLate
  /\ IF erase
     THEN /\ profile' = [f \in Fields |-> Absent]
          /\ version' = 0
          /\ data' = Blank
          /\ rules' = [r \in Rules |-> Absent]
          /\ override' = Absent
          /\ history' = history \cup {<<0, Absent>>}
     ELSE UNCHANGED <<tables, history>>
  /\ UNCHANGED <<stream, device, told>>

Read(s) ==
  CASE s = "push_rules" -> RulesView
    [] s = "presence" -> <<data["presence"], profile["displayname"]>>
    [] OTHER -> data[s]

\* Mutant: what is read from its table is sent as the last entry has it.
NewsAsWritten(s, from) ==
  LET entries == {i \in (from + 1)..Len(stream) : stream[i].slot = s}
  IN stream[CHOOSE i \in entries : \A j \in entries : j <= i].content

\* What a sync from `from` says of a slot that changed since: room data as
\* the last of its entries has it, the rest as its table has it now.
News(s, from) ==
  LET entries == {i \in (from + 1)..Len(stream) : stream[i].slot = s}
  IN IF s \in RoomSlots
     THEN stream[CHOOSE i \in entries : \A j \in entries : j <= i].content
     ELSE Read(s)

Changed(from) == {stream[i].slot : i \in (from + 1)..Len(stream)}

\* A first sync has every table but the room account data.
FirstSync ==
  /\ account = "active"
  /\ device.since = Absent
  /\ device' = [since |-> Len(stream), first |-> Len(stream),
                view |-> [s \in Slots |-> IF s \in RoomSlots THEN Blank[s] ELSE Read(s)]]
  /\ UNCHANGED <<tables, stream, account, told, late, history>>

Sync ==
  /\ account = "active"
  /\ device.since # Absent /\ device.since < Len(stream)
  /\ device' = [device EXCEPT
       !.since = Len(stream),
       !.view = [s \in Slots |-> IF s \in Changed(device.since)
                                 THEN News(s, device.since) ELSE @[s]]]
  /\ UNCHANGED <<tables, stream, account, told, late, history>>

-----------------------------------------------------------------------------
(* Rooms *)

\* A member event of the client's own has no profile and no version.
Move(r) ==
  /\ moves < MaxMoves
  /\ moves' = moves + 1
  /\ rooms' = [rooms EXCEPT ![r] = [joined |-> ~@.joined, name |-> Absent, version |-> 0]]
  /\ UNCHANGED <<tables, stream, device, account, recorded, refreshes, faults, late, history>>

\* The room's fan-out reaches the user's UserDO.
Record(r) ==
  /\ rooms[r].joined # (r \in recorded)
  /\ recorded' = IF rooms[r].joined THEN recorded \cup {r} ELSE recorded \ {r}
  /\ UNCHANGED <<tables, stream, device, account, rooms, refreshes, moves, faults, late, history>>

\* Mutant: the document is read again after each awaited call.
CarriesAnew(h) == profile["displayname"]
Carries(h) == refreshes[h].name

OneToldBy(h) ==
  [refreshes EXCEPT ![h] =
     IF Len(@.left) = 1 THEN NotTelling
     ELSE [left |-> Tail(@.left), version |-> @.version, name |-> @.name]]

\* enqueueProfileRefresh: skipped when the user is not joined or the room has
\* a later version; the member event the room has already is not sent again,
\* and its version stays.
EnqueueProfileRefresh(h) ==
  LET r == Head(refreshes[h].left)
      m == rooms[r]
      skip == ~m.joined \/ m.version > refreshes[h].version \/ m.name = Carries(h)
  IN /\ refreshes[h].left # <<>>
     /\ rooms' = IF skip THEN rooms
                 ELSE [rooms EXCEPT ![r].name = Carries(h), ![r].version = refreshes[h].version]
     /\ refreshes' = OneToldBy(h)
     /\ UNCHANGED <<tables, stream, device, account, recorded, moves, faults, late, history>>

\* The call fails; the handler goes on to the next room.
RefreshFails(h) ==
  /\ refreshes[h].left # <<>>
  /\ faults < MaxFaults
  /\ faults' = faults + 1
  /\ refreshes' = OneToldBy(h)
  /\ UNCHANGED <<tables, stream, device, account, rooms, recorded, moves, late, history>>

-----------------------------------------------------------------------------
(* The gateway's handlers: the session is resolved, then one call is made  *)

HandleProfileFieldWrite ==
  Authorised /\ \E f \in Fields, h \in Handlers :
    DeleteProfileField(f, h) \/ \E v \in Values(f) : PutProfileField(f, v, h)

HandleGlobalAccountData == Authorised /\ \E c \in Contents : PutGlobalAccountData(c)

HandleRoomAccountData == Authorised /\ \E c \in Contents : PutRoomAccountData(c)

HandleReadMarkers == Authorised /\ \E c, u \in Contents : ApplyReadMarkers(c, u)

HandleTags == Authorised /\ \E t \in Tags : PutTag(t) \/ DeleteTag(t)

HandlePresence == Authorised /\ \E c \in Contents : SetPresence(c)

HandleSyncPresence == Authorised /\ \E c \in Contents : SyncPresence(c)

HandlePushRules ==
  /\ Authorised
  /\ \/ \E r, ref \in Rules, side \in {"top", "before", "after"} : PutPushRule(r, side, ref)
     \/ \E r \in Rules : DeletePushRule(r) \/ \E e \in BOOLEAN : SetPushRule(r, e)
     \/ \E e \in BOOLEAN : SetDefaultRule(e)

DataNext ==
  \/ HandleProfileFieldWrite
  \/ HandleGlobalAccountData \/ HandleRoomAccountData \/ HandleReadMarkers \/ HandleTags
  \/ HandlePresence \/ HandleSyncPresence
  \/ HandlePushRules
  \/ \E erase \in BOOLEAN : Deactivate(erase)
  \/ FirstSync \/ Sync
  \/ \E r \in Rooms : Move(r) \/ Record(r)
  \/ \E h \in Handlers : EnqueueProfileRefresh(h) \/ RefreshFails(h)

DataSpec == DataInit /\ [][DataNext]_dataVars

-----------------------------------------------------------------------------
(* Properties *)

DataType(s) ==
  CASE s = "tags" -> SUBSET Tags
    [] s = "presence" -> Contents \cup {Absent, "offline"}
    [] OTHER -> Contents \cup {Absent}

DataTypeOK ==
  /\ \A f \in Fields : profile[f] \in Values(f) \cup {Absent}
  /\ version \in 0..MaxVersion
  /\ \A s \in DataSlots : data[s] \in DataType(s)
  /\ rules \in [Rules -> RuleRow \cup {Absent}]
  /\ override \in BOOLEAN \cup {Absent}
  /\ \A i \in DOMAIN stream : stream[i].slot \in Slots
  /\ device.since \in 0..Len(stream) \cup {Absent} /\ device.first \in 0..Len(stream)
  /\ account \in {"active", "deactivated", "erased"}
  /\ rooms \in [Rooms -> [joined : BOOLEAN, name : Names \cup {Absent}, version : 0..MaxVersion]]
  /\ recorded \subseteq Rooms
  /\ \A h \in Handlers : ToSet(refreshes[h].left) \subseteq Rooms
  /\ moves \in 0..MaxMoves /\ faults \in 0..MaxFaults /\ late \in 0..MaxLate

\* Whatever rules are added, moved and deleted, their indices are 0, 1, ...
\* without a gap or a tie: an index between two rules is one a rule can be
\* placed at.
DenseRules ==
  {rules[r].index : r \in Custom(rules)} = 0..(Cardinality(Custom(rules)) - 1)

\* A profile row has a version exactly when there is a row.
VersionedRows == version = 0 <=> \A f \in Fields : profile[f] = Absent

\* A device whose token is at the end of the stream knows what the tables
\* hold, whatever was written twice, undone or written between two of its
\* syncs; of room account data only what was written after its first sync.
SyncedIsStored ==
  account = "active" /\ device.since = Len(stream) =>
    \A s \in Slots :
      s \in RoomSlots \ Changed(device.first) \/ device.view[s] = Read(s)

\* The name a room shows under a version of the profile is the name of that
\* version, however the calls of several changes interleave.
ShownWasVersion ==
  \A r \in Rooms : rooms[r].version > 0 => <<rooms[r].version, rooms[r].name>> \in history

\* The state of the UserDO (DataTypeOK), its rules, its profile rows and the names
\* it tells the rooms are as the handlers rely on.
UserDataInv == DataTypeOK /\ DenseRules /\ VersionedRows /\ ShownWasVersion

\* A push rule is placed where the request asks, first, or on the side of the
\* rule it names, and all other rules keep their order, also in the presence
\* of the ties the indices have before they are counted anew.
PlacedAsAsked ==
  [][rules' # rules => \A r, ref \in Rules :
       /\ PutPushRule(r, "top", ref) => \A q \in Custom(rules') \ {r} : Precedes(rules', r, q)
       /\ PutPushRule(r, "before", ref) => Precedes(rules', r, ref)
       /\ PutPushRule(r, "after", ref) => Precedes(rules', ref, r)
       /\ PutPushRule(r, "before", ref) \/ PutPushRule(r, "after", ref) \/ DeletePushRule(r) =>
            \A p, q \in Custom(rules) \ {r} : Precedes(rules, p, q) <=> Precedes(rules', p, q)]_dataVars

-----------------------------------------------------------------------------
(* What the documentation says and the code does not keep *)

\* 30-client-identity-and-sync.md: a refresh of an older profile_version never
\* overwrites a newer one.  For a user who joins once and calls that do not
\* fail (MaxMoves = 1, MaxFaults = 0): once nothing is being told, a room that
\* was told a name shows the profile's.
NewerProfileNotLost ==
  account = "active" /\ (\A h \in Handlers : refreshes[h] = NotTelling) =>
    \A r \in Rooms : rooms[r].version > 0 => rooms[r].name = profile["displayname"]

\* 30-client-identity-and-sync.md: deactivation with erase removes the
\* profile, account data, presence and push rules.
ErasedStaysErased ==
  account = "erased" =>
    profile = [f \in Fields |-> Absent] /\ data = Blank /\ Custom(rules) = {} /\ override = Absent
=============================================================================
