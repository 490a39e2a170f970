---------------------------- MODULE DeviceLists ----------------------------
(***************************************************************************)
(* How the users who share encrypted rooms with one user, the owner, learn *)
(* that the owner's device list changed and that the owner left them.      *)
(*                                                                         *)
(* Every change of the key tables (DeviceKeys) ends with the same call:    *)
(* the UserDO asks the RoomDO of every room it has recorded as joined who  *)
(* is in it, and tells those users one awaited call after another.  The    *)
(* departure that the room fan-out delivers is told in the same way to the *)
(* users of that room who share no other.  Memberships, other changes and  *)
(* other departures take place during these awaits.                        *)
(***************************************************************************)
EXTENDS Naturals, Sequences

CONSTANTS
  Owner, Peers,  \* the user whose devices these are, and other local users
  Rooms,
  Tellers,       \* calls that may be running at the same time
  MaxChanges,    \* bound: changes of the device list
  MaxMoves,      \* bound: membership changes
  MaxFailures    \* bound: calls that fail

ASSUME OwnerIsNoPeer == Owner \notin Peers
ASSUME BoundsAreNat == {MaxChanges, MaxMoves, MaxFailures} \subseteq Nat

VARIABLES
  members,    \* RoomDOs: who has joined
  atLeave,    \* RoomDOs: who had joined when the owner left
  encrypted,  \* RoomDOs: the rooms with an m.room.encryption event
  joined,     \* UserDO: the rooms it has recorded as joined
  owed,       \* per room: the membership deltas not yet delivered to it
  calls,      \* UserDO: the calls telling others
  outdated,   \* history: peers not told since the device list last changed
  stayed,     \* history: the encrypted rooms each has shared ever since
  missed,     \* history: peers a failure since then kept from being told
  changes, moves, failures

rooms == <<members, atLeave, encrypted>>
record == <<joined, owed>>
ledger == <<outdated, stayed, missed>>
counts == <<changes, moves, failures>>
listVars == <<rooms, record, calls, ledger, counts>>

Users == Peers \cup {Owner}
NoCall == [pc |-> "idle"]
IsIdle(h) == calls[h] = NoCall
Asking(h, r) == calls[h].pc = "list" /\ r \in calls[h].ask
Telling(h, p) == calls[h].pc = "tell" /\ p \in calls[h].todo

ListsInit ==
  /\ members = [r \in Rooms |-> Users]
  /\ atLeave = [r \in Rooms |-> {}]
  /\ encrypted \in SUBSET Rooms
  /\ joined = Rooms
  /\ owed = [r \in Rooms |-> <<>>]
  /\ calls = [h \in Tellers |-> NoCall]
  /\ outdated = {} /\ stayed = {} /\ missed = {}
  /\ changes = 0 /\ moves = 0 /\ failures = 0

-----------------------------------------------------------------------------
(* Who shares an encrypted room, to the RoomDOs and to the owner's record  *)

\* queryRoom answers a user who has left with the members at that time.
Answer(r) == IF Owner \in members[r] THEN members[r] ELSE atLeave[r]

\* Each peer with each encrypted room of rs it shares with the owner.
Shared(m, rs) == {s \in Peers \X (rs \cap encrypted) : {s[1], Owner} \subseteq m[s[2]]}

\* A call that tells others first lists who shares an encrypted room.
Listing(purpose, recorded, former) ==
  [pc |-> "list", purpose |-> purpose, ask |-> recorded, former |-> former, found |-> {},
   together |-> Shared(members, recorded)]

\* Mutant: of a departure, the room's members are told, shared rooms or not.
TargetsAll(call) ==
  (IF call.purpose = "changed" THEN call.found ELSE call.former) \ {Owner}

\* A change is told to those found, a departure to those not found.
Targets(call) ==
  (IF call.purpose = "changed" THEN call.found ELSE call.former \ call.found) \ {Owner}

-----------------------------------------------------------------------------
(* A change of the device list is committed: an upload of device keys, a   *)
(* deletion of devices, a cross-signing key or a signature                 *)

Change(h) ==
  /\ IsIdle(h)
  /\ changes < MaxChanges /\ changes' = changes + 1
  /\ calls' = [calls EXCEPT ![h] = Listing("changed", joined, {})]
  /\ outdated' = Peers
  /\ stayed' = Shared(members, joined)
  /\ missed' = {}
  /\ UNCHANGED <<rooms, record, moves, failures>>

-----------------------------------------------------------------------------
(* Telling the peers *)

\* History: peers that a failure of h keeps from being told of a change.
Miss(h, peers) ==
  /\ failures < MaxFailures
  /\ failures' = failures + 1
  /\ missed' = IF calls[h].purpose = "changed" THEN missed \cup (Peers \cap peers) ELSE missed

\* The room is asked whether it is encrypted, then who has joined.
AskRoom(h, r) ==
  /\ Asking(h, r)
  /\ calls' = [calls EXCEPT ![h].ask = @ \ {r},
                            ![h].found = @ \cup IF r \in encrypted THEN Answer(r) ELSE {}]
  /\ UNCHANGED <<rooms, record, ledger, counts>>

\* A room whose first query fails, or whose answer is an error, is passed over.
SkipRoom(h, r) ==
  /\ Asking(h, r)
  /\ Miss(h, members[r])
  /\ calls' = [calls EXCEPT ![h].ask = @ \ {r}, ![h].together = @ \ (Peers \X {r})]
  /\ UNCHANGED <<rooms, record, outdated, stayed, changes, moves>>

StartTelling(h) ==
  /\ calls[h].pc = "list" /\ calls[h].ask = {}
  /\ calls' = [calls EXCEPT ![h] = [pc |-> "tell", purpose |-> @.purpose, together |-> @.together,
                                    todo |-> Targets(@)]]
  /\ UNCHANGED <<rooms, record, ledger, counts>>

\* appendObservedDeviceStateChange of the peer's UserDO
TellPeer(h, p) ==
  /\ Telling(h, p)
  /\ calls' = [calls EXCEPT ![h].todo = @ \ {p}]
  /\ outdated' = IF calls[h].purpose = "changed" THEN outdated \ {p} ELSE outdated
  /\ UNCHANGED <<rooms, record, stayed, missed, counts>>

\* Mutant: the first peer that cannot be told ends the call.
StopAtFailure(h, p) ==
  /\ Telling(h, p)
  /\ Miss(h, {p})
  /\ calls' = [calls EXCEPT ![h].todo = {}]
  /\ UNCHANGED <<rooms, record, outdated, stayed, changes, moves>>

\* A failed call is swallowed, and the next peer is told.
TellFails(h, p) ==
  /\ Telling(h, p)
  /\ Miss(h, {p})
  /\ calls' = [calls EXCEPT ![h].todo = @ \ {p}]
  /\ UNCHANGED <<rooms, record, outdated, stayed, changes, moves>>

EndTelling(h) ==
  /\ calls[h].pc = "tell" /\ calls[h].todo = {}
  /\ calls' = [calls EXCEPT ![h] = NoCall]
  /\ UNCHANGED <<rooms, record, ledger, counts>>

\* The query for the members throws, or the UserDO restarts: the call ends.
Abort(h) ==
  /\ ~IsIdle(h)
  /\ Miss(h, IF calls[h].pc = "list" THEN Peers ELSE calls[h].todo)
  /\ calls' = [calls EXCEPT ![h] = NoCall]
  /\ UNCHANGED <<rooms, record, outdated, stayed, changes, moves>>

-----------------------------------------------------------------------------
(* The rooms, and what the fan-out delivers to the owner's UserDO *)

\* History: who still shares which room after a membership change.
StillShared ==
  /\ stayed' = stayed \cap Shared(members', Rooms)
  /\ calls' = [h \in Tellers |->
                 IF IsIdle(h) THEN NoCall
                 ELSE [calls[h] EXCEPT !.together = @ \cap Shared(members', Rooms)]]

Owe(u, r, delta) == owed' = IF u = Owner THEN [owed EXCEPT ![r] = Append(@, delta)] ELSE owed

Join(u, r) ==
  /\ u \notin members[r]
  /\ moves < MaxMoves /\ moves' = moves + 1
  /\ members' = [members EXCEPT ![r] = @ \cup {u}]
  /\ Owe(u, r, [bucket |-> "join", peers |-> {}])
  /\ StillShared
  /\ UNCHANGED <<atLeave, encrypted, joined, outdated, missed, changes, failures>>

\* The delta of a leave names those still joined if the room is encrypted.
Leave(u, r) ==
  LET rest == members[r] \ {u}
  IN  /\ u \in members[r]
      /\ moves < MaxMoves /\ moves' = moves + 1
      /\ members' = [members EXCEPT ![r] = rest]
      /\ atLeave' = IF u = Owner THEN [atLeave EXCEPT ![r] = rest] ELSE atLeave
      /\ Owe(u, r, [bucket |-> "leave", peers |-> IF r \in encrypted THEN rest ELSE {}])
      /\ StillShared
      /\ UNCHANGED <<encrypted, joined, outdated, missed, changes, failures>>

Encrypt(r) ==
  /\ r \notin encrypted
  /\ encrypted' = encrypted \cup {r}
  /\ UNCHANGED <<members, atLeave, record, calls, ledger, counts>>

\* appendRoomFanout of a membership delta, and the notification it ends with
DeliverMembership(h, r) ==
  LET delta == Head(owed[r])
      after == IF delta.bucket = "join" THEN joined \cup {r} ELSE joined \ {r}
  IN  /\ IsIdle(h) /\ owed[r] # <<>>
      /\ owed' = [owed EXCEPT ![r] = Tail(@)]
      /\ joined' = after
      /\ calls' = IF delta.peers = {} THEN calls
                  ELSE [calls EXCEPT ![h] = Listing("left", after, delta.peers)]
      /\ UNCHANGED <<rooms, ledger, counts>>

-----------------------------------------------------------------------------

ListsNext ==
  \/ \E h \in Tellers :
       \/ Change(h)
       \/ \E r \in Rooms : AskRoom(h, r) \/ SkipRoom(h, r) \/ DeliverMembership(h, r)
       \/ StartTelling(h)
       \/ \E p \in Peers : TellPeer(h, p) \/ TellFails(h, p)
       \/ EndTelling(h)
       \/ Abort(h)
  \/ \E r \in Rooms : Encrypt(r) \/ \E u \in Users : Join(u, r) \/ Leave(u, r)

ListsSpec == ListsInit /\ [][ListsNext]_listVars

\* A call under way goes on, and the fan-out delivers what it owes.
FairSpec ==
  /\ ListsSpec
  /\ \A h \in Tellers :
       /\ WF_listVars(\E r \in Rooms : AskRoom(h, r))
       /\ WF_listVars(StartTelling(h) \/ EndTelling(h) \/ \E p \in Peers : TellPeer(h, p))
  /\ WF_listVars(\E h \in Tellers, r \in Rooms : DeliverMembership(h, r))

-----------------------------------------------------------------------------
Purposes == {"changed", "left"}
Listings ==
  [pc : {"list"}, purpose : Purposes, ask : SUBSET Rooms, former : SUBSET Users,
   found : SUBSET Users, together : SUBSET (Peers \X Rooms)]
Tellings ==
  [pc : {"tell"}, purpose : Purposes, together : SUBSET (Peers \X Rooms), todo : SUBSET Peers]

(* The rooms, the record and the calls have the shapes the code gives them. *)
ListsTypeOK ==
  /\ members \in [Rooms -> SUBSET Users] /\ atLeave \in [Rooms -> SUBSET Users]
  /\ encrypted \subseteq Rooms /\ joined \subseteq Rooms
  /\ owed \in [Rooms -> Seq([bucket : {"join", "leave"}, peers : SUBSET Users])]
  /\ calls \in [Tellers -> {NoCall} \cup Listings \cup Tellings]
  /\ outdated \subseteq Peers /\ missed \subseteq Peers /\ stayed \subseteq Peers \X Rooms
  /\ changes \in 0..MaxChanges /\ moves \in 0..MaxMoves /\ failures \in 0..MaxFailures

\* Once no call runs any more, every peer that has shared an encrypted room
\* with the owner since the device list last changed was told of a change
\* after it, unless a call failed.
PeersAreTold ==
  (\A h \in Tellers : IsIdle(h)) =>
     \A s \in stayed : s[1] \in outdated => s[1] \in missed

\* No peer is told that the owner left while it has shared an encrypted room
\* of the owner's record, with its query answered, since the telling began.
LeftOnlyIfApart ==
  \A h \in Tellers : calls[h].pc = "tell" /\ calls[h].purpose = "left" =>
     \A s \in calls[h].together : s[1] \notin calls[h].todo

\* What a call and the history hold of rooms shared ever since is still so,
\* and a room it shares has yet to be asked or has named the peer.
StillTogether ==
  /\ stayed \subseteq Shared(members, Rooms)
  /\ \A h \in Tellers : ~IsIdle(h) => calls[h].together \subseteq Shared(members, Rooms)
FoundOrToAsk ==
  \A h \in Tellers : calls[h].pc = "list" =>
     \A s \in calls[h].together : s[2] \in calls[h].ask \/ s[1] \in calls[h].found

\* The call h tells of a change and will reach p, by way of the room r if it
\* has not listed p yet.
Reaches(h, p, r) ==
  /\ ~IsIdle(h) /\ calls[h].purpose = "changed"
  /\ \/ Asking(h, r)
     \/ calls[h].pc = "list" /\ p \in calls[h].found
     \/ Telling(h, p)

\* An untold peer that still shares a room, and that no failure has kept from
\* being told, will be reached by a call under way.
UntoldAreReached ==
  \A s \in stayed : s[1] \in outdated \ missed =>
     \E h \in Tellers : Reaches(h, s[1], s[2])

ListsInv == ListsTypeOK /\ LeftOnlyIfApart /\ StillTogether /\ FoundOrToAsk /\ UntoldAreReached

\* "Shared-user device-state fanout is asynchronous; a later repair pass can
\* re-drive misses" (durable-objects.mjs:2859): a peer that goes on sharing a
\* room is told in the end, failed calls notwithstanding.
MissesAreRedriven ==
  \A p \in Peers : LET untold == p \in outdated \cap {s[1] : s \in stayed}
                   IN  untold ~> ~untold
=============================================================================
