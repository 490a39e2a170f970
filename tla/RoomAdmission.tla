--------------------------- MODULE RoomAdmission ---------------------------
(***************************************************************************)
(* Admission of client events by a RoomDO (room version 12): the dedupe    *)
(* table that makes a retried request harmless, the authorisation of       *)
(* membership changes, and the tables one commit keeps in step - the event *)
(* log, the current state snapshot and the membership projection.          *)
(*                                                                         *)
(* A room is created by a sequence of admissions, each a call of its own   *)
(* of the gateway's handler, and each followed by a call that writes the   *)
(* room into the shard registry.  The room's id derives from the request,  *)
(* so a client that sends it again, at once or after a failure, creates    *)
(* the same room; meanwhile its members are already at work in it.         *)
(*                                                                         *)
(* admitEvent runs from its first read to the end of its transaction       *)
(* without an await, so one admission is one step.  A client that got no   *)
(* answer sends the same request again: every request may be submitted at  *)
(* any time and any number of times, which also covers an answer lost to a *)
(* crash of the RoomDO, for the dedupe row commits with the event.         *)
(*                                                                         *)
(* The join rule stands for the state a room is created with, one invited  *)
(* user for all.  Power levels do not change.                              *)
(***************************************************************************)
EXTENDS Naturals, Sequences, FiniteSets

CONSTANTS
  Users,        \* user ids, each with one device
  Creator,      \* the user who creates the room, of infinite power
  Invitee,      \* the user it invites when it does
  Creations,    \* handlers of the request that creates the room
  Power,        \* [Users -> Nat], the users map of m.room.power_levels
  Txns,         \* client transaction ids
  Contents,     \* message bodies
  Reasons,      \* the reasons given with a change of membership
  JoinRules,    \* the join rules a client writes: "public", "invite", "knock"
  Redactable,   \* the types of event a client redacts
  RefusedRoutes, \* bound: the routes of requests that are refused and recorded
  MaxEvents,    \* bound: events in the room
  MaxRefusals   \* bound: failed rows in the dedupe table

ASSUME CreatorIsUser  == Creator \in Users /\ Invitee \in Users \ {Creator}
ASSUME PowerOfUsers   == Power \in [Users -> Nat]
ASSUME SlotsApart     == Users \cap {"none", "rules", "create"} = {}
ASSUME BoundsAreNat   == MaxEvents \in Nat /\ MaxRefusals \in Nat

VARIABLES
  log,         \* room_events_metadata and hot_event_json, indexed by room_pos
  erased,      \* positions of events whose content a redaction removed
  snapshot,    \* the current snapshot: room_pos of each slot's event, or 0
  projection,  \* room_membership_projection
  dedupe,      \* client_txn_dedupe: key -> [by, ok, pos]
  registry,    \* the room in the shard registry: "absent", "marked" for a retry, "present"
  creations,   \* gateway: per handler, the step it is at and the call it makes next
  created      \* history: the request was answered with success

room == <<log, erased, snapshot, projection, dedupe>>
vars == <<room, registry, creations, created>>

-----------------------------------------------------------------------------
(* Requests *)

Moderate == 50  \* ban, kick, redact and state_default of the power levels
Rules == "rules"    \* the slot of m.room.join_rules; a member event's is its user
Create == "create"  \* the slot of m.room.create
Slots == Users \cup {Rules, Create}

ClientMembershipRoutes == {"join", "leave", "invite", "knock", "ban", "unban", "kick"}
MembershipRoutes == ClientMembershipRoutes \cup {"creator_join", "create_invite"}

\* A request is also its fingerprint: it hashes the route and all arguments.
Requests ==
  [route : {"send"}, sender : Users, about : Txns, arg : Contents]
  \cup [route : {"redact"}, sender : Users, about : Txns, arg : 1..MaxEvents]
  \cup [route : {"state"}, sender : Users, about : {Rules}, arg : JoinRules]
  \cup [route : ClientMembershipRoutes, sender : Users, about : Users, arg : Reasons]

IsMembership(r) == r.route \in MembershipRoutes

Request(route, about, arg) == [route |-> route, sender |-> Creator, about |-> about, arg |-> arg]

\* The admissions of createRoom, in order.
Bootstrap ==
  <<Request("create", Create, "created"), Request("creator_join", Creator, "created"),
    Request("bootstrap", Rules, "invite"), Request("create_invite", Invitee, "created")>>
Steps == DOMAIN Bootstrap

\* The gateway takes the target of join, leave and knock from the session.
ClientRequests ==
  {r \in Requests : r.route \in {"join", "leave", "knock"} => r.about = r.sender}

Membership(r) ==
  CASE r.route \in {"leave", "unban", "kick"} -> "leave"
    [] r.route = "creator_join"  -> "join"
    [] r.route = "create_invite" -> "invite"
    [] OTHER -> r.route

\* Mutant: a membership key does not name the current membership event.
KeyWithoutCurrent(r) ==
  IF IsMembership(r) THEN <<r.sender, r.route, r.about, r.arg>>
  ELSE <<r.sender, r.route, r.about>>

\* The idempotency key.  A send or a redaction is named by its transaction id,
\* a state write by its slot, a membership change by its fingerprint and the
\* event that holds the current membership of its target.
Key(r) ==
  IF IsMembership(r) THEN <<r.sender, r.route, r.about, r.arg, snapshot[r.about]>>
  ELSE <<r.sender, r.route, r.about>>

-----------------------------------------------------------------------------
(* Authorisation, over the current snapshot *)

\* The content of the event in a slot; a redacted event has none.
Content(slot) ==
  LET pos == snapshot[slot]
  IN  IF pos = 0 \/ pos \in erased THEN "none" ELSE log[pos].content

JoinRule == IF Content(Rules) = "none" THEN "invite" ELSE Content(Rules)

Joined(u) == Content(u) = "join"
Outranks(u, v) == u # v /\ v # Creator /\ (u = Creator \/ Power[u] > Power[v])
CanModerate(u) == u = Creator \/ Power[u] >= Moderate

MayJoin(u) ==
  \/ Content(u) \in {"join", "invite", "knock"}
  \/ Content(u) # "ban" /\ JoinRule = "public"
  \/ Content(u) = "none" /\ u = Creator

\* Mutant: a banned user may knock.
MayKnockBanned(u) == Content(u) \in {"none", "leave", "ban"} /\ JoinRule = "knock"

MayKnock(u) == Content(u) \in {"none", "leave"} /\ JoinRule = "knock"

MayInvite(s, u) == Joined(s) /\ Content(u) \notin {"ban", "join"}

MayBan(s, u) == Joined(s) /\ CanModerate(s) /\ Outranks(s, u)

\* A leave of oneself, an unban (which asks nothing of the sender's own
\* membership), or a kick.
MayRemove(s, u, route) ==
  \/ s = u /\ Content(u) \in {"join", "invite", "knock", "leave"}
  \/ s # u /\ route = "unban" /\ Content(u) = "ban" /\ CanModerate(s) /\ Outranks(s, u)
  \/ /\ s # u /\ route = "kick"
     /\ Content(u) \in {"join", "invite", "knock"}
     /\ Joined(s) /\ CanModerate(s) /\ Outranks(s, u)

MayRedact(s, pos) ==
  /\ pos <= Len(log)
  /\ log[pos].sender = s \/ CanModerate(s)

Authorized(r) ==
  CASE r.route = "create"  -> snapshot[Create] = 0
    [] r.route \in {"join", "creator_join"}    -> MayJoin(r.sender)
    [] r.route = "knock"   -> MayKnock(r.sender)
    [] r.route \in {"invite", "create_invite"} -> MayInvite(r.sender, r.about)
    [] r.route = "ban"     -> MayBan(r.sender, r.about)
    [] r.route \in {"leave", "unban", "kick"} -> MayRemove(r.sender, r.about, r.route)
    [] r.route = "send"    -> Joined(r.sender)
    [] r.route \in {"state", "bootstrap"}      -> Joined(r.sender) /\ CanModerate(r.sender)
    [] r.route = "redact"  -> Joined(r.sender) /\ MayRedact(r.sender, r.arg)

-----------------------------------------------------------------------------
(* Answers *)

Accepted(pos) == [verdict |-> "accepted", pos |-> pos]
Refused(why) == [verdict |-> why, pos |-> 0]
Fresh == [verdict |-> "commit", pos |-> 0]

\* The membership is already the one asked for, by the same sender and in the
\* same words: no event is committed.
IsNoOp(r) ==
  /\ IsMembership(r)
  /\ snapshot[r.about] \notin erased \cup {0}
  /\ LET e == log[snapshot[r.about]]
     IN  e.sender = r.sender /\ e.content = Membership(r) /\ e.reason = r.arg

Decide(r) ==
  IF ~Authorized(r) THEN Refused("forbidden")
  ELSE IF IsNoOp(r) THEN Accepted(snapshot[r.about])
  ELSE Fresh

\* Mutant: a recorded failure does not stop another attempt.
AnswerRetryingFailures(r) ==
  IF Key(r) \notin DOMAIN dedupe THEN Decide(r)
  ELSE LET row == dedupe[Key(r)]
       IN  IF row.by # r THEN Refused("conflict")
           ELSE IF row.ok THEN Accepted(row.pos)
           ELSE Decide(r)

\* What admitEvent answers to r in this state.
Answer(r) ==
  IF Key(r) \notin DOMAIN dedupe THEN Decide(r)
  ELSE LET row == dedupe[Key(r)]
       IN  IF row.by # r THEN Refused("conflict")
           ELSE IF row.ok THEN Accepted(row.pos)
           ELSE Refused("recorded")

Record(r, ok, pos) ==
  dedupe' = [k \in DOMAIN dedupe \cup {Key(r)} |->
               IF k = Key(r) THEN [by |-> r, ok |-> ok, pos |-> pos] ELSE dedupe[k]]

-----------------------------------------------------------------------------
(* The steps of admitEvent *)

Event(r) ==
  [by      |-> r,
   sender  |-> r.sender,
   type    |-> IF IsMembership(r) THEN "member" ELSE r.route,
   slot    |-> IF r.route \in {"send", "redact"} THEN "none" ELSE r.about,
   content |-> IF IsMembership(r) THEN Membership(r) ELSE r.arg,
   reason  |-> r.arg]

\* Mutant: the projection row is the sender's and not the target's.
ProjectSender(r, pos) ==
  IF IsMembership(r)
  THEN [projection EXCEPT ![r.sender] = [is |-> Membership(r), pos |-> pos]]
  ELSE projection

\* The membership projection after the event of r at pos.
Project(r, pos) ==
  IF IsMembership(r)
  THEN [projection EXCEPT ![r.about] = [is |-> Membership(r), pos |-> pos]]
  ELSE projection

\* The transaction of a request that was neither seen before nor refused.
CommitEvent(r) ==
  LET pos == Len(log) + 1
      e   == Event(r)
  IN  /\ r.route # "redact"
      /\ pos <= MaxEvents
      /\ log' = Append(log, e)
      /\ snapshot' = IF e.slot = "none" THEN snapshot ELSE [snapshot EXCEPT ![e.slot] = pos]
      /\ projection' = Project(r, pos)
      /\ Record(r, TRUE, pos)
      /\ UNCHANGED erased

\* The same for a redaction.  The content of the target goes, and the target
\* becomes the event of its slot in the current snapshot, whether or not a
\* later event had replaced it there.
CommitRedaction(r) ==
  LET pos  == Len(log) + 1
      slot == log[r.arg].slot
  IN  /\ r.route = "redact"
      /\ log[r.arg].type \in Redactable
      /\ pos <= MaxEvents
      /\ log' = Append(log, Event(r))
      /\ erased' = erased \cup {r.arg}
      /\ snapshot' = IF slot = "none" THEN snapshot ELSE [snapshot EXCEPT ![slot] = r.arg]
      /\ Record(r, TRUE, pos)
      /\ UNCHANGED projection

Failures == {k \in DOMAIN dedupe : ~dedupe[k].ok}

\* A refusal is thrown, and the handler records it as the terminal state of the
\* key, whatever the row said before; a conflict does so too.  A failure that
\* is already recorded is answered from the row.
Refuse(r) ==
  /\ r.route \in RefusedRoutes
  /\ Cardinality(Failures \cup {Key(r)}) <= MaxRefusals
  /\ Record(r, FALSE, 0)
  /\ UNCHANGED <<log, erased, snapshot, projection>>

\* admitEvent, unless the answer is already in a row or asks for no event.
AdmitEvent(r, answer) ==
  \/ answer = Fresh /\ (CommitEvent(r) \/ CommitRedaction(r))
  \/ answer.verdict \in {"forbidden", "conflict"} /\ Refuse(r)

-----------------------------------------------------------------------------
(* The request that creates the room *)

\* A handler that has not begun, or begins again, is before its first admission.
Start == [pc |-> "admit", step |-> 1]
At(h, pc) == creations[h].pc = pc
Stop(h) == creations' = [creations EXCEPT ![h] = Start]

\* admitRoomClientEvent: the admission, and then the shard registry.
AdmitStep(h) ==
  LET r      == Bootstrap[creations[h].step]
      answer == Answer(r)
  IN  /\ At(h, "admit")
      /\ \/ AdmitEvent(r, answer)
         \/ answer.verdict \in {"accepted", "recorded"} /\ UNCHANGED room
      /\ IF answer.verdict \in {"commit", "accepted"}
         THEN creations' = [creations EXCEPT ![h].pc = "register"]
         ELSE Stop(h)
      /\ UNCHANGED <<registry, created>>

\* The handler goes on to its next step, or answers.
Advanced(h) ==
  IF creations[h].step = Len(Bootstrap) THEN Start
  ELSE [pc |-> "admit", step |-> creations[h].step + 1]

\* ensureShardRegistry writes the room into the registry's database; when that
\* fails the RoomDO leaves itself a marker, and the handler answers an error.
Registered == registry' = "present"
LeavesMarker == registry' = IF registry = "absent" THEN "marked" ELSE registry

GoesOn(h) ==
  /\ creations' = [creations EXCEPT ![h] = Advanced(h)]
  /\ created' = (created \/ creations[h].step = Len(Bootstrap))

EnsureRegistry(h) ==
  /\ At(h, "register")
  /\ Registered
  /\ GoesOn(h)
  /\ UNCHANGED room

\* Mutant: the handler goes on when the registry failed.
EnsureRegistryFailsUnnoticed(h) ==
  /\ At(h, "register")
  /\ LeavesMarker
  /\ GoesOn(h)
  /\ UNCHANGED room

EnsureRegistryFails(h) ==
  /\ At(h, "register")
  /\ LeavesMarker
  /\ Stop(h)
  /\ UNCHANGED <<room, created>>

\* The handler is lost between two of its calls.
CreationLost(h) ==
  /\ creations[h] # Start
  /\ Stop(h)
  /\ UNCHANGED <<room, registry, created>>

HandleCreateRoom(h) ==
  AdmitStep(h) \/ EnsureRegistry(h) \/ EnsureRegistryFails(h) \/ CreationLost(h)

\* Every admission of a client is followed by the same call, if its handler lives.
ClientRegistry ==
  /\ \E k \in 1..Len(log) : log[k].by \in Requests
  /\ Registered \/ LeavesMarker
  /\ UNCHANGED <<room, creations, created>>

\* The alarm of the RoomDO.
RetryPendingShardRegistry ==
  /\ registry = "marked"
  /\ Registered
  /\ UNCHANGED <<room, creations, created>>

-----------------------------------------------------------------------------
Init ==
  /\ log = <<>>
  /\ erased = {}
  /\ snapshot = [s \in Slots |-> 0]
  /\ projection = [u \in Users |-> [is |-> "none", pos |-> 0]]
  /\ dedupe = [k \in {} |-> [by |-> Bootstrap[1], ok |-> FALSE, pos |-> 0]]
  /\ registry = "absent"
  /\ creations = [h \in Creations |-> Start]
  /\ created = FALSE

\* A client knows the room once its creator has joined it.
ClientStep ==
  /\ Len(log) >= 2
  /\ \E r \in ClientRequests : AdmitEvent(r, Answer(r))
  /\ UNCHANGED <<registry, creations, created>>

Next ==
  \/ ClientStep
  \/ ClientRegistry
  \/ \E h \in Creations : HandleCreateRoom(h)
  \/ RetryPendingShardRegistry

Spec == Init /\ [][Next]_vars

-----------------------------------------------------------------------------
(* Properties *)

Memberships == {"join", "invite", "knock", "leave", "ban"}

AllRequests == Requests \cup {Bootstrap[i] : i \in Steps}
Rows == [by : AllRequests, ok : BOOLEAN, pos : 0..Len(log)]

\* Every table holds rows of its shape.
TypeOK ==
  /\ Len(log) \in 0..MaxEvents /\ log = [i \in 1..Len(log) |-> Event(log[i].by)]
  /\ \A i \in 1..Len(log) : log[i].by \in AllRequests
  /\ erased \subseteq 1..Len(log)
  /\ snapshot \in [Slots -> 0..Len(log)]
  /\ projection \in [Users -> [is : Memberships \cup {"none"}, pos : 0..Len(log)]]
  /\ \A k \in DOMAIN dedupe : dedupe[k] \in Rows
  /\ registry \in {"absent", "marked", "present"} /\ created \in BOOLEAN
  /\ creations \in [Creations -> [pc : {"admit", "register"}, step : Steps]]

\* The current snapshot holds in each slot an event of that slot.
SnapshotHoldsSlots ==
  \A s \in Slots : snapshot[s] # 0 => log[snapshot[s]].slot = s

\* A succeeded row names the event its own request committed.
RowsNameTheirEvent ==
  \A k \in DOMAIN dedupe :
    dedupe[k].ok => dedupe[k].pos \in 1..Len(log) /\ log[dedupe[k].pos].by = dedupe[k].by

\* The membership projection and the event truth it summarises agree for every
\* user (REQ-ROOM-002: they change in the same transaction).
ViewsAgree ==
  \A u \in Users : projection[u].is = Content(u) /\ projection[u].pos = snapshot[u]

\* A send, a redaction or a state write, also one of the room's creation, commits at
\* most one event for its key,
\* however often it is retried and whatever conflicting requests come between.
CommittedOnce ==
  \A i, j \in 1..Len(log) :
    LET r == log[i].by
        q == log[j].by
    IN  ~IsMembership(r) /\ ~IsMembership(q)
          /\ <<r.sender, r.route, r.about>> = <<q.sender, q.route, q.about>>
          => i = j

\* A send, a redaction or a state write that committed is known by its key.
KeysKept ==
  \A i \in 1..Len(log) :
    LET r == log[i].by
    IN  ~IsMembership(r) => <<r.sender, r.route, r.about>> \in DOMAIN dedupe

\* The key of a membership change that committed is not asked for again: the
\* membership it names has been replaced.
SpentKeys ==
  \A k \in DOMAIN dedupe :
    LET r == dedupe[k].by
    IN  dedupe[k].ok /\ IsMembership(r) =>
          \E pos \in 0..(snapshot[r.about] - 1) : k = <<r.sender, r.route, r.about, r.arg, pos>>

\* What an accepted answer claims is so, however old the row it is read from: a
\* membership request finds its target in the membership it asks for, any other
\* request gets the event that it committed itself and nobody else's.
AcceptedIsTrue ==
  \A r \in ClientRequests :
    LET answer == Answer(r)
    IN  answer.verdict = "accepted" =>
          IF IsMembership(r) THEN Content(r.about) = Membership(r)
          ELSE log[answer.pos].by = r

\* The room has had the event of a step of its creation.
HasHad(i) ==
  \E k \in 1..Len(log) :
    /\ log[k].sender = Creator
    /\ log[k].slot = Bootstrap[i].about
    /\ log[k].content = Event(Bootstrap[i]).content

\* A handler has the steps behind it done, and the room registered after each.
StepsAreDone ==
  \A h \in Creations :
    /\ \A i \in Steps : i < creations[h].step \/ (i = creations[h].step /\ At(h, "register")) => HasHad(i)
    /\ creations[h].step > 1 => registry = "present"

\* When the request that creates the room is answered with success, the room is
\* registered and has had every event of its creation, however many attempts
\* that took and whatever its members did meanwhile.
CreatedIsComplete == created => registry = "present" /\ \A i \in Steps : HasHad(i)

\* The log, the snapshot, the dedupe table and the handlers of the creation.
LogInv ==
  /\ TypeOK /\ SnapshotHoldsSlots /\ RowsNameTheirEvent
  /\ KeysKept /\ CommittedOnce /\ StepsAreDone /\ CreatedIsComplete

\* The tables one transaction of admitEvent writes stay in step with each other.
AdmissionInv == LogInv /\ ViewsAgree /\ SpentKeys

\* A ban ends only by the leave of somebody who outranks the banned user.
BanHolds ==
  [][\A u \in Users : projection[u].is = "ban" /\ projection'[u].is # "ban" =>
       /\ projection'[u].is = "leave"
       /\ Outranks(log'[projection'[u].pos].sender, u)]_vars

\* A committed request keeps its terminal state: sent again, it is answered with
\* the same event for ever (REQ-ROOM-003).
SameTerminal ==
  \A i \in 1..Len(log) :
    LET r == log[i].by IN ~IsMembership(r) => Answer(r) = Accepted(i)
=============================================================================
