----------------------------- MODULE KeyBackup -----------------------------
(***************************************************************************)
(* The room-key backups of one user: the manifests its UserDO keeps, the   *)
(* encrypted segments in R2, and the calls that change both.               *)
(*                                                                         *)
(* The transactions on a manifest are steps of their own.  What a call     *)
(* does in R2 before, between and after them is awaited object by object,  *)
(* and other calls of the same user run meanwhile.  A segment's object is  *)
(* named by its content: two writers of the same key data share an object, *)
(* and a manifest that goes back to earlier data names an earlier object.  *)
(***************************************************************************)
EXTENDS Naturals, Sequences, FiniteSets

CONSTANTS
  Sessions,     \* the megolm sessions that are backed up
  Contents,     \* their encrypted key data
  None,         \* no entry
  Handlers,     \* calls that may be running at the same time
  MaxVersions,  \* bound: backup versions ever created
  Updated,      \* bound: versions whose auth data is changed
  MaxCalls,     \* bound: writes and deletions ever begun
  MaxFailures   \* bound: R2 operations that fail, and restarts

ASSUME NoneIsNoContent == None \notin Contents
ASSUME BoundsAreNat == {MaxVersions, MaxCalls, MaxFailures} \subseteq Nat

VARIABLES
  manifests,  \* per version: [state, auth, etag, segments, pending]
  objects,    \* R2: the objects that exist, [version, session, content]
  calls,      \* UserDO: the calls under way
  unsure,     \* history: segments that were written while another call ran on them
  begun, failures

vars == <<manifests, objects, calls, unsure, begun, failures>>

Versions == DOMAIN manifests
Object(v, s, c) == [version |-> v, session |-> s, content |-> c]
NoEntries == [s \in Sessions |-> None]
Stored(entries) == {s \in Sessions : entries[s] # None}
Keys(v, entries, S) == {Object(v, s, entries[s]) : s \in S \cap Stored(entries)}

\* computeRoomKeyBackupManifestEtag hashes the auth data and the segments.
Etag(auth, segments) == [auth |-> auth, segments |-> segments]
FirstAuth == 0
Empty == [state |-> "ready", auth |-> FirstAuth, etag |-> Etag(FirstAuth, NoEntries),
          segments |-> NoEntries, pending |-> NoEntries]
Exists(v) == v \in Versions /\ manifests[v].state # "deleted"

Idle == [pc |-> "idle", version |-> 0, on |-> {}]
IsIdle(h) == calls[h].pc = "idle"
At(h, pc) == calls[h].pc = pc
IsWriting(h) == calls[h].pc \in {"head", "put"}
IsDeleting(h) == calls[h].pc \in {"undo", "purge"}

Init ==
  /\ manifests = <<>>
  /\ objects = {}
  /\ calls = [h \in Handlers |-> Idle]
  /\ unsure = {}
  /\ begun = 0 /\ failures = 0

-----------------------------------------------------------------------------
(* History: the sessions that a write is not alone on, for the calls that  *)
(* were there when it began and those that began beside it.                *)
Mixed(h, v, S) == S \cap UNION {calls[g].on : g \in {o \in Handlers \ {h} : calls[o].version = v}}

Begin(h, v, S, call) ==
  /\ begun < MaxCalls /\ begun' = begun + 1
  /\ calls' = [g \in Handlers |->
       IF g = h THEN call
       ELSE IF IsWriting(g) /\ calls[g].version = v
       THEN [calls[g] EXCEPT !.mixed = @ \cup (S \cap calls[g].on)]
       ELSE calls[g]]

\* A call that only has objects left to delete.
Deletes(pc, v, S, keys) == [pc |-> pc, version |-> v, on |-> S, keys |-> keys]
Purge(v, S, keys) == Deletes("purge", v, S, keys)

-----------------------------------------------------------------------------
(* Versions *)

\* Mutant: the version that was ready stays ready.
CreateBeside ==
  manifests' = Append(manifests, Empty)

\* The version that was ready is archived; it can still be written.
Create ==
  manifests' = Append([v \in Versions |-> IF manifests[v].state = "ready"
                                          THEN [manifests[v] EXCEPT !.state = "archived"]
                                          ELSE manifests[v]],
                      Empty)

CreateVersion ==
  /\ Len(manifests) < MaxVersions
  /\ Create
  /\ UNCHANGED <<objects, calls, unsure, begun, failures>>

\* The auth data of a version is changed once.
UpdateVersion(v) ==
  /\ v \in Updated
  /\ Exists(v) /\ manifests[v].auth = FirstAuth
  /\ manifests' = [manifests EXCEPT ![v].auth = FirstAuth + 1,
                                    ![v].etag = Etag(FirstAuth + 1, manifests[v].segments)]
  /\ UNCHANGED <<objects, calls, unsure, begun, failures>>

DeleteVersion(h, v) ==
  LET m == manifests[v]
  IN  /\ IsIdle(h) /\ Exists(v)
      /\ manifests' = [manifests EXCEPT ![v].state = "deleted", ![v].segments = NoEntries,
                                        ![v].pending = NoEntries]
      /\ Begin(h, v, Sessions,
               Purge(v, Sessions, Keys(v, m.segments, Sessions) \cup Keys(v, m.pending, Sessions)))
      /\ UNCHANGED <<objects, unsure, failures>>

Without(entries, S) == [s \in Sessions |-> IF s \in S THEN None ELSE entries[s]]

WithoutData(m, S) ==
  [m EXCEPT !.segments = Without(@, S), !.pending = Without(@, S),
            !.etag = Etag(m.auth, Without(m.segments, S))]

DeleteData(h, v, S) ==
  LET m == manifests[v]
  IN  /\ IsIdle(h) /\ Exists(v)
      /\ manifests' = [manifests EXCEPT ![v] = WithoutData(m, S)]
      /\ Begin(h, v, S, Purge(v, S, Keys(v, m.segments, S) \cup Keys(v, m.pending, S)))
      /\ UNCHANGED <<objects, unsure, failures>>

-----------------------------------------------------------------------------
(* putRoomKeyBackupData *)

Plan(h, v, S, plan) ==
  /\ IsIdle(h) /\ Exists(v)
  /\ manifests' = [manifests EXCEPT ![v].pending = [s \in Sessions |-> IF s \in S THEN plan[s] ELSE @[s]]]
  /\ Begin(h, v, S, [pc |-> "head", version |-> v, on |-> S, mixed |-> Mixed(h, v, S),
                     plan |-> plan, todo |-> S, existed |-> {}])
  /\ UNCHANGED <<objects, unsure, failures>>

Key(h, s) == Object(calls[h].version, s, calls[h].plan[s])
Next1(h) == CHOOSE s \in calls[h].todo : TRUE

\* For each segment in turn: is the object there, and then the write of it.
Head1(h) ==
  /\ At(h, "head") /\ calls[h].todo # {}
  /\ LET s == Next1(h)
     IN  calls' = [calls EXCEPT ![h].pc = "put",
                                ![h].existed = IF Key(h, s) \in objects THEN @ \cup {s} ELSE @]
  /\ UNCHANGED <<manifests, objects, unsure, begun, failures>>

Put1(h) ==
  /\ At(h, "put")
  /\ objects' = objects \cup {Key(h, Next1(h))}
  /\ calls' = [calls EXCEPT ![h].pc = "head", ![h].todo = @ \ {Next1(h)}]
  /\ UNCHANGED <<manifests, unsure, begun, failures>>

\* Mutant: the failed call takes back also what was there before it.
WrittenAnew(h) == {Key(h, s) : s \in calls[h].on \ calls[h].todo}

\* The segments this call wrote and did not find there.
Written(h) == {Key(h, s) : s \in (calls[h].on \ calls[h].todo) \ calls[h].existed}

\* A head or a put fails, the put perhaps after it took effect.
PutFails(h) ==
  /\ calls[h].pc \in {"head", "put"} /\ calls[h].todo # {}
  /\ failures < MaxFailures /\ failures' = failures + 1
  /\ \/ UNCHANGED objects
     \/ At(h, "put") /\ objects' = objects \cup {Key(h, Next1(h))}
  /\ calls' = [calls EXCEPT ![h] = Deletes("undo", @.version, @.on, Written(h))]
  /\ UNCHANGED <<manifests, unsure, begun>>

Undone(h) ==
  /\ At(h, "undo") /\ calls[h].keys = {}
  /\ LET v == calls[h].version
     IN  manifests' = IF Exists(v)
                      THEN [manifests EXCEPT ![v].pending = Without(@, calls[h].on)]
                      ELSE manifests
  /\ calls' = [calls EXCEPT ![h] = Idle]
  /\ UNCHANGED <<objects, unsure, begun, failures>>

\* Mutant: a write that was planned before the version was deleted completes.
CanFinalizeAlways(v) == v \in Versions

CanFinalize(v) == Exists(v)

\* The manifest is read again: a version deleted meanwhile refuses the write,
\* whose objects stay.
Finalize(h) ==
  LET v    == calls[h].version
      S    == calls[h].on
      plan == calls[h].plan
      old  == manifests[v].segments
      new  == [s \in Sessions |-> IF s \in S THEN plan[s] ELSE old[s]]
      replaced == {s \in S : old[s] \notin {None, plan[s]}}
  IN  /\ At(h, "head") /\ calls[h].todo = {}
      /\ IF CanFinalize(v)
         THEN /\ manifests' = [manifests EXCEPT
                   ![v].segments = new, ![v].pending = Without(@, S),
                   ![v].etag = Etag(manifests[v].auth, new)]
              /\ calls' = [calls EXCEPT ![h] = Purge(v, S, Keys(v, old, replaced))]
              /\ unsure' = (unsure \ ({v} \X S)) \cup ({v} \X calls[h].mixed)
         ELSE /\ calls' = [calls EXCEPT ![h] = Idle]
              /\ UNCHANGED <<manifests, unsure>>
      /\ UNCHANGED <<objects, begun, failures>>

-----------------------------------------------------------------------------
(* The deletes a call ends with *)

Delete1(h, key) ==
  /\ calls[h].pc \in {"purge", "undo"} /\ key \in calls[h].keys
  /\ objects' = objects \ {key}
  /\ calls' = [calls EXCEPT ![h].keys = @ \ {key}]
  /\ UNCHANGED <<manifests, unsure, begun, failures>>

Purged(h) ==
  /\ At(h, "purge") /\ calls[h].keys = {}
  /\ calls' = [calls EXCEPT ![h] = Idle]
  /\ UNCHANGED <<manifests, objects, unsure, begun, failures>>

\* A delete fails and its call with it, or the UserDO restarts and all end.
Fail(h) ==
  /\ calls[h].pc \in {"purge", "undo"} /\ calls[h].keys # {}
  /\ failures < MaxFailures /\ failures' = failures + 1
  /\ calls' = [calls EXCEPT ![h] = Idle]
  /\ UNCHANGED <<manifests, objects, unsure, begun>>

Restart ==
  /\ \E h \in Handlers : ~IsIdle(h)
  /\ failures < MaxFailures /\ failures' = failures + 1
  /\ calls' = [h \in Handlers |-> Idle]
  /\ UNCHANGED <<manifests, objects, unsure, begun>>

\* The gateway's handlers make one call each, once the session is resolved.
HandleVersions ==
  \/ CreateVersion
  \/ \E v \in Versions : UpdateVersion(v) \/ \E h \in Handlers : DeleteVersion(h, v)

HandlePutData ==
  \E h \in Handlers, v \in Versions, S \in SUBSET Sessions \ {{}} :
    \E plan \in [S -> Contents] : Plan(h, v, S, plan)

HandleDeleteData ==
  \E h \in Handlers, v \in Versions, S \in SUBSET Sessions \ {{}} : DeleteData(h, v, S)

Next ==
  \/ HandleVersions \/ HandlePutData \/ HandleDeleteData
  \/ \E h \in Handlers :
       \/ Head1(h) \/ Put1(h) \/ PutFails(h) \/ Undone(h) \/ Finalize(h)
       \/ calls[h].pc \in {"purge", "undo"} /\ \E key \in calls[h].keys : Delete1(h, key)
       \/ Purged(h) \/ Fail(h)
  \/ Restart

Spec == Init /\ [][Next]_vars

-----------------------------------------------------------------------------
(* Properties *)

Entries == [Sessions -> Contents \cup {None}]
Objects == [version : Nat, session : Sessions, content : Contents]
Manifest ==
  [state : {"ready", "archived", "deleted"}, auth : {FirstAuth, FirstAuth + 1},
   etag : [auth : {FirstAuth, FirstAuth + 1}, segments : Entries],
   segments : Entries, pending : Entries]

\* A call that plans, looks for and writes its segments, and one that deletes.
Plans == UNION {[S -> Contents] : S \in SUBSET Sessions}
Writing ==
  [pc : {"head", "put"}, version : 1..MaxVersions, on : SUBSET Sessions,
   mixed : SUBSET Sessions, plan : Plans, todo : SUBSET Sessions, existed : SUBSET Sessions]
Deleting ==
  [pc : {"undo", "purge"}, version : 1..MaxVersions, on : SUBSET Sessions,
   keys : SUBSET Objects]

\* The manifests, the objects and the calls have the shapes the code gives them.
TypeOK ==
  /\ manifests \in Seq(Manifest) /\ Len(manifests) <= MaxVersions
  /\ objects \subseteq Objects
  /\ calls \in [Handlers -> Writing \cup Deleting \cup {Idle}]
  /\ \A h \in Handlers : IsWriting(h) =>
       /\ calls[h].plan \in [calls[h].on -> Contents]
       /\ calls[h].todo \subseteq calls[h].on
       /\ At(h, "put") => calls[h].todo # {}
  /\ unsure \subseteq Versions \X Sessions
  /\ begun \in 0..MaxCalls /\ failures \in 0..MaxFailures

\* At most one version is ready, and it is the newest: what
\* getCurrentRoomKeyBackupVersion returns does not depend on the order in
\* which versions were last written.
OneReady == \A v \in Versions : manifests[v].state = "ready" => v = Len(manifests)

\* The etag a version answers with is that of its auth data and its segments,
\* though every transaction writes the row back whole, and some recompute it.
EtagFits ==
  \A v \in Versions : manifests[v].state # "deleted" =>
    manifests[v].etag = Etag(manifests[v].auth, manifests[v].segments)

\* What getRoomKeyBackupData returns: entries whose object is gone are skipped.
Returned(v) ==
  {s \in Stored(manifests[v].segments) : Object(v, s, manifests[v].segments[s]) \in objects}

\* The sessions a manifest names whose last write had no other call beside it.
Sure(v) == {s \in Stored(manifests[v].segments) : <<v, s>> \notin unsure}
Named(v, s) == Object(v, s, manifests[v].segments[s])

\* Every session a manifest names can be read back, across failed and
\* interrupted writes, if its last write had no other call beside it.
BackedUpIsReadable == \A v \in Versions : Sure(v) \subseteq Returned(v)

\* Who writes a session knows of every other call on it.
MixedIsKnown ==
  \A h, g \in Handlers :
    IsWriting(h) /\ g # h /\ calls[g].version = calls[h].version
      => calls[h].on \cap calls[g].on \subseteq calls[h].mixed

\* A call deletes nothing but objects of the sessions it is on.
DeletesItsOwn ==
  \A h \in Handlers : IsDeleting(h) =>
    \A key \in calls[h].keys : key.version = calls[h].version /\ key.session \in calls[h].on

\* What a call has written stays while no other call is on it.
WrittenStays ==
  \A h \in Handlers : IsWriting(h) =>
    \A s \in (calls[h].on \ calls[h].todo) \ calls[h].mixed : Key(h, s) \in objects

\* A write that repeats a segment the manifest names has found it there, and so
\* does not take it back when it fails.
FoundWhenNamed ==
  \A h \in Handlers, v \in Versions : IsWriting(h) /\ calls[h].version = v =>
    \A s \in Sure(v) \cap calls[h].on :
      /\ s \notin calls[h].todo \/ (At(h, "put") /\ s = Next1(h))
      /\ calls[h].plan[s] = manifests[v].segments[s]
      => s \in calls[h].existed

\* No call deletes what a manifest names for sure.
NamedIsSpared ==
  \A h \in Handlers, v \in Versions : IsDeleting(h) =>
    \A s \in Sure(v) : Named(v, s) \notin calls[h].keys

\* The inductive invariant behind BackedUpIsReadable.
BackupInv ==
  /\ TypeOK
  /\ OneReady
  /\ EtagFits
  /\ MixedIsKnown
  /\ DeletesItsOwn
  /\ WrittenStays
  /\ FoundWhenNamed
  /\ NamedIsSpared
  /\ BackedUpIsReadable

\* A write that began before its version was deleted does not bring it back.
DeletedForGood ==
  [][\A v \in Versions : manifests[v].state = "deleted" => manifests'[v] = manifests[v]]_vars

\* "The server guarantees integrity" (30-client-identity-and-sync.md:333):
\* whatever the calls, what a manifest names can be read.
NamedIsStored == \A v \in Versions : Stored(manifests[v].segments) \subseteq Returned(v)
=============================================================================
