--------------------------- MODULE MediaUploads ---------------------------
(***************************************************************************)
(* Local media: the gateway's upload handlers, the upload grants a UserDO  *)
(* keeps for them, the R2 bucket, and the alarm that expires grants and    *)
(* deletes orphaned objects.                                               *)
(*                                                                         *)
(* An upload is three remote calls: beginMediaUpload, the R2 put,          *)
(* finalizeMediaUpload.  Each call of the UserDO is a transaction, which   *)
(* sweeps the grants that have lapsed, followed, when the sweep found      *)
(* orphans to delete, by awaited R2 deletes during which every other call  *)
(* may run.  The state of such a call is its pass.                         *)
(*                                                                         *)
(* Clock values are abstracted to the set of the grants whose deadline     *)
(* has passed, the alarm's instant to the set of the grants whose          *)
(* deadlines it was computed from: it is due when one of them is overdue.  *)
(***************************************************************************)
EXTENDS Naturals, FiniteSets

CONSTANTS Media, Uploads,   \* media ids; runs of the gateway's upload handler
          Create, Alarm,    \* the other two callers of the sweep
          None,             \* no object under a key
          MaxPending,       \* pending grants a user may hold, 8 in the code
          MaxCrashes        \* bound: restarts of the UserDO

Callers == Uploads \cup {Create, Alarm}

ASSUME CallersDiffer == Create \notin Uploads /\ Alarm \notin Uploads /\ Create # Alarm
ASSUME NoneIsNoUpload == None \notin Uploads
ASSUME Bounds == MaxPending \in Nat /\ MaxCrashes \in Nat

VARIABLES grants,     \* pendingUploadGrants: the state of each media id's row
          overdue,    \* grants whose deadline has passed
          object,     \* R2: whose bytes are under the key of a media id
          alarm,      \* grants the alarm that is set was computed from
          pass,       \* per caller: the cleanup the UserDO runs for it
          up,         \* per upload: where the gateway's handler is
          reserved,   \* media ids that POST /create gave to a client
          crashes

vars == <<grants, overdue, object, alarm, pass, up, reserved, crashes>>

GrantStates == {"none", "pending", "completed", "reverted", "orphaned", "expired", "cleaned"}
Steps == {"idle", "granted", "written", "failed", "reverting", "orphaning",
          "acked", "refused", "error", "lost"}

Idle == [running |-> FALSE, todo |-> {}, gone |-> {}]
Running(c) == pass[c].running

Tracked(g) == {m \in Media : g[m] \in {"pending", "orphaned"}}
Pending(g) == {m \in Media : g[m] = "pending"}

Init == /\ grants = [m \in Media |-> "none"]
        /\ overdue = {}
        /\ object = [m \in Media |-> None]
        /\ alarm = {}
        /\ pass = [c \in Callers |-> Idle]
        /\ up = [u \in Uploads |-> [pc |-> "idle", m |-> None]]
        /\ reserved = {}
        /\ crashes = 0

(***************************************************************************)
(* The sweep: pending grants seen as overdue expire, overdue orphans are   *)
(* handed to the cleanup.  A call commits its own change with the sweep;   *)
(* with nothing to clean it reschedules the alarm before anything else     *)
(* can run, otherwise Settle does after the deletes.                       *)
(***************************************************************************)
Swept(late) == [m \in Media |-> IF m \in late \cap Pending(grants) THEN "expired" ELSE grants[m]]
DueOrphans(late) == {m \in late : grants[m] = "orphaned"}
StillOverdue(g) == {m \in overdue : g[m] = grants[m]}

NextAlarm(g) == Tracked(g)

(* Mutant: a call with nothing to clean does not set the alarm. *)
CommitWithoutAlarm(c, g, late) ==
  /\ grants' = g
  /\ overdue' = StillOverdue(g)
  /\ IF DueOrphans(late) = {}
     THEN UNCHANGED <<alarm, pass>>
     ELSE /\ pass' = [pass EXCEPT ![c] = [running |-> TRUE, todo |-> DueOrphans(late), gone |-> {}]]
          /\ alarm' = IF c = Alarm THEN {} ELSE alarm

Commit(c, g, late) ==
  /\ grants' = g
  /\ overdue' = StillOverdue(g)
  /\ IF DueOrphans(late) = {}
     THEN /\ alarm' = NextAlarm(g)
          /\ UNCHANGED pass
     ELSE /\ pass' = [pass EXCEPT ![c] = [running |-> TRUE, todo |-> DueOrphans(late), gone |-> {}]]
          /\ alarm' = IF c = Alarm THEN {} ELSE alarm

At(u, pc) == up[u].pc = pc /\ ~Running(u)
Goto(u, pc) == up' = [up EXCEPT ![u].pc = pc]

----------------------------------------------------------------------------
(* beginMediaUpload.  A refused call throws inside its transaction, which  *)
(* undoes the sweep: it changes nothing.                                   *)
(* Mutant: a new grant may replace the row of an orphan. *)
GrantingOrphan(c, m) ==
  LET g == Swept(overdue)
  IN /\ g[m] \in {"none", "orphaned"}
     /\ Cardinality(Pending(g)) < MaxPending
     /\ Commit(c, [g EXCEPT ![m] = "pending"], overdue)

Granting(c, m) ==
  LET g == Swept(overdue)
  IN /\ g[m] = "none"
     /\ Cardinality(Pending(g)) < MaxPending
     /\ Commit(c, [g EXCEPT ![m] = "pending"], overdue)

Joining(c, m) ==
  /\ Swept(overdue)[m] = "pending"
  /\ Commit(c, Swept(overdue), overdue)

Reserve(m) ==
  /\ ~Running(Create)
  /\ Granting(Create, m)
  /\ reserved' = reserved \cup {m}
  /\ UNCHANGED <<object, up, crashes>>

Begin(u, m) ==
  /\ up[u].pc = "idle"
  /\ \/ Granting(u, m)
     \/ m \in reserved /\ Joining(u, m)
  /\ up' = [up EXCEPT ![u] = [pc |-> "granted", m |-> m]]
  /\ UNCHANGED <<object, reserved, crashes>>

(* The R2 put.  A put reported as failed may have replaced the object.     *)
(* The key-value "lock" around it is a read followed by a write of an      *)
(* eventually consistent store: it excludes nobody, and when it does find  *)
(* the key busy the put counts as failed without having been tried.        *)
Write(u) ==
  /\ At(u, "granted")
  /\ object' = [object EXCEPT ![up[u].m] = u]
  /\ Goto(u, "written")
  /\ UNCHANGED <<grants, overdue, alarm, pass, reserved, crashes>>

WriteFails(u) ==
  /\ At(u, "granted")
  /\ \/ object' = [object EXCEPT ![up[u].m] = u]
     \/ UNCHANGED object
  /\ Goto(u, "failed")
  /\ UNCHANGED <<grants, overdue, alarm, pass, reserved, crashes>>

(* deleteMediaObjectBestEffort: its success decides between reverting the  *)
(* grant and leaving it to the orphan cleanup.                             *)
Revert(u) ==
  /\ At(u, "failed")
  /\ \/ /\ object' = [object EXCEPT ![up[u].m] = None]
        /\ Goto(u, "reverting")
     \/ /\ UNCHANGED object
        /\ Goto(u, "orphaning")
  /\ UNCHANGED <<grants, overdue, alarm, pass, reserved, crashes>>

(***************************************************************************)
(* finalizeMediaUpload.  Its sweep runs at upload_completed_at, an instant *)
(* before the put, when its own grant was not overdue yet: it may see      *)
(* fewer grants as overdue than there are.                                 *)
(* A grant that is neither pending nor completed makes the call throw, the *)
(* transaction is undone, and the gateway's handler ends there.            *)
(***************************************************************************)
(* Mutant: finalize does not look at the state of the grant. *)
FinalizeUnguarded(u, state, answer, refusal) ==
  /\ \E late \in SUBSET (overdue \ {up[u].m}) :
       /\ Commit(u, [Swept(late) EXCEPT ![up[u].m] = state], late)
       /\ Goto(u, answer)
  /\ UNCHANGED <<object, reserved, crashes>>

Finalize(u, state, answer, refusal) ==
  LET m == up[u].m
  IN /\ \E late \in SUBSET (overdue \ {m}) :
          LET g == Swept(late)
          IN \/ /\ g[m] = "pending"
                /\ Commit(u, [g EXCEPT ![m] = state], late)
                /\ Goto(u, answer)
             \/ /\ g[m] = "completed"
                /\ Commit(u, g, late)
                /\ Goto(u, answer)
             \/ /\ g[m] \notin {"pending", "completed"}
                /\ Goto(u, refusal)
                /\ UNCHANGED <<grants, overdue, alarm, pass>>
     /\ UNCHANGED <<object, reserved, crashes>>

FinalizeCompleted(u) == At(u, "written") /\ Finalize(u, "completed", "acked", "refused")
FinalizeReverted(u) == At(u, "reverting") /\ Finalize(u, "reverted", "error", "error")
FinalizeOrphaned(u) == At(u, "orphaning") /\ Finalize(u, "orphaned", "error", "error")

(* The client disconnects or the gateway's isolate ends between two calls. *)
Disconnect(u) ==
  /\ up[u].pc \in {"granted", "written", "failed", "reverting", "orphaning"}
  /\ ~Running(u)
  /\ Goto(u, "lost")
  /\ UNCHANGED <<grants, overdue, object, alarm, pass, reserved, crashes>>

----------------------------------------------------------------------------
(* UserDO.alarm and the cleanup every sweeping call may have to run.       *)
AlarmFires ==
  /\ alarm \cap overdue # {}
  /\ ~Running(Alarm)
  /\ Commit(Alarm, Swept(overdue), overdue)
  /\ UNCHANGED <<object, up, reserved, crashes>>

DeleteOrphan(c, m) ==
  /\ m \in pass[c].todo
  /\ object' = [object EXCEPT ![m] = None]
  /\ pass' = [pass EXCEPT ![c].todo = @ \ {m}, ![c].gone = @ \cup {m}]
  /\ UNCHANGED <<grants, overdue, alarm, up, reserved, crashes>>

(* Mutant: a failed delete counts as done. *)
DeleteFailsUnnoticed(c, m) ==
  /\ m \in pass[c].todo
  /\ pass' = [pass EXCEPT ![c].todo = @ \ {m}, ![c].gone = @ \cup {m}]
  /\ UNCHANGED <<grants, overdue, object, alarm, up, reserved, crashes>>

(* The failure is noted by writing the row back as orphaned, whatever the  *)
(* row has become while the delete was awaited.                            *)
DeleteFails(c, m) ==
  /\ m \in pass[c].todo
  /\ pass' = [pass EXCEPT ![c].todo = @ \ {m}]
  /\ grants' = [grants EXCEPT ![m] = "orphaned"]
  /\ overdue' = overdue \cup {m}
  /\ UNCHANGED <<object, alarm, up, reserved, crashes>>

Cleaned(gone) == [m \in Media |-> IF m \in gone /\ grants[m] = "orphaned" THEN "cleaned" ELSE grants[m]]

Settle(c) ==
  /\ Running(c) /\ pass[c].todo = {}
  /\ LET g == Cleaned(pass[c].gone)
     IN /\ grants' = g
        /\ overdue' = StillOverdue(g)
        /\ alarm' = NextAlarm(g)
  /\ pass' = [pass EXCEPT ![c] = Idle]
  /\ UNCHANGED <<object, up, reserved, crashes>>

(* A deadline passes: of a pending grant at any time, also while its       *)
(* object is being written; the retention of an orphan, an hour, outlasts  *)
(* the handlers that may still be writing the same object.                 *)
Writing(m) == \E u \in Uploads : up[u].m = m /\ up[u].pc \in {"granted", "failed"}

Lapse(m) ==
  /\ m \in Tracked(grants) \ overdue
  /\ grants[m] = "orphaned" => ~Writing(m)
  /\ overdue' = overdue \cup {m}
  /\ UNCHANGED <<grants, object, alarm, pass, up, reserved, crashes>>

(* The UserDO restarts during awaited deletes: the calls fail, an alarm    *)
(* whose handler did not return is run again by the platform.              *)
Crash ==
  /\ crashes < MaxCrashes
  /\ \E c \in Callers : Running(c)
  /\ crashes' = crashes + 1
  /\ pass' = [c \in Callers |-> Idle]
  /\ up' = [u \in Uploads |-> IF Running(u) THEN [up[u] EXCEPT !.pc = "lost"] ELSE up[u]]
  /\ alarm' = IF Running(Alarm) THEN Tracked(grants) ELSE alarm
  /\ UNCHANGED <<grants, overdue, object, reserved>>

Continue(u) ==
  \/ Write(u) \/ WriteFails(u) \/ Revert(u)
  \/ FinalizeCompleted(u) \/ FinalizeReverted(u) \/ FinalizeOrphaned(u)
  \/ Disconnect(u)

Next == \/ \E m \in Media : Reserve(m) \/ Lapse(m)
        \/ \E u \in Uploads : Continue(u) \/ \E m \in Media : Begin(u, m)
        \/ AlarmFires
        \/ \E c \in Callers : Settle(c) \/ \E m \in Media : DeleteOrphan(c, m) \/ DeleteFails(c, m)
        \/ Crash

Spec == Init /\ [][Next]_vars

(* Time passes, the platform runs due alarms and ends every handler, a     *)
(* call that awaits deletes goes on, and R2 does not refuse the delete of  *)
(* one object for ever.                                                    *)
Fairness ==
  /\ \A m \in Media : WF_vars(Lapse(m))
  /\ WF_vars(AlarmFires)
  /\ \A u \in Uploads : WF_vars(Continue(u))
  /\ \A c \in Callers : /\ WF_vars(Settle(c))
                        /\ WF_vars(\E m \in Media : DeleteOrphan(c, m) \/ DeleteFails(c, m))
  /\ \A m \in Media : SF_vars(\E c \in Callers : DeleteOrphan(c, m))

FairSpec == Spec /\ Fairness

----------------------------------------------------------------------------
(* The rows, the passes and the handlers have the shapes the code gives    *)
(* them.                                                                   *)
TypeOK ==
  /\ grants \in [Media -> GrantStates]
  /\ overdue \in SUBSET Media
  /\ object \in [Media -> Uploads \cup {None}]
  /\ alarm \in SUBSET Media
  /\ pass \in [Callers -> [running : BOOLEAN, todo : SUBSET Media, gone : SUBSET Media]]
  /\ up \in [Uploads -> [pc : Steps, m : Media \cup {None}]]
  /\ reserved \in SUBSET Media
  /\ crashes \in 0..MaxCrashes

(* At no instant does a user hold more pending grants than the cap         *)
(* enforced by beginMediaUpload.                                           *)
PendingWithinCap == IsFiniteSet(Pending(grants)) /\ Cardinality(Pending(grants)) <= MaxPending

(* A cleanup pass works on a list read before its awaits; whatever ran in  *)
(* between, each id still on the list is of an orphan or of one that       *)
(* another pass has cleaned: the stale list never deletes a live object.   *)
PassesNameOrphans ==
  \A c \in Callers : \A m \in pass[c].todo \cup pass[c].gone : grants[m] \in {"orphaned", "cleaned"}

(* A client that was told its upload succeeded has a completed grant.      *)
AckedIsCompleted == \A u \in Uploads : up[u].pc = "acked" => grants[up[u].m] = "completed"

(* No wake-up is lost: while a grant is pending, or an orphaned object     *)
(* exists, an alarm is set, whose run looks at every grant again, or a     *)
(* cleanup is running that will set one; across restarts and failed        *)
(* deletes too.  One case is excepted: a restart during a pass whose       *)
(* delete failed for an object that another pass had deleted already, and  *)
(* so wrote a cleaned row back as orphaned.                                *)
Orphans == {m \in Media : grants[m] = "orphaned" /\ object[m] # None}
WrittenBack == \E m \in overdue : grants[m] = "orphaned" /\ object[m] = None

AlarmCovers ==
  Pending(grants) \cup Orphans # {} =>
    \/ alarm # {}
    \/ \E c \in Callers : Running(c)
    \/ crashes > 0 /\ WrittenBack

(* What makes these inductive.  A handler past its first call has a media  *)
(* id; a pass with something to delete is running, for a handler that has  *)
(* begun; what a pass deletes, has deleted or has cleaned, and an orphan   *)
(* that is due, is written by nobody any more, and a deleted object is     *)
(* gone.                                                                   *)
HandlersHaveMedia == \A u \in Uploads : up[u].pc # "idle" => up[u].m \in Media

PassesAreCalls ==
  /\ \A c \in Callers : pass[c].todo # {} => Running(c)
  /\ \A u \in Uploads : Running(u) => up[u].pc # "idle"

Deleting(m) == \E c \in Callers : m \in pass[c].todo \cup pass[c].gone
Deleted(m) == grants[m] = "cleaned" \/ \E c \in Callers : m \in pass[c].gone

NobodyWrites ==
  \A m \in Media :
    (m \in overdue /\ grants[m] = "orphaned") \/ Deleting(m) \/ Deleted(m) => ~Writing(m)

DeletedIsGone == \A m \in Media : Deleted(m) => object[m] = None

(* Only the alarm's own pass and a row written back leave no alarm behind. *)
AlarmKept ==
  Tracked(grants) # {} /\ alarm = {} =>
    /\ Running(Alarm) \/ WrittenBack
    /\ crashes = 0 => \E c \in Callers : Running(c)

MediaInv ==
  /\ TypeOK /\ PendingWithinCap /\ PassesNameOrphans /\ AckedIsCompleted /\ AlarmCovers
  /\ HandlersHaveMedia /\ PassesAreCalls /\ NobodyWrites /\ DeletedIsGone /\ AlarmKept

(* A completed grant is final: no late finalize of another handler run, no *)
(* sweep and no cleanup changes it.                                        *)
CompletedIsFinal ==
  [][\A m \in Media : grants[m] = "completed" => grants'[m] = "completed"]_vars

(* A grant nobody finalizes does not stay pending: uploads whose handler   *)
(* died give their place under the cap back.                               *)
PendingEnds == \A m \in Media : (grants[m] = "pending") ~> (grants[m] # "pending")

(* Every orphaned object is deleted in the end, failed deletes and         *)
(* restarts notwithstanding.                                               *)
OrphansGo == \A m \in Media : (m \in Orphans) ~> (object[m] = None)

(* "A pending upload that is not finalized must be cleaned up by its TTL"  *)
(* (33-media.md:153), which takes an alarm: without the exception.         *)
AlarmAlwaysCovers ==
  Pending(grants) \cup Orphans # {} => alarm # {} \/ \E c \in Callers : Running(c)

(* Media a client was told is stored stays stored (33-media.md, 7.1).      *)
AckedIsStored == \A u \in Uploads : up[u].pc = "acked" => object[up[u].m] # None

(* When finalize fails after the object was written, the object is marked  *)
(* as an orphan for the cleanup (33-media.md, 3.3).                        *)
RefusedIsOrphaned ==
  \A u \in Uploads : up[u].pc = "refused" /\ object[up[u].m] = u => grants[up[u].m] = "orphaned"
============================================================================
