-------------------------- MODULE UserContentProofs --------------------------
(***************************************************************************)
(* Proofs about what a UserDO stores for its user: the uploaded media      *)
(* (MediaUploads) and the profile, account data, tags, presence and push   *)
(* rules with their way to the devices and rooms (UserData).               *)
(*                                                                         *)
(* MediaInv holds in every reachable state, for every set of media ids and *)
(* of handlers and every cap, and a completed grant is final.  Most        *)
(* actions commit a sweep with a change of their own (Commit); what such a *)
(* step must not do is stated once, in CommitKeeps.                        *)
(*                                                                         *)
(* UserDataInv holds for any rooms, names, rules and handlers: a rule's    *)
(* rank among the rules is counted, so ranks are dense.  Rules are placed  *)
(* as asked, and what a device has synced is what is stored.               *)
(***************************************************************************)
EXTENDS MediaUploads, UserData, FiniteSetTheorems, SequenceTheorems, TLAPS

-----------------------------------------------------------------------------
(* Media: MediaUploads *)

(* Lemmas about the sweep *)

\* A sweep touches pending grants only, and expires them.
LEMMA SweptFacts ==
  ASSUME TypeOK, NEW aged \in SUBSET overdue
  PROVE  /\ Swept(aged) \in [Media -> GrantStates]
         /\ \A m \in Media : \/ Swept(aged)[m] = grants[m]
                             \/ grants[m] = "pending" /\ Swept(aged)[m] = "expired"
         /\ Pending(Swept(aged)) \subseteq Pending(grants)
  BY DEF TypeOK, Swept, Pending, GrantStates

\* Fewer pending grants are within the cap as well.
LEMMA FewerPending ==
  ASSUME TypeOK, PendingWithinCap, NEW g, Pending(g) \subseteq Pending(grants)
  PROVE  IsFiniteSet(Pending(g)) /\ Cardinality(Pending(g)) <= MaxPending
<1>1. /\ IsFiniteSet(Pending(g))
      /\ Cardinality(Pending(g)) <= Cardinality(Pending(grants))
  BY FS_Subset DEF PendingWithinCap
<1>2. Cardinality(Pending(g)) \in Nat /\ Cardinality(Pending(grants)) \in Nat
  BY <1>1, FS_CardinalityType DEF PendingWithinCap
<1> QED
  BY <1>1, <1>2, Bounds DEF PendingWithinCap

\* One grant more, where the cap had room.
LEMMA OneMorePending ==
  ASSUME NEW g \in [Media -> GrantStates], NEW m \in Media,
         IsFiniteSet(Pending(g)), Cardinality(Pending(g)) < MaxPending
  PROVE  /\ IsFiniteSet(Pending([g EXCEPT ![m] = "pending"]))
         /\ Cardinality(Pending([g EXCEPT ![m] = "pending"])) <= MaxPending
<1>1. Pending([g EXCEPT ![m] = "pending"]) = Pending(g) \cup {m}
  BY DEF Pending
<1>2. /\ IsFiniteSet(Pending(g) \cup {m})
      /\ Cardinality(Pending(g) \cup {m}) \in {Cardinality(Pending(g)), Cardinality(Pending(g)) + 1}
  BY FS_AddElement
<1>3. Cardinality(Pending(g)) \in Nat
  BY FS_CardinalityType
<1>4. Cardinality(Pending(g) \cup {m}) <= MaxPending
  BY <1>2, <1>3, Bounds
<1> QED
  BY <1>1, <1>2, <1>4

-----------------------------------------------------------------------------
(* A committed sweep *)

\* What a call commits keeps the invariant when it changes only rows that are
\* new or pending, stays within the cap, lets nobody begin to write an object
\* whose grant is not pending, and tells only clients whose grant it completes.
LEMMA CommitKeeps ==
  ASSUME MediaInv, NEW c \in Callers, NEW aged \in SUBSET overdue,
         NEW g \in [Media -> GrantStates], Commit(c, g, aged),
         \A m \in Media : g[m] # grants[m] =>
           grants[m] \in {"none", "pending"} /\ g[m] # "cleaned",
         IsFiniteSet(Pending(g)), Cardinality(Pending(g)) <= MaxPending,
         up' \in [Uploads -> [pc : Steps, m : Media \cup {None}]],
         reserved' \in SUBSET Media,
         HandlersHaveMedia',
         \A u \in Uploads : up'[u].pc = "idle" => up[u].pc = "idle" /\ u # c,
         \A m \in Media : Writing(m)' => Writing(m) \/ g[m] = "pending",
         \A u \in Uploads : up'[u].pc = "acked" => g[up'[u].m] = "completed",
         UNCHANGED <<object, crashes>>
  PROVE  MediaInv'
<1> DEFINE due == DueOrphans(aged)
<1>1. /\ grants' = g
      /\ overdue' = StillOverdue(g)
      /\ due = {} => alarm' = Tracked(g) /\ pass' = pass
      /\ due # {} => /\ pass' = [pass EXCEPT ![c] = [running |-> TRUE, todo |-> due, gone |-> {}]]
                     /\ alarm' = IF c = Alarm THEN {} ELSE alarm
  BY DEF Commit, NextAlarm
<1>2. due \subseteq Media /\ \A m \in due : m \in overdue /\ grants[m] = "orphaned" /\ g[m] = "orphaned"
  BY DEF DueOrphans, MediaInv, TypeOK
<1>3. /\ \A d \in Callers : pass'[d].todo \subseteq pass[d].todo \cup due
      /\ \A d \in Callers : pass'[d].gone \subseteq pass[d].gone
      /\ \A d \in Callers : Running(d) => Running(d)'
      /\ due # {} => Running(c)'
  <2>1. /\ \A d \in Callers : d # c => pass'[d] = pass[d]
        /\ due = {} => pass'[c] = pass[c]
        /\ due # {} => pass'[c] = [running |-> TRUE, todo |-> due, gone |-> {}]
    BY <1>1 DEF MediaInv, TypeOK
  <2> HIDE DEF due
  <2> QED BY <2>1 DEF Running
<1>4. TypeOK'
  <2>1. pass' \in [Callers -> [running : BOOLEAN, todo : SUBSET Media, gone : SUBSET Media]]
    <3> DEFINE P == [running : BOOLEAN, todo : SUBSET Media, gone : SUBSET Media]
    <3>1. pass \in [Callers -> P]
      BY DEF MediaInv, TypeOK
    <3>2. [running |-> TRUE, todo |-> due, gone |-> {}] \in P
      BY <1>2
    <3> SUFFICES pass' \in [Callers -> P]
      OBVIOUS
    <3> HIDE DEF P, due
    <3> QED BY <1>1, <3>1, <3>2
  <2>2. overdue' \in SUBSET Media /\ alarm' \in SUBSET Media
    BY <1>1 DEF MediaInv, TypeOK, StillOverdue, Tracked
  <2> QED
    BY <1>1, <2>1, <2>2 DEF MediaInv, TypeOK
<1>5. PendingWithinCap'
  BY <1>1 DEF PendingWithinCap
<1>6. PassesNameOrphans'
  BY <1>1, <1>2, <1>3 DEF PassesNameOrphans, MediaInv, TypeOK
<1>7. AckedIsCompleted' /\ PassesAreCalls'
  <2>1. \A d \in Callers : d # c => pass'[d] = pass[d]
    BY <1>1 DEF MediaInv, TypeOK
  <2> QED BY <1>1, <1>3, <2>1 DEF AckedIsCompleted, PassesAreCalls, MediaInv, Running, Callers
<1>8. \A m \in Media : Deleted(m)' => Deleted(m)
  BY <1>1, <1>3 DEF Deleted
<1>9. NobodyWrites'
  <2> SUFFICES ASSUME NEW m \in Media,
                      (m \in overdue' /\ g[m] = "orphaned") \/ Deleting(m)' \/ Deleted(m)'
               PROVE  ~Writing(m)'
    BY <1>1 DEF NobodyWrites
  <2>1. (m \in overdue /\ grants[m] = "orphaned") \/ Deleting(m) \/ Deleted(m)
    <3>1. CASE m \in overdue' /\ g[m] = "orphaned"
      BY <3>1, <1>1 DEF StillOverdue
    <3>2. CASE Deleting(m)'
      BY <3>2, <1>2, <1>3 DEF Deleting
    <3>3. CASE Deleted(m)'
      BY <3>3, <1>8
    <3> QED BY <3>1, <3>2, <3>3
  <2>2. ~Writing(m)
    BY <2>1 DEF MediaInv, NobodyWrites
  <2>3. g[m] # "pending"
    BY <2>1 DEF MediaInv, PassesNameOrphans, Deleting, Deleted
  <2> QED
    BY <2>2, <2>3
<1>10. DeletedIsGone'
  BY <1>8 DEF MediaInv, DeletedIsGone
<1>11. WrittenBack => WrittenBack'
  BY <1>1 DEF WrittenBack, StillOverdue, MediaInv, TypeOK
<1>12. AlarmKept'
  <2>1. CASE due = {}
    BY <1>1, <2>1 DEF AlarmKept
  <2>2. CASE due # {} /\ c = Alarm
    BY <1>3, <2>2 DEF AlarmKept
  <2>3. CASE due # {} /\ c # Alarm
    <3>1. Tracked(grants) # {}
      BY <2>3, <1>2 DEF Tracked
    <3>2. alarm = {} => Running(Alarm) \/ WrittenBack
      BY <3>1 DEF MediaInv, AlarmKept
    <3>3. alarm' = alarm
      BY <2>3, <1>1
    <3> QED BY <3>2, <3>3, <1>3, <1>11, <2>3 DEF AlarmKept, Callers
  <2> QED BY <2>1, <2>2, <2>3
<1>13. AlarmCovers'
  <2>1. Pending(grants') \cup Orphans' \subseteq Tracked(grants')
    BY DEF Pending, Orphans, Tracked
  <2>2. Running(Alarm)' => \E d \in Callers : Running(d)'
    BY DEF Callers
  <2>3. crashes' \in Nat
    BY <1>4, Bounds DEF TypeOK
  <2> QED BY <1>12, <2>1, <2>2, <2>3 DEF AlarmKept, AlarmCovers
<1> QED
  BY <1>4, <1>5, <1>6, <1>7, <1>9, <1>10, <1>12, <1>13 DEF MediaInv

-----------------------------------------------------------------------------
(* The calls of the gateway *)

\* A handler other than the one that begins goes on writing what it wrote.
LEMMA BeginWrites ==
  ASSUME TypeOK, NEW u \in Uploads, NEW m \in Media,
         up' = [up EXCEPT ![u] = [pc |-> "granted", m |-> m]]
  PROVE  \A n \in Media : Writing(n)' => Writing(n) \/ n = m
  BY DEF TypeOK, Writing

\* A grant is given for a media id without a row.
LEMMA GrantingCommits ==
  ASSUME MediaInv, NEW c \in Callers, NEW m \in Media, Granting(c, m)
  PROVE  \E g \in [Media -> GrantStates] :
           /\ Commit(c, g, overdue)
           /\ \A n \in Media : g[n] # grants[n] =>
                grants[n] \in {"none", "pending"} /\ g[n] # "cleaned"
           /\ IsFiniteSet(Pending(g)) /\ Cardinality(Pending(g)) <= MaxPending
           /\ g[m] = "pending"
           /\ \A n \in Media : grants[n] = "completed" => g[n] = "completed"
<1> DEFINE s == Swept(overdue)
           g == [s EXCEPT ![m] = "pending"]
<1>1. /\ s \in [Media -> GrantStates]
      /\ \A n \in Media : s[n] = grants[n] \/ (grants[n] = "pending" /\ s[n] = "expired")
      /\ Pending(s) \subseteq Pending(grants)
  <2>1. TypeOK
    BY DEF MediaInv
  <2> QED BY <2>1, SweptFacts
<1>2. s[m] = "none" /\ Cardinality(Pending(s)) < MaxPending /\ Commit(c, g, overdue)
  BY DEF Granting
<1>3. IsFiniteSet(Pending(s))
  BY <1>1, FewerPending DEF MediaInv
<1> HIDE DEF s
<1>4. IsFiniteSet(Pending(g)) /\ Cardinality(Pending(g)) <= MaxPending
  BY <1>1, <1>2, <1>3, OneMorePending
<1>5. g \in [Media -> GrantStates]
  BY <1>1 DEF GrantStates
<1>6. \A n \in Media : g[n] # grants[n] =>
        grants[n] \in {"none", "pending"} /\ g[n] # "cleaned"
  BY <1>1, <1>2
<1>7. g[m] = "pending" /\ \A n \in Media : grants[n] = "completed" => g[n] = "completed"
  BY <1>1, <1>2
<1> HIDE DEF g
<1> QED BY <1>2, <1>4, <1>5, <1>6, <1>7

\* A sweep with no change of its own.
LEMMA SweepCommits ==
  ASSUME MediaInv, NEW c \in Callers, NEW aged \in SUBSET overdue,
         Commit(c, Swept(aged), aged)
  PROVE  \E g \in [Media -> GrantStates] :
           /\ g = Swept(aged)
           /\ Commit(c, g, aged)
           /\ \A n \in Media : g[n] # grants[n] =>
                grants[n] \in {"none", "pending"} /\ g[n] # "cleaned"
           /\ IsFiniteSet(Pending(g)) /\ Cardinality(Pending(g)) <= MaxPending
           /\ \A n \in Media : grants[n] = "completed" => g[n] = "completed"
<1> DEFINE g == Swept(aged)
<1>1. /\ g \in [Media -> GrantStates]
      /\ \A n \in Media : g[n] = grants[n] \/ (grants[n] = "pending" /\ g[n] = "expired")
      /\ Pending(g) \subseteq Pending(grants)
  <2>1. TypeOK
    BY DEF MediaInv
  <2> QED BY <2>1, SweptFacts
<1>2. IsFiniteSet(Pending(g)) /\ Cardinality(Pending(g)) <= MaxPending
  BY <1>1, FewerPending DEF MediaInv
<1> HIDE DEF g
<1>3. \A n \in Media : /\ g[n] # grants[n] =>
                          grants[n] \in {"none", "pending"} /\ g[n] # "cleaned"
                      /\ grants[n] = "completed" => g[n] = "completed"
  BY <1>1
<1>4. g = Swept(aged) /\ Commit(c, g, aged)
  BY DEF g
<1> QED BY <1>1, <1>2, <1>3, <1>4

LEMMA ReserveKeeps ==
  ASSUME MediaInv, NEW m \in Media, Reserve(m)
  PROVE  MediaInv' /\ \A n \in Media : grants[n] = "completed" => grants'[n] = "completed"
<1>1. PICK g \in [Media -> GrantStates] :
        /\ Commit(Create, g, overdue)
        /\ \A n \in Media : g[n] # grants[n] =>
             grants[n] \in {"none", "pending"} /\ g[n] # "cleaned"
        /\ IsFiniteSet(Pending(g)) /\ Cardinality(Pending(g)) <= MaxPending
        /\ \A n \in Media : grants[n] = "completed" => g[n] = "completed"
  BY GrantingCommits DEF Reserve, Callers
<1>2. UNCHANGED <<object, up, crashes>> /\ reserved' \in SUBSET Media
  BY DEF Reserve, MediaInv, TypeOK
<1>3. up' \in [Uploads -> [pc : Steps, m : Media \cup {None}]]
  BY <1>2 DEF MediaInv, TypeOK
<1>4. HandlersHaveMedia' /\ \A n \in Media : Writing(n)' => Writing(n)
  BY <1>2 DEF MediaInv, HandlersHaveMedia, Writing
<1>5. \A u \in Uploads : up'[u].pc = "acked" => g[up'[u].m] = "completed"
  BY <1>1, <1>2 DEF MediaInv, AckedIsCompleted, HandlersHaveMedia
<1>6. Create \in Callers /\ overdue \in SUBSET overdue
  BY DEF Callers
<1>7. MediaInv'
  <2>1. \A u \in Uploads : up'[u].pc = "idle" => up[u].pc = "idle" /\ u # Create
    BY <1>2, CallersDiffer
  <2> QED BY <1>1, <1>2, <1>3, <1>4, <1>5, <1>6, <2>1, CommitKeeps
<1>8. grants' = g
  BY <1>1 DEF Commit
<1> QED BY <1>1, <1>7, <1>8

LEMMA BeginKeeps ==
  ASSUME MediaInv, NEW u \in Uploads, NEW m \in Media, Begin(u, m)
  PROVE  MediaInv' /\ \A n \in Media : grants[n] = "completed" => grants'[n] = "completed"
<1>1. PICK g \in [Media -> GrantStates] :
        /\ Commit(u, g, overdue)
        /\ \A n \in Media : g[n] # grants[n] =>
             grants[n] \in {"none", "pending"} /\ g[n] # "cleaned"
        /\ IsFiniteSet(Pending(g)) /\ Cardinality(Pending(g)) <= MaxPending
        /\ g[m] = "pending"
        /\ \A n \in Media : grants[n] = "completed" => g[n] = "completed"
  <2>1. CASE Granting(u, m)
    BY <2>1, GrantingCommits DEF Callers
  <2>2. CASE Joining(u, m)
    BY <2>2, SweepCommits DEF Joining, Callers
  <2> QED BY <2>1, <2>2 DEF Begin
<1>2. /\ up' = [up EXCEPT ![u] = [pc |-> "granted", m |-> m]]
      /\ UNCHANGED <<object, reserved, crashes>>
  BY DEF Begin
<1>3. up' \in [Uploads -> [pc : Steps, m : Media \cup {None}]] /\ reserved' \in SUBSET Media
  BY <1>2 DEF MediaInv, TypeOK, Steps
<1>4. HandlersHaveMedia'
  BY <1>2 DEF MediaInv, TypeOK, HandlersHaveMedia
<1>5. \A n \in Media : Writing(n)' => Writing(n) \/ g[n] = "pending"
  BY <1>1, <1>2, BeginWrites DEF MediaInv
<1>6. \A v \in Uploads : up'[v].pc = "acked" => g[up'[v].m] = "completed"
  BY <1>1, <1>2 DEF MediaInv, TypeOK, AckedIsCompleted, HandlersHaveMedia
<1>7. u \in Callers /\ overdue \in SUBSET overdue
  BY DEF Callers
<1>8. MediaInv'
  <2>1. \A v \in Uploads : up'[v].pc = "idle" => up[v].pc = "idle" /\ v # u
    BY <1>2 DEF MediaInv, TypeOK
  <2> QED BY <1>1, <1>2, <1>3, <1>4, <1>5, <1>6, <1>7, <2>1, CommitKeeps
<1>9. grants' = g
  BY <1>1 DEF Commit
<1> QED BY <1>1, <1>8, <1>9

\* A handler moves to another place; what it may not do there is to write.
LEMMA GotoFacts ==
  ASSUME TypeOK, HandlersHaveMedia, NEW u \in Uploads, NEW pc \in Steps, Goto(u, pc),
         up[u].pc # "idle"
  PROVE  /\ up' \in [Uploads -> [pc : Steps, m : Media \cup {None}]]
         /\ HandlersHaveMedia'
         /\ \A v \in Uploads : up'[v].m = up[v].m /\ (v # u => up'[v] = up[v])
         /\ up'[u].pc = pc
         /\ pc \notin {"granted", "failed"} => \A m \in Media : Writing(m)' => Writing(m)
         /\ Writing(up[u].m) => \A m \in Media : Writing(m)' => Writing(m)
  BY DEF TypeOK, HandlersHaveMedia, Goto, Writing

\* The three finalizes change one grant that is pending, and nothing else.
LEMMA FinalizeKeeps ==
  ASSUME MediaInv, NEW u \in Uploads, NEW state \in {"completed", "reverted", "orphaned"},
         NEW answer \in {"acked", "error"}, NEW refusal \in {"refused", "error"},
         answer = "acked" => state = "completed",
         up[u].pc # "idle",
         Finalize(u, state, answer, refusal)
  PROVE  MediaInv' /\ \A n \in Media : grants[n] = "completed" => grants'[n] = "completed"
<1> DEFINE m == up[u].m
<1>1. m \in Media /\ TypeOK /\ HandlersHaveMedia
  BY DEF MediaInv, HandlersHaveMedia
<1>2. UNCHANGED <<object, reserved, crashes>>
  BY DEF Finalize
<1>3. \A pc \in {"acked", "refused", "error"} : Goto(u, pc) =>
        /\ up' \in [Uploads -> [pc : Steps, m : Media \cup {None}]]
        /\ HandlersHaveMedia'
        /\ \A v \in Uploads : up'[v].m = up[v].m /\ (v # u => up'[v] = up[v])
        /\ up'[u].pc = pc
        /\ \A n \in Media : Writing(n)' => Writing(n)
  BY <1>1, GotoFacts DEF Steps
<1>4. PICK aged \in SUBSET (overdue \ {m}) :
        LET g == Swept(aged)
        IN \/ /\ g[m] = "pending"
              /\ Commit(u, [g EXCEPT ![m] = state], aged)
              /\ Goto(u, answer)
           \/ /\ g[m] = "completed"
              /\ Commit(u, g, aged)
              /\ Goto(u, answer)
           \/ /\ g[m] \notin {"pending", "completed"}
              /\ Goto(u, refusal)
              /\ UNCHANGED <<grants, overdue, alarm, pass>>
  BY DEF Finalize
<1> DEFINE s == Swept(aged)
<1>5. /\ s \in [Media -> GrantStates]
      /\ \A n \in Media : s[n] = grants[n] \/ (grants[n] = "pending" /\ s[n] = "expired")
      /\ Pending(s) \subseteq Pending(grants)
  BY <1>1, SweptFacts
<1>6. u \in Callers /\ aged \in SUBSET overdue
  BY DEF Callers
<1>7. reserved' \in SUBSET Media
  BY <1>1, <1>2 DEF TypeOK
<1>8. CASE Goto(u, answer) /\ \E g \in {s, [s EXCEPT ![m] = state]} :
             /\ Commit(u, g, aged)
             /\ g = s => s[m] = "completed"
             /\ g # s => s[m] = "pending"
  <2>1. PICK g \in {s, [s EXCEPT ![m] = state]} :
             /\ Commit(u, g, aged)
             /\ g = s => s[m] = "completed"
             /\ g # s => s[m] = "pending"
    BY <1>8
  <2> HIDE DEF s
  <2>2. /\ g \in [Media -> GrantStates]
        /\ g[m] \in {state, "completed"}
        /\ \A n \in Media : n # m => g[n] = s[n]
        /\ s[m] \in {"completed", "pending"}
        /\ \A n \in Media : g[n] = "pending" => s[n] = "pending"
    BY <1>1, <1>5, <2>1 DEF GrantStates
  <2>3. \A n \in Media : /\ g[n] # grants[n] =>
                              grants[n] \in {"none", "pending"} /\ g[n] # "cleaned"
                         /\ grants[n] = "completed" => g[n] = "completed"
    <3> SUFFICES ASSUME NEW n \in Media
                 PROVE  /\ g[n] # grants[n] =>
                             grants[n] \in {"none", "pending"} /\ g[n] # "cleaned"
                        /\ grants[n] = "completed" => g[n] = "completed"
      OBVIOUS
    <3>1. CASE n # m
      BY <1>5, <2>2, <3>1
    <3>2. CASE n = m /\ g = s
      BY <1>5, <2>1, <3>2
    <3>3. CASE n = m /\ g # s
      BY <1>5, <2>1, <2>2, <3>3
    <3> QED BY <3>1, <3>2, <3>3
  <2>4. IsFiniteSet(Pending(g)) /\ Cardinality(Pending(g)) <= MaxPending
    <3>1. Pending(g) \subseteq Pending(grants)
      BY <1>5, <2>2 DEF Pending
    <3> QED BY <3>1, FewerPending DEF MediaInv
  <2>5. \A v \in Uploads : up'[v].pc = "acked" => g[up'[v].m] = "completed"
    <3> SUFFICES ASSUME NEW v \in Uploads, up'[v].pc = "acked"
                 PROVE  g[up'[v].m] = "completed"
      OBVIOUS
    <3>1. CASE v = u
      BY <1>3, <1>8, <2>1, <2>2, <3>1
    <3>2. CASE v # u
      <4>1. up'[v] = up[v]
        BY <1>3, <1>8, <3>2
      <4>2. up[v].m \in Media /\ grants[up[v].m] = "completed"
        BY <4>1, <1>1 DEF MediaInv, AckedIsCompleted, HandlersHaveMedia
      <4>3. g[up[v].m] = "completed"
        BY <4>2, <2>3
      <4> QED BY <4>1, <4>3
    <3> QED BY <3>1, <3>2
  <2>6. /\ up' \in [Uploads -> [pc : Steps, m : Media \cup {None}]]
        /\ HandlersHaveMedia'
        /\ \A n \in Media : Writing(n)' => Writing(n)
    BY <1>3, <1>8
  <2>7. \A n \in Media : g[n] # grants[n] =>
          grants[n] \in {"none", "pending"} /\ g[n] # "cleaned"
    BY <2>3
  <2>8. \A n \in Media : Writing(n)' => Writing(n) \/ g[n] = "pending"
    BY <2>6
  <2>9. MediaInv'
    <3>1. \A v \in Uploads : up'[v].pc = "idle" => up[v].pc = "idle" /\ v # u
      BY <1>3, <1>8
    <3> QED BY <1>2, <1>6, <1>7, <3>1, <2>1, <2>2, <2>4, <2>5, <2>6, <2>7, <2>8, CommitKeeps
  <2>10. grants' = g
    BY <2>1 DEF Commit
  <2>11. \A n \in Media : grants[n] = "completed" => grants'[n] = "completed"
    BY <2>3, <2>10
  <2> QED BY <2>9, <2>11
<1>9. CASE Goto(u, refusal) /\ UNCHANGED <<grants, overdue, alarm, pass>>
  <2>1. /\ up' \in [Uploads -> [pc : Steps, m : Media \cup {None}]]
        /\ HandlersHaveMedia'
        /\ \A v \in Uploads : up'[v].m = up[v].m /\ (v # u => up'[v] = up[v])
        /\ up'[u].pc = refusal
        /\ \A n \in Media : Writing(n)' => Writing(n)
    BY <1>3, <1>9
  <2>2. TypeOK' /\ PendingWithinCap' /\ PassesNameOrphans'
    BY <1>2, <1>9, <2>1 DEF MediaInv, TypeOK, PendingWithinCap, PassesNameOrphans
  <2>3. AckedIsCompleted' /\ PassesAreCalls'
    BY <1>9, <2>1 DEF MediaInv, AckedIsCompleted, PassesAreCalls, Running, Callers
  <2>4. NobodyWrites'
    BY <1>9, <2>1 DEF MediaInv, NobodyWrites, Deleting, Deleted
  <2>5. DeletedIsGone' /\ AlarmKept' /\ AlarmCovers'
    BY <1>2, <1>9 DEF MediaInv, DeletedIsGone, Deleted, AlarmKept, AlarmCovers, WrittenBack,
                      Orphans, Running
  <2> QED BY <1>9, <2>1, <2>2, <2>3, <2>4, <2>5 DEF MediaInv
<1>10. \/ Goto(u, refusal) /\ UNCHANGED <<grants, overdue, alarm, pass>>
       \/ /\ Goto(u, answer)
          /\ \E g \in {s, [s EXCEPT ![m] = state]} :
               /\ Commit(u, g, aged)
               /\ g = s => s[m] = "completed"
               /\ g # s => s[m] = "pending"
  BY <1>1, <1>4, <1>5
<1> QED BY <1>8, <1>9, <1>10

\* A step of a handler that touches no grant, alarm or pass, and no object but
\* one it was writing or one it deletes.
LEMMA HandlerKeeps ==
  ASSUME MediaInv, NEW u \in Uploads, NEW pc \in Steps \ {"acked", "idle"}, Goto(u, pc),
         up[u].pc # "idle",
         pc \in {"granted", "failed"} => Writing(up[u].m),
         \/ UNCHANGED object
         \/ up[u].pc = "granted" /\ object' = [object EXCEPT ![up[u].m] = u]
         \/ object' = [object EXCEPT ![up[u].m] = None],
         UNCHANGED <<grants, overdue, alarm, pass, reserved, crashes>>
  PROVE  MediaInv'
<1>1. up[u].m \in Media /\ TypeOK /\ HandlersHaveMedia
  BY DEF MediaInv, HandlersHaveMedia
<1>2. /\ up' \in [Uploads -> [pc : Steps, m : Media \cup {None}]]
      /\ HandlersHaveMedia'
      /\ \A v \in Uploads : up'[v].m = up[v].m /\ (v # u => up'[v] = up[v])
      /\ up'[u].pc = pc
      /\ \A n \in Media : Writing(n)' => Writing(n)
  BY <1>1, GotoFacts
<1>3. /\ object' \in [Media -> Uploads \cup {None}]
      /\ \A n \in Media : ~Writing(n) => object'[n] \in {object[n], None}
  BY <1>1 DEF TypeOK, Writing
<1>4. TypeOK' /\ PendingWithinCap' /\ PassesNameOrphans'
  BY <1>2, <1>3 DEF MediaInv, TypeOK, PendingWithinCap, PassesNameOrphans
<1>5. AckedIsCompleted' /\ PassesAreCalls'
  BY <1>2 DEF MediaInv, AckedIsCompleted, PassesAreCalls, Running, Callers
<1>6. NobodyWrites'
  BY <1>2 DEF MediaInv, NobodyWrites, Deleting, Deleted
<1>7. DeletedIsGone'
  BY <1>3 DEF MediaInv, DeletedIsGone, NobodyWrites, Deleted
<1>8. WrittenBack => WrittenBack'
  BY <1>3 DEF MediaInv, TypeOK, WrittenBack, NobodyWrites
<1>9. AlarmKept' /\ AlarmCovers'
  <2>1. AlarmKept'
    BY <1>8 DEF MediaInv, AlarmKept, Running
  <2>2. Pending(grants') \cup Orphans' \subseteq Tracked(grants')
    BY DEF Pending, Orphans, Tracked
  <2>3. Running(Alarm)' => \E d \in Callers : Running(d)'
    BY DEF Callers
  <2>4. crashes' \in Nat
    BY <1>4, Bounds DEF TypeOK
  <2> QED BY <2>1, <2>2, <2>3, <2>4 DEF AlarmKept, AlarmCovers
<1> QED BY <1>2, <1>4, <1>5, <1>6, <1>7, <1>9 DEF MediaInv

LEMMA ContinueKeeps ==
  ASSUME MediaInv, NEW u \in Uploads, Continue(u)
  PROVE  MediaInv' /\ \A n \in Media : grants[n] = "completed" => grants'[n] = "completed"
<1>1. ASSUME Write(u) \/ WriteFails(u) \/ Revert(u) \/ Disconnect(u)
      PROVE  MediaInv' /\ UNCHANGED grants
  <2>1. CASE Write(u)
    <3>1. Goto(u, "written") /\ up[u].pc = "granted" /\ "written" \in Steps \ {"acked", "idle"}
      BY <2>1 DEF Write, At, Steps
    <3> QED BY <2>1, <3>1, HandlerKeeps DEF Write
  <2>2. CASE WriteFails(u)
    <3>1. Goto(u, "failed") /\ up[u].pc = "granted" /\ "failed" \in Steps \ {"acked", "idle"}
      BY <2>2 DEF WriteFails, At, Steps
    <3>2. Writing(up[u].m)
      BY <3>1 DEF Writing
    <3> QED BY <2>2, <3>1, <3>2, HandlerKeeps DEF WriteFails
  <2>3. CASE Revert(u)
    <3>1. PICK pc \in {"reverting", "orphaning"} : Goto(u, pc)
      BY <2>3 DEF Revert
    <3>2. /\ up[u].pc = "failed" /\ pc \in Steps \ {"acked", "idle"}
          /\ pc \notin {"granted", "failed"}
      BY <2>3, <3>1 DEF Revert, At, Steps
    <3>3. \/ UNCHANGED object
          \/ object' = [object EXCEPT ![up[u].m] = None]
      BY <2>3 DEF Revert
    <3> QED BY <2>3, <3>1, <3>2, <3>3, HandlerKeeps DEF Revert
  <2>4. CASE Disconnect(u)
    <3>1. Goto(u, "lost") /\ up[u].pc # "idle" /\ "lost" \in Steps \ {"acked", "idle"}
      BY <2>4 DEF Disconnect, Steps
    <3> QED BY <2>4, <3>1, HandlerKeeps DEF Disconnect
  <2> QED BY <1>1, <2>1, <2>2, <2>3, <2>4
<1>2. ASSUME FinalizeCompleted(u) \/ FinalizeReverted(u) \/ FinalizeOrphaned(u)
      PROVE  MediaInv' /\ \A n \in Media : grants[n] = "completed" => grants'[n] = "completed"
  <2>1. CASE FinalizeCompleted(u)
    <3>1. up[u].pc # "idle" /\ Finalize(u, "completed", "acked", "refused")
      BY <2>1 DEF FinalizeCompleted, At
    <3> QED BY <3>1, FinalizeKeeps
  <2>2. CASE FinalizeReverted(u)
    <3>1. up[u].pc # "idle" /\ Finalize(u, "reverted", "error", "error")
      BY <2>2 DEF FinalizeReverted, At
    <3> QED BY <3>1, FinalizeKeeps
  <2>3. CASE FinalizeOrphaned(u)
    <3>1. up[u].pc # "idle" /\ Finalize(u, "orphaned", "error", "error")
      BY <2>3 DEF FinalizeOrphaned, At
    <3> QED BY <3>1, FinalizeKeeps
  <2> QED BY <1>2, <2>1, <2>2, <2>3
<1> QED BY <1>1, <1>2 DEF Continue

-----------------------------------------------------------------------------
(* The UserDO's cleanup *)

LEMMA AlarmFiresKeeps ==
  ASSUME MediaInv, AlarmFires
  PROVE  MediaInv' /\ \A n \in Media : grants[n] = "completed" => grants'[n] = "completed"
<1>0. Alarm \in Callers /\ overdue \in SUBSET overdue
  BY DEF Callers
<1>1. PICK g \in [Media -> GrantStates] :
        /\ g = Swept(overdue)
        /\ Commit(Alarm, g, overdue)
        /\ \A n \in Media : g[n] # grants[n] =>
             grants[n] \in {"none", "pending"} /\ g[n] # "cleaned"
        /\ IsFiniteSet(Pending(g)) /\ Cardinality(Pending(g)) <= MaxPending
        /\ \A n \in Media : grants[n] = "completed" => g[n] = "completed"
  BY <1>0, SweepCommits DEF AlarmFires
<1>2. UNCHANGED <<object, up, reserved, crashes>>
  BY DEF AlarmFires
<1>3. /\ up' \in [Uploads -> [pc : Steps, m : Media \cup {None}]]
      /\ reserved' \in SUBSET Media
  BY <1>2 DEF MediaInv, TypeOK
<1>4. HandlersHaveMedia' /\ \A n \in Media : Writing(n)' => Writing(n)
  BY <1>2 DEF MediaInv, HandlersHaveMedia, Writing
<1>5. \A u \in Uploads : up'[u].pc = "acked" => g[up'[u].m] = "completed"
  BY <1>1, <1>2 DEF MediaInv, AckedIsCompleted, HandlersHaveMedia
<1>6. MediaInv'
  <2>1. \A u \in Uploads : up'[u].pc = "idle" => up[u].pc = "idle" /\ u # Alarm
    BY <1>2, CallersDiffer
  <2> QED BY <1>0, <1>1, <1>2, <1>3, <1>4, <1>5, <2>1, CommitKeeps
<1>7. grants' = g
  BY <1>1 DEF Commit
<1> QED BY <1>1, <1>6, <1>7

\* The object of an id on a pass's list is written by nobody.
LEMMA DeleteOrphanKeeps ==
  ASSUME MediaInv, NEW c \in Callers, NEW m \in Media, DeleteOrphan(c, m)
  PROVE  MediaInv'
<1>1. /\ m \in pass[c].todo
      /\ object' = [object EXCEPT ![m] = None]
      /\ pass' = [pass EXCEPT ![c].todo = @ \ {m}, ![c].gone = @ \cup {m}]
      /\ UNCHANGED <<grants, overdue, alarm, up, reserved, crashes>>
  BY DEF DeleteOrphan
<1>2. /\ \A d \in Callers : pass'[d].todo \cup pass'[d].gone = pass[d].todo \cup pass[d].gone
      /\ \A d \in Callers : pass'[d].running = pass[d].running
      /\ \A d \in Callers : pass'[d].gone \subseteq pass[d].gone \cup {m}
      /\ pass' \in [Callers -> [running : BOOLEAN, todo : SUBSET Media, gone : SUBSET Media]]
  BY <1>1 DEF MediaInv, TypeOK
<1>3. \A n \in Media : object'[n] = IF n = m THEN None ELSE object[n]
  BY <1>1 DEF MediaInv, TypeOK
<1>4. TypeOK'
  BY <1>1, <1>2 DEF MediaInv, TypeOK
<1>5. PendingWithinCap' /\ AckedIsCompleted' /\ HandlersHaveMedia'
  BY <1>1 DEF MediaInv, PendingWithinCap, AckedIsCompleted, HandlersHaveMedia
<1>6. PassesNameOrphans' /\ PassesAreCalls'
  <2>1. PassesNameOrphans'
    BY <1>1, <1>2 DEF MediaInv, PassesNameOrphans
  <2>2. \A d \in Callers : pass'[d].todo \subseteq pass[d].todo
    BY <1>1 DEF MediaInv, TypeOK
  <2> QED BY <1>1, <1>2, <2>1, <2>2 DEF MediaInv, PassesAreCalls, Running, Callers
<1>7. \A n \in Media : Deleted(n)' => Deleted(n) \/ n = m
  BY <1>1, <1>2 DEF Deleted
<1>8. \A n \in Media : Deleting(n)' => Deleting(n)
  BY <1>2 DEF Deleting
<1>9. Deleting(m)
  BY <1>1 DEF Deleting
<1>10. NobodyWrites'
  BY <1>1, <1>7, <1>8, <1>9 DEF MediaInv, NobodyWrites, Writing
<1>11. DeletedIsGone'
  BY <1>3, <1>7 DEF MediaInv, DeletedIsGone
<1>12. AlarmKept' /\ AlarmCovers'
  <2>1. WrittenBack => WrittenBack'
    BY <1>1, <1>3 DEF WrittenBack, MediaInv, TypeOK
  <2>2. AlarmKept'
    BY <1>1, <1>2, <2>1 DEF MediaInv, AlarmKept, Running, Callers
  <2>3. Pending(grants') \cup Orphans' \subseteq Tracked(grants')
    BY DEF Pending, Orphans, Tracked
  <2>4. Running(Alarm)' => \E d \in Callers : Running(d)'
    BY DEF Callers
  <2>5. crashes' \in Nat
    BY <1>4, Bounds DEF TypeOK
  <2> QED BY <2>2, <2>3, <2>4, <2>5 DEF AlarmKept, AlarmCovers
<1> QED BY <1>4, <1>5, <1>6, <1>10, <1>11, <1>12 DEF MediaInv

\* A failed delete writes back a row that is an orphan's still, or was cleaned
\* by another pass: never the row of a live object.
LEMMA DeleteFailsKeeps ==
  ASSUME MediaInv, NEW c \in Callers, NEW m \in Media, DeleteFails(c, m)
  PROVE  MediaInv' /\ \A n \in Media : grants[n] = "completed" => grants'[n] = "completed"
<1>1. /\ m \in pass[c].todo
      /\ pass' = [pass EXCEPT ![c].todo = @ \ {m}]
      /\ grants' = [grants EXCEPT ![m] = "orphaned"]
      /\ overdue' = overdue \cup {m}
      /\ UNCHANGED <<object, alarm, up, reserved, crashes>>
  BY DEF DeleteFails
<1>2. grants[m] \in {"orphaned", "cleaned"} /\ Deleting(m)
  BY <1>1 DEF MediaInv, PassesNameOrphans, Deleting
<1>3. /\ \A d \in Callers : pass'[d].todo \subseteq pass[d].todo
      /\ \A d \in Callers : pass'[d].running = pass[d].running /\ pass'[d].gone = pass[d].gone
      /\ pass' \in [Callers -> [running : BOOLEAN, todo : SUBSET Media, gone : SUBSET Media]]
  BY <1>1 DEF MediaInv, TypeOK
<1>4. \A n \in Media : grants'[n] = IF n = m THEN "orphaned" ELSE grants[n]
  BY <1>1 DEF MediaInv, TypeOK
<1>5. TypeOK'
  BY <1>1, <1>3 DEF MediaInv, TypeOK, GrantStates
<1>6. PendingWithinCap'
  <2>1. Pending(grants') \subseteq Pending(grants)
    BY <1>4 DEF Pending
  <2> QED BY <2>1, FewerPending DEF MediaInv, PendingWithinCap
<1>7. AckedIsCompleted' /\ HandlersHaveMedia'
  BY <1>1, <1>2, <1>4 DEF MediaInv, AckedIsCompleted, HandlersHaveMedia
<1>8. PassesNameOrphans' /\ PassesAreCalls'
  BY <1>1, <1>3, <1>4 DEF MediaInv, PassesNameOrphans, PassesAreCalls, Running, Callers
<1>9. \A n \in Media : /\ Deleted(n)' => Deleted(n)
                       /\ Deleting(n)' => Deleting(n)
  BY <1>3, <1>4 DEF Deleted, Deleting
<1>10. NobodyWrites'
  BY <1>1, <1>2, <1>4, <1>9 DEF MediaInv, NobodyWrites, Writing
<1>11. DeletedIsGone'
  BY <1>1, <1>9 DEF MediaInv, DeletedIsGone
<1>12. Tracked(grants) # {} \/ grants[m] = "cleaned"
  BY <1>2 DEF Tracked
<1>13. WrittenBack \/ grants[m] = "cleaned" => WrittenBack'
  BY <1>1, <1>4 DEF MediaInv, TypeOK, WrittenBack, DeletedIsGone, Deleted
<1>14. Running(c) => \E d \in Callers : Running(d)'
  BY <1>3 DEF Running
<1>15. AlarmKept' /\ AlarmCovers'
  <2>1. Running(c)
    BY <1>1 DEF MediaInv, PassesAreCalls
  <2>2. AlarmKept'
    BY <1>1, <1>3, <1>12, <1>13, <1>14, <2>1 DEF MediaInv, AlarmKept, Running, Callers
  <2>3. AlarmCovers'
    BY <1>14, <2>1 DEF AlarmCovers
  <2> QED BY <2>2, <2>3
<1> QED BY <1>2, <1>4, <1>5, <1>6, <1>7, <1>8, <1>10, <1>11, <1>15 DEF MediaInv

\* What is cleaned at the end of a pass was an orphan whose object is gone.
LEMMA SettleKeeps ==
  ASSUME MediaInv, NEW c \in Callers, Settle(c)
  PROVE  MediaInv' /\ \A n \in Media : grants[n] = "completed" => grants'[n] = "completed"
<1> DEFINE g == Cleaned(pass[c].gone)
<1>1. /\ grants' = g
      /\ overdue' = StillOverdue(g)
      /\ alarm' = Tracked(g)
      /\ pass' = [pass EXCEPT ![c] = Idle]
      /\ UNCHANGED <<object, up, reserved, crashes>>
  BY DEF Settle, NextAlarm
<1>2. /\ g \in [Media -> GrantStates]
      /\ \A n \in Media :
           g[n] = IF n \in pass[c].gone /\ grants[n] = "orphaned" THEN "cleaned" ELSE grants[n]
  BY DEF Cleaned, MediaInv, TypeOK, GrantStates
<1> HIDE DEF g
<1>3. /\ \A d \in Callers : pass'[d].todo \subseteq pass[d].todo
      /\ \A d \in Callers : pass'[d].gone \subseteq pass[d].gone
      /\ \A d \in Callers : d # c => pass'[d] = pass[d]
      /\ pass'[c].todo = {} /\ ~pass'[c].running
      /\ pass' \in [Callers -> [running : BOOLEAN, todo : SUBSET Media, gone : SUBSET Media]]
  BY <1>1 DEF MediaInv, TypeOK, Idle
<1>4. TypeOK'
  BY <1>1, <1>2, <1>3 DEF MediaInv, TypeOK, StillOverdue, Tracked
<1>5. PendingWithinCap'
  <2>1. Pending(grants') \subseteq Pending(grants)
    BY <1>1, <1>2 DEF Pending
  <2> QED BY <2>1, FewerPending DEF MediaInv, PendingWithinCap
<1>6. AckedIsCompleted' /\ HandlersHaveMedia'
  BY <1>1, <1>2 DEF MediaInv, AckedIsCompleted, HandlersHaveMedia
<1>7. PassesNameOrphans' /\ PassesAreCalls'
  BY <1>1, <1>2, <1>3 DEF MediaInv, PassesNameOrphans, PassesAreCalls, Running, Callers
<1>8. \A n \in Media : /\ Deleted(n)' => Deleted(n)
                       /\ Deleting(n)' => Deleting(n)
  BY <1>1, <1>2, <1>3 DEF Deleted, Deleting
<1>9. NobodyWrites' /\ DeletedIsGone'
  <2>1. \A n \in Media : n \in overdue' /\ grants'[n] = "orphaned"
                             => n \in overdue /\ grants[n] = "orphaned"
    BY <1>1, <1>2 DEF StillOverdue
  <2> QED BY <1>1, <1>8, <2>1 DEF MediaInv, NobodyWrites, DeletedIsGone, Writing
<1>10. AlarmKept' /\ AlarmCovers'
  <2>1. AlarmKept'
    BY <1>1 DEF AlarmKept
  <2>2. Pending(grants') \cup Orphans' \subseteq Tracked(grants')
    BY DEF Pending, Orphans, Tracked
  <2> QED BY <1>1, <2>1, <2>2 DEF AlarmCovers
<1> QED BY <1>1, <1>2, <1>4, <1>5, <1>6, <1>7, <1>9, <1>10 DEF MediaInv

\* An orphan's deadline does not pass while its object may still be written.
LEMMA LapseKeeps ==
  ASSUME MediaInv, NEW m \in Media, Lapse(m)
  PROVE  MediaInv'
<1>1. /\ grants[m] = "orphaned" => ~Writing(m)
      /\ overdue' = overdue \cup {m}
      /\ UNCHANGED <<grants, object, alarm, pass, up, reserved, crashes>>
  BY DEF Lapse
<1>2. TypeOK'
  BY <1>1 DEF MediaInv, TypeOK
<1>3. PendingWithinCap' /\ AckedIsCompleted' /\ HandlersHaveMedia' /\ PassesNameOrphans'
  BY <1>1 DEF MediaInv, PendingWithinCap, AckedIsCompleted, HandlersHaveMedia, PassesNameOrphans
<1>4. NobodyWrites'
  BY <1>1 DEF MediaInv, NobodyWrites, Deleting, Deleted, Writing
<1>5. PassesAreCalls' /\ DeletedIsGone'
  BY <1>1 DEF MediaInv, PassesAreCalls, DeletedIsGone, Deleted, Running
<1>6. WrittenBack => WrittenBack'
  BY <1>1 DEF WrittenBack
<1>7. AlarmKept' /\ AlarmCovers'
  BY <1>1, <1>6 DEF MediaInv, AlarmKept, AlarmCovers, Orphans, Running
<1> QED BY <1>2, <1>3, <1>4, <1>5, <1>7 DEF MediaInv

\* A restart ends every pass; the alarm's own is run again.
LEMMA CrashKeeps ==
  ASSUME MediaInv, Crash
  PROVE  MediaInv'
<1>1. /\ crashes < MaxCrashes /\ crashes' = crashes + 1
      /\ pass' = [c \in Callers |-> Idle]
      /\ up' = [u \in Uploads |-> IF Running(u) THEN [up[u] EXCEPT !.pc = "lost"] ELSE up[u]]
      /\ alarm' = IF Running(Alarm) THEN Tracked(grants) ELSE alarm
      /\ UNCHANGED <<grants, overdue, object, reserved>>
  BY DEF Crash
<1>2. /\ pass' \in [Callers -> [running : BOOLEAN, todo : SUBSET Media, gone : SUBSET Media]]
      /\ \A c \in Callers : pass'[c].todo = {} /\ pass'[c].gone = {} /\ ~pass'[c].running
  BY <1>1 DEF Idle
<1>3. /\ up' \in [Uploads -> [pc : Steps, m : Media \cup {None}]]
      /\ \A u \in Uploads : up'[u].m = up[u].m /\ up'[u].pc \in {up[u].pc, "lost"}
      /\ \A u \in Uploads : Running(u) \/ up'[u] = up[u]
  BY <1>1 DEF MediaInv, TypeOK, Steps
<1>4. crashes \in Nat /\ crashes' \in 0..MaxCrashes /\ crashes' > 0
  BY <1>1, Bounds DEF MediaInv, TypeOK
<1>5. TypeOK'
  BY <1>1, <1>2, <1>3, <1>4 DEF MediaInv, TypeOK, Tracked
<1>6. PendingWithinCap' /\ AckedIsCompleted' /\ PassesNameOrphans' /\ PassesAreCalls'
  BY <1>1, <1>2, <1>3 DEF MediaInv, PendingWithinCap, AckedIsCompleted, PassesNameOrphans,
                          PassesAreCalls, Running, Callers
<1>7. \A m \in Media : /\ Writing(m)' => Writing(m)
                       /\ Deleted(m)' => Deleted(m)
                       /\ ~Deleting(m)'
  BY <1>1, <1>2, <1>3 DEF Writing, Deleted, Deleting
<1>8. NobodyWrites' /\ DeletedIsGone'
  BY <1>1, <1>7 DEF MediaInv, NobodyWrites, DeletedIsGone
<1>9. AlarmKept' /\ AlarmCovers'
  <2>1. AlarmKept'
    <3>1. WrittenBack => WrittenBack'
      BY <1>1 DEF WrittenBack
    <3> QED BY <1>1, <1>4, <3>1 DEF MediaInv, AlarmKept
  <2>2. Pending(grants') \cup Orphans' \subseteq Tracked(grants')
    BY DEF Pending, Orphans, Tracked
  <2>3. ~Running(Alarm)'
    BY <1>2 DEF Running, Callers
  <2> QED BY <1>4, <2>1, <2>2, <2>3 DEF AlarmKept, AlarmCovers
<1>10. HandlersHaveMedia'
  BY <1>3 DEF MediaInv, HandlersHaveMedia, PassesAreCalls
<1> QED BY <1>5, <1>6, <1>8, <1>9, <1>10 DEF MediaInv

-----------------------------------------------------------------------------
(* The theorems *)

LEMMA InitKeeps == Init => MediaInv
<1> SUFFICES ASSUME Init PROVE MediaInv
  OBVIOUS
<1>1. TypeOK
  BY Bounds DEF Init, TypeOK, GrantStates, Steps, Idle
<1>2. PendingWithinCap
  <2>1. Pending(grants) = {}
    BY DEF Init, Pending
  <2> QED BY <2>1, FS_EmptySet, Bounds DEF PendingWithinCap
<1>3. Tracked(grants) = {} /\ Pending(grants) = {} /\ Orphans = {}
  BY DEF Init, Tracked, Pending, Orphans
<1>4. AlarmKept /\ AlarmCovers
  BY <1>3 DEF AlarmKept, AlarmCovers
<1>5. /\ PassesNameOrphans /\ AckedIsCompleted /\ HandlersHaveMedia /\ PassesAreCalls
      /\ NobodyWrites /\ DeletedIsGone
  BY DEF Init, Idle, PassesNameOrphans, AckedIsCompleted, HandlersHaveMedia, PassesAreCalls,
         NobodyWrites, DeletedIsGone, Writing, Deleted, Running, Callers
<1> QED BY <1>1, <1>2, <1>4, <1>5 DEF MediaInv

\* One step of the system, for the invariant and for the completed grants.
LEMMA NextKeeps ==
  ASSUME MediaInv, [Next]_vars
  PROVE  MediaInv' /\ \A n \in Media : grants[n] = "completed" => grants'[n] = "completed"
<1>1. ASSUME NEW m \in Media, Reserve(m) \/ Lapse(m)
      PROVE  MediaInv' /\ \A n \in Media : grants[n] = "completed" => grants'[n] = "completed"
  BY <1>1, ReserveKeeps, LapseKeeps DEF Lapse
<1>2. ASSUME NEW u \in Uploads, Continue(u) \/ \E m \in Media : Begin(u, m)
      PROVE  MediaInv' /\ \A n \in Media : grants[n] = "completed" => grants'[n] = "completed"
  BY <1>2, ContinueKeeps, BeginKeeps
<1>3. ASSUME NEW c \in Callers,
             Settle(c) \/ \E m \in Media : DeleteOrphan(c, m) \/ DeleteFails(c, m)
      PROVE  MediaInv' /\ \A n \in Media : grants[n] = "completed" => grants'[n] = "completed"
  <2>1. CASE Settle(c)
    BY <2>1, SettleKeeps
  <2>2. ASSUME NEW m \in Media, DeleteOrphan(c, m)
        PROVE  MediaInv' /\ \A n \in Media : grants[n] = "completed" => grants'[n] = "completed"
    BY <2>2, DeleteOrphanKeeps DEF DeleteOrphan
  <2>3. ASSUME NEW m \in Media, DeleteFails(c, m)
        PROVE  MediaInv' /\ \A n \in Media : grants[n] = "completed" => grants'[n] = "completed"
    BY <2>3, DeleteFailsKeeps
  <2> QED BY <1>3, <2>1, <2>2, <2>3
<1>4. CASE AlarmFires
  BY <1>4, AlarmFiresKeeps
<1>5. CASE Crash
  BY <1>5, CrashKeeps DEF Crash
<1>6. CASE UNCHANGED vars
  BY <1>6 DEF vars, MediaInv, TypeOK, PendingWithinCap, PassesNameOrphans, AckedIsCompleted,
              AlarmCovers, HandlersHaveMedia, PassesAreCalls, NobodyWrites, DeletedIsGone,
              AlarmKept, Writing, Deleting, Deleted, Running, WrittenBack, Orphans
<1> QED BY <1>1, <1>2, <1>3, <1>4, <1>5, <1>6 DEF Next

(* However the uploads of a user, their sweeps, their cleanups and the     *)
(* restarts of the UserDO interleave: no more pending grants than the cap, *)
(* no stale cleanup list that names a live object, nobody acknowledged     *)
(* whose grant is not completed, no wake-up lost.                          *)
THEOREM MediaInvariant == Spec => []MediaInv
<1>1. Init => MediaInv
  BY InitKeeps
<1>2. MediaInv /\ [Next]_vars => MediaInv'
  BY NextKeeps
<1> QED BY <1>1, <1>2, PTL DEF Spec

(* No late finalize, sweep or cleanup changes a completed grant.           *)
THEOREM CompletedStays == Spec => CompletedIsFinal
<1>1. MediaInv /\ [Next]_vars =>
        [\A m \in Media : grants[m] = "completed" => grants'[m] = "completed"]_vars
  BY NextKeeps
<1> QED BY <1>1, MediaInvariant, PTL DEF Spec, CompletedIsFinal

-----------------------------------------------------------------------------
(* Client data: UserData *)

(* Push rules: an order, ranks and indices *)

RuleRows == [Rules -> RuleRow \cup {Absent}]

\* The rules of a user are strictly and totally ordered.
LEMMA RulesInOrder ==
  ASSUME NEW rs \in RuleRows
  PROVE  /\ \A r \in Custom(rs) : rs[r] \in RuleRow /\ rs[r].index \in Int /\ r \in Nat /\ r \in Rules
         /\ \A r \in Custom(rs) : ~Precedes(rs, r, r)
         /\ \A p, q \in Custom(rs) : p # q => Precedes(rs, p, q) \/ Precedes(rs, q, p)
         /\ \A p, q \in Custom(rs) : ~(Precedes(rs, p, q) /\ Precedes(rs, q, p))
         /\ \A p, q, r \in Custom(rs) :
              Precedes(rs, p, q) /\ Precedes(rs, q, r) => Precedes(rs, p, r)
         /\ IsFiniteSet(Custom(rs))
<1>1. \A r \in Custom(rs) : rs[r] \in RuleRow /\ rs[r].index \in Int /\ r \in Nat /\ r \in Rules
  BY RulesAreOrdered DEF Custom, RuleRows, RuleRow
<1>2. IsFiniteSet(Custom(rs))
  BY FS_Subset, RulesAreOrdered DEF Custom
<1> QED BY <1>1, <1>2 DEF Precedes

\* One that precedes another has the lower rank.
LEMMA RankBelow ==
  ASSUME NEW rs \in RuleRows, NEW p \in Custom(rs), NEW q \in Custom(rs), Precedes(rs, p, q)
  PROVE  Rank(rs, p) < Rank(rs, q)
<1> DEFINE Before(r) == {s \in Custom(rs) : Precedes(rs, s, r)}
<1>1. Before(p) \subseteq Before(q) /\ p \in Before(q) /\ p \notin Before(p)
  BY RulesInOrder
<1>2. IsFiniteSet(Before(q))
  BY RulesInOrder, FS_Subset
<1>3. /\ Cardinality(Before(p)) <= Cardinality(Before(q))
      /\ Cardinality(Before(q)) # Cardinality(Before(p))
      /\ IsFiniteSet(Before(p))
  BY <1>1, <1>2, FS_Subset
<1>4. Cardinality(Before(p)) \in Nat /\ Cardinality(Before(q)) \in Nat
  BY <1>2, <1>3, FS_CardinalityType
<1> QED BY <1>3, <1>4 DEF Rank

\* The ranks are 0, 1, ... without a gap or a tie.
LEMMA RanksAreDense ==
  ASSUME NEW rs \in RuleRows
  PROVE  /\ Cardinality(Custom(rs)) \in Nat
         /\ \A r \in Custom(rs) : Rank(rs, r) \in 0..(Cardinality(Custom(rs)) - 1)
         /\ {Rank(rs, r) : r \in Custom(rs)} = 0..(Cardinality(Custom(rs)) - 1)
<1> DEFINE C == Custom(rs)
           T == 0..(Cardinality(C) - 1)
           f == [r \in C |-> Rank(rs, r)]
<1>1. IsFiniteSet(C) /\ Cardinality(C) \in Nat
  BY RulesInOrder, FS_CardinalityType
<1>2. ASSUME NEW r \in C PROVE Rank(rs, r) \in T
  <2> DEFINE Before == {s \in C : Precedes(rs, s, r)}
  <2>1. Before \subseteq C \ {r}
    BY RulesInOrder
  <2>2. IsFiniteSet(C \ {r}) /\ Cardinality(C \ {r}) = Cardinality(C) - 1
    BY <1>1, FS_RemoveElement
  <2>3. IsFiniteSet(Before) /\ Cardinality(Before) <= Cardinality(C) - 1
    BY <2>1, <2>2, FS_Subset
  <2>4. Cardinality(Before) \in Nat
    BY <2>3, FS_CardinalityType
  <2> QED BY <1>1, <2>3, <2>4 DEF Rank
<1>3. \A p, q \in C : Rank(rs, p) = Rank(rs, q) => p = q
  BY <1>1, <1>2, RankBelow, RulesInOrder
<1>4. f \in Injection(C, T)
  BY <1>2, <1>3 DEF Injection, IsInjective
<1>5. IsFiniteSet(T) /\ Cardinality(T) = Cardinality(C)
  BY <1>1, FS_Interval
<1>6. f \in Surjection(C, T)
  BY <1>4, <1>5, FS_Injection
<1>7. \A t \in T : \E r \in C : f[r] = t
  BY <1>6 DEF Surjection
<1> QED BY <1>1, <1>2, <1>7

\* Counting the indices anew keeps the rules, their order and their type.
LEMMA ReindexKeeps ==
  ASSUME NEW rs \in RuleRows
  PROVE  /\ Reindex(rs) \in RuleRows /\ Custom(Reindex(rs)) = Custom(rs)
         /\ \A r \in Custom(rs) : /\ Reindex(rs)[r].index = Rank(rs, r)
                                  /\ Reindex(rs)[r].enabled = rs[r].enabled
         /\ \A p, q \in Custom(rs) : Precedes(Reindex(rs), p, q) <=> Precedes(rs, p, q)
         /\ {Reindex(rs)[r].index : r \in Custom(rs)} = 0..(Cardinality(Custom(rs)) - 1)
<1> DEFINE rr == Reindex(rs)
<1>1. \A r \in Custom(rs) : Rank(rs, r) \in Int
  BY RanksAreDense
<1>2. ASSUME NEW r \in Rules
      PROVE  /\ rs[r] = Absent => rr[r] = Absent
             /\ rs[r] # Absent => /\ rr[r] \in RuleRow /\ rr[r] # Absent
                                  /\ rr[r].index = Rank(rs, r) /\ rr[r].enabled = rs[r].enabled
  <2>1. CASE rs[r] = Absent
    BY <2>1 DEF Reindex
  <2>2. CASE rs[r] # Absent
    <3>1. rs[r] \in RuleRow /\ Rank(rs, r) \in Int
      BY <2>2, <1>1 DEF RuleRows, Custom
    <3>2. rr[r] = [rs[r] EXCEPT !.index = Rank(rs, r)]
      BY <2>2 DEF Reindex
    <3>3. /\ rr[r] \in RuleRow
          /\ rr[r].index = Rank(rs, r) /\ rr[r].enabled = rs[r].enabled
      BY <3>1, <3>2 DEF RuleRow
    <3> QED BY <2>2, <3>3, AbsentIsNothing
  <2> QED BY <2>1, <2>2
<1>3. rr \in RuleRows
  <2>1. \A r \in Rules : rr[r] \in RuleRow \cup {Absent}
    BY <1>2
  <2> QED BY <2>1 DEF RuleRows, Reindex
<1>4. Custom(rr) = Custom(rs)
  BY <1>2 DEF Custom
<1>5. \A r \in Custom(rs) : rr[r].index = Rank(rs, r) /\ rr[r].enabled = rs[r].enabled
  BY <1>2 DEF Custom
<1>6. ASSUME NEW p \in Custom(rs), NEW q \in Custom(rs)
      PROVE  Precedes(rr, p, q) <=> Precedes(rs, p, q)
  <2>1. Rank(rs, p) \in Int /\ Rank(rs, q) \in Int /\ p \in Nat /\ q \in Nat
    BY <1>1, RulesInOrder
  <2>2. CASE Precedes(rs, p, q)
    BY <2>2, <1>5, <2>1, RankBelow DEF Precedes
  <2>3. CASE Precedes(rs, q, p)
    <3>1. Rank(rs, q) < Rank(rs, p) /\ ~Precedes(rs, p, q)
      BY <2>3, RankBelow, RulesInOrder
    <3> QED BY <3>1, <1>5, <2>1 DEF Precedes
  <2>4. CASE p = q
    BY <2>4, <2>1, <1>5, RulesInOrder DEF Precedes
  <2> QED BY <2>2, <2>3, <2>4, RulesInOrder
<1>7. {rr[r].index : r \in Custom(rs)} = 0..(Cardinality(Custom(rs)) - 1)
  BY <1>5, RanksAreDense
<1> QED BY <1>3, <1>4, <1>5, <1>6, <1>7

-----------------------------------------------------------------------------
(* Push rules: where a rule is placed *)

\* A set of natural numbers has a least one, a bounded one a largest.
LEMMA LeastNatural ==
  ASSUME NEW S \in SUBSET Nat, S # {}
  PROVE  \E a \in S : \A x \in S : a <= x
<1> DEFINE R == StrictSubsetOrdering(Nat)
           Below(x) == 1..x
           T == {Below(x) : x \in S}
<1>1. T \subseteq FiniteSubsetsOf(Nat) /\ T # {}
  <2>1. \A x \in S : Below(x) \in FiniteSubsetsOf(Nat)
    BY FS_Interval DEF FiniteSubsetsOf
  <2> QED BY <2>1
<1>2. PICK a \in S : \A x \in S : <<Below(x), Below(a)>> \notin R
  <2>1. IsWellFoundedOn(R, FiniteSubsetsOf(Nat))
    BY FS_StrictSubsetOrderingWellFounded
  <2> HIDE DEF R
  <2>2. \E t \in T : \A u \in T : <<u, t>> \notin R
    <3> HIDE DEF T
    <3> QED BY <1>1, <2>1, WFMin
  <2> QED BY <2>2
<1>3. ASSUME NEW x \in S, x < a PROVE FALSE
  <2>1. Below(x) \subseteq Below(a) /\ a \in Below(a) /\ a \notin Below(x)
    BY <1>3
  <2>2. Below(x) # Below(a) /\ Below(x) \in SUBSET Nat /\ Below(a) \in SUBSET Nat
    BY <2>1
  <2> HIDE DEF Below
  <2>3. <<Below(x), Below(a)>> \in R
    BY <2>1, <2>2 DEF StrictSubsetOrdering
  <2> QED BY <1>2, <2>3
<1> QED BY <1>3

LEMMA LargestBelow ==
  ASSUME NEW n \in Nat, NEW S \in SUBSET (0..n), S # {}
  PROVE  \E a \in S : \A x \in S : x <= a
<1>1. {n - x : x \in S} \in SUBSET Nat /\ {n - x : x \in S} # {}
  <2>1. \A x \in S : n - x \in Nat
    OBVIOUS
  <2> QED BY <2>1
<1>2. PICK b \in {n - x : x \in S} : \A y \in {n - x : x \in S} : b <= y
  BY <1>1, LeastNatural
<1>3. PICK a \in S : b = n - a
  BY <1>2
<1>4. \A x \in S : n - a <= n - x
  BY <1>2, <1>3
<1> QED BY <1>4

\* At the top a rule gets a lower index than any other, beside a rule one that
\* is on the side asked for; a rule it is not beside keeps its index until all
\* are counted anew.
Placed(r, side, ref) ==
  [rules EXCEPT ![r] = [index |-> PriorityIndex(r, side, ref), enabled |-> TRUE]]

LEMMA PlacedIs ==
  ASSUME rules \in RuleRows, DenseRules, NEW r \in Rules, NEW ref \in Rules,
         NEW side \in {"top", "before", "after"}, side # "top" => ref \in Custom(rules) \ {r}
  PROVE  /\ PriorityIndex(r, side, ref) \in Int
         /\ Placed(r, side, ref) \in RuleRows
         /\ Custom(Placed(r, side, ref)) = Custom(rules) \cup {r}
         /\ Placed(r, side, ref)[r].index = PriorityIndex(r, side, ref)
         /\ \A q \in Custom(rules) \ {r} : Placed(r, side, ref)[q] = rules[q]
         /\ side = "top" => \A q \in Custom(rules) \ {r} : PriorityIndex(r, side, ref) < rules[q].index
         /\ side = "before" => PriorityIndex(r, side, ref) < rules[ref].index
         /\ side = "after" => rules[ref].index < PriorityIndex(r, side, ref)
<1> DEFINE others == Custom(rules) \ {r}
           i == PriorityIndex(r, side, ref)
<1>1. \A q \in others : rules[q].index \in Int /\ q \in Rules
  BY RulesInOrder
<1>2. /\ i \in Int
      /\ side = "top" => \A q \in others : i < rules[q].index
      /\ side = "before" => i < rules[ref].index
      /\ side = "after" => rules[ref].index < i
  <2>1. CASE side = "top" /\ others = {}
    <3>1. i = 0
      BY <2>1 DEF PriorityIndex
    <3> QED BY <2>1, <3>1
  <2>2. CASE side = "top" /\ others # {}
    <3> DEFINE I == {rules[q].index : q \in others}
    <3>1. I \subseteq Nat /\ I # {}
      <4>1. \A q \in others : rules[q].index \in 0..(Cardinality(Custom(rules)) - 1)
        BY DEF DenseRules
      <4>2. Cardinality(Custom(rules)) \in Nat
        BY RanksAreDense
      <4> QED BY <2>2, <4>1, <4>2
    <3>2. \E a \in I : \A x \in I : a <= x
      <4> HIDE DEF I
      <4> QED BY <3>1, LeastNatural
    <3>3. \E a \in I : \A q \in others : a <= rules[q].index
      BY <3>2
    <3> DEFINE least == CHOOSE a \in I : \A q \in others : a <= rules[q].index
    <3>4. least \in I /\ \A q \in others : least <= rules[q].index
      BY <3>3
    <3>5. i = least - 1
      BY <2>2 DEF PriorityIndex
    <3> HIDE DEF least, i, I
    <3>6. least \in Int
      BY <3>1, <3>4
    <3> QED BY <1>1, <2>2, <3>4, <3>5, <3>6
  <2>3. CASE side = "before"
    <3>1. i = rules[ref].index - 1
      BY <2>3 DEF PriorityIndex
    <3> QED BY <1>1, <2>3, <3>1
  <2>4. CASE side = "after"
    <3>1. i = rules[ref].index + 1
      BY <2>4 DEF PriorityIndex
    <3> QED BY <1>1, <2>4, <3>1
  <2> QED BY <2>1, <2>2, <2>3, <2>4
<1> HIDE DEF i
<1>6. [index |-> i, enabled |-> TRUE] \in RuleRow /\ [index |-> i, enabled |-> TRUE] # Absent
  <2>1. [index |-> i, enabled |-> TRUE] \in RuleRow
    BY <1>2 DEF RuleRow
  <2> QED BY <2>1, AbsentIsNothing
<1>7. /\ Placed(r, side, ref) = [rules EXCEPT ![r] = [index |-> i, enabled |-> TRUE]]
      /\ DOMAIN rules = Rules
  BY DEF Placed, RuleRows, i
<1>8. Placed(r, side, ref) \in RuleRows
  BY <1>6, <1>7 DEF RuleRows
<1>9. /\ Placed(r, side, ref)[r] = [index |-> i, enabled |-> TRUE]
      /\ \A q \in Rules \ {r} : Placed(r, side, ref)[q] = rules[q]
  BY <1>7
<1>10. Custom(Placed(r, side, ref)) = Custom(rules) \cup {r}
  BY <1>6, <1>9 DEF Custom
<1> QED BY <1>1, <1>2, <1>8, <1>9, <1>10 DEF i

\* A rule put in its place, and one that is deleted.
LEMMA PutPlaces ==
  ASSUME rules \in RuleRows, DenseRules, NEW r \in Rules, NEW ref \in Rules,
         NEW side \in {"top", "before", "after"}, PutPushRule(r, side, ref)
  PROVE  /\ rules' \in RuleRows /\ Custom(rules') = Custom(rules) \cup {r} /\ DenseRules'
         /\ side = "top" => \A q \in Custom(rules') \ {r} : Precedes(rules', r, q)
         /\ side = "before" => Precedes(rules', r, ref)
         /\ side = "after" => Precedes(rules', ref, r)
         /\ \A p, q \in Custom(rules) \ {r} : Precedes(rules, p, q) <=> Precedes(rules', p, q)
<1> DEFINE rs == Placed(r, side, ref)
<1>1. side # "top" => ref \in Custom(rules) \ {r}
  BY DEF PutPushRule
<1>2. rules' = Reindex(rs)
  BY DEF PutPushRule, Placed
<1>3. /\ rs \in RuleRows /\ Custom(rs) = Custom(rules) \cup {r}
      /\ rs[r].index = PriorityIndex(r, side, ref)
      /\ \A q \in Custom(rules) \ {r} : rs[q] = rules[q]
  BY <1>1, PlacedIs
<1>4. /\ side = "top" => \A q \in Custom(rules) \ {r} : Precedes(rs, r, q)
      /\ side = "before" => Precedes(rs, r, ref)
      /\ side = "after" => Precedes(rs, ref, r)
  BY <1>1, <1>3, PlacedIs DEF Precedes
<1>5. \A p, q \in Custom(rules) \ {r} : Precedes(rules, p, q) <=> Precedes(rs, p, q)
  BY <1>3 DEF Precedes
<1> HIDE DEF rs
<1>6. /\ rules' \in RuleRows /\ Custom(rules') = Custom(rs)
      /\ \A p, q \in Custom(rs) : Precedes(rules', p, q) <=> Precedes(rs, p, q)
      /\ {rules'[q].index : q \in Custom(rs)} = 0..(Cardinality(Custom(rs)) - 1)
  BY <1>2, <1>3, ReindexKeeps
<1>7. DenseRules'
  BY <1>6 DEF DenseRules
<1> QED BY <1>1, <1>3, <1>4, <1>5, <1>6, <1>7

LEMMA DeleteKeepsOrder ==
  ASSUME rules \in RuleRows, NEW r \in Rules, DeletePushRule(r)
  PROVE  /\ rules' \in RuleRows /\ Custom(rules') = Custom(rules) \ {r} /\ DenseRules'
         /\ \A p, q \in Custom(rules) \ {r} : Precedes(rules, p, q) <=> Precedes(rules', p, q)
<1> DEFINE rs == [rules EXCEPT ![r] = Absent]
<1>1. rules' = Reindex(rs)
  BY DEF DeletePushRule
<1>2. rs \in RuleRows /\ \A q \in Rules : rs[q] = IF q = r THEN Absent ELSE rules[q]
  BY DEF RuleRows
<1>3. Custom(rs) = Custom(rules) \ {r} /\ \A q \in Custom(rules) \ {r} : rs[q] = rules[q]
  BY <1>2 DEF Custom
<1>4. \A p, q \in Custom(rules) \ {r} : Precedes(rules, p, q) <=> Precedes(rs, p, q)
  BY <1>3 DEF Precedes
<1> HIDE DEF rs
<1>5. /\ rules' \in RuleRows /\ Custom(rules') = Custom(rs)
      /\ \A p, q \in Custom(rs) : Precedes(rules', p, q) <=> Precedes(rs, p, q)
      /\ {rules'[q].index : q \in Custom(rs)} = 0..(Cardinality(Custom(rs)) - 1)
  BY <1>1, <1>2, ReindexKeeps
<1>6. DenseRules'
  BY <1>5 DEF DenseRules
<1> QED BY <1>3, <1>4, <1>5, <1>6

LEMMA SettingKeepsOrder ==
  ASSUME rules \in RuleRows, DenseRules, NEW r \in Rules, NEW e \in BOOLEAN, SetPushRule(r, e)
  PROVE  rules' \in RuleRows /\ DenseRules'
<1>1. rules[r] \in RuleRow /\ rules' = [rules EXCEPT ![r] = [rules[r] EXCEPT !.enabled = e]]
  BY DEF SetPushRule, RuleRows
<1> DEFINE row == [rules[r] EXCEPT !.enabled = e]
<1>2. row \in RuleRow /\ row.index = rules[r].index /\ row # Absent
  BY <1>1, AbsentIsNothing DEF RuleRow
<1> HIDE DEF row
<1>3. rules' = [rules EXCEPT ![r] = row]
  BY <1>1 DEF row
<1>4. rules' \in RuleRows /\ rules'[r] = row /\ \A q \in Rules \ {r} : rules'[q] = rules[q]
  BY <1>2, <1>3 DEF RuleRows
<1>5. Custom(rules') = Custom(rules)
  BY <1>1, <1>2, <1>4, AbsentIsNothing DEF Custom
<1>6. \A q \in Custom(rules) : rules'[q].index = rules[q].index
  BY <1>2, <1>4 DEF Custom
<1>7. DenseRules'
  BY <1>5, <1>6 DEF DenseRules
<1> QED BY <1>4, <1>7
-----------------------------------------------------------------------------
(* Types, and the versions of the profile *)

ContentType == Contents \cup {Absent} \cup SUBSET Tags
EntryRow == [slot : Slots, content : ContentType]
RefreshType == [left : Seq(Rooms), version : 0..MaxVersion, name : Names \cup {Absent}]

\* The variables are functions, records and sequences of the values that
\* DataTypeOK says they have, and the rooms recorded are finitely many.
Stored ==
  /\ profile \in [Fields -> Names \cup Contents \cup {Absent}]
  /\ data \in [DataSlots -> Contents \cup {Absent, "offline"} \cup SUBSET Tags]
  /\ stream \in Seq(EntryRow)
  /\ refreshes \in [Handlers -> RefreshType]
  /\ IsFiniteSet(recorded)
  /\ \E a, b, v : device = [since |-> a, first |-> b, view |-> v]

\* What a change under way tells the rooms is a version the profile had.
TellsVersions ==
  \A h \in Handlers : refreshes[h].left # <<>> =>
    refreshes[h].version > 0 /\ <<refreshes[h].version, refreshes[h].name>> \in history

\* The inductive invariant behind UserDataInv.
DataInd == UserDataInv /\ Stored /\ TellsVersions

LEMMA LimitsAre ==
  MaxPos \in Nat /\ MaxVersion \in Nat /\ MaxMoves \in Nat /\ MaxFaults \in Nat /\ MaxLate \in Nat
BY BoundsAreNat

LEMMA NotTellingIs ==
  NotTelling \in RefreshType /\ NotTelling.left = <<>> /\ NotTelling.version = 0
<1>1. <<>> \in Seq(Rooms)
  OBVIOUS
<1>2. 0 \in 0..MaxVersion
  BY LimitsAre
<1> QED BY <1>1, <1>2 DEF NotTelling, RefreshType

LEMMA LeftInRooms ==
  ASSUME NEW call \in RefreshType
  PROVE  ToSet(call.left) \subseteq Rooms /\ call.left \in Seq(Rooms)
<1>1. call.left \in Seq(Rooms)
  BY DEF RefreshType
<1> QED BY <1>1, ElementOfSeq DEF ToSet

LEMMA DataInitInd == DataInit => DataInd
<1> SUFFICES ASSUME DataInit PROVE DataInd
  OBVIOUS
<1> USE DEF DataInit
<1>1. Stored
  <2>1. IsFiniteSet(recorded)
    BY FS_EmptySet
  <2>2. stream \in Seq(EntryRow)
    OBVIOUS
  <2>3. refreshes \in [Handlers -> RefreshType]
    BY NotTellingIs
  <2>4. data \in [DataSlots -> Contents \cup {Absent, "offline"} \cup SUBSET Tags]
    BY DEF Blank
  <2>5. \E a, b, v : device = [since |-> a, first |-> b, view |-> v]
    OBVIOUS
  <2> QED BY <2>1, <2>2, <2>3, <2>4, <2>5 DEF Stored
<1>2. TellsVersions
  BY NotTellingIs DEF TellsVersions
<1>3. rules \in RuleRows /\ Custom(rules) = {}
  BY DEF RuleRows, Custom
<1>4. DenseRules
  <2>1. Cardinality(Custom(rules)) = 0 /\ {rules[r].index : r \in Custom(rules)} = {}
    BY <1>3, FS_EmptySet
  <2>2. 0..(0 - 1) = {}
    OBVIOUS
  <2> QED BY <2>1, <2>2 DEF DenseRules
<1>5. VersionedRows /\ ShownWasVersion
  BY DEF VersionedRows, ShownWasVersion
<1>6. DataTypeOK
  <2>1. \A f \in Fields : profile[f] \in Values(f) \cup {Absent}
    OBVIOUS
  <2>2. \A s \in DataSlots : data[s] \in DataType(s)
    BY DEF Blank, DataType, DataSlots
  <2>3. Len(stream) = 0 /\ DOMAIN stream = {}
    OBVIOUS
  <2>4. \A h \in Handlers : ToSet(refreshes[h].left) \subseteq Rooms
    BY NotTellingIs DEF ToSet
  <2>5. rooms \in [Rooms -> [joined : BOOLEAN, name : Names \cup {Absent}, version : 0..MaxVersion]]
    BY LimitsAre
  <2> QED BY <1>3, <2>1, <2>2, <2>3, <2>4, <2>5, LimitsAre DEF DataTypeOK, RuleRows
<1> QED BY <1>1, <1>2, <1>4, <1>5, <1>6 DEF DataInd, UserDataInv

\* What entries appended to the stream make of it.
LEMMA EntriesAppended ==
  ASSUME stream \in Seq(EntryRow), NEW entries \in Seq(EntryRow), stream' = stream \o entries
  PROVE  /\ stream' \in Seq(EntryRow) /\ Len(stream') = Len(stream) + Len(entries)
         /\ Len(stream) \in Nat /\ Len(entries) \in Nat
         /\ \A i \in 1..Len(stream) : stream'[i] = stream[i] /\ stream[i] \in EntryRow
         /\ \A i \in 1..Len(entries) : stream'[Len(stream) + i] = entries[i] /\ entries[i] \in EntryRow
         /\ \A i \in (Len(stream) + 1)..Len(stream') :
              \E j \in 1..Len(entries) : i = Len(stream) + j /\ stream'[i] = entries[j]
         /\ \A i \in DOMAIN stream' : stream'[i].slot \in Slots
<1>1. Len(stream) \in Nat /\ Len(entries) \in Nat
  BY LenProperties
<1>2. stream' \in Seq(EntryRow) /\ Len(stream') = Len(stream) + Len(entries)
  BY ConcatProperties
<1>3. \A i \in 1..Len(stream') :
        stream'[i] = IF i <= Len(stream) THEN stream[i] ELSE entries[i - Len(stream)]
  BY ConcatProperties
<1>4. \A i \in 1..Len(stream) : stream'[i] = stream[i] /\ stream[i] \in EntryRow
  BY <1>1, <1>2, <1>3, ElementOfSeq
<1>5. \A i \in 1..Len(entries) : stream'[Len(stream) + i] = entries[i] /\ entries[i] \in EntryRow
  <2> TAKE i \in 1..Len(entries)
  <2>1. Len(stream) + i \in 1..Len(stream') /\ ~(Len(stream) + i <= Len(stream))
        /\ Len(stream) + i - Len(stream) = i
    BY <1>1, <1>2
  <2> QED BY <1>3, <2>1, ElementOfSeq
<1>6. ASSUME NEW i \in (Len(stream) + 1)..Len(stream')
      PROVE  \E j \in 1..Len(entries) : i = Len(stream) + j /\ stream'[i] = entries[j]
  <2>1. i - Len(stream) \in 1..Len(entries) /\ i = Len(stream) + (i - Len(stream))
    BY <1>1, <1>2
  <2> QED BY <2>1, <1>5
<1>7. \A i \in DOMAIN stream' : stream'[i].slot \in Slots
  <2> TAKE i \in DOMAIN stream'
  <2>1. i \in 1..Len(stream') /\ stream'[i] \in EntryRow
    BY <1>2, LenProperties, ElementOfSeq
  <2> QED BY <2>1 DEF EntryRow
<1> QED BY <1>1, <1>2, <1>4, <1>5, <1>6, <1>7

LEMMA EntryIs ==
  ASSUME NEW s \in Slots, NEW c \in ContentType
  PROVE  /\ Entry(s, c) \in EntryRow /\ <<Entry(s, c)>> \in Seq(EntryRow)
         /\ Len(<<Entry(s, c)>>) = 1 /\ <<Entry(s, c)>>[1] = Entry(s, c)
         /\ Entry(s, c).slot = s /\ Entry(s, c).content = c
BY DEF Entry, EntryRow

\* The rooms that are told are those recorded, in a sequence.
LEMMA RoomsInSequence ==
  ASSUME recorded \subseteq Rooms, IsFiniteSet(recorded), recorded # {}
  PROVE  SetToSeq(recorded) \in Seq(Rooms) /\ SetToSeq(recorded) # <<>>
<1> DEFINE n == Cardinality(recorded)
<1>1. n \in Nat /\ ExistsBijection(1..n, recorded) /\ n # 0
  BY FS_CardinalityType, FS_EmptySet
<1>2. \E f \in [1..n -> recorded] : IsInjective(f)
  BY <1>1 DEF ExistsBijection, Bijection, Injection, Surjection, IsInjective
<1>3. SetToSeq(recorded) \in [1..n -> recorded]
  BY <1>2 DEF SetToSeq
<1> HIDE DEF n
<1>4. SetToSeq(recorded) \in Seq(recorded) /\ Len(SetToSeq(recorded)) = n
  BY <1>1, <1>3
<1>5. SetToSeq(recorded) \in Seq(Rooms)
  BY <1>4
<1> QED BY <1>1, <1>4, <1>5

-----------------------------------------------------------------------------
(* What the writes preserve *)

\* A profile field, with the changed name on its way to the rooms.
LEMMA SetFieldKeeps ==
  ASSUME DataInd, NEW f \in Fields, NEW v \in Values(f) \cup {Absent}, NEW h \in Handlers,
         SetField(f, v, h), late' \in 0..MaxLate
  PROVE  DataInd'
<1> DEFINE next == [profile EXCEPT ![f] = v]
           name == next["displayname"]
           entry == <<Entry("presence", Absent)>>
<1>1. /\ Stored /\ DataTypeOK /\ DenseRules /\ VersionedRows /\ ShownWasVersion /\ TellsVersions
  BY DEF DataInd, UserDataInv
<1>2. /\ profile' = next /\ version < MaxVersion /\ version \in Nat
      /\ version' = IF \A g \in Fields : next[g] = Absent THEN 0 ELSE version + 1
      /\ history' = history \cup {<<version + 1, name>>}
      /\ UNCHANGED <<rules, override, device, account, rooms, recorded, moves, faults>>
  BY <1>1 DEF SetField, DataTypeOK
<1>3. /\ next \in [Fields -> Names \cup Contents \cup {Absent}]
      /\ \A g \in Fields : next[g] \in Values(g) \cup {Absent}
      /\ name \in Names \cup {Absent}
  <2>1. v \in Names \cup Contents \cup {Absent}
    BY DEF Values
  <2>2. next \in [Fields -> Names \cup Contents \cup {Absent}]
    BY <1>1, <2>1 DEF Stored
  <2>3. \A g \in Fields : next[g] \in Values(g) \cup {Absent}
    BY <1>1 DEF Stored, DataTypeOK
  <2>4. "displayname" \in Fields /\ Values("displayname") = Names
    BY DEF Fields, Values
  <2> QED BY <2>2, <2>3, <2>4
<1> HIDE DEF next, name
<1>4. version' \in 0..MaxVersion /\ version + 1 \in 0..MaxVersion /\ VersionedRows'
  BY <1>2, LimitsAre DEF VersionedRows
<1>5. /\ data' \in [DataSlots -> Contents \cup {Absent, "offline"} \cup SUBSET Tags]
      /\ \A s \in DataSlots : data'[s] \in DataType(s)
      /\ stream' \in Seq(EntryRow) /\ Len(stream) <= Len(stream') /\ Len(stream) \in Nat
      /\ Len(stream') \in Nat /\ \A i \in DOMAIN stream' : stream'[i].slot \in Slots
  <2>1. CASE Shows(f, v)
    <3>1. stream' = stream \o entry /\ data' = [data EXCEPT !["presence"] = TouchPresence(@)]
      BY <2>1 DEF SetField, AppendAll
    <3>2. entry \in Seq(EntryRow)
      BY EntryIs DEF Slots, DataSlots, ContentType
    <3>3. TouchPresence(data["presence"]) \in Contents \cup {Absent, "offline"}
      <4>1. data["presence"] \in DataType("presence")
        BY <1>1 DEF DataTypeOK, DataSlots
      <4> QED BY <4>1 DEF TouchPresence, DataType
    <3>4. /\ data' \in [DataSlots -> Contents \cup {Absent, "offline"} \cup SUBSET Tags]
          /\ data'["presence"] = TouchPresence(data["presence"])
          /\ \A s \in DataSlots \ {"presence"} : data'[s] = data[s]
      BY <3>1, <3>3, <1>1 DEF Stored, DataSlots
    <3>5. \A s \in DataSlots : data'[s] \in DataType(s)
      <4>1. data'["presence"] \in DataType("presence")
        BY <3>3, <3>4 DEF DataType
      <4> QED BY <4>1, <3>4, <1>1 DEF DataTypeOK
    <3> HIDE DEF entry
    <3>6. /\ stream' \in Seq(EntryRow) /\ Len(stream') = Len(stream) + Len(entry)
          /\ Len(stream) \in Nat /\ Len(entry) \in Nat
          /\ \A i \in DOMAIN stream' : stream'[i].slot \in Slots
      BY <3>1, <3>2, <1>1, EntriesAppended DEF Stored
    <3>7. Len(stream) <= Len(stream') /\ Len(stream') \in Nat
      BY <3>6
    <3> QED BY <3>4, <3>5, <3>6, <3>7
  <2>2. CASE ~Shows(f, v)
    <3>1. stream' = stream /\ data' = data
      BY <2>2 DEF SetField
    <3>2. Len(stream) \in Nat
      BY <1>1, LenProperties DEF Stored
    <3> QED BY <3>1, <3>2, <1>1 DEF Stored, DataTypeOK
  <2> QED BY <2>1, <2>2
<1>6. /\ refreshes' \in [Handlers -> RefreshType]
      /\ TellsVersions'
  <2>1. CASE Shows(f, v) /\ recorded = {}
    <3>1. refreshes' = [refreshes EXCEPT ![h] = NotTelling]
      BY <2>1 DEF SetField
    <3> QED BY <3>1, <1>1, <1>2, NotTellingIs DEF Stored, TellsVersions
  <2>2. CASE Shows(f, v) /\ recorded # {}
    <3> DEFINE call == [left |-> SetToSeq(recorded), version |-> version + 1, name |-> name]
    <3>1. refreshes' = [refreshes EXCEPT ![h] = call]
      BY <2>2 DEF SetField, name, next
    <3>2. call \in RefreshType /\ call.version = version + 1 /\ call.name = name
      BY <2>2, <1>1, <1>3, <1>4, RoomsInSequence DEF RefreshType, Stored, DataTypeOK
    <3> HIDE DEF call
    <3>3. refreshes' \in [Handlers -> RefreshType]
      BY <3>1, <3>2, <1>1 DEF Stored
    <3>4. refreshes'[h] = call /\ \A g \in Handlers \ {h} : refreshes'[g] = refreshes[g]
      BY <3>1, <1>1 DEF Stored
    <3>5. <<call.version, call.name>> \in history' /\ call.version > 0
      BY <3>2, <1>2
    <3> QED BY <3>3, <3>4, <3>5, <1>1, <1>2 DEF TellsVersions
  <2>3. CASE ~Shows(f, v)
    <3>1. refreshes' = refreshes
      BY <2>3 DEF SetField
    <3> QED BY <3>1, <1>1, <1>2 DEF Stored, TellsVersions
  <2> QED BY <2>1, <2>2, <2>3
<1>7. ShownWasVersion' /\ DenseRules'
  BY <1>1, <1>2 DEF ShownWasVersion, DenseRules, Custom
<1>8. Stored'
  BY <1>1, <1>2, <1>3, <1>5, <1>6 DEF Stored
<1>9. DataTypeOK'
  <2>1. \A g \in Fields : profile'[g] \in Values(g) \cup {Absent}
    BY <1>2, <1>3
  <2>2. device'.since \in 0..Len(stream') \cup {Absent} /\ device'.first \in 0..Len(stream')
    BY <1>1, <1>2, <1>5 DEF DataTypeOK
  <2>3. \A g \in Handlers : ToSet(refreshes'[g].left) \subseteq Rooms
    BY <1>6, LeftInRooms
  <2> QED BY <2>1, <2>2, <2>3, <1>1, <1>2, <1>4, <1>5 DEF DataTypeOK
<1> QED BY <1>4, <1>6, <1>7, <1>8, <1>9 DEF DataInd, UserDataInv

\* What a write that appends entries and changes nothing but tables leaves.
LEMMA TablesKeep ==
  ASSUME DataInd, NEW entries \in Seq(EntryRow), AppendAll(entries),
         UNCHANGED <<profile, version, device, account, told, history>>, late' \in 0..MaxLate,
         data' \in [DataSlots -> Contents \cup {Absent, "offline"} \cup SUBSET Tags],
         \A s \in DataSlots : data'[s] \in DataType(s),
         rules' \in RuleRows, DenseRules', override' \in BOOLEAN \cup {Absent}
  PROVE  DataInd'
<1>1. /\ Stored /\ DataTypeOK /\ VersionedRows /\ ShownWasVersion /\ TellsVersions
  BY DEF DataInd, UserDataInv
<1>2. UNCHANGED <<rooms, recorded, refreshes, moves, faults>>
  BY DEF told
<1>3. /\ stream' \in Seq(EntryRow) /\ Len(stream') = Len(stream) + Len(entries)
      /\ Len(stream) \in Nat /\ Len(entries) \in Nat
      /\ \A i \in DOMAIN stream' : stream'[i].slot \in Slots
  BY <1>1, EntriesAppended DEF AppendAll, Stored
<1>4. Len(stream) <= Len(stream') /\ Len(stream') \in Nat
  BY <1>3
<1>5. Stored'
  BY <1>1, <1>2, <1>3 DEF Stored
<1>6. device'.since \in 0..Len(stream') \cup {Absent} /\ device'.first \in 0..Len(stream')
  BY <1>1, <1>3, <1>4 DEF DataTypeOK
<1>7. DataTypeOK'
  BY <1>1, <1>2, <1>3, <1>6 DEF DataTypeOK, RuleRows
<1>8. VersionedRows' /\ ShownWasVersion' /\ TellsVersions'
  BY <1>1, <1>2 DEF VersionedRows, ShownWasVersion, TellsVersions
<1> QED BY <1>5, <1>7, <1>8 DEF DataInd, UserDataInv

\* A slot of the data is written and an entry says so.
LEMMA DataWritten ==
  ASSUME DataInd, NEW s \in DataSlots, NEW c \in DataType(s)
  PROVE  /\ [data EXCEPT ![s] = c] \in [DataSlots -> Contents \cup {Absent, "offline"} \cup SUBSET Tags]
         /\ \A x \in DataSlots : [data EXCEPT ![s] = c][x] = IF x = s THEN c ELSE data[x]
         /\ \A x \in DataSlots : [data EXCEPT ![s] = c][x] \in DataType(x)
<1>1. data \in [DataSlots -> Contents \cup {Absent, "offline"} \cup SUBSET Tags]
  BY DEF DataInd, Stored
<1>2. \A x \in DataSlots : data[x] \in DataType(x)
  BY DEF DataInd, UserDataInv, DataTypeOK
<1>3. c \in Contents \cup {Absent, "offline"} \cup SUBSET Tags
  BY DEF DataType
<1>4. \A x \in DataSlots : [data EXCEPT ![s] = c][x] = IF x = s THEN c ELSE data[x]
  BY <1>1
<1> QED BY <1>1, <1>2, <1>3, <1>4

LEMMA PutKeeps ==
  ASSUME DataInd, NEW s \in DataSlots, NEW c \in DataType(s) \cap ContentType, Put(s, c), late' \in 0..MaxLate
  PROVE  DataInd'
<1>1. <<Entry(s, c)>> \in Seq(EntryRow)
  BY EntryIs DEF Slots
<1>2. /\ rules \in RuleRows /\ DenseRules /\ override \in BOOLEAN \cup {Absent}
  BY DEF DataInd, UserDataInv, DataTypeOK, RuleRows
<1>3. /\ AppendAll(<<Entry(s, c)>>) /\ data' = [data EXCEPT ![s] = c]
      /\ UNCHANGED <<profile, version, rules, override, device, account, told, history>>
  BY DEF Put
<1>4. rules' \in RuleRows /\ DenseRules' /\ override' \in BOOLEAN \cup {Absent}
  BY <1>2, <1>3 DEF DenseRules, Custom
<1>5. /\ data' \in [DataSlots -> Contents \cup {Absent, "offline"} \cup SUBSET Tags]
      /\ \A x \in DataSlots : data'[x] \in DataType(x)
  BY <1>3, DataWritten
<1>6. UNCHANGED <<profile, version, device, account, told, history>>
  BY <1>3
<1> QED BY <1>1, <1>3, <1>4, <1>5, <1>6, TablesKeep

\* The two markers of a room are written at once, with an entry each.
LEMMA MarkersAre ==
  ASSUME DataInd, NEW c \in Contents, NEW u \in Contents, ApplyReadMarkers(c, u)
  PROVE  /\ data' \in [DataSlots -> Contents \cup {Absent, "offline"} \cup SUBSET Tags]
         /\ \A x \in DataSlots : data'[x] = IF x = "unread" THEN u ELSE IF x = "room" THEN c ELSE data[x]
         /\ \A x \in DataSlots : data'[x] \in DataType(x)
         /\ <<Entry("room", c), Entry("unread", u)>> \in Seq(EntryRow)
         /\ Len(<<Entry("room", c), Entry("unread", u)>>) = 2
         /\ <<Entry("room", c), Entry("unread", u)>>[1] = Entry("room", c)
         /\ <<Entry("room", c), Entry("unread", u)>>[2] = Entry("unread", u)
<1>1. data \in [DataSlots -> Contents \cup {Absent, "offline"} \cup SUBSET Tags]
  BY DEF DataInd, Stored
<1>2. \A x \in DataSlots : data[x] \in DataType(x)
  BY DEF DataInd, UserDataInv, DataTypeOK
<1>3. data' = [data EXCEPT !["room"] = c, !["unread"] = u]
  BY DEF ApplyReadMarkers
<1>4. \A x \in DataSlots : data'[x] = IF x = "unread" THEN u ELSE IF x = "room" THEN c ELSE data[x]
  BY <1>1, <1>3 DEF DataSlots
<1>5. data' \in [DataSlots -> Contents \cup {Absent, "offline"} \cup SUBSET Tags]
  BY <1>1, <1>3 DEF DataSlots
<1>6. c \in DataType("room") /\ u \in DataType("unread")
  BY DEF DataType
<1>7. \A x \in DataSlots : data'[x] \in DataType(x)
  BY <1>2, <1>4, <1>6
<1>8. Entry("room", c) \in EntryRow /\ Entry("unread", u) \in EntryRow
  BY EntryIs DEF Slots, DataSlots, ContentType
<1> QED BY <1>4, <1>5, <1>7, <1>8

LEMMA MarkersKeep ==
  ASSUME DataInd, NEW c \in Contents, NEW u \in Contents, ApplyReadMarkers(c, u), late' \in 0..MaxLate
  PROVE  DataInd'
<1>1. /\ rules \in RuleRows /\ DenseRules /\ override \in BOOLEAN \cup {Absent}
  BY DEF DataInd, UserDataInv, DataTypeOK, RuleRows
<1>2. /\ AppendAll(<<Entry("room", c), Entry("unread", u)>>)
      /\ UNCHANGED <<profile, version, device, account, told, history>>
      /\ UNCHANGED <<rules, override>>
  BY DEF ApplyReadMarkers
<1>3. rules' \in RuleRows /\ DenseRules' /\ override' \in BOOLEAN \cup {Absent}
  BY <1>1, <1>2 DEF DenseRules, Custom
<1> QED BY <1>2, <1>3, MarkersAre, TablesKeep

\* The rules change, and their order stays dense.
LEMMA RulesKeep ==
  ASSUME DataInd, HandlePushRules, late' \in 0..MaxLate
  PROVE  DataInd'
<1>1. /\ rules \in RuleRows /\ DenseRules /\ override \in BOOLEAN \cup {Absent}
      /\ data \in [DataSlots -> Contents \cup {Absent, "offline"} \cup SUBSET Tags]
      /\ \A s \in DataSlots : data[s] \in DataType(s)
  BY DEF DataInd, UserDataInv, DataTypeOK, Stored, RuleRows
<1> DEFINE entry == <<Entry("push_rules", Absent)>>
<1>2. /\ RulesChange
      /\ \/ \E r, ref \in Rules, side \in {"top", "before", "after"} : PutPushRule(r, side, ref)
         \/ \E r \in Rules : DeletePushRule(r)
         \/ \E r \in Rules, e \in BOOLEAN : SetPushRule(r, e)
         \/ \E e \in BOOLEAN : SetDefaultRule(e)
  BY DEF HandlePushRules, PutPushRule, DeletePushRule, SetPushRule, SetDefaultRule
<1>3. /\ AppendAll(entry) /\ data' = data
      /\ UNCHANGED <<profile, version, device, account, told, history>>
  BY <1>2 DEF RulesChange
<1>4. entry \in Seq(EntryRow)
  BY EntryIs DEF Slots, ContentType
<1>5. rules' \in RuleRows /\ DenseRules' /\ override' \in BOOLEAN \cup {Absent}
  <2>1. ASSUME NEW r \in Rules, NEW ref \in Rules, NEW side \in {"top", "before", "after"},
               PutPushRule(r, side, ref)
        PROVE  rules' \in RuleRows /\ DenseRules' /\ override' = override
    BY <2>1, <1>1, PutPlaces DEF PutPushRule
  <2>2. ASSUME NEW r \in Rules, DeletePushRule(r)
        PROVE  rules' \in RuleRows /\ DenseRules' /\ override' = override
    BY <2>2, <1>1, DeleteKeepsOrder DEF DeletePushRule
  <2>3. ASSUME NEW r \in Rules, NEW e \in BOOLEAN, SetPushRule(r, e)
        PROVE  rules' \in RuleRows /\ DenseRules' /\ override' = override
    BY <2>3, <1>1, SettingKeepsOrder DEF SetPushRule
  <2>4. ASSUME NEW e \in BOOLEAN, SetDefaultRule(e)
        PROVE  rules' \in RuleRows /\ DenseRules' /\ override' \in BOOLEAN
    BY <2>4, <1>1 DEF SetDefaultRule, DenseRules, Custom
  <2> QED BY <1>1, <1>2, <2>1, <2>2, <2>3, <2>4
<1> HIDE DEF entry
<1> QED BY <1>1, <1>3, <1>4, <1>5, TablesKeep

\* What the gateway's check leaves of the count of late writes.
LEMMA AuthorisedLate ==
  ASSUME DataTypeOK, Authorised
  PROVE  late' \in 0..MaxLate /\ (account = "active" \/ late > 0)
BY LimitsAre DEF DataTypeOK, Authorised

LEMMA DeactivateKeeps ==
  ASSUME DataInd, NEW erase \in BOOLEAN, Deactivate(erase)
  PROVE  DataInd'
<1>1. /\ Stored /\ DataTypeOK /\ DenseRules /\ VersionedRows /\ ShownWasVersion /\ TellsVersions
  BY DEF DataInd, UserDataInv
<1>2. /\ UNCHANGED <<stream, device, rooms, recorded, refreshes, moves, faults>>
      /\ account' \in {"deactivated", "erased"} /\ late' \in 0..MaxLate /\ history \subseteq history'
  BY LimitsAre DEF Deactivate, told
<1>3. /\ profile' \in [Fields -> Names \cup Contents \cup {Absent}]
      /\ \A f \in Fields : profile'[f] \in Values(f) \cup {Absent}
      /\ version' \in 0..MaxVersion /\ VersionedRows'
      /\ data' \in [DataSlots -> Contents \cup {Absent, "offline"} \cup SUBSET Tags]
      /\ \A s \in DataSlots : data'[s] \in DataType(s)
      /\ rules' \in RuleRows /\ DenseRules' /\ override' \in BOOLEAN \cup {Absent}
  <2>1. CASE erase
    <3>1. /\ profile' = [f \in Fields |-> Absent] /\ version' = 0 /\ data' = Blank
          /\ rules' = [r \in Rules |-> Absent] /\ override' = Absent
      BY <2>1 DEF Deactivate
    <3>2. Custom(rules') = {} /\ rules' \in RuleRows
      BY <3>1 DEF Custom, RuleRows
    <3>3. DenseRules'
      <4>1. Cardinality(Custom(rules')) = 0 /\ {rules'[r].index : r \in Custom(rules')} = {}
        BY <3>2, FS_EmptySet
      <4>2. 0..(0 - 1) = {}
        OBVIOUS
      <4> QED BY <4>1, <4>2 DEF DenseRules
    <3>4. /\ data' \in [DataSlots -> Contents \cup {Absent, "offline"} \cup SUBSET Tags]
          /\ \A s \in DataSlots : data'[s] \in DataType(s)
      BY <3>1 DEF Blank, DataType, DataSlots
    <3>5. VersionedRows' /\ 0 \in 0..MaxVersion
      BY <3>1, LimitsAre DEF VersionedRows
    <3> QED BY <3>1, <3>2, <3>3, <3>4, <3>5
  <2>2. CASE ~erase
    <3>1. UNCHANGED <<profile, version, data, rules, override>>
      BY <2>2 DEF Deactivate, tables
    <3> QED BY <3>1, <1>1 DEF Stored, DataTypeOK, RuleRows, VersionedRows, DenseRules, Custom
  <2> QED BY <2>1, <2>2
<1>4. Stored'
  BY <1>1, <1>2, <1>3 DEF Stored
<1>5. DataTypeOK'
  BY <1>1, <1>2, <1>3 DEF DataTypeOK, RuleRows
<1>6. ShownWasVersion' /\ TellsVersions'
  BY <1>1, <1>2 DEF ShownWasVersion, TellsVersions
<1> QED BY <1>3, <1>4, <1>5, <1>6 DEF DataInd, UserDataInv

\* The syncs of the device.
LEMMA SyncKeeps ==
  ASSUME DataInd, FirstSync \/ Sync
  PROVE  DataInd'
<1>1. /\ Stored /\ DataTypeOK /\ DenseRules /\ VersionedRows /\ ShownWasVersion /\ TellsVersions
  BY DEF DataInd, UserDataInv
<1>2. /\ UNCHANGED <<profile, version, data, rules, override, stream, account, late, history>>
      /\ UNCHANGED <<rooms, recorded, refreshes, moves, faults>>
  BY DEF FirstSync, Sync, tables, told
<1>3. Len(stream) \in Nat
  BY <1>1, LenProperties DEF Stored
<1>4. PICK a, b, v : device = [since |-> a, first |-> b, view |-> v]
  BY <1>1 DEF Stored
<1>5. /\ \E w : device' = [since |-> Len(stream), first |-> device'.first, view |-> w]
      /\ device'.first \in {device.first, Len(stream)}
  <2>1. CASE FirstSync
    BY <2>1 DEF FirstSync
  <2>2. CASE Sync
    <3>1. \E w : device' = [device EXCEPT !.since = Len(stream), !.view = w]
      BY <2>2, Zenon DEF Sync
    <3>2. PICK w : device' = [device EXCEPT !.since = Len(stream), !.view = w]
      BY <3>1
    <3> QED BY <1>4, <3>2
  <2> QED BY <2>1, <2>2
<1>6. \E a1, b1, v1 : device' = [since |-> a1, first |-> b1, view |-> v1]
  BY <1>5
<1>7. device'.since = Len(stream)
  BY <1>5
<1>8. device'.since \in 0..Len(stream) /\ device'.first \in 0..Len(stream)
  BY <1>1, <1>3, <1>5, <1>7 DEF DataTypeOK
<1>9. Stored'
  BY <1>1, <1>2, <1>6 DEF Stored
<1>10. DataTypeOK'
  BY <1>1, <1>2, <1>8 DEF DataTypeOK
<1>11. DenseRules' /\ VersionedRows' /\ ShownWasVersion' /\ TellsVersions'
  BY <1>1, <1>2 DEF DenseRules, Custom, VersionedRows, ShownWasVersion, TellsVersions
<1> QED BY <1>9, <1>10, <1>11 DEF DataInd, UserDataInv

RoomType == [joined : BOOLEAN, name : Names \cup {Absent}, version : 0..MaxVersion]

\* What is told of rooms changes, and no table.
LEMMA RoomsKeep ==
  ASSUME DataInd, UNCHANGED <<tables, stream, device, account, late, history>>,
         rooms' \in [Rooms -> RoomType], recorded' \subseteq Rooms, IsFiniteSet(recorded'),
         refreshes' \in [Handlers -> RefreshType],
         moves' \in 0..MaxMoves, faults' \in 0..MaxFaults,
         ShownWasVersion', TellsVersions'
  PROVE  DataInd'
<1>1. /\ Stored /\ DataTypeOK /\ DenseRules /\ VersionedRows
  BY DEF DataInd, UserDataInv
<1>2. UNCHANGED <<profile, version, data, rules, override, stream, device, account, late, history>>
  BY DEF tables
<1>3. Stored'
  BY <1>1, <1>2 DEF Stored
<1>4. \A h \in Handlers : ToSet(refreshes'[h].left) \subseteq Rooms
  BY LeftInRooms
<1>5. DataTypeOK'
  BY <1>1, <1>2, <1>4 DEF DataTypeOK, RoomType
<1>6. DenseRules' /\ VersionedRows'
  BY <1>1, <1>2 DEF DenseRules, Custom, VersionedRows
<1> QED BY <1>3, <1>5, <1>6 DEF DataInd, UserDataInv

LEMMA MoveKeeps ==
  ASSUME DataInd, NEW r \in Rooms, Move(r) \/ Record(r)
  PROVE  DataInd'
<1>1. /\ Stored /\ DataTypeOK /\ ShownWasVersion /\ TellsVersions
  BY DEF DataInd, UserDataInv
<1>2. UNCHANGED <<tables, stream, device, account, refreshes, faults, late, history>>
  BY DEF Move, Record
<1>3. refreshes \in [Handlers -> RefreshType] /\ faults \in 0..MaxFaults
      /\ rooms \in [Rooms -> RoomType] /\ recorded \subseteq Rooms /\ IsFiniteSet(recorded)
      /\ moves \in 0..MaxMoves
  BY <1>1 DEF Stored, DataTypeOK, RoomType
<1>4. TellsVersions'
  BY <1>1, <1>2 DEF TellsVersions
<1>5. CASE Move(r)
  <2> DEFINE row == [joined |-> ~rooms[r].joined, name |-> Absent, version |-> 0]
  <2>1. rooms' = [rooms EXCEPT ![r] = row] /\ moves' \in 0..MaxMoves /\ recorded' = recorded
    BY <1>3, <1>5, LimitsAre DEF Move
  <2>2. row \in RoomType /\ row.version = 0
    BY <1>3, LimitsAre DEF RoomType
  <2> HIDE DEF row
  <2>3. rooms' \in [Rooms -> RoomType] /\ rooms'[r] = row /\ \A q \in Rooms \ {r} : rooms'[q] = rooms[q]
    BY <1>3, <2>1, <2>2
  <2>4. ShownWasVersion'
    BY <1>1, <1>2, <2>2, <2>3 DEF ShownWasVersion
  <2> QED BY <1>2, <1>3, <1>4, <2>1, <2>3, <2>4, RoomsKeep
<1>6. CASE Record(r)
  <2>1. rooms' = rooms /\ moves' = moves /\ recorded' \in {recorded \cup {r}, recorded \ {r}}
    BY <1>6 DEF Record
  <2>2. IsFiniteSet(recorded')
    BY <1>3, <2>1, FS_AddElement, FS_RemoveElement
  <2>3. ShownWasVersion'
    BY <1>1, <1>2, <2>1 DEF ShownWasVersion
  <2> QED BY <1>2, <1>3, <1>4, <2>1, <2>2, <2>3, RoomsKeep
<1> QED BY <1>5, <1>6

\* A change under way has told one room more, or has ended.
LEMMA OneToldIs ==
  ASSUME Stored, TellsVersions, NEW h \in Handlers, refreshes[h].left # <<>>,
         refreshes' = OneToldBy(h), history' = history
  PROVE  refreshes' \in [Handlers -> RefreshType] /\ TellsVersions'
<1>1. refreshes \in [Handlers -> RefreshType] /\ refreshes[h] \in RefreshType
  BY DEF Stored
<1> DEFINE call == [left |-> Tail(refreshes[h].left),
                    version |-> refreshes[h].version, name |-> refreshes[h].name]
<1>2. CASE Len(refreshes[h].left) = 1
  <2>1. refreshes' = [refreshes EXCEPT ![h] = NotTelling]
    BY <1>2 DEF OneToldBy
  <2>2. refreshes'[h] = NotTelling /\ \A g \in Handlers \ {h} : refreshes'[g] = refreshes[g]
    BY <1>1, <2>1
  <2> QED BY <1>1, <2>1, <2>2, NotTellingIs DEF TellsVersions
<1>3. CASE Len(refreshes[h].left) # 1
  <2>1. refreshes' = [refreshes EXCEPT ![h] = call]
    BY <1>3 DEF OneToldBy
  <2>2. Tail(refreshes[h].left) \in Seq(Rooms)
    BY <1>1, HeadTailProperties DEF RefreshType
  <2>3. call \in RefreshType /\ call.version = refreshes[h].version /\ call.name = refreshes[h].name
    BY <1>1, <2>2 DEF RefreshType
  <2> HIDE DEF call
  <2>4. refreshes'[h] = call /\ \A g \in Handlers \ {h} : refreshes'[g] = refreshes[g]
    BY <1>1, <2>1
  <2> QED BY <1>1, <2>1, <2>3, <2>4 DEF TellsVersions
<1> QED BY <1>2, <1>3

LEMMA TellingKeeps ==
  ASSUME DataInd, NEW h \in Handlers, EnqueueProfileRefresh(h) \/ RefreshFails(h)
  PROVE  DataInd'
<1>1. /\ Stored /\ DataTypeOK /\ ShownWasVersion /\ TellsVersions
  BY DEF DataInd, UserDataInv
<1>2. /\ UNCHANGED <<tables, stream, device, account, recorded, moves, late, history>>
      /\ refreshes' = OneToldBy(h) /\ refreshes[h].left # <<>>
  BY DEF EnqueueProfileRefresh, RefreshFails
<1>3. /\ refreshes[h] \in RefreshType /\ faults \in 0..MaxFaults /\ moves \in 0..MaxMoves
      /\ rooms \in [Rooms -> RoomType] /\ recorded \subseteq Rooms /\ IsFiniteSet(recorded)
  BY <1>1 DEF Stored, DataTypeOK, RoomType
<1>4. refreshes' \in [Handlers -> RefreshType] /\ TellsVersions'
  BY <1>1, <1>2, OneToldIs
<1>5. faults' \in 0..MaxFaults
  BY <1>3, LimitsAre DEF EnqueueProfileRefresh, RefreshFails
<1>6. rooms' \in [Rooms -> RoomType] /\ ShownWasVersion'
  <2>1. CASE rooms' = rooms
    BY <1>1, <1>2, <1>3, <2>1 DEF ShownWasVersion
  <2>2. CASE rooms' # rooms
    <3> DEFINE r == Head(refreshes[h].left)
               row == [rooms[r] EXCEPT !.name = refreshes[h].name, !.version = refreshes[h].version]
    <3>1. EnqueueProfileRefresh(h)
      BY <2>2 DEF RefreshFails
    <3>2. rooms' = [rooms EXCEPT ![r].name = refreshes[h].name, ![r].version = refreshes[h].version]
      BY <2>2, <3>1 DEF EnqueueProfileRefresh, Carries
    <3>3. r \in Rooms
      BY <1>2, <1>3, HeadTailProperties DEF RefreshType
    <3>4. rooms[r] \in RoomType /\ refreshes[h].name \in Names \cup {Absent}
          /\ refreshes[h].version \in 0..MaxVersion
      BY <1>3, <3>3 DEF RefreshType
    <3>5. row \in RoomType /\ row.name = refreshes[h].name /\ row.version = refreshes[h].version
      BY <3>4 DEF RoomType
    <3>6. rooms' = [rooms EXCEPT ![r] = row]
      BY <3>2, <3>3, <1>3, <3>4 DEF RoomType
    <3> HIDE DEF r, row
    <3>7. rooms' \in [Rooms -> RoomType] /\ rooms'[r] = row /\ \A q \in Rooms \ {r} : rooms'[q] = rooms[q]
      BY <1>3, <3>3, <3>5, <3>6
    <3>8. <<refreshes[h].version, refreshes[h].name>> \in history
      BY <1>1, <1>2 DEF TellsVersions
    <3> QED BY <1>1, <1>2, <3>5, <3>7, <3>8 DEF ShownWasVersion
  <2> QED BY <2>1, <2>2
<1>7. UNCHANGED <<tables, stream, device, account, late, history>> /\ recorded' = recorded /\ moves' = moves
  BY <1>2
<1> QED BY <1>3, <1>4, <1>5, <1>6, <1>7, RoomsKeep

\* One of the handlers that write data, with the slot it writes.
LEMMA PutsAre ==
  ASSUME DataTypeOK,
         \/ HandleGlobalAccountData \/ HandleRoomAccountData \/ HandleTags
         \/ HandlePresence \/ HandleSyncPresence
  PROVE  Authorised /\ \E s \in DataSlots : \E c \in DataType(s) \cap ContentType : Put(s, c)
<1>1. CASE HandleGlobalAccountData
  BY <1>1 DEF HandleGlobalAccountData, PutGlobalAccountData, DataSlots, DataType, ContentType
<1>2. CASE HandleRoomAccountData
  BY <1>2 DEF HandleRoomAccountData, PutRoomAccountData, DataSlots, DataType, ContentType
<1>3. CASE HandleTags
  <2>1. PICK t \in Tags : PutTag(t) \/ DeleteTag(t)
    BY <1>3 DEF HandleTags
  <2>2. "tags" \in DataSlots /\ DataType("tags") = SUBSET Tags
    BY DEF DataSlots, DataType
  <2>3. data["tags"] \subseteq Tags
    BY <2>2 DEF DataTypeOK
  <2>4. \E c \in SUBSET Tags : Put("tags", c)
    BY <2>1, <2>3 DEF PutTag, DeleteTag
  <2> QED BY <1>3, <2>2, <2>4 DEF HandleTags, ContentType
<1>4. CASE HandlePresence \/ HandleSyncPresence
  <2>1. \E c \in Contents : Put("presence", c)
    BY <1>4 DEF HandlePresence, HandleSyncPresence, SetPresence, SyncPresence
  <2>2. "presence" \in DataSlots /\ Contents \subseteq DataType("presence")
    BY DEF DataSlots, DataType
  <2> QED BY <1>4, <2>1, <2>2 DEF HandlePresence, HandleSyncPresence, ContentType
<1> QED BY <1>1, <1>2, <1>3, <1>4

LEMMA FieldWritesAre ==
  ASSUME HandleProfileFieldWrite
  PROVE  /\ Authorised
         /\ \E f \in Fields, h \in Handlers : \E v \in Values(f) \cup {Absent} : SetField(f, v, h)
BY DEF HandleProfileFieldWrite, DeleteProfileField, PutProfileField

LEMMA DataNextInd == DataInd /\ [DataNext]_dataVars => DataInd'
<1> SUFFICES ASSUME DataInd, [DataNext]_dataVars PROVE DataInd'
  OBVIOUS
<1>0. DataTypeOK /\ late \in 0..MaxLate
  BY DEF DataInd, UserDataInv, DataTypeOK
<1>1. CASE HandleProfileFieldWrite
  BY <1>0, <1>1, FieldWritesAre, AuthorisedLate, SetFieldKeeps
<1>2. CASE \/ HandleGlobalAccountData \/ HandleRoomAccountData \/ HandleTags
           \/ HandlePresence \/ HandleSyncPresence
  BY <1>0, <1>2, PutsAre, AuthorisedLate, PutKeeps
<1>3. CASE HandleReadMarkers
  BY <1>0, <1>3, AuthorisedLate, MarkersKeep DEF HandleReadMarkers
<1>4. CASE HandlePushRules
  BY <1>0, <1>4, AuthorisedLate, RulesKeep DEF HandlePushRules
<1>5. ASSUME NEW erase \in BOOLEAN, Deactivate(erase) PROVE DataInd'
  BY <1>5, DeactivateKeeps
<1>6. CASE FirstSync \/ Sync
  BY <1>6, SyncKeeps
<1>7. ASSUME NEW r \in Rooms, Move(r) \/ Record(r) PROVE DataInd'
  BY <1>7, MoveKeeps
<1>8. ASSUME NEW h \in Handlers, EnqueueProfileRefresh(h) \/ RefreshFails(h) PROVE DataInd'
  BY <1>8, TellingKeeps
<1>9. CASE UNCHANGED dataVars
  BY <1>9 DEF dataVars, tables, told, DataInd, UserDataInv, DataTypeOK, DenseRules, Custom, VersionedRows,
    ShownWasVersion, Stored, TellsVersions
<1> QED BY <1>1, <1>2, <1>3, <1>4, <1>5, <1>6, <1>7, <1>8, <1>9 DEF DataNext

LEMMA DataAlways == DataSpec => []DataInd
BY DataInitInd, DataNextInd, PTL DEF DataSpec

\* Whatever profile fields, account data, tags, presence and push rules are
\* written, erased or told to rooms: the indices of the push rules are 0, 1, ...
\* without a gap or a tie (reindexPushRuleRows), the profile has a version
\* exactly when it has a row, and the name that a room shows under a version is
\* the name of that version (enqueueProfileRefresh), however the calls of several
\* changes interleave and whichever fail.
THEOREM UserDataInvariant == DataSpec => []UserDataInv
<1>1. DataInd => UserDataInv
  BY DEF DataInd
<1> QED BY <1>1, DataAlways, PTL

-----------------------------------------------------------------------------
(* Push rules stay in the order asked for *)

\* putPushRule and deletePushRule: a rule is placed where the request asks, and
\* all other rules keep their order, for any number of rules and any placements
\* before: the ties that computePushRulePriorityIndex makes are harmless.
THEOREM RulesArePlaced == DataSpec => PlacedAsAsked
<1> DEFINE PlacedHere ==
      rules' # rules => \A r, ref \in Rules :
       /\ PutPushRule(r, "top", ref) => \A q \in Custom(rules') \ {r} : Precedes(rules', r, q)
       /\ PutPushRule(r, "before", ref) => Precedes(rules', r, ref)
       /\ PutPushRule(r, "after", ref) => Precedes(rules', ref, r)
       /\ PutPushRule(r, "before", ref) \/ PutPushRule(r, "after", ref) \/ DeletePushRule(r) =>
            \A p, q \in Custom(rules) \ {r} : Precedes(rules, p, q) <=> Precedes(rules', p, q)
<1>1. DataInd => PlacedHere
  <2> SUFFICES ASSUME DataInd PROVE PlacedHere
    OBVIOUS
  <2>1. rules \in RuleRows /\ DenseRules
    BY DEF DataInd, UserDataInv, DataTypeOK, RuleRows
  <2>2. ASSUME NEW r \in Rules, NEW ref \in Rules, PutPushRule(r, "top", ref)
        PROVE  \A q \in Custom(rules') \ {r} : Precedes(rules', r, q)
    BY <2>1, <2>2, PutPlaces
  <2>3. ASSUME NEW r \in Rules, NEW ref \in Rules, PutPushRule(r, "before", ref)
        PROVE  /\ Precedes(rules', r, ref)
               /\ \A p, q \in Custom(rules) \ {r} : Precedes(rules, p, q) <=> Precedes(rules', p, q)
    BY <2>1, <2>3, PutPlaces
  <2>4. ASSUME NEW r \in Rules, NEW ref \in Rules, PutPushRule(r, "after", ref)
        PROVE  /\ Precedes(rules', ref, r)
               /\ \A p, q \in Custom(rules) \ {r} : Precedes(rules, p, q) <=> Precedes(rules', p, q)
    BY <2>1, <2>4, PutPlaces
  <2>5. ASSUME NEW r \in Rules, DeletePushRule(r)
        PROVE  \A p, q \in Custom(rules) \ {r} : Precedes(rules, p, q) <=> Precedes(rules', p, q)
    BY <2>1, <2>5, DeleteKeepsOrder
  <2> QED BY <2>2, <2>3, <2>4, <2>5
<1>2. DataInd => [PlacedHere]_dataVars
  BY <1>1
<1> QED BY <1>2, DataAlways, PTL DEF PlacedAsAsked

-----------------------------------------------------------------------------
(* What a device knows *)

\* The last entry of a room's slot has what is stored.
LastIsStored ==
  account = "active" =>
    \A i \in 1..Len(stream) :
      stream[i].slot \in RoomSlots /\ (\A j \in (i + 1)..Len(stream) : stream[j].slot # stream[i].slot)
        => stream[i].content = data[stream[i].slot]

\* What the device does not know is named after its token, or is room data
\* that was not written since its first sync.
Known ==
  account = "active" /\ device.since # Absent =>
    /\ device.first <= device.since
    /\ \A s \in Slots : \/ s \in Changed(device.since)
                        \/ s \in RoomSlots \ Changed(device.first)
                        \/ device.view[s] = Read(s)

DeviceInd == LastIsStored /\ Known

LEMMA ReadIs ==
  /\ Read("push_rules") = RulesView
  /\ Read("presence") = <<data["presence"], profile["displayname"]>>
  /\ \A s \in Slots \ {"push_rules", "presence"} : Read(s) = data[s] /\ s \in DataSlots
  /\ Read("push_rules")' = RulesView'
  /\ Read("presence")' = <<data'["presence"], profile'["displayname"]>>
  /\ \A s \in Slots \ {"push_rules", "presence"} : Read(s)' = data'[s]
<1>1. Read("push_rules") = RulesView /\ Read("push_rules")' = RulesView'
  BY DEF Read
<1>2. /\ Read("presence") = <<data["presence"], profile["displayname"]>>
      /\ Read("presence")' = <<data'["presence"], profile'["displayname"]>>
  BY DEF Read
<1>3. ASSUME NEW s \in Slots \ {"push_rules", "presence"}
      PROVE  Read(s) = data[s] /\ Read(s)' = data'[s] /\ s \in DataSlots
  BY DEF Read, Slots
<1> QED BY <1>1, <1>2, <1>3

LEMMA ViewKept ==
  ASSUME rules' = rules, override' = override
  PROVE  RulesView' = RulesView
BY DEF RulesView, Custom, Precedes

\* What is read of a slot that no write touches is as it was.
LEMMA ReadKept ==
  ASSUME NEW s \in Slots,
         s = "push_rules" => rules' = rules /\ override' = override,
         s = "presence" => profile'["displayname"] = profile["displayname"],
         s # "push_rules" => data'[s] = data[s]
  PROVE  Read(s)' = Read(s)
<1>1. CASE s = "push_rules"
  BY <1>1, ReadIs, ViewKept
<1>2. CASE s = "presence"
  BY <1>2, ReadIs
<1>3. CASE s \notin {"push_rules", "presence"}
  BY <1>3, ReadIs
<1> QED BY <1>1, <1>2, <1>3

\* A write whose entries name what it changes.
LEMMA WriteKnown ==
  ASSUME DataInd, DeviceInd, NEW entries \in Seq(EntryRow), stream' = stream \o entries,
         device' = device, account' = account,
         \A s \in Slots : (\A i \in 1..Len(entries) : entries[i].slot # s) => Read(s)' = Read(s),
         \A s \in RoomSlots : (\A i \in 1..Len(entries) : entries[i].slot # s) => data'[s] = data[s],
         \A i \in 1..Len(entries) :
           entries[i].slot \in RoomSlots => entries[i].content = data'[entries[i].slot]
  PROVE  DeviceInd'
<1>1. Stored /\ DataTypeOK
  BY DEF DataInd, UserDataInv
<1>2. /\ Len(stream') = Len(stream) + Len(entries)
      /\ Len(stream) \in Nat /\ Len(entries) \in Nat
      /\ \A i \in 1..Len(stream) : stream'[i] = stream[i] /\ stream[i] \in EntryRow
      /\ \A i \in 1..Len(entries) : stream'[Len(stream) + i] = entries[i] /\ entries[i] \in EntryRow
      /\ \A i \in (Len(stream) + 1)..Len(stream') :
           \E j \in 1..Len(entries) : i = Len(stream) + j /\ stream'[i] = entries[j]
  BY <1>1, EntriesAppended DEF Stored
<1>3. LastIsStored'
  <2> SUFFICES ASSUME account' = "active", NEW i \in 1..Len(stream'), stream'[i].slot \in RoomSlots,
                      \A j \in (i + 1)..Len(stream') : stream'[j].slot # stream'[i].slot
               PROVE  stream'[i].content = data'[stream'[i].slot]
    BY DEF LastIsStored
  <2>1. CASE i <= Len(stream)
    <3>1. i \in 1..Len(stream) /\ stream'[i] = stream[i]
      BY <1>2, <2>1
    <3>2. \A j \in 1..Len(entries) : entries[j].slot # stream[i].slot
      <4> TAKE j \in 1..Len(entries)
      <4>1. Len(stream) + j \in (i + 1)..Len(stream')
        BY <1>2, <3>1
      <4> QED BY <4>1, <1>2, <3>1
    <3>3. \A j \in (i + 1)..Len(stream) : stream[j].slot # stream[i].slot
      <4> TAKE j \in (i + 1)..Len(stream)
      <4>1. j \in (i + 1)..Len(stream') /\ j \in 1..Len(stream)
        BY <1>2, <3>1
      <4> QED BY <4>1, <1>2, <3>1
    <3>4. stream[i].content = data[stream[i].slot]
      BY <3>1, <3>3 DEF DeviceInd, LastIsStored
    <3> QED BY <3>1, <3>2, <3>4
  <2>2. CASE ~(i <= Len(stream))
    <3>1. i \in (Len(stream) + 1)..Len(stream')
      BY <1>2, <2>2
    <3>2. PICK j \in 1..Len(entries) : stream'[i] = entries[j]
      BY <3>1, <1>2
    <3> QED BY <3>2
  <2> QED BY <2>1, <2>2
<1>4. Known'
  <2> DEFINE ChangedNow(from) == {stream'[i].slot : i \in (from + 1)..Len(stream')}
  <2> SUFFICES ASSUME account = "active", device.since # Absent
               PROVE  /\ device.first <= device.since
                      /\ \A s \in Slots : \/ s \in ChangedNow(device.since)
                                          \/ s \in RoomSlots \ ChangedNow(device.first)
                                          \/ device.view[s] = Read(s)'
    BY DEF Known, Changed
  <2>1. /\ device.first <= device.since
        /\ \A s \in Slots : \/ s \in Changed(device.since)
                            \/ s \in RoomSlots \ Changed(device.first)
                            \/ device.view[s] = Read(s)
    BY DEF DeviceInd, Known
  <2>2. device.since \in 0..Len(stream) /\ device.first \in 0..Len(stream)
    BY <1>1 DEF DataTypeOK
  <2> SUFFICES ASSUME NEW s \in Slots, s \notin ChangedNow(device.since)
               PROVE  s \in RoomSlots \ ChangedNow(device.first) \/ device.view[s] = Read(s)'
    BY <2>1
  <2>3. \A i \in (device.since + 1)..Len(stream') : stream'[i].slot # s
    OBVIOUS
  <2>4. \A j \in 1..Len(entries) : entries[j].slot # s
    <3> TAKE j \in 1..Len(entries)
    <3>1. Len(stream) + j \in (device.since + 1)..Len(stream')
      BY <1>2, <2>2
    <3> QED BY <1>2, <2>3, <3>1
  <2>5. s \notin Changed(device.since)
    <3> SUFFICES ASSUME NEW i \in (device.since + 1)..Len(stream), stream[i].slot = s PROVE FALSE
      BY DEF Changed
    <3>1. i \in (device.since + 1)..Len(stream') /\ i \in 1..Len(stream)
      BY <1>2, <2>2
    <3> QED BY <1>2, <2>3, <3>1
  <2>6. CASE s \in RoomSlots \ Changed(device.first)
    <3> SUFFICES ASSUME NEW i \in (device.first + 1)..Len(stream'), stream'[i].slot = s PROVE FALSE
      BY <2>6 DEF Changed
    <3>1. CASE i <= Len(stream)
      <4>1. i \in (device.first + 1)..Len(stream) /\ stream[i].slot = s
        BY <1>2, <2>2, <3>1
      <4> QED BY <2>6, <4>1 DEF Changed
    <3>2. CASE ~(i <= Len(stream))
      <4>1. i \in (Len(stream) + 1)..Len(stream')
        BY <1>2, <2>2, <3>2
      <4> QED BY <1>2, <2>4, <4>1
    <3> QED BY <3>1, <3>2
  <2>7. CASE device.view[s] = Read(s)
    BY <2>4, <2>7
  <2> QED BY <2>1, <2>5, <2>6, <2>7
<1> QED BY <1>3, <1>4 DEF DeviceInd

\* A step that leaves the tables, the stream and the device, or after which
\* the account is no longer active.
LEMMA OthersKnow ==
  ASSUME DeviceInd,
         \/ UNCHANGED <<tables, stream, device, account>>
         \/ account' # "active"
  PROVE  DeviceInd'
<1>1. CASE account' # "active"
  BY <1>1 DEF DeviceInd, LastIsStored, Known
<1>2. CASE UNCHANGED <<tables, stream, device, account>>
  <2>1. UNCHANGED <<profile, version, data, rules, override>> /\ UNCHANGED <<stream, device, account>>
    BY <1>2 DEF tables
  <2>2. \A s \in Slots : Read(s)' = Read(s)
    BY <2>1, ReadKept
  <2>3. LastIsStored'
    BY <2>1 DEF DeviceInd, LastIsStored
  <2>4. Known'
    BY <2>1, <2>2 DEF DeviceInd, Known, Changed
  <2> QED BY <2>3, <2>4 DEF DeviceInd
<1> QED BY <1>1, <1>2

LEMMA SetFieldKnown ==
  ASSUME DataInd, DeviceInd, NEW f \in Fields, NEW v \in Values(f) \cup {Absent}, NEW h \in Handlers,
         SetField(f, v, h)
  PROVE  DeviceInd'
<1>1. stream \in Seq(EntryRow) /\ profile \in [Fields -> Names \cup Contents \cup {Absent}]
      /\ data \in [DataSlots -> Contents \cup {Absent, "offline"} \cup SUBSET Tags]
  BY DEF DataInd, Stored
<1>2. /\ UNCHANGED <<rules, override, device, account>> /\ profile' = [profile EXCEPT ![f] = v]
  BY DEF SetField
<1>3. CASE Shows(f, v)
  <2> DEFINE entries == <<Entry("presence", Absent)>>
  <2>1. stream' = stream \o entries /\ data' = [data EXCEPT !["presence"] = TouchPresence(@)]
    BY <1>3 DEF SetField, AppendAll
  <2>2. /\ entries \in Seq(EntryRow) /\ Len(entries) = 1 /\ entries[1].slot = "presence"
    BY EntryIs DEF Slots, DataSlots, ContentType
  <2> HIDE DEF entries
  <2>3. \A s \in DataSlots \ {"presence"} : data'[s] = data[s]
    BY <1>1, <2>1
  <2>4. "presence" \notin RoomSlots /\ RoomSlots \subseteq DataSlots /\ Slots = DataSlots \cup {"push_rules"}
    BY DEF RoomSlots, DataSlots, Slots
  <2>5. \A s \in Slots \ {"presence"} : Read(s)' = Read(s)
    BY <1>2, <2>3, <2>4, ReadKept
  <2>6. \A s \in Slots : (\A i \in 1..Len(entries) : entries[i].slot # s) => Read(s)' = Read(s)
    BY <2>2, <2>5
  <2>7. \A s \in RoomSlots : data'[s] = data[s]
    BY <2>3, <2>4
  <2>8. \A i \in 1..Len(entries) : entries[i].slot \notin RoomSlots
    BY <2>2, <2>4
  <2> QED BY <1>2, <2>1, <2>2, <2>6, <2>7, <2>8, WriteKnown
<1>4. CASE ~Shows(f, v)
  <2>1. stream' = stream /\ data' = data
    BY <1>4 DEF SetField
  <2>2. profile'["displayname"] = profile["displayname"]
    BY <1>1, <1>2, <1>4 DEF Shows, Fields
  <2>3. \A s \in Slots : Read(s)' = Read(s)
    BY <1>2, <2>1, <2>2, ReadKept
  <2>4. LastIsStored'
    BY <1>2, <2>1 DEF DeviceInd, LastIsStored
  <2>5. Known'
    BY <1>2, <2>1, <2>3 DEF DeviceInd, Known, Changed
  <2> QED BY <2>4, <2>5 DEF DeviceInd
<1> QED BY <1>3, <1>4

LEMMA PutKnown ==
  ASSUME DataInd, DeviceInd, NEW s \in DataSlots, NEW c \in DataType(s) \cap ContentType, Put(s, c)
  PROVE  DeviceInd'
<1> DEFINE entries == <<Entry(s, c)>>
<1>1. stream' = stream \o entries /\ data' = [data EXCEPT ![s] = c]
      /\ UNCHANGED <<profile, rules, override, device, account>>
  BY DEF Put, AppendAll
<1>2. /\ entries \in Seq(EntryRow) /\ Len(entries) = 1 /\ entries[1].slot = s /\ entries[1].content = c
  BY EntryIs DEF Slots
<1> HIDE DEF entries
<1>3. \A x \in DataSlots : data'[x] = IF x = s THEN c ELSE data[x]
  BY <1>1, DataWritten
<1>4. RoomSlots \subseteq DataSlots /\ Slots = DataSlots \cup {"push_rules"}
  BY DEF RoomSlots, DataSlots, Slots
<1>5. \A x \in Slots \ {s} : Read(x)' = Read(x)
  BY <1>1, <1>3, <1>4, ReadKept
<1>6. \A x \in Slots : (\A i \in 1..Len(entries) : entries[i].slot # x) => Read(x)' = Read(x)
  BY <1>2, <1>5
<1>7. \A x \in RoomSlots : (\A i \in 1..Len(entries) : entries[i].slot # x) => data'[x] = data[x]
  BY <1>2, <1>3, <1>4
<1>8. \A i \in 1..Len(entries) : entries[i].slot \in RoomSlots => entries[i].content = data'[entries[i].slot]
  BY <1>2, <1>3
<1> QED BY <1>1, <1>2, <1>6, <1>7, <1>8, WriteKnown

LEMMA MarkersKnown ==
  ASSUME DataInd, DeviceInd, NEW c \in Contents, NEW u \in Contents, ApplyReadMarkers(c, u)
  PROVE  DeviceInd'
<1> DEFINE entries == <<Entry("room", c), Entry("unread", u)>>
<1>1. stream' = stream \o entries /\ UNCHANGED <<profile, rules, override, device, account>>
  BY DEF ApplyReadMarkers, AppendAll
<1>2. /\ entries \in Seq(EntryRow) /\ Len(entries) = 2
      /\ entries[1] = Entry("room", c) /\ entries[2] = Entry("unread", u)
      /\ \A x \in DataSlots : data'[x] = IF x = "unread" THEN u ELSE IF x = "room" THEN c ELSE data[x]
  BY MarkersAre
<1> HIDE DEF entries
<1>3. /\ entries[1].slot = "room" /\ entries[1].content = c
      /\ entries[2].slot = "unread" /\ entries[2].content = u
  BY <1>2 DEF Entry
<1>4. RoomSlots \subseteq DataSlots /\ Slots = DataSlots \cup {"push_rules"}
      /\ "room" \in DataSlots /\ "unread" \in DataSlots
  BY DEF RoomSlots, DataSlots, Slots
<1>5. \A x \in Slots \ {"room", "unread"} : Read(x)' = Read(x)
  BY <1>1, <1>2, <1>4, ReadKept
<1>6. \A x : (\A i \in 1..Len(entries) : entries[i].slot # x) => x # "room" /\ x # "unread"
  BY <1>2, <1>3
<1>7. \A x \in Slots : (\A i \in 1..Len(entries) : entries[i].slot # x) => Read(x)' = Read(x)
  BY <1>5, <1>6
<1>8. \A x \in RoomSlots : (\A i \in 1..Len(entries) : entries[i].slot # x) => data'[x] = data[x]
  BY <1>2, <1>4, <1>6
<1>9. \A i \in 1..Len(entries) : entries[i].slot \in RoomSlots => entries[i].content = data'[entries[i].slot]
  <2> TAKE i \in 1..Len(entries)
  <2>1. i = 1 \/ i = 2
    BY <1>2
  <2> QED BY <2>1, <1>2, <1>3, <1>4
<1> QED BY <1>1, <1>2, <1>7, <1>8, <1>9, WriteKnown

LEMMA RulesKnown ==
  ASSUME DataInd, DeviceInd, HandlePushRules
  PROVE  DeviceInd'
<1> DEFINE entries == <<Entry("push_rules", Absent)>>
<1>1. RulesChange
  BY DEF HandlePushRules, PutPushRule, DeletePushRule, SetPushRule, SetDefaultRule
<1>2. stream' = stream \o entries /\ UNCHANGED <<profile, data, device, account>>
  BY <1>1 DEF RulesChange, AppendAll
<1>3. /\ entries \in Seq(EntryRow) /\ Len(entries) = 1 /\ entries[1].slot = "push_rules"
  BY EntryIs DEF Slots, ContentType
<1> HIDE DEF entries
<1>4. "push_rules" \notin RoomSlots
  BY DEF RoomSlots
<1>5. \A x \in Slots \ {"push_rules"} : Read(x)' = Read(x)
  BY <1>2, ReadKept
<1>6. \A x \in Slots : (\A i \in 1..Len(entries) : entries[i].slot # x) => Read(x)' = Read(x)
  BY <1>3, <1>5
<1>7. \A i \in 1..Len(entries) : entries[i].slot \notin RoomSlots
  BY <1>3, <1>4
<1> QED BY <1>2, <1>3, <1>6, <1>7, WriteKnown

\* A first sync has all there is, but for the account data of rooms.
LEMMA FirstSyncKnown ==
  ASSUME DataInd, DeviceInd, FirstSync
  PROVE  DeviceInd'
<1>1. Len(stream) \in Nat
  BY LenProperties DEF DataInd, Stored
<1>2. UNCHANGED <<profile, version, data, rules, override>> /\ UNCHANGED <<stream, account>>
  BY DEF FirstSync, tables
<1>3. \A s \in Slots : Read(s)' = Read(s)
  BY <1>2, ReadKept
<1>4. LastIsStored'
  BY <1>2 DEF DeviceInd, LastIsStored
<1>5. /\ device'.since = Len(stream) /\ device'.first = Len(stream)
      /\ \A s \in Slots \ RoomSlots : device'.view[s] = Read(s)
  BY DEF FirstSync
<1>6. {stream[i].slot : i \in (Len(stream) + 1)..Len(stream)} = {}
  BY <1>1
<1>7. Known'
  BY <1>1, <1>2, <1>3, <1>5, <1>6 DEF Known, Changed
<1> QED BY <1>4, <1>7 DEF DeviceInd

\* A sync brings what changed: of a room's slot the last entry, which has what
\* is stored, of another what is read.
LEMMA SyncKnown ==
  ASSUME DataInd, DeviceInd, Sync
  PROVE  DeviceInd'
<1>1. Stored /\ DataTypeOK
  BY DEF DataInd, UserDataInv
<1>2. Len(stream) \in Nat /\ device.since \in 0..Len(stream) /\ device.first \in 0..Len(stream)
  BY <1>1, LenProperties DEF Stored, DataTypeOK, Sync
<1>3. /\ UNCHANGED <<profile, version, data, rules, override>> /\ UNCHANGED <<stream, account>>
      /\ account = "active" /\ device.since # Absent
  BY DEF Sync, tables
<1>4. \A s \in Slots : Read(s)' = Read(s)
  BY <1>3, ReadKept
<1>5. LastIsStored'
  BY <1>3 DEF DeviceInd, LastIsStored
<1> DEFINE view == [s \in Slots |-> IF s \in Changed(device.since) THEN News(s, device.since)
                                    ELSE device.view[s]]
<1>6. device'.since = Len(stream) /\ device'.first = device.first /\ device'.view = view
  <2>1. PICK a, b, v : device = [since |-> a, first |-> b, view |-> v]
    BY <1>1 DEF Stored
  <2>2. device' = [device EXCEPT !.since = Len(stream), !.view = view]
    BY Zenon DEF Sync
  <2> HIDE DEF view
  <2> QED BY <2>1, <2>2
<1>7. ASSUME NEW s \in Slots
      PROVE  s \in RoomSlots \ Changed(device.first) \/ view[s] = Read(s)
  <2>1. CASE s \notin Changed(device.since)
    <3>1. view[s] = device.view[s]
      BY <2>1
    <3> QED BY <2>1, <3>1, <1>3 DEF DeviceInd, Known
  <2>2. CASE s \in Changed(device.since) /\ s \notin RoomSlots
    <3>1. News(s, device.since) = Read(s)
      BY <2>2 DEF News
    <3> QED BY <2>2, <3>1
  <2>3. CASE s \in Changed(device.since) /\ s \in RoomSlots
    <3> DEFINE named == {i \in (device.since + 1)..Len(stream) : stream[i].slot = s}
               last == CHOOSE i \in named : \A j \in named : j <= i
    <3>1. named # {} /\ named \in SUBSET (0..Len(stream))
      BY <2>3, <1>2 DEF Changed
    <3>2. \E i \in named : \A j \in named : j <= i
      <4> HIDE DEF named
      <4> QED BY <1>2, <3>1, LargestBelow
    <3>3. last \in named /\ \A j \in named : j <= last
      BY <3>2
    <3>4. News(s, device.since) = stream[last].content
      BY <2>3 DEF News
    <3> HIDE DEF last
    <3>5. last \in 1..Len(stream) /\ stream[last].slot = s
      BY <1>2, <3>3
    <3>6. \A j \in (last + 1)..Len(stream) : stream[j].slot # s
      <4> SUFFICES ASSUME NEW j \in (last + 1)..Len(stream), stream[j].slot = s PROVE FALSE
        OBVIOUS
      <4>1. j \in named /\ ~(j <= last)
        BY <1>2, <3>3, <3>5
      <4> QED BY <4>1, <3>3
    <3>7. stream[last].content = data[s]
      BY <2>3, <3>5, <3>6, <1>3 DEF DeviceInd, LastIsStored
    <3>8. Read(s) = data[s]
      BY <2>3, ReadIs DEF RoomSlots
    <3> QED BY <2>3, <3>4, <3>7, <3>8
  <2> QED BY <2>1, <2>2, <2>3
<1> HIDE DEF view
<1>8. device.first <= Len(stream)
  BY <1>2
<1>9. Known'
  BY <1>3, <1>4, <1>6, <1>7, <1>8 DEF Known, Changed
<1> QED BY <1>5, <1>9 DEF DeviceInd

LEMMA DeviceNext == DataInd /\ DeviceInd /\ [DataNext]_dataVars => DeviceInd'
<1> SUFFICES ASSUME DataInd, DeviceInd, [DataNext]_dataVars PROVE DeviceInd'
  OBVIOUS
<1>0. DataTypeOK
  BY DEF DataInd, UserDataInv
<1>1. CASE HandleProfileFieldWrite
  BY <1>1, FieldWritesAre, SetFieldKnown
<1>2. CASE \/ HandleGlobalAccountData \/ HandleRoomAccountData \/ HandleTags
           \/ HandlePresence \/ HandleSyncPresence
  BY <1>0, <1>2, PutsAre, PutKnown
<1>3. CASE HandleReadMarkers
  BY <1>3, MarkersKnown DEF HandleReadMarkers
<1>4. CASE HandlePushRules
  BY <1>4, RulesKnown
<1>5. ASSUME NEW erase \in BOOLEAN, Deactivate(erase) PROVE DeviceInd'
  <2>1. account' # "active"
    BY <1>5 DEF Deactivate
  <2> QED BY <2>1, OthersKnow
<1>6. CASE FirstSync
  BY <1>6, FirstSyncKnown
<1>7. CASE Sync
  BY <1>7, SyncKnown
<1>8. CASE \/ \E r \in Rooms : Move(r) \/ Record(r)
           \/ \E h \in Handlers : EnqueueProfileRefresh(h) \/ RefreshFails(h)
  <2>1. UNCHANGED <<tables, stream, device, account>>
    BY <1>8 DEF Move, Record, EnqueueProfileRefresh, RefreshFails
  <2> QED BY <2>1, OthersKnow
<1>9. CASE UNCHANGED dataVars
  <2>1. UNCHANGED <<tables, stream, device, account>>
    BY <1>9 DEF dataVars
  <2> QED BY <2>1, OthersKnow
<1> QED BY <1>1, <1>2, <1>3, <1>4, <1>5, <1>6, <1>7, <1>8, <1>9 DEF DataNext

\* collectSince: a device whose token is at the end of the stream knows what the
\* tables hold, whatever was written twice or undone between two of its syncs:
\* every write that changes what a sync reads adds an entry that names it, and
\* the last entry of room data has what is stored.
THEOREM WhatIsSyncedIsStored == DataSpec => []SyncedIsStored
<1>1. DataInit => DeviceInd
  BY DEF DataInit, DeviceInd, LastIsStored, Known
<1>2. DataInd /\ DeviceInd => SyncedIsStored
  <2> SUFFICES ASSUME DataInd, DeviceInd, account = "active", device.since = Len(stream), NEW s \in Slots
               PROVE  s \in RoomSlots \ Changed(device.first) \/ device.view[s] = Read(s)
    BY DEF SyncedIsStored
  <2>1. Len(stream) \in Nat
    BY LenProperties DEF DataInd, Stored
  <2>2. device.since # Absent
    BY <2>1, AbsentIsNothing
  <2>3. Changed(device.since) = {}
    BY <2>1 DEF Changed
  <2> QED BY <2>2, <2>3 DEF DeviceInd, Known
<1> QED BY <1>1, <1>2, DataInitInd, DataNextInd, DeviceNext, PTL DEF DataSpec
===============================================================================
