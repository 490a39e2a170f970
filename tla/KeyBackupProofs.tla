-------------------------- MODULE KeyBackupProofs --------------------------
(***************************************************************************)
(* Proofs about KeyBackup: BackupInv is inductive for any sessions, key    *)
(* data and number of calls, so that what a manifest names for sure can be *)
(* read back, and a deleted version stays deleted.                         *)
(***************************************************************************)
EXTENDS KeyBackup, SequenceTheorems, TLAPS

-----------------------------------------------------------------------------
(* Calls *)

\* What the fields of a call are.
LEMMA WritingCall ==
  ASSUME TypeOK, NEW h \in Handlers, IsWriting(h)
  PROVE  /\ calls[h] \in Writing
         /\ calls[h].version \in 1..MaxVersions /\ calls[h].on \subseteq Sessions
         /\ calls[h].mixed \subseteq Sessions /\ calls[h].existed \subseteq Sessions
         /\ calls[h].plan \in [calls[h].on -> Contents]
         /\ calls[h].todo \subseteq calls[h].on
<1>1. calls[h] \in Writing
  BY DEF TypeOK, IsWriting, Deleting, Idle
<1>2. calls[h].plan \in [calls[h].on -> Contents] /\ calls[h].todo \subseteq calls[h].on
  BY DEF TypeOK
<1> QED BY <1>1, <1>2 DEF Writing

LEMMA DeletingCall ==
  ASSUME TypeOK, NEW h \in Handlers, IsDeleting(h)
  PROVE  /\ calls[h] \in Deleting
         /\ calls[h].version \in 1..MaxVersions /\ calls[h].on \subseteq Sessions
         /\ calls[h].keys \subseteq Objects
<1>1. calls[h] \in Deleting
  BY DEF TypeOK, IsDeleting, Writing, Idle
<1> QED BY <1>1 DEF Deleting

LEMMA IdleCall ==
  ASSUME TypeOK, NEW h \in Handlers
  PROVE  /\ calls[h].pc \in {"idle", "head", "put", "undo", "purge"}
         /\ calls[h].pc = "idle" => calls[h] = Idle
BY DEF TypeOK, Writing, Deleting, Idle

\* A segment still to be written is one the call is on.
LEMMA Next1Todo ==
  ASSUME TypeOK, NEW h \in Handlers, IsWriting(h), calls[h].todo # {}
  PROVE  Next1(h) \in calls[h].todo /\ Next1(h) \in calls[h].on
<1>1. Next1(h) \in calls[h].todo
  BY Zenon DEF Next1
<1> QED BY <1>1, WritingCall

\* A plan for some sessions is a plan.
LEMMA PlanIsPlan ==
  ASSUME NEW S \in SUBSET Sessions, NEW plan \in [S -> Contents]
  PROVE  plan \in Plans
BY Zenon DEF Plans

-----------------------------------------------------------------------------
(* What the manifests name *)

\* The parts of the invariant that are about the calls under way.
CallsInv ==
  /\ MixedIsKnown /\ DeletesItsOwn /\ WrittenStays
  /\ FoundWhenNamed /\ NamedIsSpared /\ BackedUpIsReadable

\* After the step no manifest names anything for sure that it did not before.
NamesShrink ==
  \A v \in Versions' : \A s \in Sure(v)' :
    /\ v \in Versions /\ s \in Sure(v)
    /\ manifests'[v].segments[s] = manifests[v].segments[s]

\* A session that is named for sure has its object.
LEMMA SureIsStored ==
  ASSUME BackedUpIsReadable, NEW v \in Versions, NEW s \in Sure(v)
  PROVE  Named(v, s) \in objects
BY DEF BackedUpIsReadable, Returned, Named

\* A step that at most ends calls, and names nothing more.
LEMMA EndsKeep ==
  ASSUME CallsInv, NamesShrink, UNCHANGED objects,
         \A h \in Handlers : calls'[h] = calls[h] \/ calls'[h] = Idle
  PROVE  CallsInv'
<1>1. \A h \in Handlers : /\ IsWriting(h)' => IsWriting(h) /\ calls'[h] = calls[h]
                          /\ IsDeleting(h)' => IsDeleting(h) /\ calls'[h] = calls[h]
  BY DEF IsWriting, IsDeleting, Idle
<1>2. MixedIsKnown'
  <2> SUFFICES ASSUME NEW h \in Handlers, NEW g \in Handlers, IsWriting(h)', g # h,
                      calls'[g].version = calls'[h].version
               PROVE  calls'[h].on \cap calls'[g].on \subseteq calls'[h].mixed
    BY DEF MixedIsKnown
  <2>1. CASE calls'[g] = calls[g]
    BY <1>1, <2>1 DEF CallsInv, MixedIsKnown
  <2>2. CASE calls'[g] = Idle
    BY <2>2 DEF Idle
  <2> QED BY <2>1, <2>2
<1>3. DeletesItsOwn'
  BY <1>1 DEF CallsInv, DeletesItsOwn
<1>4. WrittenStays'
  <2> SUFFICES ASSUME NEW h \in Handlers, IsWriting(h)',
                      NEW s \in (calls'[h].on \ calls'[h].todo) \ calls'[h].mixed
               PROVE  Key(h, s)' \in objects
    BY DEF WrittenStays
  <2> QED BY <1>1 DEF CallsInv, WrittenStays, Key
<1>5. FoundWhenNamed'
  <2> SUFFICES ASSUME NEW h \in Handlers, NEW v \in Versions', IsWriting(h)',
                      calls'[h].version = v, NEW s \in Sure(v)' \cap calls'[h].on,
                      s \notin calls'[h].todo \/ (At(h, "put")' /\ s = Next1(h)'),
                      calls'[h].plan[s] = manifests'[v].segments[s]
               PROVE  s \in calls'[h].existed
    BY DEF FoundWhenNamed
  <2>1. IsWriting(h) /\ calls'[h] = calls[h]
    BY <1>1
  <2>2. At(h, "put")' = At(h, "put") /\ Next1(h)' = Next1(h)
    BY <2>1 DEF At, Next1
  <2>3. /\ v \in Versions /\ s \in Sure(v)
        /\ manifests'[v].segments[s] = manifests[v].segments[s]
    BY DEF NamesShrink
  <2> QED BY <2>1, <2>2, <2>3 DEF CallsInv, FoundWhenNamed
<1>6. NamedIsSpared'
  <2> SUFFICES ASSUME NEW h \in Handlers, NEW v \in Versions', IsDeleting(h)', NEW s \in Sure(v)'
               PROVE  Named(v, s)' \notin calls'[h].keys
    BY DEF NamedIsSpared
  <2>1. v \in Versions /\ s \in Sure(v) /\ Named(v, s)' = Named(v, s)
    BY DEF NamesShrink, Named
  <2> QED BY <1>1, <2>1 DEF CallsInv, NamedIsSpared
<1>7. BackedUpIsReadable'
  <2> SUFFICES ASSUME NEW v \in Versions', NEW s \in Sure(v)'
               PROVE  s \in Returned(v)'
    BY DEF BackedUpIsReadable
  <2>1. v \in Versions /\ s \in Sure(v) /\ Named(v, s)' = Named(v, s)
    BY DEF NamesShrink, Named
  <2>2. Named(v, s)' \in objects'
    BY <2>1, SureIsStored DEF CallsInv
  <2> QED BY <2>2 DEF Returned, Sure, Named
<1> QED BY <1>2, <1>3, <1>4, <1>5, <1>6, <1>7 DEF CallsInv

\* A call begins.  A writing one knows who is on its sessions, as do those that
\* are; a deleting one holds keys of sessions that its manifest no longer names.
LEMMA BeginKeeps ==
  ASSUME TypeOK, CallsInv, NamesShrink, UNCHANGED objects,
         NEW h \in Handlers, NEW v \in Versions, NEW S \in SUBSET Sessions, NEW call,
         Begin(h, v, S, call), call.version = v, call.on = S,
         \/ /\ call.pc = "head" /\ call.todo = S
            /\ call.mixed = Mixed(h, v, S)
         \/ /\ call.pc = "purge" /\ S \cap Sure(v)' = {}
            /\ \A key \in call.keys : key.version = v /\ key.session \in S
  PROVE  CallsInv'
<1>1. calls'[h] = call
  BY DEF Begin
<1>2. ASSUME NEW g \in Handlers, g # h
      PROVE  /\ calls'[g].pc = calls[g].pc /\ calls'[g].version = calls[g].version
             /\ calls'[g].on = calls[g].on
             /\ IsWriting(g) => /\ calls'[g].plan = calls[g].plan
                                /\ calls'[g].todo = calls[g].todo
                                /\ calls'[g].existed = calls[g].existed
                                /\ calls[g].mixed \subseteq calls'[g].mixed
                                /\ calls[g].version = v => S \cap calls[g].on \subseteq calls'[g].mixed
             /\ IsDeleting(g) => calls'[g].keys = calls[g].keys
  <2>1. CASE IsWriting(g) /\ calls[g].version = v
    <3>1. calls'[g] = [calls[g] EXCEPT !.mixed = @ \cup (S \cap calls[g].on)]
      BY <1>2, <2>1 DEF Begin
    <3>2. calls[g] \in Writing
      BY <2>1, WritingCall
    <3> QED BY <2>1, <3>1, <3>2 DEF Writing, IsDeleting
  <2>2. CASE ~(IsWriting(g) /\ calls[g].version = v)
    <3>1. calls'[g] = calls[g]
      BY <1>2, <2>2 DEF Begin
    <3> QED BY <2>2, <3>1
  <2> QED BY <2>1, <2>2
<1>3. \A g \in Handlers : g # h => /\ IsWriting(g)' => IsWriting(g)
                                   /\ IsDeleting(g)' => IsDeleting(g)
  BY <1>2 DEF IsWriting, IsDeleting
<1>4. MixedIsKnown'
  <2> SUFFICES ASSUME NEW f \in Handlers, NEW g \in Handlers, IsWriting(f)', g # f,
                      calls'[g].version = calls'[f].version
               PROVE  calls'[f].on \cap calls'[g].on \subseteq calls'[f].mixed
    BY DEF MixedIsKnown
  <2>1. CASE f = h
    <3>1. call.mixed = Mixed(h, v, S)
      BY <1>1, <2>1 DEF IsWriting
    <3>2. calls[g].version = v /\ calls'[g].on = calls[g].on
      BY <1>1, <1>2, <2>1
    <3>3. S \cap calls[g].on \subseteq Mixed(h, v, S)
      BY <2>1, <3>2 DEF Mixed
    <3> QED BY <1>1, <2>1, <3>1, <3>2, <3>3
  <2>2. CASE g = h
    BY <1>1, <1>2, <1>3, <2>2
  <2>3. CASE f # h /\ g # h
    BY <1>2, <1>3, <2>3 DEF CallsInv, MixedIsKnown
  <2> QED BY <2>1, <2>2, <2>3
<1>5. DeletesItsOwn'
  <2> SUFFICES ASSUME NEW g \in Handlers, IsDeleting(g)', NEW key \in calls'[g].keys
               PROVE  key.version = calls'[g].version /\ key.session \in calls'[g].on
    BY DEF DeletesItsOwn
  <2>1. CASE g = h
    BY <1>1, <2>1 DEF IsDeleting
  <2>2. CASE g # h
    BY <1>2, <1>3, <2>2 DEF CallsInv, DeletesItsOwn
  <2> QED BY <2>1, <2>2
<1>6. WrittenStays'
  <2> SUFFICES ASSUME NEW g \in Handlers, IsWriting(g)',
                      NEW s \in (calls'[g].on \ calls'[g].todo) \ calls'[g].mixed
               PROVE  Key(g, s)' \in objects
    BY DEF WrittenStays
  <2>1. CASE g = h
    BY <1>1, <2>1 DEF IsWriting
  <2>2. CASE g # h
    <3>1. Key(g, s)' = Key(g, s)
      BY <1>2, <1>3, <2>2 DEF Key
    <3> QED BY <1>2, <1>3, <2>2, <3>1 DEF CallsInv, WrittenStays
  <2> QED BY <2>1, <2>2
<1>7. FoundWhenNamed'
  <2> SUFFICES ASSUME NEW g \in Handlers, NEW w \in Versions', IsWriting(g)',
                      calls'[g].version = w, NEW s \in Sure(w)' \cap calls'[g].on,
                      s \notin calls'[g].todo \/ (At(g, "put")' /\ s = Next1(g)'),
                      calls'[g].plan[s] = manifests'[w].segments[s]
               PROVE  s \in calls'[g].existed
    BY DEF FoundWhenNamed
  <2>1. CASE g = h
    BY <1>1, <2>1 DEF At, IsWriting
  <2>2. CASE g # h
    <3>1. At(g, "put")' = At(g, "put") /\ Next1(g)' = Next1(g)
      BY <1>2, <1>3, <2>2 DEF At, Next1
    <3>2. /\ w \in Versions /\ s \in Sure(w)
          /\ manifests'[w].segments[s] = manifests[w].segments[s]
      BY DEF NamesShrink
    <3> QED BY <1>2, <1>3, <2>2, <3>1, <3>2 DEF CallsInv, FoundWhenNamed
  <2> QED BY <2>1, <2>2
<1>8. NamedIsSpared'
  <2> SUFFICES ASSUME NEW g \in Handlers, NEW w \in Versions', IsDeleting(g)', NEW s \in Sure(w)'
               PROVE  Named(w, s)' \notin calls'[g].keys
    BY DEF NamedIsSpared
  <2>1. w \in Versions /\ s \in Sure(w) /\ Named(w, s)' = Named(w, s)
    BY DEF NamesShrink, Named
  <2>2. CASE g = h
    BY <1>1, <2>2 DEF Named, Object, IsDeleting
  <2>3. CASE g # h
    BY <1>2, <1>3, <2>1, <2>3 DEF CallsInv, NamedIsSpared
  <2> QED BY <2>2, <2>3
<1>9. BackedUpIsReadable'
  <2> SUFFICES ASSUME NEW w \in Versions', NEW s \in Sure(w)'
               PROVE  s \in Returned(w)'
    BY DEF BackedUpIsReadable
  <2>1. w \in Versions /\ s \in Sure(w) /\ Named(w, s)' = Named(w, s)
    BY DEF NamesShrink, Named
  <2>2. Named(w, s)' \in objects'
    BY <2>1, SureIsStored DEF CallsInv
  <2> QED BY <2>2 DEF Returned, Sure, Named
<1> QED BY <1>4, <1>5, <1>6, <1>7, <1>8, <1>9 DEF CallsInv

-----------------------------------------------------------------------------
(* The steps of a write *)

\* A call looks for its next segment: one that is named for sure is there.
LEMMA Head1Keeps ==
  ASSUME TypeOK, CallsInv, NEW h \in Handlers, Head1(h)
  PROVE  /\ CallsInv'
         /\ calls' \in [Handlers -> Writing \cup Deleting \cup {Idle}]
         /\ \A g \in Handlers : IsWriting(g)' =>
              /\ calls'[g].plan \in [calls'[g].on -> Contents]
              /\ calls'[g].todo \subseteq calls'[g].on
              /\ At(g, "put")' => calls'[g].todo # {}
<1> DEFINE c == calls[h]
           s1 == Next1(h)
           found == IF Key(h, s1) \in objects THEN c.existed \cup {s1} ELSE c.existed
           row == [c EXCEPT !.pc = "put", !.existed = found]
<1>1. /\ IsWriting(h) /\ c.pc = "head" /\ c.todo # {}
      /\ UNCHANGED <<manifests, objects, unsure>>
  BY DEF Head1, At, IsWriting
<1>2. /\ c \in Writing /\ c.existed \subseteq Sessions /\ c.on \subseteq Sessions
      /\ c.plan \in [c.on -> Contents] /\ c.todo \subseteq c.on
  BY <1>1, WritingCall
<1>3. s1 \in c.todo /\ s1 \in c.on
  BY <1>1, Next1Todo
<1>4. found \in SUBSET Sessions
  BY <1>2, <1>3
<1>5. calls' = [calls EXCEPT ![h] = row]
  <2>1. calls' = [calls EXCEPT ![h].pc = "put", ![h].existed =
                    IF Key(h, s1) \in objects THEN @ \cup {s1} ELSE @]
    BY DEF Head1
  <2>2. calls \in [Handlers -> Writing \cup Deleting \cup {Idle}]
    BY DEF TypeOK
  <2> QED BY <2>1, <2>2, Zenon
<1> HIDE DEF found
<1>6. /\ row \in Writing /\ row.pc = "put" /\ row.existed = found /\ row.version = c.version
      /\ row.on = c.on /\ row.mixed = c.mixed /\ row.plan = c.plan /\ row.todo = c.todo
  BY <1>2, <1>4, Zenon DEF Writing
<1> HIDE DEF row
<1>7. /\ calls' \in [Handlers -> Writing \cup Deleting \cup {Idle}]
      /\ calls'[h] = row /\ \A g \in Handlers : g # h => calls'[g] = calls[g]
  BY <1>5, <1>6 DEF TypeOK
<1>8. \A g \in Handlers :
        /\ calls'[g].version = calls[g].version /\ calls'[g].on = calls[g].on
        /\ IsWriting(g)' => /\ IsWriting(g)
                            /\ calls'[g].mixed = calls[g].mixed /\ calls'[g].plan = calls[g].plan
                            /\ calls'[g].todo = calls[g].todo
        /\ IsDeleting(g)' => IsDeleting(g) /\ calls'[g] = calls[g]
  BY <1>1, <1>6, <1>7 DEF IsWriting, IsDeleting
<1>9. \A g \in Handlers : IsWriting(g)' =>
         /\ calls'[g].plan \in [calls'[g].on -> Contents]
         /\ calls'[g].todo \subseteq calls'[g].on
         /\ At(g, "put")' => calls'[g].todo # {}
  <2> SUFFICES ASSUME NEW g \in Handlers, IsWriting(g)'
               PROVE  /\ calls'[g].plan \in [calls'[g].on -> Contents]
                      /\ calls'[g].todo \subseteq calls'[g].on
                      /\ At(g, "put")' => calls'[g].todo # {}
    OBVIOUS
  <2>1. CASE g = h
    BY <2>1, <1>1, <1>2, <1>6, <1>7
  <2>2. CASE g # h
    <3>1. IsWriting(g) /\ calls'[g] = calls[g]
      BY <2>2, <1>7, <1>8
    <3> QED BY <3>1 DEF TypeOK, At
  <2> QED BY <2>1, <2>2
<1>10. MixedIsKnown' /\ DeletesItsOwn'
  BY <1>8 DEF CallsInv, MixedIsKnown, DeletesItsOwn
<1>11. WrittenStays'
  BY <1>1, <1>8 DEF CallsInv, WrittenStays, Key
<1>12. /\ Versions' = Versions
       /\ \A v \in Versions : /\ Sure(v)' = Sure(v)
                              /\ \A s \in Sure(v) : Named(v, s)' = Named(v, s)
  BY <1>1 DEF Sure, Named, Stored, Versions
<1>13. FoundWhenNamed'
  <2> SUFFICES ASSUME NEW g \in Handlers, NEW v \in Versions, IsWriting(g)',
                      calls'[g].version = v, NEW s \in Sure(v) \cap calls'[g].on,
                      s \notin calls'[g].todo \/ (At(g, "put")' /\ s = Next1(g)'),
                      calls'[g].plan[s] = manifests[v].segments[s]
               PROVE  s \in calls'[g].existed
    BY <1>1, <1>12 DEF FoundWhenNamed
  <2>1. CASE g # h
    <3>1. calls'[g] = calls[g] /\ At(g, "put")' = At(g, "put") /\ Next1(g)' = Next1(g)
      BY <2>1, <1>7 DEF At, Next1
    <3> QED BY <3>1, <1>8 DEF CallsInv, FoundWhenNamed
  <2>2. CASE g = h /\ s \notin c.todo
    <3>1. s \in c.existed
      BY <2>2, <1>1, <1>6, <1>7 DEF CallsInv, FoundWhenNamed
    <3> QED BY <2>2, <3>1, <1>6, <1>7 DEF found
  <2>3. CASE g = h /\ s = s1
    <3>1. Key(h, s) = Named(v, s)
      BY <2>3, <1>6, <1>7 DEF Key, Named
    <3>2. Named(v, s) \in objects
      BY SureIsStored DEF CallsInv
    <3> QED BY <2>3, <3>1, <3>2, <1>6, <1>7 DEF found
  <2>4. g = h => Next1(g)' = s1
    BY <1>6, <1>7 DEF Next1
  <2> QED BY <2>1, <2>2, <2>3, <2>4, <1>6, <1>7
<1>14. NamedIsSpared'
  BY <1>8, <1>12 DEF CallsInv, NamedIsSpared
<1>15. BackedUpIsReadable'
  BY <1>1 DEF CallsInv, BackedUpIsReadable, Sure, Returned, Stored, Versions
<1> QED BY <1>7, <1>9, <1>10, <1>11, <1>13, <1>14, <1>15 DEF CallsInv

\* A call writes its next segment.
LEMMA Put1Keeps ==
  ASSUME TypeOK, CallsInv, NEW h \in Handlers, Put1(h)
  PROVE  /\ CallsInv'
         /\ calls' \in [Handlers -> Writing \cup Deleting \cup {Idle}]
         /\ \A g \in Handlers : IsWriting(g)' =>
              /\ calls'[g].plan \in [calls'[g].on -> Contents]
              /\ calls'[g].todo \subseteq calls'[g].on
              /\ At(g, "put")' => calls'[g].todo # {}
<1> DEFINE c == calls[h]
           s1 == Next1(h)
           left == c.todo \ {s1}
           row == [c EXCEPT !.pc = "head", !.todo = left]
<1>1. /\ IsWriting(h) /\ c.pc = "put" /\ c.todo # {}
      /\ UNCHANGED <<manifests, unsure>> /\ objects' = objects \cup {Key(h, s1)}
  BY DEF Put1, At, IsWriting, TypeOK
<1>2. /\ c \in Writing /\ c.on \subseteq Sessions
      /\ c.plan \in [c.on -> Contents] /\ c.todo \subseteq c.on
  BY <1>1, WritingCall
<1>3. s1 \in c.todo /\ s1 \in c.on
  BY <1>1, Next1Todo
<1>4. left \in SUBSET Sessions
  BY <1>2
<1>5. calls' = [calls EXCEPT ![h] = row]
  <2>1. calls' = [calls EXCEPT ![h].pc = "head", ![h].todo = @ \ {s1}]
    BY DEF Put1
  <2>2. calls \in [Handlers -> Writing \cup Deleting \cup {Idle}]
    BY DEF TypeOK
  <2> QED BY <2>1, <2>2, Zenon
<1> HIDE DEF left
<1>6. /\ row \in Writing /\ row.pc = "head" /\ row.todo = left /\ row.version = c.version
      /\ row.on = c.on /\ row.mixed = c.mixed /\ row.plan = c.plan /\ row.existed = c.existed
  BY <1>2, <1>4, Zenon DEF Writing
<1> HIDE DEF row
<1>7. /\ calls' \in [Handlers -> Writing \cup Deleting \cup {Idle}]
      /\ calls'[h] = row /\ \A g \in Handlers : g # h => calls'[g] = calls[g]
  BY <1>5, <1>6 DEF TypeOK
<1>8. \A g \in Handlers :
        /\ calls'[g].version = calls[g].version /\ calls'[g].on = calls[g].on
        /\ IsWriting(g)' => /\ IsWriting(g)
                            /\ calls'[g].mixed = calls[g].mixed /\ calls'[g].plan = calls[g].plan
                            /\ calls'[g].existed = calls[g].existed
        /\ IsDeleting(g)' => IsDeleting(g) /\ calls'[g] = calls[g]
  BY <1>1, <1>6, <1>7 DEF IsWriting, IsDeleting
<1>9. \A g \in Handlers : IsWriting(g)' =>
         /\ calls'[g].plan \in [calls'[g].on -> Contents]
         /\ calls'[g].todo \subseteq calls'[g].on
         /\ At(g, "put")' => calls'[g].todo # {}
  <2> SUFFICES ASSUME NEW g \in Handlers, IsWriting(g)'
               PROVE  /\ calls'[g].plan \in [calls'[g].on -> Contents]
                      /\ calls'[g].todo \subseteq calls'[g].on
                      /\ At(g, "put")' => calls'[g].todo # {}
    OBVIOUS
  <2>1. CASE g = h
    BY <2>1, <1>1, <1>2, <1>6, <1>7 DEF At, left
  <2>2. CASE g # h
    <3>1. IsWriting(g) /\ calls'[g] = calls[g]
      BY <2>2, <1>7, <1>8
    <3> QED BY <3>1 DEF TypeOK, At
  <2> QED BY <2>1, <2>2
<1>10. MixedIsKnown' /\ DeletesItsOwn'
  BY <1>8 DEF CallsInv, MixedIsKnown, DeletesItsOwn
<1>11. WrittenStays'
  <2> SUFFICES ASSUME NEW g \in Handlers, IsWriting(g)',
                      NEW s \in (calls'[g].on \ calls'[g].todo) \ calls'[g].mixed
               PROVE  Key(g, s)' \in objects'
    BY DEF WrittenStays
  <2>1. Key(g, s)' = Key(g, s)
    BY <1>8 DEF Key
  <2>2. CASE g = h /\ s = s1
    BY <2>1, <2>2, <1>1
  <2>3. CASE g = h /\ s # s1
    BY <2>1, <2>3, <1>1, <1>6, <1>7, <1>8 DEF CallsInv, WrittenStays, left
  <2>4. CASE g # h
    BY <2>1, <2>4, <1>1, <1>7, <1>8 DEF CallsInv, WrittenStays
  <2> QED BY <2>2, <2>3, <2>4
<1>12. /\ Versions' = Versions
       /\ \A v \in Versions : /\ Sure(v)' = Sure(v)
                              /\ \A s \in Sure(v) : Named(v, s)' = Named(v, s)
  BY <1>1 DEF Sure, Named, Stored, Versions
<1>13. FoundWhenNamed'
  <2> SUFFICES ASSUME NEW g \in Handlers, NEW v \in Versions, IsWriting(g)',
                      calls'[g].version = v, NEW s \in Sure(v) \cap calls'[g].on,
                      s \notin calls'[g].todo \/ (At(g, "put")' /\ s = Next1(g)'),
                      calls'[g].plan[s] = manifests[v].segments[s]
               PROVE  s \in calls'[g].existed
    BY <1>1, <1>12 DEF FoundWhenNamed
  <2>1. CASE g # h
    <3>1. calls'[g] = calls[g] /\ At(g, "put")' = At(g, "put") /\ Next1(g)' = Next1(g)
      BY <2>1, <1>7 DEF At, Next1
    <3> QED BY <3>1, <1>8 DEF CallsInv, FoundWhenNamed
  <2>2. CASE g = h
    <3>1. s \notin c.todo \/ s = s1
      BY <2>2, <1>6, <1>7 DEF At, left
    <3> QED BY <2>2, <3>1, <1>1, <1>6, <1>7 DEF CallsInv, FoundWhenNamed, At
  <2> QED BY <2>1, <2>2
<1>14. NamedIsSpared'
  BY <1>8, <1>12 DEF CallsInv, NamedIsSpared
<1>15. BackedUpIsReadable'
  BY <1>1 DEF CallsInv, BackedUpIsReadable, Sure, Returned, Stored, Versions
<1> QED BY <1>7, <1>9, <1>10, <1>11, <1>13, <1>14, <1>15 DEF CallsInv

\* What a write takes back was not named for sure.
LEMMA WrittenIsSpare ==
  ASSUME TypeOK, CallsInv, NEW h \in Handlers, IsWriting(h), NEW v \in Versions,
         NEW s \in Sure(v)
  PROVE  Named(v, s) \notin Written(h)
<1> SUFFICES ASSUME NEW t \in (calls[h].on \ calls[h].todo) \ calls[h].existed,
                    Named(v, s) = Key(h, t)
             PROVE  FALSE
  BY DEF Written
<1>1. calls[h].version = v /\ t = s /\ calls[h].plan[s] = manifests[v].segments[s]
  BY DEF Named, Key, Object
<1> QED BY <1>1 DEF CallsInv, FoundWhenNamed

\* A write that failed turns to what it takes back.
LEMMA PutFailsKeeps ==
  ASSUME TypeOK, CallsInv, NEW h \in Handlers, PutFails(h)
  PROVE  CallsInv'
<1> DEFINE c == calls[h]
           row == Deletes("undo", c.version, c.on, Written(h))
<1>1. /\ IsWriting(h) /\ objects \subseteq objects'
      /\ UNCHANGED <<manifests, unsure>> /\ calls' = [calls EXCEPT ![h] = row]
  BY DEF PutFails, IsWriting
<1>2. /\ row.pc = "undo" /\ row.version = c.version /\ row.on = c.on /\ row.keys = Written(h)
  BY DEF Deletes
<1> HIDE DEF row
<1>3. calls'[h] = row /\ \A g \in Handlers : g # h => calls'[g] = calls[g]
  BY <1>1 DEF TypeOK
<1>4. \A g \in Handlers :
        /\ calls'[g].version = calls[g].version /\ calls'[g].on = calls[g].on
        /\ IsWriting(g)' => g # h /\ IsWriting(g) /\ calls'[g] = calls[g]
        /\ IsDeleting(g)' => g = h \/ (IsDeleting(g) /\ calls'[g] = calls[g])
  BY <1>2, <1>3 DEF IsWriting, IsDeleting
<1>5. MixedIsKnown'
  BY <1>4 DEF CallsInv, MixedIsKnown
<1>6. DeletesItsOwn'
  <2>1. \A key \in Written(h) : key.version = c.version /\ key.session \in c.on
    BY DEF Written, Key, Object
  <2> QED BY <2>1, <1>2, <1>3, <1>4 DEF CallsInv, DeletesItsOwn
<1>7. WrittenStays'
  BY <1>1, <1>4 DEF CallsInv, WrittenStays, Key
<1>8. /\ Versions' = Versions
      /\ \A v \in Versions : /\ Sure(v)' = Sure(v)
                             /\ \A s \in Sure(v) : Named(v, s)' = Named(v, s)
  BY <1>1 DEF Sure, Named, Stored, Versions
<1>9. FoundWhenNamed'
  <2> SUFFICES ASSUME NEW g \in Handlers, NEW v \in Versions, IsWriting(g)',
                      calls'[g].version = v, NEW s \in Sure(v) \cap calls'[g].on,
                      s \notin calls'[g].todo \/ (At(g, "put")' /\ s = Next1(g)'),
                      calls'[g].plan[s] = manifests[v].segments[s]
               PROVE  s \in calls'[g].existed
    BY <1>1, <1>8 DEF FoundWhenNamed
  <2>1. IsWriting(g) /\ calls'[g] = calls[g]
    BY <1>4
  <2>2. At(g, "put")' = At(g, "put") /\ Next1(g)' = Next1(g)
    BY <2>1 DEF At, Next1
  <2> QED BY <2>1, <2>2 DEF CallsInv, FoundWhenNamed
<1>10. NamedIsSpared'
  <2> SUFFICES ASSUME NEW g \in Handlers, NEW v \in Versions, IsDeleting(g)', NEW s \in Sure(v)
               PROVE  Named(v, s) \notin calls'[g].keys
    BY <1>8 DEF NamedIsSpared
  <2>1. CASE g = h
    BY <1>1, <1>2, <1>3, <2>1, WrittenIsSpare
  <2>2. CASE g # h
    BY <1>4, <2>2 DEF CallsInv, NamedIsSpared
  <2> QED BY <2>1, <2>2
<1>11. BackedUpIsReadable'
  BY <1>1 DEF CallsInv, BackedUpIsReadable, Sure, Returned, Stored, Versions
<1> QED BY <1>5, <1>6, <1>7, <1>9, <1>10, <1>11 DEF CallsInv

\* The delete of one object: no write that is alone on its session loses one,
\* nor a manifest one that it names for sure.
LEMMA Delete1Keeps ==
  ASSUME TypeOK, CallsInv, NEW h \in Handlers, NEW key \in calls[h].keys, Delete1(h, key)
  PROVE  /\ CallsInv'
         /\ calls' \in [Handlers -> Writing \cup Deleting \cup {Idle}]
         /\ \A g \in Handlers : IsWriting(g)' => IsWriting(g) /\ calls'[g] = calls[g]
<1> DEFINE c == calls[h]
           left == c.keys \ {key}
           row == [c EXCEPT !.keys = left]
<1>1. /\ IsDeleting(h) /\ ~IsWriting(h) /\ objects' = objects \ {key}
      /\ UNCHANGED <<manifests, unsure>> /\ calls' = [calls EXCEPT ![h].keys = c.keys \ {key}]
  BY DEF Delete1, IsDeleting, IsWriting
<1>2. c \in Deleting /\ c.keys \subseteq Objects
  BY <1>1, DeletingCall
<1>3. calls' = [calls EXCEPT ![h] = row]
  BY <1>1 DEF TypeOK
<1>4. left \in SUBSET Objects
  BY <1>2
<1> HIDE DEF left
<1>5. /\ row \in Deleting /\ row.pc = c.pc /\ row.version = c.version /\ row.on = c.on
      /\ row.keys = left
  BY <1>2, <1>4, Zenon DEF Deleting
<1> HIDE DEF row
<1>6. /\ calls' \in [Handlers -> Writing \cup Deleting \cup {Idle}]
      /\ calls'[h] = row /\ \A g \in Handlers : g # h => calls'[g] = calls[g]
  BY <1>3, <1>5 DEF TypeOK
<1>7. \A g \in Handlers :
        /\ calls'[g].version = calls[g].version /\ calls'[g].on = calls[g].on
        /\ IsWriting(g)' => g # h /\ IsWriting(g) /\ calls'[g] = calls[g]
        /\ IsDeleting(g)' => IsDeleting(g) /\ calls'[g].keys \subseteq calls[g].keys
  BY <1>1, <1>5, <1>6 DEF IsWriting, IsDeleting, left
<1>8. MixedIsKnown' /\ DeletesItsOwn'
  BY <1>7 DEF CallsInv, MixedIsKnown, DeletesItsOwn
<1>9. WrittenStays'
  <2> SUFFICES ASSUME NEW g \in Handlers, IsWriting(g)',
                      NEW s \in (calls'[g].on \ calls'[g].todo) \ calls'[g].mixed
               PROVE  Key(g, s)' \in objects'
    BY DEF WrittenStays
  <2>1. g # h /\ IsWriting(g) /\ calls'[g] = calls[g] /\ Key(g, s)' = Key(g, s)
    BY <1>7 DEF Key
  <2>2. Key(g, s) \in objects
    BY <2>1 DEF CallsInv, WrittenStays
  <2>3. ASSUME Key(g, s) = key
        PROVE  FALSE
    <3>1. key.version = c.version /\ key.session \in c.on
      BY <1>1 DEF CallsInv, DeletesItsOwn
    <3>2. calls[g].version = c.version /\ s \in c.on
      BY <2>3, <3>1 DEF Key, Object
    <3>3. s \in calls[g].mixed
      BY <2>1, <3>2 DEF CallsInv, MixedIsKnown
    <3> QED BY <2>1, <3>3
  <2> QED BY <1>1, <2>1, <2>2, <2>3
<1>10. /\ Versions' = Versions
       /\ \A v \in Versions : /\ Sure(v)' = Sure(v)
                              /\ \A s \in Sure(v) : Named(v, s)' = Named(v, s)
  BY <1>1 DEF Sure, Named, Stored, Versions
<1>11. FoundWhenNamed'
  <2> SUFFICES ASSUME NEW g \in Handlers, NEW v \in Versions, IsWriting(g)',
                      calls'[g].version = v, NEW s \in Sure(v) \cap calls'[g].on,
                      s \notin calls'[g].todo \/ (At(g, "put")' /\ s = Next1(g)'),
                      calls'[g].plan[s] = manifests[v].segments[s]
               PROVE  s \in calls'[g].existed
    BY <1>1, <1>10 DEF FoundWhenNamed
  <2>1. IsWriting(g) /\ calls'[g] = calls[g]
    BY <1>7
  <2>2. At(g, "put")' = At(g, "put") /\ Next1(g)' = Next1(g)
    BY <2>1 DEF At, Next1
  <2> QED BY <2>1, <2>2 DEF CallsInv, FoundWhenNamed
<1>12. NamedIsSpared'
  BY <1>7, <1>10 DEF CallsInv, NamedIsSpared
<1>13. BackedUpIsReadable'
  <2> SUFFICES ASSUME NEW v \in Versions, NEW s \in Sure(v)
               PROVE  s \in Returned(v)'
    BY <1>10 DEF BackedUpIsReadable
  <2>1. Named(v, s) \in objects
    BY SureIsStored DEF CallsInv
  <2>2. Named(v, s) # key
    BY <1>1 DEF CallsInv, NamedIsSpared
  <2> QED BY <1>1, <2>1, <2>2 DEF Returned, Sure, Named, Stored
<1> QED BY <1>6, <1>7, <1>8, <1>9, <1>11, <1>12, <1>13 DEF CallsInv

-----------------------------------------------------------------------------
(* The steps on a manifest *)

\* The rows of the manifest table are manifests, at versions within the bound.
LEMMA ManifestRow ==
  ASSUME TypeOK, NEW v \in Versions
  PROVE  /\ manifests[v] \in Manifest
         /\ v \in 1..Len(manifests) /\ v \in 1..MaxVersions /\ v \in Nat
         /\ manifests[v].segments \in Entries /\ manifests[v].pending \in Entries
<1>1. manifests \in Seq(Manifest) /\ Len(manifests) <= MaxVersions /\ MaxVersions \in Nat
  BY BoundsAreNat DEF TypeOK
<1>2. manifests[v] \in Manifest /\ v \in 1..Len(manifests)
  BY <1>1 DEF Versions
<1> QED BY <1>1, <1>2 DEF Manifest

\* One row is written back whole.
LEMMA RowReplaced ==
  ASSUME TypeOK, NEW v \in Versions, NEW row \in Manifest,
         manifests' = [manifests EXCEPT ![v] = row]
  PROVE  /\ manifests' \in Seq(Manifest) /\ Len(manifests') = Len(manifests)
         /\ Versions' = Versions
         /\ manifests'[v] = row /\ \A w \in Versions : w # v => manifests'[w] = manifests[w]
BY DEF TypeOK, Versions

\* A row that existed keeps the order of versions and the etags right, and no
\* deleted row is written.
LEMMA RowKeepsTable ==
  ASSUME TypeOK, OneReady, EtagFits, NEW v \in Versions, NEW row \in Manifest,
         manifests' = [manifests EXCEPT ![v] = row], manifests[v].state # "deleted",
         row.state \in {manifests[v].state, "deleted"},
         row.state # "deleted" => row.etag = Etag(row.auth, row.segments)
  PROVE  /\ OneReady' /\ EtagFits'
         /\ \A w \in Versions : manifests[w].state = "deleted" => manifests'[w] = manifests[w]
<1>1. /\ Len(manifests') = Len(manifests) /\ Versions' = Versions
      /\ manifests'[v] = row /\ \A w \in Versions : w # v => manifests'[w] = manifests[w]
  BY RowReplaced
<1>2. OneReady'
  BY <1>1 DEF OneReady
<1>3. EtagFits'
  BY <1>1 DEF EtagFits, Etag
<1> QED BY <1>1, <1>2, <1>3

\* A row that names nothing new.
LEMMA RowShrinksNames ==
  ASSUME TypeOK, UNCHANGED unsure, NEW v \in Versions, NEW row \in Manifest,
         manifests' = [manifests EXCEPT ![v] = row],
         \A s \in Sessions : row.segments[s] \in {None, manifests[v].segments[s]}
  PROVE  /\ NamesShrink
         /\ \A s \in Sessions : row.segments[s] = None => s \notin Sure(v)'
<1>1. /\ Versions' = Versions /\ manifests'[v] = row
      /\ \A w \in Versions : w # v => manifests'[w] = manifests[w]
  BY RowReplaced
<1>2. ASSUME NEW w \in Versions, NEW s \in Sure(w)'
      PROVE  s \in Sure(w) /\ manifests'[w].segments[s] = manifests[w].segments[s]
  <2>1. s \in Sessions /\ manifests'[w].segments[s] # None /\ <<w, s>> \notin unsure
    BY <1>2 DEF Sure, Stored
  <2>2. manifests'[w].segments[s] = manifests[w].segments[s]
    BY <1>1, <2>1
  <2> QED BY <2>1, <2>2 DEF Sure, Stored
<1>3. NamesShrink
  BY <1>1, <1>2 DEF NamesShrink
<1>4. \A s \in Sessions : row.segments[s] = None => s \notin Sure(v)'
  BY <1>1 DEF Sure, Stored
<1> QED BY <1>3, <1>4

\* The keys of entries are objects of their version and sessions.
LEMMA KeysAreObjects ==
  ASSUME NEW v \in Nat, NEW entries \in Entries, NEW S \in SUBSET Sessions
  PROVE  /\ Keys(v, entries, S) \subseteq Objects
         /\ \A key \in Keys(v, entries, S) : key.version = v /\ key.session \in S
<1> SUFFICES ASSUME NEW s \in S \cap Stored(entries)
             PROVE  /\ Object(v, s, entries[s]) \in Objects
                    /\ Object(v, s, entries[s]).version = v
                    /\ Object(v, s, entries[s]).session \in S
  BY DEF Keys
<1>1. entries[s] \in Contents /\ s \in Sessions
  BY DEF Entries, Stored
<1> QED BY <1>1 DEF Object, Objects

\* Entries without some sessions.
LEMMA WithoutFacts ==
  ASSUME NEW entries \in Entries, NEW S
  PROVE  /\ Without(entries, S) \in Entries
         /\ \A s \in Sessions : Without(entries, S)[s] = IF s \in S THEN None ELSE entries[s]
BY DEF Without, Entries

\* The calls after one more began.
LEMMA BeginTypes ==
  ASSUME TypeOK, NEW h \in Handlers, NEW v \in Versions, NEW S \in SUBSET Sessions,
         NEW call \in Writing \cup Deleting, Begin(h, v, S, call),
         call.pc = "head" => call.plan \in [call.on -> Contents] /\ call.todo \subseteq call.on,
         call.pc # "put"
  PROVE  /\ calls' \in [Handlers -> Writing \cup Deleting \cup {Idle}]
         /\ \A g \in Handlers : IsWriting(g)' =>
              /\ calls'[g].plan \in [calls'[g].on -> Contents]
              /\ calls'[g].todo \subseteq calls'[g].on
              /\ At(g, "put")' => calls'[g].todo # {}
         /\ begun' \in 0..MaxCalls
<1>1. ASSUME NEW g \in Handlers
      PROVE  /\ calls'[g] \in Writing \cup Deleting \cup {Idle}
             /\ IsWriting(g)' => /\ calls'[g].plan \in [calls'[g].on -> Contents]
                                 /\ calls'[g].todo \subseteq calls'[g].on
                                 /\ At(g, "put")' => calls'[g].todo # {}
  <2>1. CASE g = h
    <3>1. calls'[g] = call
      BY <2>1 DEF Begin
    <3> QED BY <3>1 DEF IsWriting, At
  <2>2. CASE g # h /\ IsWriting(g) /\ calls[g].version = v
    <3> DEFINE mixed == calls[g].mixed \cup (S \cap calls[g].on)
               row == [calls[g] EXCEPT !.mixed = mixed]
    <3>1. calls'[g] = row
      BY <2>2 DEF Begin
    <3>2. calls[g] \in Writing /\ mixed \in SUBSET Sessions
      BY <2>2, WritingCall
    <3> HIDE DEF mixed
    <3>3. /\ row \in Writing /\ row.pc = calls[g].pc /\ row.plan = calls[g].plan
          /\ row.on = calls[g].on /\ row.todo = calls[g].todo
      BY <3>2 DEF Writing
    <3> HIDE DEF row
    <3> QED BY <2>2, <3>1, <3>3 DEF TypeOK, At
  <2>3. CASE g # h /\ ~(IsWriting(g) /\ calls[g].version = v)
    <3>1. calls'[g] = calls[g]
      BY <2>3 DEF Begin
    <3> QED BY <3>1 DEF TypeOK, IsWriting, At
  <2> QED BY <2>1, <2>2, <2>3
<1>2. DOMAIN calls' = Handlers /\ calls' = [g \in Handlers |-> calls'[g]]
  BY DEF Begin
<1>3. begun' \in 0..MaxCalls
  <2>1. MaxCalls \in Nat /\ begun \in 0..MaxCalls /\ begun < MaxCalls /\ begun' = begun + 1
    BY BoundsAreNat DEF TypeOK, Begin
  <2> QED BY <2>1
<1> QED BY <1>1, <1>2, <1>3

\* The shapes of the calls, as in TypeOK.
CallsTyped ==
  /\ calls \in [Handlers -> Writing \cup Deleting \cup {Idle}]
  /\ \A h \in Handlers : IsWriting(h) =>
       /\ calls[h].plan \in [calls[h].on -> Contents]
       /\ calls[h].todo \subseteq calls[h].on
       /\ At(h, "put") => calls[h].todo # {}

\* A deleted version stays as it is.
DeletedKept ==
  \A v \in Versions : manifests[v].state = "deleted" => manifests'[v] = manifests[v]

\* Calls that end.
LEMMA EndsTypes ==
  ASSUME TypeOK, calls' \in [Handlers -> Writing \cup Deleting \cup {Idle}],
         \A h \in Handlers : calls'[h] = calls[h] \/ calls'[h] = Idle
  PROVE  CallsTyped'
BY DEF TypeOK, CallsTyped, IsWriting, At, Idle

\* What the manifests, the calls and the rest keep, together.
LEMMA Together ==
  ASSUME manifests' \in Seq(Manifest), Len(manifests') <= MaxVersions,
         objects' \subseteq Objects, CallsTyped', unsure' \subseteq Versions' \X Sessions,
         begun' \in 0..MaxCalls, failures' \in 0..MaxFailures, OneReady', EtagFits', CallsInv'
  PROVE  BackupInv'
BY DEF BackupInv, TypeOK, CallsTyped, CallsInv

\* The table after a version is created: the earlier rows keep their data.
LEMMA TableGrows ==
  ASSUME TypeOK, CreateVersion
  PROVE  /\ manifests' \in Seq(Manifest)
         /\ Len(manifests') = Len(manifests) + 1 /\ Len(manifests') <= MaxVersions
         /\ manifests'[Len(manifests) + 1] = Empty
         /\ \A v \in Versions :
              /\ v \in Versions' /\ v # Len(manifests) + 1
              /\ manifests'[v] = IF manifests[v].state = "ready"
                                 THEN [manifests[v] EXCEPT !.state = "archived"] ELSE manifests[v]
         /\ \A v \in Versions' : v \in Versions \/ v = Len(manifests) + 1
<1> DEFINE old == [v \in Versions |-> IF manifests[v].state = "ready"
                                      THEN [manifests[v] EXCEPT !.state = "archived"]
                                      ELSE manifests[v]]
           n == Len(manifests)
<1>1. /\ manifests \in Seq(Manifest) /\ n \in Nat /\ Versions = 1..n
      /\ MaxVersions \in Nat /\ n < MaxVersions /\ manifests' = Append(old, Empty)
  BY BoundsAreNat DEF TypeOK, Versions, CreateVersion, Create
<1>2. Empty \in Manifest
  BY DEF Empty, Manifest, Etag, NoEntries, Entries, FirstAuth
<1>3. ASSUME NEW v \in Versions
      PROVE  old[v] \in Manifest
  <2>1. manifests[v] \in Manifest
    BY ManifestRow
  <2>2. [manifests[v] EXCEPT !.state = "archived"] \in Manifest
    BY <2>1 DEF Manifest
  <2> QED BY <2>1, <2>2, Zenon
<1>4. old \in [1..n -> Manifest]
  BY <1>1, <1>3
<1>5. old \in Seq(Manifest) /\ Len(old) = n
  <2>1. old \in Seq(Manifest)
    BY <1>1, <1>4, SeqDef
  <2> QED BY <1>1, <1>4, <2>1
<1>6. \A v \in Versions : old[v] = IF manifests[v].state = "ready"
                                   THEN [manifests[v] EXCEPT !.state = "archived"] ELSE manifests[v]
  OBVIOUS
<1> HIDE DEF old
<1>7. /\ manifests' \in Seq(Manifest) /\ Len(manifests') = n + 1
      /\ manifests'[n + 1] = Empty /\ \A v \in 1..n : manifests'[v] = old[v]
  BY <1>1, <1>2, <1>5
<1>8. Versions' = 1..(n + 1)
  BY <1>7 DEF Versions
<1> QED BY <1>1, <1>6, <1>7, <1>8

\* createRoomKeyBackupVersion: a new version is empty, the earlier ones keep
\* their segments.
LEMMA CreateVersionKeeps ==
  ASSUME BackupInv, CreateVersion
  PROVE  BackupInv' /\ DeletedKept
<1>1. TypeOK /\ OneReady /\ EtagFits /\ CallsInv
  BY DEF BackupInv, CallsInv
<1> DEFINE n == Len(manifests)
<1>2. /\ manifests' \in Seq(Manifest) /\ Len(manifests') = n + 1 /\ Len(manifests') <= MaxVersions
      /\ manifests'[n + 1] = Empty
      /\ \A v \in Versions' : v \in Versions \/ v = n + 1
      /\ \A v \in Versions : v \in Versions' /\ v # n + 1
  BY <1>1, TableGrows
<1>3. ASSUME NEW v \in Versions
      PROVE  /\ manifests'[v].state # "ready"
             /\ manifests'[v].auth = manifests[v].auth /\ manifests'[v].etag = manifests[v].etag
             /\ manifests'[v].segments = manifests[v].segments
             /\ manifests'[v].state = "deleted" => manifests[v].state = "deleted"
             /\ manifests[v].state = "deleted" => manifests'[v] = manifests[v]
  <2>1. manifests[v] \in Manifest
    BY <1>1, ManifestRow
  <2>2. manifests'[v] = IF manifests[v].state = "ready"
                        THEN [manifests[v] EXCEPT !.state = "archived"] ELSE manifests[v]
    BY <1>1, TableGrows
  <2> QED BY <2>1, <2>2 DEF Manifest
<1>4. UNCHANGED <<objects, calls, unsure, begun, failures>>
  BY DEF CreateVersion
<1>5. OneReady'
  BY <1>2, <1>3 DEF OneReady
<1>6. EtagFits'
  <2>1. Empty.etag = Etag(Empty.auth, Empty.segments)
    BY DEF Empty
  <2> QED BY <1>1, <1>2, <1>3, <2>1 DEF EtagFits, Etag
<1>7. NamesShrink
  <2> SUFFICES ASSUME NEW v \in Versions', NEW s \in Sure(v)'
               PROVE  /\ v \in Versions /\ s \in Sure(v)
                      /\ manifests'[v].segments[s] = manifests[v].segments[s]
    BY DEF NamesShrink
  <2>1. CASE v \in Versions
    BY <1>3, <1>4, <2>1 DEF Sure, Stored
  <2>2. CASE v = n + 1
    BY <1>2, <2>2 DEF Sure, Stored, Empty, NoEntries
  <2> QED BY <1>2, <2>1, <2>2
<1>8. CallsInv'
  BY <1>1, <1>4, <1>7, EndsKeep
<1>9. CallsTyped' /\ objects' \subseteq Objects /\ begun' \in 0..MaxCalls /\ failures' \in 0..MaxFailures
  BY <1>1, <1>4 DEF TypeOK, CallsTyped, IsWriting, At
<1>10. unsure' \subseteq Versions' \X Sessions
  BY <1>1, <1>2, <1>4 DEF TypeOK
<1>11. DeletedKept
  BY <1>3 DEF DeletedKept
<1> QED BY <1>2, <1>5, <1>6, <1>8, <1>9, <1>10, <1>11, Together

\* updateRoomKeyBackupVersion: the segments stay.
LEMMA UpdateVersionKeeps ==
  ASSUME BackupInv, NEW v \in Versions, UpdateVersion(v)
  PROVE  BackupInv' /\ DeletedKept
<1> DEFINE e == Etag(FirstAuth + 1, manifests[v].segments)
           row == [manifests[v] EXCEPT !.auth = FirstAuth + 1, !.etag = e]
<1>1. TypeOK /\ OneReady /\ EtagFits /\ CallsInv
  BY DEF BackupInv, CallsInv
<1>2. /\ manifests[v].state # "deleted"
      /\ UNCHANGED <<objects, calls, unsure, begun, failures>>
  BY DEF UpdateVersion, Exists
<1>3. manifests[v] \in Manifest /\ manifests[v].segments \in Entries
  BY <1>1, ManifestRow
<1>4. manifests' = [manifests EXCEPT ![v] = row]
  <2>1. manifests' = [manifests EXCEPT ![v].auth = FirstAuth + 1, ![v].etag = e]
    BY DEF UpdateVersion
  <2> QED BY <2>1, Zenon
<1>5. e \in [auth : {FirstAuth, FirstAuth + 1}, segments : Entries]
  BY <1>3 DEF Etag
<1>6. e = Etag(FirstAuth + 1, manifests[v].segments)
  OBVIOUS
<1> HIDE DEF e
<1>7. /\ row \in Manifest /\ row.state = manifests[v].state /\ row.auth = FirstAuth + 1
      /\ row.etag = e /\ row.segments = manifests[v].segments
  BY <1>3, <1>5, Zenon DEF Manifest
<1> HIDE DEF row
<1>8. /\ manifests' \in Seq(Manifest) /\ Len(manifests') = Len(manifests) /\ Versions' = Versions
  BY <1>1, <1>4, <1>7, RowReplaced
<1>9. OneReady' /\ EtagFits' /\ DeletedKept
  BY <1>1, <1>2, <1>4, <1>6, <1>7, RowKeepsTable DEF DeletedKept
<1>10. NamesShrink
  BY <1>1, <1>2, <1>4, <1>7, RowShrinksNames
<1>11. CallsInv'
  BY <1>1, <1>2, <1>10, EndsKeep
<1>12. CallsTyped' /\ objects' \subseteq Objects /\ begun' \in 0..MaxCalls
       /\ failures' \in 0..MaxFailures /\ Len(manifests') <= MaxVersions
       /\ unsure' \subseteq Versions' \X Sessions
  BY <1>1, <1>2, <1>8 DEF TypeOK, CallsTyped, IsWriting, At
<1> QED BY <1>8, <1>9, <1>11, <1>12, Together

\* A purge of what a manifest named, which it no longer does.
LEMMA PurgeBegins ==
  ASSUME BackupInv, NEW h \in Handlers, NEW v \in Versions, NEW S \in SUBSET Sessions,
         NEW row \in Manifest, manifests' = [manifests EXCEPT ![v] = row],
         manifests[v].state # "deleted", row.state \in {manifests[v].state, "deleted"},
         row.state # "deleted" => row.etag = Etag(row.auth, row.segments),
         \A s \in Sessions : row.segments[s] = IF s \in S THEN None ELSE manifests[v].segments[s],
         NEW keys, keys = Keys(v, manifests[v].segments, S) \cup Keys(v, manifests[v].pending, S),
         Begin(h, v, S, Purge(v, S, keys)), UNCHANGED <<objects, unsure, failures>>
  PROVE  BackupInv' /\ DeletedKept
<1> DEFINE call == Purge(v, S, keys)
<1>1. TypeOK /\ OneReady /\ EtagFits /\ CallsInv
  BY DEF BackupInv, CallsInv
<1>2. /\ v \in 1..MaxVersions /\ v \in Nat
      /\ manifests[v].segments \in Entries /\ manifests[v].pending \in Entries
  BY <1>1, ManifestRow
<1>3. keys \subseteq Objects /\ \A key \in keys : key.version = v /\ key.session \in S
  BY <1>2, KeysAreObjects
<1>4. /\ call \in Deleting /\ call.pc = "purge" /\ call.version = v /\ call.on = S
      /\ call.keys = keys
  BY <1>2, <1>3 DEF Purge, Deletes, Deleting
<1> HIDE DEF call
<1>5. Begin(h, v, S, call)
  BY DEF call
<1>6. /\ manifests' \in Seq(Manifest) /\ Len(manifests') = Len(manifests) /\ Versions' = Versions
  BY <1>1, RowReplaced
<1>7. OneReady' /\ EtagFits' /\ DeletedKept
  BY <1>1, RowKeepsTable DEF DeletedKept
<1>8. NamesShrink /\ S \cap Sure(v)' = {}
  BY <1>1, RowShrinksNames
<1>9. CallsInv'
  BY <1>1, <1>3, <1>4, <1>5, <1>8, BeginKeeps
<1>10. CallsTyped' /\ begun' \in 0..MaxCalls
  BY <1>1, <1>4, <1>5, BeginTypes DEF CallsTyped
<1>11. /\ objects' \subseteq Objects /\ failures' \in 0..MaxFailures
       /\ Len(manifests') <= MaxVersions /\ unsure' \subseteq Versions' \X Sessions
  BY <1>1, <1>6 DEF TypeOK
<1> QED BY <1>6, <1>7, <1>9, <1>10, <1>11, Together

\* deleteRoomKeyBackupVersion, up to its deletes.
LEMMA DeleteVersionKeeps ==
  ASSUME BackupInv, NEW h \in Handlers, NEW v \in Versions, DeleteVersion(h, v)
  PROVE  BackupInv' /\ DeletedKept
<1> DEFINE row == [manifests[v] EXCEPT !.state = "deleted", !.segments = NoEntries,
                                       !.pending = NoEntries]
           keys == Keys(v, manifests[v].segments, Sessions) \cup Keys(v, manifests[v].pending, Sessions)
<1>1. manifests[v] \in Manifest
  BY ManifestRow DEF BackupInv
<1>2. /\ manifests[v].state # "deleted" /\ Begin(h, v, Sessions, Purge(v, Sessions, keys))
      /\ UNCHANGED <<objects, unsure, failures>>
  BY DEF DeleteVersion, Exists
<1>3. manifests' = [manifests EXCEPT ![v] = row]
  <2>1. manifests' = [manifests EXCEPT ![v].state = "deleted", ![v].segments = NoEntries,
                                       ![v].pending = NoEntries]
    BY DEF DeleteVersion
  <2> QED BY <2>1, Zenon
<1>4. NoEntries \in Entries /\ \A s \in Sessions : NoEntries[s] = None
  BY DEF NoEntries, Entries
<1>5. row \in Manifest /\ row.state = "deleted" /\ row.segments = NoEntries
  BY <1>1, <1>4, Zenon DEF Manifest
<1> HIDE DEF row, keys
<1>6. keys = Keys(v, manifests[v].segments, Sessions) \cup Keys(v, manifests[v].pending, Sessions)
  BY DEF keys
<1>7. \A s \in Sessions : row.segments[s] = IF s \in Sessions THEN None ELSE manifests[v].segments[s]
  BY <1>4, <1>5
<1>8. Sessions \in SUBSET Sessions
  OBVIOUS
<1> QED BY <1>2, <1>3, <1>5, <1>6, <1>7, <1>8, PurgeBegins

\* deleteRoomKeyBackupData, up to its deletes.
LEMMA DeleteDataKeeps ==
  ASSUME BackupInv, NEW h \in Handlers, NEW v \in Versions, NEW S \in SUBSET Sessions,
         DeleteData(h, v, S)
  PROVE  BackupInv' /\ DeletedKept
<1> DEFINE m == manifests[v]
           segments == Without(m.segments, S)
           pending == Without(m.pending, S)
           e == Etag(m.auth, segments)
           row == WithoutData(m, S)
           keys == Keys(v, m.segments, S) \cup Keys(v, m.pending, S)
<1>1. m \in Manifest /\ m.segments \in Entries /\ m.pending \in Entries
  BY ManifestRow DEF BackupInv
<1>2. /\ m.state # "deleted" /\ Begin(h, v, S, Purge(v, S, keys))
      /\ UNCHANGED <<objects, unsure, failures>> /\ manifests' = [manifests EXCEPT ![v] = row]
  BY DEF DeleteData, Exists
<1>3. /\ segments \in Entries /\ pending \in Entries
      /\ \A s \in Sessions : segments[s] = IF s \in S THEN None ELSE m.segments[s]
  BY <1>1, WithoutFacts
<1>4. row = [m EXCEPT !.segments = segments, !.pending = pending, !.etag = e]
  BY Zenon DEF WithoutData
<1> HIDE DEF segments, pending, row
<1>5. e \in [auth : {FirstAuth, FirstAuth + 1}, segments : Entries]
  BY <1>1, <1>3 DEF Etag, Manifest
<1>6. e = Etag(m.auth, segments)
  OBVIOUS
<1> HIDE DEF e
<1>7. /\ row \in Manifest /\ row.state = m.state /\ row.segments = segments
      /\ row.auth = m.auth /\ row.etag = e
  BY <1>1, <1>3, <1>4, <1>5, Zenon DEF Manifest
<1>8. \A s \in Sessions : row.segments[s] = IF s \in S THEN None ELSE m.segments[s]
  BY <1>3, <1>7
<1> HIDE DEF keys
<1>9. keys = Keys(v, m.segments, S) \cup Keys(v, m.pending, S)
  BY DEF keys
<1> QED BY <1>2, <1>6, <1>7, <1>8, <1>9, PurgeBegins

-----------------------------------------------------------------------------
(* The steps of a write, and the ends of the calls *)

\* putRoomKeyBackupData up to its first head: what is pending is planned.
LEMMA PlanKeeps ==
  ASSUME BackupInv, NEW h \in Handlers, NEW v \in Versions, NEW S \in SUBSET Sessions,
         NEW plan \in [S -> Contents], Plan(h, v, S, plan)
  PROVE  BackupInv' /\ DeletedKept
<1> DEFINE pending == [s \in Sessions |-> IF s \in S THEN plan[s] ELSE manifests[v].pending[s]]
           row == [manifests[v] EXCEPT !.pending = pending]
           call == [pc |-> "head", version |-> v, on |-> S, mixed |-> Mixed(h, v, S),
                    plan |-> plan, todo |-> S, existed |-> {}]
<1>1. TypeOK /\ OneReady /\ EtagFits /\ CallsInv
  BY DEF BackupInv, CallsInv
<1>2. /\ manifests[v] \in Manifest /\ manifests[v].pending \in Entries /\ v \in 1..MaxVersions
  BY <1>1, ManifestRow
<1>3. /\ manifests[v].state # "deleted" /\ Begin(h, v, S, call)
      /\ UNCHANGED <<objects, unsure, failures>>
  BY DEF Plan, Exists
<1>4. manifests' = [manifests EXCEPT ![v] = row]
  <2>1. manifests' = [manifests EXCEPT ![v].pending =
                        [s \in Sessions |-> IF s \in S THEN plan[s] ELSE @[s]]]
    BY DEF Plan
  <2> QED BY <2>1, Zenon
<1>5. pending \in Entries
  BY <1>2 DEF Entries
<1> HIDE DEF pending
<1>6. /\ row \in Manifest /\ row.state = manifests[v].state /\ row.auth = manifests[v].auth
      /\ row.etag = manifests[v].etag /\ row.segments = manifests[v].segments
  BY <1>2, <1>5, Zenon DEF Manifest
<1> HIDE DEF row
<1>7. Mixed(h, v, S) \subseteq Sessions
  BY DEF Mixed
<1>8. /\ call \in Writing /\ call.pc = "head" /\ call.version = v /\ call.on = S
      /\ call.mixed = Mixed(h, v, S) /\ call.todo = S /\ call.plan = plan
  <2>1. plan \in Plans
    BY PlanIsPlan
  <2> QED BY <1>2, <1>7, <2>1 DEF Writing
<1> HIDE DEF call
<1>9. manifests[v].etag = Etag(manifests[v].auth, manifests[v].segments)
  BY <1>1, <1>3 DEF EtagFits
<1>10. manifests' \in Seq(Manifest) /\ Len(manifests') = Len(manifests) /\ Versions' = Versions
  BY <1>1, <1>4, <1>6, RowReplaced
<1>11. OneReady' /\ EtagFits' /\ DeletedKept
  BY <1>1, <1>3, <1>4, <1>6, <1>9, RowKeepsTable DEF DeletedKept
<1>12. NamesShrink
  BY <1>1, <1>3, <1>4, <1>6, RowShrinksNames
<1>13. CallsInv'
  BY <1>1, <1>3, <1>8, <1>12, BeginKeeps
<1>14. CallsTyped' /\ begun' \in 0..MaxCalls
  BY <1>1, <1>3, <1>8, BeginTypes DEF CallsTyped
<1>15. /\ objects' \subseteq Objects /\ failures' \in 0..MaxFailures
       /\ Len(manifests') <= MaxVersions /\ unsure' \subseteq Versions' \X Sessions
  BY <1>1, <1>3, <1>10 DEF TypeOK
<1> QED BY <1>10, <1>11, <1>13, <1>14, <1>15, Together

\* A step that leaves the manifests alone keeps what is true of them.
LEMMA TableStays ==
  ASSUME BackupInv, UNCHANGED <<manifests, unsure>>
  PROVE  /\ manifests' \in Seq(Manifest) /\ Len(manifests') <= MaxVersions
         /\ unsure' \subseteq Versions' \X Sessions
         /\ OneReady' /\ EtagFits' /\ NamesShrink /\ DeletedKept
BY DEF BackupInv, TypeOK, Versions, OneReady, EtagFits, NamesShrink, DeletedKept, Sure, Stored

\* An object a write looks for or writes.
LEMMA KeyIsObject ==
  ASSUME TypeOK, NEW h \in Handlers, IsWriting(h), NEW s \in calls[h].on
  PROVE  Key(h, s) \in Objects
<1>1. /\ calls[h].version \in 1..MaxVersions /\ calls[h].on \subseteq Sessions
      /\ calls[h].plan \in [calls[h].on -> Contents]
  BY WritingCall
<1> QED BY <1>1, BoundsAreNat DEF Key, Object, Objects

\* The head of an object.
LEMMA Head1Step ==
  ASSUME BackupInv, NEW h \in Handlers, Head1(h)
  PROVE  BackupInv' /\ DeletedKept
<1>1. TypeOK /\ CallsInv /\ UNCHANGED <<manifests, objects, unsure, begun, failures>>
  BY DEF BackupInv, CallsInv, Head1
<1>2. CallsInv' /\ CallsTyped'
  BY <1>1, Head1Keeps DEF CallsTyped
<1>3. objects' \subseteq Objects /\ begun' \in 0..MaxCalls /\ failures' \in 0..MaxFailures
  BY <1>1 DEF TypeOK
<1> QED BY <1>1, <1>2, <1>3, TableStays, Together

\* The put of an object.
LEMMA Put1Step ==
  ASSUME BackupInv, NEW h \in Handlers, Put1(h)
  PROVE  BackupInv' /\ DeletedKept
<1>1. TypeOK /\ CallsInv /\ UNCHANGED <<manifests, unsure, begun, failures>>
  BY DEF BackupInv, CallsInv, Put1
<1>2. CallsInv' /\ CallsTyped'
  BY <1>1, Put1Keeps DEF CallsTyped
<1>3. objects' \subseteq Objects
  <2>1. IsWriting(h) /\ calls[h].todo # {} /\ objects' = objects \cup {Key(h, Next1(h))}
    BY <1>1 DEF Put1, TypeOK, At, IsWriting
  <2>2. Key(h, Next1(h)) \in Objects
    BY <1>1, <2>1, Next1Todo, KeyIsObject
  <2> QED BY <1>1, <2>1, <2>2 DEF TypeOK
<1>4. begun' \in 0..MaxCalls /\ failures' \in 0..MaxFailures
  BY <1>1 DEF TypeOK
<1> QED BY <1>1, <1>2, <1>3, <1>4, TableStays, Together

\* One more failure is within the bound.
LEMMA FailureTyped ==
  ASSUME TypeOK, failures < MaxFailures, failures' = failures + 1
  PROVE  failures' \in 0..MaxFailures
<1>1. MaxFailures \in Nat /\ failures \in 0..MaxFailures
  BY BoundsAreNat DEF TypeOK
<1> QED BY <1>1

\* A write whose head or put failed.
LEMMA PutFailsStep ==
  ASSUME BackupInv, NEW h \in Handlers, PutFails(h)
  PROVE  BackupInv' /\ DeletedKept
<1> DEFINE c == calls[h]
           row == Deletes("undo", c.version, c.on, Written(h))
<1>1. TypeOK /\ CallsInv /\ UNCHANGED <<manifests, unsure, begun>>
  BY DEF BackupInv, CallsInv, PutFails
<1>2. /\ IsWriting(h) /\ c.todo # {} /\ failures < MaxFailures /\ failures' = failures + 1
      /\ calls' = [calls EXCEPT ![h] = row]
      /\ objects' \subseteq objects \cup {Key(h, Next1(h))}
  BY DEF PutFails, IsWriting
<1>3. CallsInv'
  BY <1>1, PutFailsKeeps
<1>4. Written(h) \subseteq Objects
  BY <1>1, <1>2, KeyIsObject DEF Written
<1>5. c.version \in 1..MaxVersions /\ c.on \subseteq Sessions
  BY <1>1, <1>2, WritingCall
<1>6. row \in Deleting /\ row.pc = "undo"
  BY <1>4, <1>5 DEF Deletes, Deleting
<1> HIDE DEF row
<1>7. CallsTyped'
  <2>1. /\ calls' \in [Handlers -> Writing \cup Deleting \cup {Idle}] /\ calls'[h] = row
        /\ \A g \in Handlers : g # h => calls'[g] = calls[g]
    BY <1>1, <1>2, <1>6 DEF TypeOK
  <2>2. \A g \in Handlers : IsWriting(g)' => IsWriting(g) /\ calls'[g] = calls[g]
    BY <1>6, <2>1 DEF IsWriting
  <2> QED BY <1>1, <2>1, <2>2 DEF TypeOK, CallsTyped, At
<1>8. objects' \subseteq Objects
  <2>1. Key(h, Next1(h)) \in Objects
    BY <1>1, <1>2, Next1Todo, KeyIsObject
  <2> QED BY <1>1, <1>2, <2>1 DEF TypeOK
<1>9. begun' \in 0..MaxCalls /\ failures' \in 0..MaxFailures
  BY <1>1, <1>2, FailureTyped DEF TypeOK
<1> QED BY <1>1, <1>3, <1>7, <1>8, <1>9, TableStays, Together

\* The delete of an object.
LEMMA Delete1Step ==
  ASSUME BackupInv, NEW h \in Handlers, NEW key \in calls[h].keys, Delete1(h, key)
  PROVE  BackupInv' /\ DeletedKept
<1>1. TypeOK /\ CallsInv /\ UNCHANGED <<manifests, unsure, begun, failures>>
  BY DEF BackupInv, CallsInv, Delete1
<1>2. /\ CallsInv' /\ calls' \in [Handlers -> Writing \cup Deleting \cup {Idle}]
      /\ \A g \in Handlers : IsWriting(g)' => IsWriting(g) /\ calls'[g] = calls[g]
  BY <1>1, Delete1Keeps
<1>3. CallsTyped'
  BY <1>1, <1>2 DEF TypeOK, CallsTyped, At
<1>4. objects' \subseteq Objects /\ begun' \in 0..MaxCalls /\ failures' \in 0..MaxFailures
  BY <1>1 DEF TypeOK, Delete1
<1> QED BY <1>1, <1>2, <1>3, <1>4, TableStays, Together

\* A purge that is done, a delete that fails, and a restart: calls end.
LEMMA EndStep ==
  ASSUME BackupInv, UNCHANGED <<manifests, objects, unsure, begun>>,
         \/ UNCHANGED failures
         \/ failures < MaxFailures /\ failures' = failures + 1,
         \/ \E h \in Handlers : calls' = [calls EXCEPT ![h] = Idle]
         \/ calls' = [h \in Handlers |-> Idle]
  PROVE  BackupInv' /\ DeletedKept
<1>1. TypeOK /\ CallsInv
  BY DEF BackupInv, CallsInv
<1>2. /\ calls' \in [Handlers -> Writing \cup Deleting \cup {Idle}]
      /\ \A h \in Handlers : calls'[h] = calls[h] \/ calls'[h] = Idle
  BY <1>1 DEF TypeOK
<1>3. NamesShrink
  BY TableStays
<1>4. CallsInv'
  BY <1>1, <1>2, <1>3, EndsKeep
<1>5. CallsTyped'
  BY <1>1, <1>2, EndsTypes
<1>6. objects' \subseteq Objects /\ begun' \in 0..MaxCalls
  BY <1>1 DEF TypeOK
<1>7. failures' \in 0..MaxFailures
  BY <1>1, FailureTyped DEF TypeOK
<1> QED BY <1>4, <1>5, <1>6, <1>7, TableStays, Together

\* A failed write has taken back what it wrote.
LEMMA UndoneStep ==
  ASSUME BackupInv, NEW h \in Handlers, Undone(h)
  PROVE  BackupInv' /\ DeletedKept
<1> DEFINE v == calls[h].version
           S == calls[h].on
<1>1. TypeOK /\ OneReady /\ EtagFits /\ CallsInv
  BY DEF BackupInv, CallsInv
<1>2. /\ calls' = [calls EXCEPT ![h] = Idle] /\ UNCHANGED <<objects, unsure, begun, failures>>
      /\ manifests' = IF Exists(v) THEN [manifests EXCEPT ![v].pending = Without(@, S)]
                      ELSE manifests
  BY DEF Undone
<1>3. CASE ~Exists(v)
  BY <1>2, <1>3, EndStep
<1>4. CASE Exists(v)
  <2> DEFINE pending == Without(manifests[v].pending, S)
             row == [manifests[v] EXCEPT !.pending = pending]
  <2>1. v \in Versions /\ manifests[v].state # "deleted"
    BY <1>4 DEF Exists
  <2>2. manifests[v] \in Manifest /\ manifests[v].pending \in Entries
    BY <1>1, <2>1, ManifestRow
  <2>3. manifests' = [manifests EXCEPT ![v] = row]
    <3>1. manifests' = [manifests EXCEPT ![v].pending = Without(@, S)]
      BY <1>2, <1>4
    <3> QED BY <3>1, Zenon
  <2>4. pending \in Entries
    BY <2>2, WithoutFacts
  <2> HIDE DEF pending
  <2>5. /\ row \in Manifest /\ row.state = manifests[v].state /\ row.auth = manifests[v].auth
        /\ row.etag = manifests[v].etag /\ row.segments = manifests[v].segments
    BY <2>2, <2>4, Zenon DEF Manifest
  <2> HIDE DEF row
  <2>6. manifests[v].etag = Etag(manifests[v].auth, manifests[v].segments)
    BY <1>1, <2>1 DEF EtagFits
  <2>7. manifests' \in Seq(Manifest) /\ Len(manifests') = Len(manifests) /\ Versions' = Versions
    BY <1>1, <2>1, <2>3, <2>5, RowReplaced
  <2>8. OneReady' /\ EtagFits' /\ DeletedKept
    BY <1>1, <2>1, <2>3, <2>5, <2>6, RowKeepsTable DEF DeletedKept
  <2>9. NamesShrink
    BY <1>1, <1>2, <2>1, <2>3, <2>5, RowShrinksNames
  <2>10. /\ calls' \in [Handlers -> Writing \cup Deleting \cup {Idle}]
         /\ \A g \in Handlers : calls'[g] = calls[g] \/ calls'[g] = Idle
    BY <1>1, <1>2 DEF TypeOK
  <2>11. CallsInv'
    BY <1>1, <1>2, <2>9, <2>10, EndsKeep
  <2>12. CallsTyped'
    BY <1>1, <2>10, EndsTypes
  <2>13. /\ objects' \subseteq Objects /\ begun' \in 0..MaxCalls /\ failures' \in 0..MaxFailures
         /\ Len(manifests') <= MaxVersions /\ unsure' \subseteq Versions' \X Sessions
    BY <1>1, <1>2, <2>7 DEF TypeOK
  <2> QED BY <2>7, <2>8, <2>11, <2>12, <2>13, Together
<1> QED BY <1>3, <1>4

\* What a finished write leaves named: what was named before, or what it wrote
\* with no other call beside it.
NamesOwn(h) ==
  \A w \in Versions : \A s \in Sure(w)' :
    \/ /\ s \in Sure(w) /\ manifests'[w].segments[s] = manifests[w].segments[s]
       /\ w = calls[h].version => s \notin calls[h].on
    \/ /\ w = calls[h].version /\ s \in calls[h].on
       /\ manifests'[w].segments[s] = calls[h].plan[s] /\ Key(h, s) \in objects
       /\ \A g \in Handlers \ {h} : calls[g].version = w => s \notin calls[g].on

LEMMA FinalizedNames ==
  ASSUME TypeOK, CallsInv, NEW h \in Handlers, IsWriting(h), calls[h].todo = {},
         NEW v \in Versions, v = calls[h].version,
         \A s \in Sessions : manifests'[v].segments[s] =
           IF s \in calls[h].on THEN calls[h].plan[s] ELSE manifests[v].segments[s],
         \A w \in Versions : w # v => manifests'[w] = manifests[w],
         unsure' = (unsure \ ({v} \X calls[h].on)) \cup ({v} \X calls[h].mixed)
  PROVE  NamesOwn(h)
<1> SUFFICES ASSUME NEW w \in Versions, NEW s \in Sure(w)'
             PROVE  \/ /\ s \in Sure(w) /\ manifests'[w].segments[s] = manifests[w].segments[s]
                       /\ w = v => s \notin calls[h].on
                    \/ /\ w = v /\ s \in calls[h].on
                       /\ manifests'[w].segments[s] = calls[h].plan[s] /\ Key(h, s) \in objects
                       /\ \A g \in Handlers \ {h} : calls[g].version = w => s \notin calls[g].on
  BY DEF NamesOwn
<1>1. s \in Sessions /\ manifests'[w].segments[s] # None /\ <<w, s>> \notin unsure'
  BY DEF Sure, Stored
<1>2. CASE w # v
  <2>1. <<w, s>> \notin unsure
    BY <1>1, <1>2
  <2>2. manifests'[w].segments[s] = manifests[w].segments[s]
    BY <1>2
  <2> QED BY <1>1, <1>2, <2>1, <2>2 DEF Sure, Stored
<1>3. CASE w = v /\ s \notin calls[h].on
  <2>1. <<w, s>> \notin unsure
    BY <1>1, <1>3
  <2>2. manifests'[w].segments[s] = manifests[w].segments[s]
    BY <1>1, <1>3
  <2> QED BY <1>1, <1>3, <2>1, <2>2 DEF Sure, Stored
<1>4. CASE w = v /\ s \in calls[h].on
  <2>1. s \notin calls[h].mixed
    BY <1>1, <1>4
  <2>2. Key(h, s) \in objects
    BY <1>4, <2>1 DEF CallsInv, WrittenStays
  <2>3. manifests'[w].segments[s] = calls[h].plan[s]
    BY <1>1, <1>4
  <2>4. \A g \in Handlers \ {h} : calls[g].version = v => s \notin calls[g].on
    BY <1>4, <2>1 DEF CallsInv, MixedIsKnown
  <2> QED BY <1>4, <2>2, <2>3, <2>4
<1> QED BY <1>2, <1>3, <1>4

\* A write completes: the manifest names what it wrote, and the call turns to
\* the objects of what it replaced.
LEMMA FinalizeCalls ==
  ASSUME NEW h \in Handlers, CallsInv, NamesOwn(h), Versions' = Versions, UNCHANGED objects,
         NEW v \in Versions, v = calls[h].version,
         calls'[h].pc = "purge", calls'[h].version = v, calls'[h].on = calls[h].on,
         \A key \in calls'[h].keys : \E t \in calls[h].on :
           /\ key = Object(v, t, manifests[v].segments[t])
           /\ manifests[v].segments[t] # calls[h].plan[t],
         \A g \in Handlers : g # h => calls'[g] = calls[g]
  PROVE  CallsInv'
<1>1. \A g \in Handlers :
        /\ calls'[g].version = calls[g].version /\ calls'[g].on = calls[g].on
        /\ IsWriting(g)' => g # h /\ IsWriting(g) /\ calls'[g] = calls[g]
        /\ IsDeleting(g)' => g = h \/ (IsDeleting(g) /\ calls'[g] = calls[g])
  BY DEF IsWriting, IsDeleting
<1>2. MixedIsKnown'
  BY <1>1 DEF CallsInv, MixedIsKnown
<1>3. DeletesItsOwn'
  <2>1. \A key \in calls'[h].keys : key.version = v /\ key.session \in calls[h].on
    BY DEF Object
  <2> QED BY <1>1, <2>1 DEF CallsInv, DeletesItsOwn
<1>4. WrittenStays'
  BY <1>1 DEF CallsInv, WrittenStays, Key
<1>5. FoundWhenNamed'
  <2> SUFFICES ASSUME NEW g \in Handlers, NEW w \in Versions, IsWriting(g)',
                      calls'[g].version = w, NEW s \in Sure(w)' \cap calls'[g].on,
                      s \notin calls'[g].todo \/ (At(g, "put")' /\ s = Next1(g)'),
                      calls'[g].plan[s] = manifests'[w].segments[s]
               PROVE  s \in calls'[g].existed
    BY DEF FoundWhenNamed
  <2>1. g # h /\ IsWriting(g) /\ calls'[g] = calls[g]
    BY <1>1
  <2>2. At(g, "put")' = At(g, "put") /\ Next1(g)' = Next1(g)
    BY <2>1 DEF At, Next1
  <2>3. s \in Sure(w) /\ manifests'[w].segments[s] = manifests[w].segments[s]
    BY <2>1 DEF NamesOwn
  <2> QED BY <2>1, <2>2, <2>3 DEF CallsInv, FoundWhenNamed
<1>6. NamedIsSpared'
  <2> SUFFICES ASSUME NEW g \in Handlers, NEW w \in Versions, IsDeleting(g)', NEW s \in Sure(w)',
                      Object(w, s, manifests'[w].segments[s]) \in calls'[g].keys
               PROVE  FALSE
    BY DEF NamedIsSpared, Named
  <2>1. CASE g = h
    <3>1. PICK t \in calls[h].on :
            /\ Object(w, s, manifests'[w].segments[s]) = Object(v, t, manifests[v].segments[t])
            /\ manifests[v].segments[t] # calls[h].plan[t]
      BY <2>1
    <3>2. w = v /\ t = s /\ manifests'[w].segments[s] = manifests[v].segments[t]
      BY <3>1 DEF Object
    <3> QED BY <3>1, <3>2 DEF NamesOwn
  <2>2. CASE g # h
    <3>1. IsDeleting(g) /\ calls'[g] = calls[g]
      BY <1>1, <2>2
    <3>2. calls[g].version = w /\ s \in calls[g].on
      BY <3>1 DEF CallsInv, DeletesItsOwn, Object
    <3>3. s \in Sure(w) /\ manifests'[w].segments[s] = manifests[w].segments[s]
      BY <2>2, <3>2 DEF NamesOwn
    <3>4. Named(w, s) \in calls[g].keys
      BY <3>1, <3>3 DEF Named
    <3> QED BY <3>1, <3>3, <3>4 DEF CallsInv, NamedIsSpared
  <2> QED BY <2>1, <2>2
<1>7. BackedUpIsReadable'
  <2> SUFFICES ASSUME NEW w \in Versions, NEW s \in Sure(w)'
               PROVE  Object(w, s, manifests'[w].segments[s]) \in objects
    BY DEF BackedUpIsReadable, Returned, Sure
  <2>1. CASE s \in Sure(w) /\ manifests'[w].segments[s] = manifests[w].segments[s]
    BY <2>1, SureIsStored DEF CallsInv, Named
  <2>2. CASE w = v /\ manifests'[w].segments[s] = calls[h].plan[s] /\ Key(h, s) \in objects
    BY <2>2 DEF Key
  <2> QED BY <2>1, <2>2 DEF NamesOwn
<1> QED BY <1>2, <1>3, <1>4, <1>5, <1>6, <1>7 DEF CallsInv

\* putRoomKeyBackupData after its last put.
LEMMA FinalizeKeeps ==
  ASSUME BackupInv, NEW h \in Handlers, Finalize(h)
  PROVE  BackupInv' /\ DeletedKept
<1> DEFINE c == calls[h]
           v == c.version
           S == c.on
           old == manifests[v].segments
           new == [s \in Sessions |-> IF s \in S THEN c.plan[s] ELSE old[s]]
           replaced == {s \in S : old[s] \notin {None, c.plan[s]}}
           purge == Purge(v, S, Keys(v, old, replaced))
<1>1. TypeOK /\ OneReady /\ EtagFits /\ CallsInv
  BY DEF BackupInv, CallsInv
<1>2. IsWriting(h) /\ c.todo = {} /\ UNCHANGED <<objects, begun, failures>>
  BY DEF Finalize, At, IsWriting
<1>3. CASE ~CanFinalize(v)
  BY <1>2, <1>3, EndStep DEF Finalize
<1>4. CASE CanFinalize(v)
  <2> DEFINE pending == Without(manifests[v].pending, S)
             e == Etag(manifests[v].auth, new)
             row == [manifests[v] EXCEPT !.segments = new, !.pending = pending, !.etag = e]
  <2>1. /\ manifests' = [manifests EXCEPT ![v].segments = new,
                                          ![v].pending = Without(@, S), ![v].etag = e]
        /\ calls' = [calls EXCEPT ![h] = purge]
        /\ unsure' = (unsure \ ({v} \X S)) \cup ({v} \X c.mixed)
    BY <1>4 DEF Finalize
  <2>2. v \in Versions /\ manifests[v].state # "deleted"
    BY <1>4 DEF CanFinalize, Exists
  <2>3. /\ manifests[v] \in Manifest /\ old \in Entries /\ manifests[v].pending \in Entries
        /\ v \in Nat /\ v \in 1..MaxVersions
    BY <1>1, <2>2, ManifestRow
  <2>4. /\ S \subseteq Sessions /\ c.plan \in [S -> Contents] /\ c.mixed \subseteq Sessions
    BY <1>1, <1>2, WritingCall
  <2>5. pending \in Entries
    BY <2>3, WithoutFacts
  <2>6. new \in Entries
    BY <2>3, <2>4 DEF Entries
  <2>7. e \in [auth : {FirstAuth, FirstAuth + 1}, segments : Entries]
    BY <2>3, <2>6 DEF Etag, Manifest
  <2>8. manifests' = [manifests EXCEPT ![v] = row]
    BY <2>1, Zenon
  <2>9. \A s \in Sessions : new[s] = IF s \in S THEN c.plan[s] ELSE old[s]
    OBVIOUS
  <2>10. e = Etag(manifests[v].auth, new)
    OBVIOUS
  <2>11. \A key \in Keys(v, old, replaced) : \E t \in S :
           key = Object(v, t, old[t]) /\ old[t] # c.plan[t]
    BY DEF Keys
  <2>12. Keys(v, old, replaced) \subseteq Objects
    <3>1. replaced \in SUBSET Sessions
      BY <2>4
    <3> QED BY <2>3, <3>1, KeysAreObjects
  <2>13. /\ purge \in Deleting /\ purge.pc = "purge" /\ purge.version = v /\ purge.on = S
         /\ purge.keys = Keys(v, old, replaced)
    BY <2>3, <2>4, <2>12 DEF Purge, Deletes, Deleting
  <2> HIDE DEF new, pending, e, replaced, purge
  <2>14. /\ row \in Manifest /\ row.state = manifests[v].state /\ row.auth = manifests[v].auth
         /\ row.etag = e /\ row.segments = new
    BY <2>3, <2>5, <2>6, <2>7, Zenon DEF Manifest
  <2> HIDE DEF row
  <2>15. /\ manifests' \in Seq(Manifest) /\ Len(manifests') = Len(manifests)
         /\ Versions' = Versions /\ manifests'[v] = row
         /\ \A w \in Versions : w # v => manifests'[w] = manifests[w]
    BY <1>1, <2>2, <2>8, <2>14, RowReplaced
  <2>16. OneReady' /\ EtagFits' /\ DeletedKept
    BY <1>1, <2>2, <2>8, <2>10, <2>14, RowKeepsTable DEF DeletedKept
  <2>17. /\ calls' \in [Handlers -> Writing \cup Deleting \cup {Idle}]
         /\ calls'[h] = purge /\ \A g \in Handlers : g # h => calls'[g] = calls[g]
    BY <1>1, <2>1, <2>13 DEF TypeOK
  <2>18. NamesOwn(h)
    <3>1. \A s \in Sessions : manifests'[v].segments[s] = IF s \in S THEN c.plan[s] ELSE old[s]
      BY <2>9, <2>14, <2>15
    <3>2. \A w \in Versions : w # v => manifests'[w] = manifests[w]
      BY <2>15
    <3> QED BY <1>1, <1>2, <2>1, <2>2, <3>1, <3>2, FinalizedNames
  <2>19. CallsInv'
    <3>1. /\ calls'[h].pc = "purge" /\ calls'[h].version = v /\ calls'[h].on = S
          /\ \A key \in calls'[h].keys : \E t \in S : key = Object(v, t, old[t]) /\ old[t] # c.plan[t]
      BY <2>11, <2>13, <2>17
    <3> QED BY <1>1, <1>2, <2>2, <2>15, <2>17, <2>18, <3>1, FinalizeCalls
  <2>20. CallsTyped'
    <3>1. \A g \in Handlers : IsWriting(g)' => IsWriting(g) /\ calls'[g] = calls[g]
      BY <2>13, <2>17 DEF IsWriting
    <3> QED BY <1>1, <2>17, <3>1 DEF TypeOK, CallsTyped, At
  <2>21. unsure' \subseteq Versions' \X Sessions
    <3>1. unsure \subseteq Versions \X Sessions
      BY <1>1 DEF TypeOK
    <3> QED BY <2>1, <2>2, <2>4, <2>15, <3>1
  <2>22. /\ objects' \subseteq Objects /\ begun' \in 0..MaxCalls /\ failures' \in 0..MaxFailures
         /\ Len(manifests') <= MaxVersions
    BY <1>1, <1>2, <2>15 DEF TypeOK
  <2> QED BY <2>15, <2>16, <2>19, <2>20, <2>21, <2>22, Together
<1> QED BY <1>3, <1>4

-----------------------------------------------------------------------------
(* The theorems *)

LEMMA InitKeeps ==
  ASSUME Init
  PROVE  BackupInv
<1>1. Versions = {} /\ \A h \in Handlers : calls[h] = Idle /\ ~IsWriting(h) /\ ~IsDeleting(h)
  BY DEF Init, Versions, Idle, IsWriting, IsDeleting
<1>2. TypeOK
  <2>1. manifests \in Seq(Manifest) /\ Len(manifests) = 0
    BY DEF Init
  <2> QED BY <1>1, <2>1, BoundsAreNat DEF Init, TypeOK
<1> QED BY <1>1, <1>2 DEF BackupInv, OneReady, EtagFits, MixedIsKnown, DeletesItsOwn,
                          WrittenStays, FoundWhenNamed, NamedIsSpared, BackedUpIsReadable

LEMMA NextKeeps ==
  ASSUME BackupInv, Next
  PROVE  BackupInv' /\ DeletedKept
<1>1. CASE HandleVersions
  <2>1. CASE CreateVersion
    BY <2>1, CreateVersionKeeps
  <2>2. ASSUME NEW v \in Versions, UpdateVersion(v)
        PROVE  BackupInv' /\ DeletedKept
    BY <2>2, UpdateVersionKeeps
  <2>3. ASSUME NEW v \in Versions, NEW h \in Handlers, DeleteVersion(h, v)
        PROVE  BackupInv' /\ DeletedKept
    BY <2>3, DeleteVersionKeeps
  <2> QED BY <1>1, <2>1, <2>2, <2>3 DEF HandleVersions
<1>2. CASE HandlePutData
  <2> SUFFICES ASSUME NEW h \in Handlers, NEW v \in Versions, NEW S \in SUBSET Sessions,
                      NEW plan \in [S -> Contents], Plan(h, v, S, plan)
               PROVE  BackupInv' /\ DeletedKept
    BY <1>2 DEF HandlePutData
  <2> QED BY PlanKeeps
<1>3. CASE HandleDeleteData
  <2> SUFFICES ASSUME NEW h \in Handlers, NEW v \in Versions, NEW S \in SUBSET Sessions,
                      DeleteData(h, v, S)
               PROVE  BackupInv' /\ DeletedKept
    BY <1>3 DEF HandleDeleteData
  <2> QED BY DeleteDataKeeps
<1>4. ASSUME NEW h \in Handlers, Head1(h)
      PROVE  BackupInv' /\ DeletedKept
  BY <1>4, Head1Step
<1>5. ASSUME NEW h \in Handlers, Put1(h)
      PROVE  BackupInv' /\ DeletedKept
  BY <1>5, Put1Step
<1>6. ASSUME NEW h \in Handlers, PutFails(h)
      PROVE  BackupInv' /\ DeletedKept
  BY <1>6, PutFailsStep
<1>7. ASSUME NEW h \in Handlers, Undone(h)
      PROVE  BackupInv' /\ DeletedKept
  BY <1>7, UndoneStep
<1>8. ASSUME NEW h \in Handlers, Finalize(h)
      PROVE  BackupInv' /\ DeletedKept
  BY <1>8, FinalizeKeeps
<1>9. ASSUME NEW h \in Handlers, NEW key \in calls[h].keys, Delete1(h, key)
      PROVE  BackupInv' /\ DeletedKept
  BY <1>9, Delete1Step
<1>10. ASSUME NEW h \in Handlers, Purged(h)
       PROVE  BackupInv' /\ DeletedKept
  BY <1>10, EndStep DEF Purged
<1>11. ASSUME NEW h \in Handlers, Fail(h)
       PROVE  BackupInv' /\ DeletedKept
  BY <1>11, EndStep DEF Fail
<1>12. CASE Restart
  BY <1>12, EndStep DEF Restart
<1> QED BY <1>1, <1>2, <1>3, <1>4, <1>5, <1>6, <1>7, <1>8, <1>9, <1>10, <1>11, <1>12, Zenon DEF Next

\* The manifests, the objects and the calls fit together, whatever calls of the
\* user run beside each other, fail or are cut off by a restart.
THEOREM BackupInvariant == Spec => []BackupInv
<1>1. Init => BackupInv
  BY InitKeeps
<1>2. BackupInv /\ [Next]_vars => BackupInv'
  <2> SUFFICES ASSUME BackupInv, [Next]_vars
               PROVE  BackupInv'
    OBVIOUS
  <2>1. CASE Next
    BY <2>1, NextKeeps
  <2>2. CASE UNCHANGED vars
    <3>1. \A h \in Handlers : calls'[h] = calls[h]
      BY <2>2 DEF vars
    <3>2. UNCHANGED <<manifests, objects, calls, unsure, begun, failures>>
      BY <2>2 DEF vars
    <3>3. TypeOK /\ CallsInv
      BY DEF BackupInv, CallsInv
    <3>4. CallsInv'
      BY <3>1, <3>2, <3>3, TableStays, EndsKeep
    <3>5. /\ CallsTyped' /\ objects' \subseteq Objects
          /\ begun' \in 0..MaxCalls /\ failures' \in 0..MaxFailures
      BY <3>2, <3>3 DEF TypeOK, CallsTyped, IsWriting, At
    <3> QED BY <3>2, <3>4, <3>5, TableStays, Together
  <2> QED BY <2>1, <2>2
<1> QED BY <1>1, <1>2, PTL DEF Spec

\* What a manifest names after a write that no other call ran beside can be
\* read back: getRoomKeyBackupData finds the object.
THEOREM BackedUpSegmentsReadBack == Spec => []BackedUpIsReadable
<1>1. BackupInv => BackedUpIsReadable
  BY DEF BackupInv
<1> QED BY <1>1, BackupInvariant, PTL

\* No step of any call brings back or changes a version that was deleted.
THEOREM DeletedStaysDeleted == Spec => DeletedForGood
<1>1. BackupInv /\ [Next]_vars =>
        [\A v \in Versions : manifests[v].state = "deleted" => manifests'[v] = manifests[v]]_vars
  BY NextKeeps DEF DeletedKept
<1> QED BY <1>1, BackupInvariant, PTL DEF Spec, DeletedForGood
=============================================================================
