------------------------- MODULE UserSessionsProofs -------------------------
(***************************************************************************)
(* Proofs about UserSessions: SessionInv is inductive, and with it no      *)
(* spent token is ever accepted again and no client is stranded, for every *)
(* number of sessions, refreshes, handlers and requests.                   *)
(***************************************************************************)
EXTENDS UserSessions, TLAPS

-----------------------------------------------------------------------------
(* Rows *)

\* What the fields of a row of the sessions table are.
LEMMA RowsAreTyped ==
  ASSUME TypeOK, NEW s \in DOMAIN sessions
  PROVE  /\ sessions[s] \in SessionRows
         /\ s \in 1..Len(sessions)
         /\ sessions[s].device \in Devices /\ sessions[s].auth \in 1..MaxAuth
         /\ sessions[s].rev \in 0..MaxRevision /\ sessions[s].rev \in Nat
         /\ holds[s] \in Int /\ spent[s] \in Nat
<1>1. sessions[s] \in SessionRows /\ s \in 1..Len(sessions)
  BY DEF TypeOK
<1>2. holds[s] \in Int /\ spent[s] \in Nat
  BY <1>1 DEF TypeOK
<1>3. /\ sessions[s].device \in Devices /\ sessions[s].auth \in 1..MaxAuth
      /\ sessions[s].rev \in 0..MaxRevision
  BY <1>1 DEF SessionRows
<1> QED BY <1>1, <1>2, <1>3, BoundsAreNat

\* A step that rewrites rows, and of them only the auth_version and the
\* revocation, keeps what is known of revisions.
LEMMA RevisionsKept ==
  ASSUME SessionInv, UNCHANGED <<holds, spent>>,
         DOMAIN sessions' = DOMAIN sessions,
         \A s \in DOMAIN sessions : /\ sessions'[s].rev = sessions[s].rev
                                    /\ sessions'[s].grace = sessions[s].grace
  PROVE  SpentBehindGrace' /\ HeldWithinGrace'
BY DEF SessionInv, SpentBehindGrace, HeldWithinGrace

\* The use of an access token: the grace of its session ends.
LEMMA ResolveKeeps ==
  ASSUME SessionInv, NEW s \in DOMAIN sessions, NEW rev \in 0..holds[s],
         Resolve(s, rev), UNCHANGED <<principal, memory, devices, holds>>,
         handlers' \in [Handlers -> Working \cup {Idle}], begun' \in 0..MaxRequests
  PROVE  SessionInv'
<1> USE DEF SessionInv
<1>1. /\ sessions[s] \in SessionRows /\ holds[s] \in Int /\ spent[s] \in Nat
      /\ s \in 1..Len(sessions)
      /\ sessions \in Seq(SessionRows) /\ Len(sessions) <= MaxSessions
      /\ holds \in Seq(Int) /\ Len(holds) = Len(sessions)
      /\ spent \in Seq(Nat) /\ Len(spent) = Len(sessions)
  BY RowsAreTyped DEF TypeOK
<1>2. rev = sessions[s].rev
  BY DEF Resolve, Usable
<1>3. rev \in Nat
  BY <1>2, RowsAreTyped
<1>4. /\ sessions' = [sessions EXCEPT ![s].grace = FALSE]
      /\ spent' = [spent EXCEPT ![s] = IF rev > @ THEN rev ELSE @]
  BY DEF Resolve, Spend
<1>5. [sessions[s] EXCEPT !.grace = FALSE] \in SessionRows
  BY <1>1 DEF SessionRows
<1>6. /\ sessions' \in Seq(SessionRows) /\ Len(sessions') = Len(sessions)
      /\ DOMAIN sessions' = DOMAIN sessions
  BY <1>1, <1>4, <1>5
<1>7. /\ spent' \in Seq(Nat) /\ Len(spent') = Len(spent)
  BY <1>1, <1>3, <1>4
<1>8. \A t \in DOMAIN sessions :
        /\ t # s => sessions'[t] = sessions[t] /\ spent'[t] = spent[t]
        /\ sessions'[t].rev = sessions[t].rev
        /\ sessions'[t].revoked = sessions[t].revoked
        /\ sessions'[t].auth = sessions[t].auth
        /\ sessions'[t].device = sessions[t].device
  <2> SUFFICES ASSUME NEW t \in DOMAIN sessions
               PROVE  /\ t # s => sessions'[t] = sessions[t] /\ spent'[t] = spent[t]
                      /\ sessions'[t].rev = sessions[t].rev
                      /\ sessions'[t].revoked = sessions[t].revoked
                      /\ sessions'[t].auth = sessions[t].auth
                      /\ sessions'[t].device = sessions[t].device
    OBVIOUS
  <2>1. CASE t # s
    BY <2>1, <1>1, <1>4
  <2>2. CASE t = s
    <3>1. sessions'[s] = [sessions[s] EXCEPT !.grace = FALSE]
      BY <1>1, <1>4
    <3> QED BY <2>2, <3>1, <1>1 DEF SessionRows
  <2> QED BY <2>1, <2>2
<1>9. sessions'[s].grace = FALSE /\ spent'[s] = (IF rev > spent[s] THEN rev ELSE spent[s])
  <2>1. sessions'[s] = [sessions[s] EXCEPT !.grace = FALSE]
    BY <1>1, <1>4
  <2>2. spent'[s] = (IF rev > spent[s] THEN rev ELSE spent[s])
    BY <1>1, <1>4
  <2> QED BY <2>1, <2>2, <1>1 DEF SessionRows
<1>10. TypeOK'
  BY <1>1, <1>6, <1>7 DEF TypeOK
<1>11. SessionsInStep' /\ DeactivationIsFinal' /\ NameTaken'
  BY <1>6, <1>8 DEF SessionsInStep, DeactivationIsFinal, NameTaken
<1>12. SpentBehindGrace'
  <2> SUFFICES ASSUME NEW t \in DOMAIN sessions
               PROVE  /\ spent'[t] <= sessions'[t].rev
                      /\ sessions'[t].grace => spent'[t] < sessions'[t].rev
    BY <1>6 DEF SpentBehindGrace
  <2>1. CASE t = s
    BY <2>1, <1>1, <1>2, <1>3, <1>8, <1>9 DEF SpentBehindGrace
  <2>2. CASE t # s
    BY <2>2, <1>8 DEF SpentBehindGrace
  <2> QED BY <2>1, <2>2
<1>13. HeldWithinGrace'
  <2> SUFFICES ASSUME NEW t \in DOMAIN sessions, holds[t] # Nothing
               PROVE  /\ holds[t] \in Nat
                      /\ \/ holds[t] = sessions'[t].rev
                         \/ sessions'[t].grace /\ holds[t] + 1 = sessions'[t].rev
    BY <1>6 DEF HeldWithinGrace
  <2>1. CASE t = s
    <3>1. holds[s] = sessions[s].rev
      <4>1. holds[s] = sessions[s].rev \/ holds[s] + 1 = sessions[s].rev
        BY <2>1 DEF HeldWithinGrace
      <4> QED BY <4>1, <1>1, <1>2, <1>3
    <3> QED BY <2>1, <3>1, <1>2, <1>3, <1>8
  <2>2. CASE t # s
    BY <2>2, <1>8 DEF HeldWithinGrace
  <2> QED BY <2>1, <2>2
<1> QED BY <1>10, <1>11, <1>12, <1>13

-----------------------------------------------------------------------------
(* Steps of one call *)

\* The initial state.
LEMMA InitKeeps == Init => SessionInv
<1> SUFFICES ASSUME Init PROVE SessionInv
  OBVIOUS
<1>1. TypeOK
  BY BoundsAreNat DEF Init, TypeOK, None
<1>2. SessionsInStep /\ DeactivationIsFinal /\ NameTaken
  BY DEF Init, SessionsInStep, DeactivationIsFinal, NameTaken
<1>3. SpentBehindGrace /\ HeldWithinGrace
  BY DEF Init, SpentBehindGrace, HeldWithinGrace
<1> QED BY <1>1, <1>2, <1>3 DEF SessionInv

\* A registration makes the account and its first session.
LEMMA RegisterKeeps ==
  ASSUME SessionInv, NEW answered \in BOOLEAN, Register(answered)
  PROVE  SessionInv'
<1> DEFINE row == [device |-> FirstDevice, rev |-> 0, grace |-> FALSE, auth |-> 1,
                   revoked |-> FALSE, life |-> "fresh"]
<1>1. /\ sessions' = <<row>>
      /\ holds' = <<IF answered THEN 0 ELSE -1>> /\ spent' = <<0>>
      /\ principal' = [password |-> FirstPassword, auth |-> 1, deactivated |-> FALSE]
      /\ devices' = [devices EXCEPT ![FirstDevice] = "live"]
      /\ UNCHANGED <<memory, handlers, begun>>
  BY DEF Register, NewSession, Nothing, gateway
<1>2. TypeOK /\ principal.auth = 0 /\ ~principal.deactivated
  BY DEF SessionInv, NameTaken, Register
<1>3. row \in SessionRows
  BY FirstsExist, BoundsAreNat DEF SessionRows
<1>4. /\ principal'.password = FirstPassword /\ principal'.auth = 1 /\ ~principal'.deactivated
      /\ principal' \in [password : Passwords \cup {NoPassword}, auth : 0..MaxAuth,
                    deactivated : BOOLEAN]
  BY <1>1, FirstsExist, BoundsAreNat
<1>5. /\ devices'[FirstDevice] = "live"
      /\ devices' \in [Devices -> {"absent", "live", "deleted"}]
  BY <1>1, <1>2, FirstsExist DEF TypeOK
<1>6. /\ sessions' \in Seq(SessionRows) /\ Len(sessions') = 1 /\ sessions'[1] = row
      /\ DOMAIN sessions' = {1}
  BY <1>1, <1>3
<1>7. /\ holds' \in Seq(Int) /\ Len(holds') = 1 /\ holds'[1] = (IF answered THEN 0 ELSE -1)
      /\ spent' \in Seq(Nat) /\ Len(spent') = 1 /\ spent'[1] = 0
  BY <1>1
<1> HIDE DEF row
<1>8. TypeOK'
  BY <1>1, <1>2, <1>4, <1>5, <1>6, <1>7, BoundsAreNat DEF TypeOK
<1> USE DEF row
<1>9. SessionsInStep' /\ DeactivationIsFinal' /\ NameTaken'
  BY <1>4, <1>5, <1>6 DEF SessionsInStep, DeactivationIsFinal, NameTaken
<1>10. SpentBehindGrace' /\ HeldWithinGrace'
  BY <1>6, <1>7 DEF SpentBehindGrace, HeldWithinGrace, Nothing
<1> QED BY <1>8, <1>9, <1>10 DEF SessionInv

\* The repeated registration answers with the current tokens.
LEMMA RegisterAgainKeeps ==
  ASSUME SessionInv, RegisterAgain
  PROVE  SessionInv'
<1>1. /\ UNCHANGED <<principal, memory, devices, sessions, handlers, begun, spent>>
      /\ holds' = [holds EXCEPT ![1] = sessions[1].rev]
  BY DEF RegisterAgain, account, gateway
<1>2. TypeOK
  BY DEF SessionInv
<1>3. \A s \in DOMAIN sessions : sessions[s] \in SessionRows
  BY <1>2 DEF TypeOK
<1>4. CASE 1 \in DOMAIN sessions
  <2>1. sessions[1].rev \in Nat
    BY <1>2, <1>4, RowsAreTyped
  <2>2. holds' \in Seq(Int) /\ Len(holds') = Len(holds)
    <3>1. holds \in Seq(Int) /\ 1 \in DOMAIN holds
      BY <1>2, <1>4 DEF TypeOK
    <3>2. sessions[1].rev \in Int
      BY <2>1
    <3> QED BY <3>1, <3>2, <1>1
  <2>3. /\ holds'[1] = sessions[1].rev
        /\ \A s \in DOMAIN sessions \ {1} : holds'[s] = holds[s]
    BY <1>1, <1>2, <1>4 DEF TypeOK
  <2>4. TypeOK'
    BY <1>1, <1>2, <2>2 DEF TypeOK
  <2>5. SessionsInStep' /\ DeactivationIsFinal' /\ NameTaken' /\ SpentBehindGrace'
    BY <1>1 DEF SessionInv, SessionsInStep, DeactivationIsFinal, NameTaken, SpentBehindGrace
  <2>6. HeldWithinGrace'
    BY <1>1, <2>1, <2>3 DEF SessionInv, HeldWithinGrace
  <2> QED BY <2>4, <2>5, <2>6 DEF SessionInv
<1>5. CASE 1 \notin DOMAIN sessions
  <2>1. UNCHANGED holds
    BY <1>1, <1>2, <1>5 DEF TypeOK
  <2> QED
    BY <1>1, <2>1 DEF SessionInv, TypeOK, SessionsInStep, DeactivationIsFinal, NameTaken,
                      SpentBehindGrace, HeldWithinGrace
<1> QED BY <1>4, <1>5

\* A login adds a session on a device that is then live.
LEMMA LoginKeeps ==
  ASSUME SessionInv, NEW d \in Devices, NEW p \in Passwords, Login(d, p)
  PROVE  SessionInv'
<1> DEFINE row == [device |-> d, rev |-> 0, grace |-> FALSE, auth |-> principal.auth,
                   revoked |-> FALSE, life |-> "fresh"]
           new == Len(sessions) + 1
<1>1. /\ sessions' = Append(sessions, row)
      /\ holds' = Append(holds, 0) /\ spent' = Append(spent, 0)
      /\ devices' = [devices EXCEPT ![d] = "live"]
      /\ UNCHANGED <<principal, memory, handlers, begun>>
      /\ ~principal.deactivated /\ Len(sessions) < MaxSessions
  BY DEF Login, NewSession, gateway
<1>2. TypeOK
  BY DEF SessionInv
<1>3. principal.auth \in 1..MaxAuth
  <2>1. principal.password # NoPassword
    BY NotAPassword DEF Login
  <2>2. principal.auth \in 0..MaxAuth /\ principal.auth > 0
    BY <2>1, <1>2 DEF SessionInv, NameTaken, TypeOK
  <2> QED BY <2>2, BoundsAreNat
<1>4. row \in SessionRows
  BY <1>3, BoundsAreNat DEF SessionRows
<1>5. /\ sessions \in Seq(SessionRows) /\ holds \in Seq(Int) /\ spent \in Seq(Nat)
      /\ Len(holds) = Len(sessions) /\ Len(spent) = Len(sessions)
  BY <1>2 DEF TypeOK
<1>6. /\ sessions' \in Seq(SessionRows) /\ Len(sessions') = new /\ sessions'[new] = row
      /\ \A s \in DOMAIN sessions : sessions'[s] = sessions[s]
      /\ DOMAIN sessions' = DOMAIN sessions \cup {new}
  <2> HIDE DEF row
  <2> QED BY <1>1, <1>4, <1>5
<1>7. /\ holds' \in Seq(Int) /\ Len(holds') = new /\ holds'[new] = 0
      /\ spent' \in Seq(Nat) /\ Len(spent') = new /\ spent'[new] = 0
      /\ \A s \in DOMAIN sessions : holds'[s] = holds[s] /\ spent'[s] = spent[s]
  BY <1>1, <1>5
<1>8. /\ devices' \in [Devices -> {"absent", "live", "deleted"}]
      /\ devices'[d] = "live"
      /\ \A e \in Devices : devices[e] = "live" => devices'[e] = "live"
  BY <1>1, <1>2 DEF TypeOK
<1>9. Len(sessions') <= MaxSessions
  BY <1>1, <1>5, <1>6, BoundsAreNat
<1>10. \A s \in DOMAIN sessions : sessions[s].device \in Devices
  BY <1>2, RowsAreTyped
<1> HIDE DEF new
<1>11. TypeOK'
  BY <1>1, <1>2, <1>6, <1>7, <1>8, <1>9 DEF TypeOK
<1>12. SessionsInStep'
  BY <1>1, <1>6, <1>8, <1>10 DEF SessionInv, SessionsInStep
<1>13. DeactivationIsFinal' /\ NameTaken'
  BY <1>1 DEF SessionInv, DeactivationIsFinal, NameTaken
<1>14. SpentBehindGrace' /\ HeldWithinGrace'
  BY <1>6, <1>7 DEF SessionInv, SpentBehindGrace, HeldWithinGrace
<1> QED BY <1>11, <1>12, <1>13, <1>14 DEF SessionInv

\* A refresh rotates the session, or repeats the tokens of the last rotation.
LEMMA RefreshKeeps ==
  ASSUME SessionInv, NEW s \in DOMAIN sessions, NEW rev \in 0..holds[s],
         NEW answered \in BOOLEAN, RefreshSession(s, rev, answered)
  PROVE  SessionInv'
<1> DEFINE next == IF rev = sessions[s].rev THEN Rotated(s) ELSE sessions[s]
<1>1. /\ sessions' = [sessions EXCEPT ![s] = next]
      /\ holds' = IF answered THEN [holds EXCEPT ![s] = next.rev] ELSE holds
      /\ spent' = [spent EXCEPT ![s] = IF rev > @ THEN rev ELSE @]
      /\ next.rev <= MaxRevision
      /\ UNCHANGED <<principal, memory, devices, handlers, begun>>
  BY DEF RefreshSession, Spend, gateway
<1>2. TypeOK /\ SpentBehindGrace /\ HeldWithinGrace
  BY DEF SessionInv
<1>3. /\ sessions[s] \in SessionRows /\ sessions[s].rev \in Nat
      /\ holds[s] \in Int /\ spent[s] \in Nat /\ s \in 1..Len(sessions)
  BY <1>2, RowsAreTyped
<1>4. /\ sessions \in Seq(SessionRows) /\ Len(sessions) <= MaxSessions
      /\ holds \in Seq(Int) /\ Len(holds) = Len(sessions)
      /\ spent \in Seq(Nat) /\ Len(spent) = Len(sessions)
  BY <1>2 DEF TypeOK
<1>5. rev = sessions[s].rev \/ (sessions[s].grace /\ sessions[s].rev = rev + 1)
  BY DEF RefreshSession, Refreshable
<1>6. rev \in Nat /\ rev <= holds[s]
  BY <1>3
<1>7. \/ /\ rev = sessions[s].rev /\ next.rev = rev + 1 /\ next.grace = TRUE
         /\ holds[s] = rev
      \/ /\ rev + 1 = sessions[s].rev /\ next.rev = rev + 1 /\ next.grace = TRUE
         /\ holds[s] \in {rev, rev + 1}
  <2>1. holds[s] = sessions[s].rev \/ holds[s] + 1 = sessions[s].rev
    BY <1>2, <1>6, <1>3 DEF HeldWithinGrace, Nothing
  <2>2. CASE rev = sessions[s].rev
    <3>1. next = [sessions[s] EXCEPT !.rev = @ + 1, !.grace = TRUE, !.life = "fresh"]
      BY <2>2 DEF Rotated
    <3>2. next.rev = sessions[s].rev + 1 /\ next.grace = TRUE
      BY <3>1, <1>3, Zenon DEF SessionRows
    <3> QED BY <2>1, <2>2, <3>2, <1>3, <1>6
  <2>3. CASE rev # sessions[s].rev
    <3>1. next = sessions[s] /\ sessions[s].grace /\ sessions[s].rev = rev + 1
      BY <2>3, <1>5
    <3>2. sessions[s].grace = TRUE
      BY <3>1, <1>3 DEF SessionRows
    <3> QED BY <2>1, <3>1, <3>2, <1>3, <1>6
  <2> QED BY <2>2, <2>3
<1>8. /\ next.device = sessions[s].device /\ next.auth = sessions[s].auth
      /\ next.revoked = sessions[s].revoked
      /\ next \in SessionRows
  <2>0. MaxRevision \in Nat
    BY BoundsAreNat
  <2>1. CASE rev = sessions[s].rev
    <3>1. next = [sessions[s] EXCEPT !.rev = @ + 1, !.grace = TRUE, !.life = "fresh"]
      BY <2>1 DEF Rotated
    <3>2. sessions[s].rev + 1 \in 0..MaxRevision
      BY <2>0, <2>1, <1>1, <1>3, <1>6, <1>7
    <3> QED BY <3>1, <3>2, <1>3, Zenon DEF SessionRows
  <2>2. CASE rev # sessions[s].rev
    BY <2>2, <1>3
  <2> QED BY <2>1, <2>2
<1> HIDE DEF next
<1>9. /\ sessions' \in Seq(SessionRows) /\ Len(sessions') = Len(sessions)
      /\ DOMAIN sessions' = DOMAIN sessions /\ sessions'[s] = next
      /\ \A t \in DOMAIN sessions : t # s => sessions'[t] = sessions[t]
  BY <1>1, <1>4, <1>8
<1>10. next.rev \in Nat
  BY <1>6, <1>7
<1>11. /\ spent' \in Seq(Nat) /\ Len(spent') = Len(spent)
       /\ spent'[s] = IF rev > spent[s] THEN rev ELSE spent[s]
       /\ \A t \in DOMAIN sessions : t # s => spent'[t] = spent[t]
  BY <1>1, <1>3, <1>4, <1>6
<1>12. /\ holds' \in Seq(Int) /\ Len(holds') = Len(holds)
       /\ holds'[s] = IF answered THEN next.rev ELSE holds[s]
       /\ \A t \in DOMAIN sessions : t # s => holds'[t] = holds[t]
  BY <1>1, <1>3, <1>4, <1>10
<1>13. TypeOK'
  BY <1>1, <1>2, <1>4, <1>9, <1>11, <1>12 DEF TypeOK
<1>14. SessionsInStep' /\ DeactivationIsFinal' /\ NameTaken'
  <2>1. \A t \in DOMAIN sessions : /\ sessions'[t].device = sessions[t].device
                                   /\ sessions'[t].auth = sessions[t].auth
                                   /\ sessions'[t].revoked = sessions[t].revoked
    BY <1>8, <1>9
  <2> QED
    BY <2>1, <1>1, <1>9 DEF SessionInv, SessionsInStep, DeactivationIsFinal, NameTaken
<1>15. SpentBehindGrace'
  <2> SUFFICES ASSUME NEW t \in DOMAIN sessions
               PROVE  /\ spent'[t] <= sessions'[t].rev
                      /\ sessions'[t].grace => spent'[t] < sessions'[t].rev
    BY <1>9 DEF SpentBehindGrace
  <2>1. CASE t = s
    <3>1. /\ spent[s] <= sessions[s].rev
          /\ sessions[s].grace => spent[s] < sessions[s].rev
      BY <1>2 DEF SpentBehindGrace
    <3>2. spent[s] <= rev
      BY <3>1, <1>3, <1>5, <1>6
    <3> QED BY <2>1, <3>2, <1>3, <1>6, <1>7, <1>9, <1>11
  <2>2. CASE t # s
    BY <2>2, <1>2, <1>9, <1>11 DEF SpentBehindGrace
  <2> QED BY <2>1, <2>2
<1>16. HeldWithinGrace'
  <2> SUFFICES ASSUME NEW t \in DOMAIN sessions, holds'[t] # Nothing
               PROVE  /\ holds'[t] \in Nat
                      /\ \/ holds'[t] = sessions'[t].rev
                         \/ sessions'[t].grace /\ holds'[t] + 1 = sessions'[t].rev
    BY <1>9 DEF HeldWithinGrace
  <2>1. CASE t = s
    BY <2>1, <1>3, <1>6, <1>7, <1>9, <1>10, <1>12
  <2>2. CASE t # s
    BY <2>2, <1>2, <1>9, <1>12 DEF HeldWithinGrace
  <2> QED BY <2>1, <2>2
<1> QED BY <1>13, <1>14, <1>15, <1>16 DEF SessionInv

\* Time passes.
LEMMA ExpireKeeps ==
  ASSUME SessionInv, NEW s \in DOMAIN sessions, Expire(s)
  PROVE  SessionInv'
<1> DEFINE late == IF sessions[s].life = "fresh" THEN "access expired" ELSE "dead"
           row == [sessions[s] EXCEPT !.life = late]
<1>1. /\ sessions' = [sessions EXCEPT ![s].life = late]
      /\ UNCHANGED <<principal, memory, devices, handlers, begun, holds, spent>>
  BY DEF Expire, gateway, history
<1>2. TypeOK
  BY DEF SessionInv
<1>3. sessions[s] \in SessionRows /\ s \in 1..Len(sessions) /\ sessions \in Seq(SessionRows)
  BY <1>2, RowsAreTyped DEF TypeOK
<1>4. /\ row \in SessionRows /\ row.device = sessions[s].device
      /\ row.auth = sessions[s].auth /\ row.revoked = sessions[s].revoked
      /\ row.rev = sessions[s].rev /\ row.grace = sessions[s].grace
  BY <1>3 DEF SessionRows
<1>5. sessions' = [sessions EXCEPT ![s] = row]
  BY <1>1
<1> HIDE DEF row
<1>6. /\ sessions' \in Seq(SessionRows) /\ Len(sessions') = Len(sessions)
      /\ DOMAIN sessions' = DOMAIN sessions /\ sessions'[s] = row
      /\ \A t \in DOMAIN sessions : t # s => sessions'[t] = sessions[t]
  BY <1>3, <1>4, <1>5
<1>7. \A t \in DOMAIN sessions : /\ sessions'[t].device = sessions[t].device
                                 /\ sessions'[t].auth = sessions[t].auth
                                 /\ sessions'[t].revoked = sessions[t].revoked
                                 /\ sessions'[t].rev = sessions[t].rev
                                 /\ sessions'[t].grace = sessions[t].grace
  BY <1>4, <1>6
<1>8. TypeOK'
  BY <1>1, <1>2, <1>6 DEF TypeOK
<1>9. SessionsInStep' /\ DeactivationIsFinal' /\ NameTaken'
  <2>1. UNCHANGED <<principal, devices>>
    BY <1>1
  <2>2. SessionsInStep'
    BY <2>1, <1>6, <1>7 DEF SessionInv, SessionsInStep
  <2> QED BY <2>1, <2>2, <1>6, <1>7 DEF SessionInv, DeactivationIsFinal, NameTaken
<1> QED BY <1>1, <1>6, <1>7, <1>8, <1>9, RevisionsKept DEF SessionInv

-----------------------------------------------------------------------------
(* Requests of several calls *)

\* A step that only moves handlers.
LEMMA MovesKeep ==
  ASSUME SessionInv, UNCHANGED <<principal, memory, devices, sessions, holds, spent>>,
         handlers' \in [Handlers -> Working \cup {Idle}], begun' \in 0..MaxRequests
  PROVE  SessionInv'
BY DEF SessionInv, TypeOK, SessionsInStep, DeactivationIsFinal, NameTaken, SpentBehindGrace,
       HeldWithinGrace

\* A handler that ends is idle again.
LEMMA FinishIsTyped ==
  ASSUME TypeOK, NEW h \in Handlers, Finish(h)
  PROVE  handlers' \in [Handlers -> Working \cup {Idle}] /\ begun' \in 0..MaxRequests
BY DEF TypeOK, Finish

\* One more request is begun.
LEMMA OneMoreBegun ==
  ASSUME TypeOK, begun < MaxRequests, begun' = begun + 1
  PROVE  begun' \in 0..MaxRequests
BY BoundsAreNat DEF TypeOK

\* The first call of a request.
LEMMA BeginKeeps ==
  ASSUME SessionInv, NEW h \in Handlers, NEW req \in UiaRequests \cup Logouts,
         NEW s \in DOMAIN sessions, NEW offered \in Passwords \cup {NoPassword},
         Begin(h, req, s, holds[s], offered)
  PROVE  SessionInv'
<1> DEFINE work == [pc |-> IF req \in UiaRequests THEN "check" ELSE "commit",
                    req |-> req, via |-> Via(req, s), offered |-> offered]
<1>1. TypeOK
  BY DEF SessionInv
<1>2. s \in Nat /\ holds[s] \in Int /\ sessions[s].rev \in Nat
  BY <1>1, RowsAreTyped
<1>3. work \in Working
  <2>1. Via(req, s) \in Nat
    BY <1>2 DEF Via, NoSession
  <2> QED BY <2>1 DEF Working
<1>4. handlers' = [handlers EXCEPT ![h] = work] /\ begun < MaxRequests /\ begun' = begun + 1
  BY DEF Begin
<1> HIDE DEF work
<1>5. handlers' \in [Handlers -> Working \cup {Idle}] /\ begun' \in 0..MaxRequests
  <2>1. handlers \in [Handlers -> Working \cup {Idle}]
    BY <1>1 DEF TypeOK
  <2> QED BY <2>1, <1>1, <1>3, <1>4, OneMoreBegun
<1>6. Resolve(s, holds[s]) /\ UNCHANGED <<principal, memory, devices, holds>>
  BY DEF Begin
<1>7. holds[s] \in 0..holds[s]
  <2>1. holds[s] = sessions[s].rev
    BY <1>6 DEF Resolve, Usable
  <2> QED BY <2>1, <1>2
<1> QED BY <1>5, <1>6, <1>7, ResolveKeeps

\* A request that names its user in the UIA stage.
LEMMA BeginWithoutSessionKeeps ==
  ASSUME SessionInv, NEW h \in Handlers, NEW req \in UiaRequests,
         NEW offered \in Passwords, BeginWithoutSession(h, req, offered)
  PROVE  SessionInv'
<1> DEFINE work == [pc |-> "check", req |-> req, via |-> NoSession, offered |-> offered]
<1>1. TypeOK
  BY DEF SessionInv
<1>2. work \in Working
  BY DEF Working, NoSession
<1>3. /\ handlers' = [handlers EXCEPT ![h] = work] /\ begun < MaxRequests /\ begun' = begun + 1
      /\ UNCHANGED <<principal, memory, devices, sessions, holds, spent>>
  BY DEF BeginWithoutSession, account, history
<1> HIDE DEF work
<1>4. handlers' \in [Handlers -> Working \cup {Idle}]
  BY <1>1, <1>2, <1>3 DEF TypeOK
<1> QED BY <1>1, <1>3, <1>4, OneMoreBegun, MovesKeep

\* The calls that check the memory and the password.
LEMMA CheckKeeps ==
  ASSUME SessionInv, NEW h \in Handlers, Check(h)
  PROVE  SessionInv'
<1>1. TypeOK
  BY DEF SessionInv
<1>2. UNCHANGED <<principal, memory, devices, sessions, holds, spent>>
  BY DEF Check, account, history
<1>3. handlers[h] \in Working
  BY <1>1 DEF Check, At, TypeOK, Idle
<1>4. CASE Finish(h)
  BY <1>1, <1>2, <1>4, FinishIsTyped, MovesKeep
<1>5. CASE /\ handlers' = [handlers EXCEPT ![h].pc = "commit", ![h].offered = NoPassword]
           /\ UNCHANGED begun
  <2> DEFINE work == [handlers[h] EXCEPT !.pc = "commit", !.offered = NoPassword]
  <2>1. work \in Working
    BY <1>3, Zenon DEF Working
  <2>2. handlers' = [handlers EXCEPT ![h] = work]
    BY <1>5, <1>1, Zenon DEF TypeOK
  <2> HIDE DEF work
  <2>3. handlers' \in [Handlers -> Working \cup {Idle}]
    BY <1>1, <2>1, <2>2 DEF TypeOK
  <2>4. begun' \in 0..MaxRequests
    <3>1. UNCHANGED begun
      BY <1>5
    <3> QED BY <3>1, <1>1 DEF TypeOK
  <2> QED BY <2>3, <2>4, <1>2, MovesKeep
<1> QED BY <1>4, <1>5 DEF Check

\* A handler that gives up.
LEMMA GiveUpKeeps ==
  ASSUME SessionInv, NEW h \in Handlers, GiveUp(h)
  PROVE  SessionInv'
<1>1. UNCHANGED <<principal, memory, devices, sessions, holds, spent>> /\ Finish(h)
  BY DEF GiveUp, account, history
<1> QED BY <1>1, FinishIsTyped, MovesKeep DEF SessionInv

\* What a handler that is about to commit carries.
LEMMA CommitsCarry ==
  ASSUME TypeOK, NEW h \in Handlers, At(h, "commit")
  PROVE  handlers[h] \in Working /\ handlers[h].req \in UiaRequests \cup Logouts
<1>1. handlers[h] \in Working
  BY DEF TypeOK, At, Idle
<1> QED BY <1>1 DEF Working

\* The request of a committing handler is of the kind it commits as.
LEMMA CommitsAsKind ==
  ASSUME TypeOK, NEW h \in Handlers, NEW kind, Commits(h, kind)
  PROVE  /\ kind = "password" => handlers[h].req \in PasswordChanges
         /\ kind = "delete" => handlers[h].req \in Deletions
         /\ kind = "deactivate" => handlers[h].req \in Deactivations
<1> DEFINE req == handlers[h].req
<1>1. req \in UiaRequests \cup Logouts /\ req.kind = kind
  BY CommitsCarry DEF Commits
<1>2. /\ req \in PasswordChanges => kind = "password"
      /\ req \in Deletions => kind = "delete"
      /\ req \in Deactivations => kind = "deactivate"
      /\ req \in Logouts => kind \in {"logout", "logoutAll"}
  BY <1>1 DEF PasswordChanges, Deletions, Deactivations, Logouts
<1> QED BY <1>1, <1>2 DEF UiaRequests

\* The replay memory holds a request that was committed.
LEMMA RememberIsTyped ==
  ASSUME TypeOK, NEW h \in Handlers, NEW kind, Commits(h, kind), Remember(h),
         kind \in {"password", "delete", "deactivate"}
  PROVE  memory' \in [{"password", "delete", "deactivate"} -> UiaRequests \cup {None}]
<1>1. handlers[h].req \in UiaRequests
  BY CommitsAsKind DEF UiaRequests
<1>2. memory' = [memory EXCEPT ![kind] = handlers[h].req]
  BY DEF Remember, Commits
<1> QED BY <1>1, <1>2 DEF TypeOK

\* A commit that rewrites the sessions table row by row.  It may give a row
\* another auth_version and revoke it; what is left active is in step with the
\* account and on a live device.
LEMMA RewriteKeeps ==
  ASSUME SessionInv, UNCHANGED <<holds, spent>>, NameTaken', DeactivationIsFinal',
         principal' \in [password : Passwords \cup {NoPassword}, auth : 0..MaxAuth,
                         deactivated : BOOLEAN],
         memory' \in [{"password", "delete", "deactivate"} -> UiaRequests \cup {None}],
         devices' \in [Devices -> {"absent", "live", "deleted"}],
         handlers' \in [Handlers -> Working \cup {Idle}], begun' \in 0..MaxRequests,
         NEW rows, sessions' = [s \in DOMAIN sessions |-> rows[s]],
         \A s \in DOMAIN sessions :
           /\ rows[s] \in SessionRows
           /\ rows[s].rev = sessions[s].rev /\ rows[s].grace = sessions[s].grace
           /\ ~rows[s].revoked => /\ devices'[rows[s].device] = "live"
                                 /\ rows[s].auth = principal'.auth
  PROVE  SessionInv'
<1>1. TypeOK
  BY DEF SessionInv
<1>2. sessions \in Seq(SessionRows) /\ Len(sessions) <= MaxSessions
  BY <1>1 DEF TypeOK
<1>3. /\ sessions' \in Seq(SessionRows) /\ Len(sessions') = Len(sessions)
      /\ DOMAIN sessions' = DOMAIN sessions
  BY <1>2
<1>4. \A s \in DOMAIN sessions : sessions'[s] = rows[s]
  OBVIOUS
<1>5. TypeOK'
  BY <1>1, <1>2, <1>3 DEF TypeOK
<1>6. SessionsInStep'
  BY <1>3, <1>4 DEF SessionsInStep
<1>7. SpentBehindGrace' /\ HeldWithinGrace'
  BY <1>3, <1>4, RevisionsKept
<1> QED BY <1>5, <1>6, <1>7 DEF SessionInv

\* The commit of a password change.
LEMMA ChangePasswordKeeps ==
  ASSUME SessionInv, NEW h \in Handlers, ChangePassword(h)
  PROVE  SessionInv'
<1> DEFINE req == handlers[h].req
           auth == principal.auth + 1
           Row(s) == AfterPasswordChange(s, handlers[h].via, req.arg.logout, auth)
           rows == [s \in DOMAIN sessions |-> Row(s)]
<1>1. /\ principal' = [password |-> req.arg.to, auth |-> auth, deactivated |-> FALSE]
      /\ auth <= MaxAuth /\ Commits(h, "password") /\ Remember(h) /\ Finish(h)
      /\ sessions' = rows
      /\ UNCHANGED <<devices, holds, spent>>
  BY DEF ChangePassword
<1>2. TypeOK
  BY DEF SessionInv
<1>3. req.arg.to \in Passwords /\ req.arg.logout \in BOOLEAN
  BY <1>1, <1>2, CommitsAsKind DEF PasswordChanges
<1>4. principal.auth \in 0..MaxAuth
  BY <1>2 DEF TypeOK
<1>5. auth \in 1..MaxAuth
  BY <1>1, <1>4, BoundsAreNat
<1> HIDE DEF auth
<1>6. /\ principal'.auth = auth /\ principal'.password \in Passwords /\ ~principal'.deactivated
      /\ principal' \in [password : Passwords \cup {NoPassword}, auth : 0..MaxAuth,
                         deactivated : BOOLEAN]
  BY <1>1, <1>3, <1>5
<1>7. NameTaken' /\ DeactivationIsFinal'
  BY <1>5, <1>6 DEF NameTaken, DeactivationIsFinal
<1>8. \A s \in DOMAIN sessions :
        /\ rows[s] \in SessionRows
        /\ rows[s].rev = sessions[s].rev /\ rows[s].grace = sessions[s].grace
        /\ ~rows[s].revoked => /\ devices'[rows[s].device] = "live"
                              /\ rows[s].auth = principal'.auth
  <2> SUFFICES ASSUME NEW s \in DOMAIN sessions
               PROVE  /\ Row(s) \in SessionRows
                      /\ Row(s).rev = sessions[s].rev /\ Row(s).grace = sessions[s].grace
                      /\ ~Row(s).revoked => /\ devices'[Row(s).device] = "live"
                                           /\ Row(s).auth = principal'.auth
    OBVIOUS
  <2>1. sessions[s] \in SessionRows
    BY <1>2, RowsAreTyped
  <2>2. CASE sessions[s].revoked
    <3>1. Row(s) = sessions[s]
      BY <2>2 DEF AfterPasswordChange
    <3> QED BY <2>1, <2>2, <3>1
  <2>3. CASE ~sessions[s].revoked
    <3> DEFINE out == req.arg.logout /\ s # handlers[h].via
    <3>1. Row(s) = [sessions[s] EXCEPT !.auth = auth, !.revoked = out]
      BY <2>3 DEF AfterPasswordChange
    <3>2. out \in BOOLEAN
      OBVIOUS
    <3> HIDE DEF out
    <3>3. /\ Row(s) \in SessionRows /\ Row(s).rev = sessions[s].rev
          /\ Row(s).grace = sessions[s].grace /\ Row(s).device = sessions[s].device
          /\ Row(s).auth = auth
      BY <1>5, <2>1, <3>1, <3>2, Zenon DEF SessionRows
    <3>4. devices[sessions[s].device] = "live"
      BY <2>3 DEF SessionInv, SessionsInStep
    <3> QED BY <1>1, <1>6, <3>3, <3>4
  <2> QED BY <2>2, <2>3
<1>9. sessions' = [s \in DOMAIN sessions |-> rows[s]]
  BY <1>1
<1> HIDE DEF rows
<1>10. devices' \in [Devices -> {"absent", "live", "deleted"}]
  BY <1>1, <1>2 DEF TypeOK
<1>11. /\ memory' \in [{"password", "delete", "deactivate"} -> UiaRequests \cup {None}]
       /\ handlers' \in [Handlers -> Working \cup {Idle}] /\ begun' \in 0..MaxRequests
  BY <1>1, <1>2, FinishIsTyped, RememberIsTyped
<1> QED BY <1>1, <1>6, <1>7, <1>8, <1>9, <1>10, <1>11, RewriteKeeps

\* The commit of a deactivation.
LEMMA DeactivateAccountKeeps ==
  ASSUME SessionInv, NEW h \in Handlers, DeactivateAccount(h)
  PROVE  SessionInv'
<1> DEFINE auth == principal.auth + 1
           Row(s) == IF sessions[s].revoked THEN sessions[s]
                     ELSE [sessions[s] EXCEPT !.auth = auth, !.revoked = TRUE]
           rows == [s \in DOMAIN sessions |-> Row(s)]
<1>1. /\ principal' = [password |-> NoPassword, auth |-> auth, deactivated |-> TRUE]
      /\ auth <= MaxAuth /\ Commits(h, "deactivate") /\ Remember(h) /\ Finish(h)
      /\ UNCHANGED <<devices, holds, spent>>
  BY DEF DeactivateAccount
<1>0. sessions' = rows
  BY DEF DeactivateAccount
<1>2. TypeOK
  BY DEF SessionInv
<1>3. principal.auth \in 0..MaxAuth
  BY <1>2 DEF TypeOK
<1>4. auth \in 1..MaxAuth
  BY <1>1, <1>3, BoundsAreNat
<1> HIDE DEF auth
<1>5. /\ principal'.auth = auth /\ principal'.password = NoPassword /\ principal'.deactivated
      /\ principal' \in [password : Passwords \cup {NoPassword}, auth : 0..MaxAuth,
                         deactivated : BOOLEAN]
  BY <1>1, <1>4
<1>6. \A s \in DOMAIN sessions :
        /\ rows[s] \in SessionRows
        /\ rows[s].rev = sessions[s].rev /\ rows[s].grace = sessions[s].grace
        /\ rows[s].revoked
  <2> SUFFICES ASSUME NEW s \in DOMAIN sessions
               PROVE  /\ Row(s) \in SessionRows
                      /\ Row(s).rev = sessions[s].rev /\ Row(s).grace = sessions[s].grace
                      /\ Row(s).revoked
    OBVIOUS
  <2>1. sessions[s] \in SessionRows
    BY <1>2, RowsAreTyped
  <2>2. CASE sessions[s].revoked
    BY <2>1, <2>2
  <2>3. CASE ~sessions[s].revoked
    <3>1. Row(s) = [sessions[s] EXCEPT !.auth = auth, !.revoked = TRUE]
      BY <2>3
    <3> HIDE DEF Row
    <3> QED BY <1>4, <2>1, <3>1, Zenon DEF SessionRows
  <2> QED BY <2>2, <2>3
<1>7. sessions' = [s \in DOMAIN sessions |-> rows[s]]
  BY <1>0
<1> HIDE DEF rows
<1>8. NameTaken' /\ DeactivationIsFinal'
  BY <1>4, <1>5, <1>6, <1>7 DEF NameTaken, DeactivationIsFinal
<1>9. devices' \in [Devices -> {"absent", "live", "deleted"}]
  BY <1>1, <1>2 DEF TypeOK
<1>10. /\ memory' \in [{"password", "delete", "deactivate"} -> UiaRequests \cup {None}]
       /\ handlers' \in [Handlers -> Working \cup {Idle}] /\ begun' \in 0..MaxRequests
  BY <1>1, <1>2, FinishIsTyped, RememberIsTyped
<1> QED BY <1>1, <1>5, <1>6, <1>7, <1>8, <1>9, <1>10, RewriteKeeps

\* The commit of a deletion of devices.
LEMMA DeleteDevicesKeeps ==
  ASSUME SessionInv, NEW h \in Handlers, DeleteDevices(h)
  PROVE  SessionInv'
<1> DEFINE gone == handlers[h].req.arg
           Row(s) == IF sessions[s].device \in gone THEN [sessions[s] EXCEPT !.revoked = TRUE]
                     ELSE sessions[s]
           rows == [s \in DOMAIN sessions |-> Row(s)]
<1>1. /\ Commits(h, "delete") /\ Remember(h) /\ Finish(h)
      /\ devices' = [d \in Devices |-> IF d \in gone /\ devices[d] = "live" THEN "deleted"
                                      ELSE devices[d]]
      /\ sessions' = rows
      /\ UNCHANGED <<principal, holds, spent>>
  BY DEF DeleteDevices
<1>2. TypeOK
  BY DEF SessionInv
<1> HIDE DEF gone
<1>3. \A s \in DOMAIN sessions :
        /\ rows[s] \in SessionRows
        /\ rows[s].rev = sessions[s].rev /\ rows[s].grace = sessions[s].grace
        /\ sessions[s].revoked => rows[s].revoked
        /\ ~rows[s].revoked => /\ devices'[rows[s].device] = "live"
                              /\ rows[s].auth = principal'.auth
  <2> SUFFICES ASSUME NEW s \in DOMAIN sessions
               PROVE  /\ Row(s) \in SessionRows
                      /\ Row(s).rev = sessions[s].rev /\ Row(s).grace = sessions[s].grace
                      /\ sessions[s].revoked => Row(s).revoked
                      /\ ~Row(s).revoked => /\ devices'[Row(s).device] = "live"
                                           /\ Row(s).auth = principal'.auth
    OBVIOUS
  <2>1. sessions[s] \in SessionRows /\ sessions[s].device \in Devices
    BY <1>2, RowsAreTyped
  <2>2. CASE sessions[s].device \in gone
    <3>1. Row(s) = [sessions[s] EXCEPT !.revoked = TRUE]
      BY <2>2
    <3> HIDE DEF Row
    <3> QED BY <2>1, <3>1 DEF SessionRows
  <2>3. CASE sessions[s].device \notin gone
    <3>1. Row(s) = sessions[s] /\ devices'[sessions[s].device] = devices[sessions[s].device]
      BY <1>1, <2>1, <2>3
    <3> HIDE DEF Row
    <3>2. ~sessions[s].revoked => /\ devices[sessions[s].device] = "live"
                                  /\ sessions[s].auth = principal.auth
      BY DEF SessionInv, SessionsInStep
    <3> QED BY <1>1, <2>1, <3>1, <3>2
  <2> QED BY <2>2, <2>3
<1>4. sessions' = [s \in DOMAIN sessions |-> rows[s]]
  BY <1>1
<1> HIDE DEF rows
<1>5. UNCHANGED principal /\ UNCHANGED <<holds, spent>>
  BY <1>1
<1>6. NameTaken' /\ DeactivationIsFinal'
  BY <1>3, <1>4, <1>5 DEF SessionInv, NameTaken, DeactivationIsFinal
<1>7. devices' \in [Devices -> {"absent", "live", "deleted"}]
  BY <1>1, <1>2 DEF TypeOK
<1>8. /\ memory' \in [{"password", "delete", "deactivate"} -> UiaRequests \cup {None}]
      /\ handlers' \in [Handlers -> Working \cup {Idle}] /\ begun' \in 0..MaxRequests
  BY <1>1, <1>2, FinishIsTyped, RememberIsTyped
<1>9. principal' \in [password : Passwords \cup {NoPassword}, auth : 0..MaxAuth,
                      deactivated : BOOLEAN]
  BY <1>2, <1>5 DEF TypeOK
<1> QED BY <1>3, <1>4, <1>5, <1>6, <1>7, <1>8, <1>9, RewriteKeeps

\* A logout.
LEMMA LogoutKeeps ==
  ASSUME SessionInv, NEW h \in Handlers, Logout(h)
  PROVE  SessionInv'
<1> DEFINE Ends(s) == handlers[h].req.kind = "logoutAll" \/ s = handlers[h].via
           Row(s) == IF Ends(s) THEN [sessions[s] EXCEPT !.revoked = TRUE] ELSE sessions[s]
           rows == [s \in DOMAIN sessions |-> Row(s)]
<1>1. /\ Finish(h) /\ sessions' = rows
      /\ UNCHANGED <<principal, memory, devices, holds, spent>>
  BY DEF Logout, history
<1>2. TypeOK
  BY DEF SessionInv
<1>3. \A s \in DOMAIN sessions :
        /\ rows[s] \in SessionRows
        /\ rows[s].rev = sessions[s].rev /\ rows[s].grace = sessions[s].grace
        /\ sessions[s].revoked => rows[s].revoked
        /\ ~rows[s].revoked => /\ devices'[rows[s].device] = "live"
                              /\ rows[s].auth = principal'.auth
  <2> SUFFICES ASSUME NEW s \in DOMAIN sessions
               PROVE  /\ Row(s) \in SessionRows
                      /\ Row(s).rev = sessions[s].rev /\ Row(s).grace = sessions[s].grace
                      /\ sessions[s].revoked => Row(s).revoked
                      /\ ~Row(s).revoked => /\ devices'[Row(s).device] = "live"
                                           /\ Row(s).auth = principal'.auth
    OBVIOUS
  <2>1. sessions[s] \in SessionRows
    BY <1>2, RowsAreTyped
  <2>2. CASE Ends(s)
    <3>1. Row(s) = [sessions[s] EXCEPT !.revoked = TRUE]
      BY <2>2
    <3> HIDE DEF Row
    <3> QED BY <2>1, <3>1 DEF SessionRows
  <2>3. CASE ~Ends(s)
    <3>1. Row(s) = sessions[s]
      BY <2>3
    <3> HIDE DEF Row
    <3>2. ~sessions[s].revoked => /\ devices[sessions[s].device] = "live"
                                  /\ sessions[s].auth = principal.auth
      BY DEF SessionInv, SessionsInStep
    <3> QED BY <1>1, <2>1, <3>1, <3>2
  <2> QED BY <2>2, <2>3
<1>4. sessions' = [s \in DOMAIN sessions |-> rows[s]]
  BY <1>1
<1> HIDE DEF rows
<1>5. UNCHANGED <<principal, memory, devices, holds, spent>> /\ UNCHANGED <<holds, spent>>
  BY <1>1
<1>6. NameTaken' /\ DeactivationIsFinal'
  BY <1>3, <1>4, <1>5 DEF SessionInv, NameTaken, DeactivationIsFinal
<1>7. /\ handlers' \in [Handlers -> Working \cup {Idle}] /\ begun' \in 0..MaxRequests
  BY <1>1, <1>2, FinishIsTyped
<1>8. /\ principal' \in [password : Passwords \cup {NoPassword}, auth : 0..MaxAuth,
                         deactivated : BOOLEAN]
      /\ memory' \in [{"password", "delete", "deactivate"} -> UiaRequests \cup {None}]
      /\ devices' \in [Devices -> {"absent", "live", "deleted"}]
  BY <1>2, <1>5 DEF TypeOK
<1> QED BY <1>3, <1>4, <1>5, <1>6, <1>7, <1>8, RewriteKeeps

-----------------------------------------------------------------------------
(* The theorems *)

\* Every step keeps the invariant.
LEMMA NextKeeps == SessionInv /\ [Next]_vars => SessionInv'
<1> SUFFICES ASSUME SessionInv, [Next]_vars PROVE SessionInv'
  OBVIOUS
<1>1. CASE ClientStep
  <2>1. CASE \E answered \in BOOLEAN : Register(answered)
    BY <2>1, RegisterKeeps
  <2>2. CASE RegisterAgain
    BY <2>2, RegisterAgainKeeps
  <2>3. CASE \E d \in Devices, p \in Passwords : Login(d, p)
    BY <2>3, LoginKeeps
  <2>4. ASSUME NEW s \in DOMAIN sessions, NEW rev \in 0..holds[s], UseToken(s, rev)
        PROVE  SessionInv'
    <3>1. Resolve(s, rev) /\ UNCHANGED <<principal, memory, devices, holds>>
      BY <2>4 DEF UseToken
    <3>2. handlers' \in [Handlers -> Working \cup {Idle}] /\ begun' \in 0..MaxRequests
      BY <2>4 DEF UseToken, gateway, SessionInv, TypeOK
    <3> QED BY <3>1, <3>2, ResolveKeeps
  <2>5. ASSUME NEW s \in DOMAIN sessions, NEW rev \in 0..holds[s],
               NEW answered \in BOOLEAN, RefreshSession(s, rev, answered)
        PROVE  SessionInv'
    BY <2>5, RefreshKeeps
  <2>6. ASSUME NEW s \in DOMAIN sessions, Expire(s)
        PROVE  SessionInv'
    BY <2>6, ExpireKeeps
  <2> QED BY <1>1, <2>1, <2>2, <2>3, <2>4, <2>5, <2>6 DEF ClientStep, HandleRegister
<1>2. ASSUME NEW h \in Handlers, HandlerStep(h)
      PROVE  SessionInv'
  <2>1. ASSUME NEW req \in UiaRequests, BeginAny(h, req)
        PROVE  SessionInv'
    BY <2>1, BeginKeeps, BeginWithoutSessionKeeps DEF BeginAny
  <2>2. ASSUME NEW req \in Deletions, BeginDeletion(h, req)
        PROVE  SessionInv'
    BY <2>2, BeginKeeps DEF BeginDeletion, UiaRequests
  <2>3. ASSUME NEW req \in Logouts, NEW s \in DOMAIN sessions,
               Begin(h, req, s, holds[s], NoPassword)
        PROVE  SessionInv'
    BY <2>3, BeginKeeps
  <2>4. CASE HandlePasswordChange(h)
    BY <2>1, <2>4, ChangePasswordKeeps DEF HandlePasswordChange, UiaRequests
  <2>5. CASE HandleDeactivateAccount(h)
    BY <2>1, <2>5, DeactivateAccountKeeps DEF HandleDeactivateAccount, UiaRequests
  <2>6. CASE HandleDeleteDevice(h) \/ HandleDeleteDevices(h)
    BY <2>2, <2>6, DeleteDevicesKeeps DEF HandleDeleteDevice, HandleDeleteDevices
  <2>7. CASE HandleLogout(h)
    BY <2>3, <2>7, LogoutKeeps DEF HandleLogout
  <2>8. CASE Check(h) \/ GiveUp(h)
    BY <2>8, CheckKeeps, GiveUpKeeps
  <2> QED BY <1>2, <2>4, <2>5, <2>6, <2>7, <2>8 DEF HandlerStep
<1>3. CASE UNCHANGED vars
  BY <1>3 DEF vars, account, gateway, history, SessionInv, TypeOK, SessionsInStep,
     DeactivationIsFinal, NameTaken, SpentBehindGrace, HeldWithinGrace
<1> QED BY <1>1, <1>2, <1>3 DEF Next

\* In every reachable state the tables of the account agree with each other,
\* with what was decided and with what the clients hold and have used.
THEOREM AccountInStep == Spec => []SessionInv
BY InitKeeps, NextKeeps, PTL DEF Spec

\* resolveSession and refreshSession accept no token older than one that was
\* used with success, however late it comes.
THEOREM SpentTokensStaySpent == Spec => []SpentStaysSpent
<1>1. SessionInv => SpentStaysSpent
  <2> SUFFICES ASSUME SessionInv, NEW s \in DOMAIN sessions, NEW rev \in 0..MaxRevision,
                      rev < spent[s]
               PROVE  ~Usable(s, rev) /\ ~Refreshable(s, rev)
    BY DEF SpentStaysSpent
  <2>1. sessions[s].rev \in Nat /\ spent[s] \in Nat
    BY RowsAreTyped DEF SessionInv
  <2>2. spent[s] <= sessions[s].rev /\ (sessions[s].grace => spent[s] < sessions[s].rev)
    BY DEF SessionInv, SpentBehindGrace
  <2> QED BY <2>1, <2>2, BoundsAreNat DEF Usable, Refreshable
<1> QED BY <1>1, AccountInStep, PTL

\* refreshSession accepts the newest token that a client of a live session has
\* received, whichever answers were lost.
THEOREM ClientsAreNeverStranded == Spec => []NeverStranded
<1>1. SessionInv => NeverStranded
  <2> SUFFICES ASSUME SessionInv, NEW s \in DOMAIN sessions, ~sessions[s].revoked,
                      sessions[s].life # "dead", holds[s] # Nothing
               PROVE  Refreshable(s, holds[s])
    BY DEF NeverStranded
  <2>1. ~principal.deactivated /\ sessions[s].auth = principal.auth
    BY DEF SessionInv, DeactivationIsFinal, SessionsInStep
  <2>2. sessions[s].rev = holds[s] \/ (sessions[s].grace /\ sessions[s].rev = holds[s] + 1)
    BY DEF SessionInv, HeldWithinGrace
  <2> QED BY <2>1, <2>2 DEF Refreshable
<1> QED BY <1>1, AccountInStep, PTL
=============================================================================
