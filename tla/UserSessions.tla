---------------------------- MODULE UserSessions ----------------------------
(***************************************************************************)
(* The account of one user: its UserDO, the gateway handlers that act on   *)
(* it, and what the user's clients hold.  The principal, the sessions and  *)
(* the devices are tables of the UserDO, and each of its methods is one    *)
(* step: none awaits between its first read and its last write.            *)
(*                                                                         *)
(* The interleaving is in the gateway.  A logout is two calls, a password  *)
(* change, a deactivation or a device deletion is four: the access token   *)
(* is resolved, the replay memory is asked, the password is verified, the  *)
(* change is committed.  Other handlers run between any two of them.       *)
(*                                                                         *)
(* The tokens of a session are numbered by revision and derive from it, so *)
(* issuing a revision again yields the same tokens.  A client may present  *)
(* any revision it has received, the late or repeated request of a retry   *)
(* included; the answer to a refresh may be lost.                          *)
(*                                                                         *)
(* session_epoch never changes (its only writer, bumpSessionEpoch, has no  *)
(* caller) and is left out.                                                *)
(***************************************************************************)
EXTENDS Integers, Sequences, FiniteSets

CONSTANTS
  Devices,       \* device ids
  FirstDevice,   \* the device the user registers with
  Passwords,     \* passwords
  FirstPassword, \* the password the user registers with
  Nonces,        \* nonces of UIA challenges; each kind of request has its own
  Handlers,      \* gateway handlers that may run at the same time
  Aging,         \* bound: the sessions that refresh and expire
  MaxSessions,   \* bound: sessions ever created
  MaxRevision,   \* bound: refreshes of one session
  MaxAuth,       \* bound: auth_version of the principal
  MaxRequests    \* bound: requests of several calls ever begun

NoPassword == "no password"

ASSUME FirstsExist == FirstDevice \in Devices /\ FirstPassword \in Passwords
ASSUME NotAPassword == NoPassword \notin Passwords
ASSUME BoundsAreNat ==
  /\ MaxSessions \in Nat \ {0}
  /\ MaxRevision \in Nat /\ MaxRequests \in Nat
  /\ MaxAuth \in Nat \ {0}
  /\ Aging \subseteq 1..MaxSessions

VARIABLES
  principal,  \* [password, auth, deactivated]; no password when deactivated, auth
              \* 0 before registration
  memory,     \* the last committed UIA request of each kind, or None
  devices,    \* "absent", "live" or "deleted"
  sessions,   \* the sessions table, in order of creation
  handlers,   \* the gateway handlers
  begun,      \* requests that the handlers have begun
  holds,      \* per session: the newest revision a client has received, or Nothing
  spent       \* per session: the newest revision used with success

account == <<principal, memory, devices, sessions>>
history == <<holds, spent>>
gateway == <<handlers, begun>>
vars == <<account, gateway, history>>

None == [kind |-> "none"]
NoSession == 0
Nothing == -1

-----------------------------------------------------------------------------
(* Sessions and tokens *)

\* isSessionUsable, for the access token of revision rev of session s.
Usable(s, rev) ==
  /\ sessions[s].rev = rev
  /\ ~sessions[s].revoked
  /\ ~principal.deactivated
  /\ sessions[s].life = "fresh"
  /\ sessions[s].auth = principal.auth
  /\ devices[sessions[s].device] = "live"

\* The refresh token of revision rev is the current one or the one before it,
\* while the session remembers that one as its grace.
Refreshable(s, rev) ==
  /\ ~principal.deactivated
  /\ ~sessions[s].revoked
  /\ sessions[s].life # "dead"
  /\ sessions[s].auth = principal.auth
  /\ \/ sessions[s].rev = rev
     \/ sessions[s].grace /\ sessions[s].rev = rev + 1

NewSession(d, auth) ==
  [device |-> d, rev |-> 0, grace |-> FALSE, auth |-> auth,
   revoked |-> FALSE, life |-> "fresh"]

Spend(s, rev) == spent' = [spent EXCEPT ![s] = IF rev > @ THEN rev ELSE @]

\* Mutant: the use of the new access token does not end the grace.
ResolveKeepingGrace(s, rev) ==
  /\ Usable(s, rev)
  /\ UNCHANGED sessions
  /\ Spend(s, rev)

\* A successful resolveSession: the use of the newest access token ends the
\* grace of the refresh token before it.
Resolve(s, rev) ==
  /\ Usable(s, rev)
  /\ sessions' = [sessions EXCEPT ![s].grace = FALSE]
  /\ Spend(s, rev)

-----------------------------------------------------------------------------
(* Registration and login *)

\* register: the principal, the device and the first session in one step.  Of
\* several requests for the name one succeeds.
Register(answered) ==
  /\ principal.auth = 0
  /\ principal' = [password |-> FirstPassword, auth |-> 1, deactivated |-> FALSE]
  /\ devices' = [devices EXCEPT ![FirstDevice] = "live"]
  /\ sessions' = <<NewSession(FirstDevice, 1)>>
  /\ holds' = <<IF answered THEN 0 ELSE Nothing>>
  /\ spent' = <<0>>
  /\ UNCHANGED <<memory, gateway>>

\* The same request again, with its UIA nonce: the tokens the session has now.
RegisterAgain ==
  /\ principal.auth > 0
  /\ ~sessions[1].revoked
  /\ holds' = [holds EXCEPT ![1] = sessions[1].rev]
  /\ UNCHANGED <<account, gateway, spent>>

\* login: the password is verified and the session created in one step.
Login(d, password) ==
  /\ ~principal.deactivated
  /\ password = principal.password
  /\ Len(sessions) < MaxSessions
  /\ devices' = [devices EXCEPT ![d] = "live"]
  /\ sessions' = Append(sessions, NewSession(d, principal.auth))
  /\ holds' = Append(holds, 0)
  /\ spent' = Append(spent, 0)
  /\ UNCHANGED <<principal, memory, gateway>>

\* Mutant: a refresh forgets the token it was made with.
RotatedWithoutGrace(s) ==
  [sessions[s] EXCEPT !.rev = @ + 1, !.grace = FALSE, !.life = "fresh"]

\* The session after a refresh with its current token.
Rotated(s) ==
  [sessions[s] EXCEPT !.rev = @ + 1, !.grace = TRUE, !.life = "fresh"]

\* refreshSession.  The current token rotates the session; the one before it is
\* answered with the tokens already issued.  The answer may be lost.
RefreshSession(s, rev, answered) ==
  LET next == IF rev = sessions[s].rev THEN Rotated(s) ELSE sessions[s]
  IN  /\ Refreshable(s, rev)
      /\ next.rev <= MaxRevision
      /\ sessions' = [sessions EXCEPT ![s] = next]
      /\ holds' = IF answered THEN [holds EXCEPT ![s] = next.rev] ELSE holds
      /\ Spend(s, rev)
      /\ UNCHANGED <<principal, memory, devices, gateway>>

\* Any other authenticated request.
UseToken(s, rev) ==
  /\ Resolve(s, rev)
  /\ UNCHANGED <<principal, memory, devices, gateway, holds>>

\* Time: first the access token expires, then the refresh token.
Expire(s) ==
  /\ sessions[s].life # "dead"
  /\ sessions' = [sessions EXCEPT
                    ![s].life = IF @ = "fresh" THEN "access expired" ELSE "dead"]
  /\ UNCHANGED <<principal, memory, devices, gateway, history>>

-----------------------------------------------------------------------------
(* Requests that go through the gateway in several calls *)

\* What a request asks for is its fingerprint.  A deactivation has no argument.
PasswordChanges ==
  [kind : {"password"}, nonce : Nonces, arg : [to : Passwords, logout : BOOLEAN]]
Deletions == [kind : {"delete"}, nonce : Nonces, arg : SUBSET Devices \ {{}}]
Deactivations == [kind : {"deactivate"}, nonce : Nonces, arg : {"all"}]
Logouts == [kind : {"logout", "logoutAll"}, nonce : {"none"}, arg : {"none"}]
UiaRequests == PasswordChanges \cup Deletions \cup Deactivations

Idle == [pc |-> "idle"]

\* The session that a request keeps or ends; no other request asks for it.
Via(req, s) == IF req \in PasswordChanges \/ req.kind = "logout" THEN s ELSE NoSession

\* The first call of a handler: the access token is resolved.  It comes with the
\* password the client offers for the UIA stage.
Begin(h, req, s, rev, offered) ==
  /\ handlers[h] = Idle
  /\ begun < MaxRequests /\ begun' = begun + 1
  /\ Resolve(s, rev)
  /\ handlers' = [handlers EXCEPT ![h] =
       [pc |-> IF req \in UiaRequests THEN "check" ELSE "commit",
        req |-> req, via |-> Via(req, s), offered |-> offered]]
  /\ UNCHANGED <<principal, memory, devices, holds>>

\* A password change or a deactivation may come without a usable token: the
\* user is then named in the UIA stage.
BeginWithoutSession(h, req, offered) ==
  /\ handlers[h] = Idle
  /\ begun < MaxRequests /\ begun' = begun + 1
  /\ req \in PasswordChanges \cup Deactivations
  /\ handlers' = [handlers EXCEPT ![h] =
       [pc |-> "check", req |-> req, via |-> NoSession, offered |-> offered]]
  /\ UNCHANGED <<account, history>>

At(h, pc) == handlers[h].pc = pc
Finish(h) ==
  /\ handlers' = [handlers EXCEPT ![h] = Idle]
  /\ UNCHANGED begun

Remembered(req) == memory[req.kind] # None /\ memory[req.kind].nonce = req.nonce

\* The second and third calls, which only read: the replay memory ends a handler
\* whose nonce is the last one committed, with the old answer or a conflict, and
\* verifyPasswordAuth one with a wrong password.  They are one step, for what
\* the memory gains after it was asked the commit finds there.  The password is
\* not needed any more.
Check(h) ==
  /\ At(h, "check")
  /\ IF /\ ~Remembered(handlers[h].req)
        /\ ~principal.deactivated
        /\ handlers[h].offered = principal.password
     THEN /\ handlers' = [handlers EXCEPT ![h].pc = "commit", ![h].offered = NoPassword]
          /\ UNCHANGED begun
     ELSE Finish(h)
  /\ UNCHANGED <<account, history>>

\* The transaction of a UIA request begins with the replay memory, once more.
Commits(h, kind) ==
  /\ At(h, "commit")
  /\ handlers[h].req.kind = kind
  /\ ~Remembered(handlers[h].req)

Remember(h) == memory' = [memory EXCEPT ![handlers[h].req.kind] = handlers[h].req]

\* The handler ends without effect: the nonce was committed in the meantime, or
\* the account it would change was deactivated.
GiveUp(h) ==
  /\ At(h, "commit")
  /\ handlers[h].req \in UiaRequests
  /\ \/ Remembered(handlers[h].req)
     \/ handlers[h].req.kind = "password" /\ principal.deactivated
  /\ Finish(h)
  /\ UNCHANGED <<account, history>>

\* A row of the sessions table after a password change.
AfterPasswordChange(s, keep, logout, auth) ==
  IF sessions[s].revoked THEN sessions[s]
  ELSE [sessions[s] EXCEPT !.auth = auth, !.revoked = logout /\ s # keep]

\* Mutant: changePassword trusts the check that verifyPasswordAuth made.
ChangePasswordUnguarded(h) ==
  LET req  == handlers[h].req
      auth == principal.auth + 1
  IN  /\ Commits(h, "password")
      /\ auth <= MaxAuth
      /\ principal' = [password |-> req.arg.to, auth |-> auth,
                        deactivated |-> principal.deactivated]
      /\ sessions' = [s \in DOMAIN sessions |->
                        AfterPasswordChange(s, handlers[h].via, req.arg.logout, auth)]
      /\ Remember(h)
      /\ Finish(h)
      /\ UNCHANGED <<devices, holds, spent>>

\* changePassword.
ChangePassword(h) ==
  LET req  == handlers[h].req
      auth == principal.auth + 1
  IN  /\ Commits(h, "password")
      /\ ~principal.deactivated
      /\ auth <= MaxAuth
      /\ principal' = [password |-> req.arg.to, auth |-> auth, deactivated |-> FALSE]
      /\ sessions' = [s \in DOMAIN sessions |->
                        AfterPasswordChange(s, handlers[h].via, req.arg.logout, auth)]
      /\ Remember(h)
      /\ Finish(h)
      /\ UNCHANGED <<devices, holds, spent>>

\* deactivateAccount, which does not ask whether the account is active.
DeactivateAccount(h) ==
  LET auth == principal.auth + 1
  IN  /\ Commits(h, "deactivate")
      /\ auth <= MaxAuth
      /\ principal' = [password |-> NoPassword, auth |-> auth, deactivated |-> TRUE]
      /\ sessions' = [s \in DOMAIN sessions |->
                        IF sessions[s].revoked THEN sessions[s]
                        ELSE [sessions[s] EXCEPT !.auth = auth, !.revoked = TRUE]]
      /\ Remember(h)
      /\ Finish(h)
      /\ UNCHANGED <<devices, holds, spent>>

\* deleteDevices: all the devices in one transaction.
DeleteDevices(h) ==
  LET gone == handlers[h].req.arg
  IN  /\ Commits(h, "delete")
      /\ devices' = [d \in Devices |-> IF d \in gone /\ devices[d] = "live" THEN "deleted"
                                      ELSE devices[d]]
      /\ sessions' = [s \in DOMAIN sessions |->
                        IF sessions[s].device \in gone THEN [sessions[s] EXCEPT !.revoked = TRUE]
                        ELSE sessions[s]]
      /\ Remember(h)
      /\ Finish(h)
      /\ UNCHANGED <<principal, holds, spent>>

\* logoutSession and logoutAllSessions.
Logout(h) ==
  /\ At(h, "commit")
  /\ handlers[h].req \in Logouts
  /\ sessions' = [s \in DOMAIN sessions |->
                    IF handlers[h].req.kind = "logoutAll" \/ s = handlers[h].via
                    THEN [sessions[s] EXCEPT !.revoked = TRUE]
                    ELSE sessions[s]]
  /\ Finish(h)
  /\ UNCHANGED <<principal, memory, devices, history>>

-----------------------------------------------------------------------------
Init ==
  /\ principal = [password |-> NoPassword, auth |-> 0, deactivated |-> FALSE]
  /\ memory = [k \in {"password", "delete", "deactivate"} |-> None]
  /\ devices = [d \in Devices |-> "absent"]
  /\ sessions = <<>> /\ holds = <<>> /\ spent = <<>>
  /\ handlers = [h \in Handlers |-> Idle] /\ begun = 0

\* The routes of registration, with the same request each time, and the others
\* that are one call to the UserDO.
HandleRegister == (\E answered \in BOOLEAN : Register(answered)) \/ RegisterAgain

ClientStep ==
  \/ HandleRegister
  \/ \E d \in Devices, p \in Passwords : Login(d, p)
  \/ \E s \in DOMAIN sessions : \E rev \in 0..holds[s] : UseToken(s, rev)
  \/ \E s \in DOMAIN sessions \cap Aging :
       \/ \E rev \in 0..holds[s], answered \in BOOLEAN : RefreshSession(s, rev, answered)
       \/ Expire(s)

\* Each of the others is a sequence of calls.
BeginAny(h, req) ==
  \E p \in Passwords :
    \/ \E s \in DOMAIN sessions : Begin(h, req, s, holds[s], p)
    \/ BeginWithoutSession(h, req, p)

HandlePasswordChange(h) ==
  (\E req \in PasswordChanges : BeginAny(h, req)) \/ ChangePassword(h)

HandleDeactivateAccount(h) ==
  (\E req \in Deactivations : BeginAny(h, req)) \/ DeactivateAccount(h)

\* A deletion needs a usable session.  Each of its two routes has challenges of
\* its own; the memory is the same.
BeginDeletion(h, req) ==
  \E p \in Passwords, s \in DOMAIN sessions : Begin(h, req, s, holds[s], p)

HandleDeleteDevice(h) ==
  \/ \E req \in Deletions : Cardinality(req.arg) = 1 /\ BeginDeletion(h, req)
  \/ DeleteDevices(h)

HandleDeleteDevices(h) ==
  (\E req \in Deletions : BeginDeletion(h, req)) \/ DeleteDevices(h)

HandleLogout(h) ==
  \/ \E req \in Logouts, s \in DOMAIN sessions : Begin(h, req, s, holds[s], NoPassword)
  \/ Logout(h)

HandlerStep(h) ==
  \/ HandlePasswordChange(h) \/ HandleDeactivateAccount(h)
  \/ HandleDeleteDevice(h) \/ HandleDeleteDevices(h)
  \/ HandleLogout(h)
  \/ Check(h) \/ GiveUp(h)

Next == ClientStep \/ \E h \in Handlers : HandlerStep(h)

Spec == Init /\ [][Next]_vars

-----------------------------------------------------------------------------
(* Properties *)

SessionRows ==
  [device : Devices, rev : 0..MaxRevision, grace : BOOLEAN, auth : 1..MaxAuth,
   revoked : BOOLEAN, life : {"fresh", "access expired", "dead"}]

\* What a handler carries from one call to the next.
Working ==
  [pc : {"check", "commit"}, req : UiaRequests \cup Logouts, via : Nat,
   offered : Passwords \cup {NoPassword}]

\* Every table holds rows of its shape.
TypeOK ==
  /\ principal \in [password : Passwords \cup {NoPassword}, auth : 0..MaxAuth,
                    deactivated : BOOLEAN]
  /\ memory \in [{"password", "delete", "deactivate"} -> UiaRequests \cup {None}]
  /\ devices \in [Devices -> {"absent", "live", "deleted"}]
  /\ sessions \in Seq(SessionRows) /\ Len(sessions) <= MaxSessions
  /\ handlers \in [Handlers -> Working \cup {Idle}]
  /\ begun \in 0..MaxRequests
  /\ holds \in Seq(Int) /\ Len(holds) = Len(sessions)
  /\ spent \in Seq(Nat) /\ Len(spent) = Len(sessions)

\* A session that is not revoked is on a live device and at the auth_version of
\* the account, however a login, a device deletion and a password change
\* interleave: there is no session "behind the current authentication epoch".
SessionsInStep ==
  \A s \in DOMAIN sessions : ~sessions[s].revoked =>
    /\ devices[sessions[s].device] = "live"
    /\ sessions[s].auth = principal.auth

\* A deactivated account has no password and no session, also when a password
\* change that had verified the old password commits after the deactivation.
DeactivationIsFinal ==
  principal.deactivated =>
    /\ principal.password = NoPassword
    /\ \A s \in DOMAIN sessions : sessions[s].revoked

\* The name of an account that has ever had a password or been deactivated is
\* taken, so that register finds it in use.
NameTaken ==
  principal.deactivated \/ principal.password # NoPassword => principal.auth > 0

\* No client has used tokens newer than those of the row, and while the row
\* keeps its grace nobody has used the newest ones.
SpentBehindGrace ==
  \A s \in DOMAIN sessions :
    /\ spent[s] <= sessions[s].rev
    /\ sessions[s].grace => spent[s] < sessions[s].rev

\* The newest tokens that a client has received are the current ones, or those
\* before them with their grace.
HeldWithinGrace ==
  \A s \in DOMAIN sessions : holds[s] # Nothing =>
    /\ holds[s] \in Nat
    /\ \/ holds[s] = sessions[s].rev
       \/ sessions[s].grace /\ holds[s] + 1 = sessions[s].rev

\* The tables agree with each other, with what has been decided and with what
\* the clients hold and have used.
SessionInv ==
  /\ TypeOK
  /\ SessionsInStep
  /\ DeactivationIsFinal
  /\ NameTaken
  /\ SpentBehindGrace
  /\ HeldWithinGrace

\* Once the tokens of a revision have been used, none of an older revision is
\* accepted any more, however late the request that carries it.
SpentStaysSpent ==
  \A s \in DOMAIN sessions : \A rev \in 0..MaxRevision :
    rev < spent[s] => ~Usable(s, rev) /\ ~Refreshable(s, rev)

\* A client whose session is neither revoked nor expired can always refresh with
\* the newest token it has received, whichever answers were lost.
NeverStranded ==
  \A s \in DOMAIN sessions :
    ~sessions[s].revoked /\ sessions[s].life # "dead" /\ holds[s] # Nothing
      => Refreshable(s, holds[s])
=============================================================================
