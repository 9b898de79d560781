------------------------------ MODULE Sessions ------------------------------
(***************************************************************************)
(* The session core of AuthService (omniuser_backend/src/auth): public     *)
(* registration, the login steps that mint a session, refresh-token        *)
(* rotation with its grace window and revocation cascade, logout, password *)
(* change, and the "forgot my password" links.                             *)
(*                                                                         *)
(* Concurrency.  Every handler is an async function of one Node process:   *)
(* between two awaits it runs alone, at each await any other request may   *)
(* run.  An action is therefore the code between two database effects, and *)
(* `pc[r]` is where call `r` is suspended.  What a call read before an     *)
(* await stays in its own variables (acct, arg, gen, seen) and may be      *)
(* stale when it is used.                                                  *)
(*                                                                         *)
(* Database.  PostgreSQL under READ COMMITTED.  A statement on one row is  *)
(* one step.  A statement on many rows first chooses its rows (its         *)
(* snapshot) and applies itself later to those rows that still satisfy its *)
(* WHERE clause: rows inserted in between are missed.  A batch             *)
(* $transaction becomes visible at its commit; the row of `users` that it  *)
(* updates first stays locked until then.                                  *)
(*                                                                         *)
(* A row that a call creates is named by the call: session row `r` is the  *)
(* refresh token minted by call `r`, link `r` is the reset link created by *)
(* call `r`, and so on.  A call that creates nothing has no rows.          *)
(***************************************************************************)
EXTENDS Integers, FiniteSets

CONSTANTS
  Users,          \* the e-mail addresses, one account each
  Registered,     \* accounts that exist from the start (the seed's)
  TempPassword,   \* ... of these, those with must_change_password = true
  TwoFactor,      \* accounts with totp_enabled = true (fixed here)
  Administered,   \* accounts an administrator may (de)activate
  Requests,       \* the HTTP calls of a behaviour
  Calls,          \* Calls[r]: the endpoints call r may be a call of
  NoUser, NoRow,  \* "no such row", "nothing presented"
  Grace,          \* REFRESH_TOKEN_GRACE_MS
  RefreshTTL,     \* JWT_REFRESH_EXPIRES_IN
  AccessTTL,      \* JWT_ACCESS_EXPIRES_IN
  ChallengeTTL,   \* TWO_FACTOR_CHALLENGE_TTL_MS
  LinkTTL,        \* PASSWORD_RESET_TOKEN_TTL_MS
  MaxTime         \* bound of the clock

Endpoints == {"register", "login", "twofactor", "refresh", "logout",
              "change", "forgot", "reset"}

ASSUME AccountsAssumption ==
  Registered \subseteq Users /\ TempPassword \subseteq Registered
  /\ TwoFactor \subseteq Registered /\ Administered \subseteq Users
  /\ NoUser \notin Users /\ NoRow \notin Requests

ASSUME CallsAssumption == Calls \in [Requests -> SUBSET Endpoints]

ASSUME DurationsAssumption ==
  /\ Grace \in Nat /\ RefreshTTL \in Nat /\ AccessTTL \in Nat
  /\ ChallengeTTL \in Nat /\ LinkTTL \in Nat /\ MaxTime \in Nat

VARIABLES
  now,          \* Date.now()
  \* table users
  exists,       \* the accounts that have a row
  pw,           \* generation of the password: how often it was replaced
  active,       \* is_active
  mustChange,   \* must_change_password
  \* table refresh_tokens, by the call that created the row
  owner, revoked, usedAt, expires,
  \* table password_reset_tokens, by the call that created the row
  linkOf, linkUsed, linkUntil,
  \* what left the server
  chalUntil,    \* expiry of the challenge token signed by a call
  known,        \* calls whose token, challenge or link reached a client
  \* the calls
  pc, acct, arg, gen, seen

dbUsers == <<exists, pw, active, mustChange>>
dbTokens == <<owner, revoked, usedAt, expires>>
dbLinks == <<linkOf, linkUsed, linkUntil>>
call == <<acct, arg, gen, seen>>
vars == <<now, dbUsers, dbTokens, dbLinks, chalUntil, known, pc, call>>

Never == -1

Labels == {"idle", "create", "issue", "rotate", "cascade", "cascadeApply",
           "authorized", "change", "changeCommit", "relink", "relinkCommit",
           "reset", "resetCommit", "done", "challenged", "loggedOut",
           "changed", "cascaded", "denied", "crashed"}
Answered == {"done", "challenged", "loggedOut", "changed", "cascaded",
             "denied", "crashed"}
InFlight(r) == pc[r] \notin Answered \cup {"idle"}

Goto(r, label) == pc' = [pc EXCEPT ![r] = label]

Init ==
  /\ now = 0
  /\ exists = Registered
  /\ pw = [u \in Users |-> 0]
  /\ active = [u \in Users |-> TRUE]
  /\ mustChange = [u \in Users |-> u \in TempPassword]
  /\ owner = [r \in Requests |-> NoUser]
  /\ revoked = [r \in Requests |-> FALSE]
  /\ usedAt = [r \in Requests |-> Never]
  /\ expires = [r \in Requests |-> Never]
  /\ linkOf = [r \in Requests |-> NoUser]
  /\ linkUsed = [r \in Requests |-> FALSE]
  /\ linkUntil = [r \in Requests |-> Never]
  /\ chalUntil = [r \in Requests |-> Never]
  /\ known = {}
  /\ pc = [r \in Requests |-> "idle"]
  /\ acct = [r \in Requests |-> NoUser]
  /\ arg = [r \in Requests |-> NoRow]
  /\ gen = [r \in Requests |-> 0]
  /\ seen = [r \in Requests |-> {}]

-----------------------------------------------------------------------------
(* Shared pieces                                                           *)

Begins(r, endpoint) == pc[r] = "idle" /\ endpoint \in Calls[r]

\* The session rows of an account.
SessionsOf(u) == {t \in Requests : owner[t] = u}

\* Someone holds an access JWT of u: one left with every delivered session
\* and lasts AccessTTL from the minting (expires - RefreshTTL).
HasAccess(u) ==
  \E t \in known : owner[t] = u /\ now < expires[t] - RefreshTTL + AccessTTL

\* The row of users that an open transaction has updated stays locked.
Locked(u) ==
  \E r \in Requests : pc[r] \in {"changeCommit", "resetCommit"} /\ acct[r] = u

\* Mutant: the updateMany without its user_id.
SnapshotOfAll(r) == seen' = [seen EXCEPT ![r] = {t \in Requests : owner[t] # NoUser}]

\* refresh_tokens.updateMany({where: {user_id, revoked: false}}): the snapshot
\* (rows already revoked are in it too: revoking them again changes nothing)
Snapshot(r) == seen' = [seen EXCEPT ![r] = SessionsOf(acct[r])]
\* ... and its effect.
RevokeSeen(r) == revoked' = [t \in Requests |-> revoked[t] \/ t \in seen[r]]

\* Mutants: the batch without its updateMany, and without the flag.
SetPasswordKeepingSessions(r) ==
  /\ pw' = [pw EXCEPT ![acct[r]] = @ + 1]
  /\ mustChange' = [mustChange EXCEPT ![acct[r]] = FALSE]
  /\ UNCHANGED <<exists, active, dbTokens>>
SetPasswordKeepingFlag(r) ==
  /\ pw' = [pw EXCEPT ![acct[r]] = @ + 1]
  /\ RevokeSeen(r)
  /\ UNCHANGED <<exists, active, mustChange, owner, usedAt, expires>>

\* The two updates of users and refresh_tokens that a password change and a
\* password reset share.
SetPassword(r) ==
  /\ pw' = [pw EXCEPT ![acct[r]] = @ + 1]
  /\ mustChange' = [mustChange EXCEPT ![acct[r]] = FALSE]
  /\ RevokeSeen(r)
  /\ UNCHANGED <<exists, active, owner, usedAt, expires>>

-----------------------------------------------------------------------------
(* register                                                                *)

RegisterRead(r, u) ==
  /\ Begins(r, "register")
  /\ acct' = [acct EXCEPT ![r] = u]
  /\ Goto(r, IF u \in exists THEN "denied" ELSE "create")
  /\ UNCHANGED <<now, dbUsers, dbTokens, dbLinks, chalUntil, known, arg, gen, seen>>

\* users.create; the unique index on the e-mail makes the second of two
\* racing registrations fail (P2002).
RegisterCreate(r) ==
  /\ pc[r] = "create"
  /\ exists' = exists \cup {acct[r]}
  /\ Goto(r, IF acct[r] \in exists THEN "denied" ELSE "issue")
  /\ UNCHANGED <<now, pw, active, mustChange, dbTokens, dbLinks, chalUntil, known, call>>

-----------------------------------------------------------------------------
(* loginStep2 and loginStep3                                               *)

\* Mutant: loginStep2 issues a session whether or not totp_enabled.
LoginInOneStep(r, u, typed) ==
  /\ Begins(r, "login")
  /\ acct' = [acct EXCEPT ![r] = u]
  /\ gen' = [gen EXCEPT ![r] = typed]
  /\ Goto(r, IF u \in exists /\ active[u] /\ typed = pw[u] THEN "issue" ELSE "denied")
  /\ UNCHANGED <<now, dbUsers, dbTokens, dbLinks, chalUntil, known, arg, seen>>

\* The password typed is any generation the account has had; the row read
\* here decides, however long bcrypt.compare and the rest take.
Login(r, u, typed) ==
  /\ Begins(r, "login")
  /\ acct' = [acct EXCEPT ![r] = u]
  /\ gen' = [gen EXCEPT ![r] = typed]
  /\ \/ /\ u \in exists /\ active[u] /\ typed = pw[u] /\ u \notin TwoFactor
        /\ Goto(r, "issue")
        /\ UNCHANGED <<chalUntil, known>>
     \/ /\ u \in exists /\ active[u] /\ typed = pw[u] /\ u \in TwoFactor
        /\ Goto(r, "challenged")
        /\ chalUntil' = [chalUntil EXCEPT ![r] = now + ChallengeTTL]
        /\ known' = known \cup {r}
     \/ /\ u \notin exists \/ ~active[u] \/ typed # pw[u]
        /\ Goto(r, "denied")
        /\ UNCHANGED <<chalUntil, known>>
  /\ UNCHANGED <<now, dbUsers, dbTokens, dbLinks, arg, seen>>

\* c is the call that signed the challenge; the code is right or wrong.
LoginTwoFactor(r, c, codeOk) ==
  /\ Begins(r, "twofactor") /\ c \in known /\ chalUntil[c] # Never
  /\ LET u == acct[c]
         admitted == now < chalUntil[c] /\ active[u] /\ u \in TwoFactor /\ codeOk
     IN /\ acct' = [acct EXCEPT ![r] = u]
        /\ gen' = [gen EXCEPT ![r] = gen[c]]
        /\ Goto(r, IF admitted THEN "issue" ELSE "denied")
  /\ UNCHANGED <<now, dbUsers, dbTokens, dbLinks, chalUntil, known, arg, seen>>

-----------------------------------------------------------------------------
(* issueTokenPair: where every session is born.  The response may be lost. *)

\* Mutant: the row is created with the id of a token as its user_id.
IssueToToken(r, delivered) ==
  /\ pc[r] = "issue"
  /\ owner' = [owner EXCEPT ![r] = arg[r]]
  /\ expires' = [expires EXCEPT ![r] = now + RefreshTTL]
  /\ known' = IF delivered THEN known \cup {r} ELSE known
  /\ Goto(r, "done")
  /\ UNCHANGED <<now, dbUsers, revoked, usedAt, dbLinks, chalUntil, call>>

Issue(r, delivered) ==
  /\ pc[r] = "issue"
  /\ owner' = [owner EXCEPT ![r] = acct[r]]
  /\ expires' = [expires EXCEPT ![r] = now + RefreshTTL]
  /\ known' = IF delivered THEN known \cup {r} ELSE known
  /\ Goto(r, "done")
  /\ UNCHANGED <<now, dbUsers, revoked, usedAt, dbLinks, chalUntil, call>>

-----------------------------------------------------------------------------
(* refresh                                                                 *)

\* A revoked token is let through within Grace of its use; a token revoked
\* without having been used (logout, password change) has no used_at.
WithinGrace(t) == usedAt[t] # Never /\ now - usedAt[t] <= Grace

\* Mutant: the grace is not held against the clock.
RefreshReadOfUsed(r, t) ==
  /\ Begins(r, "refresh") /\ t \in known /\ owner[t] # NoUser
  /\ acct' = [acct EXCEPT ![r] = owner[t]]
  /\ arg' = [arg EXCEPT ![r] = t]
  /\ gen' = [gen EXCEPT ![r] = gen[t]]
  /\ \/ expires[t] < now /\ Goto(r, "denied")
     \/ expires[t] >= now /\ ~revoked[t] /\ Goto(r, "rotate")
     \/ expires[t] >= now /\ revoked[t] /\ usedAt[t] # Never /\ Goto(r, "issue")
     \/ expires[t] >= now /\ revoked[t] /\ usedAt[t] = Never /\ Goto(r, "cascade")
  /\ UNCHANGED <<now, dbUsers, dbTokens, dbLinks, chalUntil, known, seen>>

RefreshRead(r, t) ==
  /\ Begins(r, "refresh") /\ t \in known /\ owner[t] # NoUser
  /\ acct' = [acct EXCEPT ![r] = owner[t]]
  /\ arg' = [arg EXCEPT ![r] = t]
  /\ gen' = [gen EXCEPT ![r] = gen[t]]
  /\ \/ expires[t] < now /\ Goto(r, "denied")
     \/ expires[t] >= now /\ ~revoked[t] /\ Goto(r, "rotate")
     \/ expires[t] >= now /\ revoked[t] /\ WithinGrace(t) /\ Goto(r, "issue")
     \/ expires[t] >= now /\ revoked[t] /\ ~WithinGrace(t) /\ Goto(r, "cascade")
  /\ UNCHANGED <<now, dbUsers, dbTokens, dbLinks, chalUntil, known, seen>>

\* Mutant: the rotation revokes the old token but sets no used_at.
RotateUnstamped(r) ==
  /\ pc[r] = "rotate"
  /\ revoked' = [revoked EXCEPT ![arg[r]] = TRUE]
  /\ Goto(r, "issue")
  /\ UNCHANGED <<now, dbUsers, owner, usedAt, expires, dbLinks, chalUntil, known, call>>

\* The update is by token_id alone: it does not ask whether the row is
\* still unrevoked.
Rotate(r) ==
  /\ pc[r] = "rotate"
  /\ revoked' = [revoked EXCEPT ![arg[r]] = TRUE]
  /\ usedAt' = [usedAt EXCEPT ![arg[r]] = now]
  /\ Goto(r, "issue")
  /\ UNCHANGED <<now, dbUsers, owner, expires, dbLinks, chalUntil, known, call>>

CascadeSnapshot(r) ==
  /\ pc[r] = "cascade"
  /\ Snapshot(r)
  /\ Goto(r, "cascadeApply")
  /\ UNCHANGED <<now, dbUsers, dbTokens, dbLinks, chalUntil, known, acct, arg, gen>>

CascadeApply(r) ==
  /\ pc[r] = "cascadeApply"
  /\ RevokeSeen(r)
  /\ Goto(r, "cascaded")
  /\ UNCHANGED <<now, dbUsers, owner, usedAt, expires, dbLinks, chalUntil, known, call>>

-----------------------------------------------------------------------------
(* logout: one statement, whatever the state of the token                  *)

Logout(r, t) ==
  /\ Begins(r, "logout") /\ t \in known /\ owner[t] # NoUser
  /\ acct' = [acct EXCEPT ![r] = owner[t]]
  /\ arg' = [arg EXCEPT ![r] = t]
  /\ revoked' = [revoked EXCEPT ![t] = TRUE]
  /\ Goto(r, "loggedOut")
  /\ UNCHANGED <<now, dbUsers, owner, usedAt, expires, dbLinks, chalUntil, known, gen, seen>>

-----------------------------------------------------------------------------
(* changePassword                                                          *)

\* JwtStrategy.validate: a valid access JWT and a live read of is_active.
ChangeGuard(r, u, typed) ==
  /\ Begins(r, "change") /\ u \in exists /\ HasAccess(u)
  /\ acct' = [acct EXCEPT ![r] = u]
  /\ gen' = [gen EXCEPT ![r] = typed]
  /\ Goto(r, IF active[u] THEN "authorized" ELSE "denied")
  /\ UNCHANGED <<now, dbUsers, dbTokens, dbLinks, chalUntil, known, arg, seen>>

ChangeRead(r) ==
  /\ pc[r] = "authorized"
  /\ Goto(r, IF gen[r] = pw[acct[r]] THEN "change" ELSE "denied")
  /\ UNCHANGED <<now, dbUsers, dbTokens, dbLinks, chalUntil, known, call>>

ChangeSweep(r) ==
  /\ pc[r] = "change" /\ ~Locked(acct[r])
  /\ Snapshot(r)
  /\ Goto(r, "changeCommit")
  /\ UNCHANGED <<now, dbUsers, dbTokens, dbLinks, chalUntil, known, acct, arg, gen>>

ChangeCommit(r) ==
  /\ pc[r] = "changeCommit"
  /\ SetPassword(r)
  /\ Goto(r, "changed")
  /\ UNCHANGED <<now, dbLinks, chalUntil, known, call>>

-----------------------------------------------------------------------------
(* forgotPassword                                                          *)

ForgotRead(r, u) ==
  /\ Begins(r, "forgot")
  /\ acct' = [acct EXCEPT ![r] = u]
  /\ Goto(r, IF u \in exists /\ active[u] THEN "relink" ELSE "denied")
  /\ UNCHANGED <<now, dbUsers, dbTokens, dbLinks, chalUntil, known, arg, gen, seen>>

\* deleteMany({where: {user_id, used_at: null}}): the rows it chooses ...
ForgotSweep(r) ==
  /\ pc[r] = "relink"
  /\ seen' = [seen EXCEPT ![r] =
                {k \in Requests : linkOf[k] = acct[r] /\ ~linkUsed[k]}]
  /\ Goto(r, "relinkCommit")
  /\ UNCHANGED <<now, dbUsers, dbTokens, dbLinks, chalUntil, known, acct, arg, gen>>

\* Mutant: the deleteMany without used_at: null.
ForgotCommitDeletingUsed(r, delivered) ==
  /\ pc[r] = "relinkCommit"
  /\ linkOf' = [k \in Requests |-> IF k = r THEN acct[r]
                                   ELSE IF linkOf[k] = acct[r] THEN NoUser
                                   ELSE linkOf[k]]
  /\ linkUntil' = [linkUntil EXCEPT ![r] = now + LinkTTL]
  /\ known' = IF delivered THEN known \cup {r} ELSE known
  /\ Goto(r, "done")
  /\ UNCHANGED <<now, dbUsers, dbTokens, linkUsed, chalUntil, call>>

\* Mutant: the deleteMany only tidies up links that have expired.
ForgotCommitDeletingExpired(r, delivered) ==
  /\ pc[r] = "relinkCommit"
  /\ LET doomed == {k \in seen[r] : ~linkUsed[k] /\ linkUntil[k] < now}
     IN linkOf' = [k \in Requests |-> IF k = r THEN acct[r]
                                      ELSE IF k \in doomed THEN NoUser
                                      ELSE linkOf[k]]
  /\ linkUntil' = [linkUntil EXCEPT ![r] = now + LinkTTL]
  /\ known' = IF delivered THEN known \cup {r} ELSE known
  /\ Goto(r, "done")
  /\ UNCHANGED <<now, dbUsers, dbTokens, linkUsed, chalUntil, call>>

\* ... and, at the commit, deletes if they are still unused; create, and the
\* mail with the new link, which may not arrive.
ForgotCommit(r, delivered) ==
  /\ pc[r] = "relinkCommit"
  /\ LET doomed == {k \in seen[r] : ~linkUsed[k]}
     IN linkOf' = [k \in Requests |-> IF k = r THEN acct[r]
                                      ELSE IF k \in doomed THEN NoUser
                                      ELSE linkOf[k]]
  /\ linkUntil' = [linkUntil EXCEPT ![r] = now + LinkTTL]
  /\ known' = IF delivered THEN known \cup {r} ELSE known
  /\ Goto(r, "done")
  /\ UNCHANGED <<now, dbUsers, dbTokens, linkUsed, chalUntil, call>>

-----------------------------------------------------------------------------
(* resetPasswordWithToken                                                  *)

ResetRead(r, k) ==
  /\ Begins(r, "reset") /\ k \in known /\ linkUntil[k] # Never
  /\ arg' = [arg EXCEPT ![r] = k]
  /\ acct' = [acct EXCEPT ![r] = acct[k]]
  /\ LET valid == linkOf[k] # NoUser /\ ~linkUsed[k] /\ linkUntil[k] >= now
     IN Goto(r, IF valid THEN "reset" ELSE "denied")
  /\ UNCHANGED <<now, dbUsers, dbTokens, dbLinks, chalUntil, known, gen, seen>>

ResetSweep(r) ==
  /\ pc[r] = "reset" /\ ~Locked(acct[r])
  /\ Snapshot(r)
  /\ Goto(r, "resetCommit")
  /\ UNCHANGED <<now, dbUsers, dbTokens, dbLinks, chalUntil, known, acct, arg, gen>>

\* Mutant: the handler does not see the batch fail, and goes on waiting.
ResetCommitWaiting(r) ==
  /\ pc[r] = "resetCommit" /\ linkOf[arg[r]] # NoUser
  /\ SetPassword(r)
  /\ linkUsed' = [linkUsed EXCEPT ![arg[r]] = TRUE]
  /\ Goto(r, "changed")
  /\ UNCHANGED <<now, linkOf, linkUntil, chalUntil, known, call>>

\* The update of the link is by token_id alone; if a newer forgotPassword has
\* deleted the row it fails (P2025) and the whole batch rolls back.
ResetCommit(r) ==
  /\ pc[r] = "resetCommit"
  /\ \/ /\ linkOf[arg[r]] # NoUser
        /\ SetPassword(r)
        /\ linkUsed' = [linkUsed EXCEPT ![arg[r]] = TRUE]
        /\ Goto(r, "changed")
     \/ /\ linkOf[arg[r]] = NoUser
        /\ Goto(r, "denied")
        /\ UNCHANGED <<dbUsers, dbTokens, linkUsed>>
  /\ UNCHANGED <<now, linkOf, linkUntil, chalUntil, known, call>>

-----------------------------------------------------------------------------
(* The environment                                                         *)

\* UsersService.update with only is_active.
SetActive(u, b) ==
  /\ u \in exists \cap Administered /\ active[u] # b /\ ~Locked(u)
  /\ active' = [active EXCEPT ![u] = b]
  /\ UNCHANGED <<now, exists, pw, mustChange, dbTokens, dbLinks, chalUntil, known, pc, call>>

\* The process dies: what is in flight stops where it is, an open
\* transaction rolls back.
Crash ==
  /\ \E r \in Requests : InFlight(r)
  /\ pc' = [r \in Requests |-> IF InFlight(r) THEN "crashed" ELSE pc[r]]
  /\ UNCHANGED <<now, dbUsers, dbTokens, dbLinks, chalUntil, known, call>>

Tick ==
  /\ now < MaxTime
  /\ now' = now + 1
  /\ UNCHANGED <<dbUsers, dbTokens, dbLinks, chalUntil, known, pc, call>>

-----------------------------------------------------------------------------
Arrive(r) ==
  \/ \E u \in Users : \/ RegisterRead(r, u) \/ ForgotRead(r, u)
                      \/ \E typed \in 0 .. pw[u] :
                           Login(r, u, typed) \/ ChangeGuard(r, u, typed)
  \/ \E t \in Requests : \/ RefreshRead(r, t) \/ Logout(r, t) \/ ResetRead(r, t)
                         \/ \E ok \in BOOLEAN : LoginTwoFactor(r, t, ok)

Continue(r) ==
  \/ RegisterCreate(r) \/ Rotate(r)
  \/ CascadeSnapshot(r) \/ CascadeApply(r)
  \/ ChangeRead(r) \/ ChangeSweep(r) \/ ChangeCommit(r)
  \/ ForgotSweep(r) \/ ResetSweep(r) \/ ResetCommit(r)
  \/ \E delivered \in BOOLEAN : Issue(r, delivered) \/ ForgotCommit(r, delivered)

Next ==
  \/ \E r \in Requests : Arrive(r) \/ Continue(r)
  \/ \E u \in Users, b \in BOOLEAN : SetActive(u, b)
  \/ Crash
  \/ Tick

Spec == Init /\ [][Next]_vars

\* The event loop runs every handler whose await has settled, and the
\* database answers.  Clients, the clock and crashes are under no obligation.
FairSpec == Spec /\ \A r \in Requests : WF_vars(Continue(r))
-----------------------------------------------------------------------------
(* Properties                                                              *)

Moments == Nat \cup {Never}

\* The variables keep their shape: what every handler assumes of the rows.
TypeOK ==
  /\ now \in Nat /\ exists \subseteq Users /\ known \subseteq Requests
  /\ pw \in [Users -> Nat]
  /\ active \in [Users -> BOOLEAN] /\ mustChange \in [Users -> BOOLEAN]
  /\ owner \in [Requests -> Users \cup {NoUser}]
  /\ linkOf \in [Requests -> Users \cup {NoUser}]
  /\ acct \in [Requests -> Users \cup {NoUser}]
  /\ revoked \in [Requests -> BOOLEAN] /\ linkUsed \in [Requests -> BOOLEAN]
  /\ usedAt \in [Requests -> Moments] /\ expires \in [Requests -> Moments]
  /\ linkUntil \in [Requests -> Moments] /\ chalUntil \in [Requests -> Moments]
  /\ pc \in [Requests -> Labels]
  /\ arg \in [Requests -> Requests \cup {NoRow}]
  /\ gen \in [Requests -> Nat]
  /\ seen \in [Requests -> SUBSET Requests]

\* Rotation never forks a family in silence: whichever way refresh calls,
\* crashes, logouts and sweeps interleave, a session minted by a refresh has
\* a parent that is revoked AND stamped with used_at, so that presenting the
\* parent again is recognised as a reuse (refresh, lines 224-242).
ParentsAreSpent ==
  \A r \in Requests :
    owner[r] # NoUser /\ arg[r] # NoRow =>
      /\ revoked[arg[r]] /\ usedAt[arg[r]] # Never
      /\ owner[arg[r]] = owner[r]

\* A sweep that has taken effect - the cascade of a reuse, a password change,
\* a reset - has ended every session that existed when it looked, for good:
\* no refresh or logout suspended across it brings one back.
SweptSessionsStayDead ==
  \A r \in Requests :
    pc[r] \in {"changed", "cascaded"} => \A t \in seen[r] : revoked[t]

\* The sessions that end in one step belong to one account: no sweep, however
\* stale what it read, reaches into another account (the user_id of the
\* updateMany at 227, 275 and 323).
Ends(t) == ~revoked[t] /\ revoked'[t]
OneAccountPerStep ==
  [][\A s, t \in Requests :
       Ends(s) /\ Ends(t) => owner[s] = owner[t]]_vars

\* A session that nothing renews any more: its row has expired, or was revoked
\* and is past the grace of its last use, if it had any, and no refresh that
\* presented it is suspended.
Closed(t) ==
  /\ owner[t] # NoUser
  /\ expires[t] < now \/ (revoked[t] /\ ~WithinGrace(t))
  /\ \A r \in Requests : arg[r] = t => pc[r] \notin {"rotate", "issue"}

\* The rows of refresh_tokens, with the calls' interleaved awaits, sweeps and
\* crashes, keep the promises of SessionStore: a row renews the one that its
\* call presented, and one that is closed - by a logout or a password change
\* that no rotation preceded, by the end of its grace, by its expiry - is never
\* renewed again, though Rotate writes used_at by token_id alone (232-237).
Store ==
  INSTANCE SessionStore WITH
    Sessions <- Requests, Accounts <- Users, Nobody <- NoUser, NoParent <- NoRow,
    holder <- owner, ended <- revoked,
    closed <- [r \in Requests |-> Closed(r)],
    parent <- [r \in Requests |-> IF owner[r] = NoUser THEN NoRow ELSE arg[r]]
ImplementsStore == Store!Spec

\* must_change_password and the temporary password go together: the flag is
\* up exactly while the password the administrator handed out is in force,
\* through changePassword and resetPasswordWithToken alike.
TemporaryPasswordIsReplaced ==
  \A u \in Users : mustChange[u] <=> u \in TempPassword /\ pw[u] = 0

\* A reset that went through has left its link in the table, used: no newer
\* forgotPassword, whose deleteMany chose the link while it was unused, has
\* deleted the mark that stops the link from being used again (290-298).
ConsumedLinksRemain ==
  \A r \in Requests :
    pc[r] = "changed" /\ arg[r] # NoRow =>
      linkUsed[arg[r]] /\ linkOf[arg[r]] = acct[r]

\* A request for a link ends every link that it found: each is deleted, or was
\* used before it could be, and none comes back. Two links of an account live
\* together only if neither request found the other's (290-298).
FoundLinksAreDead ==
  \A r \in Requests :
    linkUntil[r] # Never =>
      \A k \in seen[r] : linkOf[k] = NoUser \/ linkUsed[k]

\* An account with two-factor authentication has no session whose login did
\* not pass through a challenge signed after the same password (133-139, 153).
TwoFactorSessionsHaveAChallenge ==
  \A r \in Requests :
    owner[r] \in TwoFactor =>
      \E c \in Requests : chalUntil[c] # Never /\ acct[c] = owner[r] /\ gen[c] = gen[r]

\* Every call is answered, or dies with the process: no handler waits for
\* ever on a row lock or on another call.
CallsAreAnswered ==
  \A r \in Requests : InFlight(r) ~> pc[r] \in Answered

-----------------------------------------------------------------------------
(* The inductive invariant behind the safety properties                    *)

\* A call has created nothing before it arrives, and acts for one account
\* from then on.
CallShape ==
  \A r \in Requests :
    IF pc[r] = "idle"
    THEN /\ owner[r] = NoUser /\ linkOf[r] = NoUser /\ arg[r] = NoRow
         /\ linkUntil[r] = Never /\ chalUntil[r] = Never
    ELSE acct[r] \in Users

\* A row belongs to the account its call acted for.
RowsOfTheirCalls ==
  \A r \in Requests :
    /\ owner[r] # NoUser => owner[r] = acct[r] /\ pc[r] = "done"
    /\ linkOf[r] # NoUser => linkOf[r] = acct[r]

\* Only rows are revoked.
RevokedRowsExist == \A r \in Requests : revoked[r] => owner[r] # NoUser

\* What a refresh knows of its parent, suspended at each of its awaits.
RefreshLineage ==
  \A r \in Requests :
    /\ pc[r] = "create" => arg[r] = NoRow
    /\ pc[r] = "rotate" => arg[r] # NoRow /\ owner[arg[r]] = acct[r]
    /\ arg[r] # NoRow /\ (pc[r] = "issue" \/ owner[r] # NoUser) =>
         /\ revoked[arg[r]] /\ usedAt[arg[r]] # Never
         /\ owner[arg[r]] = acct[r]

\* A suspended sweep holds rows of its own account only.
SweepsOfOneAccount ==
  \A r \in Requests :
    pc[r] \in {"cascadeApply", "changeCommit", "resetCommit"} =>
      \A t \in seen[r] : owner[t] = acct[r]

\* A reset acts for the account its link was made for; changePassword
\* presents no link.
ResetsPresentLinks ==
  \A r \in Requests :
    /\ pc[r] \in {"authorized", "change", "changeCommit"} => arg[r] = NoRow
    /\ pc[r] \in {"reset", "resetCommit"} => arg[r] # NoRow
    /\ pc[r] \in {"reset", "resetCommit", "changed"} /\ arg[r] # NoRow =>
         acct[arg[r]] = acct[r] /\ pc[arg[r]] # "idle"

\* A link is there once the call that asked for it is done; what a call is
\* about to delete are such links.
LinksOfTheirCalls ==
  \A r \in Requests :
    /\ linkOf[r] # NoUser => linkUntil[r] # Never
    /\ linkUntil[r] # Never => pc[r] = "done"
    /\ pc[r] = "relinkCommit" \/ linkUntil[r] # Never =>
         \A k \in seen[r] : linkUntil[k] # Never

\* The challenge behind a session exists before the session does.
ChallengeFirst ==
  /\ Registered \subseteq exists
  /\ \A r \in Requests :
       /\ acct[r] \in TwoFactor
       /\ pc[r] \in {"issue", "rotate"} \/ owner[r] # NoUser
       => \E c \in Requests :
            chalUntil[c] # Never /\ acct[c] = acct[r] /\ gen[c] = gen[r]

SessionsInv ==
  /\ TypeOK /\ CallShape /\ RowsOfTheirCalls /\ RevokedRowsExist /\ RefreshLineage
  /\ SweepsOfOneAccount /\ SweptSessionsStayDead
  /\ ResetsPresentLinks /\ ConsumedLinksRemain
  /\ LinksOfTheirCalls /\ FoundLinksAreDead
  /\ TemporaryPasswordIsReplaced /\ ChallengeFirst

-----------------------------------------------------------------------------
(* What the comments and the documents say, and the code does not do       *)

\* A refresh call admitted in this step presents token t.
Admitted(r, t) ==
  pc[r] = "idle" /\ pc'[r] \in {"rotate", "issue"} /\ arg'[r] = t /\ t # NoRow

\* auth.service.ts:255-259: after a password change whoever had a session
\* open with the old password "queda fuera en su proximo intento de refresh".
PasswordChangeIsFinal ==
  [][\A r \in Requests, t \in Requests :
       Admitted(r, t) => gen[t] = pw[owner[t]]]_vars

\* PRUEBAS_SEGURIDAD.md:86-98: the refresh that presents the same token after
\* a logout is answered 401.
LogoutIsFinal ==
  [][\A r \in Requests, l \in Requests :
       pc[l] = "loggedOut" => ~Admitted(r, arg[l])]_vars

\* auth.service.ts:306: the link of the mail is "un solo uso".
LinkSetsOnePassword ==
  \A r, s \in Requests :
    pc[r] = "changed" /\ pc[s] = "changed" /\ arg[r] = arg[s] /\ arg[r] # NoRow
      => r = s

\* schema.prisma:125-129: "nunca queden 2 links vivos al mismo tiempo".
LiveLink(k) == linkOf[k] # NoUser /\ ~linkUsed[k] /\ linkUntil[k] >= now
OneLiveLink ==
  \A k, m \in Requests :
    LiveLink(k) /\ LiveLink(m) /\ linkOf[k] = linkOf[m] => k = m

\* auth.service.ts:198-205: the cascade answers a token that "ya se uso
\* antes", the sign that somebody else has used it.
CascadeNeedsAReuse ==
  \A r \in Requests : pc[r] = "cascade" => usedAt[arg[r]] # Never
=============================================================================
