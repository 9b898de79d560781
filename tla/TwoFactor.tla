----------------------------- MODULE TwoFactor -----------------------------
(***************************************************************************)
(* Two-factor authentication of an account: TwoFactorService (setup,       *)
(* confirmSetup, disable, regenerateRecoveryCodes) and the third step of   *)
(* the login, which admits a TOTP code or a recovery code.                 *)
(*                                                                         *)
(* Calls, awaits and rows are treated as in Sessions: an action is the     *)
(* code between two database effects, what a call read stays in its own    *)
(* variables, a deleteMany chooses its rows and deletes them at the        *)
(* commit.  A TOTP secret is named by the setup call that generated it,    *)
(* and a batch of recovery codes by the call that created it: createMany   *)
(* inserts the codes of a batch together and deleteMany by user_id takes   *)
(* them all.  A code that a client types is right for exactly one secret   *)
(* or one row, or for none.                                                *)
(***************************************************************************)
EXTENDS Naturals

CONSTANTS
  Users,          \* the accounts
  Requests,       \* the HTTP calls of a behaviour
  Calls,          \* Calls[r]: the endpoints call r may be a call of
  Codes,          \* the codes of a batch (RECOVERY_CODES_COUNT of them)
  NoUser, NoRow   \* no account; no secret, no batch

Endpoints == {"setup", "confirm", "disable", "regenerate", "login"}

ASSUME TwoFactorAssumption ==
  /\ NoUser \notin Users /\ NoRow \notin Requests
  /\ Calls \in [Requests -> SUBSET Endpoints]

VARIABLES
  enabled,    \* users.totp_enabled
  secret,     \* users.totp_secret_encrypted: the setup that generated it
  batchOf,    \* the account whose totp_recovery_codes call r's batch is in
  used,       \* the codes of a batch with used_at set
  pc, acct,   \* where a call is suspended, and for which account
  arg,        \* the secret or the batch a call's code is right for
  code,       \* ... and which code of the batch
  seen        \* the batches a deleteMany has chosen

account == <<enabled, secret>>
rows == <<batchOf, used>>
call == <<acct, arg, code, seen>>
vars == <<account, rows, pc, call>>

Labels == {"idle", "generate", "activate", "activateCommit", "disable",
           "disableCommit", "regenerate", "regenerateCommit", "find", "spend",
           "shown", "confirmed", "disabled", "regenerated", "admitted",
           "denied", "crashed"}
Answered == {"shown", "confirmed", "disabled", "regenerated", "admitted",
             "denied", "crashed"}
InFlight(r) == pc[r] \notin Answered \cup {"idle"}

Init ==
  /\ enabled = [u \in Users |-> FALSE]
  /\ secret = [u \in Users |-> NoRow]
  /\ batchOf = [r \in Requests |-> NoUser]
  /\ used = [r \in Requests |-> {}]
  /\ pc = [r \in Requests |-> "idle"]
  /\ acct = [r \in Requests |-> NoUser]
  /\ arg = [r \in Requests |-> NoRow]
  /\ code = [r \in Requests |-> NoRow]
  /\ seen = [r \in Requests |-> {}]

Goto(r, label) == pc' = [pc EXCEPT ![r] = label]

\* A call arrives for account u.
Begins(r, endpoint, u) ==
  /\ pc[r] = "idle" /\ endpoint \in Calls[r]
  /\ acct' = [acct EXCEPT ![r] = u]

\* A transaction that has updated the row of users keeps it until it commits.
Locked(u) ==
  \E r \in Requests :
    pc[r] \in {"activateCommit", "disableCommit"} /\ acct[r] = u

\* totp_recovery_codes.deleteMany({where: {user_id}}): what it chooses ...
Choose(r) == seen' = [seen EXCEPT ![r] = {b \in Requests : batchOf[b] = acct[r]}]

\* Mutant: the deleteMany keeps a batch of which a code has been used.
ReplaceUnused(r) ==
  batchOf' = [b \in Requests |->
                IF b = r THEN acct[r]
                ELSE IF b \in seen[r] /\ used[b] = {} THEN NoUser
                ELSE batchOf[b]]

\* Mutant: the createMany comes first, and the deleteMany takes its codes too.
ReplaceItself(r) ==
  batchOf' = [b \in Requests |-> IF b \in seen[r] \cup {r} THEN NoUser ELSE batchOf[b]]

\* ... and the effect at the commit, with the createMany of a new batch.
Replace(r) ==
  batchOf' = [b \in Requests |-> IF b = r THEN acct[r]
                                 ELSE IF b \in seen[r] THEN NoUser
                                 ELSE batchOf[b]]

-----------------------------------------------------------------------------
(* setup: reads totp_enabled, then writes a new secret by user_id          *)

SetupRead(r, u) ==
  /\ Begins(r, "setup", u)
  /\ Goto(r, IF enabled[u] THEN "denied" ELSE "generate")
  /\ UNCHANGED <<account, rows, arg, code, seen>>

\* Mutant: the id of the account is encrypted in the place of the secret.
SetupWriteAccount(r) ==
  /\ pc[r] = "generate" /\ ~Locked(acct[r])
  /\ secret' = [secret EXCEPT ![acct[r]] = acct[r]]
  /\ Goto(r, "shown")
  /\ UNCHANGED <<enabled, rows, call>>

SetupWrite(r) ==
  /\ pc[r] = "generate" /\ ~Locked(acct[r])
  /\ secret' = [secret EXCEPT ![acct[r]] = r]
  /\ Goto(r, "shown")
  /\ UNCHANGED <<enabled, rows, call>>

-----------------------------------------------------------------------------
(* confirmSetup: the code is checked against the secret read at the start; *)
(* the hashing of the new codes is awaited before the transaction.         *)

ConfirmRead(r, u, s) ==
  /\ Begins(r, "confirm", u)
  /\ arg' = [arg EXCEPT ![r] = s]
  /\ Goto(r, IF secret[u] # NoRow /\ secret[u] = s THEN "activate" ELSE "denied")
  /\ UNCHANGED <<account, rows, code, seen>>

ConfirmSweep(r) ==
  /\ pc[r] = "activate" /\ ~Locked(acct[r])
  /\ Choose(r)
  /\ Goto(r, "activateCommit")
  /\ UNCHANGED <<account, rows, acct, arg, code>>

\* The update writes totp_enabled alone, whatever secret the row has by now.
ConfirmCommit(r) ==
  /\ pc[r] = "activateCommit"
  /\ enabled' = [enabled EXCEPT ![acct[r]] = TRUE]
  /\ Replace(r)
  /\ Goto(r, "confirmed")
  /\ UNCHANGED <<secret, used, call>>

-----------------------------------------------------------------------------
(* disable                                                                 *)

DisableRead(r, u, passwordOk) ==
  /\ Begins(r, "disable", u)
  /\ Goto(r, IF passwordOk THEN "disable" ELSE "denied")
  /\ UNCHANGED <<account, rows, arg, code, seen>>

\* Mutant: the deleteMany before the update: nothing is locked yet.
DisableSweepUnlocked(r) ==
  /\ pc[r] = "disable"
  /\ Choose(r)
  /\ Goto(r, "disableCommit")
  /\ UNCHANGED <<account, rows, acct, arg, code>>

DisableSweep(r) ==
  /\ pc[r] = "disable" /\ ~Locked(acct[r])
  /\ Choose(r)
  /\ Goto(r, "disableCommit")
  /\ UNCHANGED <<account, rows, acct, arg, code>>

DisableCommit(r) ==
  /\ pc[r] = "disableCommit"
  /\ enabled' = [enabled EXCEPT ![acct[r]] = FALSE]
  /\ secret' = [secret EXCEPT ![acct[r]] = NoRow]
  /\ batchOf' = [b \in Requests |-> IF b \in seen[r] THEN NoUser ELSE batchOf[b]]
  /\ Goto(r, "disabled")
  /\ UNCHANGED <<used, call>>

-----------------------------------------------------------------------------
(* regenerateRecoveryCodes: its transaction does not touch users           *)

RegenerateRead(r, u, passwordOk) ==
  /\ Begins(r, "regenerate", u)
  /\ Goto(r, IF enabled[u] /\ passwordOk THEN "regenerate" ELSE "denied")
  /\ UNCHANGED <<account, rows, arg, code, seen>>

\* Mutant: deleteMany on its own, outside a transaction.
RegenerateSweepAlone(r) ==
  /\ pc[r] = "regenerate"
  /\ Choose(r)
  /\ batchOf' = [b \in Requests |-> IF batchOf[b] = acct[r] THEN NoUser ELSE batchOf[b]]
  /\ Goto(r, "regenerateCommit")
  /\ UNCHANGED <<account, used, acct, arg, code>>

RegenerateSweep(r) ==
  /\ pc[r] = "regenerate"
  /\ Choose(r)
  /\ Goto(r, "regenerateCommit")
  /\ UNCHANGED <<account, rows, acct, arg, code>>

RegenerateCommit(r) ==
  /\ pc[r] = "regenerateCommit"
  /\ Replace(r)
  /\ Goto(r, "regenerated")
  /\ UNCHANGED <<account, used, call>>

-----------------------------------------------------------------------------
(* loginStep3 and tryConsumeRecoveryCode                                   *)

\* A code that is right for secret s.
LoginTotp(r, u, s) ==
  /\ Begins(r, "login", u)
  /\ Goto(r, IF enabled[u] /\ secret[u] = s THEN "admitted" ELSE "denied")
  /\ UNCHANGED <<account, rows, arg, code, seen>>

\* A code that is no TOTP: code c of batch b.
LoginCode(r, u, b, c) ==
  /\ Begins(r, "login", u)
  /\ arg' = [arg EXCEPT ![r] = b]
  /\ code' = [code EXCEPT ![r] = c]
  /\ Goto(r, IF enabled[u] /\ secret[u] # NoRow THEN "find" ELSE "denied")
  /\ UNCHANGED <<account, rows, seen>>

\* Mutant: the findMany does not ask for used_at: null.
FindAnyCode(r) ==
  /\ pc[r] = "find"
  /\ Goto(r, IF batchOf[arg[r]] = acct[r] THEN "spend" ELSE "denied")
  /\ UNCHANGED <<account, rows, call>>

\* findMany({where: {user_id, used_at: null}}), then bcrypt.compare in turn.
FindCode(r) ==
  /\ pc[r] = "find"
  /\ LET found == batchOf[arg[r]] = acct[r] /\ code[r] \notin used[arg[r]]
     IN Goto(r, IF found THEN "spend" ELSE "denied")
  /\ UNCHANGED <<account, rows, call>>

\* Mutant: admitted before, and whether or not, the row is marked.
SpendNothing(r) ==
  /\ pc[r] = "spend"
  /\ Goto(r, "admitted")
  /\ UNCHANGED <<account, rows, call>>

\* Mutant: the failure of the update is not seen, and the call waits.
SpendCodeWaiting(r) ==
  /\ pc[r] = "spend" /\ batchOf[arg[r]] # NoUser
  /\ used' = [used EXCEPT ![arg[r]] = @ \cup {code[r]}]
  /\ Goto(r, "admitted")
  /\ UNCHANGED <<account, batchOf, call>>

\* The update is by code_id: used_at is not looked at again, and a row that
\* is gone makes it fail (P2025).
SpendCode(r) ==
  /\ pc[r] = "spend"
  /\ \/ /\ batchOf[arg[r]] # NoUser
        /\ used' = [used EXCEPT ![arg[r]] = @ \cup {code[r]}]
        /\ Goto(r, "admitted")
     \/ /\ batchOf[arg[r]] = NoUser
        /\ Goto(r, "denied")
        /\ UNCHANGED used
  /\ UNCHANGED <<account, batchOf, call>>

-----------------------------------------------------------------------------
\* What a client can type a code of: a secret or a batch it was shown.
Shown(r) == pc[r] \in {"shown", "confirmed", "regenerated"}

Arrive(r) ==
  \E u \in Users :
    \/ SetupRead(r, u)
    \/ \E ok \in BOOLEAN : DisableRead(r, u, ok) \/ RegenerateRead(r, u, ok)
    \/ \E s \in Requests :
         Shown(s) /\ \/ ConfirmRead(r, u, s) \/ LoginTotp(r, u, s)
                     \/ \E c \in Codes : LoginCode(r, u, s, c)

Continue(r) ==
  \/ SetupWrite(r) \/ ConfirmSweep(r) \/ ConfirmCommit(r)
  \/ DisableSweep(r) \/ DisableCommit(r)
  \/ RegenerateSweep(r) \/ RegenerateCommit(r)
  \/ FindCode(r) \/ SpendCode(r)

\* The process dies; an open transaction rolls back.
Crash ==
  /\ \E r \in Requests : InFlight(r)
  /\ pc' = [r \in Requests |-> IF InFlight(r) THEN "crashed" ELSE pc[r]]
  /\ UNCHANGED <<account, rows, call>>

Next == (\E r \in Requests : Arrive(r) \/ Continue(r)) \/ Crash

Spec == Init /\ [][Next]_vars
FairSpec == Spec /\ \A r \in Requests : WF_vars(Continue(r))

-----------------------------------------------------------------------------
(* Properties                                                              *)

TypeOK ==
  /\ enabled \in [Users -> BOOLEAN]
  /\ secret \in [Users -> Requests \cup {NoRow}]
  /\ batchOf \in [Requests -> Users \cup {NoUser}]
  /\ used \in [Requests -> SUBSET Codes]
  /\ pc \in [Requests -> Labels]
  /\ acct \in [Requests -> Users \cup {NoUser}]
  /\ arg \in [Requests -> Requests \cup {NoRow}]
  /\ code \in [Requests -> Codes \cup {NoRow}]
  /\ seen \in [Requests -> SUBSET Requests]

\* A lost phone never means a lost account: while 2FA is active there is a
\* batch of recovery codes, whichever way confirmations, regenerations and
\* crashes interleave (the batches of 70-76 and 119-122 are transactions).
EnabledAccountHasCodes ==
  \A u \in Users : enabled[u] => \E b \in Requests : batchOf[b] = u

\* Codes that a confirmation, a regeneration or a disable has replaced are
\* gone for good: no call suspended across it brings them back (72, 94, 120).
ReplacedCodesStayDead ==
  \A r \in Requests :
    pc[r] \in {"confirmed", "disabled", "regenerated"} =>
      \A b \in seen[r] : batchOf[b] = NoUser

\* An account without 2FA keeps no code that an activation handed out: disable
\* deletes under the lock of the row of users, so no activation can slip its
\* codes in behind the deleteMany (93-95).
DisableLeavesNoActivationCodes ==
  \A b \in Requests :
    pc[b] = "confirmed" /\ batchOf[b] # NoUser => enabled[batchOf[b]]

\* A login admitted by a recovery code has spent it: its row is marked, or
\* deleted, from then on (186-195).
AdmissionSpendsItsCode ==
  \A r \in Requests :
    pc[r] = "admitted" /\ arg[r] # NoRow =>
      code[r] \in used[arg[r]] \/ batchOf[arg[r]] = NoUser

\* A batch that has been handed out, a login that a code has admitted, and a
\* code that is marked and that no login still holds for unused.
Issued(b) == pc[b] \in {"confirmed", "regenerated"}
Admitted(r) == pc[r] = "admitted" /\ arg[r] # NoRow
Held(b, k) == \E r \in Requests : pc[r] = "spend" /\ arg[r] = b /\ code[r] = k

\* The calls, their transactions and the logins suspended between the read of
\* the codes and the mark (186-195) keep the promises of CodeBook: a code
\* admits only to the account whose batch it is in, not once the batch was
\* replaced, and not once the logins that had found it unused are done.
Book ==
  INSTANCE CodeBook WITH
    Logins <- Requests, Accounts <- Users, Batches <- Requests, Nobody <- NoUser,
    issued <- [b \in Requests |-> Issued(b)],
    home <- batchOf,
    spent <- [b \in Requests |-> {k \in used[b] : ~Held(b, k)}],
    admissions <- {<<r, acct[r], arg[r], code[r]>> : r \in {s \in Requests : Admitted(s)}}
ImplementsBook == Book!Spec

\* Every call is answered or dies with the process.
CallsAreAnswered == \A r \in Requests : InFlight(r) ~> pc[r] \in Answered

-----------------------------------------------------------------------------
(* The inductive invariant behind them                                     *)

\* A call acts for one account, a suspended login for a row that was shown.
CallShape ==
  \A r \in Requests :
    /\ pc[r] = "idle" => arg[r] = NoRow /\ seen[r] = {}
    /\ pc[r] # "idle" => acct[r] \in Users
    /\ pc[r] \in {"find", "spend"} => arg[r] # NoRow /\ code[r] \in Codes
    /\ pc[r] \in {"find", "spend", "admitted"} /\ arg[r] # NoRow => Shown(arg[r])

\* A batch appears at the commit of its call, and belongs to its account.
BatchesOfTheirCalls ==
  \A b \in Requests :
    /\ batchOf[b] # NoUser =>
         batchOf[b] = acct[b] /\ pc[b] \in {"confirmed", "regenerated"}
    /\ \A r \in Requests :
         b \in seen[r] => pc[b] \in {"confirmed", "regenerated"} /\ acct[b] = acct[r]

\* The lock of the row of users has one holder.
OneHolder ==
  \A r, s \in Requests :
    /\ pc[r] \in {"activateCommit", "disableCommit"}
    /\ pc[s] \in {"activateCommit", "disableCommit"}
    /\ acct[r] = acct[s]
    => r = s

\* A disable about to commit has chosen every batch of an activation.
DisableSeesActivations ==
  \A d, b \in Requests :
    pc[d] = "disableCommit" /\ pc[b] = "confirmed" /\ batchOf[b] = acct[d]
      => b \in seen[d]

\* A login about to mark a row has found it in the batch of its own account.
LoginsOfTheirBatches ==
  \A r \in Requests : pc[r] = "spend" => acct[arg[r]] = acct[r]

\* A row is marked by a login that it has admitted.
MarksOfAdmissions ==
  \A b \in Requests : \A k \in used[b] :
    \E r \in Requests : pc[r] = "admitted" /\ arg[r] = b /\ code[r] = k

TwoFactorInv ==
  /\ TypeOK /\ CallShape /\ BatchesOfTheirCalls /\ OneHolder
  /\ DisableSeesActivations /\ LoginsOfTheirBatches /\ MarksOfAdmissions
  /\ EnabledAccountHasCodes
  /\ ReplacedCodesStayDead /\ DisableLeavesNoActivationCodes
  /\ AdmissionSpendsItsCode

-----------------------------------------------------------------------------
(* What the comments say, and the code does not do                         *)

\* two-factor.service.ts:53-58: 2FA is activated only if the code matches the
\* pending secret: the secret of an account with 2FA active is one that a
\* code has confirmed.
ActiveSecretIsConfirmed ==
  \A u \in Users :
    enabled[u] => \E c \in Requests :
                    pc[c] = "confirmed" /\ acct[c] = u /\ arg[c] = secret[u]

\* auth.service.ts:185: a recovery code is "un solo uso real, nunca se puede
\* reutilizar".
RecoveryCodeAdmitsOnce ==
  \A r, s \in Requests :
    /\ pc[r] = "admitted" /\ arg[r] # NoRow /\ pc[s] = "admitted"
    /\ arg[r] = arg[s] /\ code[r] = code[s]
    => r = s
=============================================================================
