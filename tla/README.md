# OmniUser: a TLA+ verification development

OmniUser is a service of accounts and sessions: a NestJS backend
(`src/omniuser_backend`) over PostgreSQL (Prisma) and Redis, and a Next.js
frontend (`src/omniuser_frontend`). This directory holds TLA+ models of its
backend and of its frontend, the TLC configurations that check them on small
instances, and theorems about them with proofs that TLAPS checks.

To check a model, `tlc -config MCSessionsRotation.cfg MCSessions` (and so on,
see "Runs"); to check the proofs, `tlapm SessionsProofs.tla`, and the same for
the other modules whose name ends in `Proofs`.

## 1. Inventory

`AuthService` is in `omniuser_backend/src/auth/auth.service.ts`, and so on for
the others; line numbers below are those of the files.

| Component | State it keeps | Operations | What makes it correct |
|---|---|---|---|
| Sessions (`AuthService`) | `users` (password hash, `is_active`, `must_change_password`), `refresh_tokens` (owner, `revoked`, `used_at`, `expires_at`), `password_reset_tokens` (owner, `used_at`, `expires_at`), and the JWTs and challenge tokens that clients hold | `register`, `loginStep1..3`, `refresh`, `logout`, `changePassword`, `forgotPassword`, `resetPasswordWithToken` | every use of a refresh token leaves a trace; a sweep of sessions is final; no session skips the second factor; a reset link works once; a temporary password is replaced |
| Guards (`JwtStrategy`, `JwtAuthGuard`, `RolesGuard`) | none; they read the actor's row on each call | `validate`, `handleRequest`, `canActivate` | no inactive account, no account with a pending temporary password and no account without the role passes |
| Users administration (`UsersService`) | `users` (`role_id`, `is_active`) | `create`, `update`, `findAll` | an account is handled only from strictly above; the max_count of a role holds; no account without a role |
| Roles administration (`RolesService`) | `roles` (`level`, `max_count`, `is_system`) | `create`, `update`, `remove`, `findAll` | the seeded roles never change; a role in use is not removed; roles are handled from above |
| Two-factor setup (`TwoFactorService`) | `users.totp_enabled`, `totp_secret_encrypted`; `totp_recovery_codes` | `setup`, `confirmSetup`, `disable`, `regenerateRecoveryCodes`; `tryConsumeRecoveryCode` of `AuthService` | what is enabled was confirmed; an account with 2FA always has codes; replaced codes are dead; a recovery code that admitted is spent |
| Security events (`SecurityEventsService`) | Redis counters with an expiry, Redis flags of alerts sent; `security_events` | `recordFailedLogin`, `recordFailedTwoFactor`, `recordRefreshTokenReuse` | one alert per window and subject; no occurrence lost or counted twice; a row has its failures behind it; a counter expires |
| Mail (`MailService`) | none | `send` (never throws, may fail), `notifyRoles` | - |
| Rate limits | third-party counters in Redis | - | - |
| Frontend navigation (`proxy.ts`, `lib/api.ts`, the layouts and pages) | the cookies of the browser; per tab its page and the layout it keeps | loading a document, following a link, redirects, server actions | the cookies are of one account; a temporary password sees only its form; redirects end |
| Frontend forms (login in three steps, registration, password, logout) | step and fields of the form, the call it awaits | submit, answer | a late or lost answer leaves cookies and pages consistent |
| Two-factor panel (`two-factor-panel.tsx`) | what it takes `totp_enabled` for, its face, QR code and recovery codes, the call it awaits | start, confirm, disable, "Ya los guardé" | it is wrong only about what it could not know; the codes it shows are live; its buttons come back |

Interactions. The controllers call the services; every handler is an async
function of one Node process, so that any other call may run at each `await`.
The services share only database rows. `UsersService.create`/`update` and
`changePassword`/`resetPasswordWithToken` all write `users`; the guards read
`users` and `roles`; `refresh` reports a reuse to `SecurityEventsService`;
`forgotPassword`, `UsersService.create` and a new security event send mail. The
reports to `SecurityEventsService` are not awaited, so they overlap with
everything. The frontend asks `/auth/me` from the layout and again from the
page; its forms call the backend directly, and the answers carry the cookies
that every tab of the browser shares. A client holds the access
JWT (checked by signature and expiry, then against the live row), the refresh
token (a row, presented in the clear and looked up by its hash), the challenge
of a two-step login (a signed token) and the link of a reset mail.

What is hard, and hard to test. Each check of a row is one statement and the
write that relies on it another, with bcrypt or another query in between:
rotation and the sweeps that revoke sessions, the single use of a link, the
count behind `max_count`, the level of an account or a role. Batch
transactions run under READ COMMITTED, so that the rows a `updateMany` or
`deleteMany` picks are not all the rows that match when it commits. The grace
window of rotation lets a revoked token through on purpose. The process may
die between two statements and an answer may be lost. The counters of Redis,
the row of a window and the flag of its alert are three effects with three
clocks. In the frontend, what a page was let in by (a cookie, a layout, a copy
of `totp_enabled` in React's state) is older than what it shows. `PROJECT.json` lists
each hazard at its line, with the properties that guard it, or with a note that
the code does not prevent it and nothing here claims so.

## 2. Modules

| Module | What it is |
|---|---|
| `SessionStore` | the abstract promise of the table of refresh tokens: a session is opened once, for one account; one that renews another is of the same account and opened when the other has ended but has not been *closed*; what ends together is of one account; ended and closed are for good. A session is closed when nothing may renew it any more: its row expired, or was revoked and is past the grace of its last use, and no refresh that presented it is suspended |
| `CodeBook` | the abstract promise of the recovery codes: a batch is handed out once, to one account, in the place of batches of that account alone, and what is taken back stays so; a code admits a login only to the account its batch is in, and not once it is *spent*: marked, and no longer held by a login that had found it unused |
| `Hierarchy` | the abstract promise of the administration: every change of an account or a role is made under a mandate of its own, which the guards gave an active manager with his level of then, and concerns an account and a role that were seen below that level; a role in use or a seeded one stays |
| `AlertLog` | the abstract promise of the security events: an event is opened once, on as many failures of its subject as it claims, further records add one each, and one call tells each administrator of it once |
| `Sessions` | `AuthService`: state, one action per stretch of code between two database effects, the properties, the inductive invariant, and the mapping to `SessionStore` (`Store`) |
| `Administration` | the guards, `UsersService` and `RolesService`, and the mapping to `Hierarchy` (`Chain`) |
| `TwoFactor` | `TwoFactorService`, and the third step of the login with its recovery codes, and the mapping to `CodeBook` (`Book`) |
| `TwoFactorPanel` | extends `TwoFactor` with the tabs that show the two-factor panel: the composition of a client with the backend it calls |
| `SecurityEvents` | `SecurityEventsService`, with the operations of Redis it uses and `MailService.notifyRoles`, and the mapping to `AlertLog` (`Log`) |
| `Navigation` | the proxy, layouts, pages and forms of the frontend, over the cookies `AuthController` sets and the answers of the guards |
| `SessionsProofs`, `AdministrationProofs`, `TwoFactorProofs`, `TwoFactorPanelProofs`, `SecurityEventsProofs`, `NavigationProofs` | the theorems of the module each is named after |
| `MCSessions`, `MCAdministration`, `MCTwoFactor`, `MCTwoFactorPanel`, `MCSecurityEvents`, `MCNavigation` | its instances for TLC |

### How the state corresponds to the code

*Sessions.* Tables are functions. A row is named by the call that creates it:
`owner[r]`, `revoked[r]`, `usedAt[r]`, `expires[r]` are the refresh token that
call `r` mints, `linkOf[r]`, `linkUsed[r]`, `linkUntil[r]` the reset link it
creates, `chalUntil[r]` the challenge it signs. A call creates at most one of
each, so nothing is lost, and no identifier has to be generated. `known` is the
set of calls whose answer (or mail) arrived: a client presents what it knows,
and may present it at any time, any number of times. A password is a number,
its *generation*: how often it was replaced. A login types any generation the
account has had. `pc[r]` says where the handler is suspended, and `acct`,
`arg`, `gen`, `seen` are its local variables, stale like those of the code.

*Administration.* `roles`, `level`, `cap` are the table of roles, `roleOf`,
`active`, `mustChange` the columns of `users` it needs. `actor` and `rank` are
what the guards hand to the controller (`actor.roleLevel`); `target`, `role`,
`isActive`, `newLevel`, `newCap` the fields of the dto and what the handler
read. `Keep` is a field absent from the dto, `NoCap` as a max_count an explicit
null, which lifts it. The dto is chosen at the handler's
first read, which is the first step that looks at it.

*TwoFactor.* `enabled[u]` and `secret[u]` are columns of `users`. A secret is
named by the `setup` call that generated it, a batch of recovery codes by the
call that created it: `batchOf[r]` is the account whose table holds the batch of
call `r` (`createMany` inserts a batch together, `deleteMany` by `user_id` takes
whole batches), `used[r]` the codes of it with `used_at`. `seen[r]` is what a
`deleteMany` has chosen. A typed code is right for one secret, or for one code
of one batch.

*TwoFactorPanel.* Per tab, React's state: `says` (`enabled`), `step`
(`setupState`), `qr`, `codes`, and `waits`, the call behind `pending`. `missed`
is a history variable: the account changed by a call the tab did not await, or
the answer that would have told was lost.

*SecurityEvents.* A subject is a type with its identifier. `counter` and
`deadline` are a key of Redis and its expiry (0: none), `flagUntil` the key of
the alert, `occurrences` and `attempts` the row of a fingerprint, that is of a
subject and a bucket of time. Per call: what it records, the answer of its INCR,
its bucket, and whom it has mailed (`told`) or has yet to (`pending`).

*Navigation.* One browser. `access`, `refresh` and `challenge` are its cookies,
each with the account and the instant it expires; `role`, `active`,
`mustChange` the accounts. Per tab: `page`, `shell` (the layout it keeps and the
account it was made for), `step` (of the login form), the load under way
(`stage`, `going`, `sent`, `hops`) and `answer`, what its form will be answered.
`steady` is a history variable: since the visit there was no 401 and no change
of the session cookies.

### How the actions correspond to the code

| Code | Actions |
|---|---|
| `register` 71-90 | `RegisterRead`, `RegisterCreate`, `Issue` |
| `loginStep2` 112-141 | `Login`, `Issue` |
| `loginStep3` 153-183 | `LoginTwoFactor`, `Issue` |
| `refresh` 209-242 | `RefreshRead`, `Rotate`, `CascadeSnapshot`, `CascadeApply`, `Issue` |
| `logout` 246-253 | `Logout` |
| `changePassword` 263-277 | `ChangeGuard` (`JwtStrategy.validate`), `ChangeRead`, `ChangeSweep`, `ChangeCommit` |
| `forgotPassword` 285-303 | `ForgotRead`, `ForgotSweep`, `ForgotCommit` |
| `resetPasswordWithToken` 312-325 | `ResetRead`, `ResetSweep`, `ResetCommit` |
| `issueTokenPair` 355-383 | `Issue` |
| guards of the administrative routes | `Guard` |
| `UsersService.create` 55-77 | `CreateUserAssert`, `CountActive`, `InsertUser` |
| `UsersService.update` 84-104 | `UpdateUserRead`, `UpdateUserAssert`, `CountActive`, `UpdateUserWrite` |
| `RolesService.create` 37-54 | `CreateRole` |
| `RolesService.update` 60-79 | `UpdateRoleRead`, `UpdateRoleWrite` |
| `RolesService.remove` 84-94 | `RemoveRoleRead`, `RemoveRoleDelete` |
| `TwoFactorService.setup` 36-48 | `SetupRead`, `SetupWrite` |
| `confirmSetup` 59-80 | `ConfirmRead`, `ConfirmSweep`, `ConfirmCommit` |
| `disable` 90-100 | `DisableRead`, `DisableSweep`, `DisableCommit` |
| `regenerateRecoveryCodes` 109-124 | `RegenerateRead`, `RegenerateSweep`, `RegenerateCommit` |
| `loginStep3` 168-183, `tryConsumeRecoveryCode` 186-195 | `LoginTotp`, `LoginCode`, `FindCode`, `SpendCode` |
| `recordFailedLogin` 47-59, `recordFailedTwoFactor` 66-78 | `CountFailure`, `SetExpiry`, `CrossThreshold` |
| `recordRefreshTokenReuse` 81-88 | `RecordReuse` |
| `upsertAndMaybeAlert` 90-121 | `FindRow`, `UpdateRow`, `CreateRow`, `SetFlag` |
| `MailService.notifyRoles` 61-69, `send` 39-52 | `FindRecipients`, `Send`, `SendDone` |
| `proxy.ts` 20-35 | `Proxy` |
| `AdminLayout` 20-27, `CuentaLayout` | `Layout` |
| the pages' `/auth/me`, then `/users` and `/roles` | `Page`, `Lists` |
| `login-form.tsx` 26-75 | `SubmitEmail`, `SubmitPassword`, `SubmitCode`, `Arrives`, `Fails` |
| the forms of registration and password, the logout button | `Register`, `ChangePassword`, `Logout`, `Arrives`, `Fails` |
| `AuthController` 137-171 | `SetSessionCookies`, `SetAccess` |
| `admin/usuarios/actions.ts` | `ServerAction` |
| `cuenta/2fa/page.tsx` | `Load` |
| `two-factor-panel.tsx` 28-73 | `StartSetup`, `ConfirmSetup`, `HandleDisable`, and `Answer` or `Lose` for what follows the await |
| `two-factor-panel.tsx` 75-145 | `Screen`, `Saved` |

### Modelling choices

- *A statement on one row is one step*, together with the code that decides on
  what it returned: between the answer of the database and the next `await`
  nothing else runs in the process. bcrypt, hashing and signing between two
  statements touch no shared state and are part of the step before or after.
- *A statement on many rows is two steps*: it picks its rows (the snapshot,
  `seen`) and later applies itself to those that still match. A row inserted in
  between is missed, which is what READ COMMITTED allows. `revoked: false` in
  the WHERE clause of the sweeps is left out of the snapshot, since revoking a
  revoked row changes nothing.
- *A batch `$transaction` shows at its commit*; the row of `users` it updates
  first is locked until then (`Locked`), so that two password changes or resets
  of one account do not overlap after that point. If one of its statements
  fails, all of it rolls back (`ResetCommit`, when the link was deleted).
- *The process may die at any point* (`Crash`): what is in flight stops, what
  was committed stays. An answer may be lost (`delivered` = FALSE).
- *Time* is a counter that steps when nothing else does or in between anything;
  the durations are constants.
- `codeOk` in `LoginTwoFactor` is whether the TOTP or recovery code is right;
  `totp_enabled` does not change in `Sessions`. `taken` in `Administration` is
  whether a name or an address collides with a unique index.
- `SetActive` in `Sessions` stands for `UsersService.update` with `is_active`
  alone, `PasswordChanged` in `Administration` for the flag's part of a password
  change: each module has a one-action view of the other.
- Left out everywhere: names, descriptions, texts of mails, cookies' attributes,
  logging.
- `SecurityEvents` does not see the login: a call comes with a subject. An
  effect that fails (an exception of Redis or the database, caught and logged)
  and the death of the process are one action, `Interrupt`.
- *The panel's click and the first read of its call are one step*, and so are
  the page and its read of `/auth/me`: until the call arrives the panel only
  waits. The arrival of a call nobody awaits any more is `Elsewhere`. A call the
  guards refuse, or that never arrives, changes nothing and is left out; so are
  the refused calls of the forms of `Navigation`.
- *A link inside a layout keeps the layout* (Next.js renders the page alone),
  and the layout is asked before the page although Next.js may render them
  together: the page's own check is only later, never missing.

Definitions headed "Mutant:" are plausible mistakes in the definition below
them (a WHERE clause without its `user_id`, a missing foreign key, a guard left
out). They are part of no specification; `PROJECT.json` pairs each with the
property that detects it when it replaces that definition.

## 3. Runs

| Run | Question | Bounds |
|---|---|---|
| `rotation` | Four calls that mint, rotate and revoke sessions of two accounts, with crashes, lost answers and the grace expiring. `ParentsAreSpent`: a session minted by a refresh has a revoked, stamped parent. `SweptSessionsStayDead`: what a sweep picked is revoked for good. `OneAccountPerStep`: no sweep reaches another account. `ImplementsStore`: every step is a step of `SessionStore`, or none; in particular a session that is closed is never renewed, whatever refreshes were suspended | 4 calls, 2 accounts, clock 0..2 (732 thousand states) |
| `credentials` | Registrations of one address, two-step logins, links requested, used and swept while passwords change. `TwoFactorSessionsHaveAChallenge`, `TemporaryPasswordIsReplaced`, `ConsumedLinksRemain`, `FoundLinksAreDead` (the links a newer request found are deleted or used, for good), and under fairness `CallsAreAnswered`: no handler waits for ever | 4 calls, 2 accounts (one with 2FA and a temporary password, one not yet registered), clock 0..2 (318 thousand states) |
| `races` | Roles created, edited and removed while accounts are created and moved between roles, whose owners then administer. `AccountsKeepARole`, `SystemRolesAreFixed`, `NobodyReachesTheTop`, `PendingAccountsDoNotAct`. `ImplementsHierarchy`: every step is a step of `Hierarchy`, or none | 3 calls, 3 seeded roles and accounts (levels 0, 2 and 3), levels 0, 2 and 3 and a max_count of 1 or none in the dtos (447 thousand states) |
| `two_factor` | An activation, a second one or a disable, regenerations and logins, with crashes. `EnabledAccountHasCodes`, `ReplacedCodesStayDead`, `DisableLeavesNoActivationCodes`, `AdmissionSpendsItsCode`, `CallsAreAnswered`. `ImplementsBook`: every step is a step of `CodeBook`, or none | 6 calls, 2 accounts, batches of one code (193 thousand states) |
| `panel` | Two tabs with the panel of one account, and calls of other clients. `PanelAgrees`: a panel that missed nothing and awaits nothing shows the account as it is, and a QR code that can be confirmed. `CodesOnScreenAreLive`. `ButtonsAreFreed`: no button stays disabled | 2 tabs, 4 calls (63 thousand states) |
| `events` | Failed logins and reuses recorded by calls that overlap and may be interrupted. `OneAlertPerFingerprint`, `OccurrencesAreCounted`, `RowsHaveTheirFailures`, `CountersExpire`, and under fairness `CreatorsAlert`: the flag never silences a new window. `ImplementsLog`: every step is a step of `AlertLog`, or none | 3 calls, 3 subjects, 1 administrator, threshold 2, window 2, clock 0..2 (204 thousand states) |
| `navigation` | Two tabs of one browser and an administrator. `CookiesAgree`: a live access token has a live refresh token of its account beside it, so that a logout revokes the session the user sees. `PendingAccountsSeeOnlyTheForm`. `RedirectsAreFew`: two redirects are enough unless a 401 or new cookies come | 2 tabs, 2 accounts, both with a second factor, 3 visits, 1 change of an account, clock 0..1, the browser gives up after 3 redirects (1.25 million states, up to the symmetry of the tabs) |

The bounds are enough for what is asked: a race of the code needs two handlers
on one row, and a third call to set it up or to profit from it; the fourth call
of the session runs is a login (nothing can be presented before one). Two
accounts are needed to see a sweep leave its account. Every duration is 1 (the
grace 0) so that with a clock of 0..2 each of them is met, just reached and
passed, in every combination. In `races` the seeded accounts have three
different levels, 0, 2 and 3, of which two may administer. The role a call
creates is a fourth; the levels that a dto may give it are those of the seeded
roles, so that it is born below the administrator or at his level, and is raised
from one to the other while another call assigns it, moves its holder or demotes
the actor; the top level is asked for too, and it is the comparison with the
actor's level that refuses it (the mutant of `NobodyReachesTheTop` leaves it out,
and an account gets to the top). The administrator's role has no max_count, so
that an account a call creates, or moves, can come to administer; the max_count
of 1 that a dto may give or lift is what the count meets. Before a
recovery code can be typed there must be a setup and a confirmation, which leaves
`two_factor` four calls to race. In `events` a window of 2 over a clock of 0..2
has a bucket's border inside a counter's life, and the flag of the first bucket
expires; with a threshold of 2 the third call finds the row. In `navigation`
one change and one tick are enough to take away, at any point of a load, what it
relied on; three visits open both tabs and a link; with two accounts that have a
second factor, the challenge of one login meets the form of another. Calls do not
form a symmetry set, because `Calls` gives each its endpoints. Deadlock is not
checked: when every call has been answered, or the bounds are reached, the
system rests.

Three more configurations check a refinement on an instance with what the run
leaves out: `MCTwoFactorBook.cfg` (batches of two codes, so that one is spent
while the other admits), `MCAdministrationMandates.cfg` (two calls of any kind,
with the director and his max_count of 1 instead of the administrator) and `MCSecurityEventsLog.cfg` (two
administrators to mail). All three pass.

### Fairness

`CallsAreAnswered` assumes weak fairness of `Continue(r)`, the suspended half of
each handler: Node's event loop runs every continuation whose await has settled,
PostgreSQL answers every statement, and a lock is granted once its holder is
done. Clients, mail, the clock and crashes are under no obligation. Weak
fairness is enough for the lock, because the holder's commit is never blocked
and no call waits for the lock twice. `FairSpec` of `Administration` is stated in
the same way for the handlers of `UsersService` and `RolesService`; its two action
properties are safety and do not depend on it.
In `TwoFactor` the same assumption gives `CallsAreAnswered`; regenerations wait
for no lock, and the others for one that a commit always frees. In
`SecurityEvents` it is assumed of the calls' continuations, and `Interrupt`,
which may happen instead, is not: hence "alerted, or cut off". In
`TwoFactorPanel` the backend's continuations are fair and so is the browser,
which settles every fetch once its call has ended, whether well, refused or
with the process (`Answer`); that an answer is lost (`Lose`) is never assumed.
`Navigation` states safety only and assumes nothing.

## 4. What the documents say and the code does not do

Five runs check a sentence of the repository that the code does not keep; TLC
finds the violation. In each of them the code was read first and the
counterexample agrees with it.

| Run | The sentence | What happens |
|---|---|---|
| `password_change_final` | `auth.service.ts:256-259`: after a password change a session opened with the old password is out at its next refresh | a token rotated just before the change has `used_at`, and within the grace window it mints a new session; a refresh that has rotated its token, or a login that has compared the old password, and is suspended across the change, mints a session the change does not see, and that session is refreshed too |
| `max_count` | `seed.ts:25-27`: `max_count` is enforced | a reactivation is not counted; two assignments count before either writes |
| `confirmed_secret` | `two-factor.service.ts:51-54`: 2FA is activated only if the code matches the pending secret | a setup that was past its check, or a disable, changes the secret before the activation commits. With another secret the recovery codes still let the owner in; with none `auth.service.ts:169` refuses every code, the recovery codes too, until he disables 2FA in a session still open |
| `recovery_code_once` | `auth.service.ts:185`: a recovery code has one use | two logins find it unused before either marks it (what is kept is `ImplementsBook`: it admits nobody who reads it after the mark) |
| `refused_login` | `proxy.ts:6-8`: a 401 takes the user to the login | the cookie is still there, and the proxy sends the login back to `/admin`, until the browser gives up |

The modules state further sentences of this kind, each with a configuration
that finds its violation:

| Configuration | The sentence | What happens |
|---|---|---|
| `MCSessionsLogout.cfg` (`LogoutIsFinal`) | `PRUEBAS_SEGURIDAD.md:98`: the refresh after the logout is a 401 | the token had been rotated by another tab; the logout changes nothing, and the grace window lets it through (once the grace is over nothing does: the session is closed, `ImplementsStore`) |
| `MCSessionsLinkUsedTwice.cfg` (`LinkSetsOnePassword`) | `auth.service.ts:306`: a link has one use | two resets read `used_at` null before either writes it |
| `MCSessionsTwoLiveLinks.cfg` (`OneLiveLink`) | `schema.prisma:129`: never two live links | two requests delete before either's new link is visible (the links a request did find are dead, `FoundLinksAreDead`) |
| `MCSessionsCascade.cfg` (`CascadeNeedsAReuse`) | `auth.service.ts:199-205`: the cascade answers a token already used | a token revoked by a logout or a password change was never used, and its next presentation ends every session |
| `MCAdministrationRoleRank.cfg` (`RolesAreManagedFromAbove`) | `docs/docs/roles.md:20`: a role is managed from strictly above | `update` looks only at the new level, `remove` at none |
| `MCAdministrationAccountRank.cfg` (`AccountsAreManagedFromAbove`) | `docs/docs/roles.md:20`: so is an account | an account promoted between the read and the write is changed all the same (what is kept is `ImplementsHierarchy`: it was below the actor when it was read) |
| `MCSecurityEventsWindow.cfg` (`SlidingWindow`) | `security-events.service.ts:25`: the count has a sliding window | the window is fixed from the first failure: as many failures as the threshold, across its end, pass under it |
| `MCNavigationPanel.cfg` (`PanelIsNeverForUsers`) | `admin/layout.tsx:11-15`: the panel is never for `usuario` | a link inside the panel keeps its layout, which is not asked again after a demotion |
| `MCNavigationRefresh.cfg` (`RefreshSparesThePassword`) | `APRENDIZAJE.md:57`: the refresh token renews the session by itself | no page calls `/auth/refresh` |

The comment of `two-factor-panel.tsx` (9-14) lists a third flow, the
regeneration of the recovery codes; the panel has no button for it, and it is a
call of other clients in the model.

## 5. Proofs

TLC shows the properties above on its instances; the theorems show them for any
number of calls, accounts, roles and tabs and for any durations, assuming only the
ASSUMEs of the modules (the constants are of the sets one expects, the special
values differ from the others, the seeded levels are at most `Top`). All
the safety properties of the passing runs are proved; each has its theorem.

*Sessions.* `SessionsInv` is inductive (`SessionsInvariant`). Its parts:

- `CallShape`, `RowsOfTheirCalls`: a call that has not arrived has no rows, and
  a row belongs to the account its call acts for.
- `RefreshLineage`: what a suspended `refresh` may still rely on. When it is at
  `issue` its parent is already revoked and stamped, by itself (`Rotate`) or by
  an earlier use (the grace). Without this part `ParentsAreSpent`, which speaks
  only of calls that have minted, does not survive `Issue`.
- `SweepsOfOneAccount`: what a suspended sweep has picked belongs to its
  account, from which `OneAccountPerStep` follows.
- `SweptSessionsStayDead`: holds because no action ever clears `revoked`, and a
  row keeps its name.
- `ResetsPresentLinks`, `ConsumedLinksRemain`: `ForgotCommit` deletes only what
  is unused at the commit, and a link used is never unused.
- `LinksOfTheirCalls`: a link exists once the call that asked for it is done,
  and what a request found are such links. `FoundLinksAreDead` needs it: a call
  whose link is still to come is never among what another found, so that no dead
  link is created anew.
- `RevokedRowsExist`: only a row is revoked (for `SessionStore`: only what was
  opened is closed).
- `TemporaryPasswordIsReplaced`: `pw` and `mustChange` move together.
- `ChallengeFirst`: the challenge exists before any session that needs it, also
  while the call that will mint it is suspended; it also says that accounts with
  a second factor exist from the start, so that `register` never serves one.

*Administration.* `AdministrationInv` adds to the properties `LevelsAreBounded`
(ranks, and levels about to be written, are below the top), `WritesStayBelow`
(a suspended handler holds no role and no target of the top) and
`CallsCreateOnce`. The argument for `NobodyReachesTheTop`: a call's `rank` is at
most the top, what it writes is strictly below some rank, and an account of the
top is never below any rank; the seeded roles cannot be raised. This survives
all the stale reads because the top itself never moves.

*SessionStore.* `StoreImplemented` proves `Spec => ImplementsStore` from
`SessionsInv`: the store's `holder`, `ended`, `closed` and `parent` are `owner`,
`revoked`, `Closed` and the call presented to the refresh that minted the row.
`Issue` is `Open` or `Renew` (the parent has ended by `RefreshLineage`, and it is
not closed because the call that mints was admitted before and is still
suspended), a rotation, a logout and the end of a sweep are `End` (one account by
`SweepsOfOneAccount`), and everything else is `Close` or leaves the store alone.
That closing is for good is `ClosedStays`, the heart of the argument: `used_at` is
written by `Rotate` without looking, which could open a grace anew; it does not,
because the write belongs to a refresh that was suspended, and then the session
was not closed. `NewSessionsAreOpen` and `StoreCloses` turn it into steps of the
store.

*Hierarchy.* `HierarchyImplemented` proves `Spec => ImplementsHierarchy` from
`AdministrationInv`. A call past the guards is a mandate; `Subject` and `Grant`
are the account and the role it has seen below its `rank` and is still to write.
Each handler is one lemma: `GuardGives`, `ReadSeesAccount`, `AssertSeesPost`,
`CountRests` (the count changes nothing), `InsertHires`, `WriteChanges`,
`RolesKeepChain`, and `MandateEnds`/`RefusalRefuses` for what ends. That the
written role still exists is the foreign key; that a role's new level is below
the rank needs `LevelsAreBounded`.

*TwoFactor.* `TwoFactorInv` adds to the properties `CallShape`,
`BatchesOfTheirCalls` (a batch appears at the commit of its call, in the table
of its account), `OneHolder` (the lock of the row of `users`) and
`DisableSeesActivations`: a disable about to commit has chosen every batch that
an activation put in the table. The last is what makes
`DisableLeavesNoActivationCodes` inductive, and it needs the lock: the disable
takes it before it chooses, and no activation commits until it is released.

`EnabledAccountHasCodes` says that a batch is there, not that one of its codes is
unused, nor that the login takes it: after the race of section 4 that leaves no
secret, the batch is there and `loginStep3` refuses it.

*CodeBook.* `BookImplemented` proves `Spec => ImplementsBook`; it needs two more
parts of `TwoFactorInv`: `LoginsOfTheirBatches` (a login that is about to mark a
code found it in a batch of its account) and `MarksOfAdmissions` (a code that is
marked has admitted a login). `Replace` is `HandOut`, the end of a disable is
`Withdraw`, the mark is `Admit` if the batch is still there and a refusal
otherwise. A code is spent when it is marked and no suspended login holds it, so
that the end or death of the last such login is `Spend` (`BookSpends`). With
`PanelIsAClient` the same holds behind the panels (`BookBehindThePanel`).

*TwoFactorPanel.* `PanelIsAClient` proves `PanelSpec => Spec`: a panel does
nothing a client of the backend could not, and so `TwoFactorInv` holds of the
composition. `PanelInv` adds `AwaitedCalls` (what a tab awaits is a call of its
account and of its face), `AnswersAreTrue` (if the tab has missed nothing, the
answer on its way is true now), `FacesAreWhole` and `ActivationsLeaveCodes`
(the codes of an activation are in the table or in what a later sweep chose).

*SecurityEvents.* `EventsInv` adds `CallShape`, `OneCreator` (the unique
index), `FlagsOfCreators` (a flag is set by the creator of its row, hence
`muted` is never reached) and `CountsAreFailures` (INCR never answers more than
the failures that came, an argument on cardinalities).

*AlertLog.* `LogImplemented` proves `Spec => ImplementsLog`; the log's `failures`
are the calls of a subject, its `letters` the pairs of a call and whom it has
mailed. A call that comes is `Fail` (`ArriveFails`), a write of the row `Open` or
`Repeat` on a number of failures that came (`WriteClaims`, from
`CountsAreFailures`), a delivered mail `Tell` (`SendTells`: all earlier letters
of the event are of the same call by `OneCreator`, and none is to this
administrator by `MailedOnce`, a part of `EventsInv` for this proof).

*Navigation.* `NavigationInv` is `AnswersCarry`, `CookiesPaired` (the refresh
cookie outlives the access cookie it came with) and, for each tab,
`LoadIsCleared` and `ShellIsCleared` (who got past a layout has no temporary
password) and `LoadIsShort`. The last bounds by `Rank` how many redirects can
lie behind a load, by the path it has come to, as long as it is `steady`;
`RedirectsAreFew` follows. Each action is first reduced to what it does to one
tab (`Starting`, `Redirecting`, `Showing`) or to the tabs that stand by
(`Bystander`), and the invariant is kept by those few effects.

Layout: each `...Proofs` module has a lemma per conjunct of the invariant with a
step per action, then the preservation step, then one theorem per property, by
PTL. Lemmas about shared helpers (the snapshot, the two updates of a password
change) are stated once.

Only model-checked: `CallsAreAnswered` (of `Sessions` and `TwoFactor`),
`CreatorsAlert` and `ButtonsAreFreed`, which are liveness and need ENABLED, out
of the prover's reach; and the violations of section 4, which are
counterexamples.

## 6. Not modelled, and why

- `totp_enabled` changing under `AuthService`: it is fixed per account in
  `Sessions`, and `TwoFactor` has the one handler that reads it together with
  the codes (`loginStep3`). A composition of the two would multiply their states
  and add no handler.
- The reuse that `refresh` reports is not a call of `SecurityEvents` in a
  composition: `SecurityEvents` takes the reports of all its callers as arriving
  at any time, which is what calls that nobody awaits are.
- The time window of a TOTP code, the text of the QR code. A code is right for
  one secret.
- A browser that logs in to another account while a tab shows the panel: the
  account of a tab (`Owner`) is fixed. `Navigation` has the change of account.
- The rate limits: third-party code, and no property depends on how often a
  client calls. `main.ts`, the health endpoint, the Prisma and Redis clients:
  configuration and connections.
- Encryption, escaping and templates: pure functions on texts; their unit tests
  cover them.
- The pages that list and edit roles and users: the server actions of users are
  `ServerAction`; those of roles forward one call each, and the calls are
  `Administration`'s. What they show is left out.
- The connection to Redis: opening, retrying, closing. Its operations, and that
  they may fail, are in `SecurityEvents`.
- The seed as a program: its result is the initial state.

## 7. Plan

1. *(done)* `Sessions` and its proofs.
2. *(done)* `Administration` and its proofs.
3. *(done)* `TwoFactor` and its proofs.
4. *(done)* `SecurityEvents` and its proofs.
5. *(done)* `Navigation` and its proofs.
6. *(done)* `SessionStore` and the refinement, checked and proved.
7. *(done)* `TwoFactorPanel`: the composition of the panel with `TwoFactor`.
8. *(done)* `CodeBook`, `Hierarchy` and `AlertLog`, and closed sessions in
   `SessionStore`: an abstract specification of each part of the backend, checked
   and proved; `FoundLinksAreDead`.
9. Left: an abstract specification of what a browser's session promises, for
   `Navigation`; `Sessions` with `totp_enabled` changing, and the reports of
   `refresh` as calls of `SecurityEvents` (see section 6 for why they come last).
