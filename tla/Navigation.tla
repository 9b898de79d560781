----------------------------- MODULE Navigation -----------------------------
(***************************************************************************)
(* The pages of the frontend, as the tabs of one browser meet them: the    *)
(* proxy, the layouts and pages that ask the backend who is asking, the    *)
(* forms, and the cookies that AuthController sets and clears.             *)
(*                                                                         *)
(* Loading a page takes three steps: the proxy looks at the cookies of the *)
(* request, the layout asks /auth/me, the page asks again.  Between them   *)
(* the account may be changed by an administrator.  A link followed inside *)
(* a layout keeps it: only the page asks.  A form sends its call and its   *)
(* answer, which carries the cookies, comes later or never; the other tabs *)
(* go on meanwhile, with the same cookies.                                 *)
(***************************************************************************)
EXTENDS Naturals

CONSTANTS
  Users,          \* accounts, registered or not yet
  Tabs,
  FirstRole,      \* FirstRole[u]: the role at the start; NoRole: not registered
  TempPassword,   \* accounts created with must_change_password
  TwoFactor,      \* accounts with totp_enabled
  Administered,   \* accounts an administrator changes
  AccessTTL, RefreshTTL,
  MaxTime,        \* bound: the last instant
  MaxChanges,     \* bound: the changes that administrators make
  MaxVisits,      \* bound: the pages and links that the user opens
  MaxRedirects,   \* redirects in a row that the browser follows
  NoRole, NoCookie

Roles == {"usuario", "staff", "admin"}
Managers == {"admin"}            \* with director and super: CAN_MANAGE_USERS_AND_ROLES
Admin == {"admin", "users", "roles"}                  \* /admin/:path*
Account == {"account", "2fa"}                         \* /cuenta
Guarded == Admin \cup Account                         \* under a layout
Paths == Guarded \cup {"home", "login", "register", "change"}

ASSUME NavigationAssumption ==
  /\ FirstRole \in [Users -> Roles \cup {NoRole}] /\ NoRole \notin Roles
  /\ TempPassword \subseteq Users /\ NoCookie \notin [acct : Users, until : Nat]
  /\ AccessTTL \in Nat /\ RefreshTTL \in Nat /\ AccessTTL <= RefreshTTL
  /\ MaxRedirects \in Nat \ {0} /\ MaxTime \in Nat
  /\ MaxChanges \in Nat /\ MaxVisits \in Nat

VARIABLES
  now,
  visits, changes,            \* opened so far, changed so far
  role, active, mustChange,   \* the accounts
  access,     \* access_token: whose, with which role, until when
  refresh,    \* refresh_token: whose, until when
  challenge,  \* two_factor_challenge: whose
  page,       \* what a tab shows
  shell,      \* the layout it keeps and the account in its header
  step,       \* the step of its login form
  stage,      \* where its load is: "idle" if it loads nothing
  going,      \* the path it loads
  sent,       \* the access_token of its request, once past the proxy
  hops,       \* redirects of the load so far
  steady,     \* no 401 and no change of the session cookies since the visit
  answer      \* the answer its form waits for

accounts == <<role, active, mustChange, changes>>
cookies == <<access, refresh, challenge>>
load == <<stage, going, sent, hops>>
vars == <<now, visits, accounts, cookies, page, shell, step, load, steady, answer>>

NoAnswer == [what |-> "none"]
NoShell == [over |-> {}, acct |-> NoCookie]
Nothing == {"blank", "error", "tooManyRedirects"}     \* no page of the site
Stages == {"idle", "proxy", "layout", "page", "lists"}

Init ==
  /\ now = 0 /\ visits = 0 /\ changes = 0
  /\ role = FirstRole
  /\ active = [u \in Users |-> TRUE]
  /\ mustChange = [u \in Users |-> u \in TempPassword]
  /\ access = NoCookie /\ refresh = NoCookie /\ challenge = NoCookie
  /\ page = [t \in Tabs |-> "home"] /\ shell = [t \in Tabs |-> NoShell]
  /\ step = [t \in Tabs |-> "email"]
  /\ stage = [t \in Tabs |-> "idle"] /\ going = [t \in Tabs |-> "home"]
  /\ sent = [t \in Tabs |-> NoCookie]
  /\ hops = [t \in Tabs |-> 0] /\ steady = [t \in Tabs |-> TRUE]
  /\ answer = [t \in Tabs |-> NoAnswer]

\* A cookie leaves the browser at the end of its maxAge; the JWT in it
\* expires at the same instant.
Live(cookie) == cookie # NoCookie /\ now < cookie.until
HasSession == Live(access)

\* JwtAuthGuard on a route that a pending password change may use.
Answers(cookie) == Live(cookie) /\ active[cookie.acct]

-----------------------------------------------------------------------------
(* Loading a page                                                          *)

Goes(t, path) ==
  /\ stage' = [stage EXCEPT ![t] = "proxy"]
  /\ going' = [going EXCEPT ![t] = path]
  /\ sent' = [sent EXCEPT ![t] = NoCookie]

Ends(t) ==
  /\ stage' = [stage EXCEPT ![t] = "idle"]
  /\ hops' = [hops EXCEPT ![t] = 0]
  /\ sent' = [sent EXCEPT ![t] = NoCookie]
  /\ UNCHANGED going

Redirect(t, path) ==
  /\ IF hops[t] < MaxRedirects
     THEN /\ Goes(t, path)
          /\ hops' = [hops EXCEPT ![t] = @ + 1]
          /\ UNCHANGED <<page, shell>>
     ELSE /\ Ends(t)
          /\ page' = [page EXCEPT ![t] = "tooManyRedirects"]
          /\ shell' = [shell EXCEPT ![t] = NoShell]
  /\ UNCHANGED step

\* serverFetch answered 401.
Unauthorized(t) ==
  /\ Redirect(t, "login")
  /\ steady' = [steady EXCEPT ![t] = FALSE]

\* A layout that is already there stays as it is.
Shows(t, shown) ==
  /\ page' = [page EXCEPT ![t] = shown]
  /\ shell' = [shell EXCEPT ![t] =
       IF shown \notin Guarded THEN NoShell
       ELSE IF shown \in @.over THEN @
       ELSE [over |-> IF shown \in Admin THEN Admin ELSE Account, acct |-> sent[t].acct]]
  /\ step' = [step EXCEPT ![t] = "email"]
  /\ Ends(t)

Enters(t, s) ==
  /\ stage' = [stage EXCEPT ![t] = s]
  /\ UNCHANGED <<page, shell, step, going, hops>>

\* A new document: nothing of the old one is left, its handlers included.
Visit(t, path) ==
  /\ visits < MaxVisits /\ visits' = visits + 1
  /\ Goes(t, path)
  /\ page' = [page EXCEPT ![t] = "blank"]
  /\ shell' = [shell EXCEPT ![t] = NoShell]
  /\ hops' = [hops EXCEPT ![t] = 0]
  /\ steady' = [steady EXCEPT ![t] = TRUE]
  /\ answer' = [answer EXCEPT ![t] = NoAnswer]
  /\ UNCHANGED <<now, accounts, cookies, step>>

\* The links of the home page and of the two layouts.
Links(from) ==
  IF from = "home" THEN {"login", "register"}
  ELSE IF from \in Admin THEN Admin \cup {"account"}
  ELSE IF from \in Account THEN Account \cup {"home", "admin"} ELSE {}

Follow(t, path) ==
  /\ visits < MaxVisits /\ visits' = visits + 1
  /\ stage[t] = "idle" /\ path \in Links(page[t])
  /\ Goes(t, path)
  /\ hops' = [hops EXCEPT ![t] = 0]
  /\ steady' = [steady EXCEPT ![t] = TRUE]
  /\ UNCHANGED <<now, accounts, cookies, page, shell, step, answer>>

\* proxy.ts: optimistic, looks at the cookie and at the role it claims.
Proxy(t) ==
  /\ stage[t] = "proxy"
  /\ \/ /\ going[t] \in Admin /\ ~HasSession
        /\ Redirect(t, "login")
     \/ /\ going[t] = "login" /\ HasSession
        /\ Redirect(t, IF access.role = "usuario" THEN "home" ELSE "admin")
     \/ /\ going[t] \in Admin => HasSession
        /\ going[t] \in Guarded
        /\ Enters(t, IF going[t] \in shell[t].over THEN "page" ELSE "layout")
        /\ sent' = [sent EXCEPT ![t] = IF HasSession THEN access ELSE NoCookie]
     \/ /\ going[t] = "login" => ~HasSession
        /\ going[t] \notin Guarded
        /\ Shows(t, going[t])
  /\ UNCHANGED <<now, visits, accounts, cookies, steady, answer>>

\* Mutants: the layouts let a pending password change through; the admin
\* layout sends an ordinary user back to the login.
LayoutOfPending(t) ==
  /\ stage[t] = "layout"
  /\ \/ ~Answers(sent[t]) /\ Unauthorized(t)
     \/ /\ Answers(sent[t])
        /\ IF going[t] \in Admin /\ role[sent[t].acct] = "usuario"
           THEN Redirect(t, "account") ELSE Enters(t, "page") /\ UNCHANGED sent
        /\ UNCHANGED steady
  /\ UNCHANGED <<now, visits, accounts, cookies, answer>>
LayoutToLogin(t) ==
  /\ stage[t] = "layout"
  /\ \/ ~Answers(sent[t]) /\ Unauthorized(t)
     \/ /\ Answers(sent[t])
        /\ IF mustChange[sent[t].acct] THEN Redirect(t, "change")
           ELSE IF going[t] \in Admin /\ role[sent[t].acct] = "usuario"
           THEN Redirect(t, "login") ELSE Enters(t, "page") /\ UNCHANGED sent
        /\ UNCHANGED steady
  /\ UNCHANGED <<now, visits, accounts, cookies, answer>>

\* AdminLayout, CuentaLayout.
Layout(t) ==
  /\ stage[t] = "layout"
  /\ \/ ~Answers(sent[t]) /\ Unauthorized(t)
     \/ /\ Answers(sent[t])
        /\ IF mustChange[sent[t].acct] THEN Redirect(t, "change")
           ELSE IF going[t] \in Admin /\ role[sent[t].acct] = "usuario"
           THEN Redirect(t, "account") ELSE Enters(t, "page") /\ UNCHANGED sent
        /\ UNCHANGED steady
  /\ UNCHANGED <<now, visits, accounts, cookies, answer>>

\* The page itself asks /auth/me again.
Page(t) ==
  /\ stage[t] = "page"
  /\ \/ ~Answers(sent[t]) /\ Unauthorized(t)
     \/ /\ Answers(sent[t])
        /\ IF going[t] \notin {"users", "roles"} THEN Shows(t, going[t])
           ELSE IF role[sent[t].acct] \in Managers THEN Enters(t, "lists") /\ UNCHANGED sent
           ELSE Redirect(t, "admin")
        /\ UNCHANGED steady
  /\ UNCHANGED <<now, visits, accounts, cookies, answer>>

\* ... and then for /users and /roles, behind JwtAuthGuard and RolesGuard,
\* which answer 403 to a pending password change and to other roles: thrown.
Lists(t) ==
  /\ stage[t] = "lists"
  /\ \/ ~Answers(sent[t]) /\ Unauthorized(t)
     \/ /\ Answers(sent[t])
        /\ Shows(t, IF role[sent[t].acct] \in Managers /\ ~mustChange[sent[t].acct]
                    THEN going[t] ELSE "error")
        /\ UNCHANGED steady
  /\ UNCHANGED <<now, visits, accounts, cookies, answer>>

-----------------------------------------------------------------------------
(* The forms: the call and what it does at the backend                     *)

\* The calls that succeed: a refused one changes no account and no cookie,
\* and its form stays as it is.
Calls(t, from, a) ==
  /\ page[t] = from /\ stage[t] = "idle" /\ answer[t] = NoAnswer
  /\ answer' = [answer EXCEPT ![t] = a]
  /\ UNCHANGED <<now, visits, cookies, page, shell, step, load, steady>>

Session(u) == [what |-> "session", acct |-> u, role |-> role[u]]
SubmitEmail(t) ==
  /\ step[t] = "email"
  /\ Calls(t, "login", [what |-> "step1"])
  /\ UNCHANGED accounts

SubmitPassword(t, u) ==
  /\ step[t] = "password"
  /\ role[u] # NoRole /\ active[u]
  /\ Calls(t, "login", IF u \in TwoFactor THEN [what |-> "challenge", acct |-> u] ELSE Session(u))
  /\ UNCHANGED accounts

\* The challenge cookie says for whom: another tab may have replaced it.
SubmitCode(t) ==
  /\ step[t] = "two-factor"
  /\ challenge # NoCookie /\ active[challenge]
  /\ Calls(t, "login", [Session(challenge) EXCEPT !.what = "admitted"])
  /\ UNCHANGED accounts

\* Mutant: the token is signed with the role read before the account is there.
RegisterWithoutRole(t, u) ==
  /\ role[u] = NoRole
  /\ Calls(t, "register", Session(u))
  /\ role' = [role EXCEPT ![u] = "usuario"]
  /\ UNCHANGED <<active, mustChange, changes>>
Register(t, u) ==
  /\ role[u] = NoRole
  /\ Calls(t, "register", [what |-> "session", acct |-> u, role |-> "usuario"])
  /\ role' = [role EXCEPT ![u] = "usuario"]
  /\ UNCHANGED <<active, mustChange, changes>>

ChangePassword(t) ==
  /\ Answers(access)
  /\ Calls(t, "change", [what |-> "changed"])
  /\ mustChange' = [mustChange EXCEPT ![access.acct] = FALSE]
  /\ UNCHANGED <<role, active, changes>>

\* Under both layouts.
Logout(t) ==
  /\ page[t] \in Guarded
  /\ Calls(t, page[t], [what |-> "loggedOut"])
  /\ UNCHANGED accounts

-----------------------------------------------------------------------------
(* The answers: cookies, then the rest of the handler                      *)

\* Every other load that is on its way meets other cookies.
SetAccess(cookie, t) ==
  /\ access' = cookie
  /\ steady' = [s \in Tabs |-> IF s = t THEN TRUE ELSE steady[s] /\ cookie = access]

\* Mutant: the refresh cookie is only set where there is none.
SetSessionCookiesOnce(a, t) ==
  /\ SetAccess([acct |-> a.acct, role |-> a.role, until |-> now + AccessTTL], t)
  /\ refresh' = IF Live(refresh) THEN refresh ELSE [acct |-> a.acct, until |-> now + RefreshTTL]

SetSessionCookies(a, t) ==
  /\ SetAccess([acct |-> a.acct, role |-> a.role, until |-> now + AccessTTL], t)
  /\ refresh' = [acct |-> a.acct, until |-> now + RefreshTTL]

\* router.push, whatever the tab was loading.
Pushes(t, path) ==
  /\ Goes(t, path)
  /\ hops' = [hops EXCEPT ![t] = 0]

Arrives(t) ==
  LET a == answer[t]
  IN /\ \/ /\ a.what \in {"session", "admitted"}
           /\ SetSessionCookies(a, t)
           /\ challenge' = IF a.what = "admitted" THEN NoCookie ELSE challenge
           /\ Pushes(t, IF page[t] = "register" \/ a.role = "usuario" THEN "home" ELSE "admin")
           /\ UNCHANGED step
        \/ /\ a.what = "loggedOut"
           /\ SetAccess(NoCookie, t) /\ refresh' = NoCookie
           /\ Pushes(t, "login")
           /\ UNCHANGED <<step, challenge>>
        \/ /\ a.what = "changed"
           /\ Pushes(t, "account")
           /\ steady' = [steady EXCEPT ![t] = TRUE]
           /\ UNCHANGED <<step, cookies>>
        \/ /\ a.what \in {"step1", "challenge"}
           /\ step' = [step EXCEPT ![t] = IF a.what = "step1" THEN "password" ELSE "two-factor"]
           /\ challenge' = IF a.what = "challenge" THEN a.acct ELSE challenge
           /\ UNCHANGED <<access, refresh, load, steady>>
     /\ answer' = [answer EXCEPT ![t] = NoAnswer]
     /\ UNCHANGED <<now, visits, accounts, page, shell>>

\* The answer never comes: the handler shows an error and the form stays.
Fails(t) ==
  /\ answer[t] # NoAnswer
  /\ answer' = [answer EXCEPT ![t] = NoAnswer]
  /\ UNCHANGED <<now, visits, accounts, cookies, page, shell, step, load, steady>>

-----------------------------------------------------------------------------
(* Administrators, in other browsers or in a tab that shows the users      *)

Administers(u) ==
  /\ u \in Administered /\ role[u] # NoRole
  /\ changes < MaxChanges /\ changes' = changes + 1
  /\ \/ active' = [active EXCEPT ![u] = ~@] /\ UNCHANGED role
     \/ \E r \in Roles \ {role[u]} : role' = [role EXCEPT ![u] = r] /\ UNCHANGED active
  /\ UNCHANGED mustChange

Elsewhere(u) ==
  /\ Administers(u)
  /\ UNCHANGED <<now, visits, cookies, page, shell, step, load, steady, answer>>

\* A server action calls serverFetch too: its 401 is a redirect; after a
\* success the tab is rendered anew (revalidatePath); a 403 is a message
\* beside the form or the button, but a row of the users' table throws it.
ServerAction(t, u) ==
  /\ page[t] \in {"users", "roles"} /\ stage[t] = "idle" /\ answer[t] = NoAnswer
  /\ \/ /\ ~Answers(access)
        /\ Goes(t, "login")
        /\ hops' = [hops EXCEPT ![t] = 1]
        /\ steady' = [steady EXCEPT ![t] = FALSE]
        /\ UNCHANGED <<accounts, page, shell>>
     \/ /\ Answers(access) /\ role[access.acct] \in Managers /\ ~mustChange[access.acct]
        /\ Administers(u)
        /\ Goes(t, page[t]) /\ page' = [page EXCEPT ![t] = "blank"]
        /\ shell' = [shell EXCEPT ![t] = NoShell]
        /\ hops' = [hops EXCEPT ![t] = 0]
        /\ steady' = [steady EXCEPT ![t] = TRUE]
     \/ /\ page[t] = "users" /\ Answers(access)
        /\ role[access.acct] \notin Managers \/ mustChange[access.acct]
        /\ page' = [page EXCEPT ![t] = "error"]
        /\ shell' = [shell EXCEPT ![t] = NoShell]
        /\ UNCHANGED <<accounts, load, steady>>
  /\ UNCHANGED <<now, visits, cookies, step, answer>>

Tick ==
  /\ now < MaxTime
  /\ now' = now + 1
  /\ steady' = [t \in Tabs |-> steady[t] /\ ~(HasSession /\ access.until = now + 1)]
  /\ UNCHANGED <<visits, accounts, cookies, page, shell, step, load, answer>>

Next ==
  \/ \E t \in Tabs :
       \/ \E path \in Paths : Visit(t, path) \/ Follow(t, path)
       \/ Proxy(t) \/ Layout(t) \/ Page(t) \/ Lists(t)
       \/ Arrives(t) \/ Fails(t)
       \/ SubmitEmail(t) \/ SubmitCode(t) \/ ChangePassword(t) \/ Logout(t)
       \/ \E u \in Users : SubmitPassword(t, u) \/ Register(t, u) \/ ServerAction(t, u)
  \/ \E u \in Users : Elsewhere(u)
  \/ Tick

Spec == Init /\ [][Next]_vars

-----------------------------------------------------------------------------
(* Properties                                                              *)

AccessCookies == [acct : Users, role : Roles, until : Nat]
Replies ==
  [what : {"none", "step1", "changed", "loggedOut"}]
    \cup [what : {"challenge"}, acct : Users]
    \cup [what : {"session", "admitted"}, acct : Users, role : Roles]

TypeOK ==
  /\ now \in Nat /\ visits \in Nat /\ changes \in Nat
  /\ role \in [Users -> Roles \cup {NoRole}]
  /\ active \in [Users -> BOOLEAN] /\ mustChange \in [Users -> BOOLEAN]
  /\ access \in AccessCookies \cup {NoCookie}
  /\ refresh \in [acct : Users, until : Nat] \cup {NoCookie}
  /\ challenge \in Users \cup {NoCookie}
  /\ page \in [Tabs -> Paths \cup Nothing]
  /\ shell \in [Tabs -> [over : {Admin, Account}, acct : Users] \cup {NoShell}]
  /\ step \in [Tabs -> {"email", "password", "two-factor"}]
  /\ stage \in [Tabs -> Stages] /\ going \in [Tabs -> Paths]
  /\ sent \in [Tabs -> AccessCookies \cup {NoCookie}]
  /\ hops \in [Tabs -> 0 .. MaxRedirects] /\ steady \in [Tabs -> BOOLEAN]
  /\ answer \in [Tabs -> Replies]

\* However the calls of the tabs interleave and their answers are delayed or
\* lost, a browser with a live access token holds the refresh token of the
\* same account: what logout revokes is the session the user sees.
CookiesAgree ==
  HasSession => Live(refresh) /\ refresh.acct = access.acct

\* Whichever link, redirect, answer or administrator took a tab to a page of
\* the account or the administration, it stands under a layout of that part,
\* made for an account that has replaced its temporary password (the layouts;
\* the page inside may be of another account, of a tab that logged in later).
PendingAccountsSeeOnlyTheForm ==
  \A t \in Tabs :
    page[t] \in Guarded => page[t] \in shell[t].over /\ ~mustChange[shell[t].acct]

\* The redirects of the proxy, the layouts and the pages agree with each other:
\* if no 401 comes and the session cookies stay, two are enough, whatever the
\* roles of the account become on the way.
RedirectsAreFew == \A t \in Tabs : steady[t] => hops[t] <= 2

-----------------------------------------------------------------------------
(* What the comments and the documents say, and the code does not do       *)

\* proxy.ts:6-8: "serverFetch redirige a /login si el backend responde 401".
\* The proxy sends a browser that still has the cookie back from there.
RefusedEndsAtTheLogin == \A t \in Tabs : page[t] # "tooManyRedirects"

\* admin/layout.tsx:11-15: "cualquier rol real de la jerarquia [...], NUNCA
\* usuario (el rol publico) - verificado en el SERVIDOR".  A link inside the
\* panel keeps its layout: a demoted account goes on from page to page.
PanelIsNeverForUsers ==
  [][\A t \in Tabs :
       page'[t] = "admin" /\ stage'[t] = "idle" /\ stage[t] # "idle"
         => role[sent[t].acct] # "usuario"]_vars

\* APRENDIZAJE.md:57: the user never types the password again every 15
\* minutes, "porque el refresh token se lo renueva solo".
RefreshSparesThePassword ==
  [][\A t \in Tabs :
       stage[t] = "proxy" /\ going[t] \in Admin /\ Live(refresh) => going'[t] # "login"]_vars
=============================================================================
