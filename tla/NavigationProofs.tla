-------------------------- MODULE NavigationProofs --------------------------
(* Theorems about Navigation, for every number of tabs and accounts, any    *)
(* lifetimes of the cookies, and as many visits and changes as one likes.   *)
EXTENDS Navigation, TLAPS

\* A challenge is of an account that is there.
AnswersCarry ==
  /\ challenge # NoCookie => role[challenge] # NoRole
  /\ \A t \in Tabs : answer[t].what = "challenge" => role[answer[t].acct] # NoRole

\* The refresh cookie is set with the access cookie, and lives longer.
CookiesPaired ==
  access # NoCookie =>
    refresh # NoCookie /\ refresh.acct = access.acct /\ access.until <= refresh.until

\* A load past its layout is of an account with its own password, or inside
\* the layout that the tab shows.
LoadIsCleared(t) ==
  /\ stage[t] \in {"layout", "page", "lists"} => going[t] \in Guarded
  /\ stage[t] \in {"page", "lists"} =>
       \/ going[t] \in shell[t].over
       \/ sent[t] # NoCookie /\ ~mustChange[sent[t].acct]

ShellIsCleared(t) ==
  /\ shell[t] # NoShell => ~mustChange[shell[t].acct]
  /\ page[t] \in Guarded => page[t] \in shell[t].over

\* How many redirects can lie behind a load, by the path it has come to.
Rank(t) ==
  \/ hops[t] = 0
  \/ hops[t] = 1 /\ going[t] = "login" /\ ~HasSession
  \/ hops[t] = 1 /\ going[t] = "home"
  \/ hops[t] = 1 /\ going[t] = "admin" /\ HasSession
  \/ hops[t] \in 1 .. 2 /\ going[t] = "account" /\ HasSession /\ ~mustChange[access.acct]
  \/ hops[t] \in 1 .. 2 /\ going[t] = "change"

LoadIsShort(t) ==
  /\ stage[t] = "idle" => hops[t] = 0
  /\ stage[t] # "idle" /\ steady[t] => Rank(t)
  /\ stage[t] \in {"layout", "page", "lists"} /\ steady[t] =>
       sent[t] = IF HasSession THEN access ELSE NoCookie

TabInv(t) == LoadIsCleared(t) /\ ShellIsCleared(t) /\ LoadIsShort(t)

NavigationInv == TypeOK /\ AnswersCarry /\ CookiesPaired /\ \A t \in Tabs : TabInv(t)

\* No account gets a temporary password after its creation.
PasswordsSettle == \A u \in Users : mustChange'[u] => mustChange[u]

\* The session of the browser is what it was.
SameSession == access' = access /\ HasSession' = HasSession

\* Tab t loads and shows what it did.
SameTab(t) ==
  /\ page'[t] = page[t] /\ shell'[t] = shell[t]
  /\ stage'[t] = stage[t] /\ going'[t] = going[t]
  /\ sent'[t] = sent[t] /\ hops'[t] = hops[t]
  /\ steady'[t] => steady[t] /\ SameSession

\* Tab t begins a load.
Starts(t) ==
  /\ stage'[t] = "proxy" /\ hops'[t] = 0
  /\ \/ page'[t] = page[t] /\ shell'[t] = shell[t]
     \/ page'[t] = "blank" /\ shell'[t] = NoShell

-----------------------------------------------------------------------------
(* What a tab keeps                                                        *)

\* Whatever the others do, a tab that does not move keeps its invariant.
LEMMA Bystander ==
  ASSUME TypeOK, NEW t \in Tabs, TabInv(t), SameTab(t), PasswordsSettle
  PROVE  TabInv(t)'
<1>1. shell[t] # NoShell => shell[t].acct \in Users
      BY DEF TypeOK
<1>2. sent[t] # NoCookie => sent[t].acct \in Users
      BY DEF TypeOK, AccessCookies
<1>3. HasSession => access.acct \in Users
      BY DEF TypeOK, AccessCookies, HasSession, Live
<1>4. LoadIsCleared(t)'
      BY <1>2 DEF TabInv, SameTab, PasswordsSettle, LoadIsCleared
<1>5. ShellIsCleared(t)'
      BY <1>1 DEF TabInv, SameTab, PasswordsSettle, ShellIsCleared
<1>6. ASSUME Rank(t), SameSession PROVE Rank(t)'
      BY <1>3, <1>6 DEF Rank, SameTab, SameSession, PasswordsSettle
<1>7. LoadIsShort(t)'
      BY <1>6 DEF TabInv, SameTab, SameSession, LoadIsShort
<1> QED BY <1>4, <1>5, <1>7 DEF TabInv

\* So does a tab that begins a load, with or without its old document.
LEMMA Starting ==
  ASSUME TypeOK, NEW t \in Tabs, TabInv(t), Starts(t), PasswordsSettle
  PROVE  TabInv(t)'
<1>1. shell[t] # NoShell => shell[t].acct \in Users
      BY DEF TypeOK
<1>2. "blank" \notin Guarded
      BY DEF Guarded, Admin, Account
<1>3. LoadIsCleared(t)' /\ LoadIsShort(t)'
      BY DEF Starts, LoadIsCleared, LoadIsShort, Rank
<1>4. ShellIsCleared(t)'
      BY <1>1, <1>2 DEF Starts, ShellIsCleared, TabInv, PasswordsSettle
<1> QED BY <1>3, <1>4 DEF TabInv

\* A redirect is followed, or the browser has had enough.
LEMMA Redirecting ==
  ASSUME TypeOK, NEW t \in Tabs, TabInv(t), NEW path \in Paths, Redirect(t, path),
         UNCHANGED mustChange, stage[t] # "idle",
         steady'[t] /\ stage'[t] # "idle" => Rank(t)'
  PROVE  TabInv(t)'
<1>1. "tooManyRedirects" \notin Guarded
      BY DEF Guarded, Admin, Account
<1>2. CASE hops[t] < MaxRedirects
      BY <1>2 DEF TypeOK, Redirect, Goes, TabInv, LoadIsCleared, ShellIsCleared, LoadIsShort
<1>3. CASE ~(hops[t] < MaxRedirects)
      BY <1>1, <1>3 DEF TypeOK, Redirect, Ends, TabInv, LoadIsCleared, ShellIsCleared, LoadIsShort
<1> QED BY <1>2, <1>3

\* A page is shown under the layout that was there or the one just passed.
LEMMA Showing ==
  ASSUME TypeOK, NEW t \in Tabs, TabInv(t), NEW shown \in Paths \cup Nothing, Shows(t, shown),
         UNCHANGED mustChange,
         shown \in Guarded => shown = going[t] /\ stage[t] \in {"page", "lists"}
  PROVE  TabInv(t)'
<1>1. page'[t] = shown /\ stage'[t] = "idle" /\ hops'[t] = 0
      BY DEF Shows, Ends, TypeOK
<1>2. LoadIsCleared(t)' /\ LoadIsShort(t)'
      BY <1>1 DEF LoadIsCleared, LoadIsShort
<1>3. CASE shown \notin Guarded
  <2>1. shell'[t] = NoShell
        BY <1>3 DEF Shows, TypeOK
  <2> QED BY <2>1, <1>1, <1>2, <1>3 DEF TabInv, ShellIsCleared
<1>4. CASE shown \in Guarded /\ shown \in shell[t].over
  <2>1. shell'[t] = shell[t]
        BY <1>4 DEF Shows, TypeOK
  <2> QED BY <2>1, <1>1, <1>2, <1>4 DEF TabInv, ShellIsCleared
<1>5. CASE shown \in Guarded /\ shown \notin shell[t].over
  <2>1. shell'[t] = [over |-> IF shown \in Admin THEN Admin ELSE Account, acct |-> sent[t].acct]
        BY <1>5 DEF Shows, TypeOK
  <2>2. shown \in shell'[t].over /\ shell'[t].acct = sent[t].acct
        BY <2>1, <1>5 DEF Guarded
  <2>3. ~mustChange[sent[t].acct]
        BY <1>5 DEF TabInv, LoadIsCleared
  <2> QED BY <2>2, <2>3, <1>1, <1>2 DEF TabInv, ShellIsCleared
<1> QED BY <1>3, <1>4, <1>5

-----------------------------------------------------------------------------
(* The steps                                                               *)

\* A form sends its call.
Submits(t) ==
  \/ SubmitEmail(t) \/ SubmitCode(t) \/ ChangePassword(t) \/ Logout(t)
  \/ \E u \in Users : SubmitPassword(t, u) \/ Register(t, u)

\* A tab opens a page or goes on with its load.
Moves(t) ==
  \/ \E path \in Paths : Visit(t, path) \/ Follow(t, path)
  \/ Proxy(t) \/ Layout(t) \/ Page(t) \/ Lists(t)

LEMMA Steps ==
  ASSUME [Next]_vars
  PROVE  \/ \E t \in Tabs :
              \/ Submits(t) \/ Moves(t) \/ Arrives(t) \/ Fails(t)
              \/ \E u \in Users : ServerAction(t, u)
         \/ \E u \in Users : Elsewhere(u)
         \/ Tick
         \/ UNCHANGED vars
BY DEF Next, Submits, Moves

\* What a load leaves alone.
LEMMA MovesEffect ==
  ASSUME TypeOK, NEW t \in Tabs, Moves(t)
  PROVE  /\ UNCHANGED <<now, accounts, cookies>>
         /\ \A s \in Tabs \ {t} : SameTab(s) /\ answer'[s] = answer[s]
         /\ answer'[t] \in {answer[t], NoAnswer}
<1> USE DEF TypeOK, SameTab, SameSession, HasSession, Live, accounts, cookies
<1>1. ASSUME NEW path \in Paths, Redirect(t, path) PROVE
        \A s \in Tabs \ {t} : /\ page'[s] = page[s] /\ shell'[s] = shell[s]
                               /\ stage'[s] = stage[s] /\ going'[s] = going[s]
                               /\ sent'[s] = sent[s] /\ hops'[s] = hops[s]
      BY <1>1 DEF Redirect, Goes, Ends
<1>2. ASSUME NEW shown, Shows(t, shown) PROVE
        \A s \in Tabs \ {t} : /\ page'[s] = page[s] /\ shell'[s] = shell[s]
                               /\ stage'[s] = stage[s] /\ going'[s] = going[s]
                               /\ sent'[s] = sent[s] /\ hops'[s] = hops[s]
      BY <1>2 DEF Shows, Ends
<1>3. ASSUME NEW d, Enters(t, d) PROVE
        \A s \in Tabs \ {t} : /\ page'[s] = page[s] /\ shell'[s] = shell[s]
                               /\ stage'[s] = stage[s] /\ going'[s] = going[s]
                               /\ hops'[s] = hops[s]
      BY <1>3 DEF Enters
<1>4. {"login", "home", "admin", "account", "change"} \subseteq Paths
      BY DEF Paths, Guarded, Admin, Account
<1>5. ASSUME NEW path \in Paths, Visit(t, path) \/ Follow(t, path) PROVE
        /\ UNCHANGED <<now, accounts, cookies>>
        /\ \A s \in Tabs \ {t} : SameTab(s) /\ answer'[s] = answer[s]
        /\ answer'[t] \in {answer[t], NoAnswer}
  <2>1. CASE Visit(t, path)
        BY <2>1 DEF Visit, Goes
  <2>2. CASE Follow(t, path)
        BY <2>2 DEF Follow, Goes
  <2> QED BY <1>5, <2>1, <2>2
<1>6. CASE Proxy(t)
  <2>1. UNCHANGED <<now, accounts, cookies, steady, answer>>
        BY <1>6 DEF Proxy
  <2>2. CASE \E path \in Paths : Redirect(t, path)
        BY <1>1, <2>1, <2>2
  <2>3. CASE \E shown : Shows(t, shown)
        BY <1>2, <2>1, <2>3
  <2>4. CASE \E d : Enters(t, d) /\ sent' = [sent EXCEPT ![t] = IF HasSession THEN access ELSE NoCookie]
        BY <1>3, <2>1, <2>4
  <2> QED BY <1>4, <1>6, <2>2, <2>3, <2>4 DEF Proxy
<1>7. CASE Layout(t)
      BY <1>1, <1>3, <1>4, <1>7 DEF Layout, Unauthorized
<1>8. CASE Page(t)
      BY <1>1, <1>2, <1>3, <1>4, <1>8 DEF Page, Unauthorized
<1>9. CASE Lists(t)
      BY <1>1, <1>2, <1>4, <1>9 DEF Lists, Unauthorized
<1> QED BY <1>5, <1>6, <1>7, <1>8, <1>9 DEF Moves

\* A call, a lost answer and a change made elsewhere move no tab.
LEMMA FormsEffect ==
  ASSUME TypeOK,
         \/ \E t \in Tabs : Submits(t) \/ Fails(t)
         \/ \E u \in Users : Elsewhere(u)
  PROVE  /\ UNCHANGED <<now, cookies>> /\ PasswordsSettle
         /\ \A s \in Tabs : SameTab(s)
<1> USE DEF TypeOK, PasswordsSettle, SameTab, SameSession, HasSession, Live, accounts, cookies, load
<1>1. ASSUME NEW t \in Tabs, Submits(t)
      PROVE UNCHANGED <<now, cookies, page, shell, load, steady>> /\ PasswordsSettle
  <2>1. CASE SubmitEmail(t) \/ SubmitCode(t) \/ Logout(t)
        BY <2>1 DEF SubmitEmail, SubmitCode, Logout, Calls
  <2>2. CASE ChangePassword(t)
        BY <2>2 DEF ChangePassword, Calls
  <2>3. CASE \E u \in Users : SubmitPassword(t, u) \/ Register(t, u)
        BY <2>3 DEF SubmitPassword, Register, Calls
  <2> QED BY <1>1, <2>1, <2>2, <2>3 DEF Submits
<1>2. ASSUME NEW t \in Tabs, Fails(t)
      PROVE UNCHANGED <<now, cookies, page, shell, load, steady>> /\ PasswordsSettle
      BY <1>2 DEF Fails
<1>3. ASSUME NEW u \in Users, Elsewhere(u)
      PROVE UNCHANGED <<now, cookies, page, shell, load, steady>> /\ PasswordsSettle
      BY <1>3 DEF Elsewhere, Administers
<1> QED BY <1>1, <1>2, <1>3

\* An answer moves its own tab, and takes the session from the loads of others.
LEMMA ArrivesEffect ==
  ASSUME TypeOK, NEW t \in Tabs, Arrives(t)
  PROVE  /\ UNCHANGED <<now, accounts>>
         /\ \A s \in Tabs \ {t} : SameTab(s)
         /\ Starts(t) \/ SameTab(t)
<1> USE DEF TypeOK, SameTab, SameSession, HasSession, Live, accounts, cookies, load, Starts,
            Goes, Pushes
<1>1. UNCHANGED <<now, accounts, page, shell>>
      BY DEF Arrives
<1>2. CASE answer[t].what \in {"session", "admitted"}
  <2>1. \A s \in Tabs \ {t} : steady'[s] => steady[s] /\ access' = access
        BY <1>2 DEF Arrives, SetSessionCookies, SetAccess
  <2>2. PICK path : Pushes(t, path)
        BY <1>2 DEF Arrives
  <2> QED BY <1>1, <2>1, <2>2
<1>3. CASE answer[t].what = "loggedOut"
  <2>1. \A s \in Tabs \ {t} : steady'[s] => steady[s] /\ access' = access
        BY <1>3 DEF Arrives, SetAccess
  <2>2. Pushes(t, "login")
        BY <1>3 DEF Arrives
  <2> QED BY <1>1, <2>1, <2>2
<1>4. CASE answer[t].what = "changed"
      BY <1>1, <1>4 DEF Arrives
<1>5. CASE answer[t].what \in {"step1", "challenge"}
      BY <1>1, <1>5 DEF Arrives
<1> QED BY <1>1, <1>2, <1>3, <1>4, <1>5 DEF Arrives

\* A server action keeps the others where they are.
LEMMA ServerActionEffect ==
  ASSUME TypeOK, NEW t \in Tabs, NEW u \in Users, ServerAction(t, u)
  PROVE  /\ UNCHANGED <<now, cookies>> /\ PasswordsSettle
         /\ \A s \in Tabs \ {t} : SameTab(s)
<1> USE DEF TypeOK, PasswordsSettle, SameTab, SameSession, HasSession, Live, accounts, cookies, load
<1>1. UNCHANGED <<now, cookies>> /\ PasswordsSettle
      BY DEF ServerAction, Administers
<1>2. \A s \in Tabs \ {t} : /\ page'[s] = page[s] /\ shell'[s] = shell[s]
                            /\ stage'[s] = stage[s] /\ going'[s] = going[s]
                            /\ sent'[s] = sent[s] /\ hops'[s] = hops[s]
                            /\ steady'[s] = steady[s]
      BY DEF ServerAction, Goes
<1> QED BY <1>1, <1>2

\* Time takes the session from the loads that are on their way.
LEMMA TickEffect ==
  ASSUME TypeOK, Tick
  PROVE  PasswordsSettle /\ \A s \in Tabs : SameTab(s)
<1> USE DEF TypeOK, AccessCookies, PasswordsSettle, SameTab, SameSession, HasSession, Live,
            accounts, cookies, load, Tick
<1>1. ASSUME ~(HasSession /\ access.until = now + 1) PROVE SameSession
      BY <1>1
<1> QED BY <1>1

-----------------------------------------------------------------------------
(* Types, answers and cookies                                              *)

LEMMA PathsKnown ==
  /\ {"login", "home", "admin", "account", "change"} \subseteq Paths
  /\ Guarded \subseteq Paths
  /\ NoAnswer.what \notin {"session", "admitted", "challenge"}
BY DEF Paths, Guarded, Admin, Account, NoAnswer

\* The variables of the tabs stay in their types whatever a load does.
TabTypes ==
  /\ page \in [Tabs -> Paths \cup Nothing]
  /\ shell \in [Tabs -> [over : {Admin, Account}, acct : Users] \cup {NoShell}]
  /\ step \in [Tabs -> {"email", "password", "two-factor"}]
  /\ stage \in [Tabs -> Stages] /\ going \in [Tabs -> Paths]
  /\ sent \in [Tabs -> AccessCookies \cup {NoCookie}]
  /\ hops \in [Tabs -> 0 .. MaxRedirects]

LEMMA RedirectTypes ==
  ASSUME TypeOK, NEW t \in Tabs, NEW path \in Paths, Redirect(t, path)
  PROVE  TabTypes'
<1> USE DEF TypeOK, TabTypes, Nothing, Stages
<1>1. CASE hops[t] < MaxRedirects
  <2>1. hops[t] + 1 \in 0 .. MaxRedirects
        BY <1>1, NavigationAssumption
  <2> QED BY <1>1, <2>1 DEF Redirect, Goes
<1>2. CASE ~(hops[t] < MaxRedirects)
      BY <1>2, NavigationAssumption DEF Redirect, Ends
<1> QED BY <1>1, <1>2

LEMMA ShowsTypes ==
  ASSUME TypeOK, NEW t \in Tabs, NEW shown \in Paths \cup Nothing, Shows(t, shown),
         shown \in Guarded => sent[t] # NoCookie
  PROVE  TabTypes'
<1> USE DEF TypeOK, TabTypes, Stages
<1>1. 0 \in 0 .. MaxRedirects
      BY NavigationAssumption
<1>2. shown \in Guarded => sent[t].acct \in Users
      BY DEF AccessCookies
<1>3. shell' \in [Tabs -> [over : {Admin, Account}, acct : Users] \cup {NoShell}]
  <2>1. CASE shown \notin Guarded
        BY <2>1 DEF Shows
  <2>2. CASE shown \in Guarded /\ shown \in shell[t].over
        BY <2>2 DEF Shows
  <2>3. CASE shown \in Guarded /\ shown \notin shell[t].over
        BY <2>3, <1>2 DEF Shows
  <2> QED BY <2>1, <2>2, <2>3
<1> QED BY <1>1, <1>3 DEF Shows, Ends

LEMMA EntersTypes ==
  ASSUME TypeOK, NEW t \in Tabs, NEW d \in Stages, Enters(t, d),
         NEW cookie \in AccessCookies \cup {NoCookie},
         sent' = sent \/ sent' = [sent EXCEPT ![t] = cookie]
  PROVE  TabTypes'
BY DEF TypeOK, TabTypes, Enters

LEMMA GoesTypes ==
  ASSUME TypeOK, NEW t \in Tabs, NEW path \in Paths, Goes(t, path),
         NEW n \in {0, 1}, hops' = [hops EXCEPT ![t] = n],
         page' = page \/ page' = [page EXCEPT ![t] = "blank"],
         shell' = shell \/ shell' = [shell EXCEPT ![t] = NoShell],
         UNCHANGED step
  PROVE  TabTypes'
<1>1. n \in 0 .. MaxRedirects
      BY NavigationAssumption
<1> QED BY <1>1 DEF TypeOK, TabTypes, Goes, Nothing, Stages

\* The types after a step, from those of its tabs.
LEMMA MovesTypes ==
  ASSUME TypeOK, NEW t \in Tabs, Moves(t)
  PROVE  TabTypes' /\ steady' \in [Tabs -> BOOLEAN]
<1> USE PathsKnown
<1>1. ASSUME NEW path \in Paths, Visit(t, path) \/ Follow(t, path)
      PROVE  TabTypes' /\ steady' \in [Tabs -> BOOLEAN]
  <2>1. steady' \in [Tabs -> BOOLEAN]
        BY <1>1 DEF Visit, Follow, TypeOK
  <2> QED BY <1>1, <2>1, GoesTypes DEF Visit, Follow
<1>2. CASE Proxy(t)
  <2>1. steady' \in [Tabs -> BOOLEAN]
        BY <1>2 DEF Proxy, TypeOK
  <2>2. CASE \E path \in Paths : Redirect(t, path)
        BY <2>1, <2>2, RedirectTypes
  <2>3. CASE going[t] \notin Guarded /\ Shows(t, going[t])
        BY <2>1, <2>3, ShowsTypes DEF TypeOK
  <2>4. CASE /\ Enters(t, IF going[t] \in shell[t].over THEN "page" ELSE "layout")
             /\ sent' = [sent EXCEPT ![t] = IF HasSession THEN access ELSE NoCookie]
    <3>1. (IF going[t] \in shell[t].over THEN "page" ELSE "layout") \in Stages
          BY DEF Stages
    <3>2. (IF HasSession THEN access ELSE NoCookie) \in AccessCookies \cup {NoCookie}
          BY DEF TypeOK
    <3> QED BY <2>1, <2>4, <3>1, <3>2, EntersTypes
  <2> QED BY <1>2, <2>2, <2>3, <2>4 DEF Proxy
<1>3. CASE Layout(t)
  <2>1. steady' \in [Tabs -> BOOLEAN]
        BY <1>3 DEF Layout, Unauthorized, TypeOK
  <2>2. CASE \E path \in Paths : Redirect(t, path)
        BY <2>1, <2>2, RedirectTypes
  <2>3. CASE Enters(t, "page") /\ UNCHANGED sent
        BY <2>1, <2>3, EntersTypes DEF Stages
  <2> QED BY <1>3, <2>2, <2>3 DEF Layout, Unauthorized
<1>4. CASE Page(t)
  <2>1. steady' \in [Tabs -> BOOLEAN]
        BY <1>4 DEF Page, Unauthorized, TypeOK
  <2>2. CASE \E path \in Paths : Redirect(t, path)
        BY <2>1, <2>2, RedirectTypes
  <2>3. CASE Enters(t, "lists") /\ UNCHANGED sent
        BY <2>1, <2>3, EntersTypes DEF Stages
  <2>4. CASE Answers(sent[t]) /\ Shows(t, going[t])
        BY <2>1, <2>4, ShowsTypes DEF TypeOK, Answers, Live
  <2> QED BY <1>4, <2>2, <2>3, <2>4 DEF Page, Unauthorized
<1>5. CASE Lists(t)
  <2>1. steady' \in [Tabs -> BOOLEAN]
        BY <1>5 DEF Lists, Unauthorized, TypeOK
  <2>2. CASE \E path \in Paths : Redirect(t, path)
        BY <2>1, <2>2, RedirectTypes
  <2>3. CASE Answers(sent[t]) /\ (Shows(t, going[t]) \/ Shows(t, "error"))
        BY <2>1, <2>3, ShowsTypes DEF TypeOK, Answers, Live, Nothing
  <2> QED BY <1>5, <2>2, <2>3 DEF Lists, Unauthorized
<1> QED BY <1>1, <1>2, <1>3, <1>4, <1>5 DEF Moves

\* An account stays registered, with one role or another.
LEMMA RegisteredStay ==
  ASSUME TypeOK, [Next]_vars
  PROVE  \A u \in Users : role[u] # NoRole => role'[u] # NoRole
<1> USE NavigationAssumption DEF TypeOK, accounts, Roles
<1>1. ASSUME NEW u \in Users, Administers(u)
      PROVE \A w \in Users : role[w] # NoRole => role'[w] # NoRole
      BY <1>1 DEF Administers
<1>2. ASSUME NEW t \in Tabs, Submits(t)
      PROVE \A w \in Users : role[w] # NoRole => role'[w] # NoRole
      BY <1>2 DEF Submits, SubmitEmail, SubmitPassword, SubmitCode, Register, ChangePassword, Logout
<1>3. ASSUME NEW t \in Tabs, NEW u \in Users, ServerAction(t, u)
      PROVE \A w \in Users : role[w] # NoRole => role'[w] # NoRole
      BY <1>1, <1>3 DEF ServerAction
<1> QED BY <1>1, <1>2, <1>3, Steps, MovesEffect
        DEF Elsewhere, Arrives, Fails, Tick, vars


LEMMA ReplyTypes ==
  ASSUME NEW a \in Replies
  PROVE  /\ a.what \in {"session", "admitted"} => a.acct \in Users /\ a.role \in Roles
         /\ a.what = "challenge" => a.acct \in Users
BY DEF Replies

\* What the calls put into an answer, and that nothing else fills it.
LEMMA AnswerTypes ==
  ASSUME TypeOK, AnswersCarry, [Next]_vars
  PROVE  /\ answer' \in [Tabs -> Replies]
         /\ \A s \in Tabs : answer'[s].what = "challenge" => role'[answer'[s].acct] # NoRole
<1>1. \A u \in Users : role[u] # NoRole => role'[u] # NoRole
      BY RegisteredStay
<1>2. NoAnswer \in Replies /\ NoAnswer.what # "challenge"
      BY DEF NoAnswer, Replies
<1>3. ASSUME NEW t \in Tabs, NEW a \in Replies, answer' = [answer EXCEPT ![t] = a],
             a.what = "challenge" => role[a.acct] # NoRole
      PROVE  /\ answer' \in [Tabs -> Replies]
             /\ \A s \in Tabs : answer'[s].what = "challenge" => role'[answer'[s].acct] # NoRole
  <2>1. answer' \in [Tabs -> Replies]
        BY <1>3 DEF TypeOK
  <2>2. \A s \in Tabs : answer'[s] = answer[s] \/ answer'[s] = a
        BY <1>3 DEF TypeOK
  <2>3. \A s \in Tabs : answer'[s].what = "challenge" =>
                           answer'[s].acct \in Users /\ role[answer'[s].acct] # NoRole
        BY <2>1, <2>2, <1>3, ReplyTypes DEF AnswersCarry
  <2> QED BY <1>1, <2>1, <2>3
<1>4. CASE UNCHANGED answer
  <2>1. answer' \in [Tabs -> Replies]
        BY <1>4 DEF TypeOK
  <2>2. \A s \in Tabs : answer'[s].what = "challenge" => answer'[s].acct \in Users
        BY <2>1, ReplyTypes
  <2> QED BY <1>1, <1>4, <2>1, <2>2 DEF AnswersCarry
<1>5. ASSUME NEW u \in Users, role[u] # NoRole
      PROVE  Session(u) \in Replies /\ [Session(u) EXCEPT !.what = "admitted"] \in Replies
  <2>1. role[u] \in Roles
        BY <1>5 DEF TypeOK
  <2> QED BY <2>1 DEF Session, Replies
<1>6. ASSUME NEW t \in Tabs, Submits(t)
      PROVE  \E a \in Replies : /\ answer' = [answer EXCEPT ![t] = a]
                                /\ a.what = "challenge" => role[a.acct] # NoRole
  <2>1. CASE SubmitEmail(t) \/ ChangePassword(t) \/ Logout(t)
    <3>1. {[what |-> "step1"], [what |-> "changed"], [what |-> "loggedOut"]} \subseteq Replies
          BY DEF Replies
    <3> QED BY <2>1, <3>1 DEF SubmitEmail, ChangePassword, Logout, Calls
  <2>2. CASE SubmitCode(t)
    <3>1. challenge \in Users /\ role[challenge] # NoRole
          BY <2>2 DEF SubmitCode, TypeOK, AnswersCarry
    <3>2. [Session(challenge) EXCEPT !.what = "admitted"].what # "challenge"
          BY DEF Session
    <3> QED BY <2>2, <3>1, <3>2, <1>5 DEF SubmitCode, Calls
  <2>3. ASSUME NEW u \in Users, SubmitPassword(t, u)
        PROVE  \E a \in Replies : /\ answer' = [answer EXCEPT ![t] = a]
                                  /\ a.what = "challenge" => role[a.acct] # NoRole
    <3>1. [what |-> "challenge", acct |-> u] \in Replies
          BY DEF Replies
    <3>2. role[u] # NoRole
          BY <2>3 DEF SubmitPassword
    <3>3. CASE u \in TwoFactor
          BY <2>3, <3>1, <3>2, <3>3 DEF SubmitPassword, Calls
    <3>4. CASE u \notin TwoFactor
          BY <2>3, <3>2, <3>4, <1>5 DEF SubmitPassword, Calls, Session
    <3> QED BY <3>3, <3>4
  <2>4. ASSUME NEW u \in Users, Register(t, u)
        PROVE  \E a \in Replies : /\ answer' = [answer EXCEPT ![t] = a]
                                  /\ a.what = "challenge" => role[a.acct] # NoRole
    <3>1. [what |-> "session", acct |-> u, role |-> "usuario"] \in Replies
          BY DEF Replies, Roles
    <3> QED BY <2>4, <3>1 DEF Register, Calls
  <2> QED BY <1>6, <2>1, <2>2, <2>3, <2>4 DEF Submits
<1>7. ASSUME NEW t \in Tabs, Arrives(t) \/ Fails(t)
      PROVE  answer' = [answer EXCEPT ![t] = NoAnswer]
      BY <1>7 DEF Arrives, Fails
<1>8. ASSUME NEW t \in Tabs, Moves(t)
      PROVE  UNCHANGED answer \/ answer' = [answer EXCEPT ![t] = NoAnswer]
      BY <1>8 DEF Moves, Visit, Follow, Proxy, Layout, Page, Lists
<1>9. ASSUME \/ \E t \in Tabs, u \in Users : ServerAction(t, u)
             \/ \E u \in Users : Elsewhere(u)
             \/ Tick
             \/ UNCHANGED vars
      PROVE  UNCHANGED answer
      BY <1>9 DEF ServerAction, Elsewhere, Tick, vars
<1> QED BY <1>2, <1>3, <1>4, <1>6, <1>7, <1>8, <1>9, Steps

LEMMA ChallengeStep ==
  ASSUME NEW t \in Tabs, Arrives(t)
  PROVE  \/ UNCHANGED challenge \/ challenge' = NoCookie
         \/ challenge' = answer[t].acct /\ answer[t].what = "challenge"
<1>1. CASE answer[t].what \in {"session", "admitted"}
      BY <1>1 DEF Arrives
<1>2. CASE answer[t].what = "loggedOut"
      BY <1>2 DEF Arrives
<1>3. CASE answer[t].what = "changed"
      BY <1>3 DEF Arrives, cookies
<1>4. CASE answer[t].what \in {"step1", "challenge"}
      BY <1>4 DEF Arrives
<1> QED BY <1>1, <1>2, <1>3, <1>4 DEF Arrives

LEMMA TypesKept ==
  ASSUME TypeOK, AnswersCarry, [Next]_vars
  PROVE  TypeOK'
<1> USE PathsKnown
<1>0. answer' \in [Tabs -> Replies]
      BY AnswerTypes
<1>r. \A t \in Tabs : /\ answer[t].what \in {"session", "admitted"} =>
                           answer[t].acct \in Users /\ answer[t].role \in Roles
                      /\ answer[t].what = "challenge" => answer[t].acct \in Users
      BY ReplyTypes DEF TypeOK
<1>1. ASSUME TabTypes', steady' \in [Tabs -> BOOLEAN],
             UNCHANGED <<now, accounts, cookies>>, visits' \in Nat
      PROVE  TypeOK'
      BY <1>0, <1>1 DEF TypeOK, TabTypes, accounts, cookies
<1>2. ASSUME NEW t \in Tabs, Moves(t) PROVE TypeOK'
  <2>1. visits' \in Nat
        BY <1>2 DEF Moves, Visit, Follow, Proxy, Layout, Page, Lists, TypeOK
  <2> QED BY <2>1, <1>1, <1>2, MovesTypes, MovesEffect
<1>3. ASSUME NEW t \in Tabs, Submits(t) PROVE TypeOK'
  <2>1. UNCHANGED <<now, visits, cookies, page, shell, step, load, steady>>
        BY <1>3 DEF Submits, SubmitEmail, SubmitPassword, SubmitCode, Register, ChangePassword,
                    Logout, Calls
  <2>2. /\ role' \in [Users -> Roles \cup {NoRole}] /\ active' = active
        /\ mustChange' \in [Users -> BOOLEAN] /\ changes' = changes
        BY <1>3 DEF Submits, SubmitEmail, SubmitPassword, SubmitCode, Register, ChangePassword,
                    Logout, TypeOK, accounts, Roles
  <2> QED BY <1>0, <2>1, <2>2 DEF TypeOK, cookies, load
<1>4. ASSUME NEW u \in Users, Administers(u)
      PROVE  /\ changes' \in Nat /\ mustChange' = mustChange
             /\ role' \in [Users -> Roles \cup {NoRole}] /\ active' \in [Users -> BOOLEAN]
  <2>1. changes' \in Nat /\ mustChange' = mustChange
        BY <1>4 DEF Administers, TypeOK
  <2>2. role' \in [Users -> Roles \cup {NoRole}]
        BY <1>4 DEF Administers, TypeOK
  <2>3. CASE UNCHANGED active
        BY <2>1, <2>2, <2>3 DEF TypeOK
  <2>4. CASE active' = [active EXCEPT ![u] = ~@]
    <3>1. active \in [Users -> BOOLEAN] /\ (~active[u]) \in BOOLEAN
          BY DEF TypeOK
    <3>2. active' \in [Users -> BOOLEAN]
          BY <2>4, <3>1, Zenon
    <3> QED BY <2>1, <2>2, <3>2
  <2> QED BY <1>4, <2>3, <2>4 DEF Administers
<1>5. ASSUME NEW u \in Users, Elsewhere(u) PROVE TypeOK'
      BY <1>0, <1>5, <1>4 DEF Elsewhere, TypeOK, cookies, load
<1>6. ASSUME NEW t \in Tabs, NEW u \in Users, ServerAction(t, u) PROVE TypeOK'
  <2>1. UNCHANGED <<now, visits, cookies, step>> /\ steady' \in [Tabs -> BOOLEAN]
        BY <1>6 DEF ServerAction, TypeOK
  <2>2. TabTypes'
    <3>1. CASE \E path \in Paths, n \in {0, 1} :
                 /\ Goes(t, path) /\ hops' = [hops EXCEPT ![t] = n]
                 /\ \/ UNCHANGED <<page, shell>>
                    \/ /\ page' = [page EXCEPT ![t] = "blank"]
                       /\ shell' = [shell EXCEPT ![t] = NoShell]
          BY <3>1, <2>1, GoesTypes
    <3>2. CASE /\ page' = [page EXCEPT ![t] = "error"]
               /\ shell' = [shell EXCEPT ![t] = NoShell] /\ UNCHANGED load
          BY <3>2, <2>1 DEF TypeOK, TabTypes, Nothing, load
    <3>3. page[t] \in {"users", "roles"} => page[t] \in Paths
          BY DEF Paths, Guarded, Admin
    <3> QED BY <1>6, <3>1, <3>2, <3>3 DEF ServerAction
  <2>3. /\ role' \in [Users -> Roles \cup {NoRole}] /\ active' \in [Users -> BOOLEAN]
        /\ mustChange' = mustChange /\ changes' \in Nat
        BY <1>6, <1>4 DEF ServerAction, accounts, TypeOK
  <2> QED BY <1>0, <2>1, <2>2, <2>3 DEF TypeOK, TabTypes, cookies
<1>7. ASSUME NEW t \in Tabs, Fails(t) PROVE TypeOK'
      BY <1>0, <1>7 DEF Fails, TypeOK, accounts, cookies, load
<1>8. CASE Tick
      BY <1>0, <1>8 DEF Tick, TypeOK, accounts, cookies, load
<1>9. CASE UNCHANGED vars
      BY <1>0, <1>9 DEF vars, TypeOK, accounts, cookies, load
<1>10. ASSUME NEW t \in Tabs, Arrives(t) PROVE TypeOK'
  <2>1. UNCHANGED <<now, visits, accounts, page, shell>>
        BY <1>10 DEF Arrives
  <2>2. steady' \in [Tabs -> BOOLEAN]
    <3>1. ASSUME NEW cookie, SetAccess(cookie, t) PROVE steady' \in [Tabs -> BOOLEAN]
          BY <3>1 DEF SetAccess, TypeOK
    <3> QED BY <1>10, <3>1 DEF Arrives, SetSessionCookies, TypeOK
  <2>3. step' \in [Tabs -> {"email", "password", "two-factor"}]
        BY <1>10 DEF Arrives, TypeOK
  <2>4. challenge' \in Users \cup {NoCookie}
    <3>1. \/ UNCHANGED challenge \/ challenge' = NoCookie
          \/ challenge' = answer[t].acct /\ answer[t].what = "challenge"
          BY <1>10, ChallengeStep
    <3> QED BY <3>1, <1>r DEF TypeOK
  <2>5. /\ access' \in AccessCookies \cup {NoCookie}
        /\ refresh' \in [acct : Users, until : Nat] \cup {NoCookie}
    <3>1. CASE SetSessionCookies(answer[t], t) /\ answer[t].what \in {"session", "admitted"}
      <4>1. answer[t].acct \in Users /\ answer[t].role \in Roles
            BY <3>1, <1>r
      <4>2. now + AccessTTL \in Nat /\ now + RefreshTTL \in Nat
            BY NavigationAssumption DEF TypeOK
      <4> QED BY <3>1, <4>1, <4>2 DEF SetSessionCookies, SetAccess, AccessCookies
    <3>2. CASE access' = NoCookie /\ refresh' = NoCookie
          BY <3>2
    <3>3. CASE UNCHANGED <<access, refresh>>
          BY <3>3 DEF TypeOK
    <3> QED BY <1>10, <3>1, <3>2, <3>3 DEF Arrives, SetAccess, cookies
  <2>6. /\ stage' \in [Tabs -> Stages] /\ going' \in [Tabs -> Paths]
        /\ sent' \in [Tabs -> AccessCookies \cup {NoCookie}]
        /\ hops' \in [Tabs -> 0 .. MaxRedirects]
    <3>1. CASE \E path \in Paths : Pushes(t, path)
      <4>1. 0 \in 0 .. MaxRedirects
            BY NavigationAssumption
      <4> QED BY <3>1, <4>1 DEF Pushes, Goes, TypeOK, Stages
    <3>2. CASE UNCHANGED load
          BY <3>2 DEF load, TypeOK
    <3> QED BY <1>10, <3>1, <3>2 DEF Arrives
  <2> QED BY <1>0, <2>1, <2>2, <2>3, <2>4, <2>5, <2>6 DEF TypeOK, accounts
<1> QED BY <1>2, <1>3, <1>5, <1>6, <1>7, <1>8, <1>9, <1>10, Steps

LEMMA AnswersKept ==
  ASSUME TypeOK, AnswersCarry, [Next]_vars
  PROVE  AnswersCarry'
<1>1. \A u \in Users : role[u] # NoRole => role'[u] # NoRole
      BY RegisteredStay
<1>2. \A s \in Tabs : answer'[s].what = "challenge" => role'[answer'[s].acct] # NoRole
      BY AnswerTypes
<1>3. ASSUME UNCHANGED challenge PROVE challenge' # NoCookie => role'[challenge'] # NoRole
      BY <1>1, <1>3 DEF AnswersCarry, TypeOK
<1>4. ASSUME NEW t \in Tabs, Arrives(t) PROVE challenge' # NoCookie => role'[challenge'] # NoRole
  <2>1. \/ UNCHANGED challenge \/ challenge' = NoCookie
        \/ challenge' = answer[t].acct /\ answer[t].what = "challenge"
        BY <1>4, ChallengeStep
  <2>2. answer[t].what = "challenge" => answer[t].acct \in Users /\ role[answer[t].acct] # NoRole
        BY ReplyTypes DEF TypeOK, AnswersCarry
  <2> QED BY <1>1, <1>3, <2>1, <2>2
<1>5. ASSUME \/ \E t \in Tabs : Submits(t) \/ Fails(t)
             \/ \E u \in Users : Elsewhere(u)
      PROVE  UNCHANGED challenge
      BY <1>5, FormsEffect DEF cookies
<1>6. ASSUME NEW t \in Tabs, Moves(t) PROVE UNCHANGED challenge
      BY <1>6, MovesEffect DEF cookies
<1>7. ASSUME \/ \E t \in Tabs, u \in Users : ServerAction(t, u)
             \/ Tick \/ UNCHANGED vars
      PROVE  UNCHANGED challenge
      BY <1>7 DEF ServerAction, Tick, vars, cookies
<1>8. challenge' # NoCookie => role'[challenge'] # NoRole
      BY <1>3, <1>4, <1>5, <1>6, <1>7, Steps
<1> QED BY <1>2, <1>8 DEF AnswersCarry

LEMMA CookiesKept ==
  ASSUME TypeOK, AnswersCarry, CookiesPaired, [Next]_vars
  PROVE  CookiesPaired'
<1>1. ASSUME UNCHANGED <<access, refresh>> PROVE CookiesPaired'
      BY <1>1 DEF CookiesPaired
<1>2. ASSUME NEW t \in Tabs, Arrives(t) PROVE CookiesPaired'
  <2>1. CASE SetSessionCookies(answer[t], t) /\ answer[t].what \in {"session", "admitted"}
    <3>1. /\ access' = [acct |-> answer[t].acct, role |-> answer[t].role, until |-> now + AccessTTL]
          /\ refresh' = [acct |-> answer[t].acct, until |-> now + RefreshTTL]
          BY <2>1 DEF SetSessionCookies, SetAccess
    <3>2. now + AccessTTL <= now + RefreshTTL
          BY NavigationAssumption DEF TypeOK
    <3>3. refresh' # NoCookie
      <4>1. answer[t].acct \in Users
            BY <2>1, ReplyTypes DEF TypeOK
      <4>2. now + RefreshTTL \in Nat
            BY NavigationAssumption DEF TypeOK
      <4> QED BY <3>1, <4>1, <4>2, NavigationAssumption
    <3> QED BY <3>1, <3>2, <3>3 DEF CookiesPaired
  <2>2. CASE access' = NoCookie
        BY <2>2 DEF CookiesPaired
  <2>3. CASE UNCHANGED <<access, refresh>>
        BY <2>3, <1>1
  <2> QED BY <1>2, <2>1, <2>2, <2>3 DEF Arrives, SetAccess, cookies
<1>3. ASSUME \/ \E t \in Tabs : Submits(t) \/ Fails(t)
             \/ \E u \in Users : Elsewhere(u)
      PROVE  UNCHANGED <<access, refresh>>
      BY <1>3, FormsEffect DEF cookies
<1>4. ASSUME NEW t \in Tabs, Moves(t) PROVE UNCHANGED <<access, refresh>>
      BY <1>4, MovesEffect DEF cookies
<1>5. ASSUME \/ \E t \in Tabs, u \in Users : ServerAction(t, u)
             \/ Tick \/ UNCHANGED vars
      PROVE  UNCHANGED <<access, refresh>>
      BY <1>5 DEF ServerAction, Tick, vars, cookies
<1> QED BY <1>1, <1>2, <1>3, <1>4, <1>5, Steps

-----------------------------------------------------------------------------
(* The loads                                                               *)

\* A step of the load of tab t keeps the tab's invariant.
LEMMA LoadsKept ==
  ASSUME TypeOK, NEW t \in Tabs, TabInv(t), Moves(t)
  PROVE  TabInv(t)'
<1> USE PathsKnown
<1>1. /\ UNCHANGED <<now, mustChange, access>> /\ PasswordsSettle
      /\ HasSession' = HasSession
      BY MovesEffect DEF accounts, cookies, PasswordsSettle, HasSession, Live
<1>3. ASSUME NEW path \in Paths, Visit(t, path) \/ Follow(t, path) PROVE TabInv(t)'
  <2>1. Starts(t)
        BY <1>3 DEF Visit, Follow, Goes, Starts, TypeOK
  <2> QED BY <1>1, <2>1, Starting
<1>4. ASSUME NEW path \in Paths, Redirect(t, path), stage[t] # "idle", stage'[t] # "idle"
      PROVE  hops'[t] = hops[t] + 1 /\ going'[t] = path
      BY <1>4 DEF Redirect, Goes, Ends, TypeOK
<1>5. hops[t] \in Nat
      BY DEF TypeOK
<1>6. CASE Proxy(t)
  <2>1. steady' = steady /\ stage[t] = "proxy"
        BY <1>6 DEF Proxy
  <2>2. CASE going[t] \in Admin /\ ~HasSession /\ Redirect(t, "login")
    <3>1. steady'[t] => hops[t] = 0
          BY <2>1, <2>2 DEF TabInv, LoadIsShort, Rank, Admin
    <3>2. steady'[t] /\ stage'[t] # "idle" => Rank(t)'
          BY <1>1, <1>4, <2>1, <2>2, <3>1 DEF Rank
    <3> QED BY <1>1, <2>1, <2>2, <3>2, Redirecting
  <2>3. CASE going[t] = "login" /\ HasSession
              /\ Redirect(t, IF access.role = "usuario" THEN "home" ELSE "admin")
    <3>1. steady'[t] => hops[t] = 0
          BY <2>1, <2>3 DEF TabInv, LoadIsShort, Rank
    <3>2. steady'[t] /\ stage'[t] # "idle" => Rank(t)'
          BY <1>1, <1>4, <2>1, <2>3, <3>1 DEF Rank
    <3> QED BY <1>1, <2>1, <2>3, <3>2, Redirecting
  <2>4. CASE /\ going[t] \in Guarded
             /\ Enters(t, IF going[t] \in shell[t].over THEN "page" ELSE "layout")
             /\ sent' = [sent EXCEPT ![t] = IF HasSession THEN access ELSE NoCookie]
    <3>1. /\ stage'[t] = IF going[t] \in shell[t].over THEN "page" ELSE "layout"
          /\ sent'[t] = IF HasSession THEN access ELSE NoCookie
          /\ UNCHANGED <<page, shell, going, hops>>
          BY <2>4 DEF Enters, TypeOK
    <3>2. LoadIsCleared(t)' /\ ShellIsCleared(t)'
          BY <1>1, <2>4, <3>1 DEF TabInv, LoadIsCleared, ShellIsCleared
    <3>3. steady[t] => Rank(t)'
          BY <1>1, <2>1, <3>1 DEF TabInv, LoadIsShort, Rank
    <3>4. LoadIsShort(t)'
          BY <1>1, <2>1, <3>1, <3>3 DEF LoadIsShort
    <3> QED BY <3>2, <3>4 DEF TabInv
  <2>5. CASE going[t] \notin Guarded /\ Shows(t, going[t])
        BY <1>1, <2>5, Showing DEF TypeOK
  <2> QED BY <1>6, <2>2, <2>3, <2>4, <2>5 DEF Proxy
<1>7. ASSUME Unauthorized(t), stage[t] # "idle" PROVE TabInv(t)'
  <2>1. ~steady'[t] /\ Redirect(t, "login")
        BY <1>7 DEF Unauthorized, TypeOK
  <2> QED BY <1>1, <1>7, <2>1, Redirecting
<1>8. ASSUME stage[t] \in {"layout", "page", "lists"}, Answers(sent[t]), steady[t]
      PROVE  Rank(t) /\ HasSession /\ sent[t] = access
      BY <1>8 DEF Answers, Live, TabInv, LoadIsShort
<1>9. ASSUME NEW d \in {"page", "lists"}, Enters(t, d), UNCHANGED <<sent, steady>>,
             stage[t] \in {"layout", "page", "lists"},
             going[t] \in shell[t].over \/ (sent[t] # NoCookie /\ ~mustChange[sent[t].acct])
      PROVE  TabInv(t)'
  <2>1. stage'[t] = d /\ UNCHANGED <<page, shell, going, hops, sent, steady>>
        BY <1>9 DEF Enters, TypeOK
  <2>2. LoadIsCleared(t)' /\ ShellIsCleared(t)'
        BY <1>1, <1>9, <2>1 DEF TabInv, LoadIsCleared, ShellIsCleared
  <2>3. steady[t] => Rank(t)'
        BY <1>1, <1>9, <2>1 DEF TabInv, LoadIsShort, Rank
  <2>4. LoadIsShort(t)'
        BY <1>1, <1>9, <2>1, <2>3 DEF TabInv, LoadIsShort
  <2> QED BY <2>2, <2>4 DEF TabInv
<1>10. CASE Layout(t)
  <2>1. stage[t] = "layout"
        BY <1>10 DEF Layout
  <2>2. CASE Unauthorized(t)
        BY <1>7, <2>1, <2>2
  <2>3. CASE Answers(sent[t]) /\ mustChange[sent[t].acct] /\ Redirect(t, "change") /\ UNCHANGED steady
    <3>1. steady[t] => hops[t] \in 0 .. 1
          BY <1>8, <2>1, <2>3, <1>5 DEF Rank, TabInv, LoadIsCleared, Guarded, Admin, Account
    <3>2. steady'[t] /\ stage'[t] # "idle" => Rank(t)'
          BY <1>1, <1>4, <2>1, <2>3, <3>1 DEF Rank
    <3> QED BY <1>1, <2>1, <2>3, <3>2, Redirecting
  <2>4. CASE /\ Answers(sent[t]) /\ ~mustChange[sent[t].acct] /\ going[t] \in Admin
             /\ Redirect(t, "account") /\ UNCHANGED steady
    <3>1. steady[t] => hops[t] \in 0 .. 1 /\ HasSession /\ ~mustChange[access.acct]
          BY <1>8, <2>1, <2>4, <1>5 DEF Rank, Admin
    <3>2. steady'[t] /\ stage'[t] # "idle" => Rank(t)'
          BY <1>1, <1>4, <2>1, <2>4, <3>1 DEF Rank
    <3> QED BY <1>1, <2>1, <2>4, <3>2, Redirecting
  <2>5. CASE /\ Answers(sent[t]) /\ ~mustChange[sent[t].acct]
             /\ Enters(t, "page") /\ UNCHANGED <<sent, steady>>
        BY <1>9, <2>1, <2>5 DEF Answers, Live
  <2> QED BY <1>10, <2>2, <2>3, <2>4, <2>5 DEF Layout
<1>11. CASE Page(t)
  <2>1. stage[t] = "page"
        BY <1>11 DEF Page
  <2>2. CASE Unauthorized(t)
        BY <1>7, <2>1, <2>2
  <2>3. CASE Shows(t, going[t])
        BY <1>1, <2>1, <2>3, Showing DEF TypeOK
  <2>4. CASE Enters(t, "lists") /\ UNCHANGED <<sent, steady>>
    <3>1. going[t] \in shell[t].over \/ (sent[t] # NoCookie /\ ~mustChange[sent[t].acct])
          BY <2>1 DEF TabInv, LoadIsCleared
    <3>2. stage[t] \in {"layout", "page", "lists"}
          BY <2>1
    <3> QED BY <1>9, <2>4, <3>1, <3>2
  <2>5. CASE /\ Answers(sent[t]) /\ going[t] \in {"users", "roles"}
             /\ Redirect(t, "admin") /\ UNCHANGED steady
    <3>1. steady[t] => hops[t] = 0 /\ HasSession
          BY <1>8, <2>1, <2>5 DEF Rank
    <3>2. steady'[t] /\ stage'[t] # "idle" => Rank(t)'
          BY <1>1, <1>4, <2>1, <2>5, <3>1 DEF Rank
    <3> QED BY <1>1, <2>1, <2>5, <3>2, Redirecting
  <2> QED BY <1>11, <2>2, <2>3, <2>4, <2>5 DEF Page
<1>12. CASE Lists(t)
  <2>1. stage[t] = "lists" /\ "error" \notin Guarded
        BY <1>12 DEF Lists, Guarded, Admin, Account
  <2>2. CASE Unauthorized(t)
        BY <1>7, <2>1, <2>2
  <2>3. CASE Shows(t, going[t]) \/ Shows(t, "error")
        BY <1>1, <2>1, <2>3, Showing DEF TypeOK, Nothing
  <2> QED BY <1>12, <2>2, <2>3 DEF Lists
<1> QED BY <1>3, <1>6, <1>10, <1>11, <1>12 DEF Moves

\* The other steps move a tab by starting a load, or by an error page.
LEMMA TabsKept ==
  ASSUME NavigationInv, [Next]_vars
  PROVE  \A t \in Tabs : TabInv(t)'
<1> USE DEF NavigationInv
<1>1. ASSUME NEW t \in Tabs, Moves(t) PROVE \A s \in Tabs : TabInv(s)'
      BY <1>1, MovesEffect, LoadsKept, Bystander DEF PasswordsSettle, accounts
<1>2. ASSUME NEW t \in Tabs, Submits(t) \/ Fails(t) PROVE \A s \in Tabs : TabInv(s)'
      BY <1>2, FormsEffect, Bystander
<1>3. ASSUME NEW u \in Users, Elsewhere(u) PROVE \A s \in Tabs : TabInv(s)'
      BY <1>3, FormsEffect, Bystander
<1>4. ASSUME NEW t \in Tabs, Arrives(t) PROVE \A s \in Tabs : TabInv(s)'
      BY <1>4, ArrivesEffect, Bystander, Starting DEF PasswordsSettle, accounts
<1>5. CASE Tick
      BY <1>5, TickEffect, Bystander
<1>6. ASSUME NEW t \in Tabs, NEW u \in Users, ServerAction(t, u)
      PROVE  \A s \in Tabs : TabInv(s)'
  <2>1. PasswordsSettle /\ \A s \in Tabs \ {t} : SameTab(s)
        BY <1>6, ServerActionEffect
  <2>2. \A s \in Tabs \ {t} : TabInv(s)'
        BY <2>1, Bystander
  <2>3. CASE \E n \in {0, 1} : hops' = [hops EXCEPT ![t] = n] /\ stage'[t] = "proxy" /\ n = 1
              /\ UNCHANGED <<page, shell, mustChange>> /\ ~steady'[t]
    <3>1. LoadIsCleared(t)' /\ ShellIsCleared(t)' /\ LoadIsShort(t)'
          BY <2>3 DEF TabInv, LoadIsCleared, ShellIsCleared, LoadIsShort
    <3> QED BY <3>1, <2>2 DEF TabInv
  <2>4. CASE Starts(t)
        BY <2>1, <2>2, <2>4, Starting
  <2>5. CASE /\ page'[t] = "error" /\ shell'[t] = NoShell /\ stage'[t] = "idle"
             /\ hops'[t] = hops[t] /\ stage[t] = "idle"
    <3>1. "error" \notin Guarded
          BY DEF Guarded, Admin, Account
    <3>2. LoadIsCleared(t)' /\ ShellIsCleared(t)' /\ LoadIsShort(t)'
          BY <2>5, <3>1 DEF TabInv, LoadIsCleared, ShellIsCleared, LoadIsShort
    <3> QED BY <3>2, <2>2 DEF TabInv
  <2>6. CASE Goes(t, "login") /\ hops' = [hops EXCEPT ![t] = 1]
              /\ steady' = [steady EXCEPT ![t] = FALSE] /\ UNCHANGED <<accounts, page, shell>>
        BY <2>3, <2>6 DEF Goes, TypeOK, accounts
  <2>7. CASE Goes(t, page[t]) /\ page' = [page EXCEPT ![t] = "blank"]
              /\ shell' = [shell EXCEPT ![t] = NoShell] /\ hops' = [hops EXCEPT ![t] = 0]
        BY <2>4, <2>7 DEF Goes, TypeOK, Starts
  <2>8. CASE stage[t] = "idle" /\ page' = [page EXCEPT ![t] = "error"]
              /\ shell' = [shell EXCEPT ![t] = NoShell] /\ UNCHANGED load
        BY <2>5, <2>8 DEF load, TypeOK
  <2> QED BY <1>6, <2>6, <2>7, <2>8 DEF ServerAction
<1>7. CASE UNCHANGED vars
  <2>1. PasswordsSettle /\ \A s \in Tabs : SameTab(s)
        BY <1>7 DEF vars, accounts, cookies, load, PasswordsSettle, SameTab, SameSession,
                    HasSession, Live
  <2> QED BY <2>1, Bystander
<1> QED BY <1>1, <1>2, <1>3, <1>4, <1>5, <1>6, <1>7, Steps

LEMMA InvInit == Init => NavigationInv
<1> SUFFICES ASSUME Init PROVE NavigationInv
    OBVIOUS
<1> USE NavigationAssumption DEF Init
<1>1. 0 \in 0 .. MaxRedirects /\ "home" \in Paths /\ "home" \notin Guarded
      BY DEF Paths, Guarded, Admin, Account
<1>2. NoAnswer \in Replies /\ NoAnswer.what # "challenge"
      BY DEF NoAnswer, Replies
<1>3. TypeOK
      BY <1>1, <1>2 DEF TypeOK, Stages
<1>4. AnswersCarry /\ CookiesPaired
      BY <1>2 DEF AnswersCarry, CookiesPaired
<1>5. ASSUME NEW t \in Tabs PROVE TabInv(t)
      BY <1>1 DEF TabInv, LoadIsCleared, ShellIsCleared, LoadIsShort
<1> QED BY <1>3, <1>4, <1>5 DEF NavigationInv

LEMMA InvStep == NavigationInv /\ [Next]_vars => NavigationInv'
BY TypesKept, AnswersKept, CookiesKept, TabsKept DEF NavigationInv

\* The invariant that the properties follow from.
THEOREM NavigationSafe == Spec => []NavigationInv
BY InvInit, InvStep, PTL DEF Spec

\* The state stays in its types, whatever answers come when (Navigation).
THEOREM NavigationTypes == Spec => []TypeOK
<1>1. NavigationInv => TypeOK
      BY DEF NavigationInv
<1> QED BY <1>1, NavigationSafe, PTL

\* For any tabs and lifetimes, the refresh token of a browser is of the account
\* whose access token it uses (setSessionCookies, clearSessionCookies).
THEOREM LogoutFindsTheSession == Spec => []CookiesAgree
<1>1. NavigationInv => CookiesAgree
  <2> SUFFICES ASSUME NavigationInv, HasSession PROVE Live(refresh) /\ refresh.acct = access.acct
      BY DEF CookiesAgree
  <2>1. /\ access # NoCookie /\ now < access.until
        /\ refresh # NoCookie /\ refresh.acct = access.acct /\ access.until <= refresh.until
        BY DEF HasSession, Live, NavigationInv, CookiesPaired
  <2>2. now \in Nat /\ access.until \in Nat /\ refresh.until \in Nat
        BY <2>1 DEF NavigationInv, TypeOK, AccessCookies
  <2> QED BY <2>1, <2>2 DEF Live
<1> QED BY <1>1, NavigationSafe, PTL

\* No link, redirect, answer or administrator takes a pending account past the
\* layouts (AdminLayout, CuentaLayout).
THEOREM LayoutsHold == Spec => []PendingAccountsSeeOnlyTheForm
<1>1. NavigationInv => PendingAccountsSeeOnlyTheForm
  <2> SUFFICES ASSUME NavigationInv, NEW t \in Tabs, page[t] \in Guarded
               PROVE  page[t] \in shell[t].over /\ ~mustChange[shell[t].acct]
      BY DEF PendingAccountsSeeOnlyTheForm
  <2>1. page[t] \in shell[t].over
        BY DEF NavigationInv, TabInv, ShellIsCleared
  <2>2. shell[t] # NoShell
        BY <2>1 DEF NoShell
  <2> QED BY <2>1, <2>2 DEF NavigationInv, TabInv, ShellIsCleared
<1> QED BY <1>1, NavigationSafe, PTL

\* The proxy, the layouts and the pages never send a browser round in circles
\* as long as no 401 comes and its session is what it was.
THEOREM TwoRedirectsAtMost == Spec => []RedirectsAreFew
<1>1. NavigationInv => RedirectsAreFew
  <2> SUFFICES ASSUME NavigationInv, NEW t \in Tabs, steady[t] PROVE hops[t] <= 2
      BY DEF RedirectsAreFew
  <2>1. CASE stage[t] = "idle"
        BY <2>1 DEF NavigationInv, TabInv, LoadIsShort
  <2>2. CASE stage[t] # "idle"
        BY <2>2 DEF NavigationInv, TabInv, LoadIsShort, Rank
  <2> QED BY <2>1, <2>2
<1> QED BY <1>1, NavigationSafe, PTL
=============================================================================
