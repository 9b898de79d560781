--------------------------- MODULE SessionsProofs ---------------------------
(* Theorems about Sessions, for every set of accounts and calls, every       *)
(* assignment of endpoints to calls and every duration.                      *)
EXTENDS Sessions, TLAPS

-----------------------------------------------------------------------------
(* Types and the shape of a call                                             *)

\* The effect of a sweep is a column of booleans.
LEMMA RevokeSeenType ==
  ASSUME NEW r \in Requests, revoked \in [Requests -> BOOLEAN], RevokeSeen(r)
  PROVE  revoked' \in [Requests -> BOOLEAN]
BY DEF RevokeSeen

\* No call has arrived, and the tables hold the accounts of the seed.
LEMMA TypeInit == Init => TypeOK /\ CallShape
BY AccountsAssumption DEF Init, TypeOK, CallShape, Moments, Never, Labels

\* Types are preserved, because a call that has left "idle" acts for an
\* account that exists.
LEMMA TypeStep == TypeOK /\ CallShape /\ [Next]_vars => TypeOK'
<1> SUFFICES ASSUME TypeOK, CallShape, [Next]_vars PROVE TypeOK'
    OBVIOUS
<1> USE DEF TypeOK, CallShape, Moments, Never, Labels, Goto, Begins, dbUsers, dbTokens, dbLinks, call
<1>1. ASSUME NEW r \in Requests, Arrive(r) PROVE TypeOK'
  <2>1. ASSUME NEW u \in Users, RegisterRead(r, u)
        PROVE  TypeOK'
        BY <2>1 DEF RegisterRead
  <2>2. ASSUME NEW u \in Users, ForgotRead(r, u)
        PROVE  TypeOK'
        BY <2>2 DEF ForgotRead
  <2>3. ASSUME NEW u \in Users, NEW typed \in 0 .. pw[u], Login(r, u, typed)
        PROVE  TypeOK'
        BY <2>3, DurationsAssumption, SMTT(30) DEF Login
  <2>4. ASSUME NEW u \in Users, NEW typed \in 0 .. pw[u], ChangeGuard(r, u, typed)
        PROVE  TypeOK'
        BY <2>4 DEF ChangeGuard
  <2>5. ASSUME NEW t \in Requests, RefreshRead(r, t)
        PROVE  TypeOK'
        BY <2>5 DEF RefreshRead, WithinGrace
  <2>6. ASSUME NEW t \in Requests, Logout(r, t)
        PROVE  TypeOK'
        BY <2>6 DEF Logout
  <2>7. ASSUME NEW t \in Requests, ResetRead(r, t)
        PROVE  TypeOK'
        BY <2>7 DEF ResetRead
  <2>8. ASSUME NEW t \in Requests, NEW ok \in BOOLEAN, LoginTwoFactor(r, t, ok)
        PROVE  TypeOK'
        BY <2>8 DEF LoginTwoFactor
  <2> QED BY <1>1, <2>1, <2>2, <2>3, <2>4, <2>5, <2>6, <2>7, <2>8 DEF Arrive
<1>2. ASSUME NEW r \in Requests, Continue(r) PROVE TypeOK'
  <2>1. CASE RegisterCreate(r)
        BY <2>1 DEF RegisterCreate
  <2>2. CASE Rotate(r)
        BY <2>2 DEF Rotate
  <2>3. CASE CascadeSnapshot(r)
        BY <2>3 DEF CascadeSnapshot, Snapshot, SessionsOf
  <2>4. CASE CascadeApply(r)
        BY <2>4, RevokeSeenType DEF CascadeApply
  <2>5. CASE ChangeRead(r)
        BY <2>5 DEF ChangeRead
  <2>6. CASE ChangeSweep(r)
        BY <2>6 DEF ChangeSweep, Snapshot, SessionsOf
  <2>7. CASE ChangeCommit(r)
        BY <2>7, RevokeSeenType DEF ChangeCommit, SetPassword
  <2>8. CASE ForgotSweep(r)
        BY <2>8 DEF ForgotSweep
  <2>9. CASE ResetSweep(r)
        BY <2>9 DEF ResetSweep, Snapshot, SessionsOf
  <2>10. CASE ResetCommit(r)
    <3>1. CASE linkOf[arg[r]] # NoUser
      <4>1. RevokeSeen(r) /\ revoked' \in [Requests -> BOOLEAN]
            BY <2>10, <3>1, RevokeSeenType DEF ResetCommit, SetPassword
      <4>2. pw' = [pw EXCEPT ![acct[r]] = pw[acct[r]] + 1] /\ acct[r] \in Users
            BY <2>10, <3>1 DEF ResetCommit, SetPassword
      <4>3. linkUsed' = [linkUsed EXCEPT ![arg[r]] = TRUE]
            BY <2>10, <3>1 DEF ResetCommit
      <4>4. mustChange' = [mustChange EXCEPT ![acct[r]] = FALSE]
            BY <2>10, <3>1 DEF ResetCommit, SetPassword
      <4>5. pc' = [pc EXCEPT ![r] = "changed"]
            BY <2>10, <3>1 DEF ResetCommit
      <4>6. UNCHANGED <<now, exists, active, owner, usedAt, expires, linkOf,
                        linkUntil, chalUntil, known, acct, arg, gen, seen>>
            BY <2>10, <3>1 DEF ResetCommit, SetPassword
      <4>7. pw' \in [Users -> Nat] /\ mustChange' \in [Users -> BOOLEAN]
            BY <4>2, <4>4
      <4>8. linkUsed' \in [Requests -> BOOLEAN] /\ pc' \in [Requests -> Labels]
            BY <4>3, <4>5
      <4> QED BY <4>1, <4>6, <4>7, <4>8
    <3>2. CASE linkOf[arg[r]] = NoUser
          BY <2>10, <3>2 DEF ResetCommit
    <3> QED BY <3>1, <3>2
  <2>11. ASSUME NEW delivered \in BOOLEAN, Issue(r, delivered)
         PROVE  TypeOK'
         BY <2>11, DurationsAssumption DEF Issue
  <2>12. ASSUME NEW delivered \in BOOLEAN, ForgotCommit(r, delivered)
         PROVE  TypeOK'
         BY <2>12, DurationsAssumption DEF ForgotCommit
  <2> QED BY <1>2, <2>1, <2>2, <2>3, <2>4, <2>5, <2>6, <2>7, <2>8, <2>9, <2>10, <2>11, <2>12
         DEF Continue
<1>3. ASSUME NEW u \in Users, NEW b \in BOOLEAN, SetActive(u, b)
      PROVE  TypeOK'
      BY <1>3 DEF SetActive
<1>4. CASE Crash
      BY <1>4 DEF Crash, InFlight, Answered
<1>5. CASE Tick
      BY <1>5 DEF Tick
<1>6. CASE UNCHANGED vars
      BY <1>6 DEF vars
<1> QED BY <1>1, <1>2, <1>3, <1>4, <1>5, <1>6 DEF Next

\* A call creates nothing before it arrives.
LEMMA ShapeStep == TypeOK /\ CallShape /\ [Next]_vars => CallShape'
<1> SUFFICES ASSUME TypeOK, CallShape, [Next]_vars PROVE CallShape'
    OBVIOUS
<1> USE DEF TypeOK, CallShape, Labels, Goto, Begins, dbUsers, dbTokens, dbLinks, call, Never
<1>1. ASSUME NEW r \in Requests, Arrive(r) PROVE CallShape'
  <2>1. ASSUME NEW u \in Users, RegisterRead(r, u)
        PROVE  CallShape'
        BY <2>1 DEF RegisterRead
  <2>2. ASSUME NEW u \in Users, ForgotRead(r, u)
        PROVE  CallShape'
        BY <2>2 DEF ForgotRead
  <2>3. ASSUME NEW u \in Users, NEW typed \in 0 .. pw[u], Login(r, u, typed)
        PROVE  CallShape'
        BY <2>3 DEF Login
  <2>4. ASSUME NEW u \in Users, NEW typed \in 0 .. pw[u], ChangeGuard(r, u, typed)
        PROVE  CallShape'
        BY <2>4 DEF ChangeGuard
  <2>5. ASSUME NEW t \in Requests, RefreshRead(r, t)
        PROVE  CallShape'
        BY <2>5, AccountsAssumption DEF RefreshRead, WithinGrace
  <2>6. ASSUME NEW t \in Requests, Logout(r, t)
        PROVE  CallShape'
        BY <2>6, AccountsAssumption DEF Logout
  <2>7. ASSUME NEW t \in Requests, ResetRead(r, t)
        PROVE  CallShape'
        BY <2>7, AccountsAssumption DEF ResetRead
  <2>8. ASSUME NEW t \in Requests, NEW ok \in BOOLEAN, LoginTwoFactor(r, t, ok)
        PROVE  CallShape'
        BY <2>8, AccountsAssumption DEF LoginTwoFactor
  <2> QED BY <1>1, <2>1, <2>2, <2>3, <2>4, <2>5, <2>6, <2>7, <2>8 DEF Arrive
<1>2. ASSUME NEW r \in Requests, Continue(r) PROVE CallShape'
  <2>1. CASE RegisterCreate(r)
        BY <2>1 DEF RegisterCreate
  <2>2. CASE Rotate(r)
        BY <2>2 DEF Rotate
  <2>3. CASE CascadeSnapshot(r)
        BY <2>3 DEF CascadeSnapshot, Snapshot, SessionsOf
  <2>4. CASE CascadeApply(r)
        BY <2>4 DEF CascadeApply, RevokeSeen
  <2>5. CASE ChangeRead(r)
        BY <2>5 DEF ChangeRead
  <2>6. CASE ChangeSweep(r)
        BY <2>6 DEF ChangeSweep, Snapshot, SessionsOf
  <2>7. CASE ChangeCommit(r)
        BY <2>7 DEF ChangeCommit, SetPassword, RevokeSeen
  <2>8. CASE ForgotSweep(r)
        BY <2>8 DEF ForgotSweep
  <2>9. CASE ResetSweep(r)
        BY <2>9 DEF ResetSweep, Snapshot, SessionsOf
  <2>10. CASE ResetCommit(r)
    <3>1. CASE linkOf[arg[r]] # NoUser
          BY <2>10, <3>1 DEF ResetCommit, SetPassword, RevokeSeen
    <3>2. CASE linkOf[arg[r]] = NoUser
          BY <2>10, <3>2 DEF ResetCommit, SetPassword, RevokeSeen
    <3> QED BY <3>1, <3>2
  <2>11. ASSUME NEW delivered \in BOOLEAN, Issue(r, delivered)
         PROVE  CallShape'
         BY <2>11 DEF Issue
  <2>12. ASSUME NEW delivered \in BOOLEAN, ForgotCommit(r, delivered)
         PROVE  CallShape'
         BY <2>12 DEF ForgotCommit
  <2> QED BY <1>2, <2>1, <2>2, <2>3, <2>4, <2>5, <2>6, <2>7, <2>8, <2>9, <2>10, <2>11, <2>12
         DEF Continue
<1>3. ASSUME NEW u \in Users, NEW b \in BOOLEAN, SetActive(u, b)
      PROVE  CallShape'
      BY <1>3 DEF SetActive
<1>4. CASE Crash
      BY <1>4 DEF Crash, InFlight, Answered
<1>5. CASE Tick
      BY <1>5 DEF Tick
<1>6. CASE UNCHANGED vars
      BY <1>6 DEF vars
<1> QED BY <1>1, <1>2, <1>3, <1>4, <1>5, <1>6 DEF Next

-----------------------------------------------------------------------------
(* Rows, parents and sweeps                                                 *)

\* A row stays with the account of the call that created it.
LEMMA RowsStep == TypeOK /\ CallShape /\ RowsOfTheirCalls /\ [Next]_vars => RowsOfTheirCalls'
<1> SUFFICES ASSUME TypeOK, CallShape, RowsOfTheirCalls, [Next]_vars PROVE RowsOfTheirCalls'
    OBVIOUS
<1> USE DEF TypeOK, CallShape, RowsOfTheirCalls, Labels, Goto, Begins, dbUsers, dbTokens, dbLinks, call, Never
<1>1. ASSUME NEW r \in Requests, Arrive(r) PROVE RowsOfTheirCalls'
  <2>1. ASSUME NEW u \in Users, RegisterRead(r, u)
        PROVE  RowsOfTheirCalls'
        BY <2>1 DEF RegisterRead
  <2>2. ASSUME NEW u \in Users, ForgotRead(r, u)
        PROVE  RowsOfTheirCalls'
        BY <2>2 DEF ForgotRead
  <2>3. ASSUME NEW u \in Users, NEW typed \in 0 .. pw[u], Login(r, u, typed)
        PROVE  RowsOfTheirCalls'
        BY <2>3 DEF Login
  <2>4. ASSUME NEW u \in Users, NEW typed \in 0 .. pw[u], ChangeGuard(r, u, typed)
        PROVE  RowsOfTheirCalls'
        BY <2>4 DEF ChangeGuard
  <2>5. ASSUME NEW t \in Requests, RefreshRead(r, t)
        PROVE  RowsOfTheirCalls'
        BY <2>5 DEF RefreshRead, WithinGrace
  <2>6. ASSUME NEW t \in Requests, Logout(r, t)
        PROVE  RowsOfTheirCalls'
        BY <2>6 DEF Logout
  <2>7. ASSUME NEW t \in Requests, ResetRead(r, t)
        PROVE  RowsOfTheirCalls'
        BY <2>7 DEF ResetRead
  <2>8. ASSUME NEW t \in Requests, NEW ok \in BOOLEAN, LoginTwoFactor(r, t, ok)
        PROVE  RowsOfTheirCalls'
        BY <2>8 DEF LoginTwoFactor
  <2> QED BY <1>1, <2>1, <2>2, <2>3, <2>4, <2>5, <2>6, <2>7, <2>8 DEF Arrive
<1>2. ASSUME NEW r \in Requests, Continue(r) PROVE RowsOfTheirCalls'
  <2>1. CASE RegisterCreate(r)
        BY <2>1 DEF RegisterCreate
  <2>2. CASE Rotate(r)
        BY <2>2 DEF Rotate
  <2>3. CASE CascadeSnapshot(r)
        BY <2>3 DEF CascadeSnapshot, Snapshot, SessionsOf
  <2>4. CASE CascadeApply(r)
        BY <2>4 DEF CascadeApply, RevokeSeen
  <2>5. CASE ChangeRead(r)
        BY <2>5 DEF ChangeRead
  <2>6. CASE ChangeSweep(r)
        BY <2>6 DEF ChangeSweep, Snapshot, SessionsOf
  <2>7. CASE ChangeCommit(r)
        BY <2>7 DEF ChangeCommit, SetPassword, RevokeSeen
  <2>8. CASE ForgotSweep(r)
        BY <2>8 DEF ForgotSweep
  <2>9. CASE ResetSweep(r)
        BY <2>9 DEF ResetSweep, Snapshot, SessionsOf
  <2>10. CASE ResetCommit(r)
    <3>1. CASE linkOf[arg[r]] # NoUser
          BY <2>10, <3>1 DEF ResetCommit, SetPassword, RevokeSeen
    <3>2. CASE linkOf[arg[r]] = NoUser
          BY <2>10, <3>2 DEF ResetCommit, SetPassword, RevokeSeen
    <3> QED BY <3>1, <3>2
  <2>11. ASSUME NEW delivered \in BOOLEAN, Issue(r, delivered)
         PROVE  RowsOfTheirCalls'
         BY <2>11 DEF Issue
  <2>12. ASSUME NEW delivered \in BOOLEAN, ForgotCommit(r, delivered)
         PROVE  RowsOfTheirCalls'
         BY <2>12 DEF ForgotCommit
  <2> QED BY <1>2, <2>1, <2>2, <2>3, <2>4, <2>5, <2>6, <2>7, <2>8, <2>9, <2>10, <2>11, <2>12
         DEF Continue
<1>3. ASSUME NEW u \in Users, NEW b \in BOOLEAN, SetActive(u, b)
      PROVE  RowsOfTheirCalls'
      BY <1>3 DEF SetActive
<1>4. CASE Crash
      BY <1>4 DEF Crash, InFlight, Answered
<1>5. CASE Tick
      BY <1>5 DEF Tick
<1>6. CASE UNCHANGED vars
      BY <1>6 DEF vars
<1> QED BY <1>1, <1>2, <1>3, <1>4, <1>5, <1>6 DEF Next

\* A refresh suspended between its awaits keeps a parent that is revoked and
\* stamped: nothing unsets either column.
LEMMA LineageStep == TypeOK /\ CallShape /\ RowsOfTheirCalls /\ RefreshLineage /\ [Next]_vars => RefreshLineage'
<1> SUFFICES ASSUME TypeOK, CallShape, RowsOfTheirCalls, RefreshLineage, [Next]_vars PROVE RefreshLineage'
    OBVIOUS
<1> USE DEF TypeOK, CallShape, RowsOfTheirCalls, RefreshLineage, Labels, Moments, Goto, Begins, dbUsers, dbTokens, dbLinks, call, Never
<1>1. ASSUME NEW r \in Requests, Arrive(r) PROVE RefreshLineage'
  <2>1. ASSUME NEW u \in Users, RegisterRead(r, u)
        PROVE  RefreshLineage'
        BY <2>1 DEF RegisterRead
  <2>2. ASSUME NEW u \in Users, ForgotRead(r, u)
        PROVE  RefreshLineage'
        BY <2>2 DEF ForgotRead
  <2>3. ASSUME NEW u \in Users, NEW typed \in 0 .. pw[u], Login(r, u, typed)
        PROVE  RefreshLineage'
        BY <2>3 DEF Login
  <2>4. ASSUME NEW u \in Users, NEW typed \in 0 .. pw[u], ChangeGuard(r, u, typed)
        PROVE  RefreshLineage'
        BY <2>4 DEF ChangeGuard
  <2>5. ASSUME NEW t \in Requests, RefreshRead(r, t)
        PROVE  RefreshLineage'
        BY <2>5, AccountsAssumption DEF RefreshRead, WithinGrace
  <2>6. ASSUME NEW t \in Requests, Logout(r, t)
        PROVE  RefreshLineage'
        BY <2>6, AccountsAssumption DEF Logout
  <2>7. ASSUME NEW t \in Requests, ResetRead(r, t)
        PROVE  RefreshLineage'
        BY <2>7, AccountsAssumption DEF ResetRead
  <2>8. ASSUME NEW t \in Requests, NEW ok \in BOOLEAN, LoginTwoFactor(r, t, ok)
        PROVE  RefreshLineage'
        BY <2>8, AccountsAssumption DEF LoginTwoFactor
  <2> QED BY <1>1, <2>1, <2>2, <2>3, <2>4, <2>5, <2>6, <2>7, <2>8 DEF Arrive
<1>2. ASSUME NEW r \in Requests, Continue(r) PROVE RefreshLineage'
  <2>1. CASE RegisterCreate(r)
        BY <2>1 DEF RegisterCreate
  <2>2. CASE Rotate(r)
        BY <2>2, AccountsAssumption DEF Rotate
  <2>3. CASE CascadeSnapshot(r)
        BY <2>3 DEF CascadeSnapshot, Snapshot, SessionsOf
  <2>4. CASE CascadeApply(r)
        BY <2>4 DEF CascadeApply, RevokeSeen
  <2>5. CASE ChangeRead(r)
        BY <2>5 DEF ChangeRead
  <2>6. CASE ChangeSweep(r)
        BY <2>6 DEF ChangeSweep, Snapshot, SessionsOf
  <2>7. CASE ChangeCommit(r)
        BY <2>7 DEF ChangeCommit, SetPassword, RevokeSeen
  <2>8. CASE ForgotSweep(r)
        BY <2>8 DEF ForgotSweep
  <2>9. CASE ResetSweep(r)
        BY <2>9 DEF ResetSweep, Snapshot, SessionsOf
  <2>10. CASE ResetCommit(r)
    <3>1. CASE linkOf[arg[r]] # NoUser
          BY <2>10, <3>1 DEF ResetCommit, SetPassword, RevokeSeen
    <3>2. CASE linkOf[arg[r]] = NoUser
          BY <2>10, <3>2 DEF ResetCommit, SetPassword, RevokeSeen
    <3> QED BY <3>1, <3>2
  <2>11. ASSUME NEW delivered \in BOOLEAN, Issue(r, delivered)
         PROVE  RefreshLineage'
         BY <2>11, AccountsAssumption DEF Issue
  <2>12. ASSUME NEW delivered \in BOOLEAN, ForgotCommit(r, delivered)
         PROVE  RefreshLineage'
         BY <2>12 DEF ForgotCommit
  <2> QED BY <1>2, <2>1, <2>2, <2>3, <2>4, <2>5, <2>6, <2>7, <2>8, <2>9, <2>10, <2>11, <2>12
         DEF Continue
<1>3. ASSUME NEW u \in Users, NEW b \in BOOLEAN, SetActive(u, b)
      PROVE  RefreshLineage'
      BY <1>3 DEF SetActive
<1>4. CASE Crash
      BY <1>4 DEF Crash, InFlight, Answered
<1>5. CASE Tick
      BY <1>5 DEF Tick
<1>6. CASE UNCHANGED vars
      BY <1>6 DEF vars
<1> QED BY <1>1, <1>2, <1>3, <1>4, <1>5, <1>6 DEF Next

\* What a sweep chose stays in one account, and stays dead once it is applied.
LEMMA SweepStep == TypeOK /\ CallShape /\ RowsOfTheirCalls /\ SweepsOfOneAccount /\ SweptSessionsStayDead /\ [Next]_vars => (SweepsOfOneAccount /\ SweptSessionsStayDead)'
<1> SUFFICES ASSUME TypeOK, CallShape, RowsOfTheirCalls, SweepsOfOneAccount, SweptSessionsStayDead, [Next]_vars PROVE (SweepsOfOneAccount /\ SweptSessionsStayDead)'
    OBVIOUS
<1> USE DEF TypeOK, CallShape, RowsOfTheirCalls, SweepsOfOneAccount, SweptSessionsStayDead, Labels, Goto, Begins, dbUsers, dbTokens, dbLinks, call, Never
<1>1. ASSUME NEW r \in Requests, Arrive(r) PROVE (SweepsOfOneAccount /\ SweptSessionsStayDead)'
  <2>1. ASSUME NEW u \in Users, RegisterRead(r, u)
        PROVE  (SweepsOfOneAccount /\ SweptSessionsStayDead)'
        BY <2>1 DEF RegisterRead
  <2>2. ASSUME NEW u \in Users, ForgotRead(r, u)
        PROVE  (SweepsOfOneAccount /\ SweptSessionsStayDead)'
        BY <2>2 DEF ForgotRead
  <2>3. ASSUME NEW u \in Users, NEW typed \in 0 .. pw[u], Login(r, u, typed)
        PROVE  (SweepsOfOneAccount /\ SweptSessionsStayDead)'
        BY <2>3 DEF Login
  <2>4. ASSUME NEW u \in Users, NEW typed \in 0 .. pw[u], ChangeGuard(r, u, typed)
        PROVE  (SweepsOfOneAccount /\ SweptSessionsStayDead)'
        BY <2>4 DEF ChangeGuard
  <2>5. ASSUME NEW t \in Requests, RefreshRead(r, t)
        PROVE  (SweepsOfOneAccount /\ SweptSessionsStayDead)'
        BY <2>5, AccountsAssumption DEF RefreshRead, WithinGrace
  <2>6. ASSUME NEW t \in Requests, Logout(r, t)
        PROVE  (SweepsOfOneAccount /\ SweptSessionsStayDead)'
        BY <2>6, AccountsAssumption DEF Logout
  <2>7. ASSUME NEW t \in Requests, ResetRead(r, t)
        PROVE  (SweepsOfOneAccount /\ SweptSessionsStayDead)'
        BY <2>7, AccountsAssumption DEF ResetRead
  <2>8. ASSUME NEW t \in Requests, NEW ok \in BOOLEAN, LoginTwoFactor(r, t, ok)
        PROVE  (SweepsOfOneAccount /\ SweptSessionsStayDead)'
        BY <2>8, AccountsAssumption DEF LoginTwoFactor
  <2> QED BY <1>1, <2>1, <2>2, <2>3, <2>4, <2>5, <2>6, <2>7, <2>8 DEF Arrive
<1>2. ASSUME NEW r \in Requests, Continue(r) PROVE (SweepsOfOneAccount /\ SweptSessionsStayDead)'
  <2>1. CASE RegisterCreate(r)
        BY <2>1 DEF RegisterCreate
  <2>2. CASE Rotate(r)
        BY <2>2, AccountsAssumption DEF Rotate
  <2>3. CASE CascadeSnapshot(r)
        BY <2>3 DEF CascadeSnapshot, Snapshot, SessionsOf
  <2>4. CASE CascadeApply(r)
        BY <2>4 DEF CascadeApply, RevokeSeen
  <2>5. CASE ChangeRead(r)
        BY <2>5 DEF ChangeRead
  <2>6. CASE ChangeSweep(r)
        BY <2>6 DEF ChangeSweep, Snapshot, SessionsOf
  <2>7. CASE ChangeCommit(r)
        BY <2>7 DEF ChangeCommit, SetPassword, RevokeSeen
  <2>8. CASE ForgotSweep(r)
        BY <2>8 DEF ForgotSweep
  <2>9. CASE ResetSweep(r)
        BY <2>9 DEF ResetSweep, Snapshot, SessionsOf
  <2>10. CASE ResetCommit(r)
    <3>1. CASE linkOf[arg[r]] # NoUser
      <4>1. RevokeSeen(r)
            BY <2>10, <3>1 DEF ResetCommit, SetPassword
      <4>2. \A t \in Requests : revoked'[t] <=> revoked[t] \/ t \in seen[r]
        <5> HIDE DEF SweepsOfOneAccount, SweptSessionsStayDead, TypeOK
        <5> QED BY <4>1, Zenon DEF RevokeSeen
      <4>3. pc' = [pc EXCEPT ![r] = "changed"] /\ UNCHANGED <<seen, acct, owner>>
            BY <2>10, <3>1 DEF ResetCommit, SetPassword
      <4> QED BY <4>2, <4>3
    <3>2. CASE linkOf[arg[r]] = NoUser
          BY <2>10, <3>2 DEF ResetCommit
    <3> QED BY <3>1, <3>2
  <2>11. ASSUME NEW delivered \in BOOLEAN, Issue(r, delivered)
         PROVE  (SweepsOfOneAccount /\ SweptSessionsStayDead)'
         BY <2>11, AccountsAssumption DEF Issue
  <2>12. ASSUME NEW delivered \in BOOLEAN, ForgotCommit(r, delivered)
         PROVE  (SweepsOfOneAccount /\ SweptSessionsStayDead)'
         BY <2>12 DEF ForgotCommit
  <2> QED BY <1>2, <2>1, <2>2, <2>3, <2>4, <2>5, <2>6, <2>7, <2>8, <2>9, <2>10, <2>11, <2>12
         DEF Continue
<1>3. ASSUME NEW u \in Users, NEW b \in BOOLEAN, SetActive(u, b)
      PROVE  (SweepsOfOneAccount /\ SweptSessionsStayDead)'
      BY <1>3 DEF SetActive
<1>4. CASE Crash
      BY <1>4 DEF Crash, InFlight, Answered
<1>5. CASE Tick
      BY <1>5 DEF Tick
<1>6. CASE UNCHANGED vars
      BY <1>6 DEF vars
<1> QED BY <1>1, <1>2, <1>3, <1>4, <1>5, <1>6 DEF Next

\* A reset presents a link of its own account, and a used link stays.
LEMMA LinkStep == TypeOK /\ CallShape /\ RowsOfTheirCalls /\ ResetsPresentLinks /\ ConsumedLinksRemain /\ [Next]_vars => (ResetsPresentLinks /\ ConsumedLinksRemain)'
<1> SUFFICES ASSUME TypeOK, CallShape, RowsOfTheirCalls, ResetsPresentLinks, ConsumedLinksRemain, [Next]_vars PROVE (ResetsPresentLinks /\ ConsumedLinksRemain)'
    OBVIOUS
<1> USE DEF TypeOK, CallShape, RowsOfTheirCalls, ResetsPresentLinks, ConsumedLinksRemain, Labels, Goto, Begins, dbUsers, dbTokens, dbLinks, call, Never
<1>1. ASSUME NEW r \in Requests, Arrive(r) PROVE (ResetsPresentLinks /\ ConsumedLinksRemain)'
  <2>1. ASSUME NEW u \in Users, RegisterRead(r, u)
        PROVE  (ResetsPresentLinks /\ ConsumedLinksRemain)'
        BY <2>1 DEF RegisterRead
  <2>2. ASSUME NEW u \in Users, ForgotRead(r, u)
        PROVE  (ResetsPresentLinks /\ ConsumedLinksRemain)'
        BY <2>2 DEF ForgotRead
  <2>3. ASSUME NEW u \in Users, NEW typed \in 0 .. pw[u], Login(r, u, typed)
        PROVE  (ResetsPresentLinks /\ ConsumedLinksRemain)'
        BY <2>3 DEF Login
  <2>4. ASSUME NEW u \in Users, NEW typed \in 0 .. pw[u], ChangeGuard(r, u, typed)
        PROVE  (ResetsPresentLinks /\ ConsumedLinksRemain)'
        BY <2>4 DEF ChangeGuard
  <2>5. ASSUME NEW t \in Requests, RefreshRead(r, t)
        PROVE  (ResetsPresentLinks /\ ConsumedLinksRemain)'
        BY <2>5, AccountsAssumption DEF RefreshRead, WithinGrace
  <2>6. ASSUME NEW t \in Requests, Logout(r, t)
        PROVE  (ResetsPresentLinks /\ ConsumedLinksRemain)'
        BY <2>6, AccountsAssumption DEF Logout
  <2>7. ASSUME NEW t \in Requests, ResetRead(r, t)
        PROVE  (ResetsPresentLinks /\ ConsumedLinksRemain)'
        BY <2>7, AccountsAssumption DEF ResetRead
  <2>8. ASSUME NEW t \in Requests, NEW ok \in BOOLEAN, LoginTwoFactor(r, t, ok)
        PROVE  (ResetsPresentLinks /\ ConsumedLinksRemain)'
        BY <2>8, AccountsAssumption DEF LoginTwoFactor
  <2> QED BY <1>1, <2>1, <2>2, <2>3, <2>4, <2>5, <2>6, <2>7, <2>8 DEF Arrive
<1>2. ASSUME NEW r \in Requests, Continue(r) PROVE (ResetsPresentLinks /\ ConsumedLinksRemain)'
  <2>1. CASE RegisterCreate(r)
        BY <2>1 DEF RegisterCreate
  <2>2. CASE Rotate(r)
        BY <2>2, AccountsAssumption DEF Rotate
  <2>3. CASE CascadeSnapshot(r)
        BY <2>3 DEF CascadeSnapshot, Snapshot, SessionsOf
  <2>4. CASE CascadeApply(r)
        BY <2>4 DEF CascadeApply, RevokeSeen
  <2>5. CASE ChangeRead(r)
        BY <2>5 DEF ChangeRead
  <2>6. CASE ChangeSweep(r)
        BY <2>6 DEF ChangeSweep, Snapshot, SessionsOf
  <2>7. CASE ChangeCommit(r)
        BY <2>7 DEF ChangeCommit, SetPassword, RevokeSeen
  <2>8. CASE ForgotSweep(r)
        BY <2>8 DEF ForgotSweep
  <2>9. CASE ResetSweep(r)
        BY <2>9 DEF ResetSweep, Snapshot, SessionsOf
  <2>10. CASE ResetCommit(r)
    <3>1. CASE linkOf[arg[r]] # NoUser
          BY <2>10, <3>1 DEF ResetCommit, SetPassword, RevokeSeen
    <3>2. CASE linkOf[arg[r]] = NoUser
          BY <2>10, <3>2 DEF ResetCommit, SetPassword, RevokeSeen
    <3> QED BY <3>1, <3>2
  <2>11. ASSUME NEW delivered \in BOOLEAN, Issue(r, delivered)
         PROVE  (ResetsPresentLinks /\ ConsumedLinksRemain)'
         BY <2>11, AccountsAssumption DEF Issue
  <2>12. ASSUME NEW delivered \in BOOLEAN, ForgotCommit(r, delivered)
         PROVE  (ResetsPresentLinks /\ ConsumedLinksRemain)'
         BY <2>12 DEF ForgotCommit
  <2> QED BY <1>2, <2>1, <2>2, <2>3, <2>4, <2>5, <2>6, <2>7, <2>8, <2>9, <2>10, <2>11, <2>12
         DEF Continue
<1>3. ASSUME NEW u \in Users, NEW b \in BOOLEAN, SetActive(u, b)
      PROVE  (ResetsPresentLinks /\ ConsumedLinksRemain)'
      BY <1>3 DEF SetActive
<1>4. CASE Crash
      BY <1>4 DEF Crash, InFlight, Answered
<1>5. CASE Tick
      BY <1>5 DEF Tick
<1>6. CASE UNCHANGED vars
      BY <1>6 DEF vars
<1> QED BY <1>1, <1>2, <1>3, <1>4, <1>5, <1>6 DEF Next

\* The temporary password and its flag go together.
LEMMA TempStep == TypeOK /\ CallShape /\ TemporaryPasswordIsReplaced /\ [Next]_vars => TemporaryPasswordIsReplaced'
<1> SUFFICES ASSUME TypeOK, CallShape, TemporaryPasswordIsReplaced, [Next]_vars PROVE TemporaryPasswordIsReplaced'
    OBVIOUS
<1> USE DEF TypeOK, CallShape, TemporaryPasswordIsReplaced, Labels, Goto, Begins, dbUsers, dbTokens, dbLinks, call, Never
<1>1. ASSUME NEW r \in Requests, Arrive(r) PROVE TemporaryPasswordIsReplaced'
  <2>1. ASSUME NEW u \in Users, RegisterRead(r, u)
        PROVE  TemporaryPasswordIsReplaced'
        BY <2>1 DEF RegisterRead
  <2>2. ASSUME NEW u \in Users, ForgotRead(r, u)
        PROVE  TemporaryPasswordIsReplaced'
        BY <2>2 DEF ForgotRead
  <2>3. ASSUME NEW u \in Users, NEW typed \in 0 .. pw[u], Login(r, u, typed)
        PROVE  TemporaryPasswordIsReplaced'
        BY <2>3 DEF Login
  <2>4. ASSUME NEW u \in Users, NEW typed \in 0 .. pw[u], ChangeGuard(r, u, typed)
        PROVE  TemporaryPasswordIsReplaced'
        BY <2>4 DEF ChangeGuard
  <2>5. ASSUME NEW t \in Requests, RefreshRead(r, t)
        PROVE  TemporaryPasswordIsReplaced'
        BY <2>5 DEF RefreshRead, WithinGrace
  <2>6. ASSUME NEW t \in Requests, Logout(r, t)
        PROVE  TemporaryPasswordIsReplaced'
        BY <2>6 DEF Logout
  <2>7. ASSUME NEW t \in Requests, ResetRead(r, t)
        PROVE  TemporaryPasswordIsReplaced'
        BY <2>7 DEF ResetRead
  <2>8. ASSUME NEW t \in Requests, NEW ok \in BOOLEAN, LoginTwoFactor(r, t, ok)
        PROVE  TemporaryPasswordIsReplaced'
        BY <2>8 DEF LoginTwoFactor
  <2> QED BY <1>1, <2>1, <2>2, <2>3, <2>4, <2>5, <2>6, <2>7, <2>8 DEF Arrive
<1>2. ASSUME NEW r \in Requests, Continue(r) PROVE TemporaryPasswordIsReplaced'
  <2>1. CASE RegisterCreate(r)
        BY <2>1 DEF RegisterCreate
  <2>2. CASE Rotate(r)
        BY <2>2 DEF Rotate
  <2>3. CASE CascadeSnapshot(r)
        BY <2>3 DEF CascadeSnapshot, Snapshot, SessionsOf
  <2>4. CASE CascadeApply(r)
        BY <2>4 DEF CascadeApply, RevokeSeen
  <2>5. CASE ChangeRead(r)
        BY <2>5 DEF ChangeRead
  <2>6. CASE ChangeSweep(r)
        BY <2>6 DEF ChangeSweep, Snapshot, SessionsOf
  <2>7. CASE ChangeCommit(r)
        BY <2>7 DEF ChangeCommit, SetPassword, RevokeSeen
  <2>8. CASE ForgotSweep(r)
        BY <2>8 DEF ForgotSweep
  <2>9. CASE ResetSweep(r)
        BY <2>9 DEF ResetSweep, Snapshot, SessionsOf
  <2>10. CASE ResetCommit(r)
    <3>1. CASE linkOf[arg[r]] # NoUser
          BY <2>10, <3>1 DEF ResetCommit, SetPassword, RevokeSeen
    <3>2. CASE linkOf[arg[r]] = NoUser
          BY <2>10, <3>2 DEF ResetCommit, SetPassword, RevokeSeen
    <3> QED BY <3>1, <3>2
  <2>11. ASSUME NEW delivered \in BOOLEAN, Issue(r, delivered)
         PROVE  TemporaryPasswordIsReplaced'
         BY <2>11 DEF Issue
  <2>12. ASSUME NEW delivered \in BOOLEAN, ForgotCommit(r, delivered)
         PROVE  TemporaryPasswordIsReplaced'
         BY <2>12 DEF ForgotCommit
  <2> QED BY <1>2, <2>1, <2>2, <2>3, <2>4, <2>5, <2>6, <2>7, <2>8, <2>9, <2>10, <2>11, <2>12
         DEF Continue
<1>3. ASSUME NEW u \in Users, NEW b \in BOOLEAN, SetActive(u, b)
      PROVE  TemporaryPasswordIsReplaced'
      BY <1>3 DEF SetActive
<1>4. CASE Crash
      BY <1>4 DEF Crash, InFlight, Answered
<1>5. CASE Tick
      BY <1>5 DEF Tick
<1>6. CASE UNCHANGED vars
      BY <1>6 DEF vars
<1> QED BY <1>1, <1>2, <1>3, <1>4, <1>5, <1>6 DEF Next

\* A session of a two-factor account keeps the challenge it came from.
LEMMA ChallengeStep == TypeOK /\ CallShape /\ RowsOfTheirCalls /\ ChallengeFirst /\ [Next]_vars => ChallengeFirst'
<1> SUFFICES ASSUME TypeOK, CallShape, RowsOfTheirCalls, ChallengeFirst, [Next]_vars PROVE ChallengeFirst'
    OBVIOUS
<1> USE DEF TypeOK, CallShape, RowsOfTheirCalls, ChallengeFirst, Labels, Goto, Begins, dbUsers, dbTokens, dbLinks, call, Never
<1>1. ASSUME NEW r \in Requests, Arrive(r) PROVE ChallengeFirst'
  <2>1. ASSUME NEW u \in Users, RegisterRead(r, u)
        PROVE  ChallengeFirst'
        BY <2>1 DEF RegisterRead
  <2>2. ASSUME NEW u \in Users, ForgotRead(r, u)
        PROVE  ChallengeFirst'
        BY <2>2 DEF ForgotRead
  <2>3. ASSUME NEW u \in Users, NEW typed \in 0 .. pw[u], Login(r, u, typed)
        PROVE  ChallengeFirst'
    <3>1. UNCHANGED <<exists, owner>> /\ acct' = [acct EXCEPT ![r] = u]
          BY <2>3 DEF Login
    <3>2. pc'[r] \notin {"rotate"} /\ (pc'[r] = "issue" => u \notin TwoFactor)
          BY <2>3 DEF Login
    <3>3. \A s \in Requests \ {r} :
            pc'[s] = pc[s] /\ acct'[s] = acct[s] /\ gen'[s] = gen[s]
            /\ chalUntil'[s] = chalUntil[s]
          BY <2>3 DEF Login
    <3>4. chalUntil[r] = Never /\ owner[r] = NoUser
          BY <2>3 DEF Login
    <3> QED BY <2>3, <3>1, <3>2, <3>3, <3>4, AccountsAssumption
  <2>4. ASSUME NEW u \in Users, NEW typed \in 0 .. pw[u], ChangeGuard(r, u, typed)
        PROVE  ChallengeFirst'
        BY <2>4 DEF ChangeGuard
  <2>5. ASSUME NEW t \in Requests, RefreshRead(r, t)
        PROVE  ChallengeFirst'
    <3>1. owner[t] = acct[t] /\ owner[t] # NoUser /\ t # r
          BY <2>5 DEF RefreshRead
    <3>2. acct'[r] = acct[t] /\ gen'[r] = gen[t]
          BY <2>5, <3>1 DEF RefreshRead
    <3>3. \A s \in Requests \ {r} : pc'[s] = pc[s] /\ acct'[s] = acct[s] /\ gen'[s] = gen[s]
          BY <2>5 DEF RefreshRead
    <3>4. UNCHANGED <<exists, owner, chalUntil>> /\ chalUntil[r] = Never
          BY <2>5 DEF RefreshRead
    <3>5. acct[t] \in TwoFactor =>
            \E c \in Requests \ {r} : chalUntil[c] # Never /\ acct[c] = acct[t] /\ gen[c] = gen[t]
          BY <3>1, <3>4
    <3> QED BY <3>1, <3>2, <3>3, <3>4, <3>5
  <2>6. ASSUME NEW t \in Requests, Logout(r, t)
        PROVE  ChallengeFirst'
        BY <2>6, AccountsAssumption DEF Logout
  <2>7. ASSUME NEW t \in Requests, ResetRead(r, t)
        PROVE  ChallengeFirst'
        BY <2>7, AccountsAssumption DEF ResetRead
  <2>8. ASSUME NEW t \in Requests, NEW ok \in BOOLEAN, LoginTwoFactor(r, t, ok)
        PROVE  ChallengeFirst'
        BY <2>8, AccountsAssumption DEF LoginTwoFactor
  <2> QED BY <1>1, <2>1, <2>2, <2>3, <2>4, <2>5, <2>6, <2>7, <2>8 DEF Arrive
<1>2. ASSUME NEW r \in Requests, Continue(r) PROVE ChallengeFirst'
  <2>1. CASE RegisterCreate(r)
        BY <2>1, AccountsAssumption DEF RegisterCreate
  <2>2. CASE Rotate(r)
        BY <2>2, AccountsAssumption DEF Rotate
  <2>3. CASE CascadeSnapshot(r)
        BY <2>3 DEF CascadeSnapshot, Snapshot, SessionsOf
  <2>4. CASE CascadeApply(r)
        BY <2>4 DEF CascadeApply, RevokeSeen
  <2>5. CASE ChangeRead(r)
        BY <2>5 DEF ChangeRead
  <2>6. CASE ChangeSweep(r)
        BY <2>6 DEF ChangeSweep, Snapshot, SessionsOf
  <2>7. CASE ChangeCommit(r)
        BY <2>7 DEF ChangeCommit, SetPassword, RevokeSeen
  <2>8. CASE ForgotSweep(r)
        BY <2>8 DEF ForgotSweep
  <2>9. CASE ResetSweep(r)
        BY <2>9 DEF ResetSweep, Snapshot, SessionsOf
  <2>10. CASE ResetCommit(r)
    <3>1. CASE linkOf[arg[r]] # NoUser
          BY <2>10, <3>1 DEF ResetCommit, SetPassword, RevokeSeen
    <3>2. CASE linkOf[arg[r]] = NoUser
          BY <2>10, <3>2 DEF ResetCommit, SetPassword, RevokeSeen
    <3> QED BY <3>1, <3>2
  <2>11. ASSUME NEW delivered \in BOOLEAN, Issue(r, delivered)
         PROVE  ChallengeFirst'
         BY <2>11, AccountsAssumption DEF Issue
  <2>12. ASSUME NEW delivered \in BOOLEAN, ForgotCommit(r, delivered)
         PROVE  ChallengeFirst'
         BY <2>12 DEF ForgotCommit
  <2> QED BY <1>2, <2>1, <2>2, <2>3, <2>4, <2>5, <2>6, <2>7, <2>8, <2>9, <2>10, <2>11, <2>12
         DEF Continue
<1>3. ASSUME NEW u \in Users, NEW b \in BOOLEAN, SetActive(u, b)
      PROVE  ChallengeFirst'
      BY <1>3 DEF SetActive
<1>4. CASE Crash
      BY <1>4 DEF Crash, InFlight, Answered
<1>5. CASE Tick
      BY <1>5 DEF Tick
<1>6. CASE UNCHANGED vars
      BY <1>6 DEF vars
<1> QED BY <1>1, <1>2, <1>3, <1>4, <1>5, <1>6 DEF Next

-----------------------------------------------------------------------------
(* The inductive invariant and the properties it gives                       *)

\* Nothing revokes a row that is not there: a logout and a refresh present a
\* token of the table, and a sweep chose rows of its account.
LEMMA RevokedStep ==
  TypeOK /\ CallShape /\ RevokedRowsExist /\ RefreshLineage /\ SweepsOfOneAccount
    /\ [Next]_vars => RevokedRowsExist'
<1> SUFFICES ASSUME TypeOK, CallShape, RevokedRowsExist, RefreshLineage,
                    SweepsOfOneAccount, [Next]_vars
             PROVE  RevokedRowsExist'
    OBVIOUS
<1> USE AccountsAssumption DEF TypeOK, CallShape, RevokedRowsExist, dbTokens
<1>1. ASSUME UNCHANGED <<owner, revoked>> PROVE RevokedRowsExist'
      BY <1>1
<1>2. ASSUME NEW r \in Requests, Arrive(r) PROVE RevokedRowsExist'
  <2>1. ASSUME NEW t \in Requests, Logout(r, t) PROVE RevokedRowsExist'
        BY <2>1 DEF Logout
  <2>2. CASE \A t \in Requests : ~Logout(r, t)
        BY <1>1, <1>2, <2>2 DEF Arrive, RegisterRead, ForgotRead, Login, ChangeGuard,
           RefreshRead, ResetRead, LoginTwoFactor
  <2> QED BY <2>1, <2>2
<1>3. ASSUME NEW r \in Requests, Continue(r) PROVE RevokedRowsExist'
  <2>1. ASSUME RevokeSeen(r), owner' = owner,
               pc[r] \in {"cascadeApply", "changeCommit", "resetCommit"}
        PROVE  RevokedRowsExist'
    <3>1. \A t \in seen[r] : owner[t] # NoUser
          BY <2>1 DEF SweepsOfOneAccount
    <3> QED BY <2>1, <3>1 DEF RevokeSeen
  <2>2. CASE CascadeApply(r) \/ ChangeCommit(r)
        BY <2>1, <2>2 DEF CascadeApply, ChangeCommit, SetPassword
  <2>3. CASE ResetCommit(r)
    <3>1. CASE linkOf[arg[r]] # NoUser
          BY <2>1, <2>3, <3>1 DEF ResetCommit, SetPassword
    <3>2. CASE linkOf[arg[r]] = NoUser
          BY <1>1, <2>3, <3>2 DEF ResetCommit
    <3> QED BY <3>1, <3>2
  <2>4. CASE Rotate(r)
    <3>1. arg[r] \in Requests /\ owner[arg[r]] \in Users
          BY <2>4 DEF Rotate, RefreshLineage
    <3> QED BY <2>4, <3>1 DEF Rotate
  <2>5. ASSUME NEW delivered \in BOOLEAN, Issue(r, delivered) PROVE RevokedRowsExist'
        BY <2>5 DEF Issue, Goto
  <2>6. CASE \/ RegisterCreate(r) \/ CascadeSnapshot(r) \/ ChangeRead(r)
             \/ ChangeSweep(r) \/ ForgotSweep(r) \/ ResetSweep(r)
             \/ \E delivered \in BOOLEAN : ForgotCommit(r, delivered)
        BY <1>1, <2>6 DEF RegisterCreate, CascadeSnapshot, ChangeRead, ChangeSweep,
           ForgotSweep, ResetSweep, ForgotCommit
  <2> QED BY <1>3, <2>2, <2>3, <2>4, <2>5, <2>6 DEF Continue
<1>4. CASE (\E u \in Users, b \in BOOLEAN : SetActive(u, b)) \/ Crash \/ Tick
           \/ UNCHANGED vars
      BY <1>1, <1>4 DEF SetActive, Crash, Tick, vars
<1> QED BY <1>2, <1>3, <1>4 DEF Next

\* What a request for a link found stays dead: the one step that puts a link in
\* the table is the end of the call the link is named after, and a call that
\* still holds a link to delete found it there.
LEMMA DeadLinksStep ==
  TypeOK /\ CallShape /\ LinksOfTheirCalls /\ FoundLinksAreDead /\ [Next]_vars
    => LinksOfTheirCalls' /\ FoundLinksAreDead'
<1> SUFFICES ASSUME TypeOK, CallShape, LinksOfTheirCalls, FoundLinksAreDead, [Next]_vars
             PROVE  LinksOfTheirCalls' /\ FoundLinksAreDead'
    OBVIOUS
<1> USE DEF TypeOK, dbLinks, call, Goto
<1>1. ASSUME UNCHANGED <<linkOf, linkUntil>>,
             \A k \in Requests : linkUsed[k] => linkUsed'[k],
             \A s \in Requests :
               /\ pc'[s] = "relinkCommit" => pc[s] = "relinkCommit"
               /\ linkUntil[s] # Never => pc'[s] = "done"
               /\ pc[s] = "relinkCommit" \/ linkUntil[s] # Never => seen'[s] = seen[s]
      PROVE  LinksOfTheirCalls' /\ FoundLinksAreDead'
      BY <1>1 DEF LinksOfTheirCalls, FoundLinksAreDead
<1>2. ASSUME NEW r \in Requests, Arrive(r)
      PROVE  LinksOfTheirCalls' /\ FoundLinksAreDead'
  <2>1. /\ pc[r] = "idle" /\ UNCHANGED <<dbLinks, seen>>
        /\ pc'[r] # "relinkCommit" /\ \A s \in Requests \ {r} : pc'[s] = pc[s]
        BY <1>2 DEF Arrive, RegisterRead, ForgotRead, Login, ChangeGuard, RefreshRead,
                    Logout, ResetRead, LoginTwoFactor, Begins
  <2> QED BY <1>1, <2>1 DEF CallShape, LinksOfTheirCalls
<1>3. ASSUME NEW r \in Requests, Continue(r)
      PROVE  LinksOfTheirCalls' /\ FoundLinksAreDead'
  <2>1. ASSUME NEW delivered \in BOOLEAN, ForgotCommit(r, delivered)
        PROVE  LinksOfTheirCalls' /\ FoundLinksAreDead'
    <3>1. /\ linkUntil[r] = Never /\ linkOf[r] = NoUser /\ linkUntil'[r] # Never
          /\ \A k \in seen[r] : linkUntil[k] # Never /\ k # r
          BY <2>1, DurationsAssumption DEF ForgotCommit, LinksOfTheirCalls, Never
    <3>2. /\ UNCHANGED <<seen, linkUsed>> /\ pc' = [pc EXCEPT ![r] = "done"]
          /\ \A k \in Requests \ {r} :
               linkUntil'[k] = linkUntil[k] /\ (linkOf'[k] = linkOf[k] \/ linkOf'[k] = NoUser)
          /\ \A k \in seen[r] : linkOf'[k] = NoUser \/ linkUsed[k]
          BY <2>1, <3>1 DEF ForgotCommit
    <3>3. LinksOfTheirCalls'
          BY <3>1, <3>2 DEF LinksOfTheirCalls
    <3>4. FoundLinksAreDead'
          BY <3>1, <3>2 DEF LinksOfTheirCalls, FoundLinksAreDead
    <3> QED BY <3>3, <3>4
  <2>2. CASE ForgotSweep(r)
    <3>1. linkUntil[r] = Never /\ \A k \in seen'[r] : linkUntil[k] # Never
          BY <2>2, AccountsAssumption DEF ForgotSweep, LinksOfTheirCalls, CallShape
    <3>2. /\ UNCHANGED dbLinks /\ pc' = [pc EXCEPT ![r] = "relinkCommit"]
          /\ \A s \in Requests \ {r} : seen'[s] = seen[s]
          BY <2>2 DEF ForgotSweep
    <3> QED BY <3>1, <3>2 DEF LinksOfTheirCalls, FoundLinksAreDead
  <2>3. CASE ResetCommit(r)
    <3>1. /\ UNCHANGED <<linkOf, linkUntil, seen>> /\ pc[r] = "resetCommit"
          /\ \A k \in Requests : linkUsed[k] => linkUsed'[k]
          /\ pc'[r] # "relinkCommit" /\ \A s \in Requests \ {r} : pc'[s] = pc[s]
          BY <2>3 DEF ResetCommit
    <3> QED BY <1>1, <3>1 DEF LinksOfTheirCalls
  <2>4. CASE \/ RegisterCreate(r) \/ Rotate(r) \/ CascadeSnapshot(r) \/ CascadeApply(r)
             \/ ChangeRead(r) \/ ChangeSweep(r) \/ ChangeCommit(r) \/ ResetSweep(r)
             \/ \E delivered \in BOOLEAN : Issue(r, delivered)
    <3>1. /\ UNCHANGED dbLinks /\ pc[r] # "relinkCommit" /\ pc[r] # "done"
          /\ pc'[r] # "relinkCommit"
          /\ \A s \in Requests \ {r} : pc'[s] = pc[s] /\ seen'[s] = seen[s]
          BY <2>4 DEF RegisterCreate, Rotate, CascadeSnapshot, CascadeApply, ChangeRead,
             ChangeSweep, ChangeCommit, ResetSweep, Issue, Snapshot
    <3> QED BY <1>1, <3>1 DEF LinksOfTheirCalls
  <2> QED BY <1>3, <2>1, <2>2, <2>3, <2>4 DEF Continue
<1>4. CASE Crash
  <2>1. /\ UNCHANGED <<dbLinks, seen>>
        /\ \A s \in Requests : /\ pc'[s] = "relinkCommit" => pc[s] = "relinkCommit"
                               /\ pc[s] = "done" => pc'[s] = "done"
        BY <1>4 DEF Crash, InFlight, Answered
  <2> QED BY <1>1, <2>1 DEF LinksOfTheirCalls
<1>5. CASE (\E u \in Users, b \in BOOLEAN : SetActive(u, b)) \/ Tick \/ UNCHANGED vars
  <2>1. UNCHANGED <<dbLinks, seen, pc>>
        BY <1>5 DEF SetActive, Tick, vars
  <2> QED BY <1>1, <2>1 DEF LinksOfTheirCalls
<1> QED BY <1>2, <1>3, <1>4, <1>5 DEF Next

\* The initial state satisfies the invariant.
LEMMA InvInit == Init => SessionsInv
<1> SUFFICES ASSUME Init PROVE SessionsInv
    OBVIOUS
<1>1. TypeOK /\ CallShape
      BY TypeInit
<1>2. RowsOfTheirCalls /\ RefreshLineage /\ SweepsOfOneAccount /\ SweptSessionsStayDead
      BY DEF Init, RowsOfTheirCalls, RefreshLineage, SweepsOfOneAccount, SweptSessionsStayDead
<1>3. ResetsPresentLinks /\ ConsumedLinksRemain
      BY DEF Init, ResetsPresentLinks, ConsumedLinksRemain
<1>4. TemporaryPasswordIsReplaced
      BY DEF Init, TemporaryPasswordIsReplaced
<1>5. ChallengeFirst
      BY DEF Init, ChallengeFirst
<1>6. RevokedRowsExist /\ LinksOfTheirCalls /\ FoundLinksAreDead
      BY DEF Init, RevokedRowsExist, LinksOfTheirCalls, FoundLinksAreDead
<1> QED BY <1>1, <1>2, <1>3, <1>4, <1>5, <1>6 DEF SessionsInv

\* The invariant is inductive.
LEMMA InvStep == SessionsInv /\ [Next]_vars => SessionsInv'
BY TypeStep, ShapeStep, RowsStep, LineageStep, SweepStep, LinkStep, TempStep,
   ChallengeStep, RevokedStep, DeadLinksStep DEF SessionsInv

\* The inductive invariant: every safety property below is one of its parts or
\* follows from them.
THEOREM SessionsInvariant == Spec => []SessionsInv
BY InvInit, InvStep, PTL DEF Spec

\* The variables keep their types.
THEOREM TypeCorrect == Spec => []TypeOK
<1>1. SessionsInv => TypeOK
      BY DEF SessionsInv
<1> QED BY <1>1, SessionsInvariant, PTL

\* Every session that a refresh minted has a parent that is revoked and
\* stamped with the moment of its use (refresh, 224-242).
THEOREM ParentsSpent == Spec => []ParentsAreSpent
<1>1. SessionsInv => ParentsAreSpent
      BY DEF SessionsInv, RowsOfTheirCalls, RefreshLineage, ParentsAreSpent
<1> QED BY <1>1, SessionsInvariant, PTL

\* The cascade, a password change and a reset end for good every session that
\* existed when their updateMany looked (227, 275, 323).
THEOREM SweptStayDead == Spec => []SweptSessionsStayDead
<1>1. SessionsInv => SweptSessionsStayDead
      BY DEF SessionsInv
<1> QED BY <1>1, SessionsInvariant, PTL

\* A reset that went through leaves its link in the table, used (290-298, 320-324).
THEOREM ConsumedLinksStay == Spec => []ConsumedLinksRemain
<1>1. SessionsInv => ConsumedLinksRemain
      BY DEF SessionsInv
<1> QED BY <1>1, SessionsInvariant, PTL

\* Whatever link a later request found is deleted or used, for good (290-298).
THEOREM FoundLinksStayDead == Spec => []FoundLinksAreDead
<1>1. SessionsInv => FoundLinksAreDead
      BY DEF SessionsInv
<1> QED BY <1>1, SessionsInvariant, PTL

\* must_change_password is up exactly while the temporary password is in force.
THEOREM TemporaryPasswordReplaced == Spec => []TemporaryPasswordIsReplaced
<1>1. SessionsInv => TemporaryPasswordIsReplaced
      BY DEF SessionsInv
<1> QED BY <1>1, SessionsInvariant, PTL

\* No session of a two-factor account without a challenge of the same password
\* generation (133-139, 153-183).
THEOREM SecondFactorPassed == Spec => []TwoFactorSessionsHaveAChallenge
<1>1. SessionsInv => TwoFactorSessionsHaveAChallenge
  <2> SUFFICES ASSUME SessionsInv, NEW r \in Requests, owner[r] \in TwoFactor
               PROVE  \E c \in Requests : chalUntil[c] # Never /\ acct[c] = owner[r]
                                          /\ gen[c] = gen[r]
      BY DEF TwoFactorSessionsHaveAChallenge
  <2>1. owner[r] # NoUser /\ owner[r] = acct[r]
        BY AccountsAssumption DEF SessionsInv, RowsOfTheirCalls
  <2> QED BY <2>1 DEF SessionsInv, ChallengeFirst
<1> QED BY <1>1, SessionsInvariant, PTL

\* The sessions that end in one step belong to one account.
THEOREM OneAccount == Spec => OneAccountPerStep
<1> DEFINE OneOwner == \A s, t \in Requests : Ends(s) /\ Ends(t) => owner[s] = owner[t]
<1>1. SessionsInv /\ [Next]_vars => [OneOwner]_vars
  <2> SUFFICES ASSUME SessionsInv, [Next]_vars, NEW s \in Requests, NEW t \in Requests,
                      Ends(s), Ends(t)
               PROVE  owner[s] = owner[t]
      OBVIOUS
  <2> USE DEF Ends, SessionsInv, dbUsers, dbTokens
  <2>1. ASSUME NEW r \in Requests, RevokeSeen(r),
               pc[r] \in {"cascadeApply", "changeCommit", "resetCommit"}
        PROVE  owner[s] = owner[t]
        BY <2>1 DEF RevokeSeen, SweepsOfOneAccount
  <2>2. ASSUME NEW r \in Requests, Arrive(r) PROVE owner[s] = owner[t]
    <3>1. (\E k \in Requests : Logout(r, k)) \/ revoked' = revoked
          BY <2>2 DEF Arrive, RegisterRead, ForgotRead, Login, ChangeGuard, RefreshRead,
                      ResetRead, LoginTwoFactor
    <3>2. ASSUME NEW k \in Requests, Logout(r, k) PROVE s = k /\ t = k
          BY <3>2 DEF Logout, TypeOK
    <3> QED BY <3>1, <3>2
  <2>3. ASSUME NEW r \in Requests, Continue(r) PROVE owner[s] = owner[t]
    <3>1. CASE Rotate(r)
          BY <3>1 DEF Rotate, TypeOK
    <3>2. CASE CascadeApply(r) \/ ChangeCommit(r) \/ ResetCommit(r)
          BY <2>1, <3>2 DEF CascadeApply, ChangeCommit, ResetCommit, SetPassword
    <3>3. CASE ~(Rotate(r) \/ CascadeApply(r) \/ ChangeCommit(r) \/ ResetCommit(r))
      <4>1. revoked' = revoked
            BY <2>3, <3>3 DEF Continue, RegisterCreate, CascadeSnapshot, ChangeRead,
                 ChangeSweep, ForgotSweep, ResetSweep, Issue, ForgotCommit
      <4> QED BY <4>1
    <3> QED BY <3>1, <3>2, <3>3
  <2>4. CASE (\E u \in Users, b \in BOOLEAN : SetActive(u, b)) \/ Crash \/ Tick
             \/ UNCHANGED vars
    <3>1. revoked' = revoked
          BY <2>4 DEF SetActive, Crash, Tick, vars
    <3> QED BY <3>1
  <2> QED BY <2>2, <2>3, <2>4 DEF Next
<1> QED BY <1>1, SessionsInvariant, PTL DEF Spec, OneAccountPerStep

-----------------------------------------------------------------------------
(* The refinement                                                            *)

\* What closes a row is for good: used_at is stamped, and a row is renewed, only
\* by a refresh that was let in before.
LEMMA ClosedStays ==
  ASSUME SessionsInv, [Next]_vars, NEW t \in Requests, Closed(t)
  PROVE  Closed(t)'
<1> USE DEF SessionsInv, TypeOK, Goto, Begins, dbTokens, call
<1>1. arg \in [Requests -> Requests \cup {NoRow}] /\ t # NoRow /\ pc[t] = "done"
      BY AccountsAssumption DEF Closed, RowsOfTheirCalls
<1>2. /\ owner'[t] = owner[t] /\ expires'[t] = expires[t] /\ usedAt'[t] = usedAt[t]
      /\ (revoked[t] => revoked'[t]) /\ now' \in Nat /\ now' >= now
      /\ \A r \in Requests : arg'[r] = t => pc'[r] \notin {"rotate", "issue"}
  <2>1. ASSUME NEW r \in Requests, Arrive(r) PROVE <1>2!:
    <3>1. UNCHANGED <<now, owner, expires, usedAt>> /\ (revoked[t] => revoked'[t])
          BY <2>1 DEF Arrive, RegisterRead, ForgotRead, Login, ChangeGuard, RefreshRead,
             Logout, ResetRead, LoginTwoFactor
    <3>2. /\ pc[r] = "idle"
          /\ \A s \in Requests \ {r} : arg'[s] = arg[s] /\ pc'[s] = pc[s]
          BY <2>1 DEF Arrive, RegisterRead, ForgotRead, Login, ChangeGuard, RefreshRead,
             Logout, ResetRead, LoginTwoFactor
    <3>3. ASSUME arg'[r] = t PROVE pc'[r] \notin {"rotate", "issue"}
      <4>1. CASE arg' = arg
            BY <1>1, <3>2, <3>3, <4>1 DEF CallShape
      <4>2. ASSUME NEW k \in Requests, RefreshRead(r, k) PROVE pc'[r] \notin {"rotate", "issue"}
        <5>1. k = t
              BY <1>1, <3>3, <4>2 DEF RefreshRead
        <5> QED BY <4>2, <5>1 DEF RefreshRead, Closed, Moments, Never
      <4>3. ASSUME NEW k \in Requests, Logout(r, k) \/ ResetRead(r, k)
            PROVE  pc'[r] \notin {"rotate", "issue"}
            BY <4>3 DEF Logout, ResetRead
      <4> QED BY <2>1, <4>1, <4>2, <4>3 DEF Arrive, RegisterRead, ForgotRead, Login,
              ChangeGuard, LoginTwoFactor
    <3> QED BY <3>1, <3>2, <3>3 DEF Closed
  <2>2. ASSUME NEW r \in Requests, Continue(r) PROVE <1>2!:
    <3>1. UNCHANGED <<now, arg>> /\ (\A s \in Requests \ {r} : pc'[s] = pc[s])
          BY <2>2 DEF Continue, RegisterCreate, Rotate, CascadeSnapshot, CascadeApply,
             ChangeRead, ChangeSweep, ChangeCommit, ForgotSweep, ResetSweep, ResetCommit,
             Issue, ForgotCommit, SetPassword
    <3>2. ASSUME arg[r] = t PROVE pc'[r] \notin {"rotate", "issue"}
          BY <1>1, <2>2, <3>2 DEF Continue, RegisterCreate, Rotate, CascadeSnapshot,
             CascadeApply, ChangeRead, ChangeSweep, ChangeCommit, ForgotSweep, ResetSweep,
             ResetCommit, Issue, ForgotCommit, Closed, RefreshLineage
    <3>3. revoked[t] => revoked'[t]
          BY <2>2 DEF Continue, RegisterCreate, Rotate, CascadeSnapshot, CascadeApply,
             ChangeRead, ChangeSweep, ChangeCommit, ForgotSweep, ResetSweep, ResetCommit,
             Issue, ForgotCommit, SetPassword, RevokeSeen
    <3>4. owner'[t] = owner[t] /\ expires'[t] = expires[t]
          BY <1>1, <2>2 DEF Continue, RegisterCreate, Rotate, CascadeSnapshot, CascadeApply,
             ChangeRead, ChangeSweep, ChangeCommit, ForgotSweep, ResetSweep, ResetCommit,
             Issue, ForgotCommit, SetPassword
    <3>5. usedAt'[t] = usedAt[t]
      <4>1. CASE Rotate(r)
            BY <4>1 DEF Rotate, Closed
      <4>2. CASE ~Rotate(r)
            BY <2>2, <4>2 DEF Continue, RegisterCreate, CascadeSnapshot, CascadeApply,
               ChangeRead, ChangeSweep, ChangeCommit, ForgotSweep, ResetSweep, ResetCommit,
               Issue, ForgotCommit, SetPassword
      <4> QED BY <4>1, <4>2
    <3> QED BY <3>1, <3>2, <3>3, <3>4, <3>5 DEF Closed
  <2>3. CASE (\E u \in Users, b \in BOOLEAN : SetActive(u, b)) \/ Crash \/ Tick
             \/ UNCHANGED vars
    <3>1. UNCHANGED <<owner, expires, usedAt, revoked, arg>> /\ now' \in Nat /\ now' >= now
          BY <2>3 DEF SetActive, Crash, Tick, vars
    <3>2. \A r \in Requests : pc'[r] = pc[r] \/ pc'[r] \notin {"rotate", "issue"}
          BY <2>3 DEF SetActive, Crash, Tick, vars
    <3>3. owner'[t] = owner[t] /\ expires'[t] = expires[t] /\ usedAt'[t] = usedAt[t]
          BY <3>1
    <3>4. revoked[t] => revoked'[t]
          BY <3>1
    <3>5. ASSUME NEW r \in Requests, arg'[r] = t PROVE pc'[r] \notin {"rotate", "issue"}
      <4>1. arg[r] = t
            BY <3>1, <3>5
      <4>2. pc[r] \notin {"rotate", "issue"}
            BY <4>1 DEF Closed
      <4> QED BY <3>2, <4>2, Zenon
    <3> QED BY <3>1, <3>3, <3>4, <3>5
  <2> QED BY <2>1, <2>2, <2>3 DEF Next
<1>3. expires[t] \in Moments /\ usedAt[t] \in Moments /\ now \in Nat
      OBVIOUS
<1>4. WithinGrace(t)' => WithinGrace(t)
      BY <1>2, <1>3, DurationsAssumption DEF WithinGrace, Moments, Never
<1>5. expires[t] < now => expires'[t] < now'
      BY <1>2, <1>3 DEF Moments, Never
<1> QED BY <1>2, <1>4, <1>5 DEF Closed

\* A new row is not closed: it has its life before it, and nobody has revoked it.
LEMMA NewSessionsAreOpen ==
  ASSUME SessionsInv, [Next]_vars, NEW t \in Requests, owner[t] = NoUser
  PROVE  ~Closed(t)'
<1> SUFFICES ASSUME owner'[t] # NoUser PROVE ~Closed(t)'
    BY DEF Closed
<1> USE DEF SessionsInv, TypeOK, dbTokens
<1>1. PICK delivered \in BOOLEAN : Issue(t, delivered)
  <2>1. ASSUME NEW r \in Requests, Arrive(r) PROVE FALSE
        BY <2>1 DEF Arrive, RegisterRead, ForgotRead, Login, ChangeGuard, RefreshRead,
           Logout, ResetRead, LoginTwoFactor
  <2>2. ASSUME NEW r \in Requests, Continue(r)
        PROVE  \E delivered \in BOOLEAN : Issue(t, delivered)
        BY <2>2 DEF Continue, RegisterCreate, Rotate, CascadeSnapshot, CascadeApply,
           ChangeRead, ChangeSweep, ChangeCommit, ForgotSweep, ResetSweep, ResetCommit,
           Issue, ForgotCommit, SetPassword
  <2>3. CASE (\E u \in Users, b \in BOOLEAN : SetActive(u, b)) \/ Crash \/ Tick
             \/ UNCHANGED vars
        BY <2>3 DEF SetActive, Crash, Tick, vars
  <2> QED BY <2>1, <2>2, <2>3 DEF Next
<1>2. ~revoked'[t] /\ expires'[t] >= now'
      BY <1>1, DurationsAssumption DEF Issue, RevokedRowsExist
<1>3. ~(expires'[t] < now')
      BY <1>1, <1>2, DurationsAssumption DEF Issue
<1> QED BY <1>2, <1>3 DEF Closed

\* Closing, whatever the step.
LEMMA StoreCloses ==
  ASSUME SessionsInv, [Next]_vars
  PROVE  Store!Closing
<1>1. \A t \in Requests : Closed(t) \in BOOLEAN
      BY DEF Closed
<1>2. \A t \in Requests : Closed(t) => Closed(t)'
      BY ClosedStays
<1>3. \A t \in Requests : Closed(t)' => owner[t] # NoUser
      BY NewSessionsAreOpen
<1>4. [t \in Requests |-> Closed(t)]' = [t \in Requests |-> Closed(t)']
      OBVIOUS
<1>5. [t \in Requests |-> Closed(t)]' \in [Requests -> BOOLEAN]
      BY <1>4 DEF Closed
<1>6. \A t \in Requests :
        /\ [k \in Requests |-> Closed(k)][t] => [k \in Requests |-> Closed(k)]'[t]
        /\ [k \in Requests |-> Closed(k)]'[t] => owner[t] # NoUser
      BY <1>2, <1>3, <1>4, Zenon
<1> QED BY <1>5, <1>6 DEF Store!Closing

\* A step that neither writes refresh_tokens nor changes what the creator of a
\* row presented can only close sessions.
LEMMA StoreStutters ==
  ASSUME Store!Closing, UNCHANGED <<owner, revoked>>,
         \A r \in Requests : owner[r] # NoUser => arg'[r] = arg[r]
  PROVE  Store!Next
<1>1. Store!Close
      BY DEF Store!Close
<1> QED BY <1>1 DEF Store!Next

\* A step that revokes rows of one account ends its sessions.
LEMMA StoreEnds ==
  ASSUME Store!Closing, NEW S \in SUBSET Requests, NEW a \in Users,
         \A t \in S : owner[t] = a,
         revoked' = [t \in Requests |-> revoked[t] \/ t \in S],
         owner' = owner,
         \A r \in Requests : owner[r] # NoUser => arg'[r] = arg[r]
  PROVE  Store!Next
<1>1. Store!End(S, a)
      BY DEF Store!End
<1> QED BY <1>1 DEF Store!Next

\* A call that has only just arrived has no row, so what it presents is not yet
\* the parent of one.
LEMMA ArrivalsStutter ==
  ASSUME CallShape, NEW r \in Requests, pc[r] = "idle",
         \A s \in Requests \ {r} : arg'[s] = arg[s]
  PROVE  \A s \in Requests : owner[s] # NoUser => arg'[s] = arg[s]
BY DEF CallShape

\* A new row is a session opened by a login or a registration, or the renewal of
\* the ended one that the refresh presented, which the refresh itself kept from
\* being closed.
LEMMA StoreIssues ==
  ASSUME SessionsInv, Store!Closing, NEW r \in Requests, NEW delivered \in BOOLEAN,
         Issue(r, delivered)
  PROVE  Store!Next
<1>1. /\ pc[r] = "issue" /\ owner[r] = NoUser /\ acct[r] \in Users
      /\ owner' = [owner EXCEPT ![r] = acct[r]] /\ UNCHANGED <<revoked, arg>>
      BY DEF Issue, Goto, call, SessionsInv, CallShape, RowsOfTheirCalls
<1>2. owner \in [Requests -> Users \cup {NoUser}] /\ NoUser \notin Users
      BY AccountsAssumption DEF SessionsInv, TypeOK
<1>3. CASE arg[r] = NoRow
  <2>1. ASSUME NEW t \in Requests PROVE Closed(t)' <=> Closed(t)
    <3>1. /\ owner[t] = NoUser => ~Closed(t) /\ ~Closed(t)'
          /\ owner[t] # NoUser => t # r /\ owner'[t] = owner[t]
          BY <1>1, <1>2, NewSessionsAreOpen DEF Closed, Next, Continue
    <3>2. UNCHANGED <<now, revoked, usedAt, arg>> /\ (t # r => expires'[t] = expires[t])
          BY DEF Issue, call, SessionsInv, TypeOK
    <3>3. \A s \in Requests : arg[s] = t => s # r /\ pc'[s] = pc[s]
          BY <1>3, AccountsAssumption DEF Issue, Goto, SessionsInv, TypeOK
    <3> QED BY <3>1, <3>2, <3>3 DEF Closed, WithinGrace
  <2>2. [t \in Requests |-> Closed(t)]' = [t \in Requests |-> Closed(t)]
    <3>1. \A t \in Requests : Closed(t)' \in BOOLEAN /\ Closed(t) \in BOOLEAN
          BY DEF Closed
    <3>2. \A t \in Requests : Closed(t)' = Closed(t)
          BY <2>1, <3>1
    <3> QED BY <3>2, Zenon
  <2>3. [s \in Requests |-> IF owner[s] = NoUser THEN NoRow ELSE arg[s]]'
          = [s \in Requests |-> IF owner[s] = NoUser THEN NoRow ELSE arg[s]]
    <3>1. arg' = arg /\ \A s \in Requests :
            owner'[s] = owner[s] \/ (s = r /\ owner[s] = NoUser /\ arg[s] = NoRow)
          BY <1>1, <1>2, <1>3
    <3> QED BY <3>1
  <2>4. Store!Open(r, acct[r])
        BY <1>1, <1>2, <2>2, <2>3 DEF Store!Open
  <2> QED BY <1>1, <2>4 DEF Store!Next
<1>4. CASE arg[r] # NoRow
  <2>1. PICK t \in Requests : t = arg[r]
        BY <1>4 DEF SessionsInv, TypeOK
  <2>2. revoked[t] /\ owner[t] = acct[r]
        BY <1>1, <1>4, <2>1 DEF SessionsInv, RefreshLineage
  <2>3. ~Closed(t)
        BY <1>1, <2>1 DEF Closed
  <2>4. Store!Renew(r, t)
        BY <1>1, <1>2, <1>4, <2>1, <2>2, <2>3 DEF Store!Renew
  <2> QED BY <2>4 DEF Store!Next
<1> QED BY <1>3, <1>4

\* A sweep, whatever it had chosen by then, ends sessions of its own account.
LEMMA StoreSweeps ==
  ASSUME SessionsInv, Store!Closing, NEW r \in Requests, RevokeSeen(r), UNCHANGED <<owner, arg>>,
         pc[r] \in {"cascadeApply", "changeCommit", "resetCommit"}
  PROVE  Store!Next
<1>1. seen[r] \in SUBSET Requests /\ acct[r] \in Users
      BY DEF SessionsInv, TypeOK, CallShape
<1>2. \A t \in seen[r] : owner[t] = acct[r]
      BY DEF SessionsInv, SweepsOfOneAccount
<1> QED BY <1>1, <1>2, StoreEnds DEF RevokeSeen

\* The rows of refresh_tokens, written by interleaved, stale and interrupted
\* calls (issueTokenPair, 355-383; refresh, 209-242; logout, 244-253; the two
\* transactions), implement the promises of SessionStore: one owner per row, a
\* renewal of the same account and only of a session that has ended and is not
\* closed, ends in one account, and neither an end nor a closing undone.
THEOREM StoreImplemented == Spec => ImplementsStore
<1>1. Init => Store!Init
      BY DEF Init, Store!Init, Closed
<1>2. SessionsInv /\ [Next]_vars => [Store!Next]_(Store!vars)
  <2> SUFFICES ASSUME SessionsInv, [Next]_vars
               PROVE  Store!Next
      OBVIOUS
  <2> USE DEF dbTokens, call
  <2>1. CallShape /\ arg \in [Requests -> Requests \cup {NoRow}] /\ Store!Closing
        BY StoreCloses DEF SessionsInv, TypeOK
  <2>2. ASSUME NEW r \in Requests, Arrive(r)
        PROVE  Store!Next
    <3>1. pc[r] = "idle" /\ owner' = owner /\ (\A s \in Requests \ {r} : arg'[s] = arg[s])
          BY <2>1, <2>2 DEF Arrive, RegisterRead, ForgotRead, Login, ChangeGuard,
             RefreshRead, Logout, ResetRead, LoginTwoFactor, Begins
    <3>2. \A s \in Requests : owner[s] # NoUser => arg'[s] = arg[s]
          BY <2>1, <3>1, ArrivalsStutter
    <3>3. CASE revoked' = revoked
          BY <2>1, <3>1, <3>2, <3>3, StoreStutters
    <3>4. ASSUME NEW t \in Requests, Logout(r, t)
          PROVE  Store!Next
      <4>1. owner[t] \in Users /\ revoked' = [k \in Requests |-> revoked[k] \/ k \in {t}]
            BY <3>4 DEF Logout, SessionsInv, TypeOK
      <4>2. {t} \in SUBSET Requests /\ \A k \in {t} : owner[k] = owner[t]
            OBVIOUS
      <4> QED BY <2>1, <3>1, <3>2, <4>1, <4>2, StoreEnds
    <3>5. (\E t \in Requests : Logout(r, t)) \/ revoked' = revoked
          BY <2>2 DEF Arrive, RegisterRead, ForgotRead, Login, ChangeGuard, RefreshRead,
                      ResetRead, LoginTwoFactor
    <3> QED BY <3>3, <3>4, <3>5
  <2>3. ASSUME NEW r \in Requests, Continue(r)
        PROVE  Store!Next
    <3>1. ASSUME NEW delivered \in BOOLEAN, Issue(r, delivered)
          PROVE  Store!Next
          BY <2>1, <3>1, StoreIssues
    <3>2. CASE Rotate(r)
      <4>1. arg[r] \in Requests /\ owner[arg[r]] = acct[r] /\ acct[r] \in Users
            BY <3>2 DEF Rotate, SessionsInv, TypeOK, RefreshLineage, CallShape
      <4>2. revoked' = [k \in Requests |-> revoked[k] \/ k \in {arg[r]}]
            BY <3>2, <4>1 DEF Rotate, SessionsInv, TypeOK
      <4>3. owner' = owner /\ arg' = arg
            BY <3>2 DEF Rotate
      <4>4. {arg[r]} \in SUBSET Requests /\ \A k \in {arg[r]} : owner[k] = acct[r]
            BY <4>1
      <4> QED BY <2>1, <4>1, <4>2, <4>3, <4>4, StoreEnds
    <3>3. CASE CascadeApply(r)
          BY <2>1, <3>3, StoreSweeps DEF CascadeApply
    <3>4. CASE ChangeCommit(r)
          BY <2>1, <3>4, StoreSweeps DEF ChangeCommit, SetPassword
    <3>5. CASE ResetCommit(r)
      <4>1. CASE linkOf[arg[r]] # NoUser
            BY <2>1, <3>5, <4>1, StoreSweeps DEF ResetCommit, SetPassword
      <4>2. CASE linkOf[arg[r]] = NoUser
            BY <2>1, <3>5, <4>2, StoreStutters DEF ResetCommit
      <4> QED BY <4>1, <4>2
    <3>6. CASE \/ RegisterCreate(r) \/ CascadeSnapshot(r) \/ ChangeRead(r)
               \/ ChangeSweep(r) \/ ForgotSweep(r) \/ ResetSweep(r)
               \/ \E delivered \in BOOLEAN : ForgotCommit(r, delivered)
      <4>1. owner' = owner /\ revoked' = revoked /\ arg' = arg
            BY <3>6 DEF RegisterCreate, CascadeSnapshot, ChangeRead, ChangeSweep,
                        ForgotSweep, ResetSweep, ForgotCommit
      <4> QED BY <2>1, <4>1, StoreStutters
    <3> QED BY <2>3, <3>1, <3>2, <3>3, <3>4, <3>5, <3>6 DEF Continue
  <2>4. CASE (\E u \in Users, b \in BOOLEAN : SetActive(u, b)) \/ Crash \/ Tick
             \/ UNCHANGED vars
    <3>1. owner' = owner /\ revoked' = revoked /\ arg' = arg
          BY <2>4 DEF SetActive, Crash, Tick, vars
    <3> QED BY <2>1, <3>1, StoreStutters
  <2> QED BY <2>2, <2>3, <2>4 DEF Next
<1> QED BY <1>1, <1>2, SessionsInvariant, PTL DEF Spec, ImplementsStore, Store!Spec

=============================================================================
