-------------------------- MODULE TwoFactorProofs --------------------------
(* Theorems about TwoFactor, for every set of accounts, calls and codes.     *)
EXTENDS TwoFactor, TLAPS

Replaced == {"confirmed", "disabled", "regenerated"}
Handed == {"confirmed", "regenerated"}
Holding == {"activateCommit", "disableCommit"}

\* The effect that all arrivals share: call r leaves "idle" for label l.
Arrival(r, u, l) ==
  /\ pc[r] = "idle"
  /\ l \in {"generate", "activate", "disable", "regenerate", "find",
            "admitted", "denied"}
  /\ pc' = [pc EXCEPT ![r] = l]
  /\ acct' = [acct EXCEPT ![r] = u]
  /\ arg' \in [Requests -> Requests \cup {NoRow}]
  /\ code' \in [Requests -> Codes \cup {NoRow}]
  /\ \A s \in Requests \ {r} : arg'[s] = arg[s] /\ code'[s] = code[s]
  /\ l = "find" => arg'[r] # NoRow /\ code'[r] \in Codes /\ Shown(arg'[r])
  /\ l = "admitted" => arg'[r] = NoRow
  /\ UNCHANGED <<enabled, secret, batchOf, used, seen>>

-----------------------------------------------------------------------------
\* Nothing is enabled, and no call has arrived.
LEMMA InvInit == Init => TwoFactorInv
BY TwoFactorAssumption
DEF Init, TwoFactorInv, TypeOK, CallShape, BatchesOfTheirCalls, OneHolder,
    DisableSeesActivations, LoginsOfTheirBatches, MarksOfAdmissions,
    EnabledAccountHasCodes, ReplacedCodesStayDead, DisableLeavesNoActivationCodes,
    AdmissionSpendsItsCode, Labels

\* Each arrival has the shared effect.
LEMMA ArriveIsArrival ==
  ASSUME TypeOK, CallShape, NEW r \in Requests, Arrive(r)
  PROVE  \E u \in Users, l \in Labels : Arrival(r, u, l)
<1> USE DEF Begins, Goto, account, rows
<1>1. PICK u \in Users :
        \/ SetupRead(r, u)
        \/ \E ok \in BOOLEAN : DisableRead(r, u, ok) \/ RegenerateRead(r, u, ok)
        \/ \E s \in Requests :
             Shown(s) /\ \/ ConfirmRead(r, u, s) \/ LoginTotp(r, u, s)
                         \/ \E c \in Codes : LoginCode(r, u, s, c)
      BY DEF Arrive
<1> SUFFICES \E l \in Labels : Arrival(r, u, l)
    BY <1>1
<1>2. CASE SetupRead(r, u)
  <2>1. Arrival(r, u, IF enabled[u] THEN "denied" ELSE "generate")
        BY <1>2 DEF SetupRead, Arrival, TypeOK
  <2> QED BY <2>1 DEF Labels
<1>3. ASSUME NEW ok \in BOOLEAN, DisableRead(r, u, ok) PROVE \E l \in Labels : Arrival(r, u, l)
  <2>1. Arrival(r, u, IF ok THEN "disable" ELSE "denied")
        BY <1>3 DEF DisableRead, Arrival, TypeOK
  <2> QED BY <2>1 DEF Labels
<1>4. ASSUME NEW ok \in BOOLEAN, RegenerateRead(r, u, ok) PROVE \E l \in Labels : Arrival(r, u, l)
  <2>1. CASE enabled[u] /\ ok
    <3>1. Arrival(r, u, "regenerate")
          BY <1>4, <2>1 DEF RegenerateRead, Arrival, TypeOK
    <3> QED BY <3>1 DEF Labels
  <2>2. CASE ~(enabled[u] /\ ok)
    <3>1. Arrival(r, u, "denied")
          BY <1>4, <2>2 DEF RegenerateRead, Arrival, TypeOK
    <3> QED BY <3>1 DEF Labels
  <2> QED BY <2>1, <2>2
<1>5. ASSUME NEW s \in Requests, ConfirmRead(r, u, s) PROVE \E l \in Labels : Arrival(r, u, l)
  <2>1. Arrival(r, u, IF secret[u] # NoRow /\ secret[u] = s THEN "activate" ELSE "denied")
        BY <1>5 DEF ConfirmRead, Arrival, TypeOK
  <2> QED BY <2>1 DEF Labels
<1>6. ASSUME NEW s \in Requests, LoginTotp(r, u, s) PROVE \E l \in Labels : Arrival(r, u, l)
  <2>1. CASE enabled[u] /\ secret[u] = s
    <3>1. Arrival(r, u, "admitted")
          BY <1>6, <2>1 DEF LoginTotp, Arrival, TypeOK, CallShape
    <3> QED BY <3>1 DEF Labels
  <2>2. CASE ~(enabled[u] /\ secret[u] = s)
    <3>1. Arrival(r, u, "denied")
          BY <1>6, <2>2 DEF LoginTotp, Arrival, TypeOK
    <3> QED BY <3>1 DEF Labels
  <2> QED BY <2>1, <2>2
<1>7. ASSUME NEW s \in Requests, NEW c \in Codes, LoginCode(r, u, s, c), Shown(s)
      PROVE  \E l \in Labels : Arrival(r, u, l)
  <2>1. CASE enabled[u] /\ secret[u] # NoRow
    <3>1. Arrival(r, u, "find")
          BY <1>7, <2>1, TwoFactorAssumption DEF LoginCode, Arrival, TypeOK
    <3> QED BY <3>1 DEF Labels
  <2>2. CASE ~(enabled[u] /\ secret[u] # NoRow)
    <3>1. Arrival(r, u, "denied")
          BY <1>7, <2>2 DEF LoginCode, Arrival, TypeOK
    <3> QED BY <3>1 DEF Labels
  <2> QED BY <2>1, <2>2
<1> QED BY <1>1, <1>2, <1>3, <1>4, <1>5, <1>6, <1>7

\* A step that marks no row and sends no login to mark one leaves what is known
\* of the marks as it was.
LEMMA MarksKept ==
  ASSUME TwoFactorInv, UNCHANGED used,
         \A s \in Requests :
           \/ UNCHANGED <<pc[s], acct[s], arg[s], code[s]>>
           \/ pc[s] # "admitted" /\ pc'[s] # "spend",
         \A s \in Requests : pc[s] # "idle" => acct'[s] = acct[s]
  PROVE  LoginsOfTheirBatches' /\ MarksOfAdmissions'
<1>1. LoginsOfTheirBatches'
  <2> SUFFICES ASSUME NEW s \in Requests, pc'[s] = "spend" PROVE acct'[arg'[s]] = acct'[s]
      BY DEF LoginsOfTheirBatches
  <2>1. pc[s] = "spend" /\ acct'[s] = acct[s] /\ arg'[s] = arg[s]
        OBVIOUS
  <2>2. arg[s] \in Requests /\ pc[arg[s]] # "idle"
        BY <2>1 DEF TwoFactorInv, TypeOK, CallShape, Shown
  <2> QED BY <2>1, <2>2 DEF TwoFactorInv, LoginsOfTheirBatches
<1>2. MarksOfAdmissions'
  <2> SUFFICES ASSUME NEW b \in Requests, NEW k \in used[b]
               PROVE  \E s \in Requests : pc'[s] = "admitted" /\ arg'[s] = b /\ code'[s] = k
      BY DEF MarksOfAdmissions
  <2>1. PICK s \in Requests : pc[s] = "admitted" /\ arg[s] = b /\ code[s] = k
        BY DEF TwoFactorInv, MarksOfAdmissions
  <2>2. UNCHANGED <<pc[s], arg[s], code[s]>>
        BY <2>1
  <2> QED BY <2>1, <2>2
<1> QED BY <1>1, <1>2

\* An arrival disturbs no row, and its label claims nothing yet.
LEMMA ArrivalStep ==
  ASSUME TwoFactorInv, NEW r \in Requests, NEW u \in Users, NEW l \in Labels,
         Arrival(r, u, l)
  PROVE  TwoFactorInv'
<1>2. \A s \in Requests \ {r} : pc'[s] = pc[s] /\ acct'[s] = acct[s]
      BY DEF TwoFactorInv, TypeOK, Arrival
<1>1. TypeOK' /\ CallShape'
  <2>1. TypeOK'
        BY DEF TwoFactorInv, TypeOK, Arrival
  <2>2. \A s \in Requests : Shown(s) => s # r /\ Shown(s)'
        BY <1>2 DEF Shown, Arrival
  <2>3. \A s \in Requests : arg'[s] # NoRow => arg'[s] \in Requests
        BY <2>1 DEF TypeOK
  <2>4. CallShape'
        BY <1>2, <2>2, <2>3 DEF TwoFactorInv, TypeOK, CallShape, Arrival
  <2> QED BY <2>1, <2>4
<1>3. pc'[r] = l /\ pc[r] = "idle" /\ l \notin Replaced \cup Holding \cup {"idle"}
      BY DEF TwoFactorInv, TypeOK, Arrival, Replaced, Holding
<1>4. UNCHANGED <<enabled, batchOf, used, seen>>
      BY DEF Arrival
<1>5. BatchesOfTheirCalls'
      BY <1>2, <1>3, <1>4 DEF TwoFactorInv, BatchesOfTheirCalls, CallShape
<1>6. OneHolder'
      BY <1>2, <1>3 DEF TwoFactorInv, OneHolder, Holding
<1>7. DisableSeesActivations'
      BY <1>2, <1>3, <1>4 DEF TwoFactorInv, DisableSeesActivations, Holding, Replaced
<1>8. EnabledAccountHasCodes'
      BY <1>4 DEF TwoFactorInv, EnabledAccountHasCodes
<1>9. ReplacedCodesStayDead'
      BY <1>2, <1>3, <1>4 DEF TwoFactorInv, ReplacedCodesStayDead, Replaced
<1>10. DisableLeavesNoActivationCodes'
       BY <1>2, <1>3, <1>4 DEF TwoFactorInv, DisableLeavesNoActivationCodes, Replaced
<1>11. AdmissionSpendsItsCode'
       BY <1>2, <1>3, <1>4 DEF TwoFactorInv, AdmissionSpendsItsCode, Arrival, TypeOK
<1>12. LoginsOfTheirBatches' /\ MarksOfAdmissions'
  <2>1. \A s \in Requests : s # r => UNCHANGED <<pc[s], acct[s], arg[s], code[s]>>
        BY <1>2 DEF Arrival
  <2>2. pc[r] # "admitted" /\ pc'[r] # "spend"
        BY <1>3 DEF Arrival
  <2> QED BY <2>1, <2>2, <1>3, <1>4, MarksKept
<1> QED BY <1>1, <1>5, <1>6, <1>7, <1>8, <1>9, <1>10, <1>11, <1>12 DEF TwoFactorInv

-----------------------------------------------------------------------------
\* A step that moves one call to a label without claims and touches no row
\* but, perhaps, a secret.
LEMMA QuietStep ==
  ASSUME TwoFactorInv, NEW r \in Requests, pc[r] # "idle",
         NEW l \in {"shown", "spend", "denied"},
         l = "spend" => pc[r] = "find" /\ acct[arg[r]] = acct[r], pc[r] # "admitted",
         pc' = [pc EXCEPT ![r] = l], ~Shown(r),
         secret' \in [Users -> Requests \cup {NoRow}],
         UNCHANGED <<enabled, rows, call>>
  PROVE  TwoFactorInv'
<1>1. UNCHANGED <<enabled, batchOf, used, acct, arg, code, seen>>
      BY DEF rows, call
<1>2. pc' \in [Requests -> Labels] /\ pc'[r] = l /\ l \notin Replaced \cup Holding \cup {"idle", "admitted"}
      BY DEF TwoFactorInv, TypeOK, Labels, Replaced, Holding
<1>3. \A s \in Requests \ {r} : pc'[s] = pc[s]
      BY DEF TwoFactorInv, TypeOK
<1>4. TypeOK' /\ CallShape'
      BY <1>1, <1>2, <1>3 DEF TwoFactorInv, TypeOK, CallShape, Shown
<1>5. BatchesOfTheirCalls'
      BY <1>1, <1>2, <1>3 DEF TwoFactorInv, BatchesOfTheirCalls, Shown
<1>6. OneHolder' /\ DisableSeesActivations'
      BY <1>1, <1>2, <1>3 DEF TwoFactorInv, OneHolder, DisableSeesActivations, Holding, Replaced
<1>7. EnabledAccountHasCodes'
      BY <1>1 DEF TwoFactorInv, EnabledAccountHasCodes
<1>8. ReplacedCodesStayDead' /\ DisableLeavesNoActivationCodes'
      BY <1>1, <1>2, <1>3
      DEF TwoFactorInv, ReplacedCodesStayDead, DisableLeavesNoActivationCodes, Replaced
<1>9. AdmissionSpendsItsCode'
      BY <1>1, <1>2, <1>3 DEF TwoFactorInv, AdmissionSpendsItsCode
<1>10. LoginsOfTheirBatches' /\ MarksOfAdmissions'
       BY <1>1, <1>2, <1>3 DEF TwoFactorInv, LoginsOfTheirBatches, MarksOfAdmissions
<1> QED BY <1>4, <1>5, <1>6, <1>7, <1>8, <1>9, <1>10 DEF TwoFactorInv

\* A deleteMany chooses its batches: all of them have been handed out; and if
\* it holds the lock nobody else does.
LEMMA SweepStep ==
  ASSUME TwoFactorInv, NEW r \in Requests,
         NEW l \in {"activateCommit", "disableCommit", "regenerateCommit"},
         l \in Holding => ~Locked(acct[r]),
         pc[r] \in {"activate", "disable", "regenerate"},
         pc' = [pc EXCEPT ![r] = l], Choose(r),
         UNCHANGED <<account, rows, acct, arg, code>>
  PROVE  TwoFactorInv'
<1>1. UNCHANGED <<enabled, secret, batchOf, used, acct, arg, code>>
      BY DEF account, rows
<1>2. pc'[r] = l /\ pc[r] \notin Handed /\ l \notin Replaced \cup {"idle", "find", "spend", "admitted"}
      BY DEF TwoFactorInv, TypeOK, Replaced, Handed
<1>3. \A s \in Requests \ {r} : pc'[s] = pc[s] /\ seen'[s] = seen[s]
      BY DEF TwoFactorInv, TypeOK, Choose
<1>4. seen'[r] = {b \in Requests : batchOf[b] = acct[r]} /\ acct[r] \in Users
      BY DEF TwoFactorInv, TypeOK, CallShape, Choose
<1>5. TypeOK' /\ CallShape'
      BY <1>1, <1>2, <1>3 DEF TwoFactorInv, TypeOK, CallShape, Choose, Labels, Shown, Handed
<1>6. BatchesOfTheirCalls'
      BY <1>1, <1>2, <1>3, <1>4, TwoFactorAssumption DEF TwoFactorInv, BatchesOfTheirCalls, Handed
<1>7. OneHolder'
      BY <1>1, <1>2, <1>3 DEF TwoFactorInv, OneHolder, Locked, Holding
<1>8. DisableSeesActivations'
      BY <1>1, <1>2, <1>3, <1>4 DEF TwoFactorInv, DisableSeesActivations, Replaced
<1>9. EnabledAccountHasCodes'
      BY <1>1 DEF TwoFactorInv, EnabledAccountHasCodes
<1>10. ReplacedCodesStayDead' /\ DisableLeavesNoActivationCodes'
       BY <1>1, <1>2, <1>3
       DEF TwoFactorInv, ReplacedCodesStayDead, DisableLeavesNoActivationCodes, Replaced
<1>11. AdmissionSpendsItsCode'
       BY <1>1, <1>2, <1>3 DEF TwoFactorInv, AdmissionSpendsItsCode
<1>12. LoginsOfTheirBatches' /\ MarksOfAdmissions'
       BY <1>1, <1>2, <1>3, MarksKept
<1> QED BY <1>5, <1>6, <1>7, <1>8, <1>9, <1>10, <1>11, <1>12 DEF TwoFactorInv

\* The commit of an activation or a regeneration: the new batch takes the
\* place of the chosen ones.
LEMMA ReplaceStep ==
  ASSUME TwoFactorInv, NEW r \in Requests, NEW l \in Handed,
         IF l = "confirmed"
         THEN pc[r] = "activateCommit" /\ enabled' = [enabled EXCEPT ![acct[r]] = TRUE]
         ELSE pc[r] = "regenerateCommit" /\ UNCHANGED enabled,
         pc' = [pc EXCEPT ![r] = l], Replace(r),
         UNCHANGED <<secret, used, call>>
  PROVE  TwoFactorInv'
<1>1. UNCHANGED <<secret, used, acct, arg, code, seen>>
      BY DEF call
<1>2. pc'[r] = l /\ pc[r] \notin Replaced \cup {"idle", "disableCommit"} /\ l \in Replaced
      BY DEF TwoFactorInv, TypeOK, Replaced, Handed
<1>3. \A s \in Requests \ {r} : pc'[s] = pc[s]
      BY DEF TwoFactorInv, TypeOK
<1>4. acct[r] \in Users /\ acct[r] # NoUser
      BY <1>2, TwoFactorAssumption DEF TwoFactorInv, CallShape
<1>5. batchOf'[r] = acct[r]
      BY DEF Replace
<1>6. \A b \in Requests \ {r} : batchOf'[b] = IF b \in seen[r] THEN NoUser ELSE batchOf[b]
      BY DEF Replace
<1>7. TypeOK'
  <2>1. enabled' \in [Users -> BOOLEAN]
        BY <1>4 DEF TwoFactorInv, TypeOK
  <2>2. batchOf' \in [Requests -> Users \cup {NoUser}]
        BY <1>4 DEF Replace, TwoFactorInv, TypeOK
  <2>3. pc' \in [Requests -> Labels]
        BY DEF TwoFactorInv, TypeOK, Handed, Labels
  <2> QED BY <2>1, <2>2, <2>3, <1>1 DEF TwoFactorInv, TypeOK
<1>8. CallShape'
      BY <1>1, <1>2, <1>3, <1>4 DEF TwoFactorInv, TypeOK, CallShape, Replaced, Shown, Handed
<1>9. r \notin seen[r] /\ \A s \in Requests : r \notin seen[s]
      BY <1>2 DEF TwoFactorInv, BatchesOfTheirCalls, Replaced
<1>10. BatchesOfTheirCalls'
       BY <1>1, <1>2, <1>3, <1>5, <1>6 DEF TwoFactorInv, BatchesOfTheirCalls, Handed
<1>11. OneHolder'
       BY <1>1, <1>2, <1>3 DEF TwoFactorInv, OneHolder, Replaced
<1>12. DisableSeesActivations'
  <2> SUFFICES ASSUME NEW d \in Requests, NEW b \in Requests,
                      pc'[d] = "disableCommit", pc'[b] = "confirmed",
                      batchOf'[b] = acct'[d]
               PROVE  b \in seen'[d]
      BY DEF DisableSeesActivations
  <2>1. d # r /\ pc[d] = "disableCommit" /\ acct[d] \in Users /\ acct[d] # NoUser
        BY <1>2, <1>3, TwoFactorAssumption DEF Replaced, TwoFactorInv, CallShape
  <2>2. CASE b = r
    <3>1. l = "confirmed" /\ acct[d] = acct[r]
          BY <2>2, <1>1, <1>2, <1>5
    <3> QED BY <3>1, <2>1 DEF TwoFactorInv, OneHolder
  <2>3. CASE b # r
    <3>1. batchOf[b] = acct[d] /\ pc[b] = "confirmed"
          BY <2>3, <2>1, <1>1, <1>3, <1>6
    <3> QED BY <3>1, <2>1, <1>1 DEF TwoFactorInv, DisableSeesActivations
  <2> QED BY <2>2, <2>3
<1>13. EnabledAccountHasCodes'
  <2> SUFFICES ASSUME NEW u \in Users, enabled'[u] PROVE \E b \in Requests : batchOf'[b] = u
      BY DEF EnabledAccountHasCodes
  <2>1. CASE u = acct[r]
        BY <2>1, <1>5
  <2>2. CASE u # acct[r]
    <3>1. enabled[u]
          BY <2>2 DEF TwoFactorInv, TypeOK
    <3>2. PICK b \in Requests : batchOf[b] = u
          BY <3>1 DEF TwoFactorInv, EnabledAccountHasCodes
    <3>3. b \notin seen[r] /\ b # r
          BY <3>2, <2>2, <1>2, TwoFactorAssumption
          DEF TwoFactorInv, BatchesOfTheirCalls
    <3> QED BY <3>2, <3>3, <1>6
  <2> QED BY <2>1, <2>2
<1>14. ReplacedCodesStayDead'
       BY <1>1, <1>2, <1>3, <1>6, <1>9 DEF TwoFactorInv, TypeOK, ReplacedCodesStayDead, Replaced
<1>15. DisableLeavesNoActivationCodes'
  <2> SUFFICES ASSUME NEW b \in Requests, pc'[b] = "confirmed", batchOf'[b] # NoUser
               PROVE  enabled'[batchOf'[b]]
      BY DEF DisableLeavesNoActivationCodes
  <2>1. CASE b = r
    <3>1. enabled' = [enabled EXCEPT ![acct[r]] = TRUE]
          BY <2>1, <1>2
    <3> QED BY <3>1, <2>1, <1>4, <1>5 DEF TwoFactorInv, TypeOK
  <2>2. CASE b # r
    <3>1. pc[b] = "confirmed" /\ batchOf[b] # NoUser /\ batchOf'[b] = batchOf[b]
          BY <2>2, <1>3, <1>6
    <3>2. enabled[batchOf[b]] /\ batchOf[b] \in Users
          BY <3>1 DEF TwoFactorInv, DisableLeavesNoActivationCodes, TypeOK
    <3>3. enabled' = [enabled EXCEPT ![acct[r]] = TRUE] \/ enabled' = enabled
          BY DEF Handed
    <3>4. enabled'[batchOf[b]]
          BY <3>2, <3>3 DEF TwoFactorInv, TypeOK
    <3> QED BY <3>1, <3>4
  <2> QED BY <2>1, <2>2
<1>16. AdmissionSpendsItsCode'
  <2> SUFFICES ASSUME NEW s \in Requests, pc'[s] = "admitted", arg'[s] # NoRow
               PROVE  code'[s] \in used'[arg'[s]] \/ batchOf'[arg'[s]] = NoUser
      BY DEF AdmissionSpendsItsCode
  <2>1. s # r /\ pc[s] = "admitted" /\ arg[s] \in Requests
        BY <1>1, <1>2, <1>3 DEF Replaced, TwoFactorInv, TypeOK
  <2>2. code[s] \in used[arg[s]] \/ batchOf[arg[s]] = NoUser
        BY <2>1, <1>1 DEF TwoFactorInv, AdmissionSpendsItsCode
  <2>3. arg[s] # r
        BY <2>1, <1>1, <1>2 DEF TwoFactorInv, CallShape, Shown, Replaced
  <2> QED BY <2>1, <2>2, <2>3, <1>1, <1>6
<1>17. LoginsOfTheirBatches' /\ MarksOfAdmissions'
       BY <1>1, <1>2, <1>3, MarksKept DEF Handed
<1> QED BY <1>7, <1>8, <1>10, <1>11, <1>12, <1>13, <1>14, <1>15, <1>16, <1>17 DEF TwoFactorInv

\* The commit of a disable takes every batch of an activation with it.
LEMMA DisableStep ==
  ASSUME TwoFactorInv, NEW r \in Requests, DisableCommit(r)
  PROVE  TwoFactorInv'
<1>1. UNCHANGED <<used, acct, arg, code, seen>>
      BY DEF DisableCommit, call
<1>2. pc[r] = "disableCommit" /\ pc'[r] = "disabled"
      BY DEF DisableCommit, Goto, TwoFactorInv, TypeOK
<1>3. \A s \in Requests \ {r} : pc'[s] = pc[s]
      BY DEF DisableCommit, Goto, TwoFactorInv, TypeOK
<1>4. acct[r] \in Users
      BY <1>2 DEF TwoFactorInv, CallShape
<1>5. \A b \in Requests : batchOf'[b] = IF b \in seen[r] THEN NoUser ELSE batchOf[b]
      BY DEF DisableCommit
<1>6. enabled' = [enabled EXCEPT ![acct[r]] = FALSE]
      BY DEF DisableCommit
<1>7. TypeOK'
  <2>1. pc' \in [Requests -> Labels]
        BY DEF DisableCommit, Goto, TwoFactorInv, TypeOK, Labels
  <2>2. secret' \in [Users -> Requests \cup {NoRow}] /\ enabled' \in [Users -> BOOLEAN]
        BY <1>4, <1>6 DEF DisableCommit, TwoFactorInv, TypeOK
  <2>3. batchOf' \in [Requests -> Users \cup {NoUser}]
        BY DEF DisableCommit, TwoFactorInv, TypeOK
  <2> QED BY <1>1, <2>1, <2>2, <2>3 DEF TwoFactorInv, TypeOK
<1>8. CallShape'
      BY <1>1, <1>2, <1>3, <1>4 DEF TwoFactorInv, TypeOK, CallShape, Shown
<1>9. BatchesOfTheirCalls'
      BY <1>1, <1>2, <1>3, <1>5 DEF TwoFactorInv, BatchesOfTheirCalls
<1>10. OneHolder'
       BY <1>1, <1>2, <1>3 DEF TwoFactorInv, OneHolder
<1>11. DisableSeesActivations'
  <2> SUFFICES ASSUME NEW d \in Requests, NEW b \in Requests,
                      pc'[d] = "disableCommit", pc'[b] = "confirmed",
                      batchOf'[b] = acct'[d]
               PROVE  b \in seen'[d]
      BY DEF DisableSeesActivations
  <2>1. d # r /\ b # r /\ pc[d] = "disableCommit" /\ pc[b] = "confirmed" /\ acct[d] # NoUser
        BY <1>2, <1>3, TwoFactorAssumption DEF TwoFactorInv, CallShape
  <2>2. batchOf[b] = acct[d]
        BY <2>1, <1>1, <1>5
  <2> QED BY <2>1, <2>2, <1>1 DEF TwoFactorInv, DisableSeesActivations
<1>12. EnabledAccountHasCodes'
  <2> SUFFICES ASSUME NEW u \in Users, enabled'[u] PROVE \E b \in Requests : batchOf'[b] = u
      BY DEF EnabledAccountHasCodes
  <2>1. u # acct[r] /\ enabled[u]
        BY <1>6, <1>4 DEF TwoFactorInv, TypeOK
  <2>2. PICK b \in Requests : batchOf[b] = u
        BY <2>1 DEF TwoFactorInv, EnabledAccountHasCodes
  <2>3. b \notin seen[r]
        BY <2>1, <2>2, TwoFactorAssumption DEF TwoFactorInv, BatchesOfTheirCalls
  <2> QED BY <2>2, <2>3, <1>5
<1>13. ReplacedCodesStayDead'
       BY <1>1, <1>2, <1>3, <1>5 DEF TwoFactorInv, TypeOK, ReplacedCodesStayDead
<1>14. DisableLeavesNoActivationCodes'
  <2> SUFFICES ASSUME NEW b \in Requests, pc'[b] = "confirmed", batchOf'[b] # NoUser
               PROVE  enabled'[batchOf'[b]]
      BY DEF DisableLeavesNoActivationCodes
  <2>1. pc[b] = "confirmed" /\ b \notin seen[r] /\ batchOf'[b] = batchOf[b] /\ batchOf[b] # NoUser
        BY <1>2, <1>3, <1>5
  <2>2. batchOf[b] # acct[r]
        BY <2>1, <1>2 DEF TwoFactorInv, DisableSeesActivations
  <2>3. enabled[batchOf[b]] /\ batchOf[b] \in Users
        BY <2>1 DEF TwoFactorInv, DisableLeavesNoActivationCodes, TypeOK
  <2>4. enabled'[batchOf[b]]
        BY <2>2, <2>3, <1>6 DEF TwoFactorInv, TypeOK
  <2> QED BY <2>1, <2>4
<1>15. AdmissionSpendsItsCode'
       BY <1>1, <1>2, <1>3, <1>5 DEF TwoFactorInv, TypeOK, AdmissionSpendsItsCode
<1>16. LoginsOfTheirBatches' /\ MarksOfAdmissions'
       BY <1>1, <1>2, <1>3, MarksKept
<1> QED BY <1>7, <1>8, <1>9, <1>10, <1>11, <1>12, <1>13, <1>14, <1>15, <1>16 DEF TwoFactorInv

\* Marking a code admits the login that presents it.
LEMMA SpendStep ==
  ASSUME TwoFactorInv, NEW r \in Requests, SpendCode(r), batchOf[arg[r]] # NoUser
  PROVE  TwoFactorInv'
<1>1. UNCHANGED <<enabled, secret, batchOf, acct, arg, code, seen>>
      BY DEF SpendCode, call, account
<1>2. pc[r] = "spend" /\ pc' = [pc EXCEPT ![r] = "admitted"]
      BY DEF SpendCode, Goto
<1>3. \A s \in Requests \ {r} : pc'[s] = pc[s]
      BY <1>2 DEF TwoFactorInv, TypeOK
<1>4. pc'[r] = "admitted" /\ arg[r] \in Requests /\ code[r] \in Codes
      BY <1>2 DEF TwoFactorInv, TypeOK, CallShape
<1>5. used' = [used EXCEPT ![arg[r]] = used[arg[r]] \cup {code[r]}]
      BY DEF SpendCode
<1>6. TypeOK'
  <2>1. used' \in [Requests -> SUBSET Codes] /\ pc' \in [Requests -> Labels]
        BY <1>2, <1>4, <1>5 DEF TwoFactorInv, TypeOK, Labels
  <2> QED BY <1>1, <2>1 DEF TwoFactorInv, TypeOK
<1>7. CallShape'
      BY <1>1, <1>2, <1>3, <1>4 DEF TwoFactorInv, TypeOK, CallShape, Shown
<1>8. BatchesOfTheirCalls' /\ OneHolder' /\ DisableSeesActivations'
      BY <1>1, <1>2, <1>3, <1>4 DEF TwoFactorInv, BatchesOfTheirCalls, OneHolder, DisableSeesActivations
<1>9. EnabledAccountHasCodes' /\ ReplacedCodesStayDead' /\ DisableLeavesNoActivationCodes'
      BY <1>1, <1>2, <1>3, <1>4
      DEF TwoFactorInv, EnabledAccountHasCodes, ReplacedCodesStayDead, DisableLeavesNoActivationCodes
<1>10. AdmissionSpendsItsCode'
  <2> SUFFICES ASSUME NEW s \in Requests, pc'[s] = "admitted", arg'[s] # NoRow
               PROVE  code'[s] \in used'[arg'[s]] \/ batchOf'[arg'[s]] = NoUser
      BY DEF AdmissionSpendsItsCode
  <2>1. arg[s] \in Requests
        BY <1>1 DEF TwoFactorInv, TypeOK
  <2>2. used[arg[s]] \subseteq used'[arg[s]]
        BY <2>1, <1>5 DEF TwoFactorInv, TypeOK
  <2>3. CASE s = r
        BY <2>3, <1>1, <1>4, <1>5 DEF TwoFactorInv, TypeOK
  <2>4. CASE s # r
        BY <2>4, <2>2, <1>1, <1>3 DEF TwoFactorInv, AdmissionSpendsItsCode
  <2> QED BY <2>3, <2>4
<1>11. LoginsOfTheirBatches'
       BY <1>1, <1>3, <1>4 DEF TwoFactorInv, LoginsOfTheirBatches
<1>12. MarksOfAdmissions'
  <2> SUFFICES ASSUME NEW b \in Requests, NEW k \in used'[b]
               PROVE  \E s \in Requests : pc'[s] = "admitted" /\ arg'[s] = b /\ code'[s] = k
      BY DEF MarksOfAdmissions
  <2>1. CASE b = arg[r] /\ k = code[r]
        BY <2>1, <1>1, <1>4
  <2>2. CASE ~(b = arg[r] /\ k = code[r])
    <3>1. k \in used[b]
          BY <2>2, <1>4, <1>5 DEF TwoFactorInv, TypeOK
    <3>2. PICK s \in Requests : pc[s] = "admitted" /\ arg[s] = b /\ code[s] = k
          BY <3>1 DEF TwoFactorInv, MarksOfAdmissions
    <3>3. pc'[s] = "admitted"
          BY <3>2, <1>3, <1>4
    <3> QED BY <3>2, <3>3, <1>1
  <2> QED BY <2>1, <2>2
<1> QED BY <1>6, <1>7, <1>8, <1>9, <1>10, <1>11, <1>12 DEF TwoFactorInv

\* A crash leaves the rows as they are and stops the calls in flight.
LEMMA CrashStep == TwoFactorInv /\ Crash => TwoFactorInv'
<1> SUFFICES ASSUME TwoFactorInv, Crash PROVE TwoFactorInv'
    OBVIOUS
<1>1. UNCHANGED <<enabled, secret, batchOf, used, acct, arg, code, seen>>
      BY DEF Crash, account, rows, call
<1>2. \A r \in Requests : pc'[r] = pc[r] \/ (pc'[r] = "crashed" /\ InFlight(r))
      BY DEF Crash
<1>3. TypeOK'
      BY <1>1 DEF Crash, TwoFactorInv, TypeOK, Labels
<1>4. CallShape'
      BY <1>1, <1>2 DEF TwoFactorInv, TypeOK, CallShape, Shown, InFlight, Answered
<1>5. BatchesOfTheirCalls' /\ OneHolder' /\ DisableSeesActivations'
      BY <1>1, <1>2
      DEF TwoFactorInv, BatchesOfTheirCalls, OneHolder, DisableSeesActivations, InFlight, Answered
<1>6. EnabledAccountHasCodes' /\ ReplacedCodesStayDead' /\ DisableLeavesNoActivationCodes'
      BY <1>1, <1>2
      DEF TwoFactorInv, EnabledAccountHasCodes, ReplacedCodesStayDead, DisableLeavesNoActivationCodes
<1>7. AdmissionSpendsItsCode'
      BY <1>1, <1>2 DEF TwoFactorInv, AdmissionSpendsItsCode
<1>8. LoginsOfTheirBatches' /\ MarksOfAdmissions'
      BY <1>1, <1>2, MarksKept DEF InFlight, Answered
<1> QED BY <1>3, <1>4, <1>5, <1>6, <1>7, <1>8 DEF TwoFactorInv

-----------------------------------------------------------------------------
\* Every step preserves the invariant.
LEMMA InvStep == TwoFactorInv /\ [Next]_vars => TwoFactorInv'
<1> SUFFICES ASSUME TwoFactorInv, [Next]_vars PROVE TwoFactorInv'
    OBVIOUS
<1>1. ASSUME NEW r \in Requests, Arrive(r) PROVE TwoFactorInv'
  <2>1. PICK u \in Users, l \in Labels : Arrival(r, u, l)
        BY <1>1, ArriveIsArrival DEF TwoFactorInv
  <2> QED BY <2>1, ArrivalStep
<1>2. ASSUME NEW r \in Requests, Continue(r) PROVE TwoFactorInv'
  <2>1. CASE SetupWrite(r)
    <3>1. secret' \in [Users -> Requests \cup {NoRow}]
          BY <2>1 DEF SetupWrite, TwoFactorInv, TypeOK
    <3>2. pc[r] = "generate" /\ pc' = [pc EXCEPT ![r] = "shown"] /\ UNCHANGED <<enabled, rows, call>>
          BY <2>1 DEF SetupWrite, Goto
    <3> QED BY <3>1, <3>2, QuietStep DEF Shown
  <2>2. CASE ConfirmSweep(r)
        BY <2>2, SweepStep DEF ConfirmSweep, Goto
  <2>3. CASE ConfirmCommit(r)
    <3>1. pc[r] = "activateCommit" /\ enabled' = [enabled EXCEPT ![acct[r]] = TRUE]
          /\ pc' = [pc EXCEPT ![r] = "confirmed"] /\ Replace(r) /\ UNCHANGED <<secret, used, call>>
          BY <2>3 DEF ConfirmCommit, Goto
    <3>2. "confirmed" \in Handed
          BY DEF Handed
    <3> QED BY <3>1, <3>2, ReplaceStep
  <2>4. CASE DisableSweep(r)
        BY <2>4, SweepStep DEF DisableSweep, Goto
  <2>5. CASE DisableCommit(r)
        BY <2>5, DisableStep
  <2>6. CASE RegenerateSweep(r)
        BY <2>6, SweepStep DEF RegenerateSweep, Goto, Holding
  <2>7. CASE RegenerateCommit(r)
    <3>1. pc[r] = "regenerateCommit" /\ UNCHANGED enabled
          /\ pc' = [pc EXCEPT ![r] = "regenerated"] /\ Replace(r) /\ UNCHANGED <<secret, used, call>>
          BY <2>7 DEF RegenerateCommit, Goto, account
    <3>2. "regenerated" \in Handed /\ "regenerated" # "confirmed"
          BY DEF Handed
    <3> QED BY <3>1, <3>2, ReplaceStep
  <2>8. CASE FindCode(r)
    <3>1. secret' \in [Users -> Requests \cup {NoRow}]
          BY <2>8 DEF FindCode, account, TwoFactorInv, TypeOK
    <3>2. PICK l \in {"spend", "denied"} : pc' = [pc EXCEPT ![r] = l]
          BY <2>8 DEF FindCode, Goto
    <3>3. pc[r] = "find" /\ UNCHANGED <<enabled, rows, call>>
          BY <2>8 DEF FindCode, account
    <3>4. l = "spend" => batchOf[arg[r]] = acct[r]
          BY <2>8, <3>2 DEF FindCode, Goto, TwoFactorInv, TypeOK
    <3>5. arg[r] \in Requests /\ acct[r] # NoUser
          BY <3>3, TwoFactorAssumption DEF TwoFactorInv, TypeOK, CallShape
    <3>6. l = "spend" => acct[arg[r]] = acct[r]
          BY <3>4, <3>5 DEF TwoFactorInv, BatchesOfTheirCalls
    <3> QED BY <3>1, <3>2, <3>3, <3>6, QuietStep DEF Shown
  <2>9. CASE SpendCode(r)
    <3>1. CASE batchOf[arg[r]] # NoUser
          BY <2>9, <3>1, SpendStep
    <3>2. CASE batchOf[arg[r]] = NoUser
      <4>1. secret' \in [Users -> Requests \cup {NoRow}]
            BY <2>9 DEF SpendCode, account, TwoFactorInv, TypeOK
      <4>2. pc[r] = "spend" /\ pc' = [pc EXCEPT ![r] = "denied"] /\ UNCHANGED <<enabled, rows, call>>
            BY <2>9, <3>2 DEF SpendCode, Goto, account, rows
      <4> QED BY <4>1, <4>2, QuietStep DEF Shown
    <3> QED BY <3>1, <3>2
  <2> QED BY <1>2, <2>1, <2>2, <2>3, <2>4, <2>5, <2>6, <2>7, <2>8, <2>9 DEF Continue
<1>3. CASE Crash
      BY <1>3, CrashStep
<1>4. CASE UNCHANGED vars
      BY <1>4
      DEF vars, account, rows, call, TwoFactorInv, TypeOK, CallShape, Shown,
          BatchesOfTheirCalls, OneHolder, DisableSeesActivations, LoginsOfTheirBatches,
          MarksOfAdmissions, EnabledAccountHasCodes, ReplacedCodesStayDead,
          DisableLeavesNoActivationCodes, AdmissionSpendsItsCode
<1> QED BY <1>1, <1>2, <1>3, <1>4 DEF Next

\* The invariant holds in every behaviour.
THEOREM TwoFactorSafe == Spec => []TwoFactorInv
BY InvInit, InvStep, PTL DEF Spec

\* The variables keep their types.
THEOREM TwoFactorTypes == Spec => []TypeOK
<1>1. TwoFactorInv => TypeOK
      BY DEF TwoFactorInv
<1> QED BY <1>1, TwoFactorSafe, PTL

\* While 2FA is active the account has recovery codes.
THEOREM RecoveryIsPossible == Spec => []EnabledAccountHasCodes
<1>1. TwoFactorInv => EnabledAccountHasCodes
      BY DEF TwoFactorInv
<1> QED BY <1>1, TwoFactorSafe, PTL

\* A replaced batch of codes never comes back.
THEOREM ReplacementIsFinal == Spec => []ReplacedCodesStayDead
<1>1. TwoFactorInv => ReplacedCodesStayDead
      BY DEF TwoFactorInv
<1> QED BY <1>1, TwoFactorSafe, PTL

\* No activation slips its codes in behind a disable.
THEOREM DisableIsComplete == Spec => []DisableLeavesNoActivationCodes
<1>1. TwoFactorInv => DisableLeavesNoActivationCodes
      BY DEF TwoFactorInv
<1> QED BY <1>1, TwoFactorSafe, PTL

\* A login admitted by a recovery code has spent it.
THEOREM AdmissionsAreSpent == Spec => []AdmissionSpendsItsCode
<1>1. TwoFactorInv => AdmissionSpendsItsCode
      BY DEF TwoFactorInv
<1> QED BY <1>1, TwoFactorSafe, PTL

-----------------------------------------------------------------------------
(* The refinement                                                            *)

\* Marks are for good and made by admissions; and what no login holds for unused
\* any more, no login finds unused again.
LEMMA BookSpends ==
  ASSUME TwoFactorInv, TwoFactorInv',
         \A b \in Requests : used[b] \subseteq used'[b],
         \A s \in Requests :
           pc'[s] = "spend" =>
             \/ pc[s] = "spend" /\ UNCHANGED <<arg[s], code[s]>>
             \/ code'[s] \notin used[arg'[s]]
  PROVE  Book!Spending
<1> DEFINE Spent == [b \in Requests |-> {k \in used[b] : ~Held(b, k)}]
           Admissions == {<<r, acct[r], arg[r], code[r]>> : r \in {s \in Requests : Admitted(s)}}
<1>1. Spent' = [b \in Requests |-> {k \in used'[b] : ~Held(b, k)'}]
      OBVIOUS
<1>2. Spent' \in [Requests -> SUBSET Codes]
      BY <1>1 DEF TwoFactorInv, TypeOK
<1>3. ASSUME NEW b \in Requests PROVE Spent[b] \subseteq Spent'[b]
  <2> SUFFICES ASSUME NEW k \in used[b], Held(b, k)' PROVE Held(b, k)
      BY <1>1
  <2>1. PICK s \in Requests : pc'[s] = "spend" /\ arg'[s] = b /\ code'[s] = k
        BY DEF Held
  <2>2. pc[s] = "spend" /\ arg[s] = b /\ code[s] = k
        BY <2>1
  <2> QED BY <2>2 DEF Held
<1>4. ASSUME NEW b \in Requests, NEW k \in Spent'[b]
      PROVE  \E c \in Requests, u \in Users : <<c, u, b, k>> \in Admissions'
  <2>1. k \in used'[b]
        BY <1>1
  <2>2. PICK c \in Requests : pc'[c] = "admitted" /\ arg'[c] = b /\ code'[c] = k
        BY <2>1 DEF TwoFactorInv, MarksOfAdmissions
  <2>3. acct'[c] \in Users
        BY <2>2 DEF TwoFactorInv, CallShape
  <2>4. Admitted(c)'
        BY <2>2, TwoFactorAssumption DEF Admitted
  <2>5. <<c, acct'[c], b, k>> \in Admissions'
        BY <2>2, <2>4
  <2> QED BY <2>3, <2>5
<1> QED BY <1>2, <1>3, <1>4 DEF Book!Spending

\* What the book records of a step in which no batch is handed out or taken back
\* and no login admitted: perhaps codes that are spent by now.
LEMMA BookRests ==
  ASSUME TwoFactorInv, TwoFactorInv', UNCHANGED <<batchOf, used>>,
         \A s \in Requests :
           /\ (Issued(s)' <=> Issued(s)) /\ (Admitted(s)' <=> Admitted(s))
           /\ Admitted(s) => UNCHANGED <<acct[s], arg[s], code[s]>>
           /\ pc'[s] = "spend" =>
                \/ pc[s] = "spend" /\ UNCHANGED <<arg[s], code[s]>>
                \/ code'[s] \notin used[arg'[s]]
  PROVE  Book!Next
<1>1. Book!Spending
      BY BookSpends
<1>2. [b \in Requests |-> Issued(b)]' = [b \in Requests |-> Issued(b)]
  <2>1. \A b \in Requests : Issued(b)' \in BOOLEAN /\ Issued(b) \in BOOLEAN
        BY DEF Issued
  <2>2. \A b \in Requests : Issued(b)' = Issued(b)
        BY <2>1
  <2> QED BY <2>2, Zenon
<1>3. {<<r, acct[r], arg[r], code[r]>> : r \in {s \in Requests : Admitted(s)}}'
        = {<<r, acct[r], arg[r], code[r]>> : r \in {s \in Requests : Admitted(s)}}
  <2>1. \A r \in Requests : Admitted(r) =>
          <<r, acct[r], arg[r], code[r]>>' = <<r, acct[r], arg[r], code[r]>>
        OBVIOUS
  <2> QED BY <2>1
<1> QED BY <1>1, <1>2, <1>3 DEF Book!Next, Book!Spend

\* The commit of an activation or a regeneration hands a batch out.
LEMMA BookHandsOut ==
  ASSUME TwoFactorInv, NEW r \in Requests,
         pc[r] \in {"activateCommit", "regenerateCommit"},
         NEW l \in Handed, pc' = [pc EXCEPT ![r] = l], Replace(r), UNCHANGED <<used, call>>
  PROVE  Book!Next
<1>1. UNCHANGED <<acct, arg, code, seen>> /\ pc'[r] = l
      /\ \A s \in Requests \ {r} : pc'[s] = pc[s]
      BY DEF call, TwoFactorInv, TypeOK
<1>2. acct[r] \in Users /\ acct[r] # NoUser
      BY TwoFactorAssumption DEF TwoFactorInv, CallShape
<1> DEFINE S == {b \in seen[r] : batchOf[b] # NoUser}
<1>3. S \in SUBSET Book!In(acct[r])
      BY DEF Book!In, TwoFactorInv, TypeOK, BatchesOfTheirCalls
<1>4. batchOf' = [b \in Requests |->
                    IF b = r THEN acct[r] ELSE IF b \in S THEN NoUser ELSE batchOf[b]]
      BY DEF Replace, TwoFactorInv, TypeOK
<1>5. [b \in Requests |-> Issued(b)]'
        = [[b \in Requests |-> Issued(b)] EXCEPT ![r] = TRUE]
  <2>1. Issued(r)' = TRUE
        BY <1>1 DEF Issued, Handed
  <2>2. \A b \in Requests \ {r} : Issued(b)' = Issued(b)
        BY <1>1 DEF Issued
  <2> QED BY <2>1, <2>2
<1>6. ~Issued(r)
      BY DEF Issued
<1>7. [b \in Requests |-> {k \in used[b] : ~Held(b, k)}]'
        = [b \in Requests |-> {k \in used[b] : ~Held(b, k)}]
  <2>1. \A s \in Requests : pc'[s] = "spend" <=> pc[s] = "spend"
        BY <1>1 DEF Handed
  <2>2. \A b \in Requests, k \in Codes : Held(b, k)' <=> Held(b, k)
        BY <1>1, <2>1 DEF Held
  <2>3. \A b \in Requests : used'[b] = used[b] /\ used[b] \subseteq Codes
        BY DEF TwoFactorInv, TypeOK
  <2>4. \A b \in Requests :
          {k \in used[b] : ~Held(b, k)}' = {k \in used[b] : ~Held(b, k)}
        BY <2>2, <2>3
  <2> QED BY <2>4
<1>8. {<<s, acct[s], arg[s], code[s]>> : s \in {t \in Requests : Admitted(t)}}'
        = {<<s, acct[s], arg[s], code[s]>> : s \in {t \in Requests : Admitted(t)}}
  <2>1. \A s \in Requests : Admitted(s)' <=> Admitted(s)
        BY <1>1 DEF Admitted, Handed
  <2> QED BY <1>1, <2>1
<1>9. Book!HandOut(r, acct[r], S)
      BY <1>3, <1>4, <1>5, <1>6, <1>7, <1>8 DEF Book!HandOut
<1> QED BY <1>2, <1>3, <1>9 DEF Book!Next

\* A disable takes back what its account holds and it has seen.
LEMMA BookWithdraws ==
  ASSUME TwoFactorInv, NEW r \in Requests, DisableCommit(r)
  PROVE  Book!Next
<1>1. /\ UNCHANGED <<used, acct, arg, code, seen>>
      /\ pc[r] = "disableCommit" /\ pc'[r] = "disabled"
      /\ \A s \in Requests \ {r} : pc'[s] = pc[s]
      BY DEF DisableCommit, Goto, call, TwoFactorInv, TypeOK
<1>2. acct[r] \in Users
      BY <1>1 DEF TwoFactorInv, CallShape
<1> DEFINE S == {b \in seen[r] : batchOf[b] # NoUser}
<1>3. S \in SUBSET Book!In(acct[r])
      BY DEF Book!In, TwoFactorInv, TypeOK, BatchesOfTheirCalls
<1>4. batchOf' = [b \in Requests |-> IF b \in S THEN NoUser ELSE batchOf[b]]
      BY DEF DisableCommit, TwoFactorInv, TypeOK
<1>5. [b \in Requests |-> Issued(b)]' = [b \in Requests |-> Issued(b)]
  <2>1. \A b \in Requests : Issued(b)' = Issued(b)
        BY <1>1 DEF Issued
  <2> QED BY <2>1
<1>6. [b \in Requests |-> {k \in used[b] : ~Held(b, k)}]'
        = [b \in Requests |-> {k \in used[b] : ~Held(b, k)}]
  <2>1. \A s \in Requests : pc'[s] = "spend" <=> pc[s] = "spend"
        BY <1>1
  <2>2. \A b \in Requests, k \in Codes : Held(b, k)' <=> Held(b, k)
        BY <1>1, <2>1 DEF Held
  <2>3. \A b \in Requests : used'[b] = used[b] /\ used[b] \subseteq Codes
        BY <1>1 DEF TwoFactorInv, TypeOK
  <2>4. \A b \in Requests :
          {k \in used[b] : ~Held(b, k)}' = {k \in used[b] : ~Held(b, k)}
        BY <2>2, <2>3
  <2> QED BY <2>4
<1>7. {<<s, acct[s], arg[s], code[s]>> : s \in {t \in Requests : Admitted(t)}}'
        = {<<s, acct[s], arg[s], code[s]>> : s \in {t \in Requests : Admitted(t)}}
  <2>1. \A s \in Requests : Admitted(s)' <=> Admitted(s)
        BY <1>1 DEF Admitted
  <2> QED BY <1>1, <2>1
<1>8. Book!Withdraw(acct[r], S)
      BY <1>3, <1>4, <1>5, <1>6, <1>7 DEF Book!Withdraw
<1> QED BY <1>2, <1>3, <1>8 DEF Book!Next

\* Marking a code that is still in the table admits the login, to the account
\* of the code, which that login itself has kept from being spent.
LEMMA BookAdmits ==
  ASSUME TwoFactorInv, TwoFactorInv', NEW r \in Requests, SpendCode(r),
         batchOf[arg[r]] # NoUser
  PROVE  Book!Next
<1>1. /\ UNCHANGED <<batchOf, acct, arg, code>>
      /\ pc[r] = "spend" /\ pc'[r] = "admitted"
      /\ \A s \in Requests \ {r} : pc'[s] = pc[s]
      BY DEF SpendCode, Goto, call, TwoFactorInv, TypeOK
<1>2. arg[r] \in Requests /\ arg[r] # NoRow /\ code[r] \in Codes /\ acct[r] \in Users
      BY <1>1 DEF TwoFactorInv, TypeOK, CallShape
<1>3. batchOf[arg[r]] = acct[r]
      BY <1>1, <1>2 DEF TwoFactorInv, LoginsOfTheirBatches, BatchesOfTheirCalls
<1>4. Book!Spending
  <2>1. \A b \in Requests : used[b] \subseteq used'[b]
        BY <1>2 DEF SpendCode, TwoFactorInv, TypeOK
  <2>2. \A s \in Requests : pc'[s] = "spend" => pc[s] = "spend"
        BY <1>1
  <2> QED BY <1>1, <2>1, <2>2, BookSpends
<1>5. Held(arg[r], code[r])
      BY <1>1 DEF Held
<1> DEFINE Admissions == {<<s, acct[s], arg[s], code[s]>> : s \in {t \in Requests : Admitted(t)}}
<1>6. \A a \in Admissions : a[1] # r
      BY <1>1 DEF Admitted
<1>7. Admissions' = Admissions \cup {<<r, acct[r], arg[r], code[r]>>}
  <2>1. \A s \in Requests : Admitted(s)' <=> Admitted(s) \/ s = r
        BY <1>1, <1>2 DEF Admitted
  <2> QED BY <1>1, <2>1
<1>8. [b \in Requests |-> Issued(b)]' = [b \in Requests |-> Issued(b)]
  <2>1. \A b \in Requests : Issued(b)' = Issued(b)
        BY <1>1 DEF Issued
  <2> QED BY <2>1
<1>9. code[r] \notin [b \in Requests |-> {k \in used[b] : ~Held(b, k)}][arg[r]]
      BY <1>2, <1>5
<1>10. PICK u \in Users, b \in Requests, k \in Codes :
         u = acct[r] /\ b = arg[r] /\ k = code[r]
       BY <1>2
<1>11. Book!Admit(r, u, b, k)
       BY <1>1, <1>3, <1>4, <1>6, <1>7, <1>8, <1>9, <1>10 DEF Book!Admit
<1> QED BY <1>11 DEF Book!Next

\* The rows of totp_recovery_codes, replaced by interleaved transactions and
\* marked by logins suspended since they read them (186-195), implement the
\* promises of CodeBook.
THEOREM BookImplemented == Spec => ImplementsBook
<1>1. Init => Book!Init
  <2> SUFFICES ASSUME Init PROVE Book!Init
      OBVIOUS
  <2>1. [b \in Requests |-> Issued(b)] = [b \in Requests |-> FALSE]
    <3>1. \A b \in Requests : Issued(b) = FALSE
          BY DEF Init, Issued
    <3> QED BY <3>1
  <2>2. [b \in Requests |-> {k \in used[b] : ~Held(b, k)}] = [b \in Requests |-> {}]
        BY DEF Init
  <2>3. {s \in Requests : Admitted(s)} = {}
        BY DEF Init, Admitted
  <2>4. {<<r, acct[r], arg[r], code[r]>> : r \in {s \in Requests : Admitted(s)}} = {}
        BY <2>3
  <2> QED BY <2>1, <2>2, <2>4 DEF Init, Book!Init
<1>2. TwoFactorInv /\ TwoFactorInv' /\ [Next]_vars => [Book!Next]_(Book!vars)
  <2> SUFFICES ASSUME TwoFactorInv, TwoFactorInv', [Next]_vars PROVE Book!Next
      OBVIOUS
  <2>1. ASSUME NEW r \in Requests, Arrive(r) PROVE Book!Next
    <3>1. PICK u \in Users, l \in Labels : Arrival(r, u, l)
          BY <2>1, ArriveIsArrival DEF TwoFactorInv
    <3>2. /\ UNCHANGED <<batchOf, used>> /\ pc[r] = "idle" /\ pc'[r] = l
          /\ l \notin {"confirmed", "regenerated", "spend"}
          /\ l = "admitted" => arg'[r] = NoRow
          BY <3>1 DEF Arrival, TwoFactorInv, TypeOK
    <3>3. \A s \in Requests \ {r} : UNCHANGED <<pc[s], acct[s], arg[s], code[s]>>
          BY <3>1 DEF Arrival, TwoFactorInv, TypeOK
    <3> QED BY <3>2, <3>3, BookRests DEF Issued, Admitted
  <2>2. ASSUME NEW r \in Requests, Continue(r) PROVE Book!Next
    <3>1. CASE ConfirmCommit(r) \/ RegenerateCommit(r)
          BY <3>1, BookHandsOut DEF ConfirmCommit, RegenerateCommit, Goto, Handed
    <3>2. CASE DisableCommit(r)
          BY <3>2, BookWithdraws
    <3>3. CASE SpendCode(r) /\ batchOf[arg[r]] # NoUser
          BY <3>3, BookAdmits
    <3>4. CASE \/ SetupWrite(r) \/ ConfirmSweep(r) \/ DisableSweep(r) \/ RegenerateSweep(r)
               \/ FindCode(r) \/ (SpendCode(r) /\ batchOf[arg[r]] = NoUser)
      <4>1. UNCHANGED <<batchOf, used, acct, arg, code>>
            BY <3>4 DEF SetupWrite, ConfirmSweep, DisableSweep, RegenerateSweep, FindCode,
               SpendCode, account, rows, call
      <4>2. \A s \in Requests \ {r} : pc'[s] = pc[s]
            BY <3>4 DEF SetupWrite, ConfirmSweep, DisableSweep, RegenerateSweep, FindCode,
               SpendCode, Goto, TwoFactorInv, TypeOK
      <4>3. /\ pc[r] \in {"generate", "activate", "disable", "regenerate", "find", "spend"}
            /\ pc'[r] \in {"shown", "activateCommit", "disableCommit", "regenerateCommit",
                           "spend", "denied"}
            BY <3>4 DEF SetupWrite, ConfirmSweep, DisableSweep, RegenerateSweep, FindCode,
               SpendCode, Goto, TwoFactorInv, TypeOK
      <4>4. pc'[r] = "spend" => code[r] \notin used[arg[r]]
            BY <3>4 DEF SetupWrite, ConfirmSweep, DisableSweep, RegenerateSweep, FindCode,
               SpendCode, Goto, TwoFactorInv, TypeOK
      <4>5. \A s \in Requests :
              /\ (Issued(s)' <=> Issued(s)) /\ (Admitted(s)' <=> Admitted(s))
              /\ pc'[s] = "spend" => pc[s] = "spend" \/ code[s] \notin used[arg[s]]
            BY <4>1, <4>2, <4>3, <4>4 DEF Issued, Admitted
      <4> QED BY <4>1, <4>5, BookRests
    <3> QED BY <2>2, <3>1, <3>2, <3>3, <3>4 DEF Continue
  <2>3. CASE Crash \/ UNCHANGED vars
    <3>1. UNCHANGED <<batchOf, used, acct, arg, code>>
          BY <2>3 DEF Crash, vars, account, rows, call
    <3>2. \A s \in Requests : pc'[s] = pc[s] \/ (InFlight(s) /\ pc'[s] = "crashed")
          BY <2>3 DEF Crash, vars
    <3>3. \A s \in Requests :
            /\ (Issued(s)' <=> Issued(s)) /\ (Admitted(s)' <=> Admitted(s))
            /\ pc'[s] = "spend" => pc[s] = "spend"
          BY <3>1, <3>2 DEF Issued, Admitted, InFlight, Answered
    <3> QED BY <3>1, <3>3, BookRests
  <2> QED BY <2>1, <2>2, <2>3 DEF Next
<1> QED BY <1>1, <1>2, TwoFactorSafe, PTL DEF Spec, ImplementsBook, Book!Spec
=============================================================================
