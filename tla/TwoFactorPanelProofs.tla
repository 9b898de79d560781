------------------------ MODULE TwoFactorPanelProofs ------------------------
(* Theorems about TwoFactorPanel, for every set of tabs, accounts and calls. *)
EXTENDS TwoFactorPanel, TwoFactorProofs

-----------------------------------------------------------------------------
(* The panel is one client of the backend                                    *)

\* Every step of the panel's system is a step of TwoFactor, or none of it.
LEMMA PanelStepIsAStep == [PanelNext]_panelVars => [Next]_vars
<1> SUFFICES ASSUME [PanelNext]_panelVars PROVE [Next]_vars
    OBVIOUS
<1>1. CASE UNCHANGED panelVars
      BY <1>1 DEF panelVars
<1>2. ASSUME NEW t \in Tabs, Click(t) PROVE [Next]_vars
  <2>1. Owner[t] \in Users
        BY PanelAssumption
  <2>2. CASE Load(t) \/ Saved(t)
        BY <2>2 DEF Load, Saved
  <2>3. ASSUME NEW r \in Requests, StartSetup(t, r) PROVE Next
        BY <2>1, <2>3 DEF StartSetup, Next, Arrive
  <2>4. ASSUME NEW r \in Requests, NEW s \in Requests, ConfirmSetup(t, r, s) PROVE Next
        BY <2>1, <2>4 DEF ConfirmSetup, Next, Arrive
  <2>5. ASSUME NEW r \in Requests, NEW ok \in BOOLEAN, HandleDisable(t, r, ok) PROVE Next
        BY <2>1, <2>5 DEF HandleDisable, Next, Arrive
  <2> QED BY <1>2, <2>2, <2>3, <2>4, <2>5 DEF Click
<1>3. ASSUME NEW t \in Tabs, Answer(t) \/ Lose(t) PROVE UNCHANGED vars
      BY <1>3 DEF Answer, Freed, Lose
<1>4. ASSUME NEW r \in Requests, Serve(r) \/ Elsewhere(r) PROVE Next
      BY <1>4 DEF Serve, Elsewhere, Next
<1>5. CASE Die
      BY <1>5 DEF Die, Next
<1> QED BY <1>1, <1>2, <1>3, <1>4, <1>5 DEF PanelNext

\* The panel's system is one of the systems TwoFactor describes: what is
\* proved of the backend holds behind every panel.
THEOREM PanelIsAClient == PanelSpec => Spec
<1>1. PanelInit => Init
      BY DEF PanelInit
<1> QED BY <1>1, PanelStepIsAStep, PTL DEF PanelSpec, Spec

\* ImplementsBook, behind every panel: the codes keep CodeBook's promises
\* whatever the tabs click, miss and forget.
THEOREM BookBehindThePanel == PanelSpec => ImplementsBook
BY PanelIsAClient, BookImplemented

-----------------------------------------------------------------------------
(* What the steps of the backend do                                          *)

\* A suspended call moves on: the account changes only where a setup, a
\* confirmation or a disable ends.
LEMMA ContinueEffect ==
  ASSUME TypeOK, CallShape, NEW r \in Requests, Continue(r)
  PROVE  /\ InFlight(r) /\ acct' = acct /\ acct[r] \in Users
         /\ \A s \in Requests \ {r} : pc'[s] = pc[s]
         /\ \/ pc[r] = "generate" /\ pc'[r] = "shown"
            \/ pc[r] = "activate" /\ pc'[r] = "activateCommit"
            \/ pc[r] = "activateCommit" /\ pc'[r] = "confirmed"
            \/ pc[r] = "disable" /\ pc'[r] = "disableCommit"
            \/ pc[r] = "disableCommit" /\ pc'[r] = "disabled"
            \/ /\ pc[r] \in {"regenerate", "regenerateCommit", "find", "spend"}
               /\ pc'[r] \notin Told
         /\ pc'[r] = "shown" => secret'[acct[r]] = r /\ enabled' = enabled
         /\ pc'[r] = "confirmed" => enabled'[acct[r]] /\ secret' = secret
         /\ pc'[r] = "disabled" => ~enabled'[acct[r]]
         /\ pc'[r] \notin Told => UNCHANGED account
<1> USE DEF Goto, InFlight, Answered, account, rows, call, Told
<1>0. acct[r] \in Users \/ pc[r] = "idle"
      BY DEF CallShape
<1>1. CASE SetupWrite(r)
      BY <1>0, <1>1 DEF SetupWrite, TypeOK
<1>2. CASE ConfirmSweep(r)
      BY <1>0, <1>2 DEF ConfirmSweep, TypeOK
<1>3. CASE ConfirmCommit(r)
      BY <1>0, <1>3 DEF ConfirmCommit, TypeOK
<1>4. CASE DisableSweep(r)
      BY <1>0, <1>4 DEF DisableSweep, TypeOK
<1>5. CASE DisableCommit(r)
      BY <1>0, <1>5 DEF DisableCommit, TypeOK
<1>6. CASE RegenerateSweep(r) \/ RegenerateCommit(r)
      BY <1>0, <1>6 DEF RegenerateSweep, RegenerateCommit, TypeOK
<1>7. CASE FindCode(r) \/ SpendCode(r)
      BY <1>0, <1>7 DEF FindCode, SpendCode, TypeOK
<1> QED BY <1>1, <1>2, <1>3, <1>4, <1>5, <1>6, <1>7 DEF Continue

\* What it does to the codes: a batch appears with its activation, and leaves
\* the table only when a call that has chosen it ends.
LEMMA ContinueRows ==
  ASSUME TypeOK, NEW r \in Requests, Continue(r)
  PROVE  /\ \A s \in Requests \ {r} : seen'[s] = seen[s]
         /\ pc'[r] = "confirmed" => batchOf'[r] = acct[r]
         /\ \A b \in Requests \ {r} :
              \/ batchOf'[b] = batchOf[b]
              \/ b \in seen'[r] /\ pc'[r] \in Replaced
<1> USE DEF Goto, account, rows, call, Replaced
<1>1. CASE SetupWrite(r)
      BY <1>1 DEF SetupWrite, TypeOK
<1>2. CASE ConfirmSweep(r)
      BY <1>2 DEF ConfirmSweep, Choose, TypeOK
<1>3. CASE ConfirmCommit(r)
      BY <1>3 DEF ConfirmCommit, Replace, TypeOK
<1>4. CASE DisableSweep(r)
      BY <1>4 DEF DisableSweep, Choose, TypeOK
<1>5. CASE DisableCommit(r)
      BY <1>5 DEF DisableCommit, TypeOK
<1>6. CASE RegenerateSweep(r)
      BY <1>6 DEF RegenerateSweep, Choose, TypeOK
<1>7. CASE RegenerateCommit(r)
      BY <1>7 DEF RegenerateCommit, Replace, TypeOK
<1>8. CASE FindCode(r)
      BY <1>8 DEF FindCode, TypeOK
<1>9. CASE SpendCode(r)
      BY <1>9 DEF SpendCode, TypeOK
<1> QED BY <1>1, <1>2, <1>3, <1>4, <1>5, <1>6, <1>7, <1>8, <1>9 DEF Continue

-----------------------------------------------------------------------------
(* The parts of the invariant                                                *)

\* The codes of an activation stay in the table until a call that chose them
\* ends, whatever the backend does next.
LEMMA ActivationsStep ==
  ASSUME TwoFactorInv, ActivationsLeaveCodes, [Next]_vars
  PROVE  ActivationsLeaveCodes'
<1> USE DEF Replaced
<1>1. CASE UNCHANGED vars
      BY <1>1 DEF vars, rows, call, ActivationsLeaveCodes
<1>2. ASSUME NEW r \in Requests, Arrive(r) PROVE ActivationsLeaveCodes'
  <2>1. PICK u \in Users, l \in Labels : Arrival(r, u, l)
        BY <1>2, ArriveIsArrival DEF TwoFactorInv
  <2>2. \A s \in Requests \ {r} : pc'[s] = pc[s] /\ acct'[s] = acct[s]
        BY <2>1 DEF Arrival, TwoFactorInv, TypeOK
  <2>3. pc[r] = "idle" /\ pc'[r] \notin Replaced /\ UNCHANGED <<batchOf, seen>>
        BY <2>1 DEF Arrival, TwoFactorInv, TypeOK
  <2> QED BY <2>2, <2>3 DEF ActivationsLeaveCodes
<1>3. ASSUME NEW r \in Requests, Continue(r) PROVE ActivationsLeaveCodes'
  <2>1. /\ InFlight(r) /\ acct' = acct
        /\ \A s \in Requests \ {r} : pc'[s] = pc[s]
        BY <1>3, ContinueEffect DEF TwoFactorInv
  <2>2. /\ \A s \in Requests \ {r} : seen'[s] = seen[s]
        /\ pc'[r] = "confirmed" => batchOf'[r] = acct[r]
        /\ \A b \in Requests \ {r} :
             \/ batchOf'[b] = batchOf[b]
             \/ b \in seen'[r] /\ pc'[r] \in Replaced
        BY <1>3, ContinueRows DEF TwoFactorInv
  <2>3. pc[r] \notin Replaced
        BY <2>1 DEF InFlight, Answered
  <2> SUFFICES ASSUME NEW b \in Requests, pc'[b] = "confirmed", b # r
               PROVE  \/ batchOf'[b] = acct'[b]
                      \/ \E s \in Requests : b \in seen'[s] /\ pc'[s] \in Replaced
      BY <2>1, <2>2 DEF ActivationsLeaveCodes
  <2>4. CASE batchOf[b] = acct[b]
        BY <2>1, <2>2, <2>4
  <2>5. CASE \E s \in Requests : b \in seen[s] /\ pc[s] \in Replaced
        BY <2>1, <2>2, <2>3, <2>5
  <2> QED BY <2>1, <2>4, <2>5 DEF ActivationsLeaveCodes
<1>4. CASE Crash
  <2>1. \A s \in Requests : pc'[s] = IF InFlight(s) THEN "crashed" ELSE pc[s]
        BY <1>4 DEF Crash
  <2>2. \A s \in Requests : pc'[s] \in Replaced <=> pc[s] \in Replaced
        BY <2>1 DEF InFlight, Answered
  <2>3. \A s \in Requests : pc'[s] = "confirmed" => pc[s] = "confirmed"
        BY <2>1
  <2>4. UNCHANGED <<batchOf, seen, acct>>
        BY <1>4 DEF Crash, rows, call
  <2> QED BY <2>2, <2>3, <2>4 DEF ActivationsLeaveCodes
<1> QED BY <1>1, <1>2, <1>3, <1>4 DEF Next

\* The panel has just been opened, and no call has arrived.
LEMMA PanelInvInit == PanelInit => PanelInv
<1> SUFFICES ASSUME PanelInit PROVE PanelInv
    OBVIOUS
<1>1. TwoFactorInv
      BY InvInit DEF PanelInit
<1>2. PanelTypeOK
      BY DEF PanelInit, PanelTypeOK, SetupStates
<1>3. AwaitedCalls /\ FacesAreWhole
      BY DEF PanelInit, AwaitedCalls, FacesAreWhole
<1>4. AnswersAreTrue
      BY PanelAssumption DEF PanelInit, Init, AnswersAreTrue, InStep
<1>5. ActivationsLeaveCodes
      BY DEF PanelInit, Init, ActivationsLeaveCodes
<1> QED BY <1>1, <1>2, <1>3, <1>4, <1>5 DEF PanelInv

\* A step of the backend leaves a panel in step, or marks that it missed it.
LEMMA ServeStep ==
  ASSUME PanelInv, NEW r \in Requests, Serve(r)
  PROVE  PanelTypeOK' /\ AwaitedCalls' /\ AnswersAreTrue' /\ FacesAreWhole'
<1>1. /\ InFlight(r) /\ acct' = acct /\ acct[r] \in Users
      /\ \A s \in Requests \ {r} : pc'[s] = pc[s]
      /\ \/ pc[r] = "generate" /\ pc'[r] = "shown"
         \/ pc[r] = "activate" /\ pc'[r] = "activateCommit"
         \/ pc[r] = "activateCommit" /\ pc'[r] = "confirmed"
         \/ pc[r] = "disable" /\ pc'[r] = "disableCommit"
         \/ pc[r] = "disableCommit" /\ pc'[r] = "disabled"
         \/ /\ pc[r] \in {"regenerate", "regenerateCommit", "find", "spend"}
            /\ pc'[r] \notin Told
      /\ pc'[r] = "shown" => secret'[acct[r]] = r /\ enabled' = enabled
      /\ pc'[r] = "confirmed" => enabled'[acct[r]] /\ secret' = secret
      /\ pc'[r] = "disabled" => ~enabled'[acct[r]]
      /\ pc'[r] \notin Told => UNCHANGED account
      BY ContinueEffect DEF Serve, PanelInv, TwoFactorInv
<1>2. /\ UNCHANGED <<says, step, qr, codes, waits>>
      /\ \A t \in Tabs :
           missed'[t] = (missed[t] \/ (waits[t] # r /\ Changes(Owner[t])))
      BY DEF Serve, shown
<1>3. PanelTypeOK'
  <2>1. missed' \in [Tabs -> BOOLEAN]
        BY DEF Serve
  <2> QED BY <1>2, <2>1 DEF PanelInv, PanelTypeOK
<1>4. AwaitedCalls'
  <2> SUFFICES ASSUME NEW t \in Tabs, waits[t] # NoRow, waits[t] = r
               PROVE  \/ step[t] = "idle" /\ pc'[r] \in {"shown", "disableCommit", "disabled"}
                      \/ step[t] = "scanning" /\ pc'[r] \in {"activateCommit", "confirmed"}
      BY <1>1, <1>2 DEF PanelInv, PanelTypeOK, AwaitedCalls
  <2>1. \/ step[t] = "idle" /\ pc[r] \in {"generate", "disable", "disableCommit"}
        \/ step[t] = "scanning" /\ pc[r] \in {"activate", "activateCommit"}
        BY <1>1 DEF PanelInv, AwaitedCalls, InFlight, Answered
  <2> QED BY <1>1, <2>1
<1>5. AnswersAreTrue'
  <2> SUFFICES ASSUME NEW t \in Tabs, ~missed'[t]
               PROVE  IF waits[t] = NoRow THEN InStep(t)' ELSE AnswerIsTrue(t, waits[t])'
      BY <1>2 DEF AnswersAreTrue
  <2>1. /\ ~missed[t]
        /\ waits[t] # r => enabled'[Owner[t]] = enabled[Owner[t]] /\ secret'[Owner[t]] = secret[Owner[t]]
        BY <1>2 DEF Changes
  <2>2. CASE waits[t] = NoRow
    <3>1. InStep(t) /\ waits[t] # r
          BY <2>1, <2>2, TwoFactorAssumption DEF PanelInv, AnswersAreTrue
    <3> QED BY <1>2, <2>1, <2>2, <3>1 DEF InStep
  <2>3. CASE waits[t] # NoRow /\ waits[t] # r
    <3>1. AnswerIsTrue(t, waits[t]) /\ waits[t] \in Requests
          BY <2>1, <2>3 DEF PanelInv, PanelTypeOK, AnswersAreTrue
    <3>2. pc'[waits[t]] = pc[waits[t]]
          BY <1>1, <2>3, <3>1
    <3>3. AnswerIsTrue(t, waits[t])'
          BY <1>2, <2>1, <2>3, <3>1, <3>2 DEF AnswerIsTrue, InStep
    <3> QED BY <2>3, <3>3
  <2>4. CASE waits[t] = r
    <3>1. AnswerIsTrue(t, r) /\ acct[r] = Owner[t]
          BY <2>1, <2>4, TwoFactorAssumption DEF PanelInv, AnswersAreTrue, AwaitedCalls
    <3>2. InStep(t)
          BY <1>1, <3>1 DEF AnswerIsTrue, InFlight, Answered, Told
    <3>3. AnswerIsTrue(t, r)'
          BY <1>1, <1>2, <3>1, <3>2 DEF AnswerIsTrue, InStep, Told, account
    <3> QED BY <1>2, <2>4, <3>3, TwoFactorAssumption
  <2> QED BY <2>2, <2>3, <2>4
<1>6. FacesAreWhole'
      BY <1>1, <1>2 DEF PanelInv, PanelTypeOK, FacesAreWhole, InFlight, Answered
<1> QED BY <1>3, <1>4, <1>5, <1>6

\* A call of another client, and a crash, change neither accounts nor panels.
LEMMA QuietBackend ==
  ASSUME PanelInv, UNCHANGED <<account, panel>>,
         \A s \in Requests :
           \/ pc'[s] = pc[s] /\ acct'[s] = acct[s]
           \/ pc[s] = "idle"
           \/ InFlight(s) /\ pc'[s] = "crashed" /\ acct'[s] = acct[s]
  PROVE  PanelTypeOK' /\ AwaitedCalls' /\ AnswersAreTrue' /\ FacesAreWhole'
<1>1. UNCHANGED <<enabled, secret, says, step, qr, codes, waits, missed>>
      BY DEF account, panel, shown
<1>2. PanelTypeOK'
      BY <1>1 DEF PanelInv, PanelTypeOK
<1>3. ASSUME NEW t \in Tabs, waits[t] # NoRow
      PROVE  /\ waits[t] \in Requests /\ acct'[waits[t]] = acct[waits[t]]
             /\ \/ pc'[waits[t]] = pc[waits[t]]
                \/ InFlight(waits[t]) /\ pc'[waits[t]] = "crashed"
      BY <1>3 DEF PanelInv, PanelTypeOK, AwaitedCalls
<1>4. AwaitedCalls'
      BY <1>1, <1>3 DEF PanelInv, AwaitedCalls
<1>5. AnswersAreTrue'
  <2> SUFFICES ASSUME NEW t \in Tabs, ~missed[t], waits[t] # NoRow
               PROVE  AnswerIsTrue(t, waits[t])'
      BY <1>1 DEF PanelInv, AnswersAreTrue, InStep
  <2>1. AnswerIsTrue(t, waits[t])
        BY DEF PanelInv, AnswersAreTrue
  <2> QED BY <1>1, <1>3, <2>1 DEF AnswerIsTrue, InStep, InFlight, Answered, Told
<1>6. FacesAreWhole'
      BY <1>1 DEF PanelInv, PanelTypeOK, FacesAreWhole, InFlight, Answered
<1> QED BY <1>2, <1>4, <1>5, <1>6

\* A click that sends a call: the account stays as it is, and the answer can
\* only tell of it once the call has moved on.
LEMMA SendStep ==
  ASSUME PanelInv, NEW t \in Tabs, NEW r \in Requests,
         NEW face \in {"inactive", "scan", "active"},
         NEW l \in {"generate", "activate", "disable", "denied"},
         face = "inactive" => l \in {"generate", "denied"},
         face = "scan" => l \in {"activate", "denied"},
         face = "active" => l \in {"disable", "denied"},
         Sends(t, r, face), pc[r] = "idle",
         pc' = [pc EXCEPT ![r] = l], acct' = [acct EXCEPT ![r] = Owner[t]],
         UNCHANGED <<enabled, secret>>
  PROVE  PanelTypeOK' /\ AwaitedCalls' /\ AnswersAreTrue' /\ FacesAreWhole'
<1>1. /\ UNCHANGED <<says, step, qr, codes, missed>>
      /\ waits' = [waits EXCEPT ![t] = r] /\ waits[t] = NoRow
      BY DEF Sends, shown
<1>2. /\ pc'[r] = l /\ acct'[r] = Owner[t]
      /\ \A s \in Requests \ {r} : pc'[s] = pc[s] /\ acct'[s] = acct[s]
      BY DEF PanelInv, TwoFactorInv, TypeOK
<1>3. PanelTypeOK'
  <2>1. waits' \in [Tabs -> Requests \cup {NoRow}]
        BY <1>1 DEF PanelInv, PanelTypeOK
  <2> QED BY <1>1, <2>1 DEF PanelInv, PanelTypeOK
<1>4. waits'[t] = r /\ r # NoRow /\ \A v \in Tabs \ {t} : waits'[v] = waits[v]
      BY <1>1, TwoFactorAssumption DEF PanelInv, PanelTypeOK
<1>5. \A v \in Tabs : waits[v] # r
      BY <1>4 DEF PanelInv, AwaitedCalls
<1>6. step[t] = IF face = "scan" THEN "scanning" ELSE "idle"
  <2>1. Screen(t) = face
        BY DEF Sends
  <2>2. step[t] \in SetupStates /\ (step[t] = "scanning" => qr[t] # NoRow)
                /\ (step[t] = "showing-recovery-codes" => codes[t] # NoRow)
        BY DEF PanelInv, PanelTypeOK, FacesAreWhole
  <2>3. CASE step[t] = "showing-recovery-codes"
        BY <2>1, <2>2, <2>3 DEF Screen
  <2>4. CASE step[t] = "scanning"
        BY <2>1, <2>2, <2>4 DEF Screen
  <2>5. CASE step[t] = "idle" /\ says[t]
        BY <2>1, <2>5 DEF Screen
  <2>6. CASE step[t] = "idle" /\ ~says[t]
        BY <2>1, <2>6 DEF Screen
  <2> QED BY <2>2, <2>3, <2>4, <2>5, <2>6 DEF SetupStates
<1>7. AwaitedCalls'
      BY <1>1, <1>2, <1>4, <1>5, <1>6 DEF PanelInv, PanelTypeOK, AwaitedCalls
<1>8. AnswersAreTrue'
  <2> SUFFICES ASSUME NEW v \in Tabs, ~missed[v]
               PROVE  IF waits'[v] = NoRow THEN InStep(v)' ELSE AnswerIsTrue(v, waits[v])'
      BY <1>1 DEF AnswersAreTrue
  <2>1. InStep(v)' <=> InStep(v)
        BY <1>1 DEF InStep
  <2>2. CASE v = t
    <3>1. InStep(t)
          BY <1>1, <2>2 DEF PanelInv, AnswersAreTrue
    <3> QED BY <1>2, <1>4, <2>1, <2>2, <3>1 DEF AnswerIsTrue, Told
  <2>3. CASE v # t /\ waits[v] = NoRow
        BY <1>4, <2>1, <2>3 DEF PanelInv, AnswersAreTrue
  <2>4. CASE v # t /\ waits[v] # NoRow
    <3>1. AnswerIsTrue(v, waits[v]) /\ pc'[waits[v]] = pc[waits[v]]
          BY <1>2, <1>5, <2>4 DEF PanelInv, PanelTypeOK, AnswersAreTrue
    <3> QED BY <1>1, <1>4, <2>1, <2>4, <3>1 DEF AnswerIsTrue
  <2> QED BY <2>2, <2>3, <2>4
<1>9. FacesAreWhole'
      BY <1>1, <1>2 DEF PanelInv, PanelTypeOK, FacesAreWhole
<1> QED BY <1>3, <1>7, <1>8, <1>9

\* A panel that is told, or leaves its codes, is the only one that changes.
LEMMA TabStep ==
  ASSUME PanelInv, NEW t \in Tabs, PanelTypeOK', UNCHANGED vars,
         waits'[t] = NoRow,
         \A v \in Tabs \ {t} :
           /\ says'[v] = says[v] /\ step'[v] = step[v] /\ qr'[v] = qr[v]
           /\ codes'[v] = codes[v] /\ waits'[v] = waits[v] /\ missed'[v] = missed[v],
         ~missed'[t] => says'[t] = enabled[Owner[t]],
         ~missed'[t] /\ step'[t] = "scanning" => qr'[t] = secret[Owner[t]],
         step'[t] = "scanning" => qr'[t] # NoRow,
         step'[t] = "showing-recovery-codes" => codes'[t] # NoRow,
         codes'[t] # NoRow => pc[codes'[t]] = "confirmed" /\ acct[codes'[t]] = Owner[t]
  PROVE  AwaitedCalls' /\ AnswersAreTrue' /\ FacesAreWhole'
<1>1. UNCHANGED <<enabled, secret, pc, acct>>
      BY DEF vars, account, call
<1>2. AwaitedCalls'
      BY <1>1 DEF PanelInv, AwaitedCalls
<1>3. AnswersAreTrue'
  <2> SUFFICES ASSUME NEW v \in Tabs, ~missed'[v]
               PROVE  IF waits'[v] = NoRow THEN InStep(v)' ELSE AnswerIsTrue(v, waits[v])'
      BY DEF AnswersAreTrue
  <2>1. CASE v = t
        BY <1>1, <2>1 DEF InStep
  <2>2. CASE v # t
    <3>1. IF waits[v] = NoRow THEN InStep(v) ELSE AnswerIsTrue(v, waits[v])
          BY <2>2 DEF PanelInv, AnswersAreTrue
    <3>2. InStep(v)' <=> InStep(v)
          BY <1>1, <2>2 DEF InStep
    <3>3. AnswerIsTrue(v, waits[v])' <=> AnswerIsTrue(v, waits[v])
          BY <1>1, <2>2, <3>2 DEF AnswerIsTrue
    <3> QED BY <2>2, <3>1, <3>2, <3>3
  <2> QED BY <2>1, <2>2
<1>4. FacesAreWhole'
      BY <1>1 DEF PanelInv, FacesAreWhole
<1> QED BY <1>2, <1>3, <1>4

\* Opening the page brings the panel in step.
LEMMA LoadStep ==
  ASSUME PanelInv, NEW t \in Tabs, Load(t)
  PROVE  PanelTypeOK' /\ AwaitedCalls' /\ AnswersAreTrue' /\ FacesAreWhole'
<1>1. enabled[Owner[t]] \in BOOLEAN
      BY PanelAssumption DEF PanelInv, TwoFactorInv, TypeOK
<1>2. PanelTypeOK'
      BY <1>1 DEF Load, PanelInv, PanelTypeOK, SetupStates
<1>3. /\ says'[t] = enabled[Owner[t]] /\ step'[t] = "idle"
      /\ codes'[t] = NoRow /\ waits'[t] = NoRow
      BY DEF Load, PanelInv, PanelTypeOK
<1>4. \A v \in Tabs \ {t} :
        /\ says'[v] = says[v] /\ step'[v] = step[v] /\ qr'[v] = qr[v]
        /\ codes'[v] = codes[v] /\ waits'[v] = waits[v] /\ missed'[v] = missed[v]
      BY DEF Load, PanelInv, PanelTypeOK
<1>5. UNCHANGED vars
      BY DEF Load
<1>6. AwaitedCalls' /\ AnswersAreTrue' /\ FacesAreWhole'
      BY <1>2, <1>3, <1>4, <1>5, TabStep
<1> QED BY <1>2, <1>6

\* "Ya los guardé" only puts the codes away; no call is awaited meanwhile.
LEMMA SavedStep ==
  ASSUME PanelInv, NEW t \in Tabs, Saved(t)
  PROVE  PanelTypeOK' /\ AwaitedCalls' /\ AnswersAreTrue' /\ FacesAreWhole'
<1>1. UNCHANGED <<says, qr, codes, waits, missed>> /\ UNCHANGED vars
      BY DEF Saved
<1>2. PanelTypeOK' /\ step'[t] = "idle" /\ \A v \in Tabs \ {t} : step'[v] = step[v]
      BY <1>1 DEF Saved, PanelInv, PanelTypeOK, SetupStates
<1>3. step[t] = "showing-recovery-codes"
      BY DEF Saved, Screen
<1>4. UNCHANGED <<enabled, secret, pc, acct>>
      BY <1>1 DEF vars, account, call
<1>5. AwaitedCalls' /\ FacesAreWhole'
      BY <1>1, <1>2, <1>3, <1>4 DEF PanelInv, AwaitedCalls, FacesAreWhole
<1>6. \A v \in Tabs : InStep(v) => InStep(v)'
      BY <1>1, <1>2, <1>4 DEF InStep
<1>7. \A v \in Tabs : AnswerIsTrue(v, waits[v]) => AnswerIsTrue(v, waits[v])'
      BY <1>1, <1>4, <1>6 DEF AnswerIsTrue
<1>8. AnswersAreTrue'
      BY <1>1, <1>6, <1>7 DEF PanelInv, AnswersAreTrue
<1> QED BY <1>2, <1>5, <1>8

\* An answer tells the panel the truth, and a refusal leaves it as it was.
LEMMA AnswerStep ==
  ASSUME PanelInv, NEW t \in Tabs, Answer(t)
  PROVE  PanelTypeOK' /\ AwaitedCalls' /\ AnswersAreTrue' /\ FacesAreWhole'
<1>1. /\ waits[t] \in Requests /\ waits[t] # NoRow /\ UNCHANGED <<vars, missed>>
      /\ waits' = [waits EXCEPT ![t] = NoRow]
      BY DEF Answer, Freed, PanelInv, PanelTypeOK
<1>2. waits' \in [Tabs -> Requests \cup {NoRow}] /\ waits'[t] = NoRow
      BY <1>1 DEF PanelInv, PanelTypeOK
<1>3. \A v \in Tabs \ {t} : waits'[v] = waits[v]
      BY <1>1 DEF PanelInv, PanelTypeOK
<1>4. ~missed[t] => AnswerIsTrue(t, waits[t])
      BY <1>1 DEF PanelInv, AnswersAreTrue
<1>5. acct[waits[t]] = Owner[t]
      BY <1>1 DEF PanelInv, AwaitedCalls
<1>6. CASE SetupAnswered(t)
  <2>1. /\ PanelTypeOK' /\ UNCHANGED <<says, codes>>
        /\ step'[t] = "scanning" /\ qr'[t] = waits[t]
        /\ \A v \in Tabs \ {t} : step'[v] = step[v] /\ qr'[v] = qr[v]
        BY <1>1, <1>2, <1>6 DEF SetupAnswered, PanelInv, PanelTypeOK, SetupStates
  <2>2. ~missed[t] => says[t] = enabled[Owner[t]] /\ secret[Owner[t]] = waits[t]
        BY <1>4, <1>6 DEF AnswerIsTrue, SetupAnswered
  <2>3. codes[t] # NoRow => pc[codes[t]] = "confirmed" /\ acct[codes[t]] = Owner[t]
        BY DEF PanelInv, FacesAreWhole
  <2>4. AwaitedCalls' /\ AnswersAreTrue' /\ FacesAreWhole'
        BY <1>1, <1>2, <1>3, <2>1, <2>2, <2>3, TabStep
  <2> QED BY <2>1, <2>4
<1>7. CASE ConfirmAnswered(t)
  <2>1. /\ PanelTypeOK' /\ UNCHANGED qr
        /\ step'[t] = "showing-recovery-codes" /\ codes'[t] = waits[t] /\ says'[t]
        BY <1>1, <1>2, <1>7 DEF ConfirmAnswered, PanelInv, PanelTypeOK, SetupStates
  <2>2. \A v \in Tabs \ {t} : step'[v] = step[v] /\ codes'[v] = codes[v] /\ says'[v] = says[v]
        BY <1>7 DEF ConfirmAnswered, PanelInv, PanelTypeOK
  <2>3. enabled[Owner[t]] \in BOOLEAN /\ says'[t] \in BOOLEAN
        BY <2>1, PanelAssumption DEF PanelInv, TwoFactorInv, TypeOK, PanelTypeOK
  <2>4. ~missed[t] => says'[t] = enabled[Owner[t]]
        BY <1>4, <1>7, <2>1, <2>3 DEF AnswerIsTrue, ConfirmAnswered
  <2>5. pc[codes'[t]] = "confirmed"
        BY <1>7, <2>1 DEF ConfirmAnswered
  <2>6. AwaitedCalls' /\ AnswersAreTrue' /\ FacesAreWhole'
        BY <1>1, <1>2, <1>3, <1>5, <2>1, <2>2, <2>4, <2>5, TabStep
  <2> QED BY <2>1, <2>6
<1>8. CASE DisableAnswered(t)
  <2>1. PanelTypeOK' /\ UNCHANGED <<step, qr, codes>> /\ ~says'[t]
        BY <1>1, <1>2, <1>8 DEF DisableAnswered, PanelInv, PanelTypeOK
  <2>2. \A v \in Tabs \ {t} : says'[v] = says[v]
        BY <1>8 DEF DisableAnswered, PanelInv, PanelTypeOK
  <2>3. enabled[Owner[t]] \in BOOLEAN /\ says'[t] \in BOOLEAN
        BY <2>1, PanelAssumption DEF PanelInv, TwoFactorInv, TypeOK, PanelTypeOK
  <2>4. ~missed[t] => says'[t] = enabled[Owner[t]]
        BY <1>4, <1>8, <2>1, <2>3 DEF AnswerIsTrue, DisableAnswered
  <2>5. step[t] = "idle"
        BY <1>1, <1>8 DEF DisableAnswered, PanelInv, AwaitedCalls
  <2>6. codes[t] # NoRow => pc[codes[t]] = "confirmed" /\ acct[codes[t]] = Owner[t]
        BY DEF PanelInv, FacesAreWhole
  <2>7. AwaitedCalls' /\ AnswersAreTrue' /\ FacesAreWhole'
        BY <1>1, <1>2, <1>3, <2>1, <2>2, <2>4, <2>5, <2>6, TabStep
  <2> QED BY <2>1, <2>7
<1>9. CASE Refused(t)
  <2>1. PanelTypeOK' /\ UNCHANGED <<says, step, qr, codes>>
        BY <1>1, <1>2, <1>9 DEF Refused, shown, PanelInv, PanelTypeOK
  <2>2. ~missed[t] => InStep(t)
        BY <1>4, <1>9 DEF AnswerIsTrue, Refused, Told
  <2>3. /\ step[t] = "scanning" => qr[t] # NoRow
        /\ step[t] = "showing-recovery-codes" => codes[t] # NoRow
        /\ codes[t] # NoRow => pc[codes[t]] = "confirmed" /\ acct[codes[t]] = Owner[t]
        BY DEF PanelInv, FacesAreWhole
  <2>4. AwaitedCalls' /\ AnswersAreTrue' /\ FacesAreWhole'
        BY <1>1, <1>2, <1>3, <2>1, <2>2, <2>3, TabStep DEF InStep
  <2> QED BY <2>1, <2>4
<1> QED BY <1>6, <1>7, <1>8, <1>9 DEF Answer

\* A lost answer leaves the panel as it was: wrong, and known to be, if the
\* call had changed the account.
LEMMA LoseStep ==
  ASSUME PanelInv, NEW t \in Tabs, Lose(t)
  PROVE  PanelTypeOK' /\ AwaitedCalls' /\ AnswersAreTrue' /\ FacesAreWhole'
<1>1. /\ waits[t] # NoRow /\ UNCHANGED vars /\ UNCHANGED <<says, step, qr, codes>>
      /\ waits' = [waits EXCEPT ![t] = NoRow]
      BY DEF Lose, shown
<1>2. /\ waits' \in [Tabs -> Requests \cup {NoRow}] /\ waits'[t] = NoRow
      /\ missed' \in [Tabs -> BOOLEAN]
      BY <1>1 DEF Lose, PanelInv, PanelTypeOK
<1>3. PanelTypeOK'
      BY <1>1, <1>2 DEF PanelInv, PanelTypeOK
<1>4. \A v \in Tabs \ {t} : waits'[v] = waits[v] /\ missed'[v] = missed[v]
      BY <1>1 DEF Lose, PanelInv, PanelTypeOK
<1>5. missed'[t] = (missed[t] \/ pc[waits[t]] \in Told)
      BY DEF Lose, PanelInv, PanelTypeOK
<1>6. ~missed'[t] => InStep(t)
      BY <1>1, <1>5 DEF PanelInv, AnswersAreTrue, AnswerIsTrue
<1>7. /\ step[t] = "scanning" => qr[t] # NoRow
      /\ step[t] = "showing-recovery-codes" => codes[t] # NoRow
      /\ codes[t] # NoRow => pc[codes[t]] = "confirmed" /\ acct[codes[t]] = Owner[t]
      BY DEF PanelInv, FacesAreWhole
<1>8. AwaitedCalls' /\ AnswersAreTrue' /\ FacesAreWhole'
      BY <1>1, <1>2, <1>3, <1>4, <1>6, <1>7, TabStep DEF InStep
<1> QED BY <1>3, <1>8

\* A click that sends a call has the effect SendStep is about.
LEMMA ClickStep ==
  ASSUME PanelInv, NEW t \in Tabs, Click(t)
  PROVE  PanelTypeOK' /\ AwaitedCalls' /\ AnswersAreTrue' /\ FacesAreWhole'
<1> USE DEF Begins, Goto, account
<1>1. CASE Load(t)
      BY <1>1, LoadStep
<1>2. CASE Saved(t)
      BY <1>2, SavedStep
<1>3. ASSUME NEW r \in Requests, StartSetup(t, r)
      PROVE  PanelTypeOK' /\ AwaitedCalls' /\ AnswersAreTrue' /\ FacesAreWhole'
  <2>1. PICK l \in {"generate", "denied"} : pc' = [pc EXCEPT ![r] = l]
        BY <1>3 DEF StartSetup, SetupRead
  <2>2. /\ Sends(t, r, "inactive") /\ pc[r] = "idle"
        /\ acct' = [acct EXCEPT ![r] = Owner[t]] /\ UNCHANGED <<enabled, secret>>
        BY <1>3 DEF StartSetup, SetupRead
  <2> QED BY <2>1, <2>2, SendStep
<1>4. ASSUME NEW r \in Requests, NEW s \in Requests, ConfirmSetup(t, r, s)
      PROVE  PanelTypeOK' /\ AwaitedCalls' /\ AnswersAreTrue' /\ FacesAreWhole'
  <2>1. PICK l \in {"activate", "denied"} : pc' = [pc EXCEPT ![r] = l]
        BY <1>4 DEF ConfirmSetup, ConfirmRead
  <2>2. /\ Sends(t, r, "scan") /\ pc[r] = "idle"
        /\ acct' = [acct EXCEPT ![r] = Owner[t]] /\ UNCHANGED <<enabled, secret>>
        BY <1>4 DEF ConfirmSetup, ConfirmRead
  <2> QED BY <2>1, <2>2, SendStep
<1>5. ASSUME NEW r \in Requests, NEW ok \in BOOLEAN, HandleDisable(t, r, ok)
      PROVE  PanelTypeOK' /\ AwaitedCalls' /\ AnswersAreTrue' /\ FacesAreWhole'
  <2>1. PICK l \in {"disable", "denied"} : pc' = [pc EXCEPT ![r] = l]
        BY <1>5 DEF HandleDisable, DisableRead
  <2>2. /\ Sends(t, r, "active") /\ pc[r] = "idle"
        /\ acct' = [acct EXCEPT ![r] = Owner[t]] /\ UNCHANGED <<enabled, secret>>
        BY <1>5 DEF HandleDisable, DisableRead
  <2> QED BY <2>1, <2>2, SendStep
<1> QED BY <1>1, <1>2, <1>3, <1>4, <1>5 DEF Click

\* The backend's parts come from PanelIsAClient's step, the panel's from the
\* lemma of each action.
LEMMA PanelStep == PanelInv /\ TwoFactorInv' /\ [PanelNext]_panelVars => PanelInv'
<1> SUFFICES ASSUME PanelInv, TwoFactorInv', [PanelNext]_panelVars PROVE PanelInv'
    OBVIOUS
<1> DEFINE Parts == PanelTypeOK' /\ AwaitedCalls' /\ AnswersAreTrue' /\ FacesAreWhole'
<1>1. ActivationsLeaveCodes'
      BY PanelStepIsAStep, ActivationsStep DEF PanelInv
<1>2. CASE UNCHANGED panelVars
  <2>1. UNCHANGED <<account, panel, pc, acct>>
        BY <1>2 DEF panelVars, vars, call
  <2>2. Parts
        BY <2>1, QuietBackend
  <2> QED BY <1>1, <2>2 DEF PanelInv
<1>3. ASSUME NEW t \in Tabs, Click(t) \/ Answer(t) \/ Lose(t) PROVE Parts
      BY <1>3, ClickStep, AnswerStep, LoseStep
<1>4. ASSUME NEW r \in Requests, Serve(r) PROVE Parts
      BY <1>4, ServeStep
<1>5. ASSUME NEW r \in Requests, Elsewhere(r) PROVE Parts
  <2>1. PICK u \in Users, l \in Labels : Arrival(r, u, l)
        BY <1>5, ArriveIsArrival DEF Elsewhere, PanelInv, TwoFactorInv
  <2>2. \A s \in Requests : (pc'[s] = pc[s] /\ acct'[s] = acct[s]) \/ pc[s] = "idle"
        BY <2>1 DEF Arrival, PanelInv, TwoFactorInv, TypeOK
  <2>3. UNCHANGED <<account, panel>>
        BY <2>1, <1>5 DEF Arrival, account, Elsewhere
  <2> QED BY <2>2, <2>3, QuietBackend
<1>6. CASE Die
  <2>1. \A s \in Requests :
          /\ acct'[s] = acct[s]
          /\ \/ pc'[s] = pc[s]
             \/ InFlight(s) /\ pc'[s] = "crashed"
        BY <1>6 DEF Die, Crash, call
  <2>2. UNCHANGED <<account, panel>>
        BY <1>6 DEF Die, Crash
  <2>3. Parts
        BY <2>1, <2>2, QuietBackend
  <2> QED BY <1>1, <2>3 DEF PanelInv
<1> QED BY <1>1, <1>2, <1>3, <1>4, <1>5, <1>6 DEF PanelNext, PanelInv

-----------------------------------------------------------------------------
(* Theorems                                                                  *)

\* PanelInv, the inductive invariant, holds of every behaviour.
THEOREM PanelSafe == PanelSpec => []PanelInv
<1>1. PanelInit => PanelInv
      BY PanelInvInit
<1>2. PanelSpec => []TwoFactorInv
      BY PanelIsAClient, TwoFactorSafe, PTL
<1> QED BY <1>1, <1>2, PanelStep, PTL DEF PanelSpec

\* PanelTypeOK: every variable of the panel keeps its type.
THEOREM PanelTypes == PanelSpec => []PanelTypeOK
<1>1. PanelInv => PanelTypeOK
      BY DEF PanelInv
<1> QED BY <1>1, PanelSafe, PTL

\* PanelAgrees: a panel that missed nothing and awaits nothing shows the
\* account as it is, and a QR code that can be confirmed.
THEOREM PanelsAgree == PanelSpec => []PanelAgrees
<1>1. PanelInv => PanelAgrees
      BY DEF PanelInv, AnswersAreTrue, PanelAgrees
<1> QED BY <1>1, PanelSafe, PTL

\* CodesOnScreenAreLive: recovery codes on a screen are in the table until a
\* call that ended later replaced them.
THEOREM CodesShownAreLive == PanelSpec => []CodesOnScreenAreLive
<1>1. ASSUME PanelInv PROVE CodesOnScreenAreLive
  <2> SUFFICES ASSUME NEW t \in Tabs, Screen(t) = "codes"
               PROVE  \/ batchOf[codes[t]] = Owner[t]
                      \/ \E r \in Requests : codes[t] \in seen[r] /\ pc[r] \in Replaced
      BY DEF CodesOnScreenAreLive, Replaced
  <2>1. codes[t] # NoRow
        BY DEF Screen
  <2>2. codes[t] \in Requests /\ pc[codes[t]] = "confirmed" /\ acct[codes[t]] = Owner[t]
        BY <1>1, <2>1 DEF PanelInv, PanelTypeOK, FacesAreWhole
  <2> QED BY <1>1, <2>2 DEF PanelInv, ActivationsLeaveCodes, Replaced
<1> QED BY <1>1, PanelSafe, PTL
=============================================================================
