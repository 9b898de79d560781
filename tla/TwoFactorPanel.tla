--------------------------- MODULE TwoFactorPanel ---------------------------
(***************************************************************************)
(* The two-factor panel of the account page, in the tabs of several        *)
(* browsers, over the calls of TwoFactor.  A tab keeps what React's state  *)
(* keeps, and learns of the account only by loading the page and by the    *)
(* answers of the calls it awaits.                                         *)
(*                                                                         *)
(* A click and the first read of the call it sends are one step: until the *)
(* call arrives the panel only waits, so nothing can tell them apart.  The *)
(* same goes for the page and its read of /auth/me.                        *)
(***************************************************************************)
EXTENDS TwoFactor

CONSTANTS
  Tabs,       \* the tabs with the page open
  Owner       \* Owner[t]: the account of the session in t's browser

ASSUME PanelAssumption == Owner \in [Tabs -> Users]

VARIABLES
  says,       \* enabled: what the panel takes totp_enabled for
  step,       \* setupState
  qr,         \* qrCodeDataUrl and secret: the setup they came from
  codes,      \* recoveryCodes: the activation they came from
  waits,      \* pending: the call whose answer is awaited
  missed      \* history: the account changed and the panel was not told

shown == <<says, step, qr, codes>>
panel == <<shown, waits, missed>>
panelVars == <<vars, panel>>

SetupStates == {"idle", "scanning", "showing-recovery-codes"}

PanelInit ==
  /\ Init
  /\ says = [t \in Tabs |-> FALSE]
  /\ step = [t \in Tabs |-> "idle"]
  /\ qr = [t \in Tabs |-> NoRow]
  /\ codes = [t \in Tabs |-> NoRow]
  /\ waits = [t \in Tabs |-> NoRow]
  /\ missed = [t \in Tabs |-> FALSE]

\* Which of its four faces the panel shows.
Screen(t) ==
  IF step[t] = "showing-recovery-codes" /\ codes[t] # NoRow THEN "codes"
  ELSE IF step[t] = "scanning" /\ qr[t] # NoRow THEN "scan"
  ELSE IF says[t] THEN "active" ELSE "inactive"

-----------------------------------------------------------------------------
(* The page                                                                *)

\* Mutant: initiallyEnabled is the secret, not totp_enabled.
LoadSecret(t) ==
  /\ says' = [says EXCEPT ![t] = secret[Owner[t]]]
  /\ step' = [step EXCEPT ![t] = "idle"]
  /\ qr' = [qr EXCEPT ![t] = NoRow]
  /\ codes' = [codes EXCEPT ![t] = NoRow]
  /\ waits' = [waits EXCEPT ![t] = NoRow]
  /\ missed' = [missed EXCEPT ![t] = FALSE]
  /\ UNCHANGED vars

\* The page is opened or reloaded: a new panel, with totp_enabled of /auth/me.
Load(t) ==
  /\ says' = [says EXCEPT ![t] = enabled[Owner[t]]]
  /\ step' = [step EXCEPT ![t] = "idle"]
  /\ qr' = [qr EXCEPT ![t] = NoRow]
  /\ codes' = [codes EXCEPT ![t] = NoRow]
  /\ waits' = [waits EXCEPT ![t] = NoRow]
  /\ missed' = [missed EXCEPT ![t] = FALSE]
  /\ UNCHANGED vars

\* A button that is not disabled sends call r.
Sends(t, r, face) ==
  /\ waits[t] = NoRow /\ Screen(t) = face
  /\ waits' = [waits EXCEPT ![t] = r]
  /\ UNCHANGED <<shown, missed>>

StartSetup(t, r) == Sends(t, r, "inactive") /\ SetupRead(r, Owner[t])

\* The code typed is one of the secrets the user has scanned, now or before.
ConfirmSetup(t, r, s) ==
  Sends(t, r, "scan") /\ Shown(s) /\ ConfirmRead(r, Owner[t], s)

HandleDisable(t, r, passwordOk) ==
  Sends(t, r, "active") /\ DisableRead(r, Owner[t], passwordOk)

\* "Ya los guardé"
Saved(t) ==
  /\ Screen(t) = "codes"
  /\ step' = [step EXCEPT ![t] = "idle"]
  /\ UNCHANGED <<vars, says, qr, codes, waits, missed>>

-----------------------------------------------------------------------------
(* Answers                                                                 *)

Freed(t) == waits' = [waits EXCEPT ![t] = NoRow] /\ UNCHANGED <<vars, missed>>

SetupAnswered(t) ==
  /\ pc[waits[t]] = "shown"
  /\ qr' = [qr EXCEPT ![t] = waits[t]]
  /\ step' = [step EXCEPT ![t] = "scanning"]
  /\ UNCHANGED <<says, codes>>

\* Mutant: the answer of a confirmation does not set enabled.
ConfirmAnsweredUnset(t) ==
  /\ pc[waits[t]] = "confirmed"
  /\ codes' = [codes EXCEPT ![t] = waits[t]]
  /\ step' = [step EXCEPT ![t] = "showing-recovery-codes"]
  /\ UNCHANGED <<says, qr>>

ConfirmAnswered(t) ==
  /\ pc[waits[t]] = "confirmed"
  /\ codes' = [codes EXCEPT ![t] = waits[t]]
  /\ step' = [step EXCEPT ![t] = "showing-recovery-codes"]
  /\ says' = [says EXCEPT ![t] = TRUE]
  /\ UNCHANGED qr

\* router.refresh() reads the page again, but the panel keeps its state.
DisableAnswered(t) ==
  /\ pc[waits[t]] = "disabled"
  /\ says' = [says EXCEPT ![t] = FALSE]
  /\ UNCHANGED <<step, qr, codes>>

\* Mutant: no finally: the button stays disabled after an error.
RefusedWithoutFinally(t) == FALSE

\* An error is shown, and nothing else.
Refused(t) == pc[waits[t]] \in {"denied", "crashed"} /\ UNCHANGED shown

Answer(t) ==
  /\ waits[t] # NoRow
  /\ SetupAnswered(t) \/ ConfirmAnswered(t) \/ DisableAnswered(t) \/ Refused(t)
  /\ Freed(t)

\* Answers that tell the panel what its call has changed.
Told == {"shown", "confirmed", "disabled"}

\* The answer is lost, perhaps before the call is done: an error for the panel.
Lose(t) ==
  /\ waits[t] # NoRow
  /\ waits' = [waits EXCEPT ![t] = NoRow]
  /\ missed' = [missed EXCEPT ![t] = @ \/ pc[waits[t]] \in Told]
  /\ UNCHANGED <<vars, shown>>

-----------------------------------------------------------------------------
(* The backend, and the clients that are not a panel                       *)

Changes(u) == enabled'[u] # enabled[u] \/ secret'[u] # secret[u]

Serve(r) ==
  /\ Continue(r)
  /\ missed' = [t \in Tabs |->
                  missed[t] \/ (waits[t] # r /\ Changes(Owner[t]))]
  /\ UNCHANGED <<shown, waits>>

Elsewhere(r) == Arrive(r) /\ UNCHANGED panel

Die == Crash /\ UNCHANGED panel

Click(t) ==
  \/ Load(t) \/ Saved(t)
  \/ \E r \in Requests :
       \/ StartSetup(t, r)
       \/ \E s \in Requests : ConfirmSetup(t, r, s)
       \/ \E ok \in BOOLEAN : HandleDisable(t, r, ok)

PanelNext ==
  \/ \E t \in Tabs : Click(t) \/ Answer(t) \/ Lose(t)
  \/ \E r \in Requests : Serve(r) \/ Elsewhere(r)
  \/ Die

PanelSpec == PanelInit /\ [][PanelNext]_panelVars
FairPanelSpec ==
  /\ PanelSpec
  /\ \A r \in Requests : WF_panelVars(Serve(r))
  /\ \A t \in Tabs : WF_panelVars(Answer(t))

-----------------------------------------------------------------------------
(* Properties                                                              *)

PanelTypeOK ==
  /\ says \in [Tabs -> BOOLEAN]
  /\ step \in [Tabs -> SetupStates]
  /\ qr \in [Tabs -> Requests \cup {NoRow}]
  /\ codes \in [Tabs -> Requests \cup {NoRow}]
  /\ waits \in [Tabs -> Requests \cup {NoRow}]
  /\ missed \in [Tabs -> BOOLEAN]

InStep(t) ==
  /\ says[t] = enabled[Owner[t]]
  /\ step[t] = "scanning" => qr[t] = secret[Owner[t]]

\* A panel is wrong about its account, or shows a QR code that can no longer
\* be confirmed, only if another client changed the account or an answer was
\* lost: whatever is refused, reloaded or left behind, its own calls leave it
\* in step (28-73).
PanelAgrees == \A t \in Tabs : ~missed[t] /\ waits[t] = NoRow => InStep(t)

\* The recovery codes on a screen, which are shown this once (78), are in the
\* table, unless a call that finished later has replaced them.
CodesOnScreenAreLive ==
  \A t \in Tabs :
    Screen(t) = "codes" =>
      \/ batchOf[codes[t]] = Owner[t]
      \/ \E r \in Requests :
           codes[t] \in seen[r] /\ pc[r] \in {"confirmed", "disabled", "regenerated"}

\* No button stays disabled for ever: the call is answered, refused or lost,
\* also when the process dies (38-40, 54-56, 70-72).
ButtonsAreFreed == \A t \in Tabs : waits[t] # NoRow ~> waits[t] = NoRow

-----------------------------------------------------------------------------
(* The inductive invariant behind them                                     *)

\* The call a panel awaits is of its account, and of the face it shows.
AwaitedCalls ==
  \A t \in Tabs :
    waits[t] # NoRow =>
      /\ acct[waits[t]] = Owner[t]
      /\ \/ pc[waits[t]] \in {"denied", "crashed"}
         \/ /\ pc[waits[t]] \in {"generate", "shown", "disable", "disableCommit", "disabled"}
            /\ step[t] = "idle"
         \/ /\ pc[waits[t]] \in {"activate", "activateCommit", "confirmed"}
            /\ step[t] = "scanning"

\* What an answer on its way will tell is true.
AnswerIsTrue(t, r) ==
  /\ pc[r] = "shown" => says[t] = enabled[Owner[t]] /\ secret[Owner[t]] = r
  /\ pc[r] = "confirmed" => enabled[Owner[t]]
  /\ pc[r] = "disabled" => ~enabled[Owner[t]]
  /\ pc[r] \notin Told => InStep(t)

AnswersAreTrue ==
  \A t \in Tabs :
    ~missed[t] => IF waits[t] = NoRow THEN InStep(t) ELSE AnswerIsTrue(t, waits[t])

\* A face of the panel has what it shows; codes are those of an activation of
\* its account ...
FacesAreWhole ==
  \A t \in Tabs :
    /\ step[t] = "scanning" => qr[t] # NoRow
    /\ step[t] = "showing-recovery-codes" => codes[t] # NoRow
    /\ codes[t] # NoRow => pc[codes[t]] = "confirmed" /\ acct[codes[t]] = Owner[t]

\* ... and those of every activation are in the table until they are replaced.
ActivationsLeaveCodes ==
  \A b \in Requests :
    pc[b] = "confirmed" =>
      \/ batchOf[b] = acct[b]
      \/ \E r \in Requests :
           b \in seen[r] /\ pc[r] \in {"confirmed", "disabled", "regenerated"}

PanelInv ==
  /\ TwoFactorInv /\ PanelTypeOK /\ AwaitedCalls /\ AnswersAreTrue
  /\ FacesAreWhole /\ ActivationsLeaveCodes
=============================================================================
