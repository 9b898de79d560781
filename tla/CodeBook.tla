------------------------------ MODULE CodeBook ------------------------------
(***************************************************************************)
(* What recovery codes promise: a batch of them is handed out once, to one *)
(* account, in the place of batches of that account alone; a batch that is *)
(* taken back stays so; and a code admits a login only to the account that *)
(* its batch is in, while the batch is in and until the code is spent.     *)
(***************************************************************************)
CONSTANTS
  Logins,
  Accounts,
  Batches,
  Codes,     \* the codes of a batch
  Nobody     \* where a batch is that is not handed out, or no longer

VARIABLES
  issued,      \* the batch has been handed out
  home,        \* ... and is in this account
  spent,       \* the codes of a batch that admit nobody any more
  admissions   \* <<login, account, batch, code>>, of each admitted login

vars == <<issued, home, spent, admissions>>

Init ==
  /\ issued = [b \in Batches |-> FALSE]
  /\ home = [b \in Batches |-> Nobody]
  /\ spent = [b \in Batches |-> {}]
  /\ admissions = {}

\* Codes are spent for good, and only by the logins they have admitted.
Spending ==
  /\ spent' \in [Batches -> SUBSET Codes]
  /\ \A b \in Batches : spent[b] \subseteq spent'[b]
  /\ \A b \in Batches : \A k \in spent'[b] :
       \E c \in Logins, u \in Accounts : <<c, u, b, k>> \in admissions'

In(u) == {b \in Batches : home[b] = u}

\* An activation or a regeneration: batch b in the place of those of S.
HandOut(b, u, S) ==
  /\ ~issued[b] /\ S \subseteq In(u)
  /\ issued' = [issued EXCEPT ![b] = TRUE]
  /\ home' = [s \in Batches |-> IF s = b THEN u ELSE IF s \in S THEN Nobody ELSE home[s]]
  /\ UNCHANGED <<spent, admissions>>

\* A disable.
Withdraw(u, S) ==
  /\ S \subseteq In(u)
  /\ home' = [s \in Batches |-> IF s \in S THEN Nobody ELSE home[s]]
  /\ UNCHANGED <<issued, spent, admissions>>

\* A login.
Admit(c, u, b, k) ==
  /\ home[b] = u /\ k \notin spent[b]
  /\ \A a \in admissions : a[1] # c
  /\ admissions' = admissions \cup {<<c, u, b, k>>}
  /\ Spending
  /\ UNCHANGED <<issued, home>>

\* The last login that could still use the code has failed or died.
Spend == Spending /\ UNCHANGED <<issued, home, admissions>>

Next ==
  \/ \E u \in Accounts : \E S \in SUBSET In(u) :
       Withdraw(u, S) \/ \E b \in Batches : HandOut(b, u, S)
  \/ \E c \in Logins, u \in Accounts, b \in Batches, k \in Codes : Admit(c, u, b, k)
  \/ Spend

Spec == Init /\ [][Next]_vars
=============================================================================
