---------------------------- MODULE SessionStore ----------------------------
(***************************************************************************)
(* What the table of refresh tokens promises, whoever writes to it: a      *)
(* session is opened once, for one account; a session that renews another  *)
(* is of the same account, and is opened only when the other has ended but *)
(* has not been closed; the sessions that end together are of one account; *)
(* an ended session stays ended, and a closed one stays closed.            *)
(***************************************************************************)
CONSTANTS
  Sessions,
  Accounts,
  Nobody,    \* the holder of a session that has not been opened
  NoParent   \* the parent of a session opened by a login

VARIABLES
  holder,
  ended,
  closed,    \* it can no longer be renewed: its grace or its life is over
  parent     \* the session it renews

vars == <<holder, ended, closed, parent>>

Init ==
  /\ holder = [s \in Sessions |-> Nobody]
  /\ ended = [s \in Sessions |-> FALSE]
  /\ closed = [s \in Sessions |-> FALSE]
  /\ parent = [s \in Sessions |-> NoParent]

\* Closing comes with anything that happens, and is for good.
Closing ==
  /\ closed' \in [Sessions -> BOOLEAN]
  /\ \A s \in Sessions :
       /\ closed[s] => closed'[s]
       /\ closed'[s] => holder[s] # Nobody

\* A registration or a login.
Open(s, a) ==
  /\ holder[s] = Nobody
  /\ holder' = [holder EXCEPT ![s] = a]
  /\ UNCHANGED <<ended, closed, parent>>

\* A refresh.
Renew(s, t) ==
  /\ holder[s] = Nobody /\ holder[t] # Nobody /\ ended[t] /\ ~closed[t]
  /\ holder' = [holder EXCEPT ![s] = holder[t]]
  /\ parent' = [parent EXCEPT ![s] = t]
  /\ Closing
  /\ UNCHANGED ended

\* A rotation, a logout, a cascade, a new password.
End(S, a) ==
  /\ \A s \in S : holder[s] = a
  /\ ended' = [s \in Sessions |-> ended[s] \/ s \in S]
  /\ Closing
  /\ UNCHANGED <<holder, parent>>

\* Time passes, a call that presented the session dies.
Close == Closing /\ UNCHANGED <<holder, ended, parent>>

Next ==
  \/ \E s \in Sessions, a \in Accounts : Open(s, a)
  \/ \E s, t \in Sessions : Renew(s, t)
  \/ \E a \in Accounts, S \in SUBSET Sessions : End(S, a)
  \/ Close

Spec == Init /\ [][Next]_vars
=============================================================================
