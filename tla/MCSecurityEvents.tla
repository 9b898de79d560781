--------------------------- MODULE MCSecurityEvents ---------------------------
(* Instances of SecurityEvents for TLC.                                       *)
EXTENDS SecurityEvents

CONSTANTS login, other, reuse   \* subjects
CONSTANTS c1, c2, c3, c4        \* calls
CONSTANTS ada, bea              \* administrators

\* Two reuses of a token, two failed logins of an account, one of another.
MixedReports ==
  [c \in Records |-> CASE c = c1 -> {reuse, other} [] c = c2 -> {reuse, login}
                       [] OTHER -> {login}]

\* Two reuses of a token or failed logins, and one failed login more.
PairReports == [c \in Records |-> IF c = c3 THEN {login} ELSE {reuse, login}]

\* Failed logins of one account.
LoginReports == [c \in Records |-> {login}]
===============================================================================
