----------------------------- MODULE Hierarchy -----------------------------
(***************************************************************************)
(* What administration promises, whatever reads go stale: every change of  *)
(* an account or of a post is made under a mandate of its own, which an    *)
(* active manager with a password of his own received for one change, with *)
(* the level he had; only accounts and posts seen below that level are     *)
(* given or changed, no post is put at that level or above, and a post     *)
(* that somebody holds, or a founding one, stays.                          *)
(***************************************************************************)
EXTENDS Naturals

CONSTANTS
  Mandates, Accounts, Posts,
  Levels,     \* the levels a post may be put at
  Managers,   \* the posts that administer
  Founding,   \* the posts that nobody changes
  Nobody, NoPost

VARIABLES
  open, level,            \* the posts there are, and their levels
  post, active, pending,  \* of an account; pending: its password is temporary
  mandate, rank,          \* whether it is in force, and the level it gives
  subject, grant          \* the account and the post seen below that level

posts == <<open, level>>
people == <<post, active, pending>>
looks == <<mandate, rank, subject, grant>>
vars == <<posts, people, looks>>

Init ==
  /\ Founding \subseteq open
  /\ mandate = [m \in Mandates |-> "unused"]
  /\ subject = [m \in Mandates |-> Nobody]
  /\ grant = [m \in Mandates |-> NoPost]

Holds(m) == mandate[m] = "held"

End(m) ==
  /\ mandate' = [mandate EXCEPT ![m] = "over"]
  /\ subject' = [subject EXCEPT ![m] = Nobody]
  /\ grant' = [grant EXCEPT ![m] = NoPost]
  /\ UNCHANGED rank

-----------------------------------------------------------------------------
Give(m, a) ==
  /\ mandate[m] = "unused"
  /\ post[a] \in Managers /\ active[a] /\ ~pending[a]
  /\ mandate' = [mandate EXCEPT ![m] = "held"]
  /\ rank' = [rank EXCEPT ![m] = level[post[a]]]
  /\ UNCHANGED <<posts, people, subject, grant>>

SeeAccount(m, a) ==
  /\ post[a] # NoPost /\ level[post[a]] < rank[m]
  /\ subject' = [subject EXCEPT ![m] = a]
  /\ UNCHANGED <<posts, people, mandate, rank, grant>>

SeePost(m, i) ==
  /\ i \in open /\ level[i] < rank[m]
  /\ grant' = [grant EXCEPT ![m] = i]
  /\ UNCHANGED <<posts, people, mandate, rank, subject>>

Refuse(m) == mandate[m] # "over" /\ End(m) /\ UNCHANGED <<posts, people>>

Hire(m, a) ==
  /\ grant[m] \in open /\ post[a] = NoPost
  /\ post' = [post EXCEPT ![a] = grant[m]]
  /\ active' = [active EXCEPT ![a] = TRUE]
  /\ pending' = [pending EXCEPT ![a] = TRUE]
  /\ End(m)
  /\ UNCHANGED posts

Change(m, a, b) ==
  /\ subject[m] = a /\ grant[m] \in open \cup {NoPost}
  /\ post' = [post EXCEPT ![a] = IF grant[m] = NoPost THEN @ ELSE grant[m]]
  /\ active' = [active EXCEPT ![a] = b]
  /\ End(m)
  /\ UNCHANGED <<posts, pending>>

Found(m, i, l) ==
  /\ i \notin open /\ l < rank[m]
  /\ open' = open \cup {i}
  /\ level' = [level EXCEPT ![i] = l]
  /\ End(m)
  /\ UNCHANGED people

Adjust(m, i, l) ==
  /\ i \in open \ Founding /\ l < rank[m]
  /\ level' = [level EXCEPT ![i] = l]
  /\ End(m)
  /\ UNCHANGED <<open, people>>

Dissolve(m, i) ==
  /\ i \in open \ Founding /\ \A a \in Accounts : post[a] # i
  /\ open' = open \ {i}
  /\ End(m)
  /\ UNCHANGED <<level, people>>

\* A person replaces the temporary password.
Settle(a) ==
  /\ post[a] # NoPost /\ pending[a]
  /\ pending' = [pending EXCEPT ![a] = FALSE]
  /\ UNCHANGED <<posts, post, active, looks>>

Act(m) ==
  /\ Holds(m)
  /\ \/ \E a \in Accounts :
          SeeAccount(m, a) \/ Hire(m, a) \/ \E b \in BOOLEAN : Change(m, a, b)
     \/ \E i \in Posts :
          \/ SeePost(m, i) \/ Dissolve(m, i)
          \/ \E l \in Levels : Found(m, i, l) \/ Adjust(m, i, l)

Next ==
  \/ \E m \in Mandates : Refuse(m) \/ Act(m) \/ \E a \in Accounts : Give(m, a)
  \/ \E a \in Accounts : Settle(a)

Spec == Init /\ [][Next]_vars
=============================================================================
