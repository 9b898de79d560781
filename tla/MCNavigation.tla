---------------------------- MODULE MCNavigation ----------------------------
(* Instances of Navigation for TLC.                                         *)
EXTENDS Navigation, TLC

CONSTANTS alice, bob, t1, t2

\* An administrator with a temporary password, and someone who is not
\* registered yet.
Seeded == [u \in Users |-> IF u = alice THEN "admin" ELSE NoRole]

TabsAlike == Permutations(Tabs)
=============================================================================
