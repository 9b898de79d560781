-------------------------- MODULE MCTwoFactorPanel --------------------------
(* An instance of TwoFactorPanel for TLC: two tabs of one account.         *)
EXTENDS TwoFactorPanel

CONSTANTS alice, r1, r2, r3, r4

\* Two calls of any kind that a panel makes, a first setup, and one call more.
PanelCalls ==
  [r \in Requests |->
     CASE r = r1 -> {"setup"}
       [] r = r2 -> {"setup", "confirm"}
       [] r = r3 -> {"confirm", "disable"}
       [] OTHER  -> {"disable", "regenerate", "login"}]

OneOwner == [t \in Tabs |-> alice]
=============================================================================
