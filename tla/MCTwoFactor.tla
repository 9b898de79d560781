---------------------------- MODULE MCTwoFactor ----------------------------
(* Instances of TwoFactor for TLC: what the calls of each run may be.      *)
EXTENDS TwoFactor

CONSTANTS r1, r2, r3, r4, r5, r6

\* An activation, a second one or a disable, regenerations and logins.
ManagementCalls ==
  [r \in Requests |->
     CASE r = r1 -> {"setup"}
       [] r = r2 -> {"confirm"}
       [] r = r3 -> {"confirm", "disable"}
       [] r = r4 -> {"regenerate"}
       [] r = r5 -> {"regenerate", "login"}
       [] OTHER  -> {"login"}]

\* An activation, a regeneration or a disable, and logins with two codes.
BookCalls ==
  [r \in Requests |->
     CASE r = r1 -> {"setup"}
       [] r = r2 -> {"confirm"}
       [] r = r3 -> {"disable", "regenerate"}
       [] OTHER  -> {"login"}]

\* An activation, and calls that race with it.
SecretCalls ==
  [r \in Requests |-> IF r = r1 THEN {"setup"} ELSE {"setup", "confirm", "disable"}]

\* An activation, and two logins.
LoginCalls ==
  [r \in Requests |->
     IF r = r1 THEN {"setup"} ELSE IF r = r2 THEN {"confirm"} ELSE {"login"}]
=============================================================================
