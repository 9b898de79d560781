----------------------------- MODULE MCSessions -----------------------------
(* Instances of Sessions for TLC: which endpoints each call may be a call   *)
(* of.  Leaving an endpoint out of a run keeps the run small; every handler *)
(* runs in some passing run against every handler it shares rows with.      *)
EXTENDS Sessions, TLC

CONSTANTS r1, r2, r3, r4

\* Sessions of two accounts: a login each, then everything that mints,
\* rotates or revokes.
RotationCalls ==
  r1 :> {"login"} @@ r2 :> {"login", "refresh"}
  @@ r3 :> {"refresh", "logout", "change"} @@ r4 :> {"refresh", "logout", "change"}

\* Reset links against password changes and sessions, an account with
\* two-factor authentication and a temporary password, and an address that
\* two calls may register.
CredentialCalls ==
  r1 :> {"forgot", "login", "register"}
  @@ r2 :> {"forgot", "reset", "login", "register", "twofactor"}
  @@ r3 :> {"reset", "change", "refresh", "twofactor"}
  @@ r4 :> {"reset", "forgot"}

\* Two racing uses of one link, or two racing requests of a link.
ResetRaceCalls ==
  r1 :> {"forgot"} @@ r2 :> {"forgot", "reset"} @@ r3 :> {"reset"}

\* One session and the calls that should end it.
EndingCalls ==
  r1 :> {"login"} @@ r2 :> {"refresh"} @@ r3 :> {"logout", "change"}
  @@ r4 :> {"refresh"}
=============================================================================
