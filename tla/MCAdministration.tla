-------------------------- MODULE MCAdministration --------------------------
(* Instances of Administration for TLC: four seeded roles (the public one,  *)
(* an administrator, the director, super), one account of each.             *)
EXTENDS Administration, TLC

CONSTANTS usuario, admin, director, super,
          ana, adan, dora, sara,
          r1, r2, r3

MCSystemLevel == usuario :> 0 @@ admin :> 1 @@ director :> 2 @@ super :> 3
MCSystemCap == usuario :> NoCap @@ admin :> NoCap @@ director :> 1 @@ super :> 1
MCSeededRole == ana :> usuario @@ adan :> admin @@ dora :> director @@ sara :> super

\* ... and a smaller instance without the administrator.
SmallSystemLevel == usuario :> 0 @@ director :> 2 @@ super :> 3
SmallSystemCap == usuario :> NoCap @@ director :> 1 @@ super :> 1
SmallSeededRole == ana :> usuario @@ dora :> director @@ sara :> super

\* ... and one with the administrator, whose role has no max_count: accounts
\* that are created can come to administer.
AdminSystemLevel == usuario :> 0 @@ admin :> 2 @@ super :> 3
AdminSystemCap == usuario :> NoCap @@ admin :> NoCap @@ super :> 1
AdminSeededRole == ana :> usuario @@ adan :> admin @@ sara :> super

\* A role is created, edited and removed while accounts are created and moved
\* between roles, its actors among them.
RaceCalls ==
  r1 :> {"createRole"} @@ r2 :> {"updateRole", "removeRole", "updateUser"}
  @@ r3 :> {"updateUser", "createUser"}

\* Accounts come and change roles, by new actors too.
AccountCalls == r1 :> {"createUser", "updateUser"} @@ r2 :> {"updateUser"}

\* Two calls of any kind.
MandateCalls == [r \in Requests |-> Operations]

\* A role is created by one actor and edited by another.
RoleCalls == r1 :> {"createRole"} @@ r2 :> {"updateRole", "removeRole"}
=============================================================================
