--------------------------- MODULE Administration ---------------------------
(***************************************************************************)
(* Accounts and roles as administrators change them: UsersService,         *)
(* RolesService, and the three guards every one of their calls passes      *)
(* (JwtStrategy.validate, JwtAuthGuard, RolesGuard) in omniuser_backend.   *)
(*                                                                         *)
(* The guards read the actor once, when the call arrives; the handler then *)
(* works with that copy (`rank` is actor.roleLevel) and with what it read  *)
(* before each await, while other calls run.  An action is the code        *)
(* between two database effects; every write is one statement.             *)
(*                                                                         *)
(* A role or an account that a call creates is named by the call.  Names,  *)
(* descriptions and e-mail addresses are left out: a collision on one of   *)
(* their unique indexes is a choice the model makes (`taken`).             *)
(***************************************************************************)
EXTENDS Integers, FiniteSets

CONSTANTS
  SystemRoles,             \* the seeded roles (is_system = true)
  SystemLevel, SystemCap,  \* their level and max_count
  Managers,                \* those named in @Roles(...)
  Top,                     \* the level of the highest of them
  Seeded, SeededRole,      \* the seeded accounts and their roles
  Suspended,               \* of these, those deactivated before the behaviour
  Requests,                \* the HTTP calls of a behaviour
  Calls,                   \* Calls[r]: the operations call r may be
  Levels, Caps,            \* the level and max_count a dto may carry
  NoCap,                   \* max_count = null
  NoRole, NoAccount,       \* "no such row"
  Keep                     \* a field absent from the dto (undefined)

RoleIds == SystemRoles \cup Requests
AccountIds == Seeded \cup Requests
Operations == {"createUser", "updateUser", "createRole", "updateRole", "removeRole"}

ASSUME RolesAssumption ==
  /\ SystemLevel \in [SystemRoles -> Nat] /\ Top \in Nat
  /\ \A s \in SystemRoles : SystemLevel[s] <= Top
  /\ SystemCap \in [SystemRoles -> Nat \cup {NoCap}]
  /\ Managers \subseteq SystemRoles
  /\ SeededRole \in [Seeded -> SystemRoles]
  /\ Suspended \subseteq {a \in Seeded : SystemLevel[SeededRole[a]] < Top}
  /\ Levels \subseteq Nat /\ Caps \subseteq Nat \ {0}
  /\ NoCap \notin Nat /\ Keep \notin Nat /\ NoCap # Keep

ASSUME NamesAssumption ==
  /\ NoRole \notin RoleIds /\ NoAccount \notin AccountIds
  /\ Keep \notin RoleIds /\ Keep \notin BOOLEAN
  /\ SystemRoles \cap Requests = {} /\ Seeded \cap Requests = {}
  /\ Calls \in [Requests -> SUBSET Operations]

VARIABLES
  \* table roles
  roles, level, cap,
  \* table users: role_id (NoRole where there is no row), is_active,
  \* must_change_password
  roleOf, active, mustChange,
  \* the calls: the actor the guards let in and its roleLevel, the account
  \* and the role at hand, the fields of the dto, the max_count read
  pc, actor, rank, target, role, isActive, newLevel, newCap

dbRoles == <<roles, level, cap>>
dbUsers == <<roleOf, active, mustChange>>
dto == <<target, role, isActive, newLevel, newCap>>
vars == <<dbRoles, dbUsers, pc, actor, rank, dto>>

Labels == Operations \cup {"idle", "assert", "count", "insert", "write",
                           "editRole", "deleteRole", "done", "denied"}

Goto(r, label) == pc' = [pc EXCEPT ![r] = label]
Exists(a) == roleOf[a] # NoRole
LevelOf(a) == level[roleOf[a]]

Init ==
  /\ roles = SystemRoles
  /\ level = [i \in RoleIds |-> IF i \in SystemRoles THEN SystemLevel[i] ELSE 0]
  /\ cap = [i \in RoleIds |-> IF i \in SystemRoles THEN SystemCap[i] ELSE NoCap]
  /\ roleOf = [a \in AccountIds |-> IF a \in Seeded THEN SeededRole[a] ELSE NoRole]
  /\ active = [a \in AccountIds |-> a \in Seeded \ Suspended]
  /\ mustChange = [a \in AccountIds |-> FALSE]
  /\ pc = [r \in Requests |-> "idle"]
  /\ actor = [r \in Requests |-> NoAccount]
  /\ rank = [r \in Requests |-> 0]
  /\ target = [r \in Requests |-> NoAccount]
  /\ role = [r \in Requests |-> NoRole]
  /\ isActive = [r \in Requests |-> Keep]
  /\ newLevel = [r \in Requests |-> Keep]
  /\ newCap = [r \in Requests |-> NoCap]

-----------------------------------------------------------------------------
(* The guards: a live read of the actor, then must_change_password, then    *)
(* the role.  The handler is suspended before its first read.               *)

\* JwtStrategy.validate
Validated(a) == Exists(a) /\ active[a]
\* JwtAuthGuard.handleRequest, on a route without @AllowPendingPasswordChange()
PasswordSettled(a) == ~mustChange[a]
\* RolesGuard.canActivate
HasRole(a) == roleOf[a] \in Managers

\* Mutant: JwtAuthGuard without its look at must_change_password.
GuardIgnoringTheFlag(r, a, op) ==
  /\ pc[r] = "idle" /\ op \in Calls[r] /\ Validated(a) /\ HasRole(a)
  /\ actor' = [actor EXCEPT ![r] = a]
  /\ rank' = [rank EXCEPT ![r] = LevelOf(a)]
  /\ Goto(r, op)
  /\ UNCHANGED <<dbRoles, dbUsers, dto>>

Guard(r, a, op) ==
  /\ pc[r] = "idle" /\ op \in Calls[r] /\ Exists(a)
  /\ LET admitted == Validated(a) /\ PasswordSettled(a) /\ HasRole(a)
     IN \/ /\ admitted
           /\ actor' = [actor EXCEPT ![r] = a]
           /\ rank' = [rank EXCEPT ![r] = LevelOf(a)]
           /\ Goto(r, op)
        \/ /\ ~admitted
           /\ Goto(r, "denied")
           /\ UNCHANGED <<actor, rank>>
  /\ UNCHANGED <<dbRoles, dbUsers, dto>>

-----------------------------------------------------------------------------
(* UsersService                                                             *)

\* assertCanManageRole, up to the count: role i must exist, be below the
\* actor, and have room if it has a max_count.
AssertCanManageRole(r, i, next) ==
  \/ /\ i \in roles /\ level[i] < rank[r]
     /\ role' = [role EXCEPT ![r] = i]
     /\ newCap' = [newCap EXCEPT ![r] = cap[i]]
     /\ Goto(r, IF cap[i] = NoCap THEN next ELSE "count")
  \/ /\ i \notin roles \/ level[i] >= rank[r]
     /\ Goto(r, "denied")
     /\ UNCHANGED <<role, newCap>>

\* create has no account yet, update has read its target.
AfterAssert(r) == IF target[r] = NoAccount THEN "insert" ELSE "write"

CreateUserAssert(r, i) ==
  /\ pc[r] = "createUser"
  /\ AssertCanManageRole(r, i, "insert")
  /\ UNCHANGED <<dbRoles, dbUsers, actor, rank, target, isActive, newLevel>>

\* users.count of the active accounts of the role, its own target excluded.
CountActive(r) ==
  /\ pc[r] = "count"
  /\ LET holders == {a \in AccountIds \ {target[r]} : roleOf[a] = role[r] /\ active[a]}
     IN Goto(r, IF Cardinality(holders) >= newCap[r] THEN "denied" ELSE AfterAssert(r))
  /\ UNCHANGED <<dbRoles, dbUsers, actor, rank, dto>>

\* The e-mail is looked up and, if free, the row inserted with a temporary
\* password; the foreign key refuses a role deleted meanwhile.
InsertUser(r, taken) ==
  /\ pc[r] = "insert"
  /\ \/ /\ ~taken /\ role[r] \in roles
        /\ roleOf' = [roleOf EXCEPT ![r] = role[r]]
        /\ active' = [active EXCEPT ![r] = TRUE]
        /\ mustChange' = [mustChange EXCEPT ![r] = TRUE]
        /\ Goto(r, "done")
     \/ /\ taken \/ role[r] \notin roles
        /\ Goto(r, "denied")
        /\ UNCHANGED dbUsers
  /\ UNCHANGED <<dbRoles, actor, rank, dto>>

\* Mutant: update lets through an account of the actor's own level.
UpdateUserReadPeer(r, a, i, b) ==
  /\ pc[r] = "updateUser" /\ Exists(a) /\ LevelOf(a) <= rank[r]
  /\ target' = [target EXCEPT ![r] = a]
  /\ role' = [role EXCEPT ![r] = i]
  /\ isActive' = [isActive EXCEPT ![r] = b]
  /\ Goto(r, IF i = Keep THEN "write" ELSE "assert")
  /\ UNCHANGED <<dbRoles, dbUsers, actor, rank, newLevel, newCap>>

\* update: the target is read with the level of its role.  i and b are
\* dto.role_id and dto.is_active (null in either is an error of the database
\* client: nothing is written).
UpdateUserRead(r, a, i, b) ==
  /\ pc[r] = "updateUser"
  /\ \/ /\ Exists(a) /\ LevelOf(a) < rank[r]
        /\ target' = [target EXCEPT ![r] = a]
        /\ role' = [role EXCEPT ![r] = i]
        /\ isActive' = [isActive EXCEPT ![r] = b]
        /\ Goto(r, IF i = Keep THEN "write" ELSE "assert")
     \/ /\ ~(Exists(a) /\ LevelOf(a) < rank[r])
        /\ Goto(r, "denied")
        /\ UNCHANGED <<target, role, isActive>>
  /\ UNCHANGED <<dbRoles, dbUsers, actor, rank, newLevel, newCap>>

UpdateUserAssert(r) ==
  /\ pc[r] = "assert"
  /\ AssertCanManageRole(r, role[r], "write")
  /\ UNCHANGED <<dbRoles, dbUsers, actor, rank, target, isActive, newLevel>>

\* Mutant: a field absent from the dto is written as it is.
UpdateUserWriteOfAll(r) ==
  /\ pc[r] = "write"
  /\ roleOf' = [roleOf EXCEPT ![target[r]] = role[r]]
  /\ active' = [active EXCEPT ![target[r]] = isActive[r]]
  /\ Goto(r, "done")
  /\ UNCHANGED <<dbRoles, mustChange, actor, rank, dto>>

\* The write is by user_id alone: it does not look again at levels or counts.
UpdateUserWrite(r) ==
  /\ pc[r] = "write"
  /\ \/ /\ role[r] \in roles \cup {Keep}
        /\ roleOf' = [roleOf EXCEPT ![target[r]] = IF role[r] = Keep THEN @ ELSE role[r]]
        /\ active' = [active EXCEPT ![target[r]] = IF isActive[r] = Keep THEN @ ELSE isActive[r]]
        /\ Goto(r, "done")
     \/ /\ role[r] \notin roles \cup {Keep}
        /\ Goto(r, "denied")
        /\ UNCHANGED <<roleOf, active>>
  /\ UNCHANGED <<dbRoles, mustChange, actor, rank, dto>>

-----------------------------------------------------------------------------
(* RolesService                                                             *)

CreateRole(r, l, c, taken) ==
  /\ pc[r] = "createRole"
  /\ \/ /\ l < rank[r] /\ ~taken
        /\ roles' = roles \cup {r}
        /\ level' = [level EXCEPT ![r] = l]
        /\ cap' = [cap EXCEPT ![r] = c]
        /\ Goto(r, "done")
     \/ /\ l >= rank[r] \/ taken
        /\ Goto(r, "denied")
        /\ UNCHANGED dbRoles
  /\ UNCHANGED <<dbUsers, actor, rank, dto>>

\* Mutant: update without the comparison of the new level with the actor's.
UpdateRoleReadOfAnyLevel(r, i, l, c) ==
  /\ pc[r] = "updateRole"
  /\ i \in roles /\ (i \in SystemRoles => l = Keep /\ c = Keep)
  /\ role' = [role EXCEPT ![r] = i]
  /\ newLevel' = [newLevel EXCEPT ![r] = l]
  /\ newCap' = [newCap EXCEPT ![r] = c]
  /\ Goto(r, "editRole")
  /\ UNCHANGED <<dbRoles, dbUsers, actor, rank, target, isActive>>

\* Mutant: update without the check on is_system.
UpdateRoleReadOfAny(r, i, l, c) ==
  /\ pc[r] = "updateRole"
  /\ i \in roles /\ (l # Keep => l < rank[r])
  /\ role' = [role EXCEPT ![r] = i]
  /\ newLevel' = [newLevel EXCEPT ![r] = l]
  /\ newCap' = [newCap EXCEPT ![r] = c]
  /\ Goto(r, "editRole")
  /\ UNCHANGED <<dbRoles, dbUsers, actor, rank, target, isActive>>

\* update: the role is read and the dto checked; only the new level is held
\* against the actor.  l and c are dto.level and dto.max_count: c = NoCap is an
\* explicit null, which @IsOptional() lets through: it lifts the cap.  (A null
\* level is an error of the database client: nothing is written.)
UpdateRoleRead(r, i, l, c) ==
  /\ pc[r] = "updateRole"
  /\ LET frozen == i \in SystemRoles /\ (l # Keep \/ c # Keep)
         tooHigh == l # Keep /\ l >= rank[r]
         refused == i \notin roles \/ frozen \/ tooHigh
     IN \/ /\ ~refused
           /\ role' = [role EXCEPT ![r] = i]
           /\ newLevel' = [newLevel EXCEPT ![r] = l]
           /\ newCap' = [newCap EXCEPT ![r] = c]
           /\ Goto(r, "editRole")
        \/ /\ refused
           /\ Goto(r, "denied")
           /\ UNCHANGED <<role, newLevel, newCap>>
  /\ UNCHANGED <<dbRoles, dbUsers, actor, rank, target, isActive>>

UpdateRoleWrite(r, taken) ==
  /\ pc[r] = "editRole"
  /\ \/ /\ role[r] \in roles /\ ~taken
        /\ level' = [level EXCEPT ![role[r]] = IF newLevel[r] = Keep THEN @ ELSE newLevel[r]]
        /\ cap' = [cap EXCEPT ![role[r]] = IF newCap[r] = Keep THEN @ ELSE newCap[r]]
        /\ Goto(r, "done")
     \/ /\ role[r] \notin roles \/ taken
        /\ Goto(r, "denied")
        /\ UNCHANGED <<level, cap>>
  /\ UNCHANGED <<roles, dbUsers, actor, rank, dto>>

InUse(i) == \E a \in AccountIds : roleOf[a] = i

RemoveRoleRead(r, i) ==
  /\ pc[r] = "removeRole"
  /\ \/ /\ i \in roles \ SystemRoles /\ ~InUse(i)
        /\ role' = [role EXCEPT ![r] = i]
        /\ Goto(r, "deleteRole")
     \/ /\ i \notin roles \ SystemRoles \/ InUse(i)
        /\ Goto(r, "denied")
        /\ UNCHANGED role
  /\ UNCHANGED <<dbRoles, dbUsers, actor, rank, target, isActive, newLevel, newCap>>

\* Mutant: no foreign key.
RemoveRoleDeleteInUse(r) ==
  /\ pc[r] = "deleteRole"
  /\ roles' = roles \ {role[r]}
  /\ Goto(r, "done")
  /\ UNCHANGED <<level, cap, dbUsers, actor, rank, dto>>

\* The foreign key (ON DELETE RESTRICT) refuses a role that an account was
\* given since the read.
RemoveRoleDelete(r) ==
  /\ pc[r] = "deleteRole"
  /\ \/ /\ role[r] \in roles /\ ~InUse(role[r])
        /\ roles' = roles \ {role[r]}
        /\ Goto(r, "done")
     \/ /\ role[r] \notin roles \/ InUse(role[r])
        /\ Goto(r, "denied")
        /\ UNCHANGED roles
  /\ UNCHANGED <<level, cap, dbUsers, actor, rank, dto>>

-----------------------------------------------------------------------------
(* AuthService.changePassword and resetPasswordWithToken clear the flag     *)
(* (module Sessions has the whole of them).                                 *)

PasswordChanged(a) ==
  /\ Exists(a) /\ mustChange[a]
  /\ mustChange' = [mustChange EXCEPT ![a] = FALSE]
  /\ UNCHANGED <<dbRoles, roleOf, active, pc, actor, rank, dto>>

-----------------------------------------------------------------------------
HandleUser(r) ==
  \/ \E i \in RoleIds : CreateUserAssert(r, i)
  \/ CountActive(r) \/ UpdateUserAssert(r) \/ UpdateUserWrite(r)
  \/ \E taken \in BOOLEAN : InsertUser(r, taken)
  \/ \E a \in AccountIds, i \in RoleIds \cup {Keep}, b \in BOOLEAN \cup {Keep} :
       UpdateUserRead(r, a, i, b)

HandleRole(r) ==
  \/ \E l \in Levels, c \in Caps \cup {NoCap}, taken \in BOOLEAN : CreateRole(r, l, c, taken)
  \/ \E i \in RoleIds, l \in Levels \cup {Keep}, c \in Caps \cup {NoCap, Keep} :
       UpdateRoleRead(r, i, l, c)
  \/ \E taken \in BOOLEAN : UpdateRoleWrite(r, taken)
  \/ \E i \in RoleIds : RemoveRoleRead(r, i)
  \/ RemoveRoleDelete(r)

Next ==
  \/ \E r \in Requests :
       \/ \E a \in AccountIds, op \in Operations : Guard(r, a, op)
       \/ HandleUser(r)
       \/ HandleRole(r)
  \/ \E a \in AccountIds : PasswordChanged(a)

Spec == Init /\ [][Next]_vars

\* The database answers every handler that waits for it.  Clients are under no
\* obligation.
FairSpec == Spec /\ \A r \in Requests : WF_vars(HandleUser(r) \/ HandleRole(r))
-----------------------------------------------------------------------------
(* Properties                                                               *)

TypeOK ==
  /\ roles \subseteq RoleIds
  /\ level \in [RoleIds -> Nat] /\ cap \in [RoleIds -> Nat \cup {NoCap}]
  /\ roleOf \in [AccountIds -> RoleIds \cup {NoRole}]
  /\ active \in [AccountIds -> BOOLEAN] /\ mustChange \in [AccountIds -> BOOLEAN]
  /\ pc \in [Requests -> Labels]
  /\ actor \in [Requests -> AccountIds \cup {NoAccount}]
  /\ rank \in [Requests -> Nat]
  /\ target \in [Requests -> AccountIds \cup {NoAccount}]
  /\ role \in [Requests -> RoleIds \cup {NoRole, Keep}]
  /\ isActive \in [Requests -> BOOLEAN \cup {Keep}]
  /\ newLevel \in [Requests -> Nat \cup {Keep}]
  /\ newCap \in [Requests -> Nat \cup {NoCap, Keep}]

\* No account is ever left without its role, though remove counts the users
\* of a role in one statement and deletes it in another, while create and
\* update may be about to assign it (roles.service 84-94, users.service 64, 99).
AccountsKeepARole ==
  \A a \in AccountIds : Exists(a) => roleOf[a] \in roles

\* The seeded roles are there for good, with the level and the max_count of
\* the seed, whatever mix of updates and removals runs (62-64, 87-89).
SystemRolesAreFixed ==
  /\ SystemRoles \subseteq roles
  /\ \A s \in SystemRoles : level[s] = SystemLevel[s] /\ cap[s] = SystemCap[s]

\* The top of the hierarchy is closed: however updates of a role's level race
\* with assignments of that role and with demotions of the actor, the accounts
\* of the top level are the seeded ones, they keep their role and stay active
\* (users.service 92, 115, 99; roles.service 39, 65, 69).
NobodyReachesTheTop ==
  \A a \in AccountIds :
    /\ a \in Seeded /\ SystemLevel[SeededRole[a]] = Top
         => roleOf[a] = SeededRole[a] /\ active[a]
    /\ Exists(a) /\ LevelOf(a) >= Top
         => a \in Seeded /\ SystemLevel[SeededRole[a]] = Top

\* An account with a temporary password administers nothing: the actor of a
\* call past the guards has replaced it, and never has one again.
PendingAccountsDoNotAct ==
  \A r \in Requests :
    pc[r] \notin {"idle", "denied"} =>
      actor[r] \in AccountIds /\ Exists(actor[r]) /\ ~mustChange[actor[r]]

\* A call past the guards, the account it has read below its rank, and the
\* role that assertCanManageRole let it give.
Mandate(r) ==
  IF pc[r] = "idle" THEN "unused" ELSE IF pc[r] \in {"done", "denied"} THEN "over" ELSE "held"
Subject(r) == IF pc[r] \in {"assert", "count", "write"} THEN target[r] ELSE NoAccount
Grant(r) ==
  IF pc[r] \in {"count", "insert"} \/ (pc[r] = "write" /\ role[r] # Keep)
  THEN role[r] ELSE NoRole

\* The calls, with what they read going stale before they write, keep the
\* promises of Hierarchy: one change for each time the guards let an actor in,
\* and none of an account, to a role or to a level that the call has not seen
\* below the rank the guards gave it (users.service 60-64, 82-99, 104-126;
\* roles.service 31, 58-75, 82-94).
Chain ==
  INSTANCE Hierarchy WITH
    Mandates <- Requests, Accounts <- AccountIds, Posts <- RoleIds,
    Founding <- SystemRoles, Nobody <- NoAccount, NoPost <- NoRole,
    open <- roles, post <- roleOf, pending <- mustChange,
    mandate <- [r \in Requests |-> Mandate(r)],
    subject <- [r \in Requests |-> Subject(r)], grant <- [r \in Requests |-> Grant(r)]
ImplementsHierarchy == Chain!Spec

-----------------------------------------------------------------------------
(* What the documents say, and the code does not do                         *)

\* docs/docs/roles.md:13-14, 27 and seed.ts:25-27: director and super are
\* one-person posts, "el sistema lo hace cumplir de verdad".
MaxCountHolds ==
  \A s \in SystemRoles :
    cap[s] # NoCap =>
      Cardinality({a \in AccountIds : roleOf[a] = s /\ active[a]}) <= cap[s]

\* Call r takes its last step, a write.
Writes(r, label) == pc[r] = label /\ pc'[r] = "done"

\* docs/docs/roles.md:20: "solo puedes crear o gestionar una cuenta - o un rol -
\* de nivel ESTRICTAMENTE MENOR al tuyo", of the removal of a role and of a
\* change to its level or its max_count.
RolesAreManagedFromAbove ==
  [][\A r \in Requests :
       \/ Writes(r, "deleteRole")
       \/ Writes(r, "editRole") /\ (level' # level \/ cap' # cap)
       => level[role[r]] < rank[r]]_vars

\* docs/docs/roles.md:20 and users.service.ts:88-91, of an account: below the
\* actor when it is changed, and below the actor afterwards.
AccountsAreManagedFromAbove ==
  [][\A r \in Requests :
       Writes(r, "write")
         => LevelOf(target[r]) < rank[r] /\ LevelOf(target[r])' < rank[r]]_vars

-----------------------------------------------------------------------------
(* The inductive invariant behind the safety properties                     *)

\* Ranks, levels of non-system roles and levels about to be written are
\* bounded by the top; a call about to write to roles has no system role with
\* a level or a max_count at hand.
LevelsAreBounded ==
  /\ \A r \in Requests : rank[r] <= Top
  /\ \A i \in RoleIds \ SystemRoles : i \in roles => level[i] < Top
  /\ \A r \in Requests : pc[r] = "editRole" =>
       /\ role[r] \in RoleIds
       /\ newLevel[r] # Keep => newLevel[r] < rank[r] /\ newLevel[r] \in Levels
       /\ role[r] \in SystemRoles => newLevel[r] = Keep /\ newCap[r] = Keep
  /\ \A r \in Requests : pc[r] = "deleteRole" => role[r] \in RoleIds \ SystemRoles

\* A call about to give a role has one below the top, and a call about to
\* write to an account has one below the top.
WritesStayBelow ==
  \A r \in Requests :
    /\ pc[r] \in {"idle", "createUser"} => target[r] = NoAccount
    /\ pc[r] \in {"insert", "count"} => role[r] \in RoleIds
    /\ pc[r] = "insert" \/ (pc[r] = "count" /\ target[r] = NoAccount) =>
         /\ target[r] = NoAccount
         /\ role[r] \in SystemRoles => SystemLevel[role[r]] < Top
    /\ pc[r] \in {"assert", "write"} \/ (pc[r] = "count" /\ target[r] # NoAccount) =>
         /\ target[r] \in AccountIds /\ Exists(target[r])
         /\ target[r] \in Seeded => SystemLevel[SeededRole[target[r]]] < Top
    /\ pc[r] = "assert" => role[r] \in RoleIds
    /\ pc[r] \in {"write", "count"} /\ role[r] # Keep =>
         /\ role[r] \in RoleIds
         /\ role[r] \in SystemRoles => SystemLevel[role[r]] < Top

\* A call creates its account and its role at its end.
CallsCreateOnce ==
  \A r \in Requests :
    /\ pc[r] # "done" => ~Exists(r) /\ r \notin roles
    /\ ~Exists(r) => ~active[r]

AdministrationInv ==
  /\ TypeOK /\ AccountsKeepARole /\ SystemRolesAreFixed /\ NobodyReachesTheTop
  /\ PendingAccountsDoNotAct /\ LevelsAreBounded /\ WritesStayBelow /\ CallsCreateOnce
=============================================================================
