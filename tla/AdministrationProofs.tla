------------------------ MODULE AdministrationProofs ------------------------
(* Theorems about Administration, for every set of roles, accounts and calls, *)
(* and every level and max_count the dtos may carry.                          *)
EXTENDS Administration, TLAPS

-----------------------------------------------------------------------------
(* One lemma per part of the invariant                                        *)

\* Types are preserved.
LEMMA TypeStep == TypeOK /\ [Next]_vars => TypeOK'
<1> SUFFICES ASSUME TypeOK, [Next]_vars PROVE TypeOK'
    OBVIOUS
<1> USE DEF TypeOK, RoleIds, AccountIds, Labels, Operations, Goto, Exists, LevelOf, dbRoles, dbUsers, dto
<1>1. ASSUME NEW r \in Requests, NEW a \in AccountIds, NEW op \in Operations, Guard(r, a, op) PROVE TypeOK'
    BY <1>1 DEF Guard, Validated, PasswordSettled, HasRole
<1>2. ASSUME NEW r \in Requests, HandleUser(r) PROVE TypeOK'
  <2>1. ASSUME NEW i \in RoleIds, CreateUserAssert(r, i) PROVE TypeOK'
      BY <2>1 DEF CreateUserAssert, AssertCanManageRole
  <2>2. CASE CountActive(r)
      BY <2>2 DEF CountActive, AfterAssert
  <2>3. CASE UpdateUserAssert(r)
      BY <2>3 DEF UpdateUserAssert, AssertCanManageRole
  <2>4. CASE UpdateUserWrite(r)
    <3>1. CASE role[r] \in roles \cup {Keep}
      <4>1. roleOf' \in [AccountIds -> RoleIds \cup {NoRole}]
            BY <2>4, <3>1 DEF UpdateUserWrite
      <4>2. active' \in [AccountIds -> BOOLEAN]
        <5>1. CASE isActive[r] = Keep
              BY <2>4, <3>1, <5>1 DEF UpdateUserWrite
        <5>2. CASE isActive[r] # Keep
          <6>1. isActive[r] \in BOOLEAN
                BY <5>2
          <6>2. active' = [active EXCEPT ![target[r]] = isActive[r]]
                BY <2>4, <3>1, <5>2 DEF UpdateUserWrite
          <6> QED BY <6>1, <6>2
        <5> QED BY <5>1, <5>2
      <4>3. pc' \in [Requests -> Labels]
            BY <2>4, <3>1 DEF UpdateUserWrite
      <4> QED BY <2>4, <3>1, <4>1, <4>2, <4>3 DEF UpdateUserWrite
    <3>2. CASE role[r] \notin roles \cup {Keep}
          BY <2>4, <3>2 DEF UpdateUserWrite
    <3> QED BY <3>1, <3>2
  <2>5. ASSUME NEW taken \in BOOLEAN, InsertUser(r, taken) PROVE TypeOK'
    <3>1. CASE pc'[r] = "done"
      <4>1. roleOf' \in [AccountIds -> RoleIds \cup {NoRole}]
            BY <2>5, <3>1 DEF InsertUser
      <4>2. active' \in [AccountIds -> BOOLEAN] /\ mustChange' \in [AccountIds -> BOOLEAN]
            BY <2>5, <3>1 DEF InsertUser
      <4>3. pc' \in [Requests -> Labels]
            BY <2>5, <3>1 DEF InsertUser
      <4> QED BY <2>5, <3>1, <4>1, <4>2, <4>3 DEF InsertUser
    <3>2. CASE pc'[r] # "done"
          BY <2>5, <3>2 DEF InsertUser
    <3> QED BY <3>1, <3>2
  <2>6. ASSUME NEW a \in AccountIds, NEW i \in RoleIds \cup {Keep},
             NEW b \in BOOLEAN \cup {Keep}, UpdateUserRead(r, a, i, b) PROVE TypeOK'
      BY <2>6 DEF UpdateUserRead
  <2> HIDE DEF TypeOK, RoleIds, AccountIds, Labels, Operations, Goto, Exists, LevelOf, dbRoles, dbUsers, dto
  <2> QED BY <1>2, <2>1, <2>2, <2>3, <2>4, <2>5, <2>6 DEF HandleUser
<1>3. ASSUME NEW r \in Requests, HandleRole(r) PROVE TypeOK'
  <2>1. ASSUME NEW l \in Levels, NEW c \in Caps \cup {NoCap},
             NEW taken \in BOOLEAN, CreateRole(r, l, c, taken) PROVE TypeOK'
    <3>1. pc' \in [Requests -> Labels] /\ roles' \subseteq RoleIds
          BY <2>1 DEF CreateRole
    <3>2. level' \in [RoleIds -> Nat]
          BY <2>1, RolesAssumption DEF CreateRole
    <3>3. cap' \in [RoleIds -> Nat \cup {NoCap}]
          BY <2>1, RolesAssumption DEF CreateRole
    <3>4. UNCHANGED <<roleOf, active, mustChange, actor, rank, target, role, isActive, newLevel, newCap>>
          BY <2>1 DEF CreateRole
    <3> QED BY <3>1, <3>2, <3>3, <3>4
  <2>2. ASSUME NEW i \in RoleIds, NEW l \in Levels \cup {Keep},
             NEW c \in Caps \cup {NoCap, Keep}, UpdateRoleRead(r, i, l, c) PROVE TypeOK'
    <3>1. pc' \in [Requests -> Labels]
          BY <2>2 DEF UpdateRoleRead
    <3>2. role' \in [Requests -> RoleIds \cup {NoRole, Keep}]
          BY <2>2 DEF UpdateRoleRead
    <3>3. newLevel' \in [Requests -> Nat \cup {Keep}]
          BY <2>2, RolesAssumption DEF UpdateRoleRead
    <3>4. newCap' \in [Requests -> Nat \cup {NoCap, Keep}]
          BY <2>2, RolesAssumption DEF UpdateRoleRead
    <3>5. UNCHANGED <<roles, level, cap, roleOf, active, mustChange, actor, rank, target, isActive>>
          BY <2>2 DEF UpdateRoleRead
    <3> QED BY <3>1, <3>2, <3>3, <3>4, <3>5
  <2>3. ASSUME NEW taken \in BOOLEAN, UpdateRoleWrite(r, taken) PROVE TypeOK'
      BY <2>3 DEF UpdateRoleWrite
  <2>4. ASSUME NEW i \in RoleIds, RemoveRoleRead(r, i) PROVE TypeOK'
      BY <2>4 DEF RemoveRoleRead, InUse
  <2>5. CASE RemoveRoleDelete(r)
      BY <2>5 DEF RemoveRoleDelete, InUse
  <2> HIDE DEF TypeOK, RoleIds, AccountIds, Labels, Operations, Goto, Exists, LevelOf, dbRoles, dbUsers, dto
  <2> QED BY <1>3, <2>1, <2>2, <2>3, <2>4, <2>5 DEF HandleRole
<1>4. ASSUME NEW a \in AccountIds, PasswordChanged(a) PROVE TypeOK'
    BY <1>4 DEF PasswordChanged
<1>5. CASE UNCHANGED vars
      BY <1>5 DEF vars
<1> QED BY <1>1, <1>2, <1>3, <1>4, <1>5 DEF Next

\* A call creates its account and its role at its end.
LEMMA OnceStep == TypeOK /\ WritesStayBelow /\ CallsCreateOnce /\ LevelsAreBounded /\ [Next]_vars => CallsCreateOnce'
<1> SUFFICES ASSUME TypeOK, WritesStayBelow, CallsCreateOnce, LevelsAreBounded, [Next]_vars PROVE CallsCreateOnce'
    OBVIOUS
<1> USE DEF TypeOK, WritesStayBelow, CallsCreateOnce, LevelsAreBounded, RoleIds, AccountIds, Labels, Operations, Goto, Exists, LevelOf, dbRoles, dbUsers, dto
<1>1. ASSUME NEW r \in Requests, NEW a \in AccountIds, NEW op \in Operations, Guard(r, a, op) PROVE CallsCreateOnce'
    BY <1>1, RolesAssumption, NamesAssumption DEF Guard, Validated, PasswordSettled, HasRole
<1>2. ASSUME NEW r \in Requests, HandleUser(r) PROVE CallsCreateOnce'
  <2>1. ASSUME NEW i \in RoleIds, CreateUserAssert(r, i) PROVE CallsCreateOnce'
      BY <2>1, RolesAssumption, NamesAssumption DEF CreateUserAssert, AssertCanManageRole
  <2>2. CASE CountActive(r)
      BY <2>2, RolesAssumption, NamesAssumption DEF CountActive, AfterAssert
  <2>3. CASE UpdateUserAssert(r)
      BY <2>3, RolesAssumption, NamesAssumption DEF UpdateUserAssert, AssertCanManageRole
  <2>4. CASE UpdateUserWrite(r)
      BY <2>4, RolesAssumption, NamesAssumption DEF UpdateUserWrite
  <2>5. ASSUME NEW taken \in BOOLEAN, InsertUser(r, taken) PROVE CallsCreateOnce'
      BY <2>5, RolesAssumption, NamesAssumption DEF InsertUser
  <2>6. ASSUME NEW a \in AccountIds, NEW i \in RoleIds \cup {Keep},
             NEW b \in BOOLEAN \cup {Keep}, UpdateUserRead(r, a, i, b) PROVE CallsCreateOnce'
      BY <2>6, RolesAssumption, NamesAssumption DEF UpdateUserRead
  <2> HIDE DEF TypeOK, WritesStayBelow, CallsCreateOnce, LevelsAreBounded, RoleIds, AccountIds, Labels, Operations, Goto, Exists, LevelOf, dbRoles, dbUsers, dto
  <2> QED BY <1>2, <2>1, <2>2, <2>3, <2>4, <2>5, <2>6 DEF HandleUser
<1>3. ASSUME NEW r \in Requests, HandleRole(r) PROVE CallsCreateOnce'
  <2>1. ASSUME NEW l \in Levels, NEW c \in Caps \cup {NoCap},
             NEW taken \in BOOLEAN, CreateRole(r, l, c, taken) PROVE CallsCreateOnce'
      BY <2>1, RolesAssumption, NamesAssumption DEF CreateRole
  <2>2. ASSUME NEW i \in RoleIds, NEW l \in Levels \cup {Keep},
             NEW c \in Caps \cup {NoCap, Keep}, UpdateRoleRead(r, i, l, c) PROVE CallsCreateOnce'
      BY <2>2, RolesAssumption, NamesAssumption DEF UpdateRoleRead
  <2>3. ASSUME NEW taken \in BOOLEAN, UpdateRoleWrite(r, taken) PROVE CallsCreateOnce'
      BY <2>3, RolesAssumption, NamesAssumption DEF UpdateRoleWrite
  <2>4. ASSUME NEW i \in RoleIds, RemoveRoleRead(r, i) PROVE CallsCreateOnce'
      BY <2>4, RolesAssumption, NamesAssumption DEF RemoveRoleRead, InUse
  <2>5. CASE RemoveRoleDelete(r)
      BY <2>5, RolesAssumption, NamesAssumption DEF RemoveRoleDelete, InUse
  <2> HIDE DEF TypeOK, WritesStayBelow, CallsCreateOnce, LevelsAreBounded, RoleIds, AccountIds, Labels, Operations, Goto, Exists, LevelOf, dbRoles, dbUsers, dto
  <2> QED BY <1>3, <2>1, <2>2, <2>3, <2>4, <2>5 DEF HandleRole
<1>4. ASSUME NEW a \in AccountIds, PasswordChanged(a) PROVE CallsCreateOnce'
    BY <1>4 DEF PasswordChanged
<1>5. CASE UNCHANGED vars
      BY <1>5 DEF vars
<1> QED BY <1>1, <1>2, <1>3, <1>4, <1>5 DEF Next

\* The foreign key keeps every account its role.
LEMMA RoleKept == TypeOK /\ WritesStayBelow /\ AccountsKeepARole /\ CallsCreateOnce /\ [Next]_vars => AccountsKeepARole'
<1> SUFFICES ASSUME TypeOK, WritesStayBelow, AccountsKeepARole, CallsCreateOnce, [Next]_vars PROVE AccountsKeepARole'
    OBVIOUS
<1> USE DEF TypeOK, WritesStayBelow, AccountsKeepARole, CallsCreateOnce, RoleIds, AccountIds, Goto, Exists, LevelOf, dbRoles, dbUsers, dto
<1>1. ASSUME NEW r \in Requests, NEW a \in AccountIds, NEW op \in Operations, Guard(r, a, op) PROVE AccountsKeepARole'
    BY <1>1, RolesAssumption, NamesAssumption DEF Guard, Validated, PasswordSettled, HasRole
<1>2. ASSUME NEW r \in Requests, HandleUser(r) PROVE AccountsKeepARole'
  <2>1. ASSUME NEW i \in RoleIds, CreateUserAssert(r, i) PROVE AccountsKeepARole'
      BY <2>1, RolesAssumption, NamesAssumption DEF CreateUserAssert, AssertCanManageRole
  <2>2. CASE CountActive(r)
      BY <2>2, RolesAssumption, NamesAssumption DEF CountActive, AfterAssert
  <2>3. CASE UpdateUserAssert(r)
      BY <2>3, RolesAssumption, NamesAssumption DEF UpdateUserAssert, AssertCanManageRole
  <2>4. CASE UpdateUserWrite(r)
      BY <2>4, RolesAssumption, NamesAssumption DEF UpdateUserWrite
  <2>5. ASSUME NEW taken \in BOOLEAN, InsertUser(r, taken) PROVE AccountsKeepARole'
    <3>1. CASE pc'[r] = "done"
      <4>1. role[r] \in roles /\ roleOf' = [roleOf EXCEPT ![r] = role[r]] /\ roles' = roles
            BY <2>5, <3>1 DEF InsertUser
      <4> QED BY <4>1
    <3>2. CASE pc'[r] # "done"
          BY <2>5, <3>2 DEF InsertUser
    <3> QED BY <3>1, <3>2
  <2>6. ASSUME NEW a \in AccountIds, NEW i \in RoleIds \cup {Keep},
             NEW b \in BOOLEAN \cup {Keep}, UpdateUserRead(r, a, i, b) PROVE AccountsKeepARole'
      BY <2>6, RolesAssumption, NamesAssumption DEF UpdateUserRead
  <2> HIDE DEF TypeOK, WritesStayBelow, AccountsKeepARole, CallsCreateOnce, RoleIds, AccountIds, Goto, Exists, LevelOf, dbRoles, dbUsers, dto
  <2> QED BY <1>2, <2>1, <2>2, <2>3, <2>4, <2>5, <2>6 DEF HandleUser
<1>3. ASSUME NEW r \in Requests, HandleRole(r) PROVE AccountsKeepARole'
  <2>1. ASSUME NEW l \in Levels, NEW c \in Caps \cup {NoCap},
             NEW taken \in BOOLEAN, CreateRole(r, l, c, taken) PROVE AccountsKeepARole'
      BY <2>1, RolesAssumption, NamesAssumption DEF CreateRole
  <2>2. ASSUME NEW i \in RoleIds, NEW l \in Levels \cup {Keep},
             NEW c \in Caps \cup {NoCap, Keep}, UpdateRoleRead(r, i, l, c) PROVE AccountsKeepARole'
      BY <2>2, RolesAssumption, NamesAssumption DEF UpdateRoleRead
  <2>3. ASSUME NEW taken \in BOOLEAN, UpdateRoleWrite(r, taken) PROVE AccountsKeepARole'
      BY <2>3, RolesAssumption, NamesAssumption DEF UpdateRoleWrite
  <2>4. ASSUME NEW i \in RoleIds, RemoveRoleRead(r, i) PROVE AccountsKeepARole'
      BY <2>4, RolesAssumption, NamesAssumption DEF RemoveRoleRead, InUse
  <2>5. CASE RemoveRoleDelete(r)
      BY <2>5, RolesAssumption, NamesAssumption DEF RemoveRoleDelete, InUse
  <2> HIDE DEF TypeOK, WritesStayBelow, AccountsKeepARole, CallsCreateOnce, RoleIds, AccountIds, Goto, Exists, LevelOf, dbRoles, dbUsers, dto
  <2> QED BY <1>3, <2>1, <2>2, <2>3, <2>4, <2>5 DEF HandleRole
<1>4. ASSUME NEW a \in AccountIds, PasswordChanged(a) PROVE AccountsKeepARole'
    BY <1>4 DEF PasswordChanged
<1>5. CASE UNCHANGED vars
      BY <1>5 DEF vars
<1> QED BY <1>1, <1>2, <1>3, <1>4, <1>5 DEF Next

\* Nothing edits or removes a seeded role.
LEMMA SystemStep == TypeOK /\ LevelsAreBounded /\ SystemRolesAreFixed /\ [Next]_vars => SystemRolesAreFixed'
<1> SUFFICES ASSUME TypeOK, LevelsAreBounded, SystemRolesAreFixed, [Next]_vars PROVE SystemRolesAreFixed'
    OBVIOUS
<1> USE DEF TypeOK, LevelsAreBounded, SystemRolesAreFixed, RoleIds, Goto, Exists, LevelOf, dbRoles, dbUsers, dto
<1>1. ASSUME NEW r \in Requests, NEW a \in AccountIds, NEW op \in Operations, Guard(r, a, op) PROVE SystemRolesAreFixed'
    BY <1>1, RolesAssumption, NamesAssumption DEF Guard, Validated, PasswordSettled, HasRole
<1>2. ASSUME NEW r \in Requests, HandleUser(r) PROVE SystemRolesAreFixed'
  <2>1. ASSUME NEW i \in RoleIds, CreateUserAssert(r, i) PROVE SystemRolesAreFixed'
      BY <2>1, RolesAssumption, NamesAssumption DEF CreateUserAssert, AssertCanManageRole
  <2>2. CASE CountActive(r)
      BY <2>2, RolesAssumption, NamesAssumption DEF CountActive, AfterAssert
  <2>3. CASE UpdateUserAssert(r)
      BY <2>3, RolesAssumption, NamesAssumption DEF UpdateUserAssert, AssertCanManageRole
  <2>4. CASE UpdateUserWrite(r)
      BY <2>4, RolesAssumption, NamesAssumption DEF UpdateUserWrite
  <2>5. ASSUME NEW taken \in BOOLEAN, InsertUser(r, taken) PROVE SystemRolesAreFixed'
      BY <2>5, RolesAssumption, NamesAssumption DEF InsertUser
  <2>6. ASSUME NEW a \in AccountIds, NEW i \in RoleIds \cup {Keep},
             NEW b \in BOOLEAN \cup {Keep}, UpdateUserRead(r, a, i, b) PROVE SystemRolesAreFixed'
      BY <2>6, RolesAssumption, NamesAssumption DEF UpdateUserRead
  <2> HIDE DEF TypeOK, LevelsAreBounded, SystemRolesAreFixed, RoleIds, Goto, Exists, LevelOf, dbRoles, dbUsers, dto
  <2> QED BY <1>2, <2>1, <2>2, <2>3, <2>4, <2>5, <2>6 DEF HandleUser
<1>3. ASSUME NEW r \in Requests, HandleRole(r) PROVE SystemRolesAreFixed'
  <2>1. ASSUME NEW l \in Levels, NEW c \in Caps \cup {NoCap},
             NEW taken \in BOOLEAN, CreateRole(r, l, c, taken) PROVE SystemRolesAreFixed'
      BY <2>1, RolesAssumption, NamesAssumption DEF CreateRole
  <2>2. ASSUME NEW i \in RoleIds, NEW l \in Levels \cup {Keep},
             NEW c \in Caps \cup {NoCap, Keep}, UpdateRoleRead(r, i, l, c) PROVE SystemRolesAreFixed'
      BY <2>2, RolesAssumption, NamesAssumption DEF UpdateRoleRead
  <2>3. ASSUME NEW taken \in BOOLEAN, UpdateRoleWrite(r, taken) PROVE SystemRolesAreFixed'
      BY <2>3, RolesAssumption, NamesAssumption DEF UpdateRoleWrite
  <2>4. ASSUME NEW i \in RoleIds, RemoveRoleRead(r, i) PROVE SystemRolesAreFixed'
      BY <2>4, RolesAssumption, NamesAssumption DEF RemoveRoleRead, InUse
  <2>5. CASE RemoveRoleDelete(r)
      BY <2>5, RolesAssumption, NamesAssumption DEF RemoveRoleDelete, InUse
  <2> HIDE DEF TypeOK, LevelsAreBounded, SystemRolesAreFixed, RoleIds, Goto, Exists, LevelOf, dbRoles, dbUsers, dto
  <2> QED BY <1>3, <2>1, <2>2, <2>3, <2>4, <2>5 DEF HandleRole
<1>4. ASSUME NEW a \in AccountIds, PasswordChanged(a) PROVE SystemRolesAreFixed'
    BY <1>4 DEF PasswordChanged
<1>5. CASE UNCHANGED vars
      BY <1>5 DEF vars
<1> QED BY <1>1, <1>2, <1>3, <1>4, <1>5 DEF Next

\* Every rank, and every level that is not the seed's, is bounded by the top.
LEMMA BoundStep == TypeOK /\ CallsCreateOnce /\ SystemRolesAreFixed /\ AccountsKeepARole /\ LevelsAreBounded /\ [Next]_vars => LevelsAreBounded'
<1> SUFFICES ASSUME TypeOK, CallsCreateOnce, SystemRolesAreFixed, AccountsKeepARole, LevelsAreBounded, [Next]_vars PROVE LevelsAreBounded'
    OBVIOUS
<1> USE DEF TypeOK, CallsCreateOnce, SystemRolesAreFixed, AccountsKeepARole, LevelsAreBounded, RoleIds, Labels, Operations, Goto, Exists, LevelOf, dbRoles, dbUsers, dto
<1>1. ASSUME NEW r \in Requests, NEW a \in AccountIds, NEW op \in Operations, Guard(r, a, op) PROVE LevelsAreBounded'
  <2>1. UNCHANGED <<roles, level, role, newLevel, newCap>>
        BY <1>1 DEF Guard
  <2>2. pc'[r] \notin {"editRole", "deleteRole"}
        BY <1>1 DEF Guard
  <2>3. \A s \in Requests \ {r} : pc'[s] = pc[s] /\ rank'[s] = rank[s]
        BY <1>1 DEF Guard
  <2>4. rank'[r] = rank[r] \/ rank'[r] = LevelOf(a)
        BY <1>1 DEF Guard
  <2>5. LevelOf(a) <= Top
    <3>1. roleOf[a] \in roles /\ roleOf[a] \in RoleIds
          BY <1>1 DEF Guard
    <3>2. CASE roleOf[a] \in SystemRoles
          BY <3>2, RolesAssumption
    <3>3. CASE roleOf[a] \notin SystemRoles
          BY <3>1, <3>3, RolesAssumption
    <3> QED BY <3>2, <3>3
  <2>6. rank'[r] <= Top
        BY <2>4, <2>5
  <2> HIDE DEF LevelOf
  <2> QED BY <2>1, <2>2, <2>3, <2>6
<1>2. ASSUME NEW r \in Requests, HandleUser(r) PROVE LevelsAreBounded'
  <2>1. ASSUME NEW i \in RoleIds, CreateUserAssert(r, i) PROVE LevelsAreBounded'
      BY <2>1, RolesAssumption, NamesAssumption DEF CreateUserAssert, AssertCanManageRole
  <2>2. CASE CountActive(r)
      BY <2>2, RolesAssumption, NamesAssumption DEF CountActive, AfterAssert
  <2>3. CASE UpdateUserAssert(r)
      BY <2>3, RolesAssumption, NamesAssumption DEF UpdateUserAssert, AssertCanManageRole
  <2>4. CASE UpdateUserWrite(r)
      BY <2>4, RolesAssumption, NamesAssumption DEF UpdateUserWrite
  <2>5. ASSUME NEW taken \in BOOLEAN, InsertUser(r, taken) PROVE LevelsAreBounded'
      BY <2>5, RolesAssumption, NamesAssumption DEF InsertUser
  <2>6. ASSUME NEW a \in AccountIds, NEW i \in RoleIds \cup {Keep},
             NEW b \in BOOLEAN \cup {Keep}, UpdateUserRead(r, a, i, b) PROVE LevelsAreBounded'
    <3>1. UNCHANGED <<roles, level, rank, newLevel, newCap>>
          BY <2>6 DEF UpdateUserRead
    <3>2. pc'[r] \notin {"editRole", "deleteRole"}
          BY <2>6 DEF UpdateUserRead
    <3>3. \A s \in Requests \ {r} : pc'[s] = pc[s] /\ role'[s] = role[s]
          BY <2>6 DEF UpdateUserRead
    <3> QED BY <3>1, <3>2, <3>3
  <2> HIDE DEF TypeOK, CallsCreateOnce, SystemRolesAreFixed, AccountsKeepARole, LevelsAreBounded, RoleIds, Labels, Operations, Goto, Exists, LevelOf, dbRoles, dbUsers, dto
  <2> QED BY <1>2, <2>1, <2>2, <2>3, <2>4, <2>5, <2>6 DEF HandleUser
<1>3. ASSUME NEW r \in Requests, HandleRole(r) PROVE LevelsAreBounded'
  <2>1. ASSUME NEW l \in Levels, NEW c \in Caps \cup {NoCap},
             NEW taken \in BOOLEAN, CreateRole(r, l, c, taken) PROVE LevelsAreBounded'
      BY <2>1, RolesAssumption, NamesAssumption DEF CreateRole
  <2>2. ASSUME NEW i \in RoleIds, NEW l \in Levels \cup {Keep},
             NEW c \in Caps \cup {NoCap, Keep}, UpdateRoleRead(r, i, l, c) PROVE LevelsAreBounded'
      BY <2>2, RolesAssumption, NamesAssumption DEF UpdateRoleRead
  <2>3. ASSUME NEW taken \in BOOLEAN, UpdateRoleWrite(r, taken) PROVE LevelsAreBounded'
      BY <2>3, RolesAssumption, NamesAssumption DEF UpdateRoleWrite
  <2>4. ASSUME NEW i \in RoleIds, RemoveRoleRead(r, i) PROVE LevelsAreBounded'
      BY <2>4, RolesAssumption, NamesAssumption DEF RemoveRoleRead, InUse
  <2>5. CASE RemoveRoleDelete(r)
      BY <2>5, RolesAssumption, NamesAssumption DEF RemoveRoleDelete, InUse
  <2> HIDE DEF TypeOK, CallsCreateOnce, SystemRolesAreFixed, AccountsKeepARole, LevelsAreBounded, RoleIds, Labels, Operations, Goto, Exists, LevelOf, dbRoles, dbUsers, dto
  <2> QED BY <1>3, <2>1, <2>2, <2>3, <2>4, <2>5 DEF HandleRole
<1>4. ASSUME NEW a \in AccountIds, PasswordChanged(a) PROVE LevelsAreBounded'
    BY <1>4 DEF PasswordChanged
<1>5. CASE UNCHANGED vars
      BY <1>5 DEF vars
<1> QED BY <1>1, <1>2, <1>3, <1>4, <1>5 DEF Next

\* A call about to write has a role and an account below the top at hand.
LEMMA BelowStep == TypeOK /\ CallsCreateOnce /\ SystemRolesAreFixed /\ AccountsKeepARole /\ LevelsAreBounded /\ NobodyReachesTheTop /\ WritesStayBelow /\ [Next]_vars => WritesStayBelow'
<1> SUFFICES ASSUME TypeOK, CallsCreateOnce, SystemRolesAreFixed, AccountsKeepARole, LevelsAreBounded, NobodyReachesTheTop, WritesStayBelow, [Next]_vars PROVE WritesStayBelow'
    OBVIOUS
<1> USE DEF TypeOK, CallsCreateOnce, SystemRolesAreFixed, AccountsKeepARole, LevelsAreBounded, NobodyReachesTheTop, WritesStayBelow, RoleIds, AccountIds, Labels, Operations, Goto, Exists, LevelOf, dbRoles, dbUsers, dto
<1>1. ASSUME NEW r \in Requests, NEW a \in AccountIds, NEW op \in Operations, Guard(r, a, op) PROVE WritesStayBelow'
    BY <1>1, RolesAssumption, NamesAssumption DEF Guard, Validated, PasswordSettled, HasRole
<1>2. ASSUME NEW r \in Requests, HandleUser(r) PROVE WritesStayBelow'
  <2>1. ASSUME NEW i \in RoleIds, CreateUserAssert(r, i) PROVE WritesStayBelow'
      BY <2>1, RolesAssumption, NamesAssumption DEF CreateUserAssert, AssertCanManageRole
  <2>2. CASE CountActive(r)
      BY <2>2, RolesAssumption, NamesAssumption DEF CountActive, AfterAssert
  <2>3. CASE UpdateUserAssert(r)
      BY <2>3, RolesAssumption, NamesAssumption DEF UpdateUserAssert, AssertCanManageRole
  <2>4. CASE UpdateUserWrite(r)
      BY <2>4, RolesAssumption, NamesAssumption DEF UpdateUserWrite
  <2>5. ASSUME NEW taken \in BOOLEAN, InsertUser(r, taken) PROVE WritesStayBelow'
      BY <2>5, RolesAssumption, NamesAssumption DEF InsertUser
  <2>6. ASSUME NEW a \in AccountIds, NEW i \in RoleIds \cup {Keep},
             NEW b \in BOOLEAN \cup {Keep}, UpdateUserRead(r, a, i, b) PROVE WritesStayBelow'
    <3>1. CASE Exists(a) /\ LevelOf(a) < rank[r]
      <4>1. target' = [target EXCEPT ![r] = a] /\ role' = [role EXCEPT ![r] = i]
            BY <2>6, <3>1 DEF UpdateUserRead
      <4>2. pc' = [pc EXCEPT ![r] = IF i = Keep THEN "write" ELSE "assert"]
            BY <2>6, <3>1 DEF UpdateUserRead
      <4>3. UNCHANGED <<roleOf, level, rank>>
            BY <2>6 DEF UpdateUserRead
      <4>4. a \in Seeded => SystemLevel[SeededRole[a]] < Top
        <5> SUFFICES ASSUME a \in Seeded PROVE SystemLevel[SeededRole[a]] < Top
            OBVIOUS
        <5>1. SeededRole[a] \in SystemRoles
              BY RolesAssumption
        <5>2. SystemLevel[SeededRole[a]] \in Nat /\ SystemLevel[SeededRole[a]] <= Top
              BY <5>1, RolesAssumption
        <5>3. CASE SystemLevel[SeededRole[a]] = Top
          <6>1. roleOf[a] = SeededRole[a]
                BY <5>3
          <6>2. LevelOf(a) = Top
                BY <5>1, <5>3, <6>1
          <6>3. rank[r] \in Nat /\ rank[r] <= Top /\ Top \in Nat
                BY RolesAssumption
          <6> HIDE DEF TypeOK, CallsCreateOnce, SystemRolesAreFixed, AccountsKeepARole, LevelsAreBounded, NobodyReachesTheTop, WritesStayBelow, LevelOf
          <6> QED BY <3>1, <6>2, <6>3
        <5>4. Top \in Nat
              BY RolesAssumption
        <5> HIDE DEF TypeOK, CallsCreateOnce, SystemRolesAreFixed, AccountsKeepARole, LevelsAreBounded, NobodyReachesTheTop, WritesStayBelow, LevelOf
        <5> QED BY <5>2, <5>3, <5>4
      <4> QED BY <3>1, <4>1, <4>2, <4>3, <4>4, NamesAssumption
    <3>2. CASE ~(Exists(a) /\ LevelOf(a) < rank[r])
      <4>1. pc' = [pc EXCEPT ![r] = "denied"]
            BY <2>6, <3>2 DEF UpdateUserRead
      <4>2. UNCHANGED <<target, role, roleOf>>
            BY <2>6, <3>2 DEF UpdateUserRead
      <4> QED BY <4>1, <4>2
    <3> QED BY <3>1, <3>2
  <2> HIDE DEF TypeOK, CallsCreateOnce, SystemRolesAreFixed, AccountsKeepARole, LevelsAreBounded, NobodyReachesTheTop, WritesStayBelow, RoleIds, AccountIds, Labels, Operations, Goto, Exists, LevelOf, dbRoles, dbUsers, dto
  <2> QED BY <1>2, <2>1, <2>2, <2>3, <2>4, <2>5, <2>6 DEF HandleUser
<1>3. ASSUME NEW r \in Requests, HandleRole(r) PROVE WritesStayBelow'
  <2>1. ASSUME NEW l \in Levels, NEW c \in Caps \cup {NoCap},
             NEW taken \in BOOLEAN, CreateRole(r, l, c, taken) PROVE WritesStayBelow'
      BY <2>1, RolesAssumption, NamesAssumption DEF CreateRole
  <2>2. ASSUME NEW i \in RoleIds, NEW l \in Levels \cup {Keep},
             NEW c \in Caps \cup {NoCap, Keep}, UpdateRoleRead(r, i, l, c) PROVE WritesStayBelow'
      BY <2>2, RolesAssumption, NamesAssumption DEF UpdateRoleRead
  <2>3. ASSUME NEW taken \in BOOLEAN, UpdateRoleWrite(r, taken) PROVE WritesStayBelow'
      BY <2>3, RolesAssumption, NamesAssumption DEF UpdateRoleWrite
  <2>4. ASSUME NEW i \in RoleIds, RemoveRoleRead(r, i) PROVE WritesStayBelow'
      BY <2>4, RolesAssumption, NamesAssumption DEF RemoveRoleRead, InUse
  <2>5. CASE RemoveRoleDelete(r)
      BY <2>5, RolesAssumption, NamesAssumption DEF RemoveRoleDelete, InUse
  <2> HIDE DEF TypeOK, CallsCreateOnce, SystemRolesAreFixed, AccountsKeepARole, LevelsAreBounded, NobodyReachesTheTop, WritesStayBelow, RoleIds, AccountIds, Labels, Operations, Goto, Exists, LevelOf, dbRoles, dbUsers, dto
  <2> QED BY <1>3, <2>1, <2>2, <2>3, <2>4, <2>5 DEF HandleRole
<1>4. ASSUME NEW a \in AccountIds, PasswordChanged(a) PROVE WritesStayBelow'
    BY <1>4 DEF PasswordChanged
<1>5. CASE UNCHANGED vars
      BY <1>5 DEF vars
<1> QED BY <1>1, <1>2, <1>3, <1>4, <1>5 DEF Next

\* No write reaches an account of the top, or takes one there.
LEMMA TopStep == TypeOK /\ CallsCreateOnce /\ SystemRolesAreFixed /\ AccountsKeepARole /\ LevelsAreBounded /\ NobodyReachesTheTop /\ WritesStayBelow /\ [Next]_vars => NobodyReachesTheTop'
<1> SUFFICES ASSUME TypeOK, CallsCreateOnce, SystemRolesAreFixed, AccountsKeepARole, LevelsAreBounded, NobodyReachesTheTop, WritesStayBelow, [Next]_vars PROVE NobodyReachesTheTop'
    OBVIOUS
<1> USE DEF TypeOK, CallsCreateOnce, SystemRolesAreFixed, AccountsKeepARole, LevelsAreBounded, NobodyReachesTheTop, WritesStayBelow, RoleIds, AccountIds, Goto, Exists, LevelOf, dbRoles, dbUsers, dto
<1>1. ASSUME NEW r \in Requests, NEW a \in AccountIds, NEW op \in Operations, Guard(r, a, op) PROVE NobodyReachesTheTop'
    BY <1>1, RolesAssumption, NamesAssumption DEF Guard, Validated, PasswordSettled, HasRole
<1>2. ASSUME NEW r \in Requests, HandleUser(r) PROVE NobodyReachesTheTop'
  <2>1. ASSUME NEW i \in RoleIds, CreateUserAssert(r, i) PROVE NobodyReachesTheTop'
      BY <2>1, RolesAssumption, NamesAssumption DEF CreateUserAssert, AssertCanManageRole
  <2>2. CASE CountActive(r)
      BY <2>2, RolesAssumption, NamesAssumption DEF CountActive, AfterAssert
  <2>3. CASE UpdateUserAssert(r)
      BY <2>3, RolesAssumption, NamesAssumption DEF UpdateUserAssert, AssertCanManageRole
  <2>4. CASE UpdateUserWrite(r)
    <3>1. CASE role[r] \in roles \cup {Keep}
      <4>1. /\ target[r] \in AccountIds /\ Exists(target[r])
            /\ target[r] \in Seeded => SystemLevel[SeededRole[target[r]]] < Top
            BY <2>4 DEF UpdateUserWrite
      <4>2. role[r] # Keep => role[r] \in roles /\ level[role[r]] < Top
            BY <2>4, <3>1, RolesAssumption DEF UpdateUserWrite
      <4>3. /\ roleOf' = [roleOf EXCEPT ![target[r]] = IF role[r] = Keep THEN @ ELSE role[r]]
            /\ active' = [active EXCEPT ![target[r]] = IF isActive[r] = Keep THEN @ ELSE isActive[r]]
            /\ level' = level
            BY <2>4, <3>1 DEF UpdateUserWrite
      <4>4. \A x \in AccountIds \ {target[r]} : roleOf'[x] = roleOf[x] /\ active'[x] = active[x]
        <5> HIDE DEF NobodyReachesTheTop, WritesStayBelow, LevelsAreBounded, SystemRolesAreFixed,
                     CallsCreateOnce, AccountsKeepARole
        <5> QED BY <4>3
      <4>5. level[roleOf[target[r]]] \in Nat /\ Top \in Nat
            BY <4>1, RolesAssumption
      <4>6. level[roleOf[target[r]]] < Top
            BY <4>1, <4>5
      <4>7. roleOf'[target[r]] = IF role[r] = Keep THEN roleOf[target[r]] ELSE role[r]
        <5> HIDE DEF NobodyReachesTheTop, WritesStayBelow, LevelsAreBounded, SystemRolesAreFixed,
                     CallsCreateOnce, AccountsKeepARole
        <5> QED BY <4>1, <4>3
      <4>8. level[roleOf'[target[r]]] < Top /\ level[roleOf'[target[r]]] \in Nat
        <5>1. CASE role[r] = Keep
              BY <5>1, <4>5, <4>6, <4>7
        <5>2. CASE role[r] # Keep
              BY <5>2, <4>2, <4>7
        <5> QED BY <5>1, <5>2
      <4>9. ~(level[roleOf'[target[r]]] >= Top) /\ ~(SystemLevel[SeededRole[target[r]]] = Top /\ target[r] \in Seeded)
            BY <4>1, <4>5, <4>8, RolesAssumption
      <4> QED BY <4>3, <4>4, <4>9
    <3>2. CASE role[r] \notin roles \cup {Keep}
          BY <2>4, <3>2 DEF UpdateUserWrite
    <3> QED BY <3>1, <3>2
  <2>5. ASSUME NEW taken \in BOOLEAN, InsertUser(r, taken) PROVE NobodyReachesTheTop'
    <3>1. CASE pc'[r] = "done"
      <4>1. role[r] \in RoleIds /\ r \notin Seeded /\ role[r] \in roles
            BY <2>5, <3>1, NamesAssumption DEF InsertUser
      <4>2. level[role[r]] < Top
            BY <2>5, <4>1 DEF InsertUser
      <4>3. roleOf' = [roleOf EXCEPT ![r] = role[r]] /\ active' = [active EXCEPT ![r] = TRUE]
            BY <2>5, <3>1 DEF InsertUser
      <4>4. level' = level
            BY <2>5 DEF InsertUser
      <4>5. level[role[r]] \in Nat /\ Top \in Nat
            BY <4>1, RolesAssumption
      <4> QED BY <4>1, <4>2, <4>3, <4>4, <4>5
    <3>2. CASE pc'[r] # "done"
          BY <2>5, <3>2 DEF InsertUser
    <3> QED BY <3>1, <3>2
  <2>6. ASSUME NEW a \in AccountIds, NEW i \in RoleIds \cup {Keep},
             NEW b \in BOOLEAN \cup {Keep}, UpdateUserRead(r, a, i, b) PROVE NobodyReachesTheTop'
      BY <2>6, RolesAssumption, NamesAssumption DEF UpdateUserRead
  <2> HIDE DEF TypeOK, CallsCreateOnce, SystemRolesAreFixed, AccountsKeepARole, LevelsAreBounded, NobodyReachesTheTop, WritesStayBelow, RoleIds, AccountIds, Goto, Exists, LevelOf, dbRoles, dbUsers, dto
  <2> QED BY <1>2, <2>1, <2>2, <2>3, <2>4, <2>5, <2>6 DEF HandleUser
<1>3. ASSUME NEW r \in Requests, HandleRole(r) PROVE NobodyReachesTheTop'
  <2>1. ASSUME NEW l \in Levels, NEW c \in Caps \cup {NoCap},
             NEW taken \in BOOLEAN, CreateRole(r, l, c, taken) PROVE NobodyReachesTheTop'
    <3>1. CASE pc'[r] = "done"
      <4>1. l < Top /\ l \in Nat /\ r \notin roles /\ r \notin SystemRoles
            BY <2>1, <3>1, RolesAssumption, NamesAssumption DEF CreateRole
      <4>2. level' = [level EXCEPT ![r] = l] /\ UNCHANGED <<roleOf, active>>
            BY <2>1, <3>1 DEF CreateRole
      <4>3. \A x \in AccountIds : Exists(x) => roleOf[x] # r
            BY <4>1
      <4>4. \A x \in AccountIds : Exists(x) => LevelOf(x)' = LevelOf(x)
            BY <4>2, <4>3
      <4> HIDE DEF LevelOf
      <4> QED BY <4>2, <4>4
    <3>2. CASE pc'[r] # "done"
          BY <2>1, <3>2 DEF CreateRole
    <3> QED BY <3>1, <3>2
  <2>2. ASSUME NEW i \in RoleIds, NEW l \in Levels \cup {Keep},
             NEW c \in Caps \cup {NoCap, Keep}, UpdateRoleRead(r, i, l, c) PROVE NobodyReachesTheTop'
      BY <2>2, RolesAssumption, NamesAssumption DEF UpdateRoleRead
  <2>3. ASSUME NEW taken \in BOOLEAN, UpdateRoleWrite(r, taken) PROVE NobodyReachesTheTop'
    <3>1. UNCHANGED <<roleOf, active>>
          BY <2>3 DEF UpdateRoleWrite
    <3>2. CASE UNCHANGED level
          BY <3>1, <3>2
    <3>3. CASE level' # level
      <4>1. /\ role[r] \in RoleIds /\ newLevel[r] # Keep /\ newLevel[r] \in Nat
            /\ newLevel[r] < rank[r] /\ rank[r] <= Top
        <5>1. pc[r] = "editRole" /\ newLevel[r] # Keep
              BY <2>3, <3>3 DEF UpdateRoleWrite
        <5> QED BY <5>1
      <4>2. level' = [level EXCEPT ![role[r]] = newLevel[r]]
            BY <2>3, <3>3, <4>1 DEF UpdateRoleWrite
      <4>3. newLevel[r] < Top /\ ~(newLevel[r] >= Top)
            BY <4>1, RolesAssumption
      <4>4. \A x \in AccountIds : Exists(x)' /\ LevelOf(x)' >= Top => Exists(x) /\ LevelOf(x) >= Top
            BY <3>1, <4>2, <4>3
      <4> HIDE DEF LevelOf, Exists
      <4> QED BY <3>1, <4>4
    <3> QED BY <3>2, <3>3
  <2>4. ASSUME NEW i \in RoleIds, RemoveRoleRead(r, i) PROVE NobodyReachesTheTop'
      BY <2>4, RolesAssumption, NamesAssumption DEF RemoveRoleRead, InUse
  <2>5. CASE RemoveRoleDelete(r)
      BY <2>5, RolesAssumption, NamesAssumption DEF RemoveRoleDelete, InUse
  <2> HIDE DEF TypeOK, CallsCreateOnce, SystemRolesAreFixed, AccountsKeepARole, LevelsAreBounded, NobodyReachesTheTop, WritesStayBelow, RoleIds, AccountIds, Goto, Exists, LevelOf, dbRoles, dbUsers, dto
  <2> QED BY <1>3, <2>1, <2>2, <2>3, <2>4, <2>5 DEF HandleRole
<1>4. ASSUME NEW a \in AccountIds, PasswordChanged(a) PROVE NobodyReachesTheTop'
    BY <1>4 DEF PasswordChanged
<1>5. CASE UNCHANGED vars
      BY <1>5 DEF vars
<1> QED BY <1>1, <1>2, <1>3, <1>4, <1>5 DEF Next

\* A temporary password, once replaced, does not come back.
LEMMA PendingStep == TypeOK /\ CallsCreateOnce /\ WritesStayBelow /\ PendingAccountsDoNotAct /\ [Next]_vars => PendingAccountsDoNotAct'
<1> SUFFICES ASSUME TypeOK, CallsCreateOnce, WritesStayBelow, PendingAccountsDoNotAct, [Next]_vars PROVE PendingAccountsDoNotAct'
    OBVIOUS
<1> USE DEF TypeOK, CallsCreateOnce, WritesStayBelow, PendingAccountsDoNotAct, RoleIds, AccountIds, Labels, Operations, Goto, Exists, LevelOf, dbRoles, dbUsers, dto
<1>1. ASSUME NEW r \in Requests, NEW a \in AccountIds, NEW op \in Operations, Guard(r, a, op) PROVE PendingAccountsDoNotAct'
    BY <1>1, RolesAssumption, NamesAssumption DEF Guard, Validated, PasswordSettled, HasRole
<1>2. ASSUME NEW r \in Requests, HandleUser(r) PROVE PendingAccountsDoNotAct'
  <2>1. ASSUME NEW i \in RoleIds, CreateUserAssert(r, i) PROVE PendingAccountsDoNotAct'
      BY <2>1, RolesAssumption, NamesAssumption DEF CreateUserAssert, AssertCanManageRole
  <2>2. CASE CountActive(r)
      BY <2>2, RolesAssumption, NamesAssumption DEF CountActive, AfterAssert
  <2>3. CASE UpdateUserAssert(r)
      BY <2>3, RolesAssumption, NamesAssumption DEF UpdateUserAssert, AssertCanManageRole
  <2>4. CASE UpdateUserWrite(r)
    <3>1. UNCHANGED <<actor, mustChange>>
          BY <2>4 DEF UpdateUserWrite
    <3>2. \A a \in AccountIds : roleOf[a] # NoRole => roleOf'[a] # NoRole
          BY <2>4, NamesAssumption DEF UpdateUserWrite
    <3>3. \A s \in Requests : pc'[s] \notin {"idle", "denied"} => pc[s] \notin {"idle", "denied"}
      <4>1. pc[r] \notin {"idle", "denied"}
            BY <2>4 DEF UpdateUserWrite
      <4>2. \A s \in Requests \ {r} : pc'[s] = pc[s]
            BY <2>4 DEF UpdateUserWrite
      <4> QED BY <4>1, <4>2
    <3>4. ASSUME NEW s \in Requests, pc'[s] \notin {"idle", "denied"}
          PROVE  actor'[s] \in AccountIds /\ Exists(actor[s])' /\ ~mustChange'[actor'[s]]
      <4>1. actor[s] \in AccountIds /\ Exists(actor[s]) /\ ~mustChange[actor[s]]
            BY <3>3, <3>4
      <4>2. actor[s] \in AccountIds
            BY <3>3, <3>4
      <4> QED BY <3>1, <3>2, <4>1, <4>2
    <3> QED BY <3>4
  <2>5. ASSUME NEW taken \in BOOLEAN, InsertUser(r, taken) PROVE PendingAccountsDoNotAct'
    <3>1. actor' = actor /\ ~Exists(r)
          BY <2>5 DEF InsertUser
    <3>2. \A a \in AccountIds \ {r} : roleOf'[a] = roleOf[a] /\ mustChange'[a] = mustChange[a]
          BY <2>5 DEF InsertUser
    <3>3. \A s \in Requests : pc'[s] \notin {"idle", "denied"} => pc[s] \notin {"idle", "denied"}
      <4>1. pc[r] \notin {"idle", "denied"}
            BY <2>5 DEF InsertUser
      <4>2. \A s \in Requests \ {r} : pc'[s] = pc[s]
            BY <2>5 DEF InsertUser
      <4> QED BY <4>1, <4>2
    <3>4. ASSUME NEW s \in Requests, pc'[s] \notin {"idle", "denied"}
          PROVE  actor'[s] \in AccountIds /\ Exists(actor[s])' /\ ~mustChange'[actor'[s]]
      <4>1. actor[s] \in AccountIds /\ Exists(actor[s]) /\ ~mustChange[actor[s]]
            BY <3>3, <3>4
      <4>2. actor[s] \in AccountIds \ {r}
            BY <3>1, <4>1
      <4> QED BY <3>1, <3>2, <4>1, <4>2
    <3> QED BY <3>4
  <2>6. ASSUME NEW a \in AccountIds, NEW i \in RoleIds \cup {Keep},
             NEW b \in BOOLEAN \cup {Keep}, UpdateUserRead(r, a, i, b) PROVE PendingAccountsDoNotAct'
      BY <2>6, RolesAssumption, NamesAssumption DEF UpdateUserRead
  <2> HIDE DEF TypeOK, CallsCreateOnce, WritesStayBelow, PendingAccountsDoNotAct, RoleIds, AccountIds, Labels, Operations, Goto, Exists, LevelOf, dbRoles, dbUsers, dto
  <2> QED BY <1>2, <2>1, <2>2, <2>3, <2>4, <2>5, <2>6 DEF HandleUser
<1>3. ASSUME NEW r \in Requests, HandleRole(r) PROVE PendingAccountsDoNotAct'
  <2>1. ASSUME NEW l \in Levels, NEW c \in Caps \cup {NoCap},
             NEW taken \in BOOLEAN, CreateRole(r, l, c, taken) PROVE PendingAccountsDoNotAct'
      BY <2>1, RolesAssumption, NamesAssumption DEF CreateRole
  <2>2. ASSUME NEW i \in RoleIds, NEW l \in Levels \cup {Keep},
             NEW c \in Caps \cup {NoCap, Keep}, UpdateRoleRead(r, i, l, c) PROVE PendingAccountsDoNotAct'
      BY <2>2, RolesAssumption, NamesAssumption DEF UpdateRoleRead
  <2>3. ASSUME NEW taken \in BOOLEAN, UpdateRoleWrite(r, taken) PROVE PendingAccountsDoNotAct'
      BY <2>3, RolesAssumption, NamesAssumption DEF UpdateRoleWrite
  <2>4. ASSUME NEW i \in RoleIds, RemoveRoleRead(r, i) PROVE PendingAccountsDoNotAct'
      BY <2>4, RolesAssumption, NamesAssumption DEF RemoveRoleRead, InUse
  <2>5. CASE RemoveRoleDelete(r)
      BY <2>5, RolesAssumption, NamesAssumption DEF RemoveRoleDelete, InUse
  <2> HIDE DEF TypeOK, CallsCreateOnce, WritesStayBelow, PendingAccountsDoNotAct, RoleIds, AccountIds, Labels, Operations, Goto, Exists, LevelOf, dbRoles, dbUsers, dto
  <2> QED BY <1>3, <2>1, <2>2, <2>3, <2>4, <2>5 DEF HandleRole
<1>4. ASSUME NEW a \in AccountIds, PasswordChanged(a) PROVE PendingAccountsDoNotAct'
    BY <1>4 DEF PasswordChanged
<1>5. CASE UNCHANGED vars
      BY <1>5 DEF vars
<1> QED BY <1>1, <1>2, <1>3, <1>4, <1>5 DEF Next

\* The seed satisfies the invariant.
LEMMA InvInit == Init => AdministrationInv
<1> SUFFICES ASSUME Init PROVE AdministrationInv
    OBVIOUS
<1> USE DEF Init, RoleIds, AccountIds
<1>1. TypeOK
      BY RolesAssumption DEF TypeOK, Labels
<1>2. AccountsKeepARole /\ SystemRolesAreFixed
      BY RolesAssumption, NamesAssumption DEF AccountsKeepARole, SystemRolesAreFixed, Exists
<1>3. NobodyReachesTheTop
  <2> SUFFICES ASSUME NEW a \in AccountIds
               PROVE  /\ a \in Seeded /\ SystemLevel[SeededRole[a]] = Top
                           => roleOf[a] = SeededRole[a] /\ active[a]
                      /\ Exists(a) /\ LevelOf(a) >= Top
                           => a \in Seeded /\ SystemLevel[SeededRole[a]] = Top
      BY DEF NobodyReachesTheTop
  <2>1. CASE a \in Seeded
    <3>1. SeededRole[a] \in SystemRoles /\ SystemLevel[SeededRole[a]] \in Nat
          BY <2>1, RolesAssumption
    <3>2. roleOf[a] = SeededRole[a] /\ LevelOf(a) = SystemLevel[SeededRole[a]]
          BY <2>1, <3>1 DEF LevelOf
    <3>3. SystemLevel[SeededRole[a]] = Top => a \notin Suspended
          BY RolesAssumption
    <3>4. SystemLevel[SeededRole[a]] <= Top
          BY <3>1, RolesAssumption
    <3>5. active[a] = (a \notin Suspended)
          BY <2>1
    <3>6. LevelOf(a) >= Top => SystemLevel[SeededRole[a]] = Top
          BY <3>1, <3>2, <3>4, RolesAssumption
    <3> QED BY <2>1, <3>2, <3>3, <3>5, <3>6
  <2>2. CASE a \notin Seeded
        BY <2>2 DEF Exists
  <2> QED BY <2>1, <2>2
<1>4. PendingAccountsDoNotAct /\ WritesStayBelow
      BY DEF PendingAccountsDoNotAct, WritesStayBelow
<1>5. LevelsAreBounded
      BY RolesAssumption DEF LevelsAreBounded
<1>6. CallsCreateOnce
      BY RolesAssumption, NamesAssumption DEF CallsCreateOnce, Exists
<1> QED BY <1>1, <1>2, <1>3, <1>4, <1>5, <1>6 DEF AdministrationInv

\* The invariant is inductive.
LEMMA InvStep == AdministrationInv /\ [Next]_vars => AdministrationInv'
BY TypeStep, OnceStep, RoleKept, SystemStep, BoundStep, BelowStep, TopStep, PendingStep
   DEF AdministrationInv

-----------------------------------------------------------------------------
(* The theorems                                                               *)

\* The inductive invariant holds of every behaviour.
THEOREM AdministrationInvariant == Spec => []AdministrationInv
BY InvInit, InvStep, PTL DEF Spec

\* Every variable keeps its type.
THEOREM AdministrationTypes == Spec => []TypeOK
<1>1. AdministrationInv => TypeOK
      BY DEF AdministrationInv
<1> QED BY <1>1, AdministrationInvariant, PTL

\* Whatever removals of roles race with their assignments (RolesService.remove
\* against UsersService.create and update), no account loses its role.
THEOREM AccountsKeepTheirRole == Spec => []AccountsKeepARole
<1>1. AdministrationInv => AccountsKeepARole
      BY DEF AdministrationInv
<1> QED BY <1>1, AdministrationInvariant, PTL

\* RolesService never removes a seeded role, nor changes its level or cap.
THEOREM SystemRolesStay == Spec => []SystemRolesAreFixed
<1>1. AdministrationInv => SystemRolesAreFixed
      BY DEF AdministrationInv
<1> QED BY <1>1, AdministrationInvariant, PTL

\* However calls race on stale reads, the accounts of the top level are the
\* seeded ones, in their role and active.
THEOREM TopIsClosed == Spec => []NobodyReachesTheTop
<1>1. AdministrationInv => NobodyReachesTheTop
      BY DEF AdministrationInv
<1> QED BY <1>1, AdministrationInvariant, PTL

\* JwtAuthGuard lets no account with a temporary password administer, and
\* none that got past it has one later.
THEOREM PendingAccountsStayOut == Spec => []PendingAccountsDoNotAct
<1>1. AdministrationInv => PendingAccountsDoNotAct
      BY DEF AdministrationInv
<1> QED BY <1>1, AdministrationInvariant, PTL

-----------------------------------------------------------------------------
(* The refinement                                                             *)

\* A call's mandate is its own: only its own steps change what it has been let
\* in for and what it has seen.
LEMMA OwnMandate ==
  ASSUME NEW r \in Requests,
         \A s \in Requests \ {r} : UNCHANGED <<pc[s], target[s], role[s]>>
  PROVE  /\ [s \in Requests |-> Mandate(s)]'
              = [[s \in Requests |-> Mandate(s)] EXCEPT ![r] = Mandate(r)']
         /\ [s \in Requests |-> Subject(s)]'
              = [[s \in Requests |-> Subject(s)] EXCEPT ![r] = Subject(r)']
         /\ [s \in Requests |-> Grant(s)]'
              = [[s \in Requests |-> Grant(s)] EXCEPT ![r] = Grant(r)']
<1>1. \A s \in Requests \ {r} :
        Mandate(s)' = Mandate(s) /\ Subject(s)' = Subject(s) /\ Grant(s)' = Grant(s)
      BY DEF Mandate, Subject, Grant
<1> QED BY <1>1

\* A call that is refused or has written ends its mandate.
LEMMA MandateEnds ==
  ASSUME TypeOK, NEW r \in Requests, NEW l \in {"done", "denied"},
         pc' = [pc EXCEPT ![r] = l], UNCHANGED rank,
         \A s \in Requests \ {r} : UNCHANGED <<target[s], role[s]>>
  PROVE  Chain!End(r)
<1>1. pc'[r] = l /\ \A s \in Requests \ {r} : pc'[s] = pc[s]
      BY DEF TypeOK
<1>2. Mandate(r)' = "over" /\ Subject(r)' = NoAccount /\ Grant(r)' = NoRole
      BY <1>1 DEF Mandate, Subject, Grant
<1> QED BY <1>1, <1>2, OwnMandate DEF Chain!End

\* A refusal changes no account and no role.
LEMMA RefusalRefuses ==
  ASSUME TypeOK, NEW r \in Requests, pc[r] \notin {"done", "denied"},
         NEW l \in {"done", "denied"}, pc' = [pc EXCEPT ![r] = l],
         UNCHANGED <<roles, level, dbUsers, rank>>,
         \A s \in Requests \ {r} : UNCHANGED <<target[s], role[s]>>
  PROVE  Chain!Next
<1>1. [s \in Requests |-> Mandate(s)][r] # "over"
      BY DEF Mandate
<1>2. Chain!End(r)
      BY MandateEnds
<1>3. Chain!Refuse(r)
      BY <1>1, <1>2 DEF Chain!Refuse, Chain!posts, Chain!people, dbUsers
<1> QED BY <1>3 DEF Chain!Next

\* A call past the guards has a mandate while it is suspended.
LEMMA MandateHeld ==
  ASSUME NEW r \in Requests, pc[r] \notin {"idle", "done", "denied"}
  PROVE  Chain!Holds(r)
BY DEF Chain!Holds, Mandate

\* The guards give the mandates (jwt.strategy, jwt-auth.guard, roles.guard).
LEMMA GuardGives ==
  ASSUME AdministrationInv, NEW r \in Requests, NEW a \in AccountIds,
         NEW op \in Operations, Guard(r, a, op)
  PROVE  Chain!Next
<1> USE DEF AdministrationInv
<1>1. CASE pc' = [pc EXCEPT ![r] = "denied"] /\ rank' = rank
      BY <1>1, RefusalRefuses DEF Guard, dbRoles, dto
<1>2. CASE ~(pc' = [pc EXCEPT ![r] = "denied"] /\ rank' = rank)
  <2>1. /\ Validated(a) /\ PasswordSettled(a) /\ HasRole(a)
        /\ pc[r] = "idle" /\ pc' = [pc EXCEPT ![r] = op]
        /\ rank' = [rank EXCEPT ![r] = LevelOf(a)]
        /\ UNCHANGED <<dbRoles, dbUsers, dto>>
        BY <1>2 DEF Guard, Goto
  <2>2. pc'[r] = op /\ \A s \in Requests \ {r} : pc'[s] = pc[s]
        BY <2>1 DEF TypeOK
  <2>3. /\ Mandate(r) = "unused" /\ Mandate(r)' = "held"
        /\ Subject(r)' = Subject(r) /\ Grant(r)' = Grant(r)
        BY <2>1, <2>2 DEF Mandate, Subject, Grant, Operations
  <2>4. \A s \in Requests \ {r} : UNCHANGED <<pc[s], target[s], role[s]>>
        BY <2>1, <2>2 DEF dto
  <2>5. Chain!Give(r, a)
        BY <2>1, <2>3, <2>4, OwnMandate
        DEF Chain!Give, Chain!posts, Chain!people, Validated, PasswordSettled, HasRole,
            LevelOf, dbRoles, dbUsers
  <2> QED BY <2>5 DEF Chain!Next
<1> QED BY <1>1, <1>2

\* assertCanManageRole lets a call give a role below its actor.
LEMMA AssertSeesPost ==
  ASSUME AdministrationInv, NEW r \in Requests, NEW i \in RoleIds,
         \/ pc[r] = "createUser" /\ AssertCanManageRole(r, i, "insert")
         \/ pc[r] = "assert" /\ i = role[r] /\ AssertCanManageRole(r, i, "write"),
         UNCHANGED <<dbRoles, dbUsers, rank, target>>
  PROVE  Chain!Next
<1> USE DEF AdministrationInv
<1>1. CASE pc' = [pc EXCEPT ![r] = "denied"] /\ role' = role
      BY <1>1, RefusalRefuses DEF dbRoles
<1>2. CASE ~(pc' = [pc EXCEPT ![r] = "denied"] /\ role' = role)
  <2>1. PICK l \in {"insert", "count", "write"} :
          /\ l = "insert" => pc[r] = "createUser"
          /\ l = "write" => pc[r] = "assert"
          /\ i \in roles /\ level[i] < rank[r] /\ role' = [role EXCEPT ![r] = i]
          /\ pc' = [pc EXCEPT ![r] = l]
        BY <1>2 DEF AssertCanManageRole, Goto
  <2>2. /\ pc'[r] = l /\ role'[r] = i /\ target' = target
        /\ \A s \in Requests \ {r} : UNCHANGED <<pc[s], role[s], target[s]>>
        BY <2>1 DEF TypeOK
  <2>3. i # Keep
        BY NamesAssumption
  <2>4. Mandate(r)' = Mandate(r) /\ Grant(r)' = i
        BY <2>1, <2>2, <2>3 DEF Mandate, Grant
  <2>5. Subject(r)' = Subject(r)
        BY <2>1, <2>2 DEF Subject, WritesStayBelow
  <2>6. Chain!Holds(r)
        BY MandateHeld
  <2>7. Chain!SeePost(r, i)
        BY <2>1, <2>2, <2>4, <2>5, OwnMandate
        DEF Chain!SeePost, Chain!posts, Chain!people, dbRoles, dbUsers
  <2> QED BY <2>6, <2>7 DEF Chain!Next, Chain!Act
<1> QED BY <1>1, <1>2

\* update reads an account below its actor.
LEMMA ReadSeesAccount ==
  ASSUME AdministrationInv, NEW r \in Requests, NEW a \in AccountIds,
         NEW i \in RoleIds \cup {Keep}, NEW b \in BOOLEAN \cup {Keep},
         UpdateUserRead(r, a, i, b)
  PROVE  Chain!Next
<1> USE DEF AdministrationInv
<1>1. CASE pc' = [pc EXCEPT ![r] = "denied"] /\ role' = role /\ target' = target
      BY <1>1, RefusalRefuses DEF UpdateUserRead, dbRoles
<1>2. CASE ~(pc' = [pc EXCEPT ![r] = "denied"] /\ role' = role /\ target' = target)
  <2>1. PICK l \in {"assert", "write"} :
          /\ Exists(a) /\ LevelOf(a) < rank[r]
          /\ l = "write" => i = Keep
          /\ target' = [target EXCEPT ![r] = a] /\ role' = [role EXCEPT ![r] = i]
          /\ pc' = [pc EXCEPT ![r] = l]
        BY <1>2 DEF UpdateUserRead, Goto
  <2>2. pc[r] = "updateUser" /\ UNCHANGED <<dbRoles, dbUsers, rank>>
        BY DEF UpdateUserRead
  <2>3. /\ pc'[r] = l /\ role'[r] = i /\ target'[r] = a
        /\ \A s \in Requests \ {r} : UNCHANGED <<pc[s], role[s], target[s]>>
        BY <2>1 DEF TypeOK
  <2>4. /\ Mandate(r)' = Mandate(r) /\ Grant(r)' = Grant(r) /\ Subject(r)' = a
        BY <2>1, <2>2, <2>3 DEF Mandate, Grant, Subject
  <2>5. Chain!Holds(r)
        BY <2>2, MandateHeld
  <2>6. Chain!SeeAccount(r, a)
        BY <2>1, <2>2, <2>3, <2>4, OwnMandate
        DEF Chain!SeeAccount, Chain!posts, Chain!people, dbRoles, dbUsers, Exists, LevelOf
  <2> QED BY <2>5, <2>6 DEF Chain!Next, Chain!Act
<1> QED BY <1>1, <1>2

\* The count of the holders of a role only refuses.
LEMMA CountRests ==
  ASSUME AdministrationInv, NEW r \in Requests, CountActive(r)
  PROVE  Chain!Next \/ UNCHANGED Chain!vars
<1> USE DEF AdministrationInv
<1>1. CASE pc' = [pc EXCEPT ![r] = "denied"]
      BY <1>1, RefusalRefuses DEF CountActive, dbRoles, dto
<1>2. CASE pc' # [pc EXCEPT ![r] = "denied"]
  <2>1. /\ pc[r] = "count" /\ pc' = [pc EXCEPT ![r] = AfterAssert(r)]
        /\ UNCHANGED <<dbRoles, dbUsers, rank, target, role>>
        BY <1>2 DEF CountActive, Goto, dto
  <2>2. pc'[r] = AfterAssert(r) /\ \A s \in Requests \ {r} : pc'[s] = pc[s]
        BY <2>1 DEF TypeOK
  <2>3. role[r] \in RoleIds /\ role[r] # Keep
        BY <2>1, NamesAssumption DEF WritesStayBelow
  <2>4. Mandate(r)' = Mandate(r) /\ Grant(r)' = Grant(r) /\ Subject(r)' = Subject(r)
        BY <2>1, <2>2, <2>3 DEF Mandate, Grant, Subject, AfterAssert
  <2>5. \A s \in Requests :
          Mandate(s)' = Mandate(s) /\ Grant(s)' = Grant(s) /\ Subject(s)' = Subject(s)
        BY <2>1, <2>2, <2>4 DEF Mandate, Grant, Subject
  <2> QED BY <2>1, <2>5
      DEF Chain!vars, Chain!posts, Chain!people, Chain!looks, dbRoles, dbUsers
<1> QED BY <1>1, <1>2

\* create hires under its mandate, into the role it was let give.
LEMMA InsertHires ==
  ASSUME AdministrationInv, NEW r \in Requests, NEW taken \in BOOLEAN, InsertUser(r, taken)
  PROVE  Chain!Next
<1> USE DEF AdministrationInv
<1>1. CASE taken \/ role[r] \notin roles
      BY <1>1, RefusalRefuses DEF InsertUser, Goto, dbRoles, dto
<1>2. CASE ~(taken \/ role[r] \notin roles)
  <2>1. /\ pc[r] = "insert" /\ role[r] \in roles
        /\ roleOf' = [roleOf EXCEPT ![r] = role[r]]
        /\ active' = [active EXCEPT ![r] = TRUE]
        /\ mustChange' = [mustChange EXCEPT ![r] = TRUE]
        /\ pc' = [pc EXCEPT ![r] = "done"]
        /\ UNCHANGED <<roles, level, rank, target, role>>
        BY <1>2 DEF InsertUser, Goto, dbRoles, dto
  <2>2. roleOf[r] = NoRole /\ [s \in Requests |-> Grant(s)][r] = role[r]
        BY <2>1 DEF CallsCreateOnce, Exists, Grant
  <2>3. Chain!Holds(r) /\ Chain!End(r)
        BY <2>1, MandateHeld, MandateEnds
  <2>4. Chain!Hire(r, r)
        BY <2>1, <2>2, <2>3 DEF Chain!Hire, Chain!posts
  <2>5. r \in AccountIds
        BY DEF AccountIds
  <2> QED BY <2>3, <2>4, <2>5 DEF Chain!Next, Chain!Act
<1> QED BY <1>1, <1>2

\* update changes the account it has seen, to the role it was let give.
LEMMA WriteChanges ==
  ASSUME AdministrationInv, NEW r \in Requests, UpdateUserWrite(r)
  PROVE  Chain!Next
<1> USE DEF AdministrationInv
<1>1. CASE role[r] \notin roles \cup {Keep}
      BY <1>1, RefusalRefuses DEF UpdateUserWrite, Goto, dbRoles, dbUsers, dto
<1>2. CASE role[r] \in roles \cup {Keep}
  <2>1. PICK a \in AccountIds : a = target[r]
        BY DEF UpdateUserWrite, WritesStayBelow
  <2>2. PICK b \in BOOLEAN : b = IF isActive[r] = Keep THEN active[a] ELSE isActive[r]
        BY DEF TypeOK
  <2>3. /\ pc[r] = "write"
        /\ roleOf' = [roleOf EXCEPT ![a] = IF role[r] = Keep THEN @ ELSE role[r]]
        /\ active' = [active EXCEPT ![a] = IF isActive[r] = Keep THEN @ ELSE isActive[r]]
        /\ pc' = [pc EXCEPT ![r] = "done"]
        /\ UNCHANGED <<roles, level, mustChange, rank, target, role>>
        BY <1>2, <2>1 DEF UpdateUserWrite, Goto, dbRoles, dto
  <2>4. active' = [active EXCEPT ![a] = b]
        BY <2>2, <2>3
  <2>5. /\ [s \in Requests |-> Subject(s)][r] = a
        /\ [s \in Requests |-> Grant(s)][r] = IF role[r] = Keep THEN NoRole ELSE role[r]
        BY <2>1, <2>3 DEF Subject, Grant
  <2>6. NoRole \notin roles
        BY NamesAssumption DEF TypeOK
  <2>7. roleOf' = [roleOf EXCEPT ![a] =
                     IF [s \in Requests |-> Grant(s)][r] = NoRole
                     THEN @ ELSE [s \in Requests |-> Grant(s)][r]]
        BY <1>2, <2>3, <2>5, <2>6
  <2>8. [s \in Requests |-> Grant(s)][r] \in roles \cup {NoRole}
        BY <1>2, <2>5
  <2>9. Chain!Holds(r) /\ Chain!End(r)
        BY <2>3, MandateHeld, MandateEnds
  <2>10. Chain!Change(r, a, b)
         BY <2>3, <2>4, <2>5, <2>7, <2>8, <2>9 DEF Chain!Change, Chain!posts
  <2> QED BY <2>9, <2>10 DEF Chain!Next, Chain!Act
<1> QED BY <1>1, <1>2

\* The calls of RolesService put a post below their rank, and only remove one
\* that nobody holds.
LEMMA RolesKeepChain ==
  ASSUME AdministrationInv, NEW r \in Requests, HandleRole(r)
  PROVE  Chain!Next \/ UNCHANGED Chain!vars
<1> USE DEF AdministrationInv
<1>1. ASSUME NEW l \in Levels, NEW c \in Caps \cup {NoCap}, NEW taken \in BOOLEAN,
             CreateRole(r, l, c, taken)
      PROVE  Chain!Next
  <2>1. CASE l >= rank[r] \/ taken
        BY <1>1, <2>1, RolesAssumption, RefusalRefuses
        DEF CreateRole, Goto, dbRoles, dto, TypeOK
  <2>2. CASE ~(l >= rank[r] \/ taken)
    <3>1. /\ pc[r] = "createRole" /\ l < rank[r] /\ roles' = roles \cup {r}
          /\ level' = [level EXCEPT ![r] = l] /\ pc' = [pc EXCEPT ![r] = "done"]
          /\ UNCHANGED <<dbUsers, rank, target, role>>
          BY <1>1, <2>2 DEF CreateRole, Goto, dto
    <3>2. r \notin roles /\ r \in RoleIds
          BY <3>1 DEF CallsCreateOnce, RoleIds
    <3>3. Chain!Holds(r) /\ Chain!End(r)
          BY <3>1, MandateHeld, MandateEnds
    <3>4. Chain!Found(r, r, l)
          BY <3>1, <3>2, <3>3 DEF Chain!Found, Chain!people, dbUsers
    <3> QED BY <3>2, <3>3, <3>4 DEF Chain!Next, Chain!Act
  <2> QED BY <2>1, <2>2
<1>2. ASSUME pc[r] \in {"updateRole", "removeRole"},
             pc' = [pc EXCEPT ![r] = "denied"] \/ pc' = [pc EXCEPT ![r] = "editRole"]
               \/ pc' = [pc EXCEPT ![r] = "deleteRole"],
             UNCHANGED <<dbRoles, dbUsers, rank, target>>,
             \A s \in Requests \ {r} : role'[s] = role[s]
      PROVE  Chain!Next \/ UNCHANGED Chain!vars
  <2>1. CASE pc' = [pc EXCEPT ![r] = "denied"]
        BY <1>2, <2>1, RefusalRefuses DEF dbRoles
  <2>2. CASE pc' # [pc EXCEPT ![r] = "denied"]
    <3>1. pc'[r] \in {"editRole", "deleteRole"} /\ \A s \in Requests \ {r} : pc'[s] = pc[s]
          BY <1>2, <2>2 DEF TypeOK
    <3>2. Mandate(r)' = Mandate(r) /\ Grant(r)' = Grant(r) /\ Subject(r)' = Subject(r)
          BY <1>2, <3>1 DEF Mandate, Grant, Subject
    <3>3. \A s \in Requests :
            Mandate(s)' = Mandate(s) /\ Grant(s)' = Grant(s) /\ Subject(s)' = Subject(s)
          BY <1>2, <3>1, <3>2 DEF Mandate, Grant, Subject
    <3> QED BY <1>2, <3>3
        DEF Chain!vars, Chain!posts, Chain!people, Chain!looks, dbRoles, dbUsers
  <2> QED BY <2>1, <2>2
<1>3. ASSUME NEW i \in RoleIds, NEW l \in Levels \cup {Keep}, NEW c \in Caps \cup {NoCap, Keep},
             UpdateRoleRead(r, i, l, c)
      PROVE  Chain!Next \/ UNCHANGED Chain!vars
      BY <1>2, <1>3 DEF UpdateRoleRead, Goto, TypeOK
<1>4. ASSUME NEW i \in RoleIds, RemoveRoleRead(r, i)
      PROVE  Chain!Next \/ UNCHANGED Chain!vars
      BY <1>2, <1>4 DEF RemoveRoleRead, Goto, TypeOK
<1>5. ASSUME NEW taken \in BOOLEAN, UpdateRoleWrite(r, taken)
      PROVE  Chain!Next
  <2>1. CASE role[r] \notin roles \/ taken
        BY <1>5, <2>1, RefusalRefuses DEF UpdateRoleWrite, Goto, dto
  <2>2. CASE ~(role[r] \notin roles \/ taken) /\ newLevel[r] = Keep
    <3>1. level' = level
          BY <1>5, <2>2 DEF UpdateRoleWrite, TypeOK
    <3> QED BY <1>5, <2>2, <3>1, RefusalRefuses DEF UpdateRoleWrite, Goto, dto
  <2>3. CASE ~(role[r] \notin roles \/ taken) /\ newLevel[r] # Keep
    <3>1. PICK i \in RoleIds, l \in Levels : i = role[r] /\ l = newLevel[r]
          BY <1>5, <2>3 DEF UpdateRoleWrite, LevelsAreBounded
    <3>2. /\ pc[r] = "editRole" /\ level' = [level EXCEPT ![i] = l]
          /\ pc' = [pc EXCEPT ![r] = "done"] /\ UNCHANGED <<roles, dbUsers, rank, target, role>>
          BY <1>5, <2>3, <3>1 DEF UpdateRoleWrite, Goto, dto
    <3>3. i \in roles \ SystemRoles /\ l < rank[r]
          BY <2>3, <3>1, <3>2 DEF LevelsAreBounded
    <3>4. Chain!Holds(r) /\ Chain!End(r)
          BY <3>2, MandateHeld, MandateEnds
    <3>5. Chain!Adjust(r, i, l)
          BY <3>2, <3>3, <3>4 DEF Chain!Adjust, Chain!people, dbUsers
    <3> QED BY <3>4, <3>5 DEF Chain!Next, Chain!Act
  <2> QED BY <2>1, <2>2, <2>3
<1>6. CASE RemoveRoleDelete(r)
  <2>1. CASE role[r] \notin roles \/ InUse(role[r])
        BY <1>6, <2>1, RefusalRefuses DEF RemoveRoleDelete, Goto, dto
  <2>2. CASE ~(role[r] \notin roles \/ InUse(role[r]))
    <3>1. PICK i \in RoleIds \ SystemRoles : i = role[r]
          BY <1>6 DEF RemoveRoleDelete, LevelsAreBounded
    <3>2. /\ pc[r] = "deleteRole" /\ i \in roles /\ roles' = roles \ {i}
          /\ pc' = [pc EXCEPT ![r] = "done"]
          /\ UNCHANGED <<level, dbUsers, rank, target, role>>
          BY <1>6, <2>2, <3>1 DEF RemoveRoleDelete, Goto, dto
    <3>3. \A a \in AccountIds : roleOf[a] # i
          BY <2>2, <3>1 DEF InUse
    <3>4. Chain!Holds(r) /\ Chain!End(r)
          BY <3>2, MandateHeld, MandateEnds
    <3>5. Chain!Dissolve(r, i)
          BY <3>1, <3>2, <3>3, <3>4 DEF Chain!Dissolve, Chain!people, dbUsers
    <3> QED BY <3>4, <3>5 DEF Chain!Next, Chain!Act
  <2> QED BY <2>1, <2>2
<1> QED BY <1>1, <1>3, <1>4, <1>5, <1>6 DEF HandleRole

\* Administration implements Hierarchy: one change for each time the guards let
\* an actor in, under the rank he had then, of what the call has seen below it
\* - though none of the writes looks again (users.service 64, 99; roles.service
\* 75, 94).
THEOREM HierarchyImplemented == Spec => ImplementsHierarchy
<1>1. Init => Chain!Init
  <2> SUFFICES ASSUME Init PROVE Chain!Init
      OBVIOUS
  <2>1. \A s \in Requests :
          Mandate(s) = "unused" /\ Subject(s) = NoAccount /\ Grant(s) = NoRole
        BY DEF Init, Mandate, Subject, Grant
  <2> QED BY <2>1 DEF Chain!Init, Init
<1>2. AdministrationInv /\ [Next]_vars => [Chain!Next]_(Chain!vars)
  <2> SUFFICES ASSUME AdministrationInv, [Next]_vars
               PROVE  Chain!Next \/ UNCHANGED Chain!vars
      OBVIOUS
  <2>1. ASSUME NEW r \in Requests, NEW a \in AccountIds, NEW op \in Operations,
               Guard(r, a, op)
        PROVE  Chain!Next
        BY <2>1, GuardGives
  <2>2. ASSUME NEW r \in Requests, HandleUser(r)
        PROVE  Chain!Next \/ UNCHANGED Chain!vars
    <3>1. ASSUME NEW i \in RoleIds, CreateUserAssert(r, i) PROVE Chain!Next
          BY <3>1, AssertSeesPost DEF CreateUserAssert
    <3>2. CASE UpdateUserAssert(r)
      <4>1. role[r] \in RoleIds
            BY <3>2 DEF UpdateUserAssert, AdministrationInv, WritesStayBelow
      <4> QED BY <3>2, <4>1, AssertSeesPost DEF UpdateUserAssert
    <3>3. CASE CountActive(r)
          BY <3>3, CountRests
    <3>4. CASE UpdateUserWrite(r)
          BY <3>4, WriteChanges
    <3>5. ASSUME NEW taken \in BOOLEAN, InsertUser(r, taken) PROVE Chain!Next
          BY <3>5, InsertHires
    <3>6. ASSUME NEW a \in AccountIds, NEW i \in RoleIds \cup {Keep},
                 NEW b \in BOOLEAN \cup {Keep}, UpdateUserRead(r, a, i, b)
          PROVE  Chain!Next
          BY <3>6, ReadSeesAccount
    <3> QED BY <2>2, <3>1, <3>2, <3>3, <3>4, <3>5, <3>6 DEF HandleUser
  <2>3. ASSUME NEW r \in Requests, HandleRole(r)
        PROVE  Chain!Next \/ UNCHANGED Chain!vars
        BY <2>3, RolesKeepChain
  <2>4. ASSUME NEW a \in AccountIds, PasswordChanged(a) PROVE Chain!Next
    <3>1. UNCHANGED <<pc, target, role>>
          BY <2>4 DEF PasswordChanged, dto
    <3>2. \A s \in Requests :
            Mandate(s)' = Mandate(s) /\ Grant(s)' = Grant(s) /\ Subject(s)' = Subject(s)
          BY <3>1 DEF Mandate, Grant, Subject
    <3>3. Chain!Settle(a)
          BY <2>4, <3>2
          DEF Chain!Settle, Chain!posts, Chain!looks, PasswordChanged, Exists, dbRoles
    <3> QED BY <3>3 DEF Chain!Next
  <2>5. CASE UNCHANGED vars
    <3>1. UNCHANGED <<pc, target, role>>
          BY <2>5 DEF vars, dto
    <3>2. \A s \in Requests :
            Mandate(s)' = Mandate(s) /\ Grant(s)' = Grant(s) /\ Subject(s)' = Subject(s)
          BY <3>1 DEF Mandate, Grant, Subject
    <3> QED BY <2>5, <3>2
        DEF vars, dbRoles, dbUsers, Chain!vars, Chain!posts, Chain!people, Chain!looks
  <2> QED BY <2>1, <2>2, <2>3, <2>4, <2>5 DEF Next
<1> QED BY <1>1, <1>2, AdministrationInvariant, PTL DEF Spec, ImplementsHierarchy, Chain!Spec
=============================================================================
