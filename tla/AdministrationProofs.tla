--------------------------- MODULE AdministrationProofs ---------------------------
(***************************************************************************)
(* What the administration of users and roles guarantees, for any number   *)
(* of requests, rows and names, with and without enforced foreign keys.    *)
(***************************************************************************)
EXTENDS UserAdministration, WellFoundedInduction, TLAPS

Jobs ==
  [op : {"none", "create", "update", "delete", "bulkUpdate", "bulkDelete", "createRole",
         "renameRole", "deleteRole", "setRolePermissions", "createKey", "revokeKey",
         "setPassword"},
   ids : SUBSET Ids, role : Ids \cup {None}, names : SUBSET (RoleNames \cup Permissions),
   drop : SUBSET RoleNames, status : {"active", "disabled", None}, key : Keys \cup {None},
   found : SUBSET Ids, dropped : SUBSET Ids]

Steps ==
  {"idle", "findUser", "resolve", "resolveRemoved", "ensure", "insertRole", "findRole",
   "updateRole", "countUsers", "dropRole", "resolvePermissions", "transaction"}

(* What the operation says of the arguments.                               *)
Sensible(j) ==
  /\ j.op # "setRolePermissions" => j.names \subseteq RoleNames
  /\ j.op = "setRolePermissions" => j.role \in Ids /\ j.names \subseteq Permissions

(* The steps that ask for no operation come up in one operation alone.     *)
Belongs(step, op) ==
  /\ step = "insertRole" => op = "createRole"
  /\ step = "findRole" => op \in {"renameRole", "deleteRole", "setRolePermissions"}
  /\ step = "updateRole" => op = "renameRole"
  /\ step \in {"countUsers", "dropRole"} => op = "deleteRole"

JobsInv ==
  /\ at \in [Clients -> Steps]
  /\ job \in [Clients -> Jobs]
  /\ \A c \in Clients : Sensible(job[c]) /\ Belongs(at[c], job[c].op)

(* Nobody has held the role all along once its users have been counted.    *)
CountInv == \A c \in Clients : at[c] = "dropRole" => held[c] = {}

(* As long as nothing has happened to the roles a call has found, they     *)
(* bear the names it asked for.                                            *)
MovedInv ==
  \A c \in Clients \ moved : \A r \in job[c].found : roles[r] \in job[c].names

IInv == TypeOK /\ JobsInv /\ KeysHaveUsers /\ FreeIdsAreUnnamed /\ CountInv /\ MovedInv

-----------------------------------------------------------------------------
LEMMA NoJobIsSensible ==
  NoJob \in Jobs /\ Sensible(NoJob) /\ NoJob.op = "none" /\ NoJob.found = {}
BY DEF NoJob, Jobs, Sensible

CallOf(op, ids, role, names, drop, status, key) ==
  [op |-> op, ids |-> ids, role |-> role, names |-> names, drop |-> drop, status |-> status,
   key |-> key, found |-> {}, dropped |-> {}]

GoodCall(j) == j \in Jobs /\ Sensible(j) /\ Belongs(FirstStep(j.op), j.op) /\ j.found = {}

LEMMA CallFields ==
  ASSUME NEW op \in {"create", "update", "delete", "bulkUpdate", "bulkDelete", "createRole",
                     "renameRole", "deleteRole", "createKey", "revokeKey", "setPassword"},
         NEW ids \in SUBSET Ids, NEW role \in Ids \cup {None}, NEW names \in SUBSET RoleNames,
         NEW drop \in SUBSET RoleNames, NEW status \in {"active", "disabled", None},
         NEW key \in Keys \cup {None}
  PROVE  GoodCall(CallOf(op, ids, role, names, drop, status, key))
<1> DEFINE j == CallOf(op, ids, role, names, drop, status, key)
<1>1. j \in Jobs
  BY DEF Jobs, CallOf
<1>2. j.op = op /\ j.names = names /\ j.found = {}
  BY DEF CallOf
<1> QED  BY <1>1, <1>2 DEF GoodCall, Sensible, Belongs, FirstStep

LEMMA CallsAreSensible == \A j \in Calls : GoodCall(j)
<1> USE DEF NameSets, Groups
<1>1. ASSUME NEW j \in CreateUserCalls PROVE GoodCall(j)
  <2>1. PICK ns \in NameSets : j = CallOf("create", {}, None, ns, {}, None, None)
    BY DEF CreateUserCalls, NoJob, CallOf
  <2> QED  BY <2>1, CallFields
<1>2. ASSUME NEW j \in UpdateUserCalls PROVE GoodCall(j)
  <2>1. PICK u \in Ids, s \in {None, "active", "disabled"}, ns \in NameSets : j = UpdateUserCall(u, s, ns)
    BY DEF UpdateUserCalls
  <2>2. j = CallOf("update", {u}, None, ns, {}, s, None)
    BY <2>1 DEF NoJob, CallOf, UpdateUserCall
  <2> QED  BY <2>2, CallFields
<1>3. ASSUME NEW j \in DeleteUserCalls PROVE GoodCall(j)
  <2>1. PICK u \in Ids : j = CallOf("delete", {u}, None, {}, {}, None, None)
    BY DEF DeleteUserCalls, NoJob, CallOf
  <2> QED  BY <2>1, CallFields
<1>4. ASSUME NEW j \in BulkUpdateCalls PROVE GoodCall(j)
  <2>1. PICK us \in Groups, ns \in NameSets, ms \in NameSets : j = BulkUpdateCall(us, ns, ms)
    BY DEF BulkUpdateCalls
  <2>2. j = CallOf("bulkUpdate", us, None, ns, ms, None, None)
    BY <2>1 DEF NoJob, CallOf, BulkUpdateCall
  <2> QED  BY <2>2, CallFields
<1>5. ASSUME NEW j \in BulkDisableCalls PROVE GoodCall(j)
  <2>1. PICK us \in Groups : j = CallOf("bulkUpdate", us, None, {}, {}, "disabled", None)
    BY DEF BulkDisableCalls, NoJob, CallOf
  <2> QED  BY <2>1, CallFields
<1>6. ASSUME NEW j \in BulkDeleteCalls PROVE GoodCall(j)
  <2>1. PICK us \in Groups : j = CallOf("bulkDelete", us, None, {}, {}, None, None)
    BY DEF BulkDeleteCalls, NoJob, CallOf
  <2> QED  BY <2>1, CallFields
<1>7. ASSUME NEW j \in CreateRoleCalls PROVE GoodCall(j)
  <2>1. PICK n \in RoleNames : j = CallOf("createRole", {}, None, {n}, {}, None, None)
    BY DEF CreateRoleCalls, NoJob, CallOf
  <2> QED  BY <2>1, CallFields
<1>8. ASSUME NEW j \in RenameRoleCalls PROVE GoodCall(j)
  <2>1. PICK r \in Ids, n \in RoleNames : j = RenameRoleCall(r, n)
    BY DEF RenameRoleCalls
  <2>2. j = CallOf("renameRole", {}, r, {n}, {}, None, None)
    BY <2>1 DEF NoJob, CallOf, RenameRoleCall
  <2> QED  BY <2>2, CallFields
<1>9. ASSUME NEW j \in DeleteRoleCalls PROVE GoodCall(j)
  <2>1. PICK r \in Ids : j = CallOf("deleteRole", {}, r, {}, {}, None, None)
    BY DEF DeleteRoleCalls, NoJob, CallOf
  <2> QED  BY <2>1, CallFields
<1>10. ASSUME NEW j \in SetRolePermissionsCalls PROVE GoodCall(j)
  <2>1. PICK r \in Ids, ps \in SUBSET Permissions : j = SetPermissionsCall(r, ps)
    BY DEF SetRolePermissionsCalls
  <2>2. j = CallOf("setRolePermissions", {}, r, ps, {}, None, None)
    BY <2>1 DEF NoJob, CallOf, SetPermissionsCall
  <2>3. j \in Jobs /\ j.op = "setRolePermissions" /\ j.role = r /\ j.names = ps /\ j.found = {}
    BY <2>2 DEF Jobs, CallOf
  <2> QED  BY <2>3 DEF GoodCall, Sensible, Belongs, FirstStep
<1>11. ASSUME NEW j \in CreateApiKeyCalls PROVE GoodCall(j)
  <2>1. PICK u \in Ids, k \in Keys : j = KeyCall("createKey", u, k)
    BY DEF CreateApiKeyCalls, FreeKeys
  <2>2. j = CallOf("createKey", {u}, None, {}, {}, None, k)
    BY <2>1 DEF NoJob, CallOf, KeyCall
  <2> QED  BY <2>2, CallFields
<1>12. ASSUME NEW j \in RevokeApiKeyCalls PROVE GoodCall(j)
  <2>1. PICK u \in Ids, k \in Keys : j = KeyCall("revokeKey", u, k)
    BY DEF RevokeApiKeyCalls
  <2>2. j = CallOf("revokeKey", {u}, None, {}, {}, None, k)
    BY <2>1 DEF NoJob, CallOf, KeyCall
  <2> QED  BY <2>2, CallFields
<1>13. ASSUME NEW j \in CredentialCalls PROVE GoodCall(j)
  <2>1. PICK u \in Ids : j = CallOf("setPassword", {u}, None, {}, {}, None, None)
    BY DEF CredentialCalls, NoJob, CallOf
  <2> QED  BY <2>1, CallFields
<1> QED  BY <1>1, <1>2, <1>3, <1>4, <1>5, <1>6, <1>7, <1>8, <1>9,
     <1>10, <1>11, <1>12, <1>13 DEF Calls

LEMMA InitIInv == Init => IInv
<1> SUFFICES ASSUME Init PROVE IInv
  OBVIOUS
<1>1. {1, 2} \subseteq Ids
  BY AdministrationAssumption DEF Ids
<1>2. TypeOK
  BY <1>1 DEF Init, TypeOK
<1>3. JobsInv
  BY NoJobIsSensible DEF Init, JobsInv, Belongs, Steps
<1>4. Existing = {1, 2} /\ ExistingRoles = {1, 2}
  BY <1>1, AdministrationAssumption DEF Init, Existing, ExistingRoles
<1>5. KeysHaveUsers
  <2> SUFFICES ASSUME NEW k \in Keys, apiKeys[k] # None PROVE apiKeys[k].user \in {1, 2}
    BY <1>4 DEF KeysHaveUsers
  <2>1. apiKeys[k] \in [user : {1, 2}, status : {"active"}]
    BY DEF Init
  <2> QED  BY <2>1
<1>6. FreeIdsAreUnnamed
  BY <1>4 DEF Init, FreeIdsAreUnnamed
<1> QED  BY <1>2, <1>3, <1>5, <1>6 DEF IInv, CountInv, MovedInv, NoJob, Init

-----------------------------------------------------------------------------
(* The calls.                                                              *)
LEMMA StepKeepsJobs ==
  ASSUME JobsInv, NEW c \in Clients, NEW step \in Steps, NEW j \in Jobs,
         Sensible(j), Belongs(step, j.op),
         at' = [at EXCEPT ![c] = step], job' = [job EXCEPT ![c] = j]
  PROVE  JobsInv'
BY DEF JobsInv

LEMMA AnswerKeepsJobs ==
  ASSUME JobsInv, NEW c \in Clients, Answer(c)
  PROVE  JobsInv'
<1>1. Belongs("idle", NoJob.op) /\ "idle" \in Steps
  BY DEF Belongs, Steps
<1> QED  BY <1>1, NoJobIsSensible, StepKeepsJobs DEF Answer

LEMMA GotoKeepsJobs ==
  ASSUME JobsInv, NEW c \in Clients, NEW step \in Steps, Belongs(step, job[c].op),
         Goto(c, step), UNCHANGED job
  PROVE  JobsInv'
BY DEF JobsInv, Goto

LEMMA JobsKept ==
  ASSUME JobsInv, [Next]_vars
  PROVE  JobsInv'
<1>1. CASE UNCHANGED vars
  BY <1>1 DEF JobsInv, vars
<1>2. ASSUME NEW c \in Clients, Step(c)
      PROVE  JobsInv'
  <2>3. CASE Call(c)
    <3>1. PICK j \in Calls : job' = [job EXCEPT ![c] = j] /\ Goto(c, FirstStep(j.op))
      BY <2>3 DEF Call
    <3>2. FirstStep(j.op) \in Steps
      BY DEF FirstStep, Steps
    <3> QED  BY <3>1, <3>2, CallsAreSensible, StepKeepsJobs DEF Goto, GoodCall
  <2>4. CASE Refuse(c)
    BY <2>4, AnswerKeepsJobs DEF Refuse
  <2>5. CASE FindUser(c) \/ EnsureUsersExist(c)
    <3>1. PICK step \in {"transaction", "resolve"} : Goto(c, step) /\ UNCHANGED job
      BY <2>5 DEF FindUser, EnsureUsersExist
    <3> QED  BY <3>1, GotoKeepsJobs DEF Steps, Belongs
  <2>6. ASSUME NEW f \in SUBSET Ids, NEW d \in SUBSET Ids,
               NEW step \in {"resolveRemoved", "ensure", "transaction"}, Goto(c, step),
               \/ job' = [job EXCEPT ![c].found = f]
               \/ job' = [job EXCEPT ![c].dropped = d]
        PROVE  JobsInv'
    <3>1. PICK j : /\ job' = [job EXCEPT ![c] = j]
                   /\ j \in {[job[c] EXCEPT !.found = f], [job[c] EXCEPT !.dropped = d]}
      BY <2>6
    <3>2. job[c] \in Jobs /\ Sensible(job[c])
      BY DEF JobsInv
    <3>3. j \in Jobs /\ j.op = job[c].op /\ j.names = job[c].names /\ j.role = job[c].role
      BY <3>1, <3>2 DEF Jobs
    <3>4. Sensible(j) /\ Belongs(step, j.op)
      BY <3>2, <3>3 DEF Sensible, Belongs
    <3>5. step \in Steps /\ at' = [at EXCEPT ![c] = step]
      BY <2>6 DEF Steps, Goto
    <3> QED  BY <3>1, <3>3, <3>4, <3>5, StepKeepsJobs
  <2>7. CASE ResolveRoles(c) \/ ResolveRemovedRoles(c)
    BY <2>6, <2>7 DEF ResolveRoles, ResolveRemovedRoles, Named, ExistingRoles
  <2>8. CASE FindRole(c)
    <3>1. PICK step \in {"updateRole", "countUsers", "resolvePermissions"} :
            /\ Goto(c, step) /\ UNCHANGED job
            /\ step = "updateRole" => job[c].op = "renameRole"
            /\ step = "countUsers" => job[c].op = "deleteRole"
      BY <2>8 DEF FindRole
    <3> QED  BY <3>1, GotoKeepsJobs DEF Steps, Belongs
  <2>9. CASE ResolvePermissions(c)
    BY <2>9, GotoKeepsJobs DEF Steps, ResolvePermissions, Belongs
  <2>10. CASE CountUsers(c)
    <3>1. job[c].op = "deleteRole"
      BY <2>10 DEF CountUsers, At, JobsInv, Belongs
    <3> QED  BY <2>10, <3>1, GotoKeepsJobs DEF Steps, CountUsers, Belongs
  <2>12. CASE \/ CreateUser(c) \/ UpdateUser(c) \/ DeleteUser(c) \/ BulkUpdate(c) \/ BulkDelete(c)
              \/ InsertRole(c) \/ UpdateRole(c) \/ DropRole(c) \/ SetRolePermissions(c)
              \/ CreateApiKey(c) \/ RevokeApiKey(c) \/ SetPassword(c)
    BY <2>12, AnswerKeepsJobs DEF CreateUser, UpdateUser, DeleteUser, BulkUpdate, BulkDelete,
         InsertRole, UpdateRole, DropRole, SetRolePermissions, CreateApiKey, RevokeApiKey,
         SetPassword, Transaction
  <2> QED
    BY <1>2, <2>3, <2>4, <2>5, <2>7, <2>8, <2>9, <2>10, <2>12 DEF Step
<1> QED  BY <1>1, <1>2 DEF Next

LEMMA CountKept ==
  ASSUME JobsInv, CountInv, [Next]_vars
  PROVE  CountInv'
<1>1. CASE UNCHANGED vars
  BY <1>1 DEF CountInv, vars
<1>2. ASSUME NEW c \in Clients, Step(c), Watch
      PROVE  CountInv'
  <2> SUFFICES ASSUME NEW d \in Clients, at'[d] = "dropRole" PROVE held'[d] = {}
    BY DEF CountInv
  <2>1. CASE at[d] = "dropRole"
    <3>1. held[d] = {}
      BY <2>1 DEF CountInv
    <3>2. ~At(d, "idle")
      BY <2>1 DEF At
    <3> QED  BY <1>2, <3>1, <3>2 DEF Watch
  <2>2. CASE at[d] # "dropRole"
    <3>1. c = d /\ CountUsers(c)
      <4> USE DEF JobsInv
      <4>1. ASSUME NEW step \in Steps, step # "dropRole", Goto(c, step) PROVE FALSE
        BY <2>2, <4>1 DEF Goto
      <4>2. CASE Answer(c)
        BY <2>2, <4>2 DEF Answer
      <4>3. ASSUME Call(c) PROVE FALSE
        BY <4>1, <4>3 DEF Call, FirstStep, Steps
      <4>4. CASE CountUsers(c)
        BY <2>2, <4>4 DEF CountUsers, Goto
      <4>5. ASSUME FindUser(c) \/ ResolveRoles(c) \/ ResolveRemovedRoles(c) \/ EnsureUsersExist(c)
                     \/ FindRole(c) \/ ResolvePermissions(c)
            PROVE  FALSE
        BY <4>1, <4>5 DEF FindUser, ResolveRoles, ResolveRemovedRoles, EnsureUsersExist, FindRole,
             ResolvePermissions, Steps
      <4> QED
        BY <1>2, <4>2, <4>3, <4>4, <4>5 DEF Step, Refuse, CreateUser, UpdateUser, DeleteUser,
             BulkUpdate, BulkDelete, InsertRole, UpdateRole, DropRole, SetRolePermissions,
             CreateApiKey, RevokeApiKey, SetPassword, Transaction
    <3>2. /\ UsersOf(job[c].role) = {} /\ UNCHANGED <<job, userRoles>>
          /\ ~At(c, "idle")
      BY <3>1 DEF CountUsers, tables, At
    <3> QED  BY <1>2, <3>1, <3>2 DEF Watch, UsersOf
  <2> QED  BY <2>1, <2>2
<1> QED  BY <1>1, <1>2 DEF Next

-----------------------------------------------------------------------------
(* The tables.                                                             *)
Tables == TypeOK /\ KeysHaveUsers /\ FreeIdsAreUnnamed

LEMMA CreateUserKeepsTables ==
  ASSUME Tables, JobsInv, NEW c \in Clients, CreateUser(c), UNCHANGED foreignKeys
  PROVE  Tables'
<1> DEFINE u == NextId(Existing)
<1>1. /\ u \in Ids /\ MayAssign({}, job[c].found)
      /\ users' = [users EXCEPT ![u] = "active"]
      /\ userRoles' = ReplaceRoles(u, job[c].found)
      /\ UNCHANGED <<roles, rolePermissions, apiKeys, dependents>>
  BY DEF CreateUser
<1> HIDE DEF u
<1>2. job[c].found \subseteq Ids
  BY DEF JobsInv, Jobs
<1>3. TypeOK'
  BY <1>1, <1>2 DEF Tables, TypeOK, ReplaceRoles
<1>4. Existing \cup {u} \subseteq Existing' /\ ExistingRoles' = ExistingRoles
  BY <1>1, AdministrationAssumption DEF Existing, ExistingRoles, Tables, TypeOK
<1>5. KeysHaveUsers'
  BY <1>1, <1>4 DEF Tables, KeysHaveUsers
<1>6. FreeIdsAreUnnamed'
  BY <1>1, <1>4 DEF Tables, FreeIdsAreUnnamed, MayAssign, ReplaceRoles
<1> QED  BY <1>3, <1>5, <1>6 DEF Tables

(* The status of a user changes only to one that a user has.               *)
LEMMA UpdateStatusKeepsUsers ==
  ASSUME TypeOK, JobsInv, NEW c \in Clients, UpdateStatus(c)
  PROVE  /\ users' \in [Ids -> {"active", "disabled", None}]
         /\ Existing' = Existing
<1>1. job[c].status \in {"active", "disabled", None} /\ job[c].ids \subseteq Ids
  BY DEF JobsInv, Jobs
<1> QED
  BY <1>1, AdministrationAssumption DEF TypeOK, UpdateStatus, Existing

LEMMA UpdateKeepsTables ==
  ASSUME Tables, JobsInv, NEW c \in Clients, UpdateUser(c) \/ BulkUpdate(c), UNCHANGED foreignKeys
  PROVE  Tables'
<1>1. /\ UpdateStatus(c)
      /\ UNCHANGED <<roles, rolePermissions, apiKeys, dependents>>
  BY DEF UpdateUser, BulkUpdate
<1>2. /\ users' \in [Ids -> {"active", "disabled", None}]
      /\ Existing' = Existing
  BY <1>1, UpdateStatusKeepsUsers DEF Tables
<1>3. ExistingRoles' = ExistingRoles
  BY <1>1 DEF ExistingRoles
<1>4. job[c].ids \subseteq Ids /\ job[c].found \subseteq Ids
  BY DEF JobsInv, Jobs
<1>5. /\ userRoles' \subseteq userRoles \cup (job[c].ids \X job[c].found)
      /\ MayAssign(job[c].ids, job[c].found) \/ userRoles' \subseteq userRoles
  BY DEF UpdateUser, BulkUpdate, ReplaceRoles
<1>6. TypeOK'
  BY <1>1, <1>2, <1>4, <1>5 DEF Tables, TypeOK
<1>7. KeysHaveUsers'
  BY <1>1, <1>2 DEF Tables, KeysHaveUsers
<1>8. FreeIdsAreUnnamed'
  BY <1>1, <1>2, <1>3, <1>5 DEF Tables, FreeIdsAreUnnamed, MayAssign
<1> QED  BY <1>6, <1>7, <1>8 DEF Tables

LEMMA DeleteKeepsTables ==
  ASSUME Tables, NEW ids \in SUBSET Ids, DeleteRows(ids), UNCHANGED foreignKeys
  PROVE  Tables'
<1>1. TypeOK'
  BY DEF DeleteRows, CascadeUsers, Tables, TypeOK
<1>2. Existing' = Existing \ ids /\ ExistingRoles' = ExistingRoles
  BY DEF DeleteRows, Existing, ExistingRoles, Tables, TypeOK
<1>3. KeysHaveUsers'
  BY <1>2 DEF DeleteRows, Tables, KeysHaveUsers
<1>4. FreeIdsAreUnnamed'
  <2> SUFFICES ASSUME foreignKeys
               PROVE  /\ userRoles' \subseteq Existing' \X ExistingRoles'
                      /\ \A x \in rolePermissions' : x[1] \in ExistingRoles'
                      /\ dependents' \subseteq Existing'
    BY DEF FreeIdsAreUnnamed
  <2>1. /\ userRoles \subseteq Existing \X ExistingRoles
        /\ \A x \in rolePermissions : x[1] \in ExistingRoles
        /\ dependents \subseteq Existing
    BY DEF Tables, FreeIdsAreUnnamed
  <2>2. ExistingRoles \subseteq Ids
    BY DEF ExistingRoles
  <2> QED  BY <1>2, <2>1, <2>2 DEF DeleteRows, CascadeUsers
<1> QED  BY <1>1, <1>3, <1>4 DEF Tables

LEMMA RoleKeepsTables ==
  ASSUME Tables, JobsInv, NEW c \in Clients, InsertRole(c) \/ UpdateRole(c), UNCHANGED foreignKeys
  PROVE  Tables'
<1>1. PICK n \in job[c].names, r \in Ids \cup {job[c].role} :
        /\ \/ roles' = [roles EXCEPT ![r] = n]
           \/ roles' = [roles EXCEPT ![r] = IF @ = None THEN None ELSE n]
        /\ UNCHANGED <<users, userRoles, rolePermissions, apiKeys, dependents>>
  BY DEF InsertRole, UpdateRole
<1>2. job[c].names \subseteq RoleNames
  BY DEF InsertRole, UpdateRole, At, JobsInv, Sensible, Belongs
<1>3. roles' \in [Ids -> RoleNames \cup {None}]
  BY <1>1, <1>2 DEF Tables, TypeOK
<1>4. ExistingRoles \subseteq ExistingRoles' /\ Existing' = Existing
  BY <1>1, <1>2, AdministrationAssumption DEF Tables, TypeOK, ExistingRoles, Existing
<1>5. TypeOK' /\ KeysHaveUsers'
  BY <1>1, <1>3, <1>4 DEF Tables, TypeOK, KeysHaveUsers
<1>6. FreeIdsAreUnnamed'
  BY <1>1, <1>4 DEF Tables, FreeIdsAreUnnamed
<1> QED  BY <1>5, <1>6 DEF Tables

LEMMA DropRoleKeepsTables ==
  ASSUME Tables, NEW c \in Clients, DropRole(c), UNCHANGED foreignKeys
  PROVE  Tables'
<1> DEFINE r == job[c].role
<1>1. /\ roles' = [roles EXCEPT ![r] = None]
      /\ userRoles' = CascadeRole(userRoles, 2, r)
      /\ rolePermissions' = CascadeRole(rolePermissions, 1, r)
      /\ UNCHANGED <<users, apiKeys, dependents>>
  BY DEF DropRole
<1> HIDE DEF r
<1>2. TypeOK'
  BY <1>1 DEF CascadeRole, Tables, TypeOK
<1>3. ExistingRoles' = ExistingRoles \ {r} /\ Existing' = Existing
  BY <1>1 DEF ExistingRoles, Existing, Tables, TypeOK
<1>4. KeysHaveUsers'
  BY <1>1, <1>3 DEF Tables, KeysHaveUsers
<1>5. FreeIdsAreUnnamed'
  BY <1>1, <1>3 DEF CascadeRole, Tables, FreeIdsAreUnnamed
<1> QED  BY <1>2, <1>4, <1>5 DEF Tables

LEMMA PermissionsKeepTables ==
  ASSUME Tables, JobsInv, NEW c \in Clients, SetRolePermissions(c), UNCHANGED foreignKeys
  PROVE  Tables'
<1> DEFINE r == job[c].role
<1>1. /\ job[c].names # {} => MayAssign({}, {r})
      /\ rolePermissions' = (rolePermissions \ ({r} \X Permissions)) \cup ({r} \X job[c].names)
      /\ UNCHANGED <<users, roles, userRoles, apiKeys, dependents>>
  BY DEF SetRolePermissions
<1>2. r \in Ids /\ job[c].names \subseteq Permissions
  BY DEF SetRolePermissions, Transaction, JobsInv, Sensible
<1> HIDE DEF r
<1>3. TypeOK'
  BY <1>1, <1>2 DEF Tables, TypeOK
<1>4. ExistingRoles' = ExistingRoles /\ Existing' = Existing
  BY <1>1 DEF ExistingRoles, Existing
<1>5. KeysHaveUsers'
  BY <1>1, <1>4 DEF Tables, KeysHaveUsers
<1>6. FreeIdsAreUnnamed'
  BY <1>1, <1>4 DEF Tables, FreeIdsAreUnnamed, MayAssign
<1> QED  BY <1>3, <1>5, <1>6 DEF Tables

LEMMA KeysKeepTables ==
  ASSUME Tables, JobsInv, NEW c \in Clients, CreateApiKey(c) \/ RevokeApiKey(c),
         UNCHANGED foreignKeys
  PROVE  Tables'
<1>1. UNCHANGED <<users, roles, userRoles, rolePermissions, dependents>>
  BY DEF CreateApiKey, RevokeApiKey
<1>2. Existing' = Existing /\ ExistingRoles' = ExistingRoles
  BY <1>1 DEF Existing, ExistingRoles
<1>3. /\ apiKeys' \in [Keys -> [user : Ids, status : {"active", "revoked"}] \cup {None}]
      /\ \A k \in Keys : apiKeys'[k] # None => apiKeys'[k].user \in Existing
  <2>1. CASE CreateApiKey(c)
    <3>1. PICK u \in job[c].ids :
            /\ users[u] = "active"
            /\ apiKeys' = [apiKeys EXCEPT ![job[c].key] = [user |-> u, status |-> "active"]]
      BY <2>1 DEF CreateApiKey
    <3>2. u \in Existing /\ u \in Ids
      BY <3>1, AdministrationAssumption DEF Existing, JobsInv, Jobs
    <3> QED  BY <3>1, <3>2 DEF Tables, TypeOK, KeysHaveUsers
  <2>2. CASE RevokeApiKey(c)
    <3> DEFINE k == job[c].key
    <3>1. apiKeys[k] # None /\ apiKeys' = [apiKeys EXCEPT ![k].status = "revoked"]
      BY <2>2 DEF RevokeApiKey
    <3>2. \A x \in Keys : \/ apiKeys'[x] = apiKeys[x]
                         \/ /\ x = k /\ apiKeys[x] \in [user : Ids, status : {"active", "revoked"}]
                            /\ apiKeys'[x] = [apiKeys[x] EXCEPT !.status = "revoked"]
      BY <3>1 DEF Tables, TypeOK
    <3>3. \A x \in Keys : apiKeys[x] # None => apiKeys[x].user \in Existing
      BY DEF Tables, KeysHaveUsers
    <3>4. apiKeys' = [x \in Keys |-> apiKeys'[x]]
      BY <3>1 DEF Tables, TypeOK
    <3> HIDE DEF k
    <3> QED  BY <3>1, <3>2, <3>3, <3>4, AdministrationAssumption DEF Tables, TypeOK
  <2> QED  BY <2>1, <2>2
<1>4. TypeOK' /\ KeysHaveUsers'
  BY <1>1, <1>2, <1>3 DEF Tables, TypeOK, KeysHaveUsers
<1>5. FreeIdsAreUnnamed'
  BY <1>1, <1>2 DEF Tables, FreeIdsAreUnnamed
<1> QED  BY <1>4, <1>5 DEF Tables

LEMMA TablesKept ==
  ASSUME Tables, JobsInv, [Next]_vars
  PROVE  Tables'
<1>1. CASE UNCHANGED <<foreignKeys, tables>>
  BY <1>1 DEF tables, Tables, TypeOK, KeysHaveUsers, FreeIdsAreUnnamed, Existing, ExistingRoles
<1>2. ASSUME NEW c \in Clients, Step(c), UNCHANGED foreignKeys
      PROVE  Tables'
  <2>1. CASE \/ Call(c) \/ Refuse(c) \/ FindUser(c) \/ ResolveRoles(c) \/ ResolveRemovedRoles(c)
             \/ EnsureUsersExist(c) \/ FindRole(c) \/ ResolvePermissions(c) \/ CountUsers(c)
    BY <1>1, <1>2, <2>1 DEF Call, Refuse, FindUser, ResolveRoles, ResolveRemovedRoles,
         EnsureUsersExist, FindRole, ResolvePermissions, CountUsers
  <2>2. CASE CreateUser(c)
    BY <1>2, <2>2, CreateUserKeepsTables
  <2>3. CASE UpdateUser(c) \/ BulkUpdate(c)
    BY <1>2, <2>3, UpdateKeepsTables
  <2>4. CASE DeleteUser(c) \/ BulkDelete(c)
    <3>1. job[c].ids \in SUBSET Ids
      BY DEF JobsInv, Jobs
    <3> QED  BY <1>2, <2>4, <3>1, DeleteKeepsTables DEF DeleteUser, BulkDelete
  <2>5. CASE InsertRole(c) \/ UpdateRole(c)
    BY <1>2, <2>5, RoleKeepsTables
  <2>6. CASE DropRole(c)
    BY <1>2, <2>6, DropRoleKeepsTables
  <2>7. CASE SetRolePermissions(c)
    BY <1>2, <2>7, PermissionsKeepTables
  <2>8. CASE CreateApiKey(c) \/ RevokeApiKey(c)
    BY <1>2, <2>8, KeysKeepTables
  <2>9. CASE SetPassword(c)
    <3>1. /\ job[c].ids \subseteq Existing /\ dependents' = dependents \cup job[c].ids
          /\ UNCHANGED <<users, roles, userRoles, rolePermissions, apiKeys>>
      BY <2>9 DEF SetPassword
    <3> QED
      BY <1>2, <3>1 DEF Tables, TypeOK, KeysHaveUsers, FreeIdsAreUnnamed, Existing, ExistingRoles
  <2> QED
    BY <1>2, <2>1, <2>2, <2>3, <2>4, <2>5, <2>6, <2>7, <2>8, <2>9 DEF Step
<1> QED  BY <1>1, <1>2 DEF Next, vars

-----------------------------------------------------------------------------
(* The names of roles that have been found.                                *)
LEMMA MovedKept ==
  ASSUME TypeOK, JobsInv, MovedInv, [Next]_vars
  PROVE  MovedInv'
<1>1. CASE UNCHANGED vars
  <2>1. moved' = moved /\ job' = job /\ roles' = roles
    BY <1>1 DEF vars, tables
  <2> QED  BY <2>1 DEF MovedInv
<1>2. ASSUME NEW c \in Clients, Step(c), Watch
      PROVE  MovedInv'
  <2> SUFFICES ASSUME NEW d \in Clients, d \notin moved', NEW r \in (job[d].found)'
               PROVE  roles'[r] \in (job[d].names)'
    BY DEF MovedInv
  <2>1. d \notin moved /\ \A x \in job[d].found : roles'[x] = roles[x]
    BY <1>2 DEF Watch
  <2>2. CASE job'[d] = job[d]
    BY <2>1, <2>2 DEF MovedInv
  <2>3. CASE job'[d].found = {}
    BY <2>3
  <2>4. CASE c = d /\ (ResolveRoles(c) \/ ResolveRemovedRoles(c))
    <3>1. UNCHANGED roles
      BY <2>4 DEF ResolveRoles, ResolveRemovedRoles, tables
    <3>2. \/ job' = [job EXCEPT ![c].found = Named(job[c].names)]
          \/ job' = [job EXCEPT ![c].dropped = Named(job[c].drop)]
      BY <2>4 DEF ResolveRoles, ResolveRemovedRoles
    <3>3. job[d] \in Jobs
      BY DEF JobsInv
    <3>4. /\ job'[d].names = job[d].names
          /\ job'[d].found = job[d].found \/ job'[d].found = Named(job[d].names)
      BY <2>4, <3>2, <3>3 DEF JobsInv, Jobs
    <3> QED  BY <2>1, <3>1, <3>4 DEF Named, MovedInv
  <2> QED
    <3>2. CASE Call(c)
      <4>1. PICK j \in Calls : job' = [job EXCEPT ![c] = j]
        BY <3>2 DEF Call
      <4>2. j.found = {}
        BY CallsAreSensible DEF GoodCall
      <4> QED  BY <2>2, <2>3, <4>1, <4>2 DEF JobsInv
    <3>3. CASE Answer(c)
      BY <2>2, <2>3, <3>3, NoJobIsSensible DEF Answer, JobsInv
    <3>4. CASE ResolveRoles(c) \/ ResolveRemovedRoles(c)
      BY <2>2, <2>4, <3>4 DEF ResolveRoles, ResolveRemovedRoles, JobsInv
    <3>5. CASE FindUser(c) \/ EnsureUsersExist(c) \/ FindRole(c) \/ ResolvePermissions(c)
                 \/ CountUsers(c)
      BY <2>2, <3>5 DEF FindUser, EnsureUsersExist, FindRole, ResolvePermissions, CountUsers
    <3> QED
      BY <1>2, <3>2, <3>3, <3>4, <3>5 DEF Step, Refuse, CreateUser, UpdateUser, DeleteUser,
           BulkUpdate, BulkDelete, InsertRole, UpdateRole, DropRole, SetRolePermissions,
           CreateApiKey, RevokeApiKey, SetPassword, Transaction
<1> QED  BY <1>1, <1>2 DEF Next

LEMMA Invariance == Spec => []IInv
<1>1. IInv /\ [Next]_vars => IInv'
  BY JobsKept, CountKept, TablesKept, MovedKept DEF IInv, Tables
<1> QED  BY InitIInv, <1>1, PTL DEF Spec

(* Every table keeps its types: an id that a row names is one a row can have. *)
THEOREM AdministrationTypes == Spec => []TypeOK
BY Invariance, PTL DEF IInv

(* No API key outlives its user, with or without foreign keys.             *)
THEOREM NoOrphanedKeys == Spec => []KeysHaveUsers
BY Invariance, PTL DEF IInv

(* With enforced foreign keys no row names an id that is free, however     *)
(* many calls rely on what they looked up before.                          *)
THEOREM NoInheritedRows == Spec => []FreeIdsAreUnnamed
BY Invariance, PTL DEF IInv

(* deleteRole() spares a role that somebody holds from call to DELETE.     *)
THEOREM HeldRolesStay == Spec => HeldRoleStays
<1>1. IInv => (\A c \in Clients : DropRole(c) => held[c] = {})
  BY DEF IInv, CountInv, DropRole, At
<1> QED  BY Invariance, <1>1, PTL DEF Spec, HeldRoleStays

-----------------------------------------------------------------------------
(* Who comes by a role.                                                    *)
LEMMA LargestNatural ==
  ASSUME NEW S \in SUBSET Ids, S # {}
  PROVE  \E m \in S : \A n \in S : n <= m
<1> DEFINE Down == {MaxId - n : n \in S}
<1>1. Down # {} /\ Down \in SUBSET Nat
  <2>1. MaxId \in Nat
    BY AdministrationAssumption
  <2>2. \A n \in S : MaxId - n \in Nat
    BY <2>1 DEF Ids
  <2> QED  BY <2>2
<1>2. PICK d \in Down : \A e \in Down : ~(<<e, d>> \in OpToRel(<, Nat))
  BY <1>1, NatLessThanWellFounded, WFMin
<1>3. PICK m \in S : d = MaxId - m
  OBVIOUS
<1>4. ASSUME NEW n \in S PROVE n <= m
  <2>1. ~(<<MaxId - n, d>> \in OpToRel(<, Nat))
    BY <1>2
  <2>2. MaxId - n \in Nat /\ d \in Nat /\ n \in Nat /\ m \in Nat
    BY <1>1, <1>3 DEF Ids
  <2> QED  BY <1>3, <2>1, <2>2, AdministrationAssumption DEF OpToRel
<1> QED  BY <1>4

(* INTEGER PRIMARY KEY gives no id that is in use.                         *)
LEMMA NextIdIsFree ==
  ASSUME NEW S \in SUBSET Ids
  PROVE  NextId(S) \notin S
<1>1. CASE S = {}
  BY <1>1
<1>2. CASE S # {}
  <2> DEFINE m == CHOOSE m \in S : \A n \in S : n <= m
  <2>1. m \in S /\ \A n \in S : n <= m
    BY <1>2, LargestNatural
  <2> HIDE DEF m
  <2>2. m \in Nat /\ ~(1 + m <= m)
    BY <2>1, AdministrationAssumption DEF Ids
  <2>3. NextId(S) = 1 + m
    BY <1>2 DEF NextId, m
  <2> QED  BY <2>1, <2>2, <2>3
<1> QED  BY <1>1, <1>2

Gains(u, n) == n \in RoleNamesOf(u)' \ RoleNamesOf(u)

(* A name that is new comes with a user, a row of user_roles or a name.    *)
LEMMA GainsNeed ==
  ASSUME NEW u \in Ids, NEW n, Gains(u, n)
  PROVE  /\ users'[u] # None
         /\ \E r \in Ids :
              /\ roles'[r] = n /\ roles'[r] # None /\ <<u, r>> \in userRoles'
              /\ users[u] # None /\ <<u, r>> \in userRoles => roles[r] # n
BY DEF Gains, RoleNamesOf, RolesOf, ExistingRoles

Asked(c, u, n) ==
  \/ Grants(c, u) /\ n \in job[c].names
  \/ Grants(c, u) /\ c \in moved /\ \E r \in job[c].found : roles[r] = n
  \/ UpdateRole(c) /\ n \in job[c].names
  \/ InsertRole(c) /\ n \in job[c].names /\ ~foreignKeys

LEMMA FoundAreAsked ==
  ASSUME MovedInv, NEW c \in Clients, NEW u \in Ids, Grants(c, u),
         NEW r \in job[c].found
  PROVE  Asked(c, u, roles[r])
BY DEF Asked, MovedInv

LEMMA GainIsAsked ==
  ASSUME IInv, NEW c \in Clients, Step(c), NEW u \in Ids, NEW n, Gains(u, n)
  PROVE  Asked(c, u, n)
<1>1. PICK r \in Ids :
        /\ users'[u] # None
        /\ roles'[r] = n /\ roles'[r] # None /\ <<u, r>> \in userRoles'
        /\ users[u] # None /\ <<u, r>> \in userRoles => roles[r] # n
  BY GainsNeed
<1>2. TypeOK /\ JobsInv /\ FreeIdsAreUnnamed /\ MovedInv
  BY DEF IInv
<1>3. ASSUME UNCHANGED <<users, roles, userRoles>> PROVE FALSE
  BY <1>1, <1>3
<1>4. CASE CreateUser(c)
  <2> DEFINE v == NextId(Existing)
  <2>1. v \in Ids /\ users' = [users EXCEPT ![v] = "active"] /\ UNCHANGED roles
        /\ userRoles' = ReplaceRoles(v, job[c].found)
    BY <1>4 DEF CreateUser
  <2>2. users[v] = None
    BY <2>1, NextIdIsFree DEF Existing
  <2> HIDE DEF v
  <2>3. u = v
    BY <1>1, <1>2, <2>1 DEF ReplaceRoles, TypeOK
  <2>4. r \in job[c].found
    BY <1>1, <2>1, <2>3 DEF ReplaceRoles
  <2>5. Grants(c, u)
    BY <1>4, <2>2, <2>3 DEF Grants
  <2>6. n = roles[r]
    BY <1>1, <2>1
  <2> QED  BY <1>2, <2>4, <2>5, <2>6, FoundAreAsked
<1>5. CASE UpdateUser(c) \/ BulkUpdate(c)
  <2>1. UpdateStatus(c) /\ UNCHANGED roles
    BY <1>5 DEF UpdateUser, BulkUpdate
  <2>2. users[u] # None
    BY <1>1, <1>2, <2>1, UpdateStatusKeepsUsers DEF Existing
  <2>3. <<u, r>> \notin userRoles
    BY <1>1, <2>1, <2>2
  <2>4. u \in job[c].ids /\ r \in job[c].found
    BY <1>1, <1>5, <2>3 DEF UpdateUser, BulkUpdate, ReplaceRoles
  <2>5. Grants(c, u)
    BY <1>5, <2>4 DEF Grants
  <2>6. n = roles[r]
    BY <1>1, <2>1
  <2> QED  BY <1>2, <2>4, <2>5, <2>6, FoundAreAsked
<1>6. CASE InsertRole(c)
  <2>1. PICK m \in job[c].names :
          /\ roles' = [roles EXCEPT ![NextId(ExistingRoles)] = m]
          /\ UNCHANGED <<users, userRoles>>
    BY <1>6 DEF InsertRole
  <2>2. r = NextId(ExistingRoles) /\ n = m
    BY <1>1, <1>2, <2>1 DEF TypeOK
  <2>3. r \notin ExistingRoles
    BY <2>2, NextIdIsFree DEF ExistingRoles
  <2>4. ~foreignKeys
    BY <1>1, <1>2, <2>1, <2>3 DEF FreeIdsAreUnnamed
  <2> QED  BY <1>6, <2>1, <2>2, <2>4 DEF Asked
<1>7. CASE UpdateRole(c)
  <2>1. PICK m \in job[c].names :
          /\ roles' = [roles EXCEPT ![job[c].role] = IF @ = None THEN None ELSE m]
          /\ UNCHANGED <<users, userRoles>>
    BY <1>7 DEF UpdateRole
  <2>2. n = m
    BY <1>1, <1>2, <2>1 DEF TypeOK
  <2> QED  BY <1>7, <2>1, <2>2 DEF Asked
<1>8. ASSUME DeleteUser(c) \/ BulkDelete(c) PROVE FALSE
  BY <1>1, <1>2, <1>8 DEF DeleteUser, BulkDelete, DeleteRows, TypeOK
<1>9. ASSUME DropRole(c) PROVE FALSE
  <2>1. /\ roles' = [roles EXCEPT ![job[c].role] = None]
        /\ userRoles' \subseteq userRoles /\ UNCHANGED users
    BY <1>9 DEF DropRole, CascadeRole
  <2> QED  BY <1>1, <1>2, <2>1 DEF TypeOK
<1>10. ASSUME \/ Call(c) \/ Refuse(c) \/ FindUser(c) \/ ResolveRoles(c) \/ ResolveRemovedRoles(c)
              \/ EnsureUsersExist(c) \/ FindRole(c) \/ ResolvePermissions(c) \/ CountUsers(c)
       PROVE  FALSE
  BY <1>3, <1>10 DEF Call, Refuse, FindUser, ResolveRoles, ResolveRemovedRoles,
     EnsureUsersExist, FindRole, ResolvePermissions, CountUsers, tables
<1>11. ASSUME SetRolePermissions(c) \/ CreateApiKey(c) \/ RevokeApiKey(c) \/ SetPassword(c)
       PROVE  FALSE
  BY <1>3, <1>11 DEF SetRolePermissions, CreateApiKey, RevokeApiKey, SetPassword
<1> QED
  BY <1>4, <1>5, <1>6, <1>7, <1>8, <1>9, <1>10, <1>11 DEF Step

(* Nobody comes by a role that no call for his id asked for, unless the    *)
(* role it asked for has been renamed or deleted meanwhile, or foreign     *)
(* keys are not enforced and a new role gets the id of an old one.         *)
THEOREM OnlyAskedRoles == Spec => GrantsAreAsked
<1>1. IInv /\ [Next]_vars =>
        [\A u \in Ids : \A n \in RoleNamesOf(u)' \ RoleNamesOf(u) :
           \E c \in Clients : Asked(c, u, n)]_vars
  <2> SUFFICES ASSUME IInv, Next, NEW u \in Ids, NEW n \in RoleNamesOf(u)' \ RoleNamesOf(u)
               PROVE  \E c \in Clients : Asked(c, u, n)
    OBVIOUS
  <2>1. PICK c \in Clients : Step(c)
    BY DEF Next
  <2> QED  BY <2>1, GainIsAsked DEF Gains
<1> QED  BY Invariance, <1>1, PTL DEF Spec, GrantsAreAsked, Asked
=============================================================================
