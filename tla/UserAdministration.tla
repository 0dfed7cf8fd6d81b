--------------------------- MODULE UserAdministration ---------------------------
(***************************************************************************)
(* DatabaseUserService and DatabaseApiKeyService (packages/auth-db/src) as *)
(* the handlers of sample/auth-db call them: users, roles, permissions and *)
(* API keys, administered by several requests at once.                     *)
(*                                                                         *)
(* The services run on SQLiteDB.  A db.get, db.all or db.run of its own is *)
(* one step; a db.transaction is one step too, because SqliteDB implements *)
(* SerialDatabase (see those modules).  Names are resolved and rows looked *)
(* up in steps before the transaction that relies on them.                 *)
(*                                                                         *)
(* The schema is that of sample/auth-db/migrations.  SQLite enforces its   *)
(* foreign keys only on a connection that has asked for it: the seed       *)
(* script and the tests do, SQLiteDB does not.  foreignKeys says which.    *)
(***************************************************************************)
EXTENDS Naturals, FiniteSets

CONSTANTS
  Clients,      \* the requests that may be under way at the same time
  MaxId,        \* bound: the ids that users and roles may reach
  RoleNames,    \* trimmed role names
  MaxNames,     \* bound: the role names of a call
  Permissions,  \* the rows of permissions, which nothing here changes
  Keys,         \* ids of api_keys
  None,         \* no row, or no argument
  MaxCalls      \* bound: the calls of a behaviour

Ids == 1..MaxId

ASSUME AdministrationAssumption ==
  /\ MaxId \in Nat \ {0, 1}   \* the seed has two users and two roles
  /\ MaxNames \in Nat /\ MaxCalls \in Nat
  /\ None \notin RoleNames /\ None \notin Keys /\ None \notin {"active", "disabled"}
  /\ None \notin [user : Ids, status : {"active", "revoked"}]

VARIABLES
  foreignKeys,      \* PRAGMA foreign_keys of the connection
  users,            \* users[u]: the status of u, or None
  roles,            \* roles[r]: the name of role r, or None
  userRoles,        \* the rows of user_roles
  rolePermissions,  \* the rows of role_permissions
  apiKeys,          \* apiKeys[k]: the row of k, or None
  dependents,       \* the users that sessions, passwords or reset tokens name
  at,               \* at[c]: the step that c's call takes next, or "idle"
  job,              \* job[c]: the call of c with its arguments and what it has read
  held,             \* history: held[c], who has held the role all through deleteRole
  moved,            \* history: the calls of which a role was renamed or deleted
                    \* after they had found it
  calls             \* the calls made so far

tables == <<users, roles, userRoles, rolePermissions, apiKeys, dependents>>
vars == <<foreignKeys, tables, at, job, held, moved, calls>>

NoJob == [op |-> "none", ids |-> {}, role |-> None, names |-> {}, drop |-> {}, status |-> None,
          key |-> None, found |-> {}, dropped |-> {}]

Existing == {u \in Ids : users[u] # None}
ExistingRoles == {r \in Ids : roles[r] # None}
RolesOf(u) == {r \in Ids : <<u, r>> \in userRoles}
UsersOf(r) == {u \in Ids : <<u, r>> \in userRoles}

(* INTEGER PRIMARY KEY without AUTOINCREMENT: one more than the largest.   *)
NextId(S) == IF S = {} THEN 1 ELSE 1 + (CHOOSE m \in S : \A n \in S : n <= m)

-----------------------------------------------------------------------------
(* What the handlers pass on, once the schemas of their routes accept it.  *)

NameSets == {ns \in SUBSET RoleNames : Cardinality(ns) <= MaxNames}

(* A row is named by the id in the path, whether or not it exists.  Names  *)
(* and e-mail addresses of users are left out: UNIQUE (email) is one more  *)
(* reason to refuse.                                                       *)
CreateUserCalls ==
  {[NoJob EXCEPT !.op = "create", !.names = ns] : ns \in NameSets \ {{}}}

UpdateUserCall(u, s, ns) == [NoJob EXCEPT !.op = "update", !.ids = {u}, !.status = s, !.names = ns]

UpdateUserCalls ==
  {UpdateUserCall(u, s, ns) : u \in Ids, s \in {None, "active", "disabled"}, ns \in NameSets}
  \ {UpdateUserCall(u, None, {}) : u \in Ids}

DeleteUserCalls == {[NoJob EXCEPT !.op = "delete", !.ids = {u}] : u \in Ids}

BulkUpdateCall(us, ns, ms) == [NoJob EXCEPT !.op = "bulkUpdate", !.ids = us, !.names = ns, !.drop = ms]

Groups == SUBSET Ids \ {{}}

BulkUpdateCalls == {BulkUpdateCall(us, ns, ms) : us \in Groups, ns \in NameSets, ms \in NameSets}

BulkDisableCalls ==
  {[NoJob EXCEPT !.op = "bulkUpdate", !.ids = us, !.status = "disabled"] : us \in Groups}

BulkDeleteCalls == {[NoJob EXCEPT !.op = "bulkDelete", !.ids = us] : us \in Groups}

CreateRoleCalls == {[NoJob EXCEPT !.op = "createRole", !.names = {n}] : n \in RoleNames}

RenameRoleCall(r, n) == [NoJob EXCEPT !.op = "renameRole", !.role = r, !.names = {n}]

RenameRoleCalls == {RenameRoleCall(r, n) : r \in Ids, n \in RoleNames}

DeleteRoleCalls == {[NoJob EXCEPT !.op = "deleteRole", !.role = r] : r \in Ids}

SetPermissionsCall(r, ps) == [NoJob EXCEPT !.op = "setRolePermissions", !.role = r, !.names = ps]

SetRolePermissionsCalls == {SetPermissionsCall(r, ps) : r \in Ids, ps \in SUBSET Permissions}

KeyCall(op, u, k) == [NoJob EXCEPT !.op = op, !.ids = {u}, !.key = k]

(* The id of a new key is random: one that nobody has.                     *)
FreeKeys == {k \in Keys : apiKeys[k] = None /\ \A c \in Clients : job[c].key # k}

CreateApiKeyCalls == {KeyCall("createKey", u, k) : u \in Ids, k \in FreeKeys}

RevokeApiKeyCalls == {KeyCall("revokeKey", u, k) : u \in Ids, k \in Keys}

(* What CredentialTransactions does with a user: a password, a login.      *)
CredentialCalls == {[NoJob EXCEPT !.op = "setPassword", !.ids = {u}] : u \in Ids}

Calls ==
  UNION {CreateUserCalls, UpdateUserCalls, DeleteUserCalls,
         BulkUpdateCalls, BulkDisableCalls, BulkDeleteCalls,
         CreateRoleCalls, RenameRoleCalls, DeleteRoleCalls, SetRolePermissionsCalls,
         CreateApiKeyCalls, RevokeApiKeyCalls, CredentialCalls}

FirstStep(op) ==
  CASE op \in {"create", "bulkUpdate"} -> "resolve"
    [] op \in {"update", "delete"} -> "findUser"
    [] op = "bulkDelete" -> "ensure"
    [] op = "createRole" -> "insertRole"
    [] op \in {"renameRole", "deleteRole", "setRolePermissions"} -> "findRole"
    [] OTHER -> "transaction"

-----------------------------------------------------------------------------
At(c, step) == at[c] = step
Goto(c, step) == at' = [at EXCEPT ![c] = step]
Answer(c) == at' = [at EXCEPT ![c] = "idle"] /\ job' = [job EXCEPT ![c] = NoJob]

(* The seed: an administrator and a user, a role and a key for each.       *)
Init ==
  /\ foreignKeys \in BOOLEAN
  /\ users = [u \in Ids |-> IF u \in {1, 2} THEN "active" ELSE None]
  /\ roles \in {f \in [Ids -> RoleNames \cup {None}] :
                 f[1] # f[2] /\ \A r \in Ids : (f[r] # None) = (r \in {1, 2})}
  /\ userRoles = {<<1, 1>>, <<2, 2>>}
  /\ rolePermissions \in {{1, 2} \X {p} : p \in Permissions}
  /\ apiKeys \in {f \in [Keys -> [user : {1, 2}, status : {"active"}] \cup {None}] :
                   \A u \in {1, 2} : \E k \in Keys : f[k] # None /\ f[k].user = u
                                                  /\ \A x \in Keys \ {k} : f[x] # f[k]}
  /\ dependents = {1, 2}
  /\ at = [c \in Clients |-> "idle"]
  /\ job = [c \in Clients |-> NoJob]
  /\ held = [c \in Clients |-> {}]
  /\ moved = {}
  /\ calls = 0

Call(c) ==
  /\ At(c, "idle") /\ calls < MaxCalls
  /\ \E j \in Calls : job' = [job EXCEPT ![c] = j] /\ Goto(c, FirstStep(j.op))
  /\ calls' = calls + 1
  /\ UNCHANGED tables

(* A domain error, a constraint, a failing database: the call is refused   *)
(* at any step, and a transaction that fails leaves nothing behind.        *)
Refuse(c) ==
  /\ ~At(c, "idle")
  /\ Answer(c)
  /\ UNCHANGED <<tables, calls>>

-----------------------------------------------------------------------------
(* The statements before the transactions.                                 *)

FindUser(c) ==
  /\ At(c, "findUser")
  /\ job[c].ids \subseteq Existing
  /\ Goto(c, IF job[c].names = {} THEN "transaction" ELSE "resolve")
  /\ UNCHANGED <<tables, job, calls>>

Named(names) == {r \in ExistingRoles : roles[r] \in names}

(* Every name must be found; what is kept of a role is its id.             *)
ResolveRoles(c) ==
  /\ At(c, "resolve")
  /\ \A n \in job[c].names : \E r \in ExistingRoles : roles[r] = n
  /\ job' = [job EXCEPT ![c].found = Named(job[c].names)]
  /\ Goto(c, IF job[c].op = "bulkUpdate" THEN "resolveRemoved" ELSE "transaction")
  /\ UNCHANGED <<tables, calls>>

ResolveRemovedRoles(c) ==
  /\ At(c, "resolveRemoved")
  /\ \A n \in job[c].drop : \E r \in ExistingRoles : roles[r] = n
  /\ job' = [job EXCEPT ![c].dropped = Named(job[c].drop)]
  /\ Goto(c, "ensure")
  /\ UNCHANGED <<tables, calls>>

EnsureUsersExist(c) ==
  /\ At(c, "ensure")
  /\ job[c].ids \subseteq Existing
  /\ Goto(c, "transaction")
  /\ UNCHANGED <<tables, job, calls>>

FindRole(c) ==
  /\ At(c, "findRole")
  /\ roles[job[c].role] # None
  /\ Goto(c, CASE job[c].op = "renameRole" -> "updateRole"
               [] job[c].op = "deleteRole" -> "countUsers"
               [] OTHER -> "resolvePermissions")
  /\ UNCHANGED <<tables, job, calls>>

(* The permissions are all there: nothing deletes one.                     *)
ResolvePermissions(c) ==
  /\ At(c, "resolvePermissions")
  /\ Goto(c, "transaction")
  /\ UNCHANGED <<tables, job, calls>>

-----------------------------------------------------------------------------
(* What the schema does to a statement.                                    *)

(* A row of user_roles must refer to rows that exist, if that is enforced. *)
MayAssign(us, rs) == foreignKeys => us \subseteq Existing /\ rs \subseteq ExistingRoles

(* ON DELETE CASCADE of the columns that refer to users.                   *)
CascadeUsers(S, ids) == IF foreignKeys THEN S \ ids ELSE S

(* Mutant: the columns that refer to roles do not cascade.                 *)
CascadeNothing(R, i, r) == R

(* ON DELETE CASCADE of column i, which refers to roles.                   *)
CascadeRole(R, i, r) == IF foreignKeys THEN {x \in R : x[i] # r} ELSE R

-----------------------------------------------------------------------------
(* The transactions, and the writes that are statements of their own.      *)

Transaction(c, op) == At(c, "transaction") /\ job[c].op = op /\ Answer(c) /\ UNCHANGED calls

(* Mutant: the earlier rows stay.                                          *)
AddRoles(u, rs) == userRoles \cup ({u} \X rs)

(* DELETE the user's rows of user_roles and INSERT the new ones.           *)
ReplaceRoles(u, rs) == (userRoles \ ({u} \X Ids)) \cup ({u} \X rs)

CreateUser(c) ==
  /\ Transaction(c, "create")
  /\ LET u == NextId(Existing)
     IN  /\ u \in Ids
         /\ MayAssign({}, job[c].found)
         /\ users' = [users EXCEPT ![u] = "active"]
         /\ userRoles' = ReplaceRoles(u, job[c].found)
  /\ UNCHANGED <<roles, rolePermissions, apiKeys, dependents>>

(* UPDATE ... WHERE id = ? writes nothing when the user has gone.          *)
UpdateStatus(c) ==
  users' = [u \in Ids |-> IF u \in job[c].ids \cap Existing /\ job[c].status # None
                          THEN job[c].status ELSE users[u]]

UpdateUser(c) ==
  /\ Transaction(c, "update")
  /\ UpdateStatus(c)
  /\ IF job[c].names = {} THEN UNCHANGED userRoles
     ELSE /\ MayAssign(job[c].ids, job[c].found)
          /\ \E u \in job[c].ids : userRoles' = ReplaceRoles(u, job[c].found)
  /\ UNCHANGED <<roles, rolePermissions, apiKeys, dependents>>

(* DELETE from api_keys, user_roles and users.                             *)
DeleteRows(ids) ==
  /\ apiKeys' = [k \in Keys |-> IF apiKeys[k] # None /\ apiKeys[k].user \in ids
                                THEN None ELSE apiKeys[k]]
  /\ userRoles' = userRoles \ (ids \X Ids)
  /\ users' = [u \in Ids |-> IF u \in ids THEN None ELSE users[u]]
  /\ dependents' = CascadeUsers(dependents, ids)
  /\ UNCHANGED <<roles, rolePermissions>>

DeleteUser(c) == Transaction(c, "delete") /\ DeleteRows(job[c].ids)

BulkDelete(c) == Transaction(c, "bulkDelete") /\ DeleteRows(job[c].ids)

(* For each user the roles to add, then the roles to remove.               *)
BulkUpdate(c) ==
  /\ Transaction(c, "bulkUpdate")
  /\ UpdateStatus(c)
  /\ job[c].found # {} => MayAssign(job[c].ids, job[c].found)
  /\ userRoles' = (userRoles \cup (job[c].ids \X job[c].found)) \ (job[c].ids \X job[c].dropped)
  /\ UNCHANGED <<roles, rolePermissions, apiKeys, dependents>>

NameFree(n, r) == \A x \in ExistingRoles \ {r} : roles[x] # n

InsertRole(c) ==
  /\ At(c, "insertRole")
  /\ LET r == NextId(ExistingRoles)
     IN  \E n \in job[c].names :
           r \in Ids /\ NameFree(n, r) /\ roles' = [roles EXCEPT ![r] = n]
  /\ Answer(c)
  /\ UNCHANGED <<users, userRoles, rolePermissions, apiKeys, dependents, calls>>

UpdateRole(c) ==
  /\ At(c, "updateRole")
  /\ LET r == job[c].role
     IN  \E n \in job[c].names :
           NameFree(n, r) /\ roles' = [roles EXCEPT ![r] = IF @ = None THEN None ELSE n]
  /\ Answer(c)
  /\ UNCHANGED <<users, userRoles, rolePermissions, apiKeys, dependents, calls>>

(* Mutant: the count is not looked at.                                     *)
CountNothing(c) ==
  /\ At(c, "countUsers")
  /\ Goto(c, "dropRole")
  /\ UNCHANGED <<tables, job, calls>>

CountUsers(c) ==
  /\ At(c, "countUsers")
  /\ UsersOf(job[c].role) = {}
  /\ Goto(c, "dropRole")
  /\ UNCHANGED <<tables, job, calls>>

DropRole(c) ==
  /\ At(c, "dropRole")
  /\ roles' = [roles EXCEPT ![job[c].role] = None]
  /\ userRoles' = CascadeRole(userRoles, 2, job[c].role)
  /\ rolePermissions' = CascadeRole(rolePermissions, 1, job[c].role)
  /\ Answer(c)
  /\ UNCHANGED <<users, apiKeys, dependents, calls>>

SetRolePermissions(c) ==
  /\ Transaction(c, "setRolePermissions")
  /\ LET r == job[c].role
     IN  /\ job[c].names # {} => MayAssign({}, {r})
         /\ rolePermissions' = (rolePermissions \ ({r} \X Permissions)) \cup ({r} \X job[c].names)
  /\ UNCHANGED <<users, roles, userRoles, apiKeys, dependents>>

(* Mutant: the user is not looked up in the transaction.                   *)
CreateApiKeyBlindly(c) ==
  /\ Transaction(c, "createKey")
  /\ \E u \in job[c].ids :
       apiKeys' = [apiKeys EXCEPT ![job[c].key] = [user |-> u, status |-> "active"]]
  /\ UNCHANGED <<users, roles, userRoles, rolePermissions, dependents>>

CreateApiKey(c) ==
  /\ Transaction(c, "createKey")
  /\ \E u \in job[c].ids :
       /\ users[u] = "active"
       /\ apiKeys' = [apiKeys EXCEPT ![job[c].key] = [user |-> u, status |-> "active"]]
  /\ UNCHANGED <<users, roles, userRoles, rolePermissions, dependents>>

RevokeApiKey(c) ==
  /\ Transaction(c, "revokeKey")
  /\ LET k == job[c].key
     IN  /\ apiKeys[k] # None /\ apiKeys[k].user \in job[c].ids
         /\ apiKeys' = [apiKeys EXCEPT ![k].status = "revoked"]
  /\ UNCHANGED <<users, roles, userRoles, rolePermissions, dependents>>

(* DatabasePasswordService.set: the user must exist.                       *)
SetPassword(c) ==
  /\ Transaction(c, "setPassword")
  /\ job[c].ids \subseteq Existing
  /\ dependents' = dependents \cup job[c].ids
  /\ UNCHANGED <<users, roles, userRoles, rolePermissions, apiKeys>>

-----------------------------------------------------------------------------
Step(c) ==
  \/ Call(c) \/ Refuse(c)
  \/ FindUser(c) \/ ResolveRoles(c) \/ ResolveRemovedRoles(c) \/ EnsureUsersExist(c)
  \/ FindRole(c) \/ ResolvePermissions(c)
  \/ CreateUser(c) \/ UpdateUser(c) \/ DeleteUser(c) \/ BulkUpdate(c) \/ BulkDelete(c)
  \/ InsertRole(c) \/ UpdateRole(c) \/ CountUsers(c) \/ DropRole(c) \/ SetRolePermissions(c)
  \/ CreateApiKey(c) \/ RevokeApiKey(c) \/ SetPassword(c)

(* Who has held the role ever since deleteRole was called, and whose roles *)
(* are no longer what was found.                                           *)
Watch ==
  /\ held' = [c \in Clients |->
               IF job'[c].op # "deleteRole" THEN {}
               ELSE {u \in Ids : <<u, job'[c].role>> \in userRoles' /\ (At(c, "idle") \/ u \in held[c])}]
  /\ moved' = {c \in Clients :
                 /\ job'[c].found # {}
                 /\ c \in moved \/ \E r \in job[c].found : roles'[r] # roles[r]}

Next == (\E c \in Clients : Step(c)) /\ Watch /\ UNCHANGED foreignKeys

Spec == Init /\ [][Next]_vars

-----------------------------------------------------------------------------
TypeOK ==
  /\ foreignKeys \in BOOLEAN
  /\ users \in [Ids -> {"active", "disabled", None}]
  /\ roles \in [Ids -> RoleNames \cup {None}]
  /\ userRoles \subseteq Ids \X Ids
  /\ rolePermissions \subseteq Ids \X Permissions
  /\ apiKeys \in [Keys -> [user : Ids, status : {"active", "revoked"}] \cup {None}]
  /\ dependents \subseteq Ids

(* An API key never outlives its user, so the next user with that id does  *)
(* not get it: delete() takes the keys along in its transaction, and       *)
(* create() looks the user up inside its own.  No foreign key is needed.   *)
KeysHaveUsers ==
  \A k \in Keys : apiKeys[k] # None => apiKeys[k].user \in Existing

(* With the foreign keys of the migrations enforced, an id that is free is *)
(* named by no row, although deleteRole() and delete() leave other tables  *)
(* alone and several calls rely on what they looked up earlier: a new user *)
(* or role, which gets such an id, starts with no role, permission,        *)
(* password or session of an earlier one.                                  *)
FreeIdsAreUnnamed ==
  foreignKeys =>
    /\ userRoles \subseteq Existing \X ExistingRoles
    /\ \A x \in rolePermissions : x[1] \in ExistingRoles
    /\ dependents \subseteq Existing

RoleNamesOf(u) == IF users[u] = None THEN {} ELSE {roles[r] : r \in RolesOf(u) \cap ExistingRoles}

(* The call of c, as it writes, is about the roles of u.                   *)
Grants(c, u) ==
  \/ CreateUser(c) /\ users[u] = None
  \/ (UpdateUser(c) \/ BulkUpdate(c)) /\ u \in job[c].ids

(* Whoever comes by a role comes by the one that a call for his id named.  *)
(* He gets another only if that role has been renamed or deleted since it  *)
(* was found, and then what has its id now.  Leftovers of users and roles  *)
(* that are gone give him none: those of a user never, although an update  *)
(* may write roles for one who has just been deleted; those of a role only *)
(* without enforced foreign keys, when its id goes to another role.        *)
GrantsAreAsked ==
  [][\A u \in Ids : \A n \in RoleNamesOf(u)' \ RoleNamesOf(u) :
       \E c \in Clients :
         \/ Grants(c, u) /\ n \in job[c].names
         \/ Grants(c, u) /\ c \in moved /\ \E r \in job[c].found : roles[r] = n
         \/ UpdateRole(c) /\ n \in job[c].names
         \/ InsertRole(c) /\ n \in job[c].names /\ ~foreignKeys]_vars

(* deleteRole() counts the users of the role in one statement and deletes  *)
(* it in another: a role that somebody holds all the while stays.          *)
HeldRoleStays == [][\A c \in Clients : DropRole(c) => held[c] = {}]_vars
=============================================================================
