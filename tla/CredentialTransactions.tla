------------------------ MODULE CredentialTransactions ------------------------
(***************************************************************************)
(* The transactions of DatabaseJwtSessionService, DatabasePasswordService  *)
(* and DatabaseUserService.update (packages/auth-db/src) on the rows of    *)
(* one user, one SQL statement per step, for requests that run at once.    *)
(*                                                                         *)
(* SQLiteDB runs one transaction at a time (Serialized = TRUE, see         *)
(* SqliteDB).  PostgresDB says BEGIN, which is READ COMMITTED: a statement *)
(* reads what is committed and its own writes, and waits for a row that    *)
(* another transaction has written.                                        *)
(*                                                                         *)
(* Generated values (session ids, tokens) are fresh members of a set.      *)
(* Expiry is a reason for Abort, and a write is never half a statement.    *)
(***************************************************************************)
EXTENDS Naturals, Sequences, FiniteSets

CONSTANTS
  Clients,      \* the requests that may be under way at the same time
  Sessions,     \* ids of jwt_sessions
  Tokens,       \* refresh tokens; their hashes in jwt_refresh_tokens
  Resets,       \* reset tokens; their hashes in password_reset_tokens
  Passwords,    \* passwords; their hashes in password_credentials
  None,         \* no row, or no argument
  Untouched,    \* a row that a transaction has not written
  Operations,   \* the operations that the clients call
  Serialized    \* TRUE for SQLiteDB, FALSE for PostgresDB

SessionRow(s) == <<"session", s>>
TokenRow(s) == <<"token", s>>
ResetRow(r) == <<"reset", r>>
PasswordRow == <<"password", None>>
UserRow == <<"user", None>>

SessionRows == {SessionRow(s) : s \in Sessions}
TokenRows == {TokenRow(s) : s \in Sessions}
ResetRows == {ResetRow(r) : r \in Resets}
Rows == SessionRows \cup TokenRows \cup ResetRows \cup {PasswordRow, UserRow}

Statuses == {"active", "revoked", "disabled"}
Values == Statuses \cup Tokens \cup Passwords \cup {"live", None}

ASSUME CredentialAssumption ==
  /\ Untouched \notin Values
  /\ None \notin Statuses \cup Tokens \cup Passwords \cup Sessions \cup Resets \cup {"live"}
  /\ Tokens \cap Resets = {}
  /\ Serialized \in BOOLEAN
  /\ Operations \subseteq {"create", "refresh", "revoke", "revokeAll", "set",
                           "change", "createReset", "reset", "enable", "disable"}

VARIABLES
  db,       \* db[x]: the committed value of row x
  state,    \* state[c]: "idle", "queued" or "open"
  job,      \* job[c]: the operation that c has called, with its arguments
  todo,     \* todo[c]: the statements that c's transaction has still to run
  mine,     \* mine[c]: what c's transaction has written
  handed,   \* history: the tokens that answers gave to the caller
  spent     \* history: the tokens that a refresh or a reset accepted

vars == <<db, state, job, todo, mine, handed, spent>>

NoJob == [op |-> "none", session |-> None, old |-> None, new |-> None]
Nothing == [x \in Rows |-> Untouched]

(* Mutant: reset() forgets the sessions.                                   *)
StatementsKeepSessions(op) ==
  CASE op = "create"      -> <<"checkUser", "insertSession">>
    [] op = "refresh"     -> <<"findToken", "rotateToken">>
    [] op = "revoke"      -> <<"findSession", "revokeSession">>
    [] op = "revokeAll"   -> <<"revokeSessions">>
    [] op = "change"      -> <<"verify", "replacePassword", "revokeSessions">>
    [] op = "createReset" -> <<"checkUser", "dropResets", "insertReset">>
    [] op = "reset"       -> <<"consumeReset", "checkUser", "replacePassword">>
    [] op = "set"         -> <<"replacePassword">>
    [] OTHER              -> <<"setStatus">>

(* The statements of each operation, in the order of its callback.         *)
Statements(op) ==
  CASE op = "create"      -> <<"checkUser", "insertSession">>
    [] op = "refresh"     -> <<"findToken", "rotateToken">>
    [] op = "revoke"      -> <<"findSession", "revokeSession">>
    [] op = "revokeAll"   -> <<"revokeSessions">>
    [] op = "set"         -> <<"replacePassword">>
    [] op = "change"      -> <<"verify", "replacePassword", "revokeSessions">>
    [] op = "createReset" -> <<"checkUser", "dropResets", "insertReset">>
    [] op = "reset"       -> <<"consumeReset", "checkUser", "replacePassword",
                               "revokeSessions">>
    [] op = "enable"      -> <<"setStatus">>
    [] op = "disable"     -> <<"setStatus">>

Init ==
  /\ db \in {[x \in Rows |-> IF x = UserRow THEN "active"
                             ELSE IF x = PasswordRow THEN p ELSE None] : p \in Passwords}
  /\ state = [c \in Clients |-> "idle"]
  /\ job = [c \in Clients |-> NoJob]
  /\ todo = [c \in Clients |-> <<>>]
  /\ mine = [c \in Clients |-> Nothing]
  /\ handed = {}
  /\ spent = {}

-----------------------------------------------------------------------------
(* Transactions.                                                           *)

(* What a statement of c reads.                                            *)
View(c) == [x \in Rows |-> IF mine[c][x] = Untouched THEN db[x] ELSE mine[c][x]]

(* A statement of c that writes the rows w names, once nobody else holds   *)
(* them.  (PostgreSQL would judge rows inserted while it waited by the     *)
(* statement's first snapshot; here it sees them.)                         *)
Put(c, w) ==
  /\ \A x \in DOMAIN w, d \in Clients \ {c} : mine[d][x] = Untouched
  /\ mine' = [mine EXCEPT ![c] =
                [x \in Rows |-> IF x \in DOMAIN w THEN w[x] ELSE mine[c][x]]]

Statement(c, name) ==
  /\ state[c] = "open"
  /\ todo[c] # <<>> /\ Head(todo[c]) = name
  /\ todo' = [todo EXCEPT ![c] = Tail(@)]
  /\ UNCHANGED <<db, state, handed, spent>>

Read(c, name) == Statement(c, name) /\ UNCHANGED mine

End(c) ==
  /\ state' = [state EXCEPT ![c] = "idle"]
  /\ job' = [job EXCEPT ![c] = NoJob]
  /\ todo' = [todo EXCEPT ![c] = <<>>]
  /\ mine' = [mine EXCEPT ![c] = Nothing]

(* (create() generates a session alone, createRefreshable() a token too.)  *)
(* A value nobody has been given, and nobody's open call has generated.    *)
Fresh(S) == S \ (handed \cup {job[d].new : d \in Clients} \cup {job[d].session : d \in Clients})

(* The calls that a caller can make: it knows the tokens it was given.     *)
Inputs(op, session, old, new) == [op : {op}, session : session, old : old, new : new]
NoInput == {None}

CreateJobs ==
  Inputs("create", {s \in Fresh(Sessions) : db[SessionRow(s)] = None}, NoInput,
         Fresh(Tokens) \cup NoInput)
RefreshJobs == Inputs("refresh", NoInput, Tokens \cap handed, Fresh(Tokens))
RevokeJobs == Inputs("revoke", Sessions, NoInput, NoInput)
SetJobs == Inputs("set", NoInput, NoInput, Passwords)
ChangeJobs == Inputs("change", NoInput, Passwords, Passwords)
CreateResetJobs == Inputs("createReset", NoInput, NoInput, Fresh(Resets))
ResetJobs == Inputs("reset", NoInput, Resets \cap handed, Passwords)

Jobs(op) ==
  CASE op = "create" -> CreateJobs
    [] op = "refresh" -> RefreshJobs
    [] op = "revoke" -> RevokeJobs
    [] op = "set" -> SetJobs
    [] op = "change" -> ChangeJobs
    [] op = "createReset" -> CreateResetJobs
    [] op = "reset" -> ResetJobs
    [] OTHER -> Inputs(op, NoInput, NoInput, NoInput)

(* What precedes db.transaction(): random values, hashes, the clock.       *)
Call(c, j) ==
  /\ state[c] = "idle"
  /\ state' = [state EXCEPT ![c] = "queued"]
  /\ job' = [job EXCEPT ![c] = j]
  /\ UNCHANGED <<db, todo, mine, handed, spent>>

(* Mutant: transactions do not wait for each other.                        *)
BeginAtOnce(c) ==
  /\ state[c] = "queued"
  /\ state' = [state EXCEPT ![c] = "open"]
  /\ todo' = [todo EXCEPT ![c] = Statements(job[c].op)]
  /\ UNCHANGED <<db, job, mine, handed, spent>>

Begin(c) ==
  /\ state[c] = "queued"
  /\ Serialized => \A d \in Clients : state[d] # "open"
  /\ state' = [state EXCEPT ![c] = "open"]
  /\ todo' = [todo EXCEPT ![c] = Statements(job[c].op)]
  /\ UNCHANGED <<db, job, mine, handed, spent>>

(* The callback throws, a statement or the COMMIT fails, or the process    *)
(* dies: everything is rolled back.                                        *)
Abort(c) ==
  /\ state[c] \in {"queued", "open"}
  /\ End(c)
  /\ UNCHANGED <<db, handed, spent>>

(* COMMIT, and the answer to the caller.                                   *)
Commit(c) ==
  /\ state[c] = "open" /\ todo[c] = <<>>
  /\ db' = View(c)
  /\ handed' = handed \cup
       (IF job[c].op \in {"create", "refresh", "createReset"} THEN {job[c].new} \ {None} ELSE {})
  /\ spent' = spent \cup
       (IF job[c].op \in {"refresh", "reset"} THEN {job[c].old} ELSE {})
  /\ End(c)

-----------------------------------------------------------------------------
(* Statements.                                                             *)

CheckUser(c) ==
  /\ Read(c, "checkUser")
  /\ View(c)[UserRow] = "active"
  /\ UNCHANGED job

InsertSession(c) ==
  /\ Statement(c, "insertSession")
  /\ LET s == job[c].session
     IN  Put(c, [x \in {SessionRow(s), TokenRow(s)} |->
                   IF x = SessionRow(s) THEN "active" ELSE job[c].new])
  /\ UNCHANGED job

(* The SELECT over refresh tokens, sessions and users.                     *)
FindToken(c) ==
  /\ Read(c, "findToken")
  /\ View(c)[UserRow] = "active"
  /\ \E s \in Sessions :
       /\ View(c)[TokenRow(s)] = job[c].old
       /\ View(c)[SessionRow(s)] = "active"
       /\ job' = [job EXCEPT ![c].session = s]

(* Mutant: the refresh token is left in place.                             *)
KeepToken(c) == Read(c, "rotateToken") /\ UNCHANGED job

(* UPDATE ... SET token_hash = ? WHERE session_id = ?                      *)
RotateToken(c) ==
  /\ Statement(c, "rotateToken")
  /\ Put(c, [x \in {TokenRow(job[c].session)} |-> job[c].new])
  /\ UNCHANGED job

FindSession(c) ==
  /\ Read(c, "findSession")
  /\ View(c)[SessionRow(job[c].session)] # None
  /\ UNCHANGED job

RevokeSession(c) ==
  /\ Statement(c, "revokeSession")
  /\ Put(c, [x \in {SessionRow(job[c].session)} |-> "revoked"])
  /\ UNCHANGED job

RevokeSessions(c) ==
  /\ Statement(c, "revokeSessions")
  /\ Put(c, [x \in {x \in SessionRows : View(c)[x] = "active"} |-> "revoked"])
  /\ UNCHANGED job

(* Mutant: the comparison is not looked at.                                *)
VerifyNothing(c) ==
  /\ Read(c, "verify")
  /\ View(c)[UserRow] = "active"
  /\ View(c)[PasswordRow] # None
  /\ UNCHANGED job

(* The SELECT of the credential and the comparison of its hash.            *)
Verify(c) ==
  /\ Read(c, "verify")
  /\ View(c)[UserRow] = "active"
  /\ View(c)[PasswordRow] = job[c].old
  /\ UNCHANGED job

ReplacePassword(c) ==
  /\ Statement(c, "replacePassword")
  /\ Put(c, [x \in {PasswordRow} |-> job[c].new])
  /\ UNCHANGED job

(* Mutant: earlier reset tokens stay.                                      *)
KeepResets(c) == Read(c, "dropResets") /\ UNCHANGED job

DropResets(c) ==
  /\ Statement(c, "dropResets")
  /\ Put(c, [x \in {x \in ResetRows : View(c)[x] = "live"} |-> None])
  /\ UNCHANGED job

InsertReset(c) ==
  /\ Statement(c, "insertReset")
  /\ Put(c, [x \in {ResetRow(job[c].new)} |-> "live"])
  /\ UNCHANGED job

(* Mutant: SELECT instead of DELETE ... RETURNING.                         *)
LookUpReset(c) ==
  /\ Read(c, "consumeReset")
  /\ View(c)[ResetRow(job[c].old)] = "live"
  /\ UNCHANGED job

(* DELETE ... RETURNING                                                    *)
ConsumeReset(c) ==
  /\ Statement(c, "consumeReset")
  /\ View(c)[ResetRow(job[c].old)] = "live"
  /\ Put(c, [x \in {ResetRow(job[c].old)} |-> None])
  /\ UNCHANGED job

SetStatus(c) ==
  /\ Statement(c, "setStatus")
  /\ Put(c, [x \in {UserRow} |-> IF job[c].op = "enable" THEN "active" ELSE "disabled"])
  /\ UNCHANGED job

Execute(c) ==
  \/ CheckUser(c) \/ InsertSession(c) \/ FindToken(c) \/ RotateToken(c)
  \/ FindSession(c) \/ RevokeSession(c) \/ RevokeSessions(c)
  \/ Verify(c) \/ ReplacePassword(c)
  \/ DropResets(c) \/ InsertReset(c) \/ ConsumeReset(c) \/ SetStatus(c)

Next ==
  \E c \in Clients :
    \/ \E op \in Operations : \E j \in Jobs(op) : Call(c, j)
    \/ Begin(c) \/ Execute(c) \/ Commit(c) \/ Abort(c)

Spec == Init /\ [][Next]_vars

-----------------------------------------------------------------------------
TypeOK ==
  /\ db \in [Rows -> Values]
  /\ state \in [Clients -> {"idle", "queued", "open"}]
  /\ \A c \in Clients :
       /\ job[c].op \in Operations \cup {"none"}
       /\ job[c].session \in Sessions \cup {None}
       /\ mine[c] \in [Rows -> Values \cup {Untouched}]
  /\ handed \subseteq Tokens \cup Resets
  /\ spent \subseteq handed

Answers(c, ops) == state[c] = "open" /\ job[c].op \in ops /\ Commit(c)

(* A refresh token is exchanged once: "A previously used refresh token     *)
(* immediately becomes invalid" (SECURITY.md).                             *)
RefreshTokenSpentOnce ==
  [][\A c \in Clients : Answers(c, {"refresh"}) => job[c].old \notin spent]_vars

(* A reset token "is single-use" (SECURITY.md).                            *)
ResetTokenSpentOnce ==
  [][\A c \in Clients : Answers(c, {"reset"}) => job[c].old \notin spent]_vars

(* Nobody is left with a refresh token that works no more although it was  *)
(* never used: two rotations of one session do not overwrite each other.   *)
HandedTokensAreStored ==
  \A t \in (handed \cap Tokens) \ spent : \E s \in Sessions : db[TokenRow(s)] = t

(* When a change or a reset of the password is answered, no session is     *)
(* active: none slips in between the UPDATE and the COMMIT.                *)
PasswordChangeRevokes ==
  [][\A c \in Clients : Answers(c, {"change", "reset"}) =>
       \A x \in SessionRows : db'[x] # "active"]_vars

(* change() replaces the password that it verified, and no other.          *)
ChangeReplacesVerified ==
  [][\A c \in Clients : Answers(c, {"change"}) => db[PasswordRow] = job[c].old]_vars

(* "Issuing a new token invalidates any previous reset token for that      *)
(* user" (SECURITY.md).                                                    *)
OneResetToken ==
  \A x, y \in ResetRows : db[x] = "live" /\ db[y] = "live" => x = y

-----------------------------------------------------------------------------
(* The session that a refresh has found is no part of its call.            *)
Asked(c) == IF job[c].op = "refresh" THEN [job[c] EXCEPT !.session = None] ELSE job[c]

Live == {r \in Resets : db[ResetRow(r)] = "live"}
Pending == IF Live = {} THEN None ELSE CHOOSE r \in Live : TRUE

Service ==
  INSTANCE CredentialService WITH
    user <- db[UserRow],
    sessions <- [s \in Sessions |-> db[SessionRow(s)]],
    tokens <- [s \in Sessions |-> db[TokenRow(s)]],
    password <- db[PasswordRow],
    pending <- Pending,
    calls <- [c \in Clients |-> Asked(c)]

(* Whatever else is under way, an operation is answered as if it had run   *)
(* alone and at once, and one that is refused has changed nothing.         *)
ImplementsService == Service!Spec
=============================================================================
