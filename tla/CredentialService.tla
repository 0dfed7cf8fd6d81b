--------------------------- MODULE CredentialService ---------------------------
(***************************************************************************)
(* What DatabaseJwtSessionService, DatabasePasswordService and             *)
(* DatabaseUserService.update promise to those who call them for one user: *)
(* every operation happens as a whole at one instant between its call and  *)
(* its answer, or is refused and changes nothing.                          *)
(***************************************************************************)
CONSTANTS
  Clients,      \* the requests that may be under way at the same time
  Sessions,     \* ids of sessions
  Tokens,       \* refresh tokens
  Resets,       \* reset tokens
  Passwords,
  None,         \* nothing, or no argument
  Operations    \* the operations that the clients call

VARIABLES
  user,       \* "active" or "disabled"
  sessions,   \* session -> "active", "revoked", or None
  tokens,     \* session -> the refresh token that it accepts, or None
  password,   \* the password of the user
  pending,    \* the reset token that is accepted, or None
  calls,      \* client -> the operation it waits for
  handed,     \* the tokens that answers gave to the caller
  spent       \* the tokens that a refresh or a reset accepted

vars == <<user, sessions, tokens, password, pending, calls, handed, spent>>

NoCall == [op |-> "none", session |-> None, old |-> None, new |-> None]

Init ==
  /\ user = "active"
  /\ sessions = [s \in Sessions |-> None]
  /\ tokens = [s \in Sessions |-> None]
  /\ password \in Passwords
  /\ pending = None
  /\ calls = [c \in Clients |-> NoCall]
  /\ handed = {} /\ spent = {}

(* Random values that nobody has, and what a caller can know.              *)
New(S) == S \ (handed \cup {calls[d].new : d \in Clients} \cup {calls[d].session : d \in Clients})
Calls(op, session, old, new) == [op : {op}, session : session, old : old, new : new]
Requests(op) ==
  CASE op = "create" ->
         Calls(op, {s \in New(Sessions) : sessions[s] = None}, {None}, New(Tokens) \cup {None})
    [] op = "refresh" -> Calls(op, {None}, Tokens \cap handed, New(Tokens))
    [] op = "revoke" -> Calls(op, Sessions, {None}, {None})
    [] op = "set" -> Calls(op, {None}, {None}, Passwords)
    [] op = "change" -> Calls(op, {None}, Passwords, Passwords)
    [] op = "createReset" -> Calls(op, {None}, {None}, New(Resets))
    [] op = "reset" -> Calls(op, {None}, Resets \cap handed, Passwords)
    [] OTHER -> Calls(op, {None}, {None}, {None})

Request(c) ==
  /\ calls[c] = NoCall
  /\ \E op \in Operations : \E r \in Requests(op) : calls' = [calls EXCEPT ![c] = r]
  /\ UNCHANGED <<user, sessions, tokens, password, pending, handed, spent>>

(* The operations.                                                         *)
RevokeSessions ==
  sessions' = [s \in Sessions |-> IF sessions[s] = "active" THEN "revoked" ELSE sessions[s]]

Create(r) ==
  /\ user = "active" /\ sessions[r.session] = None
  /\ sessions' = [sessions EXCEPT ![r.session] = "active"]
  /\ tokens' = [tokens EXCEPT ![r.session] = r.new]
  /\ UNCHANGED <<user, password, pending>>

Refresh(r) ==
  /\ user = "active"
  /\ \E s \in Sessions :
       /\ sessions[s] = "active" /\ tokens[s] = r.old
       /\ tokens' = [tokens EXCEPT ![s] = r.new]
  /\ UNCHANGED <<user, sessions, password, pending>>

Revoke(r) ==
  /\ sessions[r.session] # None
  /\ sessions' = [sessions EXCEPT ![r.session] = "revoked"]
  /\ UNCHANGED <<user, tokens, password, pending>>

RevokeAll == RevokeSessions /\ UNCHANGED <<user, tokens, password, pending>>

SetPassword(r) == password' = r.new /\ UNCHANGED <<user, sessions, tokens, pending>>

ChangePassword(r) ==
  /\ user = "active" /\ password = r.old
  /\ password' = r.new
  /\ RevokeSessions
  /\ UNCHANGED <<user, tokens, pending>>

CreateReset(r) ==
  /\ user = "active"
  /\ pending' = r.new
  /\ UNCHANGED <<user, sessions, tokens, password>>

Reset(r) ==
  /\ user = "active" /\ pending = r.old
  /\ pending' = None
  /\ password' = r.new
  /\ RevokeSessions
  /\ UNCHANGED <<user, tokens>>

SetStatus(r) ==
  /\ user' = IF r.op = "enable" THEN "active" ELSE "disabled"
  /\ UNCHANGED <<sessions, tokens, password, pending>>

Perform(r) ==
  \/ r.op = "create" /\ Create(r)
  \/ r.op = "refresh" /\ Refresh(r)
  \/ r.op = "revoke" /\ Revoke(r)
  \/ r.op = "revokeAll" /\ RevokeAll
  \/ r.op = "set" /\ SetPassword(r)
  \/ r.op = "change" /\ ChangePassword(r)
  \/ r.op = "createReset" /\ CreateReset(r)
  \/ r.op = "reset" /\ Reset(r)
  \/ r.op \in {"enable", "disable"} /\ SetStatus(r)

Answer(c) ==
  /\ Perform(calls[c])
  /\ handed' = handed \cup
       (IF calls[c].op \in {"create", "refresh", "createReset"} THEN {calls[c].new} \ {None} ELSE {})
  /\ spent' = spent \cup
       (IF calls[c].op \in {"refresh", "reset"} THEN {calls[c].old} ELSE {})
  /\ calls' = [calls EXCEPT ![c] = NoCall]

Refuse(c) ==
  /\ calls[c] # NoCall
  /\ calls' = [calls EXCEPT ![c] = NoCall]
  /\ UNCHANGED <<user, sessions, tokens, password, pending, handed, spent>>

Next == \E c \in Clients : Request(c) \/ Answer(c) \/ Refuse(c)

Spec == Init /\ [][Next]_vars
================================================================================
