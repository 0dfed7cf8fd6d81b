---------------------------- MODULE CredentialProofs ----------------------------
(***************************************************************************)
(* Reset tokens on either database, and refresh tokens, password changes   *)
(* and pending resets on SQLite, for any number of requests, sessions,     *)
(* tokens and passwords.                                                   *)
(***************************************************************************)
EXTENDS CredentialTransactions, TLAPS

USE CredentialAssumption

Generators == {"create", "refresh", "createReset"}

Names == {"checkUser", "insertSession", "findToken", "rotateToken", "findSession",
          "revokeSession", "revokeSessions", "replacePassword", "verify", "dropResets",
          "insertReset", "consumeReset", "setStatus"}

Givens == Tokens \cup Resets \cup Passwords \cup {None}
Records == [op : Operations \cup {"none"}, session : Sessions \cup {None},
            old : Givens, new : Givens]

(* What a caller gives to each operation.                                  *)
Fits(j) ==
  /\ j.op = "create" => j.session \in Sessions /\ j.new \in Tokens \cup {None}
  /\ j.op = "refresh" => j.old \in Tokens \cap handed /\ j.new \in Tokens
  /\ j.op = "revoke" => j.session \in Sessions
  /\ j.op \in {"set", "change", "reset"} => j.new \in Passwords
  /\ j.op = "createReset" => j.new \in Resets
  /\ j.op = "reset" => j.old \in Resets \cap handed

TypesInv ==
  /\ db \in [Rows -> Values]
  /\ state \in [Clients -> {"idle", "queued", "open"}]
  /\ job \in [Clients -> Records]
  /\ todo \in [Clients -> Seq(Names)]
  /\ mine \in [Clients -> [Rows -> Values \cup {Untouched}]]
  /\ handed \subseteq Tokens \cup Resets
  /\ spent \subseteq handed

(* The statements that are left are the last ones of the operation, and a  *)
(* transaction has written nothing before its first.                       *)
Left(c) == Len(todo[c])
TodoInv ==
  \A c \in Clients :
    /\ Fits(job[c])
    /\ state[c] = "idle" <=> job[c].op = "none"
    /\ state[c] # "open" => mine[c] = Nothing
    /\ state[c] = "open" =>
         LET S == Statements(job[c].op)
         IN  /\ Left(c) <= Len(S)
             /\ \A i \in 1..Left(c) : todo[c][i] = S[Len(S) - Left(c) + i]
             /\ Left(c) = Len(S) => mine[c] = Nothing

(* Rows are locked, and generated values are new.                          *)
LockInv ==
  \A c, d \in Clients : c # d => \A x \in Rows : Untouched \in {mine[c][x], mine[d][x]}
FreshInv ==
  \A c \in Clients : job[c].op \in Generators =>
    /\ job[c].new \notin handed
    /\ \A d \in Clients \ {c} :
         job[d].op \in Generators => job[c].new # job[d].new \/ job[c].new = None

(* refresh() has found the session before it rotates its token.            *)
FoundInv ==
  \A c \in Clients :
    state[c] = "open" /\ job[c].op = "refresh" /\ Left(c) < 2 => job[c].session \in Sessions

(* A reset token that is spent is gone for good.                           *)
ResetInv ==
  /\ \A r \in spent \cap Resets : db[ResetRow(r)] # "live"
  /\ \A c \in Clients :
       /\ \A r \in Resets :
            mine[c][ResetRow(r)] = "live" => job[c].op = "createReset" /\ r = job[c].new
       /\ state[c] = "open" /\ job[c].op = "reset" /\ Left(c) < 4 =>
            mine[c][ResetRow(job[c].old)] = None /\ job[c].old \notin spent

AnyInv == TypesInv /\ TodoInv /\ LockInv /\ FreshInv /\ FoundInv /\ ResetInv

-----------------------------------------------------------------------------
OneOpen == \A c, d \in Clients : state[c] = "open" /\ state[d] = "open" => c = d

(* What a transaction has read is still so, and what it has written.       *)
SeenInv ==
  \A c \in Clients : state[c] = "open" =>
    LET j == job[c]
    IN  /\ j.op = "refresh" /\ Left(c) < 2 => db[TokenRow(j.session)] = j.old
        /\ j.op = "revoke" /\ Left(c) < 2 => db[SessionRow(j.session)] # None
        /\ j.op = "change" /\ Left(c) < 3 => db[PasswordRow] = j.old
WrittenInv ==
  \A c \in Clients : state[c] = "open" =>
    LET j == job[c]
    IN  /\ j.op \in {"create", "refresh"} /\ Left(c) = 0 => mine[c][TokenRow(j.session)] = j.new
        /\ j.op = "create" /\ Left(c) = 0 => mine[c][SessionRow(j.session)] = "active"
        /\ j.op \in {"change", "reset"} /\ Left(c) = 0 =>
             \A x \in SessionRows : View(c)[x] # "active"
        /\ j.op = "createReset" /\ Left(c) < 2 =>
             \A r \in Resets : View(c)[ResetRow(r)] = "live" => r = j.new

(* Which rows of sessions and tokens a transaction writes.                 *)
OwnInv ==
  \A c \in Clients, s \in Sessions :
    /\ mine[c][TokenRow(s)] # Untouched =>
         job[c].op \in {"create", "refresh"} /\ s = job[c].session
           /\ mine[c][TokenRow(s)] = job[c].new
    /\ mine[c][SessionRow(s)] # None
    /\ mine[c][SessionRow(s)] # Untouched =>
         (job[c].op = "create" /\ s = job[c].session) \/ db[SessionRow(s)] # None
SessionInv ==
  /\ \A s \in Sessions : db[SessionRow(s)] = None => db[TokenRow(s)] = None
  /\ \A c \in Clients : job[c].op = "create" =>
       /\ db[SessionRow(job[c].session)] = None
       /\ \A d \in Clients \ {c} : job[d].op = "create" => job[d].session # job[c].session

(* A token that was handed out and not spent has one row, others have none.*)
TokenInv ==
  /\ \A s \in Sessions : db[TokenRow(s)] \in ((Tokens \cap handed) \ spent) \cup {None}
  /\ \A s, p \in Sessions : db[TokenRow(s)] = db[TokenRow(p)] /\ s # p => db[TokenRow(s)] = None
  /\ HandedTokensAreStored

SerialInv ==
  /\ OneOpen /\ SeenInv /\ WrittenInv /\ OwnInv
  /\ SessionInv /\ TokenInv /\ OneResetToken

-----------------------------------------------------------------------------
(* The rows of one table are not those of another.                         *)
LEMMA RowsDiffer ==
  /\ \A s \in Sessions : SessionRow(s) \in Rows /\ TokenRow(s) \in Rows
  /\ \A r \in Resets : ResetRow(r) \in Rows
  /\ PasswordRow \in Rows /\ UserRow \in Rows
  /\ \A s, p \in Sessions : SessionRow(s) # TokenRow(p)
  /\ \A s, p \in Sessions : s # p => SessionRow(s) # SessionRow(p) /\ TokenRow(s) # TokenRow(p)
  /\ \A r, q \in Resets : r # q => ResetRow(r) # ResetRow(q)
  /\ \A s \in Sessions, r \in Resets :
       /\ ResetRow(r) # SessionRow(s) /\ ResetRow(r) # TokenRow(s)
       /\ ResetRow(r) # PasswordRow /\ ResetRow(r) # UserRow
  /\ \A s \in Sessions :
       /\ SessionRow(s) # PasswordRow /\ SessionRow(s) # UserRow
       /\ TokenRow(s) # PasswordRow /\ TokenRow(s) # UserRow
  /\ PasswordRow # UserRow
BY DEF SessionRow, TokenRow, ResetRow, PasswordRow, UserRow, Rows, SessionRows, TokenRows, ResetRows

(* The statements by their number, counted from the last.                  *)
LEMMA StatementsAre ==
  ASSUME NEW op \in Operations
  PROVE  LET S == Statements(op)
             N == Len(Statements(op))
         IN  /\ S \in Seq(Names)
             /\ N \in 1..4
             /\ op = "create" => N = 2 /\ S[1] = "checkUser" /\ S[2] = "insertSession"
             /\ op = "refresh" => N = 2 /\ S[1] = "findToken" /\ S[2] = "rotateToken"
             /\ op = "revoke" => N = 2 /\ S[1] = "findSession" /\ S[2] = "revokeSession"
             /\ op = "revokeAll" => N = 1 /\ S[1] = "revokeSessions"
             /\ op = "set" => N = 1 /\ S[1] = "replacePassword"
             /\ op = "change" =>
                  N = 3 /\ S[1] = "verify" /\ S[2] = "replacePassword" /\ S[3] = "revokeSessions"
             /\ op = "createReset" =>
                  N = 3 /\ S[1] = "checkUser" /\ S[2] = "dropResets" /\ S[3] = "insertReset"
             /\ op = "reset" =>
                  /\ N = 4 /\ S[1] = "consumeReset" /\ S[2] = "checkUser"
                  /\ S[3] = "replacePassword" /\ S[4] = "revokeSessions"
             /\ op \in {"enable", "disable"} => N = 1 /\ S[1] = "setStatus"
<1>1. CASE op = "create"  BY <1>1 DEF Statements, Names
<1>2. CASE op = "refresh"  BY <1>2 DEF Statements, Names
<1>3. CASE op = "revoke"  BY <1>3 DEF Statements, Names
<1>4. CASE op = "revokeAll"  BY <1>4 DEF Statements, Names
<1>5. CASE op = "set"  BY <1>5 DEF Statements, Names
<1>6. CASE op = "change"  BY <1>6 DEF Statements, Names
<1>7. CASE op = "createReset"  BY <1>7 DEF Statements, Names
<1>8. CASE op = "reset"  BY <1>8 DEF Statements, Names
<1>9. CASE op = "enable"  BY <1>9 DEF Statements, Names
<1>10. CASE op = "disable"  BY <1>10 DEF Statements, Names
<1> QED  BY <1>1, <1>2, <1>3, <1>4, <1>5, <1>6, <1>7, <1>8, <1>9, <1>10

(* A statement runs at its place, and the others are left.                 *)
LEMMA StatementsInOrder ==
  ASSUME AnyInv, NEW c \in Clients, NEW name, Statement(c, name)
  PROVE  /\ job[c].op \in Operations
         /\ Left(c) \in 1..Len(Statements(job[c].op))
         /\ name = Statements(job[c].op)[Len(Statements(job[c].op)) - Left(c) + 1]
         /\ todo' \in [Clients -> Seq(Names)]
         /\ Left(c)' = Left(c) - 1
         /\ \A i \in 1..Left(c)' : todo'[c][i] = todo[c][i + 1]
         /\ \A d \in Clients \ {c} : todo'[d] = todo[d]
<1>1. job[c].op \in Operations
  BY DEF AnyInv, TypesInv, TodoInv, Statement, Records
<1>2. todo[c] \in Seq(Names) /\ todo[c] # <<>> /\ todo' = [todo EXCEPT ![c] = Tail(todo[c])]
  BY DEF AnyInv, TypesInv, Statement
<1>3. /\ Tail(todo[c]) \in Seq(Names) /\ Len(Tail(todo[c])) = Len(todo[c]) - 1
      /\ \A i \in 1..(Len(todo[c]) - 1) : Tail(todo[c])[i] = todo[c][i + 1]
      /\ Head(todo[c]) = todo[c][1] /\ Len(todo[c]) \in Nat \ {0}
  BY <1>2
<1>. DEFINE S == Statements(job[c].op)
<1>4. Len(S) \in 1..4
  BY <1>1, StatementsAre
<1>5. /\ Left(c) <= Len(S)
      /\ \A i \in 1..Left(c) : todo[c][i] = S[Len(S) - Left(c) + i]
  BY DEF AnyInv, TodoInv, Statement
<1>6. name = todo[c][1]
  BY <1>3 DEF Statement
<1>. HIDE DEF S
<1>7. Left(c) \in 1..Len(S) /\ name = S[Len(S) - Left(c) + 1]
  <2>1. Len(todo[c]) \in 1..Len(S)
    BY <1>3, <1>4, <1>5 DEF Left
  <2>2. todo[c][1] = S[Len(S) - Len(todo[c]) + 1]
    <3>1. 1 \in 1..Len(todo[c])
      BY <2>1, <1>4
    <3>2. \A i \in 1..Len(todo[c]) : todo[c][i] = S[Len(S) - Len(todo[c]) + i]
      BY <1>5 DEF Left
    <3> QED  BY <3>1, <3>2
  <2> QED  BY <1>6, <2>1, <2>2 DEF Left
<1>8. /\ todo' \in [Clients -> Seq(Names)] /\ todo'[c] = Tail(todo[c])
      /\ \A d \in Clients \ {c} : todo'[d] = todo[d]
  BY <1>2, <1>3 DEF AnyInv, TypesInv
<1> QED  BY <1>1, <1>3, <1>7, <1>8 DEF Left, S

(* Where each statement stands.                                            *)
LEMMA PlacesAre ==
  ASSUME AnyInv, NEW c \in Clients, NEW name, Statement(c, name)
  PROVE  LET op == job[c].op
             n == Left(c)
         IN  /\ name = "checkUser" =>
                  (op = "create" /\ n = 2) \/ (op = "createReset" /\ n = 3) \/ (op = "reset" /\ n = 3)
             /\ name = "insertSession" => op = "create" /\ n = 1
             /\ name = "findToken" => op = "refresh" /\ n = 2
             /\ name = "rotateToken" => op = "refresh" /\ n = 1
             /\ name = "findSession" => op = "revoke" /\ n = 2
             /\ name = "revokeSession" => op = "revoke" /\ n = 1
             /\ name = "revokeSessions" => op \in {"revokeAll", "change", "reset"} /\ n = 1
             /\ name = "verify" => op = "change" /\ n = 3
             /\ name = "replacePassword" =>
                  (op = "set" /\ n = 1) \/ (op = "change" /\ n = 2) \/ (op = "reset" /\ n = 2)
             /\ name = "dropResets" => op = "createReset" /\ n = 2
             /\ name = "insertReset" => op = "createReset" /\ n = 1
             /\ name = "consumeReset" => op = "reset" /\ n = 4
             /\ name = "setStatus" => op \in {"enable", "disable"} /\ n = 1
<1>. DEFINE op == job[c].op  n == Left(c)  S == Statements(op)
<1>1. op \in Operations /\ n \in 1..Len(S) /\ name = S[Len(S) - n + 1]
  BY StatementsInOrder
<1>2. Len(S) \in 1..4 /\ op \in {"create", "refresh", "revoke", "revokeAll", "set", "change",
                                  "createReset", "reset", "enable", "disable"}
  BY <1>1, StatementsAre
<1>. HIDE DEF n
<1>3. CASE op \in {"create", "refresh", "revoke"}
  <2>1. Len(S) = 2  BY <1>1, <1>3, StatementsAre
  <2>2. (n = 2 /\ name = S[1]) \/ (n = 1 /\ name = S[2])  BY <1>1, <2>1
  <2>3. CASE op = "create"  BY <1>1, <2>2, <2>3, StatementsAre DEF n
  <2>4. CASE op = "refresh"  BY <1>1, <2>2, <2>4, StatementsAre DEF n
  <2>5. CASE op = "revoke"  BY <1>1, <2>2, <2>5, StatementsAre DEF n
  <2> QED  BY <1>3, <2>3, <2>4, <2>5
<1>4. CASE op \in {"revokeAll", "set", "enable", "disable"}
  <2>1. Len(S) = 1  BY <1>1, <1>4, StatementsAre
  <2>2. n = 1 /\ name = S[1]  BY <1>1, <2>1
  <2> QED  BY <1>1, <1>4, <2>2, StatementsAre DEF n
<1>5. CASE op \in {"change", "createReset"}
  <2>1. Len(S) = 3  BY <1>1, <1>5, StatementsAre
  <2>2. (n = 3 /\ name = S[1]) \/ (n = 2 /\ name = S[2]) \/ (n = 1 /\ name = S[3])
    BY <1>1, <2>1
  <2>3. CASE op = "change"  BY <1>1, <2>2, <2>3, StatementsAre DEF n
  <2>4. CASE op = "createReset"  BY <1>1, <2>2, <2>4, StatementsAre DEF n
  <2> QED  BY <1>5, <2>3, <2>4
<1>6. CASE op = "reset"
  <2>1. Len(S) = 4  BY <1>1, <1>6, StatementsAre
  <2>2. \/ (n = 4 /\ name = S[1]) \/ (n = 3 /\ name = S[2])
        \/ (n = 2 /\ name = S[3]) \/ (n = 1 /\ name = S[4])
    BY <1>1, <2>1
  <2> QED  BY <1>1, <1>6, <2>2, StatementsAre DEF n
<1> QED  BY <1>2, <1>3, <1>4, <1>5, <1>6

(* A write of c to rows that nobody else has locked.                       *)
LEMMA PutKeeps ==
  ASSUME AnyInv, NEW c \in Clients, NEW w, DOMAIN w \subseteq Rows,
         \A x \in DOMAIN w : w[x] \in Values, Put(c, w)
  PROVE  /\ mine' \in [Clients -> [Rows -> Values \cup {Untouched}]]
         /\ \A d \in Clients \ {c} : mine'[d] = mine[d]
         /\ \A x \in Rows : mine'[c][x] = IF x \in DOMAIN w THEN w[x] ELSE mine[c][x]
         /\ LockInv'
<1>. DEFINE row == [x \in Rows |-> IF x \in DOMAIN w THEN w[x] ELSE mine[c][x]]
<1>1. mine \in [Clients -> [Rows -> Values \cup {Untouched}]]
  BY DEF AnyInv, TypesInv
<1>2. row \in [Rows -> Values \cup {Untouched}]
  BY <1>1
<1>3. mine' = [mine EXCEPT ![c] = row]
  BY DEF Put
<1>4. \A x \in DOMAIN w, d \in Clients \ {c} : mine[d][x] = Untouched
  BY DEF Put
<1>5. /\ mine' \in [Clients -> [Rows -> Values \cup {Untouched}]]
      /\ mine'[c] = row /\ \A d \in Clients \ {c} : mine'[d] = mine[d]
  <2>. HIDE DEF row
  <2> QED  BY <1>1, <1>2, <1>3
<1>6. LockInv'
  <2>. SUFFICES ASSUME NEW a \in Clients, NEW d \in Clients, a # d, NEW x \in Rows
               PROVE  Untouched \in {mine'[a][x], mine'[d][x]}
    BY DEF LockInv
  <2>1. Untouched \in {mine[a][x], mine[d][x]}
    BY DEF AnyInv, LockInv
  <2>2. CASE x \in DOMAIN w
    <3>1. \A e \in Clients \ {c} : mine'[e][x] = Untouched
      BY <1>4, <1>5, <2>2
    <3> QED  BY <3>1
  <2>3. CASE x \notin DOMAIN w
    <3>1. mine'[a][x] = mine[a][x] /\ mine'[d][x] = mine[d][x]
      BY <1>5, <2>3
    <3> QED  BY <2>1, <3>1
  <2> QED  BY <2>2, <2>3
<1> QED  BY <1>5, <1>6

(* What every statement keeps, whether it reads, writes, or finds a session. *)
LEMMA StatementKeeps ==
  ASSUME AnyInv, NEW c \in Clients, NEW name, Statement(c, name),
         mine' \in [Clients -> [Rows -> Values \cup {Untouched}]], LockInv',
         \A d \in Clients \ {c} : mine'[d] = mine[d],
         job' = job \/ (job[c].op = "refresh" /\ \E s \in Sessions : job' = [job EXCEPT ![c].session = s])
  PROVE  TypesInv' /\ TodoInv' /\ FreshInv'
<1>1. /\ UNCHANGED <<db, state, handed, spent>>
      /\ todo' \in [Clients -> Seq(Names)]
  BY StatementsInOrder DEF Statement
<1>2. /\ job' \in [Clients -> Records]
      /\ \A d \in Clients : /\ job'[d].op = job[d].op /\ job'[d].old = job[d].old
                            /\ job'[d].new = job[d].new
                            /\ job'[d].session = job[d].session \/ job[d].op = "refresh"
  <2>1. job \in [Clients -> Records]  BY DEF AnyInv, TypesInv
  <2>2. CASE job' = job  BY <2>1, <2>2
  <2>3. ASSUME job[c].op = "refresh", NEW s \in Sessions, job' = [job EXCEPT ![c].session = s]
        PROVE  <1>2
    <3>1. job[c] \in Records  BY <2>1
    <3>2. [job[c] EXCEPT !.session = s] \in Records  BY <3>1 DEF Records
    <3>3. job'[c] = [job[c] EXCEPT !.session = s] /\ \A d \in Clients \ {c} : job'[d] = job[d]
      BY <2>1, <2>3
    <3>4. job' \in [Clients -> Records]
      BY <2>1, <2>3, <3>2
    <3> QED  BY <2>3, <3>1, <3>3, <3>4 DEF Records
  <2> QED  BY <2>2, <2>3
<1>3. TypesInv'
  BY <1>1, <1>2 DEF AnyInv, TypesInv
<1>4. FreshInv'
  BY <1>1, <1>2 DEF AnyInv, FreshInv
<1>5. TodoInv'
  <2>. SUFFICES ASSUME NEW d \in Clients
               PROVE  /\ Fits(job[d])'
                      /\ state'[d] = "idle" <=> job'[d].op = "none"
                      /\ state'[d] # "open" => mine'[d] = Nothing
                      /\ state'[d] = "open" =>
                           LET S == Statements(job'[d].op)
                           IN  /\ Left(d)' <= Len(S)
                               /\ \A i \in 1..Left(d)' : todo'[d][i] = S[Len(S) - Left(d)' + i]
                               /\ Left(d)' = Len(S) => mine'[d] = Nothing
    BY DEF TodoInv
  <2>1. Fits(job[d])'
    BY <1>1, <1>2 DEF AnyInv, TodoInv, Fits
  <2>2. CASE d # c
    <3>1. todo'[d] = todo[d] /\ mine'[d] = mine[d]  BY <2>2, StatementsInOrder
    <3>2. state'[d] = state[d] /\ job'[d].op = job[d].op  BY <1>1, <1>2
    <3>3. /\ state[d] = "idle" <=> job[d].op = "none"
          /\ state[d] # "open" => mine[d] = Nothing
          /\ state[d] = "open" =>
               LET S == Statements(job[d].op)
               IN  /\ Left(d) <= Len(S)
                   /\ \A i \in 1..Left(d) : todo[d][i] = S[Len(S) - Left(d) + i]
                   /\ Left(d) = Len(S) => mine[d] = Nothing
      BY DEF AnyInv, TodoInv
    <3>4. Left(d)' = Left(d)  BY <3>1 DEF Left
    <3> QED  BY <2>1, <3>1, <3>2, <3>3, <3>4
  <2>3. CASE d = c
    <3>. DEFINE S == Statements(job[c].op)
    <3>1. state[c] = "open" /\ job[c].op # "none"
      BY DEF AnyInv, TodoInv, Statement
    <3>2. /\ Left(c) \in 1..Len(S) /\ Left(c)' = Left(c) - 1 /\ Len(S) \in 1..4
          /\ \A i \in 1..Left(c)' : todo'[c][i] = todo[c][i + 1]
      BY StatementsInOrder, StatementsAre
    <3>3. \A i \in 1..Left(c) : todo[c][i] = S[Len(S) - Left(c) + i]
      BY <3>1 DEF AnyInv, TodoInv
    <3>. HIDE DEF S
    <3>4. /\ Left(c)' <= Len(S) /\ Left(c)' # Len(S)
          /\ \A i \in 1..Left(c)' : todo'[c][i] = S[Len(S) - Left(c)' + i]
      <4>1. Left(c)' <= Len(S) /\ Left(c)' # Len(S)  BY <3>2
      <4>2. ASSUME NEW i \in 1..Left(c)'
            PROVE  todo'[c][i] = S[Len(S) - Left(c)' + i]
        <5>1. i + 1 \in 1..Left(c) /\ Len(S) - Left(c) + (i + 1) = Len(S) - Left(c)' + i
          BY <3>2
        <5>2. todo'[c][i] = todo[c][i + 1]  BY <3>2
        <5>3. todo[c][i + 1] = S[Len(S) - Left(c) + (i + 1)]  BY <3>3, <5>1
        <5> QED  BY <5>1, <5>2, <5>3
      <4> QED  BY <4>1, <4>2
    <3> QED  BY <1>1, <1>2, <2>1, <2>3, <3>1, <3>4 DEF S
  <2> QED  BY <2>2, <2>3
<1> QED  BY <1>3, <1>4, <1>5

(* What each statement sees and writes, row by row.                        *)
Same(c, changed) == \A x \in Rows \ changed : mine'[c][x] = mine[c][x]

Effect(c, name) ==
  LET j == job[c]
  IN  /\ name \in {"checkUser", "findToken", "findSession", "verify"} => mine'[c] = mine[c]
      /\ name # "findToken" => job' = job
      /\ name \in {"checkUser", "findToken", "verify"} => View(c)[UserRow] = "active"
      /\ name = "findToken" =>
           \E s \in Sessions : /\ View(c)[TokenRow(s)] = j.old /\ View(c)[SessionRow(s)] = "active"
                              /\ job' = [job EXCEPT ![c].session = s]
      /\ name = "findSession" => View(c)[SessionRow(j.session)] # None
      /\ name = "verify" => View(c)[PasswordRow] = j.old
      /\ name = "insertSession" =>
           /\ Same(c, {SessionRow(j.session), TokenRow(j.session)})
           /\ mine'[c][SessionRow(j.session)] = "active" /\ mine'[c][TokenRow(j.session)] = j.new
      /\ name = "rotateToken" =>
           Same(c, {TokenRow(j.session)}) /\ mine'[c][TokenRow(j.session)] = j.new
      /\ name = "revokeSession" =>
           Same(c, {SessionRow(j.session)}) /\ mine'[c][SessionRow(j.session)] = "revoked"
      /\ name = "revokeSessions" =>
           LET active == {x \in SessionRows : View(c)[x] = "active"}
           IN  Same(c, active) /\ \A x \in active : mine'[c][x] = "revoked"
      /\ name = "replacePassword" => Same(c, {PasswordRow}) /\ mine'[c][PasswordRow] = j.new
      /\ name = "dropResets" =>
           LET pending == {x \in ResetRows : View(c)[x] = "live"}
           IN  Same(c, pending) /\ \A x \in pending : mine'[c][x] = None
      /\ name = "insertReset" => Same(c, {ResetRow(j.new)}) /\ mine'[c][ResetRow(j.new)] = "live"
      /\ name = "consumeReset" =>
           /\ View(c)[ResetRow(j.old)] = "live"
           /\ Same(c, {ResetRow(j.old)}) /\ mine'[c][ResetRow(j.old)] = None
      /\ name = "setStatus" =>
           /\ Same(c, {UserRow})
           /\ mine'[c][UserRow] = IF j.op = "enable" THEN "active" ELSE "disabled"

Framed(c) ==
  /\ mine' \in [Clients -> [Rows -> Values \cup {Untouched}]]
  /\ \A d \in Clients \ {c} : mine'[d] = mine[d]
  /\ LockInv'
  /\ \/ job' = job
     \/ job[c].op = "refresh" /\ \E s \in Sessions : job' = [job EXCEPT ![c].session = s]

LEMMA ReadsAre ==
  ASSUME AnyInv, NEW c \in Clients,
         CheckUser(c) \/ FindToken(c) \/ FindSession(c) \/ Verify(c)
  PROVE  Framed(c) /\ \E name \in Names : Statement(c, name) /\ Effect(c, name)
<1>1. mine' = mine /\ LockInv' /\ mine \in [Clients -> [Rows -> Values \cup {Untouched}]]
  BY DEF AnyInv, TypesInv, LockInv, CheckUser, FindToken, FindSession, Verify, Read
<1>2. CASE CheckUser(c)
  <2>1. Statement(c, "checkUser") /\ job' = job /\ View(c)[UserRow] = "active"
    BY <1>2 DEF CheckUser, Read
  <2>2. Effect(c, "checkUser")  BY <1>1, <2>1 DEF Effect
  <2> QED  BY <1>1, <2>1, <2>2 DEF Framed, Names
<1>3. CASE FindToken(c)
  <2>1. Statement(c, "findToken") /\ View(c)[UserRow] = "active"  BY <1>3 DEF FindToken, Read
  <2>2. job[c].op = "refresh"  BY <2>1, PlacesAre
  <2>3. \E s \in Sessions : /\ View(c)[TokenRow(s)] = job[c].old /\ View(c)[SessionRow(s)] = "active"
                            /\ job' = [job EXCEPT ![c].session = s]
    BY <1>3 DEF FindToken
  <2>4. Effect(c, "findToken")  BY <1>1, <2>1, <2>3 DEF Effect
  <2> QED  BY <1>1, <2>1, <2>2, <2>3, <2>4 DEF Framed, Names
<1>4. CASE FindSession(c)
  <2>1. Statement(c, "findSession") /\ job' = job  BY <1>4 DEF FindSession, Read
  <2> QED  BY <1>1, <1>4, <2>1 DEF Framed, Effect, Names, FindSession
<1>5. CASE Verify(c)
  <2>1. /\ Statement(c, "verify") /\ job' = job
        /\ View(c)[UserRow] = "active" /\ View(c)[PasswordRow] = job[c].old
    BY <1>5 DEF Verify, Read
  <2>2. Effect(c, "verify")  BY <1>1, <2>1 DEF Effect
  <2> QED  BY <1>1, <2>1, <2>2 DEF Framed, Names
<1> QED  BY <1>2, <1>3, <1>4, <1>5

LEMMA WritesAre ==
  ASSUME AnyInv, NEW c \in Clients,
         InsertSession(c) \/ RotateToken(c) \/ RevokeSession(c) \/ RevokeSessions(c)
           \/ ReplacePassword(c) \/ DropResets(c) \/ InsertReset(c) \/ ConsumeReset(c) \/ SetStatus(c)
  PROVE  Framed(c) /\ \E name \in Names : Statement(c, name) /\ Effect(c, name)
<1>. DEFINE j == job[c]
<1>1. j \in Records /\ Fits(j)
  BY DEF AnyInv, TypesInv, TodoInv
<1>2. CASE InsertSession(c)
  <2>. DEFINE w == [x \in {SessionRow(j.session), TokenRow(j.session)} |->
                      IF x = SessionRow(j.session) THEN "active" ELSE j.new]
  <2>1. Statement(c, "insertSession") /\ job' = job /\ Put(c, w)  BY <1>2 DEF InsertSession
  <2>2. j.session \in Sessions /\ j.new \in Tokens \cup {None}
    BY <1>1, <2>1, PlacesAre DEF Fits
  <2>3. /\ SessionRow(j.session) \in Rows /\ TokenRow(j.session) \in Rows
        /\ SessionRow(j.session) # TokenRow(j.session)
    BY <2>2, RowsDiffer
  <2>4. /\ DOMAIN w = {SessionRow(j.session), TokenRow(j.session)}
        /\ w[SessionRow(j.session)] = "active" /\ w[TokenRow(j.session)] = j.new
    BY <2>3
  <2>5. \A x \in DOMAIN w : w[x] \in Values
    BY <2>2, <2>4 DEF Values, Statuses
  <2>. HIDE DEF w
  <2>6. Framed(c) /\ Effect(c, "insertSession")
    BY <2>1, <2>3, <2>4, <2>5, PutKeeps DEF Framed, Effect, Same
  <2> QED  BY <2>1, <2>6 DEF Names
<1>3. CASE RotateToken(c)
  <2>. DEFINE w == [x \in {TokenRow(j.session)} |-> j.new]
  <2>1. Statement(c, "rotateToken") /\ job' = job /\ Put(c, w)  BY <1>3 DEF RotateToken
  <2>2. j.session \in Sessions /\ j.new \in Tokens
    <3>1. j.op = "refresh" /\ Left(c) = 1 /\ state[c] = "open"
      BY <2>1, PlacesAre DEF Statement
    <3> QED  BY <1>1, <3>1 DEF Fits, AnyInv, FoundInv
  <2>3. DOMAIN w = {TokenRow(j.session)} /\ w[TokenRow(j.session)] = j.new
    OBVIOUS
  <2>4. TokenRow(j.session) \in Rows /\ \A x \in DOMAIN w : w[x] \in Values
    BY <2>2, <2>3, RowsDiffer DEF Values
  <2>. HIDE DEF w
  <2>5. Framed(c) /\ Effect(c, "rotateToken")
    BY <2>1, <2>3, <2>4, PutKeeps DEF Framed, Effect, Same
  <2> QED  BY <2>1, <2>5 DEF Names
<1>4. CASE RevokeSession(c)
  <2>. DEFINE w == [x \in {SessionRow(j.session)} |-> "revoked"]
  <2>1. Statement(c, "revokeSession") /\ job' = job /\ Put(c, w)  BY <1>4 DEF RevokeSession
  <2>2. j.session \in Sessions
    BY <1>1, <2>1, PlacesAre DEF Fits
  <2>3. DOMAIN w = {SessionRow(j.session)} /\ w[SessionRow(j.session)] = "revoked"
    OBVIOUS
  <2>4. SessionRow(j.session) \in Rows /\ \A x \in DOMAIN w : w[x] \in Values
    BY <2>2, <2>3, RowsDiffer DEF Values, Statuses
  <2>. HIDE DEF w
  <2>5. Framed(c) /\ Effect(c, "revokeSession")
    BY <2>1, <2>3, <2>4, PutKeeps DEF Framed, Effect, Same
  <2> QED  BY <2>1, <2>5 DEF Names
<1>5. CASE RevokeSessions(c)
  <2>. DEFINE active == {x \in SessionRows : View(c)[x] = "active"}
              w == [x \in active |-> "revoked"]
  <2>1. Statement(c, "revokeSessions") /\ job' = job /\ Put(c, w)  BY <1>5 DEF RevokeSessions
  <2>2. DOMAIN w = active /\ \A x \in active : w[x] = "revoked"
    OBVIOUS
  <2>3. active \subseteq Rows /\ \A x \in DOMAIN w : w[x] \in Values
    BY <2>2 DEF Values, Statuses, Rows
  <2>. HIDE DEF w
  <2>4. Framed(c) /\ Effect(c, "revokeSessions")
    BY <2>1, <2>2, <2>3, PutKeeps DEF Framed, Effect, Same
  <2> QED  BY <2>1, <2>4 DEF Names
<1>6. CASE ReplacePassword(c)
  <2>. DEFINE w == [x \in {PasswordRow} |-> j.new]
  <2>1. Statement(c, "replacePassword") /\ job' = job /\ Put(c, w)  BY <1>6 DEF ReplacePassword
  <2>2. j.new \in Passwords
    BY <1>1, <2>1, PlacesAre DEF Fits
  <2>3. DOMAIN w = {PasswordRow} /\ w[PasswordRow] = j.new
    OBVIOUS
  <2>4. PasswordRow \in Rows /\ \A x \in DOMAIN w : w[x] \in Values
    BY <2>2, <2>3, RowsDiffer DEF Values
  <2>. HIDE DEF w
  <2>5. Framed(c) /\ Effect(c, "replacePassword")
    BY <2>1, <2>3, <2>4, PutKeeps DEF Framed, Effect, Same
  <2> QED  BY <2>1, <2>5 DEF Names
<1>7. CASE DropResets(c)
  <2>. DEFINE pending == {x \in ResetRows : View(c)[x] = "live"}
              w == [x \in pending |-> None]
  <2>1. Statement(c, "dropResets") /\ job' = job /\ Put(c, w)  BY <1>7 DEF DropResets
  <2>2. DOMAIN w = pending /\ \A x \in pending : w[x] = None
    OBVIOUS
  <2>3. pending \subseteq Rows /\ \A x \in DOMAIN w : w[x] \in Values
    BY <2>2 DEF Values, Rows
  <2>. HIDE DEF w
  <2>4. Framed(c) /\ Effect(c, "dropResets")
    BY <2>1, <2>2, <2>3, PutKeeps DEF Framed, Effect, Same
  <2> QED  BY <2>1, <2>4 DEF Names
<1>8. CASE InsertReset(c)
  <2>. DEFINE w == [x \in {ResetRow(j.new)} |-> "live"]
  <2>1. Statement(c, "insertReset") /\ job' = job /\ Put(c, w)  BY <1>8 DEF InsertReset
  <2>2. j.new \in Resets
    BY <1>1, <2>1, PlacesAre DEF Fits
  <2>3. DOMAIN w = {ResetRow(j.new)} /\ w[ResetRow(j.new)] = "live"
    OBVIOUS
  <2>4. ResetRow(j.new) \in Rows /\ \A x \in DOMAIN w : w[x] \in Values
    BY <2>2, <2>3, RowsDiffer DEF Values
  <2>. HIDE DEF w
  <2>5. Framed(c) /\ Effect(c, "insertReset")
    BY <2>1, <2>3, <2>4, PutKeeps DEF Framed, Effect, Same
  <2> QED  BY <2>1, <2>5 DEF Names
<1>9. CASE ConsumeReset(c)
  <2>. DEFINE w == [x \in {ResetRow(j.old)} |-> None]
  <2>1. /\ Statement(c, "consumeReset") /\ job' = job /\ Put(c, w)
        /\ View(c)[ResetRow(j.old)] = "live"
    BY <1>9 DEF ConsumeReset
  <2>2. j.old \in Resets
    BY <1>1, <2>1, PlacesAre DEF Fits
  <2>3. DOMAIN w = {ResetRow(j.old)} /\ w[ResetRow(j.old)] = None
    OBVIOUS
  <2>4. ResetRow(j.old) \in Rows /\ \A x \in DOMAIN w : w[x] \in Values
    BY <2>2, <2>3, RowsDiffer DEF Values
  <2>. HIDE DEF w
  <2>5. Framed(c) /\ Effect(c, "consumeReset")
    BY <2>1, <2>3, <2>4, PutKeeps DEF Framed, Effect, Same
  <2> QED  BY <2>1, <2>5 DEF Names
<1>10. CASE SetStatus(c)
  <2>. DEFINE status == IF j.op = "enable" THEN "active" ELSE "disabled"
              w == [x \in {UserRow} |-> status]
  <2>1. Statement(c, "setStatus") /\ job' = job /\ Put(c, w)  BY <1>10 DEF SetStatus
  <2>2. DOMAIN w = {UserRow} /\ w[UserRow] = status /\ status \in Values
    BY DEF Values, Statuses
  <2>. HIDE DEF status, w
  <2>3. UserRow \in Rows /\ \A x \in DOMAIN w : w[x] \in Values
    BY <2>2, RowsDiffer
  <2>4. Framed(c) /\ Effect(c, "setStatus")
    BY <2>1, <2>2, <2>3, PutKeeps DEF Framed, Effect, Same, status
  <2> QED  BY <2>1, <2>4 DEF Names
<1> QED  BY <1>2, <1>3, <1>4, <1>5, <1>6, <1>7, <1>8, <1>9, <1>10

(* Every statement is one of these.                                        *)
LEMMA ExecuteIs ==
  ASSUME AnyInv, NEW c \in Clients, Execute(c)
  PROVE  Framed(c) /\ \E name \in Names : Statement(c, name) /\ Effect(c, name)
BY ReadsAre, WritesAre DEF Execute

(* Only one statement makes a reset token live.                            *)
LEMMA OtherStatementsDrop ==
  ASSUME AnyInv, NEW c \in Clients, NEW name \in Names \ {"insertReset"},
         Statement(c, name), Effect(c, name), NEW r \in Resets
  PROVE  mine'[c][ResetRow(r)] \in {mine[c][ResetRow(r)], None}
<1>. DEFINE x == ResetRow(r)
<1>1. x \in Rows /\ x # PasswordRow /\ x # UserRow /\ x \notin SessionRows /\ x \notin TokenRows
  BY DEF SessionRow, TokenRow, ResetRow, PasswordRow, UserRow, Rows, SessionRows, TokenRows, ResetRows
<1>2. CASE name \in {"checkUser", "findToken", "findSession", "verify"}
  BY <1>2 DEF Effect
<1>3. CASE name \in {"insertSession", "rotateToken", "revokeSession"}
  <2>1. job[c].session \in Sessions
    <3>1. \/ job[c].op \in {"create", "revoke"}
          \/ job[c].op = "refresh" /\ Left(c) = 1 /\ state[c] = "open"
      BY <1>3, PlacesAre DEF Statement
    <3> QED  BY <3>1 DEF AnyInv, TodoInv, Fits, FoundInv
  <2>2. x # SessionRow(job[c].session) /\ x # TokenRow(job[c].session)
    BY <2>1, RowsDiffer
  <2>. HIDE DEF x
  <2> QED  BY <1>1, <1>3, <2>2 DEF Effect, Same, x
<1>4. CASE name \in {"replacePassword", "setStatus", "revokeSessions"}
  <2>. HIDE DEF x
  <2> QED  BY <1>1, <1>4 DEF Effect, Same, x
<1>5. CASE name \in {"dropResets", "consumeReset"}
  <2>. HIDE DEF x
  <2> QED  BY <1>1, <1>5 DEF Effect, Same, x
<1> QED  BY <1>2, <1>3, <1>4, <1>5 DEF Names

-----------------------------------------------------------------------------
LEMMA ExecuteKeepsAny ==
  ASSUME AnyInv, NEW c \in Clients, Execute(c)
  PROVE  AnyInv'
<1>1. PICK name \in Names : Statement(c, name) /\ Effect(c, name)
  BY ExecuteIs
<1>2. Framed(c)
  BY ExecuteIs
<1>3. TypesInv' /\ TodoInv' /\ FreshInv' /\ LockInv'
  BY <1>1, <1>2, StatementKeeps DEF Framed
<1>4. /\ UNCHANGED <<db, state, handed, spent>> /\ state[c] = "open"
      /\ \A d \in Clients \ {c} : todo'[d] = todo[d] /\ Left(d)' = Left(d) /\ mine'[d] = mine[d]
      /\ Left(c) \in 1..4 /\ Left(c)' = Left(c) - 1
  <2>1. Left(c) \in 1..4 /\ Left(c)' = Left(c) - 1
    <3>. DEFINE N == Len(Statements(job[c].op))
    <3>1. job[c].op \in Operations /\ Left(c)' = Left(c) - 1 /\ Left(c) \in 1..N
      BY <1>1, StatementsInOrder
    <3>2. N \in 1..4
      BY <3>1, StatementsAre
    <3>. HIDE DEF N
    <3> QED  BY <3>1, <3>2
  <2>2. \A d \in Clients \ {c} : todo'[d] = todo[d]
    BY <1>1, StatementsInOrder
  <2> QED  BY <1>1, <1>2, <2>1, <2>2 DEF Statement, Framed, Left
<1>5. /\ \A d \in Clients : /\ job'[d].op = job[d].op /\ job'[d].old = job[d].old
                            /\ job'[d].new = job[d].new
      /\ \A d \in Clients \ {c} : job'[d] = job[d]
  <2>1. job \in [Clients -> Records]  BY DEF AnyInv, TypesInv
  <2>2. ASSUME NEW s \in Sessions, job' = [job EXCEPT ![c].session = s]
        PROVE  <1>5
    <3>1. job'[c] = [job[c] EXCEPT !.session = s] /\ \A d \in Clients \ {c} : job'[d] = job[d]
      BY <2>1, <2>2
    <3>2. job[c] \in Records  BY <2>1
    <3>3. job'[c].op = job[c].op /\ job'[c].old = job[c].old /\ job'[c].new = job[c].new
      BY <3>1, <3>2 DEF Records
    <3> QED  BY <3>1, <3>3
  <2> QED  BY <1>2, <2>2 DEF Framed
<1>6. FoundInv'
  <2>1. CASE name = "findToken"
    <3>1. \E s \in Sessions : job' = [job EXCEPT ![c].session = s]
      BY <1>1, <2>1 DEF Effect
    <3>2. job'[c].session \in Sessions
      BY <3>1 DEF AnyInv, TypesInv, Records
    <3> QED  BY <1>4, <1>5, <3>2 DEF AnyInv, FoundInv
  <2>2. CASE name # "findToken"
    <3>1. job' = job  BY <1>1, <2>2 DEF Effect
    <3>2. job[c].op = "refresh" => Left(c) = 1
      <4>1. name \in Names  OBVIOUS
      <4> QED  BY <1>1, <2>2, <4>1, PlacesAre DEF Names
    <3> QED  BY <1>4, <3>1, <3>2 DEF AnyInv, FoundInv
  <2> QED  BY <2>1, <2>2
<1>7. ResetInv'
  <2>1. \A r \in spent' \cap Resets : db'[ResetRow(r)] # "live"
    BY <1>4 DEF AnyInv, ResetInv
  <2>2. \A d \in Clients \ {c} :
          /\ \A r \in Resets :
               mine'[d][ResetRow(r)] = "live" => job'[d].op = "createReset" /\ r = job'[d].new
          /\ state'[d] = "open" /\ job'[d].op = "reset" /\ Left(d)' < 4 =>
               mine'[d][ResetRow(job'[d].old)] = None /\ job'[d].old \notin spent'
    BY <1>4, <1>5 DEF AnyInv, ResetInv
  <2>3. ASSUME NEW r \in Resets, mine'[c][ResetRow(r)] = "live"
        PROVE  job'[c].op = "createReset" /\ r = job'[c].new
    <3>1. mine[c][ResetRow(r)] = "live" => job[c].op = "createReset" /\ r = job[c].new
      BY DEF AnyInv, ResetInv
    <3>2. CASE name = "insertReset"
      <4>1. job[c].op = "createReset" /\ job[c].new \in Resets
        BY <1>1, <3>2, PlacesAre DEF AnyInv, TodoInv, Fits
      <4>2. r # job[c].new => mine'[c][ResetRow(r)] = mine[c][ResetRow(r)]
        BY <1>1, <3>2, <4>1, RowsDiffer DEF Effect, Same
      <4> QED  BY <1>5, <2>3, <3>1, <4>1, <4>2
    <3>3. CASE name # "insertReset"
      <4>1. mine'[c][ResetRow(r)] \in {mine[c][ResetRow(r)], None}
        BY <1>1, <3>3, OtherStatementsDrop
      <4>2. None # "live"
        OBVIOUS
      <4> QED  BY <1>5, <2>3, <3>1, <4>1, <4>2
    <3> QED  BY <3>2, <3>3
  <2>4. ASSUME job'[c].op = "reset", Left(c)' < 4
        PROVE  mine'[c][ResetRow(job'[c].old)] = None /\ job'[c].old \notin spent'
    <3>1. job[c].op = "reset" /\ job[c].old \in Resets
      BY <1>5, <2>4 DEF AnyInv, TodoInv, Fits
    <3>2. CASE name = "consumeReset"
      <4>1. mine'[c][ResetRow(job[c].old)] = None /\ View(c)[ResetRow(job[c].old)] = "live"
        BY <1>1, <3>2 DEF Effect
      <4>2. mine[c][ResetRow(job[c].old)] # "live"
        BY <3>1 DEF AnyInv, ResetInv
      <4>3. db[ResetRow(job[c].old)] = "live"
        BY <3>1, <4>1, <4>2, RowsDiffer DEF View
      <4> QED  BY <1>4, <1>5, <3>1, <4>1, <4>3 DEF AnyInv, ResetInv
    <3>3. CASE name # "consumeReset"
      <4>1. Left(c) < 4
        BY <1>1, <1>4, <3>1, <3>3, PlacesAre DEF Names
      <4>2. mine[c][ResetRow(job[c].old)] = None /\ job[c].old \notin spent
        BY <1>4, <3>1, <4>1 DEF AnyInv, ResetInv
      <4>3. name # "insertReset"
        BY <1>1, <3>1, PlacesAre
      <4>4. mine'[c][ResetRow(job[c].old)] \in {mine[c][ResetRow(job[c].old)], None}
        BY <1>1, <3>1, <4>3, OtherStatementsDrop
      <4> QED  BY <1>4, <1>5, <4>2, <4>4
    <3> QED  BY <3>2, <3>3
  <2> QED  BY <1>4, <2>1, <2>2, <2>3, <2>4 DEF ResetInv
<1> QED  BY <1>3, <1>6, <1>7 DEF AnyInv

LEMMA NothingIsWritten ==
  /\ Nothing \in [Rows -> Values \cup {Untouched}]
  /\ \A x \in Rows : Nothing[x] = Untouched
  /\ Untouched # "live" /\ Untouched # "active" /\ Untouched # None /\ None # "live"
  /\ NoJob \in Records /\ NoJob.op = "none" /\ <<>> \in Seq(Names)
  /\ "none" \notin Operations
<1>1. NoJob \in Records /\ NoJob.op = "none" /\ <<>> \in Seq(Names)
  BY DEF NoJob, Records, Givens
<1> QED  BY <1>1 DEF Nothing, Values, Statuses

(* A caller knows the tokens it was given, and generated values are new.   *)
LEMMA JobsAre ==
  ASSUME TypesInv, NEW op \in Operations, NEW j \in Jobs(op)
  PROVE  /\ j \in Records /\ j.op = op /\ Fits(j)
         /\ op \in Generators =>
              /\ j.new \notin handed
              /\ j.new = None \/ \A d \in Clients : j.new # job[d].new
         /\ op = "create" =>
              /\ db[SessionRow(j.session)] = None
              /\ \A d \in Clients : j.session # job[d].session
<1>. USE DEF Records, Givens, Generators, Fits, Inputs, NoInput
<1>1. None \notin handed
  BY DEF TypesInv
<1>2. CASE op = "create"
  <2>1. j \in CreateJobs  BY <1>2 DEF Jobs
  <2> QED  BY <1>1, <1>2, <2>1 DEF CreateJobs, Fresh
<1>3. CASE op = "refresh"
  <2>1. j \in RefreshJobs  BY <1>3 DEF Jobs
  <2> QED  BY <1>3, <2>1 DEF RefreshJobs, Fresh
<1>4. CASE op = "revoke"
  <2>1. j \in RevokeJobs  BY <1>4 DEF Jobs
  <2> QED  BY <1>4, <2>1 DEF RevokeJobs
<1>5. CASE op = "set"
  <2>1. j \in SetJobs  BY <1>5 DEF Jobs
  <2> QED  BY <1>5, <2>1 DEF SetJobs
<1>6. CASE op = "change"
  <2>1. j \in ChangeJobs  BY <1>6 DEF Jobs
  <2> QED  BY <1>6, <2>1 DEF ChangeJobs
<1>7. CASE op = "createReset"
  <2>1. j \in CreateResetJobs  BY <1>7 DEF Jobs
  <2> QED  BY <1>7, <2>1 DEF CreateResetJobs, Fresh
<1>8. CASE op = "reset"
  <2>1. j \in ResetJobs  BY <1>8 DEF Jobs
  <2> QED  BY <1>8, <2>1 DEF ResetJobs
<1>9. CASE op \in {"revokeAll", "enable", "disable"}
  <2>1. j \in Inputs(op, NoInput, NoInput, NoInput)  BY <1>9 DEF Jobs
  <2> QED  BY <1>9, <2>1
<1> QED  BY <1>2, <1>3, <1>4, <1>5, <1>6, <1>7, <1>8, <1>9

LEMMA InitAny == Init => AnyInv
<1>. SUFFICES ASSUME Init PROVE AnyInv
  OBVIOUS
<1>1. TypesInv
  <2>1. db \in [Rows -> Values]
    BY DEF Init, Values, Statuses
  <2> QED  BY <2>1, NothingIsWritten DEF Init, TypesInv
<1>2. \A c \in Clients : job[c] = NoJob /\ mine[c] = Nothing /\ state[c] = "idle"
  BY DEF Init
<1>3. TodoInv
  BY <1>2, NothingIsWritten DEF TodoInv, Fits
<1>4. LockInv
  BY <1>2, NothingIsWritten DEF LockInv
<1>5. FreshInv /\ FoundInv
  BY <1>2, NothingIsWritten DEF FreshInv, FoundInv, Generators
<1>6. ResetInv
  <2>1. \A r \in Resets : ResetRow(r) \in Rows
    BY RowsDiffer
  <2> QED  BY <1>2, <2>1, NothingIsWritten DEF ResetInv, Init
<1> QED  BY <1>1, <1>3, <1>4, <1>5, <1>6 DEF AnyInv

LEMMA CallKeepsAny ==
  ASSUME AnyInv, NEW c \in Clients, NEW op \in Operations, NEW j \in Jobs(op), Call(c, j)
  PROVE  AnyInv'
<1>1. /\ UNCHANGED <<db, todo, mine, handed, spent>>
      /\ state[c] = "idle" /\ state'[c] = "queued" /\ job'[c] = j
      /\ \A d \in Clients \ {c} : state'[d] = state[d] /\ job'[d] = job[d]
      /\ mine[c] = Nothing
  BY DEF Call, AnyInv, TypesInv, TodoInv
<1>2. /\ j \in Records /\ j.op = op /\ Fits(j)
      /\ op \in Generators =>
           j.new \notin handed /\ (j.new = None \/ \A d \in Clients : j.new # job[d].new)
  BY JobsAre DEF AnyInv
<1>3. TypesInv'
  BY <1>2 DEF Call, AnyInv, TypesInv
<1>4. TodoInv'
  <2>1. ASSUME NEW d \in Clients \ {c}
        PROVE  /\ Fits(job[d])'
               /\ state'[d] = "idle" <=> job'[d].op = "none"
               /\ state'[d] # "open" => mine'[d] = Nothing
               /\ state'[d] = "open" =>
                    LET S == Statements(job'[d].op)
                    IN  /\ Left(d)' <= Len(S)
                        /\ \A i \in 1..Left(d)' : todo'[d][i] = S[Len(S) - Left(d)' + i]
                        /\ Left(d)' = Len(S) => mine'[d] = Nothing
    <3>1. Left(d)' = Left(d)  BY <1>1 DEF Left
    <3>2. Fits(job[d])'  BY <1>1 DEF AnyInv, TodoInv, Fits
    <3>3. /\ state[d] = "idle" <=> job[d].op = "none"
          /\ state[d] # "open" => mine[d] = Nothing
          /\ state[d] = "open" =>
               LET S == Statements(job[d].op)
               IN  /\ Left(d) <= Len(S)
                   /\ \A i \in 1..Left(d) : todo[d][i] = S[Len(S) - Left(d) + i]
                   /\ Left(d) = Len(S) => mine[d] = Nothing
      BY DEF AnyInv, TodoInv
    <3> QED  BY <1>1, <3>1, <3>2, <3>3
  <2>2. Fits(job[c])'  BY <1>1, <1>2 DEF Fits
  <2> QED  BY <1>1, <1>2, <2>1, <2>2, NothingIsWritten DEF TodoInv
<1>5. LockInv'
  BY <1>1 DEF AnyInv, LockInv
<1>6. FreshInv'
  BY <1>1, <1>2 DEF AnyInv, FreshInv, Generators
<1>7. FoundInv'
  BY <1>1 DEF AnyInv, FoundInv, Left
<1>8. ResetInv'
  <2>1. \A r \in Resets : mine[c][ResetRow(r)] # "live"
    BY <1>1, NothingIsWritten, RowsDiffer
  <2> QED  BY <1>1, <2>1 DEF AnyInv, ResetInv, Left
<1> QED  BY <1>3, <1>4, <1>5, <1>6, <1>7, <1>8 DEF AnyInv

LEMMA BeginKeepsAny ==
  ASSUME AnyInv, NEW c \in Clients, Begin(c)
  PROVE  AnyInv'
<1>. DEFINE S == Statements(job[c].op)
<1>1. /\ UNCHANGED <<db, job, mine, handed, spent>>
      /\ state[c] = "queued" /\ state'[c] = "open" /\ todo'[c] = S
      /\ \A d \in Clients \ {c} : state'[d] = state[d] /\ todo'[d] = todo[d]
      /\ mine[c] = Nothing
  BY DEF Begin, AnyInv, TypesInv, TodoInv
<1>2. job[c].op \in Operations
  BY <1>1 DEF AnyInv, TypesInv, TodoInv, Records
<1>3. S \in Seq(Names) /\ Len(S) \in 1..4
  BY <1>2, StatementsAre
<1>4. /\ job[c].op = "refresh" => Left(c)' = 2
      /\ job[c].op = "reset" => Left(c)' = 4
      /\ Left(c)' = Len(S)
  BY <1>1, <1>2, StatementsAre DEF Left
<1>5. TypesInv'
  <2>. HIDE DEF S
  <2>1. state' \in [Clients -> {"idle", "queued", "open"}]
    BY DEF Begin, AnyInv, TypesInv
  <2>2. todo' \in [Clients -> Seq(Names)]
    BY <1>3 DEF Begin, AnyInv, TypesInv, S
  <2> QED  BY <1>1, <2>1, <2>2 DEF AnyInv, TypesInv
<1>6. TodoInv'
  <2>1. ASSUME NEW d \in Clients \ {c}
        PROVE  /\ Fits(job[d])'
               /\ state'[d] = "idle" <=> job'[d].op = "none"
               /\ state'[d] # "open" => mine'[d] = Nothing
               /\ state'[d] = "open" =>
                    LET T == Statements(job'[d].op)
                    IN  /\ Left(d)' <= Len(T)
                        /\ \A i \in 1..Left(d)' : todo'[d][i] = T[Len(T) - Left(d)' + i]
                        /\ Left(d)' = Len(T) => mine'[d] = Nothing
    <3>1. Left(d)' = Left(d)  BY <1>1 DEF Left
    <3>2. Fits(job[d])'  BY <1>1 DEF AnyInv, TodoInv, Fits
    <3>3. /\ state[d] = "idle" <=> job[d].op = "none"
          /\ state[d] # "open" => mine[d] = Nothing
          /\ state[d] = "open" =>
               LET T == Statements(job[d].op)
               IN  /\ Left(d) <= Len(T)
                   /\ \A i \in 1..Left(d) : todo[d][i] = T[Len(T) - Left(d) + i]
                   /\ Left(d) = Len(T) => mine[d] = Nothing
      BY DEF AnyInv, TodoInv
    <3> QED  BY <1>1, <3>1, <3>2, <3>3
  <2>2. Fits(job[c])' /\ job'[c].op # "none"
    BY <1>1, <1>2, NothingIsWritten DEF AnyInv, TodoInv, Fits
  <2>3. LET T == Statements(job'[c].op)
        IN  /\ Left(c)' <= Len(T)
            /\ \A i \in 1..Left(c)' : todo'[c][i] = T[Len(T) - Left(c)' + i]
    <3>1. \A i \in 1..Len(S) : S[i] = S[Len(S) - Len(S) + i]
      <4>. HIDE DEF S
      <4> QED  BY <1>3
    <3>2. job'[c].op = job[c].op  BY <1>1
    <3>. HIDE DEF S
    <3> QED  BY <1>1, <1>3, <1>4, <3>1, <3>2 DEF S
  <2> QED  BY <1>1, <2>1, <2>2, <2>3 DEF TodoInv
<1>7. LockInv' /\ FreshInv'
  BY <1>1 DEF AnyInv, LockInv, FreshInv
<1>8. FoundInv'
  BY <1>1, <1>4 DEF AnyInv, FoundInv, Left
<1>9. ResetInv'
  BY <1>1, <1>4 DEF AnyInv, ResetInv, Left
<1> QED  BY <1>5, <1>6, <1>7, <1>8, <1>9 DEF AnyInv

(* The end of a transaction, whichever.                                    *)
LEMMA EndKeeps ==
  ASSUME AnyInv, NEW c \in Clients, End(c)
  PROVE  /\ state' \in [Clients -> {"idle", "queued", "open"}]
         /\ job' \in [Clients -> Records] /\ todo' \in [Clients -> Seq(Names)]
         /\ mine' \in [Clients -> [Rows -> Values \cup {Untouched}]]
         /\ state'[c] = "idle" /\ job'[c] = NoJob /\ mine'[c] = Nothing
         /\ \A d \in Clients \ {c} :
              state'[d] = state[d] /\ job'[d] = job[d] /\ todo'[d] = todo[d] /\ mine'[d] = mine[d]
         /\ LockInv' /\ FoundInv'
         /\ handed \subseteq handed' => TodoInv'
<1>1. /\ state' \in [Clients -> {"idle", "queued", "open"}]
      /\ job' \in [Clients -> Records] /\ todo' \in [Clients -> Seq(Names)]
      /\ mine' \in [Clients -> [Rows -> Values \cup {Untouched}]]
      /\ state'[c] = "idle" /\ job'[c] = NoJob /\ mine'[c] = Nothing
      /\ \A d \in Clients \ {c} :
           state'[d] = state[d] /\ job'[d] = job[d] /\ todo'[d] = todo[d] /\ mine'[d] = mine[d]
  BY NothingIsWritten DEF End, AnyInv, TypesInv
<1>2. LockInv'
  BY <1>1, NothingIsWritten DEF AnyInv, LockInv
<1>3. FoundInv'
  BY <1>1 DEF AnyInv, FoundInv, Left
<1>4. ASSUME handed \subseteq handed' PROVE TodoInv'
  <2>1. ASSUME NEW d \in Clients \ {c}
        PROVE  /\ Fits(job[d])'
               /\ state'[d] = "idle" <=> job'[d].op = "none"
               /\ state'[d] # "open" => mine'[d] = Nothing
               /\ state'[d] = "open" =>
                    LET S == Statements(job'[d].op)
                    IN  /\ Left(d)' <= Len(S)
                        /\ \A i \in 1..Left(d)' : todo'[d][i] = S[Len(S) - Left(d)' + i]
                        /\ Left(d)' = Len(S) => mine'[d] = Nothing
    <3>1. Left(d)' = Left(d)  BY <1>1 DEF Left
    <3>2. Fits(job[d])'  BY <1>1, <1>4 DEF AnyInv, TodoInv, Fits
    <3>3. /\ state[d] = "idle" <=> job[d].op = "none"
          /\ state[d] # "open" => mine[d] = Nothing
          /\ state[d] = "open" =>
               LET S == Statements(job[d].op)
               IN  /\ Left(d) <= Len(S)
                   /\ \A i \in 1..Left(d) : todo[d][i] = S[Len(S) - Left(d) + i]
                   /\ Left(d) = Len(S) => mine[d] = Nothing
      BY DEF AnyInv, TodoInv
    <3> QED  BY <1>1, <3>1, <3>2, <3>3
  <2>2. Fits(job[c])' /\ job'[c].op = "none"  BY <1>1, NothingIsWritten DEF Fits
  <2> QED  BY <1>1, <2>1, <2>2 DEF TodoInv
<1> QED  BY <1>1, <1>2, <1>3, <1>4

LEMMA AbortKeepsAny ==
  ASSUME AnyInv, NEW c \in Clients, Abort(c)
  PROVE  AnyInv'
<1>1. End(c) /\ UNCHANGED <<db, handed, spent>>
  BY DEF Abort
<1>2. TypesInv'
  BY <1>1, EndKeeps DEF AnyInv, TypesInv
<1>3. TodoInv' /\ LockInv' /\ FoundInv'
  BY <1>1, EndKeeps
<1>4. /\ state'[c] = "idle" /\ job'[c].op = "none"
      /\ \A d \in Clients \ {c} :
           state'[d] = state[d] /\ job'[d] = job[d] /\ todo'[d] = todo[d] /\ mine'[d] = mine[d]
      /\ \A r \in Resets : mine'[c][ResetRow(r)] # "live"
  BY <1>1, EndKeeps, NothingIsWritten, RowsDiffer
<1>5. FreshInv'
  <2>1. \A d \in Clients : job'[d].op \in Generators => d # c
    BY <1>4 DEF Generators
  <2> QED  BY <1>1, <1>4, <2>1 DEF AnyInv, FreshInv
<1>6. ResetInv'
  BY <1>1, <1>4 DEF AnyInv, ResetInv, Left
<1> QED  BY <1>2, <1>3, <1>5, <1>6 DEF AnyInv

(* What a commit gives to its caller, and what it stores.                  *)
LEMMA CommitIs ==
  ASSUME AnyInv, NEW c \in Clients, Commit(c)
  PROVE  /\ state[c] = "open" /\ Left(c) = 0
         /\ job[c] \in Records /\ Fits(job[c]) /\ job[c].op \in Operations
         /\ db' \in [Rows -> Values]
         /\ \A x \in Rows : db'[x] = IF mine[c][x] = Untouched THEN db[x] ELSE mine[c][x]
         /\ handed' = handed \cup IF job[c].op \in Generators THEN {job[c].new} \ {None} ELSE {}
         /\ spent' = spent \cup IF job[c].op \in {"refresh", "reset"} THEN {job[c].old} ELSE {}
         /\ handed' \subseteq Tokens \cup Resets /\ spent' \subseteq handed'
         /\ End(c)
<1>1. state[c] = "open" /\ Left(c) = 0 /\ End(c) /\ db' = View(c)
  BY DEF Commit, Left
<1>2. job[c] \in Records /\ Fits(job[c]) /\ job[c].op \in Operations
  BY <1>1 DEF AnyInv, TypesInv, TodoInv, Records
<1>3. /\ db' \in [Rows -> Values]
      /\ \A x \in Rows : db'[x] = IF mine[c][x] = Untouched THEN db[x] ELSE mine[c][x]
  <2>1. \A x \in Rows : mine[c][x] \in Values \cup {Untouched} /\ db[x] \in Values
    BY DEF AnyInv, TypesInv
  <2> QED  BY <1>1, <2>1 DEF View
<1>4. /\ handed' = handed \cup IF job[c].op \in Generators THEN {job[c].new} \ {None} ELSE {}
      /\ spent' = spent \cup IF job[c].op \in {"refresh", "reset"} THEN {job[c].old} ELSE {}
  BY DEF Commit, Generators
<1>5. handed' \subseteq Tokens \cup Resets
  BY <1>2, <1>4 DEF AnyInv, TypesInv, Fits, Generators
<1>6. spent' \subseteq handed'
  BY <1>2, <1>4 DEF AnyInv, TypesInv, Fits
<1> QED  BY <1>1, <1>2, <1>3, <1>4, <1>5, <1>6

LEMMA CommitKeepsAny ==
  ASSUME AnyInv, NEW c \in Clients, Commit(c)
  PROVE  AnyInv'
<1>1. /\ TypesInv' /\ TodoInv' /\ LockInv' /\ FoundInv'
  BY CommitIs, EndKeeps DEF AnyInv, TypesInv
<1>2. FreshInv'
  <2>. SUFFICES ASSUME NEW d \in Clients, job'[d].op \in Generators
               PROVE  /\ job'[d].new \notin handed'
                      /\ \A e \in Clients \ {d} : job'[e].op \in Generators =>
                           job'[d].new # job'[e].new \/ job'[d].new = None
    BY DEF FreshInv
  <2>1. d # c /\ job'[d] = job[d]
    BY CommitIs, EndKeeps, NothingIsWritten DEF Generators
  <2>2. job[d].new \notin handed'
    BY <2>1, CommitIs DEF AnyInv, FreshInv
  <2>3. \A e \in Clients \ {d} : job'[e].op \in Generators => job'[e] = job[e]
    BY CommitIs, EndKeeps, NothingIsWritten DEF Generators
  <2> QED  BY <2>1, <2>2, <2>3 DEF AnyInv, FreshInv
<1>3. ResetInv'
  <2>1. ASSUME NEW r \in spent' \cap Resets
        PROVE  db'[ResetRow(r)] # "live"
    <3>1. ResetRow(r) \in Rows  BY RowsDiffer
    <3>2. CASE r \in spent
      <4>1. db[ResetRow(r)] # "live"  BY <3>2 DEF AnyInv, ResetInv
      <4>2. mine[c][ResetRow(r)] # "live"
        <5>1. mine[c][ResetRow(r)] = "live" => job[c].op = "createReset" /\ r = job[c].new
          BY DEF AnyInv, ResetInv
        <5>2. job[c].op = "createReset" => job[c].new \notin handed
          BY DEF AnyInv, FreshInv, Generators
        <5> QED  BY <3>2, <5>1, <5>2 DEF AnyInv, TypesInv
      <4> QED  BY <3>1, <4>1, <4>2, CommitIs
    <3>3. CASE r \notin spent
      <4>1. r = job[c].old /\ job[c].op = "reset"
        BY <3>3, CommitIs DEF Fits
      <4>2. mine[c][ResetRow(r)] = None
        BY <4>1, CommitIs DEF AnyInv, ResetInv
      <4> QED  BY <3>1, <4>2, CommitIs, NothingIsWritten
    <3> QED  BY <3>2, <3>3
  <2>2. ASSUME NEW d \in Clients, NEW r \in Resets, mine'[d][ResetRow(r)] = "live"
        PROVE  job'[d].op = "createReset" /\ r = job'[d].new
    <3>1. d # c  BY <2>2, CommitIs, EndKeeps, NothingIsWritten, RowsDiffer
    <3>2. job'[d] = job[d] /\ mine'[d] = mine[d]  BY <3>1, CommitIs, EndKeeps
    <3> QED  BY <2>2, <3>2 DEF AnyInv, ResetInv
  <2>3. ASSUME NEW d \in Clients, state'[d] = "open", job'[d].op = "reset", Left(d)' < 4
        PROVE  mine'[d][ResetRow(job'[d].old)] = None /\ job'[d].old \notin spent'
    <3>1. d # c /\ job'[d] = job[d] /\ state'[d] = state[d] /\ mine'[d] = mine[d]
          /\ Left(d)' = Left(d)
      BY <2>3, CommitIs, EndKeeps DEF Left
    <3>2. job[d].old \in Resets  BY <2>3, <3>1 DEF AnyInv, TodoInv, Fits
    <3>3. mine[d][ResetRow(job[d].old)] = None /\ job[d].old \notin spent
      BY <2>3, <3>1 DEF AnyInv, ResetInv
    <3>4. job[c].op = "reset" => job[c].old # job[d].old
      <4>1. ResetRow(job[d].old) \in Rows  BY <3>2, RowsDiffer
      <4>2. job[c].op = "reset" => mine[c][ResetRow(job[c].old)] = None
        BY CommitIs DEF AnyInv, ResetInv
      <4> QED  BY <3>1, <3>3, <4>1, <4>2, NothingIsWritten DEF AnyInv, LockInv
    <3>5. job[c].op = "refresh" => job[c].old # job[d].old
      BY <3>2, CommitIs DEF Fits
    <3>6. job[d].old \notin spent'
      BY <3>3, <3>4, <3>5, CommitIs
    <3> QED  BY <3>1, <3>3, <3>6
  <2> QED  BY <2>1, <2>2, <2>3 DEF ResetInv
<1> QED  BY <1>1, <1>2, <1>3 DEF AnyInv

LEMMA NextAny ==
  ASSUME AnyInv, [Next]_vars
  PROVE  AnyInv'
<1>1. ASSUME NEW c \in Clients, NEW op \in Operations, NEW j \in Jobs(op), Call(c, j)
      PROVE  AnyInv'
  BY <1>1, CallKeepsAny
<1>2. ASSUME NEW c \in Clients, Begin(c) \/ Execute(c) \/ Commit(c) \/ Abort(c)
      PROVE  AnyInv'
  BY <1>2, BeginKeepsAny, ExecuteKeepsAny, CommitKeepsAny, AbortKeepsAny
<1>3. CASE UNCHANGED vars
  BY <1>3 DEF vars, AnyInv, TypesInv, TodoInv, Fits, Left, LockInv, FreshInv, FoundInv, ResetInv
<1> QED  BY <1>1, <1>2, <1>3 DEF Next

LEMMA AlwaysAny == Spec => []AnyInv
BY InitAny, NextAny, PTL DEF Spec

(* What is stored has its type, and what is spent was handed out before.   *)
THEOREM CredentialTypes == Spec => []TypeOK
<1>1. AnyInv => TypeOK
  BY DEF AnyInv, TypesInv, TypeOK, Records
<1> QED  BY <1>1, AlwaysAny, PTL

(* A reset token is accepted once, on SQLite and on PostgreSQL: the row    *)
(* that DELETE ... RETURNING locks stays locked until the reset ends.      *)
THEOREM ResetTokensAreSpentOnce == Spec => ResetTokenSpentOnce
<1>1. AnyInv /\ [Next]_vars =>
        [\A c \in Clients : Answers(c, {"reset"}) => job[c].old \notin spent]_vars
  <2>1. ASSUME AnyInv, NEW c \in Clients, Answers(c, {"reset"})
        PROVE  job[c].old \notin spent
    <3>1. job[c].op = "reset" /\ state[c] = "open" /\ Left(c) = 0
      BY <2>1, CommitIs DEF Answers
    <3> QED  BY <2>1, <3>1 DEF AnyInv, ResetInv
  <2> QED  BY <2>1
<1> QED  BY <1>1, AlwaysAny, PTL DEF Spec, ResetTokenSpentOnce

-----------------------------------------------------------------------------
(* One transaction at a time: SQLiteDB.                                    *)

LEMMA ViewIs ==
  ASSUME NEW c \in Clients, NEW x \in Rows
  PROVE  /\ View(c)[x] = IF mine[c][x] = Untouched THEN db[x] ELSE mine[c][x]
         /\ View(c)'[x] = IF mine'[c][x] = Untouched THEN db'[x] ELSE mine'[c][x]
BY DEF View

LEMMA InitSerial == Init => SerialInv
<1>. SUFFICES ASSUME Init PROVE SerialInv
  OBVIOUS
<1>1. \A c \in Clients : job[c] = NoJob /\ mine[c] = Nothing /\ state[c] = "idle"
  BY DEF Init
<1>2. /\ \A s \in Sessions : db[SessionRow(s)] = None /\ db[TokenRow(s)] = None
      /\ \A x \in ResetRows : db[x] = None
      /\ handed = {} /\ spent = {}
  <2>1. PICK p \in Passwords : db = [x \in Rows |-> IF x = UserRow THEN "active"
                                       ELSE IF x = PasswordRow THEN p ELSE None]
    BY DEF Init
  <2>2. \A s \in Sessions : db[SessionRow(s)] = None /\ db[TokenRow(s)] = None
    BY <2>1, RowsDiffer
  <2>3. \A r \in Resets : db[ResetRow(r)] = None
    <3>1. \A r \in Resets : ResetRow(r) \in Rows /\ ResetRow(r) # UserRow /\ ResetRow(r) # PasswordRow
      BY DEF ResetRow, UserRow, PasswordRow, Rows, ResetRows
    <3> QED  BY <2>1, <3>1
  <2> QED  BY <2>2, <2>3 DEF ResetRows, Init
<1>3. OneOpen /\ SeenInv /\ WrittenInv
  BY <1>1 DEF OneOpen, SeenInv, WrittenInv
<1>4. OwnInv /\ SessionInv
  BY <1>1, <1>2, NothingIsWritten, RowsDiffer DEF OwnInv, SessionInv
<1>5. TokenInv /\ OneResetToken
  BY <1>2, NothingIsWritten DEF TokenInv, HandedTokensAreStored, OneResetToken
<1> QED  BY <1>3, <1>4, <1>5 DEF SerialInv

LEMMA CallKeepsSerial ==
  ASSUME AnyInv, SerialInv, NEW c \in Clients, NEW op \in Operations, NEW j \in Jobs(op), Call(c, j)
  PROVE  SerialInv'
<1>1. /\ UNCHANGED <<db, todo, mine, handed, spent>>
      /\ state[c] = "idle" /\ state'[c] = "queued" /\ job'[c] = j
      /\ \A d \in Clients \ {c} : state'[d] = state[d] /\ job'[d] = job[d]
      /\ mine[c] = Nothing
  BY DEF Call, AnyInv, TypesInv, TodoInv
<1>2. /\ j.op = op
      /\ op = "create" =>
           /\ db[SessionRow(j.session)] = None
           /\ \A d \in Clients : j.session # job[d].session
  BY JobsAre DEF AnyInv
<1>3. OneOpen' /\ SeenInv'
  BY <1>1 DEF SerialInv, OneOpen, SeenInv, Left
<1>4. WrittenInv'
  BY <1>1 DEF SerialInv, WrittenInv, Left, View
<1>5. OwnInv'
  <2>1. \A s \in Sessions : mine[c][TokenRow(s)] = Untouched /\ mine[c][SessionRow(s)] = Untouched
    BY <1>1, NothingIsWritten, RowsDiffer
  <2> QED  BY <1>1, <2>1, NothingIsWritten DEF SerialInv, OwnInv
<1>6. SessionInv'
  BY <1>1, <1>2 DEF SerialInv, SessionInv
<1>7. TokenInv' /\ OneResetToken'
  BY <1>1 DEF SerialInv, TokenInv, HandedTokensAreStored, OneResetToken
<1> QED  BY <1>3, <1>4, <1>5, <1>6, <1>7 DEF SerialInv

LEMMA BeginKeepsSerial ==
  ASSUME Serialized, AnyInv, SerialInv, NEW c \in Clients, Begin(c)
  PROVE  SerialInv'
<1>1. /\ UNCHANGED <<db, job, mine, handed, spent>>
      /\ state'[c] = "open" /\ todo'[c] = Statements(job[c].op)
      /\ \A d \in Clients \ {c} : state'[d] # "open"
      /\ job[c].op \in Operations
  <2>1. \A d \in Clients : state[d] # "open"
    BY DEF Begin
  <2>2. job[c].op \in Operations
    BY DEF Begin, AnyInv, TypesInv, TodoInv, Records
  <2> QED  BY <2>1, <2>2 DEF Begin, AnyInv, TypesInv
<1>2. /\ job[c].op \in {"create", "refresh", "revoke"} => Left(c)' = 2
      /\ job[c].op \in {"change", "createReset"} => Left(c)' = 3
      /\ job[c].op = "reset" => Left(c)' = 4
  BY <1>1, StatementsAre DEF Left
<1>3. OneOpen' /\ SeenInv' /\ WrittenInv'
  BY <1>1, <1>2 DEF OneOpen, SeenInv, WrittenInv
<1>4. OwnInv' /\ SessionInv' /\ TokenInv' /\ OneResetToken'
  BY <1>1 DEF SerialInv, OwnInv, SessionInv, TokenInv, HandedTokensAreStored, OneResetToken
<1> QED  BY <1>3, <1>4 DEF SerialInv

(* Which statements leave the rows of sessions and tokens alone.           *)
LEMMA TokensAreKept ==
  ASSUME AnyInv, NEW c \in Clients, NEW name \in Names \ {"insertSession", "rotateToken"},
         Statement(c, name), Effect(c, name), NEW s \in Sessions
  PROVE  mine'[c][TokenRow(s)] = mine[c][TokenRow(s)]
<1>. DEFINE x == TokenRow(s)
<1>1. x \in Rows /\ x # PasswordRow /\ x # UserRow /\ x \notin SessionRows /\ x \notin ResetRows
  BY DEF SessionRow, TokenRow, ResetRow, PasswordRow, UserRow, Rows, SessionRows, TokenRows, ResetRows
<1>2. CASE name = "revokeSession"
  <2>1. job[c].session \in Sessions
    BY <1>2, PlacesAre DEF AnyInv, TodoInv, Fits
  <2>2. x # SessionRow(job[c].session)
    BY <2>1, RowsDiffer
  <2>. HIDE DEF x
  <2> QED  BY <1>1, <1>2, <2>2 DEF Effect, Same, x
<1>3. CASE name \in {"insertReset", "consumeReset"}
  <2>1. \/ name = "insertReset" /\ job[c].new \in Resets
        \/ name = "consumeReset" /\ job[c].old \in Resets
    BY <1>3, PlacesAre DEF AnyInv, TodoInv, Fits
  <2>2. \A r \in Resets : x # ResetRow(r)
    BY RowsDiffer
  <2>. HIDE DEF x
  <2> QED  BY <1>1, <2>1, <2>2 DEF Effect, Same, x
<1>4. CASE name \in {"checkUser", "findToken", "findSession", "verify"}
  BY <1>4 DEF Effect
<1>5. CASE name \in {"replacePassword", "setStatus", "revokeSessions", "dropResets"}
  <2>. HIDE DEF x
  <2> QED  BY <1>1, <1>5 DEF Effect, Same, x
<1> QED  BY <1>2, <1>3, <1>4, <1>5 DEF Names

LEMMA SessionsAreKept ==
  ASSUME AnyInv, NEW c \in Clients,
         NEW name \in Names \ {"insertSession", "revokeSession", "revokeSessions"},
         Statement(c, name), Effect(c, name), NEW s \in Sessions
  PROVE  mine'[c][SessionRow(s)] = mine[c][SessionRow(s)]
<1>. DEFINE x == SessionRow(s)
<1>1. x \in Rows /\ x # PasswordRow /\ x # UserRow /\ x \notin ResetRows
  BY DEF SessionRow, TokenRow, ResetRow, PasswordRow, UserRow, Rows, SessionRows, TokenRows, ResetRows
<1>2. CASE name = "rotateToken"
  <2>1. job[c].op = "refresh" /\ Left(c) = 1 /\ state[c] = "open"
    BY <1>2, PlacesAre DEF Statement
  <2>2. job[c].session \in Sessions
    BY <2>1 DEF AnyInv, FoundInv
  <2>3. x # TokenRow(job[c].session)
    BY <2>2, RowsDiffer
  <2>. HIDE DEF x
  <2> QED  BY <1>1, <1>2, <2>3 DEF Effect, Same, x
<1>3. CASE name \in {"insertReset", "consumeReset"}
  <2>1. \/ name = "insertReset" /\ job[c].new \in Resets
        \/ name = "consumeReset" /\ job[c].old \in Resets
    BY <1>3, PlacesAre DEF AnyInv, TodoInv, Fits
  <2>2. \A r \in Resets : x # ResetRow(r)
    BY RowsDiffer
  <2>. HIDE DEF x
  <2> QED  BY <1>1, <2>1, <2>2 DEF Effect, Same, x
<1>4. CASE name \in {"checkUser", "findToken", "findSession", "verify"}
  BY <1>4 DEF Effect
<1>5. CASE name \in {"replacePassword", "setStatus", "dropResets"}
  <2>. HIDE DEF x
  <2> QED  BY <1>1, <1>5 DEF Effect, Same, x
<1> QED  BY <1>2, <1>3, <1>4, <1>5 DEF Names

LEMMA ExecuteKeepsSerial ==
  ASSUME AnyInv, SerialInv, NEW c \in Clients, Execute(c)
  PROVE  SerialInv'
<1>1. PICK name \in Names : Statement(c, name) /\ Effect(c, name)
  BY ExecuteIs
<1>2. Framed(c)
  BY ExecuteIs
<1>. DEFINE j == job[c]
<1>3. /\ UNCHANGED <<db, state, handed, spent>> /\ state[c] = "open"
      /\ Left(c) \in 1..4 /\ Left(c)' = Left(c) - 1
      /\ \A d \in Clients \ {c} : mine'[d] = mine[d] /\ state'[d] # "open"
  <2>. DEFINE N == Len(Statements(job[c].op))
  <2>1. job[c].op \in Operations /\ Left(c)' = Left(c) - 1 /\ Left(c) \in 1..N
    BY <1>1, StatementsInOrder
  <2>2. N \in 1..4
    BY <2>1, StatementsAre
  <2>. HIDE DEF N
  <2>3. Left(c) \in 1..4 /\ Left(c)' = Left(c) - 1
    BY <2>1, <2>2
  <2> QED  BY <1>1, <1>2, <2>3 DEF Statement, Framed, SerialInv, OneOpen
<1>4. /\ \A d \in Clients : /\ job'[d].op = job[d].op /\ job'[d].old = job[d].old
                            /\ job'[d].new = job[d].new
                            /\ job[d].op # "refresh" => job'[d] = job[d]
      /\ name # "findToken" => job' = job
  <2>1. job \in [Clients -> Records]  BY DEF AnyInv, TypesInv
  <2>2. ASSUME job[c].op = "refresh", NEW s \in Sessions, job' = [job EXCEPT ![c].session = s]
        PROVE  \A d \in Clients : /\ job'[d].op = job[d].op /\ job'[d].old = job[d].old
                                  /\ job'[d].new = job[d].new
                                  /\ job[d].op # "refresh" => job'[d] = job[d]
    <3>1. job'[c] = [job[c] EXCEPT !.session = s] /\ \A d \in Clients \ {c} : job'[d] = job[d]
      BY <2>1, <2>2
    <3>2. job[c] \in Records  BY <2>1
    <3>3. job'[c].op = job[c].op /\ job'[c].old = job[c].old /\ job'[c].new = job[c].new
      BY <3>1, <3>2 DEF Records
    <3> QED  BY <2>2, <3>1, <3>3
  <2>3. name # "findToken" => job' = job
    BY <1>1 DEF Effect
  <2> QED  BY <1>2, <2>2, <2>3 DEF Framed
<1>5. \A x \in Rows : /\ View(c)[x] = IF mine[c][x] = Untouched THEN db[x] ELSE mine[c][x]
                      /\ View(c)'[x] = IF mine'[c][x] = Untouched THEN db[x] ELSE mine'[c][x]
  BY <1>3, ViewIs
<1>6. OneOpen'
  BY <1>3 DEF OneOpen
<1>7. SeenInv'
  <2>1. ASSUME j.op = "refresh", Left(c)' < 2
        PROVE  db[TokenRow(job'[c].session)] = j.old
    <3>1. CASE name = "findToken"
      <4>1. PICK s \in Sessions :
              View(c)[TokenRow(s)] = j.old /\ job' = [job EXCEPT ![c].session = s]
        BY <1>1, <3>1 DEF Effect
      <4>2. job'[c].session = s
        BY <4>1 DEF AnyInv, TypesInv, Records
      <4>3. mine[c] = Nothing
        <5>1. Left(c) = 2  BY <1>1, <3>1, PlacesAre
        <5>2. Left(c) = Len(Statements(j.op))  BY <2>1, <5>1, StatementsAre DEF AnyInv, TypesInv, Records, NoJob
        <5> QED  BY <1>3, <5>2 DEF AnyInv, TodoInv
      <4>4. mine[c][TokenRow(s)] = Untouched
        BY <4>3, NothingIsWritten, RowsDiffer
      <4> QED  BY <1>5, <4>1, <4>2, <4>4, RowsDiffer
    <3>2. CASE name # "findToken"
      <4>1. Left(c) = 1  BY <1>1, <2>1, <3>2, PlacesAre DEF Names
      <4> QED  BY <1>3, <1>4, <2>1, <3>2, <4>1 DEF SerialInv, SeenInv
    <3> QED  BY <3>1, <3>2
  <2>2. ASSUME j.op = "revoke", Left(c)' < 2
        PROVE  db[SessionRow(job'[c].session)] # None
    <3>1. job'[c] = j /\ j.session \in Sessions
      BY <1>4, <2>2 DEF AnyInv, TodoInv, Fits
    <3>2. CASE name = "findSession"
      <4>1. View(c)[SessionRow(j.session)] # None
        BY <1>1, <3>2 DEF Effect
      <4>2. mine[c] = Nothing
        <5>1. Left(c) = 2  BY <1>1, <3>2, PlacesAre
        <5>2. Left(c) = Len(Statements(j.op))  BY <2>2, <5>1, StatementsAre DEF AnyInv, TypesInv, Records
        <5> QED  BY <1>3, <5>2 DEF AnyInv, TodoInv
      <4>3. mine[c][SessionRow(j.session)] = Untouched
        BY <3>1, <4>2, NothingIsWritten, RowsDiffer
      <4> QED  BY <1>5, <3>1, <4>1, <4>3, RowsDiffer
    <3>3. CASE name # "findSession"
      <4>1. Left(c) = 1  BY <1>1, <2>2, <3>3, PlacesAre DEF Names
      <4> QED  BY <1>3, <2>2, <3>1, <4>1 DEF SerialInv, SeenInv
    <3> QED  BY <3>2, <3>3
  <2>3. ASSUME j.op = "change", Left(c)' < 3
        PROVE  db[PasswordRow] = j.old
    <3>1. CASE name = "verify"
      <4>1. View(c)[PasswordRow] = j.old
        BY <1>1, <3>1 DEF Effect
      <4>2. mine[c] = Nothing
        <5>1. Left(c) = 3  BY <1>1, <3>1, PlacesAre
        <5>2. Left(c) = Len(Statements(j.op))  BY <2>3, <5>1, StatementsAre DEF AnyInv, TypesInv, Records
        <5> QED  BY <1>3, <5>2 DEF AnyInv, TodoInv
      <4>3. mine[c][PasswordRow] = Untouched
        BY <4>2, NothingIsWritten, RowsDiffer
      <4> QED  BY <1>5, <4>1, <4>3, RowsDiffer
    <3>2. CASE name # "verify"
      <4>1. Left(c) < 3  BY <1>1, <1>3, <2>3, <3>2, PlacesAre DEF Names
      <4> QED  BY <1>3, <2>3, <4>1 DEF SerialInv, SeenInv
    <3> QED  BY <3>1, <3>2
  <2> QED  BY <1>3, <1>4, <2>1, <2>2, <2>3 DEF SeenInv
<1>8. WrittenInv'
  <2>1. ASSUME j.op \in {"create", "refresh"}, Left(c)' = 0
        PROVE  /\ mine'[c][TokenRow(job'[c].session)] = job'[c].new
               /\ j.op = "create" => mine'[c][SessionRow(job'[c].session)] = "active"
    <3>1. Left(c) = 1  BY <1>3, <2>1
    <3>2. \/ name = "insertSession" \/ (name = "rotateToken" /\ j.op = "refresh")
      BY <1>1, <2>1, <3>1, PlacesAre DEF Names
    <3>3. job' = job  BY <1>4, <3>2
    <3> QED  BY <1>1, <3>2, <3>3 DEF Effect
  <2>2. ASSUME j.op \in {"change", "reset"}, Left(c)' = 0, NEW x \in SessionRows
        PROVE  View(c)'[x] # "active"
    <3>1. Left(c) = 1  BY <1>3, <2>2
    <3>2. name = "revokeSessions"
      BY <1>1, <2>2, <3>1, PlacesAre DEF Names
    <3>3. x \in Rows  BY DEF Rows
    <3>4. CASE View(c)[x] = "active"
      <4>1. mine'[c][x] = "revoked"  BY <1>1, <3>2, <3>4 DEF Effect
      <4>2. Untouched # "revoked"  BY DEF Values, Statuses
      <4> QED  BY <1>5, <3>3, <4>1, <4>2
    <3>5. CASE View(c)[x] # "active"
      <4>1. mine'[c][x] = mine[c][x]  BY <1>1, <3>2, <3>3, <3>5 DEF Effect, Same
      <4> QED  BY <1>5, <3>3, <3>5, <4>1
    <3> QED  BY <3>4, <3>5
  <2>3. ASSUME j.op = "createReset", Left(c)' < 2, NEW r \in Resets, View(c)'[ResetRow(r)] = "live"
        PROVE  r = j.new
    <3>1. ResetRow(r) \in Rows /\ ResetRow(r) \in ResetRows /\ j.new \in Resets
      BY <2>3, RowsDiffer DEF ResetRows, AnyInv, TodoInv, Fits
    <3>2. \/ name = "dropResets" \/ (name = "insertReset" /\ Left(c) = 1)
      BY <1>1, <1>3, <2>3, PlacesAre DEF Names
    <3>3. CASE name = "dropResets"
      <4>1. CASE View(c)[ResetRow(r)] = "live"
        <5>1. mine'[c][ResetRow(r)] = None  BY <1>1, <3>1, <3>3, <4>1 DEF Effect
        <5> QED  BY <1>5, <2>3, <3>1, <5>1, NothingIsWritten
      <4>2. CASE View(c)[ResetRow(r)] # "live"
        <5>1. mine'[c][ResetRow(r)] = mine[c][ResetRow(r)]
          BY <1>1, <3>1, <3>3, <4>2 DEF Effect, Same
        <5> QED  BY <1>5, <2>3, <3>1, <4>2, <5>1
      <4> QED  BY <4>1, <4>2
    <3>4. CASE name = "insertReset" /\ Left(c) = 1
      <4>1. r # j.new => mine'[c][ResetRow(r)] = mine[c][ResetRow(r)]
        BY <1>1, <3>1, <3>4, RowsDiffer DEF Effect, Same
      <4>2. r # j.new => View(c)[ResetRow(r)] = "live"
        BY <1>5, <2>3, <3>1, <4>1
      <4> QED  BY <1>3, <2>3, <3>4, <4>2 DEF SerialInv, WrittenInv
    <3> QED  BY <3>2, <3>3, <3>4
  <2> QED  BY <1>3, <1>4, <2>1, <2>2, <2>3 DEF WrittenInv
<1>9. OwnInv'
  <2>1. ASSUME NEW d \in Clients \ {c}, NEW s \in Sessions
        PROVE  /\ mine'[d][TokenRow(s)] = mine[d][TokenRow(s)]
               /\ mine'[d][SessionRow(s)] = mine[d][SessionRow(s)]
               /\ job'[d] = job[d]
    BY <1>2, <1>3 DEF Framed, AnyInv, TypesInv
  <2>2. ASSUME NEW s \in Sessions, mine'[c][TokenRow(s)] # Untouched
        PROVE  j.op \in {"create", "refresh"} /\ s = job'[c].session /\ mine'[c][TokenRow(s)] = j.new
    <3>1. CASE name \in {"insertSession", "rotateToken"}
      <4>1. job' = job /\ j.op \in {"create", "refresh"}
        BY <1>1, <1>4, <3>1, PlacesAre
      <4>2. mine'[c][TokenRow(j.session)] = j.new
        BY <1>1, <3>1 DEF Effect
      <4>3. s # j.session => mine'[c][TokenRow(s)] = mine[c][TokenRow(s)]
        <5>1. j.session \in Sessions
          <6>1. j.op = "create" \/ (j.op = "refresh" /\ Left(c) = 1)
            BY <1>1, <3>1, PlacesAre
          <6> QED  BY <1>3, <6>1 DEF AnyInv, TodoInv, Fits, FoundInv
        <5>2. TokenRow(s) \in Rows /\ TokenRow(s) # SessionRow(j.session)
              /\ (s # j.session => TokenRow(s) # TokenRow(j.session))
          BY <5>1, RowsDiffer
        <5> QED  BY <1>1, <3>1, <5>2 DEF Effect, Same
      <4> QED  BY <2>2, <4>1, <4>2, <4>3 DEF SerialInv, OwnInv
    <3>2. CASE name \notin {"insertSession", "rotateToken"}
      <4>1. mine'[c][TokenRow(s)] = mine[c][TokenRow(s)]
        BY <1>1, <3>2, TokensAreKept
      <4>2. j.op \in {"create", "refresh"} /\ s = j.session /\ mine[c][TokenRow(s)] = j.new
        BY <2>2, <4>1 DEF SerialInv, OwnInv
      <4>3. name # "findToken"
        <5>1. ASSUME name = "findToken" PROVE FALSE
          <6>1. j.op = "refresh" /\ Left(c) = 2  BY <1>1, <5>1, PlacesAre
          <6>2. Left(c) = Len(Statements(j.op))
            BY <6>1, StatementsAre DEF AnyInv, TypesInv, Records
          <6>3. mine[c] = Nothing  BY <1>3, <6>2 DEF AnyInv, TodoInv
          <6> QED  BY <2>2, <4>1, <6>3, NothingIsWritten, RowsDiffer
        <5> QED  BY <5>1
      <4> QED  BY <1>4, <4>1, <4>2, <4>3
    <3> QED  BY <3>1, <3>2
  <2>3. ASSUME NEW s \in Sessions
        PROVE  /\ mine'[c][SessionRow(s)] # None
               /\ mine'[c][SessionRow(s)] # Untouched =>
                    (j.op = "create" /\ s = job'[c].session) \/ db[SessionRow(s)] # None
    <3>1. /\ SessionRow(s) \in Rows /\ SessionRow(s) \in SessionRows
          /\ None # "active" /\ None # "revoked"
      BY RowsDiffer DEF SessionRows, Statuses
    <3>2. /\ mine[c][SessionRow(s)] # None
          /\ mine[c][SessionRow(s)] # Untouched =>
               (j.op = "create" /\ s = j.session) \/ db[SessionRow(s)] # None
      BY DEF SerialInv, OwnInv
    <3>3. CASE name = "insertSession"
      <4>1. job' = job /\ j.op = "create"  BY <1>1, <1>4, <3>3, PlacesAre
      <4>2. j.session \in Sessions  BY <4>1 DEF AnyInv, TodoInv, Fits
      <4>3. SessionRow(s) # TokenRow(j.session) /\ (s # j.session => SessionRow(s) # SessionRow(j.session))
        BY <4>2, RowsDiffer
      <4>4. s # j.session => mine'[c][SessionRow(s)] = mine[c][SessionRow(s)]
        BY <1>1, <3>1, <3>3, <4>3 DEF Effect, Same
      <4>5. mine'[c][SessionRow(j.session)] = "active"
        BY <1>1, <3>3 DEF Effect
      <4> QED  BY <3>1, <3>2, <4>1, <4>4, <4>5
    <3>4. CASE name = "revokeSession"
      <4>1. job' = job /\ j.op = "revoke" /\ Left(c) = 1  BY <1>1, <1>4, <3>4, PlacesAre
      <4>2. j.session \in Sessions /\ db[SessionRow(j.session)] # None
        BY <1>3, <4>1 DEF AnyInv, TodoInv, Fits, SerialInv, SeenInv
      <4>3. s # j.session => SessionRow(s) # SessionRow(j.session)
        BY <4>2, RowsDiffer
      <4>4. s # j.session => mine'[c][SessionRow(s)] = mine[c][SessionRow(s)]
        BY <1>1, <3>1, <3>4, <4>3 DEF Effect, Same
      <4>5. mine'[c][SessionRow(j.session)] = "revoked"
        BY <1>1, <3>4 DEF Effect
      <4> QED  BY <3>1, <3>2, <4>1, <4>2, <4>4, <4>5
    <3>5. CASE name = "revokeSessions"
      <4>1. job' = job  BY <1>4, <3>5
      <4>2. CASE View(c)[SessionRow(s)] = "active"
        <5>1. mine'[c][SessionRow(s)] = "revoked"  BY <1>1, <3>1, <3>5, <4>2 DEF Effect
        <5>2. mine[c][SessionRow(s)] # Untouched \/ db[SessionRow(s)] = "active"
          BY <1>5, <3>1, <4>2
        <5> QED  BY <3>1, <3>2, <4>1, <5>1, <5>2
      <4>3. CASE View(c)[SessionRow(s)] # "active"
        <5>1. mine'[c][SessionRow(s)] = mine[c][SessionRow(s)]
          BY <1>1, <3>1, <3>5, <4>3 DEF Effect, Same
        <5> QED  BY <3>2, <4>1, <5>1
      <4> QED  BY <4>2, <4>3
    <3>6. CASE name \notin {"insertSession", "revokeSession", "revokeSessions"}
      <4>1. mine'[c][SessionRow(s)] = mine[c][SessionRow(s)]
        BY <1>1, <3>6, SessionsAreKept
      <4>2. j.op = "create" => job'[c] = j  BY <1>4
      <4> QED  BY <3>2, <4>1, <4>2
    <3> QED  BY <3>3, <3>4, <3>5, <3>6
  <2>4. \A s \in Sessions : db'[SessionRow(s)] = db[SessionRow(s)]
    BY <1>3
  <2> QED  BY <1>4, <2>1, <2>2, <2>3, <2>4 DEF SerialInv, OwnInv
<1>10. SessionInv'
  <2>1. \A d \in Clients : job'[d].op = job[d].op /\ (job[d].op = "create" => job'[d] = job[d])
    BY <1>4
  <2> QED  BY <1>3, <2>1 DEF SerialInv, SessionInv
<1>11. TokenInv' /\ OneResetToken'
  BY <1>3 DEF SerialInv, TokenInv, HandedTokensAreStored, OneResetToken
<1> QED  BY <1>6, <1>7, <1>8, <1>9, <1>10, <1>11 DEF SerialInv

(* After the end of a transaction none is open.                            *)
LEMMA EndIsSerial ==
  ASSUME AnyInv, SerialInv, NEW c \in Clients, state[c] = "open", End(c)
  PROVE  /\ OneOpen' /\ SeenInv' /\ WrittenInv' /\ OwnInv'
         /\ \A d \in Clients : job'[d].op # "none" => d # c /\ job'[d] = job[d]
<1>1. /\ state'[c] = "idle" /\ job'[c].op = "none" /\ mine'[c] = Nothing
      /\ \A d \in Clients \ {c} : /\ state'[d] = state[d] /\ job'[d] = job[d]
                                  /\ mine'[d] = mine[d] /\ state[d] # "open"
  BY EndKeeps, NothingIsWritten DEF SerialInv, OneOpen
<1>2. \A d \in Clients : state'[d] # "open" /\ mine'[d] = Nothing
  BY <1>1 DEF AnyInv, TodoInv
<1>3. OneOpen' /\ SeenInv' /\ WrittenInv'
  BY <1>2 DEF OneOpen, SeenInv, WrittenInv
<1>4. OwnInv'
  <2>1. \A d \in Clients, s \in Sessions :
          mine'[d][TokenRow(s)] = Untouched /\ mine'[d][SessionRow(s)] = Untouched
    BY <1>2, NothingIsWritten, RowsDiffer
  <2> QED  BY <2>1, NothingIsWritten DEF OwnInv
<1> QED  BY <1>1, <1>3, <1>4

LEMMA AbortKeepsSerial ==
  ASSUME AnyInv, SerialInv, NEW c \in Clients, Abort(c)
  PROVE  SerialInv'
<1>1. UNCHANGED <<db, handed, spent>> /\ End(c) /\ state[c] \in {"queued", "open"}
  BY DEF Abort
<1>2. \A d \in Clients : job'[d].op # "none" => d # c /\ job'[d] = job[d]
  BY <1>1, EndKeeps, NothingIsWritten
<1>3. SessionInv'
  BY <1>1, <1>2 DEF SerialInv, SessionInv
<1>4. TokenInv' /\ OneResetToken'
  BY <1>1 DEF SerialInv, TokenInv, HandedTokensAreStored, OneResetToken
<1>5. CASE state[c] = "open"
  BY <1>1, <1>3, <1>4, <1>5, EndIsSerial DEF SerialInv
<1>6. CASE state[c] = "queued"
  <2>1. /\ state'[c] = "idle" /\ job'[c].op = "none" /\ mine'[c] = Nothing
        /\ \A d \in Clients \ {c} : /\ state'[d] = state[d] /\ job'[d] = job[d]
                                    /\ mine'[d] = mine[d] /\ todo'[d] = todo[d]
    BY <1>1, EndKeeps, NothingIsWritten
  <2>2. OneOpen' /\ SeenInv'
    BY <1>1, <2>1 DEF SerialInv, OneOpen, SeenInv, Left
  <2>3. WrittenInv'
    <3>. SUFFICES ASSUME NEW d \in Clients, state'[d] = "open"
                 PROVE  /\ job'[d] = job[d] /\ mine'[d] = mine[d] /\ Left(d)' = Left(d)
                        /\ View(d)' = View(d) /\ state[d] = "open"
      BY DEF SerialInv, WrittenInv
    <3>1. d # c  BY <2>1
    <3>2. state[d] = "open" /\ job'[d] = job[d] /\ mine'[d] = mine[d] /\ todo'[d] = todo[d]
      BY <2>1, <3>1
    <3> QED  BY <1>1, <3>2 DEF Left, View
  <2>4. OwnInv'
    <3>1. \A s \in Sessions : mine'[c][TokenRow(s)] = Untouched /\ mine'[c][SessionRow(s)] = Untouched
      BY <2>1, NothingIsWritten, RowsDiffer
    <3> QED  BY <1>1, <2>1, <3>1, NothingIsWritten DEF SerialInv, OwnInv
  <2> QED  BY <1>3, <1>4, <2>2, <2>3, <2>4 DEF SerialInv
<1> QED  BY <1>1, <1>5, <1>6

LEMMA CommitKeepsSerial ==
  ASSUME AnyInv, SerialInv, NEW c \in Clients, Commit(c)
  PROVE  SerialInv'
<1>. DEFINE j == job[c]
<1>1. /\ state[c] = "open" /\ Left(c) = 0 /\ End(c) /\ Fits(j) /\ j.op \in Operations
      /\ \A x \in Rows : db'[x] = IF mine[c][x] = Untouched THEN db[x] ELSE mine[c][x]
      /\ handed' = handed \cup IF j.op \in Generators THEN {j.new} \ {None} ELSE {}
      /\ spent' = spent \cup IF j.op \in {"refresh", "reset"} THEN {j.old} ELSE {}
  BY CommitIs
<1>2. /\ OneOpen' /\ SeenInv' /\ WrittenInv' /\ OwnInv'
      /\ \A d \in Clients : job'[d].op # "none" => d # c /\ job'[d] = job[d]
  BY <1>1, EndIsSerial
<1>3. /\ j.op = "refresh" =>
           /\ j.session \in Sessions /\ db[TokenRow(j.session)] = j.old /\ j.old \in Tokens \cap handed
           /\ mine[c][TokenRow(j.session)] = j.new /\ j.new \in Tokens /\ j.new \notin handed
      /\ j.op = "create" =>
           /\ j.session \in Sessions /\ j.new \in Tokens \cup {None} /\ j.new \notin handed
           /\ mine[c][TokenRow(j.session)] = j.new /\ mine[c][SessionRow(j.session)] = "active"
           /\ db[SessionRow(j.session)] = None /\ db[TokenRow(j.session)] = None
  BY <1>1 DEF AnyInv, FoundInv, FreshInv, Generators, Fits, SerialInv, SeenInv, WrittenInv, SessionInv
<1>4. \A s \in Sessions :
        db'[TokenRow(s)] = IF j.op \in {"create", "refresh"} /\ s = j.session THEN j.new
                           ELSE db[TokenRow(s)]
  <2>. SUFFICES ASSUME NEW s \in Sessions
               PROVE  db'[TokenRow(s)] = IF j.op \in {"create", "refresh"} /\ s = j.session THEN j.new
                                         ELSE db[TokenRow(s)]
    OBVIOUS
  <2>1. TokenRow(s) \in Rows  BY RowsDiffer
  <2>2. mine[c][TokenRow(s)] # Untouched =>
          j.op \in {"create", "refresh"} /\ s = j.session /\ mine[c][TokenRow(s)] = j.new
    BY DEF SerialInv, OwnInv
  <2>3. Untouched \notin Tokens \cup {None}  BY DEF Values
  <2> QED  BY <1>1, <1>3, <2>1, <2>2, <2>3
<1>5. \A s \in Sessions :
        /\ db'[SessionRow(s)] = None => db[SessionRow(s)] = None
        /\ db'[SessionRow(s)] # None => db[SessionRow(s)] # None \/ (j.op = "create" /\ s = j.session)
        /\ j.op = "create" /\ s = j.session => db'[SessionRow(s)] # None
  <2>1. None # "active" /\ Untouched # "active"  BY NothingIsWritten DEF Statuses
  <2>2. \A s \in Sessions : SessionRow(s) \in Rows  BY RowsDiffer
  <2>3. \A s \in Sessions :
          /\ mine[c][SessionRow(s)] # None
          /\ mine[c][SessionRow(s)] # Untouched =>
               (j.op = "create" /\ s = j.session) \/ db[SessionRow(s)] # None
    BY DEF SerialInv, OwnInv
  <2> QED  BY <1>1, <1>3, <2>1, <2>2, <2>3
<1>6. SessionInv'
  <2>1. ASSUME NEW s \in Sessions, db'[SessionRow(s)] = None
        PROVE  db'[TokenRow(s)] = None
    <3>1. db[SessionRow(s)] = None /\ db[TokenRow(s)] = None
      BY <1>5, <2>1 DEF SerialInv, SessionInv
    <3>2. ~(j.op = "create" /\ s = j.session)
      BY <1>5, <2>1
    <3>3. ~(j.op = "refresh" /\ s = j.session)
      BY <1>3, <3>1
    <3> QED  BY <1>4, <3>1, <3>2, <3>3
  <2>2. ASSUME NEW d \in Clients, job'[d].op = "create"
        PROVE  /\ db'[SessionRow(job'[d].session)] = None
               /\ \A e \in Clients \ {d} : job'[e].op = "create" => job'[e].session # job'[d].session
    <3>1. d # c /\ job'[d] = job[d] /\ job[d].op = "create"
      BY <1>2, <2>2
    <3>2. /\ db[SessionRow(job[d].session)] = None
          /\ \A e \in Clients \ {d} : job[e].op = "create" => job[e].session # job[d].session
          /\ job[d].session \in Sessions
      BY <3>1 DEF SerialInv, SessionInv, AnyInv, TodoInv, Fits
    <3>3. j.op = "create" => j.session # job[d].session
      BY <3>1, <3>2
    <3>4. db'[SessionRow(job[d].session)] = None
      BY <1>5, <3>2, <3>3
    <3>5. \A e \in Clients \ {d} : job'[e].op = "create" => job'[e] = job[e]
      BY <1>2
    <3> QED  BY <3>1, <3>2, <3>4, <3>5
  <2> QED  BY <2>1, <2>2 DEF SessionInv
<1>7. /\ \A s \in Sessions : db[TokenRow(s)] \in ((Tokens \cap handed) \ spent) \cup {None}
      /\ \A s, p \in Sessions : db[TokenRow(s)] = db[TokenRow(p)] /\ s # p => db[TokenRow(s)] = None
      /\ \A t \in (handed \cap Tokens) \ spent : \E s \in Sessions : db[TokenRow(s)] = t
      /\ None \notin Tokens /\ spent \subseteq handed
  BY DEF SerialInv, TokenInv, HandedTokensAreStored, AnyInv, TypesInv
<1>8. TokenInv'
  <2>1. CASE j.op = "refresh"
    <3>1. handed' = handed \cup {j.new} /\ spent' = spent \cup {j.old}
      BY <1>1, <1>3, <1>7, <2>1 DEF Generators
    <3>2. \A s \in Sessions : db'[TokenRow(s)] = IF s = j.session THEN j.new ELSE db[TokenRow(s)]
      BY <1>4, <2>1
    <3>3. ASSUME NEW s \in Sessions
          PROVE  db'[TokenRow(s)] \in ((Tokens \cap handed') \ spent') \cup {None}
      BY <1>3, <1>7, <2>1, <3>1, <3>2
    <3>4. ASSUME NEW s \in Sessions, NEW p \in Sessions, db'[TokenRow(s)] = db'[TokenRow(p)], s # p
          PROVE  db'[TokenRow(s)] = None
      BY <1>3, <1>7, <2>1, <3>2, <3>4
    <3>5. ASSUME NEW t \in (handed' \cap Tokens) \ spent'
          PROVE  \E s \in Sessions : db'[TokenRow(s)] = t
      BY <1>3, <1>7, <2>1, <3>1, <3>2
    <3> QED  BY <3>3, <3>4, <3>5 DEF TokenInv, HandedTokensAreStored
  <2>2. CASE j.op = "create"
    <3>1. handed' = handed \cup ({j.new} \ {None}) /\ spent' = spent
      BY <1>1, <2>2 DEF Generators
    <3>2. \A s \in Sessions : db'[TokenRow(s)] = IF s = j.session THEN j.new ELSE db[TokenRow(s)]
      BY <1>4, <2>2
    <3>3. ASSUME NEW s \in Sessions
          PROVE  db'[TokenRow(s)] \in ((Tokens \cap handed') \ spent') \cup {None}
      BY <1>3, <1>7, <2>2, <3>1, <3>2
    <3>4. ASSUME NEW s \in Sessions, NEW p \in Sessions, db'[TokenRow(s)] = db'[TokenRow(p)], s # p
          PROVE  db'[TokenRow(s)] = None
      BY <1>3, <1>7, <2>2, <3>2, <3>4
    <3>5. ASSUME NEW t \in (handed' \cap Tokens) \ spent'
          PROVE  \E s \in Sessions : db'[TokenRow(s)] = t
      BY <1>3, <1>7, <2>2, <3>1, <3>2
    <3> QED  BY <3>3, <3>4, <3>5 DEF TokenInv, HandedTokensAreStored
  <2>3. CASE j.op \notin {"create", "refresh"}
    <3>1. \A s \in Sessions : db'[TokenRow(s)] = db[TokenRow(s)]
      BY <1>4, <2>3
    <3>2. handed' \cap Tokens = handed \cap Tokens /\ spent' \cap Tokens = spent \cap Tokens
      <4>1. j.op = "createReset" => j.new \notin Tokens  BY <1>1 DEF Fits
      <4>2. j.op = "reset" => j.old \notin Tokens  BY <1>1 DEF Fits
      <4> QED  BY <1>1, <2>3, <4>1, <4>2 DEF Generators
    <3> QED  BY <1>7, <3>1, <3>2 DEF TokenInv, HandedTokensAreStored
  <2> QED  BY <2>1, <2>2, <2>3
<1>9. OneResetToken'
  <2>. SUFFICES ASSUME NEW r \in Resets, NEW q \in Resets,
                      db'[ResetRow(r)] = "live", db'[ResetRow(q)] = "live"
               PROVE  r = q
    BY DEF OneResetToken, ResetRows
  <2>1. /\ ResetRow(r) \in Rows /\ ResetRow(q) \in Rows
        /\ ResetRow(r) \in ResetRows /\ ResetRow(q) \in ResetRows
    BY RowsDiffer DEF ResetRows
  <2>2. View(c)[ResetRow(r)] = "live" /\ View(c)[ResetRow(q)] = "live"
    BY <1>1, <2>1, ViewIs
  <2>3. CASE j.op = "createReset"
    BY <1>1, <2>2, <2>3 DEF SerialInv, WrittenInv
  <2>4. CASE j.op # "createReset"
    <3>1. mine[c][ResetRow(r)] # "live" /\ mine[c][ResetRow(q)] # "live"
      BY <2>4 DEF AnyInv, ResetInv
    <3>2. db[ResetRow(r)] = "live" /\ db[ResetRow(q)] = "live"
      BY <2>1, <2>2, <3>1, ViewIs
    <3>3. ResetRow(r) = ResetRow(q)  BY <2>1, <3>2 DEF SerialInv, OneResetToken
    <3> QED  BY <3>3, RowsDiffer
  <2> QED  BY <2>3, <2>4
<1> QED  BY <1>2, <1>6, <1>8, <1>9 DEF SerialInv

LEMMA NextSerial ==
  ASSUME Serialized, AnyInv, SerialInv, [Next]_vars
  PROVE  SerialInv'
<1>1. ASSUME NEW c \in Clients, NEW op \in Operations, NEW j \in Jobs(op), Call(c, j)
      PROVE  SerialInv'
  BY <1>1, CallKeepsSerial
<1>2. ASSUME NEW c \in Clients, Begin(c) \/ Execute(c) \/ Commit(c) \/ Abort(c)
      PROVE  SerialInv'
  BY <1>2, BeginKeepsSerial, ExecuteKeepsSerial, CommitKeepsSerial, AbortKeepsSerial
<1>3. CASE UNCHANGED vars
  BY <1>3 DEF vars, SerialInv, OneOpen, SeenInv, WrittenInv, View, OwnInv, SessionInv, TokenInv,
       HandedTokensAreStored, OneResetToken, Left
<1> QED  BY <1>1, <1>2, <1>3 DEF Next

LEMMA AlwaysSerial ==
  ASSUME Serialized
  PROVE  Spec => [](AnyInv /\ SerialInv)
BY InitSerial, NextSerial, AlwaysAny, InitAny, NextAny, PTL DEF Spec

(* On SQLite a refresh token is exchanged once.                            *)
THEOREM RefreshTokensAreSpentOnce ==
  ASSUME Serialized
  PROVE  Spec => RefreshTokenSpentOnce
<1>1. AnyInv /\ SerialInv /\ [Next]_vars =>
        [\A c \in Clients : Answers(c, {"refresh"}) => job[c].old \notin spent]_vars
  <2>1. ASSUME AnyInv, SerialInv, NEW c \in Clients, Answers(c, {"refresh"})
        PROVE  job[c].old \notin spent
    <3>1. job[c].op = "refresh" /\ state[c] = "open" /\ Left(c) = 0 /\ job[c].old \in Tokens
      BY <2>1, CommitIs DEF Answers, Fits
    <3>2. job[c].session \in Sessions /\ db[TokenRow(job[c].session)] = job[c].old
      BY <2>1, <3>1 DEF AnyInv, FoundInv, SerialInv, SeenInv
    <3> QED  BY <2>1, <3>1, <3>2 DEF SerialInv, TokenInv
  <2> QED  BY <2>1
<1> QED  BY <1>1, AlwaysSerial, PTL DEF Spec, RefreshTokenSpentOnce

(* On SQLite no caller is left with a token that works no more although it *)
(* was never used.                                                         *)
THEOREM HandedTokensStay ==
  ASSUME Serialized
  PROVE  Spec => []HandedTokensAreStored
BY AlwaysSerial, PTL DEF SerialInv, TokenInv

(* On SQLite a changed or reset password leaves no session active.         *)
THEOREM ChangesRevokeSessions ==
  ASSUME Serialized
  PROVE  Spec => PasswordChangeRevokes
<1>1. AnyInv /\ SerialInv /\ [Next]_vars =>
        [\A c \in Clients : Answers(c, {"change", "reset"}) =>
           \A x \in SessionRows : db'[x] # "active"]_vars
  <2>1. ASSUME AnyInv, SerialInv, NEW c \in Clients, Answers(c, {"change", "reset"}),
               NEW x \in SessionRows
        PROVE  db'[x] # "active"
    <3>1. job[c].op \in {"change", "reset"} /\ state[c] = "open" /\ Left(c) = 0 /\ db' = View(c)
      BY <2>1, CommitIs DEF Answers, Commit
    <3> QED  BY <2>1, <3>1 DEF SerialInv, WrittenInv
  <2> QED  BY <2>1
<1> QED  BY <1>1, AlwaysSerial, PTL DEF Spec, PasswordChangeRevokes

(* On SQLite change() replaces the password that it verified.              *)
THEOREM ChangesReplaceVerified ==
  ASSUME Serialized
  PROVE  Spec => ChangeReplacesVerified
<1>1. AnyInv /\ SerialInv /\ [Next]_vars =>
        [\A c \in Clients : Answers(c, {"change"}) => db[PasswordRow] = job[c].old]_vars
  <2>1. ASSUME AnyInv, SerialInv, NEW c \in Clients, Answers(c, {"change"})
        PROVE  db[PasswordRow] = job[c].old
    <3>1. job[c].op = "change" /\ state[c] = "open" /\ Left(c) = 0
      BY <2>1, CommitIs DEF Answers
    <3> QED  BY <2>1, <3>1 DEF SerialInv, SeenInv
  <2> QED  BY <2>1
<1> QED  BY <1>1, AlwaysSerial, PTL DEF Spec, ChangeReplacesVerified

(* On SQLite at most one reset token is pending.                           *)
THEOREM OneResetTokenPends ==
  ASSUME Serialized
  PROVE  Spec => []OneResetToken
BY AlwaysSerial, PTL DEF SerialInv

-----------------------------------------------------------------------------
(* On SQLite the transactions implement CredentialService: an operation    *)
(* happens at its COMMIT.                                                  *)

(* What a transaction has written to each row when n statements are left.  *)
UserDraft(j, n) ==
  IF j.op \in {"enable", "disable"} /\ n = 0
  THEN (IF j.op = "enable" THEN "active" ELSE "disabled")
  ELSE Untouched
PasswordDraft(j, n) ==
  IF (j.op = "set" /\ n = 0) \/ (j.op \in {"change", "reset"} /\ n < 2) THEN j.new ELSE Untouched
TokenDraft(j, n, s) ==
  IF j.op \in {"create", "refresh"} /\ n = 0 /\ s = j.session THEN j.new ELSE Untouched
SessionDraft(j, n, s) ==
  IF j.op = "create" /\ n = 0 /\ s = j.session THEN "active"
  ELSE IF \/ j.op = "revoke" /\ n = 0 /\ s = j.session
          \/ j.op \in {"revokeAll", "change", "reset"} /\ n = 0 /\ db[SessionRow(s)] = "active"
       THEN "revoked"
       ELSE Untouched
ResetDraft(j, n, r) ==
  IF j.op = "createReset" /\ n = 0 /\ r = j.new THEN "live"
  ELSE IF \/ j.op = "createReset" /\ n < 2 /\ db[ResetRow(r)] = "live"
          \/ j.op = "reset" /\ n < 4 /\ r = j.old
       THEN None
       ELSE Untouched

Drafted(c) ==
  LET j == job[c]
      n == Left(c)
  IN  /\ mine[c][UserRow] = UserDraft(j, n)
      /\ mine[c][PasswordRow] = PasswordDraft(j, n)
      /\ \A s \in Sessions : /\ mine[c][TokenRow(s)] = TokenDraft(j, n, s)
                             /\ mine[c][SessionRow(s)] = SessionDraft(j, n, s)
      /\ \A r \in Resets : mine[c][ResetRow(r)] = ResetDraft(j, n, r)

(* What it has read is still committed (see SeenInv for the rest).         *)
Saw(c) ==
  LET j == job[c]
      n == Left(c)
  IN  /\ \/ j.op \in {"create", "refresh"} /\ n < 2
         \/ j.op \in {"change", "createReset", "reset"} /\ n < 3
         => db[UserRow] = "active"
      /\ j.op = "refresh" /\ n < 2 => db[SessionRow(j.session)] = "active"
      /\ j.op = "reset" /\ n < 4 => db[ResetRow(j.old)] = "live"

DraftInv == \A c \in Clients : state[c] = "open" => Drafted(c) /\ Saw(c)

(* Which statements leave the other rows alone.                            *)
LEMMA UserIsKept ==
  ASSUME NEW c \in Clients, NEW name \in Names \ {"setStatus"}, Effect(c, name)
  PROVE  mine'[c][UserRow] = mine[c][UserRow]
<1>. DEFINE x == UserRow
<1>1. /\ x \in Rows /\ x # PasswordRow /\ x \notin SessionRows /\ x \notin ResetRows
      /\ \A y : x # SessionRow(y) /\ x # TokenRow(y) /\ x # ResetRow(y)
  BY DEF SessionRow, TokenRow, ResetRow, PasswordRow, UserRow, Rows, SessionRows, TokenRows, ResetRows
<1>. HIDE DEF x
<1>2. CASE name \in {"checkUser", "findToken", "findSession", "verify"}
  BY <1>2 DEF Effect
<1>3. CASE name \in {"insertSession", "rotateToken", "revokeSession", "revokeSessions"}
  BY <1>1, <1>3 DEF Effect, Same, x
<1>4. CASE name \in {"replacePassword", "dropResets", "insertReset", "consumeReset"}
  BY <1>1, <1>4 DEF Effect, Same, x
<1> QED  BY <1>2, <1>3, <1>4 DEF Names

LEMMA PasswordIsKept ==
  ASSUME NEW c \in Clients, NEW name \in Names \ {"replacePassword"}, Effect(c, name)
  PROVE  mine'[c][PasswordRow] = mine[c][PasswordRow]
<1>. DEFINE x == PasswordRow
<1>1. /\ x \in Rows /\ x # UserRow /\ x \notin SessionRows /\ x \notin ResetRows
      /\ \A y : x # SessionRow(y) /\ x # TokenRow(y) /\ x # ResetRow(y)
  BY DEF SessionRow, TokenRow, ResetRow, PasswordRow, UserRow, Rows, SessionRows, TokenRows, ResetRows
<1>. HIDE DEF x
<1>2. CASE name \in {"checkUser", "findToken", "findSession", "verify"}
  BY <1>2 DEF Effect
<1>3. CASE name \in {"insertSession", "rotateToken", "revokeSession", "revokeSessions"}
  BY <1>1, <1>3 DEF Effect, Same, x
<1>4. CASE name \in {"setStatus", "dropResets", "insertReset", "consumeReset"}
  BY <1>1, <1>4 DEF Effect, Same, x
<1> QED  BY <1>2, <1>3, <1>4 DEF Names

LEMMA ResetsAreKept ==
  ASSUME NEW c \in Clients, NEW name \in Names \ {"dropResets", "insertReset", "consumeReset"},
         Effect(c, name), NEW r \in Resets
  PROVE  mine'[c][ResetRow(r)] = mine[c][ResetRow(r)]
<1>. DEFINE x == ResetRow(r)
<1>1. /\ x \in Rows /\ x # UserRow /\ x # PasswordRow /\ x \notin SessionRows
      /\ \A y : x # SessionRow(y) /\ x # TokenRow(y)
  BY DEF SessionRow, TokenRow, ResetRow, PasswordRow, UserRow, Rows, SessionRows, TokenRows, ResetRows
<1>. HIDE DEF x
<1>2. CASE name \in {"checkUser", "findToken", "findSession", "verify"}
  BY <1>2 DEF Effect
<1>3. CASE name \in {"insertSession", "rotateToken", "revokeSession", "revokeSessions"}
  BY <1>1, <1>3 DEF Effect, Same, x
<1>4. CASE name \in {"setStatus", "replacePassword"}
  BY <1>1, <1>4 DEF Effect, Same, x
<1> QED  BY <1>2, <1>3, <1>4 DEF Names

(* The job of a transaction is the same but for the session that it finds. *)
LEMMA JobIsKept ==
  ASSUME AnyInv, NEW c \in Clients, NEW name, Framed(c), Effect(c, name)
  PROVE  /\ job'[c].op = job[c].op /\ job'[c].old = job[c].old /\ job'[c].new = job[c].new
         /\ name # "findToken" => job' = job
         /\ \A d \in Clients \ {c} : job'[d] = job[d]
<1>1. job \in [Clients -> Records] /\ job[c] \in Records  BY DEF AnyInv, TypesInv
<1>2. ASSUME NEW s \in Sessions, job' = [job EXCEPT ![c].session = s]
      PROVE  /\ job'[c].op = job[c].op /\ job'[c].old = job[c].old /\ job'[c].new = job[c].new
             /\ \A d \in Clients \ {c} : job'[d] = job[d]
  <2>1. job'[c] = [job[c] EXCEPT !.session = s] /\ \A d \in Clients \ {c} : job'[d] = job[d]
    BY <1>1, <1>2
  <2> QED  BY <1>1, <2>1 DEF Records
<1>3. name # "findToken" => job' = job
  BY DEF Effect
<1> QED  BY <1>2, <1>3 DEF Framed

LEMMA StatementKeepsDraft ==
  ASSUME AnyInv, NEW c \in Clients, NEW name \in Names, Statement(c, name), Effect(c, name),
         Framed(c), Drafted(c), Saw(c), db' = db
  PROVE  Drafted(c)' /\ Saw(c)'
<1>. DEFINE j == job[c]
            n == Left(c)
            op == job[c].op
<1>1. n \in 1..4 /\ Left(c)' = n - 1 /\ op \in Operations
  <2>. DEFINE N == Len(Statements(op))
  <2>1. op \in Operations /\ Left(c)' = n - 1 /\ n \in 1..N
    BY StatementsInOrder
  <2>2. N \in 1..4
    BY <2>1, StatementsAre
  <2>. HIDE DEF N, n
  <2> QED  BY <2>1, <2>2
<1>2. /\ job'[c].op = op /\ job'[c].old = j.old /\ job'[c].new = j.new
      /\ name # "findToken" => job'[c] = j
  BY JobIsKept
<1>3. /\ mine[c][UserRow] = UserDraft(j, n) /\ mine[c][PasswordRow] = PasswordDraft(j, n)
      /\ \A s \in Sessions : /\ mine[c][TokenRow(s)] = TokenDraft(j, n, s)
                             /\ mine[c][SessionRow(s)] = SessionDraft(j, n, s)
      /\ \A r \in Resets : mine[c][ResetRow(r)] = ResetDraft(j, n, r)
  BY DEF Drafted
<1>4. /\ name = "checkUser" =>
           (op = "create" /\ n = 2) \/ (op = "createReset" /\ n = 3) \/ (op = "reset" /\ n = 3)
      /\ name = "insertSession" => op = "create" /\ n = 1
      /\ name = "findToken" => op = "refresh" /\ n = 2
      /\ name = "rotateToken" => op = "refresh" /\ n = 1
      /\ name = "findSession" => op = "revoke" /\ n = 2
      /\ name = "revokeSession" => op = "revoke" /\ n = 1
      /\ name = "revokeSessions" => op \in {"revokeAll", "change", "reset"} /\ n = 1
      /\ name = "verify" => op = "change" /\ n = 3
      /\ name = "replacePassword" =>
           (op = "set" /\ n = 1) \/ (op = "change" /\ n = 2) \/ (op = "reset" /\ n = 2)
      /\ name = "dropResets" => op = "createReset" /\ n = 2
      /\ name = "insertReset" => op = "createReset" /\ n = 1
      /\ name = "consumeReset" => op = "reset" /\ n = 4
      /\ name = "setStatus" => op \in {"enable", "disable"} /\ n = 1
  BY PlacesAre
<1>5. \A x \in Rows : View(c)[x] = IF mine[c][x] = Untouched THEN db[x] ELSE mine[c][x]
  BY DEF View
<1>. HIDE DEF n, op
<1>6. mine'[c][UserRow] = UserDraft(job'[c], n - 1)
  <2>1. CASE name = "setStatus"
    <3>1. mine'[c][UserRow] = IF op = "enable" THEN "active" ELSE "disabled"
      BY <2>1 DEF Effect, op
    <3> QED  BY <1>2, <1>4, <2>1, <3>1 DEF UserDraft
  <2>2. CASE name # "setStatus"
    <3>1. op \notin {"enable", "disable"}  BY <1>4, <2>2 DEF Names
    <3>2. mine'[c][UserRow] = mine[c][UserRow]  BY <2>2, UserIsKept
    <3> QED  BY <1>2, <1>3, <3>1, <3>2 DEF UserDraft, op
  <2> QED  BY <2>1, <2>2
<1>7. mine'[c][PasswordRow] = PasswordDraft(job'[c], n - 1)
  <2>1. CASE name = "replacePassword"
    <3>1. mine'[c][PasswordRow] = j.new  BY <2>1 DEF Effect
    <3> QED  BY <1>2, <1>4, <2>1, <3>1 DEF PasswordDraft
  <2>2. CASE name # "replacePassword"
    <3>1. /\ op # "set"
          /\ op \in {"change", "reset"} => n # 2
      BY <1>4, <2>2 DEF Names
    <3>2. mine'[c][PasswordRow] = mine[c][PasswordRow]  BY <2>2, PasswordIsKept
    <3>3. op \in {"change", "reset"} => (n - 1 < 2 <=> n < 2)  BY <1>1, <3>1
    <3> QED  BY <1>2, <1>3, <3>1, <3>2, <3>3 DEF PasswordDraft, op
  <2> QED  BY <2>1, <2>2
<1>8. ASSUME NEW s \in Sessions
      PROVE  mine'[c][TokenRow(s)] = TokenDraft(job'[c], n - 1, s)
  <2>1. CASE name \in {"insertSession", "rotateToken"}
    <3>1. j.session \in Sessions
      BY <1>4, <2>1 DEF AnyInv, TodoInv, Fits, FoundInv, Statement, n, op
    <3>2. /\ TokenRow(s) \in Rows /\ TokenRow(s) # SessionRow(j.session)
          /\ s # j.session => TokenRow(s) # TokenRow(j.session)
      BY <3>1, RowsDiffer
    <3>3. /\ mine'[c][TokenRow(j.session)] = j.new
          /\ s # j.session => mine'[c][TokenRow(s)] = mine[c][TokenRow(s)]
      BY <2>1, <3>2 DEF Effect, Same
    <3> QED  BY <1>2, <1>3, <1>4, <2>1, <3>3 DEF TokenDraft
  <2>2. CASE name \notin {"insertSession", "rotateToken"}
    <3>1. mine'[c][TokenRow(s)] = mine[c][TokenRow(s)]  BY <2>2, TokensAreKept
    <3>2. op \in {"create", "refresh"} => n = 2  BY <1>4, <2>2 DEF Names
    <3> QED  BY <1>2, <1>3, <3>1, <3>2 DEF TokenDraft, op
  <2> QED  BY <2>1, <2>2
<1>9. ASSUME NEW s \in Sessions
      PROVE  mine'[c][SessionRow(s)] = SessionDraft(job'[c], n - 1, s)
  <2>1. CASE name \in {"insertSession", "revokeSession"}
    <3>1. j.session \in Sessions
      BY <1>4, <2>1 DEF AnyInv, TodoInv, Fits, op
    <3>2. /\ SessionRow(s) \in Rows /\ SessionRow(s) # TokenRow(j.session)
          /\ s # j.session => SessionRow(s) # SessionRow(j.session)
      BY <3>1, RowsDiffer
    <3>3. /\ mine'[c][SessionRow(j.session)] = IF name = "insertSession" THEN "active" ELSE "revoked"
          /\ s # j.session => mine'[c][SessionRow(s)] = mine[c][SessionRow(s)]
      BY <2>1, <3>2 DEF Effect, Same
    <3> QED  BY <1>2, <1>3, <1>4, <2>1, <3>3 DEF SessionDraft
  <2>2. CASE name = "revokeSessions"
    <3>1. SessionRow(s) \in SessionRows /\ SessionRow(s) \in Rows  BY RowsDiffer DEF SessionRows
    <3>2. mine[c][SessionRow(s)] = Untouched  BY <1>3, <1>4, <2>2 DEF SessionDraft, op
    <3>3. View(c)[SessionRow(s)] = db[SessionRow(s)]  BY <1>5, <3>1, <3>2
    <3>4. mine'[c][SessionRow(s)] = IF db[SessionRow(s)] = "active" THEN "revoked" ELSE Untouched
      BY <2>2, <3>1, <3>2, <3>3 DEF Effect, Same
    <3> QED  BY <1>2, <1>4, <2>2, <3>4 DEF SessionDraft
  <2>3. CASE name \notin {"insertSession", "revokeSession", "revokeSessions"}
    <3>1. mine'[c][SessionRow(s)] = mine[c][SessionRow(s)]  BY <2>3, SessionsAreKept
    <3>2. op \in {"create", "revoke", "revokeAll", "change", "reset"} => n # 1
      BY <1>4, <2>3 DEF Names
    <3>3. n # 0 /\ (n # 1 => n - 1 # 0)  BY <1>1
    <3> QED  BY <1>2, <1>3, <3>1, <3>2, <3>3 DEF SessionDraft, op
  <2> QED  BY <2>1, <2>2, <2>3
<1>10. ASSUME NEW r \in Resets
       PROVE  mine'[c][ResetRow(r)] = ResetDraft(job'[c], n - 1, r)
  <2>. DEFINE x == ResetRow(r)
  <2>1. x \in Rows /\ x \in ResetRows  BY RowsDiffer DEF ResetRows
  <2>2. CASE name = "dropResets"
    <3>1. mine[c][x] = Untouched  BY <1>3, <1>4, <2>2 DEF ResetDraft, op
    <3>2. View(c)[x] = db[x]  BY <1>5, <2>1, <3>1
    <3>3. mine'[c][x] = IF db[x] = "live" THEN None ELSE Untouched
      BY <2>1, <2>2, <3>1, <3>2 DEF Effect, Same
    <3> QED  BY <1>2, <1>4, <2>2, <3>3 DEF ResetDraft
  <2>3. CASE name = "insertReset"
    <3>1. j.new \in Resets  BY <1>4, <2>3 DEF AnyInv, TodoInv, Fits, op
    <3>2. r # j.new => x # ResetRow(j.new)  BY <3>1, RowsDiffer
    <3>3. /\ mine'[c][ResetRow(j.new)] = "live"
          /\ r # j.new => mine'[c][x] = mine[c][x]
      BY <2>1, <2>3, <3>2 DEF Effect, Same
    <3> QED  BY <1>2, <1>3, <1>4, <2>3, <3>3 DEF ResetDraft
  <2>4. CASE name = "consumeReset"
    <3>1. j.old \in Resets  BY <1>4, <2>4 DEF AnyInv, TodoInv, Fits, op
    <3>2. r # j.old => x # ResetRow(j.old)  BY <3>1, RowsDiffer
    <3>3. /\ mine'[c][ResetRow(j.old)] = None
          /\ r # j.old => mine'[c][x] = mine[c][x]
      BY <2>1, <2>4, <3>2 DEF Effect, Same
    <3> QED  BY <1>2, <1>3, <1>4, <2>4, <3>3 DEF ResetDraft
  <2>5. CASE name \notin {"dropResets", "insertReset", "consumeReset"}
    <3>1. mine'[c][x] = mine[c][x]  BY <2>5, ResetsAreKept
    <3>2. /\ op = "createReset" => n = 3
          /\ op = "reset" => n # 4
      BY <1>4, <2>5 DEF Names
    <3>3. n < 5 /\ (n # 4 => n < 4 /\ n - 1 < 4)  BY <1>1
    <3> QED  BY <1>2, <1>3, <3>1, <3>2, <3>3 DEF ResetDraft, op
  <2> QED  BY <2>2, <2>3, <2>4, <2>5
<1>11. Drafted(c)'
  <2>1. mine'[c][UserRow] = UserDraft(job[c], Left(c))'  BY <1>1, <1>6 DEF UserDraft
  <2>2. mine'[c][PasswordRow] = PasswordDraft(job[c], Left(c))'  BY <1>1, <1>7 DEF PasswordDraft
  <2>3. \A s \in Sessions : mine'[c][TokenRow(s)] = TokenDraft(job[c], Left(c), s)'
    BY <1>1, <1>8 DEF TokenDraft
  <2>4. \A s \in Sessions : mine'[c][SessionRow(s)] = SessionDraft(job[c], Left(c), s)'
    BY <1>1, <1>9 DEF SessionDraft
  <2>5. \A r \in Resets : mine'[c][ResetRow(r)] = ResetDraft(job[c], Left(c), r)'
    BY <1>1, <1>10 DEF ResetDraft
  <2> QED  BY <2>1, <2>2, <2>3, <2>4, <2>5 DEF Drafted
<1>12. Saw(c)'
  <2>1. name \in {"checkUser", "findToken", "verify"} => db[UserRow] = "active"
    <3>. SUFFICES ASSUME name \in {"checkUser", "findToken", "verify"}
                 PROVE  db[UserRow] = "active"
      OBVIOUS
    <3>1. mine[c][UserRow] = Untouched  BY <1>3, <1>4 DEF UserDraft, op
    <3>2. View(c)[UserRow] = "active"  BY DEF Effect
    <3> QED  BY <1>5, <3>1, <3>2, RowsDiffer
  <2>2. name = "findToken" => db[SessionRow(job'[c].session)] = "active"
    <3>. SUFFICES ASSUME name = "findToken"
                 PROVE  db[SessionRow(job'[c].session)] = "active"
      OBVIOUS
    <3>1. PICK s \in Sessions :
            View(c)[SessionRow(s)] = "active" /\ job' = [job EXCEPT ![c].session = s]
      BY DEF Effect
    <3>2. job'[c].session = s  BY <3>1 DEF AnyInv, TypesInv, Records
    <3>3. mine[c][SessionRow(s)] = Untouched  BY <1>3, <1>4 DEF SessionDraft, op
    <3> QED  BY <1>5, <3>1, <3>2, <3>3, RowsDiffer
  <2>3. name = "consumeReset" => db[ResetRow(j.old)] = "live"
    <3>. SUFFICES ASSUME name = "consumeReset"
                 PROVE  db[ResetRow(j.old)] = "live"
      OBVIOUS
    <3>1. j.old \in Resets  BY <1>4 DEF AnyInv, TodoInv, Fits, op
    <3>2. mine[c][ResetRow(j.old)] = Untouched  BY <1>3, <1>4, <3>1 DEF ResetDraft, op
    <3>3. View(c)[ResetRow(j.old)] = "live"  BY DEF Effect
    <3> QED  BY <1>5, <3>1, <3>2, <3>3, RowsDiffer
  <2>4. \/ op \in {"create", "refresh"} /\ n - 1 < 2
        \/ op \in {"change", "createReset", "reset"} /\ n - 1 < 3
        => db[UserRow] = "active"
    <3>1. CASE name \in {"checkUser", "findToken", "verify"}  BY <2>1, <3>1
    <3>2. CASE name \notin {"checkUser", "findToken", "verify"}
      <4>1. /\ op \in {"create", "refresh"} => n < 2
            /\ op \in {"change", "createReset"} => n < 3
            /\ op = "reset" => n < 3 \/ n = 4
        BY <1>4, <3>2 DEF Names
      <4> QED  BY <1>1, <4>1 DEF Saw, n, op
    <3> QED  BY <3>1, <3>2
  <2>5. op = "refresh" /\ n - 1 < 2 => db[SessionRow(job'[c].session)] = "active"
    <3>1. CASE name = "findToken"  BY <2>2, <3>1
    <3>2. CASE name # "findToken"
      <4>1. op = "refresh" => n < 2  BY <1>4, <3>2 DEF Names
      <4> QED  BY <1>2, <3>2, <4>1 DEF Saw, n, op
    <3> QED  BY <3>1, <3>2
  <2>6. op = "reset" /\ n - 1 < 4 => db[ResetRow(j.old)] = "live"
    <3>1. CASE name = "consumeReset"  BY <2>3, <3>1
    <3>2. CASE name # "consumeReset"
      <4>1. op = "reset" => n < 4  BY <1>4, <3>2 DEF Names
      <4> QED  BY <4>1 DEF Saw, n, op
    <3> QED  BY <3>1, <3>2
  <2>7. Left(c)' = n - 1  BY <1>1
  <2>. HIDE DEF j
  <2> QED  BY <1>2, <2>4, <2>5, <2>6, <2>7 DEF Saw, n, op, j
<1> QED  BY <1>11, <1>12

LEMMA DraftStays ==
  ASSUME NEW c \in Clients, Drafted(c), Saw(c), db' = db,
         job'[c] = job[c], todo'[c] = todo[c], mine'[c] = mine[c]
  PROVE  Drafted(c)' /\ Saw(c)'
<1>1. Left(c)' = Left(c)  BY DEF Left
<1>2. Drafted(c)'
  BY <1>1 DEF Drafted, UserDraft, PasswordDraft, TokenDraft, SessionDraft, ResetDraft
<1>3. Saw(c)'
  BY <1>1 DEF Saw
<1> QED  BY <1>2, <1>3

LEMMA NextDrafted ==
  ASSUME Serialized, AnyInv, SerialInv, DraftInv, [Next]_vars
  PROVE  DraftInv'
<1>. SUFFICES ASSUME NEW d \in Clients, state'[d] = "open"
             PROVE  Drafted(d)' /\ Saw(d)'
  BY DEF DraftInv
<1>1. state[d] = "open" => Drafted(d) /\ Saw(d)
  BY DEF DraftInv
<1>2. ASSUME NEW c \in Clients, NEW op \in Operations, NEW j \in Jobs(op), Call(c, j)
      PROVE  Drafted(d)' /\ Saw(d)'
  <2>1. d # c /\ state[d] = "open" /\ job'[d] = job[d] /\ UNCHANGED <<db, todo, mine>>
    BY <1>2 DEF Call, AnyInv, TypesInv
  <2> QED  BY <1>1, <2>1, DraftStays
<1>3. ASSUME NEW c \in Clients, Begin(c)
      PROVE  Drafted(d)' /\ Saw(d)'
  <2>1. d = c /\ todo'[c] = Statements(job[c].op) /\ UNCHANGED <<db, job, mine>>
    BY <1>3 DEF Begin, AnyInv, TypesInv
  <2>2. job[c].op \in Operations /\ mine[c] = Nothing
    BY <1>3 DEF Begin, AnyInv, TypesInv, TodoInv, Records
  <2>3. /\ Left(c)' >= 1
        /\ job[c].op \in {"create", "refresh"} => Left(c)' = 2
        /\ job[c].op \in {"change", "createReset"} => Left(c)' = 3
        /\ job[c].op = "reset" => Left(c)' = 4
    <3>. DEFINE N == Len(Statements(job[c].op))
    <3>1. /\ N \in 1..4
          /\ job[c].op \in {"create", "refresh"} => N = 2
          /\ job[c].op \in {"change", "createReset"} => N = 3
          /\ job[c].op = "reset" => N = 4
      BY <2>2, StatementsAre
    <3>2. Left(c)' = N  BY <2>1 DEF Left
    <3>. HIDE DEF N
    <3> QED  BY <3>1, <3>2
  <2>4. \A x \in Rows : mine'[c][x] = Untouched
    BY <2>1, <2>2, NothingIsWritten
  <2>5. Drafted(c)'
    <3>1. mine'[c][UserRow] = UserDraft(job[c], Left(c))'
      BY <2>1, <2>3, <2>4, RowsDiffer DEF UserDraft
    <3>2. mine'[c][PasswordRow] = PasswordDraft(job[c], Left(c))'
      BY <2>1, <2>3, <2>4, RowsDiffer DEF PasswordDraft
    <3>3. \A s \in Sessions : mine'[c][TokenRow(s)] = TokenDraft(job[c], Left(c), s)'
      BY <2>1, <2>3, <2>4, RowsDiffer DEF TokenDraft
    <3>4. \A s \in Sessions : mine'[c][SessionRow(s)] = SessionDraft(job[c], Left(c), s)'
      BY <2>1, <2>3, <2>4, RowsDiffer DEF SessionDraft
    <3>5. \A r \in Resets : mine'[c][ResetRow(r)] = ResetDraft(job[c], Left(c), r)'
      BY <2>1, <2>3, <2>4, RowsDiffer DEF ResetDraft
    <3> QED  BY <3>1, <3>2, <3>3, <3>4, <3>5 DEF Drafted
  <2>6. Saw(c)'
    BY <2>1, <2>3 DEF Saw
  <2> QED  BY <2>1, <2>5, <2>6
<1>4. ASSUME NEW c \in Clients, Execute(c)
      PROVE  Drafted(d)' /\ Saw(d)'
  <2>1. PICK name \in Names : Statement(c, name) /\ Effect(c, name)
    BY <1>4, ExecuteIs
  <2>2. Framed(c)
    BY <1>4, ExecuteIs
  <2>3. db' = db /\ state' = state /\ state[c] = "open"
    BY <2>1 DEF Statement
  <2>4. d = c
    BY ONLY <2>3, SerialInv, c \in Clients, d \in Clients, state'[d] = "open" DEF SerialInv, OneOpen
  <2> QED  BY <1>1, <2>1, <2>2, <2>3, <2>4, StatementKeepsDraft
<1>5. ASSUME NEW c \in Clients, Commit(c)
      PROVE  Drafted(d)' /\ Saw(d)'
  <2>1. state[c] = "open" /\ End(c)  BY <1>5 DEF Commit
  <2>2. state'[c] = "idle" /\ \A e \in Clients \ {c} : state'[e] = state[e]
    BY <2>1, EndKeeps
  <2> QED  BY <2>1, <2>2 DEF SerialInv, OneOpen
<1>6. ASSUME NEW c \in Clients, Abort(c)
      PROVE  Drafted(d)' /\ Saw(d)'
  <2>1. End(c) /\ db' = db  BY <1>6 DEF Abort
  <2>2. /\ d # c /\ state[d] = "open"
        /\ job'[d] = job[d] /\ todo'[d] = todo[d] /\ mine'[d] = mine[d]
    BY <2>1, EndKeeps
  <2> QED  BY <1>1, <2>1, <2>2, DraftStays
<1>7. CASE UNCHANGED vars
  BY <1>1, <1>7, DraftStays DEF vars
<1> QED  BY <1>2, <1>3, <1>4, <1>5, <1>6, <1>7 DEF Next

LEMMA AlwaysDrafted ==
  ASSUME Serialized
  PROVE  Spec => [](AnyInv /\ SerialInv /\ DraftInv)
<1>1. Init => DraftInv
  BY DEF Init, DraftInv
<1> QED  BY <1>1, NextDrafted, AlwaysSerial, PTL DEF Spec

(* Who waits for nothing has no job.                                       *)
IdleInv == \A c \in Clients : job[c].op = "none" => job[c] = NoJob

LEMMA NextIdle ==
  ASSUME AnyInv, IdleInv, [Next]_vars
  PROVE  IdleInv'
<1>. SUFFICES ASSUME NEW d \in Clients, job'[d].op = "none"
             PROVE  job'[d] = NoJob
  BY DEF IdleInv
<1>1. ASSUME NEW c \in Clients, NEW op \in Operations, NEW j \in Jobs(op), Call(c, j)
      PROVE  job'[d] = NoJob
  <2>1. j.op = op /\ op # "none"  BY JobsAre, NothingIsWritten DEF AnyInv
  <2>2. job'[c] = j /\ \A e \in Clients \ {c} : job'[e] = job[e]
    BY <1>1 DEF Call, AnyInv, TypesInv
  <2> QED  BY <2>1, <2>2 DEF IdleInv
<1>2. ASSUME NEW c \in Clients, Execute(c)
      PROVE  job'[d] = NoJob
  <2>1. PICK name \in Names : Statement(c, name) /\ Effect(c, name)
    BY <1>2, ExecuteIs
  <2>2. /\ job'[c].op = job[c].op
        /\ name # "findToken" => job' = job
        /\ \A e \in Clients \ {c} : job'[e] = job[e]
    BY <1>2, <2>1, ExecuteIs, JobIsKept
  <2>3. name = "findToken" => job[c].op = "refresh"
    BY <2>1, PlacesAre
  <2> QED  BY <2>2, <2>3 DEF IdleInv
<1>3. ASSUME NEW c \in Clients, Commit(c) \/ Abort(c)
      PROVE  job'[d] = NoJob
  <2>1. End(c)  BY <1>3 DEF Commit, Abort
  <2>2. job'[c] = NoJob /\ \A e \in Clients \ {c} : job'[e] = job[e]
    BY <2>1, EndKeeps
  <2> QED  BY <2>2 DEF IdleInv
<1>4. ASSUME NEW c \in Clients, Begin(c)
      PROVE  job'[d] = NoJob
  BY <1>4 DEF Begin, IdleInv
<1>5. CASE UNCHANGED vars
  BY <1>5 DEF vars, IdleInv
<1> QED  BY <1>1, <1>2, <1>3, <1>4, <1>5 DEF Next

LEMMA AskedIs ==
  ASSUME NEW c \in Clients, job[c] \in Records
  PROVE  Asked(c) = [op |-> job[c].op, session |-> IF job[c].op = "refresh" THEN None ELSE job[c].session,
                     old |-> job[c].old, new |-> job[c].new]
BY DEF Asked, Records

LEMMA ChoiceIs ==
  ASSUME NEW S, NEW r \in S, \A x \in S : x = r
  PROVE  (CHOOSE x \in S : TRUE) = r
OBVIOUS

LEMMA InitIsService ==
  ASSUME Init
  PROVE  Service!Init
<1>1. /\ db[UserRow] = "active" /\ db[PasswordRow] \in Passwords
      /\ \A x \in Rows \ {UserRow, PasswordRow} : db[x] = None
  BY RowsDiffer DEF Init
<1>2. /\ \A s \in Sessions : db[SessionRow(s)] = None /\ db[TokenRow(s)] = None
      /\ \A r \in Resets : db[ResetRow(r)] = None
  <2>1. \A y : {SessionRow(y), TokenRow(y), ResetRow(y)} \cap {UserRow, PasswordRow} = {}
    BY DEF SessionRow, TokenRow, ResetRow, UserRow, PasswordRow
  <2>2. /\ \A s \in Sessions : {SessionRow(s), TokenRow(s)} \subseteq Rows \ {UserRow, PasswordRow}
        /\ \A r \in Resets : ResetRow(r) \in Rows \ {UserRow, PasswordRow}
    BY <2>1, RowsDiffer
  <2> QED  BY ONLY <1>1, <2>2
<1>3. Pending = None
  BY <1>2, NothingIsWritten DEF Pending, Live
<1>4. \A c \in Clients : Asked(c) = Service!NoCall
  BY NothingIsWritten DEF Init, Asked, NoJob, Service!NoCall
<1> QED  BY <1>1, <1>2, <1>3, <1>4 DEF Init, Service!Init

LEMMA ExecuteStutters ==
  ASSUME AnyInv, NEW c \in Clients, Execute(c)
  PROVE  UNCHANGED Service!vars
<1>1. PICK name \in Names : Statement(c, name) /\ Effect(c, name)
  BY ExecuteIs
<1>2. Framed(c)
  BY ExecuteIs
<1>3. UNCHANGED <<db, handed, spent>>
  BY <1>1 DEF Statement
<1>4. \A d \in Clients : Asked(d)' = Asked(d)
  <2>1. CASE job' = job
    BY <2>1 DEF Asked
  <2>2. ASSUME job[c].op = "refresh", NEW s \in Sessions, job' = [job EXCEPT ![c].session = s]
        PROVE  \A d \in Clients : Asked(d)' = Asked(d)
    <3>1. job \in [Clients -> Records] /\ job[c] \in Records  BY DEF AnyInv, TypesInv
    <3>2. job'[c] = [job[c] EXCEPT !.session = s] /\ \A d \in Clients \ {c} : job'[d] = job[d]
      BY <2>2, <3>1
    <3>3. job'[c].op = "refresh"  BY <2>2, <3>1, <3>2 DEF Records
    <3>4. [job'[c] EXCEPT !.session = None] = [job[c] EXCEPT !.session = None]
      BY <3>1, <3>2 DEF Records
    <3>5. Asked(c)' = Asked(c)  BY <2>2, <3>3, <3>4 DEF Asked
    <3>6. \A d \in Clients \ {c} : Asked(d)' = Asked(d)  BY <3>2 DEF Asked
    <3> QED  BY <3>5, <3>6
  <2> QED  BY <1>2, <2>1, <2>2 DEF Framed
<1>5. Pending' = Pending
  BY <1>3 DEF Pending, Live
<1> QED  BY <1>3, <1>4, <1>5 DEF Service!vars

LEMMA BeginStutters ==
  ASSUME NEW c \in Clients, Begin(c)
  PROVE  UNCHANGED Service!vars
<1>1. UNCHANGED <<db, job, handed, spent>>
  BY DEF Begin
<1> QED  BY <1>1 DEF Service!vars, Pending, Live, Asked

(* What changes for the service when the job of c does.                    *)
LEMMA CallsAre ==
  ASSUME NEW c \in Clients, NEW asked, Asked(c)' = asked,
         \A d \in Clients \ {c} : job'[d] = job[d]
  PROVE  [d \in Clients |-> Asked(d)]' = [[d \in Clients |-> Asked(d)] EXCEPT ![c] = asked]
<1>1. \A d \in Clients \ {c} : Asked(d)' = Asked(d)
  BY DEF Asked
<1> QED  BY <1>1

LEMMA RefusalIs ==
  ASSUME AnyInv, IdleInv, NEW c \in Clients, Abort(c)
  PROVE  Service!Refuse(c)
<1>1. /\ UNCHANGED <<db, handed, spent>> /\ End(c) /\ state[c] \in {"queued", "open"}
  BY DEF Abort
<1>2. job'[c] = NoJob /\ \A d \in Clients \ {c} : job'[d] = job[d]
  BY <1>1, EndKeeps
<1>3. Asked(c)' = Service!NoCall
  BY <1>2 DEF Asked, NoJob, Service!NoCall
<1>4. Asked(c) # Service!NoCall
  <2>1. job[c].op # "none" /\ job[c] \in Records  BY <1>1 DEF AnyInv, TypesInv, TodoInv
  <2>2. Asked(c).op = job[c].op  BY <2>1, AskedIs
  <2> QED  BY <2>1, <2>2 DEF Service!NoCall
<1>5. Pending' = Pending
  BY <1>1 DEF Pending, Live
<1> QED  BY <1>1, <1>2, <1>3, <1>4, <1>5, CallsAre DEF Service!Refuse

LEMMA RequestIs ==
  ASSUME AnyInv, IdleInv, NEW c \in Clients, NEW op \in Operations, NEW j \in Jobs(op), Call(c, j)
  PROVE  Service!Request(c)
<1>1. /\ state[c] = "idle" /\ UNCHANGED <<db, handed, spent>>
      /\ job'[c] = j /\ \A d \in Clients \ {c} : job'[d] = job[d]
  BY DEF Call, AnyInv, TypesInv
<1>2. j \in Records /\ j.op = op /\ Fits(j)
  BY JobsAre DEF AnyInv
<1>3. Asked(c) = Service!NoCall
  <2>1. job[c] = NoJob  BY <1>1 DEF AnyInv, TodoInv, IdleInv
  <2> QED  BY <2>1 DEF Asked, NoJob, Service!NoCall
<1>4. j \in Service!Requests(op)
  <2>. USE DEF Inputs, NoInput, Service!Calls, Service!Requests
  <2>1. \A d \in Clients : /\ Asked(d).new = job[d].new
                           /\ Asked(d).session \in {None, job[d].session}
    BY AskedIs DEF AnyInv, TypesInv
  <2>2. None \notin Sessions /\ None \notin Tokens /\ None \notin Resets
    OBVIOUS
  <2>3. /\ Fresh(Sessions) \subseteq Service!New(Sessions)
        /\ Fresh(Tokens) \subseteq Service!New(Tokens)
        /\ Fresh(Resets) \subseteq Service!New(Resets)
    BY <2>1, <2>2 DEF Fresh, Service!New
  <2>4. CASE op = "create"
    <3>1. j \in CreateJobs  BY <2>4 DEF Jobs
    <3>2. /\ j \in [op : {"create"}, session : {s \in Fresh(Sessions) : db[SessionRow(s)] = None},
                    old : {None}, new : Fresh(Tokens) \cup {None}]
      BY <3>1 DEF CreateJobs
    <3>3. Fresh(Sessions) \subseteq Sessions  BY DEF Fresh
    <3> QED  BY <2>3, <2>4, <3>2, <3>3
  <2>5. CASE op = "refresh"
    <3>1. j \in RefreshJobs  BY <2>5 DEF Jobs
    <3> QED  BY <2>3, <2>5, <3>1 DEF RefreshJobs
  <2>6. CASE op = "revoke"
    <3>1. j \in RevokeJobs  BY <2>6 DEF Jobs
    <3> QED  BY <2>6, <3>1 DEF RevokeJobs
  <2>7. CASE op = "set"
    <3>1. j \in SetJobs  BY <2>7 DEF Jobs
    <3> QED  BY <2>7, <3>1 DEF SetJobs
  <2>8. CASE op = "change"
    <3>1. j \in ChangeJobs  BY <2>8 DEF Jobs
    <3> QED  BY <2>8, <3>1 DEF ChangeJobs
  <2>9. CASE op = "createReset"
    <3>1. j \in CreateResetJobs  BY <2>9 DEF Jobs
    <3> QED  BY <2>3, <2>9, <3>1 DEF CreateResetJobs
  <2>10. CASE op = "reset"
    <3>1. j \in ResetJobs  BY <2>10 DEF Jobs
    <3> QED  BY <2>10, <3>1 DEF ResetJobs
  <2>11. CASE op \notin {"create", "refresh", "revoke", "set", "change", "createReset", "reset"}
    <3>1. j \in Inputs(op, NoInput, NoInput, NoInput)  BY <2>11 DEF Jobs
    <3> QED  BY <2>11, <3>1
  <2> QED  BY <2>4, <2>5, <2>6, <2>7, <2>8, <2>9, <2>10, <2>11
<1>5. Asked(c)' = j
  <2>1. op = "refresh" => j.session = None
    <3>1. op = "refresh" => j \in RefreshJobs  BY DEF Jobs
    <3> QED  BY <3>1 DEF RefreshJobs, Inputs, NoInput
  <2> QED  BY <1>1, <1>2, <2>1 DEF Asked, Records
<1>6. Pending' = Pending
  BY <1>1 DEF Pending, Live
<1> QED  BY <1>1, <1>3, <1>4, <1>5, <1>6, CallsAre DEF Service!Request

(* What a commit makes of each row.                                        *)
LEMMA CommittedRows ==
  ASSUME AnyInv, DraftInv, NEW c \in Clients, Commit(c)
  PROVE  LET j == job[c]
         IN  /\ db'[UserRow] = IF j.op \in {"enable", "disable"}
                               THEN (IF j.op = "enable" THEN "active" ELSE "disabled")
                               ELSE db[UserRow]
             /\ db'[PasswordRow] = IF j.op \in {"set", "change", "reset"} THEN j.new ELSE db[PasswordRow]
             /\ \A s \in Sessions :
                  /\ db'[TokenRow(s)] = IF j.op \in {"create", "refresh"} /\ s = j.session THEN j.new
                                        ELSE db[TokenRow(s)]
                  /\ db'[SessionRow(s)] =
                       IF j.op = "create" /\ s = j.session THEN "active"
                       ELSE IF \/ j.op = "revoke" /\ s = j.session
                               \/ j.op \in {"revokeAll", "change", "reset"} /\ db[SessionRow(s)] = "active"
                            THEN "revoked"
                            ELSE db[SessionRow(s)]
             /\ \A r \in Resets :
                  db'[ResetRow(r)] =
                    IF j.op = "createReset" /\ r = j.new THEN "live"
                    ELSE IF \/ j.op = "createReset" /\ db[ResetRow(r)] = "live"
                            \/ j.op = "reset" /\ r = j.old
                         THEN None
                         ELSE db[ResetRow(r)]
<1>. DEFINE j == job[c]
<1>1. /\ state[c] = "open" /\ Left(c) = 0 /\ Fits(j)
      /\ \A x \in Rows : db'[x] = IF mine[c][x] = Untouched THEN db[x] ELSE mine[c][x]
  BY CommitIs
<1>2. Drafted(c)
  BY <1>1 DEF DraftInv
<1>3. /\ Untouched \notin {"active", "disabled", "revoked", "live", None}
      /\ j.op \in {"set", "change", "reset"} => j.new # Untouched
      /\ j.op \in {"create", "refresh"} => j.new # Untouched
  BY <1>1 DEF Fits, Values, Statuses
<1>. HIDE DEF j
<1>4. /\ mine[c][UserRow] = UserDraft(j, 0) /\ mine[c][PasswordRow] = PasswordDraft(j, 0)
      /\ \A s \in Sessions : /\ mine[c][TokenRow(s)] = TokenDraft(j, 0, s)
                             /\ mine[c][SessionRow(s)] = SessionDraft(j, 0, s)
      /\ \A r \in Resets : mine[c][ResetRow(r)] = ResetDraft(j, 0, r)
  BY <1>1, <1>2 DEF Drafted, j
<1>5. db'[UserRow] = IF j.op \in {"enable", "disable"}
                     THEN (IF j.op = "enable" THEN "active" ELSE "disabled")
                     ELSE db[UserRow]
  BY <1>1, <1>3, <1>4, RowsDiffer DEF UserDraft
<1>6. db'[PasswordRow] = IF j.op \in {"set", "change", "reset"} THEN j.new ELSE db[PasswordRow]
  BY <1>1, <1>3, <1>4, RowsDiffer DEF PasswordDraft
<1>7. ASSUME NEW s \in Sessions
      PROVE  db'[TokenRow(s)] = IF j.op \in {"create", "refresh"} /\ s = j.session THEN j.new
                                ELSE db[TokenRow(s)]
  <2>1. TokenRow(s) \in Rows  BY RowsDiffer
  <2> QED  BY <1>1, <1>3, <1>4, <2>1 DEF TokenDraft
<1>8. ASSUME NEW s \in Sessions
      PROVE  db'[SessionRow(s)] =
               IF j.op = "create" /\ s = j.session THEN "active"
               ELSE IF \/ j.op = "revoke" /\ s = j.session
                       \/ j.op \in {"revokeAll", "change", "reset"} /\ db[SessionRow(s)] = "active"
                    THEN "revoked"
                    ELSE db[SessionRow(s)]
  <2>1. SessionRow(s) \in Rows  BY RowsDiffer
  <2> QED  BY <1>1, <1>3, <1>4, <2>1 DEF SessionDraft
<1>9. ASSUME NEW r \in Resets
      PROVE  db'[ResetRow(r)] =
               IF j.op = "createReset" /\ r = j.new THEN "live"
               ELSE IF \/ j.op = "createReset" /\ db[ResetRow(r)] = "live"
                       \/ j.op = "reset" /\ r = j.old
                    THEN None
                    ELSE db[ResetRow(r)]
  <2>1. ResetRow(r) \in Rows  BY RowsDiffer
  <2> QED  BY <1>1, <1>3, <1>4, <2>1 DEF ResetDraft
<1> QED  BY <1>5, <1>6, <1>7, <1>8, <1>9 DEF j

(* The reset token that is pending.                                        *)
LEMMA PendingIs ==
  ASSUME OneResetToken, NEW r \in Live
  PROVE  Pending = r /\ Live = {r}
<1>1. \A q \in Live : q = r
  <2>. SUFFICES ASSUME NEW q \in Live PROVE q = r
    OBVIOUS
  <2>1. /\ q \in Resets /\ r \in Resets /\ db[ResetRow(q)] = "live" /\ db[ResetRow(r)] = "live"
        /\ ResetRow(q) \in ResetRows /\ ResetRow(r) \in ResetRows
    BY DEF Live, ResetRows
  <2>2. ResetRow(q) = ResetRow(r)  BY <2>1 DEF OneResetToken
  <2> QED  BY <2>1, <2>2, RowsDiffer
<1>2. (CHOOSE q \in Live : TRUE) = r
  BY <1>1, ChoiceIs
<1> QED  BY <1>1, <1>2 DEF Pending

LEMMA CommittedPending ==
  ASSUME AnyInv, SerialInv, DraftInv, NEW c \in Clients, Commit(c)
  PROVE  LET j == job[c]
         IN  /\ j.op = "createReset" => Pending' = j.new
             /\ j.op = "reset" => Pending = j.old /\ Pending' = None
             /\ j.op \notin {"createReset", "reset"} => Pending' = Pending
<1>. DEFINE j == job[c]
<1>1. \A r \in Resets :
        db'[ResetRow(r)] = IF j.op = "createReset" /\ r = j.new THEN "live"
                           ELSE IF \/ j.op = "createReset" /\ db[ResetRow(r)] = "live"
                                   \/ j.op = "reset" /\ r = j.old
                                THEN None
                                ELSE db[ResetRow(r)]
  BY CommittedRows
<1>2. /\ j.op = "createReset" => j.new \in Resets
      /\ j.op = "reset" => j.old \in Resets /\ db[ResetRow(j.old)] = "live"
  BY CommitIs DEF Fits, DraftInv, Saw
<1>3. None # "live" /\ OneResetToken
  BY NothingIsWritten DEF SerialInv
<1>. HIDE DEF j
<1>4. ASSUME j.op = "createReset" PROVE Pending' = j.new
  <2>1. Live' = {j.new}  BY <1>1, <1>2, <1>3, <1>4 DEF Live
  <2>2. (CHOOSE q \in Live' : TRUE) = j.new  BY <2>1
  <2> QED  BY <2>1, <2>2 DEF Pending
<1>5. ASSUME j.op = "reset" PROVE Pending = j.old /\ Pending' = None
  <2>1. j.old \in Live  BY <1>2, <1>5 DEF Live
  <2>2. Pending = j.old /\ Live = {j.old}  BY <1>3, <2>1, PendingIs
  <2>3. Live' = {}  BY <1>1, <1>3, <1>5, <2>2 DEF Live
  <2> QED  BY <2>2, <2>3 DEF Pending
<1>6. ASSUME j.op \notin {"createReset", "reset"} PROVE Pending' = Pending
  <2>1. Live' = Live  BY <1>1, <1>6 DEF Live
  <2> QED  BY <2>1 DEF Pending
<1> QED  BY <1>4, <1>5, <1>6 DEF j

LEMMA AnswerIs ==
  ASSUME AnyInv, SerialInv, DraftInv, NEW c \in Clients, Commit(c)
  PROVE  Service!Answer(c)
<1>. DEFINE j == job[c]
            r == Asked(c)
<1>1. /\ state[c] = "open" /\ Left(c) = 0 /\ j \in Records /\ Fits(j) /\ j.op \in Operations
      /\ handed' = handed \cup IF j.op \in Generators THEN {j.new} \ {None} ELSE {}
      /\ spent' = spent \cup IF j.op \in {"refresh", "reset"} THEN {j.old} ELSE {}
      /\ End(c)
  BY CommitIs
<1>2. /\ r.op = j.op /\ r.old = j.old /\ r.new = j.new
      /\ j.op # "refresh" => r.session = j.session
  BY <1>1, AskedIs
<1>3. /\ db'[UserRow] = IF j.op \in {"enable", "disable"}
                        THEN (IF j.op = "enable" THEN "active" ELSE "disabled")
                        ELSE db[UserRow]
      /\ db'[PasswordRow] = IF j.op \in {"set", "change", "reset"} THEN j.new ELSE db[PasswordRow]
      /\ \A s \in Sessions :
           /\ db'[TokenRow(s)] = IF j.op \in {"create", "refresh"} /\ s = j.session THEN j.new
                                 ELSE db[TokenRow(s)]
           /\ db'[SessionRow(s)] =
                IF j.op = "create" /\ s = j.session THEN "active"
                ELSE IF \/ j.op = "revoke" /\ s = j.session
                        \/ j.op \in {"revokeAll", "change", "reset"} /\ db[SessionRow(s)] = "active"
                     THEN "revoked"
                     ELSE db[SessionRow(s)]
  BY CommittedRows
<1>4. /\ j.op = "createReset" => Pending' = j.new
      /\ j.op = "reset" => Pending = j.old /\ Pending' = None
      /\ j.op \notin {"createReset", "reset"} => Pending' = Pending
  BY CommittedPending
<1>5. /\ j.op \in {"create", "refresh", "change", "createReset", "reset"} => db[UserRow] = "active"
      /\ j.op \in {"create", "refresh", "revoke"} => j.session \in Sessions
      /\ j.op = "create" => db[SessionRow(j.session)] = None
      /\ j.op = "refresh" =>
           db[SessionRow(j.session)] = "active" /\ db[TokenRow(j.session)] = j.old
      /\ j.op = "revoke" => db[SessionRow(j.session)] # None
      /\ j.op = "change" => db[PasswordRow] = j.old
  <2>1. Saw(c)  BY <1>1 DEF DraftInv
  <2>2. /\ j.op \in {"create", "refresh", "change", "createReset", "reset"} => db[UserRow] = "active"
        /\ j.op = "refresh" => db[SessionRow(j.session)] = "active"
    BY <1>1, <2>1 DEF Saw
  <2>3. /\ j.op = "refresh" => db[TokenRow(j.session)] = j.old
        /\ j.op = "revoke" => db[SessionRow(j.session)] # None
        /\ j.op = "change" => db[PasswordRow] = j.old
    BY <1>1 DEF SerialInv, SeenInv
  <2>4. /\ j.op \in {"create", "refresh", "revoke"} => j.session \in Sessions
        /\ j.op = "create" => db[SessionRow(j.session)] = None
    BY <1>1 DEF AnyInv, FoundInv, Fits, SerialInv, SessionInv
  <2> QED  BY <2>2, <2>3, <2>4
<1>. HIDE DEF j, r
<1>6. Service!Perform(r)
  <2>. USE DEF Service!Perform
  <2>. DEFINE sessions == [s \in Sessions |-> db[SessionRow(s)]]
              tokens == [s \in Sessions |-> db[TokenRow(s)]]
  <2>1. ASSUME j.op \notin {"create", "revoke", "revokeAll", "change", "reset"}
        PROVE  sessions' = sessions
    BY <1>3, <2>1
  <2>2. ASSUME j.op \notin {"create", "refresh"}
        PROVE  tokens' = tokens
    BY <1>3, <2>2
  <2>3. ASSUME j.op \in {"revokeAll", "change", "reset"}
        PROVE  Service!RevokeSessions
    BY <1>3, <2>3 DEF Service!RevokeSessions
  <2>4. ASSUME j.op \in {"create", "refresh"}
        PROVE  tokens' = [tokens EXCEPT ![j.session] = j.new]
    BY <1>3, <2>4
  <2>5. ASSUME j.op \in {"create", "revoke"}
        PROVE  sessions' = [sessions EXCEPT ![j.session] = IF j.op = "create" THEN "active" ELSE "revoked"]
    BY <1>3, <2>5
  <2>6. CASE j.op = "create"
    BY <1>2, <1>3, <1>4, <1>5, <2>4, <2>5, <2>6 DEF Service!Create
  <2>7. CASE j.op = "refresh"
    BY <1>2, <1>3, <1>4, <1>5, <2>1, <2>4, <2>7 DEF Service!Refresh
  <2>8. CASE j.op = "revoke"
    BY <1>2, <1>3, <1>4, <1>5, <2>2, <2>5, <2>8 DEF Service!Revoke
  <2>9. CASE j.op = "revokeAll"
    BY <1>2, <1>3, <1>4, <2>2, <2>3, <2>9 DEF Service!RevokeAll
  <2>10. CASE j.op = "set"
    BY <1>2, <1>3, <1>4, <2>1, <2>2, <2>10 DEF Service!SetPassword
  <2>11. CASE j.op = "change"
    BY <1>2, <1>3, <1>4, <1>5, <2>2, <2>3, <2>11 DEF Service!ChangePassword
  <2>12. CASE j.op = "createReset"
    BY <1>2, <1>3, <1>4, <1>5, <2>1, <2>2, <2>12 DEF Service!CreateReset
  <2>13. CASE j.op = "reset"
    BY <1>2, <1>3, <1>4, <1>5, <2>2, <2>3, <2>13 DEF Service!Reset
  <2>14. CASE j.op \in {"enable", "disable"}
    BY <1>2, <1>3, <1>4, <2>1, <2>2, <2>14 DEF Service!SetStatus
  <2> QED  BY <1>1, <2>6, <2>7, <2>8, <2>9, <2>10, <2>11, <2>12, <2>13, <2>14
<1>7. [d \in Clients |-> Asked(d)]' = [[d \in Clients |-> Asked(d)] EXCEPT ![c] = Service!NoCall]
  <2>1. job'[c] = NoJob /\ \A d \in Clients \ {c} : job'[d] = job[d]
    BY <1>1, EndKeeps
  <2>2. Asked(c)' = Service!NoCall
    BY <2>1 DEF Asked, NoJob, Service!NoCall
  <2> QED  BY <2>1, <2>2, CallsAre
<1> QED  BY <1>1, <1>2, <1>6, <1>7 DEF Service!Answer, Generators, r

(* On SQLite every operation on the credentials of a user happens as a     *)
(* whole at one instant between its call and its answer (its COMMIT), in   *)
(* the state that it then finds; one that is refused changes nothing.      *)
THEOREM TransactionsAreOperations ==
  ASSUME Serialized
  PROVE  Spec => ImplementsService
<1>1. AnyInv /\ SerialInv /\ DraftInv /\ IdleInv /\ [Next]_vars => [Service!Next]_(Service!vars)
  <2>. SUFFICES ASSUME AnyInv, SerialInv, DraftInv, IdleInv, [Next]_vars
               PROVE  [Service!Next]_(Service!vars)
    OBVIOUS
  <2>1. ASSUME NEW c \in Clients, NEW op \in Operations, NEW j \in Jobs(op), Call(c, j)
        PROVE  Service!Next
    BY <2>1, RequestIs DEF Service!Next
  <2>2. ASSUME NEW c \in Clients, Begin(c) \/ Execute(c)
        PROVE  UNCHANGED Service!vars
    BY <2>2, BeginStutters, ExecuteStutters
  <2>3. ASSUME NEW c \in Clients, Commit(c) \/ Abort(c)
        PROVE  Service!Next
    BY <2>3, AnswerIs, RefusalIs DEF Service!Next
  <2>4. CASE UNCHANGED vars
    BY <2>4 DEF vars, Service!vars, Pending, Live, Asked
  <2> QED  BY <2>1, <2>2, <2>3, <2>4 DEF Next
<1>2. Init => IdleInv
  BY DEF Init, IdleInv
<1>3. AnyInv /\ IdleInv /\ [Next]_vars => IdleInv'
  BY NextIdle
<1>4. Init => Service!Init
  BY InitIsService
<1> QED  BY <1>1, <1>2, <1>3, <1>4, AlwaysDrafted, PTL DEF Spec, ImplementsService, Service!Spec
=============================================================================
