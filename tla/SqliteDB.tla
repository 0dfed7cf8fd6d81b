------------------------------- MODULE SqliteDB -------------------------------
(***************************************************************************)
(* SQLiteDB of packages/db/src/sqlite-db.ts: one connection, a queue made  *)
(* of chained promises, and transactions that keep their place in it from  *)
(* BEGIN to COMMIT or ROLLBACK.                                            *)
(*                                                                         *)
(* Statements are abstracted to the values they write: a value is the call *)
(* and the number of the statement in it.  `this.queue.then(...)` is a     *)
(* ticket: a call runs when every call before it has settled.              *)
(***************************************************************************)
EXTENDS Naturals

CONSTANTS
  Calls,           \* the promises that callers create, one per call
  MaxStatements,   \* bound: writes inside one transaction callback
  Outsider         \* the value another process may commit to the same file

ASSUME CallsAssumption ==
  /\ MaxStatements \in Nat \ {0}
  /\ Outsider \notin Calls \X (1..MaxStatements)

VARIABLES
  kind,      \* kind[c]: the method that was called, or "none"
  status,    \* status[c]: how far the call has come
  ticket,    \* ticket[c]: its place in the queue, or 0
  tail,      \* the tickets given out: this.queue
  serving,   \* the ticket whose operation may run
  awaits,    \* awaits[c]: the call its callback awaits on the outer db, or c
  handle,    \* "open" or "closed": the sqlite3 handle
  open,      \* a transaction is active on the connection
  reserved,  \* the connection holds the file's write lock
  draft,     \* the writes of the active transaction
  store,     \* the committed values
  saw,       \* saw[c]: the committed values when c's work began
  wrote      \* wrote[c]: the writes that succeeded for c's work

queueVars == <<ticket, tail, serving>>
connVars == <<handle, open, reserved, draft, store>>
vars == <<kind, status, queueVars, awaits, connVars, saw, wrote>>

Kinds == {"statement", "transaction", "close"}
Values == (Calls \X (1..MaxStatements)) \cup {Outsider}
InTransaction == {"body", "rollback"}
Settled(c) == status[c] \in {"resolved", "rejected"}

Init ==
  /\ kind = [c \in Calls |-> "none"]
  /\ status = [c \in Calls |-> "new"]
  /\ ticket = [c \in Calls |-> 0]
  /\ tail = 0
  /\ serving = 1
  /\ awaits = [c \in Calls |-> c]
  (* The constructor only logs that the file cannot be opened.             *)
  /\ handle \in {"open", "closed"}
  /\ open = FALSE
  /\ reserved = FALSE
  /\ draft = {}
  /\ store = {}
  /\ saw = [c \in Calls |-> {}]
  /\ wrote = [c \in Calls |-> {}]

-----------------------------------------------------------------------------
(* enqueue(): chain the operation to the tail of the queue.                *)
Enqueue(c, k) ==
  /\ status[c] = "new"
  /\ kind' = [kind EXCEPT ![c] = k]
  /\ ticket' = [ticket EXCEPT ![c] = tail + 1]
  /\ tail' = tail + 1

Call(c, k) ==
  /\ Enqueue(c, k)
  /\ status' = [status EXCEPT ![c] = "queued"]
  /\ UNCHANGED <<serving, awaits, connVars, saw, wrote>>

(* Mutant: the operation starts without waiting for the queue.             *)
TurnAtOnce(c, k) ==
  /\ status[c] = "queued"
  /\ kind[c] = k

Turn(c, k) ==
  /\ status[c] = "queued"
  /\ kind[c] = k
  /\ ticket[c] = serving

(* Mutant: this.queue = result, without a handler for its rejection.       *)
SettleOrStop(c, how) ==
  /\ status' = [status EXCEPT ![c] = how]
  /\ serving' = IF how = "resolved" THEN serving + 1 ELSE serving
  /\ UNCHANGED <<kind, ticket, tail, awaits>>

(* The result settles either way, and the next operation of the chain      *)
(* starts either way.                                                      *)
Settle(c, how) ==
  /\ status' = [status EXCEPT ![c] = how]
  /\ serving' = serving + 1
  /\ UNCHANGED <<kind, ticket, tail, awaits>>

(* runRaw of a write: SQLite commits it at once unless a transaction is    *)
(* active on the connection.                                               *)
Write(v) ==
  /\ handle = "open"
  /\ IF open
       THEN draft' = draft \cup {v} /\ UNCHANGED store
       ELSE store' = store \cup {v} /\ UNCHANGED draft
  /\ UNCHANGED <<handle, open, reserved>>

(* get(), all() or run() outside a transaction; the statement may read,    *)
(* write or fail, and always fails on a closed handle.                     *)
RunStatement(c) ==
  /\ Turn(c, "statement")
  /\ \/ /\ Write(<<c, 1>>)
        /\ saw' = [saw EXCEPT ![c] = store]
        /\ wrote' = [wrote EXCEPT ![c] = {<<c, 1>>}]
        /\ Settle(c, "resolved")
     \/ /\ handle = "open"
        /\ saw' = [saw EXCEPT ![c] = store]
        /\ Settle(c, "resolved")
        /\ UNCHANGED <<connVars, wrote>>
     \/ /\ Settle(c, "rejected")
        /\ UNCHANGED <<connVars, saw, wrote>>

(* Mutant: BEGIN without IMMEDIATE.                                        *)
BeginDeferred(c) ==
  /\ Turn(c, "transaction")
  /\ \/ /\ handle = "open" /\ ~open
        /\ open' = TRUE
        /\ saw' = [saw EXCEPT ![c] = store]
        /\ status' = [status EXCEPT ![c] = "body"]
        /\ UNCHANGED <<kind, queueVars, awaits, handle, reserved, draft, store, wrote>>
     \/ /\ Settle(c, "rejected")
        /\ UNCHANGED <<connVars, saw, wrote>>

(* BEGIN IMMEDIATE takes the write lock before the callback reads.  It     *)
(* fails when the handle is closed, another process holds the lock, or a   *)
(* transaction is active; nothing is rolled back then.                     *)
Begin(c) ==
  /\ Turn(c, "transaction")
  /\ \/ /\ handle = "open" /\ ~open
        /\ open' = TRUE
        /\ reserved' = TRUE
        /\ saw' = [saw EXCEPT ![c] = store]
        /\ status' = [status EXCEPT ![c] = "body"]
        /\ UNCHANGED <<kind, queueVars, awaits, handle, draft, store, wrote>>
     \/ /\ Settle(c, "rejected")
        /\ UNCHANGED <<connVars, saw, wrote>>

(* The callback is running, and awaits nothing outside its transaction.    *)
InBody(c) ==
  /\ status[c] = "body"
  /\ awaits[c] = c \/ Settled(awaits[c])

(* A statement of the transaction session bypasses the queue.              *)
SessionWrite(c, i) ==
  /\ InBody(c)
  /\ \A j \in 1..MaxStatements : <<c, j>> \in wrote[c] <=> j < i
  /\ Write(<<c, i>>)
  /\ wrote' = [wrote EXCEPT ![c] = @ \cup {<<c, i>>}]
  /\ UNCHANGED <<kind, status, queueVars, awaits, saw>>

(* The callback throws: of its own accord, or because a statement failed.  *)
(* Some failures end the transaction by themselves.                        *)
AutoRollback ==
  /\ open' = FALSE
  /\ reserved' = FALSE
  /\ draft' = {}
  /\ UNCHANGED <<handle, store>>

Throw(c) ==
  /\ InBody(c)
  /\ status' = [status EXCEPT ![c] = "rollback"]
  /\ UNCHANGED connVars \/ AutoRollback
  /\ UNCHANGED <<kind, queueVars, awaits, saw, wrote>>

(* The callback awaits a call on the outer db, against the contract.       *)
OuterCall(c, d, k) ==
  /\ InBody(c) /\ awaits[c] = c
  /\ Enqueue(d, k)
  /\ status' = [status EXCEPT ![d] = "queued"]
  /\ awaits' = [awaits EXCEPT ![c] = d]
  /\ UNCHANGED <<serving, connVars, saw, wrote>>

(* COMMIT succeeds, or fails with the transaction still active, or fails   *)
(* and ends it.                                                            *)
Commit(c) ==
  /\ InBody(c)
  /\ \/ /\ open
        /\ store' = store \cup draft
        /\ draft' = {}
        /\ open' = FALSE
        /\ reserved' = FALSE
        /\ Settle(c, "resolved")
        /\ UNCHANGED <<handle, saw, wrote>>
     \/ /\ status' = [status EXCEPT ![c] = "rollback"]
        /\ UNCHANGED connVars \/ AutoRollback
        /\ UNCHANGED <<kind, queueVars, awaits, saw, wrote>>

(* Mutant: the error is passed on without ROLLBACK.                        *)
PassErrorOn(c) ==
  /\ status[c] = "rollback"
  /\ Settle(c, "rejected")
  /\ UNCHANGED <<connVars, saw, wrote>>

(* ROLLBACK fails when no transaction is active any more; the caller gets  *)
(* one error or the other.                                                 *)
Rollback(c) ==
  /\ status[c] = "rollback"
  /\ AutoRollback
  /\ Settle(c, "rejected")
  /\ UNCHANGED <<saw, wrote>>

(* close() waits its turn like any operation.                              *)
Close(c) ==
  /\ Turn(c, "close")
  /\ \/ /\ handle = "open"
        /\ handle' = "closed"
        /\ saw' = [saw EXCEPT ![c] = store]
        /\ Settle(c, "resolved")
        /\ UNCHANGED <<open, reserved, draft, store, wrote>>
     \/ /\ Settle(c, "rejected")
        /\ UNCHANGED <<connVars, saw, wrote>>

-----------------------------------------------------------------------------
(* Another process commits while the write lock is free.                   *)
OutsideCommit ==
  /\ ~reserved
  /\ Outsider \notin store
  /\ store' = store \cup {Outsider}
  /\ UNCHANGED <<kind, status, queueVars, awaits, handle, open, reserved, draft, saw, wrote>>

Progress(c) ==
  \/ RunStatement(c) \/ Begin(c) \/ Throw(c) \/ Commit(c) \/ Rollback(c) \/ Close(c)

Next ==
  \/ \E c \in Calls, k \in Kinds : Call(c, k)
  \/ \E c \in Calls : Progress(c)
  \/ \E c \in Calls, i \in 1..MaxStatements : SessionWrite(c, i)
  \/ \E c, d \in Calls, k \in Kinds : OuterCall(c, d, k)
  \/ OutsideCommit

(* SQLite answers every statement and every callback ends.                 *)
Fairness == \A c \in Calls : WF_vars(Progress(c))

Spec == Init /\ [][Next]_vars
FairSpec == Spec /\ Fairness

-----------------------------------------------------------------------------
TypeOK ==
  /\ kind \in [Calls -> Kinds \cup {"none"}]
  /\ status \in [Calls -> {"new", "queued", "body", "rollback", "resolved", "rejected"}]
  /\ ticket \in [Calls -> Nat]
  /\ tail \in Nat /\ serving \in Nat
  /\ awaits \in [Calls -> Calls]
  /\ handle \in {"open", "closed"}
  /\ open \in BOOLEAN /\ reserved \in BOOLEAN
  /\ draft \subseteq Values /\ store \subseteq Values
  /\ saw \in [Calls -> SUBSET Values]
  /\ wrote \in [Calls -> SUBSET Values]

(* Calls settle in the order in which they were made, whatever fails and   *)
(* whatever their callbacks do: in particular every call made before       *)
(* close() is answered before the handle goes away.                        *)
SettleInOrder ==
  \A c, d \in Calls :
    0 < ticket[c] /\ ticket[c] < ticket[d] /\ Settled(d) => Settled(c)

(* A transaction is active on the connection, or its file lock held, only  *)
(* between the BEGIN and the end of a call that is still under way: no     *)
(* path through failed statements, COMMITs and ROLLBACKs leaks one into    *)
(* the next caller's statements.                                           *)
NoLeakedTransaction ==
  open \/ reserved \/ draft # {} => \E c \in Calls : status[c] \in InTransaction

(* The contract of the Database interface: each call is atomic, and what   *)
(* it worked on is what its writes are added to.                           *)
Contract ==
  INSTANCE SerialDatabase WITH
    outcome <- [c \in Calls |-> IF Settled(c) THEN status[c] ELSE "pending"],
    saw <- [c \in Calls |-> IF status[c] = "resolved" THEN saw[c] ELSE {}],
    wrote <- [c \in Calls |-> IF status[c] = "resolved" THEN wrote[c] ELSE {}]

ImplementsContract == Contract!Spec

(* A callback waits for a call that is behind its own transaction.         *)
SelfBlocked ==
  \E c \in Calls : status[c] = "body" /\ awaits[c] # c /\ ~Settled(awaits[c])

(* Every call is answered, unless some callback awaits the outer database. *)
EveryCallSettles ==
  \A c \in Calls : status[c] = "queued" ~> Settled(c) \/ SelfBlocked
=============================================================================
