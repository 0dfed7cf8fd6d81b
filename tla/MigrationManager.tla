---------------------------- MODULE MigrationManager ----------------------------
(***************************************************************************)
(* MigrationManager and MigrationRegistry of packages/migrations/src: run, *)
(* rollback and refresh under the lease, one await per step, by several    *)
(* processes that share the database and the migrations directory.         *)
(*                                                                         *)
(* A migration is its number in file order (readdir sorts), so a list of   *)
(* migrations still to run is a set taken from its least element, and a    *)
(* list still to roll back a set taken from its greatest.                  *)
(***************************************************************************)
EXTENDS MigrationLock, FiniteSets, FiniteSetsExt

CONSTANTS
  Migrations,      \* the migrations ever written, numbered in file order
  MaxGone,         \* bound: files that are taken away, each of them once
  MaxFaults,       \* bound: crashes and failing statements, all together
  WorkFitsLease    \* TRUE: no live process outlasts the lease it works under

ASSUME ManagerAssumption ==
  /\ Migrations \subseteq Nat \ {0}
  /\ IsFiniteSet(Migrations)
  /\ MaxGone \in Nat
  /\ MaxFaults \in Nat
  /\ WorkFitsLease \in BOOLEAN

VARIABLES
  pc,      \* pc[m]: the await that m's operation stands at
  op,      \* op[m]: the operation that m executes, or "none"
  todo,    \* todo[m]: the migrations m has still to run or to roll back
  batch,   \* batch[m]: the batch number m works with; 0 stands for undefined
  rows,    \* table migrations
  schema,  \* the migrations whose changes are in the database
  files,   \* the migrations directory
  gone,    \* history: the migrations whose files were ever taken away
  faults   \* crashes and failures so far

workVars == <<pc, op, todo, batch>>
dataVars == <<rows, schema>>
vars == <<lockVars, workVars, dataVars, files, gone, faults>>

Operations == {"run", "rollback", "refresh"}
UpSteps == {"findToRun", "next", "up", "add"}
DownSteps == {"last", "findToRollback", "down", "remove"}
Working == UpSteps \cup DownSteps \cup {"release"}

-----------------------------------------------------------------------------
(* MigrationRegistry                                                       *)
Names(rs) == {r.name : r \in rs}
Last == IF rows = {} THEN 0 ELSE Max({r.batch : r \in rows})
NextId == IF rows = {} THEN 1 ELSE Max({r.id : r \in rows}) + 1
(* Mutant: DELETE ... WHERE name = ? AND batch = the last one.             *)
RemoveFromLast(k) == {r \in rows : r.name # k \/ r.batch # Last}

Add(k, b) == rows \cup {[id |-> NextId, name |-> k, batch |-> b]}
Remove(k) == {r \in rows : r.name # k}
GetBatch(b) == {r \in rows : r.batch = b}

Init ==
  /\ LockInit
  /\ pc = [m \in Managers |-> "idle"]
  /\ op = [m \in Managers |-> "none"]
  /\ todo = [m \in Managers |-> {}]
  /\ batch = [m \in Managers |-> 0]
  /\ rows = {}
  /\ schema = {}
  /\ files \in SUBSET Migrations
  /\ gone = {}
  /\ faults = 0

-----------------------------------------------------------------------------
Goto(m, label) == pc' = [pc EXCEPT ![m] = label]

(* The operation has settled, or died with its process: its locals are     *)
(* gone.                                                                   *)
Settle(m, label) ==
  /\ Goto(m, label)
  /\ op' = [op EXCEPT ![m] = "none"]
  /\ todo' = [todo EXCEPT ![m] = {}]
  /\ batch' = [batch EXCEPT ![m] = 0]

Fault ==
  /\ faults < MaxFaults
  /\ faults' = faults + 1

(* run(), rollback() and refresh() enter withLock: initialize() only       *)
(* creates the lock table, then acquire() is called.                       *)
Begin(m, o) ==
  /\ pc[m] = "idle"
  /\ ReadClock(m)
  /\ op' = [op EXCEPT ![m] = o]
  /\ Goto(m, "acquire")
  /\ UNCHANGED <<todo, batch, dataVars, files, gone, faults>>

FirstStep(o) ==
  CASE o = "run" -> "findToRun"
    [] o = "rollback" -> "last"
    [] o = "refresh" -> "findToRollback"

GetLock(m) ==
  /\ pc[m] = "acquire"
  /\ Acquire(m)
  /\ Goto(m, FirstStep(op[m]))
  /\ UNCHANGED <<op, todo, batch, dataVars, files, gone, faults>>

(* acquire() throws outside the try block: nothing is released.            *)
MissLock(m) ==
  /\ pc[m] = "acquire"
  /\ AcquireRefused(m)
  /\ \/ ~CanAcquire(m) /\ UNCHANGED faults
     \/ Fault
  /\ Settle(m, "idle")
  /\ UNCHANGED <<dataVars, files, gone>>

(* Mutant: the registry is not consulted.                                  *)
FindEveryFile(m) ==
  /\ pc[m] = "findToRun"
  /\ todo' = [todo EXCEPT ![m] = files]
  /\ IF op[m] = "run"
       THEN Goto(m, "next") /\ UNCHANGED batch
       ELSE Goto(m, "up") /\ batch' = [batch EXCEPT ![m] = 1]
  /\ UNCHANGED <<lockVars, op, dataVars, files, gone, faults>>

(* findMigrationsToRun(); run() reads the batch number after it, and       *)
(* refresh() leaves runMigrations' default of 1.                           *)
FindToRun(m) ==
  /\ pc[m] = "findToRun"
  /\ todo' = [todo EXCEPT ![m] = files \ Names(rows)]
  /\ IF op[m] = "run"
       THEN Goto(m, "next") /\ UNCHANGED batch
       ELSE Goto(m, "up") /\ batch' = [batch EXCEPT ![m] = 1]
  /\ UNCHANGED <<lockVars, op, dataVars, files, gone, faults>>

ReadNextBatch(m) ==
  /\ pc[m] = "next"
  /\ batch' = [batch EXCEPT ![m] = Last + 1]
  /\ Goto(m, "up")
  /\ UNCHANGED <<lockVars, op, todo, dataVars, files, gone, faults>>

(* migration.up() is the application's: it may fail having done its work   *)
(* or not, and it may succeed or fail where the work is already in place.  *)
Up(m) ==
  /\ pc[m] = "up" /\ todo[m] # {}
  /\ \/ /\ schema' = schema \cup {Min(todo[m])}
        /\ Goto(m, "add")
        /\ UNCHANGED faults
     \/ /\ schema' \in {schema, schema \cup {Min(todo[m])}}
        /\ Fault
        /\ Goto(m, "release")
  /\ UNCHANGED <<lockVars, op, todo, batch, rows, files, gone>>

AddRow(m) ==
  /\ pc[m] = "add"
  /\ \/ /\ rows' = Add(Min(todo[m]), batch[m])
        /\ todo' = [todo EXCEPT ![m] = @ \ {Min(@)}]
        /\ Goto(m, "up")
        /\ UNCHANGED faults
     \/ /\ Fault
        /\ Goto(m, "release")
        /\ UNCHANGED <<rows, todo>>
  /\ UNCHANGED <<lockVars, op, batch, schema, files, gone>>

(* The list is used up: the operation resolves with true.                  *)
UpDone(m) ==
  /\ pc[m] = "up" /\ todo[m] = {}
  /\ Goto(m, "release")
  /\ UNCHANGED <<lockVars, op, todo, batch, dataVars, files, gone, faults>>

ReadLastBatch(m) ==
  /\ pc[m] = "last"
  /\ batch' = [batch EXCEPT ![m] = Last]
  /\ Goto(m, "findToRollback")
  /\ UNCHANGED <<lockVars, op, todo, dataVars, files, gone, faults>>

(* Mutant: rollback() does not pass its batch on.                          *)
FindEveryRow(m) ==
  /\ pc[m] = "findToRollback"
  /\ todo' = [todo EXCEPT ![m] = files \cap Names(rows)]
  /\ Goto(m, "down")
  /\ UNCHANGED <<lockVars, op, batch, dataVars, files, gone, faults>>

(* findMigrationsToRollback(batch): refresh() passes no number; the 0 that *)
(* rollback() reads from an empty table is falsy, and selects every row as *)
(* an absent number does.                                                  *)
FindToRollback(m) ==
  /\ pc[m] = "findToRollback"
  /\ LET applied == IF batch[m] = 0 THEN rows ELSE GetBatch(batch[m])
     IN  todo' = [todo EXCEPT ![m] = files \cap Names(applied)]
  /\ Goto(m, "down")
  /\ UNCHANGED <<lockVars, op, batch, dataVars, files, gone, faults>>

(* Mutant: refresh() does not look at the result of its rollback.          *)
DownUnheeded(m) ==
  /\ pc[m] = "down" /\ todo[m] # {}
  /\ \/ /\ schema' = schema \ {Max(todo[m])}
        /\ Goto(m, "remove")
        /\ UNCHANGED faults
     \/ /\ schema' \in {schema, schema \ {Max(todo[m])}}
        /\ Fault
        /\ Goto(m, IF op[m] = "refresh" THEN "findToRun" ELSE "release")
  /\ UNCHANGED <<lockVars, op, todo, batch, rows, files, gone>>

Down(m) ==
  /\ pc[m] = "down" /\ todo[m] # {}
  /\ \/ /\ schema' = schema \ {Max(todo[m])}
        /\ Goto(m, "remove")
        /\ UNCHANGED faults
     \/ /\ schema' \in {schema, schema \ {Max(todo[m])}}
        /\ Fault
        /\ Goto(m, "release")
  /\ UNCHANGED <<lockVars, op, todo, batch, rows, files, gone>>

RemoveRow(m) ==
  /\ pc[m] = "remove"
  /\ \/ /\ rows' = Remove(Max(todo[m]))
        /\ todo' = [todo EXCEPT ![m] = @ \ {Max(@)}]
        /\ Goto(m, "down")
        /\ UNCHANGED faults
     \/ /\ Fault
        /\ Goto(m, "release")
        /\ UNCHANGED <<rows, todo>>
  /\ UNCHANGED <<lockVars, op, batch, schema, files, gone>>

(* rollback() is finished; refresh() goes on to its second half.           *)
DownDone(m) ==
  /\ pc[m] = "down" /\ todo[m] = {}
  /\ Goto(m, IF op[m] = "refresh" THEN "findToRun" ELSE "release")
  /\ UNCHANGED <<lockVars, op, todo, batch, dataVars, files, gone, faults>>

(* A query of the registry, or reading the directory, throws.              *)
ReadFails(m) ==
  /\ pc[m] \in {"findToRun", "next", "last", "findToRollback"}
  /\ Fault
  /\ Goto(m, "release")
  /\ UNCHANGED <<lockVars, op, todo, batch, dataVars, files, gone>>

(* The finally block.  When the DELETE fails the caller gets that error    *)
(* and the row outlives the operation.                                     *)
Finally(m) ==
  /\ pc[m] = "release"
  /\ \/ Release(m) /\ UNCHANGED faults
     \/ Abandon(m) /\ Fault
  /\ Settle(m, "idle")
  /\ UNCHANGED <<dataVars, files, gone>>

-----------------------------------------------------------------------------
(* The process of an operation dies; its lock row stays.                   *)
Crash(m) ==
  /\ pc[m] \in Working \cup {"acquire"}
  /\ Abandon(m)
  /\ Fault
  /\ Settle(m, "dead")
  /\ UNCHANGED <<dataVars, files, gone>>

(* A deployment adds a migration file, not always the last in file order   *)
Deploy(k) ==
  /\ k \notin files
  /\ files' = files \cup {k}
  /\ UNCHANGED <<lockVars, workVars, dataVars, gone, faults>>

(* ... or takes one away, applied or not: status() calls it missing.       *)
Withdraw(k) ==
  /\ k \in files \ gone
  /\ Cardinality(gone) < MaxGone
  /\ files' = files \ {k}
  /\ gone' = gone \cup {k}
  /\ UNCHANGED <<lockVars, workVars, dataVars, faults>>

(* Under WorkFitsLease time does not reach the end of a lease that a live  *)
(* process holds, or that its pending acquire() would be given.            *)
Clock ==
  /\ Tick
  /\ WorkFitsLease =>
       \A m \in Managers :
         /\ lease[m] # NoTime => now' < lease[m]
         /\ stamp[m] # NoTime => now' < stamp[m] + LeaseMs
  /\ UNCHANGED <<workVars, dataVars, files, gone, faults>>

Operate(m) ==
  \/ \E o \in Operations : Begin(m, o)
  \/ GetLock(m) \/ MissLock(m)
  \/ FindToRun(m) \/ ReadNextBatch(m) \/ Up(m) \/ AddRow(m) \/ UpDone(m)
  \/ ReadLastBatch(m) \/ FindToRollback(m) \/ Down(m) \/ RemoveRow(m) \/ DownDone(m)
  \/ ReadFails(m) \/ Finally(m)

Next ==
  \/ \E m \in Managers : Operate(m) \/ Crash(m)
  \/ \E k \in Migrations : Deploy(k) \/ Withdraw(k)
  \/ Clock

Spec == Init /\ [][Next]_vars

-----------------------------------------------------------------------------
TypeOK ==
  /\ LockTypeOK
  /\ pc \in [Managers -> Working \cup {"idle", "acquire", "dead"}]
  /\ op \in [Managers -> Operations \cup {"none"}]
  /\ todo \in [Managers -> SUBSET Migrations]
  /\ batch \in [Managers -> Nat]
  /\ rows \subseteq [id : Nat, name : Migrations, batch : Nat]
  /\ schema \subseteq Migrations
  /\ files \subseteq Migrations /\ gone \subseteq Migrations
  /\ faults \in 0..MaxFaults

(* While every operation fits its lease, at most one live process is       *)
(* between acquire() and the end of release(): withLock serializes run,    *)
(* rollback and refresh, crashed holders and takeovers included.           *)
OneWorker ==
  \A m1, m2 \in Managers :
    pc[m1] \in Working /\ pc[m2] \in Working => m1 = m2

(* A migration has at most one row in the registry although the table has  *)
(* no unique index on name: findMigrationsToRun and add are not atomic.    *)
RecordedOnce ==
  \A r1, r2 \in rows : r1.name = r2.name => r1 = r2

(* The migration whose schema change m has made and not yet recorded.      *)
InFlight(m) ==
  CASE pc[m] = "add" -> {Min(todo[m])}
    [] pc[m] = "remove" -> {Max(todo[m])}
    [] OTHER -> {}

Unrecorded == (schema \ Names(rows)) \cup (Names(rows) \ schema)

(* Registry and schema disagree on no more migrations than crashes and     *)
(* failures explain: an operation that nothing interrupts leaves each      *)
(* migration applied and recorded, or neither, and one interruption        *)
(* separates at most one migration from its row.                           *)
OneTearPerFault ==
  Cardinality(Unrecorded \ UNION {InFlight(m) : m \in Managers}) <= faults

(* Batch numbers never decrease along the table, through run, rollback,    *)
(* refresh and files deployed out of order: the greatest number, which     *)
(* rollback() undoes, is that of the rows written last.  A row whose file  *)
(* was taken away is exempt: refresh() leaves it, with its high number,    *)
(* and numbers everything else 1.                                          *)
BatchesInOrder ==
  \A r1, r2 \in {r \in rows : r.name \notin gone} :
    r1.id < r2.id => r1.batch <= r2.batch

(* rollback() takes away rows of the newest batch only.                    *)
RollbackRemovesNewestBatch ==
  [][\A r \in rows \ rows' :
       \A m \in Managers : pc[m] = "remove" /\ op[m] = "rollback" => r.batch = Last]_vars
=============================================================================
