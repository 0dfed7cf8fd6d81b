----------------------------- MODULE MigrationLock -----------------------------
(***************************************************************************)
(* The database lease of packages/migrations/src/migration-lock.ts: one    *)
(* row (id = 1) of table migration_locks names the owner and the time its  *)
(* lease ends.  Each manager stands for one MigrationLock instance, hence  *)
(* for one owner UUID; a process that crashes and starts again is another  *)
(* manager.  All processes read one clock: skew between hosts is left out. *)
(***************************************************************************)
EXTENDS Naturals

CONSTANTS
  Managers,   \* the MigrationLock instances, one per MigrationManager
  NoOwner,    \* "the lock table has no row"
  LeaseMs,    \* how long an acquired row keeps others out
  MaxTime     \* bound: the clock stops here

ASSUME LeaseAssumption ==
  /\ NoOwner \notin Managers
  /\ LeaseMs \in Nat \ {0}
  /\ MaxTime \in Nat \ {0}

VARIABLES
  now,     \* the wall clock; it starts at 1, so that 0 can say "no time"
  row,     \* row 1 of migration_locks
  stamp,   \* stamp[m]: the `now` that m's pending acquire() works with, or 0
  lease    \* lease[m]: the end of the lease m got and has not given up, or 0

lockVars == <<now, row, stamp, lease>>

NoTime == 0
EmptyRow == [owner |-> NoOwner, expires |-> NoTime]

LockInit ==
  /\ now = 1
  /\ row = EmptyRow
  /\ stamp = [m \in Managers |-> NoTime]
  /\ lease = [m \in Managers |-> NoTime]

-----------------------------------------------------------------------------
(* acquire() evaluates `now = new Date()` when it is called ...            *)
ReadClock(m) ==
  /\ stamp[m] = NoTime /\ lease[m] = NoTime
  /\ stamp' = [stamp EXCEPT ![m] = now]
  /\ UNCHANGED <<now, row, lease>>

(* Mutants: the lease is compared one tick early; it is not compared.      *)
CanAcquireEarly(m) == row = EmptyRow \/ row.expires <= stamp[m] + 1
CanAcquireAlways(m) == stamp[m] # NoTime

(* ... and the upsert compares the row with that date, however late it     *)
(* reaches the database.                                                   *)
CanAcquire(m) == row = EmptyRow \/ row.expires <= stamp[m]

Acquire(m) ==
  /\ stamp[m] # NoTime
  /\ CanAcquire(m)
  /\ row' = [owner |-> m, expires |-> stamp[m] + LeaseMs]
  /\ lease' = [lease EXCEPT ![m] = stamp[m] + LeaseMs]
  /\ stamp' = [stamp EXCEPT ![m] = NoTime]
  /\ UNCHANGED now

(* The upsert returned no row: MigrationLockedError.  The same step stands *)
(* for an acquire() whose statement failed.                                *)
AcquireRefused(m) ==
  /\ stamp[m] # NoTime
  /\ stamp' = [stamp EXCEPT ![m] = NoTime]
  /\ UNCHANGED <<now, row, lease>>

(* DELETE ... WHERE id = 1 AND owner = me.                                 *)
Release(m) ==
  /\ lease[m] # NoTime
  /\ row' = IF row.owner = m THEN EmptyRow ELSE row
  /\ lease' = [lease EXCEPT ![m] = NoTime]
  /\ UNCHANGED <<now, stamp>>

(* The process dies, or its DELETE fails: nobody holds the lease any more, *)
(* and the row stays until it expires.                                     *)
Abandon(m) ==
  /\ stamp' = [stamp EXCEPT ![m] = NoTime]
  /\ lease' = [lease EXCEPT ![m] = NoTime]
  /\ UNCHANGED <<now, row>>

Tick ==
  /\ now < MaxTime
  /\ now' = now + 1
  /\ UNCHANGED <<row, stamp, lease>>

LockNext ==
  \/ Tick
  \/ \E m \in Managers :
       ReadClock(m) \/ Acquire(m) \/ AcquireRefused(m) \/ Release(m) \/ Abandon(m)

LockSpec == LockInit /\ [][LockNext]_lockVars

-----------------------------------------------------------------------------
LockTypeOK ==
  /\ now \in Nat \ {0}
  /\ row \in [owner : Managers \cup {NoOwner}, expires : Nat]
  /\ stamp \in [Managers -> Nat]
  /\ lease \in [Managers -> Nat]

(* No two managers ever hold leases that are both still running: acquire() *)
(* overwrites a row only once it has expired, even when its own date is    *)
(* old, and release() of an overtaken manager leaves the new row alone.    *)
LeaseExclusion ==
  \A m1, m2 \in Managers :
    lease[m1] > now /\ lease[m2] > now => m1 = m2
=============================================================================
