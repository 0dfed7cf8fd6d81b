---------------------------- MODULE MigrationProofs ----------------------------
(***************************************************************************)
(* The lease excludes; managers that keep to their leases are serialized;  *)
(* serialized managers record every migration at most once.                *)
(***************************************************************************)
EXTENDS MigrationManager, FiniteSetTheorems, WellFoundedInduction, TLAPS

-----------------------------------------------------------------------------
(* Least and greatest elements of finite sets of naturals: Min and Max of  *)
(* the community module are CHOOSE expressions, and say something only     *)
(* once such an element is known to exist.                                 *)

(* A nonempty set of naturals has a least element.                         *)
LEMMA NatLeastElement ==
  ASSUME NEW S \in SUBSET Nat, S # {}
  PROVE  \E x \in S : \A y \in S : x <= y
<1>1. PICK x \in S : \A y \in S : ~ (<<y, x>> \in OpToRel(<, Nat))
  BY NatLessThanWellFounded, WFMin
<1>2. \A y \in S : ~ (y < x)
  BY <1>1 DEF OpToRel
<1>. QED
  BY <1>2

(* Min(S) is in S and below every other element.                           *)
LEMMA MinOfNats ==
  ASSUME NEW S \in SUBSET Nat, S # {}
  PROVE  Min(S) \in S /\ \A y \in S : Min(S) <= y
BY NatLeastElement DEF Min

(* A finite set of naturals is bounded.                                    *)
LEMMA FiniteNatsBounded ==
  ASSUME NEW S \in SUBSET Nat, IsFiniteSet(S)
  PROVE  \E b \in Nat : \A y \in S : y <= b
<1>1. PICK n \in Nat : ExistsSurjection(1..n, S)
  BY FS_NatSurjection
<1>2. PICK f \in [1..n -> S] : \A y \in S : \E i \in 1..n : f[i] = y
  BY <1>1 DEF ExistsSurjection, Surjection
<1> DEFINE Bounded(k) == \E b \in Nat : \A i \in 1..k : f[i] <= b
           Bad == {k \in 0..n : ~ Bounded(k)}
<1> HIDE DEF Bounded, Bad
<1>3. Bounded(0)
  BY DEF Bounded
<1>4. \A i \in 1..n : f[i] \in Nat
  OBVIOUS
<1>5. ASSUME NEW k \in 0..n, k # 0, Bounded(k - 1)
      PROVE  Bounded(k)
  <2>1. PICK b \in Nat : \A i \in 1..(k - 1) : f[i] <= b
    BY <1>5 DEF Bounded
  <2>2. k \in 1..n
    BY <1>5
  <2>3. f[k] \in Nat
    BY <2>2, <1>4
  <2>4. \A i \in 1..k : f[i] <= b + f[k]
    <3> TAKE i \in 1..k
    <3>1. i \in 1..(k - 1) \/ i = k
      BY <1>5
    <3>2. i \in 1..n
      BY <2>2
    <3>3. f[i] \in Nat
      BY <3>2, <1>4
    <3>. QED
      BY <3>1, <3>3, <2>1, <2>3
  <2>5. b + f[k] \in Nat
    BY <2>3
  <2>. QED
    BY <2>4, <2>5 DEF Bounded
<1>6. Bad = {}
  <2> SUFFICES ASSUME Bad # {} PROVE FALSE
    OBVIOUS
  <2>1. Bad \in SUBSET Nat
    BY DEF Bad
  <2>2. PICK k \in Bad : \A j \in Bad : k <= j
    BY <2>1, NatLeastElement
  <2>3. k \in 0..n /\ ~ Bounded(k)
    BY DEF Bad
  <2>4. k # 0
    BY <1>3, <2>3
  <2>5. k - 1 \in 0..n /\ k - 1 \notin Bad
    BY <2>1, <2>2, <2>3, <2>4
  <2>6. Bounded(k - 1)
    BY <2>5 DEF Bad
  <2>. QED
    BY <1>5, <2>3, <2>4, <2>6
<1>7. n \in 0..n
  OBVIOUS
<1>8. Bounded(n)
  BY <1>6, <1>7 DEF Bad
<1>9. PICK b \in Nat : \A i \in 1..n : f[i] <= b
  BY <1>8 DEF Bounded
<1>. QED
  BY <1>2, <1>9

(* Max(S) is in S and above every other element, when S is finite.         *)
LEMMA MaxOfNats ==
  ASSUME NEW S \in SUBSET Nat, IsFiniteSet(S), S # {}
  PROVE  Max(S) \in S /\ \A y \in S : Max(S) >= y
<1>1. PICK b \in Nat : \A y \in S : y <= b
  BY FiniteNatsBounded
<1> DEFINE Gaps == {b - y : y \in S}
<1>2. \A y \in S : b - y \in Nat
  BY <1>1
<1>3. Gaps \in SUBSET Nat /\ Gaps # {}
  BY <1>2
<1>4. PICK g \in Gaps : \A h \in Gaps : g <= h
  BY <1>3, NatLeastElement
<1>5. PICK x \in S : g = b - x
  BY <1>4
<1>6. \A y \in S : x >= y
  BY <1>1, <1>4, <1>5
<1>. QED
  BY <1>6 DEF Max

(* The values of a function on a finite set are finitely many.             *)
LEMMA FiniteRange ==
  ASSUME NEW S, IsFiniteSet(S), NEW f, f = [x \in S |-> f[x]]
  PROVE  IsFiniteSet({f[x] : x \in S})
<1> DEFINE T == {f[x] : x \in S}
<1>1. f \in [S -> T]
  OBVIOUS
<1>2. \A y \in T : \E x \in S : f[x] = y
  OBVIOUS
<1>3. f \in Surjection(S, T)
  BY <1>1, <1>2 DEF Surjection
<1>. QED
  BY <1>3, FS_Surjection

-----------------------------------------------------------------------------
(* The lock alone.                                                         *)

(* A lease that still runs is the one in the row: this is what makes the   *)
(* upsert's WHERE clause exclude its holder's rivals.                      *)
LockInv ==
  /\ LockTypeOK
  /\ \A m \in Managers : stamp[m] <= now
  /\ \A m \in Managers :
       lease[m] > now => row = [owner |-> m, expires |-> lease[m]]

(* Taking, refusing, giving up, abandoning and outliving a lease all keep  *)
(* running leases in the row.                                              *)
LEMMA LockInvStep == LockInv /\ [LockNext]_lockVars => LockInv'
<1> SUFFICES ASSUME LockInv, [LockNext]_lockVars PROVE LockInv'
  OBVIOUS
<1> USE LeaseAssumption DEF LockInv, LockTypeOK, NoTime, EmptyRow
<1>1. CASE Tick
  BY <1>1 DEF Tick
<1>2. ASSUME NEW m \in Managers, ReadClock(m) PROVE LockInv'
  BY <1>2 DEF ReadClock
<1>3. ASSUME NEW m \in Managers, Acquire(m) PROVE LockInv'
  <2>1. \A o \in Managers : o # m => ~ (lease[o] > now)
    BY <1>3 DEF Acquire, CanAcquire
  <2>. QED
    BY <1>3, <2>1 DEF Acquire
<1>4. ASSUME NEW m \in Managers, AcquireRefused(m) PROVE LockInv'
  BY <1>4 DEF AcquireRefused
<1>5. ASSUME NEW m \in Managers, Release(m) PROVE LockInv'
  <2>1. \A o \in Managers : o # m /\ lease[o] > now => row.owner # m
    OBVIOUS
  <2>. QED
    BY <1>5, <2>1 DEF Release
<1>6. ASSUME NEW m \in Managers, Abandon(m) PROVE LockInv'
  BY <1>6 DEF Abandon
<1>7. CASE UNCHANGED lockVars
  BY <1>7 DEF lockVars
<1>. QED
  BY <1>1, <1>2, <1>3, <1>4, <1>5, <1>6, <1>7 DEF LockNext

LEMMA LockInvInit == LockInit => LockInv
BY LeaseAssumption DEF LockInit, LockInv, LockTypeOK, NoTime, EmptyRow

(* The invariant of migration-lock.ts used on its own, in any order of     *)
(* acquire() and release() calls, crashes and late statements.             *)
THEOREM LockIsExclusive == LockSpec => []LeaseExclusion
<1>1. LockInv => LeaseExclusion
  BY DEF LockInv, LeaseExclusion
<1>. QED
  BY <1>1, LockInvInit, LockInvStep, PTL DEF LockSpec

-----------------------------------------------------------------------------
(* The managers drive the lock by its own operations only.                 *)

LEMMA NextIsLockNext == [Next]_vars => [LockNext]_lockVars
<1> USE DEF Operate, Begin, GetLock, MissLock, FindToRun, ReadNextBatch, Up, AddRow,
            UpDone, ReadLastBatch, FindToRollback, Down, RemoveRow, DownDone,
            ReadFails, Finally, Crash, Deploy, Withdraw, Clock
<1>1. ASSUME NEW m \in Managers, Operate(m) \/ Crash(m) PROVE [LockNext]_lockVars
  BY <1>1 DEF LockNext, lockVars
<1>2. ASSUME NEW k \in Migrations, Deploy(k) \/ Withdraw(k) PROVE [LockNext]_lockVars
  BY <1>2 DEF lockVars
<1>3. CASE Clock
  BY <1>3 DEF LockNext
<1>4. CASE UNCHANGED vars
  BY <1>4 DEF vars, lockVars
<1>. QED
  BY <1>1, <1>2, <1>3, <1>4 DEF Next

(* withLock, run, rollback and refresh implement the lock's specification. *)
THEOREM ManagersRefineLock == Spec => LockSpec
<1>1. Init => LockInit
  BY DEF Init
<1>. QED
  BY <1>1, NextIsLockNext, PTL DEF Spec, LockSpec

(* No two managers hold running leases, however long their work takes.     *)
THEOREM ManagersExclusive == Spec => []LeaseExclusion
BY ManagersRefineLock, LockIsExclusive, PTL

-----------------------------------------------------------------------------
(* Types.                                                                  *)

(* Beyond TypeOK: the registry is finite, so that MAX(batch) and the next  *)
(* id exist; a manager that waits for the lock has an operation to start;  *)
(* a migration under way is still on its manager's list.                   *)
TypeInv ==
  /\ TypeOK
  /\ IsFiniteSet(rows)
  /\ \A m \in Managers : pc[m] = "acquire" => op[m] \in Operations
  /\ \A m \in Managers : pc[m] \in {"add", "remove"} => todo[m] # {}

(* The greatest batch and the greatest id of rows are those of a row.      *)
LEMMA TopOfRows ==
  ASSUME NEW rs \in SUBSET [id : Nat, name : Migrations, batch : Nat],
         IsFiniteSet(rs), rs # {}
  PROVE  /\ \E r \in rs : r.batch = Max({q.batch : q \in rs})
         /\ \E r \in rs : r.id = Max({q.id : q \in rs})
         /\ \A r \in rs : r.batch <= Max({q.batch : q \in rs}) /\ r.id <= Max({q.id : q \in rs})
<1> DEFINE Batches == {q.batch : q \in rs}
           Ids == {q.id : q \in rs}
<1>1. Batches \in SUBSET Nat /\ Ids \in SUBSET Nat /\ Batches # {} /\ Ids # {}
  OBVIOUS
<1>2. IsFiniteSet(Batches)
  <2> DEFINE f == [q \in rs |-> q.batch]
  <2>1. IsFiniteSet({f[q] : q \in rs})
    BY FiniteRange
  <2>. QED
    BY <2>1
<1>3. IsFiniteSet(Ids)
  <2> DEFINE f == [q \in rs |-> q.id]
  <2>1. IsFiniteSet({f[q] : q \in rs})
    BY FiniteRange
  <2>. QED
    BY <2>1
<1>4. Max(Batches) \in Batches /\ \A b \in Batches : Max(Batches) >= b
  BY <1>1, <1>2, MaxOfNats
<1>5. Max(Ids) \in Ids /\ \A i \in Ids : Max(Ids) >= i
  BY <1>1, <1>3, MaxOfNats
<1>6. \A r \in rs : r.batch \in Batches /\ r.id \in Ids
  OBVIOUS
<1>7. (\E r \in rs : r.batch = Max(Batches)) /\ (\E r \in rs : r.id = Max(Ids))
  BY <1>4, <1>5
<1>8. \A b \in Batches : b <= Max(Batches)
  BY <1>1, <1>4
<1>9. \A i \in Ids : i <= Max(Ids)
  BY <1>1, <1>5
<1>. QED
  BY <1>6, <1>7, <1>8, <1>9

(* MAX(batch) and the next id are naturals.                                *)
LEMMA RegistryNumbers == TypeInv => Last \in Nat /\ NextId \in Nat
<1> SUFFICES ASSUME TypeInv, rows # {} PROVE Last \in Nat /\ NextId \in Nat
  BY DEF Last, NextId
<1>1. rows \in SUBSET [id : Nat, name : Migrations, batch : Nat] /\ IsFiniteSet(rows)
  BY DEF TypeInv, TypeOK
<1>2. (\E r \in rows : r.batch = Last) /\ (\E r \in rows : r.id = Max({q.id : q \in rows}))
  BY <1>1, TopOfRows DEF Last
<1>. QED
  BY <1>1, <1>2 DEF NextId

(* The migration that a manager takes from its list is on the list.        *)
LEMMA ListEnds ==
  ASSUME TypeInv, NEW m \in Managers, todo[m] # {}
  PROVE  Min(todo[m]) \in todo[m] /\ Max(todo[m]) \in todo[m]
<1>1. todo[m] \in SUBSET Migrations
  BY DEF TypeInv, TypeOK
<1>2. todo[m] \in SUBSET Nat /\ IsFiniteSet(todo[m])
  BY <1>1, ManagerAssumption, FS_Subset
<1>. QED
  BY <1>2, MinOfNats, MaxOfNats

LEMMA TypeInvStep == TypeInv /\ LockInv /\ [Next]_vars => TypeInv'
<1> SUFFICES ASSUME TypeInv, LockInv, [Next]_vars PROVE TypeInv'
  OBVIOUS
<1>1. LockTypeOK'
  BY NextIsLockNext, LockInvStep DEF LockInv
<1> USE <1>1 DEF TypeInv, TypeOK, Working, UpSteps, DownSteps, Operations,
                 Goto, Settle, Fault, dataVars
<1> USE ManagerAssumption
<1>2. ASSUME NEW m \in Managers, NEW o \in Operations, Begin(m, o) PROVE TypeInv'
  BY <1>2 DEF Begin
<1>3. ASSUME NEW m \in Managers, GetLock(m) PROVE TypeInv'
  <2>1. FirstStep(op[m]) \in {"findToRun", "last", "findToRollback"}
    BY <1>3 DEF GetLock, FirstStep
  <2>. QED
    BY <1>3, <2>1 DEF GetLock
<1>4. ASSUME NEW m \in Managers, MissLock(m) PROVE TypeInv'
  BY <1>4 DEF MissLock
<1>5. ASSUME NEW m \in Managers, FindToRun(m) PROVE TypeInv'
  <2>1. todo' \in [Managers -> SUBSET Migrations]
    BY <1>5 DEF FindToRun
  <2>2. batch' \in [Managers -> Nat]
    BY <1>5 DEF FindToRun
  <2>3. pc' = [pc EXCEPT ![m] = "next"] \/ pc' = [pc EXCEPT ![m] = "up"]
    BY <1>5 DEF FindToRun
  <2>4. UNCHANGED <<op, rows, schema, files, gone, faults>> /\ todo' = [todo EXCEPT ![m] = todo'[m]]
    BY <1>5 DEF FindToRun
  <2>. QED
    BY <2>1, <2>2, <2>3, <2>4
<1>6. ASSUME NEW m \in Managers, ReadNextBatch(m) PROVE TypeInv'
  BY <1>6, RegistryNumbers DEF ReadNextBatch
<1>7. ASSUME NEW m \in Managers, Up(m) PROVE TypeInv'
  <2>1. Min(todo[m]) \in Migrations
    BY <1>7, ListEnds DEF Up
  <2>2. schema' \subseteq Migrations
    <3>1. schema' = schema \/ schema' = schema \cup {Min(todo[m])}
      BY <1>7 DEF Up
    <3>. QED
      BY <2>1, <3>1
  <2>5. faults' \in 0..MaxFaults
    BY <1>7 DEF Up
  <2>3. pc' = [pc EXCEPT ![m] = "add"] \/ pc' = [pc EXCEPT ![m] = "release"]
    BY <1>7 DEF Up
  <2>4. todo[m] # {} /\ UNCHANGED <<op, todo, batch, rows, files, gone>>
    BY <1>7 DEF Up
  <2>. QED
    BY <2>2, <2>3, <2>4, <2>5
<1>8. ASSUME NEW m \in Managers, AddRow(m) PROVE TypeInv'
  <2>1. Min(todo[m]) \in Migrations
    BY <1>8, ListEnds DEF AddRow
  <2>2. NextId \in Nat
    BY RegistryNumbers
  <2>3. Add(Min(todo[m]), batch[m]) \subseteq [id : Nat, name : Migrations, batch : Nat]
    BY <2>1, <2>2 DEF Add
  <2>4. IsFiniteSet(Add(Min(todo[m]), batch[m]))
    BY FS_AddElement DEF Add
  <2>. QED
    BY <1>8, <2>3, <2>4 DEF AddRow
<1>9. ASSUME NEW m \in Managers, UpDone(m) \/ DownDone(m) \/ ReadFails(m) PROVE TypeInv'
  <2>1. pc' = [pc EXCEPT ![m] = "release"] \/ pc' = [pc EXCEPT ![m] = "findToRun"]
    BY <1>9 DEF UpDone, DownDone, ReadFails
  <2>2. UNCHANGED <<op, todo, batch, rows, schema, files, gone>> /\ faults' \in 0..MaxFaults
    BY <1>9 DEF UpDone, DownDone, ReadFails
  <2>. QED
    BY <2>1, <2>2
<1>10. ASSUME NEW m \in Managers, ReadLastBatch(m) PROVE TypeInv'
  BY <1>10, RegistryNumbers DEF ReadLastBatch
<1>11. ASSUME NEW m \in Managers, FindToRollback(m) PROVE TypeInv'
  BY <1>11 DEF FindToRollback
<1>12. ASSUME NEW m \in Managers, Down(m) PROVE TypeInv'
  <2>1. schema' \subseteq Migrations
    <3>1. schema' = schema \/ schema' = schema \ {Max(todo[m])}
      BY <1>12 DEF Down
    <3>. QED
      BY <3>1
  <2>4. faults' \in 0..MaxFaults
    BY <1>12 DEF Down
  <2>2. pc' = [pc EXCEPT ![m] = "remove"] \/ pc' = [pc EXCEPT ![m] = "release"]
    BY <1>12 DEF Down
  <2>3. todo[m] # {} /\ UNCHANGED <<op, todo, batch, rows, files, gone>>
    BY <1>12 DEF Down
  <2>. QED
    BY <2>1, <2>2, <2>3, <2>4
<1>13. ASSUME NEW m \in Managers, RemoveRow(m) PROVE TypeInv'
  <2>1. Remove(Max(todo[m])) \subseteq rows
    BY DEF Remove
  <2>2. IsFiniteSet(Remove(Max(todo[m])))
    BY <2>1, FS_Subset
  <2>. QED
    BY <1>13, <2>1, <2>2 DEF RemoveRow
<1>14. ASSUME NEW m \in Managers, Finally(m) \/ Crash(m) PROVE TypeInv'
  <2>1. pc' = [pc EXCEPT ![m] = "idle"] \/ pc' = [pc EXCEPT ![m] = "dead"]
    BY <1>14 DEF Finally, Crash
  <2>2. UNCHANGED <<rows, schema, files, gone>> /\ faults' \in 0..MaxFaults
    BY <1>14 DEF Finally, Crash
  <2>3. /\ op' = [op EXCEPT ![m] = "none"]
        /\ todo' = [todo EXCEPT ![m] = {}]
        /\ batch' = [batch EXCEPT ![m] = 0]
    BY <1>14 DEF Finally, Crash
  <2>. QED
    BY <2>1, <2>2, <2>3
<1>15. ASSUME NEW k \in Migrations, Deploy(k) \/ Withdraw(k) PROVE TypeInv'
  BY <1>15 DEF Deploy, Withdraw, workVars
<1>16. CASE Clock
  BY <1>16 DEF Clock, workVars
<1>17. CASE UNCHANGED vars
  BY <1>17 DEF vars, workVars
<1>. QED
  BY <1>2, <1>3, <1>4, <1>5, <1>6, <1>7, <1>8, <1>9, <1>10, <1>11, <1>12, <1>13,
     <1>14, <1>15, <1>16, <1>17 DEF Next, Operate

LEMMA TypeInvInit == Init => TypeInv
<1>1. IsFiniteSet({})
  BY FS_EmptySet
<1>. QED
  BY <1>1, LockInvInit, ManagerAssumption
     DEF Init, TypeInv, TypeOK, LockInv, Working, UpSteps, DownSteps, Operations

LEMMA Invariants == Spec => [](LockInv /\ TypeInv)
<1>1. Init => LockInv /\ TypeInv
  BY LockInvInit, TypeInvInit DEF Init
<1>2. LockInv /\ TypeInv /\ [Next]_vars => (LockInv /\ TypeInv)'
  BY NextIsLockNext, LockInvStep, TypeInvStep
<1>. QED
  BY <1>1, <1>2, PTL DEF Spec

(* Every variable of the managers, the lock, the registry and the schema   *)
(* stays in its type.                                                      *)
THEOREM TypeCorrect == Spec => []TypeOK
<1>1. TypeInv => TypeOK
  BY DEF TypeInv
<1>. QED
  BY <1>1, Invariants, PTL

-----------------------------------------------------------------------------
(* Serialization.                                                          *)

(* A manager at work has a lease, and none that is held or about to be     *)
(* granted has run out.                                                    *)
WorkerInv ==
  /\ \A m \in Managers : pc[m] \in Working => lease[m] # NoTime
  /\ \A m \in Managers : lease[m] # NoTime => now < lease[m]
  /\ \A m \in Managers : stamp[m] # NoTime => now < stamp[m] + LeaseMs

LEMMA WorkerInvStep ==
  ASSUME WorkFitsLease
  PROVE  TypeInv /\ LockInv /\ WorkerInv /\ [Next]_vars => WorkerInv'
<1> SUFFICES ASSUME TypeInv, LockInv, WorkerInv, [Next]_vars PROVE WorkerInv'
  OBVIOUS
<1> USE LeaseAssumption
    DEF WorkerInv, TypeInv, TypeOK, LockInv, LockTypeOK, NoTime, Working, UpSteps,
        DownSteps, Goto, Settle
<1>1. ASSUME NEW m \in Managers, NEW o \in Operations, Begin(m, o) PROVE WorkerInv'
  BY <1>1 DEF Begin, ReadClock
<1>2. ASSUME NEW m \in Managers, GetLock(m) PROVE WorkerInv'
  BY <1>2 DEF GetLock, Acquire
<1>3. ASSUME NEW m \in Managers, MissLock(m) PROVE WorkerInv'
  BY <1>3 DEF MissLock, AcquireRefused
<1>4. ASSUME NEW m \in Managers, pc[m] \in Working, lockVars' = lockVars,
             NEW l, pc' = [pc EXCEPT ![m] = l]
      PROVE  WorkerInv'
  BY <1>4 DEF lockVars
<1>5. ASSUME NEW m \in Managers,
             \/ FindToRun(m) \/ ReadNextBatch(m) \/ Up(m) \/ AddRow(m) \/ UpDone(m)
             \/ ReadLastBatch(m) \/ FindToRollback(m) \/ Down(m) \/ RemoveRow(m)
             \/ DownDone(m) \/ ReadFails(m)
      PROVE  WorkerInv'
  <2>1. pc[m] \in Working /\ lockVars' = lockVars
    BY <1>5 DEF FindToRun, ReadNextBatch, Up, AddRow, UpDone, ReadLastBatch,
                FindToRollback, Down, RemoveRow, DownDone, ReadFails, lockVars
  <2>2. \E l : pc' = [pc EXCEPT ![m] = l]
    BY <1>5 DEF FindToRun, ReadNextBatch, Up, AddRow, UpDone, ReadLastBatch,
                FindToRollback, Down, RemoveRow, DownDone, ReadFails
  <2>. QED
    BY <1>4, <2>1, <2>2
<1>6. ASSUME NEW m \in Managers, Finally(m) \/ Crash(m) PROVE WorkerInv'
  <2>1. now' = now /\ stamp' \in {stamp, [stamp EXCEPT ![m] = NoTime]}
    BY <1>6 DEF Finally, Crash, Release, Abandon
  <2>2. lease' = [lease EXCEPT ![m] = NoTime]
    BY <1>6 DEF Finally, Crash, Release, Abandon
  <2>3. pc' = [pc EXCEPT ![m] = "idle"] \/ pc' = [pc EXCEPT ![m] = "dead"]
    BY <1>6 DEF Finally, Crash
  <2>. QED
    BY <2>1, <2>2, <2>3
<1>7. ASSUME NEW k \in Migrations, Deploy(k) \/ Withdraw(k) PROVE WorkerInv'
  BY <1>7 DEF Deploy, Withdraw, lockVars, workVars
<1>8. CASE Clock
  BY <1>8 DEF Clock, Tick, workVars
<1>9. CASE UNCHANGED vars
  BY <1>9 DEF vars, lockVars, workVars
<1>. QED
  BY <1>1, <1>2, <1>3, <1>5, <1>6, <1>7, <1>8, <1>9 DEF Next, Operate

LEMMA WorkersExclude == LockInv /\ WorkerInv => OneWorker
BY DEF LockInv, LockTypeOK, WorkerInv, OneWorker, NoTime

(* With operations that fit their leases, withLock admits one live manager *)
(* at a time; a crashed holder is replaced only after its lease is over.   *)
THEOREM ManagersSerialized ==
  ASSUME WorkFitsLease
  PROVE  Spec => []OneWorker
<1>1. Init => WorkerInv
  BY LeaseAssumption
     DEF Init, LockInit, WorkerInv, Working, UpSteps, DownSteps, NoTime
<1>2. TypeInv /\ LockInv /\ WorkerInv /\ [Next]_vars => WorkerInv'
  BY WorkerInvStep
<1>. QED
  BY <1>1, <1>2, Invariants, WorkersExclude, PTL DEF Spec

-----------------------------------------------------------------------------
(* The registry.                                                           *)

(* What a manager is about to run has no row yet.                          *)
RecordInv ==
  /\ RecordedOnce
  /\ \A m \in Managers :
       pc[m] \in {"next", "up", "add"} => todo[m] \cap Names(rows) = {}

LEMMA RecordInvStep ==
  TypeInv /\ OneWorker /\ RecordInv /\ [Next]_vars => RecordInv'
<1> SUFFICES ASSUME TypeInv, OneWorker, RecordInv, [Next]_vars PROVE RecordInv'
  OBVIOUS
<1> USE DEF RecordInv, RecordedOnce, Names, TypeInv, TypeOK, Working, UpSteps,
            DownSteps, Goto, Settle
(* Steps that leave the registry and the lists alone, or shorten a list.   *)
<1>1. ASSUME NEW m \in Managers, rows' = rows,
             \A o \in Managers \ {m} : pc'[o] = pc[o] /\ todo'[o] = todo[o],
             pc'[m] \in {"next", "up", "add"} => todo'[m] \cap Names(rows) = {}
      PROVE  RecordInv'
  BY <1>1
<1>2. ASSUME NEW m \in Managers, NEW o \in Operations, Begin(m, o) PROVE RecordInv'
  BY <1>2, <1>1 DEF Begin, dataVars
<1>3. ASSUME NEW m \in Managers, GetLock(m) PROVE RecordInv'
  <2>1. FirstStep(op[m]) \notin {"next", "up", "add"}
    BY <1>3 DEF GetLock, FirstStep, Operations
  <2>. QED
    BY <1>3, <1>1, <2>1 DEF GetLock, dataVars
<1>4. ASSUME NEW m \in Managers, MissLock(m) \/ Finally(m) \/ Crash(m) PROVE RecordInv'
  BY <1>4, <1>1 DEF MissLock, Finally, Crash, dataVars
<1>5. ASSUME NEW m \in Managers, FindToRun(m) PROVE RecordInv'
  BY <1>5, <1>1 DEF FindToRun, dataVars
<1>6. ASSUME NEW m \in Managers, ReadNextBatch(m) \/ Up(m) PROVE RecordInv'
  BY <1>6, <1>1 DEF ReadNextBatch, Up, dataVars
<1>7. ASSUME NEW m \in Managers, AddRow(m) PROVE RecordInv'
  <2>1. CASE rows' = rows
    BY <1>7, <2>1, <1>1 DEF AddRow, Add
  <2>2. CASE rows' = Add(Min(todo[m]), batch[m])
    <3>1. Min(todo[m]) \in todo[m]
      BY <1>7, ListEnds DEF AddRow
    <3>2. Min(todo[m]) \notin Names(rows)
      BY <1>7, <3>1 DEF AddRow
    <3>3. RecordedOnce'
      BY <2>2, <3>2 DEF Add
    <3>4. \A o \in Managers \ {m} : pc[o] \notin {"next", "up", "add"}
      BY <1>7 DEF AddRow, OneWorker
    <3>5. CASE todo' = [todo EXCEPT ![m] = todo[m] \ {Min(todo[m])}]
      BY <1>7, <2>2, <3>2, <3>3, <3>4, <3>5 DEF AddRow, Add
    <3>6. CASE todo' # [todo EXCEPT ![m] = todo[m] \ {Min(todo[m])}]
      BY <1>7, <2>2, <3>3, <3>4, <3>6 DEF AddRow
    <3>. QED
      BY <3>5, <3>6
  <2>. QED
    BY <1>7, <2>1, <2>2 DEF AddRow
<1>8. ASSUME NEW m \in Managers,
             \/ UpDone(m) \/ ReadLastBatch(m) \/ FindToRollback(m) \/ Down(m)
             \/ DownDone(m) \/ ReadFails(m)
      PROVE  RecordInv'
  BY <1>8, <1>1 DEF UpDone, ReadLastBatch, FindToRollback, Down, DownDone, ReadFails, dataVars
<1>9. ASSUME NEW m \in Managers, RemoveRow(m) PROVE RecordInv'
  <2>1. rows' \subseteq rows
    BY <1>9 DEF RemoveRow, Remove
  <2>2. \A o \in Managers : pc'[o] \in {"next", "up", "add"} => o # m
    BY <1>9 DEF RemoveRow
  <2>3. \A o \in Managers \ {m} : pc'[o] = pc[o] /\ todo'[o] = todo[o]
    BY <1>9 DEF RemoveRow
  <2>. QED
    BY <2>1, <2>2, <2>3
<1>10. ASSUME NEW k \in Migrations, Deploy(k) \/ Withdraw(k) PROVE RecordInv'
  BY <1>10 DEF Deploy, Withdraw, workVars, dataVars
<1>11. CASE Clock
  BY <1>11 DEF Clock, workVars, dataVars
<1>12. CASE UNCHANGED vars
  BY <1>12 DEF vars, workVars, dataVars
<1>. QED
  BY <1>2, <1>3, <1>4, <1>5, <1>6, <1>7, <1>8, <1>9, <1>10, <1>11, <1>12
     DEF Next, Operate

(* With operations that fit their leases, no migration gets a second row,  *)
(* through failures, crashes and takeovers.                                *)
THEOREM MigrationsRecordedOnce ==
  ASSUME WorkFitsLease
  PROVE  Spec => []RecordedOnce
<1>1. Init => RecordInv
  BY DEF Init, RecordInv, RecordedOnce
<1>2. RecordInv => RecordedOnce
  BY DEF RecordInv
<1>3. TypeInv /\ OneWorker /\ RecordInv /\ [Next]_vars => RecordInv'
  BY RecordInvStep
<1>4. Spec => []OneWorker
  BY ManagersSerialized
<1>. QED
  BY <1>1, <1>2, <1>3, <1>4, Invariants, PTL DEF Spec

-----------------------------------------------------------------------------
(* What a step of one manager leaves alone.                                *)

(* The locals of the others, and the directory.                            *)
LEMMA OthersStand ==
  ASSUME TypeInv, NEW m \in Managers, Operate(m) \/ Crash(m)
  PROVE  /\ \A o \in Managers \ {m} :
              pc'[o] = pc[o] /\ op'[o] = op[o] /\ todo'[o] = todo[o] /\ batch'[o] = batch[o]
         /\ files' = files /\ gone' = gone
<1> USE DEF TypeInv, TypeOK, Goto, Settle, workVars, dataVars
<1>1. CASE \E o \in Operations : Begin(m, o)
  BY <1>1 DEF Begin
<1>2. CASE GetLock(m) \/ MissLock(m) \/ Finally(m) \/ Crash(m)
  BY <1>2 DEF GetLock, MissLock, Finally, Crash
<1>3. CASE FindToRun(m)
  BY <1>3 DEF FindToRun
<1>4. CASE ReadNextBatch(m) \/ Up(m) \/ AddRow(m) \/ UpDone(m) \/ ReadLastBatch(m)
  BY <1>4 DEF ReadNextBatch, Up, AddRow, UpDone, ReadLastBatch
<1>5. CASE FindToRollback(m)
  BY <1>5 DEF FindToRollback
<1>6. CASE Down(m) \/ RemoveRow(m) \/ DownDone(m) \/ ReadFails(m)
  BY <1>6 DEF Down, RemoveRow, DownDone, ReadFails
<1>. QED
  BY <1>1, <1>2, <1>3, <1>4, <1>5, <1>6 DEF Operate

(* Deployments, the clock and stuttering leave all managers alone.         *)
LEMMA EnvironmentStands ==
  ASSUME \/ \E k \in Migrations : Deploy(k) \/ Withdraw(k)
         \/ Clock
         \/ UNCHANGED vars
  PROVE  UNCHANGED <<pc, op, todo, batch, rows, schema, faults>>
BY DEF Deploy, Withdraw, Clock, vars, workVars, dataVars

(* Which operation stands where, and when its batch number is undefined:   *)
(* refresh() calls findMigrationsToRollback() without one.                 *)
PhaseInv ==
  \A m \in Managers :
    /\ pc[m] \in {"findToRun", "up", "add"} => op[m] \in {"run", "refresh"}
    /\ pc[m] = "next" => op[m] = "run"
    /\ pc[m] = "last" => op[m] = "rollback"
    /\ pc[m] \in {"findToRollback", "down", "remove"} => op[m] \in {"rollback", "refresh"}
    /\ pc[m] \in {"idle", "acquire"} => batch[m] = 0
    /\ pc[m] = "findToRollback" /\ op[m] = "refresh" => batch[m] = 0

LEMMA PhaseInvStep == TypeInv /\ PhaseInv /\ [Next]_vars => PhaseInv'
<1> SUFFICES ASSUME TypeInv, PhaseInv, [Next]_vars PROVE PhaseInv'
  OBVIOUS
<1>1. ASSUME NEW m \in Managers, Operate(m) \/ Crash(m) PROVE PhaseInv'
  <2> DEFINE At(p, o, b) ==
        /\ p \in {"findToRun", "up", "add"} => o \in {"run", "refresh"}
        /\ p = "next" => o = "run"
        /\ p = "last" => o = "rollback"
        /\ p \in {"findToRollback", "down", "remove"} => o \in {"rollback", "refresh"}
        /\ p \in {"idle", "acquire"} => b = 0
        /\ p = "findToRollback" /\ o = "refresh" => b = 0
  <2>0. \A o \in Managers : At(pc[o], op[o], batch[o])
    BY DEF PhaseInv
  <2> SUFFICES At(pc'[m], op'[m], batch'[m])
    <3>1. \A o \in Managers \ {m} : At(pc'[o], op'[o], batch'[o])
      BY <1>1, <2>0, OthersStand
    <3>. QED
      BY <3>1 DEF PhaseInv
  <2> USE <2>0 DEF TypeInv, TypeOK, Goto, Settle, At
  <2>1. CASE \E o \in Operations : Begin(m, o)
    BY <2>1 DEF Begin
  <2>2. CASE GetLock(m)
    BY <2>2 DEF GetLock, FirstStep, Operations
  <2>3. CASE MissLock(m) \/ Finally(m) \/ Crash(m)
    BY <2>3 DEF MissLock, Finally, Crash
  <2>4. CASE FindToRun(m)
    BY <2>4 DEF FindToRun
  <2>5. CASE ReadNextBatch(m) \/ Up(m) \/ AddRow(m) \/ UpDone(m) \/ ReadLastBatch(m)
    BY <2>5 DEF ReadNextBatch, Up, AddRow, UpDone, ReadLastBatch
  <2>6. CASE FindToRollback(m)
    BY <2>6 DEF FindToRollback
  <2>7. CASE Down(m) \/ RemoveRow(m) \/ DownDone(m) \/ ReadFails(m)
    BY <2>7 DEF Down, RemoveRow, DownDone, ReadFails
  <2>. QED
    BY <1>1, <2>1, <2>2, <2>3, <2>4, <2>5, <2>6, <2>7 DEF Operate
<1>2. CASE \/ \E k \in Migrations : Deploy(k) \/ Withdraw(k)
           \/ Clock
           \/ UNCHANGED vars
  BY <1>2, EnvironmentStands DEF PhaseInv
<1>. QED
  BY <1>1, <1>2 DEF Next

(* Only add() and remove() write the registry.                             *)
LEMMA RowsStand ==
  ASSUME NEW m \in Managers, Operate(m) \/ Crash(m), rows' # rows
  PROVE  AddRow(m) \/ RemoveRow(m)
BY DEF Operate, Crash, Begin, GetLock, MissLock, FindToRun, ReadNextBatch, Up, UpDone,
       ReadLastBatch, FindToRollback, Down, DownDone, ReadFails, Finally, dataVars

-----------------------------------------------------------------------------
(* The order of batches.                                                   *)

(* The rows whose files were never taken away.                             *)
Kept == {r \in rows : r.name \notin gone}

(* What is or will be in the registry has, or had, its file.               *)
FileInv ==
  /\ Names(rows) \subseteq files \cup gone
  /\ \A m \in Managers :
       pc[m] \in {"next", "up", "add"} => todo[m] \subseteq files \cup gone

LEMMA FileInvStep == TypeInv /\ FileInv /\ [Next]_vars => FileInv'
<1> SUFFICES ASSUME TypeInv, FileInv, [Next]_vars PROVE FileInv'
  OBVIOUS
<1>1. ASSUME NEW m \in Managers, Operate(m) \/ Crash(m) PROVE FileInv'
  <2>1. \A o \in Managers \ {m} :
          pc'[o] \in {"next", "up", "add"} => todo'[o] \subseteq files' \cup gone'
    BY <1>1, OthersStand DEF FileInv
  <2>2. Names(rows)' \subseteq files' \cup gone'
    <3>1. CASE AddRow(m)
      <4>1. Min(todo[m]) \in todo[m]
        BY <3>1, ListEnds DEF AddRow, TypeInv
      <4>2. Names(rows)' \subseteq Names(rows) \cup {Min(todo[m])}
        BY <3>1 DEF AddRow, Add, Names
      <4>. QED
        BY <1>1, <3>1, <4>1, <4>2, OthersStand DEF AddRow, FileInv
    <3>2. CASE RemoveRow(m)
      <4>1. Names(rows)' \subseteq Names(rows)
        BY <3>2 DEF RemoveRow, Remove, Names
      <4>. QED
        BY <1>1, <4>1, OthersStand DEF FileInv
    <3>3. CASE rows' = rows
      BY <1>1, <3>3, OthersStand DEF FileInv, Names
    <3>. QED
      BY <1>1, <3>1, <3>2, <3>3, RowsStand
  <2>3. pc'[m] \in {"next", "up", "add"} => todo'[m] \subseteq files' \cup gone'
    <3> USE DEF TypeInv, TypeOK, FileInv, Goto, Settle
    <3>1. CASE \E o \in Operations : Begin(m, o)
      BY <3>1 DEF Begin
    <3>2. CASE GetLock(m) \/ MissLock(m) \/ Finally(m) \/ Crash(m)
      BY <3>2 DEF GetLock, FirstStep, Operations, MissLock, Finally, Crash
    <3>3. CASE FindToRun(m)
      BY <3>3 DEF FindToRun
    <3>4. CASE ReadNextBatch(m) \/ Up(m) \/ UpDone(m) \/ ReadLastBatch(m)
      BY <3>4 DEF ReadNextBatch, Up, UpDone, ReadLastBatch
    <3>5. CASE AddRow(m)
      BY <3>5 DEF AddRow
    <3>6. CASE FindToRollback(m)
      BY <3>6 DEF FindToRollback
    <3>7. CASE Down(m) \/ RemoveRow(m) \/ DownDone(m) \/ ReadFails(m)
      BY <3>7 DEF Down, RemoveRow, DownDone, ReadFails
    <3>. QED
      BY <1>1, <3>1, <3>2, <3>3, <3>4, <3>5, <3>6, <3>7 DEF Operate
  <2>. QED
    BY <2>1, <2>2, <2>3 DEF FileInv
<1>2. CASE \/ \E k \in Migrations : Deploy(k) \/ Withdraw(k)
           \/ Clock
           \/ UNCHANGED vars
  <2>1. files \cup gone \subseteq files' \cup gone'
    BY <1>2 DEF Deploy, Withdraw, Clock, vars
  <2>2. UNCHANGED <<pc, todo, rows>>
    BY <1>2, EnvironmentStands
  <2>. QED
    BY <2>1, <2>2 DEF FileInv, Names
<1>. QED
  BY <1>1, <1>2 DEF Next

(* MAX(batch) and the next id are above what the table holds.              *)
LEMMA RegistryTops ==
  ASSUME TypeInv
  PROVE  \A r \in rows : r.batch <= Last /\ r.id < NextId
<1> SUFFICES ASSUME NEW r \in rows PROVE r.batch <= Last /\ r.id < NextId
  OBVIOUS
<1> DEFINE top == Max({q.id : q \in rows})
<1>1. rows \in SUBSET [id : Nat, name : Migrations, batch : Nat] /\ IsFiniteSet(rows)
  BY DEF TypeInv, TypeOK
<1>2. r.batch <= Last /\ r.id <= top /\ \E q \in rows : q.id = top
  BY <1>1, TopOfRows DEF Last
<1>3. NextId = top + 1
  BY DEF NextId
<1> HIDE DEF top
<1>4. r.id \in Nat /\ top \in Nat
  BY <1>1, <1>2
<1>. QED
  BY <1>2, <1>3, <1>4

(* Why a row may be written with the number that run() has read, or with   *)
(* the 1 of refresh(): no row it keeps has a higher one.  refresh() gets   *)
(* there because its list holds every row it keeps until the row is gone.  *)
OrderInv ==
  /\ BatchesInOrder
  /\ \A m \in Managers : pc[m] \in {"up", "add"} => \A r \in Kept : r.batch <= batch[m]
  /\ \A m \in Managers :
       pc[m] \in {"down", "remove"} /\ op[m] = "refresh" => Names(Kept) \subseteq todo[m]
  /\ \A m \in Managers : pc[m] = "findToRun" /\ op[m] = "refresh" => Kept = {}

LEMMA OrderInvStep ==
  TypeInv /\ OneWorker /\ PhaseInv /\ FileInv /\ OrderInv /\ [Next]_vars => OrderInv'
<1> SUFFICES ASSUME TypeInv, OneWorker, PhaseInv, FileInv, OrderInv, [Next]_vars
             PROVE  OrderInv'
  OBVIOUS
<1>1. ASSUME NEW m \in Managers, Operate(m) \/ Crash(m) PROVE OrderInv'
  <2> DEFINE Above(b) == \A r \in Kept : r.batch <= b
             Right(p, o, t, b) ==
               /\ p \in {"up", "add"} => Above(b)
               /\ p \in {"down", "remove"} /\ o = "refresh" => Names(Kept) \subseteq t
               /\ p = "findToRun" /\ o = "refresh" => Kept = {}
  <2>0. Right(pc[m], op[m], todo[m], batch[m])
    BY DEF OrderInv
  <2>1. CASE rows' = rows
    <3>1. Kept' = Kept /\ BatchesInOrder'
      BY <1>1, <2>1, OthersStand DEF Kept, OrderInv, BatchesInOrder
    <3>2. \A o \in Managers \ {m} : Right(pc[o], op[o], todo[o], batch[o])
      BY DEF OrderInv
    <3> SUFFICES Right(pc'[m], op'[m], todo'[m], batch'[m])
      <4>1. \A o \in Managers : Right(pc'[o], op'[o], todo'[o], batch'[o])
        BY <1>1, <3>2, OthersStand
      <4>. QED
        BY <3>1, <4>1 DEF OrderInv, Names
    <3> HIDE DEF Above
    <3> USE <2>0 DEF TypeInv, TypeOK, Goto, Settle
    <3>3. CASE \E o \in Operations : Begin(m, o)
      BY <3>3 DEF Begin
    <3>4. CASE GetLock(m)
      <4>1. pc'[m] = FirstStep(op[m]) /\ op'[m] = op[m] /\ op[m] \in Operations
        BY <3>4 DEF GetLock
      <4>. QED
        BY <4>1 DEF FirstStep, Operations
    <3>5. CASE MissLock(m) \/ Finally(m) \/ Crash(m)
      BY <3>5 DEF MissLock, Finally, Crash
    <3>6. CASE FindToRun(m)
      <4>1. CASE op[m] = "run"
        BY <3>6, <4>1 DEF FindToRun
      <4>2. CASE op[m] = "refresh"
        <5>1. pc'[m] = "up" /\ Kept = {}
          BY <3>6, <4>2 DEF FindToRun
        <5>. QED
          BY <5>1 DEF Above
      <4>. QED
        BY <3>6, <4>1, <4>2 DEF FindToRun, PhaseInv
    <3>7. CASE ReadNextBatch(m)
      <4>1. \A r \in rows : r.batch \in Nat
        OBVIOUS
      <4>2. Above(Last + 1)
        BY <4>1, RegistryTops, RegistryNumbers DEF Above, Kept, TypeInv
      <4>. QED
        BY <3>7, <4>2 DEF ReadNextBatch
    <3>8. CASE Up(m) \/ UpDone(m) \/ ReadLastBatch(m)
      BY <3>8 DEF Up, UpDone, ReadLastBatch
    <3>9. CASE AddRow(m)
      <4>1. rows' # Add(Min(todo[m]), batch[m])
        <5>1. \A r \in rows : r.id < NextId
          BY RegistryTops
        <5>2. NextId \in Nat
          BY RegistryNumbers
        <5>3. [id |-> NextId, name |-> Min(todo[m]), batch |-> batch[m]] \notin rows
          BY <5>1, <5>2
        <5>. QED
          BY <2>1, <5>3 DEF Add
      <4>. QED
        BY <3>9, <4>1 DEF AddRow
    <3>10. CASE FindToRollback(m)
      <4>1. pc'[m] = "down" /\ op'[m] = op[m]
        BY <3>10 DEF FindToRollback
      <4>2. op[m] = "refresh" => todo'[m] = files \cap Names(rows)
        BY <3>10 DEF FindToRollback, PhaseInv
      <4>3. Names(Kept) \subseteq files \cap Names(rows)
        BY DEF FileInv, Kept, Names
      <4>. QED
        BY <4>1, <4>2, <4>3
    <3>11. CASE Down(m)
      BY <3>11 DEF Down
    <3>12. CASE RemoveRow(m)
      <4>1. CASE todo' = todo
        BY <3>12, <4>1 DEF RemoveRow
      <4>2. CASE todo' = [todo EXCEPT ![m] = todo[m] \ {Max(todo[m])}] /\ rows' = Remove(Max(todo[m]))
        <5>1. Max(todo[m]) \notin Names(Kept)
          BY <2>1, <4>2 DEF Remove, Kept, Names
        <5>. QED
          BY <3>12, <4>2, <5>1 DEF RemoveRow
      <4>. QED
        BY <3>12, <4>1, <4>2 DEF RemoveRow
    <3>13. CASE DownDone(m)
      <4>1. todo[m] = {} /\ pc[m] = "down" /\ op'[m] = op[m]
        BY <3>13 DEF DownDone
      <4>2. op[m] = "refresh" => Kept = {}
        BY <4>1 DEF Names
      <4>3. op[m] # "refresh" => pc'[m] = "release"
        BY <3>13 DEF DownDone
      <4>4. pc'[m] \in {"release", "findToRun"}
        BY <3>13 DEF DownDone
      <4>. QED
        BY <4>1, <4>2, <4>3, <4>4
    <3>14. CASE ReadFails(m)
      BY <3>14 DEF ReadFails
    <3>. QED
      BY <1>1, <3>3, <3>4, <3>5, <3>6, <3>7, <3>8, <3>9, <3>10, <3>11, <3>12, <3>13, <3>14
         DEF Operate
  <2>2. CASE rows' # rows /\ AddRow(m)
    <3> DEFINE new == [id |-> NextId, name |-> Min(todo[m]), batch |-> batch[m]]
    <3>1. /\ pc[m] = "add" /\ pc'[m] = "up" /\ batch' = batch
          /\ rows' = rows \cup {new}
      BY <2>2 DEF AddRow, Goto, TypeInv, TypeOK, Add
    <3>2. \A o \in Managers \ {m} : pc'[o] \notin Working
      BY <1>1, <3>1, OthersStand DEF OneWorker, Working, UpSteps
    <3>3. Kept' \subseteq Kept \cup {new}
      BY <1>1, <3>1, OthersStand DEF Kept
    <3>4. \A r \in Kept : r.batch <= new.batch /\ r.id < new.id
      BY <2>0, <3>1, RegistryTops DEF Kept
    <3>5. BatchesInOrder'
      <4> SUFFICES ASSUME NEW r1 \in Kept', NEW r2 \in Kept', r1.id < r2.id
                   PROVE  r1.batch <= r2.batch
        BY DEF BatchesInOrder, Kept
      <4>1. CASE r1 \in Kept /\ r2 \in Kept
        BY <4>1 DEF OrderInv, BatchesInOrder, Kept
      <4>2. CASE r2 = new
        <5>1. batch[m] \in Nat
          BY DEF TypeInv, TypeOK
        <5>. QED
          BY <3>3, <3>4, <4>2, <5>1
      <4>3. CASE r1 = new /\ r2 \in Kept
        <5>1. r2.id < NextId /\ NextId < r2.id
          BY <3>4, <4>3
        <5>2. r2.id \in Nat /\ NextId \in Nat
          BY <4>3, RegistryNumbers DEF Kept, TypeInv, TypeOK
        <5>. QED
          BY <5>1, <5>2
      <4>. QED
        BY <3>3, <4>1, <4>2, <4>3
    <3>6. \A r \in Kept' : r.batch <= batch[m]
      BY <3>3, <3>4 DEF TypeInv, TypeOK
    <3>. QED
      BY <3>1, <3>2, <3>5, <3>6 DEF OrderInv, Working, UpSteps, DownSteps
  <2>3. CASE rows' # rows /\ RemoveRow(m)
    <3>1. /\ pc[m] = "remove" /\ pc'[m] = "down" /\ op' = op
          /\ rows' = Remove(Max(todo[m])) /\ todo'[m] = todo[m] \ {Max(todo[m])}
      BY <2>3 DEF RemoveRow, Goto, TypeInv, TypeOK
    <3>2. \A o \in Managers \ {m} : pc'[o] \notin Working
      BY <1>1, <3>1, OthersStand DEF OneWorker, Working, DownSteps
    <3>3. Kept' \subseteq Kept /\ Max(todo[m]) \notin Names(Kept')
      BY <1>1, <3>1, OthersStand DEF Kept, Remove, Names
    <3>4. BatchesInOrder'
      BY <3>3 DEF OrderInv, BatchesInOrder, Kept
    <3>5. op[m] = "refresh" => Names(Kept') \subseteq todo'[m]
      BY <2>0, <3>1, <3>3 DEF Names
    <3>. QED
      BY <3>1, <3>2, <3>4, <3>5 DEF OrderInv, Working, UpSteps, DownSteps, Names
  <2>. QED
    BY <1>1, <2>1, <2>2, <2>3, RowsStand
<1>2. CASE \/ \E k \in Migrations : Deploy(k) \/ Withdraw(k)
           \/ Clock
           \/ UNCHANGED vars
  <2>1. gone \subseteq gone'
    BY <1>2 DEF Deploy, Withdraw, Clock, vars
  <2>2. UNCHANGED <<pc, op, todo, batch, rows>>
    BY <1>2, EnvironmentStands
  <2>3. Kept' \subseteq Kept
    BY <2>1, <2>2 DEF Kept
  <2>. QED
    BY <2>2, <2>3 DEF OrderInv, BatchesInOrder, Kept, Names
<1>. QED
  BY <1>1, <1>2 DEF Next

LEMMA Serialized == WorkFitsLease => (Spec => [](TypeInv /\ OneWorker /\ RecordInv))
<1> SUFFICES ASSUME WorkFitsLease PROVE Spec => [](TypeInv /\ OneWorker /\ RecordInv)
  OBVIOUS
<1>1. Init => RecordInv
  BY DEF Init, RecordInv, RecordedOnce
<1>2. TypeInv /\ OneWorker /\ RecordInv /\ [Next]_vars => RecordInv'
  BY RecordInvStep
<1>3. Spec => []OneWorker
  BY ManagersSerialized
<1>. QED
  BY <1>1, <1>2, <1>3, Invariants, PTL DEF Spec

(* With operations that fit their leases, batch numbers do not decrease    *)
(* along the table, whatever is deployed, withdrawn, fails or crashes.     *)
THEOREM BatchOrder ==
  ASSUME WorkFitsLease
  PROVE  Spec => []BatchesInOrder
<1>1. Init => PhaseInv /\ FileInv /\ OrderInv
  BY DEF Init, PhaseInv, FileInv, OrderInv, BatchesInOrder, Names, Kept
<1>2. TypeInv /\ PhaseInv /\ [Next]_vars => PhaseInv'
  BY PhaseInvStep
<1>3. TypeInv /\ FileInv /\ [Next]_vars => FileInv'
  BY FileInvStep
<1>4. TypeInv /\ OneWorker /\ PhaseInv /\ FileInv /\ OrderInv /\ [Next]_vars => OrderInv'
  BY OrderInvStep
<1>5. OrderInv => BatchesInOrder
  BY DEF OrderInv
<1>6. Spec => [](TypeInv /\ OneWorker /\ RecordInv)
  BY Serialized
<1>. QED
  BY <1>1, <1>2, <1>3, <1>4, <1>5, <1>6, PTL DEF Spec

-----------------------------------------------------------------------------
(* What rollback() takes away.                                             *)

(* MAX(batch) stays what rollback() has read while rows of its list are    *)
(* left, and its list holds rows of that number only.                      *)
UndoInv ==
  /\ \A m \in Managers : pc[m] = "findToRollback" /\ op[m] = "rollback" => batch[m] = Last
  /\ \A m \in Managers : pc[m] \in {"down", "remove"} => todo[m] \subseteq Names(rows)
  /\ \A m \in Managers :
       pc[m] \in {"down", "remove"} /\ op[m] = "rollback" =>
         \A r \in rows : r.name \in todo[m] => r.batch = Last

(* Taking rows away does not change MAX(batch) while one with it is left.  *)
LEMMA LastOfSmaller ==
  ASSUME TypeInv, rows' \subseteq rows, NEW r \in rows', r.batch = Last
  PROVE  Last' = Last
<1> DEFINE top == Max({q.batch : q \in rows'})
<1>1. rows \in SUBSET [id : Nat, name : Migrations, batch : Nat] /\ IsFiniteSet(rows)
  BY DEF TypeInv, TypeOK
<1>2. rows' \in SUBSET [id : Nat, name : Migrations, batch : Nat] /\ IsFiniteSet(rows')
  BY <1>1, FS_Subset
<1>3. r.batch <= top /\ \E q \in rows' : q.batch = top
  BY <1>2, TopOfRows
<1>4. \A q \in rows : q.batch <= Last
  BY RegistryTops
<1>5. Last' = top
  BY DEF Last
<1> HIDE DEF top
<1>6. Last \in Nat /\ top \in Nat /\ top <= Last
  BY <1>2, <1>3, <1>4, RegistryNumbers
<1>. QED
  BY <1>3, <1>5, <1>6

LEMMA UndoInvStep ==
  TypeInv /\ OneWorker /\ RecordInv /\ UndoInv /\ [Next]_vars => UndoInv'
<1> SUFFICES ASSUME TypeInv, OneWorker, RecordInv, UndoInv, [Next]_vars PROVE UndoInv'
  OBVIOUS
<1>1. ASSUME NEW m \in Managers, Operate(m) \/ Crash(m) PROVE UndoInv'
  <2> DEFINE Newest(t) == \A r \in rows : r.name \in t => r.batch = Last
             Right(p, o, t, b) ==
               /\ p = "findToRollback" /\ o = "rollback" => b = Last
               /\ p \in {"down", "remove"} => t \subseteq Names(rows)
               /\ p \in {"down", "remove"} /\ o = "rollback" => Newest(t)
  <2>0. Right(pc[m], op[m], todo[m], batch[m])
    BY DEF UndoInv
  <2>1. CASE rows' = rows
    <3>1. \A o \in Managers \ {m} : Right(pc[o], op[o], todo[o], batch[o])
      BY DEF UndoInv
    <3> SUFFICES Right(pc'[m], op'[m], todo'[m], batch'[m])
      <4>1. \A o \in Managers : Right(pc'[o], op'[o], todo'[o], batch'[o])
        BY <1>1, <3>1, OthersStand
      <4>2. Names(rows)' = Names(rows) /\ Last' = Last
        BY <2>1 DEF Names, Last
      <4>. QED
        BY <2>1, <4>1, <4>2 DEF UndoInv, Names
    <3> HIDE DEF Newest
    <3> USE <2>0 DEF TypeInv, TypeOK, Goto, Settle
    <3>2. CASE \E o \in Operations : Begin(m, o)
      BY <3>2 DEF Begin
    <3>3. CASE GetLock(m)
      <4>1. pc'[m] = FirstStep(op[m]) /\ op'[m] = op[m] /\ op[m] \in Operations
        BY <3>3 DEF GetLock
      <4>. QED
        BY <4>1 DEF FirstStep, Operations
    <3>4. CASE MissLock(m) \/ Finally(m) \/ Crash(m)
      BY <3>4 DEF MissLock, Finally, Crash
    <3>5. CASE FindToRun(m)
      BY <3>5 DEF FindToRun
    <3>6. CASE ReadNextBatch(m) \/ Up(m) \/ UpDone(m) \/ ReadLastBatch(m)
      BY <3>6 DEF ReadNextBatch, Up, UpDone, ReadLastBatch
    <3>7. CASE AddRow(m)
      BY <3>7 DEF AddRow
    <3>8. CASE FindToRollback(m)
      <4> DEFINE applied == IF batch[m] = 0 THEN rows ELSE GetBatch(batch[m])
      <4>1. /\ pc[m] = "findToRollback" /\ pc'[m] = "down" /\ op'[m] = op[m]
            /\ todo'[m] = files \cap Names(applied)
        BY <3>8 DEF FindToRollback
      <4>2. applied \subseteq rows
        BY DEF GetBatch
      <4>3. todo'[m] \subseteq Names(rows)
        BY <4>1, <4>2 DEF Names
      <4>4. ASSUME op[m] = "rollback", NEW r \in rows, r.name \in todo'[m]
            PROVE  r.batch = Last
        <5>1. PICK q \in applied : q.name = r.name
          BY <4>1, <4>4 DEF Names
        <5>2. q = r
          BY <4>2, <5>1 DEF RecordInv, RecordedOnce
        <5>3. batch[m] = Last
          BY <4>1, <4>4
        <5>4. CASE Last = 0
          <6>1. r.batch \in Nat /\ r.batch <= Last
            BY RegistryTops
          <6>. QED
            BY <5>4, <6>1
        <5>5. CASE Last # 0
          BY <5>1, <5>2, <5>3, <5>5 DEF GetBatch
        <5>. QED
          BY <5>4, <5>5
      <4>. QED
        BY <4>1, <4>3, <4>4 DEF Newest
    <3>9. CASE Down(m) \/ DownDone(m) \/ ReadFails(m)
      BY <3>9 DEF Down, DownDone, ReadFails
    <3>10. CASE RemoveRow(m)
      <4>1. CASE todo' = todo
        BY <3>10, <4>1 DEF RemoveRow
      <4>2. CASE todo' = [todo EXCEPT ![m] = todo[m] \ {Max(todo[m])}] /\ rows' = Remove(Max(todo[m]))
        BY <3>10, <4>2 DEF RemoveRow, Newest
      <4>. QED
        BY <3>10, <4>1, <4>2 DEF RemoveRow
    <3>. QED
      BY <1>1, <3>2, <3>3, <3>4, <3>5, <3>6, <3>7, <3>8, <3>9, <3>10 DEF Operate
  <2>2. CASE rows' # rows /\ AddRow(m)
    <3>1. pc[m] = "add" /\ pc'[m] = "up"
      BY <2>2 DEF AddRow, Goto, TypeInv, TypeOK
    <3>2. \A o \in Managers \ {m} : pc'[o] \notin Working
      BY <1>1, <3>1, OthersStand DEF OneWorker, Working, UpSteps
    <3>. QED
      BY <3>1, <3>2 DEF UndoInv, Working, DownSteps
  <2>3. CASE rows' # rows /\ RemoveRow(m)
    <3>1. /\ pc[m] = "remove" /\ pc'[m] = "down" /\ op' = op
          /\ rows' = Remove(Max(todo[m])) /\ todo'[m] = todo[m] \ {Max(todo[m])}
      BY <2>3 DEF RemoveRow, Goto, TypeInv, TypeOK
    <3>2. \A o \in Managers \ {m} : pc'[o] \notin Working
      BY <1>1, <3>1, OthersStand DEF OneWorker, Working, DownSteps
    <3>3. rows' \subseteq rows /\ todo'[m] \subseteq Names(rows')
      BY <2>0, <3>1 DEF Remove, Names
    <3>4. ASSUME op[m] = "rollback", NEW r \in rows', r.name \in todo'[m]
          PROVE  r.batch = Last'
      <4>1. r.batch = Last
        BY <2>0, <3>1, <3>3, <3>4
      <4>. QED
        BY <3>3, <4>1, LastOfSmaller
    <3>. QED
      BY <3>1, <3>2, <3>3, <3>4 DEF UndoInv, Working, DownSteps, Names
  <2>. QED
    BY <1>1, <2>1, <2>2, <2>3, RowsStand
<1>2. CASE \/ \E k \in Migrations : Deploy(k) \/ Withdraw(k)
           \/ Clock
           \/ UNCHANGED vars
  BY <1>2, EnvironmentStands DEF UndoInv, Names, Last
<1>. QED
  BY <1>1, <1>2 DEF Next

LEMMA RollbackStep ==
  ASSUME TypeInv, OneWorker, UndoInv, [Next]_vars, NEW r \in rows \ rows',
         NEW m \in Managers, pc[m] = "remove", op[m] = "rollback"
  PROVE  r.batch = Last
<1>1. rows' # rows
  OBVIOUS
<1>2. PICK o \in Managers : Operate(o) \/ Crash(o)
  BY <1>1, EnvironmentStands DEF Next
<1>3. RemoveRow(o)
  <2>1. ~ AddRow(o)
    BY DEF AddRow, Add
  <2>. QED
    BY <1>1, <1>2, <2>1, RowsStand
<1>4. o = m
  BY <1>3 DEF RemoveRow, OneWorker, Working, DownSteps
<1>5. r.name = Max(todo[m])
  BY <1>1, <1>3, <1>4 DEF RemoveRow, Remove
<1>6. Max(todo[m]) \in todo[m]
  BY ListEnds DEF TypeInv
<1>. QED
  BY <1>5, <1>6 DEF UndoInv

(* With operations that fit their leases, rollback() takes away rows of    *)
(* the newest batch only, also after it read 0 from an empty registry.     *)
THEOREM RollbackIsOfNewest ==
  ASSUME WorkFitsLease
  PROVE  Spec => RollbackRemovesNewestBatch
<1>1. Init => UndoInv
  BY DEF Init, UndoInv
<1>2. TypeInv /\ OneWorker /\ RecordInv /\ UndoInv /\ [Next]_vars => UndoInv'
  BY UndoInvStep
<1>3. TypeInv /\ OneWorker /\ UndoInv /\ [Next]_vars =>
        [\A r \in rows \ rows' :
           \A m \in Managers : pc[m] = "remove" /\ op[m] = "rollback" => r.batch = Last]_vars
  BY RollbackStep
<1>4. Spec => [](TypeInv /\ OneWorker /\ RecordInv)
  BY Serialized
<1>. QED
  BY <1>1, <1>2, <1>3, <1>4, PTL DEF Spec, RollbackRemovesNewestBatch

-----------------------------------------------------------------------------
(* Registry and schema.                                                    *)

(* The migrations on which they disagree, those under way apart.           *)
Torn == Unrecorded \ UNION {InFlight(m) : m \in Managers}

(* What up() or down() has just done is in the schema, or out of it.       *)
TearInv ==
  /\ OneTearPerFault
  /\ \A m \in Managers : pc[m] = "add" => Min(todo[m]) \in schema
  /\ \A m \in Managers : pc[m] = "remove" => Max(todo[m]) \notin schema

LEMMA TornIsFinite == TypeInv => IsFiniteSet(Torn) /\ Cardinality(Torn) \in Nat
<1> SUFFICES ASSUME TypeInv PROVE IsFiniteSet(Torn) /\ Cardinality(Torn) \in Nat
  OBVIOUS
<1>1. Torn \subseteq Migrations
  BY DEF Torn, Unrecorded, Names, TypeInv, TypeOK
<1>. QED
  BY <1>1, ManagerAssumption, FS_Subset, FS_CardinalityType

(* A step that tears nothing off, or one migration at the cost of a fault, *)
(* keeps the tears within the faults.                                      *)
LEMMA TearsCounted ==
  ASSUME TypeInv, TypeInv', OneTearPerFault,
         \/ Torn' \subseteq Torn /\ faults' \in {faults, faults + 1}
         \/ (\E k : Torn' \subseteq Torn \cup {k}) /\ faults' = faults + 1
  PROVE  OneTearPerFault'
<1> DEFINE tears == Cardinality(Torn)
           after == Cardinality(Torn')
<1>1. IsFiniteSet(Torn) /\ tears \in Nat
  BY TornIsFinite
<1>2. tears <= faults
  BY DEF OneTearPerFault, Torn
<1>3. faults \in Nat
  BY ManagerAssumption DEF TypeInv, TypeOK
<1>4. CASE Torn' \subseteq Torn /\ faults' \in {faults, faults + 1}
  <2>1. after <= tears /\ after \in Nat
    BY <1>1, <1>4, FS_Subset, FS_CardinalityType
  <2> HIDE DEF after, tears
  <2>2. after <= faults'
    BY <1>1, <1>2, <1>3, <1>4, <2>1
  <2>. QED
    BY <2>2 DEF OneTearPerFault, Torn, after
<1>5. CASE (\E k : Torn' \subseteq Torn \cup {k}) /\ faults' = faults + 1
  <2>1. PICK k : Torn' \subseteq Torn \cup {k}
    BY <1>5
  <2>2. IsFiniteSet(Torn \cup {k}) /\ Cardinality(Torn \cup {k}) \in {tears, tears + 1}
    BY <1>1, FS_AddElement
  <2>3. after <= Cardinality(Torn \cup {k}) /\ after \in Nat
    BY <2>1, <2>2, FS_Subset, FS_CardinalityType
  <2> HIDE DEF after, tears
  <2>4. after <= faults'
    BY <1>1, <1>2, <1>3, <1>5, <2>2, <2>3
  <2>. QED
    BY <2>4 DEF OneTearPerFault, Torn, after
<1>. QED
  BY <1>4, <1>5

LEMMA TearInvStep ==
  TypeInv /\ TypeInv' /\ OneWorker /\ RecordInv /\ UndoInv /\ TearInv /\ [Next]_vars => TearInv'
<1> SUFFICES ASSUME TypeInv, TypeInv', OneWorker, RecordInv, UndoInv, TearInv, [Next]_vars
             PROVE  TearInv'
  OBVIOUS
<1>1. ASSUME NEW m \in Managers, Operate(m) \/ Crash(m) PROVE TearInv'
  <2> DEFINE flight == UNION {InFlight(o) : o \in Managers \ {m}}
             Settled == UNCHANGED <<rows, schema>>
             Done(p, t) ==
               /\ p = "add" => Min(t) \in schema'
               /\ p = "remove" => Max(t) \notin schema'
  <2>1. \A o \in Managers \ {m} : InFlight(o)' = InFlight(o)
    BY <1>1, OthersStand DEF InFlight
  <2>2. UNION {InFlight(o) : o \in Managers} = flight \cup InFlight(m)
    OBVIOUS
  <2>3. (UNION {InFlight(o) : o \in Managers})' = flight \cup InFlight(m)'
    BY <2>1
  <2>4. Torn = (Unrecorded \ flight) \ InFlight(m) /\ Torn' = (Unrecorded' \ flight) \ InFlight(m)'
    BY <2>2, <2>3 DEF Torn
  <2> HIDE DEF flight
(* The two conclusions, from what the step does to m.                      *)
  <2>5. ASSUME \/ Torn' \subseteq Torn /\ faults' \in {faults, faults + 1}
               \/ (\E k : Torn' \subseteq Torn \cup {k}) /\ faults' = faults + 1
        PROVE  OneTearPerFault'
    BY <2>5, TearsCounted DEF TearInv
  <2>6. ASSUME Done(pc'[m], todo'[m]),
               \/ schema' = schema
               \/ pc[m] \in Working
        PROVE  /\ \A o \in Managers : pc'[o] = "add" => Min(todo'[o]) \in schema'
               /\ \A o \in Managers : pc'[o] = "remove" => Max(todo'[o]) \notin schema'
    <3>1. \A o \in Managers \ {m} : Done(pc'[o], todo'[o])
      <4>1. CASE schema' = schema
        BY <1>1, <4>1, OthersStand DEF TearInv
      <4>2. CASE pc[m] \in Working
        BY <1>1, <4>2, OthersStand DEF OneWorker, Working, UpSteps, DownSteps
      <4>. QED
        BY <2>6, <4>1, <4>2
    <3>. QED
      BY <2>6, <3>1
  <2>7. CASE \/ \E o \in Operations : Begin(m, o)
             \/ GetLock(m) \/ MissLock(m) \/ FindToRun(m) \/ ReadNextBatch(m) \/ UpDone(m)
             \/ ReadLastBatch(m) \/ FindToRollback(m) \/ DownDone(m) \/ ReadFails(m)
             \/ Finally(m) \/ Crash(m)
    <3>1. UNCHANGED <<rows, schema>>
      BY <2>7 DEF Begin, GetLock, MissLock, FindToRun, ReadNextBatch, UpDone, ReadLastBatch,
                  FindToRollback, DownDone, ReadFails, Finally, Crash, dataVars
    <3>2. pc'[m] \notin {"add", "remove"}
      <4> USE DEF TypeInv, TypeOK, Goto, Settle
      <4>1. CASE (\E o \in Operations : Begin(m, o)) \/ MissLock(m) \/ Finally(m) \/ Crash(m)
        BY <4>1 DEF Begin, MissLock, Finally, Crash
      <4>2. CASE GetLock(m)
        BY <4>2 DEF GetLock, FirstStep, Operations
      <4>3. CASE FindToRun(m)
        BY <4>3 DEF FindToRun
      <4>4. CASE FindToRollback(m)
        BY <4>4 DEF FindToRollback
      <4>5. CASE ReadNextBatch(m) \/ UpDone(m) \/ ReadLastBatch(m) \/ DownDone(m) \/ ReadFails(m)
        BY <4>5 DEF ReadNextBatch, UpDone, ReadLastBatch, DownDone, ReadFails
      <4>. QED
        BY <2>7, <4>1, <4>2, <4>3, <4>4, <4>5
    <3>3. InFlight(m)' = {}
      BY <3>2 DEF InFlight
    <3>4. Unrecorded' = Unrecorded
      BY <3>1 DEF Unrecorded, Names
    <3>5. CASE pc[m] \notin {"add", "remove"}
      <4>1. InFlight(m) = {}
        BY <3>5 DEF InFlight
      <4>2. faults' \in {faults, faults + 1}
        BY <2>7 DEF Begin, GetLock, MissLock, FindToRun, ReadNextBatch, UpDone, ReadLastBatch,
                    FindToRollback, DownDone, ReadFails, Finally, Crash, Fault
      <4>. QED
        BY <2>4, <2>5, <2>6, <3>1, <3>2, <3>3, <3>4, <4>1, <4>2 DEF TearInv
    <3>6. CASE pc[m] \in {"add", "remove"}
      <4>1. \E k : InFlight(m) = {k}
        BY <3>6 DEF InFlight
      <4>2. faults' = faults + 1
        BY <2>7, <3>6 DEF Begin, GetLock, MissLock, FindToRun, ReadNextBatch, UpDone, ReadLastBatch,
                    FindToRollback, DownDone, ReadFails, Finally, Crash, Fault
      <4>3. \E k : Torn' \subseteq Torn \cup {k}
        BY <2>4, <3>3, <3>4, <4>1
      <4>. QED
        BY <2>5, <2>6, <3>1, <3>2, <4>2, <4>3 DEF TearInv
    <3>. QED
      BY <3>5, <3>6
  <2>8. CASE Up(m)
    <3> DEFINE k == Min(todo[m])
    <3>1. /\ pc[m] = "up" /\ todo[m] # {} /\ todo' = todo /\ rows' = rows
      BY <2>8 DEF Up
    <3>2. k \notin Names(rows)
      BY <3>1, ListEnds DEF RecordInv
    <3>3. Unrecorded' \subseteq Unrecorded \cup {k} /\ InFlight(m) = {}
      BY <2>8, <3>1 DEF Up, Unrecorded, Names, InFlight
    <3>4. CASE pc'[m] = "add" /\ faults' = faults /\ k \in schema'
      <4>1. InFlight(m)' = {k}
        BY <3>1, <3>4 DEF InFlight
      <4>. QED
        BY <2>4, <2>5, <2>6, <3>1, <3>3, <3>4, <4>1 DEF TearInv, Working, UpSteps
    <3>5. CASE pc'[m] = "release" /\ faults' = faults + 1
      <4>1. \E j : Torn' \subseteq Torn \cup {j}
        BY <2>4, <3>3
      <4>. QED
        BY <2>5, <2>6, <3>1, <3>5, <4>1 DEF TearInv, Working, UpSteps
    <3>. QED
      BY <2>8, <3>4, <3>5 DEF Up, Goto, Fault, TypeInv, TypeOK
  <2>9. CASE AddRow(m)
    <3> DEFINE k == Min(todo[m])
    <3>1. pc[m] = "add" /\ schema' = schema /\ InFlight(m) = {k} /\ k \in schema
      BY <2>9 DEF AddRow, InFlight, TearInv
    <3>2. pc'[m] \in {"up", "release"} /\ InFlight(m)' = {}
      BY <2>9 DEF AddRow, InFlight, Goto, TypeInv, TypeOK
    <3>3. CASE rows' = Add(k, batch[m]) /\ faults' = faults
      <4> DEFINE new == [id |-> NextId, name |-> k, batch |-> batch[m]]
      <4>0. rows' = rows \cup {new} /\ new.name = k
        BY <3>3 DEF Add
      <4> HIDE DEF new, k
      <4>1. Names(rows)' = Names(rows) \cup {k}
        BY <4>0 DEF Names
      <4>2. Unrecorded' = Unrecorded \ {k}
        BY <3>1, <4>1 DEF Unrecorded, Names
      <4>. QED
        BY <2>4, <2>5, <2>6, <3>1, <3>2, <3>3, <4>2 DEF TearInv, Working, UpSteps
    <3>4. CASE rows' = rows /\ faults' = faults + 1
      <4>1. Unrecorded' = Unrecorded
        BY <3>1, <3>4 DEF Unrecorded, Names
      <4>2. \E j : Torn' \subseteq Torn \cup {j}
        BY <2>4, <3>1, <3>2, <4>1
      <4>. QED
        BY <2>5, <2>6, <3>1, <3>2, <3>4, <4>2 DEF TearInv, Working, UpSteps
    <3>. QED
      BY <2>9, <3>3, <3>4 DEF AddRow, Fault
  <2>10. CASE Down(m)
    <3> DEFINE k == Max(todo[m])
    <3>1. /\ pc[m] = "down" /\ todo[m] # {} /\ todo' = todo /\ rows' = rows
      BY <2>10 DEF Down
    <3>2. k \in Names(rows)
      BY <3>1, ListEnds DEF UndoInv
    <3>3. Unrecorded' \subseteq Unrecorded \cup {k} /\ InFlight(m) = {}
      BY <2>10, <3>1 DEF Down, Unrecorded, Names, InFlight
    <3>4. CASE pc'[m] = "remove" /\ faults' = faults /\ k \notin schema'
      <4>1. InFlight(m)' = {k}
        BY <3>1, <3>4 DEF InFlight
      <4>. QED
        BY <2>4, <2>5, <2>6, <3>1, <3>3, <3>4, <4>1 DEF TearInv, Working, DownSteps
    <3>5. CASE pc'[m] = "release" /\ faults' = faults + 1
      <4>1. \E j : Torn' \subseteq Torn \cup {j}
        BY <2>4, <3>3
      <4>. QED
        BY <2>5, <2>6, <3>1, <3>5, <4>1 DEF TearInv, Working, DownSteps
    <3>. QED
      BY <2>10, <3>4, <3>5 DEF Down, Goto, Fault, TypeInv, TypeOK
  <2>11. CASE RemoveRow(m)
    <3> DEFINE k == Max(todo[m])
    <3>1. pc[m] = "remove" /\ schema' = schema /\ InFlight(m) = {k} /\ k \notin schema
      BY <2>11 DEF RemoveRow, InFlight, TearInv
    <3>2. pc'[m] \in {"down", "release"} /\ InFlight(m)' = {}
      BY <2>11 DEF RemoveRow, InFlight, Goto, TypeInv, TypeOK
    <3>3. CASE rows' = Remove(k) /\ faults' = faults
      <4>1. Names(rows)' = Names(rows) \ {k}
        BY <3>3 DEF Remove, Names
      <4>2. Unrecorded' = Unrecorded \ {k}
        BY <3>1, <4>1 DEF Unrecorded, Names
      <4>. QED
        BY <2>4, <2>5, <2>6, <3>1, <3>2, <3>3, <4>2 DEF TearInv, Working, DownSteps
    <3>4. CASE rows' = rows /\ faults' = faults + 1
      <4>1. Unrecorded' = Unrecorded
        BY <3>1, <3>4 DEF Unrecorded, Names
      <4>2. \E j : Torn' \subseteq Torn \cup {j}
        BY <2>4, <3>1, <3>2, <4>1
      <4>. QED
        BY <2>5, <2>6, <3>1, <3>2, <3>4, <4>2 DEF TearInv, Working, DownSteps
    <3>. QED
      BY <2>11, <3>3, <3>4 DEF RemoveRow, Fault
  <2>. QED
    BY <1>1, <2>7, <2>8, <2>9, <2>10, <2>11 DEF Operate
<1>2. CASE \/ \E k \in Migrations : Deploy(k) \/ Withdraw(k)
           \/ Clock
           \/ UNCHANGED vars
  BY <1>2, EnvironmentStands DEF TearInv, OneTearPerFault, Unrecorded, Names, InFlight
<1>. QED
  BY <1>1, <1>2 DEF Next

(* With operations that fit their leases, the registry and the schema      *)
(* disagree on at most one migration for every crash or failure.           *)
THEOREM TearsAreFaults ==
  ASSUME WorkFitsLease
  PROVE  Spec => []OneTearPerFault
<1>1. Init => UndoInv /\ TearInv
  <2> SUFFICES ASSUME Init PROVE UndoInv /\ TearInv
    OBVIOUS
  <2>1. UndoInv
    BY DEF Init, UndoInv
  <2>2. Unrecorded = {}
    BY DEF Init, Unrecorded, Names
  <2>3. Torn = {}
    BY <2>2 DEF Torn
  <2>4. Cardinality(Torn) = 0 /\ faults = 0
    BY <2>3, FS_EmptySet DEF Init
  <2>5. OneTearPerFault
    BY <2>4 DEF Torn, OneTearPerFault
  <2>. QED
    BY <2>1, <2>5 DEF Init, TearInv
<1>2. TypeInv /\ OneWorker /\ RecordInv /\ UndoInv /\ [Next]_vars => UndoInv'
  BY UndoInvStep
<1>3. TypeInv /\ TypeInv' /\ OneWorker /\ RecordInv /\ UndoInv /\ TearInv /\ [Next]_vars => TearInv'
  BY TearInvStep
<1>4. TearInv => OneTearPerFault
  BY DEF TearInv
<1>5. Spec => [](TypeInv /\ OneWorker /\ RecordInv)
  BY Serialized
<1>. QED
  BY <1>1, <1>2, <1>3, <1>4, <1>5, PTL DEF Spec
=============================================================================
