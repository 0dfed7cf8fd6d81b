------------------------------ MODULE SqliteProofs ------------------------------
(***************************************************************************)
(* SQLiteDB keeps the Database contract, for any number of calls and any   *)
(* length of transaction: the queue gives the connection to one call at a  *)
(* time, and what the call's transaction writes is in its draft until the  *)
(* COMMIT that ends it.                                                    *)
(***************************************************************************)
EXTENDS SqliteDB, TLAPS

Statuses == {"new", "queued", "body", "rollback", "resolved", "rejected"}

(* Tickets are distinct, and tell how far their calls have come: those     *)
(* below `serving` have settled, those above wait, and only the call that  *)
(* holds it can be inside a transaction.                                   *)
QueueInv ==
  /\ serving # 0 /\ serving <= tail + 1
  /\ \A c \in Calls : status[c] = "new" <=> ticket[c] = 0
  /\ \A c \in Calls : ticket[c] <= tail
  /\ \A c, d \in Calls : ticket[c] = ticket[d] => c = d \/ ticket[c] = 0
  /\ \A c \in Calls : Settled(c) => ticket[c] < serving
  /\ \A c \in Calls : status[c] = "queued" => ticket[c] >= serving
  /\ \A c \in Calls : status[c] \in InTransaction => ticket[c] = serving

(* A callback that runs has the transaction and the file's lock, works on  *)
(* the committed store it saw first, and its writes are the draft.         *)
DraftInv ==
  /\ NoLeakedTransaction
  /\ \A c \in Calls : status[c] = "body" =>
       open /\ reserved /\ saw[c] = store /\ wrote[c] = draft
  /\ \A c \in Calls : status[c] \in {"new", "queued"} => wrote[c] = {}

Inv == TypeOK /\ QueueInv /\ DraftInv

LEMMA InitInv == Init => Inv
<1> SUFFICES ASSUME Init PROVE Inv
  OBVIOUS
<1>1. TypeOK
  BY DEF Init, TypeOK
<1>2. QueueInv
  BY DEF Init, QueueInv, Settled, InTransaction
<1>3. DraftInv
  BY DEF Init, DraftInv, NoLeakedTransaction
<1>. QED
  BY <1>1, <1>2, <1>3 DEF Inv

(* When it is the turn of a waiting call, the connection is clean.         *)
LEMMA TurnIsClean ==
  ASSUME Inv, NEW c \in Calls, status[c] = "queued", ticket[c] = serving
  PROVE  /\ \A d \in Calls : status[d] \notin InTransaction
         /\ ~open /\ ~reserved /\ draft = {}
<1>1. \A d \in Calls : status[d] \notin InTransaction
  BY DEF Inv, QueueInv, InTransaction
<1>. QED
  BY <1>1 DEF Inv, DraftInv, NoLeakedTransaction

(* While a callback runs no other call is inside a transaction.            *)
LEMMA BodyIsAlone ==
  ASSUME Inv, NEW c \in Calls, status[c] \in InTransaction
  PROVE  \A d \in Calls : status[d] \in InTransaction => d = c
BY DEF Inv, QueueInv
-----------------------------------------------------------------------------
(* Types.                                                                  *)

LEMMA SettleTypes ==
  ASSUME TypeOK, NEW c \in Calls, NEW how \in {"resolved", "rejected"}, Settle(c, how)
  PROVE  /\ kind' \in [Calls -> Kinds \cup {"none"}]
         /\ status' \in [Calls -> Statuses]
         /\ ticket' \in [Calls -> Nat]
         /\ tail' \in Nat /\ serving' \in Nat
         /\ awaits' \in [Calls -> Calls]
BY DEF TypeOK, Settle, Statuses

LEMMA ConnTypes ==
  ASSUME TypeOK, UNCHANGED connVars \/ AutoRollback
  PROVE  /\ handle' \in {"open", "closed"}
         /\ open' \in BOOLEAN /\ reserved' \in BOOLEAN
         /\ draft' \subseteq Values /\ store' \subseteq Values
BY DEF TypeOK, connVars, AutoRollback

LEMMA WriteTypes ==
  ASSUME TypeOK, NEW v \in Values, Write(v)
  PROVE  /\ handle' \in {"open", "closed"}
         /\ open' \in BOOLEAN /\ reserved' \in BOOLEAN
         /\ draft' \subseteq Values /\ store' \subseteq Values
BY DEF TypeOK, Write

LEMMA TypeStep == TypeOK /\ [Next]_vars => TypeOK'
<1> SUFFICES ASSUME TypeOK, [Next]_vars PROVE TypeOK'
  OBVIOUS
<1> USE DEF Statuses
<1>1. ASSUME NEW c \in Calls, NEW k \in Kinds, Call(c, k) PROVE TypeOK'
  BY <1>1 DEF Call, Enqueue, TypeOK, connVars
<1>2. ASSUME NEW c \in Calls, RunStatement(c) PROVE TypeOK'
  <2>1. PICK how \in {"resolved", "rejected"} : Settle(c, how)
    BY <1>2 DEF RunStatement
  <2>2. <<c, 1>> \in Values
    BY CallsAssumption DEF Values
  <2>3. Write(<<c, 1>>) \/ UNCHANGED connVars
    BY <1>2 DEF RunStatement
  <2>4. saw' \in [Calls -> SUBSET Values] /\ wrote' \in [Calls -> SUBSET Values]
    BY <1>2, <2>2 DEF RunStatement, TypeOK
  <2>. QED
    BY <2>1, <2>2, <2>3, <2>4, SettleTypes, WriteTypes, ConnTypes DEF TypeOK
<1>3. ASSUME NEW c \in Calls, Begin(c) PROVE TypeOK'
  <2>1. CASE Settle(c, "rejected") /\ UNCHANGED <<connVars, saw, wrote>>
    BY <2>1, SettleTypes, ConnTypes DEF TypeOK
  <2>2. CASE /\ status' = [status EXCEPT ![c] = "body"]
             /\ saw' = [saw EXCEPT ![c] = store]
             /\ open' = TRUE /\ reserved' = TRUE
             /\ UNCHANGED <<kind, queueVars, awaits, handle, draft, store, wrote>>
    BY <2>2 DEF TypeOK, queueVars
  <2>. QED
    BY <1>3, <2>1, <2>2 DEF Begin
<1>4. ASSUME NEW c \in Calls, Throw(c) PROVE TypeOK'
  <2>1. UNCHANGED connVars \/ AutoRollback
    BY <1>4 DEF Throw
  <2>. QED
    BY <1>4, <2>1, ConnTypes DEF Throw, TypeOK, queueVars
<1>5. ASSUME NEW c \in Calls, Commit(c) PROVE TypeOK'
  <2>1. CASE /\ store' = store \cup draft /\ draft' = {}
             /\ open' = FALSE /\ reserved' = FALSE
             /\ Settle(c, "resolved")
             /\ UNCHANGED <<handle, saw, wrote>>
    BY <2>1, SettleTypes DEF TypeOK
  <2>2. CASE /\ status' = [status EXCEPT ![c] = "rollback"]
             /\ UNCHANGED connVars \/ AutoRollback
             /\ UNCHANGED <<kind, queueVars, awaits, saw, wrote>>
    BY <2>2, ConnTypes DEF TypeOK, queueVars
  <2>. QED
    BY <1>5, <2>1, <2>2 DEF Commit
<1>6. ASSUME NEW c \in Calls, Rollback(c) PROVE TypeOK'
  BY <1>6, SettleTypes, ConnTypes DEF Rollback, TypeOK
<1>7. ASSUME NEW c \in Calls, Close(c) PROVE TypeOK'
  <2>1. PICK how \in {"resolved", "rejected"} : Settle(c, how)
    BY <1>7 DEF Close
  <2>2. /\ handle' \in {"open", "closed"}
        /\ UNCHANGED <<open, reserved, draft, store, wrote>>
        /\ saw' \in [Calls -> SUBSET Values]
    BY <1>7 DEF Close, TypeOK, connVars
  <2>. QED
    BY <2>1, <2>2, SettleTypes DEF TypeOK
<1>8. ASSUME NEW c \in Calls, NEW i \in 1..MaxStatements, SessionWrite(c, i) PROVE TypeOK'
  <2>1. <<c, i>> \in Values
    BY DEF Values
  <2>2. wrote' \in [Calls -> SUBSET Values]
    BY <1>8, <2>1 DEF SessionWrite, TypeOK
  <2>. QED
    BY <1>8, <2>1, <2>2, WriteTypes DEF SessionWrite, TypeOK, queueVars
<1>9. ASSUME NEW c \in Calls, NEW d \in Calls, NEW k \in Kinds, OuterCall(c, d, k)
      PROVE  TypeOK'
  BY <1>9 DEF OuterCall, Enqueue, TypeOK, connVars
<1>10. CASE OutsideCommit
  BY <1>10 DEF OutsideCommit, TypeOK, queueVars, Values
<1>11. CASE UNCHANGED vars
  BY <1>11 DEF vars, TypeOK, queueVars, connVars
<1>. QED
  BY <1>1, <1>2, <1>3, <1>4, <1>5, <1>6, <1>7, <1>8, <1>9, <1>10, <1>11 DEF Next, Progress
-----------------------------------------------------------------------------
(* The queue.                                                              *)

LEMMA EnqueueQueue ==
  ASSUME TypeOK, QueueInv, NEW c \in Calls, NEW k \in Kinds, Enqueue(c, k),
         status' = [status EXCEPT ![c] = "queued"], serving' = serving
  PROVE  QueueInv'
BY DEF TypeOK, QueueInv, Enqueue, Settled, InTransaction

(* The call whose ticket is served settles and the next one is served.     *)
LEMMA SettleQueue ==
  ASSUME TypeOK, QueueInv, NEW c \in Calls, NEW how \in {"resolved", "rejected"},
         Settle(c, how), ticket[c] = serving
  PROVE  QueueInv'
<1>1. \A d \in Calls : d # c => status'[d] = status[d] /\ ticket[d] # serving
  BY DEF TypeOK, QueueInv, Settle
<1>2. status'[c] = how
  BY DEF TypeOK, Settle
<1>. QED
  BY <1>1, <1>2 DEF TypeOK, QueueInv, Settle, Settled, InTransaction

(* The served call moves on inside its transaction.                        *)
LEMMA MoveQueue ==
  ASSUME TypeOK, QueueInv, NEW c \in Calls, NEW s \in {"body", "rollback"},
         status' = [status EXCEPT ![c] = s], UNCHANGED queueVars,
         ticket[c] = serving
  PROVE  QueueInv'
BY DEF TypeOK, QueueInv, queueVars, Settled, InTransaction

LEMMA QueueStep == TypeOK /\ QueueInv /\ [Next]_vars => QueueInv'
<1> SUFFICES ASSUME TypeOK, QueueInv, [Next]_vars PROVE QueueInv'
  OBVIOUS
<1>1. ASSUME NEW c \in Calls, NEW k \in Kinds, Call(c, k) PROVE QueueInv'
  BY <1>1, EnqueueQueue DEF Call
<1>2. ASSUME NEW c \in Calls, RunStatement(c) PROVE QueueInv'
  <2>1. PICK how \in {"resolved", "rejected"} : Settle(c, how)
    BY <1>2 DEF RunStatement
  <2>. QED
    BY <1>2, <2>1, SettleQueue DEF RunStatement, Turn
<1>3. ASSUME NEW c \in Calls, Begin(c) PROVE QueueInv'
  <2>1. ticket[c] = serving
    BY <1>3 DEF Begin, Turn
  <2>2. CASE Settle(c, "rejected")
    BY <2>1, <2>2, SettleQueue
  <2>3. CASE status' = [status EXCEPT ![c] = "body"] /\ UNCHANGED queueVars
    BY <2>1, <2>3, MoveQueue
  <2>. QED
    BY <1>3, <2>2, <2>3 DEF Begin
<1>4. ASSUME NEW c \in Calls, Throw(c) PROVE QueueInv'
  BY <1>4, MoveQueue DEF Throw, InBody, QueueInv, InTransaction
<1>5. ASSUME NEW c \in Calls, Commit(c) PROVE QueueInv'
  <2>1. ticket[c] = serving
    BY <1>5 DEF Commit, InBody, QueueInv, InTransaction
  <2>2. CASE Settle(c, "resolved")
    BY <2>1, <2>2, SettleQueue
  <2>3. CASE status' = [status EXCEPT ![c] = "rollback"] /\ UNCHANGED queueVars
    BY <2>1, <2>3, MoveQueue
  <2>. QED
    BY <1>5, <2>2, <2>3 DEF Commit
<1>6. ASSUME NEW c \in Calls, Rollback(c) PROVE QueueInv'
  BY <1>6, SettleQueue DEF Rollback, QueueInv, InTransaction
<1>7. ASSUME NEW c \in Calls, Close(c) PROVE QueueInv'
  <2>1. PICK how \in {"resolved", "rejected"} : Settle(c, how)
    BY <1>7 DEF Close
  <2>. QED
    BY <1>7, <2>1, SettleQueue DEF Close, Turn
<1>8. ASSUME NEW c \in Calls, NEW i \in 1..MaxStatements, SessionWrite(c, i)
      PROVE  QueueInv'
  BY <1>8 DEF SessionWrite, QueueInv, queueVars, Settled, InTransaction
<1>9. ASSUME NEW c \in Calls, NEW d \in Calls, NEW k \in Kinds, OuterCall(c, d, k)
      PROVE  QueueInv'
  BY <1>9, EnqueueQueue DEF OuterCall
<1>10. CASE OutsideCommit
  BY <1>10 DEF OutsideCommit, QueueInv, queueVars, Settled, InTransaction
<1>11. CASE UNCHANGED vars
  BY <1>11 DEF vars, QueueInv, queueVars, Settled, InTransaction
<1>. QED
  BY <1>1, <1>2, <1>3, <1>4, <1>5, <1>6, <1>7, <1>8, <1>9, <1>10, <1>11 DEF Next, Progress
-----------------------------------------------------------------------------
(* The connection.                                                         *)

(* A call that settles at its turn, writing to the store or not at all.    *)
LEMMA SettleDraft ==
  ASSUME Inv, NEW c \in Calls, status[c] = "queued", ticket[c] = serving,
         NEW how \in {"resolved", "rejected"}, Settle(c, how),
         UNCHANGED <<open, reserved, draft>>,
         \A d \in Calls : d # c => wrote'[d] = wrote[d]
  PROVE  DraftInv'
<1>1. \A d \in Calls : status[d] \notin InTransaction
  BY TurnIsClean
<1>2. ~open /\ ~reserved /\ draft = {}
  BY TurnIsClean
<1>3. status'[c] = how /\ \A d \in Calls : d # c => status'[d] = status[d]
  BY DEF Inv, TypeOK, Settle
<1>. QED
  BY <1>1, <1>2, <1>3 DEF Inv, DraftInv, NoLeakedTransaction, InTransaction

(* The callback's transaction goes to its rollback, ended or not.          *)
LEMMA FailDraft ==
  ASSUME Inv, NEW c \in Calls, status[c] = "body",
         status' = [status EXCEPT ![c] = "rollback"],
         UNCHANGED <<saw, wrote>>
  PROVE  DraftInv'
<1>1. status'[c] = "rollback" /\ \A d \in Calls : d # c => status'[d] = status[d]
  BY DEF Inv, TypeOK
<1>2. \A d \in Calls : status'[d] # "body"
  BY <1>1, BodyIsAlone DEF InTransaction
<1>. QED
  BY <1>1, <1>2 DEF Inv, DraftInv, NoLeakedTransaction, InTransaction

LEMMA EnqueueDraft ==
  ASSUME Inv, NEW c \in Calls, status[c] = "new",
         status' = [status EXCEPT ![c] = "queued"],
         UNCHANGED <<connVars, saw, wrote>>
  PROVE  DraftInv'
<1>1. status'[c] = "queued" /\ \A d \in Calls : d # c => status'[d] = status[d]
  BY DEF Inv, TypeOK
<1>. QED
  BY <1>1 DEF Inv, DraftInv, NoLeakedTransaction, InTransaction, connVars

LEMMA EndDraft ==
  ASSUME Inv, NEW c \in Calls, status[c] \in InTransaction,
         NEW how \in {"resolved", "rejected"}, Settle(c, how),
         ~open', ~reserved', draft' = {}, UNCHANGED wrote
  PROVE  DraftInv'
<1>1. status'[c] = how /\ \A d \in Calls : d # c => status'[d] = status[d]
  BY DEF Inv, TypeOK, Settle
<1>2. \A d \in Calls : status'[d] # "body"
  BY <1>1, BodyIsAlone DEF InTransaction
<1>. QED
  BY <1>1, <1>2 DEF Inv, DraftInv, NoLeakedTransaction

LEMMA DraftStep == Inv /\ [Next]_vars => DraftInv'
<1> SUFFICES ASSUME Inv, [Next]_vars PROVE DraftInv'
  OBVIOUS
<1>1. ASSUME NEW c \in Calls, NEW k \in Kinds, Call(c, k) PROVE DraftInv'
  BY <1>1, EnqueueDraft DEF Call, Enqueue
<1>2. ASSUME NEW c \in Calls, RunStatement(c) PROVE DraftInv'
  <2>1. PICK how \in {"resolved", "rejected"} : Settle(c, how)
    BY <1>2 DEF RunStatement
  <2>2. status[c] = "queued" /\ ticket[c] = serving
    BY <1>2 DEF RunStatement, Turn
  <2>3. UNCHANGED <<open, reserved, draft>>
    BY <1>2, <2>2, TurnIsClean DEF RunStatement, Write, connVars
  <2>4. \A d \in Calls : d # c => wrote'[d] = wrote[d]
    BY <1>2 DEF RunStatement, Inv, TypeOK
  <2>. QED
    BY <2>1, <2>2, <2>3, <2>4, SettleDraft
<1>3. ASSUME NEW c \in Calls, Begin(c) PROVE DraftInv'
  <2>1. status[c] = "queued" /\ ticket[c] = serving
    BY <1>3 DEF Begin, Turn
  <2>2. CASE Settle(c, "rejected") /\ UNCHANGED <<connVars, saw, wrote>>
    BY <2>1, <2>2, SettleDraft DEF connVars
  <2>3. CASE /\ status' = [status EXCEPT ![c] = "body"]
             /\ saw' = [saw EXCEPT ![c] = store]
             /\ open' = TRUE /\ reserved' = TRUE
             /\ UNCHANGED <<draft, store, wrote>>
    <3>1. status'[c] = "body" /\ \A d \in Calls : d # c => status'[d] = status[d]
      BY <2>3 DEF Inv, TypeOK
    <3>2. \A d \in Calls : status'[d] = "body" => d = c
      BY <3>1, <2>1, TurnIsClean DEF InTransaction
    <3>3. wrote[c] = {} /\ draft = {}
      BY <2>1, TurnIsClean DEF Inv, DraftInv
    <3>4. saw'[c] = store
      BY <2>3 DEF Inv, TypeOK
    <3>. QED
      BY <2>3, <3>1, <3>2, <3>3, <3>4 DEF Inv, DraftInv, NoLeakedTransaction, InTransaction
  <2>. QED
    BY <1>3, <2>2, <2>3 DEF Begin
<1>4. ASSUME NEW c \in Calls, Throw(c) PROVE DraftInv'
  BY <1>4, FailDraft DEF Throw, InBody
<1>5. ASSUME NEW c \in Calls, Commit(c) PROVE DraftInv'
  <2>1. status[c] = "body"
    BY <1>5 DEF Commit, InBody
  <2>2. CASE /\ draft' = {} /\ open' = FALSE /\ reserved' = FALSE
             /\ Settle(c, "resolved") /\ UNCHANGED wrote
    BY <2>1, <2>2, EndDraft DEF InTransaction
  <2>3. CASE status' = [status EXCEPT ![c] = "rollback"] /\ UNCHANGED <<saw, wrote>>
    BY <2>1, <2>3, FailDraft
  <2>. QED
    BY <1>5, <2>2, <2>3 DEF Commit
<1>6. ASSUME NEW c \in Calls, Rollback(c) PROVE DraftInv'
  BY <1>6, EndDraft DEF Rollback, AutoRollback, InTransaction
<1>7. ASSUME NEW c \in Calls, Close(c) PROVE DraftInv'
  <2>1. PICK how \in {"resolved", "rejected"} : Settle(c, how)
    BY <1>7 DEF Close
  <2>2. UNCHANGED <<open, reserved, draft, wrote>>
    BY <1>7 DEF Close, connVars
  <2>. QED
    BY <1>7, <2>1, <2>2, SettleDraft DEF Close, Turn
<1>8. ASSUME NEW c \in Calls, NEW i \in 1..MaxStatements, SessionWrite(c, i)
      PROVE  DraftInv'
  <2>1. status[c] = "body" /\ UNCHANGED <<status, saw, open, reserved>>
    BY <1>8 DEF SessionWrite, InBody, Write
  <2>2. open /\ reserved /\ saw[c] = store /\ wrote[c] = draft
    BY <2>1 DEF Inv, DraftInv
  <2>3. draft' = draft \cup {<<c, i>>} /\ store' = store
    BY <1>8, <2>2 DEF SessionWrite, Write
  <2>4. wrote'[c] = wrote[c] \cup {<<c, i>>} /\ \A d \in Calls : d # c => wrote'[d] = wrote[d]
    BY <1>8 DEF SessionWrite, Inv, TypeOK
  <2>5. \A d \in Calls : status[d] = "body" => d = c
    BY <2>1, BodyIsAlone DEF InTransaction
  <2>. QED
    BY <2>1, <2>2, <2>3, <2>4, <2>5 DEF Inv, DraftInv, NoLeakedTransaction, InTransaction
<1>9. ASSUME NEW c \in Calls, NEW d \in Calls, NEW k \in Kinds, OuterCall(c, d, k)
      PROVE  DraftInv'
  BY <1>9, EnqueueDraft DEF OuterCall, Enqueue
<1>10. CASE OutsideCommit
  BY <1>10 DEF OutsideCommit, Inv, DraftInv, NoLeakedTransaction
<1>11. CASE UNCHANGED vars
  BY <1>11 DEF vars, connVars, Inv, DraftInv, NoLeakedTransaction
<1>. QED
  BY <1>1, <1>2, <1>3, <1>4, <1>5, <1>6, <1>7, <1>8, <1>9, <1>10, <1>11 DEF Next, Progress

LEMMA InvStep == Inv /\ [Next]_vars => Inv'
BY TypeStep, QueueStep, DraftStep DEF Inv

LEMMA Invariance == Spec => []Inv
<1>1. Init => Inv
  BY InitInv
<1>2. Inv /\ [Next]_vars => Inv'
  BY InvStep
<1>. QED
  BY <1>1, <1>2, PTL DEF Spec
(* Every variable keeps its type.                                          *)
THEOREM SqliteTypes == Spec => []TypeOK
BY Invariance, PTL DEF Inv

(* SQLiteDB answers calls in the order in which they were made: nothing    *)
(* that a callback or a failing statement does lets a later call overtake. *)
THEOREM SqliteSettlesInOrder == Spec => []SettleInOrder
<1>1. Inv => SettleInOrder
  BY DEF Inv, TypeOK, QueueInv, SettleInOrder, Settled, InTransaction
<1>. QED
  BY <1>1, Invariance, PTL

(* No failure of BEGIN, of a statement, of COMMIT or of ROLLBACK leaves a  *)
(* transaction of SQLiteDB open for the next caller.                       *)
THEOREM SqliteLeaksNothing == Spec => []NoLeakedTransaction
BY Invariance, PTL DEF Inv, DraftInv
-----------------------------------------------------------------------------
(* Refinement: a call takes effect at the step that settles it.            *)

Outcome == [c \in Calls |-> IF Settled(c) THEN status[c] ELSE "pending"]
Saw == [c \in Calls |-> IF status[c] = "resolved" THEN saw[c] ELSE {}]
Wrote == [c \in Calls |-> IF status[c] = "resolved" THEN wrote[c] ELSE {}]

(* A step in which nothing settles and nothing is committed stutters.      *)
LEMMA HiddenStep ==
  ASSUME Inv, NEW c \in Calls, NEW s \in Statuses \ {"resolved", "rejected"},
         status' = [status EXCEPT ![c] = s], ~Settled(c), store' = store,
         \A d \in Calls : d # c => saw'[d] = saw[d] /\ wrote'[d] = wrote[d]
  PROVE  UNCHANGED <<store, Outcome, Saw, Wrote>>
<1>1. status'[c] = s /\ \A d \in Calls : d # c => status'[d] = status[d]
  BY DEF Inv, TypeOK
<1>2. \A d \in Calls : Outcome'[d] = Outcome[d] /\ Saw'[d] = Saw[d] /\ Wrote'[d] = Wrote[d]
  BY <1>1 DEF Outcome, Saw, Wrote, Settled, Statuses
<1>3. Outcome' = Outcome
  BY <1>2 DEF Outcome
<1>4. Saw' = Saw
  BY <1>2 DEF Saw
<1>5. Wrote' = Wrote
  BY <1>2 DEF Wrote
<1>. QED
  BY <1>3, <1>4, <1>5

LEMMA RejectStep ==
  ASSUME Inv, NEW c \in Calls, ~Settled(c),
         Settle(c, "rejected"), UNCHANGED <<store, saw, wrote>>
  PROVE  Contract!Reject(c)
<1>1. status'[c] = "rejected" /\ \A d \in Calls : d # c => status'[d] = status[d]
  BY DEF Inv, TypeOK, Settle
<1>2. Outcome[c] = "pending"
  BY DEF Outcome
<1>3. Outcome' = [Outcome EXCEPT ![c] = "rejected"]
  BY <1>1 DEF Outcome, Settled
<1>4. Saw' = Saw
  BY <1>1 DEF Saw, Settled
<1>5. Wrote' = Wrote
  BY <1>1 DEF Wrote, Settled
<1>. QED
  BY <1>2, <1>3, <1>4, <1>5 DEF Contract!Reject, Outcome, Saw, Wrote

LEMMA ResolveStep ==
  ASSUME Inv, NEW c \in Calls, ~Settled(c), NEW W \in SUBSET Values,
         Settle(c, "resolved"), store' = store \cup W,
         saw' = [saw EXCEPT ![c] = store], wrote' = [wrote EXCEPT ![c] = W]
  PROVE  Contract!Resolve(c, W)
<1>1. status'[c] = "resolved" /\ \A d \in Calls : d # c => status'[d] = status[d]
  BY DEF Inv, TypeOK, Settle
<1>2. /\ saw'[c] = store /\ wrote'[c] = W
      /\ \A d \in Calls : d # c => saw'[d] = saw[d] /\ wrote'[d] = wrote[d]
  BY DEF Inv, TypeOK
<1>3. Outcome[c] = "pending"
  BY DEF Outcome
<1>4. Outcome' = [Outcome EXCEPT ![c] = "resolved"]
  BY <1>1 DEF Outcome, Settled
<1>5. Saw' = [Saw EXCEPT ![c] = store]
  BY <1>1, <1>2 DEF Saw
<1>6. Wrote' = [Wrote EXCEPT ![c] = W]
  BY <1>1, <1>2 DEF Wrote
<1>. QED
  BY <1>3, <1>4, <1>5, <1>6 DEF Contract!Resolve, Outcome, Saw, Wrote

LEMMA RefineInit == Init => Contract!Init
BY DEF Init, Contract!Init, Settled

LEMMA RefineStep == Inv /\ [Next]_vars => [Contract!Next]_Contract!vars
<1> SUFFICES ASSUME Inv, [Next]_vars PROVE [Contract!Next]_Contract!vars
  OBVIOUS
<1>a. ASSUME UNCHANGED <<store, Outcome, Saw, Wrote>>
      PROVE  [Contract!Next]_Contract!vars
  BY <1>a DEF Contract!vars, Outcome, Saw, Wrote
<1>b. ASSUME NEW c \in Calls, Contract!Reject(c) PROVE [Contract!Next]_Contract!vars
  BY <1>b DEF Contract!Next
<1>c. ASSUME NEW c \in Calls, NEW W \in SUBSET Values, Contract!Resolve(c, W)
      PROVE  [Contract!Next]_Contract!vars
  BY <1>c DEF Contract!Next
<1>1. ASSUME NEW c \in Calls, NEW k \in Kinds, Call(c, k)
      PROVE  [Contract!Next]_Contract!vars
  BY <1>1, <1>a, HiddenStep DEF Call, Enqueue, connVars, Settled, Statuses
<1>2. ASSUME NEW c \in Calls, RunStatement(c) PROVE [Contract!Next]_Contract!vars
  <2>1. ~Settled(c) /\ ~open /\ wrote[c] = {}
    BY <1>2, TurnIsClean DEF RunStatement, Turn, Settled, Inv, DraftInv
  <2>2. CASE /\ Write(<<c, 1>>) /\ saw' = [saw EXCEPT ![c] = store]
             /\ wrote' = [wrote EXCEPT ![c] = {<<c, 1>>}]
             /\ Settle(c, "resolved")
    <3>1. {<<c, 1>>} \in SUBSET Values
      BY CallsAssumption DEF Values
    <3>. QED
      BY <2>1, <2>2, <3>1, <1>c, ResolveStep DEF Write
  <2>3. CASE /\ saw' = [saw EXCEPT ![c] = store] /\ Settle(c, "resolved")
             /\ UNCHANGED <<connVars, wrote>>
    <3>1. wrote' = [wrote EXCEPT ![c] = {}]
      BY <2>1, <2>3 DEF Inv, TypeOK
    <3>. QED
      BY <2>1, <2>3, <3>1, <1>c, ResolveStep DEF connVars
  <2>4. CASE Settle(c, "rejected") /\ UNCHANGED <<connVars, saw, wrote>>
    BY <2>1, <2>4, <1>b, RejectStep DEF connVars
  <2>. QED
    BY <1>2, <2>2, <2>3, <2>4 DEF RunStatement
<1>3. ASSUME NEW c \in Calls, Begin(c) PROVE [Contract!Next]_Contract!vars
  <2>1. ~Settled(c)
    BY <1>3 DEF Begin, Turn, Settled
  <2>2. CASE Settle(c, "rejected") /\ UNCHANGED <<connVars, saw, wrote>>
    BY <2>1, <2>2, <1>b, RejectStep DEF connVars
  <2>3. CASE /\ status' = [status EXCEPT ![c] = "body"]
             /\ saw' = [saw EXCEPT ![c] = store]
             /\ UNCHANGED <<store, wrote>>
    BY <2>1, <2>3, <1>a, HiddenStep DEF Statuses, Inv, TypeOK
  <2>. QED
    BY <1>3, <2>2, <2>3 DEF Begin
<1>4. ASSUME NEW c \in Calls, Throw(c) PROVE [Contract!Next]_Contract!vars
  BY <1>4, <1>a, HiddenStep DEF Throw, InBody, Settled, Statuses, connVars, AutoRollback
<1>5. ASSUME NEW c \in Calls, Commit(c) PROVE [Contract!Next]_Contract!vars
  <2>1. ~Settled(c) /\ saw[c] = store /\ wrote[c] = draft
    BY <1>5 DEF Commit, InBody, Settled, Inv, DraftInv
  <2>2. CASE /\ store' = store \cup draft /\ Settle(c, "resolved")
             /\ UNCHANGED <<saw, wrote>>
    <3>1. saw' = [saw EXCEPT ![c] = store] /\ wrote' = [wrote EXCEPT ![c] = draft]
      BY <2>1, <2>2 DEF Inv, TypeOK
    <3>2. draft \in SUBSET Values
      BY DEF Inv, TypeOK
    <3>. QED
      BY <2>1, <2>2, <3>1, <3>2, <1>c, ResolveStep
  <2>3. CASE /\ status' = [status EXCEPT ![c] = "rollback"]
             /\ UNCHANGED connVars \/ AutoRollback
             /\ UNCHANGED <<saw, wrote>>
    BY <2>1, <2>3, <1>a, HiddenStep DEF Statuses, connVars, AutoRollback
  <2>. QED
    BY <1>5, <2>2, <2>3 DEF Commit
<1>6. ASSUME NEW c \in Calls, Rollback(c) PROVE [Contract!Next]_Contract!vars
  BY <1>6, <1>b, RejectStep DEF Rollback, AutoRollback, Settled
<1>7. ASSUME NEW c \in Calls, Close(c) PROVE [Contract!Next]_Contract!vars
  <2>1. ~Settled(c) /\ wrote[c] = {}
    BY <1>7 DEF Close, Turn, Settled, Inv, DraftInv
  <2>2. CASE /\ saw' = [saw EXCEPT ![c] = store] /\ Settle(c, "resolved")
             /\ UNCHANGED <<store, wrote>>
    <3>1. wrote' = [wrote EXCEPT ![c] = {}]
      BY <2>1, <2>2 DEF Inv, TypeOK
    <3>. QED
      BY <2>1, <2>2, <3>1, <1>c, ResolveStep
  <2>3. CASE Settle(c, "rejected") /\ UNCHANGED <<connVars, saw, wrote>>
    BY <2>1, <2>3, <1>b, RejectStep DEF connVars
  <2>. QED
    BY <1>7, <2>2, <2>3 DEF Close
<1>8. ASSUME NEW c \in Calls, NEW i \in 1..MaxStatements, SessionWrite(c, i)
      PROVE  [Contract!Next]_Contract!vars
  <2>1. /\ status[c] = "body" /\ store' = store
        /\ status' = [status EXCEPT ![c] = "body"]
    BY <1>8 DEF SessionWrite, InBody, Write, Inv, DraftInv, TypeOK
  <2>2. \A d \in Calls : d # c => saw'[d] = saw[d] /\ wrote'[d] = wrote[d]
    BY <1>8 DEF SessionWrite, Inv, TypeOK
  <2>. QED
    BY <2>1, <2>2, <1>a, HiddenStep DEF Settled, Statuses
<1>9. ASSUME NEW c \in Calls, NEW d \in Calls, NEW k \in Kinds, OuterCall(c, d, k)
      PROVE  [Contract!Next]_Contract!vars
  BY <1>9, <1>a, HiddenStep DEF OuterCall, Enqueue, connVars, Settled, Statuses
<1>10. CASE OutsideCommit
  <2>1. {Outsider} \in SUBSET Values
    BY DEF Values
  <2>2. Contract!Outside({Outsider})
    BY <1>10 DEF OutsideCommit, Contract!Outside, Settled
  <2>. QED
    BY <2>1, <2>2 DEF Contract!Next
<1>11. CASE UNCHANGED vars
  BY <1>11, <1>a DEF vars, connVars, Outcome, Saw, Wrote, Settled
<1>. QED
  BY <1>1, <1>2, <1>3, <1>4, <1>5, <1>6, <1>7, <1>8, <1>9, <1>10, <1>11 DEF Next, Progress

(* SQLiteDB keeps the Database contract: whatever fails, and whatever      *)
(* other processes commit to the file, each of its calls happens at one    *)
(* instant, with all of its writes or none.                                *)
THEOREM SqliteImplementsContract == Spec => ImplementsContract
<1>1. Init => Contract!Init
  BY RefineInit
<1>2. Inv /\ [Next]_vars => [Contract!Next]_Contract!vars
  BY RefineStep
<1>. QED
  BY <1>1, <1>2, Invariance, PTL DEF Spec, ImplementsContract, Contract!Spec
=============================================================================
