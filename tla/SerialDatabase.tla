----------------------------- MODULE SerialDatabase -----------------------------
(***************************************************************************)
(* What the Database contract of packages/db/src/interfaces.ts promises    *)
(* the callers of one connection: every call happens at one instant, with  *)
(* all of its writes on top of the store it saw, or not at all.            *)
(***************************************************************************)
CONSTANTS
  Calls,    \* the calls of get, all, run, transaction and close
  Values    \* what a write may put into the store

VARIABLES
  store,    \* the values committed to the database
  outcome,  \* outcome[c]: "pending", "resolved" or "rejected"
  saw,      \* saw[c]: the store that a resolved call worked on
  wrote     \* wrote[c]: the writes that a resolved call was told are done

vars == <<store, outcome, saw, wrote>>

Init ==
  /\ store = {}
  /\ outcome = [c \in Calls |-> "pending"]
  /\ saw = [c \in Calls |-> {}]
  /\ wrote = [c \in Calls |-> {}]

Resolve(c, W) ==
  /\ outcome[c] = "pending"
  /\ outcome' = [outcome EXCEPT ![c] = "resolved"]
  /\ saw' = [saw EXCEPT ![c] = store]
  /\ wrote' = [wrote EXCEPT ![c] = W]
  /\ store' = store \cup W

Reject(c) ==
  /\ outcome[c] = "pending"
  /\ outcome' = [outcome EXCEPT ![c] = "rejected"]
  /\ UNCHANGED <<store, saw, wrote>>

(* Another connection to the same database file commits.                   *)
Outside(W) ==
  /\ store' = store \cup W
  /\ UNCHANGED <<outcome, saw, wrote>>

Next ==
  \/ \E c \in Calls, W \in SUBSET Values : Resolve(c, W)
  \/ \E c \in Calls : Reject(c)
  \/ \E W \in SUBSET Values : Outside(W)

Spec == Init /\ [][Next]_vars
=============================================================================
