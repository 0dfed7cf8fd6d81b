---------------------------- MODULE PasswordLogin -----------------------------
(***************************************************************************)
(* A password login, from PasswordAuthenticationService.authenticate       *)
(* (packages/auth/src/password) and DatabasePasswordAuthenticationProtection *)
(* (packages/auth-db/src) to the session that AuthDbController.login of    *)
(* sample/auth-db creates: many attempts at one login name, run at once by *)
(* any number of processes, while the password and the user change.        *)
(*                                                                         *)
(* Every await is a step, and a statement or transaction takes one: see    *)
(* SerialDatabase.  The clock runs between the steps; recordFailure reads  *)
(* it before its statement gets its turn.                                  *)
(***************************************************************************)
EXTENDS Naturals, Sequences, FiniteSets

CONSTANTS
  Clients,      \* the attempts that may run at the same time
  MaxFailures,  \* options.maxFailures
  Window,       \* options.windowMs
  Lock,         \* options.lockMs
  Passwords,    \* the passwords tried and stored
  None,         \* no row, or no password
  MaxClock,     \* bound: the last instant
  MaxAttempts,  \* bound: the attempts of a behaviour
  MaxChanges    \* bound: what other requests do to the user and the password

(* The constructor throws unless every option is a positive integer.       *)
ASSUME OptionsArePositive ==
  /\ MaxFailures \in Nat \ {0} /\ Window \in Nat \ {0} /\ Lock \in Nat \ {0}
  /\ MaxClock \in Nat /\ MaxAttempts \in Nat /\ MaxChanges \in Nat

ASSUME NoneIsNoPassword == None \notin Passwords

VARIABLES
  now,        \* the clock of all processes
  count,      \* failed_attempts of the login's row; 0 when there is no row
  start,      \* window_started_at
  locked,     \* locked_until, 0 for NULL
  password,   \* the password behind password_hash, or None without a credential
  active,     \* whether the user's status is 'active'
  sessions,   \* the active sessions: the password verified, and job.overtaken
  at,         \* at[c]: the step c's attempt takes next, or "idle"
  job,        \* job[c]: what the attempt has been given and has read
  attempts,   \* the attempts so far
  changes,    \* the changes by other requests so far
  failures,   \* history: the failures recorded since the last success
  until,      \* history: the end of the last lock, unless a success ended it
  shut,       \* history: the attempts that began during that lock
  since       \* history: the passwords stored since the sessions were revoked

row == <<count, start, locked>>
user == <<password, active, sessions>>
history == <<failures, until, shut, since>>
vars == <<now, row, user, at, job, attempts, changes, history>>

NoJob == [guess |-> None, seen |-> None, lock |-> 0, clock |-> 0, overtaken |-> FALSE]

-----------------------------------------------------------------------------
At(c, step) == at[c] = step
Goto(c, step) == at' = [at EXCEPT ![c] = step]
Answer(c) == at' = [at EXCEPT ![c] = "idle"] /\ job' = [job EXCEPT ![c] = NoJob]

Init ==
  /\ now = 0
  /\ count = 0 /\ start = 0 /\ locked = 0
  /\ password \in Passwords \cup {None}
  /\ active = TRUE /\ sessions = {}
  /\ at = [c \in Clients |-> "idle"]
  /\ job = [c \in Clients |-> NoJob]
  /\ attempts = 0 /\ changes = 0
  /\ failures = <<>> /\ until = 0 /\ shut = {} /\ since = {password}

Tick ==
  /\ now < MaxClock
  /\ now' = now + 1
  /\ UNCHANGED <<row, user, at, job, attempts, changes, history>>

-----------------------------------------------------------------------------
(* The attempt.                                                            *)

Login(c) ==
  /\ At(c, "idle") /\ attempts < MaxAttempts
  /\ \E p \in Passwords : job' = [job EXCEPT ![c] = [NoJob EXCEPT !.guess = p]]
  /\ attempts' = attempts + 1
  /\ shut' = IF until > now THEN shut \cup {c} ELSE shut \ {c}
  /\ Goto(c, "readLock")
  /\ UNCHANGED <<now, row, user, changes, failures, until, since>>

ReadLock(c) ==
  /\ At(c, "readLock")
  /\ job' = [job EXCEPT ![c].lock = locked]
  /\ Goto(c, "assertAllowed")
  /\ UNCHANGED <<now, row, user, attempts, changes, history>>

(* toFutureDate compares with the clock after the row has been read.       *)
AssertAllowed(c) ==
  /\ At(c, "assertAllowed")
  /\ IF job[c].lock > now THEN Answer(c) ELSE Goto(c, "findByLogin") /\ UNCHANGED job
  /\ UNCHANGED <<now, row, user, attempts, changes, history>>

FindByLogin(c) ==
  /\ At(c, "findByLogin")
  /\ job' = [job EXCEPT ![c].seen = password]
  /\ Goto(c, "verify")
  /\ UNCHANGED <<now, row, user, attempts, changes, history>>

(* A login without a credential hashes the password for as long; either    *)
(* way a failure is dated now, before its statement waits for its turn.    *)
Verify(c) ==
  /\ At(c, "verify")
  /\ IF job[c].guess = job[c].seen
     THEN Goto(c, "findUser") /\ UNCHANGED job
     ELSE Goto(c, "recordFailure") /\ job' = [job EXCEPT ![c].clock = now]
  /\ UNCHANGED <<now, row, user, attempts, changes, history>>

FindUser(c) ==
  /\ At(c, "findUser")
  /\ IF active
     THEN Goto(c, "recordSuccess") /\ UNCHANGED job
     ELSE Goto(c, "recordFailure") /\ job' = [job EXCEPT ![c].clock = now]
  /\ UNCHANGED <<now, row, user, attempts, changes, history>>

(* Mutant: the window never starts again.                                  *)
WindowLasts(date) == count = 0

WindowOver(date) == count = 0 \/ start + Window <= date

NextCount(date) == IF WindowOver(date) THEN 1 ELSE count + 1

(* Mutant: a lock is forgotten when the count no longer calls for it.      *)
LockAnew(date) == IF NextCount(date) >= MaxFailures THEN date + Lock ELSE 0

NextLock(date) ==
  IF locked > date THEN locked
  ELSE IF NextCount(date) >= MaxFailures THEN date + Lock ELSE 0

(* INSERT ... ON CONFLICT DO UPDATE, a single statement.                   *)
RecordFailure(c) ==
  /\ At(c, "recordFailure")
  /\ LET date == job[c].clock
     IN  /\ count' = NextCount(date)
         /\ start' = IF WindowOver(date) THEN date ELSE start
         /\ locked' = NextLock(date)
         /\ failures' = Append(failures, [dated |-> date, recorded |-> now])
         /\ IF locked' \in {0, locked} THEN UNCHANGED <<until, shut>>
            ELSE until' = locked' /\ shut' = {}
  /\ Answer(c)
  /\ UNCHANGED <<now, user, attempts, changes, since>>

RecordSuccess(c) ==
  /\ At(c, "recordSuccess")
  /\ count' = 0 /\ start' = 0 /\ locked' = 0
  /\ failures' = <<>> /\ until' = 0
  /\ Goto(c, "createSession")
  /\ UNCHANGED <<now, user, job, attempts, changes, shut, since>>

(* createRefreshable looks at the status again, in its transaction.        *)
CreateSession(c) ==
  /\ At(c, "createSession")
  /\ active
  /\ sessions' = sessions \cup {[verified |-> job[c].seen, overtaken |-> job[c].overtaken]}
  /\ Answer(c)
  /\ UNCHANGED <<now, row, password, active, attempts, changes, history>>

(* The database or the hasher fails, or the user has been disabled.        *)
Fail(c) ==
  /\ ~At(c, "idle")
  /\ Answer(c)
  /\ UNCHANGED <<now, row, user, attempts, changes, history>>

-----------------------------------------------------------------------------
(* Other requests, each a transaction.                                     *)

Change == changes < MaxChanges /\ changes' = changes + 1 /\ UNCHANGED <<now, row, at, attempts>>

(* DatabasePasswordService.set: an administrator's, sessions stay.         *)
SetPassword ==
  /\ Change
  /\ password' \in Passwords
  /\ since' = since \cup {password'}
  /\ UNCHANGED <<active, sessions, job, failures, until, shut>>

(* Mutant: what set() does in place of change() and reset().               *)
ReplacePassword ==
  /\ Change
  /\ active
  /\ password' \in Passwords
  /\ since' = {password'}
  /\ job' = [c \in Clients |-> [job[c] EXCEPT !.overtaken = ~At(c, "idle")]]
  /\ UNCHANGED <<active, sessions, failures, until, shut>>

(* change() and reset() revoke the sessions in the same transaction.       *)
ChangePassword ==
  /\ Change
  /\ active
  /\ password' \in Passwords /\ sessions' = {}
  /\ since' = {password'}
  /\ job' = [c \in Clients |-> [job[c] EXCEPT !.overtaken = ~At(c, "idle")]]
  /\ UNCHANGED <<active, failures, until, shut>>

UpdateStatus ==
  /\ Change
  /\ active' = ~active
  /\ UNCHANGED <<password, sessions, job, history>>

-----------------------------------------------------------------------------
Attempt(c) ==
  \/ Login(c) \/ ReadLock(c) \/ AssertAllowed(c) \/ FindByLogin(c) \/ Verify(c) \/ FindUser(c)
  \/ RecordFailure(c) \/ RecordSuccess(c) \/ CreateSession(c) \/ Fail(c)

Next ==
  \/ Tick \/ SetPassword \/ ChangePassword \/ UpdateStatus
  \/ \E c \in Clients : Attempt(c)

Spec == Init /\ [][Next]_vars

-----------------------------------------------------------------------------
Steps == {"idle", "readLock", "assertAllowed", "findByLogin", "verify", "findUser",
          "recordFailure", "recordSuccess", "createSession"}

Jobs == [guess : Passwords \cup {None}, seen : Passwords \cup {None}, lock : Nat, clock : Nat,
         overtaken : BOOLEAN]

TypeOK ==
  /\ now \in Nat /\ count \in Nat /\ start \in Nat /\ locked \in Nat
  /\ password \in Passwords \cup {None} /\ active \in BOOLEAN
  /\ sessions \subseteq [verified : Passwords \cup {None}, overtaken : BOOLEAN]
  /\ at \in [Clients -> Steps]
  /\ job \in [Clients -> Jobs]
  /\ attempts \in Nat /\ changes \in Nat
  /\ failures \in Seq([dated : Nat, recorded : Nat])
  /\ until \in Nat /\ shut \subseteq Clients /\ since \subseteq Passwords \cup {None}

(* Once failures have set a lock, no attempt that begins before its end    *)
(* gets its password compared, unless a success has ended the lock:        *)
(* attempts that were already past assertAllowed() neither lift nor        *)
(* shorten it, although they count their failures in a window of their own *)
(* and by a clock that they read earlier.                                  *)
LockHolds ==
  until > now => \A c \in shut : at[c] \in {"idle", "readLock", "assertAllowed"}

(* Nobody is locked out for less than maxFailures failures of one window   *)
(* without a success: counting the attempts that fail at once and late is  *)
(* exact up to the time between the failure and its record.                *)
LockIsDeserved ==
  locked # 0 =>
    \E s \in 0..now :
      Cardinality({i \in DOMAIN failures : /\ failures[i].dated < s + Window
                                           /\ failures[i].recorded >= s}) >= MaxFailures

(* A session that is active was created with a password that has been      *)
(* stored since change() or reset() last revoked the sessions, or its      *)
(* login was under way at that time: then it outlives its password, for    *)
(* authenticate() and createRefreshable() are not one transaction.         *)
SessionsHavePasswords ==
  \A s \in sessions : s.overtaken \/ s.verified \in since
=============================================================================
