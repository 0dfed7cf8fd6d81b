----------------------------- MODULE LoginConsoleProofs -----------------------------
(***************************************************************************)
(* The two ends of a signed-in user.  First the server's: the lock of a    *)
(* login and the sessions it creates, for any number of attempts at once,  *)
(* any options and any bounds.  Then the browser's: what the dashboard     *)
(* waits for, and the tokens it presents, for any number of calls at once. *)
(***************************************************************************)
EXTENDS PasswordLogin, AdminConsole, FiniteSetTheorems, TLAPS

Failures == [dated : Nat, recorded : Nat]

USE OptionsArePositive DEF row, user, history

(* An attempt's record has the fields of NoJob, whatever it has read.      *)
LEMMA JobsHold ==
  /\ NoJob \in Jobs
  /\ \A p \in Passwords : [NoJob EXCEPT !.guess = p] \in Jobs
  /\ \A j \in Jobs, p \in Passwords \cup {None}, n \in Nat, b \in BOOLEAN :
       /\ [j EXCEPT !.seen = p] \in Jobs
       /\ [j EXCEPT !.lock = n] \in Jobs
       /\ [j EXCEPT !.clock = n] \in Jobs
       /\ [j EXCEPT !.overtaken = b] \in Jobs
BY DEF NoJob, Jobs

LEMMA InitTypes == Init => TypeOK
BY JobsHold DEF Init, TypeOK, Steps

(* A step of an attempt that ends it, or that goes on with its record.     *)
LEMMA AnswerTypes ==
  ASSUME TypeOK, NEW c \in Clients, Answer(c)
  PROVE  at' \in [Clients -> Steps] /\ job' \in [Clients -> Jobs]
BY JobsHold DEF TypeOK, Answer, Steps

LEMMA GotoTypes ==
  ASSUME TypeOK, NEW c \in Clients, NEW step \in Steps, Goto(c, step)
  PROVE  at' \in [Clients -> Steps]
BY DEF TypeOK, Goto

LEMMA LockTypes ==
  ASSUME TypeOK, NEW date \in Nat
  PROVE  NextCount(date) \in Nat /\ NextLock(date) \in Nat
BY DEF TypeOK, NextCount, NextLock, WindowOver

LEMMA AttemptTypes ==
  ASSUME TypeOK, NEW c \in Clients, Attempt(c)
  PROVE  TypeOK'
<1> USE DEF TypeOK
<1>1. CASE Login(c)
  BY <1>1, JobsHold, GotoTypes DEF Login, Steps
<1>2. CASE ReadLock(c)
  BY <1>2, JobsHold, GotoTypes DEF ReadLock, Steps
<1>3. CASE AssertAllowed(c)
  BY <1>3, AnswerTypes, GotoTypes DEF AssertAllowed, Steps
<1>4. CASE FindByLogin(c)
  BY <1>4, JobsHold, GotoTypes DEF FindByLogin, Steps
<1>5. CASE Verify(c)
  <2>1. /\ Goto(c, "findUser") \/ Goto(c, "recordFailure")
        /\ job' = job \/ job' = [job EXCEPT ![c].clock = now]
        /\ UNCHANGED <<now, row, user, attempts, changes, history>>
    BY <1>5 DEF Verify
  <2>2. at' \in [Clients -> Steps]
    BY <2>1, GotoTypes DEF Steps
  <2>3. job' \in [Clients -> Jobs]
    <3>1. [job[c] EXCEPT !.clock = now] \in Jobs
      BY JobsHold
    <3> QED  BY <2>1, <3>1
  <2> QED  BY <2>1, <2>2, <2>3
<1>6. CASE FindUser(c)
  <2>1. /\ Goto(c, "recordSuccess") \/ Goto(c, "recordFailure")
        /\ job' = job \/ job' = [job EXCEPT ![c].clock = now]
        /\ UNCHANGED <<now, row, user, attempts, changes, history>>
    BY <1>6 DEF FindUser
  <2>2. at' \in [Clients -> Steps]
    BY <2>1, GotoTypes DEF Steps
  <2>3. job' \in [Clients -> Jobs]
    <3>1. [job[c] EXCEPT !.clock = now] \in Jobs
      BY JobsHold
    <3> QED  BY <2>1, <3>1
  <2> QED  BY <2>1, <2>2, <2>3
<1>7. CASE RecordFailure(c)
  <2> DEFINE date == job[c].clock
  <2>1. date \in Nat
    BY DEF Jobs
  <2>2. NextCount(date) \in Nat /\ NextLock(date) \in Nat
    BY <2>1, LockTypes
  <2>3. count' \in Nat /\ start' \in Nat /\ locked' \in Nat /\ until' \in Nat /\ shut' \subseteq Clients
    BY <1>7, <2>1, <2>2 DEF RecordFailure
  <2>4. failures' \in Seq(Failures)
    BY <1>7, <2>1 DEF RecordFailure, Failures
  <2> QED
    BY <1>7, <2>3, <2>4, AnswerTypes DEF RecordFailure, Failures
<1>8. CASE RecordSuccess(c)
  BY <1>8, GotoTypes DEF RecordSuccess, Steps
<1>9. CASE CreateSession(c)
  BY <1>9, AnswerTypes DEF CreateSession, Jobs
<1>10. CASE Fail(c)
  BY <1>10, AnswerTypes DEF Fail
<1> QED
  BY <1>1, <1>2, <1>3, <1>4, <1>5, <1>6, <1>7, <1>8, <1>9, <1>10 DEF Attempt

LEMMA OthersTypes ==
  ASSUME TypeOK, Tick \/ SetPassword \/ ChangePassword \/ UpdateStatus
  PROVE  TypeOK'
<1> USE DEF TypeOK
<1>1. CASE Tick
  BY <1>1 DEF Tick
<1>2. CASE SetPassword
  BY <1>2 DEF SetPassword, Change
<1>3. CASE ChangePassword
  <2>1. \A c \in Clients : [job[c] EXCEPT !.overtaken = ~At(c, "idle")] \in Jobs
    <3> TAKE c \in Clients
    <3> DEFINE b == ~At(c, "idle")
    <3>1. b \in BOOLEAN
      OBVIOUS
    <3> HIDE DEF b
    <3> QED  BY <3>1, JobsHold
  <2> QED  BY <1>3, <2>1 DEF ChangePassword, Change
<1>4. CASE UpdateStatus
  BY <1>4 DEF UpdateStatus, Change
<1> QED  BY <1>1, <1>2, <1>3, <1>4

LEMMA TypesKept == TypeOK /\ [Next]_vars => TypeOK'
<1> SUFFICES ASSUME TypeOK, [Next]_vars PROVE TypeOK'
  OBVIOUS
<1>1. CASE UNCHANGED vars
  BY <1>1 DEF vars, TypeOK
<1> QED
  BY <1>1, AttemptTypes, OthersTypes DEF Next

(* The type invariant of the login.                                        *)
THEOREM LoginTypes == Spec => []TypeOK
BY InitTypes, TypesKept, PTL DEF Spec

-----------------------------------------------------------------------------
(* A lock that runs is the one in the row, and whoever began during it     *)
(* has not got past it: what he has read of the row is that lock.          *)
LockInv ==
  /\ until > now => locked = until
  /\ \A c \in Clients : at[c] = "recordFailure" => job[c].clock <= now
  /\ until > now =>
       \A c \in shut : \/ at[c] \in {"idle", "readLock"}
                       \/ at[c] = "assertAllowed" /\ job[c].lock = until

LEMMA LockKept ==
  ASSUME TypeOK, LockInv, [Next]_vars
  PROVE  LockInv'
<1> USE DEF TypeOK, LockInv, Steps
<1>1. CASE UNCHANGED vars
  BY <1>1 DEF vars
<1>2. CASE Tick
  <2>1. now' = now + 1 /\ UNCHANGED <<row, at, job, history>>
    BY <1>2 DEF Tick
  <2>2. until' > now' => until > now
    BY <2>1
  <2>3. \A c \in Clients : job[c].clock \in Nat
    BY DEF Jobs
  <2> QED  BY <2>1, <2>2, <2>3
<1>3. CASE SetPassword
  BY <1>3 DEF SetPassword, Change
<1>4. CASE ChangePassword
  <2>1. \A c \in Clients : job'[c].clock = job[c].clock /\ job'[c].lock = job[c].lock
    BY <1>4 DEF ChangePassword, Jobs
  <2> QED  BY <1>4, <2>1 DEF ChangePassword, Change
<1>5. CASE UpdateStatus
  BY <1>5 DEF UpdateStatus, Change
<1>6. ASSUME NEW c \in Clients, Attempt(c) PROVE LockInv'
  <2>1. CASE Login(c)
    BY <2>1 DEF Login, Goto, At
  <2>2. CASE ReadLock(c)
    BY <2>2 DEF ReadLock, Goto, At, Jobs
  <2>3. CASE AssertAllowed(c)
    BY <2>3 DEF AssertAllowed, Goto, Answer, At
  <2>4. CASE FindByLogin(c)
    BY <2>4 DEF FindByLogin, Goto, At, Jobs
  <2>5. CASE Verify(c) \/ FindUser(c)
    <3>1. /\ at[c] \in {"verify", "findUser"}
          /\ UNCHANGED <<now, row, history>>
          /\ \/ Goto(c, "findUser") /\ job' = job
             \/ Goto(c, "recordSuccess") /\ job' = job
             \/ Goto(c, "recordFailure") /\ job' = [job EXCEPT ![c].clock = now]
      BY <2>5 DEF Verify, FindUser, At
    <3>2. \A x \in Clients \ {c} : at'[x] = at[x] /\ job'[x] = job[x]
      BY <3>1 DEF Goto
    <3>3. at'[c] = "recordFailure" => job'[c].clock = now
      BY <3>1 DEF Goto, Jobs
    <3>4. until > now => c \notin shut
      BY <3>1
    <3> QED  BY <3>1, <3>2, <3>3, <3>4
  <2>6. CASE RecordFailure(c)
    <3> DEFINE date == job[c].clock
    <3>1. date \in Nat /\ date <= now
      BY <2>6 DEF RecordFailure, At, Jobs
    <3>2. CASE locked > date
      BY <2>6, <3>1, <3>2 DEF RecordFailure, NextLock, Answer
    <3>3. CASE ~(locked > date)
      <4>1. ~(until > now)
        BY <3>1, <3>3
      <4>2. CASE locked' \in {0, locked}
        BY <2>6, <3>1, <4>1, <4>2 DEF RecordFailure, Answer
      <4>3. CASE locked' \notin {0, locked}
        BY <2>6, <3>1, <4>3 DEF RecordFailure, Answer
      <4> QED  BY <4>2, <4>3
    <3> QED  BY <3>2, <3>3
  <2>7. CASE RecordSuccess(c)
    BY <2>7 DEF RecordSuccess, Goto
  <2>8. CASE CreateSession(c)
    BY <2>8 DEF CreateSession, Answer
  <2>9. CASE Fail(c)
    BY <2>9 DEF Fail, Answer
  <2> QED
    BY <1>6, <2>1, <2>2, <2>3, <2>4, <2>5, <2>6, <2>7, <2>8, <2>9 DEF Attempt
<1> QED
  BY <1>1, <1>2, <1>3, <1>4, <1>5, <1>6 DEF Next

(* Nobody who begins during a lock gets his password compared before its   *)
(* end, whatever attempts that began earlier still record.                 *)
THEOREM LocksHold == Spec => []LockHolds
<1>1. Init => LockInv
  BY DEF Init, LockInv
<1>2. TypeOK /\ LockInv => LockHolds
  BY DEF LockInv, LockHolds
<1> QED  BY <1>1, <1>2, LoginTypes, LockKept, PTL DEF Spec

-----------------------------------------------------------------------------
(* What an attempt has read is stored, or was replaced while it ran.       *)
Reading == {"verify", "findUser", "recordSuccess", "createSession"}

SessionInv ==
  /\ password \in since
  /\ SessionsHavePasswords
  /\ \A c \in Clients : at[c] \in Reading => job[c].overtaken \/ job[c].seen \in since

LEMMA SessionsKept ==
  ASSUME TypeOK, SessionInv, [Next]_vars
  PROVE  SessionInv'
<1> USE DEF TypeOK, SessionInv, SessionsHavePasswords, Reading
<1>1. CASE UNCHANGED vars
  BY <1>1 DEF vars
<1>2. CASE Tick
  BY <1>2 DEF Tick
<1>3. CASE SetPassword
  BY <1>3 DEF SetPassword, Change
<1>4. CASE ChangePassword
  <2>1. \A c \in Clients : at[c] \in Reading => job'[c].overtaken = TRUE
    BY <1>4 DEF ChangePassword, Jobs, At
  <2> QED  BY <1>4, <2>1 DEF ChangePassword, Change
<1>5. CASE UpdateStatus
  BY <1>5 DEF UpdateStatus, Change
<1>6. ASSUME NEW c \in Clients, Attempt(c) PROVE SessionInv'
  <2>1. CASE Login(c)
    BY <2>1 DEF Login, Goto
  <2>2. CASE ReadLock(c)
    BY <2>2 DEF ReadLock, Goto, Jobs
  <2>3. CASE AssertAllowed(c)
    BY <2>3 DEF AssertAllowed, Goto, Answer
  <2>4. CASE FindByLogin(c)
    BY <2>4 DEF FindByLogin, Goto, Jobs
  <2>5. CASE Verify(c) \/ FindUser(c)
    <3>1. /\ at[c] \in {"verify", "findUser"}
          /\ UNCHANGED <<user, history>>
          /\ \/ Goto(c, "findUser") /\ job' = job
             \/ Goto(c, "recordSuccess") /\ job' = job
             \/ Goto(c, "recordFailure") /\ job' = [job EXCEPT ![c].clock = now]
      BY <2>5 DEF Verify, FindUser, At
    <3> QED  BY <3>1 DEF Goto, Jobs
  <2>6. CASE RecordFailure(c)
    BY <2>6 DEF RecordFailure, Answer
  <2>7. CASE RecordSuccess(c)
    BY <2>7 DEF RecordSuccess, Goto, At
  <2>8. CASE CreateSession(c)
    BY <2>8 DEF CreateSession, Answer, At
  <2>9. CASE Fail(c)
    BY <2>9 DEF Fail, Answer
  <2> QED
    BY <1>6, <2>1, <2>2, <2>3, <2>4, <2>5, <2>6, <2>7, <2>8, <2>9 DEF Attempt
<1> QED
  BY <1>1, <1>2, <1>3, <1>4, <1>5, <1>6 DEF Next

(* No session outlives its password, but those of logins that were under   *)
(* way when the password changed.                                          *)
THEOREM SessionsFollowPasswords == Spec => []SessionsHavePasswords
<1>1. Init => SessionInv
  BY DEF Init, SessionInv, SessionsHavePasswords, Reading
<1> QED  BY <1>1, LoginTypes, SessionsKept, PTL DEF Spec, SessionInv
-----------------------------------------------------------------------------
(* The failures on record that a window from s on may count.               *)
Within(f, s) == {i \in DOMAIN f : f[i].dated < s + Window /\ f[i].recorded >= s}

LEMMA WithinIsFinite ==
  ASSUME NEW f \in Seq(Failures), NEW s \in Nat
  PROVE  IsFiniteSet(Within(f, s)) /\ Cardinality(Within(f, s)) \in Nat
<1>1. IsFiniteSet(1..Len(f))
  BY FS_Interval
<1>2. Within(f, s) \subseteq 1..Len(f)
  BY DEF Within
<1> QED  BY <1>1, <1>2, FS_Subset, FS_CardinalityType

(* One more failure leaves those that are counted, and may be one of them. *)
LEMMA WithinGrows ==
  ASSUME NEW f \in Seq(Failures), NEW r \in Failures, NEW s \in Nat
  PROVE  /\ Cardinality(Within(Append(f, r), s)) >= Cardinality(Within(f, s))
         /\ r.dated < s + Window /\ r.recorded >= s =>
              Cardinality(Within(Append(f, r), s)) >= Cardinality(Within(f, s)) + 1
<1> DEFINE g == Append(f, r)
           n == Len(f) + 1
<1>1. /\ g \in Seq(Failures) /\ DOMAIN g = DOMAIN f \cup {n} /\ n \notin DOMAIN f
      /\ g[n] = r /\ \A i \in DOMAIN f : g[i] = f[i]
  OBVIOUS
<1>2. /\ IsFiniteSet(Within(f, s)) /\ Cardinality(Within(f, s)) \in Nat
      /\ IsFiniteSet(Within(g, s)) /\ Cardinality(Within(g, s)) \in Nat
  BY <1>1, WithinIsFinite
<1>3. Within(f, s) \subseteq Within(g, s) /\ n \notin Within(f, s)
  BY <1>1 DEF Within
<1>4. r.dated < s + Window /\ r.recorded >= s => Within(f, s) \cup {n} \subseteq Within(g, s)
  BY <1>1, <1>3 DEF Within
<1>5. IsFiniteSet(Within(f, s) \cup {n}) /\ Cardinality(Within(f, s) \cup {n}) = Cardinality(Within(f, s)) + 1
  BY <1>2, <1>3, FS_AddElement
<1>6. Cardinality(Within(g, s)) >= Cardinality(Within(f, s))
  BY <1>2, <1>3, FS_Subset
<1>7. Within(f, s) \cup {n} \subseteq Within(g, s) =>
        Cardinality(Within(g, s)) >= Cardinality(Within(f, s)) + 1
  BY <1>2, <1>5, FS_Subset
<1> HIDE DEF g
<1> QED  BY <1>4, <1>6, <1>7 DEF g

(* The count is one of failures since the window began.                    *)
CountInv ==
  /\ start <= now
  /\ count > 0 => Cardinality(Within(failures, start)) >= count
  /\ locked # 0 => \E s \in 0..now : Cardinality(Within(failures, s)) >= MaxFailures

LEMMA CountKept ==
  ASSUME TypeOK, LockInv, CountInv, [Next]_vars
  PROVE  CountInv'
<1>1. CASE UNCHANGED <<row, failures>> /\ now' \in {now, now + 1}
  <2>1. start' = start /\ count' = count /\ locked' = locked /\ failures' = failures
    BY <1>1
  <2>2. 0..now \subseteq 0..now' /\ now <= now'
    BY <1>1 DEF TypeOK
  <2> QED  BY <2>1, <2>2 DEF CountInv, TypeOK
<1>2. ASSUME NEW c \in Clients, RecordSuccess(c) PROVE CountInv'
  BY <1>2 DEF RecordSuccess, CountInv, TypeOK
<1>3. ASSUME NEW c \in Clients, RecordFailure(c) PROVE CountInv'
  <2> DEFINE date == job[c].clock
             r == [dated |-> date, recorded |-> now]
             Count(f, s) == Cardinality(Within(f, s))
  <2>1. /\ date \in Nat /\ date <= now /\ now' = now /\ now \in Nat
        /\ r \in Failures /\ failures \in Seq(Failures) /\ failures' = Append(failures, r)
        /\ start \in Nat /\ count \in Nat /\ locked \in Nat /\ start <= now
    BY <1>3 DEF RecordFailure, At, TypeOK, LockInv, CountInv, Jobs, Failures
  <2>2. /\ count' = NextCount(date) /\ locked' = NextLock(date)
        /\ start' = IF WindowOver(date) THEN date ELSE start
    BY <1>3 DEF RecordFailure
  <2>3. \A s \in Nat : /\ Count(failures, s) \in Nat /\ Count(failures', s) \in Nat
                       /\ Count(failures', s) >= Count(failures, s)
                       /\ date < s + Window /\ now >= s =>
                            Count(failures', s) >= Count(failures, s) + 1
    <3> TAKE s \in Nat
    <3>1. failures' \in Seq(Failures)
      BY <2>1
    <3>2. Count(failures, s) \in Nat /\ Count(failures', s) \in Nat
      BY <2>1, <3>1, WithinIsFinite
    <3>3. r.dated = date /\ r.recorded = now
      OBVIOUS
    <3> QED  BY <2>1, <3>2, <3>3, WithinGrows
  <2> HIDE DEF date, r, Count
  <2>4. start' \in Nat /\ start' <= now
    BY <2>1, <2>2
  <2>5. count' \in Nat /\ Count(failures', start') >= count'
    <3>1. CASE WindowOver(date)
      <4>1. count' = 1 /\ start' = date
        BY <2>2, <3>1 DEF NextCount
      <4> QED  BY <2>1, <2>3, <4>1
    <3>2. CASE ~WindowOver(date)
      <4>1. count' = count + 1 /\ start' = start /\ count > 0 /\ date < start + Window
        BY <2>1, <2>2, <3>2 DEF NextCount, WindowOver
      <4>2. Count(failures, start) >= count
        BY <4>1 DEF CountInv, Count
      <4>3. Count(failures', start) >= Count(failures, start) + 1
        BY <2>1, <2>3, <4>1
      <4>4. Count(failures, start) \in Nat /\ Count(failures', start) \in Nat
        BY <2>1, <2>3
      <4>5. Count(failures', start') = Count(failures', start)
        BY <4>1
      <4> QED  BY <2>1, <4>1, <4>2, <4>3, <4>4, <4>5
    <3> QED  BY <3>1, <3>2
  <2>6. locked' # 0 => \E s \in 0..now : Count(failures', s) >= MaxFailures
    <3> SUFFICES ASSUME locked' # 0 PROVE \E s \in 0..now : Count(failures', s) >= MaxFailures
      OBVIOUS
    <3>1. CASE locked > date
      <4>1. PICK s \in 0..now : Count(failures, s) >= MaxFailures
        BY <2>1, <3>1 DEF CountInv, Count
      <4> QED  BY <2>1, <2>3, <4>1
    <3>2. CASE ~(locked > date)
      <4>1. count' >= MaxFailures
        BY <2>2, <3>2 DEF NextLock
      <4> QED  BY <2>1, <2>3, <2>4, <2>5, <4>1
    <3> QED  BY <3>1, <3>2
  <2> QED
    BY <2>1, <2>4, <2>5, <2>6 DEF CountInv, Count
<1>4. ASSUME NEW c \in Clients, Attempt(c), ~RecordFailure(c), ~RecordSuccess(c)
      PROVE  UNCHANGED <<row, failures>> /\ now' = now
  BY <1>4 DEF Attempt, Login, ReadLock, AssertAllowed, FindByLogin, Verify, FindUser, CreateSession, Fail
<1> QED
  BY <1>1, <1>2, <1>3, <1>4
  DEF Next, vars, Tick, SetPassword, ChangePassword, UpdateStatus, Change

(* A lock in the row has been earned by as many failures as the options    *)
(* say, all of which one window may count.                                 *)
THEOREM LocksAreDeserved == Spec => []LockIsDeserved
<1>1. Init => LockInv /\ CountInv
  BY DEF Init, LockInv, CountInv
<1>2. TypeOK /\ CountInv => LockIsDeserved
  BY DEF CountInv, LockIsDeserved, Within
<1> QED  BY <1>1, <1>2, LoginTypes, LockKept, CountKept, PTL DEF Spec

-----------------------------------------------------------------------------
HIDE OptionsArePositive DEF row, user, history

(* The pages of the dashboard, and what every one of them satisfies.       *)
SignInKinds == {"login", "admin", "reset"}
ManageKinds == {"load", "save", "remove"}
FormKinds == {"save", "remove"}
Parts == {"login", "create", "password", "manage", "details"}

Calls == [kind : {"none", "restore", "logout", "orphan", "login", "admin", "reset", "list",
                  "roles", "create", "password", "load", "save", "remove", "read", "change"},
          at : {"idle", "sent", "waiting", "restoring", "retried", "401", "fail"},
          token : Nat \cup {NoToken}, good : BOOLEAN, life : {"here", "closed"},
          about : Users \cup {NoUser}]
Uis == [screen : {"login", "restoring", "dashboard"}, busy : SUBSET Parts,
        loading : SUBSET {"list", "roles", "load"}, open : SUBSET Dialogs,
        rolesListed : BOOLEAN, chosen : Users \cup {NoUser},
        shown : Users \cup {NoUser}, view : {"details", "editing", "confirming"},
        switched : BOOLEAN, effects : SUBSET {"list", "roles", "load", "read"}]
Pages == [session : Nat \cup {NoToken}, storage : Nat \cup {NoToken},
          calls : [Slots -> Calls], ui : Uis]

Awaited(c, kinds) == \E s \in Slots : c[s].kind \in kinds /\ c[s].life = "here"
Absent(c, kinds) == \A s \in Slots : c[s].kind \notin kinds

(* Without the dashboard nothing of it is left but changes of a password.  *)
Offstage(c, u) ==
  u.screen # "dashboard" =>
    /\ u.busy \subseteq {"login"} /\ u.loading = {} /\ u.effects = {} /\ u.open = {}
    /\ \A s \in Slots : c[s].kind \in DashboardKinds =>
         c[s].kind = "password" /\ c[s].life = "closed"

(* The login screen waits for one call at a time.                          *)
SignIn(c, u) ==
  \A s \in Slots : c[s].kind \in SignInKinds =>
    /\ u.screen = "login" /\ "login" \in u.busy
    /\ \A o \in Slots : c[o].kind \in SignInKinds => o = s

(* So does a page that restores its session.                               *)
Restores(c, u) ==
  \A s \in Slots : c[s].kind = "restore" =>
    /\ u.screen = "restoring"
    /\ \A o \in Slots : c[o].kind = "restore" => o = s

Lives(c) ==
  \A s \in Slots :
    /\ c[s].life = "closed" => c[s].kind \in {"create", "password"}
    /\ c[s].kind \in PublicKinds => c[s].token = NoToken /\ c[s].at = "sent"
    /\ c[s].kind = "none" => c[s] = Idle
    /\ c[s].at = "idle" => c[s] = Idle

(* What ManageUserDialog has asked for finds it open, and a change or a    *)
(* deletion its form.                                                      *)
Forms(c, u) ==
  /\ "manage" \notin u.open =>
       /\ u.shown = NoUser /\ u.switched = FALSE /\ "load" \notin u.effects
       /\ Absent(c, ManageKinds)
  /\ "manage" \in u.open => u.chosen # NoUser
  /\ \A s \in Slots : c[s].kind \in FormKinds =>
       /\ "manage" \in u.busy /\ u.shown # NoUser
       /\ u.view = IF c[s].kind = "save" THEN "editing" ELSE "confirming"
       /\ \A o \in Slots : c[o].kind \in FormKinds => o = s

(* As long as it is about one user, so is all it does.                     *)
Choices(c, u) ==
  /\ \A s \in Slots : c[s].kind \in ManageKinds => c[s].about # NoUser
  /\ u.switched = FALSE =>
       /\ u.shown \in {NoUser, u.chosen}
       /\ \A s \in Slots : c[s].kind \in ManageKinds => c[s].about = u.chosen

Struct(c, u) ==
  Offstage(c, u) /\ SignIn(c, u) /\ Restores(c, u) /\ Lives(c) /\ Forms(c, u) /\ Choices(c, u)

(* BusyMeansWaiting, of any calls and user interface, for all that does    *)
(* not wait for a call of the given kinds.                                 *)
Waits(c, u, but) ==
  /\ \A part \in u.busy : but \cap Submits(part) # {} \/ Awaited(c, Submits(part))
  /\ \A kind \in u.loading : kind \in but \/ kind \in u.effects \/ Awaited(c, {kind})
  /\ u.screen = "restoring" => "restore" \in but \/ Awaited(c, {"restore"})

Fits(p) == Struct(p.calls, p.ui) /\ Waits(p.calls, p.ui, {})

-----------------------------------------------------------------------------
LEMMA Kinds ==
  /\ KindsOf("create") = {"roles", "create"} /\ KindsOf("password") = {"password"}
  /\ KindsOf("manage") = ManageKinds /\ KindsOf("details") = {"read", "change"}
  /\ KindsOfAll({"create"}) = {"roles", "create"}
  /\ KindsOfAll({"password"}) = {"password"}
  /\ KindsOfAll({"details"}) = {"read", "change"}
  /\ KindsOfAll({"manage", "details"}) = ManageKinds \cup {"read", "change"}
  /\ DashboardKinds = ManageKinds \cup {"list", "roles", "create", "password", "read", "change"}
  /\ GuardedKinds = ManageKinds \cup {"list", "roles", "create", "read", "change", "orphan"}
<1>1. /\ KindsOf("create") = {"roles", "create"} /\ KindsOf("password") = {"password"}
      /\ KindsOf("manage") = ManageKinds /\ KindsOf("details") = {"read", "change"}
      /\ KindsOf("dashboard") = {"list"}
  BY DEF KindsOf, ManageKinds
<1>2. \A part : KindsOfAll({part}) = KindsOf(part)
  BY DEF KindsOfAll
<1>3. KindsOfAll({"manage", "details"}) = KindsOf("manage") \cup KindsOf("details")
  BY DEF KindsOfAll
<1>4. DashboardKinds = KindsOf("create") \cup KindsOf("password") \cup KindsOf("manage")
                       \cup KindsOf("dashboard") \cup KindsOf("details")
  BY DEF DashboardKinds, KindsOfAll, Dialogs
<1>5. DashboardKinds = ManageKinds \cup {"list", "roles", "create", "password", "read", "change"}
  BY <1>1, <1>4
<1> QED  BY <1>1, <1>2, <1>3, <1>5 DEF GuardedKinds, ManageKinds

LEMMA Submissions ==
  /\ Submits("login") = SignInKinds /\ Submits("create") = {"create"}
  /\ Submits("password") = {"password"} /\ Submits("manage") = FormKinds
  /\ Submits("details") = {"change"}
BY DEF Submits, SignInKinds, FormKinds

LEMMA Constants ==
  /\ Idle \in Calls /\ Idle.kind = "none" /\ Idle.at = "idle" /\ Idle.life = "here"
  /\ LoginUi \in Uis /\ RestoringUi \in Uis /\ DashboardUi \in Uis
BY DEF Idle, Calls, LoginUi, RestoringUi, DashboardUi, Uis, Dialogs, Parts

LEMMA Screens ==
  /\ LoginUi.screen = "login" /\ RestoringUi.screen = "restoring"
  /\ DashboardUi.screen = "dashboard"
  /\ DashboardUi.effects = {"list"} /\ DashboardUi.loading = {"list"}
  /\ \A u \in {LoginUi, RestoringUi} : u.effects = {} /\ u.loading = {}
  /\ \A u \in {LoginUi, RestoringUi, DashboardUi} :
       /\ u.busy = {} /\ u.open = {} /\ u.shown = NoUser /\ u.switched = FALSE
BY DEF LoginUi, RestoringUi, DashboardUi

(* Removing a call from a page.                                            *)
LEMMA SettledCalls ==
  ASSUME NEW c \in [Slots -> Calls], NEW s \in Slots
  PROVE  /\ [c EXCEPT ![s] = Idle] \in [Slots -> Calls]
         /\ [c EXCEPT ![s] = Idle][s] = Idle
         /\ \A o \in Slots \ {s} : [c EXCEPT ![s] = Idle][o] = c[o]
BY Constants

LEMMA EmptiedStruct ==
  ASSUME NEW c \in [Slots -> Calls], NEW u \in Uis, NEW s \in Slots, Struct(c, u)
  PROVE  Struct([c EXCEPT ![s] = Idle], u)
<1> DEFINE d == [c EXCEPT ![s] = Idle]
<1>1. d[s] = Idle /\ \A o \in Slots \ {s} : d[o] = c[o]
  BY SettledCalls
<1> HIDE DEF d
<1>2. Offstage(d, u)
  BY <1>1, Constants, Kinds DEF Struct, Offstage, ManageKinds
<1>3. SignIn(d, u)
  BY <1>1, Constants DEF Struct, SignIn, SignInKinds
<1>4. Restores(d, u)
  BY <1>1, Constants DEF Struct, Restores
<1>5. Lives(d)
  BY <1>1, Constants DEF Struct, Lives, PublicKinds
<1>6. Forms(d, u)
  BY <1>1, Constants DEF Struct, Forms, Absent, ManageKinds, FormKinds
<1>7. Choices(d, u)
  BY <1>1, Constants DEF Struct, Choices, ManageKinds
<1> QED
  BY <1>2, <1>3, <1>4, <1>5, <1>6, <1>7 DEF Struct, d

(* What waited for it is left waiting.                                     *)
LEMMA EmptiedWaits ==
  ASSUME NEW c \in [Slots -> Calls], NEW u \in Uis, NEW s \in Slots, Waits(c, u, {})
  PROVE  /\ Waits([c EXCEPT ![s] = Idle], u, {c[s].kind})
         /\ c[s].life = "closed" => Waits([c EXCEPT ![s] = Idle], u, {})
<1> DEFINE d == [c EXCEPT ![s] = Idle]
<1>1. d[s] = Idle /\ \A o \in Slots \ {s} : d[o] = c[o]
  BY SettledCalls
<1> HIDE DEF d
<1>2. ASSUME NEW kinds, Awaited(c, kinds)
      PROVE  /\ Awaited(d, kinds) \/ c[s].kind \in kinds
             /\ Awaited(d, kinds) \/ c[s].life # "closed"
  BY <1>1, <1>2 DEF Awaited
<1>3. Waits(d, u, {c[s].kind})
  BY <1>2 DEF Waits
<1>4. c[s].life = "closed" => Waits(d, u, {})
  BY <1>2 DEF Waits
<1> QED
  BY <1>3, <1>4 DEF d

(* A user interface that differs in little that these facts are about.     *)
LEMMA SameStruct ==
  ASSUME NEW c \in [Slots -> Calls], NEW u \in Uis, NEW v \in Uis, Struct(c, u),
         v.screen = u.screen, v.chosen = u.chosen, v.shown = u.shown, v.view = u.view,
         v.switched = u.switched, "manage" \in v.open <=> "manage" \in u.open,
         "load" \in v.effects => "load" \in u.effects,
         v.screen # "dashboard" =>
           v.busy \subseteq {"login"} /\ v.loading = {} /\ v.effects = {} /\ v.open = {},
         "login" \in u.busy \ v.busy => Absent(c, SignInKinds),
         "manage" \in u.busy \ v.busy => Absent(c, FormKinds)
  PROVE  Struct(c, v)
<1>1. Offstage(c, v)
  BY DEF Struct, Offstage
<1>2. SignIn(c, v)
  BY DEF Struct, SignIn, Absent
<1>3. Restores(c, v)
  BY DEF Struct, Restores
<1>4. Forms(c, v)
  BY DEF Struct, Forms, Absent
<1>5. Choices(c, v)
  BY DEF Struct, Choices
<1> QED
  BY <1>1, <1>2, <1>3, <1>4, <1>5 DEF Struct

(* Flags that are reset wait for nothing, and what has been asked for      *)
(* already needs no effect.                                                *)
LEMMA LessWaits ==
  ASSUME NEW c, NEW u \in Uis, NEW v \in Uis, NEW but, NEW rest, Waits(c, u, but),
         v.busy \subseteq u.busy, v.loading \subseteq u.loading,
         v.screen = "restoring" => u.screen = "restoring",
         u.effects \cap v.loading \subseteq v.effects \cup rest,
         \A kind \in but \ rest :
           /\ \A part \in v.busy : kind \notin Submits(part)
           /\ kind \notin v.loading
           /\ kind = "restore" => v.screen # "restoring"
  PROVE  Waits(c, v, rest)
BY DEF Waits

-----------------------------------------------------------------------------
(* What handlers may do to a page: they start no call and set no session   *)
(* but none.                                                               *)
Follows(p, q) ==
  /\ q \in Pages
  /\ \/ q.session = p.session /\ q.storage = p.storage
     \/ q.session = NoToken /\ q.storage = NoToken
  /\ \A s \in Slots : q.calls[s].at = p.calls[s].at

(* A page that differs in its user interface, and one that differs in its  *)
(* flags and effects.                                                      *)
Shows(p, q) ==
  /\ q \in Pages
  /\ q.session = p.session /\ q.storage = p.storage /\ q.calls = p.calls

Alike(p, q) ==
  /\ Shows(p, q)
  /\ q.ui.screen = p.ui.screen /\ q.ui.open = p.ui.open /\ q.ui.chosen = p.ui.chosen
  /\ q.ui.shown = p.ui.shown /\ q.ui.view = p.ui.view /\ q.ui.switched = p.ui.switched

Fit(p, but) == Struct(p.calls, p.ui) /\ Waits(p.calls, p.ui, but)

LEMMA FollowsOn ==
  ASSUME NEW p, NEW q, NEW r, Follows(p, q), Follows(q, r)
  PROVE  Follows(p, r)
BY DEF Follows

LEMMA ShowsFollows ==
  ASSUME NEW p, NEW q, Shows(p, q)
  PROVE  Follows(p, q)
BY DEF Shows, Follows

LEMMA AlikeFollows ==
  ASSUME NEW p, NEW q, Alike(p, q)
  PROVE  Follows(p, q) /\ Shows(p, q)
BY DEF Shows, Follows, Alike

LEMMA PageParts ==
  ASSUME NEW p \in Pages
  PROVE  p.calls \in [Slots -> Calls] /\ p.ui \in Uis
BY DEF Pages

LEMMA ShowIs ==
  ASSUME NEW p \in Pages, NEW v \in Uis
  PROVE  Shows(p, Show(p, v)) /\ Show(p, v).ui = v
BY DEF Show, Shows, Pages

LEMMA ClearedIs ==
  ASSUME NEW p \in Pages
  PROVE  /\ Follows(p, ClearSession(p)) /\ ClearSession(p) \in Pages
         /\ ClearSession(p).calls = p.calls /\ ClearSession(p).ui = p.ui
BY DEF Pages, Follows, ClearSession

LEMMA ClearedFits ==
  ASSUME NEW p \in Pages, NEW but, Fit(p, but)
  PROVE  Fit(ClearSession(p), but)
BY ClearedIs DEF Fit

LEMMA NotBusyIs ==
  ASSUME NEW p \in Pages, NEW part
  PROVE  /\ Alike(p, NotBusy(p, part))
         /\ NotBusy(p, part).ui.busy = p.ui.busy \ {part}
         /\ NotBusy(p, part).ui.loading = p.ui.loading
         /\ NotBusy(p, part).ui.effects = p.ui.effects
<1> DEFINE v == [p.ui EXCEPT !.busy = @ \ {part}]
<1>1. /\ v \in Uis /\ v.busy = p.ui.busy \ {part}
      /\ v.screen = p.ui.screen /\ v.open = p.ui.open /\ v.chosen = p.ui.chosen
      /\ v.shown = p.ui.shown /\ v.view = p.ui.view /\ v.switched = p.ui.switched
      /\ v.loading = p.ui.loading /\ v.effects = p.ui.effects
  BY PageParts DEF Uis
<1>2. NotBusy(p, part) = Show(p, v)
  BY DEF NotBusy
<1> HIDE DEF v
<1> QED  BY <1>1, <1>2, ShowIs DEF Alike

LEMMA SubmittingIs ==
  ASSUME NEW p \in Pages, NEW part \in Parts
  PROVE  /\ Alike(p, Submitting(p, part))
         /\ Submitting(p, part).ui.busy = p.ui.busy \cup {part}
         /\ Submitting(p, part).ui.loading = p.ui.loading
         /\ Submitting(p, part).ui.effects = p.ui.effects
<1> DEFINE v == [p.ui EXCEPT !.busy = @ \cup {part}]
<1>1. /\ v \in Uis /\ v.busy = p.ui.busy \cup {part}
      /\ v.screen = p.ui.screen /\ v.open = p.ui.open /\ v.chosen = p.ui.chosen
      /\ v.shown = p.ui.shown /\ v.view = p.ui.view /\ v.switched = p.ui.switched
      /\ v.loading = p.ui.loading /\ v.effects = p.ui.effects
  BY PageParts DEF Uis
<1>2. Submitting(p, part) = Show(p, v)
  BY DEF Submitting
<1> HIDE DEF v
<1> QED  BY <1>1, <1>2, ShowIs DEF Alike

LEMMA LoadedIs ==
  ASSUME NEW p \in Pages, NEW kind
  PROVE  /\ Alike(p, Loaded(p, kind))
         /\ Loaded(p, kind).ui.busy = p.ui.busy
         /\ Loaded(p, kind).ui.loading = p.ui.loading \ {kind}
         /\ Loaded(p, kind).ui.effects = p.ui.effects
<1> DEFINE v == [p.ui EXCEPT !.loading = @ \ {kind}]
<1>1. /\ v \in Uis /\ v.busy = p.ui.busy
      /\ v.screen = p.ui.screen /\ v.open = p.ui.open /\ v.chosen = p.ui.chosen
      /\ v.shown = p.ui.shown /\ v.view = p.ui.view /\ v.switched = p.ui.switched
      /\ v.loading = p.ui.loading \ {kind} /\ v.effects = p.ui.effects
  BY PageParts DEF Uis
<1>2. Loaded(p, kind) = Show(p, v)
  BY DEF Loaded
<1> HIDE DEF v
<1> QED  BY <1>1, <1>2, ShowIs DEF Alike

LEMMA EffectsIs ==
  ASSUME NEW p \in Pages, NEW es \in SUBSET {"list", "roles", "load", "read"}
  PROVE  /\ Alike(p, Effects(p, es))
         /\ Effects(p, es).ui.busy = p.ui.busy
         /\ Effects(p, es).ui.loading = p.ui.loading
         /\ Effects(p, es).ui.effects = p.ui.effects \cup es
<1> DEFINE v == [p.ui EXCEPT !.effects = @ \cup es]
<1>1. /\ v \in Uis /\ v.busy = p.ui.busy
      /\ v.screen = p.ui.screen /\ v.open = p.ui.open /\ v.chosen = p.ui.chosen
      /\ v.shown = p.ui.shown /\ v.view = p.ui.view /\ v.switched = p.ui.switched
      /\ v.loading = p.ui.loading /\ v.effects = p.ui.effects \cup es
  BY PageParts DEF Uis
<1>2. Effects(p, es) = Show(p, v)
  BY DEF Effects
<1> HIDE DEF v
<1> QED  BY <1>1, <1>2, ShowIs DEF Alike

(* A page that resets flags, as long as no call is left that sets them.    *)
LEMMA NotBusyFits ==
  ASSUME NEW p \in Pages, NEW part \in Parts, NEW kind,
         Fit(p, {kind}), kind \in Submits(part),
         part = "login" => Absent(p.calls, SignInKinds),
         part = "manage" => Absent(p.calls, FormKinds)
  PROVE  Fit(NotBusy(p, part), {})
<1> DEFINE q == NotBusy(p, part)
<1>1. /\ Alike(p, q) /\ q.ui.busy = p.ui.busy \ {part}
      /\ q.ui.loading = p.ui.loading /\ q.ui.effects = p.ui.effects
  BY NotBusyIs
<1> HIDE DEF q
<1>2. p.ui \in Uis /\ q.ui \in Uis /\ p.calls \in [Slots -> Calls] /\ q.calls = p.calls
  BY <1>1, PageParts DEF Alike, Shows
<1>3. Struct(q.calls, q.ui)
  <2>1. /\ q.ui.screen = p.ui.screen /\ q.ui.chosen = p.ui.chosen
        /\ q.ui.shown = p.ui.shown /\ q.ui.view = p.ui.view
        /\ q.ui.switched = p.ui.switched /\ q.ui.open = p.ui.open
    BY <1>1 DEF Alike
  <2>2. q.ui.screen # "dashboard" =>
          /\ q.ui.busy \subseteq {"login"} /\ q.ui.loading = {} /\ q.ui.effects = {}
          /\ q.ui.open = {}
    BY <1>1, <2>1 DEF Fit, Struct, Offstage
  <2> QED
    BY <1>1, <1>2, <2>1, <2>2, SameStruct DEF Fit
<1>4. kind \in SignInKinds \cup FormKinds \cup {"create", "password", "change"}
      /\ \A other \in q.ui.busy : kind \notin Submits(other)
  BY <1>1, <1>2, Submissions DEF Parts, Uis, SignInKinds, FormKinds
<1>5. kind \notin q.ui.loading /\ kind # "restore"
  BY <1>2, <1>4 DEF Uis, SignInKinds, FormKinds
<1>6. Waits(q.calls, q.ui, {})
  BY <1>1, <1>2, <1>4, <1>5, LessWaits DEF Fit, Alike
<1> QED
  BY <1>3, <1>6 DEF Fit, q

LEMMA LoadedFits ==
  ASSUME NEW p \in Pages, NEW kind \in {"list", "roles", "load"}, Fit(p, {kind})
  PROVE  Fit(Loaded(p, kind), {})
<1> DEFINE q == Loaded(p, kind)
<1>1. /\ Alike(p, q) /\ q.ui.busy = p.ui.busy
      /\ q.ui.loading = p.ui.loading \ {kind} /\ q.ui.effects = p.ui.effects
  BY LoadedIs
<1> HIDE DEF q
<1>2. p.ui \in Uis /\ q.ui \in Uis /\ p.calls \in [Slots -> Calls] /\ q.calls = p.calls
  BY <1>1, PageParts DEF Alike, Shows
<1>3. Struct(q.calls, q.ui)
  <2>1. /\ q.ui.screen = p.ui.screen /\ q.ui.chosen = p.ui.chosen
        /\ q.ui.shown = p.ui.shown /\ q.ui.view = p.ui.view
        /\ q.ui.switched = p.ui.switched /\ q.ui.open = p.ui.open
    BY <1>1 DEF Alike
  <2>2. q.ui.screen # "dashboard" =>
          /\ q.ui.busy \subseteq {"login"} /\ q.ui.loading = {} /\ q.ui.effects = {}
          /\ q.ui.open = {}
    BY <1>1, <2>1 DEF Fit, Struct, Offstage
  <2> QED
    BY <1>1, <1>2, <2>1, <2>2, SameStruct DEF Fit
<1>4. \A part \in q.ui.busy : kind \notin Submits(part)
  BY <1>2, Submissions DEF Parts, Uis, SignInKinds, FormKinds
<1>5. Waits(q.calls, q.ui, {})
  BY <1>1, <1>2, <1>4, LessWaits DEF Fit, Alike
<1> QED
  BY <1>3, <1>5 DEF Fit, q

(* What nothing waits for may be forgotten.                                *)
LEMMA UnmissedFits ==
  ASSUME NEW p \in Pages, NEW kind \in {"logout", "read", "orphan", "none"}, Fit(p, {kind})
  PROVE  Fit(p, {})
<1>1. \A part \in p.ui.busy : kind \notin Submits(part)
  BY PageParts, Submissions DEF Parts, Uis, SignInKinds, FormKinds
<1>2. kind \notin p.ui.loading
  BY PageParts DEF Uis
<1> QED
  BY <1>1, <1>2, PageParts, LessWaits DEF Fit

(* The dashboard has more to do.                                           *)
LEMMA EffectsFit ==
  ASSUME NEW p \in Pages, NEW es \in SUBSET {"list", "read"}, Fit(p, {}),
         p.ui.screen = "dashboard"
  PROVE  Fit(Effects(p, es), {})
<1> DEFINE q == Effects(p, es)
<1>1. /\ Alike(p, q) /\ q.ui.busy = p.ui.busy
      /\ q.ui.loading = p.ui.loading /\ q.ui.effects = p.ui.effects \cup es
  BY EffectsIs
<1> HIDE DEF q
<1>2. p.ui \in Uis /\ q.ui \in Uis /\ p.calls \in [Slots -> Calls] /\ q.calls = p.calls
  BY <1>1, PageParts DEF Alike, Shows
<1>3. Struct(q.calls, q.ui)
  BY <1>1, <1>2, SameStruct DEF Fit, Alike
<1>4. Waits(q.calls, q.ui, {})
  BY <1>1, <1>2, LessWaits DEF Fit, Alike
<1> QED
  BY <1>3, <1>4 DEF Fit, q

-----------------------------------------------------------------------------
(* Pages that lose or change their screen, or one of their dialogs.        *)
LEMMA Leftovers ==
  ASSUME NEW x \in Calls
  PROVE  /\ Orphan(x) \in Calls /\ Orphan(x).at = x.at
         /\ Orphan(x).kind = "orphan" /\ Orphan(x).life = "here"
         /\ [x EXCEPT !.life = "closed"] \in Calls
         /\ [x EXCEPT !.life = "closed"].at = x.at
         /\ [x EXCEPT !.life = "closed"].kind = x.kind
         /\ [x EXCEPT !.life = "closed"].life = "closed"
<1>1. Orphan(x) \in Calls /\ Orphan(x).at = x.at
  BY DEF Orphan, Calls
<1>2. Orphan(x).kind = "orphan" /\ Orphan(x).life = "here"
  BY DEF Orphan, Calls
<1>3. [x EXCEPT !.life = "closed"] \in Calls
  BY DEF Calls
<1> QED
  BY <1>1, <1>2, <1>3 DEF Calls

LEMMA DesertedIs ==
  ASSUME NEW c \in [Slots -> Calls]
  PROVE  /\ Deserted(c) \in [Slots -> Calls]
         /\ \A s \in Slots :
              /\ Deserted(c)[s].at = c[s].at
              /\ c[s].kind \notin DashboardKinds => Deserted(c)[s] = c[s]
              /\ c[s].kind \in DashboardKinds =>
                   \/ Deserted(c)[s].kind = "orphan" /\ Deserted(c)[s].life = "here"
                   \/ Deserted(c)[s].kind = "password" /\ Deserted(c)[s].life = "closed"
<1>1. \A s \in Slots : c[s] \in Calls
  OBVIOUS
<1>2. Deserted(c) \in [Slots -> Calls]
  BY <1>1, Leftovers DEF Deserted
<1> QED
  BY <1>1, <1>2, Leftovers DEF Deserted

LEMMA DesertedStruct ==
  ASSUME NEW c \in [Slots -> Calls], NEW u \in Uis, Struct(c, u), u.screen = "dashboard"
  PROVE  Struct(Deserted(c), LoginUi)
<1> DEFINE d == Deserted(c)
<1>1. /\ d \in [Slots -> Calls]
      /\ \A s \in Slots :
           /\ d[s].at = c[s].at
           /\ c[s].kind \notin DashboardKinds => d[s] = c[s]
           /\ c[s].kind \in DashboardKinds =>
                \/ d[s].kind = "orphan" /\ d[s].life = "here"
                \/ d[s].kind = "password" /\ d[s].life = "closed"
  BY DesertedIs
<1> HIDE DEF d
<1>2. /\ Absent(c, SignInKinds) /\ Absent(c, {"restore"})
  BY DEF Struct, SignIn, Restores, Absent
<1>3. \A s \in Slots : d[s].kind \notin SignInKinds /\ d[s].kind # "restore"
  BY <1>1, <1>2 DEF SignInKinds, Absent
<1>4. \A s \in Slots : d[s].kind \notin DashboardKinds \/ d[s].kind = "password"
  BY <1>1, Kinds DEF ManageKinds
<1>5. Offstage(d, LoginUi)
  BY <1>1, <1>4, Kinds, Screens DEF Offstage, ManageKinds
<1>6. SignIn(d, LoginUi) /\ Restores(d, LoginUi)
  BY <1>3 DEF SignIn, Restores
<1>7. Lives(d)
  <2> SUFFICES ASSUME NEW s \in Slots
               PROVE  /\ d[s].life = "closed" => d[s].kind \in {"create", "password"}
                      /\ d[s].kind \in PublicKinds => d[s].token = NoToken /\ d[s].at = "sent"
                      /\ d[s].kind = "none" => d[s] = Idle
                      /\ d[s].at = "idle" => d[s] = Idle
    BY DEF Lives
  <2>1. CASE c[s].kind \notin DashboardKinds
    BY <1>1, <2>1 DEF Struct, Lives
  <2>2. CASE c[s].kind \in DashboardKinds
    <3>1. c[s].at # "idle"
      BY <2>2, Constants, Kinds DEF Struct, Lives, ManageKinds
    <3> QED  BY <1>1, <2>2, <3>1 DEF PublicKinds
  <2> QED  BY <2>1, <2>2
<1>8. Absent(d, ManageKinds) /\ Absent(d, FormKinds)
  BY <1>4, Kinds DEF Absent, ManageKinds, FormKinds
<1>9. Forms(d, LoginUi)
  BY <1>8, Screens DEF Forms, Absent
<1>10. Choices(d, LoginUi)
  BY <1>8, Screens DEF Choices, Absent
<1> QED
  BY <1>5, <1>6, <1>7, <1>9, <1>10 DEF Struct, d

LEMMA LoginUiWaits ==
  ASSUME NEW c, NEW but
  PROVE  Waits(c, LoginUi, but)
BY Screens DEF Waits

LEMMA SessionEndedFits ==
  ASSUME NEW p \in Pages, Struct(p.calls, p.ui),
         p.ui.screen # "dashboard" => Waits(p.calls, p.ui, {})
  PROVE  Follows(p, SessionEnded(p)) /\ Fit(SessionEnded(p), {})
<1> DEFINE q == ClearSession(p)
<1>1. /\ Follows(p, q) /\ q \in Pages /\ q.calls = p.calls /\ q.ui = p.ui
  BY ClearedIs
<1>2. SessionEnded(p) = SignedOut(q)
  BY DEF SessionEnded
<1> HIDE DEF q
<1>3. CASE p.ui.screen # "dashboard"
  <2>1. SessionEnded(p) = q
    BY <1>1, <1>2, <1>3 DEF SignedOut
  <2> QED  BY <1>1, <1>3, <2>1 DEF Fit
<1>4. CASE p.ui.screen = "dashboard"
  <2> DEFINE r == [q EXCEPT !.ui = LoginUi, !.calls = Deserted(@)]
  <2>1. SessionEnded(p) = r
    BY <1>1, <1>2, <1>4 DEF SignedOut
  <2>2. /\ q.calls \in [Slots -> Calls] /\ q.ui \in Uis
    BY <1>1, PageParts
  <2>3. /\ Deserted(q.calls) \in [Slots -> Calls]
        /\ \A s \in Slots : Deserted(q.calls)[s].at = q.calls[s].at
    BY <2>2, DesertedIs
  <2>4. /\ r \in Pages /\ r.session = q.session /\ r.storage = q.storage
        /\ r.ui = LoginUi /\ r.calls = Deserted(q.calls)
    BY <1>1, <2>3, Constants DEF Pages
  <2> HIDE DEF r
  <2>5. Follows(q, r)
    BY <2>3, <2>4 DEF Follows
  <2>6. Struct(r.calls, r.ui)
    BY <1>1, <1>4, <2>2, <2>4, DesertedStruct
  <2>7. Waits(r.calls, r.ui, {})
    BY <2>4, LoginUiWaits
  <2> QED  BY <1>1, <2>1, <2>5, <2>6, <2>7, FollowsOn DEF Fit
<1> QED  BY <1>3, <1>4

(* A screen that begins anew, once no call is left that would say which.   *)
LEMMA FreshFits ==
  ASSUME NEW p \in Pages, NEW v \in {LoginUi, DashboardUi}, Struct(p.calls, p.ui),
         p.ui.screen # "dashboard",
         Absent(p.calls, SignInKinds), Absent(p.calls, {"restore"})
  PROVE  Follows(p, Show(p, v)) /\ Fit(Show(p, v), {})
<1>1. v \in Uis
  BY Constants
<1>2. Shows(p, Show(p, v)) /\ Show(p, v).ui = v /\ Show(p, v).calls = p.calls
  BY <1>1, ShowIs DEF Shows
<1>3. SignIn(p.calls, v) /\ Restores(p.calls, v)
  BY DEF SignIn, Restores, Absent
<1>4. Offstage(p.calls, v)
  BY Screens DEF Struct, Offstage
<1>5. Absent(p.calls, ManageKinds) /\ Absent(p.calls, FormKinds)
  BY Kinds DEF Struct, Offstage, Absent, ManageKinds, FormKinds
<1>6. Forms(p.calls, v)
  BY <1>5, Screens DEF Forms, Absent
<1>7. Choices(p.calls, v)
  BY <1>5, Screens DEF Choices, Absent
<1>8. Waits(p.calls, v, {})
  BY Screens DEF Waits
<1> QED
  BY <1>2, <1>3, <1>4, <1>6, <1>7, <1>8, ShowsFollows DEF Fit, Struct

LEMMA OrphanedIs ==
  ASSUME NEW c \in [Slots -> Calls], NEW kinds
  PROVE  /\ Orphaned(c, kinds) \in [Slots -> Calls]
         /\ \A s \in Slots :
              /\ Orphaned(c, kinds)[s].at = c[s].at
              /\ c[s].kind \notin kinds => Orphaned(c, kinds)[s] = c[s]
              /\ c[s].kind \in kinds =>
                 \/ Orphaned(c, kinds)[s] = c[s]
                 \/ Orphaned(c, kinds)[s].kind = "orphan" /\ Orphaned(c, kinds)[s].life = "here"
                 \/ /\ Orphaned(c, kinds)[s].kind = c[s].kind
                    /\ Orphaned(c, kinds)[s].life = "closed" /\ c[s].kind \in ReportingKinds
              /\ Orphaned(c, kinds)[s].kind \in kinds =>
                   \/ Orphaned(c, kinds)[s].kind = "orphan"
                   \/ Orphaned(c, kinds)[s].life = "closed"
<1>1. \A s \in Slots : c[s] \in Calls /\ c[s].life \in {"here", "closed"}
  BY DEF Calls
<1>2. Orphaned(c, kinds) \in [Slots -> Calls]
  BY <1>1, Leftovers DEF Orphaned
<1> SUFFICES ASSUME NEW s \in Slots
             PROVE  LET x == Orphaned(c, kinds)[s] IN
                      /\ x.at = c[s].at
                      /\ c[s].kind \notin kinds => x = c[s]
                      /\ c[s].kind \in kinds =>
                           \/ x = c[s]
                           \/ x.kind = "orphan" /\ x.life = "here"
                           \/ x.kind = c[s].kind /\ x.life = "closed" /\ c[s].kind \in ReportingKinds
                      /\ x.kind \in kinds => x.kind = "orphan" \/ x.life = "closed"
  BY <1>2
<1>3. Orphaned(c, kinds)[s] =
        IF c[s].kind \in kinds /\ c[s].life = "here"
        THEN IF c[s].kind \in ReportingKinds THEN [c[s] EXCEPT !.life = "closed"]
             ELSE Orphan(c[s])
        ELSE c[s]
  BY DEF Orphaned
<1>4. CASE c[s].kind \notin kinds
  BY <1>3, <1>4
<1>5. CASE c[s].life = "closed"
  BY <1>3, <1>5
<1>6. CASE c[s].kind \in kinds /\ c[s].life = "here" /\ c[s].kind \in ReportingKinds
  BY <1>1, <1>3, <1>6, Leftovers
<1>7. CASE c[s].kind \in kinds /\ c[s].life = "here" /\ c[s].kind \notin ReportingKinds
  <2>1. Orphaned(c, kinds)[s] = Orphan(c[s])
    BY <1>3, <1>7
  <2>2. /\ Orphan(c[s]).at = c[s].at
        /\ Orphan(c[s]).kind = "orphan" /\ Orphan(c[s]).life = "here"
    BY <1>1, Leftovers
  <2> QED  BY <1>7, <2>1, <2>2
<1> QED
  BY <1>1, <1>4, <1>5, <1>6, <1>7

(* A component is unmounted: what is left of its calls waits for nothing.  *)
LEMMA UnmountedFits ==
  ASSUME NEW p \in Pages, NEW q \in Pages, NEW parts \in SUBSET {"create", "password", "manage", "details"},
         NEW kinds, NEW but \in SUBSET kinds,
         kinds = KindsOfAll(parts), Fit(p, but), p.ui.screen = "dashboard",
         "manage" \in parts => Absent(p.calls, FormKinds),
         q.calls = Orphaned(p.calls, kinds), q.ui.screen = "dashboard",
         q.ui.busy = p.ui.busy \ parts, q.ui.loading = p.ui.loading \ kinds,
         q.ui.effects = p.ui.effects \ kinds,
         Forms(q.calls, q.ui), Choices(q.calls, q.ui)
  PROVE  Fit(q, {})
<1> DEFINE c == p.calls
           d == q.calls
<1>1. c \in [Slots -> Calls] /\ p.ui \in Uis /\ q.ui \in Uis
  BY PageParts
<1>2. /\ d \in [Slots -> Calls]
      /\ \A s \in Slots :
           /\ d[s].at = c[s].at
           /\ c[s].kind \notin kinds => d[s] = c[s]
           /\ c[s].kind \in kinds =>
              \/ d[s] = c[s]
              \/ d[s].kind = "orphan" /\ d[s].life = "here"
              \/ d[s].kind = c[s].kind /\ d[s].life = "closed" /\ c[s].kind \in ReportingKinds
  BY <1>1, OrphanedIs
<1>3. Struct(c, p.ui) /\ Waits(c, p.ui, but)
  BY DEF Fit
<1> HIDE DEF c, d
<1>4. \A kind \in kinds : \E part \in parts : kind \in KindsOf(part)
  BY DEF KindsOfAll
<1>5. kinds \subseteq {"roles", "create", "password", "load", "save", "remove", "read", "change"}
  BY <1>4, Kinds DEF ManageKinds
<1>6. Offstage(d, q.ui)
  BY DEF Offstage
<1>7. SignIn(d, q.ui) /\ Restores(d, q.ui)
  <2>1. Absent(c, SignInKinds) /\ Absent(c, {"restore"})
    BY <1>3 DEF Struct, SignIn, Restores, Absent
  <2>2. \A s \in Slots : d[s].kind \notin SignInKinds /\ d[s].kind # "restore"
    BY <1>2, <2>1 DEF SignInKinds, Absent
  <2> QED  BY <2>2 DEF SignIn, Restores
<1>8. Lives(d)
  <2> SUFFICES ASSUME NEW s \in Slots
               PROVE  /\ d[s].life = "closed" => d[s].kind \in {"create", "password"}
                      /\ d[s].kind \in PublicKinds => d[s].token = NoToken /\ d[s].at = "sent"
                      /\ d[s].kind = "none" => d[s] = Idle
                      /\ d[s].at = "idle" => d[s] = Idle
    BY DEF Lives
  <2>1. CASE d[s] = c[s]
    BY <1>3, <2>1 DEF Struct, Lives
  <2>2. CASE c[s].kind \in kinds /\ d[s] # c[s]
    <3>1. c[s].at # "idle"
      BY <1>3, <1>5, <2>2, Constants DEF Struct, Lives
    <3>2. c[s].kind \notin FormKinds
      <4>1. CASE "manage" \in parts
        BY <4>1 DEF Absent, c
      <4>2. CASE "manage" \notin parts
        <5>1. parts \subseteq {"create", "password", "details"}
          BY <4>2
        <5> QED  BY <1>4, <2>2, <5>1, Kinds DEF FormKinds
      <4> QED  BY <4>1, <4>2
    <3> QED
      BY <1>2, <1>5, <2>2, <3>1, <3>2 DEF PublicKinds, ReportingKinds, FormKinds
  <2> QED  BY <1>2, <2>1, <2>2
<1>9. ASSUME NEW some, some \cap kinds = {}, Awaited(c, some)
      PROVE  Awaited(d, some)
  BY <1>2, <1>9 DEF Awaited
<1>10. Waits(d, q.ui, {})
  <2>1. ASSUME NEW part \in q.ui.busy
        PROVE  Awaited(d, Submits(part))
    <3>1. part \in Parts /\ part \notin parts /\ part \in p.ui.busy
      BY <1>1 DEF Uis
    <3>2. Submits(part) \cap kinds = {}
      BY <1>4, <3>1, Submissions, Kinds DEF Parts, SignInKinds, FormKinds, ManageKinds
    <3>3. Awaited(c, Submits(part))
      BY <1>3, <3>1, <3>2 DEF Waits
    <3> QED  BY <1>9, <3>2, <3>3
  <2>2. ASSUME NEW kind \in q.ui.loading
        PROVE  kind \in q.ui.effects \/ Awaited(d, {kind})
    <3>1. kind \in p.ui.loading /\ kind \notin kinds
      OBVIOUS
    <3> QED  BY <1>3, <1>9, <3>1 DEF Waits
  <2> QED  BY <2>1, <2>2 DEF Waits
<1> QED
  BY <1>3, <1>6, <1>7, <1>8, <1>10 DEF Fit, Struct, d

LEMMA StrippedIs ==
  ASSUME NEW u \in Uis, NEW parts
  PROVE  /\ Stripped(u, parts) \in Uis
         /\ Stripped(u, parts).screen = u.screen
         /\ Stripped(u, parts).busy = u.busy \ parts
         /\ Stripped(u, parts).open = u.open \ parts
         /\ Stripped(u, parts).loading = u.loading \ KindsOfAll(parts)
         /\ Stripped(u, parts).effects = u.effects \ KindsOfAll(parts)
         /\ Stripped(u, parts).chosen = u.chosen /\ Stripped(u, parts).shown = u.shown
         /\ Stripped(u, parts).view = u.view /\ Stripped(u, parts).switched = u.switched
<1>1. /\ u.busy \ parts \in SUBSET Parts
      /\ u.open \ parts \in SUBSET Dialogs
      /\ u.loading \ KindsOfAll(parts) \in SUBSET {"list", "roles", "load"}
      /\ u.effects \ KindsOfAll(parts) \in SUBSET {"list", "roles", "load", "read"}
  BY DEF Uis
<1> QED
  BY <1>1 DEF Stripped, Uis

LEMMA UnmountedIs ==
  ASSUME NEW p \in Pages, NEW parts, NEW v \in Uis
  PROVE  LET q == Show(Unmounted(p, parts), v) IN
         /\ q \in Pages /\ Follows(p, q)
         /\ q.calls = Orphaned(p.calls, KindsOfAll(parts)) /\ q.ui = v
<1> DEFINE d == Orphaned(p.calls, KindsOfAll(parts))
           q == Show(Unmounted(p, parts), v)
<1>1. /\ d \in [Slots -> Calls]
      /\ \A s \in Slots : d[s].at = p.calls[s].at
  BY PageParts, OrphanedIs
<1>2. q = [p EXCEPT !.calls = d, !.ui = v]
  BY DEF Show, Unmounted, Pages
<1> HIDE DEF d, q
<1>3. /\ q \in Pages /\ q.calls = d /\ q.ui = v
      /\ q.session = p.session /\ q.storage = p.storage
  BY <1>1, <1>2 DEF Pages
<1> QED
  BY <1>1, <1>3 DEF Follows, d, q

(* Unmounting other components leaves what the dialog has asked for.       *)
LEMMA OrphanedForms ==
  ASSUME NEW c \in [Slots -> Calls], NEW u \in Uis, NEW v \in Uis, NEW kinds,
         Struct(c, u), kinds \cap ManageKinds = {},
         v.chosen = u.chosen, v.shown = u.shown, v.switched = u.switched,
         "manage" \in v.open <=> "manage" \in u.open,
         "load" \in v.effects => "load" \in u.effects,
         "manage" \in v.busy <=> "manage" \in u.busy,
         v.view = u.view \/ Absent(c, FormKinds)
  PROVE  Forms(Orphaned(c, kinds), v) /\ Choices(Orphaned(c, kinds), v)
<1> DEFINE d == Orphaned(c, kinds)
<1>1. \A s \in Slots :
           /\ c[s].kind \notin kinds => d[s] = c[s]
           /\ c[s].kind \in kinds => d[s] = c[s] \/ d[s].kind = "orphan" \/ d[s].kind = c[s].kind
  BY OrphanedIs
<1> HIDE DEF d
<1>2. \A s \in Slots : d[s].kind \in ManageKinds => d[s] = c[s]
  BY <1>1 DEF ManageKinds
<1>3. FormKinds \subseteq ManageKinds
  BY DEF FormKinds, ManageKinds
<1>4. Forms(d, v)
  BY <1>2, <1>3 DEF Struct, Forms, Absent
<1>5. Choices(d, v)
  BY <1>2 DEF Struct, Choices
<1> QED
  BY <1>4, <1>5 DEF d

LEMMA CloseCreateFits ==
  ASSUME NEW p \in Pages, NEW but \in SUBSET {"create"}, Fit(p, but),
         p.ui.screen = "dashboard"
  PROVE  LET q == CloseCreate(p) IN
         /\ Follows(p, q) /\ q \in Pages /\ Fit(q, {}) /\ q.ui.screen = "dashboard"
<1> DEFINE w == Stripped(p.ui, {"create"})
           v == [w EXCEPT !.rolesListed = FALSE]
           q == CloseCreate(p)
<1>1. p.calls \in [Slots -> Calls] /\ p.ui \in Uis
  BY PageParts
<1>2. /\ w \in Uis /\ w.screen = p.ui.screen
      /\ w.busy = p.ui.busy \ {"create"} /\ w.open = p.ui.open \ {"create"}
      /\ w.loading = p.ui.loading \ {"roles", "create"}
      /\ w.effects = p.ui.effects \ {"roles", "create"}
      /\ w.chosen = p.ui.chosen /\ w.shown = p.ui.shown
      /\ w.view = p.ui.view /\ w.switched = p.ui.switched
  BY <1>1, StrippedIs, Kinds
<1>3. q = Show(Unmounted(p, {"create"}), v)
  BY DEF CloseCreate
<1> HIDE DEF w, q
<1>4. /\ v \in Uis /\ v.screen = w.screen /\ v.busy = w.busy /\ v.open = w.open
      /\ v.loading = w.loading /\ v.effects = w.effects /\ v.chosen = w.chosen
      /\ v.shown = w.shown /\ v.view = w.view /\ v.switched = w.switched
  BY <1>2 DEF Uis
<1> HIDE DEF v
<1>5. /\ q \in Pages /\ Follows(p, q)
      /\ q.calls = Orphaned(p.calls, {"roles", "create"}) /\ q.ui = v
  <2>1. /\ q \in Pages /\ Follows(p, q)
        /\ q.calls = Orphaned(p.calls, KindsOfAll({"create"})) /\ q.ui = v
    BY <1>3, <1>4, UnmountedIs
  <2>2. KindsOfAll({"create"}) = {"roles", "create"}
    BY Kinds
  <2> QED  BY <2>1, <2>2
<1>6. Forms(q.calls, q.ui) /\ Choices(q.calls, q.ui)
  <2>1. {"roles", "create"} \cap ManageKinds = {}
    BY DEF ManageKinds
  <2>2. v.chosen = p.ui.chosen /\ v.shown = p.ui.shown /\ v.switched = p.ui.switched
        /\ v.view = p.ui.view /\ ("manage" \in v.open <=> "manage" \in p.ui.open)
        /\ ("load" \in v.effects <=> "load" \in p.ui.effects)
        /\ ("manage" \in v.busy <=> "manage" \in p.ui.busy)
    BY <1>2, <1>4
  <2> QED  BY <1>1, <1>4, <1>5, <2>1, <2>2, OrphanedForms DEF Fit
<1>7. Fit(q, {})
  <2> DEFINE parts == {"create"}
             kinds == {"roles", "create"}
  <2>1. kinds = KindsOfAll(parts) /\ but \in SUBSET kinds
    BY Kinds
  <2>2. /\ q.ui.screen = "dashboard"
        /\ q.ui.busy = p.ui.busy \ parts /\ q.ui.loading = p.ui.loading \ kinds
        /\ q.ui.effects = p.ui.effects \ kinds /\ q.calls = Orphaned(p.calls, kinds)
    BY <1>2, <1>4, <1>5
  <2>3. parts \in SUBSET {"create", "password", "manage", "details"} /\ "manage" \notin parts
    OBVIOUS
  <2> HIDE DEF parts, kinds
  <2> QED  BY <1>5, <1>6, <2>1, <2>2, <2>3, UnmountedFits
<1> QED
  BY <1>2, <1>4, <1>5, <1>7 DEF q

LEMMA ClosePasswordFits ==
  ASSUME NEW p \in Pages, Fit(p, {}), p.ui.screen = "dashboard"
  PROVE  LET q == Unmounted(p, {"password"}) IN
         /\ Follows(p, q) /\ q \in Pages /\ Fit(q, {})
<1> DEFINE v == Stripped(p.ui, {"password"})
           q == Unmounted(p, {"password"})
<1>1. p.calls \in [Slots -> Calls] /\ p.ui \in Uis
  BY PageParts
<1>2. /\ v \in Uis /\ v.screen = p.ui.screen
      /\ v.busy = p.ui.busy \ {"password"} /\ v.open = p.ui.open \ {"password"}
      /\ v.loading = p.ui.loading \ {"password"} /\ v.effects = p.ui.effects \ {"password"}
      /\ v.chosen = p.ui.chosen /\ v.shown = p.ui.shown
      /\ v.view = p.ui.view /\ v.switched = p.ui.switched
  BY <1>1, StrippedIs, Kinds
<1>3. q = Show(Unmounted(p, {"password"}), v)
  BY DEF Show, Unmounted, Pages
<1> HIDE DEF v, q
<1>5. /\ q \in Pages /\ Follows(p, q)
      /\ q.calls = Orphaned(p.calls, {"password"}) /\ q.ui = v
  <2>1. /\ q \in Pages /\ Follows(p, q)
        /\ q.calls = Orphaned(p.calls, KindsOfAll({"password"})) /\ q.ui = v
    BY <1>2, <1>3, UnmountedIs
  <2>2. KindsOfAll({"password"}) = {"password"}
    BY Kinds
  <2> QED  BY <2>1, <2>2
<1>6. Forms(q.calls, q.ui) /\ Choices(q.calls, q.ui)
  <2>1. {"password"} \cap ManageKinds = {}
    BY DEF ManageKinds
  <2>2. /\ ("manage" \in v.open <=> "manage" \in p.ui.open)
        /\ ("load" \in v.effects <=> "load" \in p.ui.effects)
        /\ ("manage" \in v.busy <=> "manage" \in p.ui.busy)
    BY <1>2
  <2> QED  BY <1>1, <1>2, <1>5, <2>1, <2>2, OrphanedForms DEF Fit
<1>7. Fit(q, {})
  BY <1>2, <1>5, <1>6, UnmountedFits, Kinds
<1> QED
  BY <1>5, <1>7 DEF q

LEMMA LeaveDetailsFits ==
  ASSUME NEW p \in Pages, NEW view \in {"editing", "confirming"}, Fit(p, {}),
         p.ui.screen = "dashboard", p.ui.view = "details"
  PROVE  LET q == LeaveDetails(p, view) IN
         /\ Follows(p, q) /\ q \in Pages /\ Fit(q, {})
<1> DEFINE w == Stripped(p.ui, {"details"})
           v == [w EXCEPT !.view = view]
           q == LeaveDetails(p, view)
<1>1. p.calls \in [Slots -> Calls] /\ p.ui \in Uis
  BY PageParts
<1>2. /\ w \in Uis /\ w.screen = p.ui.screen
      /\ w.busy = p.ui.busy \ {"details"} /\ w.open = p.ui.open \ {"details"}
      /\ w.loading = p.ui.loading \ {"read", "change"}
      /\ w.effects = p.ui.effects \ {"read", "change"}
      /\ w.chosen = p.ui.chosen /\ w.shown = p.ui.shown
      /\ w.view = p.ui.view /\ w.switched = p.ui.switched
  BY <1>1, StrippedIs, Kinds
<1>3. q = Show(Unmounted(p, {"details"}), v)
  BY DEF LeaveDetails
<1> HIDE DEF w, q
<1>4. /\ v \in Uis /\ v.screen = w.screen /\ v.busy = w.busy /\ v.open = w.open
      /\ v.loading = w.loading /\ v.effects = w.effects /\ v.chosen = w.chosen
      /\ v.shown = w.shown /\ v.switched = w.switched
  BY <1>2 DEF Uis
<1> HIDE DEF v
<1>5. /\ q \in Pages /\ Follows(p, q)
      /\ q.calls = Orphaned(p.calls, {"read", "change"}) /\ q.ui = v
  <2>1. /\ q \in Pages /\ Follows(p, q)
        /\ q.calls = Orphaned(p.calls, KindsOfAll({"details"})) /\ q.ui = v
    BY <1>3, <1>4, UnmountedIs
  <2>2. KindsOfAll({"details"}) = {"read", "change"}
    BY Kinds
  <2> QED  BY <2>1, <2>2
<1>6. Forms(q.calls, q.ui) /\ Choices(q.calls, q.ui)
  <2>1. {"read", "change"} \cap ManageKinds = {}
    BY DEF ManageKinds
  <2>2. v.chosen = p.ui.chosen /\ v.shown = p.ui.shown /\ v.switched = p.ui.switched
        /\ ("manage" \in v.open <=> "manage" \in p.ui.open)
        /\ ("load" \in v.effects <=> "load" \in p.ui.effects)
        /\ ("manage" \in v.busy <=> "manage" \in p.ui.busy)
    BY <1>2, <1>4
  <2>3. Absent(p.calls, FormKinds)
    BY DEF Fit, Struct, Forms, Absent
  <2> QED  BY <1>1, <1>4, <1>5, <2>1, <2>2, <2>3, OrphanedForms DEF Fit
<1>7. Fit(q, {})
  BY <1>2, <1>4, <1>5, <1>6, UnmountedFits, Kinds
<1> QED
  BY <1>5, <1>7 DEF q

LEMMA CloseManageFits ==
  ASSUME NEW p \in Pages, NEW but \in SUBSET {"remove"}, Fit(p, but),
         p.ui.screen = "dashboard", Absent(p.calls, FormKinds)
  PROVE  LET q == CloseManage(p) IN
         /\ Follows(p, q) /\ q \in Pages /\ Fit(q, {}) /\ q.ui.screen = "dashboard"
<1> DEFINE parts == {"manage", "details"}
           kinds == KindsOfAll(parts)
           w == Stripped(p.ui, parts)
           v == [w EXCEPT !.chosen = NoUser, !.shown = NoUser, !.view = "details",
                          !.switched = FALSE]
           q == CloseManage(p)
<1>1. p.calls \in [Slots -> Calls] /\ p.ui \in Uis
  BY PageParts
<1>2. /\ w \in Uis /\ w.screen = p.ui.screen
      /\ w.busy = p.ui.busy \ parts /\ w.open = p.ui.open \ parts
      /\ w.loading = p.ui.loading \ kinds /\ w.effects = p.ui.effects \ kinds
  BY <1>1, StrippedIs
<1>3. q = Show(Unmounted(p, parts), v)
  BY DEF CloseManage
<1> HIDE DEF w, q
<1>4. /\ v \in Uis /\ v.screen = w.screen /\ v.busy = w.busy /\ v.open = w.open
      /\ v.loading = w.loading /\ v.effects = w.effects
      /\ v.shown = NoUser /\ v.switched = FALSE
  BY <1>2 DEF Uis
<1> HIDE DEF v
<1>5. /\ q \in Pages /\ Follows(p, q)
      /\ q.calls = Orphaned(p.calls, kinds) /\ q.ui = v
  BY <1>3, <1>4, UnmountedIs
<1>6. kinds = {"load", "save", "remove", "read", "change"}
  BY Kinds DEF ManageKinds
<1> HIDE DEF kinds
<1>7. Absent(q.calls, ManageKinds)
  <2> SUFFICES ASSUME NEW s \in Slots, q.calls[s].kind \in ManageKinds
               PROVE  FALSE
    BY DEF Absent
  <2>1. q.calls[s].life = "closed"
    BY <1>1, <1>5, <1>6, OrphanedIs DEF ManageKinds
  <2>2. p.calls[s].kind = q.calls[s].kind /\ p.calls[s].kind \notin FormKinds
    BY <1>1, <1>5, OrphanedIs DEF ManageKinds, Absent
  <2>3. p.calls[s].life = "here"
    <3>1. p.calls[s].life \in {"here", "closed"}
      BY <1>1 DEF Calls
    <3>2. p.calls[s].life = "closed" => p.calls[s].kind \in {"create", "password"}
      BY DEF Fit, Struct, Lives
    <3> QED  BY <2>2, <3>1, <3>2 DEF ManageKinds
  <2>4. p.calls[s].kind \notin ReportingKinds
    BY <2>2 DEF ManageKinds, FormKinds, ReportingKinds
  <2> QED  BY <1>1, <1>5, <2>1, <2>3, <2>4, OrphanedIs
<1>8. Absent(q.calls, FormKinds)
  BY <1>7 DEF Absent, FormKinds, ManageKinds
<1>9. "manage" \notin v.open /\ "load" \notin v.effects
  BY <1>2, <1>4, <1>6
<1>10. Forms(q.calls, q.ui)
  BY <1>4, <1>5, <1>7, <1>8, <1>9 DEF Forms, Absent
<1>11. Choices(q.calls, q.ui)
  BY <1>4, <1>5, <1>7 DEF Choices, Absent
<1>12. but \subseteq kinds
  BY <1>6
<1>13. Fit(q, {})
  <2>1. parts \in SUBSET {"create", "password", "manage", "details"}
    OBVIOUS
  <2>2. kinds = KindsOfAll(parts)
    BY DEF kinds
  <2>3. /\ q.ui.screen = "dashboard" /\ q.ui.busy = p.ui.busy \ parts
        /\ q.ui.loading = p.ui.loading \ kinds /\ q.ui.effects = p.ui.effects \ kinds
    BY <1>2, <1>4, <1>5
  <2> HIDE DEF parts
  <2> QED  BY <1>5, <1>10, <1>11, <1>12, <2>1, <2>2, <2>3, UnmountedFits
<1> QED
  BY <1>2, <1>4, <1>5, <1>13 DEF q

(* The dialog shows another user, or the same in another way.              *)
LEMMA ShownFits ==
  ASSUME NEW p \in Pages, NEW u \in Users, NEW view \in {"details", "editing", "confirming"},
         NEW v \in Uis, v = [p.ui EXCEPT !.view = view, !.shown = u],
         Fit(p, {}), p.ui.screen = "dashboard", "manage" \in p.ui.open,
         view = p.ui.view \/ Absent(p.calls, FormKinds),
         p.ui.switched = FALSE => u = p.ui.chosen
  PROVE  LET q == Show(p, v) IN
         /\ Shows(p, q) /\ q \in Pages /\ Fit(q, {}) /\ q.ui.screen = "dashboard"
<1> DEFINE q == Show(p, v)
<1>1. p.calls \in [Slots -> Calls] /\ p.ui \in Uis
  BY PageParts
<1>2. /\ v.screen = p.ui.screen /\ v.busy = p.ui.busy /\ v.open = p.ui.open
      /\ v.loading = p.ui.loading /\ v.effects = p.ui.effects
      /\ v.shown = u /\ v.view = view
      /\ v.chosen = p.ui.chosen /\ v.switched = p.ui.switched
  BY <1>1 DEF Uis
<1>3. Shows(p, q) /\ q.ui = v /\ q.calls = p.calls
  BY ShowIs DEF Shows
<1> HIDE DEF q
<1>4. u # NoUser
  BY UsersAssumption
<1>5. Forms(p.calls, v)
  BY <1>2, <1>4 DEF Fit, Struct, Forms, Absent
<1>6. Choices(p.calls, v)
  BY <1>2, <1>4 DEF Fit, Struct, Choices
<1>7. Offstage(p.calls, v) /\ SignIn(p.calls, v) /\ Restores(p.calls, v) /\ Lives(p.calls)
  BY <1>2 DEF Fit, Struct, Offstage, SignIn, Restores
<1>8. Waits(p.calls, v, {})
  BY <1>2 DEF Fit, Waits
<1> QED
  BY <1>2, <1>3, <1>5, <1>6, <1>7, <1>8 DEF Fit, Struct, Shows, q

LEMMA ShowDetailsFits ==
  ASSUME NEW p \in Pages, NEW u \in Users, Fit(p, {}), p.ui.screen = "dashboard",
         "manage" \in p.ui.open, Absent(p.calls, FormKinds),
         p.ui.switched = FALSE => u = p.ui.chosen
  PROVE  LET q == ShowDetails(p, u) IN
         /\ Shows(p, q) /\ q \in Pages /\ Fit(q, {}) /\ q.ui.screen = "dashboard"
<1> DEFINE v == [p.ui EXCEPT !.view = "details", !.shown = u]
           r == Show(p, v)
           q == ShowDetails(p, u)
<1>1. v \in Uis
  BY PageParts DEF Uis
<1>2. /\ Shows(p, r) /\ r \in Pages /\ Fit(r, {}) /\ r.ui.screen = "dashboard"
  BY <1>1, ShownFits
<1>3. q = Effects(r, {"read"})
  BY DEF ShowDetails
<1> HIDE DEF q, r, v
<1>4. Fit(q, {})
  BY <1>2, <1>3, EffectsFit
<1>5. Alike(r, q)
  BY <1>2, <1>3, EffectsIs
<1> QED
  BY <1>2, <1>4, <1>5 DEF Alike, Shows, q

-----------------------------------------------------------------------------
(* Answers.  A page that has just lost the call c, as its handler finds it. *)
Emptied(p, s) == [p EXCEPT !.calls = [@ EXCEPT ![s] = Idle]]

Left(p, c) ==
  /\ p \in Pages /\ c \in Calls
  /\ Fit(p, {c.kind})
  /\ c.life = "closed" => Fit(p, {}) /\ c.kind \in {"create", "password"}
  /\ c.kind \in SignInKinds => p.ui.screen = "login" /\ Absent(p.calls, SignInKinds)
  /\ c.kind = "restore" => p.ui.screen = "restoring" /\ Absent(p.calls, {"restore"})
  /\ c.kind \in DashboardKinds =>
       p.ui.screen = "dashboard" \/ (c.kind = "password" /\ c.life = "closed")
  /\ c.kind \in ManageKinds =>
       /\ "manage" \in p.ui.open /\ c.about \in Users
       /\ p.ui.switched = FALSE => c.about = p.ui.chosen
  /\ c.kind \in FormKinds =>
       /\ Absent(p.calls, FormKinds) /\ p.ui.shown \in Users
       /\ p.ui.switched = FALSE => p.ui.shown = p.ui.chosen

LEMMA EmptiedIs ==
  ASSUME NEW p \in Pages, NEW s \in Slots
  PROVE  /\ Emptied(p, s) \in Pages /\ Emptied(p, s).ui = p.ui
         /\ Emptied(p, s).calls = [p.calls EXCEPT ![s] = Idle]
         /\ Emptied(p, s).session = p.session /\ Emptied(p, s).storage = p.storage
         /\ Emptied(p, s).calls[s] = Idle
         /\ \A o \in Slots \ {s} : Emptied(p, s).calls[o] = p.calls[o]
<1> DEFINE d == [p.calls EXCEPT ![s] = Idle]
<1>1. d \in [Slots -> Calls] /\ d[s] = Idle /\ \A o \in Slots \ {s} : d[o] = p.calls[o]
  BY PageParts, SettledCalls
<1>2. Emptied(p, s) = [p EXCEPT !.calls = d]
  BY DEF Emptied
<1> HIDE DEF d
<1>3. /\ Emptied(p, s) \in Pages /\ Emptied(p, s).ui = p.ui /\ Emptied(p, s).calls = d
      /\ Emptied(p, s).session = p.session /\ Emptied(p, s).storage = p.storage
  BY <1>1, <1>2 DEF Pages
<1> QED
  BY <1>1, <1>3 DEF d

LEMMA EmptiedLeft ==
  ASSUME NEW p \in Pages, NEW s \in Slots, Fit(p, {})
  PROVE  Left(Emptied(p, s), p.calls[s])
<1> DEFINE q == Emptied(p, s)
           c == p.calls[s]
<1>1. /\ q \in Pages /\ q.ui = p.ui /\ q.calls[s] = Idle
      /\ q.calls = [p.calls EXCEPT ![s] = Idle]
      /\ \A o \in Slots \ {s} : q.calls[o] = p.calls[o]
  BY EmptiedIs
<1>2. /\ p.calls \in [Slots -> Calls] /\ p.ui \in Uis /\ c \in Calls
      /\ Struct(p.calls, p.ui) /\ Waits(p.calls, p.ui, {})
  BY PageParts DEF Fit
<1>3. Fit(q, {c.kind})
  BY <1>1, <1>2, EmptiedStruct, EmptiedWaits DEF Fit
<1>4. c.life = "closed" => Fit(q, {}) /\ c.kind \in {"create", "password"}
  <2>1. c.life = "closed" => Fit(q, {})
    <3>1. Struct(q.calls, q.ui)
      BY <1>3 DEF Fit
    <3>2. c.life = "closed" => Waits([p.calls EXCEPT ![s] = Idle], p.ui, {})
      BY <1>2, EmptiedWaits
    <3> QED  BY <1>1, <3>1, <3>2 DEF Fit
  <2>2. c.life = "closed" => c.kind \in {"create", "password"}
    BY <1>2 DEF Struct, Lives
  <2> QED  BY <2>1, <2>2
<1> HIDE DEF q
<1>5. c.kind \in SignInKinds => q.ui.screen = "login" /\ Absent(q.calls, SignInKinds)
  <2>1. "none" \notin SignInKinds
    BY DEF SignInKinds
  <2> QED  BY <1>1, <1>2, <2>1, Constants DEF Struct, SignIn, Absent
<1>6. c.kind = "restore" => q.ui.screen = "restoring" /\ Absent(q.calls, {"restore"})
  BY <1>1, <1>2, Constants DEF Struct, Restores, Absent
<1>7. c.kind \in DashboardKinds =>
        q.ui.screen = "dashboard" \/ (c.kind = "password" /\ c.life = "closed")
  BY <1>1, <1>2 DEF Struct, Offstage
<1>8. c.kind \in ManageKinds =>
       /\ "manage" \in q.ui.open /\ c.about \in Users
       /\ q.ui.switched = FALSE => c.about = q.ui.chosen
  <2>1. c.about \in Users \cup {NoUser}
    BY <1>2 DEF Calls
  <2> QED  BY <1>1, <1>2, <2>1 DEF Struct, Forms, Choices, Absent
<1>9. c.kind \in FormKinds =>
       /\ Absent(q.calls, FormKinds) /\ q.ui.shown \in Users
       /\ q.ui.switched = FALSE => q.ui.shown = q.ui.chosen
  <2>1. q.ui.shown \in Users \cup {NoUser} /\ "none" \notin FormKinds
    BY <1>1, <1>2 DEF Uis, FormKinds
  <2> QED  BY <1>1, <1>2, <2>1, Constants DEF Struct, Forms, Choices, Absent
<1> HIDE DEF c
<1> QED
  BY <1>1, <1>2, <1>3, <1>4, <1>5, <1>6, <1>7, <1>8, <1>9 DEF Left, q, c

(* What a handler makes of such a page.                                    *)
Handled(p, q) == q \in Pages /\ Follows(p, q) /\ Fit(q, {})

LEMMA LeftKinds ==
  ASSUME NEW p, NEW c, Left(p, c)
  PROVE  /\ p \in Pages /\ p.calls \in [Slots -> Calls] /\ p.ui \in Uis /\ c \in Calls
         /\ Struct(p.calls, p.ui) /\ Follows(p, p)
         /\ Fit(p, {c.kind})
         /\ c.life \in {"here", "closed"}
BY PageParts DEF Left, Fit, Calls, Follows, Pages

LEMMA AdminAnswered ==
  ASSUME NEW p, NEW c, Left(p, c), c.kind \in SignInKinds
  PROVE  /\ Handled(p, ShowDashboard(p))
         /\ Handled(p, NotBusy(p, "login"))
         /\ Handled(p, NotBusy(ClearSession(p), "login"))
<1>1. /\ p \in Pages /\ Struct(p.calls, p.ui) /\ Fit(p, {c.kind})
      /\ p.ui.screen = "login" /\ Absent(p.calls, SignInKinds)
  BY LeftKinds DEF Left
<1>2. Absent(p.calls, {"restore"})
  BY <1>1 DEF Struct, Restores, Absent
<1>3. Follows(p, ShowDashboard(p)) /\ Fit(ShowDashboard(p), {})
  BY <1>1, <1>2, FreshFits DEF ShowDashboard
<1>4. c.kind \in Submits("login") /\ "login" \in Parts
  BY Submissions DEF Parts
<1>5. ASSUME NEW q \in Pages, Fit(q, {c.kind}), q.calls = p.calls, Follows(p, q)
      PROVE  Handled(p, NotBusy(q, "login"))
  <2>1. Fit(NotBusy(q, "login"), {})
    BY <1>1, <1>4, <1>5, NotBusyFits
  <2>2. Follows(q, NotBusy(q, "login")) /\ NotBusy(q, "login") \in Pages
    BY NotBusyIs, AlikeFollows DEF Follows
  <2> QED  BY <1>5, <2>1, <2>2, FollowsOn DEF Handled
<1>6. Handled(p, NotBusy(p, "login"))
  BY <1>1, <1>5, LeftKinds
<1>7. Handled(p, NotBusy(ClearSession(p), "login"))
  BY <1>1, <1>5, ClearedIs, ClearedFits
<1> QED
  BY <1>3, <1>6, <1>7 DEF Handled, Follows

LEMMA RestoreAnswered ==
  ASSUME NEW p, NEW c, Left(p, c), c.kind = "restore", NEW ok \in BOOLEAN
  PROVE  Handled(p, OnRestore(p, ok))
<1>1. /\ p \in Pages /\ Struct(p.calls, p.ui)
      /\ p.ui.screen = "restoring" /\ Absent(p.calls, {"restore"})
  BY LeftKinds DEF Left
<1>2. Absent(p.calls, SignInKinds)
  BY <1>1 DEF Struct, SignIn, Absent
<1>3. Follows(p, ShowDashboard(p)) /\ Fit(ShowDashboard(p), {})
  BY <1>1, <1>2, FreshFits DEF ShowDashboard
<1> DEFINE q == ClearSession(p)
<1>4. q \in Pages /\ Follows(p, q) /\ q.calls = p.calls /\ q.ui = p.ui
  BY <1>1, ClearedIs
<1> HIDE DEF q
<1>5. Follows(q, Show(q, LoginUi)) /\ Fit(Show(q, LoginUi), {})
  BY <1>1, <1>2, <1>4, FreshFits
<1>6. Follows(p, Show(q, LoginUi))
  BY <1>4, <1>5, FollowsOn
<1> QED
  BY <1>3, <1>5, <1>6 DEF OnRestore, Handled, Follows, q

LEMMA LogoutAnswered ==
  ASSUME NEW p, NEW c, Left(p, c), c.kind = "logout", NEW ok \in BOOLEAN
  PROVE  Handled(p, OnLogout(p, ok))
<1>1. p \in Pages /\ Fit(p, {})
  BY LeftKinds, UnmissedFits
<1>2. Handled(p, SessionEnded(p))
  BY <1>1, SessionEndedFits DEF Handled, Fit, Follows
<1>3. Handled(p, ClearSession(p))
  BY <1>1, ClearedIs, ClearedFits DEF Handled
<1> QED
  BY <1>2, <1>3 DEF OnLogout

LEMMA LoadingAnswered ==
  ASSUME NEW p, NEW c, Left(p, c), NEW kind \in {"list", "roles", "load"}, c.kind = kind
  PROVE  /\ Handled(p, Loaded(p, kind)) /\ Alike(p, Loaded(p, kind))
         /\ Loaded(p, kind).ui.busy = p.ui.busy
<1>1. p \in Pages /\ Fit(p, {kind})
  BY LeftKinds
<1>2. /\ Alike(p, Loaded(p, kind)) /\ Fit(Loaded(p, kind), {})
      /\ Loaded(p, kind).ui.busy = p.ui.busy
  BY <1>1, LoadedIs, LoadedFits
<1>3. Follows(p, Loaded(p, kind))
  BY <1>2, AlikeFollows
<1> QED
  BY <1>2, <1>3 DEF Handled, Follows

LEMMA RolesAnswered ==
  ASSUME NEW p, NEW c, Left(p, c), c.kind = "roles", NEW ok \in BOOLEAN
  PROVE  Handled(p, OnRoles(p, ok))
<1> DEFINE q == Loaded(p, "roles")
           v == [q.ui EXCEPT !.rolesListed = TRUE]
<1>1. Handled(p, q)
  BY LoadingAnswered
<1>2. OnRoles(p, ok) = IF ok THEN Show(q, v) ELSE q
  BY DEF OnRoles
<1> HIDE DEF q
<1>3. q \in Pages /\ q.ui \in Uis /\ q.calls \in [Slots -> Calls]
  BY <1>1, PageParts DEF Handled
<1>4. /\ v \in Uis /\ v.screen = q.ui.screen /\ v.busy = q.ui.busy /\ v.open = q.ui.open
      /\ v.loading = q.ui.loading /\ v.effects = q.ui.effects /\ v.chosen = q.ui.chosen
      /\ v.shown = q.ui.shown /\ v.view = q.ui.view /\ v.switched = q.ui.switched
  BY <1>3 DEF Uis
<1> HIDE DEF v
<1>5. Struct(q.calls, v)
  <2>1. v.screen # "dashboard" =>
           v.busy \subseteq {"login"} /\ v.loading = {} /\ v.effects = {} /\ v.open = {}
    BY <1>1, <1>4 DEF Handled, Fit, Struct, Offstage
  <2> QED  BY <1>1, <1>3, <1>4, <2>1, SameStruct DEF Handled, Fit
<1>6. Waits(q.calls, v, {})
  BY <1>1, <1>4 DEF Handled, Fit, Waits
<1>7. Shows(q, Show(q, v)) /\ Show(q, v).ui = v /\ Show(q, v).calls = q.calls
  BY <1>3, <1>4, ShowIs DEF Shows
<1>8. Handled(p, Show(q, v))
  BY <1>1, <1>5, <1>6, <1>7, ShowsFollows, FollowsOn DEF Handled, Fit, Follows
<1> QED
  BY <1>1, <1>2, <1>8

(* A form that is no longer submitting, and the list that is read again.   *)
LEMMA ReloadFits ==
  ASSUME NEW p, NEW q, Handled(p, q), q.ui.screen = "dashboard"
  PROVE  Handled(p, Reload(q))
<1>1. q \in Pages /\ Fit(q, {})
  BY DEF Handled
<1>2. Fit(Reload(q), {}) /\ Follows(q, Reload(q)) /\ Reload(q) \in Pages
  BY <1>1, EffectsFit, EffectsIs, AlikeFollows DEF Reload, Follows
<1> QED
  BY <1>2, FollowsOn DEF Handled

LEMMA SubmittedAnswered ==
  ASSUME NEW p, NEW c, Left(p, c), NEW part \in {"create", "password", "manage", "details"},
         c.kind \in Submits(part)
  PROVE  Handled(p, NotBusy(p, part)) /\ Alike(p, NotBusy(p, part))
<1>1. p \in Pages /\ Fit(p, {c.kind}) /\ part \in Parts
  BY LeftKinds DEF Parts
<1>2. part = "manage" => Absent(p.calls, FormKinds)
  BY Submissions DEF Left
<1>3. Fit(NotBusy(p, part), {})
  BY <1>1, <1>2, NotBusyFits
<1> QED
  BY <1>1, <1>3, NotBusyIs, AlikeFollows DEF Handled, Follows

LEMMA CreateAnswered ==
  ASSUME NEW p, NEW c, Left(p, c), c.kind = "create", NEW here \in BOOLEAN, NEW ok \in BOOLEAN,
         here <=> c.life = "here"
  PROVE  Handled(p, OnCreate(p, here, ok))
<1> DEFINE q == IF here THEN NotBusy(p, "create") ELSE p
<1>1. OnCreate(p, here, ok) = IF ok THEN Reload(CloseCreate(q)) ELSE q
  BY DEF OnCreate
<1>2. p.ui.screen = "dashboard"
  BY Kinds DEF Left
<1>3. Handled(p, q) /\ q.ui.screen = "dashboard"
  <2>1. CASE here
    BY <1>2, <2>1, SubmittedAnswered, Submissions DEF Alike
  <2>2. CASE ~here
    <3>1. c.life = "closed"
      BY <2>2, LeftKinds
    <3> QED  BY <1>2, <2>2, <3>1, LeftKinds DEF Left, Handled
  <2> QED  BY <2>1, <2>2
<1> HIDE DEF q
<1>4. /\ CloseCreate(q) \in Pages /\ Follows(q, CloseCreate(q)) /\ Fit(CloseCreate(q), {})
      /\ CloseCreate(q).ui.screen = "dashboard"
  BY <1>3, CloseCreateFits DEF Handled
<1>5. Handled(p, CloseCreate(q))
  BY <1>3, <1>4, FollowsOn DEF Handled
<1>6. Handled(p, Reload(CloseCreate(q)))
  BY <1>4, <1>5, ReloadFits
<1> QED
  BY <1>1, <1>3, <1>6

LEMMA FormAnswered ==
  ASSUME NEW p, NEW c, Left(p, c), c.kind \in FormKinds
  PROVE  LET q == NotBusy(p, "manage") IN
         /\ Handled(p, q)
         /\ Handled(p, ShowDetails(q, c.about)) /\ Handled(p, Reload(ShowDetails(q, c.about)))
         /\ Handled(p, ShowDetails(q, q.ui.shown)) /\ Handled(p, Reload(CloseManage(q)))
<1> DEFINE q == NotBusy(p, "manage")
<1>1. Handled(p, q) /\ Alike(p, q)
  BY SubmittedAnswered, Submissions
<1>2. FormKinds \subseteq ManageKinds /\ FormKinds \subseteq DashboardKinds
      /\ "password" \notin FormKinds
  BY Kinds DEF FormKinds, ManageKinds
<1> HIDE DEF q
<1>3. /\ q.ui.screen = "dashboard" /\ "manage" \in q.ui.open /\ Absent(q.calls, FormKinds)
      /\ c.about \in Users /\ q.ui.shown \in Users
      /\ q.ui.switched = FALSE => c.about = q.ui.chosen /\ q.ui.shown = q.ui.chosen
  BY <1>1, <1>2 DEF Left, Alike, Shows
<1>4. q \in Pages /\ Fit(q, {})
  BY <1>1 DEF Handled
<1>5. ASSUME NEW u \in Users, q.ui.switched = FALSE => u = q.ui.chosen
      PROVE  /\ Handled(p, ShowDetails(q, u)) /\ ShowDetails(q, u).ui.screen = "dashboard"
             /\ Handled(p, Reload(ShowDetails(q, u)))
  <2>1. /\ Shows(q, ShowDetails(q, u)) /\ ShowDetails(q, u) \in Pages
        /\ Fit(ShowDetails(q, u), {}) /\ ShowDetails(q, u).ui.screen = "dashboard"
    BY <1>3, <1>4, <1>5, ShowDetailsFits
  <2>2. Handled(p, ShowDetails(q, u))
    BY <1>1, <2>1, ShowsFollows, FollowsOn DEF Handled
  <2> QED  BY <2>1, <2>2, ReloadFits
<1>6. /\ Follows(q, CloseManage(q)) /\ CloseManage(q) \in Pages /\ Fit(CloseManage(q), {})
      /\ CloseManage(q).ui.screen = "dashboard"
  BY <1>3, <1>4, CloseManageFits
<1>7. Handled(p, CloseManage(q))
  BY <1>1, <1>6, FollowsOn DEF Handled
<1>8. Handled(p, Reload(CloseManage(q)))
  BY <1>6, <1>7, ReloadFits
<1> QED
  BY <1>1, <1>3, <1>5, <1>8 DEF q

LEMMA LoadAnswered ==
  ASSUME NEW p, NEW c, Left(p, c), c.kind = "load", NEW ok \in BOOLEAN
  PROVE  Handled(p, OnLoad(p, c.about, ok))
<1> DEFINE q == Loaded(p, "load")
           u == c.about
           v == [q.ui EXCEPT !.shown = u]
<1>1. Handled(p, q) /\ Alike(p, q)
  BY LoadingAnswered
<1>2. OnLoad(p, u, ok) = IF ~ok \/ q.ui.shown = u THEN q
                         ELSE IF q.ui.view = "details" THEN ShowDetails(q, u)
                         ELSE Show(q, v)
  BY DEF OnLoad
<1>3. "load" \in ManageKinds /\ "load" \in DashboardKinds
  BY Kinds DEF ManageKinds
<1> HIDE DEF q
<1>4. /\ q \in Pages /\ q.ui \in Uis /\ Fit(q, {}) /\ q.ui.screen = "dashboard"
      /\ "manage" \in q.ui.open /\ u \in Users
      /\ q.ui.switched = FALSE => u = q.ui.chosen
  BY <1>1, <1>3, PageParts DEF Left, Alike, Handled
<1> HIDE DEF u
<1>5. CASE q.ui.view = "details"
  <2>1. Absent(q.calls, FormKinds)
    BY <1>4, <1>5 DEF Fit, Struct, Forms, Absent
  <2>2. Shows(q, ShowDetails(q, u)) /\ ShowDetails(q, u) \in Pages /\ Fit(ShowDetails(q, u), {})
    BY <1>4, <2>1, ShowDetailsFits
  <2>3. Handled(p, ShowDetails(q, u))
    BY <1>1, <2>2, ShowsFollows, FollowsOn DEF Handled
  <2> QED  BY <1>1, <1>2, <1>5, <2>3 DEF u
<1>6. CASE q.ui.view # "details"
  <2> DEFINE view == q.ui.view
  <2>1. /\ v \in Uis /\ v = [q.ui EXCEPT !.view = view, !.shown = u]
        /\ view \in {"details", "editing", "confirming"}
    BY <1>4 DEF Uis
  <2> HIDE DEF v
  <2>2. Shows(q, Show(q, v)) /\ Show(q, v) \in Pages /\ Fit(Show(q, v), {})
    BY <1>4, <2>1, ShownFits
  <2>3. Handled(p, Show(q, v))
    BY <1>1, <2>2, ShowsFollows, FollowsOn DEF Handled
  <2> QED  BY <1>1, <1>2, <1>6, <2>3 DEF u
<1> QED
  BY <1>5, <1>6

LEMMA ChangeAnswered ==
  ASSUME NEW p, NEW c, Left(p, c), c.kind = "change", NEW ok \in BOOLEAN
  PROVE  Handled(p, OnChange(p, ok))
<1> DEFINE q == NotBusy(p, "details")
<1>1. Handled(p, q) /\ Alike(p, q)
  BY SubmittedAnswered, Submissions
<1>2. OnChange(p, ok) = IF ok THEN Effects(q, {"read"}) ELSE q
  BY DEF OnChange
<1>3. p.ui.screen = "dashboard"
  BY Kinds DEF Left
<1> HIDE DEF q
<1>4. q \in Pages /\ Fit(q, {}) /\ q.ui.screen = "dashboard"
  BY <1>1, <1>3 DEF Alike, Handled
<1>5. Fit(Effects(q, {"read"}), {}) /\ Follows(q, Effects(q, {"read"}))
      /\ Effects(q, {"read"}) \in Pages
  BY <1>4, EffectsFit, EffectsIs, AlikeFollows DEF Follows
<1> QED
  BY <1>1, <1>2, <1>5, FollowsOn DEF Handled

LEMMA PasswordAnswered ==
  ASSUME NEW p, NEW c, Left(p, c), c.kind = "password", NEW here \in BOOLEAN, NEW ok \in BOOLEAN,
         here <=> c.life = "here"
  PROVE  Handled(p, OnPassword(p, here, ok))
<1>1. p \in Pages /\ Struct(p.calls, p.ui)
  BY LeftKinds
<1>2. Handled(p, SessionEnded(p))
  <2>1. p.ui.screen # "dashboard" => Waits(p.calls, p.ui, {})
    BY Kinds DEF Left, Fit
  <2> QED  BY <1>1, <2>1, SessionEndedFits DEF Handled, Follows
<1>3. here = TRUE => Handled(p, NotBusy(p, "password"))
  BY SubmittedAnswered, Submissions
<1>4. here = FALSE => Handled(p, p)
  BY LeftKinds DEF Left, Handled
<1> QED
  BY <1>2, <1>3, <1>4 DEF OnPassword

LEMMA AnsweredFits ==
  ASSUME NEW p, NEW c, Left(p, c), NEW ok \in BOOLEAN
  PROVE  Handled(p, Answered(p, c, ok))
<1> DEFINE here == c.life = "here"
           r == Answered(p, c, ok)
<1>1. here \in BOOLEAN /\ (here <=> c.life = "here")
  OBVIOUS
<1>2. PublicKinds = {"login", "reset"} /\ SignInKinds = {"login", "admin", "reset"}
  BY DEF PublicKinds, SignInKinds
<1>3. CASE c.kind = "admin"
  <2>1. r = IF ok THEN ShowDashboard(p) ELSE NotBusy(ClearSession(p), "login")
    BY <1>2, <1>3 DEF Answered, OnAdmin
  <2> QED  BY <1>2, <1>3, <2>1, AdminAnswered
<1>4. CASE c.kind = "restore"
  <2>1. r = OnRestore(p, ok)
    BY <1>2, <1>4 DEF Answered
  <2> QED  BY <1>4, <2>1, RestoreAnswered
<1>5. CASE c.kind = "logout"
  <2>1. r = OnLogout(p, ok)
    BY <1>2, <1>5 DEF Answered
  <2> QED  BY <1>5, <2>1, LogoutAnswered
<1>6. CASE c.kind \in PublicKinds
  <2>1. r = NotBusy(p, "login")
    BY <1>2, <1>6 DEF Answered
  <2> QED  BY <1>2, <1>6, <2>1, AdminAnswered
<1>7. CASE c.kind = "list"
  <2>1. r = Loaded(p, "list")
    BY <1>2, <1>7 DEF Answered
  <2> QED  BY <1>7, <2>1, LoadingAnswered
<1>8. CASE c.kind = "create"
  <2>1. r = OnCreate(p, here, ok)
    BY <1>2, <1>8 DEF Answered
  <2> HIDE DEF here
  <2> QED  BY <1>1, <1>8, <2>1, CreateAnswered
<1>9. CASE c.kind = "save"
  <2>1. c.life = "here"
    BY <1>9, LeftKinds DEF Left
  <2>2. r = IF ~ok THEN NotBusy(p, "manage")
            ELSE Reload(ShowDetails(NotBusy(p, "manage"), c.about))
    BY <1>2, <1>9, <2>1 DEF Answered, OnSave
  <2> QED  BY <1>9, <2>2, FormAnswered DEF FormKinds
<1>10. CASE c.kind = "remove"
  <2>1. c.life = "here"
    BY <1>10, LeftKinds DEF Left
  <2> DEFINE q == NotBusy(p, "manage")
  <2>2. r = IF ok THEN Reload(CloseManage(q)) ELSE ShowDetails(q, q.ui.shown)
    BY <1>2, <1>10, <2>1 DEF Answered, OnRemove
  <2> QED  BY <1>10, <2>2, FormAnswered DEF FormKinds
<1>11. CASE c.kind = "password"
  <2>1. r = OnPassword(p, here, ok)
    BY <1>2, <1>11 DEF Answered
  <2> HIDE DEF here
  <2> QED  BY <1>1, <1>11, <2>1, PasswordAnswered
<1>12. CASE c.kind = "roles"
  <2>1. r = OnRoles(p, ok)
    BY <1>2, <1>12 DEF Answered
  <2> QED  BY <1>12, <2>1, RolesAnswered
<1>13. CASE c.kind = "load"
  <2>1. r = OnLoad(p, c.about, ok)
    BY <1>2, <1>13 DEF Answered
  <2> QED  BY <1>13, <2>1, LoadAnswered
<1>14. CASE c.kind = "change"
  <2>1. r = OnChange(p, ok)
    BY <1>2, <1>14 DEF Answered
  <2> QED  BY <1>14, <2>1, ChangeAnswered
<1>15. CASE c.kind \in {"none", "orphan", "read"}
  <2>1. r = p
    BY <1>2, <1>15 DEF Answered
  <2> QED  BY <1>15, <2>1, LeftKinds, UnmissedFits DEF Handled
<1>16. c.kind \in {"none", "restore", "logout", "orphan", "admin", "list", "roles", "create",
                   "password", "load", "save", "remove", "read", "change"} \cup PublicKinds
  <2>1. c \in Calls
    BY LeftKinds
  <2> QED  BY <1>2, <2>1 DEF Calls
<1> QED
  BY <1>3, <1>4, <1>5, <1>6, <1>7, <1>8, <1>9, <1>10, <1>11, <1>12, <1>13, <1>14, <1>15, <1>16

LEMMA SettledFits ==
  ASSUME NEW p \in Pages, NEW s \in Slots, NEW reply, Fit(p, {})
  PROVE  Handled(Emptied(p, s), Settled(p, s, reply))
<1> DEFINE q == Emptied(p, s)
           c == p.calls[s]
           ok == reply = "ok"
<1>1. Left(q, c)
  BY EmptiedLeft
<1>2. Settled(p, s, reply) = IF c.kind \in GuardedKinds /\ reply \in {"401", "403"}
                             THEN SessionEnded(q) ELSE Answered(q, c, ok)
  BY DEF Settled, Emptied
<1>3. ok \in BOOLEAN
  OBVIOUS
<1> HIDE DEF ok, q, c
<1>4. Handled(q, Answered(q, c, ok))
  BY <1>1, <1>3, AnsweredFits
<1>5. CASE c.kind \in GuardedKinds
  <2>1. q \in Pages /\ Struct(q.calls, q.ui)
    BY <1>1, LeftKinds
  <2>2. q.ui.screen # "dashboard" => Fit(q, {})
    <3>1. CASE c.kind = "orphan"
      BY <1>1, <3>1, LeftKinds, UnmissedFits
    <3>2. CASE c.kind # "orphan"
      <4>1. c.kind \in DashboardKinds /\ c.kind # "password"
        BY <1>5, <3>2, Kinds DEF ManageKinds
      <4> QED  BY <1>1, <4>1 DEF Left
    <3> QED  BY <3>1, <3>2
  <2>3. Handled(q, SessionEnded(q))
    BY <2>1, <2>2, SessionEndedFits DEF Handled, Fit, Follows
  <2> QED  BY <1>2, <1>4, <2>3 DEF q
<1> QED
  BY <1>2, <1>4, <1>5 DEF q

-----------------------------------------------------------------------------
(* A call is made in a slot that is free.                                  *)
Requests == {"login", "reset", "logout", "list", "roles", "create", "password", "load",
             "save", "remove", "read", "change"}

LEMMA FreeSlot ==
  ASSUME NEW p \in Pages, Free(p) # {}
  PROVE  SomeFree(p) \in Slots /\ p.calls[SomeFree(p)] = Idle
BY DEF SomeFree, Free

Placed(p, s, call) == [p EXCEPT !.calls = [@ EXCEPT ![s] = call]]

LEMMA PlacedIs ==
  ASSUME NEW p \in Pages, NEW s \in Slots, NEW call \in Calls
  PROVE  /\ Placed(p, s, call) \in Pages /\ Placed(p, s, call).ui = p.ui
         /\ Placed(p, s, call).session = p.session
         /\ Placed(p, s, call).storage = p.storage
         /\ Placed(p, s, call).calls[s] = call
         /\ \A o \in Slots \ {s} : Placed(p, s, call).calls[o] = p.calls[o]
<1> DEFINE d == [p.calls EXCEPT ![s] = call]
<1>1. d \in [Slots -> Calls] /\ d[s] = call /\ \A o \in Slots \ {s} : d[o] = p.calls[o]
  BY PageParts
<1>2. Placed(p, s, call) = [p EXCEPT !.calls = d]
  BY DEF Placed
<1> HIDE DEF d
<1>3. /\ Placed(p, s, call) \in Pages /\ Placed(p, s, call).ui = p.ui
      /\ Placed(p, s, call).calls = d
      /\ Placed(p, s, call).session = p.session /\ Placed(p, s, call).storage = p.storage
  BY <1>1, <1>2 DEF Pages
<1> QED
  BY <1>1, <1>3

Made(call, kind, about) ==
  /\ call \in Calls /\ call.kind = kind /\ call.at = "sent" /\ call.life = "here"
  /\ call.about = about
  /\ kind \in PublicKinds => call.token = NoToken

LEMMA SentIsMade ==
  ASSUME NEW kind \in Requests, NEW t \in Nat \cup {NoToken}, NEW about \in Users \cup {NoUser},
         kind \in PublicKinds => t = NoToken
  PROVE  Made(Sent(kind, t, "sent", about), kind, about)
BY DEF Made, Sent, Calls, Requests

(* A page with its flags set as the call of this kind will be waited for.  *)
MayMake(p, kind, about) ==
  /\ p \in Pages /\ kind \in Requests /\ about \in Users \cup {NoUser}
  /\ Fit(p, {kind})
  /\ kind \in PublicKinds =>
       p.ui.screen = "login" /\ "login" \in p.ui.busy /\ Absent(p.calls, SignInKinds)
  /\ kind \notin PublicKinds => p.ui.screen = "dashboard"
  /\ kind \in ManageKinds =>
       /\ "manage" \in p.ui.open /\ about # NoUser
       /\ p.ui.switched = FALSE => about = p.ui.chosen
  /\ kind \in FormKinds =>
       /\ "manage" \in p.ui.busy /\ p.ui.shown # NoUser /\ Absent(p.calls, FormKinds)
       /\ p.ui.view = IF kind = "save" THEN "editing" ELSE "confirming"

LEMMA PlacedFits ==
  ASSUME NEW p, NEW kind, NEW about, MayMake(p, kind, about), NEW s \in Slots,
         p.calls[s] = Idle, NEW call, Made(call, kind, about)
  PROVE  Fit(Placed(p, s, call), {})
<1> DEFINE q == Placed(p, s, call)
           c == p.calls
           d == q.calls
           u == p.ui
<1>1. p \in Pages /\ call \in Calls /\ kind \in Requests /\ Struct(c, u) /\ Waits(c, u, {kind})
  BY DEF MayMake, Made, Fit
<1>2. /\ q \in Pages /\ q.ui = u /\ d[s] = call
      /\ \A o \in Slots \ {s} : d[o] = c[o]
  BY <1>1, PlacedIs
<1>3. u \in Uis /\ c[s] = Idle
  BY <1>1, PageParts
<1>4. /\ call.kind = kind /\ call.at = "sent" /\ call.life = "here" /\ call.about = about
      /\ kind \in PublicKinds => call.token = NoToken
  BY DEF Made
<1>5. /\ kind \in PublicKinds =>
           u.screen = "login" /\ "login" \in u.busy /\ Absent(c, SignInKinds)
      /\ kind \notin PublicKinds => u.screen = "dashboard"
      /\ kind \in ManageKinds =>
           /\ "manage" \in u.open /\ about # NoUser
           /\ u.switched = FALSE => about = u.chosen
      /\ kind \in FormKinds =>
           /\ "manage" \in u.busy /\ u.shown # NoUser /\ Absent(c, FormKinds)
           /\ u.view = IF kind = "save" THEN "editing" ELSE "confirming"
  BY DEF MayMake
<1> HIDE DEF q, c, d, u
<1>6. /\ kind \in SignInKinds <=> kind \in PublicKinds
      /\ kind \notin {"restore", "none", "orphan", "admin"}
      /\ kind \in PublicKinds => kind \notin DashboardKinds
  BY <1>1, Kinds DEF Requests, SignInKinds, PublicKinds, ManageKinds
<1>7. Offstage(d, u)
  BY <1>1, <1>2, <1>4, <1>5, <1>6 DEF Struct, Offstage
<1>8. SignIn(d, u)
  BY <1>1, <1>2, <1>4, <1>5, <1>6 DEF Struct, SignIn, Absent
<1>9. Restores(d, u)
  BY <1>1, <1>2, <1>4, <1>6 DEF Struct, Restores
<1>10. Lives(d)
  BY <1>1, <1>2, <1>4, <1>6 DEF Struct, Lives
<1>11. FormKinds \subseteq ManageKinds
  BY DEF FormKinds, ManageKinds
<1>12. Forms(d, u)
  <2>1. "manage" \notin u.open =>
          /\ u.shown = NoUser /\ u.switched = FALSE /\ "load" \notin u.effects
          /\ Absent(d, ManageKinds)
    BY <1>1, <1>2, <1>4, <1>5 DEF Struct, Forms, Absent
  <2>2. "manage" \in u.open => u.chosen # NoUser
    BY <1>1 DEF Struct, Forms
  <2>3. ASSUME NEW o \in Slots, d[o].kind \in FormKinds
        PROVE  /\ "manage" \in u.busy /\ u.shown # NoUser
               /\ u.view = IF d[o].kind = "save" THEN "editing" ELSE "confirming"
               /\ \A r \in Slots : d[r].kind \in FormKinds => r = o
    <3>1. CASE kind \in FormKinds
      <4>1. o = s
        BY <1>2, <1>5, <2>3, <3>1 DEF Absent
      <4> QED  BY <1>2, <1>4, <1>5, <3>1, <4>1 DEF Absent
    <3>2. CASE kind \notin FormKinds
      <4>1. o # s /\ d[o] = c[o]
        BY <1>2, <1>4, <2>3, <3>2
      <4> QED  BY <1>1, <1>2, <1>4, <2>3, <3>2, <4>1 DEF Struct, Forms
    <3> QED  BY <3>1, <3>2
  <2> QED  BY <2>1, <2>2, <2>3 DEF Forms
<1>13. Choices(d, u)
  BY <1>1, <1>2, <1>4, <1>5 DEF Struct, Choices
<1>14. ASSUME NEW kinds, "none" \notin kinds, Awaited(c, kinds)
       PROVE  Awaited(d, kinds)
  BY <1>2, <1>3, <1>14, Constants DEF Awaited
<1>15. ASSUME NEW kinds, kind \in kinds
       PROVE  Awaited(d, kinds)
  BY <1>2, <1>4, <1>15 DEF Awaited
<1>16. Waits(d, u, {})
  <2>1. ASSUME NEW part \in u.busy
        PROVE  Awaited(d, Submits(part))
    <3>1. "none" \notin Submits(part)
      BY <1>3, Submissions DEF Uis, Parts, SignInKinds, FormKinds
    <3> QED  BY <1>1, <1>14, <1>15, <3>1 DEF Waits
  <2>2. ASSUME NEW other \in u.loading
        PROVE  other \in u.effects \/ Awaited(d, {other})
    <3>1. other # "none"
      BY <1>3 DEF Uis
    <3> QED  BY <1>1, <1>14, <1>15, <3>1 DEF Waits
  <2>3. u.screen = "restoring" => Awaited(d, {"restore"})
    BY <1>1, <1>6, <1>14 DEF Waits
  <2> QED  BY <2>1, <2>2, <2>3 DEF Waits
<1> QED
  BY <1>2, <1>7, <1>8, <1>9, <1>10, <1>12, <1>13, <1>16 DEF Fit, Struct, q, d

-----------------------------------------------------------------------------
(* What a step that is no refresh makes of a page.                         *)
Pending == {"waiting", "restoring"}

Onward(p, q) ==
  /\ q \in Pages /\ Fit(q, {})
  /\ \/ q.session = p.session /\ q.storage = p.storage
     \/ q.session = NoToken /\ q.storage = NoToken
  /\ \A s \in Slots : q.calls[s].at \in Pending <=> p.calls[s].at \in Pending

LEMMA HandledOnward ==
  ASSUME NEW p, NEW q, Handled(p, q)
  PROVE  Onward(p, q)
BY DEF Handled, Follows, Onward

LEMMA ShownOnward ==
  ASSUME NEW p, NEW b, NEW q, Shows(p, b), Onward(b, q)
  PROVE  Onward(p, q)
BY DEF Shows, Onward

LEMMA EmptiedOnward ==
  ASSUME NEW p \in Pages, NEW s \in Slots, p.calls[s].at \notin Pending,
         NEW q, Handled(Emptied(p, s), q)
  PROVE  Onward(p, q)
<1>1. /\ Emptied(p, s).session = p.session /\ Emptied(p, s).storage = p.storage
      /\ Emptied(p, s).calls[s] = Idle
      /\ \A o \in Slots \ {s} : Emptied(p, s).calls[o] = p.calls[o]
  BY EmptiedIs
<1>2. \A o \in Slots : Emptied(p, s).calls[o].at \in Pending <=> p.calls[o].at \in Pending
  BY <1>1, Constants DEF Pending
<1> QED
  BY <1>1, <1>2 DEF Handled, Follows, Onward

LEMMA PlacedOnward ==
  ASSUME NEW p, NEW kind, NEW about, MayMake(p, kind, about), Free(p) # {},
         NEW call, Made(call, kind, about)
  PROVE  Onward(p, Placed(p, SomeFree(p), call))
<1> DEFINE s == SomeFree(p)
           q == Placed(p, s, call)
<1>1. p \in Pages /\ s \in Slots /\ p.calls[s] = Idle /\ call \in Calls /\ call.at = "sent"
  BY FreeSlot DEF MayMake, Made
<1> HIDE DEF s
<1>2. Fit(q, {})
  BY <1>1, PlacedFits
<1>3. /\ q \in Pages /\ q.session = p.session /\ q.storage = p.storage
      /\ q.calls[s] = call /\ \A o \in Slots \ {s} : q.calls[o] = p.calls[o]
  BY <1>1, PlacedIs
<1> HIDE DEF q
<1>4. \A o \in Slots : q.calls[o].at \in Pending <=> p.calls[o].at \in Pending
  BY <1>1, <1>3, Constants DEF Pending
<1> QED
  BY <1>2, <1>3, <1>4 DEF Onward, q, s

LEMMA SendOnward ==
  ASSUME NEW p, NEW kind, NEW about, MayMake(p, kind, about), kind \notin PublicKinds, Free(p) # {}
  PROVE  Onward(p, Send(p, kind, about))
<1> DEFINE call == Sent(kind, p.session, "sent", about)
<1>1. Made(call, kind, about)
  BY SentIsMade DEF MayMake, Pages
<1>2. Send(p, kind, about) = Placed(p, SomeFree(p), call)
  BY DEF Send, Placed
<1> HIDE DEF call
<1> QED
  BY <1>1, <1>2, PlacedOnward

LEMMA SendPublicOnward ==
  ASSUME NEW p, NEW kind \in PublicKinds, MayMake(p, kind, NoUser), Free(p) # {}
  PROVE  Onward(p, SendPublic(p, kind))
<1> DEFINE call == Sent(kind, NoToken, "sent", NoUser)
<1>1. Made(call, kind, NoUser)
  BY SentIsMade DEF MayMake
<1>2. SendPublic(p, kind) = Placed(p, SomeFree(p), call)
  BY DEF SendPublic, Placed
<1> HIDE DEF call
<1> QED
  BY <1>1, <1>2, PlacedOnward

(* request(): a page without a session makes no call.                      *)
LEMMA AskOnward ==
  ASSUME NEW p \in Pages, NEW b, NEW kind, NEW about, Shows(p, b), Free(p) # {},
         MayMake(b, kind, about), kind \notin PublicKinds, kind # "logout",
         Struct(p.calls, p.ui), p.ui.screen = "dashboard",
         kind = "password" => Fit(p, {})
  PROVE  Onward(p, Ask(p, b, kind, about))
<1>1. CASE p.session # NoToken
  <2>1. Ask(p, b, kind, about) = Send(b, kind, about)
    BY <1>1 DEF Ask
  <2>2. Free(b) # {}
    BY DEF Shows, Free
  <2> QED
    BY <2>1, <2>2, SendOnward, ShownOnward
<1>2. CASE p.session = NoToken /\ kind # "password"
  <2>1. kind \in GuardedKinds
    BY <1>2, Kinds DEF MayMake, Requests, PublicKinds, ManageKinds
  <2>2. Ask(p, b, kind, about) = SessionEnded(p)
    BY <1>2, <2>1 DEF Ask
  <2>3. Handled(p, SessionEnded(p))
    BY SessionEndedFits DEF Handled, Follows
  <2> QED
    BY <2>2, <2>3, HandledOnward
<1>3. CASE p.session = NoToken /\ kind = "password"
  <2>1. Ask(p, b, kind, about) = p
    BY <1>3, Kinds DEF Ask, ManageKinds
  <2> QED
    BY <1>3, <2>1 DEF Onward
<1> QED
  BY <1>1, <1>2, <1>3

-----------------------------------------------------------------------------
(* The page of a state is one whose waiting is justified.                  *)
NowInv == Now \in Pages /\ Fits(Now)

Pairs == [chain : Nat, access : BOOLEAN, spendable : BOOLEAN]

(* The tokens of the page: what it holds it has not presented, unless the  *)
(* answer is under way, and a refresh is under way iff calls wait for it.  *)
TokInv ==
  /\ tokens \in Seq(Pairs)
  /\ session = storage /\ session \in Token \cup {NoToken}
  /\ presented \subseteq Token
  /\ refresh # NoToken =>
       /\ refresh \in [token : Token, reply : {"none", "ok", "401", "fail"},
                       new : Token \cup {NoToken}]
       /\ refresh.reply = "ok" => refresh.new \in Token \ presented
  /\ refresh = NoToken /\ session # NoToken => session \notin presented
  /\ refresh # NoToken <=> Waiting # {}

LEMMA NowFields ==
  /\ Now.session = session /\ Now.storage = storage
  /\ Now.calls = calls /\ Now.ui = ui
BY DEF Now

LEMMA NowParts ==
  ASSUME NowInv
  PROVE  /\ Now \in Pages /\ Fit(Now, {})
         /\ calls \in [Slots -> Calls] /\ ui \in Uis
         /\ Struct(calls, ui) /\ Waits(calls, ui, {})
<1>1. Now \in Pages /\ Fit(Now, {}) /\ calls \in [Slots -> Calls] /\ ui \in Uis
  BY NowFields, PageParts DEF NowInv, Fits, Fit
<1> QED
  BY <1>1, NowFields DEF Fit

LEMMA BecomesNow ==
  ASSUME NEW q \in Pages, Becomes(q)
  PROVE  Now' = q
BY DEF Becomes, Now, Pages

(* A page that goes on with its tokens, or without.                        *)
LEMMA OnwardKeeps ==
  ASSUME NowInv, TokInv, NEW q, Onward(Now, q), Becomes(q),
         UNCHANGED <<refresh, presented>>, tokens' \in Seq(Pairs), Len(tokens') = Len(tokens)
  PROVE  NowInv' /\ TokInv'
<1>1. Now' = q
  BY BecomesNow DEF Onward
<1>2. NowInv'
  BY <1>1 DEF NowInv, Onward, Fits, Fit
<1>3. Waiting' = Waiting
  BY NowFields DEF Onward, Becomes, Waiting, Pending
<1>4. \/ session' = session /\ storage' = storage
      \/ session' = NoToken /\ storage' = NoToken
  BY NowFields DEF Onward, Becomes
<1>5. Token' = Token
  BY DEF Token
<1>6. TokInv'
  BY <1>3, <1>4, <1>5 DEF TokInv
<1> QED
  BY <1>2, <1>6

Steady == UNCHANGED <<refresh, presented, tokens>> /\ \E q : Onward(Now, q) /\ Becomes(q)

LEMMA SteadyKeeps ==
  ASSUME NowInv, TokInv, Steady
  PROVE  NowInv' /\ TokInv'
<1>1. PICK q : Onward(Now, q) /\ Becomes(q)
  BY DEF Steady
<1>2. tokens' \in Seq(Pairs) /\ Len(tokens') = Len(tokens)
  BY DEF TokInv, Steady
<1> QED
  BY <1>1, <1>2, OnwardKeeps DEF Steady

LEMMA OnPageSteady ==
  ASSUME NEW q, OnPage(q), Onward(Now, q)
  PROVE  Steady
BY DEF OnPage, Steady

-----------------------------------------------------------------------------
(* The gestures.                                                           *)
LEMMA SubmittingFits ==
  ASSUME NEW p \in Pages, NEW part \in Parts, NEW kind \in Submits(part), Fit(p, {}),
         p.ui.screen = "dashboard" \/ part = "login"
  PROVE  LET q == Submitting(p, part) IN
         /\ Shows(p, q) /\ Alike(p, q) /\ q \in Pages /\ Fit(q, {kind})
         /\ q.ui.busy = p.ui.busy \cup {part}
<1> DEFINE q == Submitting(p, part)
<1>1. /\ Alike(p, q) /\ Shows(p, q) /\ q.ui.busy = p.ui.busy \cup {part}
      /\ q.ui.loading = p.ui.loading /\ q.ui.effects = p.ui.effects
  BY SubmittingIs, AlikeFollows
<1> HIDE DEF q
<1>2. /\ p.ui \in Uis /\ q.ui \in Uis /\ p.calls \in [Slots -> Calls] /\ q.calls = p.calls
      /\ q \in Pages
  BY <1>1, PageParts DEF Shows
<1>3. /\ q.ui.screen = p.ui.screen /\ q.ui.chosen = p.ui.chosen
      /\ q.ui.shown = p.ui.shown /\ q.ui.view = p.ui.view
      /\ q.ui.switched = p.ui.switched /\ q.ui.open = p.ui.open
  BY <1>1 DEF Alike
<1>4. q.ui.screen # "dashboard" =>
        /\ q.ui.busy \subseteq {"login"} /\ q.ui.loading = {} /\ q.ui.effects = {}
        /\ q.ui.open = {}
  BY <1>1, <1>3 DEF Fit, Struct, Offstage
<1>5. Struct(q.calls, q.ui)
  BY <1>1, <1>2, <1>3, <1>4, SameStruct DEF Fit
<1>6. Waits(q.calls, q.ui, {kind})
  BY <1>1, <1>2, <1>3 DEF Fit, Waits
<1> QED
  BY <1>1, <1>2, <1>5, <1>6 DEF Fit, q

LEMMA SignInSteady ==
  ASSUME NowInv, SubmitLogin
  PROVE  Steady
<1>1. PICK kind \in PublicKinds : OnPage(SendPublic(Submitting(Now, "login"), kind))
  BY DEF SubmitLogin, Gesture
<1>2. Now.ui.screen = "login" /\ "login" \notin Now.ui.busy /\ Free(Now) # {}
  BY <1>1, NowFields DEF SubmitLogin, OnPage
<1> DEFINE b == Submitting(Now, "login")
<1>3. kind \in Submits("login") /\ "login" \in Parts
  BY Submissions DEF PublicKinds, SignInKinds, Parts
<1>4. /\ Shows(Now, b) /\ Alike(Now, b) /\ b \in Pages /\ Fit(b, {kind})
      /\ b.ui.busy = Now.ui.busy \cup {"login"}
  BY <1>3, NowParts, SubmittingFits
<1> HIDE DEF b
<1>5. Absent(b.calls, SignInKinds)
  BY <1>2, <1>4, NowParts DEF Shows, Fit, Struct, SignIn, Absent
<1>6. kind \in Requests /\ kind \notin ManageKinds /\ kind \notin FormKinds
  BY DEF PublicKinds, Requests, ManageKinds, FormKinds
<1>7. MayMake(b, kind, NoUser)
  BY <1>2, <1>4, <1>5, <1>6 DEF MayMake, Alike
<1>8. Free(b) # {}
  BY <1>2, <1>4 DEF Shows, Free
<1>9. Onward(Now, SendPublic(b, kind))
  BY <1>4, <1>7, <1>8, SendPublicOnward, ShownOnward
<1> QED
  BY <1>1, <1>9, OnPageSteady DEF b

LEMMA LogOutSteady ==
  ASSUME NowInv, LogOut
  PROVE  Steady
<1>1. OnPage(IF session = NoToken THEN SessionEnded(Now) ELSE Send(Now, "logout", NoUser))
  BY DEF LogOut, Gesture
<1>2. Now.ui.screen = "dashboard" /\ Free(Now) # {}
  BY <1>1, NowFields DEF LogOut, OnPage
<1>3. Handled(Now, SessionEnded(Now))
  BY <1>2, NowParts, SessionEndedFits DEF Handled, Fit, Follows
<1>4. Fit(Now, {"logout"})
  BY NowParts DEF Fit, Waits
<1>5. MayMake(Now, "logout", NoUser)
  BY <1>2, <1>4, NowParts DEF MayMake, Requests, PublicKinds, ManageKinds, FormKinds
<1>6. Onward(Now, Send(Now, "logout", NoUser))
  BY <1>2, <1>5, SendOnward DEF PublicKinds
<1> QED
  BY <1>1, <1>3, <1>6, HandledOnward, OnPageSteady

LEMMA EffectsOnward ==
  ASSUME NowInv, Now.ui.screen = "dashboard", NEW es \in SUBSET {"list", "read"}
  PROVE  Onward(Now, Effects(Now, es))
<1>1. Fit(Effects(Now, es), {}) /\ Alike(Now, Effects(Now, es))
  BY NowParts, EffectsFit, EffectsIs
<1> QED
  BY <1>1, AlikeFollows, HandledOnward DEF Handled, Follows

LEMMA BrowseSteady ==
  ASSUME NowInv, Browse
  PROVE  Steady
BY NowFields, EffectsOnward, OnPageSteady DEF Browse, Gesture, Reload

(* A dialog with a form open, or a user shown, is part of the dashboard.   *)
LEMMA OpenDialogs ==
  ASSUME NowInv
  PROVE  /\ Now.ui.open # {} => Now.ui.screen = "dashboard"
         /\ Now.ui.shown # NoUser => "manage" \in Now.ui.open
         /\ "manage" \in Now.ui.open => Now.ui.chosen \in Users
         /\ Now.ui.shown \in Users \cup {NoUser}
         /\ "manage" \notin Now.ui.busy => Absent(Now.calls, FormKinds)
BY NowParts, NowFields DEF Struct, Offstage, Forms, Uis, Absent

LEMMA OpenSteady ==
  ASSUME NowInv, NEW dialog \in Dialogs, NEW u \in Uis, NEW es \in SUBSET {"roles", "load"},
         Open(dialog, u),
         u.screen = ui.screen, u.busy = ui.busy, u.open = ui.open, u.shown = ui.shown,
         u.view = ui.view, u.switched = ui.switched,
         u.loading = ui.loading \cup es, u.effects = ui.effects \cup es,
         dialog = "manage" => u.chosen # NoUser,
         dialog # "manage" => u.chosen = ui.chosen /\ "load" \notin es
  PROVE  Steady
<1> DEFINE v == [u EXCEPT !.open = @ \cup {dialog}]
           q == Show(Now, v)
<1>1. /\ OnPage(q) /\ ui.screen = "dashboard" /\ dialog \notin ui.open
  BY DEF Open, Gesture
<1>2. /\ v \in Uis /\ v.screen = ui.screen /\ v.busy = ui.busy
      /\ v.open = ui.open \cup {dialog} /\ v.shown = ui.shown /\ v.view = ui.view
      /\ v.switched = ui.switched /\ v.chosen = u.chosen
      /\ v.loading = ui.loading \cup es /\ v.effects = ui.effects \cup es
  BY DEF Uis
<1>3. Shows(Now, q) /\ q.ui = v /\ q.calls = calls
  BY <1>2, NowParts, NowFields, ShowIs DEF Shows
<1> HIDE DEF q, v
<1>4. /\ calls \in [Slots -> Calls] /\ Struct(calls, ui) /\ Waits(calls, ui, {})
  BY NowParts
<1>5. Offstage(calls, v) /\ SignIn(calls, v) /\ Restores(calls, v) /\ Lives(calls)
  BY <1>1, <1>2, <1>4 DEF Struct, Offstage, SignIn, Restores
<1>6. Forms(calls, v) /\ Choices(calls, v)
  <2>1. CASE dialog = "manage"
    <3>1. ui.shown = NoUser /\ Absent(calls, ManageKinds) /\ Absent(calls, FormKinds)
      BY <1>1, <1>4, <2>1 DEF Struct, Forms, Absent, ManageKinds, FormKinds
    <3>2. Forms(calls, v)
      BY <1>2, <2>1, <3>1 DEF Forms, Absent
    <3>3. Choices(calls, v)
      BY <1>2, <3>1 DEF Choices, Absent
    <3> QED  BY <3>2, <3>3
  <2>2. CASE dialog # "manage"
    <3>1. /\ "manage" \in v.open <=> "manage" \in ui.open
          /\ "load" \in v.effects <=> "load" \in ui.effects
          /\ v.chosen = ui.chosen
      BY <1>2, <2>2
    <3>2. Forms(calls, v)
      BY <1>2, <1>4, <3>1 DEF Struct, Forms
    <3>3. Choices(calls, v)
      BY <1>2, <1>4, <3>1 DEF Struct, Choices
    <3> QED  BY <3>2, <3>3
  <2> QED  BY <2>1, <2>2
<1>7. Waits(calls, v, {})
  BY <1>2, <1>4 DEF Waits
<1>8. Handled(Now, q)
  BY <1>3, <1>5, <1>6, <1>7, ShowsFollows DEF Handled, Fit, Struct, Shows
<1> QED
  BY <1>1, <1>8, HandledOnward, OnPageSteady

LEMMA OpenCreateSteady ==
  ASSUME NowInv, OpenCreate
  PROVE  Steady
<1> DEFINE u == [ui EXCEPT !.loading = @ \cup {"roles"}, !.effects = @ \cup {"roles"}]
<1>1. Open("create", u)
  BY DEF OpenCreate
<1>2. /\ u \in Uis /\ u.screen = ui.screen /\ u.busy = ui.busy /\ u.open = ui.open
      /\ u.shown = ui.shown /\ u.view = ui.view /\ u.switched = ui.switched
      /\ u.chosen = ui.chosen /\ u.loading = ui.loading \cup {"roles"}
      /\ u.effects = ui.effects \cup {"roles"}
  BY NowParts DEF Uis
<1> HIDE DEF u
<1>3. "create" \in Dialogs
  BY DEF Dialogs
<1> QED
  BY <1>1, <1>2, <1>3, OpenSteady

LEMMA OpenPasswordSteady ==
  ASSUME NowInv, OpenPassword
  PROVE  Steady
<1>1. Open("password", ui) /\ "password" \in Dialogs /\ ui \in Uis
  BY NowParts DEF OpenPassword, Dialogs
<1> DEFINE none == {}
<1>2. /\ ui.loading = ui.loading \cup none /\ ui.effects = ui.effects \cup none
      /\ none \in SUBSET {"roles", "load"} /\ "load" \notin none
  OBVIOUS
<1> HIDE DEF none
<1> QED
  BY <1>1, <1>2, OpenSteady

LEMMA OpenManageSteady ==
  ASSUME NowInv, NEW chosen \in Users, OpenManage(chosen)
  PROVE  Steady
<1> DEFINE u == [ui EXCEPT !.chosen = chosen, !.loading = @ \cup {"load"},
                           !.effects = @ \cup {"load"}]
<1>1. Open("manage", u)
  BY DEF OpenManage
<1>2. /\ u \in Uis /\ u.screen = ui.screen /\ u.busy = ui.busy /\ u.open = ui.open
      /\ u.shown = ui.shown /\ u.view = ui.view /\ u.switched = ui.switched
      /\ u.chosen # NoUser /\ u.loading = ui.loading \cup {"load"}
      /\ u.effects = ui.effects \cup {"load"}
  BY NowParts, UsersAssumption DEF Uis
<1> HIDE DEF u
<1>3. "manage" \in Dialogs
  BY DEF Dialogs
<1> QED
  BY <1>1, <1>2, <1>3, OpenSteady

(* Another user is chosen while the dialog stays open.                     *)
LEMMA SelectSteady ==
  ASSUME NowInv, NEW chosen \in Users, Select(chosen)
  PROVE  Steady
<1> DEFINE v == [ui EXCEPT !.chosen = chosen, !.switched = TRUE, !.effects = @ \cup {"load"}]
           q == Show(Now, v)
<1>1. OnPage(q) /\ ui.screen = "dashboard" /\ "manage" \in ui.open
  BY DEF Select, Gesture
<1>2. /\ v \in Uis /\ v.screen = ui.screen /\ v.busy = ui.busy /\ v.open = ui.open
      /\ v.shown = ui.shown /\ v.view = ui.view /\ v.switched = TRUE
      /\ v.chosen # NoUser /\ v.loading = ui.loading /\ v.effects = ui.effects \cup {"load"}
  BY NowParts, UsersAssumption DEF Uis
<1>3. Shows(Now, q) /\ q.ui = v /\ q.calls = calls
  BY <1>2, NowParts, NowFields, ShowIs DEF Shows
<1> HIDE DEF q, v
<1>4. Struct(calls, ui) /\ Waits(calls, ui, {})
  BY NowParts
<1>5. Offstage(calls, v) /\ SignIn(calls, v) /\ Restores(calls, v) /\ Lives(calls)
  BY <1>1, <1>2, <1>4 DEF Struct, Offstage, SignIn, Restores
<1>6. Forms(calls, v)
  BY <1>1, <1>2, <1>4 DEF Struct, Forms
<1>7. Choices(calls, v)
  BY <1>2, <1>4 DEF Struct, Choices
<1>8. Waits(calls, v, {})
  BY <1>2, <1>4 DEF Waits
<1>9. Handled(Now, q)
  BY <1>3, <1>5, <1>6, <1>7, <1>8, ShowsFollows DEF Handled, Fit, Struct, Shows
<1> QED
  BY <1>1, <1>9, HandledOnward, OnPageSteady

LEMMA CloseSteady ==
  ASSUME NowInv, NEW dialog \in Dialogs, CloseDialog(dialog)
  PROVE  Steady
<1>1. /\ OnPage(Closed(Now, dialog)) /\ Now \in Pages /\ Fit(Now, {})
      /\ Now.ui.screen = "dashboard"
      /\ dialog = "manage" => Absent(Now.calls, FormKinds)
  BY NowFields, NowParts, OpenDialogs DEF CloseDialog, MayClose, Gesture
<1>2. CASE dialog = "create"
  <2>1. Handled(Now, CloseCreate(Now)) /\ Closed(Now, dialog) = CloseCreate(Now)
    BY <1>1, <1>2, CloseCreateFits DEF Handled, Closed
  <2> QED  BY <1>1, <2>1, HandledOnward, OnPageSteady
<1>3. CASE dialog = "password"
  <2>1. Handled(Now, Unmounted(Now, {"password"}))
        /\ Closed(Now, dialog) = Unmounted(Now, {"password"})
    BY <1>1, <1>3, ClosePasswordFits DEF Handled, Closed
  <2> QED  BY <1>1, <2>1, HandledOnward, OnPageSteady
<1>4. CASE dialog = "manage"
  <2>1. Handled(Now, CloseManage(Now)) /\ Closed(Now, dialog) = CloseManage(Now)
    BY <1>1, <1>4, CloseManageFits DEF Handled, Closed
  <2> QED  BY <1>1, <2>1, HandledOnward, OnPageSteady
<1> QED
  BY <1>2, <1>3, <1>4 DEF Dialogs

LEMMA DetailsSteady ==
  ASSUME NowInv, Edit \/ Confirm \/ Cancel
  PROVE  Steady
<1>1. Now.ui.shown \in Users /\ "manage" \in Now.ui.open /\ Now.ui.screen = "dashboard"
  BY NowFields, OpenDialogs DEF Edit, Confirm, Cancel, Viewing
<1>2. ASSUME NEW view \in {"editing", "confirming"}, Viewing("details"),
             OnPage(LeaveDetails(Now, view))
      PROVE  Steady
  <2>1. Handled(Now, LeaveDetails(Now, view))
    BY <1>1, <1>2, NowFields, NowParts, LeaveDetailsFits DEF Handled, Viewing
  <2> QED  BY <1>2, <2>1, HandledOnward, OnPageSteady
<1>3. CASE Cancel
  <2>1. OnPage(ShowDetails(Now, Now.ui.shown)) /\ Absent(Now.calls, FormKinds)
    BY <1>3, NowFields, OpenDialogs DEF Cancel, Gesture
  <2>2. Now.ui.switched = FALSE => Now.ui.shown = Now.ui.chosen
    BY <1>1, NowFields, NowParts, UsersAssumption DEF Struct, Choices
  <2>3. /\ Shows(Now, ShowDetails(Now, Now.ui.shown)) /\ Fit(ShowDetails(Now, Now.ui.shown), {})
        /\ ShowDetails(Now, Now.ui.shown) \in Pages
    BY <1>1, <2>1, <2>2, NowParts, ShowDetailsFits
  <2>4. Handled(Now, ShowDetails(Now, Now.ui.shown))
    BY <2>3, ShowsFollows DEF Handled
  <2> QED  BY <2>1, <2>4, HandledOnward, OnPageSteady
<1> QED
  BY <1>2, <1>3 DEF Edit, Confirm, Gesture

LEMMA SubmitSteady ==
  ASSUME NowInv, NEW part \in {"create", "password", "manage", "details"},
         NEW kind \in Submits(part), Submit(part, kind), ui.screen = "dashboard",
         part = "manage" =>
           /\ "manage" \in ui.open /\ ui.shown # NoUser
           /\ ui.view = IF kind = "save" THEN "editing" ELSE "confirming"
  PROVE  Steady
<1> DEFINE b == Submitting(Now, part)
<1>1. OnPage(Ask(Now, b, kind, ui.chosen)) /\ part \notin ui.busy
  BY DEF Submit, Gesture
<1>2. Free(Now) # {} /\ part \in Parts /\ Now.ui.screen = "dashboard"
  BY <1>1, NowFields DEF OnPage, Parts
<1>3. /\ Shows(Now, b) /\ Alike(Now, b) /\ b \in Pages /\ Fit(b, {kind})
      /\ b.ui.busy = Now.ui.busy \cup {part}
  BY <1>2, NowParts, SubmittingFits
<1> HIDE DEF b
<1>4. /\ kind \in {"create", "password", "save", "remove", "change"}
      /\ kind \in FormKinds <=> part = "manage"
  BY Submissions DEF FormKinds
<1>5. /\ kind \in Requests /\ kind \notin PublicKinds /\ kind # "logout"
      /\ kind \in ManageKinds <=> kind \in FormKinds
  BY <1>4 DEF Requests, PublicKinds, ManageKinds, FormKinds
<1>6. part = "manage" => Absent(b.calls, FormKinds) /\ Now.ui.chosen \in Users
  BY <1>1, <1>3, NowFields, OpenDialogs DEF Shows
<1>7. ui.chosen \in Users \cup {NoUser} /\ NoUser \notin Users
  BY NowParts, UsersAssumption DEF Uis
<1>8. MayMake(b, kind, ui.chosen)
  BY <1>2, <1>3, <1>4, <1>5, <1>6, <1>7, NowFields DEF MayMake, Alike
<1>9. Onward(Now, Ask(Now, b, kind, ui.chosen))
  BY <1>2, <1>3, <1>5, <1>8, NowParts, AskOnward DEF Fit
<1> QED
  BY <1>1, <1>9, OnPageSteady

LEMMA FormsSteady ==
  ASSUME NowInv, SubmitCreate \/ SubmitPassword \/ Save \/ Remove \/ ChangeKey
  PROVE  Steady
<1>1. /\ "create" \in Submits("create") /\ "password" \in Submits("password")
      /\ "save" \in Submits("manage") /\ "remove" \in Submits("manage")
      /\ "change" \in Submits("details")
  BY Submissions DEF FormKinds
<1>2. /\ ui.open # {} => ui.screen = "dashboard"
      /\ ui.shown # NoUser => "manage" \in ui.open
  BY NowFields, OpenDialogs
<1>3. CASE SubmitCreate
  BY <1>1, <1>2, <1>3, SubmitSteady DEF SubmitCreate
<1>4. CASE SubmitPassword
  BY <1>1, <1>2, <1>4, SubmitSteady DEF SubmitPassword
<1>5. CASE Save
  BY <1>1, <1>2, <1>5, SubmitSteady DEF Save, Viewing
<1>6. CASE Remove
  BY <1>1, <1>2, <1>6, SubmitSteady DEF Remove, Viewing
<1>7. CASE ChangeKey
  BY <1>1, <1>2, <1>7, SubmitSteady DEF ChangeKey, Viewing
<1> QED
  BY <1>3, <1>4, <1>5, <1>6, <1>7

LEMMA EventsSteady ==
  ASSUME NowInv, RefreshEvents
  PROVE  Steady
<1>1. Now.ui.screen = "dashboard"
  BY NowFields, OpenDialogs DEF RefreshEvents, Viewing
<1> QED
  BY <1>1, EffectsOnward, OnPageSteady DEF RefreshEvents, Gesture

(* An effect runs: first the page forgets it, then makes its request.      *)
LEMMA EffectSteady ==
  ASSUME NowInv, NEW e \in ui.effects, RunEffect(e)
  PROVE  Steady
<1> DEFINE v == [ui EXCEPT !.effects = @ \ {e}, !.loading = @ \cup ({e} \cap {"list"})]
           p == Show(Now, v)
           about == IF e = "load" THEN ui.chosen ELSE NoUser
<1>1. OnPage(Ask(p, p, e, about))
  BY DEF RunEffect
<1>2. /\ calls \in [Slots -> Calls] /\ ui \in Uis /\ Struct(calls, ui) /\ Waits(calls, ui, {})
  BY NowParts
<1>3. e \in {"list", "roles", "load", "read"} /\ ui.screen = "dashboard"
  BY <1>2 DEF Uis, Struct, Offstage
<1>4. /\ v \in Uis /\ v.screen = ui.screen /\ v.busy = ui.busy /\ v.open = ui.open
      /\ v.loading = ui.loading \cup ({e} \cap {"list"}) /\ v.effects = ui.effects \ {e}
      /\ v.chosen = ui.chosen /\ v.shown = ui.shown /\ v.view = ui.view
      /\ v.switched = ui.switched
  BY <1>2 DEF Uis
<1>5. Shows(Now, p) /\ p.ui = v /\ p.calls = calls /\ p \in Pages
  BY <1>4, NowParts, NowFields, ShowIs DEF Shows
<1> HIDE DEF p, v
<1>6. Struct(calls, v)
  BY <1>2, <1>3, <1>4, SameStruct
<1>7. Waits(calls, v, {e})
  BY <1>2, <1>3, <1>4 DEF Waits
<1>8. e \in Requests /\ e \notin PublicKinds /\ e \notin FormKinds /\ e # "logout"
      /\ e # "password" /\ (e \in ManageKinds <=> e = "load")
  BY <1>3 DEF Requests, PublicKinds, FormKinds, ManageKinds
<1>9. e = "load" => "manage" \in ui.open /\ ui.chosen # NoUser
  BY <1>2 DEF Struct, Forms
<1>10. about \in Users \cup {NoUser}
  BY <1>2 DEF Uis
<1>11. MayMake(p, e, about)
  BY <1>3, <1>4, <1>5, <1>6, <1>7, <1>8, <1>9, <1>10 DEF MayMake, Fit
<1> HIDE DEF about
<1>12. Free(p) # {} /\ Shows(p, p)
  BY <1>1, <1>5, NowFields DEF OnPage, Free, Shows
<1>13. Onward(p, Ask(p, p, e, about))
  BY <1>3, <1>4, <1>5, <1>6, <1>8, <1>11, <1>12, AskOnward
<1>14. Onward(Now, Ask(p, p, e, about))
  BY <1>5, <1>13, ShownOnward
<1> QED
  BY <1>1, <1>14, OnPageSteady

-----------------------------------------------------------------------------
(* Answers.                                                                *)
LEMMA WithoutTypes ==
  ASSUME NEW ts \in Seq(Pairs), NEW chains
  PROVE  Without(ts, chains) \in Seq(Pairs) /\ Len(Without(ts, chains)) = Len(ts)
<1>1. \A t \in 1 .. Len(ts) : ts[t] \in Pairs
  OBVIOUS
<1>2. Without(ts, chains) \in [1 .. Len(ts) -> Pairs]
  BY <1>1 DEF Without, Pairs
<1>3. Len(ts) \in Nat
  OBVIOUS
<1> QED
  BY <1>2, <1>3

LEMMA ReceiveKeeps ==
  ASSUME NowInv, TokInv, NEW s \in Slots, Receive(s)
  PROVE  NowInv' /\ TokInv'
<1>1. PICK reply \in Reply(s) :
        /\ Becomes(Settled(Now, s, reply))
        /\ tokens' = IF reply # "ok" THEN tokens
                     ELSE IF calls[s].kind = "logout"
                     THEN Without(tokens, {tokens[calls[s].token].chain})
                     ELSE IF calls[s].kind = "password"
                     THEN Without(tokens, Chains)
                     ELSE tokens
  BY DEF Receive
<1>2. tokens \in Seq(Pairs) /\ tokens' \in Seq(Pairs) /\ Len(tokens') = Len(tokens)
  BY <1>1, WithoutTypes DEF TokInv
<1>3. Handled(Emptied(Now, s), Settled(Now, s, reply))
  BY NowParts, SettledFits
<1>4. Now.calls[s].at \notin Pending
  BY NowFields DEF Receive, Pending
<1>5. Onward(Now, Settled(Now, s, reply))
  BY <1>3, <1>4, NowParts, EmptiedOnward
<1>6. UNCHANGED <<refresh, presented>>
  BY DEF Receive
<1> QED
  BY <1>1, <1>2, <1>5, <1>6, OnwardKeeps

LEMMA RejectKeeps ==
  ASSUME NowInv, TokInv, NEW s \in Slots, Reject(s)
  PROVE  NowInv' /\ TokInv'
<1> DEFINE q == Settled(Now, s, calls[s].at)
<1>1. Becomes(q) /\ UNCHANGED <<refresh, presented, tokens>>
  BY DEF Reject
<1>2. Handled(Emptied(Now, s), q)
  BY NowParts, SettledFits
<1> HIDE DEF q
<1>3. Now.calls[s].at \notin Pending
  BY NowFields DEF Reject, Rejected, Pending
<1>4. Onward(Now, q)
  BY <1>2, <1>3, NowParts, EmptiedOnward
<1> QED
  BY <1>1, <1>4, SteadyKeeps DEF Steady

(* A login that is answered goes on in its slot.                           *)
LEMMA AdminSent ==
  ASSUME NEW c \in [Slots -> Calls], NEW u \in Uis, NEW s \in Slots,
         Struct(c, u), Waits(c, u, {}), c[s].kind = "login",
         NEW call \in Calls, call.kind = "admin", call.at = "sent", call.life = "here",
         NEW d, d = [c EXCEPT ![s] = call]
  PROVE  Struct(d, u) /\ Waits(d, u, {})
<1>1. /\ d[s] = call
      /\ \A o \in Slots \ {s} : d[o] = c[o]
  OBVIOUS
<1>2. Offstage(d, u)
  BY <1>1, Kinds DEF Struct, Offstage, ManageKinds
<1>3. SignIn(d, u)
  BY <1>1 DEF Struct, SignIn, SignInKinds
<1>4. Restores(d, u)
  BY <1>1 DEF Struct, Restores
<1>5. Lives(d)
  BY <1>1 DEF Struct, Lives, PublicKinds
<1>6. Forms(d, u)
  BY <1>1 DEF Struct, Forms, Absent, ManageKinds, FormKinds
<1>7. Choices(d, u)
  BY <1>1 DEF Struct, Choices, ManageKinds
<1>8. c[s].life = "here"
  BY DEF Struct, Lives, Calls
<1>9. ASSUME NEW kinds, "login" \in kinds => "admin" \in kinds, Awaited(c, kinds)
      PROVE  Awaited(d, kinds)
  BY <1>1, <1>9 DEF Awaited
<1>10. Waits(d, u, {})
  <2>1. ASSUME NEW part \in u.busy
        PROVE  Awaited(d, Submits(part))
    <3>1. "login" \in Submits(part) => "admin" \in Submits(part)
      BY Submissions DEF Uis, Parts, SignInKinds, FormKinds
    <3> QED  BY <1>9, <3>1 DEF Waits
  <2>2. ASSUME NEW other \in u.loading
        PROVE  other \in u.effects \/ Awaited(d, {other})
    <3>1. other # "login"
      BY DEF Uis
    <3> QED  BY <1>9, <3>1 DEF Waits
  <2>3. u.screen = "restoring" => Awaited(d, {"restore"})
    BY <1>9 DEF Waits
  <2> QED  BY <2>1, <2>2, <2>3 DEF Waits
<1> QED
  BY <1>2, <1>3, <1>4, <1>5, <1>6, <1>7, <1>10 DEF Struct

LEMMA LoginKeeps ==
  ASSUME NowInv, TokInv, NEW s \in Slots, LoginAnswered(s)
  PROVE  NowInv' /\ TokInv'
<1>1. calls[s].kind = "login" /\ UNCHANGED <<refresh, presented>>
  BY DEF LoginAnswered
<1>2. calls[s].at = "sent"
  BY <1>1, NowParts DEF Struct, Lives, PublicKinds
<1> DEFINE n == Len(tokens) + 1
           call == [Idle EXCEPT !.kind = "admin", !.at = "sent", !.token = n, !.good = TRUE]
           fail == NotBusy([ClearSession(Now) EXCEPT !.calls = [@ EXCEPT ![s] = Idle]], "login")
<1>3. CASE tokens' = Append(tokens, Pair(n))
           /\ Becomes([SetSession(Now, n) EXCEPT !.calls = [@ EXCEPT ![s] = call]])
  <2> DEFINE d == [calls EXCEPT ![s] = call]
  <2>1. /\ n \in Nat /\ call \in Calls
        /\ call.kind = "admin" /\ call.at = "sent" /\ call.life = "here"
    <3>1. n \in Nat
      BY DEF TokInv
    <3> HIDE DEF n
    <3>2. Idle \in Calls /\ Idle.life = "here"
      BY Constants
    <3> QED  BY <3>1, <3>2 DEF Calls
  <2> HIDE DEF call
  <2>2. Struct(d, ui) /\ Waits(d, ui, {})
    BY <1>1, <2>1, NowParts, AdminSent
  <2>3. d \in [Slots -> Calls] /\ d[s].at = "sent" /\ \A o \in Slots \ {s} : d[o] = calls[o]
    BY <2>1, NowParts
  <2>4. session' = n /\ storage' = n /\ calls' = d /\ ui' = ui
    BY <1>3, NowParts, NowFields DEF Becomes, SetSession, Pages
  <2> HIDE DEF d
  <2>5. Now' \in Pages
    BY <2>1, <2>3, <2>4, NowParts DEF Now, Pages
  <2>6. NowInv'
    BY <2>2, <2>4, <2>5 DEF NowInv, Now, Fits
  <2>7. Waiting' = Waiting
    BY <1>2, <2>3, <2>4 DEF Waiting
  <2>8. tokens' \in Seq(Pairs) /\ Len(tokens') = n
    BY <1>3, <2>1 DEF TokInv, Pair, Pairs
  <2>9. n \in Token' /\ n \notin presented /\ Token \subseteq Token'
    BY <2>8 DEF Token, TokInv
  <2> HIDE DEF n
  <2>10. TokInv'
    BY <1>1, <2>4, <2>7, <2>8, <2>9 DEF TokInv
  <2> QED
    BY <2>6, <2>10
<1>4. CASE Becomes(fail) /\ UNCHANGED tokens
  <2> DEFINE e == Emptied(Now, s)
  <2>1. [ClearSession(Now) EXCEPT !.calls = [@ EXCEPT ![s] = Idle]] = ClearSession(e)
    BY NowParts DEF ClearSession, Emptied, Pages
  <2>2. fail = NotBusy(ClearSession(e), "login")
    BY <2>1
  <2>3. Left(e, calls[s])
    BY NowFields, NowParts, EmptiedLeft
  <2> HIDE DEF fail, e
  <2>4. Handled(e, fail)
    BY <1>1, <2>2, <2>3, AdminAnswered DEF SignInKinds
  <2>5. Onward(Now, fail)
    BY <1>2, <2>4, NowFields, NowParts, EmptiedOnward DEF e, Pending
  <2> QED
    BY <1>1, <1>4, <2>5, SteadyKeeps DEF Steady
<1> QED
  BY <1>3, <1>4 DEF LoginAnswered

-----------------------------------------------------------------------------
(* The shared refresh.                                                     *)
LEMMA NewRefreshIsOne ==
  ASSUME NEW t \in Nat
  PROVE  /\ NewRefresh(t) # NoToken
         /\ NewRefresh(t).token = t /\ NewRefresh(t).reply = "none"
         /\ NewRefresh(t) = [token |-> t, reply |-> "none", new |-> NoToken]
<1>1. NewRefresh(t) \in Refreshes
  BY DEF NewRefresh, Refreshes
<1> QED
  BY <1>1, TokensAssumption DEF NewRefresh

(* Calls of which only the progress changes.                               *)
LEMMA SameCallsFit ==
  ASSUME NEW c \in [Slots -> Calls], NEW u \in Uis, NEW d \in [Slots -> Calls],
         Struct(c, u), Waits(c, u, {}),
         \A s \in Slots :
           d[s].kind = c[s].kind /\ d[s].life = c[s].life /\ d[s].about = c[s].about,
         \A s \in Slots : c[s].kind \in PublicKinds \cup {"none"} \/ d[s].at = "idle"
                            => d[s] = c[s]
  PROVE  Struct(d, u) /\ Waits(d, u, {})
<1>1. Offstage(d, u)
  BY DEF Struct, Offstage
<1>2. SignIn(d, u)
  BY DEF Struct, SignIn
<1>3. Restores(d, u)
  BY DEF Struct, Restores
<1>4. Lives(d)
  BY DEF Struct, Lives
<1>5. Forms(d, u)
  BY DEF Struct, Forms, Absent
<1>6. Choices(d, u)
  BY DEF Struct, Choices
<1>7. \A kinds : Awaited(c, kinds) => Awaited(d, kinds)
  BY DEF Awaited
<1>8. Waits(d, u, {})
  BY <1>7 DEF Waits
<1> QED
  BY <1>1, <1>2, <1>3, <1>4, <1>5, <1>6, <1>8 DEF Struct

LEMMA NowFits ==
  ASSUME session' \in Nat \cup {NoToken}, storage' \in Nat \cup {NoToken},
         calls' \in [Slots -> Calls], ui' \in Uis, Struct(calls', ui'), Waits(calls', ui', {})
  PROVE  NowInv'
BY DEF NowInv, Now, Pages, Fits

LEMMA TokenTypes ==
  ASSUME TokInv
  PROVE  /\ Len(tokens) \in Nat /\ Token \subseteq Nat /\ NoToken \notin Token
         /\ session \in Nat \cup {NoToken} /\ storage \in Nat \cup {NoToken}
BY TokensAssumption DEF TokInv, Token

LEMMA AwaitKeeps ==
  ASSUME NowInv, TokInv, NEW s \in Slots, AwaitRefresh(s), UNCHANGED ui
  PROVE  /\ NowInv' /\ TokInv'
         /\ refresh' # refresh => refresh'.token \notin presented
<1>1. /\ calls[s].at = "sent" /\ session # NoToken
      /\ calls' = [calls EXCEPT ![s] = [calls[s] EXCEPT !.at = "waiting",
                                        !.token = NoToken, !.good = FALSE]]
      /\ UNCHANGED <<session, storage, tokens>>
  BY NowParts DEF AwaitRefresh
<1>2. calls[s].token # NoToken
  BY <1>1, NowParts DEF AwaitRefresh, Reply
<1>3. calls[s].kind \notin PublicKinds \cup {"none"}
  BY <1>1, <1>2, NowParts, Constants DEF Struct, Lives, PublicKinds
<1>4. /\ calls' \in [Slots -> Calls]
      /\ \A o \in Slots \ {s} : calls'[o] = calls[o]
      /\ calls'[s].kind = calls[s].kind /\ calls'[s].life = calls[s].life
      /\ calls'[s].about = calls[s].about /\ calls'[s].at = "waiting"
  BY <1>1, NowParts DEF Calls
<1>5. Struct(calls', ui) /\ Waits(calls', ui, {})
  BY <1>3, <1>4, NowParts, SameCallsFit
<1>6. NowInv'
  BY <1>1, <1>4, <1>5, NowParts, TokenTypes, NowFits
<1>7. Waiting' = Waiting \cup {s}
  BY <1>4 DEF Waiting
<1>8. session \in Token /\ session \in Nat
  BY <1>1, TokenTypes DEF TokInv
<1>9. CASE refresh = NoToken
  <2>1. /\ refresh' = NewRefresh(session) /\ presented' = presented \cup {session}
        /\ session \notin presented
    BY <1>1, <1>9 DEF AwaitRefresh, TokInv
  <2>2. /\ refresh' # NoToken /\ refresh'.token = session
        /\ refresh' \in [token : Token, reply : {"none", "ok", "401", "fail"},
                         new : Token \cup {NoToken}]
        /\ refresh'.reply = "none"
    BY <1>8, <2>1, NewRefreshIsOne
  <2>3. TokInv'
    BY <1>1, <1>7, <1>8, <2>1, <2>2 DEF TokInv, Token
  <2> QED
    BY <1>6, <2>1, <2>2, <2>3
<1>10. CASE refresh # NoToken
  <2>1. UNCHANGED <<refresh, presented>>
    BY <1>10 DEF AwaitRefresh
  <2>2. TokInv'
    BY <1>1, <1>7, <1>10, <2>1 DEF TokInv, Token
  <2> QED
    BY <1>6, <2>1, <2>2
<1> QED
  BY <1>9, <1>10

LEMMA SucceedKeeps ==
  ASSUME NowInv, TokInv, RefreshSucceeds, UNCHANGED ui
  PROVE  NowInv' /\ TokInv' /\ Waiting' = {}
<1>1. /\ refresh # NoToken /\ refresh.reply = "ok" /\ session' = refresh.new
      /\ storage' = refresh.new /\ refresh' = NoToken /\ UNCHANGED <<tokens, presented>>
      /\ calls' = [s \in Slots |->
                    IF s \in Waiting THEN Resumed(calls[s]) ELSE calls[s]]
  BY DEF RefreshSucceeds
<1>2. refresh.new \in Token \ presented /\ refresh.new \in Nat
  BY <1>1, TokenTypes DEF TokInv
<1>3. \A s \in Waiting : calls[s].kind \notin PublicKinds \cup {"none"}
  BY NowParts, Constants DEF Waiting, Struct, Lives, PublicKinds
<1>4. \A s \in Waiting :
        /\ calls'[s] \in Calls /\ calls'[s].kind = calls[s].kind
        /\ calls'[s].life = calls[s].life /\ calls'[s].about = calls[s].about
        /\ calls'[s].at \in {"sent", "retried"}
  <2> TAKE s \in Waiting
  <2>1. s \in Slots /\ calls[s] \in Calls
    BY NowParts DEF Waiting
  <2>2. calls'[s] = Resumed(calls[s])
    BY <1>1, <2>1
  <2> DEFINE how == IF calls[s].at = "restoring" THEN "sent" ELSE "retried"
             sent == Sent(calls[s].kind, refresh.new, how, calls[s].about)
  <2>3. Resumed(calls[s]) = [sent EXCEPT !.life = calls[s].life]
    BY DEF Resumed
  <2>4. how \in {"sent", "retried"}
    OBVIOUS
  <2> HIDE DEF how
  <2>5. /\ sent \in Calls /\ sent.kind = calls[s].kind /\ sent.about = calls[s].about
        /\ sent.at = how
    BY <1>2, <2>1, <2>4 DEF Sent, Calls
  <2> HIDE DEF sent
  <2> QED
    BY <2>1, <2>2, <2>3, <2>4, <2>5 DEF Calls
<1>5. \A s \in Slots \ Waiting : calls'[s] = calls[s]
  BY <1>1
<1>6. calls' \in [Slots -> Calls]
  BY <1>1, <1>4, <1>5, NowParts
<1>7. Struct(calls', ui) /\ Waits(calls', ui, {})
  BY <1>3, <1>4, <1>5, <1>6, NowParts, SameCallsFit
<1>8. NowInv'
  BY <1>1, <1>2, <1>6, <1>7, NowParts, NowFits
<1>9. Waiting' = {}
  BY <1>4, <1>5 DEF Waiting
<1>10. TokInv'
  BY <1>1, <1>2, <1>9 DEF TokInv, Token
<1> QED
  BY <1>8, <1>9, <1>10

LEMMA FailKeeps ==
  ASSUME NowInv, TokInv, RefreshFails
  PROVE  NowInv' /\ TokInv' /\ Waiting' = {}
<1>1. /\ refresh # NoToken /\ refresh.reply \in {"401", "fail"} /\ session' = NoToken
      /\ storage' = NoToken /\ refresh' = NoToken /\ UNCHANGED <<ui, tokens, presented>>
      /\ calls' = [s \in Slots |-> IF s \in Waiting
                                   THEN [calls[s] EXCEPT !.at = refresh.reply]
                                   ELSE calls[s]]
  BY DEF RefreshFails
<1>2. \A s \in Waiting : calls[s].kind \notin PublicKinds \cup {"none"}
  BY NowParts, Constants DEF Waiting, Struct, Lives, PublicKinds
<1>3. \A s \in Waiting :
        /\ calls'[s] \in Calls /\ calls'[s].kind = calls[s].kind
        /\ calls'[s].life = calls[s].life /\ calls'[s].about = calls[s].about
        /\ calls'[s].at \in {"401", "fail"}
  <2> TAKE s \in Waiting
  <2>1. s \in Slots /\ calls[s] \in Calls
    BY NowParts DEF Waiting
  <2>2. calls'[s] = [calls[s] EXCEPT !.at = refresh.reply]
    BY <1>1, <2>1
  <2> QED
    BY <1>1, <2>1, <2>2 DEF Calls
<1>4. \A s \in Slots \ Waiting : calls'[s] = calls[s]
  BY <1>1
<1>5. calls' \in [Slots -> Calls]
  BY <1>1, <1>3, <1>4, NowParts
<1>6. Struct(calls', ui) /\ Waits(calls', ui, {})
  BY <1>2, <1>3, <1>4, <1>5, NowParts, SameCallsFit
<1>7. NowInv'
  BY <1>1, <1>5, <1>6, NowParts, NowFits
<1>8. Waiting' = {}
  BY <1>3, <1>4 DEF Waiting
<1>9. TokInv'
  BY <1>1, <1>8 DEF TokInv, Token
<1> QED
  BY <1>7, <1>8, <1>9

LEMMA PairChanged ==
  ASSUME NEW ts \in Seq(Pairs), NEW t \in 1 .. Len(ts), NEW pair \in Pairs
  PROVE  [ts EXCEPT ![t] = pair] \in Seq(Pairs) /\ Len([ts EXCEPT ![t] = pair]) = Len(ts)
<1>1. ts \in [1 .. Len(ts) -> Pairs] /\ Len(ts) \in Nat
  OBVIOUS
<1>2. [ts EXCEPT ![t] = pair] \in [1 .. Len(ts) -> Pairs]
  BY <1>1
<1> QED
  BY <1>1, <1>2

(* The record of a refresh under way.                                      *)
LEMMA RefreshKept ==
  ASSUME TokInv, tokens' \in Seq(Pairs), Len(tokens') >= Len(tokens),
         UNCHANGED <<session, storage, presented, calls>>,
         refresh # NoToken, refresh' \in [token : Token', reply : {"none", "ok", "401", "fail"},
                                         new : Token' \cup {NoToken}],
         refresh'.reply = "ok" => refresh'.new \notin presented /\ refresh'.new \in Token'
  PROVE  TokInv'
<1>1. Len(tokens) \in Nat /\ Len(tokens') \in Nat
  BY TokenTypes
<1>2. Token \subseteq Token' /\ Token' \subseteq Nat
  BY <1>1 DEF Token
<1>3. refresh' # NoToken
  <2>1. refresh' \in Refreshes
    BY <1>2 DEF Refreshes
  <2> QED
    BY <2>1, TokensAssumption
<1>4. Waiting' = Waiting
  BY DEF Waiting
<1>5. presented' \subseteq Token' /\ session' \in Token' \cup {NoToken}
  BY <1>2 DEF TokInv
<1> QED
  BY <1>3, <1>4, <1>5 DEF TokInv

LEMMA ServerKeeps ==
  ASSUME NowInv, TokInv, Server
  PROVE  NowInv' /\ TokInv' /\ UNCHANGED calls
<1>1. UNCHANGED <<session, storage, calls, presented, ui>>
  BY DEF Server, Expire, Revoke, ServeRefresh, LoseRefresh
<1>2. NowInv'
  BY <1>1 DEF NowInv, Now
<1>3. Waiting' = Waiting
  BY <1>1 DEF Waiting
<1>4. tokens \in Seq(Pairs) /\ Len(tokens) \in Nat
  BY TokenTypes DEF TokInv
<1>5. ASSUME tokens' \in Seq(Pairs), Len(tokens') = Len(tokens), UNCHANGED refresh
      PROVE  TokInv'
  BY <1>1, <1>3, <1>5 DEF TokInv, Token
<1>6. CASE \E t \in Token : Expire(t)
  <2>1. PICK t \in Token : tokens' = [tokens EXCEPT ![t].access = FALSE] /\ UNCHANGED refresh
    BY <1>6 DEF Expire
  <2>2. tokens[t] \in Pairs
    BY <1>4 DEF Token
  <2>3. [tokens[t] EXCEPT !.access = FALSE] \in Pairs
    BY <2>2 DEF Pairs
  <2>4. tokens' = [tokens EXCEPT ![t] = [tokens[t] EXCEPT !.access = FALSE]]
    BY <2>1
  <2>5. tokens' \in Seq(Pairs) /\ Len(tokens') = Len(tokens)
    BY <1>4, <2>3, <2>4, PairChanged DEF Token
  <2> QED
    BY <1>1, <1>2, <1>5, <2>1, <2>5
<1>7. CASE \E chain \in Chains : Revoke(chain)
  <2>1. PICK chain \in Chains : tokens' = Without(tokens, {chain}) /\ UNCHANGED refresh
    BY <1>7 DEF Revoke
  <2>2. tokens' \in Seq(Pairs) /\ Len(tokens') = Len(tokens)
    BY <1>4, <2>1, WithoutTypes
  <2> QED
    BY <1>1, <1>2, <1>5, <2>1, <2>2
<1>8. CASE ServeRefresh
  <2>1. refresh # NoToken /\ refresh.reply = "none"
    BY <1>8 DEF ServeRefresh
  <2>2. refresh.token \in Token /\ refresh \in [token : Token,
          reply : {"none", "ok", "401", "fail"}, new : Token \cup {NoToken}]
    BY <2>1 DEF TokInv
  <2>3. CASE tokens[refresh.token].spendable /\ CanMint
    <3> DEFINE n == Len(tokens) + 1
               spent == [tokens EXCEPT ![refresh.token].spendable = FALSE]
    <3>1. /\ tokens' = Append(spent, Pair(tokens[refresh.token].chain))
          /\ refresh' \in {[refresh EXCEPT !.reply = reply, !.new = n] : reply \in {"ok", "401"}}
      BY <1>8, <2>3 DEF ServeRefresh
    <3>2. tokens[refresh.token] \in Pairs
      BY <1>4, <2>2 DEF Token
    <3>3. /\ [tokens[refresh.token] EXCEPT !.spendable = FALSE] \in Pairs
          /\ Pair(tokens[refresh.token].chain) \in Pairs
      BY <3>2 DEF Pairs, Pair
    <3>4. spent \in Seq(Pairs) /\ Len(spent) = Len(tokens)
      <4>1. spent = [tokens EXCEPT ![refresh.token] =
                       [tokens[refresh.token] EXCEPT !.spendable = FALSE]]
        OBVIOUS
      <4> QED
        BY <1>4, <2>2, <3>3, <4>1, PairChanged DEF Token
    <3> HIDE DEF spent
    <3>5. tokens' \in Seq(Pairs) /\ Len(tokens') = n
      BY <3>1, <3>3, <3>4
    <3>6. n \in Token' /\ n \notin Token /\ Token \subseteq Token'
      BY <1>4, <3>5 DEF Token
    <3> HIDE DEF n
    <3>7. /\ refresh' \in [token : Token', reply : {"none", "ok", "401", "fail"},
                           new : Token' \cup {NoToken}]
          /\ refresh'.new = n
      BY <2>2, <3>1, <3>6
    <3>8. n \notin presented
      BY <3>6 DEF TokInv
    <3> QED
      BY <1>1, <1>2, <1>4, <2>1, <3>5, <3>6, <3>7, <3>8, RefreshKept DEF n
  <2>4. CASE ~ (tokens[refresh.token].spendable /\ CanMint)
    <3>1. refresh' = [refresh EXCEPT !.reply = "401"] /\ UNCHANGED tokens
      BY <1>8, <2>4 DEF ServeRefresh
    <3>2. /\ refresh' \in [token : Token, reply : {"none", "ok", "401", "fail"},
                           new : Token \cup {NoToken}]
          /\ refresh'.reply = "401"
      BY <2>2, <3>1
    <3>3. Token' = Token
      BY <3>1 DEF Token
    <3> QED
      BY <1>1, <1>2, <1>4, <2>1, <3>1, <3>2, <3>3, RefreshKept
  <2> QED
    BY <2>3, <2>4
<1>9. CASE LoseRefresh
  <2>1. /\ refresh # NoToken /\ UNCHANGED tokens
        /\ refresh' = [refresh EXCEPT !.reply = "fail", !.new = NoToken]
    BY <1>9 DEF LoseRefresh
  <2>2. refresh \in [token : Token, reply : {"none", "ok", "401", "fail"},
                     new : Token \cup {NoToken}]
    BY <2>1 DEF TokInv
  <2>3. /\ refresh' \in [token : Token, reply : {"none", "ok", "401", "fail"},
                         new : Token \cup {NoToken}]
        /\ refresh'.reply = "fail"
    BY <2>1, <2>2
  <2>4. Token' = Token
    BY <2>1 DEF Token
  <2> QED
    BY <1>1, <1>2, <1>4, <2>1, <2>3, <2>4, RefreshKept
<1> QED
  BY <1>1, <1>2, <1>6, <1>7, <1>8, <1>9 DEF Server

-----------------------------------------------------------------------------
(* A page that is loaded again.                                            *)
LEMMA NoCallsFit ==
  ASSUME NEW c \in [Slots -> Calls], \A s \in Slots : c[s] = Idle
  PROVE  Struct(c, LoginUi) /\ Waits(c, LoginUi, {})
<1>1. \A s \in Slots : c[s].kind = "none" /\ c[s].life = "here"
  BY Constants
<1>2. /\ Absent(c, SignInKinds) /\ Absent(c, ManageKinds) /\ Absent(c, FormKinds)
      /\ Absent(c, {"restore"}) /\ Absent(c, DashboardKinds)
  BY <1>1, Kinds DEF Absent, SignInKinds, ManageKinds, FormKinds
<1>3. Offstage(c, LoginUi) /\ SignIn(c, LoginUi) /\ Restores(c, LoginUi)
  BY <1>2, Screens DEF Offstage, SignIn, Restores, Absent
<1>4. Lives(c)
  BY <1>1 DEF Lives, PublicKinds
<1>5. Forms(c, LoginUi) /\ Choices(c, LoginUi)
  BY <1>2, Screens DEF Forms, Choices, Absent
<1> QED
  BY <1>3, <1>4, <1>5, LoginUiWaits DEF Struct

LEMMA RestoringFits ==
  ASSUME NEW c \in [Slots -> Calls], NEW s \in Slots, \A o \in Slots \ {s} : c[o] = Idle,
         c[s].kind = "restore", c[s].at = "restoring", c[s].life = "here"
  PROVE  Struct(c, RestoringUi) /\ Waits(c, RestoringUi, {})
<1>1. \A o \in Slots : c[o].kind \in {"none", "restore"} /\ c[o].life = "here"
  BY Constants
<1>2. \A o \in Slots : c[o].kind = "restore" => o = s
  BY Constants
<1>3. /\ Absent(c, SignInKinds) /\ Absent(c, ManageKinds) /\ Absent(c, FormKinds)
      /\ Absent(c, DashboardKinds)
  BY <1>1, Kinds DEF Absent, SignInKinds, ManageKinds, FormKinds
<1>4. Offstage(c, RestoringUi) /\ SignIn(c, RestoringUi)
  BY <1>3, Screens DEF Offstage, SignIn, Absent
<1>5. Restores(c, RestoringUi)
  BY <1>2, Screens DEF Restores
<1>6. Lives(c)
  BY <1>1, Constants DEF Lives, PublicKinds
<1>7. Forms(c, RestoringUi) /\ Choices(c, RestoringUi)
  BY <1>3, Screens DEF Forms, Choices, Absent
<1>8. Awaited(c, {"restore"})
  BY DEF Awaited
<1>9. Waits(c, RestoringUi, {})
  BY <1>8, Screens DEF Waits
<1> QED
  BY <1>4, <1>5, <1>6, <1>7, <1>9 DEF Struct

LEMMA ReloadKeeps ==
  ASSUME NowInv, TokInv, ReloadPage
  PROVE  NowInv' /\ TokInv' /\ \A s \in Slots : calls'[s].at # "waiting"
<1>1. session' = storage /\ UNCHANGED <<storage, tokens>> /\ Token' = Token
  BY DEF ReloadPage, Token
<1>2. storage \in Nat \cup {NoToken} /\ session = storage
  BY TokenTypes DEF TokInv
<1>3. CASE storage = NoToken
  <2>1. /\ ui' = LoginUi /\ refresh' = NoToken /\ presented' = {}
        /\ calls' = [s \in Slots |-> Idle]
    BY <1>3 DEF ReloadPage
  <2>2. calls' \in [Slots -> Calls] /\ \A s \in Slots : calls'[s] = Idle
    BY <2>1, Constants
  <2>3. NowInv'
    <3>1. Struct(calls', ui') /\ Waits(calls', ui', {}) /\ ui' \in Uis
      BY <2>1, <2>2, NoCallsFit, Constants
    <3> QED
      BY <1>1, <1>2, <2>2, <3>1, NowFits
  <2>4. Waiting' = {} /\ \A s \in Slots : calls'[s].at # "waiting"
    BY <2>2, Constants DEF Waiting
  <2>5. TokInv'
    BY <1>1, <1>3, <2>1, <2>4 DEF TokInv
  <2> QED
    BY <2>3, <2>4, <2>5
<1>4. CASE storage # NoToken
  <2>1. /\ ui' = RestoringUi /\ refresh' = NewRefresh(storage) /\ presented' = {storage}
    BY <1>4 DEF ReloadPage
  <2> DEFINE call == [Idle EXCEPT !.kind = "restore", !.at = "restoring"]
  <2>2. PICK s \in Slots : calls' = [o \in Slots |-> IF o = s THEN call ELSE Idle]
    BY <1>4 DEF ReloadPage
  <2>3. /\ call \in Calls /\ call.kind = "restore" /\ call.at = "restoring"
        /\ call.life = "here"
    BY Constants DEF Calls
  <2> HIDE DEF call
  <2>4. /\ calls' \in [Slots -> Calls] /\ calls'[s] = call
        /\ \A o \in Slots \ {s} : calls'[o] = Idle
    BY <2>2, <2>3, Constants
  <2>5. NowInv'
    <3>1. Struct(calls', ui') /\ Waits(calls', ui', {}) /\ ui' \in Uis
      BY <2>1, <2>3, <2>4, RestoringFits, Constants
    <3> QED
      BY <1>1, <1>2, <2>4, <3>1, NowFits
  <2>6. Waiting' = {s} /\ \A o \in Slots : calls'[o].at # "waiting"
    BY <2>3, <2>4, Constants DEF Waiting
  <2>7. storage \in Token /\ storage \in Nat
    BY <1>2, <1>4 DEF TokInv
  <2>8. /\ refresh' # NoToken /\ refresh'.token = storage
        /\ refresh' \in [token : Token, reply : {"none", "ok", "401", "fail"},
                         new : Token \cup {NoToken}]
        /\ refresh'.reply = "none"
    BY <2>1, <2>7, NewRefreshIsOne
  <2>9. TokInv'
    BY <1>1, <1>2, <2>1, <2>6, <2>7, <2>8 DEF TokInv
  <2> QED
    BY <2>5, <2>6, <2>9
<1> QED
  BY <1>3, <1>4

-----------------------------------------------------------------------------
ConsoleInv == NowInv /\ TokInv

(* One step, as PresentedOnce sees it.                                     *)
Presenting ==
  \A s \in Slots :
    /\ calls[s].at = "sent" /\ calls'[s].at = "waiting"
    /\ calls'[s].kind = calls[s].kind
    /\ refresh' # refresh
    => refresh'.token \notin presented

LEMMA ConsoleInitInv == ConsoleInit => ConsoleInv
<1> SUFFICES ASSUME ConsoleInit PROVE ConsoleInv
  OBVIOUS
<1>1. /\ session = NoToken /\ storage = NoToken /\ refresh = NoToken /\ tokens = <<>>
      /\ presented = {} /\ ui = LoginUi /\ calls = [s \in Slots |-> Idle]
  BY DEF ConsoleInit
<1>2. calls \in [Slots -> Calls] /\ \A s \in Slots : calls[s] = Idle
  BY <1>1, Constants
<1>3. Struct(calls, ui) /\ Waits(calls, ui, {}) /\ ui \in Uis
  BY <1>1, <1>2, NoCallsFit, Constants
<1>4. NowInv
  BY <1>1, <1>2, <1>3 DEF NowInv, Now, Pages, Fits
<1>5. Waiting = {}
  BY <1>2, Constants DEF Waiting
<1>6. tokens \in Seq(Pairs)
  BY <1>1
<1>7. TokInv
  BY <1>1, <1>5, <1>6 DEF TokInv
<1> QED
  BY <1>4, <1>7 DEF ConsoleInv

LEMMA UserKeeps ==
  ASSUME ConsoleInv, User
  PROVE  ConsoleInv' /\ Presenting
<1> USE DEF ConsoleInv
<1>1. CASE ReloadPage
  BY <1>1, ReloadKeeps DEF Presenting
<1>2. CASE ~ ReloadPage
  <2>1. Steady
    BY <1>2, SignInSteady, LogOutSteady, BrowseSteady, OpenCreateSteady, OpenPasswordSteady,
       OpenManageSteady, SelectSteady, CloseSteady, DetailsSteady, FormsSteady, EventsSteady
       DEF User
  <2> QED
    BY <2>1, SteadyKeeps DEF Steady, Presenting
<1> QED
  BY <1>1, <1>2

LEMMA ConsoleKeeps ==
  ASSUME ConsoleInv, [ConsoleNext]_consoleVars
  PROVE  ConsoleInv' /\ [Presenting]_consoleVars
<1> USE DEF ConsoleInv
<1>1. CASE Server
  BY <1>1, ServerKeeps DEF Presenting
<1>2. CASE \E s \in Rejected : Reject(s)
  <2>1. PICK s \in Slots : Reject(s)
    BY <1>2 DEF Rejected
  <2>2. UNCHANGED refresh
    BY <2>1 DEF Reject
  <2> QED
    BY <2>1, <2>2, RejectKeeps DEF Presenting
<1>3. CASE \E s \in Slots : CallAnswered(s)
  <2>1. PICK s \in Slots : CallAnswered(s)
    BY <1>3
  <2>2. CASE Receive(s)
    <3>1. UNCHANGED refresh
      BY <2>2 DEF Receive
    <3> QED
      BY <2>2, <3>1, ReceiveKeeps DEF Presenting
  <2>3. CASE LoginAnswered(s)
    <3>1. UNCHANGED refresh
      BY <2>3 DEF LoginAnswered
    <3> QED
      BY <2>3, <3>1, LoginKeeps DEF Presenting
  <2>4. CASE AwaitRefresh(s) /\ UNCHANGED ui
    BY <2>4, AwaitKeeps DEF Presenting
  <2> QED
    BY <2>1, <2>2, <2>3, <2>4 DEF CallAnswered
<1>4. CASE RefreshSettles
  <2>1. NowInv' /\ TokInv' /\ Waiting' = {}
    BY <1>4, SucceedKeeps, FailKeeps DEF RefreshSettles
  <2> QED
    BY <2>1 DEF Presenting, Waiting
<1>5. CASE User
  BY <1>5, UserKeeps
<1>6. CASE \E e \in ui.effects : RunEffect(e)
  <2>1. Steady
    BY <1>6, EffectSteady
  <2> QED
    BY <2>1, SteadyKeeps DEF Steady, Presenting
<1>7. CASE UNCHANGED consoleVars
  <2>1. UNCHANGED <<session, storage, refresh, calls, tokens, presented, ui>>
    BY <1>7 DEF consoleVars, clientVars
  <2>2. NowInv'
    BY <2>1 DEF NowInv, Now
  <2>3. TokInv'
    BY <2>1 DEF TokInv, Token, Waiting
  <2> QED
    BY <1>7, <2>2, <2>3
<1> QED
  BY <1>1, <1>2, <1>3, <1>4, <1>5, <1>6, <1>7 DEF ConsoleNext

LEMMA ConsoleInvariance == ConsoleSpec => []ConsoleInv
<1>1. ConsoleInv /\ [ConsoleNext]_consoleVars => ConsoleInv'
  BY ConsoleKeeps
<1> QED
  BY ConsoleInitInv, <1>1, PTL DEF ConsoleSpec

(* Whatever is disabled, spinning or restoring in the dashboard has a call *)
(* under way or an effect that will make one, and no call waits for a      *)
(* refresh that nobody makes.                                              *)
THEOREM NothingSpinsForEver == ConsoleSpec => []BusyMeansWaiting
<1>1. ConsoleInv => BusyMeansWaiting
  <2> SUFFICES ASSUME ConsoleInv PROVE BusyMeansWaiting
    OBVIOUS
  <2>1. Waits(calls, ui, {}) /\ TokInv
    BY NowParts DEF ConsoleInv
  <2>2. \A kinds : Awaited(calls, kinds) <=> Underway(kinds)
    BY DEF Awaited, Underway
  <2> QED
    BY <2>1, <2>2 DEF Waits, TokInv, BusyMeansWaiting
<1> QED
  BY <1>1, ConsoleInvariance, PTL

(* The answer to a change or a deletion of a user finds the form it was    *)
(* sent from, and a dialog of one user is about that user only, however    *)
(* many users, calls and dialogs there are.                                *)
THEOREM FormsAreFound == ConsoleSpec => []AnswersFindTheirForm
<1>1. ConsoleInv => AnswersFindTheirForm
  <2> SUFFICES ASSUME ConsoleInv PROVE AnswersFindTheirForm
    OBVIOUS
  <2>1. Forms(calls, ui) /\ Choices(calls, ui) /\ ui \in Uis
    BY NowParts DEF ConsoleInv, Struct
  <2>2. \A s \in Slots :
          calls[s].kind \in {"save", "remove"} =>
            /\ "manage" \in ui.open /\ ui.shown # NoUser
            /\ ui.view = IF calls[s].kind = "save" THEN "editing" ELSE "confirming"
    BY <2>1 DEF Forms, Absent, FormKinds, ManageKinds
  <2>3. ASSUME ~ui.switched
        PROVE  /\ ui.shown \in {NoUser, ui.chosen}
               /\ \A s \in Slots : calls[s].kind \in KindsOf("manage") => calls[s].about = ui.chosen
    <3>1. ui.switched = FALSE
      BY <2>1, <2>3 DEF Uis
    <3> QED  BY <2>1, <3>1, Kinds DEF Choices
  <2> QED
    BY <2>2, <2>3 DEF AnswersFindTheirForm
<1> QED
  BY <1>1, ConsoleInvariance, PTL

(* Concurrent calls that are told 401 share one refresh, and no page sends *)
(* one refresh token twice.                                                *)
THEOREM TokensArePresentedOnce == ConsoleSpec => PresentedOnce
<1>1. ConsoleInv /\ [ConsoleNext]_consoleVars => [Presenting]_consoleVars
  BY ConsoleKeeps
<1> QED
  BY <1>1, ConsoleInvariance, PTL DEF ConsoleSpec, PresentedOnce, Presenting
=============================================================================
