----------------------------- MODULE LifecycleProofs -----------------------------
(***************************************************************************)
(* What close() guarantees, for any application, any number of clients and *)
(* any number of calls, and then, from ContainerScopes, what get() does,   *)
(* for any bindings, any number of requests and any depth of the stack.    *)
(***************************************************************************)
EXTENDS ApplicationLifecycle, ContainerScopes, SequenceTheorems, FiniteSetTheorems,
        WellFoundedInduction, TLAPS

Loading == {"configured", "composed", "imports", "providers", "awaiting"}
Running == {"bootstrapped", "crashed"}

(* A module pushes its hook once, when it is loaded, and modules are       *)
(* loaded in their order: no two hooks are of the same module.             *)
HooksInv ==
  /\ at \in Nat
  /\ hooks \in Seq(Nat)
  /\ \A i, j \in DOMAIN hooks : i < j => hooks[i] < hooks[j]
  /\ \A i \in DOMAIN hooks : hooks[i] <= at
  /\ stage \in Loading => \A i \in DOMAIN hooks : hooks[i] < at

(* A call of close() that has come to a hook is past all later ones, and   *)
(* the server has stopped by then.                                         *)
CloseInv ==
  /\ closing \in [Closers -> [step : {"none", "stopping", "hook", "settled"},
                              left : Nat, result : {"none", "fulfilled", "rejected"}]]
  /\ conn \in [Connections -> {"none", "idle", "waiting"}]
  /\ stage \notin Running => server = "none"
  /\ server = "none" => closed = {} /\ \A x \in Closers : closing[x].step = "none"
  /\ server \notin {"open", "draining"} => \A c \in Connections : conn[c] = "none"
  /\ closed # {} => server = "shut"
  /\ \A x \in Closers :
       /\ closing[x].step \in {"hook", "settled"} => server = "shut"
       /\ closing[x].step = "hook" =>
            /\ closing[x].left \in DOMAIN hooks
            /\ \A j \in DOMAIN hooks : closing[x].left < j => hooks[j] \in closed
       /\ closing[x].step = "settled" /\ closing[x].result = "fulfilled" =>
            \A j \in DOMAIN hooks : hooks[j] \in closed
  /\ ClosedInReverse

-----------------------------------------------------------------------------
(* The loader.                                                             *)

(* Failing, or what register() does, keeps the order of the hooks.         *)
LEMMA RegistersKeepsHooks ==
  ASSUME NEW m, HooksInv, stage \in Loading, Registers(m) \/ Fail
  PROVE  HooksInv' /\ stage' \in {"registered", "failed"}
<1>1. CASE Fail
  BY <1>1 DEF Fail, HooksInv, Loading
<1>2. CASE Registers(m)
  <2>1. CASE Fail
    BY <1>1, <2>1
  <2>2. CASE /\ hooks' \in {hooks, Append(hooks, at)}
             /\ stage' = "registered" /\ at' = at
    <3>1. hooks' \in Seq(Nat)
      BY <2>2 DEF HooksInv
    <3>2. \A i \in DOMAIN hooks' :
            \/ i \in DOMAIN hooks /\ hooks'[i] = hooks[i]
            \/ /\ hooks' = Append(hooks, at)
               /\ i = Len(hooks) + 1 /\ hooks'[i] = at
      BY <2>2 DEF HooksInv
    <3>3. DOMAIN hooks = 1..Len(hooks) /\ Len(hooks) \in Nat
      BY DEF HooksInv
    <3>4. \A i, j \in DOMAIN hooks' : i < j => hooks'[i] < hooks'[j]
      <4> SUFFICES ASSUME NEW i \in DOMAIN hooks', NEW j \in DOMAIN hooks', i < j
                   PROVE  hooks'[i] < hooks'[j]
        OBVIOUS
      <4>1. i \in DOMAIN hooks /\ hooks'[i] = hooks[i]
        <5>1. DOMAIN hooks' \subseteq 1..(Len(hooks) + 1)
          BY <3>2, <3>3
        <5> QED  BY <3>2, <3>3, <5>1
      <4>2. CASE j \in DOMAIN hooks /\ hooks'[j] = hooks[j]
        BY <4>1, <4>2 DEF HooksInv
      <4>3. CASE hooks'[j] = at
        BY <4>1, <4>3 DEF HooksInv, Loading
      <4> QED  BY <3>2, <4>2, <4>3
    <3>5. \A i \in DOMAIN hooks' : hooks'[i] <= at'
      BY <2>2, <3>2 DEF HooksInv
    <3> QED  BY <2>2, <3>1, <3>4, <3>5 DEF HooksInv, Loading
  <2> QED  BY <1>2, <2>1, <2>2 DEF Registers
<1> QED  BY <1>1, <1>2

LEMMA LoadKeepsHooks ==
  ASSUME HooksInv, LoadNext
  PROVE  /\ HooksInv'
         /\ stage \in Running => hooks' = hooks /\ stage' \in Running
<1>1. CASE Compose
  BY <1>1 DEF Compose, HooksInv, Loading, Running
<1>2. CASE Use
  BY <1>2 DEF Use, HooksInv, Loading, Running
<1>3. CASE Bootstrap
  BY <1>3 DEF Bootstrap, HooksInv, Loading, Running
<1>4. CASE CheckImports
  BY <1>4 DEF CheckImports, Fail, HooksInv, Loading, Running
<1>5. CASE RegisterProvider
  BY <1>5 DEF RegisterProvider, Fail, HooksInv, Loading, Running
<1>6. CASE CallRegister
  <2>1. stage = "providers"
    BY <1>6 DEF CallRegister
  <2>2. CASE Registers(M)
    BY <2>1, <2>2, RegistersKeepsHooks DEF Loading, Running
  <2>3. CASE UNCHANGED <<at, hooks>> /\ stage' \in {"exports", "awaiting"}
    BY <2>1, <2>3 DEF HooksInv, Loading, Running
  <2> QED  BY <1>6, <2>2, <2>3 DEF CallRegister
<1>7. CASE ResumeRegister
  <2>1. stage = "awaiting" /\ (Registers(M) \/ Fail)
    BY <1>7 DEF ResumeRegister
  <2> QED  BY <2>1, RegistersKeepsHooks DEF Loading, Running
<1>8. CASE CheckExports
  BY <1>8 DEF CheckExports, Fail, HooksInv, Loading, Running
<1>9. CASE SettlePending
  BY <1>9 DEF SettlePending, HooksInv, Loading, Running
<1> QED
  BY <1>1, <1>2, <1>3, <1>4, <1>5, <1>6, <1>7, <1>8, <1>9 DEF LoadNext

-----------------------------------------------------------------------------
(* The server.                                                             *)
IInv == HooksInv /\ CloseInv

LEMMA InitIInv == Init => IInv
BY DEF Init, LoadInit, IInv, HooksInv, CloseInv, ClosedInReverse, Loading, Running

(* Loading leaves the server alone: there is none yet when the list of     *)
(* hooks changes.                                                          *)
LEMMA LoadKeepsClose ==
  ASSUME IInv, LoadNext, UNCHANGED serveVars
  PROVE  IInv'
<1>1. /\ HooksInv'
      /\ stage \in Running => hooks' = hooks /\ stage' \in Running
  BY LoadKeepsHooks DEF IInv
<1>2. CASE stage \in Running
  BY <1>1, <1>2 DEF IInv, CloseInv, ClosedInReverse, serveVars
<1>3. CASE stage \notin Running
  <2>1. server = "none" /\ closed = {} /\ \A x \in Closers : closing[x].step = "none"
    BY <1>3 DEF IInv, CloseInv
  <2> QED  BY <1>1, <2>1 DEF IInv, CloseInv, ClosedInReverse, serveVars
<1> QED  BY <1>2, <1>3

(* The steps of listen() and of clients.                                   *)
LEMMA ServingKeepsClose ==
  ASSUME IInv,
         \/ Listen \/ Bound \/ ListenFails \/ Ready \/ StartHook
         \/ \E c \in Connections : Connect(c) \/ Request(c) \/ Answer(c) \/ Disconnect(c)
  PROVE  IInv'
<1>1. /\ at' = at /\ hooks' = hooks /\ stage' \in {stage, "crashed"} /\ stage = "bootstrapped"
      /\ closing' = closing /\ closed' = closed
  BY DEF Listen, Bound, ListenFails, Ready, StartHook, Connect, Request, Answer,
         Disconnect, Up, loadVars, serveVars
<1>2. HooksInv'
  BY <1>1 DEF IInv, HooksInv, Loading
<1>3. /\ server' = server \/ (server \in {"none", "lookup"} /\ server' \in {"lookup", "open"})
      /\ conn' \in [Connections -> {"none", "idle", "waiting"}]
      /\ server \notin {"open", "draining"} => \A c \in Connections : conn'[c] = "none"
  <2>1. CASE Listen \/ Bound \/ ListenFails \/ Ready \/ StartHook
    BY <2>1 DEF Listen, Bound, ListenFails, Ready, StartHook, IInv, CloseInv, serveVars
  <2>2. ASSUME NEW c \in Connections, Connect(c)
        PROVE  <1>3!1 /\ <1>3!2 /\ <1>3!3
    BY <2>2 DEF Connect, IInv, CloseInv
  <2>3. ASSUME NEW c \in Connections, Request(c) \/ Answer(c) \/ Disconnect(c)
        PROVE  <1>3!1 /\ <1>3!2 /\ <1>3!3
    BY <2>3 DEF Request, Answer, Disconnect, IInv, CloseInv
  <2> QED  BY <2>1, <2>2, <2>3
<1>4. CloseInv'
  BY <1>1, <1>3 DEF IInv, CloseInv, ClosedInReverse, Running
<1> QED  BY <1>2, <1>4 DEF IInv

(* The first hook of a call of close(), or none.                           *)
LEMMA RunHooksKeeps ==
  ASSUME IInv, Up, NEW x \in Closers, NEW result \in {"none", "fulfilled", "rejected"},
         RunHooks(x, result), server' = "shut",
         \A c \in Connections : conn[c] = "none",
         UNCHANGED <<loadVars, start, conn, requests, closed>>
  PROVE  IInv'
<1>1. HooksInv'
  BY DEF IInv, HooksInv, loadVars, Loading
<1>2. /\ at' = at /\ hooks' = hooks /\ stage' = "bootstrapped" /\ closed' = closed
      /\ conn' = conn
  BY DEF loadVars, Up
<1>3. Len(hooks) \in Nat /\ DOMAIN hooks = 1..Len(hooks) /\ (hooks = <<>> <=> Len(hooks) = 0)
  BY DEF IInv, HooksInv
<1>4. closing' \in [Closers -> [step : {"none", "stopping", "hook", "settled"},
                                left : Nat, result : {"none", "fulfilled", "rejected"}]]
  BY <1>3 DEF RunHooks, IInv, CloseInv
<1>5. /\ \A y \in Closers \ {x} : closing'[y] = closing[y]
      /\ closing'[x].left = Len(hooks)
      /\ closing'[x].step = IF hooks = <<>> THEN "settled" ELSE "hook"
  BY DEF RunHooks, IInv, CloseInv
<1>6. ASSUME NEW y \in Closers
      PROVE  /\ closing'[y].step = "hook" =>
                  /\ closing'[y].left \in DOMAIN hooks
                  /\ \A j \in DOMAIN hooks : closing'[y].left < j => hooks[j] \in closed
             /\ closing'[y].step = "settled" /\ closing'[y].result = "fulfilled" =>
                  \A j \in DOMAIN hooks : hooks[j] \in closed
  <2>1. CASE y = x
    BY <1>3, <1>5, <2>1
  <2>2. CASE y # x
    BY <1>5, <2>2 DEF IInv, CloseInv
  <2> QED  BY <2>1, <2>2
<1>7. CloseInv'
  BY <1>2, <1>4, <1>6 DEF IInv, CloseInv, ClosedInReverse, Running
<1> QED  BY <1>1, <1>7 DEF IInv

LEMMA CloseKeeps ==
  ASSUME IInv, NEW x \in Closers, Close(x)
  PROVE  IInv'
<1>1. CASE server \in {"open", "draining"}
  <2>1. PICK result \in {"fulfilled", "rejected"} :
          closing' = [closing EXCEPT ![x].step = "stopping", ![x].result = result]
    BY <1>1 DEF Close
  <2>2. /\ UNCHANGED <<at, hooks, stage, conn, closed>> /\ server' = "draining"
        /\ At(x, "none") /\ stage = "bootstrapped"
    BY <1>1 DEF Close, loadVars, Up
  <2>3. closing' \in [Closers -> [step : {"none", "stopping", "hook", "settled"},
                                  left : Nat, result : {"none", "fulfilled", "rejected"}]]
    BY <2>1 DEF IInv, CloseInv
  <2>4. closing'[x].step = "stopping" /\ \A y \in Closers \ {x} : closing'[y] = closing[y]
    BY <2>1 DEF IInv, CloseInv
  <2>5. HooksInv'
    BY <2>2 DEF IInv, HooksInv, Loading
  <2>6. closed = {} /\ \A y \in Closers : closing[y].step \notin {"hook", "settled"}
    BY <1>1 DEF IInv, CloseInv
  <2>7. \A y \in Closers : closing'[y].step \notin {"hook", "settled"}
    BY <2>4, <2>6
  <2>8. CloseInv'
    BY <1>1, <2>2, <2>3, <2>6, <2>7 DEF IInv, CloseInv, ClosedInReverse, Running
  <2> QED  BY <2>5, <2>8 DEF IInv
<1>2. CASE server \notin {"open", "draining"}
  <2>1. RunHooks(x, "rejected") /\ server' = "shut"
    BY <1>2 DEF Close
  <2>2. \A c \in Connections : conn[c] = "none"
    BY <1>2 DEF IInv, CloseInv
  <2> QED  BY <2>1, <2>2, RunHooksKeeps DEF Close
<1> QED  BY <1>1, <1>2

LEMMA StoppedKeeps ==
  ASSUME IInv, NEW x \in Closers, Stopped(x)
  PROVE  IInv'
<1>1. closing[x].result \in {"none", "fulfilled", "rejected"}
  BY DEF IInv, CloseInv
<1> QED  BY <1>1, RunHooksKeeps DEF Stopped

(* The hook that has run is the last one not yet closed in this call, and  *)
(* no other index of the list is of the same module.                       *)
LEMMA ShutdownHookKeeps ==
  ASSUME IInv, NEW x \in Closers, ShutdownHook(x)
  PROVE  IInv'
<1> DEFINE n == closing[x].left
<1>1. /\ UNCHANGED <<at, hooks, stage, server, conn>> /\ stage = "bootstrapped"
      /\ closing[x].step = "hook" /\ server = "shut"
  BY DEF ShutdownHook, loadVars, Up, At, IInv, CloseInv
<1>2. HooksInv'
  BY <1>1 DEF IInv, HooksInv, Loading
<1>3. /\ Len(hooks) \in Nat /\ DOMAIN hooks = 1..Len(hooks)
      /\ n \in DOMAIN hooks /\ \A j \in DOMAIN hooks : n < j => hooks[j] \in closed
  BY <1>1 DEF IInv, HooksInv, CloseInv
<1>4. \A i \in DOMAIN hooks : hooks[i] = hooks[n] => i = n
  <2>1. \A i \in DOMAIN hooks : i < n \/ n < i \/ i = n
    BY <1>3
  <2> QED  BY <1>3, <2>1 DEF IInv, HooksInv
<1>5. CASE /\ closed' = closed \cup {hooks[n]}
           /\ closing' = [closing EXCEPT ![x].left = @ - 1,
                                          ![x].step = IF n = 1 THEN "settled" ELSE "hook"]
  <2>1. closing' \in [Closers -> [step : {"none", "stopping", "hook", "settled"},
                                  left : Nat, result : {"none", "fulfilled", "rejected"}]]
    <3>1. n - 1 \in Nat
      BY <1>3
    <3>2. closing \in [Closers -> [step : {"none", "stopping", "hook", "settled"},
                                   left : Nat, result : {"none", "fulfilled", "rejected"}]]
      BY DEF IInv, CloseInv
    <3> HIDE DEF n
    <3> QED  BY <1>5, <3>1, <3>2 DEF n
  <2>2. /\ closing'[x].left = n - 1
        /\ closing'[x].step = IF n = 1 THEN "settled" ELSE "hook"
        /\ \A y \in Closers \ {x} : closing'[y] = closing[y]
    BY <1>5 DEF IInv, CloseInv
  <2>3. ClosedInReverse'
    <3> SUFFICES ASSUME NEW i \in DOMAIN hooks, NEW j \in DOMAIN hooks,
                        i < j, hooks[i] \in closed'
                 PROVE  hooks[j] \in closed'
      BY <1>1 DEF ClosedInReverse
    <3>1. CASE hooks[i] \in closed
      BY <1>5, <3>1 DEF IInv, CloseInv, ClosedInReverse
    <3>2. CASE i = n
      BY <1>3, <1>5, <3>2
    <3> QED  BY <1>4, <1>5, <3>1, <3>2
  <2>4. ASSUME NEW y \in Closers
        PROVE  /\ closing'[y].step = "hook" =>
                    /\ closing'[y].left \in DOMAIN hooks
                    /\ \A j \in DOMAIN hooks : closing'[y].left < j => hooks[j] \in closed'
               /\ closing'[y].step = "settled" /\ closing'[y].result = "fulfilled" =>
                    \A j \in DOMAIN hooks : hooks[j] \in closed'
    <3>1. CASE y = x
      <4>1. \A j \in DOMAIN hooks : n - 1 < j => hooks[j] \in closed'
        <5>1. \A j \in DOMAIN hooks : n - 1 < j => j = n \/ n < j
          BY <1>3
        <5> QED  BY <1>3, <1>5, <5>1
      <4> QED  BY <1>3, <2>2, <3>1, <4>1
    <3>2. CASE y # x
      BY <1>5, <2>2, <3>2 DEF IInv, CloseInv
    <3> QED  BY <3>1, <3>2
  <2>5. CloseInv'
    BY <1>1, <2>1, <2>3, <2>4 DEF IInv, CloseInv, Running
  <2> QED  BY <1>2, <2>5 DEF IInv
<1>6. CASE /\ closed' = closed
           /\ closing' = [closing EXCEPT ![x].step = "settled", ![x].result = "rejected"]
  <2>1. closing' \in [Closers -> [step : {"none", "stopping", "hook", "settled"},
                                  left : Nat, result : {"none", "fulfilled", "rejected"}]]
    BY <1>6 DEF IInv, CloseInv
  <2>2. /\ closing'[x].step = "settled" /\ closing'[x].result = "rejected"
        /\ \A y \in Closers \ {x} : closing'[y] = closing[y]
    BY <1>6 DEF IInv, CloseInv
  <2>3. CloseInv'
    BY <1>1, <1>6, <2>1, <2>2 DEF IInv, CloseInv, ClosedInReverse, Running
  <2> QED  BY <1>2, <2>3 DEF IInv
<1> QED  BY <1>5, <1>6 DEF ShutdownHook

LEMMA StepIInv == IInv /\ [Next]_vars => IInv'
<1> SUFFICES ASSUME IInv, [Next]_vars PROVE IInv'
  OBVIOUS
<1>1. CASE LoadNext /\ UNCHANGED serveVars
  BY <1>1, LoadKeepsClose
<1>2. CASE \/ Listen \/ Bound \/ ListenFails \/ Ready \/ StartHook
           \/ \E c \in Connections : Connect(c) \/ Request(c) \/ Answer(c) \/ Disconnect(c)
  BY <1>2, ServingKeepsClose
<1>3. CASE \E x \in Closers : Close(x) \/ Stopped(x) \/ ShutdownHook(x)
  BY <1>3, CloseKeeps, StoppedKeeps, ShutdownHookKeeps
<1>4. CASE UNCHANGED vars
  BY <1>4 DEF vars, loadVars, serveVars, IInv, HooksInv, CloseInv, ClosedInReverse,
              Loading, Running
<1> QED  BY <1>1, <1>2, <1>3, <1>4 DEF Next

LEMMA Invariance == Spec => []IInv
BY InitIInv, StepIInv, PTL DEF Spec

-----------------------------------------------------------------------------
(* ServerRunner.close() runs no shutdown hook while a client waits, for    *)
(* any number of clients and of calls.                                     *)
THEOREM AnswersComeFirst == Spec => []AnswersBeforeHooks
<1>1. IInv => AnswersBeforeHooks
  BY DEF IInv, CloseInv, AnswersBeforeHooks, At
<1> QED  BY <1>1, Invariance, PTL

(* LifecycleManager's loop over the reversed list closes what was opened   *)
(* last first, however many of these loops run and fail at once.           *)
THEOREM ReverseOrder == Spec => []ClosedInReverse
<1>1. IInv => ClosedInReverse
  BY DEF IInv, CloseInv
<1> QED  BY <1>1, Invariance, PTL

(* A close() that resolves has run every shutdown hook with success.       *)
THEOREM ResolvingCloses == Spec => []ResolvedMeansClosed
<1>1. IInv => ResolvedMeansClosed
  BY DEF IInv, CloseInv, ResolvedMeansClosed, At
<1> QED  BY <1>1, Invariance, PTL

-----------------------------------------------------------------------------
(* Types.  The module that the loader works on is one of the pipeline.     *)
Working == {"providers", "awaiting", "registered", "exports"}

Listed(s) == s \in Seq({s[i] : i \in DOMAIN s})

LoadInv ==
  /\ LoadTypeOK
  /\ Listed(pipeline)
  /\ starts \in Seq(Nat) /\ hooks \in Seq(Nat)
  /\ stage \in {"configured", "composed"} => at = 1 /\ starts = <<>> /\ hooks = <<>>
  /\ stage \in Working => at \in DOMAIN pipeline

LEMMA ListedIsSeq ==
  ASSUME NEW s, Listed(s)
  PROVE  Len(s) \in Nat /\ DOMAIN s = 1..Len(s)
BY DEF Listed

LEMMA SeqIsListed ==
  ASSUME NEW S, NEW s \in Seq(S)
  PROVE  Listed(s)
<1>1. Len(s) \in Nat /\ s \in [1..Len(s) -> {s[i] : i \in DOMAIN s}]
  OBVIOUS
<1> QED  BY <1>1 DEF Listed

LEMMA ConfiguredLists ==
  ASSUME NEW c \in Configs, NEW db \in BOOLEAN
  PROVE  \E S : BuiltIn(db) \in Seq(S) /\ c \in Seq(S)
<1> DEFINE S == {BuiltIn(db)[i] : i \in 1..6} \cup {c[i] : i \in DOMAIN c}
<1>1. BuiltIn(db) \in Seq({BuiltIn(db)[i] : i \in 1..6})
  BY DEF BuiltIn
<1>2. c \in Seq({c[i] : i \in DOMAIN c})
  BY LoadingAssumption
<1>3. BuiltIn(db) \in Seq(S) /\ c \in Seq(S)
  BY <1>1, <1>2, SeqMonotonic
<1> QED  BY <1>3

LEMMA InitLoadInv == LoadInit => LoadInv
<1> SUFFICES ASSUME LoadInit PROVE LoadInv
  OBVIOUS
<1>1. PICK c \in Configs, db \in BOOLEAN : pipeline = BuiltIn(db) \o c
  BY DEF LoadInit
<1>2. PICK S : BuiltIn(db) \in Seq(S) /\ c \in Seq(S)
  BY ConfiguredLists
<1>3. pipeline \in Seq(S)
  BY <1>1, <1>2, ConcatProperties
<1>4. Listed(pipeline)
  BY <1>3, SeqIsListed
<1>5. Len(pipeline) \in Nat /\ DOMAIN pipeline = 1..Len(pipeline)
  BY <1>4, ListedIsSeq
<1> QED  BY <1>4, <1>5 DEF LoadInit, LoadInv, LoadTypeOK, Working

LEMMA RegistersKeepsTypes ==
  ASSUME LoadInv, stage \in Working, UNCHANGED <<pipeline, composed>>,
         NEW m, Registers(m) \/ Fail
  PROVE  LoadInv'
<1>1. Len(pipeline) \in Nat /\ DOMAIN pipeline = 1..Len(pipeline)
  BY ListedIsSeq DEF LoadInv
<1>2. /\ at' = at /\ k' = k /\ stage' \in {"registered", "failed"}
      /\ starts' \in {starts, Append(starts, at)}
      /\ hooks' \in {hooks, Append(hooks, at)}
  BY DEF Registers, Fail
<1>3. at \in Nat /\ at \in DOMAIN pipeline
  BY <1>1 DEF LoadInv
<1>4. /\ starts' \in Seq(Nat) /\ hooks' \in Seq(Nat)
      /\ \A i \in DOMAIN starts' : starts'[i] \in DOMAIN pipeline
      /\ \A i \in DOMAIN hooks' : hooks'[i] \in DOMAIN pipeline
  <2>1. ASSUME NEW s \in Seq(Nat), \A i \in DOMAIN s : s[i] \in DOMAIN pipeline,
               NEW t \in {s, Append(s, at)}
        PROVE  t \in Seq(Nat) /\ \A i \in DOMAIN t : t[i] \in DOMAIN pipeline
    <3>1. Append(s, at) \in Seq(Nat)
      BY <1>3
    <3>2. \A i \in DOMAIN Append(s, at) :
            (i \in DOMAIN s /\ Append(s, at)[i] = s[i]) \/ Append(s, at)[i] = at
      BY <1>3
    <3> QED  BY <1>3, <2>1, <3>1, <3>2
  <2> QED  BY <1>2, <2>1 DEF LoadInv, LoadTypeOK
<1> QED  BY <1>1, <1>2, <1>3, <1>4 DEF LoadInv, LoadTypeOK, Working

LEMMA LoadKeepsTypes ==
  ASSUME LoadInv, LoadNext
  PROVE  LoadInv'
<1>1. Len(pipeline) \in Nat /\ DOMAIN pipeline = 1..Len(pipeline)
  BY ListedIsSeq DEF LoadInv
<1>2. CASE Compose
  <2>1. Listed(pipeline') /\ Len(pipeline') = Len(pipeline)
    <3> DEFINE f == SortByPriority(pipeline)
    <3>1. f \in [1..Len(pipeline) -> {f[i] : i \in DOMAIN f}]
      BY <1>1 DEF SortByPriority
    <3>2. f \in Seq({f[i] : i \in DOMAIN f}) /\ Len(f) = Len(pipeline)
      BY <1>1, <3>1
    <3> QED  BY <1>2, <3>2 DEF Compose, Listed
  <2>2. stage = "configured" /\ stage' \in {"refused", "composed"} /\ composed' = Len(pipeline)
        /\ UNCHANGED <<at, k, starts, hooks>>
    BY <1>2 DEF Compose
  <2>3. Len(pipeline') \in Nat /\ DOMAIN pipeline' = 1..Len(pipeline')
    BY <2>1, ListedIsSeq
  <2> QED  BY <1>1, <2>1, <2>2, <2>3 DEF LoadInv, LoadTypeOK, Working
<1>3. CASE Use
  <2>1. PICK m \in Extras : pipeline' = Append(pipeline, m)
    BY <1>3 DEF Use
  <2>2. PICK S : m \in S /\ pipeline \in Seq(S)
    <3> DEFINE R == {pipeline[i] : i \in DOMAIN pipeline}
    <3>1. pipeline \in Seq(R \cup {m})
      BY SeqMonotonic DEF LoadInv, Listed
    <3> QED  BY <3>1
  <2>3. pipeline' \in Seq(S) /\ Len(pipeline') = Len(pipeline) + 1
    BY <2>1, <2>2
  <2>4. Listed(pipeline')
    BY <2>3, SeqIsListed
  <2>5. Len(pipeline') \in Nat /\ DOMAIN pipeline' = 1..Len(pipeline')
    BY <2>4, ListedIsSeq
  <2>6. stage = "composed" /\ UNCHANGED <<stage, composed, at, k, starts, hooks>>
    BY <1>3 DEF Use
  <2> QED  BY <1>1, <2>3, <2>4, <2>5, <2>6 DEF LoadInv, LoadTypeOK, Working
<1>4. CASE Bootstrap
  BY <1>1, <1>4 DEF Bootstrap, LoadInv, LoadTypeOK, Working
<1>5. CASE CheckImports
  BY <1>1, <1>5 DEF CheckImports, Fail, LoadInv, LoadTypeOK, Working
<1>6. CASE RegisterProvider
  BY <1>1, <1>6 DEF RegisterProvider, Fail, LoadInv, LoadTypeOK, Working
<1>7. CASE CallRegister
  <2>1. stage \in Working /\ UNCHANGED <<pipeline, composed>>
    BY <1>7 DEF CallRegister, Working
  <2>2. CASE Registers(M)
    BY <2>1, <2>2, RegistersKeepsTypes
  <2>3. CASE UNCHANGED <<at, k, starts, hooks>> /\ stage' \in {"exports", "awaiting"}
    BY <1>1, <2>1, <2>3 DEF LoadInv, LoadTypeOK, Working
  <2> QED  BY <1>7, <2>2, <2>3 DEF CallRegister
<1>8. CASE ResumeRegister
  BY <1>8, RegistersKeepsTypes DEF ResumeRegister, Working
<1>9. CASE CheckExports
  BY <1>1, <1>9 DEF CheckExports, Fail, LoadInv, LoadTypeOK, Working
<1>10. CASE SettlePending
  BY <1>1, <1>10 DEF SettlePending, LoadInv, LoadTypeOK, Working
<1> QED
  BY <1>2, <1>3, <1>4, <1>5, <1>6, <1>7, <1>8, <1>9, <1>10 DEF LoadNext

ServeTypes ==
  /\ server \in {"none", "lookup", "open", "draining", "shut"}
  /\ start \in 0..(Len(starts) + 1)
  /\ requests \in 0..MaxRequests
  /\ \A x \in Closers :
       /\ closing[x].left \in 0..Len(hooks)
       /\ closing[x].step = "none" => closing[x].left = 0
  /\ closed \subseteq {hooks[i] : i \in DOMAIN hooks}
  /\ stage \notin Running => start = 0

TypesInv == IInv /\ LoadInv /\ ServeTypes

LEMMA InitTypesInv == Init => TypesInv
<1> SUFFICES ASSUME Init PROVE TypesInv
  OBVIOUS
<1>1. IInv /\ LoadInv
  BY InitIInv, InitLoadInv DEF Init
<1> QED
  BY <1>1, LifecycleAssumption DEF Init, LoadInit, TypesInv, ServeTypes

LEMMA LoadKeepsServe ==
  ASSUME TypesInv, LoadInv', LoadNext, UNCHANGED serveVars
  PROVE  ServeTypes'
<1>1. /\ Len(hooks) \in Nat /\ Len(starts) \in Nat
      /\ Len(hooks') \in Nat /\ Len(starts') \in Nat
  BY DEF LoadInv, TypesInv
<1>2. CASE stage \in Running
  <2>1. hooks' = hooks /\ starts' = starts /\ stage' \in Running
    BY <1>2 DEF LoadNext, Compose, Use, Bootstrap, CheckImports, RegisterProvider,
                CallRegister, ResumeRegister, CheckExports, SettlePending, Running
  <2> QED  BY <2>1 DEF TypesInv, ServeTypes, serveVars
<1>3. CASE stage \notin Running
  <2>1. start = 0 /\ closed = {} /\ \A x \in Closers : closing[x].left = 0
    BY <1>3 DEF TypesInv, ServeTypes, IInv, CloseInv
  <2> QED  BY <1>1, <2>1 DEF TypesInv, ServeTypes, serveVars
<1> QED  BY <1>2, <1>3

(* Nothing that serves changes what was loaded.                            *)
LEMMA ServingKeepsLoaded ==
  ASSUME LoadInv, stage = "bootstrapped", stage' \in {"bootstrapped", "crashed"},
         UNCHANGED <<pipeline, composed, at, k, bound, pending, starts, hooks>>
  PROVE  LoadInv'
BY DEF LoadInv, LoadTypeOK, Working, Listed

LEMMA ServingKeepsTypes ==
  ASSUME TypesInv,
         \/ Listen \/ Bound \/ ListenFails \/ Ready \/ StartHook
         \/ \E c \in Connections : Connect(c) \/ Request(c) \/ Answer(c) \/ Disconnect(c)
  PROVE  LoadInv' /\ ServeTypes'
<1>1. /\ stage = "bootstrapped" /\ stage' \in {"bootstrapped", "crashed"}
      /\ UNCHANGED <<pipeline, composed, at, k, bound, pending, starts, hooks, closing, closed>>
  BY DEF Listen, Bound, ListenFails, Ready, StartHook, Connect, Request, Answer,
         Disconnect, Up, loadVars, serveVars
<1>2. LoadInv'
  BY <1>1, ServingKeepsLoaded DEF TypesInv
<1>3. Len(starts) \in Nat /\ requests \in 0..MaxRequests /\ MaxRequests \in Nat
  BY LifecycleAssumption DEF TypesInv, LoadInv, ServeTypes
<1>4. /\ server' \in {"none", "lookup", "open", "draining", "shut"}
      /\ start' \in 0..(Len(starts) + 1)
      /\ requests' \in 0..MaxRequests
  BY <1>3 DEF Listen, Bound, ListenFails, Ready, StartHook, Connect, Request, Answer,
              Disconnect, TypesInv, ServeTypes, serveVars
<1> QED  BY <1>1, <1>2, <1>4 DEF TypesInv, ServeTypes, Running

LEMMA ClosingKeepsTypes ==
  ASSUME TypesInv, NEW x \in Closers, Close(x) \/ Stopped(x) \/ ShutdownHook(x)
  PROVE  LoadInv' /\ ServeTypes'
<1>1. stage = "bootstrapped" /\ UNCHANGED <<loadVars, start, requests>>
  BY DEF Close, Stopped, ShutdownHook, Up
<1>2. LoadInv'
  BY <1>1, ServingKeepsLoaded DEF TypesInv, loadVars
<1>3. /\ Len(hooks) \in Nat /\ DOMAIN hooks = 1..Len(hooks)
      /\ closing \in [Closers -> [step : {"none", "stopping", "hook", "settled"},
                                  left : Nat, result : {"none", "fulfilled", "rejected"}]]
  BY DEF TypesInv, LoadInv, IInv, CloseInv
<1>4. \A y \in Closers \ {x} : closing'[y] = closing[y]
  BY <1>3 DEF Close, Stopped, ShutdownHook, RunHooks
<1>5. closing'[x].step # "none" /\ closing'[x].left \in 0..Len(hooks)
  <2>1. CASE Close(x) \/ Stopped(x)
    <3>1. /\ closing'[x].step # "none"
          /\ closing'[x].left \in {closing[x].left, Len(hooks)}
      BY <1>3, <2>1 DEF Close, Stopped, RunHooks
    <3> QED  BY <1>3, <3>1 DEF TypesInv, ServeTypes
  <2>2. CASE ShutdownHook(x)
    <3>1. closing[x].left \in DOMAIN hooks
      BY <2>2 DEF ShutdownHook, At, TypesInv, IInv, CloseInv
    <3>2. /\ closing'[x].step # "none"
          /\ closing'[x].left \in {closing[x].left, closing[x].left - 1}
      BY <1>3, <2>2 DEF ShutdownHook
    <3> QED  BY <1>3, <3>1, <3>2
  <2> QED  BY <2>1, <2>2
<1>6. \A y \in Closers :
        /\ closing'[y].left \in 0..Len(hooks)
        /\ closing'[y].step = "none" => closing'[y].left = 0
  BY <1>4, <1>5 DEF TypesInv, ServeTypes
<1>7. closed' \subseteq {hooks[i] : i \in DOMAIN hooks}
  <2>1. closed' = closed \/ (At(x, "hook") /\ closed' = closed \cup {hooks[closing[x].left]})
    BY DEF Close, Stopped, ShutdownHook
  <2>2. At(x, "hook") => closing[x].left \in DOMAIN hooks
    BY DEF TypesInv, IInv, CloseInv, At
  <2> QED  BY <2>1, <2>2 DEF TypesInv, ServeTypes
<1>8. server' \in {"none", "lookup", "open", "draining", "shut"}
  BY DEF Close, Stopped, ShutdownHook, TypesInv, ServeTypes
<1> QED  BY <1>1, <1>2, <1>6, <1>7, <1>8 DEF TypesInv, ServeTypes, loadVars, Running

LEMMA StepTypesInv == TypesInv /\ [Next]_vars => TypesInv'
<1> SUFFICES ASSUME TypesInv, [Next]_vars PROVE TypesInv'
  OBVIOUS
<1>1. IInv'
  BY StepIInv DEF TypesInv
<1>2. CASE LoadNext /\ UNCHANGED serveVars
  BY <1>1, <1>2, LoadKeepsTypes, LoadKeepsServe DEF TypesInv
<1>3. CASE \/ Listen \/ Bound \/ ListenFails \/ Ready \/ StartHook
           \/ \E c \in Connections : Connect(c) \/ Request(c) \/ Answer(c) \/ Disconnect(c)
  BY <1>1, <1>3, ServingKeepsTypes DEF TypesInv
<1>4. CASE \E x \in Closers : Close(x) \/ Stopped(x) \/ ShutdownHook(x)
  BY <1>1, <1>4, ClosingKeepsTypes DEF TypesInv
<1>5. CASE UNCHANGED vars
  BY <1>1, <1>5 DEF vars, loadVars, serveVars, TypesInv, LoadInv, LoadTypeOK, ServeTypes,
                    Working, Listed, Running
<1> QED  BY <1>2, <1>3, <1>4, <1>5 DEF Next

(* The application and its server are of their types: the loader's indices *)
(* stay within the list of modules, and the hooks' within the hooks.       *)
THEOREM LifecycleTypes == Spec => []TypeOK
<1>1. TypesInv => TypeOK
  <2> SUFFICES ASSUME TypesInv PROVE TypeOK
    OBVIOUS
  <2>1. closing \in [Closers -> [step : {"none", "stopping", "hook", "settled"},
                                 left : 0..Len(hooks),
                                 result : {"none", "fulfilled", "rejected"}]]
    BY DEF TypesInv, ServeTypes, IInv, CloseInv
  <2> QED  BY <2>1 DEF TypesInv, LoadInv, ServeTypes, IInv, CloseInv, TypeOK
<1> QED  BY <1>1, InitTypesInv, StepTypesInv, PTL DEF Spec

-----------------------------------------------------------------------------
(* The composer's order.                                                   *)

Below(s, j) == {i \in DOMAIN s : Before(s, i, j)}

LEMMA RankOrders ==
  ASSUME NEW s, NEW n \in Nat, DOMAIN s = 1..n, \A i \in 1..n : s[i].prio \in Int
  PROVE  /\ \A i \in 1..n : Rank(s, i) \in 1..n
         /\ \A i, j \in 1..n : i # j /\ Before(s, i, j) => Rank(s, i) < Rank(s, j)
<1>1. IsFiniteSet(1..n) /\ Cardinality(1..n) = n
  BY FS_Interval
<1>2. \A i \in 1..n : /\ Below(s, i) \in SUBSET (1..n)
                      /\ IsFiniteSet(Below(s, i))
                      /\ Rank(s, i) = Cardinality(Below(s, i))
                      /\ Rank(s, i) \in 0..n
                      /\ i \in Below(s, i)
  <2> TAKE i \in 1..n
  <2>1. Below(s, i) \in SUBSET (1..n) /\ Rank(s, i) = Cardinality(Below(s, i))
    BY DEF Below, Rank
  <2>2. IsFiniteSet(Below(s, i)) /\ Cardinality(Below(s, i)) <= n
    BY <1>1, <2>1, FS_Subset
  <2>3. Cardinality(Below(s, i)) \in Nat
    BY <2>2, FS_CardinalityType
  <2>4. i \in Below(s, i)
    BY DEF Below, Before
  <2> QED  BY <2>1, <2>2, <2>3, <2>4
<1>3. ASSUME NEW i \in 1..n PROVE Rank(s, i) \in 1..n
  <2>1. Cardinality(Below(s, i)) # 0
    BY <1>2, FS_EmptySet
  <2> QED  BY <1>2, <2>1
<1>4. ASSUME NEW i \in 1..n, NEW j \in 1..n, i # j, Before(s, i, j)
      PROVE  Rank(s, i) < Rank(s, j)
  <2>1. Below(s, i) \subseteq Below(s, j)
    BY <1>4 DEF Below, Before
  <2>2. j \notin Below(s, i)
    BY <1>4 DEF Below, Before
  <2>3. Below(s, i) # Below(s, j)
    BY <1>2, <2>2
  <2>4. Rank(s, i) <= Rank(s, j) /\ Rank(s, i) # Rank(s, j)
    BY <1>2, <2>1, <2>3, FS_Subset
  <2> QED  BY <1>2, <2>4
<1> QED  BY <1>3, <1>4

(* sortByPriority() lists every module once, in the order of priorities,   *)
(* and modules of one priority as they were listed.                        *)
THEOREM SortIsStable ==
  ASSUME NEW s, NEW n \in Nat, DOMAIN s = 1..n, \A i \in 1..n : s[i].prio \in Int
  PROVE  \E p \in [1..n -> 1..n] :
           /\ SortByPriority(s) = [a \in 1..n |-> s[p[a]]]
           /\ \A i \in 1..n : \E a \in 1..n : p[a] = i
           /\ \A a, b \in 1..n : a < b =>
                \/ s[p[a]].prio < s[p[b]].prio
                \/ s[p[a]].prio = s[p[b]].prio /\ p[a] < p[b]
<1> DEFINE rank == [i \in 1..n |-> Rank(s, i)]
           p == [a \in 1..n |-> CHOOSE i \in 1..n : Rank(s, i) = a]
<1>1. /\ \A i \in 1..n : Rank(s, i) \in 1..n
      /\ \A i, j \in 1..n : i # j /\ Before(s, i, j) => Rank(s, i) < Rank(s, j)
  BY RankOrders
<1>2. \A i, j \in 1..n : Before(s, i, j) \/ Before(s, j, i)
  BY DEF Before
<1>3. \A i, j \in 1..n : i # j => Rank(s, i) # Rank(s, j)
  BY <1>1, <1>2
<1>4. rank \in Injection(1..n, 1..n)
  BY <1>1, <1>3 DEF Injection, IsInjective
<1>5. IsFiniteSet(1..n)
  BY FS_Interval
<1>6. rank \in Surjection(1..n, 1..n)
  BY <1>4, <1>5, FS_Injection
<1>7. \A a \in 1..n : \E i \in 1..n : Rank(s, i) = a
  BY <1>6 DEF Surjection
<1>8. \A a \in 1..n : p[a] \in 1..n /\ Rank(s, p[a]) = a
  BY <1>7
<1>9. SortByPriority(s) = [a \in 1..n |-> s[p[a]]]
  BY DEF SortByPriority
<1> HIDE DEF p, rank
<1>10. p \in [1..n -> 1..n]
  BY <1>8 DEF p
<1>11. ASSUME NEW i \in 1..n PROVE \E a \in 1..n : p[a] = i
  BY <1>1, <1>3, <1>8
<1>12. ASSUME NEW a \in 1..n, NEW b \in 1..n, a < b
       PROVE  \/ s[p[a]].prio < s[p[b]].prio
              \/ s[p[a]].prio = s[p[b]].prio /\ p[a] < p[b]
  <2>0. /\ p[a] \in 1..n /\ p[b] \in 1..n
        /\ Rank(s, p[a]) < Rank(s, p[b]) /\ ~ (Rank(s, p[b]) < Rank(s, p[a]))
    BY <1>8, <1>12
  <2>1. p[a] # p[b] /\ ~ Before(s, p[b], p[a])
    BY <1>1, <2>0
  <2>2. Before(s, p[a], p[b])
    BY <1>2, <1>8, <2>1
  <2> QED  BY <1>8, <2>1, <2>2 DEF Before
<1> QED  BY <1>9, <1>10, <1>11, <1>12

-----------------------------------------------------------------------------
(* What is bound when the loader comes to a module.                        *)

Provided(m, n, tokens) ==
  m.providers[n][2] \in {"once", "again"} => m.providers[n][1] \in tokens

(* The composed modules are in the order of their priorities, those before *)
(* the current one have bound all that they supply, and the current one    *)
(* has bound what it got to.                                               *)
SupplyInv ==
  /\ \A i \in DOMAIN pipeline : IsModule(pipeline[i])
  /\ \A i, j \in 1..composed : i < j => pipeline[i].prio <= pipeline[j].prio
  /\ stage \in {"imports", "providers", "awaiting", "registered", "exports"} =>
       \A i \in 1..(at - 1) : Supplies(pipeline[i]) \subseteq bound
  /\ stage = "providers" => \A n \in DOMAIN M.providers : n < k => Provided(M, n, bound)
  /\ stage \in {"awaiting", "registered", "exports"} =>
       \A n \in DOMAIN M.providers : Provided(M, n, bound)
  /\ stage \in {"registered", "exports"} => M.binds \cup M.ensures \subseteq bound

LEMMA BuiltInIsModule ==
  ASSUME NEW db \in BOOLEAN, NEW i \in 1..6
  PROVE  IsModule(BuiltIn(db)[i])
<1> DEFINE Provides(m) == \/ m.providers = <<>>
                          \/ \E token : m.providers = <<Provide(token, "once")>>
<1>1. ASSUME NEW m, DOMAIN m = DOMAIN Plain, m.prio \in Int, m.registers, Provides(m)
      PROVE  IsModule(m)
  <2>1. ASSUME NEW x PROVE <<>> \in Seq({x}) /\ <<x>> \in Seq({x})
    OBVIOUS
  <2>2. Listed(m.providers)
    <3>1. CASE m.providers = <<>>
      BY <2>1, <3>1, SeqIsListed
    <3>2. CASE \E token : m.providers = <<Provide(token, "once")>>
      BY <2>1, <3>2, SeqIsListed
    <3> QED  BY <1>1, <3>1, <3>2
  <2> QED  BY <1>1, <2>2 DEF IsModule, Listed
<1>2. IsModule(LifecycleModule)
  <2>1. DOMAIN LifecycleModule = DOMAIN Plain
    BY DEF LifecycleModule
  <2>2. LifecycleModule.prio \in Int /\ LifecycleModule.registers /\ Provides(LifecycleModule)
    BY DEF LifecycleModule, Plain
  <2> QED  BY <1>1, <2>1, <2>2
<1>3. IsModule(DatabaseModule(db))
  <2>1. DOMAIN DatabaseModule(db) = DOMAIN Plain
    BY DEF DatabaseModule
  <2>2. DatabaseModule(db).prio \in Int /\ DatabaseModule(db).registers /\ Provides(DatabaseModule(db))
    BY DEF DatabaseModule, Plain
  <2> QED  BY <1>1, <2>1, <2>2
<1>4. IsModule(ModelModule)
  <2>1. DOMAIN ModelModule = DOMAIN Plain
    BY DEF ModelModule
  <2>2. ModelModule.prio \in Int /\ ModelModule.registers /\ Provides(ModelModule)
    BY DEF ModelModule, Plain
  <2> QED  BY <1>1, <2>1, <2>2
<1>5. IsModule(MiddlewareModule)
  <2>1. DOMAIN MiddlewareModule = DOMAIN Plain
    BY DEF MiddlewareModule
  <2>2. MiddlewareModule.prio \in Int /\ MiddlewareModule.registers /\ Provides(MiddlewareModule)
    BY DEF MiddlewareModule, Plain
  <2> QED  BY <1>1, <2>1, <2>2
<1>6. IsModule(ControllerModule)
  <2>1. DOMAIN ControllerModule = DOMAIN Plain
    BY DEF ControllerModule
  <2>2. ControllerModule.prio \in Int /\ ControllerModule.registers /\ Provides(ControllerModule)
    BY DEF ControllerModule, Plain
  <2> QED  BY <1>1, <2>1, <2>2
<1>7. IsModule(ServerModule)
  <2>1. DOMAIN ServerModule = DOMAIN Plain
    BY DEF ServerModule
  <2>2. ServerModule.prio \in Int /\ ServerModule.registers /\ Provides(ServerModule)
    BY DEF ServerModule, Plain
  <2> QED  BY <1>1, <2>1, <2>2
<1>8. BuiltIn(db)[i] \in {LifecycleModule, DatabaseModule(db), ModelModule, MiddlewareModule,
                         ControllerModule, ServerModule}
  BY DEF BuiltIn
<1> QED  BY <1>2, <1>3, <1>4, <1>5, <1>6, <1>7, <1>8

LEMMA InitSupplyInv == LoadInit => SupplyInv
<1> SUFFICES ASSUME LoadInit PROVE SupplyInv
  OBVIOUS
<1>1. PICK c \in Configs, db \in BOOLEAN : pipeline = BuiltIn(db) \o c
  BY DEF LoadInit
<1>2. Len(BuiltIn(db)) = 6
  BY DEF BuiltIn
<1>3. ASSUME NEW i \in DOMAIN pipeline PROVE IsModule(pipeline[i])
  <2>0. PICK S : BuiltIn(db) \in Seq(S) /\ c \in Seq(S)
    BY ConfiguredLists
  <2>4. /\ pipeline \in Seq(S) /\ Len(pipeline) = 6 + Len(c)
        /\ \A j \in 1..(6 + Len(c)) : pipeline[j] = IF j <= 6 THEN BuiltIn(db)[j] ELSE c[j - 6]
    <3>1. /\ pipeline \in Seq(S) /\ Len(pipeline) = Len(BuiltIn(db)) + Len(c)
          /\ \A j \in 1..(Len(BuiltIn(db)) + Len(c)) :
               pipeline[j] = IF j <= Len(BuiltIn(db)) THEN BuiltIn(db)[j] ELSE c[j - Len(BuiltIn(db))]
      BY <1>1, <2>0, ConcatProperties
    <3> QED  BY <1>2, <3>1
  <2>1. /\ Len(c) \in Nat /\ DOMAIN c = 1..Len(c) /\ i \in 1..(6 + Len(c))
        /\ pipeline[i] = IF i <= 6 THEN BuiltIn(db)[i] ELSE c[i - 6]
    BY <2>0, <2>4
  <2>2. CASE i <= 6
    BY <2>1, <2>2, BuiltInIsModule
  <2>3. CASE ~ (i <= 6)
    <3>1. pipeline[i] = c[i - 6] /\ i - 6 \in DOMAIN c
      BY <2>1, <2>3
    <3> QED  BY <3>1, LoadingAssumption
  <2> QED  BY <2>2, <2>3
<1> QED  BY <1>3 DEF LoadInit, SupplyInv

(* What is bound stays bound.                                              *)
LEMMA BoundGrows == LoadNext => bound \subseteq bound'
BY DEF LoadNext, Compose, Use, Bootstrap, CheckImports, RegisterProvider, CallRegister,
       ResumeRegister, CheckExports, SettlePending, Registers, Fail, Bind, ToFactory

LEMMA RegistersSupplies ==
  ASSUME LoadInv, SupplyInv, bound \subseteq bound', UNCHANGED <<pipeline, composed>>,
         stage \in {"providers", "awaiting"},
         \A n \in DOMAIN M.providers : Provided(M, n, bound), Registers(M) \/ Fail
  PROVE  SupplyInv'
<1>1. /\ at' = at /\ stage' \in {"registered", "failed"} /\ M' = M
      /\ stage' = "registered" => M.binds \cup M.ensures \subseteq bound'
  BY DEF Registers, Fail, M
<1>2. \A i \in DOMAIN pipeline' : IsModule(pipeline'[i])
  BY DEF SupplyInv
<1>3. \A n \in DOMAIN M.providers : Provided(M', n, bound')
  BY <1>1 DEF Provided
<1>4. \A i \in 1..(at - 1) : Supplies(pipeline[i]) \subseteq bound'
  BY DEF SupplyInv
<1> QED  BY <1>1, <1>2, <1>3, <1>4 DEF SupplyInv, Provided, Supplies

LEMMA LoadKeepsSupply ==
  ASSUME LoadInv, SupplyInv, LoadNext
  PROVE  SupplyInv'
<1>1. Len(pipeline) \in Nat /\ DOMAIN pipeline = 1..Len(pipeline)
  BY ListedIsSeq DEF LoadInv
<1>2. bound \subseteq bound'
  BY BoundGrows
<1>3. CASE Compose
  <2> DEFINE n == Len(pipeline)
  <2>1. \A i \in 1..n : pipeline[i].prio \in Int
    BY <1>1 DEF SupplyInv, IsModule
  <2>2. PICK p \in [1..n -> 1..n] :
          /\ SortByPriority(pipeline) = [a \in 1..n |-> pipeline[p[a]]]
          /\ \A i \in 1..n : \E a \in 1..n : p[a] = i
          /\ \A a, b \in 1..n : a < b =>
               \/ pipeline[p[a]].prio < pipeline[p[b]].prio
               \/ pipeline[p[a]].prio = pipeline[p[b]].prio /\ p[a] < p[b]
    BY <1>1, <2>1, SortIsStable
  <2>3. /\ pipeline' = [a \in 1..n |-> pipeline[p[a]]] /\ composed' = n
        /\ stage' \in {"refused", "composed"}
    BY <1>3, <2>2 DEF Compose
  <2>4. \A i \in DOMAIN pipeline' : IsModule(pipeline'[i])
    BY <1>1, <2>3 DEF SupplyInv
  <2>5. ASSUME NEW i \in 1..composed', NEW j \in 1..composed', i < j
        PROVE  pipeline'[i].prio <= pipeline'[j].prio
    <3>1. i \in 1..n /\ j \in 1..n /\ p[i] \in 1..n /\ p[j] \in 1..n
      BY <2>3
    <3>2. pipeline'[i] = pipeline[p[i]] /\ pipeline'[j] = pipeline[p[j]]
      BY <2>3, <3>1
    <3>3. /\ pipeline[p[i]].prio \in Int /\ pipeline[p[j]].prio \in Int
          /\ \/ pipeline[p[i]].prio < pipeline[p[j]].prio
             \/ pipeline[p[i]].prio = pipeline[p[j]].prio
      BY <2>1, <2>2, <2>5, <3>1
    <3> QED  BY <3>2, <3>3
  <2> HIDE DEF n
  <2> QED  BY <2>3, <2>4, <2>5 DEF SupplyInv
<1>4. CASE Use
  <2>1. PICK m \in Extras : pipeline' = Append(pipeline, m)
    BY <1>4 DEF Use
  <2>2. \A i \in DOMAIN pipeline' :
          \/ i \in DOMAIN pipeline /\ pipeline'[i] = pipeline[i]
          \/ pipeline'[i] = m
    BY <1>1, <2>1 DEF LoadInv, Listed
  <2>3. \A i \in DOMAIN pipeline : pipeline'[i] = pipeline[i]
    BY <1>1, <2>1 DEF LoadInv, Listed
  <2>4. IsModule(m)
    BY LoadingAssumption DEF IsModule
  <2>5. \A i \in DOMAIN pipeline' : IsModule(pipeline'[i])
    BY <2>2, <2>4 DEF SupplyInv
  <2>6. stage' = "composed" /\ composed' = composed /\ 1..composed \subseteq DOMAIN pipeline
    BY <1>1, <1>4 DEF Use, LoadInv, LoadTypeOK
  <2>7. \A i, j \in 1..composed : i < j => pipeline'[i].prio <= pipeline'[j].prio
    BY <2>3, <2>6 DEF SupplyInv
  <2> QED  BY <2>5, <2>6, <2>7 DEF SupplyInv
<1>5. CASE \/ Bootstrap \/ CheckImports \/ RegisterProvider \/ CallRegister
           \/ ResumeRegister \/ CheckExports \/ SettlePending
  <2>1. UNCHANGED <<pipeline, composed>>
    BY <1>5 DEF Bootstrap, CheckImports, RegisterProvider, CallRegister, ResumeRegister,
                CheckExports, SettlePending
  <2>2. /\ \A i \in DOMAIN pipeline' : IsModule(pipeline'[i])
        /\ \A i, j \in 1..composed' : i < j => pipeline'[i].prio <= pipeline'[j].prio
    BY <2>1 DEF SupplyInv
  <2>3. ASSUME NEW m, NEW n, Provided(m, n, bound) PROVE Provided(m, n, bound')
    BY <1>2, <2>3 DEF Provided
  <2>4. at \in Nat \ {0}
    BY <1>1 DEF LoadInv, LoadTypeOK
  <2>5. \A i : Supplies(pipeline'[i]) = Supplies(pipeline[i])
    BY <2>1 DEF Supplies
  <2> DEFINE Past(b) == \A i \in 1..(b - 1) : Supplies(pipeline[i]) \subseteq bound'
             Fine ==
               /\ stage' \in {"imports", "providers", "awaiting", "registered", "exports"} => Past(at')
               /\ stage' = "providers" => \A n \in DOMAIN M'.providers : n < k' => Provided(M', n, bound')
               /\ stage' \in {"awaiting", "registered", "exports"} =>
                    \A n \in DOMAIN M'.providers : Provided(M', n, bound')
               /\ stage' \in {"registered", "exports"} => M'.binds \cup M'.ensures \subseteq bound'
  <2>6. SUFFICES Fine
    BY <2>1, <2>2 DEF SupplyInv, Supplies
  <2>7. CASE Bootstrap
    <3>1. at' = 1 /\ stage' = "imports"
      BY <2>7 DEF Bootstrap, LoadInv
    <3> QED  BY <3>1
  <2>8. CASE CheckImports
    <3>1. stage = "imports" /\ at' = at /\ stage' \in {"bootstrapped", "providers", "failed"}
      BY <2>8 DEF CheckImports, Fail
    <3>2. Past(at)
      BY <1>2, <3>1 DEF SupplyInv
    <3>3. stage' = "providers" => k' = 1 /\ at \in DOMAIN pipeline
      BY <1>1, <2>4, <2>8 DEF CheckImports, Fail
    <3>4. stage' = "providers" => IsModule(M) /\ M' = M
      BY <2>1, <3>1, <3>3 DEF SupplyInv, M
    <3>5. stage' = "providers" => \A n \in DOMAIN M.providers : n \in Nat /\ n >= 1
      BY <3>4 DEF IsModule
    <3>6. stage' = "providers" => \A n \in DOMAIN M'.providers : ~(n < k')
      BY <3>3, <3>4, <3>5
    <3> QED  BY <3>1, <3>2, <3>6
  <2>9. CASE RegisterProvider
    <3>1. /\ stage = "providers" /\ k <= Len(M.providers) /\ at' = at /\ M' = M
          /\ stage' \in {"providers", "failed"}
      BY <2>1, <2>9 DEF RegisterProvider, Fail, M
    <3>2. Past(at)
      BY <1>2, <3>1 DEF SupplyInv
    <3>3. IsModule(M)
      BY <1>1, <3>1 DEF SupplyInv, LoadInv, Working, M
    <3>4. \A n \in DOMAIN M.providers : n \in Nat
      BY <3>3 DEF IsModule
    <3>5. \A n \in DOMAIN M.providers : n < k => Provided(M', n, bound')
      BY <2>3, <3>1 DEF SupplyInv
    <3>6. stage' = "providers" => k' = k + 1 /\ Provided(M', k, bound')
      <4>1. stage' = "providers" =>
              /\ k' = k + 1
              /\ M.providers[k][2] \in {"once", "again"} => M.providers[k][1] \in bound'
        BY <2>9, <3>1 DEF RegisterProvider, Fail, Bind, ToFactory
      <4> QED  BY <3>1, <4>1 DEF Provided
    <3>7. k \in Nat
      BY DEF LoadInv, LoadTypeOK
    <3>8. stage' = "providers" => \A n \in DOMAIN M.providers : n < k' => Provided(M', n, bound')
      <4> SUFFICES ASSUME stage' = "providers", NEW n \in DOMAIN M.providers, n < k'
                   PROVE  Provided(M', n, bound')
        OBVIOUS
      <4>1. n < k \/ n = k
        BY <3>4, <3>6, <3>7
      <4> QED  BY <3>5, <3>6, <4>1
    <3> QED  BY <3>1, <3>2, <3>8
  <2>10. CASE CallRegister
    <3>1. stage = "providers" /\ k > Len(M.providers) /\ k \in Nat
      BY <2>10 DEF CallRegister, LoadInv, LoadTypeOK
    <3>2. IsModule(M)
      BY <1>1, <3>1 DEF SupplyInv, LoadInv, Working, M
    <3>3. \A n \in DOMAIN M.providers : n < k
      BY <3>1, <3>2 DEF IsModule
    <3>4. \A n \in DOMAIN M.providers : Provided(M, n, bound)
      BY <3>1, <3>3 DEF SupplyInv
    <3>5. CASE Registers(M)
      BY <1>2, <2>1, <3>1, <3>4, <3>5, RegistersSupplies DEF SupplyInv, Supplies, Provided
    <3>6. CASE /\ stage' = "awaiting" \/ (stage' = "exports" /\ ~M.registers)
               /\ at' = at
      <4>1. M' = M
        BY <2>1, <3>6 DEF M
      <4>2. Past(at)
        BY <1>2, <3>1 DEF SupplyInv
      <4>3. \A n \in DOMAIN M'.providers : Provided(M', n, bound')
        BY <2>3, <3>4, <4>1
      <4>4. stage' = "exports" => M'.binds \cup M'.ensures = {}
        BY <3>2, <3>6, <4>1 DEF IsModule
      <4> QED  BY <3>6, <4>2, <4>3, <4>4
    <3> QED  BY <2>10, <3>5, <3>6 DEF CallRegister
  <2>11. CASE ResumeRegister
    <3>1. stage = "awaiting" /\ (Registers(M) \/ Fail)
      BY <2>11 DEF ResumeRegister
    <3>2. SupplyInv'
      BY <1>2, <2>1, <3>1, RegistersSupplies DEF SupplyInv
    <3> QED  BY <2>1, <3>2 DEF SupplyInv, Supplies
  <2>12. CASE CheckExports
    <3>1. stage' \in {"imports", "failed"} /\ stage \in {"exports", "registered"}
      BY <2>12 DEF CheckExports, Fail
    <3>2. stage' = "imports" => at' = at + 1
      BY <2>12 DEF CheckExports, Fail
    <3>3. Past(at)
      BY <1>2, <3>1 DEF SupplyInv
    <3>4. Supplies(M) \subseteq bound
      BY <3>1 DEF SupplyInv, Supplies, Provided
    <3>5. stage' = "imports" => Past(at')
      <4> SUFFICES ASSUME stage' = "imports", NEW i \in 1..(at' - 1)
                   PROVE  Supplies(pipeline[i]) \subseteq bound'
        OBVIOUS
      <4>1. i \in 1..(at - 1) \/ i = at
        BY <2>4, <3>2
      <4> QED  BY <1>2, <3>3, <3>4, <4>1 DEF M
    <3> QED  BY <3>1, <3>5
  <2>13. CASE SettlePending
    <3>1. at' = at /\ k' = k /\ M' = M /\ stage' \in {stage, "crashed"}
      BY <2>13 DEF SettlePending, M
    <3>2. stage \in {"awaiting", "registered"} => Past(at)
      BY <1>2 DEF SupplyInv
    <3>3. stage \in {"awaiting", "registered"} => \A n \in DOMAIN M.providers : Provided(M', n, bound')
      BY <1>2, <3>1 DEF SupplyInv, Provided
    <3>4. stage \in {"awaiting", "registered", "bootstrapped", "failed"}
      BY <2>13 DEF SettlePending
    <3> QED  BY <1>2, <3>1, <3>2, <3>3, <3>4 DEF SupplyInv
  <2> QED  BY <1>5, <2>7, <2>8, <2>9, <2>10, <2>11, <2>12, <2>13
<1> QED  BY <1>3, <1>4, <1>5 DEF LoadNext

LEMMA StepSupplyInv == TypesInv /\ SupplyInv /\ [Next]_vars => SupplyInv'
<1> SUFFICES ASSUME TypesInv, SupplyInv, [Next]_vars PROVE SupplyInv'
  OBVIOUS
<1>1. CASE LoadNext
  BY <1>1, LoadKeepsSupply DEF TypesInv
<1>2. ASSUME UNCHANGED <<pipeline, composed, at, k, bound>>,
             stage' = stage \/ stage' \in {"bootstrapped", "crashed"}
      PROVE  SupplyInv'
  BY <1>2 DEF SupplyInv, M, Supplies, Provided
<1>3. CASE \/ Listen \/ Bound \/ ListenFails \/ Ready \/ StartHook
           \/ \E c \in Connections : Connect(c) \/ Request(c) \/ Answer(c) \/ Disconnect(c)
           \/ \E x \in Closers : Close(x) \/ Stopped(x) \/ ShutdownHook(x)
           \/ UNCHANGED vars
  BY <1>2, <1>3 DEF Listen, Bound, ListenFails, Ready, StartHook, Connect, Request, Answer,
                    Disconnect, Close, Stopped, ShutdownHook, vars, loadVars
<1> QED  BY <1>1, <1>3 DEF Next

(* The step at which an import is missed: every composed module of lower   *)
(* priority has been loaded before, and what it supplies is bound.         *)
LEMMA MissedImport ==
  ASSUME TypesInv, SupplyInv, [Next]_vars, stage = "imports", stage' = "failed"
  PROVE  \E token \in M.imports \ bound : \A i \in 1..composed :
           pipeline[i].prio < M.prio => token \notin Supplies(pipeline[i])
<1>1. CheckImports /\ Fail
  BY DEF Next, vars, loadVars, LoadNext, Compose, Use, Bootstrap, CheckImports,
         RegisterProvider, CallRegister, ResumeRegister, CheckExports, SettlePending,
         Listen, Bound, ListenFails, Ready, StartHook, Connect, Request, Answer,
         Disconnect, Close, Stopped, ShutdownHook, Up
<1>2. at <= Len(pipeline) /\ ~ (M.imports \subseteq bound)
  BY <1>1 DEF CheckImports, Fail
<1>3. PICK token \in M.imports : token \notin bound
  BY <1>2
<1>4. /\ Len(pipeline) \in Nat /\ DOMAIN pipeline = 1..Len(pipeline)
      /\ at \in Nat \ {0} /\ composed \in Nat /\ composed <= Len(pipeline)
  BY ListedIsSeq DEF TypesInv, LoadInv, LoadTypeOK
<1>5. ASSUME NEW i \in 1..composed, pipeline[i].prio < M.prio
      PROVE  token \notin Supplies(pipeline[i])
  <2>1. pipeline[i].prio \in Int /\ M.prio \in Int
    <3>1. i \in DOMAIN pipeline /\ at \in DOMAIN pipeline
      BY <1>2, <1>4
    <3>2. IsModule(pipeline[i]) /\ IsModule(pipeline[at])
      BY <3>1 DEF SupplyInv
    <3> QED  BY <3>2 DEF IsModule, M
  <2>2. CASE i < at
    <3>1. Supplies(pipeline[i]) \subseteq bound
      BY <1>4, <2>2 DEF SupplyInv
    <3> QED  BY <1>3, <3>1
  <2>3. CASE i = at
    BY <1>5, <2>1, <2>3 DEF M
  <2>4. CASE at < i
    <3>1. at \in 1..composed
      BY <1>4, <2>4
    <3>2. M.prio <= pipeline[i].prio
      BY <2>4, <3>1 DEF SupplyInv, M
    <3> QED  BY <1>5, <2>1, <3>2
  <2> QED  BY <1>4, <2>2, <2>3, <2>4
<1> QED  BY <1>3, <1>5

(* RuntimeComposer's order is one in which ModuleLoader finds what any     *)
(* module of lower priority supplies, for every list of modules, however   *)
(* their registrations wait and whatever use() adds behind them.           *)
THEOREM ImportsAreFound == Spec => MissingImportIsMissing
<1>1. Init => TypesInv /\ SupplyInv
  BY InitTypesInv, InitSupplyInv DEF Init
<1>2. TypesInv /\ SupplyInv /\ [Next]_vars => (TypesInv /\ SupplyInv)'
  BY StepTypesInv, StepSupplyInv
<1>3. TypesInv /\ SupplyInv /\ [Next]_vars =>
        [stage = "imports" /\ stage' = "failed" =>
           \E token \in M.imports \ bound : \A i \in 1..composed :
             pipeline[i].prio < M.prio => token \notin Supplies(pipeline[i])]_loadVars
  BY MissedImport
<1> QED  BY <1>1, <1>2, <1>3, PTL DEF Spec, MissingImportIsMissing

-----------------------------------------------------------------------------
(* The container.  A recursive function is known by the equation that      *)
(* defines it: that GetAll, and the walk() of a graph, have one is proved  *)
(* first.  What they compute is proved by a least counterexample, in place *)
(* of an induction.                                                        *)
USE ContainerAssumption

(* A nonempty set of naturals has a least element.                         *)
LEMMA LeastNatural ==
  ASSUME NEW S \in SUBSET Nat, S # {}
  PROVE  \E m \in S : \A n \in S : m <= n
<1>1. PICK m \in S : \A n \in S : ~ (<<n, m>> \in OpToRel(<, Nat))
  BY NatLessThanWellFounded, WFMin
<1>2. \A n \in S : ~ (n < m)
  BY <1>1 DEF OpToRel
<1> QED  BY <1>2

-----------------------------------------------------------------------------
(* The recursive definition of GetAll has a solution: its values up to n   *)
(* exist for every n, and two such solutions agree.                        *)
Solves(n, g) ==
  g[0] = Exhausted /\ \A i \in 1..n : g[i] = Resolve(g[i - 1])

LEMMA SolutionsExist ==
  ASSUME NEW n \in Nat
  PROVE  \E g : Solves(n, g)
<1>. DEFINE bad == {m \in Nat : ~ \E g : Solves(m, g)}
<1>1. ASSUME bad # {} PROVE FALSE
  <2>1. PICK m \in bad : \A i \in bad : m <= i
    <3>1. bad \in SUBSET Nat  OBVIOUS
    <3>. HIDE DEF bad
    <3> QED  BY <1>1, <3>1, LeastNatural
  <2>2. m \in Nat /\ ~ \E g : Solves(m, g)  OBVIOUS
  <2>3. CASE m = 0
    <3>. DEFINE g == [i \in {0} |-> Exhausted]
    <3>1. g[0] = Exhausted  OBVIOUS
    <3>2. Solves(0, g)
      <4>. HIDE DEF g
      <4> QED  BY <3>1 DEF Solves
    <3> QED  BY <2>2, <2>3, <3>2
  <2>4. CASE m # 0
    <3>1. m - 1 \in Nat /\ m - 1 \notin bad
      <4>1. m - 1 \in Nat /\ ~ (m <= m - 1)  BY <2>2, <2>4
      <4>. HIDE DEF bad
      <4> QED  BY <2>1, <4>1
    <3>2. PICK g : Solves(m - 1, g)  BY <3>1
    <3>. DEFINE next == Resolve(g[m - 1])
                h == [i \in 0..m |-> IF i = m THEN next ELSE g[i]]
    <3>3. h[0] = Exhausted
      <4>1. h[0] = g[0]
        <5>. HIDE DEF next
        <5> QED  BY <2>2, <2>4
      <4> QED  BY <3>2, <4>1 DEF Solves
    <3>4. ASSUME NEW i \in 1..m PROVE h[i] = Resolve(h[i - 1])
      <4>. HIDE DEF next
      <4>1. h[i - 1] = g[i - 1]  BY <2>2
      <4>2. h[i] = IF i = m THEN next ELSE g[i]  BY <2>2
      <4>3. CASE i = m  BY <4>1, <4>2, <4>3 DEF next
      <4>4. CASE i # m
        <5>1. i \in 1..(m - 1)  BY <2>2, <4>4
        <5>2. g[i] = Resolve(g[i - 1])  BY <3>2, <5>1 DEF Solves
        <5>. HIDE DEF h
        <5> QED  BY <4>1, <4>2, <4>4, <5>2
      <4> QED  BY <4>3, <4>4
    <3>5. Solves(m, h)
      <4>. HIDE DEF h
      <4> QED  BY <3>3, <3>4 DEF Solves
    <3>. HIDE DEF h
    <3> QED  BY <2>2, <3>5
  <2> QED  BY <2>3, <2>4
<1> QED  BY <1>1

LEMMA SolutionsAgree ==
  ASSUME NEW n \in Nat, NEW m \in Nat, n <= m, NEW g, NEW h, Solves(n, g), Solves(m, h)
  PROVE  g[n] = h[n]
<1>. DEFINE bad == {i \in Nat : i <= n /\ g[i] # h[i]}
<1>1. ASSUME bad # {} PROVE FALSE
  <2>1. PICK low \in bad : \A i \in bad : low <= i
    <3>1. bad \in SUBSET Nat  OBVIOUS
    <3>. HIDE DEF bad
    <3> QED  BY <1>1, <3>1, LeastNatural
  <2>2. low \in Nat /\ low <= n /\ g[low] # h[low]  OBVIOUS
  <2>3. low # 0  BY <2>2 DEF Solves
  <2>4. low - 1 \in Nat /\ low - 1 <= n /\ ~ (low <= low - 1) /\ low \in 1..n /\ low \in 1..m
    BY <2>2, <2>3
  <2>5. g[low - 1] = h[low - 1]
    <3>1. low - 1 \notin bad
      <4>. HIDE DEF bad
      <4> QED  BY <2>1, <2>4
    <3> QED  BY <2>4, <3>1
  <2>6. g[low] = Resolve(g[low - 1]) /\ h[low] = Resolve(h[low - 1])
    BY <2>4 DEF Solves
  <2> QED  BY <2>2, <2>5, <2>6
<1> QED  BY <1>1

LEMMA GetAllIs ==
  /\ GetAll[0] = Exhausted
  /\ \A n \in Nat : GetAll[n + 1] = Resolve(GetAll[n])
<1>. DEFINE value(n) == (CHOOSE g : Solves(n, g))[n]
            G == [n \in Nat |-> value(n)]
<1>1. \A n \in Nat : Solves(n, CHOOSE g : Solves(n, g))
  BY SolutionsExist
<1>2. value(0) = Exhausted
  BY <1>1 DEF Solves
<1>3. ASSUME NEW n \in Nat, n # 0 PROVE value(n) = Resolve(value(n - 1))
  <2>1. PICK h : h = CHOOSE g : Solves(n, g)  OBVIOUS
  <2>2. Solves(n, h)  BY <1>1, <2>1
  <2>3. n \in 1..n /\ n - 1 \in Nat /\ n - 1 <= n  BY <1>3
  <2>4. h[n] = Resolve(h[n - 1])  BY <2>2, <2>3 DEF Solves
  <2>5. PICK f : f = CHOOSE g : Solves(n - 1, g)  OBVIOUS
  <2>6. Solves(n - 1, f)  BY <1>1, <2>3, <2>5
  <2>7. f[n - 1] = h[n - 1]  BY <2>2, <2>3, <2>6, SolutionsAgree
  <2> QED  BY <2>1, <2>4, <2>5, <2>7
<1>. HIDE DEF value
<1>4. G = [n \in Nat |-> IF n = 0 THEN Exhausted ELSE Resolve(G[n - 1])]
  <2>1. \A n \in Nat : n # 0 => n - 1 \in Nat  OBVIOUS
  <2> QED  BY <1>2, <1>3, <2>1
<1>. HIDE DEF G
<1>5. GetAll = [n \in Nat |-> IF n = 0 THEN Exhausted ELSE Resolve(GetAll[n - 1])]
  BY <1>4 DEF GetAll
<1>6. GetAll[0] = Exhausted
  BY <1>5
<1>7. ASSUME NEW n \in Nat PROVE GetAll[n + 1] = Resolve(GetAll[n])
  <2>1. n + 1 \in Nat /\ n + 1 # 0 /\ (n + 1) - 1 = n  OBVIOUS
  <2>2. GetAll[n + 1] = Resolve(GetAll[(n + 1) - 1])  BY <1>5, <2>1
  <2> QED  BY <2>1, <2>2
<1> QED  BY <1>6, <1>7

-----------------------------------------------------------------------------
(* What every call leaves as it was, and what it keeps true.               *)

(* Objects are only added.                                                 *)
Grows(w, v) ==
  /\ Len(w.made) <= Len(v.made)
  /\ \A n \in 1..Len(w.made) : v.made[n] = w.made[n]

(* What is bound stays bound: only caches change.                          *)
SameBindings(w, v) ==
  \A c \in Containers, t \in Tokens :
    /\ v.dict[c][t].entity = w.dict[c][t].entity
    /\ v.dict[c][t].deps = w.dict[c][t].deps

Errors == {"none", "missing", "overflow"}

(* An object that the container c may be given.                            *)
Reaches(w, c, n) == n \in 1..Len(w.made) /\ w.made[n].home \in {Root, c}
Reached(w, c, ns) == \A i \in DOMAIN ns : Reaches(w, c, ns[i])

Isolated(w) ==
  \A n \in 1..Len(w.made) :
    /\ w.made[n].home \in Containers
    /\ Reached(w, w.made[n].home, w.made[n].deps)

Singleton(w, c, t, n) ==
  /\ n \in 1..Len(w.made)
  /\ w.made[n].singleton
  /\ w.made[n].home = c
  /\ w.made[n].token = t

(* A binding keeps the one singleton made of it; only a factory, which     *)
(* replaces a binding, forgets it, and makes none.                         *)
Keeps(w, c, t) ==
  LET b == w.dict[c][t] IN
  /\ b.entity = "none" => b = NoBinding
  /\ b.entity = "factory" => ~ b.singleton
  /\ b.entity = "value" => b.cache # 0
  /\ b.cache # 0 => Singleton(w, c, t, b.cache)
  /\ \A n : Singleton(w, c, t, n) => b.entity = "factory" \/ b.cache = n
  /\ \A n, p : Singleton(w, c, t, n) /\ Singleton(w, c, t, p) => n = p

Good(w) ==
  /\ w \in Worlds
  /\ Isolated(w)
  /\ \A c \in Containers, t \in Tokens : Keeps(w, c, t)

(* The answer r of a call to the container c in the world w.               *)
Sound(w, c, r) ==
  /\ Good(r.world) /\ Grows(w, r.world) /\ SameBindings(w, r.world)
  /\ r.error \in Errors
  /\ r.error = "none" => Reaches(r.world, c, r.out)

SoundAll(w, c, r) ==
  /\ Good(r.world) /\ Grows(w, r.world) /\ SameBindings(w, r.world)
  /\ r.error \in Errors
  /\ r.error = "none" => r.out \in Seq(Nat) /\ Reached(r.world, c, r.out)

Fine(all) ==
  \A a \in Resolutions :
    Good(a.world) /\ Reached(a.world, a.asked, a.got) => SoundAll(a.world, a.asked, all[a])

LEMMA GrowsIsTransitive ==
  ASSUME NEW u \in Worlds, NEW v \in Worlds, NEW w \in Worlds, Grows(u, v), Grows(v, w)
  PROVE  Grows(u, w)
<1>1. Len(u.made) \in Nat /\ Len(v.made) \in Nat /\ Len(w.made) \in Nat
  BY DEF Worlds
<1> QED  BY <1>1 DEF Grows

LEMMA GrowsIsReflexive ==
  ASSUME NEW w \in Worlds
  PROVE  Grows(w, w)
<1>1. Len(w.made) \in Nat
  BY DEF Worlds
<1> QED  BY <1>1 DEF Grows

LEMMA SameIsReflexive ==
  ASSUME NEW w
  PROVE  SameBindings(w, w)
BY DEF SameBindings

LEMMA SameIsTransitive ==
  ASSUME NEW u, NEW v, NEW w, SameBindings(u, v), SameBindings(v, w)
  PROVE  SameBindings(u, w)
BY DEF SameBindings

LEMMA ReachesStays ==
  ASSUME NEW v \in Worlds, NEW w \in Worlds, Grows(v, w), NEW c, NEW n, Reaches(v, c, n)
  PROVE  Reaches(w, c, n)
<1>1. Len(v.made) \in Nat /\ Len(w.made) \in Nat
  BY DEF Worlds
<1> QED  BY <1>1 DEF Grows, Reaches

LEMMA SingletonStays ==
  ASSUME NEW v \in Worlds, NEW w \in Worlds, Grows(v, w), NEW c, NEW t, NEW n,
         Singleton(v, c, t, n)
  PROVE  Singleton(w, c, t, n)
<1>1. Len(v.made) \in Nat /\ Len(w.made) \in Nat
  BY DEF Worlds
<1> QED  BY <1>1 DEF Grows, Singleton

(* v has one more object than w.                                           *)
Adds(w, v, o) == v.made = Append(w.made, o)

LEMMA AddsIs ==
  ASSUME NEW w \in Worlds, NEW v, NEW o \in Objects, Adds(w, v, o)
  PROVE  /\ v.made \in Seq(Objects)
         /\ Len(w.made) \in Nat
         /\ Len(v.made) = Len(w.made) + 1
         /\ \A n \in 1..Len(w.made) : v.made[n] = w.made[n]
         /\ v.made[Len(w.made) + 1] = o
<1>1. w.made \in Seq(Objects)
  BY DEF Worlds
<1> QED  BY <1>1, AppendProperties DEF Adds

LEMMA AddsKeeps ==
  ASSUME NEW w \in Worlds, Good(w), NEW v \in Worlds, NEW o \in Objects, Adds(w, v, o),
         Reached(w, o.home, o.deps)
  PROVE  /\ Grows(w, v)
         /\ Isolated(v)
         /\ \A d, u, n : Singleton(v, d, u, n) =>
              \/ Singleton(w, d, u, n)
              \/ n = Len(w.made) + 1 /\ d = o.home /\ u = o.token /\ o.singleton
         /\ o.singleton => Singleton(v, o.home, o.token, Len(w.made) + 1)
<1>1. /\ Len(w.made) \in Nat
      /\ Len(v.made) = Len(w.made) + 1
      /\ \A n \in 1..Len(w.made) : v.made[n] = w.made[n]
      /\ v.made[Len(w.made) + 1] = o
  BY AddsIs
<1>2. Grows(w, v)
  BY <1>1 DEF Grows
<1>3. ASSUME NEW n \in 1..Len(v.made)
      PROVE  v.made[n].home \in Containers /\ Reached(v, v.made[n].home, v.made[n].deps)
  <2>1. CASE n \in 1..Len(w.made)
    <3>1. /\ w.made[n].home \in Containers /\ v.made[n] = w.made[n]
          /\ Reached(w, w.made[n].home, w.made[n].deps)
      BY <1>1, <2>1 DEF Good, Isolated
    <3> QED  BY <1>2, <3>1, ReachesStays DEF Reached
  <2>2. CASE n = Len(w.made) + 1
    <3>1. v.made[n] = o  BY <1>1, <2>2
    <3>2. Reached(v, o.home, o.deps)
      BY <1>2, ReachesStays DEF Reached
    <3>3. o.home \in Containers  BY DEF Objects
    <3> QED  BY <3>1, <3>2, <3>3
  <2> QED  BY <1>1, <2>1, <2>2
<1>4. ASSUME NEW d, NEW u, NEW n, Singleton(v, d, u, n)
      PROVE  \/ Singleton(w, d, u, n)
             \/ n = Len(w.made) + 1 /\ d = o.home /\ u = o.token /\ o.singleton
  <2>1. CASE n \in 1..Len(w.made)
    <3>1. v.made[n] = w.made[n]  BY <1>1, <2>1
    <3> QED  BY <1>4, <2>1, <3>1 DEF Singleton
  <2>2. CASE n = Len(w.made) + 1
    <3>1. v.made[n] = o  BY <1>1, <2>2
    <3> QED  BY <1>4, <2>2, <3>1 DEF Singleton
  <2>3. n \in 1..(Len(w.made) + 1)
    BY <1>1, <1>4 DEF Singleton
  <2> QED  BY <1>1, <2>1, <2>2, <2>3
<1>5. o.singleton => Singleton(v, o.home, o.token, Len(w.made) + 1)
  BY <1>1 DEF Singleton
<1> QED  BY <1>2, <1>3, <1>4, <1>5 DEF Isolated

(* The binding of a new singleton keeps it, and the other bindings are as  *)
(* they were.                                                              *)
LEMMA AddsIsGood ==
  ASSUME NEW w \in Worlds, Good(w), NEW v \in Worlds, NEW o \in Objects, Adds(w, v, o),
         Reached(w, o.home, o.deps),
         \A d \in Containers, u \in Tokens :
           <<d, u>> # <<o.home, o.token>> \/ ~ o.singleton => v.dict[d][u] = w.dict[d][u],
         o.singleton => /\ v.dict[o.home][o.token].entity \in {"class", "value"}
                        /\ v.dict[o.home][o.token].cache = Len(w.made) + 1
                        /\ w.dict[o.home][o.token].entity # "factory"
                        /\ w.dict[o.home][o.token].cache = 0
  PROVE  Good(v) /\ Grows(w, v)
<1>. DEFINE c == o.home
            t == o.token
<1>1. /\ Grows(w, v)
      /\ Isolated(v)
      /\ \A d, u, n : Singleton(v, d, u, n) =>
           \/ Singleton(w, d, u, n)
           \/ n = Len(w.made) + 1 /\ d = c /\ u = t /\ o.singleton
      /\ o.singleton => Singleton(v, c, t, Len(w.made) + 1)
  BY AddsKeeps
<1>2. c \in Containers /\ t \in Tokens /\ o.singleton \in BOOLEAN
  BY DEF Objects
<1>3. ASSUME NEW d \in Containers, NEW u \in Tokens
      PROVE  Keeps(v, d, u)
  <2>1. Keeps(w, d, u)  BY DEF Good
  <2>2. CASE <<d, u>> # <<c, t>> \/ ~ o.singleton
    <3>1. v.dict[d][u] = w.dict[d][u]  BY <2>2
    <3>2. \A n : Singleton(v, d, u, n) <=> Singleton(w, d, u, n)
      BY <1>1, <2>2, SingletonStays
    <3> QED  BY <2>1, <3>1, <3>2 DEF Keeps
  <2>3. CASE d = c /\ u = t /\ o.singleton
    <3>1. \A n : ~ Singleton(w, c, t, n)
      <4>1. Len(w.made) \in Nat  BY DEF Worlds
      <4>2. \A n : Singleton(w, c, t, n) => n # 0  BY <4>1 DEF Singleton
      <4> QED  BY <2>1, <2>3, <4>2 DEF Keeps
    <3>2. Len(w.made) + 1 # 0
      <4>1. Len(w.made) \in Nat  BY DEF Worlds
      <4> QED  BY <4>1
    <3>3. \A n : Singleton(v, c, t, n) <=> n = Len(w.made) + 1
      BY <1>1, <2>3, <3>1
    <3>4. v.dict[c][t].entity \in {"class", "value"} /\ v.dict[c][t].cache = Len(w.made) + 1
      BY <2>3
    <3> QED  BY <2>3, <3>2, <3>3, <3>4 DEF Keeps
  <2> QED  BY <1>2, <2>2, <2>3
<1> QED  BY <1>1, <1>3 DEF Good

-----------------------------------------------------------------------------
(* A call, dependency by dependency.                                       *)

Cached(w, c, t, n) == [w.dict EXCEPT ![c][t].cache = n]

LEMMA CachesAre ==
  ASSUME NEW w \in Worlds, NEW c \in Containers, NEW t \in Tokens, NEW n \in Nat
  PROVE  LET new == Cached(w, c, t, n) IN
         /\ new \in [Containers -> [Tokens -> Bindings]]
         /\ new[c][t].entity = w.dict[c][t].entity
         /\ new[c][t].deps = w.dict[c][t].deps
         /\ new[c][t].cache = n
         /\ \A d \in Containers, u \in Tokens :
              <<d, u>> # <<c, t>> => new[d][u] = w.dict[d][u]
<1>. DEFINE b == w.dict[c][t]
            kept == [b EXCEPT !.cache = n]
            row == [w.dict[c] EXCEPT ![t] = kept]
            new == Cached(w, c, t, n)
<1>1. w.dict \in [Containers -> [Tokens -> Bindings]]  BY DEF Worlds
<1>2. b \in Bindings  BY <1>1
<1>3. kept \in Bindings /\ kept.entity = b.entity /\ kept.deps = b.deps /\ kept.cache = n
  BY <1>2 DEF Bindings
<1>4. new = [w.dict EXCEPT ![c] = row]
  BY DEF Cached
<1>. HIDE DEF kept
<1>5. /\ row \in [Tokens -> Bindings] /\ row[t] = kept
      /\ \A u \in Tokens : u # t => row[u] = w.dict[c][u]
  BY <1>1, <1>3
<1>. HIDE DEF row
<1>6. /\ new \in [Containers -> [Tokens -> Bindings]]
      /\ new[c] = row
      /\ \A d \in Containers : d # c => new[d] = w.dict[d]
  BY <1>1, <1>4, <1>5
<1>. HIDE DEF new
<1>7. \A d \in Containers, u \in Tokens : <<d, u>> # <<c, t>> => new[d][u] = w.dict[d][u]
  BY <1>5, <1>6
<1>8. /\ new[c][t].entity = w.dict[c][t].entity
      /\ new[c][t].deps = w.dict[c][t].deps
      /\ new[c][t].cache = n
  BY <1>3, <1>5, <1>6
<1> QED  BY <1>6, <1>7, <1>8 DEF new

LEMMA ConstructIsSound ==
  ASSUME NEW w \in Worlds, Good(w), NEW c \in Containers, NEW t \in Tokens,
         NEW deps \in Seq(Nat), Reached(w, c, deps),
         w.dict[c][t].cache = 0
  PROVE  LET r == Construct(w, c, t, deps) IN
         /\ Good(r.world) /\ Grows(w, r.world) /\ SameBindings(w, r.world)
         /\ Reaches(r.world, c, r.out)
         /\ r.error = "none"
<1>. DEFINE r == Construct(w, c, t, deps)
            v == r.world
            b == w.dict[c][t]
            n == Len(w.made) + 1
            kept == Cached(w, c, t, n)
            o == Object(c, t, deps, b.singleton)
<1>1. /\ w.dict \in [Containers -> [Tokens -> Bindings]]
      /\ w.made \in Seq(Objects)
      /\ n \in Nat
  BY DEF Worlds
<1>2. b \in Bindings  BY <1>1
<1>3. b.singleton \in BOOLEAN /\ b.entity \in {"none", "class", "factory", "value"}
  BY <1>2 DEF Bindings
<1>4. /\ kept \in [Containers -> [Tokens -> Bindings]]
      /\ kept[c][t].entity = b.entity
      /\ kept[c][t].deps = b.deps
      /\ kept[c][t].cache = n
      /\ \A d \in Containers, u \in Tokens : <<d, u>> # <<c, t>> => kept[d][u] = w.dict[d][u]
  BY <1>1, CachesAre
<1>5. r.out = n /\ r.error = "none"
  BY DEF Construct, Done
<1>6. v = [dict |-> IF b.singleton THEN kept ELSE w.dict,
           made |-> Append(w.made, o)]
  BY DEF Construct, Done, Cached
<1>7. /\ o \in Objects
      /\ o.home = c /\ o.token = t /\ o.deps = deps
      /\ o.singleton = b.singleton
  BY <1>3 DEF Object, Objects
<1>. HIDE DEF kept, r, v, o
<1>8. v.dict = IF b.singleton THEN kept ELSE w.dict
  BY <1>6
<1>9. /\ Adds(w, v, o)
      /\ v.made \in Seq(Objects)
      /\ Len(v.made) = Len(w.made) + 1
      /\ v.made[n] = o
  <2>1. Adds(w, v, o)  BY <1>6 DEF Adds
  <2> QED  BY <1>7, <2>1, AddsIs
<1>10. v \in Worlds
  <2>1. v.dict \in [Containers -> [Tokens -> Bindings]]
    BY <1>1, <1>3, <1>4, <1>8
  <2>2. v = [dict |-> v.dict, made |-> v.made]
    BY <1>6
  <2> QED  BY <1>9, <2>1, <2>2 DEF Worlds
<1>11. Good(v) /\ Grows(w, v)
  <2>1. ASSUME b.singleton
        PROVE  b.entity = "class"
    <3>1. Keeps(w, c, t)  BY DEF Good
    <3> QED  BY <1>3, <2>1, <3>1 DEF Keeps, NoBinding, Binding
  <2>2. \A d \in Containers, u \in Tokens :
          <<d, u>> # <<c, t>> \/ ~ b.singleton => v.dict[d][u] = w.dict[d][u]
    BY <1>3, <1>4, <1>8
  <2>3. b.singleton => /\ v.dict[c][t].entity \in {"class", "value"}
                       /\ v.dict[c][t].cache = Len(w.made) + 1
                       /\ b.entity # "factory"
                       /\ b.cache = 0
    BY <1>3, <1>4, <1>8, <2>1
  <2> QED  BY <1>7, <1>9, <1>10, <2>2, <2>3, AddsIsGood
<1>12. Reaches(v, c, n)
  BY <1>1, <1>7, <1>9 DEF Reaches
<1>13. SameBindings(w, v)
  BY <1>3, <1>4, <1>8 DEF SameBindings
<1> QED  BY <1>5, <1>11, <1>12, <1>13 DEF v, r

(* One call is sound when the calls that resolve its dependencies are.     *)
LEMMA GetWithIsSound ==
  ASSUME NEW all, Fine(all), NEW w \in Worlds, Good(w), NEW asked \in Containers, NEW t \in Tokens
  PROVE  Sound(w, asked, GetWith(all, w, asked, t))
<1>. DEFINE c == IF w.dict[asked][t] = NoBinding THEN Root ELSE asked
            b == w.dict[c][t]
            base == IF b.entity = "factory" THEN Root ELSE Resolver(asked, c)
            a == [world |-> w, asked |-> base, deps |-> b.deps, got |-> <<>>]
            r == all[a]
            v == r.world
            out == GetWith(all, w, asked, t)
<1>1. c \in Containers /\ base \in Containers /\ base \in {Root, c} /\ c \in {Root, asked}
  BY DEF Resolver, Containers
<1>2. b \in Bindings  BY <1>1 DEF Worlds
<1>. HIDE DEF c
<1>3. a \in Resolutions /\ a.world = w /\ a.asked = base /\ a.got = <<>>
  BY <1>1, <1>2 DEF Resolutions, Bindings
<1>4. Keeps(w, c, t)  BY <1>1 DEF Good
<1>5. b.entity \in {"none", "class", "factory", "value"} /\ b.cache \in Nat
  BY <1>2 DEF Bindings
<1>6. out = CASE b.entity = "none" -> Throw(w, "missing")
              [] b.entity = "value" -> Done(w, b.cache)
              [] b.entity \in {"class", "factory"} ->
                   IF Failed(r) THEN Throw(v, r.error)
                   ELSE IF v.dict[c][t].cache # 0 THEN Done(v, v.dict[c][t].cache)
                   ELSE Construct(v, c, t, r.out)
  BY DEF GetWith, c
<1>7. SoundAll(w, base, r)
  <2>1. Reached(w, base, <<>>)  BY DEF Reached
  <2> QED  BY <1>3, <2>1 DEF Fine
<1>. HIDE DEF base, a, r, v, out
<1>8. ASSUME NEW u \in Worlds, NEW n, Singleton(u, c, t, n)
      PROVE  Reaches(u, asked, n)
  BY <1>1, <1>8 DEF Singleton, Reaches
<1>9. CASE b.entity = "none"
  <2>1. out.world = w /\ out.error = "missing"  BY <1>6, <1>9 DEF Throw
  <2> QED  BY <2>1, GrowsIsReflexive, SameIsReflexive DEF Sound, Errors, out
<1>10. CASE b.entity = "value"
  <2>1. out.world = w /\ out.error = "none" /\ out.out = b.cache  BY <1>6, <1>10 DEF Done
  <2>2. Reaches(w, asked, b.cache)  BY <1>4, <1>8, <1>10 DEF Keeps
  <2> QED  BY <2>1, <2>2, GrowsIsReflexive, SameIsReflexive DEF Sound, Errors, out
<1>11. CASE b.entity \in {"class", "factory"}
  <2>1. /\ Good(v) /\ Grows(w, v) /\ SameBindings(w, v) /\ v \in Worlds
        /\ r.error \in Errors
    BY <1>7 DEF SoundAll, Good, v
  <2>2. CASE Failed(r)
    <3>1. out = Throw(v, r.error)  BY <1>6, <1>11, <2>2
    <3> QED  BY <2>1, <2>2, <3>1 DEF Sound, out, Throw, Failed
  <2>3. CASE ~ Failed(r) /\ v.dict[c][t].cache # 0
    <3>1. out = Done(v, v.dict[c][t].cache)  BY <1>6, <1>11, <2>3
    <3>2. Keeps(v, c, t)  BY <1>1, <2>1 DEF Good
    <3>3. Reaches(v, asked, v.dict[c][t].cache)
      BY <1>8, <2>1, <2>3, <3>2 DEF Keeps
    <3> QED  BY <2>1, <3>1, <3>3 DEF Sound, Errors, out, Done
  <2>4. CASE ~ Failed(r) /\ v.dict[c][t].cache = 0
    <3>1. out = Construct(v, c, t, r.out)  BY <1>6, <1>11, <2>4
    <3>2. r.out \in Seq(Nat) /\ Reached(v, c, r.out)
      <4>1. r.out \in Seq(Nat) /\ Reached(v, base, r.out)
        BY <1>7, <2>4 DEF SoundAll, Failed, v
      <4> QED  BY <1>1, <4>1 DEF Reached, Reaches
    <3>3. /\ Good(out.world) /\ Grows(v, out.world) /\ SameBindings(v, out.world)
          /\ Reaches(out.world, c, out.out)
          /\ out.error = "none"
      BY <1>1, <2>1, <2>4, <3>1, <3>2, ConstructIsSound
    <3>4. Grows(w, out.world)
      <4>1. out.world \in Worlds  BY <3>3 DEF Good
      <4> QED  BY <2>1, <3>3, <4>1, GrowsIsTransitive
    <3>5. Reaches(out.world, asked, out.out)
      BY <1>1, <3>3 DEF Reaches
    <3>6. SameBindings(w, out.world)
      BY <2>1, <3>3, SameIsTransitive
    <3> QED  BY <3>3, <3>4, <3>5, <3>6 DEF Sound, Errors, out
  <2> QED  BY <2>2, <2>3, <2>4
<1> QED  BY <1>5, <1>9, <1>10, <1>11

LEMMA ExhaustedIsFine == Fine(Exhausted)
<1>. SUFFICES ASSUME NEW a \in Resolutions, Good(a.world)
              PROVE  SoundAll(a.world, a.asked, Exhausted[a])
  BY DEF Fine
<1>1. Exhausted[a] = Throw(a.world, "overflow")
  BY DEF Exhausted
<1>2. a.world \in Worlds
  BY DEF Good
<1> QED  BY <1>1, <1>2, GrowsIsReflexive, SameIsReflexive DEF SoundAll, Errors, Throw

(* What is left when the first dependency is resolved.                     *)
LEMMA AfterIs ==
  ASSUME NEW a \in Resolutions, Good(a.world), Reached(a.world, a.asked, a.got),
         a.deps # <<>>, NEW r, Sound(a.world, a.asked, r), r.error = "none"
  PROVE  /\ After(a, r) \in Resolutions
         /\ After(a, r).world = r.world /\ After(a, r).asked = a.asked
         /\ After(a, r).deps = Tail(a.deps)
         /\ Good(r.world) /\ Reached(r.world, a.asked, After(a, r).got)
<1>. DEFINE w == a.world
            got == a.got
            ns == Append(got, r.out)
<1>1. /\ w \in Worlds /\ a.asked \in Containers
      /\ a.deps \in Seq(Tokens) /\ got \in Seq(Nat)
  BY DEF Resolutions
<1>2. Tail(a.deps) \in Seq(Tokens)
  BY <1>1
<1>3. /\ Good(r.world) /\ Grows(w, r.world) /\ Reaches(r.world, a.asked, r.out)
      /\ r.world \in Worlds
  BY DEF Sound, Good
<1>4. r.out \in Nat
  <2>1. Len(r.world.made) \in Nat  BY <1>3 DEF Worlds
  <2> QED  BY <1>3, <2>1 DEF Reaches
<1>5. /\ ns \in Seq(Nat)
      /\ Len(got) \in Nat /\ DOMAIN ns = 1..(Len(got) + 1)
      /\ \A i \in 1..Len(got) : ns[i] = got[i]
      /\ ns[Len(got) + 1] = r.out
      /\ DOMAIN got = 1..Len(got)
  BY <1>1, <1>4, AppendProperties
<1>6. /\ After(a, r) = [world |-> r.world, asked |-> a.asked, deps |-> Tail(a.deps), got |-> ns]
      /\ After(a, r).got = ns
  BY DEF After
<1>. HIDE DEF ns, got
<1>7. ASSUME NEW i \in DOMAIN ns
      PROVE  Reaches(r.world, a.asked, ns[i])
  <2>1. CASE i \in 1..Len(got)
    <3>1. Reaches(w, a.asked, got[i])  BY <1>5, <2>1 DEF Reached, got
    <3>2. ns[i] = got[i]  BY <1>5, <2>1
    <3> QED  BY <1>1, <1>3, <3>1, <3>2, ReachesStays
  <2>2. CASE i = Len(got) + 1
    BY <1>3, <1>5, <2>2
  <2> QED  BY <1>5, <1>7, <2>1, <2>2
<1>8. Reached(r.world, a.asked, ns)
  BY <1>7 DEF Reached
<1>9. After(a, r) \in Resolutions
  BY <1>1, <1>2, <1>3, <1>5, <1>6 DEF Resolutions
<1> QED  BY <1>3, <1>6, <1>8, <1>9

LEMMA ResolveIsFine ==
  ASSUME NEW all, Fine(all)
  PROVE  Fine(Resolve(all))
<1>. SUFFICES ASSUME NEW a \in Resolutions, Good(a.world), Reached(a.world, a.asked, a.got)
              PROVE  SoundAll(a.world, a.asked, Resolve(all)[a])
  BY DEF Fine
<1>. DEFINE w == a.world
            r == GetWith(all, w, a.asked, Head(a.deps))
            next == After(a, r)
            out == Resolve(all)[a]
<1>1. /\ w \in Worlds /\ a.asked \in Containers
      /\ a.deps \in Seq(Tokens) /\ a.got \in Seq(Nat)
  BY DEF Resolutions
<1>2. out = IF a.deps = <<>> THEN Done(w, a.got)
            ELSE IF Failed(r) THEN r ELSE all[next]
  BY DEF Resolve
<1>3. CASE a.deps = <<>>
  <2>1. out = Done(w, a.got)  BY <1>2, <1>3
  <2>. HIDE DEF out
  <2>2. SoundAll(w, a.asked, out)
    BY <1>1, <2>1, GrowsIsReflexive, SameIsReflexive DEF SoundAll, Errors, Done
  <2> QED  BY <2>2 DEF out
<1>4. CASE a.deps # <<>>
  <2>1. Head(a.deps) \in Tokens
    BY <1>1, <1>4
  <2>2. Sound(w, a.asked, r)
    BY <1>1, <2>1, GetWithIsSound
  <2>. HIDE DEF r, next, out
  <2>3. CASE Failed(r)
    <3>1. out = r  BY <1>2, <1>4, <2>3
    <3>2. SoundAll(w, a.asked, r)  BY <2>2, <2>3 DEF Sound, SoundAll, Failed
    <3> QED  BY <3>1, <3>2 DEF out
  <2>4. CASE ~ Failed(r)
    <3>1. out = all[next]  BY <1>2, <1>4, <2>4
    <3>2. /\ next \in Resolutions /\ next.world = r.world /\ next.asked = a.asked
          /\ Good(r.world) /\ Reached(r.world, a.asked, next.got)
      BY <1>4, <2>2, <2>4, AfterIs DEF Failed, next
    <3>3. SoundAll(r.world, a.asked, all[next])
      BY <3>2 DEF Fine
    <3>4. SoundAll(w, a.asked, all[next])
      <4>. DEFINE s == all[next]
      <4>1. SoundAll(r.world, a.asked, s)  BY <3>3
      <4>. HIDE DEF s
      <4>2. /\ Good(s.world) /\ Grows(r.world, s.world) /\ s.world \in Worlds
            /\ SameBindings(r.world, s.world)
        BY <4>1 DEF SoundAll, Good
      <4>3. Grows(w, r.world) /\ SameBindings(w, r.world) /\ r.world \in Worlds
        BY <2>2 DEF Sound, Good
      <4>4. Grows(w, s.world) /\ SameBindings(w, s.world)
        BY <1>1, <4>2, <4>3, GrowsIsTransitive, SameIsTransitive
      <4>5. SoundAll(w, a.asked, s)
        BY <4>1, <4>2, <4>4 DEF SoundAll
      <4> QED  BY <4>5 DEF s
    <3> QED  BY <3>1, <3>4 DEF out
  <2> QED  BY <2>3, <2>4
<1> QED  BY <1>3, <1>4

(* However deep the stack.                                                 *)
LEMMA GetAllIsFine ==
  ASSUME NEW n \in Nat
  PROVE  Fine(GetAll[n])
<1>. DEFINE bad == {m \in Nat : ~ Fine(GetAll[m])}
<1>1. ASSUME bad # {} PROVE FALSE
  <2>1. PICK m \in bad : \A i \in bad : m <= i
    <3>1. bad \in SUBSET Nat  OBVIOUS
    <3>. HIDE DEF bad
    <3> QED  BY <1>1, <3>1, LeastNatural
  <2>2. m \in Nat /\ ~ Fine(GetAll[m])  OBVIOUS
  <2>3. m # 0  BY <2>2, GetAllIs, ExhaustedIsFine
  <2>4. m - 1 \in Nat /\ ~ (m <= m - 1) /\ (m - 1) + 1 = m  BY <2>2, <2>3
  <2>5. m - 1 \notin bad
    <3>. HIDE DEF bad
    <3> QED  BY <2>1, <2>4
  <2>6. Fine(GetAll[m - 1])  BY <2>4, <2>5
  <2>7. GetAll[m] = Resolve(GetAll[m - 1])  BY <2>4, GetAllIs
  <2> QED  BY <2>2, <2>6, <2>7, ResolveIsFine
<1> QED  BY <1>1

LEMMA GetIsSound ==
  ASSUME NEW w \in Worlds, Good(w), NEW asked \in Containers, NEW t \in Tokens
  PROVE  Sound(w, asked, Get(w, asked, t))
BY GetAllIsFine, GetWithIsSound DEF Get

-----------------------------------------------------------------------------
(* The invariant, action by action.                                        *)

ContainerInv == Good(World)

LEMMA WorldIsGood ==
  ASSUME Good([dict |-> dict', made |-> made'])
  PROVE  ContainerInv'
BY DEF ContainerInv, World

LEMMA SameWorld ==
  ASSUME ContainerInv, dict' = dict, made' = made
  PROVE  ContainerInv'
BY WorldIsGood DEF ContainerInv, World

(* dict with the binding b of t in c.                                      *)
Rebound(c, t, b) == [dict EXCEPT ![c][t] = b]

LEMMA BoundIs ==
  ASSUME ContainerInv, NEW c \in Containers, NEW t \in Tokens, NEW b \in Bindings
  PROVE  /\ Rebound(c, t, b) \in [Containers -> [Tokens -> Bindings]]
         /\ Rebound(c, t, b)[c][t] = b
         /\ \A d \in Containers, u \in Tokens :
              <<d, u>> # <<c, t>> => Rebound(c, t, b)[d][u] = dict[d][u]
<1>1. dict \in [Containers -> [Tokens -> Bindings]]
  BY DEF ContainerInv, Good, World, Worlds
<1>. DEFINE row == [dict[c] EXCEPT ![t] = b]
            new == Rebound(c, t, b)
<1>2. row \in [Tokens -> Bindings] /\ row[t] = b /\ \A u \in Tokens : u # t => row[u] = dict[c][u]
  BY <1>1
<1>3. new = [dict EXCEPT ![c] = row]
  BY DEF Rebound
<1>. HIDE DEF row, new
<1>4. /\ new \in [Containers -> [Tokens -> Bindings]]
      /\ new[c] = row
      /\ \A d \in Containers : d # c => new[d] = dict[d]
  BY <1>1, <1>2, <1>3
<1> QED  BY <1>2, <1>4 DEF new

LEMMA ClassIs ==
  ASSUME NEW deps \in Seq(Tokens), NEW singleton \in BOOLEAN
  PROVE  /\ Class(deps, singleton) \in Bindings
         /\ Class(deps, singleton).entity = "class"
         /\ Class(deps, singleton).cache = 0
BY DEF Class, Binding, Bindings

LEMMA FactoryIs ==
  ASSUME NEW deps \in Seq(Tokens)
  PROVE  /\ Factory(deps) \in Bindings
         /\ Factory(deps).entity = "factory"
         /\ Factory(deps).cache = 0
         /\ Factory(deps).singleton = FALSE
BY DEF Factory, Binding, Bindings

LEMMA ValueIs ==
  ASSUME NEW n \in Nat
  PROVE  /\ Value(n) \in Bindings
         /\ Value(n).entity = "value"
         /\ Value(n).cache = n
BY DEF Value, Binding, Bindings

(* A class where nothing was bound, or a factory, has no object yet.       *)
LEMMA RebindingIsGood ==
  ASSUME ContainerInv, NEW c \in Containers, NEW t \in Tokens, NEW b \in Bindings,
         dict' = Rebound(c, t, b), made' = made, b.cache = 0,
         \/ b.entity = "class" /\ dict[c][t] = NoBinding
         \/ b.entity = "factory" /\ b.singleton = FALSE
  PROVE  ContainerInv'
<1>. DEFINE v == [dict |-> dict', made |-> made']
<1>1. /\ World \in Worlds /\ Isolated(World)
      /\ \A d \in Containers, u \in Tokens : Keeps(World, d, u)
  BY DEF ContainerInv, Good
<1>2. World.made = made /\ World.dict = dict /\ v.made = made /\ v.dict = Rebound(c, t, b)
  BY DEF World
<1>3. v \in Worlds
  <2>1. made \in Seq(Objects)  BY <1>1, <1>2 DEF Worlds
  <2>2. Rebound(c, t, b) \in [Containers -> [Tokens -> Bindings]]  BY BoundIs
  <2> QED  BY <2>1, <2>2 DEF Worlds
<1>. HIDE DEF v
<1>4. Isolated(v)
  BY <1>1, <1>2 DEF Isolated, Reached, Reaches
<1>5. \A d, u, n : Singleton(v, d, u, n) <=> Singleton(World, d, u, n)
  BY <1>2 DEF Singleton
<1>6. ASSUME NEW d \in Containers, NEW u \in Tokens
      PROVE  Keeps(v, d, u)
  <2>1. Keeps(World, d, u)  BY <1>1
  <2>2. CASE <<d, u>> # <<c, t>>
    <3>1. \A e \in Containers, x \in Tokens :
            <<e, x>> # <<c, t>> => Rebound(c, t, b)[e][x] = dict[e][x]
      BY ONLY ContainerInv, c \in Containers, t \in Tokens, b \in Bindings, BoundIs
    <3>2. v.dict[d][u] = World.dict[d][u]  BY <1>2, <2>2, <3>1
    <3> QED  BY <1>5, <2>1, <3>2 DEF Keeps
  <2>3. CASE d = c /\ u = t
    <3>1. v.dict[c][t] = b  BY <1>2, BoundIs
    <3>2. CASE b.entity = "class" /\ dict[c][t] = NoBinding
      <4>1. \A n : ~ Singleton(v, c, t, n)
        <5>1. Len(World.made) \in Nat  BY <1>1 DEF Worlds
        <5>2. \A n : Singleton(World, c, t, n) => n # 0  BY <5>1 DEF Singleton
        <5> QED  BY <1>2, <1>5, <2>1, <2>3, <3>2, <5>2 DEF Keeps, NoBinding, Binding
      <4> QED  BY <2>3, <3>1, <3>2, <4>1 DEF Keeps
    <3>3. CASE b.entity = "factory" /\ b.singleton = FALSE
      <4>1. \A n, p : Singleton(v, c, t, n) /\ Singleton(v, c, t, p) => n = p
        BY <1>5, <2>1, <2>3 DEF Keeps
      <4> QED  BY <2>3, <3>1, <3>3, <4>1 DEF Keeps
    <3> QED  BY <3>2, <3>3
  <2> QED  BY <2>2, <2>3
<1>7. Good(v)
  BY <1>3, <1>4, <1>6 DEF Good
<1> QED  BY <1>7, WorldIsGood DEF v

LEMMA RegisterKeeps ==
  ASSUME ContainerInv, NEW c \in Containers, NEW t \in Tokens, Register(c, t)
  PROVE  ContainerInv'
<1>1. PICK deps \in DepLists[t], singleton \in BOOLEAN :
        dict' = [dict EXCEPT ![c][t] = Class(deps, singleton)]
  BY DEF Register
<1>2. deps \in Seq(Tokens)
  OBVIOUS
<1>. DEFINE b == Class(deps, singleton)
<1>3. b \in Bindings /\ b.entity = "class" /\ b.cache = 0
  BY <1>2, ClassIs
<1>4. dict' = Rebound(c, t, b)
  BY <1>1 DEF Rebound
<1>. HIDE DEF b
<1>5. made' = made /\ dict[c][t] = NoBinding
  BY DEF Register, Has
<1> QED  BY <1>3, <1>4, <1>5, RebindingIsGood

LEMMA ToFactoryKeeps ==
  ASSUME ContainerInv, NEW t \in Tokens, ToFactoryAtRoot(t)
  PROVE  ContainerInv'
<1>1. PICK deps \in DepLists[t] : dict' = [dict EXCEPT ![Root][t] = Factory(deps)]
  BY DEF ToFactoryAtRoot
<1>2. deps \in Seq(Tokens) /\ Root \in Containers
  BY DEF Containers
<1>. DEFINE b == Factory(deps)
<1>3. b \in Bindings /\ b.entity = "factory" /\ b.cache = 0 /\ b.singleton = FALSE
  BY <1>2, FactoryIs
<1>4. dict' = Rebound(Root, t, b)
  BY <1>1 DEF Rebound
<1>. HIDE DEF b
<1>5. made' = made
  BY DEF ToFactoryAtRoot
<1> QED  BY <1>2, <1>3, <1>4, <1>5, RebindingIsGood

LEMMA SetValueKeeps ==
  ASSUME ContainerInv, NEW c \in Containers, NEW t \in Tokens, SetValue(c, t)
  PROVE  ContainerInv'
<1>. DEFINE v == [dict |-> dict', made |-> made']
            n == Len(made) + 1
            o == Object(c, t, <<>>, TRUE)
            b == Value(n)
<1>1. World \in Worlds /\ World.made = made /\ World.dict = dict
  BY DEF ContainerInv, Good, World
<1>2. made \in Seq(Objects) /\ n \in Nat
  BY <1>1 DEF Worlds
<1>3. /\ o \in Objects
      /\ o.home = c /\ o.token = t /\ o.deps = <<>> /\ o.singleton = TRUE
  BY DEF Object, Objects
<1>. HIDE DEF o
<1>4. made' = Append(made, o) /\ dict[c][t] = NoBinding
  BY DEF SetValue, Has, o
<1>5. made' \in Seq(Objects) /\ Len(made') = n
  BY <1>2, <1>3, <1>4, AppendProperties
<1>6. b \in Bindings /\ b.entity = "value" /\ b.cache = n
  BY <1>2, ValueIs
<1>7. dict' = Rebound(c, t, b)
  BY <1>5 DEF SetValue, Rebound
<1>. HIDE DEF b
<1>8. v.made = made' /\ v.dict = Rebound(c, t, b) /\ v \in Worlds
  BY <1>5, <1>6, <1>7, BoundIs DEF Worlds
<1>. HIDE DEF v
<1>9. /\ v.dict[c][t] = b
      /\ \A d \in Containers, u \in Tokens :
           <<d, u>> # <<c, t>> => v.dict[d][u] = World.dict[d][u]
  BY <1>1, <1>6, <1>8, BoundIs
<1>10. Adds(World, v, o)
  BY <1>1, <1>4, <1>8 DEF Adds
<1>11. World.dict[c][t].entity # "factory" /\ World.dict[c][t].cache = 0
  BY <1>1, <1>4 DEF NoBinding, Binding
<1>12. Reached(World, o.home, o.deps)
  BY <1>3 DEF Reached
<1>13. Len(World.made) + 1 = n
  BY <1>1
<1>. HIDE DEF n
<1>14. Good(v)
  <2>1. Good(World)  BY DEF ContainerInv
  <2>2. v.dict[c][t].entity \in {"class", "value"} /\ v.dict[c][t].cache = Len(World.made) + 1
    BY <1>6, <1>9, <1>13
  <2> QED  BY <1>1, <1>3, <1>8, <1>9, <1>10, <1>11, <1>12, <2>1, <2>2, AddsIsGood
<1> QED  BY <1>14, WorldIsGood DEF v

LEMMA TakeKeeps ==
  ASSUME NEW r, Good(r.world), Take(r)
  PROVE  ContainerInv'
<1>1. r.world = [dict |-> dict', made |-> made']
  BY DEF Good, Worlds, Take
<1> QED  BY <1>1, WorldIsGood

LEMMA AskKeeps ==
  ASSUME ContainerInv, NEW c \in Containers, NEW t \in Tokens, Ask(c, t)
  PROVE  ContainerInv'
<1>1. Good(Get(World, c, t).world)
  BY GetIsSound DEF ContainerInv, Good, Sound
<1> QED  BY <1>1, TakeKeeps DEF Ask

LEMMA AskControllerKeeps ==
  ASSUME ContainerInv, NEW c \in Containers, NEW t \in Tokens, AskController(c, t)
  PROVE  ContainerInv'
<1>. DEFINE r == ResolveController(c, t)
<1>1. Root \in Containers  BY DEF Containers
<1>2. \A d \in Containers : Good(Get(World, d, t).world)
  BY GetIsSound DEF ContainerInv, Good, Sound
<1>3. Good(Get(Get(World, c, t).world, Root, t).world)
  <2>. DEFINE w == Get(World, c, t).world
  <2>1. Good(w) /\ w \in Worlds  BY <1>2 DEF Good
  <2>. HIDE DEF w
  <2>2. Sound(w, Root, Get(w, Root, t))  BY <1>1, <2>1, GetIsSound
  <2> QED  BY <2>2 DEF Sound, w
<1>4. Good(r.world)
  BY <1>1, <1>2, <1>3 DEF ResolveController
<1>. HIDE DEF r
<1> QED  BY <1>4, TakeKeeps DEF AskController, r

LEMMA ContainerInvHolds == ContainerSpec => []ContainerInv
<1>1. ContainerInit => ContainerInv
  <2>. SUFFICES ASSUME ContainerInit PROVE ContainerInv
    OBVIOUS
  <2>1. NoBinding \in Bindings  BY DEF NoBinding, Binding, Bindings
  <2>2. World.dict = dict /\ World.made = <<>> /\ World = [dict |-> dict, made |-> <<>>]
    BY DEF ContainerInit, World
  <2>3. dict \in [Containers -> [Tokens -> Bindings]]
    BY <2>1 DEF ContainerInit
  <2>4. World \in Worlds  BY <2>2, <2>3 DEF Worlds
  <2>5. Isolated(World)  BY <2>2 DEF Isolated
  <2>6. ASSUME NEW c \in Containers, NEW t \in Tokens
        PROVE  Keeps(World, c, t)
    <3>1. World.dict[c][t] = NoBinding  BY <2>2 DEF ContainerInit
    <3>2. \A n : ~ Singleton(World, c, t, n)  BY <2>2 DEF Singleton
    <3> QED  BY <3>1, <3>2 DEF Keeps, NoBinding, Binding
  <2> QED  BY <2>4, <2>5, <2>6 DEF ContainerInv, Good
<1>2. ContainerInv /\ [ContainerNext]_containerVars => ContainerInv'
  <2>. SUFFICES ASSUME ContainerInv, [ContainerNext]_containerVars
                PROVE  ContainerInv'
    OBVIOUS
  <2>1. ASSUME NEW r \in Requests, CreateScope(r) PROVE ContainerInv'
    BY <2>1, SameWorld DEF CreateScope
  <2>2. ASSUME NEW c \in Containers, NEW t \in Tokens, Register(c, t) PROVE ContainerInv'
    BY <2>2, RegisterKeeps
  <2>3. ASSUME NEW c \in Containers, NEW t \in Tokens, SetValue(c, t) PROVE ContainerInv'
    BY <2>3, SetValueKeeps
  <2>4. ASSUME NEW t \in Tokens, ToFactoryAtRoot(t) PROVE ContainerInv'
    BY <2>4, ToFactoryKeeps
  <2>5. ASSUME NEW c \in Containers, NEW t \in Tokens, Ask(c, t) PROVE ContainerInv'
    BY <2>5, AskKeeps
  <2>6. ASSUME NEW c \in Containers, NEW t \in Tokens, AskController(c, t) PROVE ContainerInv'
    BY <2>6, AskControllerKeeps
  <2>7. CASE UNCHANGED containerVars
    BY <2>7, SameWorld DEF containerVars
  <2> QED  BY <2>1, <2>2, <2>3, <2>4, <2>5, <2>6, <2>7 DEF ContainerNext
<1> QED  BY <1>1, <1>2, PTL DEF ContainerSpec

(* No object of the application holds an object of a request, and none of  *)
(* a request one of another, however deep the dependencies and whether the *)
(* calls return: this.get() of a class bound at the root stays there.      *)
THEOREM ScopesStayIsolated == ContainerSpec => []ScopesAreIsolated
<1>1. ContainerInv => ScopesAreIsolated
  <2>. SUFFICES ASSUME ContainerInv, NEW n \in DOMAIN made, NEW i \in DOMAIN made[n].deps
                PROVE  made[made[n].deps[i]].home \in {Root, made[n].home}
    BY DEF ScopesAreIsolated
  <2>1. World.made = made /\ made \in Seq(Objects)
    BY DEF ContainerInv, Good, World, Worlds
  <2>2. n \in 1..Len(made)  BY <2>1
  <2>3. Reached(World, made[n].home, made[n].deps)
    BY <2>1, <2>2 DEF ContainerInv, Good, Isolated
  <2> QED  BY <2>1, <2>3 DEF Reached, Reaches
<1> QED  BY <1>1, ContainerInvHolds, PTL

(* A singleton of a container is made once, also when the call that made   *)
(* it failed later, or when its own dependencies asked for it.             *)
THEOREM SingletonsAreMadeOnce == ContainerSpec => []OneSingleton
<1>1. ContainerInv => OneSingleton
  <2>. SUFFICES ASSUME ContainerInv, NEW n \in DOMAIN made, NEW p \in DOMAIN made,
                       made[n].singleton, made[p].singleton,
                       made[n].token = made[p].token, made[n].home = made[p].home
                PROVE  n = p
    BY DEF OneSingleton
  <2>1. World.made = made /\ made \in Seq(Objects)
    BY DEF ContainerInv, Good, World, Worlds
  <2>2. n \in 1..Len(made) /\ p \in 1..Len(made)  BY <2>1
  <2>3. made[n].home \in Containers /\ made[n].token \in Tokens
    <3>1. made[n] \in Objects  BY <2>1, <2>2
    <3> QED  BY <3>1 DEF Objects
  <2>4. Keeps(World, made[n].home, made[n].token)
    BY <2>3 DEF ContainerInv, Good
  <2>5. /\ Singleton(World, made[n].home, made[n].token, n)
        /\ Singleton(World, made[n].home, made[n].token, p)
    BY <2>1, <2>2 DEF Singleton
  <2> QED  BY <2>4, <2>5 DEF Keeps
<1> QED  BY <1>1, ContainerInvHolds, PTL

-----------------------------------------------------------------------------
(* The graph of the root's bindings, and the calls of get() that follow    *)
(* it.                                                                     *)
Needs(w, t) == IF w.dict[Root][t].entity = "class" THEN w.dict[Root][t].deps ELSE <<>>

(* What walk() says of a token, given the tokens on its way.               *)
Meets(walk, path, key) ==
  \/ key \in path
  \/ \E n \in DOMAIN Needs(World, key) : walk[path \cup {key}][Needs(World, key)[n]]

Walks(walk) ==
  walk = [path \in SUBSET Tokens |-> [key \in Tokens |-> Meets(walk, path, key)]]

LEMMA NeedsAre ==
  ASSUME NEW w \in Worlds, NEW t \in Tokens
  PROVE  /\ Needs(w, t) \in Seq(Tokens)
         /\ \A n \in DOMAIN Needs(w, t) : Needs(w, t)[n] \in Tokens
<1>1. Root \in Containers  BY DEF Containers
<1>2. w.dict[Root][t] \in Bindings  BY <1>1 DEF Worlds
<1>3. w.dict[Root][t].deps \in Seq(Tokens)  BY <1>2 DEF Bindings
<1>4. <<>> \in Seq(Tokens)  OBVIOUS
<1>5. Needs(w, t) \in Seq(Tokens)  BY <1>3, <1>4 DEF Needs
<1> QED  BY <1>5

(* walk() has a solution: the least relation closed under its rules.       *)
LEMMA WalksExist ==
  ASSUME World \in Worlds
  PROVE  \E walk : Walks(walk)
<1>. DEFINE U == (SUBSET Tokens) \X Tokens
            Step(F) == {x \in U : \/ x[2] \in x[1]
                                  \/ \E n \in DOMAIN Needs(World, x[2]) :
                                       <<x[1] \cup {x[2]}, Needs(World, x[2])[n]>> \in F}
            least == {x \in U : \A F \in SUBSET U : Step(F) \subseteq F => x \in F}
            walk == [path \in SUBSET Tokens |-> [key \in Tokens |-> <<path, key>> \in least]]
<1>1. \A F, G : F \subseteq G => Step(F) \subseteq Step(G)
  OBVIOUS
<1>2. \A F : Step(F) \in SUBSET U
  OBVIOUS
<1>3. \A x \in U : x \in least <=> \A F \in SUBSET U : Step(F) \subseteq F => x \in F
  OBVIOUS
<1>4. least \in SUBSET U
  OBVIOUS
<1>. HIDE DEF least
<1>5. Step(least) \subseteq least
  <2>. SUFFICES ASSUME NEW x \in Step(least) PROVE x \in least
    OBVIOUS
  <2>1. x \in U  BY <1>2
  <2>2. ASSUME NEW F \in SUBSET U, Step(F) \subseteq F PROVE x \in F
    <3>. HIDE DEF Step, U
    <3>1. least \subseteq F  BY <1>3, <1>4, <2>2
    <3> QED  BY <1>1, <2>2, <3>1
  <2>. HIDE DEF Step, U
  <2> QED  BY <1>3, <2>1, <2>2
<1>6. least \subseteq Step(least)
  <2>. HIDE DEF Step, U
  <2>1. Step(Step(least)) \subseteq Step(least)  BY <1>1, <1>5
  <2> QED  BY <1>2, <1>3, <1>4, <2>1
<1>7. ASSUME NEW path \in SUBSET Tokens, NEW key \in Tokens
      PROVE  <<path, key>> \in least <=> Meets(walk, path, key)
  <2>1. <<path, key>> \in U  OBVIOUS
  <2>2. <<path, key>> \in least <=> <<path, key>> \in Step(least)
    BY <1>5, <1>6
  <2>3. <<path, key>> \in Step(least) <=>
          \/ key \in path
          \/ \E n \in DOMAIN Needs(World, key) :
               <<path \cup {key}, Needs(World, key)[n]>> \in least
    BY <2>1
  <2>4. path \cup {key} \in SUBSET Tokens  OBVIOUS
  <2>5. \A n \in DOMAIN Needs(World, key) :
          walk[path \cup {key}][Needs(World, key)[n]]
            <=> <<path \cup {key}, Needs(World, key)[n]>> \in least
    BY <2>4, NeedsAre
  <2>. HIDE DEF U, Step, walk
  <2> QED  BY <2>2, <2>3, <2>5 DEF Meets
<1>8. Walks(walk)
  <2>1. ASSUME NEW path \in SUBSET Tokens, NEW key \in Tokens
        PROVE  (<<path, key>> \in least) = Meets(walk, path, key)
    <3>1. Meets(walk, path, key) \in BOOLEAN  BY DEF Meets
    <3>2. <<path, key>> \in least <=> Meets(walk, path, key)  BY <1>7
    <3>. HIDE DEF walk
    <3> QED  BY <3>1, <3>2
  <2>2. ASSUME NEW path \in SUBSET Tokens
        PROVE  [key \in Tokens |-> <<path, key>> \in least]
                 = [key \in Tokens |-> Meets(walk, path, key)]
    <3>. HIDE DEF walk
    <3> QED  BY <2>1
  <2>3. walk = [path \in SUBSET Tokens |-> [key \in Tokens |-> Meets(walk, path, key)]]
    <3>. DEFINE row(path) == [key \in Tokens |-> <<path, key>> \in least]
                met(path) == [key \in Tokens |-> Meets(walk, path, key)]
    <3>1. \A path \in SUBSET Tokens : row(path) = met(path)  BY <2>2
    <3>2. walk = [path \in SUBSET Tokens |-> row(path)]  OBVIOUS
    <3>. HIDE DEF walk
    <3>. HIDE DEF row, met
    <3>4. walk = [path \in SUBSET Tokens |-> met(path)]  BY <3>1, <3>2
    <3> QED  BY <3>4 DEF met
  <2>. HIDE DEF walk
  <2> QED  BY <2>3 DEF Walks
<1> QED  BY <1>8

LEMMA WalkIs ==
  ASSUME World \in Worlds
  PROVE  \E walk :
           /\ \A path \in SUBSET Tokens, key \in Tokens :
                walk[path][key] <=> Meets(walk, path, key)
           /\ \A t \in Tokens : WalkIsCircular(Root, t) <=> walk[{}][t]
<1>. DEFINE walk == CHOOSE walk : Walks(walk)
<1>1. Walks(walk)  BY WalksExist
<1>2. ASSUME NEW t \in Tokens PROVE WalkIsCircular(Root, t) <=> walk[{}][t]
  BY DEF WalkIsCircular, Walks, Meets, Needs, NewPath, World, Has
<1>. HIDE DEF walk
<1>3. \A path \in SUBSET Tokens, key \in Tokens : walk[path][key] <=> Meets(walk, path, key)
  BY <1>1 DEF Walks
<1> QED  BY <1>2, <1>3

(* The worlds that calls made now to the root come to.                     *)
Like(w) == w \in Worlds /\ Good(w) /\ SameBindings(World, w)

(* Dependencies that such a call may have still to resolve.                *)
Resolving(a) ==
  /\ a \in Resolutions /\ a.asked = Root
  /\ Like(a.world) /\ Reached(a.world, Root, a.got)

All(w, t) == [world |-> w, asked |-> Root, deps |-> w.dict[Root][t].deps, got |-> <<>>]

LEMMA LikeNeeds ==
  ASSUME NEW w, Like(w), NEW t \in Tokens
  PROVE  /\ w.dict[Root][t].entity = World.dict[Root][t].entity
         /\ w.dict[Root][t].deps = World.dict[Root][t].deps
         /\ Needs(w, t) = Needs(World, t)
BY DEF Like, SameBindings, Needs, Containers

LEMMA AllIsReady ==
  ASSUME NEW w, Like(w), NEW t \in Tokens
  PROVE  Resolving(All(w, t)) /\ All(w, t).deps = World.dict[Root][t].deps
<1>1. Root \in Containers  BY DEF Containers
<1>2. w.dict[Root][t] \in Bindings  BY <1>1 DEF Like, Worlds
<1>3. w.dict[Root][t].deps \in Seq(Tokens)  BY <1>2 DEF Bindings
<1>4. <<>> \in Seq(Nat)  OBVIOUS
<1>5. /\ All(w, t).world = w /\ All(w, t).asked = Root /\ All(w, t).got = <<>>
      /\ All(w, t).deps = w.dict[Root][t].deps
  BY DEF All
<1>6. All(w, t) \in Resolutions
  BY <1>1, <1>3, <1>4 DEF All, Resolutions, Like
<1>7. Reached(w, Root, <<>>)
  BY DEF Reached
<1> QED  BY <1>5, <1>6, <1>7, LikeNeeds DEF Resolving

(* A call to the root for t returns exactly when those for what t needs    *)
(* do.                                                                     *)
LEMMA CallIs ==
  ASSUME NEW all, Fine(all), NEW w, Like(w), NEW t \in Tokens
  PROVE  LET e == World.dict[Root][t].entity
             error == GetWith(all, w, Root, t).error
         IN /\ e \in {"none", "class", "factory", "value"}
            /\ e = "none" => error = "missing"
            /\ e = "value" => error = "none"
            /\ e \in {"class", "factory"} => error = all[All(w, t)].error
<1>. DEFINE e == World.dict[Root][t].entity
            b == w.dict[Root][t]
            r == all[All(w, t)]
            v == r.world
            out == GetWith(all, w, Root, t)
<1>1. Root \in Containers  BY DEF Containers
<1>2. b \in Bindings  BY <1>1 DEF Like, Worlds
<1>3. b.entity = e /\ e \in {"none", "class", "factory", "value"}
  BY <1>2, LikeNeeds DEF Bindings
<1>4. out = CASE b.entity = "none" -> Throw(w, "missing")
              [] b.entity = "value" -> Done(w, b.cache)
              [] b.entity \in {"class", "factory"} ->
                   IF Failed(r) THEN Throw(v, r.error)
                   ELSE IF v.dict[Root][t].cache # 0 THEN Done(v, v.dict[Root][t].cache)
                   ELSE Construct(v, Root, t, r.out)
  BY DEF GetWith, Resolver, All
<1>5. Construct(v, Root, t, r.out).error = "none"
  BY DEF Construct, Done
<1>. HIDE DEF out, r, v, b
<1>6. b.entity = "none" => out.error = "missing"
  BY <1>4 DEF Throw
<1>7. b.entity = "value" => out.error = "none"
  BY <1>4 DEF Done
<1>8. CASE b.entity \in {"class", "factory"}
  <2>1. out = IF Failed(r) THEN Throw(v, r.error)
              ELSE IF v.dict[Root][t].cache # 0 THEN Done(v, v.dict[Root][t].cache)
              ELSE Construct(v, Root, t, r.out)
    BY <1>4, <1>8
  <2>2. out.error = r.error
    BY <1>5, <2>1 DEF Failed, Throw, Done
  <2> QED  BY <1>3, <1>8, <2>2 DEF out, r
<1> QED  BY <1>3, <1>6, <1>7, <1>8 DEF out

(* The calls that resolve a list, the first of them and the rest.          *)
LEMMA ListIs ==
  ASSUME NEW n \in Nat, NEW a, Resolving(a)
  PROVE  LET r == GetWith(GetAll[n], a.world, Root, Head(a.deps))
             error == GetAll[n + 1][a].error
         IN /\ a.deps = <<>> => error = "none"
            /\ a.deps # <<>> => /\ Head(a.deps) \in Tokens
                                /\ r.error # "none" => error = r.error
                                /\ r.error = "none" =>
                                     /\ Resolving(After(a, r))
                                     /\ After(a, r).deps = Tail(a.deps)
                                     /\ error = GetAll[n][After(a, r)].error
<1>. DEFINE r == GetWith(GetAll[n], a.world, Root, Head(a.deps))
            next == After(a, r)
            out == GetAll[n + 1][a]
<1>1. a \in Resolutions /\ a.asked = Root /\ Like(a.world) /\ Reached(a.world, a.asked, a.got)
  BY DEF Resolving
<1>2. out = IF a.deps = <<>> THEN Done(a.world, a.got)
            ELSE IF Failed(r) THEN r ELSE GetAll[n][next]
  BY <1>1, GetAllIs DEF Resolve
<1>3. a.deps = <<>> => out.error = "none"
  BY <1>2 DEF Done
<1>4. CASE a.deps # <<>>
  <2>1. Head(a.deps) \in Tokens
    BY <1>1, <1>4 DEF Resolutions
  <2>2. Sound(a.world, Root, r)
    BY <1>1, <2>1, GetAllIsFine, GetWithIsSound DEF Like, Containers
  <2>. HIDE DEF r, next, out
  <2>3. r.error # "none" => out.error = r.error
    BY <1>2, <1>4 DEF Failed
  <2>4. ASSUME r.error = "none"
        PROVE  Resolving(next) /\ next.deps = Tail(a.deps) /\ out = GetAll[n][next]
    <3>1. /\ next \in Resolutions /\ next.world = r.world /\ next.asked = Root
          /\ next.deps = Tail(a.deps)
          /\ Good(r.world) /\ Reached(r.world, Root, next.got)
      BY <1>1, <1>4, <2>2, <2>4, AfterIs DEF next, Like
    <3>2. SameBindings(World, r.world)
      BY <1>1, <2>2, SameIsTransitive DEF Sound, Like
    <3>3. Resolving(next)
      BY <3>1, <3>2 DEF Resolving, Like, Good
    <3> QED  BY <1>2, <1>4, <2>4, <3>1, <3>3 DEF Failed
  <2> QED  BY <1>4, <2>1, <2>3, <2>4 DEF out, next, r
<1> QED  BY <1>3, <1>4 DEF out

(* A call to the root for t would return within a stack of n.              *)
Returns(t, n) == \E w : Like(w) /\ GetWith(GetAll[n], w, Root, t).error = "none"

LEMMA ListReturns ==
  ASSUME NEW n \in Nat, NEW a, Resolving(a), GetAll[n][a].error = "none"
  PROVE  \A i \in DOMAIN a.deps : \E m \in Nat : m < n /\ Returns(a.deps[i], m)
<1>. DEFINE Goal(low) == \A x : Resolving(x) /\ GetAll[low][x].error = "none" =>
                         \A i \in DOMAIN x.deps : \E m \in Nat : m < low /\ Returns(x.deps[i], m)
            bad == {low \in Nat : ~ Goal(low)}
<1>1. ASSUME bad # {} PROVE FALSE
  <2>1. PICK low \in bad : \A i \in bad : low <= i
    <3>1. bad \in SUBSET Nat  OBVIOUS
    <3>. HIDE DEF bad
    <3> QED  BY <1>1, <3>1, LeastNatural
  <2>2. low \in Nat /\ ~ Goal(low)  OBVIOUS
  <2>3. PICK x : /\ Resolving(x) /\ GetAll[low][x].error = "none"
                 /\ ~ \A i \in DOMAIN x.deps : \E m \in Nat : m < low /\ Returns(x.deps[i], m)
    BY <2>2
  <2>4. x \in Resolutions /\ x.deps \in Seq(Tokens) /\ Like(x.world)
    BY <2>3 DEF Resolving, Resolutions
  <2>5. low # 0
    <3>1. GetAll[0][x].error = "overflow"  BY <2>4, GetAllIs DEF Exhausted, Throw
    <3> QED  BY <2>3, <3>1
  <2>6. PICK n0 \in Nat : n0 = low - 1  BY <2>2, <2>5
  <2>7. low = n0 + 1 /\ n0 < low /\ ~ (low <= n0)  BY <2>2, <2>6
  <2>8. Goal(n0)
    <3>1. n0 \notin bad
      <4>. HIDE DEF bad
      <4> QED  BY <2>1, <2>7
    <3> QED  BY <3>1
  <2>. HIDE DEF Goal, bad
  <2>9. x.deps # <<>>  BY <2>3
  <2>. DEFINE r == GetWith(GetAll[n0], x.world, Root, Head(x.deps))
  <2>10. /\ r.error # "none" => GetAll[low][x].error = r.error
         /\ r.error = "none" => /\ Resolving(After(x, r)) /\ After(x, r).deps = Tail(x.deps)
                                /\ GetAll[low][x].error = GetAll[n0][After(x, r)].error
    BY <2>3, <2>7, <2>9, ListIs
  <2>11. r.error = "none"  BY <2>3, <2>10
  <2>12. Returns(Head(x.deps), n0)
    BY <2>4, <2>11 DEF Returns
  <2>. HIDE DEF r
  <2>13. \A i \in DOMAIN Tail(x.deps) : \E m \in Nat : m < n0 /\ Returns(Tail(x.deps)[i], m)
    BY <2>3, <2>8, <2>10, <2>11 DEF Goal
  <2>14. ASSUME NEW i \in DOMAIN x.deps
         PROVE  \E m \in Nat : m < low /\ Returns(x.deps[i], m)
    <3>. DEFINE s == x.deps
    <3>1. s \in Seq(Tokens) /\ s # <<>>  BY <2>4, <2>9
    <3>2. CASE i = 1
      <4>1. s[i] = Head(s)  BY <3>1, <3>2
      <4> QED  BY <2>7, <2>12, <4>1
    <3>3. CASE i # 1
      <4>1. i \in 1..Len(s) /\ i - 1 \in 1..(Len(s) - 1) /\ (i - 1) + 1 = i
        BY <3>1, <3>3
      <4>2. i - 1 \in DOMAIN Tail(s) /\ Tail(s)[i - 1] = s[i]
        BY <3>1, <4>1
      <4>3. PICK m \in Nat : m < n0 /\ Returns(Tail(s)[i - 1], m)
        BY <2>13, <4>2
      <4>4. m < low  BY <2>7, <4>3
      <4> QED  BY <4>2, <4>3, <4>4
    <3> QED  BY <3>2, <3>3
  <2> QED  BY <2>3, <2>14
<1>2. Goal(n)  BY <1>1
<1> QED  BY <1>2

LEMMA NeedsReturn ==
  ASSUME NEW n \in Nat, NEW t \in Tokens, Returns(t, n)
  PROVE  \A i \in DOMAIN Needs(World, t) :
           \E m \in Nat : m < n /\ Returns(Needs(World, t)[i], m)
<1>1. PICK w : Like(w) /\ GetWith(GetAll[n], w, Root, t).error = "none"
  BY DEF Returns
<1>2. CASE World.dict[Root][t].entity = "class"
  <2>1. Fine(GetAll[n])  BY GetAllIsFine
  <2>2. GetAll[n][All(w, t)].error = "none"
    BY <1>1, <1>2, <2>1, CallIs
  <2>3. Resolving(All(w, t)) /\ All(w, t).deps = Needs(World, t)
    BY <1>1, <1>2, AllIsReady DEF Needs
  <2>4. \A i \in DOMAIN All(w, t).deps : \E m \in Nat : m < n /\ Returns(All(w, t).deps[i], m)
    BY <2>2, <2>3, ListReturns
  <2> QED  BY <2>3, <2>4
<1>3. CASE World.dict[Root][t].entity # "class"
  BY <1>3 DEF Needs
<1> QED  BY <1>2, <1>3

(* A token whose call returns meets none of the tokens on its way, when    *)
(* theirs need a deeper stack.                                             *)
First(t, n) == Returns(t, n) /\ \A m \in Nat : m < n => ~ Returns(t, m)

LEMMA FirstExists ==
  ASSUME NEW n \in Nat, NEW t, Returns(t, n)
  PROVE  \E m \in Nat : m <= n /\ First(t, m)
<1>. DEFINE all == {m \in Nat : Returns(t, m)}
<1>1. all \in SUBSET Nat /\ n \in all  OBVIOUS
<1>2. PICK m \in all : \A i \in all : m <= i
  <2>. HIDE DEF all
  <2> QED  BY <1>1, LeastNatural
<1>3. m \in Nat /\ Returns(t, m) /\ m <= n  BY <1>1, <1>2
<1>4. ASSUME NEW i \in Nat, i < m PROVE ~ Returns(t, i)
  <2>1. ~ (m <= i)  BY <1>3, <1>4
  <2>2. i \notin all
    <3>. HIDE DEF all
    <3> QED  BY <1>2, <2>1
  <2> QED  BY <2>2
<1> QED  BY <1>3, <1>4 DEF First

LEMMA ReturningMeetsNone ==
  ASSUME World \in Worlds, NEW walk,
         \A path \in SUBSET Tokens, key \in Tokens :
           walk[path][key] <=> Meets(walk, path, key),
         NEW n \in Nat
  PROVE  \A path \in SUBSET Tokens, t \in Tokens :
           First(t, n) /\ (\A p \in path, m \in Nat : m <= n => ~ Returns(p, m))
             => ~ walk[path][t]
<1>. DEFINE Goal(low) == \A path \in SUBSET Tokens, t \in Tokens :
                         First(t, low) /\ (\A p \in path, m \in Nat : m <= low => ~ Returns(p, m))
                           => ~ walk[path][t]
            bad == {low \in Nat : ~ Goal(low)}
<1>1. ASSUME bad # {} PROVE FALSE
  <2>1. PICK low \in bad : \A i \in bad : low <= i
    <3>1. bad \in SUBSET Nat  OBVIOUS
    <3>. HIDE DEF bad
    <3> QED  BY <1>1, <3>1, LeastNatural
  <2>2. low \in Nat /\ ~ Goal(low)  OBVIOUS
  <2>3. \A i \in Nat : i < low => Goal(i)
    <3>. SUFFICES ASSUME NEW i \in Nat, i < low PROVE Goal(i)
      OBVIOUS
    <3>1. ~ (low <= i)  BY <2>2
    <3>2. i \notin bad
      <4>. HIDE DEF bad
      <4> QED  BY <2>1, <3>1
    <3> QED  BY <3>2
  <2>4. PICK path \in SUBSET Tokens, t \in Tokens :
          /\ First(t, low)
          /\ \A p \in path, m \in Nat : m <= low => ~ Returns(p, m)
          /\ walk[path][t]
    BY <2>2
  <2>. HIDE DEF Goal, bad
  <2>5. Returns(t, low) /\ \A m \in Nat : m < low => ~ Returns(t, m)
    BY <2>4 DEF First
  <2>6. low <= low  BY <2>2
  <2>7. t \notin path
    BY <2>2, <2>4, <2>5, <2>6
  <2>8. Meets(walk, path, t)  BY <2>4
  <2>9. PICK i \in DOMAIN Needs(World, t) : walk[path \cup {t}][Needs(World, t)[i]]
    BY <2>7, <2>8 DEF Meets
  <2>. DEFINE d == Needs(World, t)[i]
  <2>10. d \in Tokens  BY NeedsAre
  <2>11. PICK m \in Nat : m < low /\ Returns(d, m)
    BY <2>2, <2>5, NeedsReturn
  <2>12. PICK j \in Nat : j <= m /\ First(d, j)
    BY <2>11, FirstExists
  <2>13. j < low  BY <2>2, <2>11, <2>12
  <2>14. \A p \in path \cup {t}, q \in Nat : q <= j => ~ Returns(p, q)
    <3>. SUFFICES ASSUME NEW p \in path \cup {t}, NEW q \in Nat, q <= j PROVE ~ Returns(p, q)
      OBVIOUS
    <3>1. q < low /\ q <= low  BY <2>2, <2>13
    <3>2. CASE p \in path  BY <2>4, <3>1, <3>2
    <3>3. CASE p = t  BY <2>5, <3>1, <3>3
    <3> QED  BY <3>2, <3>3
  <2>15. ~ walk[path \cup {t}][d]
    <3>1. path \cup {t} \in SUBSET Tokens  OBVIOUS
    <3>2. Goal(j)  BY <2>3, <2>13
    <3> QED  BY <2>10, <2>12, <2>14, <3>1, <3>2 DEF Goal
  <2> QED  BY <2>9, <2>15
<1>2. Goal(n)  BY <1>1
<1> QED  BY <1>2

(* The other way: a list takes one level more for each of its tokens than  *)
(* the deepest of them.                                                    *)
LEMMA ListsFit ==
  ASSUME NEW below \in Nat, NEW S \in SUBSET Tokens,
         \A n \in Nat, d \in S, w \in Worlds :
           below < n /\ Like(w) => GetWith(GetAll[n], w, Root, d).error # "overflow",
         NEW n \in Nat, NEW a, Resolving(a), below + Len(a.deps) < n,
         \A i \in DOMAIN a.deps : a.deps[i] \in S
  PROVE  GetAll[n][a].error # "overflow"
<1>. DEFINE Fits(x, m) == /\ Resolving(x) /\ below + Len(x.deps) < m
                          /\ \A i \in DOMAIN x.deps : x.deps[i] \in S
            Goal(m) == \A x : Fits(x, m) => GetAll[m][x].error # "overflow"
            bad == {m \in Nat : ~ Goal(m)}
<1>1. ASSUME bad # {} PROVE FALSE
  <2>1. PICK m \in bad : \A i \in bad : m <= i
    <3>1. bad \in SUBSET Nat  OBVIOUS
    <3>. HIDE DEF bad
    <3> QED  BY <1>1, <3>1, LeastNatural
  <2>2. m \in Nat /\ ~ Goal(m)  OBVIOUS
  <2>3. PICK x : Fits(x, m) /\ GetAll[m][x].error = "overflow"
    BY <2>2
  <2>4. /\ Resolving(x) /\ below + Len(x.deps) < m /\ Like(x.world)
        /\ \A i \in DOMAIN x.deps : x.deps[i] \in S
        /\ x.deps \in Seq(Tokens) /\ Len(x.deps) \in Nat
    BY <2>3 DEF Resolving, Resolutions
  <2>5. PICK p \in Nat : p = m - 1  BY <2>2, <2>4
  <2>6. m = p + 1 /\ ~ (m <= p)  BY <2>2, <2>5
  <2>7. Goal(p)
    <3>1. p \notin bad
      <4>. HIDE DEF bad
      <4> QED  BY <2>1, <2>6
    <3> QED  BY <3>1
  <2>. HIDE DEF Goal, bad
  <2>. DEFINE r == GetWith(GetAll[p], x.world, Root, Head(x.deps))
              next == After(x, r)
  <2>8. /\ x.deps = <<>> => GetAll[m][x].error = "none"
        /\ x.deps # <<>> => /\ r.error # "none" => GetAll[m][x].error = r.error
                            /\ r.error = "none" =>
                                 /\ Resolving(next) /\ next.deps = Tail(x.deps)
                                 /\ GetAll[m][x].error = GetAll[p][next].error
    BY <2>4, <2>6, ListIs
  <2>9. x.deps # <<>>  BY <2>3, <2>8
  <2>10. /\ Head(x.deps) \in S /\ Len(x.deps) # 0
         /\ Len(Tail(x.deps)) = Len(x.deps) - 1
         /\ \A i \in DOMAIN Tail(x.deps) : Tail(x.deps)[i] \in S
    <3>. DEFINE s == x.deps
    <3>1. s \in Seq(Tokens) /\ s # <<>> /\ \A i \in DOMAIN s : s[i] \in S
      BY <2>4, <2>9
    <3>. HIDE DEF s
    <3>2. Len(s) \in Nat /\ Len(s) # 0 /\ DOMAIN s = 1..Len(s)
      BY <3>1
    <3>3. Head(s) = s[1] /\ 1 \in DOMAIN s
      BY <3>1, <3>2
    <3>4. Len(Tail(s)) = Len(s) - 1 /\ DOMAIN Tail(s) = 1..(Len(s) - 1)
      BY <3>1, <3>2
    <3>5. ASSUME NEW i \in DOMAIN Tail(s) PROVE Tail(s)[i] \in S
      <4>1. i + 1 \in DOMAIN s /\ Tail(s)[i] = s[i + 1]
        BY <3>1, <3>2, <3>4
      <4> QED  BY <3>1, <4>1
    <3> QED  BY <3>1, <3>2, <3>3, <3>4, <3>5 DEF s
  <2>11. below < p /\ below + (Len(x.deps) - 1) < p
    <3>. DEFINE len == Len(x.deps)
    <3>1. len \in Nat /\ len # 0 /\ below + len < m /\ m = p + 1
      BY <2>4, <2>6, <2>10
    <3>. HIDE DEF len
    <3>2. below < p /\ below + (len - 1) < p  BY <3>1
    <3> QED  BY <3>2 DEF len
  <2>12. r.error # "overflow"
    BY <2>4, <2>10, <2>11 DEF Like
  <2>. HIDE DEF r, next
  <2>13. r.error = "none"
    BY <2>3, <2>8, <2>9, <2>12
  <2>14. Fits(next, p)
    BY <2>8, <2>9, <2>10, <2>11, <2>13
  <2>15. GetAll[p][next].error # "overflow"
    BY <2>7, <2>14 DEF Goal
  <2> QED  BY <2>3, <2>8, <2>9, <2>13, <2>15
<1>2. Goal(n)  BY <1>1
<1> QED  BY <1>2

(* Where walk() meets nothing on its way, at most the tokens that it has   *)
(* not passed are ahead, and each takes as many levels as it has needs.    *)
LEMMA GraphsFit ==
  ASSUME World \in Worlds, NEW walk,
         \A path \in SUBSET Tokens, key \in Tokens :
           walk[path][key] <=> Meets(walk, path, key),
         IsFiniteSet(Tokens), NEW longest \in Nat,
         \A t \in Tokens : Len(Needs(World, t)) <= longest,
         \A t \in Tokens : World.dict[Root][t].entity # "factory",
         NEW left \in Nat
  PROVE  \A path \in SUBSET Tokens, t \in Tokens, n \in Nat, w \in Worlds :
           (/\ Cardinality(Tokens \ path) <= left
            /\ left * longest < n
            /\ Like(w)
            /\ ~ walk[path][t])
              => GetWith(GetAll[n], w, Root, t).error # "overflow"
<1>. DEFINE Fits(low, path, t, n, w) ==
              /\ Cardinality(Tokens \ path) <= low
              /\ low * longest < n
              /\ Like(w)
              /\ ~ walk[path][t]
            Goal(low) == \A path \in SUBSET Tokens, t \in Tokens, n \in Nat, w \in Worlds :
                         Fits(low, path, t, n, w) =>
                           GetWith(GetAll[n], w, Root, t).error # "overflow"
            bad == {low \in Nat : ~ Goal(low)}
<1>1. ASSUME bad # {} PROVE FALSE
  <2>1. PICK low \in bad : \A i \in bad : low <= i
    <3>1. bad \in SUBSET Nat  OBVIOUS
    <3>. HIDE DEF bad
    <3> QED  BY <1>1, <3>1, LeastNatural
  <2>2. low \in Nat /\ ~ Goal(low)  OBVIOUS
  <2>3. PICK path \in SUBSET Tokens, t \in Tokens, n \in Nat, w \in Worlds :
          Fits(low, path, t, n, w) /\ GetWith(GetAll[n], w, Root, t).error = "overflow"
    BY <2>2
  <2>4. /\ t \notin path
        /\ \A i \in DOMAIN Needs(World, t) : ~ walk[path \cup {t}][Needs(World, t)[i]]
    BY <2>3 DEF Meets
  <2>5. /\ path \cup {t} \in SUBSET Tokens
        /\ Cardinality(Tokens \ (path \cup {t})) = Cardinality(Tokens \ path) - 1
        /\ Cardinality(Tokens \ path) \in Nat
        /\ Cardinality(Tokens \ path) # 0
    <3>1. IsFiniteSet(Tokens \ path)
      BY FS_Difference
    <3>2. Tokens \ (path \cup {t}) = (Tokens \ path) \ {t}
      OBVIOUS
    <3>3. t \in Tokens \ path  BY <2>4
    <3>4. Cardinality((Tokens \ path) \ {t}) = Cardinality(Tokens \ path) - 1
      BY <3>1, <3>3, FS_RemoveElement
    <3>5. Cardinality(Tokens \ path) \in Nat  BY <3>1, FS_CardinalityType
    <3>6. Cardinality(Tokens \ path) # 0  BY <3>1, <3>3, FS_EmptySet
    <3> QED  BY <3>2, <3>4, <3>5, <3>6
  <2>6. low # 0  BY <2>2, <2>3, <2>5
  <2>7. PICK m \in Nat : m = low - 1  BY <2>2, <2>6
  <2>8. low = m + 1 /\ ~ (low <= m) /\ Cardinality(Tokens \ (path \cup {t})) <= m
    BY <2>2, <2>3, <2>5, <2>7
  <2>9. Goal(m)
    <3>1. m \notin bad
      <4>. HIDE DEF bad
      <4> QED  BY <2>1, <2>8
    <3> QED  BY <3>1
  <2>10. m * longest \in Nat /\ low * longest = m * longest + longest
    BY <2>8
  <2>. HIDE DEF bad
  <2>11. Fine(GetAll[n])  BY GetAllIsFine
  <2>. DEFINE e == World.dict[Root][t].entity
              a == All(w, t)
  <2>12. /\ e \in {"none", "class", "factory", "value"}
         /\ e = "class"
         /\ GetAll[n][a].error = "overflow"
    BY <2>3, <2>11, CallIs
  <2>13. Resolving(a) /\ a.deps = Needs(World, t)
    BY <2>3, <2>12, AllIsReady DEF Needs
  <2>14. Needs(World, t) \in Seq(Tokens)  BY NeedsAre
  <2>15. DOMAIN Needs(World, t) = 1..Len(Needs(World, t)) /\ Len(Needs(World, t)) \in Nat
    BY <2>14
  <2>. DEFINE S == {Needs(World, t)[i] : i \in DOMAIN Needs(World, t)}
  <2>16. S \in SUBSET Tokens  BY NeedsAre
  <2>17. ASSUME NEW q \in Nat, NEW d \in S, NEW v, m * longest < q, Like(v)
         PROVE  GetWith(GetAll[q], v, Root, d).error # "overflow"
    <3>1. ~ walk[path \cup {t}][d]  BY <2>4
    <3>2. d \in Tokens  BY <2>16
    <3>3. Fits(m, path \cup {t}, d, q, v) /\ v \in Worlds
      BY <2>8, <2>17, <3>1 DEF Like
    <3>. HIDE DEF Fits, S
    <3> QED  BY <2>5, <2>9, <3>2, <3>3
  <2>18. m * longest + Len(a.deps) < n
    <3>1. low * longest < n  BY <2>3
    <3>2. Len(Needs(World, t)) <= longest  OBVIOUS
    <3>. HIDE DEF a
    <3> QED  BY <2>10, <2>13, <2>15, <3>1, <3>2
  <2>19. \A i \in DOMAIN a.deps : a.deps[i] \in S
    BY <2>13
  <2>20. GetAll[n][a].error # "overflow"
    <3>. HIDE DEF S, a, Goal, Fits
    <3> QED  BY <2>10, <2>13, <2>16, <2>17, <2>18, <2>19, ListsFit
  <2> QED  BY <2>12, <2>20
<1>2. Goal(left)
  <2>. HIDE DEF Goal
  <2> QED  BY <1>1
<1> QED  BY <1>2

(* Every binding has dependencies that its token may have.                 *)
Known == \A c \in Containers, t \in Tokens : dict[c][t].deps \in DepLists[t] \cup {<<>>}

LEMMA TakeKeepsKnown ==
  ASSUME Known, NEW r, SameBindings(World, r.world), Take(r)
  PROVE  Known'
BY DEF Known, SameBindings, World, Take

LEMMA BoundKnown ==
  ASSUME ContainerInv, Known, NEW c \in Containers, NEW t \in Tokens, NEW b \in Bindings,
         b.deps \in DepLists[t] \cup {<<>>}, dict' = Rebound(c, t, b)
  PROVE  Known'
<1>1. /\ Rebound(c, t, b)[c][t] = b
      /\ \A d \in Containers, u \in Tokens :
           <<d, u>> # <<c, t>> => Rebound(c, t, b)[d][u] = dict[d][u]
  BY BoundIs
<1>2. ASSUME NEW d \in Containers, NEW u \in Tokens
      PROVE  Rebound(c, t, b)[d][u].deps \in DepLists[u] \cup {<<>>}
  <2>1. CASE <<d, u>> = <<c, t>>  BY <1>1, <2>1
  <2>2. CASE <<d, u>> # <<c, t>>  BY <1>1, <2>2 DEF Known
  <2> QED  BY <2>1, <2>2
<1> QED  BY <1>2 DEF Known

LEMMA KnownHolds == ContainerSpec => []Known
<1>1. ContainerInit => Known
  BY DEF ContainerInit, Known, NoBinding, Binding
<1>2. ContainerInv /\ Known /\ [ContainerNext]_containerVars => Known'
  <2>. SUFFICES ASSUME ContainerInv, Known, [ContainerNext]_containerVars
                PROVE  Known'
    OBVIOUS
  <2>1. ASSUME dict' = dict PROVE Known'
    BY <2>1 DEF Known
  <2>2. ASSUME NEW r \in Requests, CreateScope(r) PROVE Known'
    BY <2>1, <2>2 DEF CreateScope
  <2>3. ASSUME NEW c \in Containers, NEW t \in Tokens, Register(c, t) PROVE Known'
    <3>1. PICK deps \in DepLists[t], singleton \in BOOLEAN :
            dict' = [dict EXCEPT ![c][t] = Class(deps, singleton)]
      BY <2>3 DEF Register
    <3>2. deps \in Seq(Tokens)  OBVIOUS
    <3>. DEFINE b == Class(deps, singleton)
    <3>3. b \in Bindings  BY <3>2, ClassIs
    <3>4. b.deps = deps  BY DEF Class, Binding
    <3>5. dict' = Rebound(c, t, b)  BY <3>1 DEF Rebound
    <3>. HIDE DEF b
    <3> QED  BY <3>3, <3>4, <3>5, BoundKnown
  <2>4. ASSUME NEW t \in Tokens, ToFactoryAtRoot(t) PROVE Known'
    <3>1. PICK deps \in DepLists[t] : dict' = [dict EXCEPT ![Root][t] = Factory(deps)]
      BY <2>4 DEF ToFactoryAtRoot
    <3>2. deps \in Seq(Tokens) /\ Root \in Containers  BY DEF Containers
    <3>. DEFINE b == Factory(deps)
    <3>3. b \in Bindings  BY <3>2, FactoryIs
    <3>4. b.deps = deps  BY DEF Factory, Binding
    <3>5. dict' = Rebound(Root, t, b)  BY <3>1 DEF Rebound
    <3>. HIDE DEF b
    <3> QED  BY <3>2, <3>3, <3>4, <3>5, BoundKnown
  <2>5. ASSUME NEW c \in Containers, NEW t \in Tokens, SetValue(c, t) PROVE Known'
    <3>. DEFINE n == Len(made')
                b == Value(n)
    <3>1. made \in Seq(Objects)  BY DEF ContainerInv, Good, World, Worlds
    <3>2. n \in Nat
      <4>1. Object(c, t, <<>>, TRUE) \in Objects  BY DEF Object, Objects
      <4>2. made' \in Seq(Objects)  BY <2>5, <3>1, <4>1, AppendProperties DEF SetValue
      <4> QED  BY <4>2
    <3>3. b \in Bindings  BY <3>2, ValueIs
    <3>4. b.deps = <<>>  BY DEF Value, Binding
    <3>5. dict' = Rebound(c, t, b)  BY <2>5 DEF SetValue, Rebound
    <3>. HIDE DEF b
    <3> QED  BY <3>3, <3>4, <3>5, BoundKnown
  <2>6. \A c \in Containers, t \in Tokens : SameBindings(World, Get(World, c, t).world)
    BY GetIsSound DEF ContainerInv, Good, Sound
  <2>7. ASSUME NEW c \in Containers, NEW t \in Tokens, Ask(c, t) PROVE Known'
    BY <2>6, <2>7, TakeKeepsKnown DEF Ask
  <2>8. ASSUME NEW c \in Containers, NEW t \in Tokens, AskController(c, t) PROVE Known'
    <3>. DEFINE r == ResolveController(c, t)
                w == Get(World, c, t).world
                v == Get(w, Root, t).world
    <3>1. Root \in Containers  BY DEF Containers
    <3>2. SameBindings(World, v)
      <4>1. Good(w) /\ w \in Worlds  BY GetIsSound DEF ContainerInv, Good, Sound
      <4>2. SameBindings(World, w)  BY <2>6
      <4>. HIDE DEF w
      <4>3. SameBindings(w, v)  BY <3>1, <4>1, GetIsSound DEF Sound
      <4>. HIDE DEF v
      <4> QED  BY <4>2, <4>3, SameIsTransitive
    <3>3. SameBindings(World, r.world)
      BY <2>6, <3>1, <3>2 DEF ResolveController
    <3>. HIDE DEF r
    <3> QED  BY <2>8, <3>3, TakeKeepsKnown DEF AskController, r
  <2>9. CASE UNCHANGED containerVars
    BY <2>1, <2>9 DEF containerVars
  <2> QED  BY <2>2, <2>3, <2>4, <2>5, <2>7, <2>8, <2>9 DEF ContainerNext
<1> QED  BY <1>1, <1>2, ContainerInvHolds, PTL DEF ContainerSpec

(* The stack takes every chain of different tokens and the needs of each.  *)
DeepStack ==
  /\ IsFiniteSet(Tokens)
  /\ \E longest \in Nat :
       /\ \A t \in Tokens : \A deps \in DepLists[t] : Len(deps) <= longest
       /\ Cardinality(Tokens) * longest < StackSize

(* The graph that printGraph() shows of the root's classes has a circular  *)
(* dependency exactly where get() would not return, whatever has been      *)
(* bound and resolved before.                                              *)
THEOREM CyclesDoNotReturn ==
  ASSUME DeepStack
  PROVE  ContainerSpec => []CyclesAreReported
<1>1. ASSUME ContainerInv, Known PROVE CyclesAreReported
  <2>1. World \in Worlds /\ World.dict = dict /\ Good(World) /\ Root \in Containers
    BY <1>1 DEF ContainerInv, Good, World, Containers
  <2>2. Like(World)  BY <2>1, SameIsReflexive DEF Like
  <2>3. PICK walk :
          /\ \A path \in SUBSET Tokens, key \in Tokens :
               walk[path][key] <=> Meets(walk, path, key)
          /\ \A t \in Tokens : WalkIsCircular(Root, t) <=> walk[{}][t]
    BY <2>1, WalkIs
  <2>4. StackSize \in Nat  OBVIOUS
  <2>. SUFFICES ASSUME NEW t \in Tokens
                PROVE  /\ (\A u \in Tokens : dict[Root][u].entity # "factory")
                            => (Get(World, Root, t).error = "overflow" => WalkIsCircular(Root, t))
                       /\ WalkIsCircular(Root, t) =>
                            Get(World, Root, t).error \in {"overflow", "missing"}
    BY DEF CyclesAreReported
  <2>. DEFINE error == GetWith(GetAll[StackSize], World, Root, t).error
  <2>5. error = Get(World, Root, t).error  BY DEF Get
  <2>6. error \in Errors
    BY <2>1, <2>5, GetIsSound DEF Sound
  <2>7. ASSUME WalkIsCircular(Root, t)
        PROVE  error # "none"
    <3>1. SUFFICES ASSUME error = "none" PROVE FALSE
      OBVIOUS
    <3>2. Returns(t, StackSize)  BY <2>2, <3>1 DEF Returns
    <3>3. PICK n \in Nat : First(t, n)  BY <2>4, <3>2, FirstExists
    <3>4. ~ walk[{}][t]
      BY <2>1, <2>3, <3>3, ReturningMeetsNone
    <3> QED  BY <2>3, <2>7, <3>4
  <2>8. ASSUME \A u \in Tokens : dict[Root][u].entity # "factory",
               ~ WalkIsCircular(Root, t)
        PROVE  error # "overflow"
    <3>1. PICK longest \in Nat :
            /\ \A u \in Tokens : \A deps \in DepLists[u] : Len(deps) <= longest
            /\ Cardinality(Tokens) * longest < StackSize
      BY DEF DeepStack
    <3>2. \A u \in Tokens : Len(Needs(World, u)) <= longest
      <4>. SUFFICES ASSUME NEW u \in Tokens PROVE Len(Needs(World, u)) <= longest
        OBVIOUS
      <4>1. Needs(World, u) \in DepLists[u] \cup {<<>>}
        BY <1>1, <2>1 DEF Known, Needs
      <4>2. Len(<<>>) <= longest  OBVIOUS
      <4> QED  BY <3>1, <4>1, <4>2
    <3>3. IsFiniteSet(Tokens) /\ Cardinality(Tokens) \in Nat
      BY FS_CardinalityType DEF DeepStack
    <3>4. /\ {} \in SUBSET Tokens /\ Tokens \ {} = Tokens
          /\ Cardinality(Tokens) <= Cardinality(Tokens)
      BY <3>3
    <3>5. ~ walk[{}][t]  BY <2>3, <2>8
    <3>6. \A u \in Tokens : World.dict[Root][u].entity # "factory"
      BY <2>1, <2>8
    <3>. DEFINE left == Cardinality(Tokens)
    <3>7. \A path \in SUBSET Tokens, u \in Tokens, n \in Nat, w \in Worlds :
            (/\ Cardinality(Tokens \ path) <= left
             /\ left * longest < n
             /\ Like(w)
             /\ ~ walk[path][u])
               => GetWith(GetAll[n], w, Root, u).error # "overflow"
      <4>1. left \in Nat  BY <3>3
      <4>. HIDE DEF left
      <4> QED  BY <2>1, <2>3, <3>2, <3>3, <3>6, <4>1, GraphsFit
    <3>8. Cardinality(Tokens \ {}) <= left /\ left * longest < StackSize
      BY <3>1, <3>4
    <3>. HIDE DEF left
    <3> QED  BY <2>1, <2>2, <2>4, <3>4, <3>5, <3>7, <3>8
  <2> QED  BY <2>5, <2>6, <2>7, <2>8 DEF Errors
<1> QED  BY <1>1, ContainerInvHolds, KnownHolds, PTL
==================================================================================
