-------------------------- MODULE ApplicationLifecycle --------------------------
(***************************************************************************)
(* A loaded application serves: RuntimeApplication.listen(), ServerRunner, *)
(* LifecycleManager, and what the adapters make of node:http.  The server  *)
(* says that it is ready, and the OnStart hooks run while it takes         *)
(* requests; close() stops it, waits for its connections, and runs the     *)
(* OnShutdown hooks in reverse.  close() may be called more than once.     *)
(***************************************************************************)
EXTENDS ModuleLoading

CONSTANTS
  Connections,  \* keep-alive connections of clients
  Closers,      \* the calls of close()
  MaxRequests   \* bound: requests in a run

ASSUME LifecycleAssumption == MaxRequests \in Nat

VARIABLES
  server,    \* the http.Server
  start,     \* the OnStart hook that runs; 0 before, one too many when done
  conn,      \* conn[c]: "none", "idle", or "waiting" for an answer
  requests,  \* how many requests there have been
  closing,   \* closing[x]: where call x of close() stands
  closed     \* the modules whose OnShutdown hook has done its work

serveVars == <<server, start, conn, requests, closing, closed>>
vars == <<loadVars, serveVars>>

Up == stage = "bootstrapped"

Init ==
  /\ LoadInit
  /\ server = "none"
  /\ start = 0
  /\ conn = [c \in Connections |-> "none"]
  /\ requests = 0
  /\ closing = [x \in Closers |-> [step |-> "none", left |-> 0, result |-> "none"]]
  /\ closed = {}

-----------------------------------------------------------------------------
(* listen().                                                               *)

(* With a port only the server has its handle at once; with a host it      *)
(* looks the host up first.                                                *)
Listen ==
  /\ Up /\ server = "none"
  /\ server' \in {"lookup", "open"}
  /\ UNCHANGED <<loadVars, start, conn, requests, closing, closed>>

Bound ==
  /\ Up /\ server = "lookup"
  /\ server' = "open"
  /\ UNCHANGED <<loadVars, start, conn, requests, closing, closed>>

(* The port is taken, and nobody listens for the error.                    *)
ListenFails ==
  /\ Up /\ server \in {"lookup", "open"} /\ start = 0
  /\ \A c \in Connections : conn[c] = "none"
  /\ stage' = "crashed"
  /\ UNCHANGED <<pipeline, composed, at, k, bound, pending, starts, hooks, serveVars>>

(* The ready callback begins runHooks("start").                            *)
Ready ==
  /\ Up /\ server = "open" /\ start = 0
  /\ start' = 1
  /\ UNCHANGED <<loadVars, server, conn, requests, closing, closed>>

(* A hook that throws rejects the promise of the callback, which nobody    *)
(* handles.                                                                *)
StartHook ==
  /\ Up /\ start \in 1..Len(starts)
  /\ \/ start' = start + 1 /\ UNCHANGED stage
     \/ stage' = "crashed" /\ UNCHANGED start
  /\ UNCHANGED <<pipeline, composed, at, k, bound, pending, starts, hooks,
                 server, conn, requests, closing, closed>>

-----------------------------------------------------------------------------
(* Clients.                                                                *)
Connect(c) ==
  /\ Up /\ server = "open" /\ conn[c] = "none"
  /\ conn' = [conn EXCEPT ![c] = "idle"]
  /\ UNCHANGED <<loadVars, server, start, requests, closing, closed>>

(* Also while the server drains: its connections are still there.          *)
Request(c) ==
  /\ Up /\ conn[c] = "idle" /\ requests < MaxRequests
  /\ conn' = [conn EXCEPT ![c] = "waiting"]
  /\ requests' = requests + 1
  /\ UNCHANGED <<loadVars, server, start, closing, closed>>

Answer(c) ==
  /\ Up /\ conn[c] = "waiting"
  /\ conn' = [conn EXCEPT ![c] = "idle"]
  /\ UNCHANGED <<loadVars, server, start, requests, closing, closed>>

(* The client leaves, or the connection has been idle for too long.        *)
Disconnect(c) ==
  /\ Up /\ conn[c] # "none"
  /\ conn' = [conn EXCEPT ![c] = "none"]
  /\ UNCHANGED <<loadVars, server, start, requests, closing, closed>>

-----------------------------------------------------------------------------
(* close().                                                                *)
At(x, step) == closing[x].step = step

(* runHooks("shutdown") has begun: the last hook first.                    *)
RunHooks(x, result) ==
  closing' = [closing EXCEPT ![x] =
    [step |-> IF hooks = <<>> THEN "settled" ELSE "hook",
     left |-> Len(hooks), result |-> result]]

\* Mutant: the promise of adapter.close() is not awaited.
CloseAtOnce(x) ==
  /\ Up /\ At(x, "none") /\ server # "none"
  /\ server' = IF server = "open" THEN "draining" ELSE server
  /\ RunHooks(x, "fulfilled")
  /\ UNCHANGED <<loadVars, start, conn, requests, closed>>

(* adapter.close(): server.close() takes the handle away and calls back    *)
(* when no connection is left.  To every call but the first it then says   *)
(* that the server was not running, and so it does, at once, to one that   *)
(* comes before the handle, which there will never be then, or after the   *)
(* end.  Disconnect drops the idle connections of a server that closes.    *)
Close(x) ==
  /\ Up /\ At(x, "none") /\ server # "none"
  /\ CASE server = "open" ->
            /\ server' = "draining"
            /\ closing' = [closing EXCEPT ![x].step = "stopping", ![x].result = "fulfilled"]
       [] server = "draining" ->
            /\ closing' = [closing EXCEPT ![x].step = "stopping", ![x].result = "rejected"]
            /\ UNCHANGED server
       [] OTHER -> server' = "shut" /\ RunHooks(x, "rejected")
  /\ UNCHANGED <<loadVars, start, conn, requests, closed>>

\* Mutant: the adapter keeps the callback of one caller.
StoppedOnce(x) ==
  /\ Up /\ At(x, "stopping") /\ server = "draining"
  /\ \A c \in Connections : conn[c] = "none"
  /\ server' = "shut"
  /\ RunHooks(x, closing[x].result)
  /\ UNCHANGED <<loadVars, start, conn, requests, closed>>

Stopped(x) ==
  /\ Up /\ At(x, "stopping")
  /\ \A c \in Connections : conn[c] = "none"
  /\ server' = "shut"
  /\ RunHooks(x, closing[x].result)
  /\ UNCHANGED <<loadVars, start, conn, requests, closed>>

\* Mutant: the hooks are run in the order in which they were pushed.
ForwardHook(x) ==
  /\ Up /\ At(x, "hook")
  /\ LET last == closing[x].left = 1
     IN \/ /\ closed' = closed \cup {hooks[Len(hooks) + 1 - closing[x].left]}
           /\ closing' = [closing EXCEPT ![x].left = @ - 1,
                                         ![x].step = IF last THEN "settled" ELSE "hook"]
        \/ /\ closing' = [closing EXCEPT ![x].step = "settled", ![x].result = "rejected"]
           /\ UNCHANGED closed
  /\ UNCHANGED <<loadVars, server, start, conn, requests>>

\* Mutant: a hook that throws is passed over.
HookOrNot(x) ==
  /\ Up /\ At(x, "hook")
  /\ \/ closed' = closed \cup {hooks[closing[x].left]}
     \/ UNCHANGED closed
  /\ closing' = [closing EXCEPT
       ![x].left = @ - 1,
       ![x].step = IF closing[x].left = 1 THEN "settled" ELSE "hook"]
  /\ UNCHANGED <<loadVars, server, start, conn, requests>>

(* One hook has run; the first that throws ends the loop.  A hook may be   *)
(* run again by another call of close().                                   *)
ShutdownHook(x) ==
  /\ Up /\ At(x, "hook")
  /\ LET last == closing[x].left = 1
     IN \/ /\ closed' = closed \cup {hooks[closing[x].left]}
           /\ closing' = [closing EXCEPT ![x].left = @ - 1,
                                         ![x].step = IF last THEN "settled" ELSE "hook"]
        \/ /\ closing' = [closing EXCEPT ![x].step = "settled", ![x].result = "rejected"]
           /\ UNCHANGED closed
  /\ UNCHANGED <<loadVars, server, start, conn, requests>>

-----------------------------------------------------------------------------
Next ==
  \/ LoadNext /\ UNCHANGED serveVars
  \/ Listen \/ Bound \/ ListenFails \/ Ready \/ StartHook
  \/ \E c \in Connections : Connect(c) \/ Request(c) \/ Answer(c) \/ Disconnect(c)
  \/ \E x \in Closers : Close(x) \/ Stopped(x) \/ ShutdownHook(x)

(* Handlers answer, idle connections time out, and hooks settle.           *)
Fairness ==
  /\ \A c \in Connections : WF_vars(Answer(c)) /\ WF_vars(conn[c] = "idle" /\ Disconnect(c))
  /\ \A x \in Closers : WF_vars(Stopped(x)) /\ WF_vars(ShutdownHook(x))

Spec == Init /\ [][Next]_vars
FairSpec == Spec /\ Fairness

-----------------------------------------------------------------------------
TypeOK ==
  /\ LoadTypeOK
  /\ server \in {"none", "lookup", "open", "draining", "shut"}
  /\ start \in 0..(Len(starts) + 1)
  /\ conn \in [Connections -> {"none", "idle", "waiting"}]
  /\ requests \in 0..MaxRequests
  /\ closing \in [Closers -> [step : {"none", "stopping", "hook", "settled"},
                              left : 0..Len(hooks),
                              result : {"none", "fulfilled", "rejected"}]]
  /\ closed \subseteq {hooks[i] : i \in DOMAIN hooks}

(* Nobody waits for an answer once a shutdown hook runs, whichever call of *)
(* close() runs it: what a handler needs is closed after the answers.      *)
AnswersBeforeHooks ==
  closed # {} \/ (\E x \in Closers : At(x, "hook")) =>
    \A c \in Connections : conn[c] # "waiting"

(* What a module opened is closed only after all that was opened later,    *)
(* which may need it, even if two calls of close() run the hooks at once   *)
(* and some of them fail.                                                  *)
ClosedInReverse ==
  \A i, j \in DOMAIN hooks : i < j /\ hooks[i] \in closed => hooks[j] \in closed

(* A close() that resolves has stopped the server and closed everything.   *)
ResolvedMeansClosed ==
  \A x \in Closers : At(x, "settled") /\ closing[x].result = "fulfilled" =>
    /\ server = "shut"
    /\ \A i \in DOMAIN hooks : hooks[i] \in closed

(* Every close() settles, unless the process ends before.                  *)
EveryCloseSettles ==
  \A x \in Closers : ~At(x, "none") ~> (At(x, "settled") \/ stage = "crashed")
=================================================================================
