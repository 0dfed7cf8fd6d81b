----------------------------- MODULE ModuleLoading -----------------------------
(***************************************************************************)
(* How an application comes up: RuntimeComposer orders the modules,        *)
(* ModuleLoader registers them one after the other, and ProviderRegistrar  *)
(* binds their providers in the container (packages/runtime/src/app).      *)
(*                                                                         *)
(* A module is a record of what it asks of the container and does to it.   *)
(* Code runs to its next await: a provider whose factory gave a promise is *)
(* bound only while the loader awaits a register(), or later.              *)
(***************************************************************************)
EXTENDS Integers, Sequences, FiniteSets

CONSTANTS
  Configs,  \* the lists of modules an application may be configured with
  Extras    \* the modules that use() may add

User == 30

(* What a module is when it declares nothing.  providers: sequence of      *)
(* <<token, kind, what its factory gets>>; awaits: register() awaits       *)
(* before it touches the container; gets: the tokens that it resolves,     *)
(* with all that their classes depend on; ensures: bound unless bound      *)
(* already; hooked: it opens something, which its OnShutdown hook closes;  *)
(* starts: an OnStart hook.                                                *)
Plain ==
  [prio |-> User, imports |-> {}, providers |-> <<>>, exports |-> {},
   registers |-> FALSE, awaits |-> FALSE, gets |-> {}, binds |-> {},
   ensures |-> {}, hooked |-> FALSE, starts |-> FALSE]

Provide(token, kind) == <<token, kind, {}>>

(* What binds and ensures say is the work of register().                   *)
IsModule(m) ==
  /\ DOMAIN m = DOMAIN Plain
  /\ m.prio \in Int
  /\ m.providers \in Seq({m.providers[i] : i \in DOMAIN m.providers})
  /\ ~m.registers => m.binds = {} /\ m.ensures = {}

ASSUME LoadingAssumption ==
  /\ \A m \in Extras : IsModule(m)
  /\ \A c \in Configs : /\ c \in Seq({c[i] : i \in DOMAIN c})
                       /\ \A i \in DOMAIN c : IsModule(c[i])

VARIABLES
  stage,      \* what the application does
  pipeline,   \* the modules, in the order they are loaded once composed
  composed,   \* how many of them went through compose()
  at, k,      \* the module being loaded, and its provider
  bound,      \* the tokens bound in the root container
  pending,    \* the tokens whose factory has given a promise
  starts,     \* OnStart: the modules that pushed a hook, in that order
  hooks       \* OnShutdown: likewise

loadVars == <<stage, pipeline, composed, at, k, bound, pending, starts, hooks>>

-----------------------------------------------------------------------------
(* RuntimeComposer.compose().                                              *)

(* The modules of the framework.  "hooks" stands for OnStart and           *)
(* OnShutdown, "router" for the tokens that ControllerModule provides.     *)
LifecycleModule ==
  [Plain EXCEPT !.prio = 10, !.registers = TRUE, !.ensures = {"hooks"}, !.exports = {"hooks"}]

DatabaseModule(db) ==
  [Plain EXCEPT !.prio = 20, !.registers = TRUE, !.awaits = db,
                !.binds = {"db"}, !.hooked = db, !.exports = {"db"}]

ModelModule == [Plain EXCEPT !.prio = 40, !.registers = TRUE, !.imports = {"db"}]

MiddlewareModule ==
  [Plain EXCEPT !.prio = 50, !.providers = <<Provide("registry", "once")>>,
                !.registers = TRUE, !.gets = {"registry"}, !.exports = {"registry"}]

ControllerModule ==
  [Plain EXCEPT !.prio = 70, !.providers = <<Provide("router", "once")>>,
                !.registers = TRUE, !.gets = {"router", "registry"},
                !.ensures = {"templates"}, !.exports = {"router"}]

ServerModule ==
  [Plain EXCEPT !.prio = 90, !.imports = {"router", "registry", "server"},
                !.registers = TRUE, !.gets = {"renderer"}, !.exports = {"server"}]

BuiltIn(db) == <<LifecycleModule, DatabaseModule(db), ModelModule,
                 MiddlewareModule, ControllerModule, ServerModule>>

Before(s, i, j) == s[i].prio < s[j].prio \/ (s[i].prio = s[j].prio /\ i <= j)
Rank(s, j) == Cardinality({i \in DOMAIN s : Before(s, i, j)})

\* Mutant: the modules are loaded as they were listed.
KeepOrder(s) == s

(* By priority, and as they were listed among equals.                      *)
SortByPriority(s) == [n \in DOMAIN s |-> s[CHOOSE i \in DOMAIN s : Rank(s, i) = n]]

DuplicateProvider(s) ==
  \E i, j \in DOMAIN s : \E p \in DOMAIN s[i].providers, q \in DOMAIN s[j].providers :
    <<i, p>> # <<j, q>> /\ s[i].providers[p][1] = s[j].providers[q][1]

LoadInit ==
  /\ stage = "configured"
  /\ \E c \in Configs, db \in BOOLEAN : pipeline = BuiltIn(db) \o c
  /\ composed = 0
  /\ at = 1 /\ k = 1
  /\ bound = {} /\ pending = {}
  /\ starts = <<>> /\ hooks = <<>>

Compose ==
  /\ stage = "configured"
  /\ pipeline' = SortByPriority(pipeline)
  /\ composed' = Len(pipeline)
  /\ stage' = IF DuplicateProvider(pipeline') THEN "refused" ELSE "composed"
  /\ UNCHANGED <<at, k, bound, pending, starts, hooks>>

(* use(): before bootstrap(), behind all others.                           *)
Use ==
  /\ stage = "composed" /\ Len(pipeline) = composed   \* bound: once
  /\ \E m \in Extras : pipeline' = Append(pipeline, m)
  /\ UNCHANGED <<stage, composed, at, k, bound, pending, starts, hooks>>

-----------------------------------------------------------------------------
(* ModuleLoader.init().                                                    *)
M == pipeline[at]

(* The container: bind() refuses a token that is bound, toFactory() does   *)
(* not.                                                                    *)
Bind(token) == token \notin bound /\ bound' = bound \cup {token}
ToFactory(token) == bound' = bound \cup {token}

Fail == stage' = "failed" /\ UNCHANGED <<at, k, bound, pending, starts, hooks>>

Bootstrap ==
  /\ stage = "composed"
  /\ stage' = "imports"
  /\ UNCHANGED <<pipeline, composed, at, k, bound, pending, starts, hooks>>

CheckImports ==
  /\ stage = "imports"
  /\ UNCHANGED <<pipeline, composed>>
  /\ \/ /\ at > Len(pipeline)
        /\ stage' = "bootstrapped"
        /\ UNCHANGED <<at, k, bound, pending, starts, hooks>>
     \/ /\ at <= Len(pipeline)
        /\ M.imports \subseteq bound
        /\ stage' = "providers" /\ k' = 1
        /\ UNCHANGED <<at, bound, pending, starts, hooks>>
     \/ /\ at <= Len(pipeline)
        /\ ~(M.imports \subseteq bound)
        /\ Fail

(* ProviderRegistrar.register(): "once" is a class, an instance or what a  *)
(* factory of a singleton returned, "again" any other factory, which       *)
(* toFactory() lets replace a binding, "later" a factory of a singleton    *)
(* that gave a promise, and "wrong" another factory that did.  Every       *)
(* factory is called here, and throws when it gets what is not bound.      *)
RegisterProvider ==
  /\ stage = "providers" /\ k <= Len(M.providers)
  /\ UNCHANGED <<pipeline, composed>>
  /\ LET token == M.providers[k][1]
         kind == M.providers[k][2]
         made == M.providers[k][3] \subseteq bound
     IN \/ /\ made
           /\ (kind = "again" /\ ToFactory(token)) \/ (kind = "once" /\ Bind(token))
           /\ k' = k + 1
           /\ UNCHANGED <<stage, at, pending, starts, hooks>>
        \/ /\ made /\ kind = "later"
           /\ pending' = pending \cup {token}
           /\ k' = k + 1
           /\ UNCHANGED <<stage, at, bound, starts, hooks>>
        \/ /\ kind = "wrong" \/ ~made \/ (kind = "once" /\ token \in bound)
           /\ Fail

(* What register() does to the container; it throws when a token that it   *)
(* gets is not bound, or one that it binds is.                             *)
Registers(m) ==
  \/ /\ m.gets \subseteq bound
     /\ m.binds \cap bound = {}
     /\ m.hooked \/ m.starts => "hooks" \in bound
     /\ bound' = bound \cup m.binds \cup m.ensures
     /\ starts' = IF m.starts THEN Append(starts, at) ELSE starts
     /\ hooks' = IF m.hooked THEN Append(hooks, at) ELSE hooks
     /\ stage' = "registered"
     /\ UNCHANGED <<at, k, pending>>
  \/ /\ ~ /\ m.gets \subseteq bound
          /\ m.binds \cap bound = {}
          /\ m.hooked \/ m.starts => "hooks" \in bound
     /\ Fail

(* The loader calls register(), or goes on without an await.               *)
CallRegister ==
  /\ stage = "providers" /\ k > Len(M.providers)
  /\ UNCHANGED <<pipeline, composed>>
  /\ \/ /\ ~M.registers /\ stage' = "exports"
        /\ UNCHANGED <<at, k, bound, pending, starts, hooks>>
     \/ /\ M.registers /\ M.awaits /\ stage' = "awaiting"
        /\ UNCHANGED <<at, k, bound, pending, starts, hooks>>
     \/ M.registers /\ ~M.awaits /\ Registers(M)

(* What register() awaited is there, such as a connection, or is not.      *)
ResumeRegister ==
  /\ stage = "awaiting"
  /\ Registers(M) \/ Fail
  /\ UNCHANGED <<pipeline, composed>>

CheckExports ==
  /\ stage \in {"exports", "registered"}
  /\ UNCHANGED <<pipeline, composed>>
  /\ \/ /\ M.exports \subseteq bound
        /\ at' = at + 1 /\ stage' = "imports"
        /\ UNCHANGED <<k, bound, pending, starts, hooks>>
     \/ ~(M.exports \subseteq bound) /\ Fail

(* A promise of a factory is kept or broken, whenever no code runs.  When  *)
(* it is broken, or its token has been bound meanwhile, nobody handles the *)
(* rejection, which ends the process.                                      *)
SettlePending ==
  /\ stage \in {"awaiting", "registered", "bootstrapped", "failed"}
  /\ \E token \in pending :
       /\ pending' = pending \ {token}
       /\ \/ Bind(token) /\ UNCHANGED stage
          \/ stage' = "crashed" /\ UNCHANGED bound
  /\ UNCHANGED <<pipeline, composed, at, k, starts, hooks>>

LoadNext ==
  \/ Compose \/ Use \/ Bootstrap \/ CheckImports \/ RegisterProvider
  \/ CallRegister \/ ResumeRegister \/ CheckExports \/ SettlePending

-----------------------------------------------------------------------------
LoadTypeOK ==
  /\ stage \in {"configured", "refused", "composed", "imports", "providers", "awaiting",
                "registered", "exports", "bootstrapped", "failed", "crashed"}
  /\ composed \in 0..Len(pipeline)
  /\ at \in 1..(Len(pipeline) + 1) /\ k \in Nat
  /\ \A i \in DOMAIN starts : starts[i] \in DOMAIN pipeline
  /\ \A i \in DOMAIN hooks : hooks[i] \in DOMAIN pipeline

(* What a module binds before the loader leaves it.                        *)
Supplies(m) ==
  m.binds \cup m.ensures \cup
  {m.providers[i][1] : i \in {n \in DOMAIN m.providers : m.providers[n][2] \in {"once", "again"}}}

(* bootstrap() refuses a module for an import only if no module of a lower *)
(* priority in the configuration supplies that token: the order of the     *)
(* composer is one in which the imports of the loader can be found.        *)
MissingImportIsMissing ==
  [][stage = "imports" /\ stage' = "failed" =>
       \E token \in M.imports \ bound : \A i \in 1..composed :
         pipeline[i].prio < M.prio => token \notin Supplies(pipeline[i])]_loadVars
===============================================================================
