----------------------------- MODULE ContainerScopes -----------------------------
(***************************************************************************)
(* The container of an application and the scopes of its requests:         *)
(* bindings, resolution, and the graph printed of them (packages/ioc),     *)
(* and the resolver of controllers (packages/runtime).                     *)
(*                                                                         *)
(* All calls are synchronous: each is one step.  What a constructor or a   *)
(* factory is given is modelled, what it does with it is not.              *)
(***************************************************************************)
EXTENDS Naturals, Sequences, FiniteSets

CONSTANTS
  Root,         \* the container of the application
  Requests,     \* the requests, and their scopes
  Tokens,       \* identifiers and classes
  DepLists,     \* token -> the lists of tokens that its class may depend on
  MaxInstances, \* bound: the objects made in a behaviour
  StackSize     \* bound: the calls under way, and the dependencies resolved
                \* before them, at which the stack is exhausted

Containers == {Root} \cup Requests

ASSUME ContainerAssumption ==
  /\ Root \notin Requests
  /\ DepLists \in [Tokens -> SUBSET Seq(Tokens)]
  /\ MaxInstances \in Nat /\ StackSize \in Nat

VARIABLES
  open,   \* the containers that exist
  dict,   \* container -> token -> its binding
  made    \* the objects made so far

containerVars == <<open, dict, made>>

World == [dict |-> dict, made |-> made]

-----------------------------------------------------------------------------
(* Binding.  cache is the number of an object in made, 0 before the        *)
(* binding is activated.                                                   *)
Binding(entity, deps, singleton, cache) ==
  [entity |-> entity, deps |-> deps, singleton |-> singleton, cache |-> cache]

NoBinding == Binding("none", <<>>, FALSE, 0)
Class(deps, singleton) == Binding("class", deps, singleton, 0)
Factory(deps) == Binding("factory", deps, FALSE, 0)
Value(n) == Binding("value", <<>>, TRUE, n)

Bindings == [entity : {"none", "class", "factory", "value"}, deps : Seq(Tokens),
             singleton : BOOLEAN, cache : Nat]

Has(c, t) == dict[c][t] # NoBinding

Object(c, t, deps, singleton) ==
  [home |-> c, token |-> t, deps |-> deps, singleton |-> singleton]

Objects == [home : Containers, token : Tokens, deps : Seq(Nat), singleton : BOOLEAN]

Worlds == [dict : [Containers -> [Tokens -> Bindings]], made : Seq(Objects)]

(* What is still to resolve for the container `asked`, and what it got.    *)
Resolutions == [world : Worlds, asked : Containers, deps : Seq(Tokens), got : Seq(Nat)]

(* The world after a call, with what it returns or why it throws.          *)
Done(w, n) == [world |-> w, out |-> n, error |-> "none"]
Throw(w, error) == [world |-> w, out |-> 0, error |-> error]
Failed(r) == r.error # "none"

\* Mutant of Construct: `activated` is not set.
ConstructAgain(w, c, t, deps) ==
  Done([w EXCEPT !.made = Append(@, Object(c, t, deps, w.dict[c][t].singleton))],
       Len(w.made) + 1)

(* new Ctor(resolvedDeps): the object, and the binding that keeps it.      *)
Construct(w, c, t, deps) ==
  LET b == w.dict[c][t]
      n == Len(w.made) + 1
      objects == Append(w.made, Object(c, t, deps, b.singleton))
  IN Done([dict |-> IF b.singleton THEN [w.dict EXCEPT ![c][t].cache = n] ELSE w.dict,
           made |-> objects], n)

\* Mutant of Resolver: dependencies come from the container that was asked.
AskedResolver(asked, c) == asked

(* The container that resolves the dependencies of a binding found in c,   *)
(* asked for by a call to asked: the delegated get() has its own this.     *)
Resolver(asked, c) == c

(* get() of a token, where `all` gets its dependencies.  The dependencies  *)
(* of a class are resolved at every call, before its cache is looked at;   *)
(* the factories that ProviderRegistrar makes close over the root          *)
(* container.                                                              *)
GetWith(all, w, asked, t) ==
  LET c == IF w.dict[asked][t] = NoBinding THEN Root ELSE asked
      b == w.dict[c][t]
      base == IF b.entity = "factory" THEN Root ELSE Resolver(asked, c)
      r == all[[world |-> w, asked |-> base, deps |-> b.deps, got |-> <<>>]]
  IN CASE b.entity = "none" -> Throw(w, "missing")
       [] b.entity = "value" -> Done(w, b.cache)
       [] b.entity \in {"class", "factory"} ->
            IF Failed(r) THEN Throw(r.world, r.error)
            ELSE IF r.world.dict[c][t].cache # 0 THEN Done(r.world, r.world.dict[c][t].cache)
            ELSE Construct(r.world, c, t, r.out)

(* The dependencies in their order, each in the world that the one before  *)
(* has left; `all` goes on where this call stops.                          *)
After(a, r) ==
  [world |-> r.world, asked |-> a.asked, deps |-> Tail(a.deps), got |-> Append(a.got, r.out)]

Exhausted == [a \in Resolutions |-> Throw(a.world, "overflow")]
Resolve(all) ==
  [a \in Resolutions |->
     IF a.deps = <<>> THEN Done(a.world, a.got)
     ELSE LET r == GetWith(all, a.world, a.asked, Head(a.deps))
          IN IF Failed(r) THEN r
             ELSE all[After(a, r)]]

(* With n calls left on the stack.  Calls that come back to where they     *)
(* were never return, but exhaust it.                                      *)
GetAll[n \in Nat] == IF n = 0 THEN Exhausted ELSE Resolve(GetAll[n - 1])

Get(w, asked, t) == GetWith(GetAll[StackSize], w, asked, t)

(* RuntimeControllerResolver.resolve(): the scope's own controller, the    *)
(* root's, or whatever get() finds, with another try at the root.          *)
ResolveController(c, t) ==
  IF Has(c, t) THEN Get(World, c, t)
  ELSE IF c # Root /\ Has(Root, t) THEN Get(World, Root, t)
  ELSE LET r == Get(World, c, t)
       IN IF Failed(r) THEN Get(r.world, Root, t) ELSE r

\* Mutant of NewPath: one set is shared by the branches.
SharedPath(path, key, deps, n) == path \cup {key} \cup {deps[i] : i \in 1..(n - 1)}

(* getGraph(): what walk() knows of its way when it enters the n-th        *)
(* dependency of key, and whether it meets a key again on its way.         *)
NewPath(path, key, deps, n) == path \cup {key}

WalkIsCircular(c, t) ==
  LET Deps(key) == LET b == IF Has(c, key) THEN dict[c][key] ELSE dict[Root][key]
                   IN  IF b.entity = "class" THEN b.deps ELSE <<>>
      walk[path \in SUBSET Tokens] ==
        [key \in Tokens |->
           \/ key \in path
           \/ \E n \in DOMAIN Deps(key) : walk[NewPath(path, key, Deps(key), n)][Deps(key)[n]]]
  IN walk[{}][t]

-----------------------------------------------------------------------------
ContainerInit ==
  /\ open = {Root}
  /\ dict = [c \in Containers |-> [t \in Tokens |-> NoBinding]]
  /\ made = <<>>

(* createScope(), which ServerModule calls for every request, and the end  *)
(* of the request, after which nothing refers to the scope.                *)
CreateScope(r) ==
  /\ r \notin open
  /\ open' = open \cup {r}
  /\ UNCHANGED <<dict, made>>

(* bind().to() and put(), configured by with() and inSingletonScope(),     *)
(* throw when the container itself has the token.                          *)
Register(c, t) ==
  /\ c \in open /\ ~Has(c, t)
  /\ \E deps \in DepLists[t], singleton \in BOOLEAN :
       dict' = [dict EXCEPT ![c][t] = Class(deps, singleton)]
  /\ UNCHANGED <<open, made>>

(* set(), and bind().toInstance(): an object made elsewhere.               *)
SetValue(c, t) ==
  /\ c \in open /\ ~Has(c, t)
  /\ Len(made) < MaxInstances
  /\ made' = Append(made, Object(c, t, <<>>, TRUE))
  /\ dict' = [dict EXCEPT ![c][t] = Value(Len(made'))]
  /\ UNCHANGED open

(* toFactory() at the root, whatever the token was bound to.               *)
ToFactoryAtRoot(t) ==
  /\ \E deps \in DepLists[t] : dict' = [dict EXCEPT ![Root][t] = Factory(deps)]
  /\ UNCHANGED <<open, made>>

Take(r) ==
  /\ Len(r.world.made) <= MaxInstances
  /\ dict' = r.world.dict /\ made' = r.world.made
  /\ UNCHANGED open

Ask(c, t) == c \in open /\ Take(Get(World, c, t))
AskController(c, t) == c \in open /\ Take(ResolveController(c, t))

ContainerNext ==
  \/ \E r \in Requests : CreateScope(r)
  \/ \E c \in Containers, t \in Tokens :
       Register(c, t) \/ SetValue(c, t) \/ Ask(c, t) \/ AskController(c, t)
  \/ \E t \in Tokens : ToFactoryAtRoot(t)

ContainerSpec == ContainerInit /\ [][ContainerNext]_containerVars

-----------------------------------------------------------------------------
(* No object of the application holds an object of a request, and no       *)
(* request holds one of another: a class bound at the root gets the root's *)
(* dependencies even when a scope that binds them anew asks for it.        *)
ScopesAreIsolated ==
  \A n \in DOMAIN made : \A i \in DOMAIN made[n].deps :
    made[made[n].deps[i]].home \in {Root, made[n].home}

(* A singleton binding has at most one object, whichever container and     *)
(* whichever other objects asked for it, and after failed calls as well.   *)
OneSingleton ==
  \A n, p \in DOMAIN made :
    made[n].singleton /\ made[p].singleton
      /\ made[n].token = made[p].token /\ made[n].home = made[p].home => n = p

(* The graph of the root container names a circular dependency of a class  *)
(* exactly when get() of it would not return; a factory's needs are not in *)
(* the graph, and a token that is missing may end get() before.            *)
CyclesAreReported ==
  \A t \in Tokens :
    LET error == Get(World, Root, t).error
    IN /\ (\A u \in Tokens : dict[Root][u].entity # "factory")
            => (error = "overflow" => WalkIsCircular(Root, t))
       /\ WalkIsCircular(Root, t) => error \in {"overflow", "missing"}
================================================================================
