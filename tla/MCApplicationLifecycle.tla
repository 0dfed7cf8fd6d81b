------------------------- MODULE MCApplicationLifecycle -------------------------
(* Applications to compose, load, serve and close.                         *)
EXTENDS ApplicationLifecycle, SampleApplication

Platform == [Plain EXCEPT !.prio = 80,
               !.providers = << Provide("server", "once"), Provide("renderer", "once") >>]

Auth == [Plain EXCEPT !.prio = 60, !.registers = TRUE, !.gets = {"sink", "registry"},
           !.providers = << Provide("sink", "once") >>]

Store == [Plain EXCEPT !.imports = {"db"}, !.providers = << Provide("store", "again") >>,
            !.exports = {"store"}]

Cache == [Plain EXCEPT !.registers = TRUE, !.awaits = TRUE, !.hooked = TRUE,
            !.starts = TRUE, !.providers = << Provide("cache", "later") >>]

Reader == [Plain EXCEPT !.prio = 40, !.imports = {"cache"}, !.registers = TRUE,
             !.hooked = TRUE]

Early == [Plain EXCEPT !.prio = 15, !.imports = {"db"}]

OwnDatabase == [Plain EXCEPT !.providers = << Provide("db", "once") >>]

Careless == [Plain EXCEPT !.providers = << Provide("sink", "wrong") >>]

Worker == [Plain EXCEPT !.registers = TRUE, !.hooked = TRUE, !.starts = TRUE]

MCConfigs ==
  { <<m, n, Platform>> : m \in {Auth, Store, Cache, Worker}, n \in {Cache, Reader, Worker} }
    \cup { <<m, Platform>> : m \in {Early, OwnDatabase, Careless, Auth} }
    \cup { <<Worker>>, <<>> }
    \cup { Sample(TRUE), Sample(FALSE) }

(* The chains of the sample, and every chain of three is in order: the     *)
(* registry sorts its own list again at every call, which changes nothing. *)
Uses(chain) == [i \in DOMAIN chain |-> chain[i].use]
ASSUME SampleChains ==
  LET all(zone) == Uses(All(Registry(CollectedMiddlewares), zone))
  IN /\ all("auth") = <<"auth">>
     /\ all("pre") = <<"schemaValidator", "errorHandler", "serveStatic">>
     /\ all("post") = <<"jsonBodyParser">>

ASSUME ChainsAreSorted ==
  \A prio \in [1..3 -> 0..1], action \in [1..3 -> {"any", "x", "y"}] :
    LET list == [i \in 1..3 |-> [use |-> i, zone |-> "pre", prio |-> prio[i], action |-> action[i]]]
        chain == For(list, "pre", "x")
    IN /\ ByPriority(ByPriority(list)) = ByPriority(list)
       /\ {chain[i].use : i \in DOMAIN chain} = {i \in 1..3 : action[i] # "y"}
       /\ \A i, j \in DOMAIN chain : i < j =>
            \/ chain[i].prio > chain[j].prio
            \/ chain[i].prio = chain[j].prio /\ chain[i].use < chain[j].use

MCExtras == {Store, OwnDatabase}
=================================================================================
