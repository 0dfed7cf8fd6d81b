---------------------------- MODULE SampleApplication ----------------------------
(***************************************************************************)
(* The application of sample/auth-db as its modules: what each of them     *)
(* provides, exports and resolves when it is registered, and the chains    *)
(* that the middlewares they bring form in the registry.                   *)
(*                                                                         *)
(* A class provider is <<token, the tokens its constructor depends on>>,   *)
(* and a table is the sequence of a module's providers.  Resolving a token *)
(* resolves all that is reached from it.                                   *)
(***************************************************************************)
EXTENDS ModuleLoading

When(c, s) == IF c THEN s ELSE <<>>
Tokens(table) == {table[i][1] : i \in DOMAIN table}

(* tokens and all that they depend on, through at most four classes.       *)
Needs(table, tokens) ==
  LET Reach[n \in 0..4] ==
        IF n = 0 THEN tokens
        ELSE Reach[n - 1] \cup
             UNION {table[i][2] : i \in {j \in DOMAIN table : table[j][1] \in Reach[n - 1]}}
  IN Reach[4]

-----------------------------------------------------------------------------
(* AuthDatabaseModule.                                                     *)
AuthDbTable(audit, protection) ==
  LET Stored == {"db", "tables"}
      Events == IF audit THEN {"eventStore"} ELSE {}
      Protection == IF protection THEN {"passwordProtection"} ELSE {}
  IN << <<"apiKeyHasher", {}>>, <<"passwordHasher", {}>>, <<"tables", {}>> >>
     \o When(protection, << <<"protectionOptions", {}>>,
                            <<"passwordProtection", Stored \cup {"protectionOptions"}>> >>)
     \o << <<"users", Stored>>, <<"apiKeys", Stored \cup {"apiKeyHasher"}>>,
           <<"apiKeyUsage", Stored>>, <<"jwtSessions", Stored>>,
           <<"passwordCredentials", Stored>>,
           <<"passwordAuthentication",
             {"passwordCredentials", "users", "passwordHasher"} \cup Protection>>,
           <<"userService", Stored>> >>
     \o When(audit, << <<"eventStore", Stored>> >>)
     \o << <<"apiKeyService", Stored \cup {"apiKeyHasher"} \cup Events>>,
           <<"jwtSessionService", Stored \cup Events>>,
           <<"passwordService", Stored \cup {"passwordHasher"} \cup Events>> >>

AuthDatabaseModule(audit, protection) ==
  LET table == AuthDbTable(audit, protection)
  IN [Plain EXCEPT
       !.imports = {"db"},
       !.providers = [i \in DOMAIN table |-> Provide(table[i][1], "once")],
       !.exports = Tokens(table) \ {"passwordHasher", "tables", "protectionOptions"}]

(* What the factories of the strategies get, and that of the event sink.   *)
ApiKeyStrategy(usage) == {"apiKeys", "users"} \cup (IF usage THEN {"apiKeyUsage"} ELSE {})
JwtStrategy(sessions) == {"jwt", "users"} \cup (IF sessions THEN {"jwtSessions"} ELSE {})
DatabaseAuthEventSink(table) == Needs(table, {"eventStore"})

(* AuthModule: the sink is made when it is provided; the strategies and    *)
(* their repositories when the module is registered.                       *)
AuthModule(table, strategies, sink) ==
  [Plain EXCEPT !.prio = 60, !.registers = TRUE,
    !.providers = <<Provide("strategies", "once"), Provide("policies", "once"),
                    <<"sink", "once", sink>> >>,
    !.gets = {"strategies", "policies", "sink", "registry"} \cup Needs(table, strategies)]

ReactTemplateModule ==
  [Plain EXCEPT !.providers = <<Provide("templates", "once")>>, !.exports = {"templates"}]
StaticFilesModule == Plain
AuthDbHttpModule == [Plain EXCEPT !.providers = <<Provide("jwt", "once")>>]
NodePlatformModule ==
  [Plain EXCEPT !.prio = 80, !.providers = <<Provide("server", "once"), Provide("renderer", "once")>>]

(* app.ts and createNodeApplication().  The sample has audit; without it   *)
(* the event sink finds no store.                                          *)
Sample(audit) ==
  LET table == AuthDbTable(audit, TRUE)
  IN <<ReactTemplateModule, StaticFilesModule, AuthDatabaseModule(audit, TRUE),
       AuthModule(table, ApiKeyStrategy(TRUE) \cup JwtStrategy(TRUE),
                  DatabaseAuthEventSink(table)),
       AuthDbHttpModule, NodePlatformModule>>

-----------------------------------------------------------------------------
(* The middlewares: RuntimeMiddlewareRegistry.                             *)
Registration(use, zone, prio) == [use |-> use, zone |-> zone, prio |-> prio]
Bare(use) == Registration(use, "pre", 0)

(* What the composer collects of the HTTP modules, in their order.         *)
CollectedMiddlewares == <<Bare("serveStatic"), Registration("schemaValidator", "pre", 1)>>

(* MiddlewareModule registers first, AuthModule after it.                  *)
Registry(collected) ==
  <<Registration("errorHandler", "pre", 0)>> \o collected \o
  <<Registration("jsonBodyParser", "post", 0), Registration("auth", "auth", 0)>>

(* all(): the higher priority first, as registered among equals.           *)
Ahead(s, i, j) == s[i].prio > s[j].prio \/ (s[i].prio = s[j].prio /\ i <= j)
ByPriority(s) ==
  [n \in DOMAIN s |-> s[CHOOSE j \in DOMAIN s : Cardinality({i \in DOMAIN s : Ahead(s, i, j)}) = n]]
All(registrations, zone) == ByPriority(SelectSeq(registrations, LAMBDA e : e.zone = zone))

(* for(): those of a controller that name no action, or this one.          *)
For(registrations, zone, action) ==
  ByPriority(SelectSeq(registrations, LAMBDA e : e.zone = zone /\ e.action \in {"any", action}))
================================================================================
