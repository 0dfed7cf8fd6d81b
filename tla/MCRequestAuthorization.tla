----------------------- MODULE MCRequestAuthorization ------------------------
\* The routes of the sample, after a controller whose routes inherit, override
\* or misname their requirements, and before one that asks for too little.
EXTENDS RequestAuthorization

Sample == INSTANCE AuthDbRoutes
Route(method, path, auth) == Sample!Route(method, path, auth)
Ask == Sample!NoAuth

MCControllers ==
  << [prefix |-> <<"api">>, auth |-> Sample!Admin,
      routes |->
        << Route("GET", <<"open">>, Sample!Public),
           Route("GET", <<"*">>, Ask),
           Route("PUT", <<"*">>, [Sample!ApiKey EXCEPT !.roles = {"admin", "staff"}]),
           Route("POST", <<"*">>, [Ask EXCEPT !.strategy = "oauth"]) >>],
     [prefix |-> <<>>, auth |-> Ask, routes |-> Sample!Routes],
     [prefix |-> <<>>, auth |-> Ask,
      routes |->
        << Route("GET", <<"plain">>, Ask),
           Route("GET", <<"half">>, [Ask EXCEPT !.policies = <<"view-user">>]),
           Route("PUT", <<"users">>,
                 [Sample!ApiKey EXCEPT !.policies = <<"manage-users", "audit">>]) >>] >>

\* A call of a route, with an id for its parameters.
Call(method, path) == [method |-> method, path |-> path]
CallOf(r, id) ==
  Call(r.method, [i \in DOMAIN r.path |-> IF r.path[i] = "*" THEN id ELSE r.path[i]])

MCCalls ==
  { CallOf(Sample!Routes[i], id) : i \in DOMAIN Sample!Routes, id \in {"u1", "u2"} }
    \union { Call("GET", <<"api", "open">>), Call("GET", <<"api", "x">>),
             Call("PUT", <<"api", "x">>), Call("POST", <<"api", "x">>),
             Call("GET", <<"plain">>), Call("GET", <<"half">>),
             Call("PUT", <<"users">>), Call("GET", <<"none">>) }

\* No route of the sample hides another: each is the one that a call of it
\* finds, whatever its parameters are.
ASSUME RoutesAreReachable ==
  \A i \in DOMAIN Sample!Routes, id \in {"u1", "sessions", "api-keys", "permissions"} :
    LET r == Sample!Routes[i]
        e == Resolve(CallOf(r, id))
    IN  e.method = r.method /\ e.pattern = r.path /\ e.override = r.auth

MCPermissions == {"users.manage", "users.view.any", "users.view.self"}
\* The administrator's permissions are withdrawn and given back.
MCGrants ==
  { [r \in {"admin", "staff"} |->
        IF r = "admin" THEN admin ELSE {"users.view.self"}] :
      admin \in {{}, {"users.manage", "users.view.any"}} }
=============================================================================
