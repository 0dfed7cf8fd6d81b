------------------------------ MODULE AuthDbRoutes ------------------------------
\* The routes of sample/auth-db/src/auth-db-controller.ts, in their order.
EXTENDS Sequences

CONSTANT None

NoAuth == [public |-> None, strategy |-> None, roles |-> None, policies |-> None]
Public == [NoAuth EXCEPT !.public = TRUE]
Jwt == [NoAuth EXCEPT !.strategy = "jwt"]
ApiKey == [NoAuth EXCEPT !.strategy = "api-key"]
Admin == [Jwt EXCEPT !.roles = {"admin"}]
Policy(name) == [Jwt EXCEPT !.policies = <<name>>]

Route(method, path, auth) == [method |-> method, path |-> path, auth |-> auth]

SessionRoutes ==
    << Route("GET", <<"public">>, Public),
       Route("POST", <<"auth", "login">>, Public),
       Route("POST", <<"auth", "refresh">>, Public),
       Route("POST", <<"auth", "logout">>, Jwt),
       Route("GET", <<"auth", "sessions">>, Jwt),
       Route("DELETE", <<"auth", "sessions", "*">>, Jwt),
       Route("DELETE", <<"auth", "sessions">>, Jwt),
       Route("POST", <<"auth", "password", "change">>, Jwt),
       Route("POST", <<"auth", "password-reset", "request">>, Public),
       Route("POST", <<"auth", "password-reset", "complete">>, Public),
       Route("GET", <<"session", "profile">>, Jwt),
       Route("GET", <<"profile">>, ApiKey),
       Route("GET", <<"admin">>, Admin) >>

ManagementRoutes ==
    LET Manage == Policy("manage-users")
        View == Policy("view-user")
    IN  << Route("GET", <<"roles">>, Manage),
           Route("GET", <<"permissions">>, Manage),
           Route("PUT", <<"roles", "*", "permissions">>, Manage),
           Route("POST", <<"users">>, Manage),
           Route("GET", <<"users">>, Manage),
           Route("GET", <<"users", "*">>, View),
           Route("GET", <<"users", "*", "auth-events">>, View),
           Route("PATCH", <<"users", "*">>, Manage),
           Route("PUT", <<"users", "*", "password">>, Manage),
           Route("DELETE", <<"users", "*">>, Manage),
           Route("POST", <<"users", "*", "api-keys">>, Manage),
           Route("GET", <<"users", "*", "api-keys">>, Manage),
           Route("DELETE", <<"users", "*", "api-keys", "*">>, Manage) >>

Routes == SessionRoutes \o ManagementRoutes
==================================================================================
