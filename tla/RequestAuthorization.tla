------------------------ MODULE RequestAuthorization -------------------------
(***************************************************************************)
(* From a request to its handler: the table of RuntimeRouter, the          *)
(* authentication middleware (createAuthMiddleware), JwtStrategy and       *)
(* ApiKeyStrategy over the repositories of packages/auth-db, roles and     *)
(* policies.  Every statement on the database is a step, between which     *)
(* other requests revoke the credential, disable the user or change roles  *)
(* and permissions.                                                        *)
(*                                                                         *)
(* One user owns the credentials.  A token that is malformed, forged or    *)
(* past its exp is the absence of a credential, and one that is revoked or *)
(* past the expiry in its row is no longer live.  JwtStrategy has its      *)
(* optional session repository, as in the sample.                          *)
(***************************************************************************)
EXTENDS Integers, SequencesExt

CONSTANTS
    None,
    User,           \* the owner of the credentials
    Credentials,    \* one of each type, named by it: "jwt", "api-key"
    Strategies,     \* the registered strategies
    Policies,       \* the registered policies
    Controllers,    \* the controllers in the order of their configuration
    Calls,          \* what is asked for: [method, path]
    Roles,
    Permissions,
    Grants,         \* the maps from roles to permissions an administrator sets
    Routers         \* "runtime", and "whole" for one that hands over all

ASSUME RoutersAssumption == Routers \subseteq {"runtime", "whole"}
ASSUME GrantsAssumption == Grants \subseteq [Roles -> SUBSET Permissions]
ASSUME FactsAreDistinct == Roles \intersect ({"active"} \union Credentials) = {}

VARIABLES
    active,         \* users.status
    held,           \* the user's roles
    grants,         \* role_permissions
    live,           \* the credentials neither revoked nor expired
    request         \* the request under way

vars == <<active, held, grants, live, request>>

(* ------------------------------ the router ----------------------------- *)
\* override ?? base
Default(override, base) == IF override # None THEN override ELSE base

MergeAuth(base, override) ==
    [public |-> Default(override.public, base.public),
     strategy |-> Default(override.strategy, base.strategy),
     roles |-> Default(override.roles, base.roles),
     policies |-> None]

\* What another implementation of the Router token may hand over instead.
WholeAuth(base, override) ==
    [MergeAuth(base, override) EXCEPT
        !.policies = Default(override.policies, base.policies)]

\* Paths are sequences of segments; "*" is a parameter.
Entries(c) ==
    [i \in DOMAIN c.routes |->
        [method |-> c.routes[i].method, pattern |-> c.prefix \o c.routes[i].path,
         base |-> c.auth, override |-> c.routes[i].auth]]

Table == FlattenSeq([i \in DOMAIN Controllers |-> Entries(Controllers[i])])

Matches(pattern, path) ==
    /\ Len(pattern) = Len(path)
    /\ \A i \in DOMAIN path : pattern[i] \in {"*", path[i]}

\* The first entry that fits, in the order of registration.
Fitting(call) ==
    {i \in DOMAIN Table : /\ Table[i].method = call.method
                          /\ Matches(Table[i].pattern, call.path)}
Resolve(call) == Table[CHOOSE i \in Fitting(call) : \A j \in Fitting(call) : i <= j]

\* params.id: the segment that the first parameter of the path stands for.
IdOf(call) ==
    LET pattern == Resolve(call).pattern
        At == {i \in DOMAIN pattern : pattern[i] = "*"}
    IN  IF At = {} THEN None ELSE call.path[CHOOSE i \in At : \A j \in At : i <= j]

(* ------------------------------- policies ------------------------------ *)
AllOf(decisions) == \A d \in Range(decisions) : d
AnyOf(decisions) == \E d \in Range(decisions) : d
HasPermission(auth, permission) == permission \in auth.permissions

ManageUsers(auth) ==
    AllOf(<<auth.type = "api-key", HasPermission(auth, "users.manage")>>)
ViewUser(auth, id) ==
    AnyOf(<<HasPermission(auth, "users.view.any"),
            HasPermission(auth, "users.view.self") /\ id = User>>)

Allows(policy, auth, call) ==
    CASE policy = "manage-users" -> ManageUsers(auth)
      [] policy = "view-user" -> ViewUser(auth, IdOf(call))

(* ------------------------------ the request ---------------------------- *)
NoAuth == [type |-> None, roles |-> {}, permissions |-> {}]
Asked(call, cred, declared, route) ==
    [at |-> "free", call |-> call, route |-> route, declared |-> declared,
     cred |-> cred, auth |-> NoAuth, ever |-> {}, events |-> <<>>]
Free == Asked(None, None, None, None)

\* What the database says of the user and the credentials.
Facts == live \union (IF active THEN {"active"} ELSE {}) \union held

\* History: what it has said at some moment of the request.
Ever(r) == [r EXCEPT !.ever = IF r.at = "free" THEN {} ELSE @ \union Facts']

To(at) == request' = Ever([request EXCEPT !.at = at])
Data == <<active, held, grants, live>>

\* Roles, then policies one after the other; the first that is unknown or
\* denies ends the request.  Policies read what was loaded before.
Decision(r) ==
    LET roles == r.route.roles
        policies == r.route.policies
        Bad == {i \in DOMAIN policies :
                  \/ policies[i] \notin Policies
                  \/ ~Allows(policies[i], r.auth, r.call)}
        First == CHOOSE i \in Bad : \A j \in Bad : i <= j
    IN  IF /\ roles # None /\ roles # {}
           /\ roles \intersect r.auth.roles = {}
        THEN "denied"
        ELSE IF policies = None \/ policies = <<>> THEN "handler"
        ELSE IF r.auth.type = None THEN "denied"
        ELSE IF Bad = {} THEN "handler"
        ELSE IF policies[First] \notin Policies THEN "500" ELSE "denied"

Admission(r) ==
    IF r.route.public = TRUE THEN "handler"
    ELSE IF r.route.strategy = None THEN Decision(r)
    ELSE IF r.route.strategy \in Strategies THEN "find" ELSE "500"

Receive ==
    /\ request.at = "free"
    /\ UNCHANGED Data
    /\ \E call \in Calls, cred \in Credentials \union {None}, router \in Routers :
        IF Fitting(call) = {}
        THEN request' = Ever([Free EXCEPT !.at = "404"])
        ELSE LET e == Resolve(call)
                 whole == WholeAuth(e.base, e.override)
                 r == Asked(call, cred, whole,
                            IF router = "whole" THEN whole
                            ELSE MergeAuth(e.base, e.override))
             IN  request' = Ever([r EXCEPT !.at = Admission(r)])

\* JwtService.verify, and what the two repositories say of a credential.
Verifies == request.cred = "jwt"
SessionIsGood == "jwt" \in live
KeyIsGood == "api-key" \in live

\* A mutant of FindSession: a token that verifies is enough.
FindNoSession ==
    /\ request.at = "find" /\ request.route.strategy = "jwt"
    /\ UNCHANGED Data
    /\ To(IF Verifies THEN "user" ELSE "failed")

FindSession ==
    /\ request.at = "find" /\ request.route.strategy = "jwt"
    /\ UNCHANGED Data
    /\ To(IF Verifies /\ SessionIsGood THEN "user" ELSE "failed")

FindKey ==
    /\ request.at = "find" /\ request.route.strategy = "api-key"
    /\ UNCHANGED Data
    /\ To(IF request.cred = "api-key" /\ KeyIsGood THEN "user" ELSE "failed")

\* The three reads of AuthUserRepository.findById.
ReadUser ==
    /\ request.at = "user"
    /\ UNCHANGED Data
    /\ To(IF active THEN "roles" ELSE "failed")

ReadRoles ==
    /\ request.at = "roles"
    /\ UNCHANGED Data
    /\ request' = Ever([request EXCEPT !.at = "permissions", !.auth.roles = held])

ReadPermissions ==
    /\ request.at = "permissions"
    /\ UNCHANGED Data
    /\ request' = Ever([request EXCEPT
            !.at = IF request.cred = "api-key" THEN "usage" ELSE "succeeded",
            !.auth = [type |-> request.cred, roles |-> @.roles,
                      permissions |-> UNION {grants[r] : r \in held}]])

RecordUsage ==
    /\ request.at = "usage"
    /\ UNCHANGED Data
    /\ To("succeeded")

Reported(event) == [request EXCEPT !.events = Append(@, event)]

\* A mutant of ReportSuccess: the middleware goes on whether or not the event
\* is stored.
ReportSuccessAside ==
    /\ request.at = "succeeded"
    /\ UNCHANGED Data
    /\ \E r \in {Reported("authentication.succeeded"), request} :
          request' = Ever([r EXCEPT !.at = Decision(r)])

ReportSuccess ==
    /\ request.at = "succeeded"
    /\ UNCHANGED Data
    /\ LET r == Reported("authentication.succeeded") IN
       request' = Ever([r EXCEPT !.at = Decision(r)])

ReportFailure ==
    /\ request.at = "failed"
    /\ UNCHANGED Data
    /\ request' = Ever([Reported("authentication.failed") EXCEPT !.at = "401"])

ReportDenial ==
    /\ request.at = "denied"
    /\ UNCHANGED Data
    /\ request' = Ever([Reported("authorization.denied") EXCEPT !.at = "403"])

\* A statement fails.  JwtStrategy catches it and does not authenticate; the
\* others let the request fail.
StatementFails ==
    /\ UNCHANGED Data
    /\ \/ /\ request.at \in {"find", "user", "roles", "permissions"}
          /\ To(IF request.route.strategy = "jwt" THEN "failed" ELSE "500")
       \/ /\ request.at \in {"usage", "succeeded", "failed", "denied"}
          /\ To("500")

Answer ==
    /\ request.at \in {"handler", "401", "403", "404", "500"}
    /\ request' = Free
    /\ UNCHANGED Data

(* --------------------------- other requests ---------------------------- *)
RevokeCredential ==
    /\ \E c \in live : live' = live \ {c}
    /\ UNCHANGED <<active, held, grants>>
    /\ request' = Ever(request)

SetStatus ==
    /\ active' = ~active
    /\ UNCHANGED <<held, grants, live>>
    /\ request' = Ever(request)

SetRoles ==
    /\ held' \in SUBSET Roles \ {held}
    /\ UNCHANGED <<active, grants, live>>
    /\ request' = Ever(request)

SetPermissions ==
    /\ grants' \in Grants \ {grants}
    /\ UNCHANGED <<active, held, live>>
    /\ request' = Ever(request)

Init ==
    /\ active = TRUE
    /\ held \in SUBSET Roles
    /\ grants \in Grants
    /\ live = Credentials
    /\ request = Free

Next ==
    \/ Receive \/ FindSession \/ FindKey \/ ReadUser \/ ReadRoles
    \/ ReadPermissions \/ RecordUsage \/ ReportSuccess \/ ReportFailure \/ ReportDenial
    \/ StatementFails \/ Answer
    \/ RevokeCredential \/ SetStatus \/ SetRoles \/ SetPermissions

Spec == Init /\ [][Next]_vars

(* ----------------------------- properties ------------------------------ *)
Protected == request.route # None /\ request.route.public # TRUE
             /\ request.route.strategy # None

\* A handler behind a strategy acts only when, at some moment of this very
\* request, the credential was good, the user active and one of the roles the
\* route asks for his: nothing from before the request counts, neither what
\* the token says nor what an earlier request has seen.
AdmittedByTheDatabase ==
    request.at = "handler" /\ Protected =>
        /\ request.cred \in request.ever
        /\ "active" \in request.ever
        /\ request.route.roles \notin {None, {}} =>
            request.route.roles \intersect request.ever # {}

\* No request of a protected route is let through, turned away or refused
\* without the events that say so being in the store, in the order they happened.
OutcomesAreAudited ==
    Protected =>
        CASE request.at = "handler" ->
                request.events = <<"authentication.succeeded">>
          [] request.at = "401" -> request.events = <<"authentication.failed">>
          [] request.at = "403" ->
                request.events = <<"authentication.succeeded", "authorization.denied">>
          [] OTHER -> TRUE

\* Every policy a route names has granted access before its handler acts.
PoliciesGrant ==
    request.at = "handler" /\ Protected /\ request.declared.policies # None =>
        \A p \in Range(request.declared.policies) :
            Allows(p, request.auth, request.call)
=============================================================================
