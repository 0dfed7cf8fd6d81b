------------------------------ MODULE AccessProofs ------------------------------
(***************************************************************************)
(* Whom the authentication middleware admits, for any table of routes, any *)
(* policies, and whatever other requests do between its statements.        *)
(***************************************************************************)
EXTENDS RequestAuthorization, TLAPS

Places == {"free", "find", "user", "roles", "permissions", "usage", "succeeded", "failed",
           "denied", "handler", "401", "403", "404", "500"}

(* Nothing is known of the fields but that there are these.                *)
Shape ==
  /\ request = [at |-> request.at, call |-> request.call, route |-> request.route,
                declared |-> request.declared, cred |-> request.cred, auth |-> request.auth,
                ever |-> request.ever, events |-> request.events]
  /\ request.auth = [type |-> request.auth.type, roles |-> request.auth.roles,
                     permissions |-> request.auth.permissions]
  /\ request.at \in Places
  /\ request.at = "free" => request = Free

(* Each read of the strategy has seen what it lets through.                *)
SeenInv ==
  /\ request.at \in {"user", "roles", "permissions", "usage", "succeeded"} =>
       request.cred \in request.ever
  /\ request.at \in {"roles", "permissions", "usage", "succeeded"} => "active" \in request.ever
  /\ request.auth.roles \subseteq request.ever

(* The events tell where the request has come from.                        *)
EventsInv ==
  /\ request.at \in {"find", "user", "roles", "permissions", "usage", "succeeded", "failed"} =>
       request.events = <<>>
  /\ request.at = "denied" /\ Protected => request.events = <<"authentication.succeeded">>

IInv == Shape /\ SeenInv /\ EventsInv /\ AdmittedByTheDatabase /\ OutcomesAreAudited

(* A request without a route is not Protected.                             *)
LEMMA FreeIInv == request = Free => IInv
<1> SUFFICES ASSUME request = Free PROVE IInv
  OBVIOUS
<1>1. Shape
  BY DEF Free, Asked, NoAuth, Shape, Places
<1>2. request.at = "free" /\ request.auth.roles = {} /\ request.ever = {} /\ request.route = None
  BY DEF Free, Asked, NoAuth
<1> QED
  BY <1>1, <1>2 DEF IInv, SeenInv, EventsInv, Protected, AdmittedByTheDatabase, OutcomesAreAudited

LEMMA FreeAgain == request' = Free => IInv'
<1> SUFFICES ASSUME request' = Free PROVE IInv'
  OBVIOUS
<1>1. Shape'
  BY DEF Free, Asked, NoAuth, Shape, Places
<1>2. /\ request'.at = "free" /\ request'.auth.roles = {}
      /\ request'.ever = {} /\ request'.route = None
  BY DEF Free, Asked, NoAuth
<1> QED
  BY <1>1, <1>2 DEF IInv, SeenInv, EventsInv, Protected, AdmittedByTheDatabase, OutcomesAreAudited

-----------------------------------------------------------------------------
(* A step of the request: its place, user and events may change, and what  *)
(* the database says now is added to what it has said.                     *)
Moves(at, auth, events) ==
  /\ Shape'
  /\ request'.at = at /\ request'.auth = auth /\ request'.events = events
  /\ request'.cred = request.cred /\ request'.route = request.route
  /\ request'.call = request.call /\ request'.declared = request.declared
  /\ request'.ever = request.ever \union Facts'

LEMMA ToMoves ==
  ASSUME Shape, NEW at \in Places \ {"free"}, To(at)
  PROVE  Moves(at, request.auth, request.events)
BY DEF Shape, To, Ever, Moves

LEMMA ReportMoves ==
  ASSUME Shape, NEW at \in Places \ {"free"}, NEW event,
         request' = Ever([Reported(event) EXCEPT !.at = at])
  PROVE  Moves(at, request.auth, Append(request.events, event))
BY DEF Shape, Reported, Ever, Moves

(* Time adds to what the database has said during a request.               *)
LEMMA OthersKeep ==
  ASSUME IInv, RevokeCredential \/ SetStatus \/ SetRoles \/ SetPermissions
  PROVE  IInv'
<1>1. request' = Ever(request)
  BY DEF RevokeCredential, SetStatus, SetRoles, SetPermissions
<1>2. CASE request.at = "free"
  <2>1. request' = Free
    <3>1. request = Free
      BY <1>2 DEF IInv, Shape
    <3> QED  BY <1>1, <3>1 DEF Ever, Free, Asked
  <2> QED  BY <2>1, FreeAgain
<1>3. CASE request.at # "free"
  <2>1. Moves(request.at, request.auth, request.events)
    BY <1>1, <1>3 DEF IInv, Shape, Ever, Moves
  <2> QED
    BY <2>1 DEF IInv, Moves, SeenInv, EventsInv, Protected, AdmittedByTheDatabase,
         OutcomesAreAudited
<1> QED  BY <1>2, <1>3

(* Requests that no strategy has judged are not Protected, or stop.        *)
LEMMA ReceiveKeeps ==
  ASSUME Receive
  PROVE  IInv'
<1>1. PICK call, cred :
        \/ Fitting(call) = {} /\ request' = Ever([Free EXCEPT !.at = "404"])
        \/ /\ Fitting(call) # {}
           /\ \E whole, merged :
                request' = Ever([Asked(call, cred, whole, merged) EXCEPT
                                   !.at = Admission(Asked(call, cred, whole, merged))])
  BY DEF Receive
<1>2. CASE Fitting(call) = {}
  <2>1. request' = [at |-> "404", call |-> None, route |-> None, declared |-> None,
                    cred |-> None, auth |-> NoAuth, ever |-> Facts', events |-> <<>>]
    BY <1>1, <1>2 DEF Free, Asked, Ever
  <2> QED
    BY <2>1 DEF NoAuth, IInv, Shape, Places, SeenInv, EventsInv, Protected,
         AdmittedByTheDatabase, OutcomesAreAudited
<1>3. CASE Fitting(call) # {}
  <2>1. PICK whole, merged :
          request' = Ever([Asked(call, cred, whole, merged) EXCEPT
                             !.at = Admission(Asked(call, cred, whole, merged))])
    BY <1>1, <1>3
  <2> DEFINE r == Asked(call, cred, whole, merged)
             place == Admission(r)
  <2>2. request' = Ever([r EXCEPT !.at = place])
    BY <2>1
  <2>3. /\ place \in {"handler", "denied", "500", "find"}
        /\ place \in {"handler", "denied"} => merged.public = TRUE \/ merged.strategy = None
    BY DEF Admission, Decision, Asked
  <2>4. request' = [at |-> place, call |-> call, route |-> merged, declared |-> whole,
                    cred |-> cred, auth |-> NoAuth, ever |-> Facts', events |-> <<>>]
    <3> HIDE DEF place
    <3> QED  BY <2>2, <2>3 DEF Ever, Asked
  <2> HIDE DEF place
  <2> QED
    BY <2>3, <2>4 DEF NoAuth, IInv, Shape, Places, SeenInv, EventsInv, Protected,
         AdmittedByTheDatabase, OutcomesAreAudited
<1> QED  BY <1>2, <1>3

LEMMA ReadsKeep ==
  ASSUME IInv, FindSession \/ FindKey \/ ReadUser \/ ReadRoles \/ ReadPermissions \/ RecordUsage
  PROVE  IInv'
<1> USE DEF IInv
<1>1. CASE FindSession \/ FindKey
  <2>1. \/ /\ Moves("user", request.auth, request.events)
           /\ request.cred \in live' /\ request.at = "find"
        \/ Moves("failed", request.auth, request.events) /\ request.at = "find"
    <3>1. /\ request.at = "find" /\ live' = live
          /\ \/ To("user") /\ request.cred \in live
             \/ To("failed")
      BY <1>1 DEF FindSession, FindKey, Verifies, SessionIsGood, KeyIsGood, Data
    <3> QED  BY <3>1, ToMoves DEF Places
  <2> QED
    BY <2>1 DEF Moves, Facts, SeenInv, EventsInv, Protected, AdmittedByTheDatabase,
         OutcomesAreAudited
<1>2. CASE ReadUser
  <2>1. \/ Moves("roles", request.auth, request.events) /\ active' /\ request.at = "user"
        \/ Moves("failed", request.auth, request.events) /\ request.at = "user"
    <3>1. /\ request.at = "user" /\ active' = active
          /\ (To("roles") /\ active) \/ To("failed")
      BY <1>2 DEF ReadUser, Data
    <3> QED  BY <3>1, ToMoves DEF Places
  <2> QED
    BY <2>1 DEF Moves, Facts, SeenInv, EventsInv, Protected, AdmittedByTheDatabase,
         OutcomesAreAudited
<1>3. CASE ReadRoles
  <2>1. /\ Moves("permissions", [request.auth EXCEPT !.roles = held], request.events)
        /\ held' = held /\ request.at = "roles"
    BY <1>3 DEF ReadRoles, Shape, Ever, Moves, Places, Data
  <2>2. request'.auth.roles = held'
    BY <2>1 DEF Moves, Shape
  <2> QED
    BY <2>1, <2>2 DEF Moves, Facts, SeenInv, EventsInv, Protected, AdmittedByTheDatabase,
         OutcomesAreAudited
<1>4. CASE ReadPermissions
  <2>1. PICK perms : \E at \in {"usage", "succeeded"} :
          /\ Moves(at, [type |-> request.cred, roles |-> request.auth.roles,
                        permissions |-> perms], request.events)
          /\ request.at = "permissions"
    <3>1. PICK at \in {"usage", "succeeded"} :
            /\ request.at = "permissions"
            /\ \E perms : request' = Ever([request EXCEPT !.at = at,
                 !.auth = [type |-> request.cred, roles |-> request.auth.roles,
                           permissions |-> perms]])
      BY <1>4 DEF ReadPermissions
    <3> QED  BY <3>1 DEF Shape, Ever, Moves, Places
  <2>2. request'.auth.roles = request.auth.roles
    BY <2>1 DEF Moves, Shape
  <2> QED
    BY <2>1, <2>2 DEF Moves, SeenInv, EventsInv, Protected, AdmittedByTheDatabase,
         OutcomesAreAudited
<1>5. CASE RecordUsage
  <2>1. Moves("succeeded", request.auth, request.events) /\ request.at = "usage"
    BY <1>5, ToMoves DEF RecordUsage, Places
  <2> QED
    BY <2>1 DEF Moves, SeenInv, EventsInv, Protected, AdmittedByTheDatabase, OutcomesAreAudited
<1> QED  BY <1>1, <1>2, <1>3, <1>4, <1>5

LEMMA PairsAreEqual ==
  ASSUME NEW S, NEW s \in Seq(S), NEW t \in Seq(S), Len(s) = 2, Len(t) = 2, s[1] = t[1], s[2] = t[2]
  PROVE  s = t
<1>1. \A i \in 1..2 : s[i] = t[i]
  OBVIOUS
<1> QED  BY <1>1

LEMMA AppendToOne ==
  ASSUME NEW a, NEW b
  PROVE  Append(<<a>>, b) = <<a, b>>
<1>0. PICK S : a \in S /\ b \in S
  <2>1. a \in {a, b} /\ b \in {a, b}
    OBVIOUS
  <2> QED  BY <2>1
<1>1. /\ Append(<<a>>, b) \in Seq(S) /\ Len(Append(<<a>>, b)) = 2
      /\ Append(<<a>>, b)[1] = a /\ Append(<<a>>, b)[2] = b
  BY <1>0
<1>2. <<a, b>> \in Seq(S) /\ Len(<<a, b>>) = 2 /\ <<a, b>>[1] = a /\ <<a, b>>[2] = b
  BY <1>0
<1> QED  BY <1>1, <1>2, PairsAreEqual

LEMMA ReportsKeep ==
  ASSUME IInv, ReportSuccess \/ ReportFailure \/ ReportDenial
  PROVE  IInv'
<1> USE DEF IInv
<1>1. CASE ReportSuccess
  <2> DEFINE r == Reported("authentication.succeeded")
             place == Decision(r)
  <2>1. /\ place \in {"handler", "denied", "500"}
        /\ r.route = request.route /\ r.auth = request.auth
    BY DEF Decision, Reported, Shape
  <2>2. place = "handler" =>
          request.route.roles \in {None, {}} \/ request.route.roles \intersect request.auth.roles # {}
    BY <2>1 DEF Decision
  <2>3. request.at = "succeeded" /\ request' = Ever([r EXCEPT !.at = place])
    BY <1>1 DEF ReportSuccess
  <2> HIDE DEF place
  <2>4. Moves(place, request.auth, Append(request.events, "authentication.succeeded"))
    BY <2>1, <2>3, ReportMoves DEF Places
  <2>5. request'.events = <<"authentication.succeeded">>
    BY <2>3, <2>4 DEF Moves, EventsInv
  <2> QED
    BY <2>1, <2>2, <2>3, <2>4, <2>5 DEF Moves, SeenInv, EventsInv, Protected,
         AdmittedByTheDatabase, OutcomesAreAudited
<1>2. CASE ReportFailure
  <2>1. Moves("401", request.auth, Append(request.events, "authentication.failed"))
    BY <1>2, ReportMoves DEF ReportFailure, Places
  <2>2. request'.events = <<"authentication.failed">>
    BY <1>2, <2>1 DEF ReportFailure, Moves, EventsInv
  <2> QED
    BY <2>1, <2>2 DEF Moves, SeenInv, EventsInv, Protected, AdmittedByTheDatabase,
         OutcomesAreAudited
<1>3. CASE ReportDenial
  <2>1. Moves("403", request.auth, Append(request.events, "authorization.denied"))
    BY <1>3, ReportMoves DEF ReportDenial, Places
  <2>2. Protected => request'.events = <<"authentication.succeeded", "authorization.denied">>
    <3>1. Protected => request.events = <<"authentication.succeeded">>
      BY <1>3 DEF ReportDenial, EventsInv
    <3>2. request'.events = Append(request.events, "authorization.denied")
      BY <2>1 DEF Moves
    <3>3. Append(<<"authentication.succeeded">>, "authorization.denied")
            = <<"authentication.succeeded", "authorization.denied">>
      BY AppendToOne
    <3> QED  BY <3>1, <3>2, <3>3
  <2> QED
    BY <2>1, <2>2 DEF Moves, SeenInv, EventsInv, Protected, AdmittedByTheDatabase,
         OutcomesAreAudited
<1> QED  BY <1>1, <1>2, <1>3

LEMMA FailuresKeep ==
  ASSUME IInv, StatementFails
  PROVE  IInv'
<1> USE DEF IInv
<1>1. \/ /\ Moves("failed", request.auth, request.events)
         /\ request.at \in {"find", "user", "roles", "permissions"}
      \/ Moves("500", request.auth, request.events)
  BY ToMoves DEF StatementFails, Places
<1> QED
  BY <1>1 DEF Moves, SeenInv, EventsInv, Protected, AdmittedByTheDatabase, OutcomesAreAudited

LEMMA Invariance == Spec => []IInv
<1>1. Init => IInv
  BY FreeIInv DEF Init
<1>2. IInv /\ [Next]_vars => IInv'
  <2> SUFFICES ASSUME IInv, [Next]_vars PROVE IInv'
    OBVIOUS
  <2>1. CASE UNCHANGED vars
    BY <2>1 DEF vars, IInv, Shape, SeenInv, EventsInv, Protected, AdmittedByTheDatabase,
         OutcomesAreAudited
  <2>2. CASE Answer
    BY <2>2, FreeAgain DEF Answer
  <2> QED
    BY <2>1, <2>2, OthersKeep, ReceiveKeeps, ReadsKeep, ReportsKeep, FailuresKeep DEF Next
<1> QED  BY <1>1, <1>2, PTL DEF Spec

(* A handler behind a strategy acts only on what the database has said     *)
(* during its own request.                                                 *)
THEOREM AdmissionIsCurrent == Spec => []AdmittedByTheDatabase
BY Invariance, PTL DEF IInv

(* No outcome of a protected route goes without its events.                *)
THEOREM OutcomesLeaveEvents == Spec => []OutcomesAreAudited
BY Invariance, PTL DEF IInv

-----------------------------------------------------------------------------
(* Behind a router that hands over all that a route declares.              *)
WholeInv ==
  /\ Shape
  /\ request.route = request.declared
  /\ PoliciesGrant

LEMMA FreeWhole == request = Free => WholeInv
<1> SUFFICES ASSUME request = Free PROVE WholeInv
  OBVIOUS
<1>1. Shape
  BY DEF Free, Asked, NoAuth, Shape, Places
<1>2. request.at = "free" /\ request.route = None /\ request.declared = None
  BY DEF Free, Asked
<1> QED  BY <1>1, <1>2 DEF WholeInv, PoliciesGrant

LEMMA FreeWholeAgain == request' = Free => WholeInv'
<1> SUFFICES ASSUME request' = Free PROVE WholeInv'
  OBVIOUS
<1>1. Shape'
  BY DEF Free, Asked, NoAuth, Shape, Places
<1>2. request'.at = "free" /\ request'.route = None /\ request'.declared = None
  BY DEF Free, Asked
<1> QED  BY <1>1, <1>2 DEF WholeInv, PoliciesGrant

(* The decision lets nobody through whom a policy turns away.              *)
LEMMA DecisionAsksPolicies ==
  ASSUME NEW r, Decision(r) = "handler", r.route.policies # None,
         NEW p \in Range(r.route.policies)
  PROVE  Allows(p, r.auth, r.call)
<1> DEFINE policies == r.route.policies
           Bad == {i \in DOMAIN policies :
                     policies[i] \notin Policies \/ ~Allows(policies[i], r.auth, r.call)}
<1>1. PICK i \in DOMAIN policies : p = policies[i]
  BY DEF Range
<1>2. policies # <<>>
  BY <1>1
<1>3. Bad = {}
  BY <1>2 DEF Decision
<1> QED  BY <1>1, <1>3

LEMMA WholeReceived ==
  ASSUME Routers = {"whole"}, Receive
  PROVE  WholeInv'
<1>1. PICK call, cred :
        \/ Fitting(call) = {} /\ request' = Ever([Free EXCEPT !.at = "404"])
        \/ /\ Fitting(call) # {}
           /\ \E whole :
                request' = Ever([Asked(call, cred, whole, whole) EXCEPT
                                   !.at = Admission(Asked(call, cred, whole, whole))])
  BY DEF Receive
<1>2. CASE Fitting(call) = {}
  <2>1. request' = [at |-> "404", call |-> None, route |-> None, declared |-> None,
                    cred |-> None, auth |-> NoAuth, ever |-> Facts', events |-> <<>>]
    BY <1>1, <1>2 DEF Free, Asked, Ever
  <2> QED
    BY <2>1 DEF NoAuth, WholeInv, Shape, Places, PoliciesGrant
<1>3. CASE Fitting(call) # {}
  <2>1. PICK whole :
          request' = Ever([Asked(call, cred, whole, whole) EXCEPT
                             !.at = Admission(Asked(call, cred, whole, whole))])
    BY <1>1, <1>3
  <2> DEFINE r == Asked(call, cred, whole, whole)
             place == Admission(r)
  <2>2. request' = Ever([r EXCEPT !.at = place])
    BY <2>1
  <2>3. /\ place \in {"handler", "denied", "500", "find"}
        /\ place = "handler" => whole.public = TRUE \/ whole.strategy = None
    BY DEF Admission, Decision, Asked
  <2>4. request' = [at |-> place, call |-> call, route |-> whole, declared |-> whole,
                    cred |-> cred, auth |-> NoAuth, ever |-> Facts', events |-> <<>>]
    <3> HIDE DEF place
    <3> QED  BY <2>2, <2>3 DEF Ever, Asked
  <2> HIDE DEF place
  <2> QED
    BY <2>3, <2>4 DEF NoAuth, WholeInv, Shape, Places, PoliciesGrant, Protected
<1> QED  BY <1>2, <1>3

LEMMA WholeReported ==
  ASSUME WholeInv, ReportSuccess
  PROVE  WholeInv'
<1> DEFINE r == Reported("authentication.succeeded")
           place == Decision(r)
<1>1. /\ place \in {"handler", "denied", "500"}
      /\ r.route = request.route /\ r.auth = request.auth /\ r.call = request.call
  BY DEF Decision, Reported, WholeInv, Shape
<1>2. ASSUME place = "handler", request.route.policies # None,
             NEW p \in Range(request.route.policies)
      PROVE  Allows(p, request.auth, request.call)
  <2> HIDE DEF r
  <2> QED  BY <1>1, <1>2, DecisionAsksPolicies
<1>3. request' = Ever([r EXCEPT !.at = place])
  BY DEF ReportSuccess
<1> HIDE DEF place
<1>4. Moves(place, request.auth, Append(request.events, "authentication.succeeded"))
  BY <1>1, <1>3, ReportMoves DEF Places, WholeInv
<1> QED
  BY <1>1, <1>2, <1>4 DEF Moves, WholeInv, PoliciesGrant

LEMMA WholeKept ==
  ASSUME Routers = {"whole"}, WholeInv, [Next]_vars
  PROVE  WholeInv'
<1>1. ASSUME NEW at \in Places \ {"free", "handler"}, NEW auth, NEW events, Moves(at, auth, events)
      PROVE  WholeInv'
  BY <1>1 DEF WholeInv, Moves, PoliciesGrant
<1>2. CASE UNCHANGED vars
  BY <1>2 DEF vars, WholeInv, Shape, PoliciesGrant, Protected
<1>3. CASE RevokeCredential \/ SetStatus \/ SetRoles \/ SetPermissions
  <2>1. request' = Ever(request)
    BY <1>3 DEF RevokeCredential, SetStatus, SetRoles, SetPermissions
  <2>2. /\ Shape' /\ request'.at = request.at /\ request'.auth = request.auth
        /\ request'.call = request.call /\ request'.route = request.route
        /\ request'.declared = request.declared
    <3>1. CASE request.at = "free"
      <4>1. request = Free
        BY <3>1 DEF WholeInv, Shape
      <4>2. request' = Free
        BY <2>1, <3>1, <4>1 DEF Ever, Free, Asked
      <4> QED  BY <4>1, <4>2, FreeWholeAgain DEF WholeInv
    <3>2. CASE request.at # "free"
      BY <2>1, <3>2 DEF WholeInv, Shape, Ever
    <3> QED  BY <3>1, <3>2
  <2> QED  BY <2>2 DEF WholeInv, PoliciesGrant, Protected
<1>4. CASE Receive
  BY <1>4, WholeReceived
<1>5. CASE FindSession \/ FindKey \/ ReadUser
  BY <1>1, <1>5, ToMoves DEF FindSession, FindKey, ReadUser, Places, WholeInv
<1>6. CASE ReadRoles \/ ReadPermissions
  <2>1. CASE ReadRoles
    <3>1. Moves("permissions", [request.auth EXCEPT !.roles = held], request.events)
      BY <2>1 DEF ReadRoles, WholeInv, Shape, Ever, Moves, Places
    <3> QED  BY <1>1, <3>1 DEF Places
  <2>2. CASE ReadPermissions
    <3>1. PICK at \in {"usage", "succeeded"} :
            \E perms : request' = Ever([request EXCEPT !.at = at,
               !.auth = [type |-> request.cred, roles |-> request.auth.roles,
                         permissions |-> perms]])
      BY <2>2 DEF ReadPermissions
    <3>2. PICK perms :
            Moves(at, [type |-> request.cred, roles |-> request.auth.roles,
                       permissions |-> perms], request.events)
      BY <3>1 DEF WholeInv, Shape, Ever, Moves, Places
    <3> QED  BY <1>1, <3>2 DEF Places
  <2> QED  BY <1>6, <2>1, <2>2
<1>7. CASE RecordUsage \/ StatementFails
  BY <1>1, <1>7, ToMoves DEF RecordUsage, StatementFails, Places, WholeInv
<1>8. CASE ReportSuccess
  BY <1>8, WholeReported
<1>9. CASE ReportFailure \/ ReportDenial
  BY <1>1, <1>9, ReportMoves DEF ReportFailure, ReportDenial, Places, WholeInv
<1>10. CASE Answer
  BY <1>10, FreeWholeAgain DEF Answer
<1> QED
  BY <1>2, <1>3, <1>4, <1>5, <1>6, <1>7, <1>8, <1>9, <1>10 DEF Next

(* Behind such a router every policy a route names has granted access      *)
(* before its handler acts: what the middleware decides loses none, and    *)
(* mergeAuth of RuntimeRouter alone makes the difference.                  *)
THEOREM PoliciesGrantBehindWhole ==
  ASSUME Routers = {"whole"}
  PROVE  Spec => []PoliciesGrant
<1>1. Init => WholeInv
  BY FreeWhole DEF Init
<1>2. WholeInv /\ [Next]_vars => WholeInv'
  BY WholeKept
<1> QED  BY <1>1, <1>2, PTL DEF Spec, WholeInv
=============================================================================
