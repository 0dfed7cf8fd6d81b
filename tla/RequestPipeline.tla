---------------------------- MODULE RequestPipeline ----------------------------
(***************************************************************************)
(* One request in RuntimeRequestOrchestrator.execute (packages/runtime/    *)
(* src/http): the route, the validation, the zones auth, pre, post, error  *)
(* and final run by RuntimeMiddlewarePipe, the controller, the renderer of *)
(* a platform adapter, and the fallback of ServerModule and the adapters.  *)
(*                                                                         *)
(* Middleware and controllers belong to the application: at every step     *)
(* they do anything their signature allows.  Results are abstracted to     *)
(* "none" (undefined), "result" (an ActionResult) and "error" (a throw).   *)
(***************************************************************************)
EXTENDS Naturals

CONSTANT MaxMiddlewares   \* bound: middlewares registered for one zone

ASSUME PipelineAssumption == MaxMiddlewares \in Nat

VARIABLES
  platform,   \* the adapter that made the response object
  size,       \* size[z]: how many middlewares zone z has for the route
  stage,      \* where execute() stands
  exit,       \* what follows the FINAL zone that runs or comes next
  at,         \* the index dispatch() has reached in its zone
  dir,        \* "down": at is about to run; "up": next() of at has settled
  value,      \* what next() of at settled with
  response,   \* "none", "begun" (a stream is being piped) or "ended"
  finals,     \* how often the FINAL zone was run
  facts       \* history: what happened to this request

zoneVars == <<at, dir, value>>
vars == <<platform, size, stage, exit, zoneVars, response, finals, facts>>

Zones == {"auth", "pre", "post", "error", "final"}
Outcomes == {"none", "result", "error"}

Init ==
  /\ platform \in {"node", "express"}
  /\ size \in [Zones -> 0..MaxMiddlewares]
  /\ stage = "resolve"
  /\ exit = "return"
  /\ at = 0 /\ dir = "up" /\ value = "none"
  /\ response = "none"
  /\ finals = 0
  /\ facts = {}

Note(fact) == facts' = facts \cup {fact}

-----------------------------------------------------------------------------
(* The response.                                                           *)

(* res.sent: the Node adapter reports a finished response, and the Express *)
(* adapter has no such property.                                           *)
Sent == platform = "node" /\ response = "ended"

(* Writing an answer, which may fail by itself: a body that cannot be      *)
(* encoded, headers that have gone.  A stream goes on after render() has   *)
(* returned; until its first bytes go another answer can overtake it.      *)
Write(ok, how) ==
  \/ Sent /\ ok /\ UNCHANGED response
  \/ ~Sent /\ ~ok /\ UNCHANGED response
  \/ ~Sent /\ ok /\ response # "ended" /\ response' = how

Render(ok) == \E how \in {"begun", "ended"} : Write(ok, how)
HandleError(ok) == Write(ok, "ended")

StreamEnds ==
  /\ response = "begun"
  /\ response' = "ended"
  /\ UNCHANGED <<platform, size, stage, exit, zoneVars, finals, facts>>

-----------------------------------------------------------------------------
(* runZone(): dispatch(0) of the zone's middlewares.                       *)
Enter(zone) ==
  /\ stage' = zone
  /\ at' = 1 /\ dir' = "down" /\ value' = "none"

(* runFinal(), and what the code does when it has settled: leave execute() *)
(* normally, rethrow, or leave the try block of a short-circuited request. *)
Finally(way) ==
  /\ Enter("final")
  /\ exit' = way
  /\ finals' = finals + 1

Leave(label) ==
  /\ stage' = label
  /\ UNCHANGED <<zoneVars, exit, finals>>

Go(zone) == Enter(zone) /\ UNCHANGED <<exit, finals>>

(* The middleware at `at` calls next().                                    *)
CallNext ==
  /\ stage \in Zones /\ dir = "down" /\ at <= size[stage]
  /\ at' = at + 1
  /\ UNCHANGED <<platform, size, stage, exit, dir, value, response, finals, facts>>

(* What the outcome of a middleware of auth or pre makes of the request.   *)
Mark(lost, v) ==
  facts' = facts \cup IF stage \notin {"auth", "pre"} THEN {}
                     ELSE CASE v = "result" -> {"answered"}
                            [] v = "error" -> {"refused"}
                            [] v = "none" -> IF lost = "none" THEN {} ELSE {"lost"}

(* It settles without having called next(); who comes after it in the zone *)
(* is left out, with whatever outcome.                                     *)
Settle(v) ==
  /\ stage \in Zones /\ dir = "down" /\ at <= size[stage]
  /\ dir' = "up" /\ at' = at - 1 /\ value' = v
  /\ Mark("none", v)
  /\ UNCHANGED <<platform, size, stage, exit, response, finals>>

(* The last next() has nothing to dispatch: the pipe has no terminal.      *)
EndOfChain ==
  /\ stage \in Zones /\ dir = "down" /\ at > size[stage]
  /\ dir' = "up" /\ at' = at - 1 /\ value' = "none"
  /\ UNCHANGED <<platform, size, stage, exit, response, finals, facts>>

(* Its next() has settled, and the middleware settles too: it passes the   *)
(* outcome on, throws or answers by itself, or loses the outcome (it does  *)
(* not return what next() gave, or catches the error).                     *)
Unwind(v) ==
  /\ stage \in Zones /\ dir = "up" /\ at > 0
  /\ at' = at - 1 /\ value' = v
  /\ Mark(value, v)
  /\ UNCHANGED <<platform, size, stage, exit, dir, response, finals>>

(* A middleware or the controller's action writes to ctx.res itself.       *)
WriteByHand ==
  /\ \/ stage \in Zones /\ dir = "down" /\ at <= size[stage]
     \/ stage = "controller"
  /\ response = "none"
  /\ response' = "ended"
  /\ UNCHANGED <<platform, size, stage, exit, zoneVars, finals, facts>>

Done(zone, v) == stage = zone /\ dir = "up" /\ at = 0 /\ value = v

-----------------------------------------------------------------------------
(* execute().                                                              *)

(* The router, which throws when it cannot make the controller.  No route: *)
(* a 404, and nothing else of the pipeline.                                *)
Resolve ==
  /\ stage = "resolve"
  /\ \/ Leave("validate") /\ UNCHANGED <<response, facts>>
     \/ HandleError(TRUE) /\ Leave("settled") /\ UNCHANGED facts
     \/ Leave("fallback") /\ UNCHANGED <<response, facts>>
  /\ UNCHANGED <<platform, size>>

(* The schemas of the route; a failure is rendered outside the try block   *)
(* whose finally runs the FINAL zone.                                      *)
Validate ==
  /\ stage = "validate"
  /\ \/ Go("auth") /\ Note("tried") /\ UNCHANGED response
     \/ HandleError(TRUE) /\ Finally("return") /\ UNCHANGED facts
     \/ HandleError(FALSE) /\ Leave("fallback") /\ UNCHANGED facts
  /\ UNCHANGED <<platform, size>>

AfterAuth ==
  /\ Done("auth", "none")
  /\ Go("pre")
  /\ UNCHANGED <<platform, size, response, facts>>

AfterPre ==
  /\ Done("pre", "none")
  /\ Leave("controller")
  /\ UNCHANGED <<platform, size, response, facts>>

\* Mutant: a result is rendered, and the request goes on.
RenderAndGoOn ==
  /\ Done("auth", "result") \/ Done("pre", "result")
  /\ \/ Render(TRUE) /\ (IF stage = "auth" THEN Go("pre") ELSE Leave("controller"))
     \/ Render(FALSE) /\ Go("error")
  /\ Note("shortCircuited")
  /\ UNCHANGED <<platform, size>>

(* A result of zone auth or pre is rendered, and the FINAL zone runs here  *)
(* and once more in the finally block.                                     *)
ShortCircuit ==
  /\ Done("auth", "result") \/ Done("pre", "result")
  /\ \/ Render(TRUE) /\ Finally("finally")
     \/ Render(FALSE) /\ Go("error")
  /\ Note("shortCircuited")
  /\ UNCHANGED <<platform, size>>

(* The controller's action, the rendering of its result, and the choice of *)
(* the POST zone.  null is a result that renders nothing, and undefined an *)
(* error.                                                                  *)
RunController ==
  /\ stage = "controller"
  /\ UNCHANGED <<platform, size>>
  /\ \/ /\ Render(TRUE) /\ Note("acted")
        /\ IF Sent' THEN Go("post") ELSE Finally("return")
     \/ /\ UNCHANGED response
        /\ facts' = facts \cup {"acted", "null"}
        /\ IF Sent THEN Go("post") ELSE Finally("return")
     \/ Render(FALSE) /\ Note("acted") /\ Go("error")
     \/ UNCHANGED response /\ Note("acted") /\ Go("error")

AfterPost ==
  /\ \E v \in {"none", "result"} : Done("post", v)
  /\ Finally("return")
  /\ UNCHANGED <<platform, size, response, facts>>

(* catch: whatever the try block throws, a short-circuit's FINAL included. *)
Catch ==
  /\ \/ \E zone \in {"auth", "pre", "post"} : Done(zone, "error")
     \/ Done("final", "error") /\ exit = "finally"
  /\ Go("error")
  /\ UNCHANGED <<platform, size, response, facts>>

\* Mutant: an error that the zone does not answer is not rendered.
AnswerOnlyResults ==
  /\ \/ /\ Done("error", "result")
        /\ \/ Render(TRUE) /\ Finally("return")
           \/ Render(FALSE) /\ Finally("reject")
     \/ Done("error", "none") /\ Finally("return") /\ UNCHANGED response
     \/ Done("error", "error") /\ Finally("reject") /\ UNCHANGED response
  /\ UNCHANGED <<platform, size, facts>>

\* Mutant: the FINAL zone follows the catch block, not in a finally block.
SkipFinalOnFailure ==
  /\ \/ /\ Done("error", "result")
        /\ \/ Render(TRUE) /\ Finally("return")
           \/ Render(FALSE) /\ Leave("fallback")
     \/ /\ Done("error", "none")
        /\ \/ HandleError(TRUE) /\ Finally("return")
           \/ HandleError(FALSE) /\ Leave("fallback")
     \/ Done("error", "error") /\ Leave("fallback") /\ UNCHANGED response
  /\ UNCHANGED <<platform, size, facts>>

\* Mutant: what the catch block throws is caught by it as well.
CatchAgain ==
  /\ \/ /\ Done("error", "result")
        /\ \/ Render(TRUE) /\ Finally("return")
           \/ Render(FALSE) /\ Go("error")
     \/ /\ Done("error", "none")
        /\ \/ HandleError(TRUE) /\ Finally("return")
           \/ HandleError(FALSE) /\ Go("error")
     \/ Done("error", "error") /\ Go("error") /\ UNCHANGED response
  /\ UNCHANGED <<platform, size, facts>>

(* Unless the response is finished, the error zone's result is rendered,   *)
(* or the error itself.                                                    *)
AfterError ==
  /\ \/ /\ Done("error", "result")
        /\ \/ Render(TRUE) /\ Finally("return")
           \/ Render(FALSE) /\ Finally("reject")
     \/ /\ Done("error", "none")
        /\ \/ HandleError(TRUE) /\ Finally("return")
           \/ HandleError(FALSE) /\ Finally("reject")
     \/ Done("error", "error") /\ Finally("reject") /\ UNCHANGED response
  /\ UNCHANGED <<platform, size, facts>>

AfterFinal ==
  /\ \/ /\ \E v \in {"none", "result"} : Done("final", v)
        /\ CASE exit = "return" -> Leave("settled")
             [] exit = "reject" -> Leave("fallback")
             [] exit = "finally" -> Finally("return")
     \/ /\ Done("final", "error") /\ exit # "finally"
        /\ Leave("fallback")
  /\ UNCHANGED <<platform, size, response, facts>>

(* execute() rejected: ServerModule renders a 500, and when that throws    *)
(* too the adapter answers unless headers have been sent.                  *)
Fallback ==
  /\ stage = "fallback"
  /\ Leave("settled")
  /\ \/ HandleError(TRUE)
     \/ response # "none" /\ UNCHANGED response
  /\ UNCHANGED <<platform, size, facts>>

Step ==
  \/ CallNext \/ EndOfChain \/ \E v \in Outcomes : Settle(v) \/ Unwind(v)
  \/ Resolve \/ Validate \/ AfterAuth \/ AfterPre \/ ShortCircuit \/ RunController
  \/ AfterPost \/ Catch \/ AfterError \/ AfterFinal \/ Fallback

Next == Step \/ WriteByHand \/ StreamEnds

(* Middleware, controllers and schemas settle, as the event loop goes on.  *)
Spec == Init /\ [][Next]_vars
FairSpec == Spec /\ WF_vars(Step)

-----------------------------------------------------------------------------
TypeOK ==
  /\ platform \in {"node", "express"}
  /\ size \in [Zones -> 0..MaxMiddlewares]
  /\ stage \in Zones \cup {"resolve", "validate", "controller", "fallback", "settled"}
  /\ exit \in {"return", "reject", "finally"}
  /\ at \in 0..(MaxMiddlewares + 1) /\ dir \in {"down", "up"} /\ value \in Outcomes
  /\ response \in {"none", "begun", "ended"}
  /\ finals \in Nat
  /\ facts \subseteq {"tried", "answered", "refused", "lost", "shortCircuited", "acted", "null"}

(* The FINAL zone runs once for every request whose route and schemas fit, *)
(* however it goes, and once more for one that auth or pre answered.       *)
FinalCount ==
  stage = "settled" /\ "tried" \in facts =>
    \/ finals = 1
    \/ finals = 2 /\ "shortCircuited" \in facts

(* Whatever throws wherever, the client is answered, unless the controller *)
(* said null.                                                              *)
EveryRequestAnswered ==
  stage = "settled" => response # "none" \/ "null" \in facts

(* The controller does not act on a request that a middleware of auth or   *)
(* pre has answered or refused, unless an earlier middleware of the zone   *)
(* has lost that outcome.                                                  *)
StoppedRequestsStop ==
  "acted" \in facts /\ facts \cap {"answered", "refused"} # {} => "lost" \in facts

(* Every request settles, through any number of failures.                  *)
EveryRequestSettles == <>(stage = "settled")
=============================================================================
