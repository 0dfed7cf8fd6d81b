----------------------------- MODULE PipelineProofs -----------------------------
(***************************************************************************)
(* What one request goes through, for any number of middlewares in each    *)
(* zone that do anything.                                                  *)
(***************************************************************************)
EXTENDS RequestPipeline, TLAPS

USE PipelineAssumption

(* A zone runs from its first middleware on.                               *)
PlaceInv == dir = "down" => at >= 1

Answered == response # "none" \/ "null" \in facts
Twice == finals = 2 /\ "shortCircuited" \in facts
Stopped == facts \cap {"answered", "refused"} # {}

(* Which stages know what of the FINAL zone.                               *)
FinalInv ==
  /\ stage \in {"resolve", "validate"} => facts = {} /\ finals = 0
  /\ stage \in {"auth", "pre", "controller", "post"} =>
       finals = 0 /\ "shortCircuited" \notin facts
  /\ stage = "error" => finals = 0 \/ (finals = 1 /\ "shortCircuited" \in facts)
  /\ stage = "final" =>
       IF exit = "finally" THEN finals = 1 /\ "shortCircuited" \in facts ELSE finals = 1 \/ Twice
  /\ stage \in {"fallback", "settled"} /\ "tried" \in facts => finals = 1 \/ Twice

(* Where the client has its answer.                                        *)
AnswerInv ==
  /\ stage = "post" => Answered
  /\ stage = "final" /\ exit # "reject" => Answered
  /\ stage = "settled" => Answered

(* An outcome of auth or pre travels up its zone until it is lost.         *)
StopInv ==
  /\ stage \in {"auth", "pre"} /\ Stopped => "lost" \in facts \/ (dir = "up" /\ value # "none")
  /\ stage = "controller" /\ Stopped => "lost" \in facts
  /\ "acted" \in facts =>
       /\ stage \in {"post", "error", "final", "fallback", "settled"}
       /\ Stopped => "lost" \in facts

PipelineInv == TypeOK /\ PlaceInv /\ FinalInv /\ AnswerInv /\ StopInv

-----------------------------------------------------------------------------
(* An answer stays, and a successful write makes one.                      *)
LEMMA WriteAnswers ==
  ASSUME TypeOK, NEW ok \in BOOLEAN, NEW how \in {"begun", "ended"}, Write(ok, how)
  PROVE  /\ response' \in {"none", "begun", "ended"}
         /\ response # "none" => response' # "none"
         /\ ok => response' # "none"
BY DEF TypeOK, Write, Sent

LEMMA RendersAnswer ==
  ASSUME TypeOK, NEW ok \in BOOLEAN, Render(ok) \/ HandleError(ok)
  PROVE  /\ response' \in {"none", "begun", "ended"}
         /\ response # "none" => response' # "none"
         /\ ok => response' # "none"
BY WriteAnswers DEF Render, HandleError

LEMMA InitPipeline == Init => PipelineInv
BY DEF Init, PipelineInv, TypeOK, PlaceInv, FinalInv, AnswerInv, StopInv, Zones, Outcomes, Stopped

(* The steps of the pipe, inside one zone.                                 *)
LEMMA CallNextKeeps == PipelineInv /\ CallNext => PipelineInv'
BY DEF CallNext, PipelineInv, TypeOK, PlaceInv, FinalInv, AnswerInv, StopInv, Zones, Outcomes, Stopped,
       Answered, Twice

LEMMA EndOfChainKeeps == PipelineInv /\ EndOfChain => PipelineInv'
BY DEF EndOfChain, PipelineInv, TypeOK, PlaceInv, FinalInv, AnswerInv, StopInv, Zones, Outcomes, Stopped,
       Answered, Twice

LEMMA SettleKeeps ==
  ASSUME PipelineInv, NEW v \in Outcomes, Settle(v)
  PROVE  PipelineInv'
BY DEF Settle, Mark, PipelineInv, TypeOK, PlaceInv, FinalInv, AnswerInv, StopInv, Zones, Outcomes,
       Stopped, Answered, Twice

LEMMA UnwindKeeps ==
  ASSUME PipelineInv, NEW v \in Outcomes, Unwind(v)
  PROVE  PipelineInv'
BY DEF Unwind, Mark, PipelineInv, TypeOK, PlaceInv, FinalInv, AnswerInv, StopInv, Zones, Outcomes,
       Stopped, Answered, Twice

LEMMA ByHandKeeps == PipelineInv /\ (WriteByHand \/ StreamEnds) => PipelineInv'
<1>. SUFFICES ASSUME PipelineInv, WriteByHand \/ StreamEnds PROVE PipelineInv'
  OBVIOUS
<1>1. response' = "ended" /\ UNCHANGED <<platform, size, stage, exit, at, dir, value, finals, facts>>
  BY DEF WriteByHand, StreamEnds, zoneVars
<1>2. TypeOK' /\ PlaceInv' /\ FinalInv'
  BY <1>1 DEF PipelineInv, TypeOK, PlaceInv, FinalInv, Twice
<1>3. AnswerInv'
  BY <1>1 DEF PipelineInv, AnswerInv, Answered
<1>4. StopInv'
  BY <1>1 DEF PipelineInv, StopInv, Stopped
<1> QED  BY <1>2, <1>3, <1>4 DEF PipelineInv

-----------------------------------------------------------------------------
(* The steps of execute(), each by what it does to the response.           *)

LEMMA ResolveKeeps == PipelineInv /\ Resolve => PipelineInv'
<1>. SUFFICES ASSUME PipelineInv, Resolve PROVE PipelineInv'
  OBVIOUS
<1>1. /\ stage = "resolve" /\ UNCHANGED <<platform, size, exit, at, dir, value, finals, facts>>
      /\ \/ stage' \in {"validate", "fallback"} /\ response' = response
         \/ stage' = "settled" /\ HandleError(TRUE)
  BY DEF Resolve, Leave, zoneVars
<1>2. response' \in {"none", "begun", "ended"} /\ (stage' = "settled" => response' # "none")
  BY <1>1, RendersAnswer DEF PipelineInv, TypeOK
<1> QED
  BY <1>1, <1>2 DEF PipelineInv, TypeOK, PlaceInv, FinalInv, AnswerInv, StopInv, Zones, Stopped, Answered, Twice

LEMMA ValidateKeeps == PipelineInv /\ Validate => PipelineInv'
<1>. SUFFICES ASSUME PipelineInv, Validate PROVE PipelineInv'
  OBVIOUS
<1>1. CASE Go("auth") /\ Note("tried") /\ UNCHANGED response
  BY <1>1 DEF Validate, Go, Enter, Note, PipelineInv, TypeOK, PlaceInv, FinalInv, AnswerInv, StopInv,
       Zones, Outcomes, Stopped, Answered, Twice
<1>2. CASE HandleError(TRUE) /\ Finally("return") /\ UNCHANGED facts
  <2>1. response' \in {"none", "begun", "ended"} /\ response' # "none"
    BY <1>2, RendersAnswer DEF PipelineInv
  <2> QED
    BY <1>2, <2>1 DEF Validate, Finally, Enter, PipelineInv, TypeOK, PlaceInv, FinalInv, AnswerInv,
         StopInv, Zones, Outcomes, Stopped, Answered, Twice
<1>3. CASE HandleError(FALSE) /\ Leave("fallback") /\ UNCHANGED facts
  <2>1. response' \in {"none", "begun", "ended"}
    BY <1>3, RendersAnswer DEF PipelineInv
  <2> QED
    BY <1>3, <2>1 DEF Validate, Leave, zoneVars, PipelineInv, TypeOK, PlaceInv, FinalInv, AnswerInv,
         StopInv, Zones, Outcomes, Stopped, Answered, Twice
<1> QED  BY <1>1, <1>2, <1>3 DEF Validate

LEMMA AfterZonesKeep == PipelineInv /\ (AfterAuth \/ AfterPre \/ AfterPost \/ Catch) => PipelineInv'
<1>. SUFFICES ASSUME PipelineInv, AfterAuth \/ AfterPre \/ AfterPost \/ Catch PROVE PipelineInv'
  OBVIOUS
<1>. USE DEF Done, Enter, PipelineInv, TypeOK, PlaceInv, FinalInv, AnswerInv, StopInv, Zones, Outcomes,
       Stopped, Answered, Twice
<1>1. CASE AfterAuth  BY <1>1 DEF AfterAuth, Go
<1>2. CASE AfterPre  BY <1>2 DEF AfterPre, Leave, zoneVars
<1>3. CASE AfterPost  BY <1>3 DEF AfterPost, Finally
<1>4. CASE Catch  BY <1>4 DEF Catch, Go
<1> QED  BY <1>1, <1>2, <1>3, <1>4

LEMMA ShortCircuitKeeps == PipelineInv /\ ShortCircuit => PipelineInv'
<1>. SUFFICES ASSUME PipelineInv, ShortCircuit PROVE PipelineInv'
  OBVIOUS
<1>1. /\ stage \in {"auth", "pre"} /\ UNCHANGED <<platform, size>>
      /\ facts' = facts \cup {"shortCircuited"}
  BY DEF ShortCircuit, Done, Note
<1>2. CASE Render(TRUE) /\ Finally("finally")
  <2>1. response' \in {"none", "begun", "ended"} /\ response' # "none"
    BY <1>2, RendersAnswer DEF PipelineInv
  <2> QED
    BY <1>1, <1>2, <2>1 DEF Finally, Enter, PipelineInv, TypeOK, PlaceInv, FinalInv, AnswerInv, StopInv,
         Zones, Outcomes, Stopped, Answered, Twice
<1>3. CASE Render(FALSE) /\ Go("error")
  <2>1. response' \in {"none", "begun", "ended"}
    BY <1>3, RendersAnswer DEF PipelineInv
  <2> QED
    BY <1>1, <1>3, <2>1 DEF Go, Enter, PipelineInv, TypeOK, PlaceInv, FinalInv, AnswerInv, StopInv,
         Zones, Outcomes, Stopped, Answered, Twice
<1> QED  BY <1>2, <1>3 DEF ShortCircuit

LEMMA RunControllerKeeps == PipelineInv /\ RunController => PipelineInv'
<1>. SUFFICES ASSUME PipelineInv, RunController PROVE PipelineInv'
  OBVIOUS
<1>1. /\ stage = "controller" /\ UNCHANGED <<platform, size>>
      /\ \/ facts' = facts \cup {"acted"}
         \/ facts' = facts \cup {"acted", "null"}
  BY DEF RunController, Note
<1>2. /\ response' \in {"none", "begun", "ended"} /\ (response # "none" => response' # "none")
      /\ \/ Answered' /\ (Go("post") \/ Finally("return"))
         \/ Go("error")
  <2>1. CASE Render(TRUE)
    <3>1. response' \in {"none", "begun", "ended"} /\ response' # "none"
      BY <2>1, RendersAnswer DEF PipelineInv
    <3> QED  BY <2>1, <3>1 DEF RunController, Answered
  <2>2. CASE Render(FALSE)
    <3>1. response' \in {"none", "begun", "ended"} /\ (response # "none" => response' # "none")
      BY <2>2, RendersAnswer DEF PipelineInv
    <3>2. CASE Render(FALSE) /\ Note("acted") /\ Go("error")  BY <3>1, <3>2
    <3>3. CASE ~(Render(FALSE) /\ Note("acted") /\ Go("error")) /\ ~Render(TRUE)
      BY <3>1, <3>3 DEF RunController, Answered
    <3> QED  BY <2>1, <3>2, <3>3
  <2>3. CASE UNCHANGED response
    BY <2>1, <2>2, <2>3 DEF RunController, Answered, PipelineInv, TypeOK
  <2> QED  BY <2>1, <2>2, <2>3 DEF RunController
<1>3. /\ facts' \subseteq {"tried", "answered", "refused", "lost", "shortCircuited", "acted", "null"}
      /\ \A f \in {"shortCircuited", "lost", "answered", "refused"} : f \in facts' <=> f \in facts
      /\ Stopped' <=> Stopped
  <2>1. \A f \in {"shortCircuited", "lost", "answered", "refused"} : f \in facts' <=> f \in facts
    BY <1>1
  <2> QED  BY <1>1, <2>1 DEF PipelineInv, TypeOK, Stopped
<1>4. Stopped => "lost" \in facts
  BY <1>1 DEF PipelineInv, StopInv
<1>5. finals = 0 /\ "shortCircuited" \notin facts
  BY <1>1 DEF PipelineInv, FinalInv
<1>6. CASE Answered' /\ Go("post")
  <2>1. /\ stage' = "post" /\ at' = 1 /\ dir' = "down" /\ value' = "none"
        /\ exit' = exit /\ finals' = finals
    BY <1>6 DEF Go, Enter
  <2>2. TypeOK' /\ PlaceInv' /\ FinalInv'
    BY <1>1, <1>2, <1>3, <1>5, <2>1 DEF PipelineInv, TypeOK, PlaceInv, FinalInv, Twice, Zones, Outcomes
  <2>3. AnswerInv' /\ StopInv'
    BY <1>3, <1>4, <1>6, <2>1 DEF AnswerInv, StopInv
  <2> QED  BY <2>2, <2>3 DEF PipelineInv
<1>7. CASE Answered' /\ Finally("return")
  <2>1. /\ stage' = "final" /\ at' = 1 /\ dir' = "down" /\ value' = "none"
        /\ exit' = "return" /\ finals' = finals + 1
    BY <1>7 DEF Finally, Enter
  <2>2. TypeOK' /\ PlaceInv' /\ FinalInv'
    BY <1>1, <1>2, <1>3, <1>5, <2>1 DEF PipelineInv, TypeOK, PlaceInv, FinalInv, Twice, Zones, Outcomes
  <2>3. AnswerInv' /\ StopInv'
    BY <1>3, <1>4, <1>7, <2>1 DEF AnswerInv, StopInv
  <2> QED  BY <2>2, <2>3 DEF PipelineInv
<1>8. CASE Go("error")
  <2>1. /\ stage' = "error" /\ at' = 1 /\ dir' = "down" /\ value' = "none"
        /\ exit' = exit /\ finals' = finals
    BY <1>8 DEF Go, Enter
  <2>2. TypeOK' /\ PlaceInv' /\ FinalInv'
    BY <1>1, <1>2, <1>3, <1>5, <2>1 DEF PipelineInv, TypeOK, PlaceInv, FinalInv, Twice, Zones, Outcomes
  <2>3. AnswerInv' /\ StopInv'
    BY <1>3, <1>4, <2>1 DEF AnswerInv, StopInv
  <2> QED  BY <2>2, <2>3 DEF PipelineInv
<1> QED  BY <1>2, <1>6, <1>7, <1>8

LEMMA AfterErrorKeeps == PipelineInv /\ AfterError => PipelineInv'
<1>. SUFFICES ASSUME PipelineInv, AfterError PROVE PipelineInv'
  OBVIOUS
<1>1. /\ stage = "error" /\ UNCHANGED <<platform, size, facts>>
      /\ \/ (Render(TRUE) \/ HandleError(TRUE)) /\ Finally("return")
         \/ (Render(FALSE) \/ HandleError(FALSE) \/ UNCHANGED response) /\ Finally("reject")
  BY DEF AfterError, Done
<1>2. /\ response' \in {"none", "begun", "ended"}
      /\ \/ response' # "none" /\ Finally("return")
         \/ Finally("reject")
  BY <1>1, RendersAnswer DEF PipelineInv, TypeOK
<1> QED
  BY <1>1, <1>2 DEF Finally, Enter, PipelineInv, TypeOK, PlaceInv, FinalInv, AnswerInv, StopInv,
       Zones, Outcomes, Stopped, Answered, Twice

LEMMA AfterFinalKeeps == PipelineInv /\ AfterFinal => PipelineInv'
<1>. SUFFICES ASSUME PipelineInv, AfterFinal PROVE PipelineInv'
  OBVIOUS
<1>1. /\ stage = "final" /\ UNCHANGED <<platform, size, response, facts>>
      /\ \/ exit = "return" /\ Leave("settled")
         \/ exit \in {"return", "reject"} /\ Leave("fallback")
         \/ exit = "finally" /\ Finally("return")
  BY DEF AfterFinal, Done, PipelineInv, TypeOK
<1>. USE DEF PipelineInv, TypeOK, PlaceInv, FinalInv, AnswerInv, StopInv, Zones, Outcomes, Stopped,
       Answered, Twice
<1>2. CASE exit = "return" /\ Leave("settled")  BY <1>1, <1>2 DEF Leave, zoneVars
<1>3. CASE exit \in {"return", "reject"} /\ Leave("fallback")  BY <1>1, <1>3 DEF Leave, zoneVars
<1>4. CASE exit = "finally" /\ Finally("return")  BY <1>1, <1>4 DEF Finally, Enter
<1> QED  BY <1>1, <1>2, <1>3, <1>4

LEMMA FallbackKeeps == PipelineInv /\ Fallback => PipelineInv'
<1>. SUFFICES ASSUME PipelineInv, Fallback PROVE PipelineInv'
  OBVIOUS
<1>1. /\ stage = "fallback" /\ stage' = "settled"
      /\ UNCHANGED <<platform, size, exit, at, dir, value, finals, facts>>
      /\ HandleError(TRUE) \/ (response # "none" /\ response' = response)
  BY DEF Fallback, Leave, zoneVars
<1>2. response' \in {"none", "begun", "ended"} /\ response' # "none"
  BY <1>1, RendersAnswer DEF PipelineInv, TypeOK
<1> QED
  BY <1>1, <1>2 DEF PipelineInv, TypeOK, PlaceInv, FinalInv, AnswerInv, StopInv, Zones, Stopped,
       Answered, Twice

LEMMA NextPipeline == PipelineInv /\ [Next]_vars => PipelineInv'
<1>. SUFFICES ASSUME PipelineInv, [Next]_vars PROVE PipelineInv'
  OBVIOUS
<1>1. CASE UNCHANGED vars
  BY <1>1 DEF vars, zoneVars, PipelineInv, TypeOK, PlaceInv, FinalInv, AnswerInv, StopInv, Stopped,
       Answered, Twice
<1>2. CASE Step
  BY <1>2, CallNextKeeps, EndOfChainKeeps, SettleKeeps, UnwindKeeps, ResolveKeeps, ValidateKeeps,
     AfterZonesKeep, ShortCircuitKeeps, RunControllerKeeps, AfterErrorKeeps, AfterFinalKeeps,
     FallbackKeeps DEF Step
<1> QED  BY <1>1, <1>2, ByHandKeeps DEF Next

LEMMA AlwaysPipeline == Spec => []PipelineInv
BY InitPipeline, NextPipeline, PTL DEF Spec

-----------------------------------------------------------------------------
(* The pipeline stays inside its zones and stages.                         *)
THEOREM PipelineTypes == Spec => []TypeOK
BY AlwaysPipeline, PTL DEF PipelineInv

(* The FINAL zone runs once, and twice for a request that auth or pre      *)
(* answered.                                                               *)
THEOREM FinalZoneRuns == Spec => []FinalCount
<1>1. PipelineInv => FinalCount
  BY DEF PipelineInv, FinalInv, FinalCount, Twice
<1> QED  BY <1>1, AlwaysPipeline, PTL

(* Whatever throws, the client is answered.                                *)
THEOREM RequestsAreAnswered == Spec => []EveryRequestAnswered
<1>1. PipelineInv => EveryRequestAnswered
  BY DEF PipelineInv, AnswerInv, EveryRequestAnswered, Answered
<1> QED  BY <1>1, AlwaysPipeline, PTL

(* A request that auth or pre stopped does not reach the controller, unless *)
(* a middleware lost the outcome.                                          *)
THEOREM StoppedRequestsStay == Spec => []StoppedRequestsStop
<1>1. PipelineInv => StoppedRequestsStop
  BY DEF PipelineInv, StopInv, StoppedRequestsStop, Stopped
<1> QED  BY <1>1, AlwaysPipeline, PTL
=================================================================================
