---------------------------- MODULE GatePipeline ----------------------------
(***************************************************************************)
(* Client::gate_uncached step by step, in the order of the code: encode    *)
(* the request, wait for the scorer, check the answers, recompute the      *)
(* thresholds from the harm label, walk the blocks, then fold the unsure   *)
(* blocks, the extra questions and the trimmed state into the verdict one  *)
(* at a time.  Every early return of the function is an action.            *)
(***************************************************************************)
EXTENDS GateDecision

CONSTANTS
  Policies,    \* policies a host may pass
  Requests,    \* requests a host may pass
  Responses    \* what a scorer may answer

ASSUME PolicyAssumption ==
  \A policy \in Policies :
    /\ policy.signal \in SignalKind
    /\ policy.default_action \in ActionPolicy
    /\ \A action \in DOMAIN policy.actions :
         policy.actions[action] \in ActionPolicy

ASSUME RequestAssumption == Requests \subseteq GateRequest

ASSUME ResponseAssumption ==
  \A response \in Responses :
    /\ response = [answers  |-> response.answers,
                   fallback |-> response.fallback]
    /\ response.answers \in [DOMAIN response.answers -> Answer]

VARIABLES
  call,       \* [policy, request, fail]: the arguments, which never change
  stage,      \* the next statement of the function
  response,   \* the evaluated answers, NoResponse before they arrive
  gates,      \* the local `gates', recomputed once the harm label is known
  verdict,    \* the local `verdict'
  noted,      \* the local `reasons': pushed onto the verdict at the end
  next        \* index of the loop the function is in

vars == <<call, stage, response, gates, verdict, noted, next>>

NoResponse == [answers |-> <<>>]    \* no record of Responses: no fallback
NoVerdict  == [rank |-> HintAuto, reasons |-> {}, signal |-> Unset]

HarmAnswer == response.answers[HarmId]
HarmSignal == Signal(call.policy, HarmAnswer)
BlockAt    == gates.block_on[next]
BlockNoul  == response.answers[BlockAt.id].confidence
ExtraAt    == call.request.extras[next]

-----------------------------------------------------------------------------
Init ==
  /\ call \in [policy : Policies, request : Requests,
               fail : {"open", "closed"}]
  /\ stage = "start"
  /\ response = NoResponse
  /\ gates = EffectiveGates(call.policy, call.request.action, Unset)
  /\ verdict = NoVerdict
  /\ noted = {}
  /\ next = 1

(* The function returns the verdict of a failed call.                      *)
ReturnClosed(reason) ==
  /\ verdict' = Closed(call.fail, gates, reason)
  /\ stage' = "done"
  /\ UNCHANGED <<call, response, gates, noted, next>>

(* effective_gates runs ensure_checked first: a policy whose fields no     *)
(* longer satisfy the invariants is an error, not a verdict.               *)
PolicyRefused ==
  /\ stage = "start"
  /\ ~CheckInvariants(call.policy)
  /\ stage' = "refused"
  /\ UNCHANGED <<call, response, gates, verdict, noted, next>>

EncodeFails ==
  /\ stage = "start"
  /\ CheckInvariants(call.policy)
  /\ ~Encodable(call.request)
  /\ ReturnClosed("wire")

Encoded ==
  /\ stage = "start"
  /\ CheckInvariants(call.policy)
  /\ Encodable(call.request)
  /\ stage' = "evaluating"
  /\ UNCHANGED <<call, response, gates, verdict, noted, next>>

BackendFails ==
  /\ stage = "evaluating"
  /\ ReturnClosed("backend")

BackendAnswers ==
  /\ stage = "evaluating"
  /\ response' \in Responses
  /\ stage' = "check"
  /\ UNCHANGED <<call, gates, verdict, noted, next>>

ResponseRejected ==
  /\ stage = "check"
  /\ ~CheckResponse(call.request, response.answers)
  /\ ReturnClosed("decode")

(* Mutant: the loop starts one block early.                                *)
HarmKnownFromZero ==
  /\ stage = "check"
  /\ CheckResponse(call.request, response.answers)
  /\ gates' = EffectiveGates(call.policy, call.request.action,
                             HarmAnswer.label)
  /\ noted' = {}
  /\ stage' = "blocks"
  /\ next' = 0
  /\ UNCHANGED <<call, response, verdict>>

HarmKnown ==
  /\ stage = "check"
  /\ CheckResponse(call.request, response.answers)
  /\ gates' = EffectiveGates(call.policy, call.request.action,
                             HarmAnswer.label)
  /\ noted' = (IF gates'.bumped THEN {"harm_class_bump"} ELSE {})
                \cup (IF CascadeStillUnsure(call.policy, response)
                        THEN {"cascade_still_unsure"} ELSE {})
  /\ stage' = "blocks"
  /\ next' = 1
  /\ UNCHANGED <<call, response, verdict>>

(* block_hit: the first block that cannot be read or that fires ends it.   *)
BlockUnreadable ==
  /\ stage = "blocks"
  /\ next <= Len(gates.block_on)
  /\ ~IsNoul(response.answers, BlockAt.id)
  /\ ReturnClosed("decode")

BlockFires ==
  /\ stage = "blocks"
  /\ next <= Len(gates.block_on)
  /\ IsNoul(response.answers, BlockAt.id)
  /\ Fires(call.policy, call.request, BlockAt, response.answers)
  /\ verdict' = [rank |-> HintEscalate, reasons |-> {"battery"} \cup noted,
                 signal |-> HarmSignal]
  /\ stage' = "done"
  /\ UNCHANGED <<call, response, gates, noted, next>>

BlockPasses ==
  /\ stage = "blocks"
  /\ next <= Len(gates.block_on)
  /\ IsNoul(response.answers, BlockAt.id)
  /\ ~Fires(call.policy, call.request, BlockAt, response.answers)
  /\ next' = next + 1
  /\ UNCHANGED <<call, stage, response, gates, verdict, noted>>

Fold(extra) == verdict' = Absorb(verdict, extra)

FromSignal ==
  /\ stage = "blocks"
  /\ next > Len(gates.block_on)
  /\ verdict' = LET first == VerdictFromSignal(HarmSignal, gates)
                IN  [rank |-> first.rank, reasons |-> first.reasons,
                     signal |-> HarmSignal]
  /\ stage' = "unsure"
  /\ next' = 1
  /\ UNCHANGED <<call, response, gates, noted>>

(* fold_unsure_blocks.                                                     *)
FoldUnsureBlock ==
  /\ stage = "unsure"
  /\ next <= Len(gates.block_on)
  /\ IF /\ BlockAt.when # "unsure"
        /\ Decide(call.policy, BlockAt, BlockNoul) = "unsure"
       THEN Fold(WhenUnsureBump(gates, "battery"))
       ELSE UNCHANGED verdict
  /\ next' = next + 1
  /\ UNCHANGED <<call, stage, response, gates, noted>>

UnsureBlocksFolded ==
  /\ stage = "unsure"
  /\ next > Len(gates.block_on)
  /\ stage' = "extras"
  /\ next' = 1
  /\ UNCHANGED <<call, response, gates, verdict, noted>>

(* fold_extras skips a question some block of the row names.  A noul that  *)
(* is decided, whichever way, adds nothing.                                *)
Counted(question) ==
  \A i \in DOMAIN gates.block_on : gates.block_on[i].id # question.id

ExtraUnsure(question) ==
  Decide(call.policy, NoBlock, response.answers[question.id].confidence)
    = "unsure"

ExtraSignal(question) == Signal(call.policy, response.answers[question.id])

FoldExtra ==
  /\ stage = "extras"
  /\ next <= Len(call.request.extras)
  /\ \/ /\ Counted(ExtraAt) => ExtraAt.kind = "noul" /\ ~ExtraUnsure(ExtraAt)
        /\ UNCHANGED verdict
     \/ /\ Counted(ExtraAt) /\ ExtraAt.kind = "noul" /\ ExtraUnsure(ExtraAt)
        /\ Fold(WhenUnsureBump(gates, "noul_band"))
     \/ /\ Counted(ExtraAt) /\ ExtraAt.kind # "noul"
        /\ Fold(VerdictFromSignal(ExtraSignal(ExtraAt), gates))
  /\ next' = next + 1
  /\ UNCHANGED <<call, stage, response, gates, noted>>

ExtrasFolded ==
  /\ stage = "extras"
  /\ next > Len(call.request.extras)
  /\ stage' = "truncate"
  /\ UNCHANGED <<call, response, gates, verdict, noted, next>>

(* Mutant: the trimmed state is noted but does not tighten the verdict.    *)
FinishForgetsTruncation ==
  /\ stage = "truncate"
  /\ verdict' = [verdict EXCEPT !.reasons =
                   @ \cup noted
                     \cup (IF Truncated(call.request) THEN {"truncated"}
                           ELSE {})]
  /\ stage' = "done"
  /\ UNCHANGED <<call, response, gates, noted, next>>

Finish ==
  /\ stage = "truncate"
  /\ verdict' =
       LET folded == IF Truncated(call.request)
                       THEN Absorb(verdict, WhenUnsureBump(gates, "truncated"))
                       ELSE verdict
       IN  [rank |-> folded.rank, reasons |-> folded.reasons \cup noted,
            signal |-> folded.signal]
  /\ stage' = "done"
  /\ UNCHANGED <<call, response, gates, noted, next>>

Next ==
  \/ PolicyRefused \/ EncodeFails \/ Encoded
  \/ BackendFails \/ BackendAnswers
  \/ ResponseRejected \/ HarmKnown
  \/ BlockUnreadable \/ BlockFires \/ BlockPasses \/ FromSignal
  \/ FoldUnsureBlock \/ UnsureBlocksFolded
  \/ FoldExtra \/ ExtrasFolded \/ Finish

Spec == Init /\ [][Next]_vars

-----------------------------------------------------------------------------
(* Correctness.                                                            *)

TypeOK ==
  /\ call \in [policy : Policies, request : Requests,
                fail : {"open", "closed"}]
  /\ stage \in {"start", "refused", "evaluating", "check", "blocks",
                "unsure", "extras", "truncate", "done"}
  /\ response \in Responses \cup {NoResponse}
  /\ verdict \in Verdict
  /\ noted \subseteq Reason
  /\ next \in Nat \ {0}

(* The loops of the code together compute the declarative verdict: blocks  *)
(* by first match, then the strictest of all contributions.                *)
LoopsJudge ==
  stage = "done" =>
    verdict =
      IF ~Encodable(call.request)
        THEN ClosedOn(call.policy, call.request, call.fail, "wire")
      ELSE IF response = NoResponse
        THEN ClosedOn(call.policy, call.request, call.fail, "backend")
      ELSE Judge(call.policy, call.request, call.fail, response)

(* Auto means that nothing objects: read off the policy's own numbers and  *)
(* the raw answers, whatever path the function took to it.                 *)
SignalClears(s) ==
  LET row == Row(call.policy, call.request.action)
  IN  /\ row.auto # Unset
      /\ s >= row.auto
      /\ s >= call.policy.escalate_below
      /\ row.class >= Write => s >= call.policy.review_below

HarmClears ==
  LET row == Row(call.policy, call.request.action)
  IN  /\ HarmAnswer.label <= row.class
      /\ row.class >= Write => HarmAnswer.label = row.class
      /\ SignalClears(HarmSignal)

BlockClears(block) ==
  LET noul   == response.answers[block.id]
      answer == Decide(call.policy, block, noul.confidence)
  IN  /\ block.id \in DOMAIN response.answers
      /\ noul.kind = "noul"
      /\ answer = block.when =>
           block.id = "authority_claim" /\ ~call.request.claim
      /\ answer = "unsure" => block.when = "unsure"

ExtraClears(question) ==
  LET answer == response.answers[question.id]
  IN  \/ ~Counted(question)
      \/ question.kind = "noul" /\ ~ExtraUnsure(question)
      \/ question.kind # "noul" /\ SignalClears(ExtraSignal(question))

AutoIsEarned ==
  (stage = "done" /\ verdict.rank = HintAuto) =>
    /\ CheckInvariants(call.policy)
    /\ Encodable(call.request) /\ ~Truncated(call.request)
    /\ CheckResponse(call.request, response.answers)
    /\ HarmClears
    /\ LET row == Row(call.policy, call.request.action)
       IN  \A i \in DOMAIN row.block_on : BlockClears(row.block_on[i])
    /\ \A i \in DOMAIN call.request.extras :
         ExtraClears(call.request.extras[i])

(* A call that could not be scored is never Auto.  Only Fail::Open softens *)
(* it, to Review, and only for a row that has an auto threshold at all.    *)
FailureStaysShut ==
  (stage = "done" /\ verdict.signal = Unset) =>
    /\ verdict.rank # HintAuto
    /\ verdict.rank = HintReview =>
         /\ call.fail = "open"
         /\ Row(call.policy, call.request.action).auto # Unset

(* Had the scorer named a worse harm label, from the row's own class up,   *)
(* every other answer the same, the verdict could not have been milder.    *)
Relabelled(label) ==
  LET harm == [HarmAnswer EXCEPT !.label = label]
  IN  [response EXCEPT !.answers =
         [response.answers EXCEPT ![HarmId] = harm]]

WorseLabelNeverLoosens ==
  (stage = "done" /\ verdict.signal # Unset
     /\ HarmAnswer.label >= Row(call.policy, call.request.action).class) =>
    \A label \in HarmClass :
      label >= HarmAnswer.label =>
        Judge(call.policy, call.request, call.fail, Relabelled(label)).rank
          >= verdict.rank

(* Withdrawing the extra questions never makes the verdict stricter than   *)
(* with them: an extra question can object, it cannot grant.               *)
WithoutExtras == [call.request EXCEPT !.extras = <<>>]

ExtrasOnlyTighten ==
  (stage = "done" /\ verdict.signal # Unset) =>
    Judge(call.policy, WithoutExtras, call.fail, response).rank
      <= verdict.rank

(* The floors check_invariants puts under cascade_min (policy.rs): in an   *)
(* answer the cascade keeps from its first hop, the confidence of a noul   *)
(* lies outside the policy's own band of unsure ones, and that of any      *)
(* other kind reaches escalate_below.  The floors look no further: a block *)
(* with a band of its own, or a policy whose signal is the margin or the   *)
(* top probability, may still find a kept answer unsure.                   *)
KeptIsDecided ==
  stage \in {"unsure", "extras", "truncate"} =>
    \A id \in DOMAIN response.answers :
      LET answer == response.answers[id]
      IN  AnswerKept(answer, call.policy.cascade_min) =>
            /\ answer.kind = "noul" =>
                 Decide(call.policy, NoBlock, answer.confidence) # "unsure"
            /\ answer.kind # "noul" =>
                 answer.confidence >= call.policy.escalate_below

=============================================================================
