---------------------------- MODULE GateDecision ----------------------------
(***************************************************************************)
(* How one tool call becomes Auto, Review or Escalate: the pure part of    *)
(* Client::gate_uncached.  A policy row gives the thresholds, the scorer's *)
(* answers are checked, and the row's blocks, the harm label, the extra    *)
(* questions and a trimmed state are folded into one verdict.              *)
(*                                                                         *)
(* Probabilities and thresholds are f64 in the code.  Here they lie on the *)
(* integer grid 0..Unit, where Unit stands for 1.0 and Unit + 1 for any    *)
(* number outside the unit interval.                                       *)
(***************************************************************************)
EXTENDS Integers, Sequences, FiniteSets, FiniteSetsExt, Functions

CONSTANTS
  Unit,         \* the grid point that stands for 1.0
  QuestionCap,  \* most questions one request may carry (32 in the code)
  BatteryNoul   \* ids of the shipped yes/no questions

ASSUME UnitAssumption == Unit \in Nat \ {0}
ASSUME QuestionCapAssumption == QuestionCap \in Nat

Score == 0 .. Unit
Unset == -1                       \* None of an Option<f64>

(* The harm labels in the derived order of the enum.                       *)
HarmClass == 0 .. 5
None      == 0
Read      == 1
Write     == 2
Exec      == 3
Network   == 4
Money     == 5
NotALabel == 6                    \* text that names no criterion

HintAuto     == 0
HintReview   == 1
HintEscalate == 2
Rank         == {HintAuto, HintReview, HintEscalate}

Reason == {"below_floor", "below_auto", "review_floor", "noul_band",
           "battery", "decode", "wire", "backend", "cascade_still_unsure",
           "harm_class_bump", "truncated"}

-----------------------------------------------------------------------------
(* Policies.  Nothing bounds the numbers of a policy before                *)
(* check_invariants has seen them.                                         *)

Block ==
  [id : STRING, when : {"yes", "no", "unsure"}, yes_auto : Int, no_auto : Int]

ActionPolicy ==
  [auto : Int, review : Int, when_unsure : {"review_guess", "escalate"},
   class : HarmClass, block_on : Seq(Block)]

SignalKind == {"confidence", "top_prob", "margin"}

Kind == {"noul", "choice", "score"}

Question == [id : STRING, kind : Kind]

(* A request: its row's name, the questions asked beyond the battery,      *)
(* whether the trusted state or the arguments hold an authority claim, and *)
(* how its encoded body fits the budget.                                   *)
GateRequest ==
  [action : STRING, extras : Seq(Question), claim : BOOLEAN,
   body : {"fits", "trimmed", "invalid"}]

RaiseTo(x, floor) == IF x < floor THEN floor ELSE x

(* The auto threshold after the escalate floor and, from write upwards,    *)
(* the stricter review_below have been applied.                            *)
RaisedAuto(policy, row) ==
  LET floored == RaiseTo(row.auto, policy.escalate_below)
  IN  IF row.auto = Unset THEN Unset
      ELSE IF row.class >= Write THEN RaiseTo(floored, policy.review_below)
      ELSE floored

Row(policy, action) ==
  IF action \in DOMAIN policy.actions THEN policy.actions[action]
  ELSE policy.default_action

CheckAction(policy, row) ==
  /\ row.review \in Score
  /\ row.review >= policy.escalate_below
  /\ row.auto # Unset => /\ row.auto \in Score
                         /\ RaisedAuto(policy, row) >= row.review
  /\ \A i \in DOMAIN row.block_on :
       LET block == row.block_on[i]
       IN  /\ block.yes_auto \in Score \cup {Unset}
           /\ block.no_auto \in Score \cup {Unset}
           /\ (block.yes_auto # Unset /\ block.no_auto # Unset)
                => block.yes_auto >= block.no_auto

(* Mutant: cascade_min has no floor.                                       *)
CheckInvariantsNoFloor(policy) ==
  /\ policy.escalate_below \in Score \ {0}
  /\ policy.review_below \in Score
  /\ policy.review_below >= policy.escalate_below
  /\ policy.yes_auto >= policy.no_auto
  /\ CheckAction(policy, policy.default_action)
  /\ \A action \in DOMAIN policy.actions :
       CheckAction(policy, policy.actions[action])

(* What finish and ensure_checked demand.  The fields are public, so a     *)
(* host may hold a policy that no longer satisfies it.                     *)
CheckInvariants(policy) ==
  /\ policy.escalate_below \in Score \ {0}
  /\ policy.review_below \in Score
  /\ policy.review_below >= policy.escalate_below
  /\ policy.yes_auto \in Score
  /\ policy.no_auto \in Score
  /\ policy.yes_auto >= policy.no_auto
  /\ policy.cascade_min \in Score
  /\ policy.cascade_min >= policy.escalate_below
  /\ policy.cascade_min >= 2 * policy.yes_auto - Unit
  /\ policy.cascade_min >= Unit - 2 * policy.no_auto
  /\ CheckAction(policy, policy.default_action)
  /\ \A action \in DOMAIN policy.actions :
       CheckAction(policy, policy.actions[action])

(* Mutant: a label milder than a write row keeps its auto threshold.       *)
EffectiveGatesMilderAutos(policy, action, harm) ==
  LET row == Row(policy, action)
  IN  [escalate_below |-> policy.escalate_below,
       auto |-> IF harm > row.class THEN Unset ELSE RaisedAuto(policy, row),
       review |-> RaiseTo(row.review, policy.escalate_below),
       when_unsure |-> row.when_unsure,
       block_on |-> row.block_on,
       bumped |-> harm > row.class]

(* Mutant: a worse label sends the call to review, whatever the signal.    *)
EffectiveGatesBumpToReview(policy, action, harm) ==
  LET row   == Row(policy, action)
      worse == harm > row.class
  IN  [escalate_below |-> policy.escalate_below,
       auto |-> IF harm # Unset /\ harm # row.class THEN Unset
                ELSE RaisedAuto(policy, row),
       review |-> IF worse THEN policy.escalate_below ELSE row.review,
       when_unsure |-> row.when_unsure,
       block_on |-> row.block_on,
       bumped |-> worse]

(* The row's thresholds once the scorer's harm label is known.  harm is    *)
(* Unset before the answer arrives.                                        *)
EffectiveGates(policy, action, harm) ==
  LET row    == Row(policy, action)
      worse  == harm # Unset /\ harm > row.class
      milder == harm # Unset /\ harm < row.class /\ row.class >= Write
  IN  [escalate_below |-> policy.escalate_below,
       auto |-> IF worse \/ milder THEN Unset ELSE RaisedAuto(policy, row),
       review |-> RaiseTo(row.review, policy.escalate_below),
       when_unsure |-> row.when_unsure,
       block_on |-> row.block_on,
       bumped |-> worse]

-----------------------------------------------------------------------------
(* Questions and answers.  A choice or a score carries the three numbers   *)
(* `choice.signal' can select; a noul carries its probability in           *)
(* `confidence'.  Nothing bounds the confidence before check_response has  *)
(* seen it; top_prob and margin are computed from the renormalized         *)
(* probabilities, which sum to one.                                        *)

Answer ==
  [kind : Kind, confidence : Int, label : HarmClass \cup {NotALabel},
   top_prob : Score, margin : Score]

HarmId == "harm_class"

BatteryQuestions ==
  {[id |-> id, kind |-> "noul"] : id \in BatteryNoul}
     \cup {[id |-> HarmId, kind |-> "choice"]}

Asked(request) == BatteryQuestions \cup Range(request.extras)

(* The request can be put on the wire: no extra question reuses an id, the *)
(* cap holds, and the encoded body fits, if need be without the untrusted  *)
(* state.                                                                  *)
Encodable(request) ==
  /\ \A i \in DOMAIN request.extras :
       /\ request.extras[i].id \notin BatteryNoul \cup {HarmId}
       /\ \A j \in DOMAIN request.extras :
            request.extras[i].id = request.extras[j].id => i = j
  /\ Cardinality(BatteryNoul) + 1 + Len(request.extras) <= QuestionCap
  /\ request.body # "invalid"

Truncated(request) == request.body = "trimmed"

Answered(answers, question) ==
  /\ question.id \in DOMAIN answers
  /\ LET answer == answers[question.id]
     IN  /\ answer.kind = question.kind
         /\ answer.confidence \in Score
         /\ question.kind = "choice" => answer.label \in HarmClass

CheckResponse(request, answers) ==
  \A question \in Asked(request) : Answered(answers, question)

Signal(policy, answer) ==
  CASE policy.signal = "confidence" -> answer.confidence
    [] policy.signal = "top_prob"   -> answer.top_prob
    [] policy.signal = "margin"     -> answer.margin

(* The hop's answer is sure enough to be kept by the cascade.  A noul is   *)
(* as sure as it is far from one half.                                     *)
AnswerKept(answer, min) ==
  IF answer.kind = "noul"
    THEN \/ 2 * answer.confidence - Unit >= min
         \/ Unit - 2 * answer.confidence >= min
    ELSE answer.confidence >= min

CascadeStillUnsure(policy, response) ==
  \E id \in response.fallback \cap DOMAIN response.answers :
    ~AnswerKept(response.answers[id], policy.cascade_min)

(* NoulAnswer::decide.  The block's own thresholds win over the policy's.  *)
Decide(policy, block, noul) ==
  LET yes == IF block.yes_auto = Unset THEN policy.yes_auto ELSE block.yes_auto
      no  == IF block.no_auto = Unset THEN policy.no_auto ELSE block.no_auto
  IN  IF noul >= yes THEN "yes" ELSE IF noul <= no THEN "no" ELSE "unsure"

NoBlock == [yes_auto |-> Unset, no_auto |-> Unset]

-----------------------------------------------------------------------------
(* Verdicts.  facts.signal is Unset when the scorer never answered.        *)

Verdict == [rank : Rank, reasons : SUBSET Reason, signal : Score \cup {Unset}]

Contribution(rank, reason) == [rank |-> rank, reasons |-> {reason}]

VerdictFromSignal(s, gates) ==
  IF s < gates.escalate_below
    THEN Contribution(IF gates.when_unsure = "escalate" THEN HintEscalate
                      ELSE HintReview, "below_floor")
  ELSE IF gates.auto # Unset /\ s >= gates.auto
    THEN [rank |-> HintAuto, reasons |-> {}]
  ELSE IF s >= gates.review
    THEN Contribution(HintReview, "review_floor")
  ELSE Contribution(HintEscalate, "below_auto")

WhenUnsureBump(gates, reason) ==
  Contribution(IF gates.when_unsure = "escalate" THEN HintEscalate
               ELSE HintReview, reason)

(* Mutant: the later verdict's rank replaces the earlier one.              *)
AbsorbLast(current, extra) ==
  [rank |-> extra.rank, reasons |-> current.reasons \cup extra.reasons,
   signal |-> current.signal]

(* The stricter rank, both sets of reasons, and the signal of `current'.   *)
Absorb(current, extra) ==
  [rank |-> IF extra.rank > current.rank THEN extra.rank ELSE current.rank,
   reasons |-> current.reasons \cup extra.reasons,
   signal |-> current.signal]

(* Absorbing verdicts one after the other, in whatever order.              *)
Strictest(verdicts) ==
  [rank |-> Max({v.rank : v \in verdicts}),
   reasons |-> UNION {v.reasons : v \in verdicts}]

IsNoul(answers, id) == id \in DOMAIN answers /\ answers[id].kind = "noul"

(* The block asks for an escalation.  A hit on authority_claim counts only *)
(* when the trusted state or the arguments hold the claim.                 *)
Fires(policy, request, block, answers) ==
  /\ Decide(policy, block, answers[block.id].confidence) = block.when
  /\ block.id = "authority_claim" => request.claim

(* block_hit stops at the first block it cannot read or that fires.        *)
BlockHit(policy, request, blocks, answers) ==
  LET unreadable == {i \in DOMAIN blocks : ~IsNoul(answers, blocks[i].id)}
      firing     == {i \in DOMAIN blocks \ unreadable :
                       Fires(policy, request, blocks[i], answers)}
  IN  IF unreadable \cup firing = {} THEN "none"
      ELSE IF Min(unreadable \cup firing) \in firing THEN "fires"
      ELSE "unreadable"

(* Blocks on yes or no whose answer falls between the two thresholds.      *)
UnsureBlocks(policy, gates, answers) ==
  {WhenUnsureBump(gates, "battery") :
     i \in {j \in DOMAIN gates.block_on :
              /\ gates.block_on[j].when # "unsure"
              /\ Decide(policy, gates.block_on[j],
                        answers[gates.block_on[j].id].confidence) = "unsure"}}

(* Extra questions no block names.  A noul that is decided adds nothing.   *)
ExtraVerdicts(policy, request, gates, answers) ==
  LET blocked == {gates.block_on[i].id : i \in DOMAIN gates.block_on}
      counted == {q \in Range(request.extras) : q.id \notin blocked}
  IN  {VerdictFromSignal(Signal(policy, answers[q.id]), gates) :
         q \in {r \in counted : r.kind # "noul"}}
      \cup
      {WhenUnsureBump(gates, "noul_band") :
         q \in {r \in counted :
                  /\ r.kind = "noul"
                  /\ Decide(policy, NoBlock, answers[r.id].confidence)
                       = "unsure"}}

(* Mutant: fail-open reviews even a row that could never be Auto.          *)
ClosedIgnoringAuto(fail, gates, reason) ==
  [rank |-> IF fail = "open" THEN HintReview ELSE HintEscalate,
   reasons |-> {reason}, signal |-> Unset]

(* The verdict of a call that could not be scored.                         *)
Closed(fail, gates, reason) ==
  [rank |-> IF fail = "open" /\ gates.auto # Unset THEN HintReview
            ELSE HintEscalate,
   reasons |-> {reason}, signal |-> Unset]

(* The verdict of a call the scorer answered.  Once no block is unreadable *)
(* the later passes over the blocks cannot fail.                           *)
Judge(policy, request, fail, response) ==
  LET answers == response.answers
      harm    == answers[HarmId]
      signal  == Signal(policy, harm)
      gates   == EffectiveGates(policy, request.action, harm.label)
      hit     == BlockHit(policy, request, gates.block_on, answers)
      noted   == (IF gates.bumped THEN {"harm_class_bump"} ELSE {})
                   \cup (IF CascadeStillUnsure(policy, response)
                           THEN {"cascade_still_unsure"} ELSE {})
      folded  == Strictest({VerdictFromSignal(signal, gates)}
                   \cup UnsureBlocks(policy, gates, answers)
                   \cup ExtraVerdicts(policy, request, gates, answers)
                   \cup (IF Truncated(request)
                           THEN {WhenUnsureBump(gates, "truncated")} ELSE {}))
  IN  IF ~CheckResponse(request, answers)
        THEN Closed(fail, EffectiveGates(policy, request.action, Unset),
                    "decode")
      ELSE IF hit = "unreadable" THEN Closed(fail, gates, "decode")
      ELSE IF hit = "fires"
        THEN [rank |-> HintEscalate, reasons |-> {"battery"} \cup noted,
              signal |-> signal]
      ELSE [rank |-> folded.rank, reasons |-> folded.reasons \cup noted,
            signal |-> signal]

(* The verdict of a call whose request cannot be encoded, and of one whose *)
(* backend returned an error.                                              *)
ClosedOn(policy, request, fail, reason) ==
  Closed(fail, EffectiveGates(policy, request.action, Unset), reason)

=============================================================================
