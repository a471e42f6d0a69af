------------------------- MODULE GatePipelineProofs -------------------------
(***************************************************************************)
(* For every policy, request and scorer: the pipeline's variables keep     *)
(* their types, Auto is earned, a call that could not be scored stays      *)
(* shut, and the loops with their early returns compute Judge; and so a    *)
(* worse label never loosens a verdict, and an extra question never grants *)
(* one.                                                                    *)
(***************************************************************************)
EXTENDS GatePipeline, TLAPS

-----------------------------------------------------------------------------
(* What the operators of GateDecision return, preserve and bound, one at   *)
(* a time.                                                                 *)

(* A signal earns Auto only from the auto threshold upwards.               *)
LEMMA SignalVerdict ==
  ASSUME NEW s, NEW gs
  PROVE  LET v == VerdictFromSignal(s, gs)
         IN  /\ v.rank \in Rank
             /\ v.reasons \subseteq Reason
             /\ v.rank = HintAuto => gs.auto # Unset /\ s >= gs.auto
BY DEF VerdictFromSignal, Contribution, Rank, HintAuto, HintReview,
       HintEscalate, Reason

(* An unsure answer, whatever the row makes of it, is never Auto.          *)
LEMMA BumpIsNotAuto ==
  ASSUME NEW gs, NEW reason \in Reason
  PROVE  LET v == WhenUnsureBump(gs, reason)
         IN  v.rank \in Rank /\ v.rank # HintAuto /\ v.reasons \subseteq Reason
BY DEF WhenUnsureBump, Contribution, Rank, HintAuto, HintReview, HintEscalate

(* Absorbing keeps the signal and is Auto only if both verdicts are.       *)
LEMMA AbsorbStrictest ==
  ASSUME NEW v \in Verdict, NEW extra, extra.rank \in Rank,
         extra.reasons \subseteq Reason
  PROVE  /\ Absorb(v, extra) \in Verdict
         /\ Absorb(v, extra).signal = v.signal
         /\ Absorb(v, extra).rank = HintAuto =>
              v.rank = HintAuto /\ extra.rank = HintAuto
<1>1. v.rank \in Rank /\ v.reasons \subseteq Reason /\ v.signal \in Score \cup {Unset}
  BY DEF Verdict
<1>2. /\ Absorb(v, extra).rank \in Rank
      /\ Absorb(v, extra).rank = HintAuto =>
           v.rank = HintAuto /\ extra.rank = HintAuto
  BY <1>1 DEF Absorb, Rank, HintAuto, HintReview, HintEscalate
<1>3. Absorb(v, extra).signal = v.signal
  BY DEF Absorb
<1>4. Absorb(v, extra) \in Verdict
  BY <1>1, <1>2 DEF Absorb, Verdict
<1> QED BY <1>2, <1>3, <1>4

(* The verdict of a failed call is never Auto.                             *)
LEMMA ClosedIsShut ==
  ASSUME NEW fail, NEW gs, NEW reason \in Reason
  PROVE  LET v == Closed(fail, gs, reason)
         IN  /\ v \in Verdict
             /\ v.rank # HintAuto
             /\ v.rank = HintReview => fail = "open" /\ gs.auto # Unset
             /\ v.reasons = {reason}
             /\ v.signal = Unset
BY DEF Closed, Verdict, Rank, HintAuto, HintReview, HintEscalate

(* Without the auto threshold a signal is judged no milder.                *)
LEMMA FewerAutos ==
  ASSUME NEW s, NEW g, NEW h, h.escalate_below = g.escalate_below,
         h.review = g.review, h.when_unsure = g.when_unsure,
         h.auto \in {Unset, g.auto}
  PROVE  /\ VerdictFromSignal(s, g).rank <= VerdictFromSignal(s, h).rank
         /\ \A reason : WhenUnsureBump(g, reason) = WhenUnsureBump(h, reason)
<1>1. CASE s < g.escalate_below
  BY <1>1 DEF VerdictFromSignal, WhenUnsureBump, Contribution, HintReview,
              HintEscalate
<1>2. CASE ~(s < g.escalate_below)
  BY <1>2 DEF VerdictFromSignal, WhenUnsureBump, Contribution, HintAuto,
              HintReview, HintEscalate
<1> QED BY <1>1, <1>2

(* What the floors of check_invariants under cascade_min buy: an answer    *)
(* the cascade keeps is one the policy's own thresholds call decided.      *)
LEMMA KeptAnswerIsDecided ==
  ASSUME NEW policy, CheckInvariants(policy), NEW answer \in Answer,
         AnswerKept(answer, policy.cascade_min)
  PROVE  /\ answer.kind = "noul" =>
              Decide(policy, NoBlock, answer.confidence) # "unsure"
         /\ answer.kind # "noul" =>
              answer.confidence >= policy.escalate_below
<1>1. /\ policy.yes_auto \in Int /\ policy.no_auto \in Int
      /\ policy.cascade_min \in Int /\ policy.escalate_below \in Int
      /\ Unit \in Int
      /\ policy.cascade_min >= policy.escalate_below
      /\ policy.cascade_min >= 2 * policy.yes_auto - Unit
      /\ policy.cascade_min >= Unit - 2 * policy.no_auto
  BY UnitAssumption DEF CheckInvariants, Score
<1>2. answer.confidence \in Int
  BY DEF Answer
<1>3. CASE answer.kind = "noul"
  <2>1. \/ answer.confidence >= policy.yes_auto
        \/ answer.confidence <= policy.no_auto
    BY <1>1, <1>2, <1>3 DEF AnswerKept
  <2> QED BY <1>3, <2>1 DEF Decide, NoBlock
<1>4. CASE answer.kind # "noul"
  BY <1>1, <1>2, <1>4 DEF AnswerKept
<1> QED BY <1>3, <1>4

-----------------------------------------------------------------------------
(* Largest and least elements, and the strictest of a set of verdicts.     *)

LEMMA LeastIs ==
  ASSUME NEW S, S \subseteq Int, NEW n \in S, \A m \in S : n <= m
  PROVE  Min(S) = n
<1>1. Min(S) \in S /\ \A m \in S : Min(S) <= m
  BY DEF Min
<1> DEFINE m == Min(S)
<1> HIDE DEF m
<1>2. /\ m \in Int /\ n \in Int
      /\ m <= n /\ n <= m
  BY <1>1 DEF m
<1>3. m = n
  BY <1>2
<1> QED BY <1>3 DEF m

LEMMA GreatestIs ==
  ASSUME NEW S, S \subseteq Int, NEW n \in S, \A m \in S : n >= m
  PROVE  Max(S) = n
<1>1. Max(S) \in S /\ \A m \in S : Max(S) >= m
  BY DEF Max
<1> DEFINE m == Max(S)
<1> HIDE DEF m
<1>2. /\ m \in Int /\ n \in Int
      /\ m >= n /\ n >= m
  BY <1>1 DEF m
<1>3. m = n
  BY <1>2
<1> QED BY <1>3 DEF m

(* Some verdict of a set that is not empty has the highest rank.           *)
LEMMA SomeStrictest ==
  ASSUME NEW V, V # {}, \A v \in V : v.rank \in Rank
  PROVE  \E v \in V : /\ \A w \in V : w.rank <= v.rank
                      /\ Strictest(V).rank = v.rank
<1>1. PICK v \in V : \A w \in V : w.rank <= v.rank
  <2>1. CASE \E v \in V : v.rank = 2
    BY <2>1 DEF Rank, HintAuto, HintReview, HintEscalate
  <2>2. CASE ~(\E v \in V : v.rank = 2) /\ \E v \in V : v.rank = 1
    BY <2>2 DEF Rank, HintAuto, HintReview, HintEscalate
  <2>3. CASE \A v \in V : v.rank = 0
    BY <2>3
  <2> QED BY <2>1, <2>2, <2>3 DEF Rank, HintAuto, HintReview, HintEscalate
<1>2. Max({w.rank : w \in V}) = v.rank
  <2> DEFINE S == {w.rank : w \in V}
  <2>1. S \subseteq Int /\ v.rank \in S /\ \A m \in S : v.rank >= m
    BY <1>1 DEF Rank, HintAuto, HintReview, HintEscalate
  <2> HIDE DEF S
  <2>2. Max(S) = v.rank
    BY <2>1, GreatestIs
  <2> QED BY <2>2 DEF S
<1> QED BY <1>1, <1>2 DEF Strictest

(* v has the highest rank of the set and all of its reasons.               *)
IsStrictest(v, V) ==
  /\ \A w \in V : w.rank \in Rank /\ w.rank <= v.rank
  /\ \E w \in V : w.rank = v.rank
  /\ v.reasons = UNION {w.reasons : w \in V}

LEMMA StrictestIs ==
  ASSUME NEW V, NEW v, IsStrictest(v, V)
  PROVE  Strictest(V).rank = v.rank /\ Strictest(V).reasons = v.reasons
<1>1. V # {} /\ \A w \in V : w.rank \in Rank
  BY DEF IsStrictest
<1>2. PICK u \in V : /\ \A w \in V : w.rank <= u.rank
                     /\ Strictest(V).rank = u.rank
  BY <1>1, SomeStrictest
<1>3. u.rank = v.rank
  BY <1>1, <1>2 DEF IsStrictest, Rank, HintAuto, HintReview, HintEscalate
<1> QED BY <1>2, <1>3 DEF Strictest, IsStrictest

(* Absorbing one verdict more.                                             *)
LEMMA AbsorbIs ==
  ASSUME NEW V, NEW v, IsStrictest(v, V), NEW extra, extra.rank \in Rank
  PROVE  IsStrictest(Absorb(v, extra), V \cup {extra})
<1> DEFINE new == Absorb(v, extra)
<1>1. /\ new.rank = IF extra.rank > v.rank THEN extra.rank ELSE v.rank
      /\ new.reasons = v.reasons \cup extra.reasons
  BY DEF Absorb
<1> HIDE DEF new
<1>2. v.rank \in Rank
  BY DEF IsStrictest
<1>3. \A w \in V \cup {extra} : w.rank \in Rank /\ w.rank <= new.rank
  BY <1>1, <1>2 DEF IsStrictest, Rank, HintAuto, HintReview, HintEscalate
<1>4. \E w \in V \cup {extra} : w.rank = new.rank
  BY <1>1 DEF IsStrictest
<1>5. new.reasons = UNION {w.reasons : w \in V \cup {extra}}
  BY <1>1 DEF IsStrictest
<1> QED BY <1>3, <1>4, <1>5 DEF IsStrictest, new

(* A set whose verdicts are each matched by one at least as strict is no   *)
(* stricter.                                                               *)
LEMMA StrictestMonotone ==
  ASSUME NEW V, NEW W, V # {}, W # {},
         \A v \in V : v.rank \in Rank, \A w \in W : w.rank \in Rank,
         \A v \in V : \E w \in W : v.rank <= w.rank
  PROVE  Strictest(V).rank <= Strictest(W).rank
<1>1. PICK v \in V : Strictest(V).rank = v.rank
  BY SomeStrictest
<1>2. PICK u \in W : /\ \A w \in W : w.rank <= u.rank
                     /\ Strictest(W).rank = u.rank
  BY SomeStrictest
<1>3. PICK w \in W : v.rank <= w.rank
  OBVIOUS
<1> QED BY <1>1, <1>2, <1>3 DEF Rank, HintAuto, HintReview, HintEscalate

-----------------------------------------------------------------------------
(* block_hit: every block before the one that ends the loop has passed.    *)

LEMMA HitFirst ==
  ASSUME NEW policy, NEW request, NEW answers, NEW blocks \in Seq(Block),
         NEW n \in DOMAIN blocks,
         \A i \in DOMAIN blocks : i < n =>
           /\ IsNoul(answers, blocks[i].id)
           /\ ~Fires(policy, request, blocks[i], answers)
  PROVE  /\ ~IsNoul(answers, blocks[n].id) =>
              BlockHit(policy, request, blocks, answers) = "unreadable"
         /\ IsNoul(answers, blocks[n].id)
              /\ Fires(policy, request, blocks[n], answers) =>
              BlockHit(policy, request, blocks, answers) = "fires"
<1> DEFINE unreadable == {i \in DOMAIN blocks : ~IsNoul(answers, blocks[i].id)}
           firing     == {i \in DOMAIN blocks \ unreadable :
                            Fires(policy, request, blocks[i], answers)}
<1>1. unreadable \cup firing \subseteq Int
  OBVIOUS
<1>2. \A m \in unreadable \cup firing : n <= m
  <2> SUFFICES ASSUME NEW m \in unreadable \cup firing, m < n PROVE FALSE
    BY <1>1
  <2> QED OBVIOUS
<1>3. n \in unreadable <=> ~IsNoul(answers, blocks[n].id)
  OBVIOUS
<1>4. n \in firing <=> /\ IsNoul(answers, blocks[n].id)
                       /\ Fires(policy, request, blocks[n], answers)
  OBVIOUS
<1>5. BlockHit(policy, request, blocks, answers) =
        IF unreadable \cup firing = {} THEN "none"
        ELSE IF Min(unreadable \cup firing) \in firing THEN "fires"
        ELSE "unreadable"
  BY DEF BlockHit
<1> HIDE DEF unreadable, firing
<1>6. n \in unreadable \cup firing => Min(unreadable \cup firing) = n
  <2> DEFINE S == unreadable \cup firing
  <2>1. S \subseteq Int /\ \A m \in S : n <= m
    BY <1>1, <1>2
  <2> HIDE DEF S
  <2>2. n \in S => Min(S) = n
    BY <2>1, LeastIs
  <2> QED BY <2>2 DEF S
<1> QED BY <1>3, <1>4, <1>5, <1>6

LEMMA HitNone ==
  ASSUME NEW policy, NEW request, NEW answers, NEW blocks,
         \A i \in DOMAIN blocks :
           /\ IsNoul(answers, blocks[i].id)
           /\ ~Fires(policy, request, blocks[i], answers)
  PROVE  BlockHit(policy, request, blocks, answers) = "none"
BY DEF BlockHit

-----------------------------------------------------------------------------
(* Judge branch by branch, and what follows from its shape.                *)

JudgeGates(policy, request, r) ==
  EffectiveGates(policy, request.action, r.answers[HarmId].label)

JudgeHit(policy, request, r) ==
  BlockHit(policy, request, JudgeGates(policy, request, r).block_on,
           r.answers)

JudgeNotes(policy, request, r) ==
  (IF JudgeGates(policy, request, r).bumped THEN {"harm_class_bump"} ELSE {})
    \cup (IF CascadeStillUnsure(policy, r) THEN {"cascade_still_unsure"}
          ELSE {})

JudgeSet(policy, request, r) ==
  LET gs == JudgeGates(policy, request, r)
  IN  {VerdictFromSignal(Signal(policy, r.answers[HarmId]), gs)}
        \cup UnsureBlocks(policy, gs, r.answers)
        \cup ExtraVerdicts(policy, request, gs, r.answers)
        \cup (IF Truncated(request)
                THEN {WhenUnsureBump(gs, "truncated")} ELSE {})

LEMMA Judged ==
  ASSUME NEW policy, NEW request, NEW fail, NEW r
  PROVE  LET judged == Judge(policy, request, fail, r)
             hit    == JudgeHit(policy, request, r)
             folded == Strictest(JudgeSet(policy, request, r))
             notes == JudgeNotes(policy, request, r)
             signal == Signal(policy, r.answers[HarmId])
         IN  /\ ~CheckResponse(request, r.answers) =>
                  judged = ClosedOn(policy, request, fail, "decode")
             /\ CheckResponse(request, r.answers) =>
                  /\ hit = "unreadable" =>
                       judged = Closed(fail, JudgeGates(policy, request, r),
                                       "decode")
                  /\ hit = "fires" =>
                       judged = [rank |-> HintEscalate,
                                 reasons |-> {"battery"} \cup notes,
                                 signal |-> signal]
                  /\ hit = "none" =>
                       judged = [rank |-> folded.rank,
                                 reasons |-> folded.reasons \cup notes,
                                 signal |-> signal]
BY DEF Judge, ClosedOn, JudgeGates, JudgeHit, JudgeNotes, JudgeSet

LEMMA JudgeSetTyped ==
  ASSUME NEW policy, NEW request, NEW r
  PROVE  /\ JudgeSet(policy, request, r) # {}
         /\ \A v \in JudgeSet(policy, request, r) : v.rank \in Rank
<1> DEFINE gs == JudgeGates(policy, request, r)
<1>1. \A s : VerdictFromSignal(s, gs).rank \in Rank
  BY SignalVerdict
<1>2. \A reason \in {"battery", "noul_band", "truncated"} :
        WhenUnsureBump(gs, reason).rank \in Rank
  BY BumpIsNotAuto DEF Reason
<1> HIDE DEF gs
<1>3. \A v \in UnsureBlocks(policy, gs, r.answers) : v.rank \in Rank
  BY <1>2 DEF UnsureBlocks
<1>4. \A v \in ExtraVerdicts(policy, request, gs, r.answers) : v.rank \in Rank
  BY <1>1, <1>2 DEF ExtraVerdicts
<1> QED BY <1>1, <1>2, <1>3, <1>4 DEF JudgeSet, gs

LEMMA HitCases ==
  ASSUME NEW policy, NEW request, NEW r
  PROVE  JudgeHit(policy, request, r) \in {"none", "unreadable", "fires"}
BY DEF JudgeHit, BlockHit

(* Two requests or responses that end the loop over the blocks the same    *)
(* way: the one whose contributions are each matched is judged no          *)
(* stricter.                                                               *)
LEMMA JudgeMonotone ==
  ASSUME NEW policy, NEW fail, NEW q1, NEW q2, NEW r1, NEW r2,
         CheckResponse(q1, r1.answers), CheckResponse(q2, r2.answers),
         JudgeHit(policy, q1, r1) \in {"none", "fires"},
         JudgeHit(policy, q2, r2) = JudgeHit(policy, q1, r1),
         JudgeHit(policy, q1, r1) = "none" =>
           \A v \in JudgeSet(policy, q1, r1) :
             \E w \in JudgeSet(policy, q2, r2) : v.rank <= w.rank
  PROVE  Judge(policy, q1, fail, r1).rank <= Judge(policy, q2, fail, r2).rank
<1>1. CASE JudgeHit(policy, q1, r1) = "fires"
  <2>1. /\ Judge(policy, q1, fail, r1).rank = HintEscalate
        /\ Judge(policy, q2, fail, r2).rank = HintEscalate
    BY <1>1, Judged
  <2> QED BY <2>1 DEF HintEscalate
<1>2. CASE JudgeHit(policy, q1, r1) = "none"
  <2>1. /\ Judge(policy, q1, fail, r1).rank
             = Strictest(JudgeSet(policy, q1, r1)).rank
        /\ Judge(policy, q2, fail, r2).rank
             = Strictest(JudgeSet(policy, q2, r2)).rank
    BY <1>2, Judged
  <2> DEFINE V == JudgeSet(policy, q1, r1)
             W == JudgeSet(policy, q2, r2)
  <2>2. \A v \in V : \E w \in W : v.rank <= w.rank
    BY <1>2
  <2>3. /\ V # {} /\ \A v \in V : v.rank \in Rank
        /\ W # {} /\ \A w \in W : w.rank \in Rank
    BY JudgeSetTyped
  <2> HIDE DEF V, W
  <2>4. Strictest(V).rank <= Strictest(W).rank
    BY <2>2, <2>3, StrictestMonotone
  <2> QED BY <2>1, <2>4 DEF V, W
<1> QED BY <1>1, <1>2

-----------------------------------------------------------------------------
(* Policies of the assumed shape.                                          *)

(* The row of any action has the shape of a row.                           *)
LEMMA RowTyped ==
  ASSUME NEW policy \in Policies, NEW action
  PROVE  Row(policy, action) \in ActionPolicy
BY PolicyAssumption DEF Row

(* An accepted answer yields a number of the unit interval, whichever of   *)
(* its three numbers the policy reads.                                     *)
LEMMA SignalTyped ==
  ASSUME NEW policy \in Policies, NEW answer \in Answer,
         answer.confidence \in Score
  PROVE  Signal(policy, answer) \in Score
<1>1. policy.signal \in {"confidence", "top_prob", "margin"}
  BY PolicyAssumption DEF SignalKind
<1>2. answer.top_prob \in Score /\ answer.margin \in Score
  BY DEF Answer
<1> QED BY <1>1, <1>2 DEF Signal

(* Facts about the thresholds of a checked policy.                         *)
LEMMA GatesTyped ==
  ASSUME NEW policy \in Policies, NEW action,
         NEW harm \in HarmClass \cup {Unset}, CheckInvariants(policy)
  PROVE  LET gs  == EffectiveGates(policy, action, harm)
             row == Row(policy, action)
         IN  /\ gs.escalate_below = policy.escalate_below
             /\ gs.escalate_below \in Int
             /\ gs.auto \in Int
             /\ gs.review \in Int
             /\ gs.when_unsure \in {"review_guess", "escalate"}
             /\ gs.block_on = row.block_on
             /\ gs.block_on \in Seq(Block)
<1> DEFINE row == Row(policy, action)
<1>1. row \in ActionPolicy
  BY RowTyped
<1>2. /\ row.auto \in Int /\ row.review \in Int /\ row.class \in Int
      /\ row.when_unsure \in {"review_guess", "escalate"}
      /\ row.block_on \in Seq(Block)
  BY <1>1 DEF ActionPolicy, HarmClass
<1>3. policy.escalate_below \in Int /\ policy.review_below \in Int
  BY UnitAssumption DEF CheckInvariants, Score
<1>4. RaisedAuto(policy, row) \in Int
  BY <1>2, <1>3 DEF RaisedAuto, RaiseTo, Unset
<1>5. RaiseTo(row.review, policy.escalate_below) \in Int
  BY <1>2, <1>3 DEF RaiseTo
<1> HIDE DEF row
<1> QED BY <1>2, <1>3, <1>4, <1>5 DEF EffectiveGates, Unset, row

(* effective_gates leaves an auto threshold only where the row has one, it *)
(* never lowers it, and the harm label must fit the row's class.           *)
LEMMA AutoThreshold ==
  ASSUME NEW policy \in Policies, NEW action,
         NEW harm \in HarmClass \cup {Unset}, CheckInvariants(policy),
         EffectiveGates(policy, action, harm).auto # Unset
  PROVE  LET auto == EffectiveGates(policy, action, harm).auto
             row  == Row(policy, action)
         IN  /\ row.auto # Unset
             /\ auto >= row.auto
             /\ auto >= policy.escalate_below
             /\ row.class >= Write => auto >= policy.review_below
             /\ harm # Unset => /\ harm <= row.class
                                /\ row.class >= Write => harm = row.class
<1> DEFINE row == Row(policy, action)
<1>1. row \in ActionPolicy
  BY RowTyped
<1>2. row.auto \in Int /\ row.class \in Int /\ harm \in Int
  BY <1>1 DEF ActionPolicy, HarmClass, Unset
<1>3. policy.escalate_below \in Int /\ policy.review_below \in Int
  BY UnitAssumption DEF CheckInvariants, Score
<1>4. /\ EffectiveGates(policy, action, harm).auto = RaisedAuto(policy, row)
      /\ ~(harm # Unset /\ harm > row.class)
      /\ ~(harm # Unset /\ harm < row.class /\ row.class >= Write)
  BY DEF EffectiveGates
<1>5. /\ row.auto # Unset
      /\ RaisedAuto(policy, row) >= row.auto
      /\ RaisedAuto(policy, row) >= policy.escalate_below
      /\ row.class >= Write =>
           RaisedAuto(policy, row) >= policy.review_below
  BY <1>2, <1>3, <1>4 DEF RaisedAuto, RaiseTo
<1> HIDE DEF row
<1> QED BY <1>2, <1>4, <1>5 DEF row, Write

(* A worse label, from the row's class up, can only withdraw the auto      *)
(* threshold.                                                              *)
LEMMA WorseGates ==
  ASSUME NEW policy \in Policies, NEW action, NEW harm \in HarmClass,
         NEW label \in HarmClass, harm >= Row(policy, action).class,
         label >= harm
  PROVE  LET g == EffectiveGates(policy, action, harm)
             h == EffectiveGates(policy, action, label)
         IN  /\ h.escalate_below = g.escalate_below
             /\ h.review = g.review
             /\ h.when_unsure = g.when_unsure
             /\ h.block_on = g.block_on
             /\ h.auto \in {Unset, g.auto}
<1> DEFINE row == Row(policy, action)
<1>1. row.class \in Int /\ harm \in Int /\ label \in Int
  BY RowTyped DEF ActionPolicy, HarmClass
<1>2. harm # Unset /\ label # Unset
  BY DEF HarmClass, Unset
<1>3. CASE harm > row.class
  <2>1. label > row.class
    BY <1>1, <1>3
  <2> QED BY <1>2, <1>3, <2>1 DEF EffectiveGates
<1>4. CASE ~(harm > row.class)
  <2>1. ~(harm < row.class) /\ ~(label < row.class)
    BY <1>1
  <2> QED BY <1>2, <1>4, <2>1 DEF EffectiveGates
<1> QED BY <1>3, <1>4

-----------------------------------------------------------------------------
(* The inductive invariant.  AutoIsEarned and FailureStaysShut speak of    *)
(* finished calls only; what follows is what the function knows on its way *)
(* there, up to the loop index.                                            *)

Folding == {"unsure", "extras", "truncate"}
Judging == {"blocks"} \cup Folding

GatesFor(harm) == EffectiveGates(call.policy, call.request.action, harm)

Passed(block) ==
  /\ IsNoul(response.answers, block.id)
  /\ ~Fires(call.policy, call.request, block, response.answers)

Settled(block) ==
  block.when # "unsure" =>
    Decide(call.policy, block, response.answers[block.id].confidence)
      # "unsure"

Entered ==
  /\ stage \in {"evaluating", "check"} \cup Judging =>
       CheckInvariants(call.policy) /\ Encodable(call.request)
  /\ stage \in {"start", "evaluating", "check"} => gates = GatesFor(Unset)
  /\ stage \in {"check"} \cup Judging => response \in Responses
  /\ stage \in Judging =>
       /\ CheckResponse(call.request, response.answers)
       /\ gates = GatesFor(HarmAnswer.label)

BlocksPass ==
  /\ stage \in Judging =>
       \A i \in DOMAIN gates.block_on :
         (stage = "blocks" => i < next) => Passed(gates.block_on[i])
  /\ stage \in Folding => verdict.signal = HarmSignal

StillAuto ==
  (stage \in Folding /\ verdict.rank = HintAuto) =>
    /\ HarmClears
    /\ \A i \in DOMAIN gates.block_on :
         (stage = "unsure" => i < next) => Settled(gates.block_on[i])
    /\ stage # "unsure" =>
         \A i \in DOMAIN call.request.extras :
           (stage = "extras" => i < next) =>
             ExtraClears(call.request.extras[i])

Inv ==
  TypeOK /\ Entered /\ BlocksPass /\ StillAuto
    /\ AutoIsEarned /\ FailureStaysShut

(* What an accepted response gives the rest of the function to work with.  *)
LEMMA Accepted ==
  ASSUME TypeOK, response \in Responses,
         CheckResponse(call.request, response.answers)
  PROVE  /\ HarmAnswer.label \in HarmClass
         /\ HarmSignal \in Score
         /\ \A i \in DOMAIN call.request.extras :
              ExtraSignal(call.request.extras[i]) \in Score
<1>1. call.policy \in Policies /\ call.request \in Requests
  BY DEF TypeOK
<1>2. \A question \in Asked(call.request) :
        /\ response.answers[question.id] \in Answer
        /\ response.answers[question.id].confidence \in Score
        /\ question.kind = "choice" =>
             response.answers[question.id].label \in HarmClass
  BY ResponseAssumption DEF CheckResponse, Answered
<1>3. [id |-> HarmId, kind |-> "choice"] \in Asked(call.request)
  BY DEF Asked, BatteryQuestions
<1>4. HarmAnswer \in Answer /\ HarmAnswer.confidence \in Score
        /\ HarmAnswer.label \in HarmClass
  BY <1>2, <1>3 DEF HarmAnswer
<1>5. HarmSignal \in Score
  BY <1>1, <1>4, SignalTyped DEF HarmSignal
<1>6. ASSUME NEW i \in DOMAIN call.request.extras
      PROVE  ExtraSignal(call.request.extras[i]) \in Score
  <2>1. call.request.extras[i] \in Asked(call.request)
    BY DEF Asked, Range
  <2> QED BY <1>1, <1>2, <2>1, SignalTyped DEF ExtraSignal
<1> QED BY <1>4, <1>5, <1>6

(* The thresholds in force while the answers are judged.                   *)
LEMMA GatesInForce ==
  ASSUME TypeOK, Entered, stage \in Judging
  PROVE  /\ gates.block_on = Row(call.policy, call.request.action).block_on
         /\ gates.block_on \in Seq(Block)
         /\ gates.auto # Unset => Row(call.policy, call.request.action).auto # Unset
         /\ \A s \in Score :
              gates.auto # Unset /\ s >= gates.auto => SignalClears(s)
         /\ gates.auto # Unset =>
              /\ HarmAnswer.label <= Row(call.policy, call.request.action).class
              /\ Row(call.policy, call.request.action).class >= Write =>
                   HarmAnswer.label
                     = Row(call.policy, call.request.action).class
<1> DEFINE row == Row(call.policy, call.request.action)
<1>1. call.policy \in Policies /\ CheckInvariants(call.policy)
  BY DEF TypeOK, Entered
<1>2. HarmAnswer.label \in HarmClass
  BY Accepted DEF Entered
<1>3. gates = EffectiveGates(call.policy, call.request.action,
                             HarmAnswer.label)
  BY DEF Entered, GatesFor
<1>4. /\ gates.block_on = row.block_on
      /\ gates.block_on \in Seq(Block)
      /\ gates.auto \in Int
  BY <1>1, <1>2, <1>3, GatesTyped
<1>5. gates.auto # Unset =>
        /\ row.auto # Unset
        /\ gates.auto >= row.auto
        /\ gates.auto >= call.policy.escalate_below
        /\ row.class >= Write => gates.auto >= call.policy.review_below
        /\ HarmAnswer.label <= row.class
        /\ row.class >= Write => HarmAnswer.label = row.class
  BY <1>1, <1>2, <1>3, AutoThreshold DEF HarmClass, Unset
<1>6. row.auto \in Int
  BY <1>1, RowTyped DEF ActionPolicy
<1>7. call.policy.escalate_below \in Int /\ call.policy.review_below \in Int
  BY <1>1, UnitAssumption DEF CheckInvariants, Score
<1>8. ASSUME NEW s \in Score, gates.auto # Unset, s >= gates.auto
      PROVE  SignalClears(s)
  <2>1. s \in Int
    BY UnitAssumption DEF Score
  <2> HIDE DEF row
  <2>2. /\ row.auto # Unset
        /\ s >= row.auto
        /\ s >= call.policy.escalate_below
        /\ row.class >= Write => s >= call.policy.review_below
    BY <1>4, <1>5, <1>6, <1>7, <1>8, <2>1
  <2> QED BY <2>2 DEF SignalClears, row
<1> QED BY <1>4, <1>5, <1>8

-----------------------------------------------------------------------------
(* One lemma per stage of the function: each of its actions keeps Inv.     *)

LEMMA InitInv == Init => Inv
<1> SUFFICES ASSUME Init PROVE Inv
  OBVIOUS
<1>1. verdict \in Verdict
  BY DEF Init, NoVerdict, Verdict, Rank
<1>2. TypeOK
  BY <1>1 DEF Init, TypeOK
<1> QED BY <1>2 DEF Init, Inv, Entered, BlocksPass, StillAuto, AutoIsEarned,
                    FailureStaysShut, GatesFor, Folding, Judging

(* A failed call: the row behind the gates in force decides how far        *)
(* Fail::Open may soften it.                                               *)
LEMMA ReturnClosedKeepsInv ==
  ASSUME Inv, NEW reason \in Reason, ReturnClosed(reason),
         gates.auto # Unset =>
           Row(call.policy, call.request.action).auto # Unset
  PROVE  Inv'
<1>1. /\ stage' = "done" /\ call' = call /\ response' = response
      /\ noted' = noted /\ next' = next
      /\ verdict' = Closed(call.fail, gates, reason)
  BY DEF ReturnClosed
<1>2. /\ verdict' \in Verdict
      /\ verdict'.rank # HintAuto
      /\ verdict'.rank = HintReview => call.fail = "open" /\ gates.auto # Unset
  BY <1>1, ClosedIsShut
<1>3. TypeOK'
  BY <1>1, <1>2 DEF Inv, TypeOK, Verdict
<1>4. Entered' /\ BlocksPass' /\ StillAuto' /\ AutoIsEarned'
  BY <1>1, <1>2 DEF Entered, BlocksPass, StillAuto, AutoIsEarned, Folding,
                    Judging
<1>5. FailureStaysShut'
  BY <1>1, <1>2 DEF FailureStaysShut
<1> QED BY <1>3, <1>4, <1>5 DEF Inv

LEMMA BeforeTheLabel ==
  ASSUME TypeOK, CheckInvariants(call.policy), gates = GatesFor(Unset),
         gates.auto # Unset
  PROVE  Row(call.policy, call.request.action).auto # Unset
BY AutoThreshold DEF TypeOK, GatesFor

LEMMA StartKeepsInv ==
  Inv /\ (PolicyRefused \/ EncodeFails \/ Encoded) => Inv'
<1> SUFFICES ASSUME Inv, PolicyRefused \/ EncodeFails \/ Encoded PROVE Inv'
  OBVIOUS
<1>1. CASE PolicyRefused
  BY <1>1 DEF PolicyRefused, Inv, TypeOK, Entered, BlocksPass, StillAuto,
              AutoIsEarned, FailureStaysShut, Folding, Judging
<1>2. CASE EncodeFails
  <2>1. gates.auto # Unset =>
          Row(call.policy, call.request.action).auto # Unset
    BY <1>2, BeforeTheLabel DEF EncodeFails, Inv, Entered
  <2> QED BY <1>2, <2>1, ReturnClosedKeepsInv DEF EncodeFails, Reason
<1>3. CASE Encoded
  BY <1>3 DEF Encoded, Inv, TypeOK, Entered, BlocksPass, StillAuto,
              AutoIsEarned, FailureStaysShut, Folding, Judging, GatesFor
<1> QED BY <1>1, <1>2, <1>3

LEMMA EvaluateKeepsInv ==
  Inv /\ (BackendFails \/ BackendAnswers) => Inv'
<1> SUFFICES ASSUME Inv, BackendFails \/ BackendAnswers PROVE Inv'
  OBVIOUS
<1>1. CASE BackendFails
  <2>1. gates.auto # Unset =>
          Row(call.policy, call.request.action).auto # Unset
    BY <1>1, BeforeTheLabel DEF BackendFails, Inv, Entered
  <2> QED BY <1>1, <2>1, ReturnClosedKeepsInv DEF BackendFails, Reason
<1>2. CASE BackendAnswers
  BY <1>2 DEF BackendAnswers, Inv, TypeOK, Entered, BlocksPass, StillAuto,
              AutoIsEarned, FailureStaysShut, Folding, Judging, GatesFor
<1> QED BY <1>1, <1>2

LEMMA CheckKeepsInv ==
  Inv /\ (ResponseRejected \/ HarmKnown) => Inv'
<1> SUFFICES ASSUME Inv, ResponseRejected \/ HarmKnown PROVE Inv'
  OBVIOUS
<1>1. CASE ResponseRejected
  <2>1. gates.auto # Unset =>
          Row(call.policy, call.request.action).auto # Unset
    BY <1>1, BeforeTheLabel DEF ResponseRejected, Inv, Entered
  <2> QED BY <1>1, <2>1, ReturnClosedKeepsInv DEF ResponseRejected, Reason
<1>2. CASE HarmKnown
  <2>1. noted' \subseteq Reason
    BY <1>2 DEF HarmKnown, Reason
  <2>2. TypeOK'
    BY <1>2, <2>1 DEF HarmKnown, Inv, TypeOK
  <2>3. Entered'
    BY <1>2 DEF HarmKnown, Inv, Entered, Folding, Judging, GatesFor,
                HarmAnswer
  <2>4. BlocksPass'
    <3>1. stage' = "blocks" /\ next' = 1
      BY <1>2 DEF HarmKnown
    <3>2. gates'.block_on \in Seq(Block)
      <4>1. /\ CheckInvariants(call.policy) /\ response \in Responses
            /\ CheckResponse(call.request, response.answers)
        BY <1>2 DEF HarmKnown, Inv, Entered
      <4>2. HarmAnswer.label \in HarmClass /\ call.policy \in Policies
        BY <4>1, Accepted DEF Inv, TypeOK
      <4> QED BY <1>2, <4>1, <4>2, GatesTyped DEF HarmKnown
    <3>3. \A i \in DOMAIN gates'.block_on : ~(i < next')
      BY <3>1, <3>2
    <3> QED BY <3>1, <3>3 DEF BlocksPass, Folding
  <2>5. StillAuto' /\ AutoIsEarned' /\ FailureStaysShut'
    BY <1>2 DEF HarmKnown, StillAuto, AutoIsEarned, FailureStaysShut, Folding
  <2> QED BY <2>2, <2>3, <2>4, <2>5 DEF Inv
<1> QED BY <1>1, <1>2

LEMMA BlocksKeepInv ==
  Inv /\ (BlockUnreadable \/ BlockFires \/ BlockPasses \/ FromSignal) => Inv'
<1> SUFFICES ASSUME Inv,
                    BlockUnreadable \/ BlockFires \/ BlockPasses \/ FromSignal
             PROVE  Inv'
  OBVIOUS
<1>1. /\ TypeOK /\ Entered /\ BlocksPass /\ stage = "blocks"
      /\ stage \in Judging
  BY DEF Inv, BlockUnreadable, BlockFires, BlockPasses, FromSignal, Judging
<1>2. HarmSignal \in Score
  BY <1>1, Accepted DEF Entered, Judging
<1>3. verdict \in Verdict /\ noted \subseteq Reason
  BY <1>1 DEF TypeOK
<1>4. CASE BlockUnreadable
  BY <1>1, <1>4, GatesInForce, ReturnClosedKeepsInv
     DEF BlockUnreadable, Reason
<1>5. CASE BlockFires
  <2>1. verdict' \in Verdict /\ verdict'.rank # HintAuto
          /\ verdict'.signal # Unset
    BY <1>2, <1>3, <1>5, UnitAssumption
       DEF BlockFires, Verdict, Rank, Reason, HintAuto, HintEscalate, Score,
           Unset
  <2>2. TypeOK'
    BY <1>1, <1>5, <2>1 DEF BlockFires, TypeOK
  <2> QED BY <1>5, <2>1, <2>2
          DEF BlockFires, Inv, Entered, BlocksPass, StillAuto, AutoIsEarned,
              FailureStaysShut, Folding, Judging
<1>6. CASE BlockPasses
  <2>1. TypeOK'
    BY <1>1, <1>6 DEF BlockPasses, TypeOK
  <2>2. Entered'
    BY <1>1, <1>6 DEF BlockPasses, Entered, Folding, Judging, GatesFor,
                      HarmAnswer
  <2>3. BlocksPass'
    <3>1. Passed(gates.block_on[next])
      BY <1>6 DEF BlockPasses, Passed, BlockAt
    <3>2. ASSUME NEW i \in DOMAIN gates.block_on, i < next + 1
          PROVE  Passed(gates.block_on[i])
      <4>1. i \in Int /\ next \in Int
        BY <1>1, GatesInForce DEF TypeOK
      <4>2. i < next \/ i = next
        BY <3>2, <4>1
      <4> QED BY <1>1, <3>1, <4>2 DEF BlocksPass
    <3> QED BY <1>6, <3>2 DEF BlockPasses, BlocksPass, Passed, Folding
  <2> QED BY <1>6, <2>1, <2>2, <2>3
          DEF BlockPasses, Inv, StillAuto, AutoIsEarned, FailureStaysShut,
              Folding
<1>7. CASE FromSignal
  <2> DEFINE first == VerdictFromSignal(HarmSignal, gates)
  <2>1. /\ first.rank \in Rank /\ first.reasons \subseteq Reason
        /\ first.rank = HintAuto =>
             gates.auto # Unset /\ HarmSignal >= gates.auto
    BY SignalVerdict
  <2>2. /\ verdict' = [rank |-> first.rank, reasons |-> first.reasons,
                       signal |-> HarmSignal]
        /\ stage' = "unsure" /\ next' = 1
        /\ UNCHANGED <<call, response, gates, noted>>
    BY <1>7 DEF FromSignal
  <2> HIDE DEF first
  <2>3. TypeOK'
    BY <1>1, <1>2, <2>1, <2>2 DEF TypeOK, Verdict
  <2>4. Entered'
    BY <1>1, <2>2 DEF Entered, Folding, Judging, GatesFor, HarmAnswer
  <2>5. BlocksPass'
    <3>1. ASSUME NEW i \in DOMAIN gates.block_on
          PROVE  Passed(gates.block_on[i])
      <4>1. next > Len(gates.block_on)
        BY <1>7 DEF FromSignal
      <4>2. i \in 1 .. Len(gates.block_on) /\ next \in Int
        BY <1>1, GatesInForce DEF TypeOK
      <4> QED BY <1>1, <4>1, <4>2 DEF BlocksPass
    <3> QED BY <2>2, <3>1 DEF BlocksPass, Passed, HarmSignal, HarmAnswer
  <2>6. StillAuto'
    <3>1. first.rank = HintAuto => HarmClears
      BY <1>1, <1>2, <2>1, GatesInForce DEF HarmClears
    <3>2. \A i \in DOMAIN gates.block_on : ~(i < 1)
      BY <1>1, GatesInForce
    <3> QED BY <2>2, <3>1, <3>2
            DEF StillAuto, HarmClears, SignalClears, HarmSignal, HarmAnswer
  <2> QED BY <2>2, <2>3, <2>4, <2>5, <2>6
          DEF Inv, AutoIsEarned, FailureStaysShut
<1> QED BY <1>4, <1>5, <1>6, <1>7

(* Absorbing a further verdict can only leave Auto, so what Auto already   *)
(* stands for stays true.                                                  *)
LEMMA FoldKeepsTypes ==
  ASSUME TypeOK, NEW extra, extra.rank \in Rank, extra.reasons \subseteq Reason,
         Fold(extra) \/ UNCHANGED verdict
  PROVE  /\ verdict' \in Verdict
         /\ verdict'.signal = verdict.signal
         /\ verdict'.rank = HintAuto => verdict.rank = HintAuto
         /\ Fold(extra) /\ verdict'.rank = HintAuto => extra.rank = HintAuto
BY AbsorbStrictest DEF TypeOK, Fold

LEMMA UnsureBlocksKeepInv ==
  Inv /\ (FoldUnsureBlock \/ UnsureBlocksFolded) => Inv'
<1> SUFFICES ASSUME Inv, FoldUnsureBlock \/ UnsureBlocksFolded PROVE Inv'
  OBVIOUS
<1>1. /\ TypeOK /\ Entered /\ BlocksPass /\ StillAuto /\ stage = "unsure"
      /\ stage \in Judging
  BY DEF Inv, FoldUnsureBlock, UnsureBlocksFolded, Folding, Judging
<1>2. gates.block_on \in Seq(Block) /\ next \in Nat \ {0}
  BY <1>1, GatesInForce DEF TypeOK
<1>3. CASE FoldUnsureBlock
  <2> DEFINE extra == WhenUnsureBump(gates, "battery")
  <2>1. /\ extra.rank \in Rank /\ extra.rank # HintAuto
        /\ extra.reasons \subseteq Reason
    BY BumpIsNotAuto DEF Reason
  <2>2. /\ UNCHANGED <<call, stage, response, gates, noted>>
        /\ next' = next + 1
        /\ Fold(extra) \/ UNCHANGED verdict
        /\ Fold(extra) \/ Settled(gates.block_on[next])
    BY <1>3 DEF FoldUnsureBlock, Settled, BlockAt, BlockNoul
  <2> HIDE DEF extra
  <2>3. /\ verdict' \in Verdict
        /\ verdict'.signal = verdict.signal
        /\ verdict'.rank = HintAuto =>
             verdict.rank = HintAuto /\ Settled(gates.block_on[next])
    BY <1>1, <2>1, <2>2, FoldKeepsTypes
  <2>4. TypeOK'
    BY <1>1, <1>2, <2>2, <2>3 DEF TypeOK
  <2>5. Entered' /\ BlocksPass'
    BY <1>1, <2>2, <2>3 DEF Entered, BlocksPass, Folding, Judging, GatesFor,
                            HarmAnswer, HarmSignal, Passed
  <2>6. StillAuto'
    <3>1. ASSUME NEW i \in DOMAIN gates.block_on, i < next + 1,
                 verdict'.rank = HintAuto
          PROVE  Settled(gates.block_on[i])
      <4>1. i < next \/ i = next
        BY <1>2, <3>1
      <4> QED BY <1>1, <2>3, <3>1, <4>1 DEF StillAuto, Folding
    <3> QED BY <1>1, <2>2, <2>3, <3>1
            DEF StillAuto, HarmClears, SignalClears, HarmSignal, HarmAnswer,
                Settled, Folding
  <2> QED BY <1>1, <2>2, <2>4, <2>5, <2>6
          DEF Inv, AutoIsEarned, FailureStaysShut
<1>4. CASE UnsureBlocksFolded
  <2>1. /\ UNCHANGED <<call, response, gates, verdict, noted>>
        /\ stage' = "extras" /\ next' = 1 /\ next > Len(gates.block_on)
    BY <1>4 DEF UnsureBlocksFolded
  <2>2. TypeOK' /\ Entered' /\ BlocksPass'
    BY <1>1, <2>1 DEF TypeOK, Entered, BlocksPass, Folding, Judging, GatesFor,
                      HarmAnswer, HarmSignal, Passed
  <2>3. StillAuto'
    <3>1. \A i \in DOMAIN gates.block_on : i < next
      BY <1>2, <2>1
    <3>2. \A i \in DOMAIN call.request.extras : ~(i < 1)
      BY <1>1, RequestAssumption DEF TypeOK, GateRequest
    <3> QED BY <1>1, <2>1, <3>1, <3>2
            DEF StillAuto, HarmClears, SignalClears, HarmSignal, HarmAnswer,
                Settled, Folding
  <2> QED BY <2>1, <2>2, <2>3 DEF Inv, AutoIsEarned, FailureStaysShut
<1> QED BY <1>3, <1>4

LEMMA ExtrasKeepInv ==
  Inv /\ (FoldExtra \/ ExtrasFolded) => Inv'
<1> SUFFICES ASSUME Inv, FoldExtra \/ ExtrasFolded PROVE Inv'
  OBVIOUS
<1>1. /\ TypeOK /\ Entered /\ BlocksPass /\ StillAuto /\ stage = "extras"
      /\ stage \in Judging
  BY DEF Inv, FoldExtra, ExtrasFolded, Folding, Judging
<1>2. call.request.extras \in Seq(Question) /\ next \in Nat \ {0}
  BY <1>1, RequestAssumption DEF TypeOK, GateRequest
<1>3. CASE FoldExtra
  <2>1. /\ UNCHANGED <<call, stage, response, gates, noted>>
        /\ next' = next + 1
        /\ next \in DOMAIN call.request.extras
    BY <1>2, <1>3 DEF FoldExtra
  <2>2. /\ verdict' \in Verdict
        /\ verdict'.signal = verdict.signal
        /\ verdict'.rank = HintAuto =>
             verdict.rank = HintAuto /\ ExtraClears(call.request.extras[next])
    <3>1. CASE ~Counted(ExtraAt)
      BY <1>1, <1>3, <3>1 DEF FoldExtra, ExtraClears, ExtraAt, TypeOK
    <3>2. CASE Counted(ExtraAt) /\ ExtraAt.kind = "noul"
      <4> DEFINE extra == WhenUnsureBump(gates, "noul_band")
      <4>1. /\ extra.rank \in Rank /\ extra.rank # HintAuto
            /\ extra.reasons \subseteq Reason
        BY BumpIsNotAuto DEF Reason
      <4>2. /\ Fold(extra) \/ UNCHANGED verdict
            /\ Fold(extra) \/ ~ExtraUnsure(ExtraAt)
        BY <1>3, <3>2 DEF FoldExtra
      <4> HIDE DEF extra
      <4> QED BY <1>1, <3>2, <4>1, <4>2, FoldKeepsTypes
              DEF ExtraClears, ExtraAt
    <3>3. CASE Counted(ExtraAt) /\ ExtraAt.kind # "noul"
      <4> DEFINE extra == VerdictFromSignal(ExtraSignal(ExtraAt), gates)
      <4>1. /\ extra.rank \in Rank /\ extra.reasons \subseteq Reason
            /\ extra.rank = HintAuto =>
                 gates.auto # Unset /\ ExtraSignal(ExtraAt) >= gates.auto
        BY SignalVerdict
      <4>2. Fold(extra)
        BY <1>3, <3>3 DEF FoldExtra
      <4>3. ExtraSignal(ExtraAt) \in Score
        BY <1>1, <2>1, Accepted DEF Entered, Folding, Judging, ExtraAt
      <4> HIDE DEF extra
      <4>4. extra.rank = HintAuto => ExtraClears(ExtraAt)
        BY <1>1, <3>3, <4>1, <4>3, GatesInForce DEF ExtraClears
      <4> QED BY <1>1, <4>1, <4>2, <4>4, FoldKeepsTypes DEF ExtraAt
    <3> QED BY <3>1, <3>2, <3>3
  <2>3. TypeOK'
    BY <1>1, <1>2, <2>1, <2>2 DEF TypeOK
  <2>4. Entered' /\ BlocksPass'
    BY <1>1, <2>1, <2>2 DEF Entered, BlocksPass, Folding, Judging, GatesFor,
                            HarmAnswer, HarmSignal, Passed
  <2>5. StillAuto'
    <3>1. ASSUME NEW i \in DOMAIN call.request.extras, i < next + 1,
                 verdict'.rank = HintAuto
          PROVE  ExtraClears(call.request.extras[i])
      <4>1. i < next \/ i = next
        BY <1>2, <3>1
      <4> QED BY <1>1, <2>2, <3>1, <4>1 DEF StillAuto, Folding
    <3> QED BY <1>1, <2>1, <2>2, <3>1
            DEF StillAuto, HarmClears, SignalClears, HarmSignal, HarmAnswer,
                Settled, Folding, ExtraClears, Counted, ExtraUnsure,
                ExtraSignal
  <2> QED BY <1>1, <2>1, <2>3, <2>4, <2>5
          DEF Inv, AutoIsEarned, FailureStaysShut
<1>4. CASE ExtrasFolded
  <2>1. /\ UNCHANGED <<call, response, gates, verdict, noted, next>>
        /\ stage' = "truncate" /\ next > Len(call.request.extras)
    BY <1>4 DEF ExtrasFolded
  <2>2. TypeOK' /\ Entered' /\ BlocksPass'
    BY <1>1, <2>1 DEF TypeOK, Entered, BlocksPass, Folding, Judging, GatesFor,
                      HarmAnswer, HarmSignal, Passed
  <2>3. StillAuto'
    <3>1. \A i \in DOMAIN call.request.extras : i < next
      BY <1>2, <2>1
    <3> QED BY <1>1, <2>1, <3>1
            DEF StillAuto, HarmClears, SignalClears, HarmSignal, HarmAnswer,
                Settled, Folding, ExtraClears, Counted, ExtraUnsure,
                ExtraSignal
  <2> QED BY <2>1, <2>2, <2>3 DEF Inv, AutoIsEarned, FailureStaysShut
<1> QED BY <1>3, <1>4

LEMMA FinishKeepsInv == Inv /\ Finish => Inv'
<1> SUFFICES ASSUME Inv, Finish PROVE Inv'
  OBVIOUS
<1> DEFINE extra  == WhenUnsureBump(gates, "truncated")
           folded == IF Truncated(call.request) THEN Absorb(verdict, extra)
                     ELSE verdict
<1>1. /\ TypeOK /\ Entered /\ BlocksPass /\ StillAuto /\ stage = "truncate"
      /\ stage \in Judging
  BY DEF Inv, Finish, Folding, Judging
<1>2. /\ UNCHANGED <<call, response, gates, noted, next>>
      /\ stage' = "done"
      /\ verdict' = [rank |-> folded.rank,
                      reasons |-> folded.reasons \cup noted,
                      signal |-> folded.signal]
  BY DEF Finish
<1>3. /\ extra.rank \in Rank /\ extra.rank # HintAuto
      /\ extra.reasons \subseteq Reason
  BY BumpIsNotAuto DEF Reason
<1> HIDE DEF extra
<1>4. /\ folded \in Verdict
      /\ folded.signal = verdict.signal
      /\ folded.rank = HintAuto =>
           verdict.rank = HintAuto /\ ~Truncated(call.request)
  BY <1>1, <1>3, AbsorbStrictest DEF TypeOK
<1> HIDE DEF folded
<1>5. /\ verdict' \in Verdict
      /\ verdict'.rank = folded.rank
      /\ verdict'.signal = folded.signal
  BY <1>1, <1>2, <1>4 DEF TypeOK, Verdict
<1>6. TypeOK'
  BY <1>1, <1>2, <1>5 DEF TypeOK
<1>7. FailureStaysShut'
  <2>1. HarmSignal \in Score
    BY <1>1, Accepted DEF Entered, Judging
  <2>2. verdict'.signal # Unset
    BY <1>1, <1>4, <1>5, <2>1, UnitAssumption
       DEF BlocksPass, Folding, Score, Unset
  <2> QED BY <2>2 DEF FailureStaysShut
<1>8. AutoIsEarned'
  <2> DEFINE row == Row(call.policy, call.request.action)
  <2> SUFFICES ASSUME verdict'.rank = HintAuto PROVE AutoIsEarned'
    BY DEF AutoIsEarned
  <2>1. verdict.rank = HintAuto /\ ~Truncated(call.request)
    BY <1>4, <1>5
  <2>2. /\ CheckInvariants(call.policy) /\ Encodable(call.request)
        /\ CheckResponse(call.request, response.answers)
    BY <1>1 DEF Entered
  <2>3. /\ HarmClears
        /\ \A i \in DOMAIN gates.block_on : Settled(gates.block_on[i])
        /\ \A i \in DOMAIN call.request.extras :
             ExtraClears(call.request.extras[i])
    BY <1>1, <2>1 DEF StillAuto, Folding
  <2>4. ASSUME NEW i \in DOMAIN row.block_on
        PROVE  BlockClears(row.block_on[i])
    <3>1. gates.block_on = row.block_on
      BY <1>1, GatesInForce
    <3>2. Passed(row.block_on[i]) /\ Settled(row.block_on[i])
      BY <1>1, <2>3, <3>1 DEF BlocksPass
    <3> QED BY <3>2 DEF Passed, Settled, BlockClears, IsNoul, Fires
  <2> QED BY <1>2, <2>1, <2>2, <2>3, <2>4
          DEF AutoIsEarned, HarmClears, SignalClears, HarmSignal, HarmAnswer,
              BlockClears, ExtraClears, Counted, ExtraUnsure, ExtraSignal
<1> QED BY <1>1, <1>2, <1>6, <1>7, <1>8
        DEF Inv, Entered, BlocksPass, StillAuto, Folding, Judging

LEMMA StutterKeepsInv == Inv /\ UNCHANGED vars => Inv'
<1> SUFFICES ASSUME Inv, UNCHANGED vars PROVE Inv'
  OBVIOUS
<1>1. TypeOK' /\ FailureStaysShut'
  BY DEF Inv, vars, TypeOK, FailureStaysShut
<1>2. Entered' /\ BlocksPass'
  BY DEF Inv, vars, Entered, BlocksPass, GatesFor, Passed, HarmSignal,
         HarmAnswer
<1>3. StillAuto'
  BY DEF Inv, vars, StillAuto, Settled, HarmClears, SignalClears, HarmSignal,
         HarmAnswer, ExtraClears, Counted, ExtraUnsure, ExtraSignal
<1>4. AutoIsEarned'
  BY DEF Inv, vars, AutoIsEarned, HarmClears, SignalClears, HarmSignal,
         HarmAnswer, BlockClears, ExtraClears, Counted, ExtraUnsure,
         ExtraSignal
<1> QED BY <1>1, <1>2, <1>3, <1>4 DEF Inv

-----------------------------------------------------------------------------
(* The theorems of Inv.                                                    *)

(* The invariant holds of every call, for every policy and scorer.         *)
THEOREM Invariance == Spec => []Inv
<1>1. Init => Inv
  BY InitInv
<1>2. Inv /\ [Next]_vars => Inv'
  BY StartKeepsInv, EvaluateKeepsInv, CheckKeepsInv, BlocksKeepInv,
     UnsureBlocksKeepInv, ExtrasKeepInv, FinishKeepsInv, StutterKeepsInv
     DEF Next
<1> QED BY <1>1, <1>2, PTL DEF Spec

(* gate_uncached keeps its variables in their types; in particular no      *)
(* finished call returns anything but a verdict whose signal is a number   *)
(* of the unit interval or absent.                                         *)
THEOREM TypeCorrect == Spec => []TypeOK
<1>1. Inv => TypeOK
  BY DEF Inv
<1> QED BY <1>1, Invariance, PTL

(* gate_uncached returns Auto only for a checked policy, an untrimmed      *)
(* request, a row with an auto threshold the raw signal reaches together   *)
(* with the policy's floors, a harm label that fits the row, blocks that   *)
(* all pass and extra questions that all clear.                            *)
THEOREM AutoEarned == Spec => []AutoIsEarned
<1>1. Inv => AutoIsEarned
  BY DEF Inv
<1> QED BY <1>1, Invariance, PTL

(* A call that could not be scored never returns Auto, and Review only     *)
(* under Fail::Open for a row that has an auto threshold.                  *)
THEOREM FailureShut == Spec => []FailureStaysShut
<1>1. Inv => FailureStaysShut
  BY DEF Inv
<1> QED BY <1>1, Invariance, PTL

(* While the answers are folded into the verdict, the confidence of every  *)
(* kept answer clears the policy's own thresholds: the band of its nouls,  *)
(* or escalate_below.  Neither a block's own band nor a signal other than  *)
(* the confidence is compared (check_invariants bounds neither).           *)
THEOREM KeptClearsThresholds == Spec => []KeptIsDecided
<1>1. Inv => KeptIsDecided
  <2> SUFFICES ASSUME Inv, stage \in Folding,
                      NEW id \in DOMAIN response.answers,
                      AnswerKept(response.answers[id], call.policy.cascade_min)
               PROVE  /\ response.answers[id].kind = "noul" =>
                           Decide(call.policy, NoBlock,
                                  response.answers[id].confidence) # "unsure"
                      /\ response.answers[id].kind # "noul" =>
                           response.answers[id].confidence
                             >= call.policy.escalate_below
    BY DEF KeptIsDecided, Folding
  <2>1. CheckInvariants(call.policy) /\ response \in Responses
    BY DEF Inv, Entered, Judging
  <2> QED BY <2>1, ResponseAssumption, KeptAnswerIsDecided
<1> QED BY <1>1, Invariance, PTL

-----------------------------------------------------------------------------
(* The inductive invariant: what has been folded into the verdict so far   *)
(* is the strictest of what the blocks and the extra questions up to the   *)
(* loop index contribute.                                                  *)

BlockAdds(i) ==
  IF /\ gates.block_on[i].when # "unsure"
     /\ Decide(call.policy, gates.block_on[i],
               response.answers[gates.block_on[i].id].confidence) = "unsure"
    THEN {WhenUnsureBump(gates, "battery")} ELSE {}

ExtraAdds(i) ==
  LET question == call.request.extras[i]
  IN  IF ~Counted(question) THEN {}
      ELSE IF question.kind # "noul"
        THEN {VerdictFromSignal(ExtraSignal(question), gates)}
      ELSE IF ExtraUnsure(question) THEN {WhenUnsureBump(gates, "noul_band")}
      ELSE {}

BlocksAdd(n) ==
  UNION {BlockAdds(i) : i \in {j \in DOMAIN gates.block_on : j < n}}

ExtrasAdd(n) ==
  UNION {ExtraAdds(i) : i \in {j \in DOMAIN call.request.extras : j < n}}

FromHarm == {VerdictFromSignal(HarmSignal, gates)}
AllBlocks == BlocksAdd(Len(gates.block_on) + 1)
AllExtras == ExtrasAdd(Len(call.request.extras) + 1)

Contributions ==
  CASE stage = "unsure"   -> FromHarm \cup BlocksAdd(next)
    [] stage = "extras"   -> FromHarm \cup AllBlocks \cup ExtrasAdd(next)
    [] stage = "truncate" -> FromHarm \cup AllBlocks \cup AllExtras

Noted ==
  (IF gates.bumped THEN {"harm_class_bump"} ELSE {})
    \cup (IF CascadeStillUnsure(call.policy, response)
            THEN {"cascade_still_unsure"} ELSE {})

Unanswered ==
  /\ stage \in {"start", "evaluating"} => response = NoResponse
  /\ stage \in {"done"} => CheckInvariants(call.policy)

Gathered ==
  /\ stage \in Judging => noted = Noted
  /\ stage \in Folding => IsStrictest(verdict, Contributions)

JudgeInv == Unanswered /\ Gathered /\ LoopsJudge

(* A response of the scorer is never mistaken for its absence.             *)
LEMMA AnAnswer == \A r \in Responses : r # NoResponse
<1> SUFFICES ASSUME NEW r \in Responses, r = NoResponse PROVE FALSE
  OBVIOUS
<1>1. DOMAIN r = {"answers", "fallback"}
  BY ResponseAssumption
<1>2. DOMAIN r = {"answers"}
  BY DEF NoResponse
<1> QED BY <1>1, <1>2

(* The folds start from nothing, take one element at a time, and end with  *)
(* the sets Judge speaks of.                                               *)
LEMMA BlocksUpTo ==
  ASSUME gates.block_on \in Seq(Block)
  PROVE  /\ BlocksAdd(1) = {}
         /\ \A n \in DOMAIN gates.block_on :
              BlocksAdd(n + 1) = BlocksAdd(n) \cup BlockAdds(n)
         /\ \A n \in Nat : n > Len(gates.block_on) =>
              BlocksAdd(n) = AllBlocks
         /\ AllBlocks = UnsureBlocks(call.policy, gates, response.answers)
<1>1. DOMAIN gates.block_on = 1 .. Len(gates.block_on)
        /\ Len(gates.block_on) \in Nat
  OBVIOUS
<1>2. BlocksAdd(1) = {}
  BY <1>1 DEF BlocksAdd
<1>3. ASSUME NEW n \in DOMAIN gates.block_on
      PROVE  BlocksAdd(n + 1) = BlocksAdd(n) \cup BlockAdds(n)
  <2>1. {j \in DOMAIN gates.block_on : j < n + 1}
          = {j \in DOMAIN gates.block_on : j < n} \cup {n}
    BY <1>1, <1>3
  <2> QED BY <2>1 DEF BlocksAdd
<1>4. ASSUME NEW n \in Nat, n > Len(gates.block_on)
      PROVE  BlocksAdd(n) = AllBlocks
  <2>1. {j \in DOMAIN gates.block_on : j < n} = DOMAIN gates.block_on
    BY <1>1, <1>4
  <2>2. {j \in DOMAIN gates.block_on : j < Len(gates.block_on) + 1}
          = DOMAIN gates.block_on
    BY <1>1
  <2> QED BY <2>1, <2>2 DEF AllBlocks, BlocksAdd
<1>5. AllBlocks = UnsureBlocks(call.policy, gates, response.answers)
  <2>1. {j \in DOMAIN gates.block_on : j < Len(gates.block_on) + 1}
          = DOMAIN gates.block_on
    BY <1>1
  <2> QED BY <2>1 DEF AllBlocks, BlocksAdd, BlockAdds, UnsureBlocks
<1> QED BY <1>2, <1>3, <1>4, <1>5

LEMMA ExtrasUpTo ==
  ASSUME call.request.extras \in Seq(Question)
  PROVE  /\ ExtrasAdd(1) = {}
         /\ \A n \in DOMAIN call.request.extras :
              ExtrasAdd(n + 1) = ExtrasAdd(n) \cup ExtraAdds(n)
         /\ \A n \in Nat : n > Len(call.request.extras) =>
              ExtrasAdd(n) = AllExtras
         /\ AllExtras = ExtraVerdicts(call.policy, call.request, gates,
                                      response.answers)
<1> DEFINE extras == call.request.extras
<1>1. DOMAIN extras = 1 .. Len(extras) /\ Len(extras) \in Nat
  OBVIOUS
<1>2. ExtrasAdd(1) = {}
  BY <1>1 DEF ExtrasAdd
<1>3. ASSUME NEW n \in DOMAIN extras
      PROVE  ExtrasAdd(n + 1) = ExtrasAdd(n) \cup ExtraAdds(n)
  <2>1. {j \in DOMAIN extras : j < n + 1}
          = {j \in DOMAIN extras : j < n} \cup {n}
    BY <1>1, <1>3
  <2> QED BY <2>1 DEF ExtrasAdd
<1>4. ASSUME NEW n \in Nat, n > Len(extras)
      PROVE  ExtrasAdd(n) = AllExtras
  <2>1. {j \in DOMAIN extras : j < n} = DOMAIN extras
    BY <1>1, <1>4
  <2>2. {j \in DOMAIN extras : j < Len(extras) + 1} = DOMAIN extras
    BY <1>1
  <2> QED BY <2>1, <2>2 DEF AllExtras, ExtrasAdd
<1>5. AllExtras = ExtraVerdicts(call.policy, call.request, gates,
                                response.answers)
  <2>1. {j \in DOMAIN extras : j < Len(extras) + 1} = DOMAIN extras
    BY <1>1
  <2>2. AllExtras = UNION {ExtraAdds(i) : i \in DOMAIN extras}
    BY <2>1 DEF AllExtras, ExtrasAdd
  <2>3. Range(extras) = {extras[i] : i \in DOMAIN extras}
    BY DEF Range
  <2> QED BY <2>2, <2>3
          DEF ExtraAdds, ExtraVerdicts, Counted, ExtraSignal, ExtraUnsure
<1> QED BY <1>2, <1>3, <1>4, <1>5

(* Nothing the folds read changes while they run.                          *)
LEMMA SameContributions ==
  ASSUME UNCHANGED <<call, response, gates>>
  PROVE  /\ FromHarm' = FromHarm
         /\ AllBlocks' = AllBlocks
         /\ AllExtras' = AllExtras
         /\ \A n : BlocksAdd(n)' = BlocksAdd(n)
         /\ \A n : ExtrasAdd(n)' = ExtrasAdd(n)
         /\ Noted' = Noted
BY DEF FromHarm, AllBlocks, AllExtras, BlocksAdd, ExtrasAdd, BlockAdds,
       ExtraAdds, Counted, ExtraUnsure, ExtraSignal, HarmSignal, HarmAnswer,
       Noted

(* The gates the function holds are the ones Judge computes.               *)
LEMMA SameGates ==
  ASSUME Entered, stage \in Judging
  PROVE  /\ gates = JudgeGates(call.policy, call.request, response)
         /\ Noted = JudgeNotes(call.policy, call.request, response)
         /\ CheckResponse(call.request, response.answers)
         /\ Encodable(call.request)
         /\ response \in Responses
BY DEF Entered, Judging, GatesFor, JudgeGates, JudgeNotes, Noted, HarmAnswer

-----------------------------------------------------------------------------
(* One lemma per stage of the function: each of its actions keeps          *)
(* JudgeInv.                                                               *)

LEMMA InitJudge == Init => JudgeInv
BY DEF Init, JudgeInv, Unanswered, Gathered, LoopsJudge, Judging, Folding

LEMMA StartJudges ==
  Inv /\ JudgeInv /\ (PolicyRefused \/ EncodeFails \/ Encoded) => JudgeInv'
<1> SUFFICES ASSUME Inv, JudgeInv, PolicyRefused \/ EncodeFails \/ Encoded
             PROVE  JudgeInv'
  OBVIOUS
<1>1. stage = "start" /\ response = NoResponse /\ gates = GatesFor(Unset)
  BY DEF Inv, Entered, JudgeInv, Unanswered, PolicyRefused, EncodeFails,
         Encoded
<1>2. CASE PolicyRefused \/ Encoded
  BY <1>1, <1>2 DEF PolicyRefused, Encoded, JudgeInv, Unanswered, Gathered,
                    LoopsJudge, Judging, Folding
<1>3. CASE EncodeFails
  BY <1>1, <1>3 DEF EncodeFails, ReturnClosed, JudgeInv, Unanswered, Gathered,
                    LoopsJudge, Judging, Folding, ClosedOn, GatesFor
<1> QED BY <1>2, <1>3

LEMMA EvaluateJudges ==
  Inv /\ JudgeInv /\ (BackendFails \/ BackendAnswers) => JudgeInv'
<1> SUFFICES ASSUME Inv, JudgeInv, BackendFails \/ BackendAnswers
             PROVE  JudgeInv'
  OBVIOUS
<1>1. /\ response = NoResponse /\ gates = GatesFor(Unset)
      /\ CheckInvariants(call.policy) /\ Encodable(call.request)
  BY DEF Inv, Entered, JudgeInv, Unanswered, BackendFails, BackendAnswers
<1>2. CASE BackendFails
  BY <1>1, <1>2 DEF BackendFails, ReturnClosed, JudgeInv, Unanswered,
                    Gathered, LoopsJudge, Judging, Folding, ClosedOn, GatesFor
<1>3. CASE BackendAnswers
  BY <1>3 DEF BackendAnswers, JudgeInv, Unanswered, Gathered, LoopsJudge,
              Judging, Folding
<1> QED BY <1>2, <1>3

LEMMA CheckJudges ==
  Inv /\ JudgeInv /\ (ResponseRejected \/ HarmKnown) => JudgeInv'
<1> SUFFICES ASSUME Inv, JudgeInv, ResponseRejected \/ HarmKnown
             PROVE  JudgeInv'
  OBVIOUS
<1>1. /\ gates = GatesFor(Unset) /\ response # NoResponse
      /\ CheckInvariants(call.policy) /\ Encodable(call.request)
  BY AnAnswer DEF Inv, Entered, ResponseRejected, HarmKnown
<1>2. CASE ResponseRejected
  <2>1. /\ verdict' = ClosedOn(call.policy, call.request, call.fail, "decode")
        /\ stage' = "done" /\ UNCHANGED <<call, response>>
    BY <1>1, <1>2 DEF ResponseRejected, ReturnClosed, ClosedOn, GatesFor
  <2>2. Judge(call.policy, call.request, call.fail, response) = verdict'
    BY <1>2, <2>1, Judged DEF ResponseRejected
  <2> QED BY <1>1, <2>1, <2>2 DEF JudgeInv, Unanswered, Gathered, LoopsJudge,
                                  Judging, Folding
<1>3. CASE HarmKnown
  BY <1>3 DEF HarmKnown, JudgeInv, Unanswered, Gathered, LoopsJudge, Judging,
              Folding, Noted
<1> QED BY <1>2, <1>3

LEMMA BlocksJudge ==
  Inv /\ JudgeInv /\ (BlockUnreadable \/ BlockFires \/ BlockPasses \/ FromSignal)
    => JudgeInv'
<1> SUFFICES ASSUME Inv, JudgeInv,
                    BlockUnreadable \/ BlockFires \/ BlockPasses \/ FromSignal
             PROVE  JudgeInv'
  OBVIOUS
<1>1. /\ TypeOK /\ Entered /\ BlocksPass /\ stage = "blocks"
      /\ stage \in Judging /\ CheckInvariants(call.policy)
  BY DEF Inv, Entered, BlockUnreadable, BlockFires, BlockPasses, FromSignal,
         Judging
<1>2. /\ gates.block_on \in Seq(Block) /\ next \in Nat \ {0}
      /\ response # NoResponse
  BY <1>1, GatesInForce, SameGates, AnAnswer DEF TypeOK
<1>3. noted = Noted
  BY <1>1 DEF JudgeInv, Gathered
<1>4. ASSUME next \in DOMAIN gates.block_on
      PROVE  /\ ~IsNoul(response.answers, BlockAt.id) =>
                  JudgeHit(call.policy, call.request, response) = "unreadable"
             /\ IsNoul(response.answers, BlockAt.id)
                  /\ Fires(call.policy, call.request, BlockAt,
                           response.answers) =>
                  JudgeHit(call.policy, call.request, response) = "fires"
  <2>1. \A i \in DOMAIN gates.block_on : i < next =>
          /\ IsNoul(response.answers, gates.block_on[i].id)
          /\ ~Fires(call.policy, call.request, gates.block_on[i],
                    response.answers)
    BY <1>1 DEF BlocksPass, Passed
  <2>2. gates = JudgeGates(call.policy, call.request, response)
    BY <1>1, SameGates
  <2> QED BY <1>2, <1>4, <2>1, <2>2, HitFirst DEF JudgeHit, BlockAt
<1>5. CASE BlockUnreadable
  <2>1. /\ verdict' = Closed(call.fail, gates, "decode")
        /\ stage' = "done" /\ UNCHANGED <<call, response>>
    BY <1>5 DEF BlockUnreadable, ReturnClosed
  <2>2. JudgeHit(call.policy, call.request, response) = "unreadable"
    BY <1>2, <1>4, <1>5 DEF BlockUnreadable
  <2>3. Judge(call.policy, call.request, call.fail, response) = verdict'
    BY <1>1, <2>1, <2>2, Judged, SameGates
  <2> QED BY <1>1, <1>2, <2>1, <2>3, SameGates
          DEF JudgeInv, Unanswered, Gathered, LoopsJudge, Judging, Folding
<1>6. CASE BlockFires
  <2>1. /\ verdict' = [rank |-> HintEscalate, reasons |-> {"battery"} \cup noted,
                       signal |-> HarmSignal]
        /\ stage' = "done" /\ UNCHANGED <<call, response>>
    BY <1>6 DEF BlockFires
  <2>2. JudgeHit(call.policy, call.request, response) = "fires"
    BY <1>2, <1>4, <1>6 DEF BlockFires
  <2>3. Judge(call.policy, call.request, call.fail, response) = verdict'
    BY <1>1, <1>3, <2>1, <2>2, Judged, SameGates DEF HarmSignal, HarmAnswer
  <2> QED BY <1>1, <1>2, <2>1, <2>3, SameGates
          DEF JudgeInv, Unanswered, Gathered, LoopsJudge, Judging, Folding
<1>7. CASE BlockPasses
  <2>1. /\ UNCHANGED <<call, stage, response, gates, verdict, noted>>
    BY <1>7 DEF BlockPasses
  <2> QED BY <1>1, <1>3, <2>1, SameContributions
          DEF JudgeInv, Unanswered, Gathered, LoopsJudge, Folding
<1>8. CASE FromSignal
  <2> DEFINE first == VerdictFromSignal(HarmSignal, gates)
  <2>1. /\ verdict' = [rank |-> first.rank, reasons |-> first.reasons,
                       signal |-> HarmSignal]
        /\ stage' = "unsure" /\ next' = 1
        /\ UNCHANGED <<call, response, gates, noted>>
    BY <1>8 DEF FromSignal
  <2>2. first.rank \in Rank
    BY SignalVerdict
  <2>3. FromHarm = {first}
    BY DEF FromHarm
  <2> HIDE DEF first
  <2>4. IsStrictest(verdict', FromHarm)
    BY <2>1, <2>2, <2>3 DEF IsStrictest, Rank, HintAuto, HintReview,
                            HintEscalate
  <2>5. Contributions' = FromHarm
    <3>1. Contributions' = FromHarm' \cup BlocksAdd(1)'
      BY <2>1 DEF Contributions, BlocksAdd, BlockAdds
    <3> QED BY <1>2, <2>1, <3>1, SameContributions, BlocksUpTo
  <2>6. noted' = Noted'
    BY <1>3, <2>1, SameContributions
  <2> QED BY <2>1, <2>4, <2>5, <2>6
          DEF JudgeInv, Unanswered, Gathered, LoopsJudge, Judging, Folding
<1> QED BY <1>5, <1>6, <1>7, <1>8

(* A pass of a fold either absorbs what the element at the index           *)
(* contributes, or the element contributes nothing.                        *)
LEMMA FoldsOne ==
  ASSUME NEW V, NEW adds, NEW extra, IsStrictest(verdict, V),
         extra.rank \in Rank,
         \/ Fold(extra) /\ adds = {extra}
         \/ UNCHANGED verdict /\ adds = {}
  PROVE  IsStrictest(verdict', V \cup adds)
<1>1. CASE Fold(extra) /\ adds = {extra}
  BY <1>1, AbsorbIs DEF Fold
<1>2. CASE UNCHANGED verdict /\ adds = {}
  BY <1>2
<1> QED BY <1>1, <1>2

LEMMA UnsureBlocksJudge ==
  Inv /\ JudgeInv /\ (FoldUnsureBlock \/ UnsureBlocksFolded) => JudgeInv'
<1> SUFFICES ASSUME Inv, JudgeInv, FoldUnsureBlock \/ UnsureBlocksFolded
             PROVE  JudgeInv'
  OBVIOUS
<1>1. /\ TypeOK /\ Entered /\ stage = "unsure" /\ stage \in Judging
  BY DEF Inv, FoldUnsureBlock, UnsureBlocksFolded, Folding, Judging
<1>2. gates.block_on \in Seq(Block) /\ next \in Nat \ {0}
  BY <1>1, GatesInForce DEF TypeOK
<1>3. /\ noted = Noted
      /\ IsStrictest(verdict, FromHarm \cup BlocksAdd(next))
  BY <1>1 DEF JudgeInv, Gathered, Contributions, Folding
<1>4. CASE FoldUnsureBlock
  <2> DEFINE extra == WhenUnsureBump(gates, "battery")
  <2>1. extra.rank \in Rank
    BY BumpIsNotAuto DEF Reason
  <2>2. /\ UNCHANGED <<call, stage, response, gates, noted>>
        /\ next' = next + 1 /\ next \in DOMAIN gates.block_on
    BY <1>2, <1>4 DEF FoldUnsureBlock
  <2>3. \/ Fold(extra) /\ BlockAdds(next) = {extra}
        \/ UNCHANGED verdict /\ BlockAdds(next) = {}
    BY <1>4 DEF FoldUnsureBlock, BlockAdds, BlockAt, BlockNoul
  <2> HIDE DEF extra
  <2>4. IsStrictest(verdict', FromHarm \cup BlocksAdd(next) \cup BlockAdds(next))
    BY <1>3, <2>1, <2>3, FoldsOne
  <2>5. Contributions' = FromHarm \cup BlocksAdd(next + 1)
    <3>1. PICK m : m = next + 1
      OBVIOUS
    <3>2. Contributions' = FromHarm' \cup BlocksAdd(m)'
      BY <1>1, <2>2, <3>1 DEF Contributions, BlocksAdd, BlockAdds
    <3> QED BY <2>2, <3>1, <3>2, SameContributions
  <2>6. FromHarm \cup BlocksAdd(next + 1)
          = FromHarm \cup BlocksAdd(next) \cup BlockAdds(next)
    BY <1>2, <2>2, BlocksUpTo
  <2>7. noted' = Noted'
    BY <1>3, <2>2, SameContributions
  <2> QED BY <1>1, <2>2, <2>4, <2>5, <2>6, <2>7
          DEF JudgeInv, Unanswered, Gathered, LoopsJudge
<1>5. CASE UnsureBlocksFolded
  <2>1. /\ UNCHANGED <<call, response, gates, verdict, noted>>
        /\ stage' = "extras" /\ next' = 1 /\ next > Len(gates.block_on)
    BY <1>5 DEF UnsureBlocksFolded
  <2>2. call.request.extras \in Seq(Question)
    BY <1>1, RequestAssumption DEF TypeOK, GateRequest
  <2>3. Contributions' = FromHarm \cup BlocksAdd(next)
    <3>1. Contributions' = FromHarm' \cup AllBlocks' \cup ExtrasAdd(1)'
      BY <2>1 DEF Contributions, ExtrasAdd, ExtraAdds, Counted, ExtraUnsure,
                  ExtraSignal
    <3>2. BlocksAdd(next) = AllBlocks /\ ExtrasAdd(1) = {}
      BY <1>2, <2>1, <2>2, BlocksUpTo, ExtrasUpTo
    <3> QED BY <2>1, <3>1, <3>2, SameContributions
  <2>4. noted' = Noted'
    BY <1>3, <2>1, SameContributions
  <2> QED BY <1>3, <2>1, <2>3, <2>4
          DEF JudgeInv, Unanswered, Gathered, LoopsJudge, Folding
<1> QED BY <1>4, <1>5

LEMMA ExtrasJudge ==
  Inv /\ JudgeInv /\ (FoldExtra \/ ExtrasFolded) => JudgeInv'
<1> SUFFICES ASSUME Inv, JudgeInv, FoldExtra \/ ExtrasFolded
             PROVE  JudgeInv'
  OBVIOUS
<1>1. /\ TypeOK /\ Entered /\ stage = "extras" /\ stage \in Judging
  BY DEF Inv, FoldExtra, ExtrasFolded, Folding, Judging
<1>2. call.request.extras \in Seq(Question) /\ next \in Nat \ {0}
  BY <1>1, RequestAssumption DEF TypeOK, GateRequest
<1>3. /\ noted = Noted
      /\ IsStrictest(verdict, FromHarm \cup AllBlocks \cup ExtrasAdd(next))
  BY <1>1 DEF JudgeInv, Gathered, Contributions, Folding
<1>4. CASE FoldExtra
  <2>1. /\ UNCHANGED <<call, stage, response, gates, noted>>
        /\ next' = next + 1 /\ next \in DOMAIN call.request.extras
    BY <1>2, <1>4 DEF FoldExtra
  <2>2. IsStrictest(verdict', FromHarm \cup AllBlocks \cup ExtrasAdd(next)
                                \cup ExtraAdds(next))
    <3>1. CASE ~Counted(ExtraAt)
      <4>1. UNCHANGED verdict /\ ExtraAdds(next) = {}
        BY <1>4, <3>1 DEF FoldExtra, ExtraAdds, ExtraAt
      <4> QED BY <1>3, <4>1
    <3>2. CASE Counted(ExtraAt) /\ ExtraAt.kind = "noul"
      <4> DEFINE extra == WhenUnsureBump(gates, "noul_band")
      <4>1. extra.rank \in Rank
        BY BumpIsNotAuto DEF Reason
      <4>2. \/ Fold(extra) /\ ExtraAdds(next) = {extra}
            \/ UNCHANGED verdict /\ ExtraAdds(next) = {}
        BY <1>4, <3>2 DEF FoldExtra, ExtraAdds, ExtraAt
      <4> HIDE DEF extra
      <4> QED BY <1>3, <4>1, <4>2, FoldsOne
    <3>3. CASE Counted(ExtraAt) /\ ExtraAt.kind # "noul"
      <4> DEFINE extra == VerdictFromSignal(ExtraSignal(ExtraAt), gates)
      <4>1. extra.rank \in Rank
        BY SignalVerdict
      <4>2. Fold(extra) /\ ExtraAdds(next) = {extra}
        BY <1>4, <3>3 DEF FoldExtra, ExtraAdds, ExtraAt
      <4> HIDE DEF extra
      <4> QED BY <1>3, <4>1, <4>2, FoldsOne
    <3> QED BY <3>1, <3>2, <3>3
  <2>3. Contributions' = FromHarm \cup AllBlocks \cup ExtrasAdd(next + 1)
    <3>1. PICK m : m = next + 1
      OBVIOUS
    <3>2. Contributions' = FromHarm' \cup AllBlocks' \cup ExtrasAdd(m)'
      BY <1>1, <2>1, <3>1
         DEF Contributions, ExtrasAdd, ExtraAdds, Counted, ExtraUnsure,
             ExtraSignal
    <3> QED BY <2>1, <3>1, <3>2, SameContributions
  <2>4. ExtrasAdd(next + 1) = ExtrasAdd(next) \cup ExtraAdds(next)
    BY <1>2, <2>1, ExtrasUpTo
  <2>5. noted' = Noted'
    BY <1>3, <2>1, SameContributions
  <2>6. IsStrictest(verdict', Contributions')
    <3>1. Contributions' = FromHarm \cup AllBlocks \cup ExtrasAdd(next)
                             \cup ExtraAdds(next)
      BY <2>3, <2>4
    <3> QED BY <2>2, <3>1
  <2> QED BY <1>1, <2>1, <2>5, <2>6
          DEF JudgeInv, Unanswered, Gathered, LoopsJudge
<1>5. CASE ExtrasFolded
  <2>1. /\ UNCHANGED <<call, response, gates, verdict, noted, next>>
        /\ stage' = "truncate" /\ next > Len(call.request.extras)
    BY <1>5 DEF ExtrasFolded
  <2>2. Contributions' = FromHarm \cup AllBlocks \cup ExtrasAdd(next)
    <3>1. Contributions' = FromHarm' \cup AllBlocks' \cup AllExtras'
      BY <2>1 DEF Contributions
    <3>2. ExtrasAdd(next) = AllExtras
      BY <1>2, <2>1, ExtrasUpTo
    <3> QED BY <2>1, <3>1, <3>2, SameContributions
  <2>3. noted' = Noted'
    BY <1>3, <2>1, SameContributions
  <2> QED BY <1>3, <2>1, <2>2, <2>3
          DEF JudgeInv, Unanswered, Gathered, LoopsJudge, Folding
<1> QED BY <1>4, <1>5

LEMMA FinishJudges == Inv /\ JudgeInv /\ Finish => JudgeInv'
<1> SUFFICES ASSUME Inv, JudgeInv, Finish PROVE JudgeInv'
  OBVIOUS
<1> DEFINE extra  == WhenUnsureBump(gates, "truncated")
           folded == IF Truncated(call.request) THEN Absorb(verdict, extra)
                     ELSE verdict
           trimmed == IF Truncated(call.request) THEN {extra} ELSE {}
           set    == JudgeSet(call.policy, call.request, response)
<1>1. /\ TypeOK /\ Entered /\ BlocksPass /\ stage = "truncate"
      /\ stage \in Judging
  BY DEF Inv, Finish, Folding, Judging
<1>2. /\ gates.block_on \in Seq(Block)
      /\ call.request.extras \in Seq(Question)
  BY <1>1, GatesInForce, RequestAssumption DEF TypeOK, GateRequest
<1>3. /\ noted = Noted
      /\ IsStrictest(verdict, FromHarm \cup AllBlocks \cup AllExtras)
      /\ verdict.signal = HarmSignal
  BY <1>1 DEF JudgeInv, Gathered, Contributions, Folding, BlocksPass
<1>4. /\ UNCHANGED <<call, response, gates, noted, next>>
      /\ stage' = "done"
      /\ verdict' = [rank |-> folded.rank,
                      reasons |-> folded.reasons \cup noted,
                      signal |-> folded.signal]
  BY DEF Finish
<1>5. extra.rank \in Rank
  BY BumpIsNotAuto DEF Reason
<1>6. set = FromHarm \cup AllBlocks \cup AllExtras \cup trimmed
  BY <1>1, <1>2, BlocksUpTo, ExtrasUpTo, SameGates
     DEF JudgeSet, FromHarm, HarmSignal, HarmAnswer
<1> HIDE DEF extra, set
<1>7. IsStrictest(folded, FromHarm \cup AllBlocks \cup AllExtras \cup trimmed)
        /\ folded.signal = HarmSignal
  <2>1. CASE Truncated(call.request)
    BY <1>3, <1>5, <2>1, AbsorbIs DEF Absorb
  <2>2. CASE ~Truncated(call.request)
    BY <1>3, <2>2
  <2> QED BY <2>1, <2>2
<1> HIDE DEF folded, trimmed
<1>8. /\ Strictest(set).rank = folded.rank
      /\ Strictest(set).reasons = folded.reasons
  BY <1>6, <1>7, StrictestIs
<1>9. JudgeHit(call.policy, call.request, response) = "none"
  <2>1. \A i \in DOMAIN gates.block_on :
          /\ IsNoul(response.answers, gates.block_on[i].id)
          /\ ~Fires(call.policy, call.request, gates.block_on[i],
                    response.answers)
    BY <1>1 DEF BlocksPass, Passed
  <2> QED BY <1>1, <2>1, SameGates, HitNone DEF JudgeHit
<1>10. Judge(call.policy, call.request, call.fail, response) = verdict'
  <2>1. CheckResponse(call.request, response.answers)
    BY <1>1, SameGates
  <2>2. Judge(call.policy, call.request, call.fail, response) =
          [rank |-> Strictest(set).rank,
           reasons |-> Strictest(set).reasons
             \cup JudgeNotes(call.policy, call.request, response),
           signal |-> HarmSignal]
    BY <1>9, <2>1, Judged DEF set, HarmSignal, HarmAnswer
  <2>3. JudgeNotes(call.policy, call.request, response) = noted
    BY <1>1, <1>3, SameGates
  <2> QED BY <1>4, <1>7, <1>8, <2>2, <2>3
<1>11. CheckInvariants(call.policy)
  BY <1>1 DEF Entered
<1> QED BY <1>1, <1>4, <1>10, <1>11, SameGates, AnAnswer
        DEF JudgeInv, Unanswered, Gathered, LoopsJudge, Judging, Folding

LEMMA StutterJudges == Inv /\ JudgeInv /\ UNCHANGED vars => JudgeInv'
<1> SUFFICES ASSUME Inv, JudgeInv, UNCHANGED vars PROVE JudgeInv'
  OBVIOUS
<1>1. UNCHANGED <<call, stage, response, gates, verdict, noted, next>>
  BY DEF vars
<1>2. Contributions' = Contributions
  BY <1>1 DEF Contributions, FromHarm, AllBlocks, AllExtras, BlocksAdd,
       ExtrasAdd, BlockAdds, ExtraAdds, Counted, ExtraUnsure, ExtraSignal,
       HarmSignal, HarmAnswer
<1> QED BY <1>1, <1>2, SameContributions
        DEF JudgeInv, Unanswered, Gathered, LoopsJudge

LEMMA JudgeInvariance == Spec => [](Inv /\ JudgeInv)
<1>1. Init => Inv /\ JudgeInv
  BY InitInv, InitJudge
<1>2. Inv /\ [Next]_vars => Inv'
  BY StartKeepsInv, EvaluateKeepsInv, CheckKeepsInv, BlocksKeepInv,
     UnsureBlocksKeepInv, ExtrasKeepInv, FinishKeepsInv, StutterKeepsInv
     DEF Next
<1>3. Inv /\ JudgeInv /\ [Next]_vars => JudgeInv'
  BY StartJudges, EvaluateJudges, CheckJudges, BlocksJudge, UnsureBlocksJudge,
     ExtrasJudge, FinishJudges, StutterJudges DEF Next
<1> QED BY <1>1, <1>2, <1>3, PTL DEF Spec

(* gate_uncached, with its loops and early returns, returns what the       *)
(* declarative Judge says: blocks by first match, then the strictest of    *)
(* every contribution, and the closed verdict of a call that could not be  *)
(* encoded or scored.                                                      *)
THEOREM LoopsComputeJudge == Spec => []LoopsJudge
<1>1. JudgeInv => LoopsJudge
  BY DEF JudgeInv
<1> QED BY <1>1, JudgeInvariance, PTL

-----------------------------------------------------------------------------
(* What follows for finished calls.                                        *)

(* A finished call whose verdict bears a signal was answered and no block  *)
(* was unreadable.                                                         *)
LEMMA Scored ==
  ASSUME Inv, JudgeInv, stage = "done", verdict.signal # Unset
  PROVE  /\ CheckInvariants(call.policy)
         /\ call.policy \in Policies /\ call.request \in Requests
         /\ response \in Responses
         /\ CheckResponse(call.request, response.answers)
         /\ JudgeHit(call.policy, call.request, response) \in {"none", "fires"}
         /\ verdict = Judge(call.policy, call.request, call.fail, response)
<1>1. /\ CheckInvariants(call.policy)
      /\ call.policy \in Policies /\ call.request \in Requests
      /\ response \in Responses \cup {NoResponse}
  BY DEF Inv, JudgeInv, Unanswered, TypeOK
<1>2. \A gs, reason : Closed(call.fail, gs, reason).signal = Unset
  BY DEF Closed
<1>3. /\ response # NoResponse
      /\ verdict = Judge(call.policy, call.request, call.fail, response)
  BY <1>2 DEF JudgeInv, LoopsJudge, ClosedOn
<1>4. CheckResponse(call.request, response.answers)
  BY <1>2, <1>3, Judged DEF ClosedOn
<1>5. JudgeHit(call.policy, call.request, response) # "unreadable"
  BY <1>2, <1>3, <1>4, Judged
<1> QED BY <1>1, <1>3, <1>4, <1>5, HitCases

(* The request without its extra questions: the same row, the same blocks, *)
(* fewer contributions.                                                    *)
LEMMA ExtrasTighten ==
  ASSUME Inv, JudgeInv PROVE ExtrasOnlyTighten
<1> SUFFICES ASSUME stage = "done", verdict.signal # Unset
             PROVE  Judge(call.policy, WithoutExtras, call.fail, response).rank
                      <= verdict.rank
  BY DEF ExtrasOnlyTighten
<1> DEFINE policy == call.policy
           all    == call.request
           none   == WithoutExtras
<1>1. /\ all \in GateRequest
      /\ CheckResponse(all, response.answers)
      /\ JudgeHit(policy, all, response) \in {"none", "fires"}
      /\ verdict = Judge(policy, all, call.fail, response)
  BY Scored, RequestAssumption
<1>2. /\ none.action = all.action /\ none.claim = all.claim
      /\ none.body = all.body /\ none.extras = <<>>
  BY <1>1 DEF GateRequest, WithoutExtras
<1> HIDE DEF policy, all, none
<1>3. Range(none.extras) = {}
  BY <1>2 DEF Range
<1>4. CheckResponse(none, response.answers)
  BY <1>1, <1>3 DEF CheckResponse, Asked
<1>5. JudgeGates(policy, none, response) = JudgeGates(policy, all, response)
  BY <1>2 DEF JudgeGates
<1>6. JudgeHit(policy, none, response) = JudgeHit(policy, all, response)
  <2>1. \A block : Fires(policy, none, block, response.answers)
                   = Fires(policy, all, block, response.answers)
    BY <1>2 DEF Fires
  <2> QED BY <1>5, <2>1 DEF JudgeHit, BlockHit
<1>7. JudgeSet(policy, none, response) \subseteq JudgeSet(policy, all, response)
  <2>1. Truncated(none) = Truncated(all)
    BY <1>2 DEF Truncated
  <2>2. \A gs : ExtraVerdicts(policy, none, gs, response.answers) = {}
    BY <1>3 DEF ExtraVerdicts
  <2> QED BY <1>5, <2>1, <2>2 DEF JudgeSet
<1>8. \A v \in JudgeSet(policy, none, response) :
        \E w \in JudgeSet(policy, all, response) : v.rank <= w.rank
  BY <1>7, JudgeSetTyped DEF Rank, HintAuto, HintReview, HintEscalate
<1> QED BY <1>1, <1>4, <1>6, <1>8, JudgeMonotone DEF policy, all, none

(* The relabelled response differs in the label alone.                     *)
LEMMA OnlyTheLabel ==
  ASSUME response \in Responses, HarmId \in DOMAIN response.answers,
         NEW label \in HarmClass
  PROVE  LET old == response.answers
             new == Relabelled(label).answers
         IN  /\ DOMAIN new = DOMAIN old
             /\ new[HarmId].label = label
             /\ \A id \in DOMAIN old :
                  /\ new[id].kind = old[id].kind
                  /\ new[id].confidence = old[id].confidence
                  /\ new[id].top_prob = old[id].top_prob
                  /\ new[id].margin = old[id].margin
                  /\ new[id].label \in {label, old[id].label}
<1> DEFINE old == response.answers
           new == Relabelled(label).answers
           harm == [old[HarmId] EXCEPT !.label = label]
<1>1. new = [old EXCEPT ![HarmId] = harm]
  <2> DEFINE edited == [old EXCEPT ![HarmId] = harm]
  <2>1. "answers" \in DOMAIN response
    BY ResponseAssumption
  <2>2. Relabelled(label) = [response EXCEPT !.answers = edited]
    BY DEF Relabelled, HarmAnswer
  <2> HIDE DEF edited
  <2>3. Relabelled(label).answers = edited
    BY <2>1, <2>2
  <2> QED BY <2>3 DEF edited
<1>2. old \in [DOMAIN old -> Answer]
  BY ResponseAssumption
<1>3. /\ harm.kind = old[HarmId].kind
      /\ harm.confidence = old[HarmId].confidence
      /\ harm.top_prob = old[HarmId].top_prob
      /\ harm.margin = old[HarmId].margin
      /\ harm.label = label
  <2>1. old[HarmId] \in Answer
    BY <1>2
  <2> QED BY <2>1 DEF Answer
<1> HIDE DEF harm, new, old
<1>4. /\ DOMAIN new = DOMAIN old
      /\ new[HarmId] = harm
      /\ \A id \in DOMAIN old : id # HarmId => new[id] = old[id]
  BY <1>1, <1>2 DEF old
<1> QED BY <1>3, <1>4 DEF new, old

LEMMA WorseTightens ==
  ASSUME Inv, JudgeInv PROVE WorseLabelNeverLoosens
<1> SUFFICES ASSUME stage = "done", verdict.signal # Unset,
                    HarmAnswer.label
                      >= Row(call.policy, call.request.action).class,
                    NEW label \in HarmClass, label >= HarmAnswer.label
             PROVE  Judge(call.policy, call.request, call.fail,
                          Relabelled(label)).rank >= verdict.rank
  BY DEF WorseLabelNeverLoosens
<1> DEFINE policy  == call.policy
           request == call.request
           r       == response
           worse   == Relabelled(label)
           g       == JudgeGates(policy, request, r)
           h       == JudgeGates(policy, request, worse)
<1>1. /\ policy \in Policies /\ r \in Responses
      /\ CheckResponse(request, r.answers)
      /\ JudgeHit(policy, request, r) \in {"none", "fires"}
      /\ verdict = Judge(policy, request, call.fail, r)
  BY Scored
<1>2. [id |-> HarmId, kind |-> "choice"] \in Asked(request)
  BY DEF Asked, BatteryQuestions
<1>3. HarmId \in DOMAIN r.answers /\ r.answers[HarmId].label \in HarmClass
  BY <1>1, <1>2 DEF CheckResponse, Answered
<1>4. /\ DOMAIN worse.answers = DOMAIN r.answers
      /\ worse.answers[HarmId].label = label
      /\ \A id \in DOMAIN r.answers :
           /\ worse.answers[id].kind = r.answers[id].kind
           /\ worse.answers[id].confidence = r.answers[id].confidence
           /\ worse.answers[id].top_prob = r.answers[id].top_prob
           /\ worse.answers[id].margin = r.answers[id].margin
           /\ worse.answers[id].label \in {label, r.answers[id].label}
  BY <1>1, <1>3, OnlyTheLabel
<1>5. /\ h.escalate_below = g.escalate_below /\ h.review = g.review
      /\ h.when_unsure = g.when_unsure /\ h.block_on = g.block_on
      /\ h.auto \in {Unset, g.auto}
  BY <1>1, <1>3, <1>4, WorseGates DEF JudgeGates, HarmAnswer
<1> HIDE DEF policy, request, r, worse, g, h
<1>6. /\ \A s : VerdictFromSignal(s, g).rank <= VerdictFromSignal(s, h).rank
      /\ \A reason : WhenUnsureBump(g, reason) = WhenUnsureBump(h, reason)
  BY <1>5, FewerAutos
<1>7. CheckResponse(request, worse.answers)
  BY <1>1, <1>4 DEF CheckResponse, Answered
<1>8. \A id \in DOMAIN r.answers :
        Signal(policy, worse.answers[id]) = Signal(policy, r.answers[id])
  BY <1>4 DEF Signal
<1>9. JudgeHit(policy, request, worse) = JudgeHit(policy, request, r)
  <2>1. \A id : IsNoul(worse.answers, id) = IsNoul(r.answers, id)
    BY <1>4 DEF IsNoul
  <2>2. \A block : IsNoul(r.answers, block.id) =>
          Fires(policy, request, block, worse.answers)
            = Fires(policy, request, block, r.answers)
    BY <1>4 DEF IsNoul, Fires
  <2> QED BY <1>5, <2>1, <2>2 DEF JudgeHit, BlockHit, g, h
<1>10. ASSUME JudgeHit(policy, request, r) = "none",
              NEW v \in JudgeSet(policy, request, r)
       PROVE  \E w \in JudgeSet(policy, request, worse) : v.rank <= w.rank
  <2>1. v.rank <= v.rank
    BY JudgeSetTyped DEF Rank, HintAuto, HintReview, HintEscalate
  <2>2. CASE v = VerdictFromSignal(Signal(policy, r.answers[HarmId]), g)
    <3>1. VerdictFromSignal(Signal(policy, worse.answers[HarmId]), h)
            \in JudgeSet(policy, request, worse)
      BY DEF JudgeSet, h
    <3> QED BY <1>3, <1>6, <1>8, <2>2, <3>1
  <2>3. CASE v \in UnsureBlocks(policy, g, r.answers)
    <3>1. PICK i \in DOMAIN g.block_on :
            /\ v = WhenUnsureBump(g, "battery")
            /\ g.block_on[i].when # "unsure"
            /\ Decide(policy, g.block_on[i],
                      r.answers[g.block_on[i].id].confidence) = "unsure"
      BY <2>3 DEF UnsureBlocks
    <3>2. IsNoul(r.answers, g.block_on[i].id)
      BY <1>10 DEF JudgeHit, BlockHit, g
    <3>3. worse.answers[g.block_on[i].id].confidence
            = r.answers[g.block_on[i].id].confidence
      BY <1>4, <3>2 DEF IsNoul
    <3>4. v \in UnsureBlocks(policy, h, worse.answers)
      BY <1>5, <1>6, <3>1, <3>3 DEF UnsureBlocks
    <3>5. v \in JudgeSet(policy, request, worse)
      BY <3>4 DEF JudgeSet, h
    <3> QED BY <2>1, <3>5
  <2>4. CASE v \in ExtraVerdicts(policy, request, g, r.answers)
    <3> DEFINE blocked == {g.block_on[i].id : i \in DOMAIN g.block_on}
    <3>1. PICK q \in Range(request.extras) :
            /\ q.id \notin blocked
            /\ \/ /\ q.kind # "noul"
                  /\ v = VerdictFromSignal(Signal(policy, r.answers[q.id]), g)
               \/ /\ q.kind = "noul"
                  /\ Decide(policy, NoBlock, r.answers[q.id].confidence)
                       = "unsure"
                  /\ v = WhenUnsureBump(g, "noul_band")
      BY <2>4 DEF ExtraVerdicts
    <3>2. q.id \in DOMAIN r.answers
      BY <1>1 DEF CheckResponse, Answered, Asked
    <3>3. h.block_on = g.block_on
      BY <1>5
    <3>4. CASE q.kind # "noul"
      <4> DEFINE w == VerdictFromSignal(Signal(policy, worse.answers[q.id]), h)
      <4>1. w \in ExtraVerdicts(policy, request, h, worse.answers)
        BY <3>1, <3>3, <3>4 DEF ExtraVerdicts
      <4>2. w \in JudgeSet(policy, request, worse)
        BY <4>1 DEF JudgeSet, h
      <4>3. v.rank <= w.rank
        BY <1>6, <1>8, <3>1, <3>2, <3>4
      <4> QED BY <4>2, <4>3
    <3>5. CASE q.kind = "noul"
      <4>1. worse.answers[q.id].confidence = r.answers[q.id].confidence
        BY <1>4, <3>2
      <4>2. v \in ExtraVerdicts(policy, request, h, worse.answers)
        BY <1>6, <3>1, <3>3, <3>5, <4>1 DEF ExtraVerdicts
      <4>3. v \in JudgeSet(policy, request, worse)
        BY <4>2 DEF JudgeSet, h
      <4> QED BY <2>1, <4>3
    <3> QED BY <3>4, <3>5
  <2>5. CASE Truncated(request) /\ v = WhenUnsureBump(g, "truncated")
    <3>1. v \in JudgeSet(policy, request, worse)
      BY <1>6, <2>5 DEF JudgeSet, h
    <3> QED BY <2>1, <3>1
  <2> QED BY <2>2, <2>3, <2>4, <2>5 DEF JudgeSet, g
<1>11. Judge(policy, request, call.fail, r).rank
         <= Judge(policy, request, call.fail, worse).rank
  BY <1>1, <1>7, <1>9, <1>10, JudgeMonotone
<1> QED BY <1>1, <1>11 DEF policy, request, worse

(* Had the scorer named a worse harm label, from the row's own class up,   *)
(* every other answer the same, the verdict could not have been milder.    *)
THEOREM WorseNeverLoosens == Spec => []WorseLabelNeverLoosens
<1>1. Inv /\ JudgeInv => WorseLabelNeverLoosens
  BY WorseTightens
<1> QED BY <1>1, JudgeInvariance, PTL

(* An extra question can object, it cannot grant: without the extra        *)
(* questions the call would not have been judged stricter.                 *)
THEOREM ExtrasNeverGrant == Spec => []ExtrasOnlyTighten
<1>1. Inv /\ JudgeInv => ExtrasOnlyTighten
  BY ExtrasTighten
<1> QED BY <1>1, JudgeInvariance, PTL

=============================================================================
