--------------------------- MODULE CascadeProofs ---------------------------
(***************************************************************************)
(* Who answered what: Cascaded::evaluate marks its answers truthfully, for *)
(* any questions, any forced ones, any answers of the two hops, and        *)
(* however often the key is rotated meanwhile.                             *)
(***************************************************************************)
EXTENDS Cascade, TLAPS

(* What is true of a result; `missed' says that the fallback was called    *)
(* and failed.                                                             *)
Truthful(res, missed) ==
  /\ res.status \in {"pending", "ok", "error"}
  /\ \A id \in forced \cap DOMAIN res.answers :
       res.answers[id].from = "fallback"
  /\ \A id \in DOMAIN res.answers :
       res.answers[id].is = "unsure" => res.hop[id] = "fallback" \/ missed
  /\ res.status = "ok" =>
       /\ res.first_hop_error <=> ~first.ok
       /\ \A id \in DOMAIN res.answers :
            /\ ~first.ok => res.answers[id].from = "fallback"
            /\ res.hop[id] = "first" => res.answers[id].from = "first"
  /\ (res.status = "ok" /\ first.ok) =>
       \A id \in DOMAIN first.answers \ forced :
         first.answers[id] = "sure" =>
           /\ id \in DOMAIN res.answers
           /\ res.answers[id] = [is |-> "sure", from |-> "first"]
           /\ res.hop[id] = "first"

(* The inductive invariant.                                                *)
Shapes ==
  /\ now \in 0 .. MaxTime
  /\ stage \in {"start", "first", "choose", "second", "done"}
  /\ firstDeadline \in 0 .. Deadline
  /\ first \in {HopError} \cup HopAnswers
  /\ fallback \in {HopError} \cup HopAnswers
  /\ forced \subseteq Questions
  /\ DOMAIN called = Hops
  /\ \A hop \in Hops : called[hop].at \in {-1} \cup 0 .. MaxTime
  /\ rotating \in [Rotators -> {"idle", "first", "second", "rollback"}]

Answered ==
  /\ stage # "done" => result = Pending
  /\ stage = "second" => called["fallback"].at >= 0
  /\ Truthful(result, called["fallback"].at >= 0 /\ ~fallback.ok)

Inv == Shapes /\ Answered

-----------------------------------------------------------------------------
LEMMA HopAnswersTyped ==
  ASSUME NEW hop \in {HopError} \cup HopAnswers, hop.ok
  PROVE  /\ DOMAIN hop.answers \subseteq Questions
         /\ \A id \in DOMAIN hop.answers : hop.answers[id] \in {"sure", "unsure"}
<1>1. PICK ids \in SUBSET Questions :
        \E answers \in [ids -> {"sure", "unsure"}] :
          hop = [ok |-> TRUE, answers |-> answers]
  BY DEF HopAnswers, HopError
<1> QED BY <1>1

(* A failed evaluation has no answers, so nothing false in them.           *)
LEMMA FailureIsTruthful ==
  ASSUME NEW missed
  PROVE  Truthful(Failed, missed) /\ Truthful(Pending, missed)
<1>1. /\ DOMAIN Failed.answers = {} /\ Failed.status = "error"
      /\ DOMAIN Pending.answers = {} /\ Pending.status = "pending"
  BY DEF Failed, Pending
<1> QED BY <1>1 DEF Truthful

(* Kept answers of the first hop are sure and not forced.                  *)
LEMMA KeptIsTruthful ==
  ASSUME NEW missed, forced \subseteq Questions,
         first \in {HopError} \cup HopAnswers, first.ok,
         Retry = {} \/ (missed /\ Retry \cap forced = {})
  PROVE  Truthful(Marked(first.answers, "first", FALSE), missed)
<1> DEFINE res == Marked(first.answers, "first", FALSE)
<1>1. /\ res.status = "ok" /\ ~res.first_hop_error
      /\ DOMAIN res.answers = DOMAIN first.answers
      /\ \A id \in DOMAIN first.answers :
           /\ res.answers[id] = [is |-> first.answers[id], from |-> "first"]
           /\ res.hop[id] = "first"
  BY DEF Marked
<1>2. forced = {}
  BY DEF Retry
<1>3. \A id \in DOMAIN first.answers : first.answers[id] = "unsure" => missed
  BY HopAnswersTyped DEF Retry
<1> HIDE DEF res
<1>4. \A id \in DOMAIN res.answers :
        /\ res.answers[id].is = "unsure" => missed
        /\ res.answers[id].from = "first"
  <2> SUFFICES ASSUME NEW id \in DOMAIN res.answers
               PROVE  /\ res.answers[id].is = "unsure" => missed
                      /\ res.answers[id].from = "first"
    OBVIOUS
  <2>1. /\ id \in DOMAIN first.answers
        /\ res.answers[id] = [is |-> first.answers[id], from |-> "first"]
    BY <1>1
  <2>2. /\ res.answers[id].is = first.answers[id]
        /\ res.answers[id].from = "first"
    BY <2>1
  <2> QED BY <1>3, <2>1, <2>2
<1>5. \A id \in DOMAIN first.answers :
        first.answers[id] = "sure" =>
          /\ id \in DOMAIN res.answers
          /\ res.answers[id] = [is |-> "sure", from |-> "first"]
          /\ res.hop[id] = "first"
  BY <1>1
<1>6. res.status = "ok" /\ ~res.first_hop_error
  BY <1>1
<1>7. Truthful(res, missed)
  BY <1>2, <1>4, <1>5, <1>6 DEF Truthful
<1> QED BY <1>7 DEF res

(* After a failed first hop everything is the fallback's.                  *)
LEMMA FallbackIsTruthful ==
  ASSUME NEW missed, NEW hop, ~first.ok
  PROVE  Truthful(Marked(hop.answers, "fallback", TRUE), missed)
<1> DEFINE res == Marked(hop.answers, "fallback", TRUE)
<1>1. /\ res.status = "ok" /\ res.first_hop_error
      /\ DOMAIN res.answers = DOMAIN hop.answers
      /\ \A id \in DOMAIN hop.answers :
           /\ res.answers[id].is = hop.answers[id]
           /\ res.answers[id].from = "fallback"
           /\ res.hop[id] = "fallback"
  BY DEF Marked
<1> HIDE DEF res
<1>2. Truthful(res, missed)
  BY <1>1 DEF Truthful
<1> QED BY <1>2 DEF res

(* merge takes every forced question, and every unsure answer is marked.   *)
LEMMA MergeIsTruthful ==
  ASSUME NEW missed, forced \subseteq Questions,
         first \in {HopError} \cup HopAnswers, first.ok,
         NEW hop \in {HopError} \cup HopAnswers, hop.ok,
         ~ForcedGap(hop.answers)
  PROVE  Truthful(Merge(hop.answers), missed)
<1> DEFINE res == Merge(hop.answers)
           taken == Retry \cap DOMAIN hop.answers
<1>1. /\ res.status = "ok" /\ ~res.first_hop_error
      /\ DOMAIN res.answers = DOMAIN first.answers \cup taken
      /\ \A id \in DOMAIN first.answers \cup taken :
           /\ res.hop[id] = IF id \in Retry THEN "fallback" ELSE "first"
           /\ id \in taken => res.answers[id].from = "fallback"
           /\ id \notin taken =>
                res.answers[id] = [is |-> first.answers[id], from |-> "first"]
  BY DEF Merge
<1>2. \A id \in forced : id \in Retry
  BY DEF Retry
<1>3. \A id \in forced : id \in taken
  BY <1>2 DEF ForcedGap
<1>4. \A id \in DOMAIN first.answers \ Retry : first.answers[id] = "sure"
  BY HopAnswersTyped DEF Retry
<1> HIDE DEF res
<1>5. ASSUME NEW id \in DOMAIN res.answers
      PROVE  /\ id \in forced => res.answers[id].from = "fallback"
             /\ id \in Retry => res.hop[id] = "fallback"
             /\ id \notin Retry =>
                  /\ res.hop[id] = "first"
                  /\ res.answers[id].is = "sure"
                  /\ res.answers[id].from = "first"
  <2>1. id \in forced => res.answers[id].from = "fallback"
    BY <1>1, <1>3
  <2>2. id \in Retry => res.hop[id] = "fallback"
    BY <1>1
  <2>3. ASSUME id \notin Retry
        PROVE  /\ res.hop[id] = "first"
               /\ res.answers[id].is = "sure"
               /\ res.answers[id].from = "first"
    <3>1. id \in DOMAIN first.answers \ Retry /\ id \notin taken
      BY <1>1, <2>3
    <3>2. first.answers[id] = "sure"
      BY <1>4, <3>1
    <3>3. /\ res.hop[id] = "first"
          /\ res.answers[id] = [is |-> "sure", from |-> "first"]
      BY <1>1, <2>3, <3>1, <3>2
    <3> QED BY <3>3
  <2> QED BY <2>1, <2>2, <2>3
<1>6. ASSUME NEW id \in DOMAIN first.answers \ forced,
             first.answers[id] = "sure"
      PROVE  /\ id \in DOMAIN res.answers
             /\ res.answers[id] = [is |-> "sure", from |-> "first"]
             /\ res.hop[id] = "first"
  <2>1. id \notin Retry /\ id \notin taken /\ id \in DOMAIN res.answers
    BY <1>1, <1>6 DEF Retry
  <2> QED BY <1>1, <1>6, <2>1
<1>7. \A id \in DOMAIN res.answers :
        /\ id \in forced => res.answers[id].from = "fallback"
        /\ res.answers[id].is = "unsure" => res.hop[id] = "fallback"
        /\ res.hop[id] = "first" => res.answers[id].from = "first"
  BY <1>5
<1> HIDE DEF taken
<1>8. Truthful(res, missed)
  BY <1>1, <1>6, <1>7 DEF Truthful
<1> QED BY <1>8 DEF res

LEMMA OutcomeIsTruthful ==
  ASSUME Inv, NEW hop \in {HopError} \cup HopAnswers
  PROVE  Truthful(Outcome(hop), ~hop.ok)
<1>2. CASE ~first.ok /\ ~hop.ok
  BY <1>2, FailureIsTruthful DEF Outcome
<1>3. CASE ~first.ok /\ hop.ok
  <2>1. Outcome(hop) = Marked(hop.answers, "fallback", TRUE)
    BY <1>3 DEF Outcome
  <2> QED BY <1>3, <2>1, FallbackIsTruthful
<1>4. CASE first.ok /\ ~hop.ok
  <2>1. CASE Retry \cap forced # {}
    BY <1>4, <2>1, FailureIsTruthful DEF Outcome
  <2>2. CASE Retry \cap forced = {}
    <3>1. Outcome(hop) = Marked(first.answers, "first", FALSE)
      BY <1>4, <2>2 DEF Outcome
    <3>2. Truthful(Marked(first.answers, "first", FALSE), ~hop.ok)
      BY <1>4, <2>2, KeptIsTruthful DEF Inv, Shapes
    <3> QED BY <3>1, <3>2
  <2> QED BY <2>1, <2>2
<1>5. CASE first.ok /\ hop.ok
  <2>1. CASE ForcedGap(hop.answers)
    BY <1>5, <2>1, FailureIsTruthful DEF Outcome
  <2>2. CASE ~ForcedGap(hop.answers)
    <3>1. Outcome(hop) = Merge(hop.answers)
      BY <1>5, <2>2 DEF Outcome
    <3> QED BY <1>5, <2>2, <3>1, MergeIsTruthful DEF Inv, Shapes
  <2> QED BY <2>1, <2>2
<1> QED BY <1>2, <1>3, <1>4, <1>5

-----------------------------------------------------------------------------
LEMMA InitInv == Init => Inv
<1> SUFFICES ASSUME Init PROVE Inv
  OBVIOUS
<1>1. Shapes
  BY ForcedAssumption, TimesAssumption DEF Init, Shapes, NotCalled, Hops
<1>2. Answered
  BY FailureIsTruthful DEF Init, Answered
<1> QED BY <1>1, <1>2 DEF Inv

(* While nothing has come back, nothing false has been said.               *)
LEMMA PendingIsTruthful ==
  ASSUME result' = Pending,
         stage' = "second" => called'["fallback"].at >= 0
  PROVE  Answered'
<1>1. DOMAIN Pending.answers = {} /\ Pending.status = "pending"
  BY DEF Pending
<1>2. DOMAIN result'.answers = {} /\ result'.status = "pending"
  BY <1>1
<1> HIDE DEF Pending
<1> QED BY <1>2 DEF Answered, Truthful

(* The first call: its budget is cut to first_timeout and to the deadline. *)
LEMMA CallFirstKeepsInv ==
  ASSUME Inv, CallFirst
  PROVE  Inv'
<1>1. /\ called' = [called EXCEPT !["first"] = [at |-> now, key |-> keys["first"]]]
      /\ firstDeadline' \in 0 .. Deadline
  BY TimesAssumption DEF CallFirst, Calls, Inv, Shapes
<1>2. called'["first"].at = now /\ called'["fallback"] = called["fallback"]
  BY <1>1 DEF Inv, Shapes, Hops
<1>3. Shapes'
  BY <1>1, <1>2 DEF CallFirst, Inv, Shapes, Hops, rotation
<1>4. Answered'
  BY <1>2 DEF CallFirst, Inv, Answered, Truthful
<1> QED BY <1>3, <1>4 DEF Inv

LEMMA FirstReturnsKeepsInv ==
  ASSUME Inv, FirstReturns
  PROVE  Inv'
<1>1. first' \in {HopError} \cup HopAnswers
  BY DEF FirstReturns
<1>2. Shapes'
  BY <1>1 DEF FirstReturns, Inv, Shapes, Hops, rotation, HopAnswers, HopError
<1>3. Answered'
  <2>1. result' = Pending /\ stage' = "choose"
    BY DEF FirstReturns, Inv, Answered
  <2> QED BY <2>1, PendingIsTruthful
<1> QED BY <1>2, <1>3 DEF Inv

(* The ends of the evaluation before the fallback is called.               *)
LEMMA EarlyEndsKeepInv ==
  ASSUME Inv, TooLate \/ KeepFirst
  PROVE  Inv'
<1>1. Truthful(result', called["fallback"].at >= 0 /\ ~fallback.ok)
  <2>1. CASE TooLate
    BY <2>1, FailureIsTruthful DEF TooLate
  <2>2. CASE KeepFirst
    BY <2>2, KeptIsTruthful DEF KeepFirst, Inv, Shapes
  <2> QED BY <2>1, <2>2
<1>2. UNCHANGED <<now, forced, firstDeadline, first, fallback, called,
                  rotation>>
      /\ stage' = "done"
  BY DEF TooLate, KeepFirst
<1>3. Shapes'
  BY <1>2 DEF Inv, Shapes, rotation, HopAnswers, HopError, Hops
<1>4. Answered'
  BY <1>1, <1>2 DEF Answered, Truthful
<1> QED BY <1>3, <1>4 DEF Inv

LEMMA CallFallbackKeepsInv ==
  ASSUME Inv, CallFallback
  PROVE  Inv'
<1>1. called' = [called EXCEPT !["fallback"] =
                   [at |-> now, key |-> keys["fallback"]]]
  BY DEF CallFallback, Calls
<1>2. called'["fallback"].at = now /\ called'["first"] = called["first"]
  BY <1>1 DEF Inv, Shapes, Hops
<1>3. Shapes'
  BY <1>1, <1>2
     DEF CallFallback, Inv, Shapes, Hops, rotation, HopAnswers, HopError
<1>4. result' = Pending /\ stage' = "second" /\ now \in Nat
  BY TimesAssumption DEF CallFallback, Inv, Answered, Shapes
<1>5. Answered'
  <2>1. called'["fallback"].at >= 0
    BY <1>2, <1>4
  <2> QED BY <1>4, <2>1, PendingIsTruthful
<1> QED BY <1>3, <1>5 DEF Inv

LEMMA FallbackReturnsKeepsInv ==
  ASSUME Inv, FallbackReturns
  PROVE  Inv'
<1>1. PICK hop \in {HopError} \cup HopAnswers :
        fallback' = hop /\ result' = Outcome(hop)
  BY DEF FallbackReturns
<1>2. /\ Truthful(Outcome(hop), ~hop.ok)
      /\ called["fallback"].at >= 0
  BY <1>1, OutcomeIsTruthful DEF FallbackReturns, Inv, Answered
<1>3. Shapes'
  BY <1>1 DEF FallbackReturns, Inv, Shapes, Hops, rotation, HopAnswers, HopError
<1>4. Answered'
  BY <1>1, <1>2 DEF FallbackReturns, Answered, Truthful
<1> QED BY <1>3, <1>4 DEF Inv

(* Rotations and the clock leave the evaluation alone.                     *)
LEMMA OthersKeepInv ==
  ASSUME Inv, Tick \/ UNCHANGED vars \/ \E r \in Rotators : Rotate(r)
  PROVE  Inv'
<1>1. UNCHANGED evaluation
  BY DEF Tick, vars, Rotate, StartRotation, SwapFirst, SwapFallback, Rollback
<1>2. now' \in 0 .. MaxTime
  <2>1. CASE Tick
    BY <2>1, TimesAssumption DEF Tick, Inv, Shapes
  <2>2. CASE ~Tick
    BY <2>2 DEF vars, Rotate, StartRotation, SwapFirst, SwapFallback, Rollback,
                Inv, Shapes
  <2> QED BY <2>1, <2>2
<1>3. rotating' \in [Rotators -> {"idle", "first", "second", "rollback"}]
  <2>1. CASE UNCHANGED rotation
    BY <2>1 DEF rotation, Inv, Shapes
  <2>2. ASSUME NEW r \in Rotators, Rotate(r)
        PROVE  \/ rotating' = rotating
               \/ \E to \in {"idle", "first", "second", "rollback"} :
                    rotating' = [rotating EXCEPT ![r] = to]
    <3>1. CASE StartRotation(r)
      BY <3>1 DEF StartRotation
    <3>2. CASE SwapFirst(r)
      BY <3>2 DEF SwapFirst
    <3>3. CASE SwapFallback(r)
      BY <3>3 DEF SwapFallback
    <3>4. CASE Rollback(r)
      BY <3>4 DEF Rollback
    <3> QED BY <2>2, <3>1, <3>2, <3>3, <3>4 DEF Rotate
  <2>3. CASE \E r \in Rotators : Rotate(r)
    BY <2>2, <2>3 DEF Inv, Shapes
  <2> QED BY <2>1, <2>3 DEF Tick, vars
<1>4. Shapes'
  BY <1>1, <1>2, <1>3
     DEF evaluation, Inv, Shapes, Hops, HopAnswers, HopError
<1>5. Answered'
  BY <1>1 DEF evaluation, Inv, Answered, Truthful
<1> QED BY <1>4, <1>5 DEF Inv

-----------------------------------------------------------------------------
(* The invariant holds whatever the hops answer and the host rotates.      *)
THEOREM Invariance == Spec => []Inv
<1>1. Inv /\ [Next]_vars => Inv'
  BY CallFirstKeepsInv, FirstReturnsKeepsInv, EarlyEndsKeepInv,
     CallFallbackKeepsInv, FallbackReturnsKeepsInv, OthersKeepInv
     DEF Next, Evaluate
<1> QED BY <1>1, InitInv, PTL DEF Spec

(* The variables keep their types.                                         *)
THEOREM TypeCorrect == Spec => []TypeOK
<1>1. Inv => TypeOK
  BY DEF Inv, Shapes, Answered, Truthful, TypeOK
<1> QED BY <1>1, Invariance, PTL

(* The questions of always_fallback are answered by the fallback or not at *)
(* all.                                                                    *)
THEOREM ForcedAnswered == Spec => []ForcedFromFallback
<1>1. Inv => ForcedFromFallback
  BY DEF Inv, Answered, Truthful, ForcedFromFallback
<1> QED BY <1>1, Invariance, PTL

(* No unsure answer leaves the cascade unmarked, unless the fallback was   *)
(* asked and failed.                                                       *)
THEOREM UnsureFlagged == Spec => []UnsureIsFlagged
<1>1. Inv => UnsureIsFlagged
  BY DEF Inv, Answered, Truthful, UnsureIsFlagged
<1> QED BY <1>1, Invariance, PTL

(* first_hop_error and the hop marks tell what happened.                   *)
THEOREM MarksTrue == Spec => []MarksAreTrue
<1>1. Inv => MarksAreTrue
  BY DEF Inv, Answered, Truthful, MarksAreTrue
<1> QED BY <1>1, Invariance, PTL

(* merge keeps what the first hop answered surely, whatever the fallback   *)
(* answers and whether it was asked for it.                                *)
THEOREM SureStay == Spec => []SureAnswersStay
<1>1. Inv => SureAnswersStay
  BY DEF Inv, Answered, Truthful, SureAnswersStay
<1> QED BY <1>1, Invariance, PTL

-----------------------------------------------------------------------------
(* Rotations that come one after the other.  The invariant says what a     *)
(* rotation under way knows: the key that was accepted last is still at    *)
(* the fallback and, until the first swap and in `previous' behind it, was *)
(* at the first hop.                                                       *)
OneRotator == \A r, s \in Rotators : r = s

RotationShapes ==
  /\ rotating \in [Rotators -> {"idle", "first", "second", "rollback"}]
  /\ keys = [hop \in Hops |-> keys[hop]]
  /\ key = [r \in Rotators |-> key[r]]
  /\ previous = [r \in Rotators |-> previous[r]]
  /\ accepted \in BOOLEAN
  /\ accepted => Accepts("fallback", keys["fallback"]) /\ Rotators # {}

Agreed(r) ==
  /\ rotating[r] = "second" => keys["first"] = key[r]
  /\ accepted =>
       IF rotating[r] \in {"idle", "first"} THEN keys["first"] = keys["fallback"]
       ELSE previous[r] = keys["fallback"]

RotationInv == RotationShapes /\ \A r \in Rotators : Agreed(r)

LEMMA RotationInit == Init => RotationInv
<1> SUFFICES ASSUME Init PROVE RotationInv
  OBVIOUS
<1>1. key = [r \in Rotators |-> key[r]]
  BY DEF Init
<1>2. /\ keys = [hop \in Hops |-> keys[hop]]
      /\ previous = [r \in Rotators |-> previous[r]]
      /\ rotating \in [Rotators -> {"idle", "first", "second", "rollback"}]
  BY DEF Init
<1>3. accepted = FALSE /\ \A r \in Rotators : rotating[r] = "idle"
  BY DEF Init
<1> QED BY <1>1, <1>2, <1>3 DEF RotationInv, RotationShapes, Agreed

(* A key the fallback takes is one the first hop takes, so a refused       *)
(* rotation does put back what was accepted before.                        *)
LEMMA RotateKeepsRotationInv ==
  ASSUME OneRotator, RotationInv, NEW r \in Rotators, Rotate(r)
  PROVE  RotationInv'
<1>1. /\ RotationShapes /\ Agreed(r)
      /\ "first" \in Hops /\ "fallback" \in Hops /\ "first" # "fallback"
  BY DEF RotationInv, Hops
<1>2. ASSUME RotationShapes', Agreed(r)' PROVE RotationInv'
  BY <1>2 DEF OneRotator, RotationInv
<1>3. CASE StartRotation(r)
  <2>1. /\ rotating[r] = "idle"
        /\ \E k \in NewKeys : key' = [key EXCEPT ![r] = k]
        /\ rotating' = [rotating EXCEPT ![r] = "first"]
        /\ UNCHANGED <<keys, previous, accepted>>
    BY <1>3 DEF StartRotation
  <2>2. RotationShapes'
    BY <1>1, <2>1 DEF RotationShapes, Accepts
  <2>3. Agreed(r)'
    BY <1>1, <2>1 DEF RotationShapes, Agreed
  <2> QED BY <1>2, <2>2, <2>3
<1>4. CASE SwapFirst(r) /\ Accepts("first", key[r])
  <2>1. /\ rotating[r] = "first"
        /\ previous' = [previous EXCEPT ![r] = keys["first"]]
        /\ keys' = [keys EXCEPT !["first"] = key[r]]
        /\ rotating' = [rotating EXCEPT ![r] = "second"]
        /\ UNCHANGED <<key, accepted>>
    BY <1>4 DEF SwapFirst
  <2>2. RotationShapes'
    BY <1>1, <2>1 DEF RotationShapes, Accepts
  <2>3. Agreed(r)'
    BY <1>1, <2>1 DEF RotationShapes, Agreed
  <2> QED BY <1>2, <2>2, <2>3
<1>5. CASE SwapFirst(r) /\ ~Accepts("first", key[r])
  <2>1. /\ rotating[r] = "first"
        /\ rotating' = [rotating EXCEPT ![r] = "idle"]
        /\ UNCHANGED <<keys, previous, key, accepted>>
    BY <1>5 DEF SwapFirst
  <2>2. RotationShapes' /\ Agreed(r)'
    BY <1>1, <2>1 DEF RotationShapes, Agreed, Accepts
  <2> QED BY <1>2, <2>2
<1>6. CASE SwapFallback(r) /\ Accepts("fallback", key[r])
  <2>1. /\ rotating[r] = "second"
        /\ keys' = [keys EXCEPT !["fallback"] = key[r]]
        /\ rotating' = [rotating EXCEPT ![r] = "idle"]
        /\ accepted' = TRUE
        /\ UNCHANGED <<key, previous>>
    BY <1>6 DEF SwapFallback
  <2>2. RotationShapes'
    BY <1>1, <1>6, <2>1 DEF RotationShapes, Accepts
  <2>3. Agreed(r)'
    BY <1>1, <2>1 DEF RotationShapes, Agreed
  <2> QED BY <1>2, <2>2, <2>3
<1>7. CASE SwapFallback(r) /\ ~Accepts("fallback", key[r])
  <2>1. /\ rotating[r] = "second"
        /\ rotating' = [rotating EXCEPT ![r] = "rollback"]
        /\ UNCHANGED <<keys, previous, key, accepted>>
    BY <1>7 DEF SwapFallback
  <2>2. RotationShapes' /\ Agreed(r)'
    BY <1>1, <2>1 DEF RotationShapes, Agreed, Accepts
  <2> QED BY <1>2, <2>2
<1>8. CASE Rollback(r)
  <2>1. /\ rotating[r] = "rollback"
        /\ keys' = [keys EXCEPT !["first"] =
                      IF Accepts("first", previous[r]) THEN previous[r]
                      ELSE keys["first"]]
        /\ rotating' = [rotating EXCEPT ![r] = "idle"]
        /\ UNCHANGED <<key, previous, accepted>>
    BY <1>8 DEF Rollback
  <2>2. RotationShapes'
    BY <1>1, <2>1 DEF RotationShapes, Accepts
  <2>3. accepted => Accepts("first", previous[r]) /\ previous[r] = keys["fallback"]
    BY <1>1, <2>1 DEF RotationShapes, Agreed, Accepts
  <2>4. /\ rotating'[r] = "idle" /\ keys'["fallback"] = keys["fallback"]
        /\ accepted => keys'["first"] = keys["fallback"]
    BY <1>1, <2>1, <2>3 DEF RotationShapes
  <2>5. Agreed(r)'
    BY <2>1, <2>4 DEF Agreed
  <2> QED BY <1>2, <2>2, <2>5
<1> QED BY <1>3, <1>4, <1>5, <1>6, <1>7, <1>8 DEF Rotate

(* Rotations one after the other, whatever keys they are given and whoever *)
(* refuses them, leave the key of the last accepted one at both hops (the  *)
(* comment of replace_api_key in backend.rs).                              *)
THEOREM OneRotatorAgrees == OneRotator => (Spec => []RotatedKeysAgree)
<1> SUFFICES ASSUME OneRotator PROVE Spec => []RotatedKeysAgree
  OBVIOUS
<1>1. RotationInv /\ [Next]_vars => RotationInv'
  <2>1. ASSUME RotationInv, UNCHANGED rotation PROVE RotationInv'
    BY <2>1 DEF rotation, RotationInv, RotationShapes, Agreed
  <2>2. Evaluate => UNCHANGED rotation
    BY DEF Evaluate, CallFirst, TooLate, FirstReturns, KeepFirst, CallFallback,
           FallbackReturns
  <2>3. Tick \/ UNCHANGED vars => UNCHANGED rotation
    BY DEF Tick, vars
  <2> QED BY <2>1, <2>2, <2>3, RotateKeepsRotationInv DEF Next
<1>2. RotationInv => RotatedKeysAgree
  BY DEF RotationInv, RotationShapes, Agreed, RotatedKeysAgree
<1> QED BY <1>1, <1>2, RotationInit, PTL DEF Spec

=============================================================================
