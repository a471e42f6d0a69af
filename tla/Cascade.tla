------------------------------ MODULE Cascade ------------------------------
(***************************************************************************)
(* backends/cascade.rs: one evaluation over two hops, and the rotation of  *)
(* the api key both hops hold.  The first hop is asked everything, on a    *)
(* short budget; what it did not answer surely, and every forced question, *)
(* goes to the fallback.                                                   *)
(*                                                                         *)
(* A hop is a Backend: it is handed a deadline, and fails or answers some  *)
(* of the questions, in time or late, since evaluate has no timeout of its *)
(* own; it uses the key it held when it was called.  An answer is `sure'   *)
(* when answer_kept holds of it.                                           *)
(***************************************************************************)
EXTENDS Integers, FiniteSets, Functions

CONSTANTS
  Questions,      \* ids the request asks
  ForcedChoices,  \* values of rule.always_fallback: the shipped battery, or
                  \* what a host set
  Deadline,       \* of the whole evaluation
  FirstTimeout,   \* rule.first_timeout: 400 ms
  MaxTime,        \* bound on the clock
  Rotators,       \* threads that call replace_api_key
  NewKeys         \* the keys they pass; "none" is None, "empty" is ""

ASSUME ForcedAssumption == ForcedChoices \subseteq SUBSET Questions
ASSUME TimesAssumption ==
  Deadline \in Nat /\ FirstTimeout \in Nat /\ MaxTime \in Nat

Hops == {"first", "fallback"}

VARIABLES
  now,
  forced,         \* rule.always_fallback of this backend
  stage,          \* "start", "first", "choose", "second", "done"
  firstDeadline,
  first,          \* what the first hop returned
  fallback,       \* what the fallback returned
  result,         \* what evaluate returned
  called,         \* hop -> [at, key] of its call
  keys,           \* hop -> the key it holds
  rotating,       \* rotator -> "idle", "first", "second", "rollback"
  key,            \* rotator -> the key it was given
  previous,       \* rotator -> the first hop's key before
  accepted        \* some replace_api_key has returned Ok

evaluation == <<forced, stage, firstDeadline, first, fallback, result, called>>
rotation   == <<keys, rotating, key, previous, accepted>>
vars       == <<now, evaluation, rotation>>

NotCalled == [at |-> -1, key |-> "none"]
HopError  == [ok |-> FALSE, answers |-> <<>>]
OldKey(hop) == IF hop = "first" THEN "snapif" ELSE "typesafe"
Pending   == [status |-> "pending", answers |-> <<>>, hop |-> <<>>,
              first_hop_error |-> FALSE]
Failed    == [Pending EXCEPT !.status = "error"]

(* Every answer a hop may give: any of the questions, surely or not.       *)
HopAnswers ==
  {[ok |-> TRUE, answers |-> answers] :
     answers \in UNION {[ids -> {"sure", "unsure"}] : ids \in SUBSET Questions}}

-----------------------------------------------------------------------------
Init ==
  /\ now = 0
  /\ forced \in ForcedChoices
  /\ stage = "start"
  /\ firstDeadline = 0
  /\ first = HopError /\ fallback = HopError
  /\ result = Pending
  /\ called = [hop \in Hops |-> NotCalled]
  /\ keys = [hop \in Hops |-> OldKey(hop)]
  /\ rotating = [r \in Rotators |-> "idle"]
  /\ key \in [Rotators -> {CHOOSE k \in NewKeys : TRUE}]
  /\ previous = [r \in Rotators |-> "none"]
  /\ accepted = FALSE

Calls(hop) == called' = [called EXCEPT ![hop] = [at |-> now, key |-> keys[hop]]]

(* Mutant: the first hop's budget is not cut at the deadline.              *)
CallFirstUnclamped ==
  /\ stage = "start"
  /\ now < Deadline
  /\ firstDeadline' = now + FirstTimeout
  /\ Calls("first")
  /\ stage' = "first"
  /\ UNCHANGED <<now, forced, first, fallback, result, rotation>>

CallFirst ==
  /\ stage = "start"
  /\ now < Deadline
  /\ firstDeadline' = now + (IF Deadline - now < FirstTimeout
                               THEN Deadline - now ELSE FirstTimeout)
  /\ Calls("first")
  /\ stage' = "first"
  /\ UNCHANGED <<now, forced, first, fallback, result, rotation>>

TooLate ==
  /\ stage = "start"
  /\ now >= Deadline
  /\ result' = Failed
  /\ stage' = "done"
  /\ UNCHANGED <<now, forced, firstDeadline, first, fallback, called,
                 rotation>>

FirstReturns ==
  /\ stage = "first"
  /\ first' \in {HopError} \cup HopAnswers
  /\ stage' = "choose"
  /\ UNCHANGED <<now, forced, firstDeadline, fallback, result, called,
                 rotation>>

(* Mutant: a forced question the first hop answered surely is kept.        *)
RetryIgnoringForced ==
  {id \in Questions :
     ~(id \in DOMAIN first.answers /\ first.answers[id] = "sure")}

(* The questions keep_id does not keep.                                    *)
Retry ==
  {id \in Questions :
     \/ id \in forced
     \/ id \notin DOMAIN first.answers
     \/ first.answers[id] # "sure"}

Marked(answers, hop, error) ==
  [status |-> "ok",
   answers |-> [id \in DOMAIN answers |-> [is |-> answers[id], from |-> hop]],
   hop |-> [id \in DOMAIN answers |-> hop],
   first_hop_error |-> error]

(* mark_first: nothing is left to ask.                                     *)
KeepFirst ==
  /\ stage = "choose"
  /\ first.ok
  /\ Retry = {}
  /\ result' = Marked(first.answers, "first", FALSE)
  /\ stage' = "done"
  /\ UNCHANGED <<now, forced, firstDeadline, first, fallback, called,
                 rotation>>

(* The whole request after an error, the subset after an answer.           *)
CallFallback ==
  /\ stage = "choose"
  /\ ~first.ok \/ Retry # {}
  /\ Calls("fallback")
  /\ stage' = "second"
  /\ UNCHANGED <<now, forced, firstDeadline, first, fallback, result,
                 rotation>>

(* Mutant: merge marks everything as the first hop's.                      *)
MergeMarkingFirst(answers) ==
  LET taken == Retry \cap DOMAIN answers
      ids   == DOMAIN first.answers \cup taken
  IN  [status |-> "ok",
       answers |-> [id \in ids |->
                      IF id \in taken
                        THEN [is |-> answers[id], from |-> "fallback"]
                        ELSE [is |-> first.answers[id], from |-> "first"]],
       hop |-> [id \in ids |-> "first"],
       first_hop_error |-> FALSE]

(* Mutant: merge takes over whatever the fallback answered.                *)
MergeTakingAll(answers) ==
  LET ids == DOMAIN first.answers \cup DOMAIN answers
  IN  [status |-> "ok",
       answers |-> [id \in ids |->
                      IF id \in DOMAIN answers
                        THEN [is |-> answers[id], from |-> "fallback"]
                        ELSE [is |-> first.answers[id], from |-> "first"]],
       hop |-> [id \in ids |-> IF id \in Retry THEN "fallback" ELSE "first"],
       first_hop_error |-> FALSE]

(* merge: only retried ids are taken over, and every retried id is marked  *)
(* as the fallback's, whether or not the fallback answered it.             *)
Merge(answers) ==
  LET taken == Retry \cap DOMAIN answers
      ids   == DOMAIN first.answers \cup taken
  IN  [status |-> "ok",
       answers |-> [id \in ids |->
                      IF id \in taken
                        THEN [is |-> answers[id], from |-> "fallback"]
                        ELSE [is |-> first.answers[id], from |-> "first"]],
       hop |-> [id \in ids |-> IF id \in Retry THEN "fallback" ELSE "first"],
       first_hop_error |-> FALSE]

ForcedGap(answers) == \E id \in Retry \cap forced : id \notin DOMAIN answers

(* Mutant: a low-confidence retry counts as a failed first hop.            *)
OutcomeErrorOnRetry(hop) ==
  CASE ~first.ok /\ ~hop.ok -> Failed
    [] ~first.ok /\ hop.ok -> Marked(hop.answers, "fallback", TRUE)
    [] first.ok /\ ~hop.ok -> Failed
    [] first.ok /\ hop.ok -> [Merge(hop.answers) EXCEPT !.first_hop_error = TRUE]

Outcome(hop) ==
  CASE ~first.ok /\ ~hop.ok -> Failed
    [] ~first.ok /\ hop.ok -> Marked(hop.answers, "fallback", TRUE)
    [] first.ok /\ ~hop.ok ->
         IF Retry \cap forced # {} THEN Failed
         ELSE Marked(first.answers, "first", FALSE)
    [] first.ok /\ hop.ok ->
         IF ForcedGap(hop.answers) THEN Failed ELSE Merge(hop.answers)

FallbackReturns ==
  /\ stage = "second"
  /\ \E hop \in {HopError} \cup HopAnswers :
       /\ fallback' = hop
       /\ result' = Outcome(hop)
  /\ stage' = "done"
  /\ UNCHANGED <<now, forced, firstDeadline, first, called, rotation>>

-----------------------------------------------------------------------------
(* replace_api_key.  The first hop is `compatible' and takes None; the     *)
(* fallback is `typesafe' and does not.  Each hop swaps under its own lock. *)
Accepts(hop, k) == k # "empty" /\ (hop = "fallback" => k # "none")

StartRotation(r) ==
  /\ rotating[r] = "idle"
  /\ \E k \in NewKeys : key' = [key EXCEPT ![r] = k]
  /\ rotating' = [rotating EXCEPT ![r] = "first"]
  /\ UNCHANGED <<now, evaluation, keys, previous, accepted>>

SwapFirst(r) ==
  /\ rotating[r] = "first"
  /\ IF Accepts("first", key[r])
       THEN /\ previous' = [previous EXCEPT ![r] = keys["first"]]
            /\ keys' = [keys EXCEPT !["first"] = key[r]]
            /\ rotating' = [rotating EXCEPT ![r] = "second"]
       ELSE /\ rotating' = [rotating EXCEPT ![r] = "idle"]
            /\ UNCHANGED <<previous, keys>>
  /\ UNCHANGED <<now, evaluation, key, accepted>>

SwapFallback(r) ==
  /\ rotating[r] = "second"
  /\ IF Accepts("fallback", key[r])
       THEN /\ keys' = [keys EXCEPT !["fallback"] = key[r]]
            /\ rotating' = [rotating EXCEPT ![r] = "idle"]
            /\ accepted' = TRUE
       ELSE /\ rotating' = [rotating EXCEPT ![r] = "rollback"]
            /\ UNCHANGED <<keys, accepted>>
  /\ UNCHANGED <<now, evaluation, key, previous>>

(* Mutant: the refused rotation leaves the first hop on the new key.       *)
NoRollback(r) ==
  /\ rotating[r] = "rollback"
  /\ rotating' = [rotating EXCEPT ![r] = "idle"]
  /\ UNCHANGED <<now, evaluation, keys, key, previous, accepted>>

Rollback(r) ==
  /\ rotating[r] = "rollback"
  /\ keys' = [keys EXCEPT !["first"] =
                IF Accepts("first", previous[r]) THEN previous[r] ELSE @]
  /\ rotating' = [rotating EXCEPT ![r] = "idle"]
  /\ UNCHANGED <<now, evaluation, key, previous, accepted>>

-----------------------------------------------------------------------------
(* Time passes, whatever a hop was told of its deadline.                   *)
Tick ==
  /\ now < MaxTime
  /\ now' = now + 1
  /\ UNCHANGED <<evaluation, rotation>>

Evaluate ==
  \/ CallFirst \/ TooLate \/ FirstReturns \/ KeepFirst \/ CallFallback
  \/ FallbackReturns

Rotate(r) ==
  StartRotation(r) \/ SwapFirst(r) \/ SwapFallback(r) \/ Rollback(r)

Next == Evaluate \/ Tick \/ \E r \in Rotators : Rotate(r)

Spec == Init /\ [][Next]_vars

-----------------------------------------------------------------------------
(* Correctness.                                                            *)

TypeOK ==
  /\ now \in 0 .. MaxTime
  /\ stage \in {"start", "first", "choose", "second", "done"}
  /\ firstDeadline \in 0 .. Deadline
  /\ first \in {HopError} \cup HopAnswers
  /\ fallback \in {HopError} \cup HopAnswers
  /\ result.status \in {"pending", "ok", "error"}
  /\ \A hop \in Hops : called[hop].at \in {-1} \cup 0 .. MaxTime
  /\ \A r \in Rotators :
       rotating[r] \in {"idle", "first", "second", "rollback"}

(* A forced question is never answered by the first hop: the fallback      *)
(* answers it, or the evaluation fails.                                    *)
ForcedFromFallback ==
  \A id \in forced \cap DOMAIN result.answers :
    result.answers[id].from = "fallback"

(* An answer that is not sure is marked as the fallback's, which makes the *)
(* gate add CascadeStillUnsure, unless the fallback itself had failed.     *)
UnsureIsFlagged ==
  \A id \in DOMAIN result.answers :
    result.answers[id].is = "unsure" =>
      \/ result.hop[id] = "fallback"
      \/ called["fallback"].at >= 0 /\ ~fallback.ok

(* first_hop_error says what happened: the first hop failed and all the    *)
(* answers are the fallback's.  A hop mark of `first' is always true.      *)
MarksAreTrue ==
  result.status = "ok" =>
    /\ result.first_hop_error <=> ~first.ok
    /\ \A id \in DOMAIN result.answers :
         /\ ~first.ok => result.answers[id].from = "fallback"
         /\ result.hop[id] = "first" => result.answers[id].from = "first"

(* What the first hop answered surely, and need not come from the          *)
(* fallback, reaches the caller as it is, whatever the fallback answers,   *)
(* also to questions it was not asked, and if it fails.                    *)
SureAnswersStay ==
  (result.status = "ok" /\ first.ok) =>
    \A id \in DOMAIN first.answers \ forced :
      first.answers[id] = "sure" =>
        /\ id \in DOMAIN result.answers
        /\ result.answers[id] = [is |-> "sure", from |-> "first"]
        /\ result.hop[id] = "first"

(* With no rotation under way, after one was accepted both hops hold the   *)
(* same key: the next evaluate uses it on either hop.                      *)
RotatedKeysAgree ==
  (accepted /\ \A r \in Rotators : rotating[r] = "idle") =>
    keys["first"] = keys["fallback"]

=============================================================================
