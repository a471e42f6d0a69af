------------------------------ MODULE HttpHop ------------------------------
(***************************************************************************)
(* HttpBackend::evaluate: one evaluation over HTTP with a deadline, retried *)
(* while the server says it is throttled, next to a host that rotates the  *)
(* key.  The server and the network are free to answer anything at any     *)
(* time.  Time is counted in units of the first backoff (100 ms).          *)
(***************************************************************************)
EXTENDS Integers, Sequences, FiniteSets

CONSTANTS
  Deadline,
  MaxTime,       \* bound on the clock
  MaxRetries,    \* MAX_RETRIES: 3
  RetryAfters,   \* delays a Retry-After header may ask for; Absent is none
  Keys           \* keys a host may rotate to

ASSUME TimesAssumption == Deadline \in Nat /\ MaxTime \in Nat
ASSUME MaxRetriesAssumption == MaxRetries \in Nat

Absent == -1

ASSUME RetryAftersAssumption == RetryAfters \subseteq Nat \cup {Absent}

Errors == {"timeout", "transport", "auth", "rejected", "rate_limit",
           "overloaded"}

VARIABLES
  now,
  slot,       \* api_key: the key behind its mutex
  stage,      \* "start", "ready", "sent", "body", "asleep", "done"
  key,        \* the key this evaluation copied
  retries,
  budget,     \* when the request timeout of the current request fires
  status,     \* status class of the current response
  wake,       \* when the current sleep ends
  outcome,    \* "pending", "evaluated" or an error
  sends       \* history: [at, key] of every request, in order

vars == <<now, slot, stage, key, retries, budget, status, wake, outcome, sends>>

NoKey == "none"

Init ==
  /\ now = 0
  /\ slot \in Keys
  /\ stage = "start"
  /\ key = NoKey
  /\ retries = 0
  /\ budget = 0
  /\ status = 0
  /\ wake = 0
  /\ outcome = "pending"
  /\ sends = <<>>

Return(what) ==
  /\ outcome' = what
  /\ stage' = "done"
  /\ UNCHANGED <<now, slot, key, retries, budget, status, wake, sends>>

(* The deadline is tested on entry and before every request.               *)
TooLate ==
  /\ stage \in {"start", "ready"}
  /\ now >= Deadline
  /\ Return("timeout")

CopyKey ==
  /\ stage = "start"
  /\ now < Deadline
  /\ key' = slot
  /\ stage' = "ready"
  /\ UNCHANGED <<now, slot, retries, budget, status, wake, outcome, sends>>

(* Mutant: a request has no timeout of its own.                            *)
SendUntimed ==
  /\ stage = "ready"
  /\ now < Deadline
  /\ budget' = MaxTime + 1
  /\ sends' = Append(sends, [at |-> now, key |-> key])
  /\ stage' = "sent"
  /\ UNCHANGED <<now, slot, key, retries, status, wake, outcome>>

(* Mutant: every request reads the key again.                              *)
SendFreshKey ==
  /\ stage = "ready"
  /\ now < Deadline
  /\ budget' = Deadline
  /\ sends' = Append(sends, [at |-> now, key |-> slot])
  /\ stage' = "sent"
  /\ UNCHANGED <<now, slot, key, retries, status, wake, outcome>>

(* The request timeout is what remains until the deadline; it covers the   *)
(* body as well.                                                           *)
Send ==
  /\ stage = "ready"
  /\ now < Deadline
  /\ budget' = Deadline
  /\ sends' = Append(sends, [at |-> now, key |-> key])
  /\ stage' = "sent"
  /\ UNCHANGED <<now, slot, key, retries, status, wake, outcome>>

SendTimesOut ==
  /\ stage = "sent"
  /\ now >= budget
  /\ Return("timeout")

SendFails == stage = "sent" /\ Return("transport")

(* The head of a response arrives.  Redirects are not followed.            *)
HeadArrives(class) ==
  /\ stage = "sent"
  /\ now < budget
  /\ status' = class
  /\ stage' = "body"
  /\ UNCHANGED <<now, slot, key, retries, budget, wake, outcome, sends>>

Respond == \E class \in {200, 302, 401, 422, 429, 500, 529} : HeadArrives(class)

StatusError ==
  CASE status = 401 -> "auth"
    [] status = 429 -> "rate_limit"
    [] status = 529 -> "overloaded"
    [] status = 422 -> "rejected"
    [] status = 500 -> "transport"

(* Within the cap and well formed; otherwise the body, also one that does  *)
(* not arrive in time, is a transport error.                               *)
BodyRead == stage = "body" /\ status = 200 /\ Return("evaluated")
BodyFails == stage = "body" /\ status = 200 /\ Return("transport")
BodyTimesOut ==
  /\ stage = "body"
  /\ now >= budget
  /\ \/ status = 200 /\ Return("transport")
     \/ status \in {401, 422, 500} /\ Return(StatusError)
Redirected == stage = "body" /\ status = 302 /\ Return("transport")

(* A body over the cap turns every other status into a transport error.    *)
Refused ==
  /\ stage = "body"
  /\ status \in {401, 422, 500}
  /\ \/ Return(StatusError)
     \/ Return("transport")

Throttled == stage = "body" /\ status \in {429, 529}

(* Seconds from the header, or the doubling backoff.                       *)
Requested(header) == IF header = Absent THEN 2 ^ retries ELSE header

(* retry_delay: a wait that does not fit the time left is refused.         *)
Fits(delay) == now < Deadline /\ delay <= Deadline - now

GiveUp ==
  /\ Throttled
  /\ \/ retries >= MaxRetries
     \/ \E header \in RetryAfters : ~Fits(Requested(header))
  /\ Return(StatusError)

(* Mutant: one retry too many.                                             *)
BackOffOnceMore ==
  /\ Throttled
  /\ retries <= MaxRetries
  /\ \E header \in RetryAfters :
       /\ Fits(Requested(header))
       /\ wake' = now + Requested(header)
  /\ stage' = "asleep"
  /\ UNCHANGED <<now, slot, key, retries, budget, status, outcome, sends>>

BackOff ==
  /\ Throttled
  /\ retries < MaxRetries
  /\ \E header \in RetryAfters :
       /\ Fits(Requested(header))
       /\ wake' = now + Requested(header)
  /\ stage' = "asleep"
  /\ UNCHANGED <<now, slot, key, retries, budget, status, outcome, sends>>

(* Mutant: the retry is not counted.                                       *)
WakeUncounted ==
  /\ stage = "asleep"
  /\ now >= wake
  /\ stage' = "ready"
  /\ UNCHANGED <<now, slot, key, retries, budget, status, wake, outcome, sends>>

Wake ==
  /\ stage = "asleep"
  /\ now >= wake
  /\ retries' = retries + 1
  /\ stage' = "ready"
  /\ UNCHANGED <<now, slot, key, budget, status, wake, outcome, sends>>

(* replace_api_key from another thread.                                    *)
Rotate ==
  /\ slot' \in Keys
  /\ UNCHANGED <<now, stage, key, retries, budget, status, wake, outcome, sends>>

Tick ==
  /\ now < MaxTime
  /\ now' = now + 1
  /\ UNCHANGED <<slot, stage, key, retries, budget, status, wake, outcome, sends>>

Local ==
  \/ TooLate \/ CopyKey \/ Send \/ SendTimesOut \/ BodyTimesOut
  \/ Redirected \/ GiveUp \/ BackOff \/ Wake

Network == SendFails \/ Respond \/ BodyRead \/ BodyFails \/ Refused

Next == Local \/ Network \/ Rotate \/ Tick

Spec == Init /\ [][Next]_vars

(* The task is polled and its timers fire.  Nothing is asked of the        *)
(* network or of the server.                                               *)
FairSpec == Spec /\ WF_vars(Local) /\ WF_vars(Tick)

-----------------------------------------------------------------------------
(* Correctness.                                                            *)

TypeOK ==
  /\ now \in 0 .. MaxTime
  /\ slot \in Keys
  /\ stage \in {"start", "ready", "sent", "body", "asleep", "done"}
  /\ key \in Keys \cup {NoKey}
  /\ retries \in 0 .. MaxRetries
  /\ wake \in Int
  /\ outcome \in {"pending", "evaluated"} \cup Errors

(* However often the key is rotated meanwhile, all requests of one         *)
(* evaluation carry the key it copied at the start.                        *)
OneKeyPerCall ==
  \A i, j \in DOMAIN sends : sends[i].key = sends[j].key

(* The server sees at most one request and MAX_RETRIES retries, even if it *)
(* always asks for a wait of zero, and none is begun after the deadline.   *)
RequestsAreBounded ==
  /\ Len(sends) <= MaxRetries + 1
  /\ \A i \in DOMAIN sends : sends[i].at < Deadline

(* Every evaluation ends, even when the server never answers or stops in   *)
(* the middle of a body.                                                   *)
EvaluationEnds == <>(stage = "done")

=============================================================================
