----------------------------- MODULE GateClient -----------------------------
(***************************************************************************)
(* Client::gate_with with its shared state: the verdict cache, the replay  *)
(* log behind its lock, and the overrides a host may set between calls.    *)
(* Several callers share one client; each takes the steps of the function  *)
(* in the order of the code and may be interleaved between any two locks.  *)
(***************************************************************************)
EXTENDS GateDecision

CONSTANTS
  Callers,
  Calls,       \* [request, policy, model]: what a caller passes
  Responses,   \* what the scorer may answer
  Cap,         \* cache_capacity
  TTL,         \* 30 s in the code
  MaxTime,     \* bound on the clock
  Overrides,   \* [fail, shadow]: what a host may set between calls
  NoCaller     \* nobody holds the log lock

ASSUME CallsAssumption == Calls # {}
ASSUME CapAssumption == Cap \in Nat \ {0}
ASSUME TTLAssumption == TTL \in Nat
ASSUME MaxTimeAssumption == MaxTime \in Nat
ASSUME NoCallerAssumption == NoCaller \notin Callers

VARIABLES
  override,  \* fail_override ("unset", "open" or "closed") and
             \* shadow_override ("unset", "on" or "off")
  now,
  cache,     \* key -> [at, verdict]
  lock,      \* who holds log_lock
  pc,        \* where each caller is in gate_with
  job,       \* its arguments
  keyed,     \* `record' got the key, so the verdict may be stored
  result,    \* the verdict, or Refused for an Err
  logged     \* the rows this call has appended

vars == <<override, now, cache, lock, pc, job, keyed, result, logged>>

-----------------------------------------------------------------------------
(* What finish stamps on a verdict, and what the cache key covers.         *)

ShadowOn(set, policy) ==
  IF set.shadow = "unset" THEN policy.shadow ELSE set.shadow

FailFor(set, policy) == IF set.fail = "unset" THEN policy.fail ELSE set.fail

Stamped(set, verdict, call) ==
  [rank |-> verdict.rank, reasons |-> verdict.reasons,
   signal |-> verdict.signal, shadow |-> ShadowOn(set, call.policy),
   pack |-> call.policy.shipped_id]

(* shipped_id is skipped when a policy is serialized.                      *)
Serialized(policy) == [policy EXCEPT !.shipped_id = ""]

(* Mutant: the key forgets the client's shadow override.                   *)
KeyWithoutShadow(set, call) ==
  [request |-> call.request, policy |-> Serialized(call.policy),
   model |-> call.model, shadow |-> call.policy.shadow]

Key(set, call) ==
  [request |-> call.request, policy |-> Serialized(call.policy),
   model |-> call.model, shadow |-> ShadowOn(set, call.policy)]

(* Mutant: every verdict may be stored.                                    *)
CacheableAlways(verdict) == TRUE

Cacheable(verdict) == "backend" \notin verdict.reasons

(* The escalation `record' returns when the log cannot be written: a bare  *)
(* hint, without pack or shadow.                                           *)
Unlogged == [rank |-> HintEscalate, reasons |-> {"backend"}, signal |-> Unset,
             shadow |-> "off", pack |-> ""]
Refused  == [rank |-> HintEscalate, reasons |-> {}, signal |-> Unset,
             shadow |-> "off", pack |-> ""]

Restricted(f, domain) == [key \in domain |-> f[key]]

-----------------------------------------------------------------------------
Init ==
  /\ override \in Overrides
  /\ now = 0
  /\ cache = <<>>
  /\ lock = NoCaller
  /\ pc = [c \in Callers |-> "idle"]
  /\ job \in [Callers -> {CHOOSE call \in Calls : TRUE}]
  /\ keyed = [c \in Callers |-> FALSE]
  /\ result = [c \in Callers |-> Refused]
  /\ logged = [c \in Callers |-> <<>>]

At(c, from, to) ==
  /\ pc[c] = from
  /\ pc' = [pc EXCEPT ![c] = to]

Start(c) ==
  /\ At(c, "idle", "lookup")
  /\ \E call \in Calls : job' = [job EXCEPT ![c] = call]
  /\ logged' = [logged EXCEPT ![c] = <<>>]
  /\ keyed' = [keyed EXCEPT ![c] = FALSE]
  /\ UNCHANGED <<override, now, cache, lock, result>>

(* cache_get, under the cache lock.  It runs before the policy is checked. *)
Live(key) == key \in DOMAIN cache /\ now - cache[key].at <= TTL

(* Mutant: a hit is recorded with its key, so storing it again renews it.  *)
CacheHitKeyed(c) ==
  /\ At(c, "lookup", "recording")
  /\ Live(Key(override, job[c]))
  /\ result' = [result EXCEPT ![c] = cache[Key(override, job[c])].verdict]
  /\ keyed' = [keyed EXCEPT ![c] = TRUE]
  /\ UNCHANGED <<override, now, cache, lock, job, logged>>

CacheHit(c) ==
  /\ At(c, "lookup", "recording")
  /\ Live(Key(override, job[c]))
  /\ result' = [result EXCEPT ![c] = cache[Key(override, job[c])].verdict]
  /\ keyed' = [keyed EXCEPT ![c] = FALSE]
  /\ UNCHANGED <<override, now, cache, lock, job, logged>>

CacheMiss(c) ==
  /\ At(c, "lookup", "uncached")
  /\ ~Live(Key(override, job[c]))
  /\ cache' = Restricted(cache, DOMAIN cache \ {Key(override, job[c])})
  /\ UNCHANGED <<override, now, lock, job, keyed, result, logged>>

(* effective_gates refuses the policy: an Err, which is not recorded.      *)
PolicyRefused(c) ==
  /\ At(c, "uncached", "idle")
  /\ ~CheckInvariants(job[c].policy)
  /\ result' = [result EXCEPT ![c] = Refused]
  /\ UNCHANGED <<override, now, cache, lock, job, keyed, logged>>

Decided(c, verdict) ==
  /\ result' = [result EXCEPT ![c] = Stamped(override, verdict, job[c])]
  /\ keyed' = [keyed EXCEPT ![c] = TRUE]
  /\ UNCHANGED <<override, now, cache, lock, job, logged>>

ClosedFor(c, reason) ==
  ClosedOn(job[c].policy, job[c].request,
           FailFor(override, job[c].policy), reason)

EncodeFails(c) ==
  /\ At(c, "uncached", "recording")
  /\ CheckInvariants(job[c].policy)
  /\ ~Encodable(job[c].request)
  /\ Decided(c, ClosedFor(c, "wire"))

(* The only await of the function: from here to the answer the call may be *)
(* dropped, and any other caller may run.                                  *)
Evaluate(c) ==
  /\ At(c, "uncached", "evaluating")
  /\ CheckInvariants(job[c].policy)
  /\ Encodable(job[c].request)
  /\ UNCHANGED <<override, now, cache, lock, job, keyed, result, logged>>

EvaluateFails(c) ==
  /\ At(c, "evaluating", "recording")
  /\ Decided(c, ClosedFor(c, "backend"))

EvaluateAnswers(c) ==
  /\ At(c, "evaluating", "recording")
  /\ \E response \in Responses :
       Decided(c, Judge(job[c].policy, job[c].request,
                        FailFor(override, job[c].policy), response))

Dropped(c) ==
  /\ At(c, "evaluating", "idle")
  /\ result' = [result EXCEPT ![c] = Refused]
  /\ UNCHANGED <<override, now, cache, lock, job, keyed, logged>>

(* Mutant: the log is written without the lock.                            *)
TakeLogLockUnchecked(c) ==
  /\ At(c, "recording", "appending")
  /\ lock' = c
  /\ UNCHANGED <<override, now, cache, job, keyed, result, logged>>

(* record: the row is appended under log_lock, and only then stored.       *)
TakeLogLock(c) ==
  /\ At(c, "recording", "appending")
  /\ lock = NoCaller
  /\ lock' = c
  /\ UNCHANGED <<override, now, cache, job, keyed, result, logged>>

RowAppended(c) ==
  /\ At(c, "appending", "storing")
  /\ lock' = NoCaller
  /\ logged' = [logged EXCEPT ![c] = Append(@, result[c])]
  /\ UNCHANGED <<override, now, cache, job, keyed, result>>

(* Mutant: the early return of a failed append leaves the lock held.       *)
AppendFailsLocked(c) ==
  /\ At(c, "appending", "idle")
  /\ result' = [result EXCEPT ![c] = Unlogged]
  /\ UNCHANGED <<override, now, cache, lock, job, keyed, logged>>

(* Mutant: a verdict that could not be logged is returned all the same.    *)
AppendFailsQuietly(c) ==
  /\ At(c, "appending", "idle")
  /\ lock' = NoCaller
  /\ UNCHANGED <<override, now, cache, job, keyed, result, logged>>

AppendFails(c) ==
  /\ At(c, "appending", "idle")
  /\ lock' = NoCaller
  /\ result' = [result EXCEPT ![c] = Unlogged]
  /\ UNCHANGED <<override, now, cache, job, keyed, logged>>

(* Mutant: the capacity test is off by one.                                *)
EvictedLate(key) ==
  IF Cardinality(DOMAIN cache) > Cap /\ key \notin DOMAIN cache
    THEN {DOMAIN cache \ {old} : old \in DOMAIN cache}
    ELSE {DOMAIN cache}

(* cache_put evicts whichever entry the hash map lists first.              *)
Evicted(key) ==
  IF Cardinality(DOMAIN cache) >= Cap /\ key \notin DOMAIN cache
    THEN {DOMAIN cache \ {old} : old \in DOMAIN cache}
    ELSE {DOMAIN cache}

(* Mutant: the time of expiry is stored as the time of the put.            *)
StoreExpiry(c) ==
  /\ At(c, "storing", "idle")
  /\ cache' = [k \in {Key(override, job[c])} |->
                 [at |-> now + TTL, verdict |-> result[c]]]
  /\ UNCHANGED <<override, now, lock, job, keyed, result, logged>>

Store(c) ==
  /\ At(c, "storing", "idle")
  /\ IF keyed[c] /\ Cacheable(result[c])
       THEN LET key == Key(override, job[c])
            IN  \E kept \in Evicted(key) :
                  cache' = [k \in kept \cup {key} |->
                              IF k = key
                                THEN [at |-> now, verdict |-> result[c]]
                                ELSE cache[k]]
       ELSE UNCHANGED cache
  /\ UNCHANGED <<override, now, lock, job, keyed, result, logged>>

Tick ==
  /\ now < MaxTime
  /\ now' = now + 1
  /\ UNCHANGED <<override, cache, lock, pc, job, keyed, result, logged>>

AllIdle == \A c \in Callers : pc[c] = "idle"

(* Client::fail and Client::shadow take the client by value, so no call is *)
(* running.  The cache moves along with the client.                        *)
Reconfigure ==
  /\ AllIdle
  /\ override' \in Overrides
  /\ UNCHANGED <<now, cache, lock, pc, job, keyed, result, logged>>

(* replace_fake has the client to itself and clears the cache.             *)
ReplaceFake ==
  /\ AllIdle
  /\ cache' = <<>>
  /\ UNCHANGED <<override, now, lock, pc, job, keyed, result, logged>>

Step(c) ==
  \/ CacheHit(c) \/ CacheMiss(c) \/ PolicyRefused(c) \/ EncodeFails(c)
  \/ Evaluate(c) \/ EvaluateFails(c) \/ EvaluateAnswers(c) \/ Dropped(c)
  \/ TakeLogLock(c) \/ RowAppended(c) \/ AppendFails(c) \/ Store(c)

Next ==
  \/ \E c \in Callers : Start(c) \/ Step(c)
  \/ Tick \/ Reconfigure \/ ReplaceFake

Spec == Init /\ [][Next]_vars

(* Every await is bounded: the scorer is given a deadline, a lock is held  *)
(* only for one append, and the executor polls every ready future.         *)
FairSpec == Spec /\ \A c \in Callers : WF_vars(Step(c))

-----------------------------------------------------------------------------
(* Correctness.                                                            *)

PC == {"idle", "lookup", "uncached", "evaluating", "recording", "appending",
       "storing"}

TypeOK ==
  /\ override \in Overrides
  /\ now \in 0 .. MaxTime
  /\ \A key \in DOMAIN cache : cache[key].at \in 0 .. now
  /\ lock \in Callers \cup {NoCaller}
  /\ pc \in [Callers -> PC]
  /\ job \in [Callers -> Calls]
  /\ keyed \in [Callers -> BOOLEAN]
  /\ \A c \in Callers : result[c].rank \in Rank

(* The cache never holds more verdicts than its capacity.                  *)
CacheBounded == Cardinality(DOMAIN cache) <= Cap

(* A passing outage is not replayed for the length of the TTL: a caller is *)
(* told of a failed scorer only when its own call failed, never by a       *)
(* verdict that another call left in the cache.                            *)
OutagesAreOwn ==
  \A c \in Callers :
    ( /\ pc[c] \in {"recording", "appending", "storing"}
      /\ "backend" \in result[c].reasons ) => keyed[c]

(* log_lock: only one caller of the process writes to the log at a time.   *)
OneWriter ==
  \A c \in Callers : pc[c] = "appending" <=> lock = c

(* Whatever a caller gets is what the log holds for its call, once; a call *)
(* without a row got an error or the escalation that reports it.           *)
RepliesAreLogged ==
  \A c \in Callers :
    pc[c] = "idle" =>
      \/ logged[c] = <<result[c]>>
      \/ logged[c] = <<>> /\ result[c] \in {Refused, Unlogged}

(* A verdict about to be given carries the shadow mode now in force, also  *)
(* when it comes from the cache.                                           *)
ShadowIsCurrent ==
  \A c \in Callers :
    pc[c] \in {"recording", "appending", "storing"} =>
      result[c].shadow = ShadowOn(override, job[c].policy)

(* Every call comes back, unless others keep winning the log lock: the     *)
(* standard mutex promises no order among those who wait for it.           *)
EveryCallReturns ==
  \A c \in Callers :
    \/ []<>(pc[c] = "idle")
    \/ \E other \in Callers \ {c} : []<>(pc[other] = "appending")

(* The client implements GateService: the store is what the cache holds.   *)
FreshVerdicts(call, set) ==
  LET fail == FailFor(set, call.policy)
      open == {ClosedOn(call.policy, call.request, fail, reason) :
                 reason \in {"wire", "backend"}}
      scored == {Judge(call.policy, call.request, fail, response) :
                   response \in Responses}
  IN  {Stamped(set, verdict, call) : verdict \in open \cup scored}

ServiceKey(call, set) == Key(set, call)

PhaseOf(place) ==
  CASE place = "idle" -> "idle"
    [] place = "lookup" -> "asked"
    [] place \in {"uncached", "evaluating"} -> "scoring"
    [] place \in {"recording", "appending"} -> "decided"
    [] place = "storing" -> "published"

Phase == [c \in Callers |-> PhaseOf(pc[c])]

Remembered ==
  {[key |-> key, verdict |-> cache[key].verdict, at |-> cache[key].at] :
     key \in DOMAIN cache}

Service ==
  INSTANCE GateService
    WITH Modes <- Overrides, Fresh <- FreshVerdicts, KeyOf <- ServiceKey,
         Reusable <- Cacheable, Nothing <- Refused, Unpublished <- Unlogged,
         phase <- Phase, ticket <- job, answer <- result, fresh <- keyed,
         memory <- Remembered, clock <- now, mode <- override

ImplementsService == Service!Spec

(* Not an invariant of the code.  The documentation of Client::fail says   *)
(* that the override decides for gate().  The key does not cover it, so a  *)
(* stored verdict may still be one of the setting before.                  *)
FailOverrideDecides ==
  \A c \in Callers :
    ( /\ pc[c] \in {"recording", "appending", "storing"}
      /\ result[c].signal = Unset
      /\ FailFor(override, job[c].policy) = "closed" )
      => result[c].rank = HintEscalate

=============================================================================
