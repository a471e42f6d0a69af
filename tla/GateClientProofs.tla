-------------------------- MODULE GateClientProofs --------------------------
(***************************************************************************)
(* For any number of callers, any calls, scorer and overrides: the log     *)
(* lock excludes, every reply is what the log holds, no outage is cached,  *)
(* a verdict carries the shadow mode in force, the cache is bounded, and   *)
(* the whole implements GateService.                                       *)
(***************************************************************************)
EXTENDS GateClient, FiniteSetTheorems, TLAPS

-----------------------------------------------------------------------------
(* Every verdict a call can be given has a rank.                           *)

(* The strictest of some verdicts, one of them ranked, is ranked.          *)
LEMMA StrictestIsRanked ==
  ASSUME NEW verdicts, NEW v0 \in verdicts,
         \A v \in verdicts : v.rank \in Rank
  PROVE  Strictest(verdicts).rank \in Rank
<1> DEFINE ranks == {v.rank : v \in verdicts}
<1>1. ranks \subseteq {0, 1, 2} /\ v0.rank \in ranks
  BY DEF Rank, HintAuto, HintReview, HintEscalate
<1>2. PICK top \in ranks : \A r \in ranks : top >= r
  <2> HIDE DEF ranks
  <2>1. CASE 2 \in ranks
    BY <1>1, <2>1
  <2>2. CASE 2 \notin ranks /\ 1 \in ranks
    BY <1>1, <2>2
  <2>3. CASE 2 \notin ranks /\ 1 \notin ranks
    <3>1. 0 \in ranks /\ \A r \in ranks : r = 0
      BY <1>1, <2>3
    <3> QED BY <3>1
  <2> QED BY <2>1, <2>2, <2>3
<1> HIDE DEF ranks
<1>3. Max(ranks) \in ranks
  BY <1>2 DEF Max
<1>4. Strictest(verdicts).rank = Max(ranks)
  BY DEF Strictest, ranks
<1> QED BY <1>1, <1>3, <1>4 DEF Rank, HintAuto, HintReview, HintEscalate

LEMMA ContributionsAreRanked ==
  /\ \A s, gates : VerdictFromSignal(s, gates).rank \in Rank
  /\ \A gates, reason : WhenUnsureBump(gates, reason).rank \in Rank
  /\ \A fail, gates, reason : Closed(fail, gates, reason).rank \in Rank
<1>1. \A s, gates : VerdictFromSignal(s, gates).rank \in Rank
  BY DEF VerdictFromSignal, Contribution, Rank
<1>2. \A gates, reason : WhenUnsureBump(gates, reason).rank \in Rank
  BY DEF WhenUnsureBump, Contribution, Rank
<1>3. \A fail, gates, reason : Closed(fail, gates, reason).rank \in Rank
  BY DEF Closed, Rank
<1> QED BY <1>1, <1>2, <1>3

LEMMA JudgeIsRanked ==
  ASSUME NEW policy, NEW request, NEW fail, NEW response
  PROVE  Judge(policy, request, fail, response).rank \in Rank
<1> DEFINE answers  == response.answers
           signal   == Signal(policy, answers[HarmId])
           gates    == EffectiveGates(policy, request.action,
                                      answers[HarmId].label)
           first    == VerdictFromSignal(signal, gates)
           unsure   == UnsureBlocks(policy, gates, answers)
           extra    == ExtraVerdicts(policy, request, gates, answers)
           trimmed  == IF Truncated(request)
                         THEN {WhenUnsureBump(gates, "truncated")} ELSE {}
           verdicts == {first} \cup unsure \cup extra \cup trimmed
<1>1. \A v \in unsure : v.rank \in Rank
  BY ContributionsAreRanked DEF UnsureBlocks
<1>2. \A v \in extra : v.rank \in Rank
  BY ContributionsAreRanked DEF ExtraVerdicts
<1>3. \A v \in trimmed : v.rank \in Rank
  BY ContributionsAreRanked
<1>4. first.rank \in Rank
  BY ContributionsAreRanked
<1>5. \/ Judge(policy, request, fail, response).rank
           = Strictest(verdicts).rank
      \/ Judge(policy, request, fail, response).rank = HintEscalate
      \/ \E gs : Judge(policy, request, fail, response)
                   = Closed(fail, gs, "decode")
  <2> DEFINE rejected == ~CheckResponse(request, answers)
             hit      == BlockHit(policy, request, gates.block_on, answers)
  <2>1. CASE rejected
    BY <2>1 DEF Judge
  <2>2. CASE ~rejected /\ hit = "unreadable"
    BY <2>2 DEF Judge
  <2>3. CASE ~rejected /\ hit = "fires"
    BY <2>3 DEF Judge
  <2>4. CASE ~rejected /\ hit # "unreadable" /\ hit # "fires"
    BY <2>4 DEF Judge
  <2> QED BY <2>1, <2>2, <2>3, <2>4
<1> HIDE DEF first, unsure, extra, trimmed
<1>6. \A v \in verdicts : v.rank \in Rank
  BY <1>1, <1>2, <1>3, <1>4
<1>7. Strictest(verdicts).rank \in Rank
  <2>1. first \in verdicts
    OBVIOUS
  <2> HIDE DEF verdicts
  <2> QED BY <1>6, <2>1, StrictestIsRanked
<1> HIDE DEF verdicts
<1> QED BY <1>5, <1>7, ContributionsAreRanked DEF Rank

-----------------------------------------------------------------------------
(* The inductive invariant: what holds of the variables' shapes, of every  *)
(* stored verdict, and of every caller.                                    *)

Shapes ==
  /\ override \in Overrides
  /\ now \in 0 .. MaxTime
  /\ lock \in Callers \cup {NoCaller}
  /\ pc \in [Callers -> PC]
  /\ job \in [Callers -> Calls]
  /\ keyed \in [Callers -> BOOLEAN]
  /\ DOMAIN result = Callers
  /\ DOMAIN logged = Callers

StoredOK(key) ==
  /\ cache[key].at \in 0 .. now
  /\ cache[key].verdict.rank \in Rank
  /\ Cacheable(cache[key].verdict)
  /\ cache[key].verdict.shadow = key.shadow

CacheInv ==
  /\ \A key \in DOMAIN cache : StoredOK(key)
  /\ IsFiniteSet(DOMAIN cache)
  /\ CacheBounded

CallerInv(c) ==
  /\ result[c].rank \in Rank
  /\ pc[c] = "appending" <=> lock = c
  /\ pc[c] \in {"lookup", "uncached", "evaluating", "recording", "appending"}
       => logged[c] = <<>>
  /\ pc[c] = "storing" => logged[c] = <<result[c]>>
  /\ pc[c] = "idle" =>
       \/ logged[c] = <<result[c]>>
       \/ logged[c] = <<>> /\ result[c] \in {Refused, Unlogged}
  /\ pc[c] \in {"recording", "appending", "storing"} =>
       result[c].shadow = ShadowOn(override, job[c].policy)
  /\ ( /\ pc[c] \in {"recording", "appending", "storing"}
       /\ "backend" \in result[c].reasons ) => keyed[c]

Inv == Shapes /\ CacheInv /\ \A c \in Callers : CallerInv(c)

(* A step of one caller that leaves the override alone does not disturb    *)
(* the others, as long as the lock neither comes to them nor leaves them.  *)
Untouched(d) ==
  /\ pc'[d] = pc[d] /\ job'[d] = job[d]
  /\ result'[d] = result[d] /\ logged'[d] = logged[d]
  /\ keyed'[d] = keyed[d]

LEMMA OthersKeepCallerInv ==
  ASSUME NEW d \in Callers, CallerInv(d), Untouched(d),
         override' = override, lock' = d <=> lock = d
  PROVE  CallerInv(d)'
BY DEF CallerInv, Untouched

LEMMA SameCacheKeepsCacheInv ==
  ASSUME CacheInv, UNCHANGED <<cache, now>>
  PROVE  CacheInv'
BY DEF CacheInv, StoredOK, CacheBounded

-----------------------------------------------------------------------------

LEMMA InitInv == Init => Inv
<1> SUFFICES ASSUME Init PROVE Inv
  OBVIOUS
<1>1. Shapes
  BY CallsAssumption, MaxTimeAssumption DEF Init, Shapes, PC
<1>2. CacheInv
  <2>1. DOMAIN cache = {}
    BY DEF Init
  <2> QED BY <2>1, FS_EmptySet, CapAssumption DEF CacheInv, CacheBounded
<1>3. ASSUME NEW c \in Callers PROVE CallerInv(c)
  BY NoCallerAssumption DEF Init, CallerInv, Refused, Rank
<1> QED BY <1>1, <1>2, <1>3 DEF Inv

(* A caller begins a call.                                                 *)
LEMMA StartKeepsInv ==
  ASSUME Inv, NEW c \in Callers, Start(c)
  PROVE  Inv'
<1>1. Shapes'
  BY DEF Inv, Shapes, Start, At, PC
<1>2. CacheInv'
  BY SameCacheKeepsCacheInv DEF Inv, Start
<1>3. CallerInv(c)'
  BY DEF Inv, Shapes, CallerInv, Start, At
<1>4. ASSUME NEW d \in Callers, d # c PROVE CallerInv(d)'
  <2>1. Untouched(d)
    BY <1>4 DEF Inv, Shapes, Start, At, Untouched
  <2> QED BY <1>4, <2>1, OthersKeepCallerInv DEF Inv, Start
<1> QED BY <1>1, <1>2, <1>3, <1>4 DEF Inv

(* The lookup.  What the cache gives back was stored for this key, and the *)
(* key holds the shadow mode.                                              *)
LEMMA LookupKeepsInv ==
  ASSUME Inv, NEW c \in Callers, CacheHit(c) \/ CacheMiss(c)
  PROVE  Inv'
<1> DEFINE key == Key(override, job[c])
<1>1. ASSUME NEW d \in Callers, d # c PROVE CallerInv(d)'
  <2>1. Untouched(d)
    BY <1>1 DEF Inv, Shapes, CacheHit, CacheMiss, At, Untouched
  <2> QED BY <1>1, <2>1, OthersKeepCallerInv DEF Inv, CacheHit, CacheMiss
<1>2. Shapes'
  BY DEF Inv, Shapes, CacheHit, CacheMiss, At, PC
<1>3. CASE CacheHit(c)
  <2>1. key \in DOMAIN cache /\ result'[c] = cache[key].verdict
    BY <1>3 DEF Inv, Shapes, CacheHit, Live
  <2>2. key.shadow = ShadowOn(override, job[c].policy)
    BY DEF Key
  <2>3. StoredOK(key)
    BY <2>1 DEF Inv, CacheInv
  <2>4. /\ result'[c].rank \in Rank
        /\ result'[c].shadow = ShadowOn(override, job[c].policy)
        /\ "backend" \notin result'[c].reasons
    BY <2>1, <2>2, <2>3 DEF StoredOK, Cacheable
  <2>5. CallerInv(c)'
    BY <1>3, <2>4 DEF Inv, Shapes, CallerInv, CacheHit, At
  <2>6. CacheInv'
    BY <1>3, SameCacheKeepsCacheInv DEF Inv, CacheHit
  <2> QED BY <1>1, <1>2, <2>5, <2>6 DEF Inv
<1>4. CASE CacheMiss(c)
  <2>1. CallerInv(c)'
    BY <1>4 DEF Inv, Shapes, CallerInv, CacheMiss, At
  <2>2. CacheInv'
    <3> HIDE DEF key
    <3>1. /\ cache' = [k \in DOMAIN cache \ {key} |-> cache[k]]
          /\ now' = now
      BY <1>4 DEF CacheMiss, Restricted, key
    <3>2. DOMAIN cache' = DOMAIN cache \ {key}
      BY <3>1
    <3>3. \A k \in DOMAIN cache' : StoredOK(k)'
      BY <3>1 DEF Inv, CacheInv, StoredOK
    <3>4. /\ IsFiniteSet(DOMAIN cache')
          /\ Cardinality(DOMAIN cache') <= Cardinality(DOMAIN cache)
      BY <3>2, FS_Subset DEF Inv, CacheInv
    <3>5. Cardinality(DOMAIN cache') <= Cap
      BY <3>4, CapAssumption, FS_CardinalityType
         DEF Inv, CacheInv, CacheBounded
    <3> QED BY <3>3, <3>4, <3>5 DEF CacheInv, CacheBounded
  <2> QED BY <1>1, <1>2, <2>1, <2>2 DEF Inv
<1> QED BY <1>3, <1>4

(* The uncached evaluation, up to the verdict or the Err.                  *)
LEMMA EvaluationKeepsInv ==
  ASSUME Inv, NEW c \in Callers,
         \/ PolicyRefused(c) \/ EncodeFails(c) \/ Evaluate(c)
         \/ EvaluateFails(c) \/ EvaluateAnswers(c) \/ Dropped(c)
  PROVE  Inv'
<1> USE DEF PolicyRefused, EncodeFails, Evaluate, EvaluateFails,
            EvaluateAnswers, Dropped, Decided
<1>1. ASSUME NEW d \in Callers, d # c PROVE CallerInv(d)'
  <2>1. Untouched(d)
    BY <1>1 DEF Inv, Shapes, At, Untouched
  <2> QED BY <1>1, <2>1, OthersKeepCallerInv DEF Inv
<1>2. Shapes'
  BY DEF Inv, Shapes, At, PC
<1>3. CacheInv'
  BY SameCacheKeepsCacheInv DEF Inv
<1>4. CASE PolicyRefused(c) \/ Evaluate(c) \/ Dropped(c)
  <2>1. CallerInv(c)'
    <3>1. CASE PolicyRefused(c)
      BY <3>1 DEF Inv, Shapes, CallerInv, At, Refused, Rank
    <3>2. CASE Evaluate(c)
      BY <3>2 DEF Inv, Shapes, CallerInv, At
    <3>3. CASE Dropped(c)
      BY <3>3 DEF Inv, Shapes, CallerInv, At, Refused, Rank
    <3> QED BY <1>4, <3>1, <3>2, <3>3
  <2> QED BY <1>1, <1>2, <1>3, <2>1 DEF Inv
<1>5. CASE EncodeFails(c) \/ EvaluateFails(c) \/ EvaluateAnswers(c)
  <2>1. PICK verdict : /\ verdict.rank \in Rank
                       /\ Decided(c, verdict)
                       /\ pc[c] \in {"uncached", "evaluating"}
                       /\ pc' = [pc EXCEPT ![c] = "recording"]
    <3>1. CASE EncodeFails(c)
      BY <3>1, ContributionsAreRanked DEF At, ClosedFor, ClosedOn
    <3>2. CASE EvaluateFails(c)
      BY <3>2, ContributionsAreRanked DEF At, ClosedFor, ClosedOn
    <3>3. CASE EvaluateAnswers(c)
      <4>1. PICK response \in Responses :
              Decided(c, Judge(job[c].policy, job[c].request,
                               FailFor(override, job[c].policy), response))
        BY <3>3
      <4> QED BY <3>3, <4>1, JudgeIsRanked DEF At
    <3> QED BY <1>5, <3>1, <3>2, <3>3
  <2>2. /\ result'[c] = Stamped(override, verdict, job[c])
        /\ result'[c].rank \in Rank
        /\ result'[c].shadow = ShadowOn(override, job[c].policy)
    BY <2>1 DEF Inv, Shapes, Stamped
  <2>3. CallerInv(c)'
    BY <2>1, <2>2 DEF Inv, Shapes, CallerInv
  <2> QED BY <1>1, <1>2, <1>3, <2>3 DEF Inv
<1> QED BY <1>4, <1>5

(* The append under the log lock.                                          *)
LEMMA AppendKeepsInv ==
  ASSUME Inv, NEW c \in Callers,
         TakeLogLock(c) \/ RowAppended(c) \/ AppendFails(c)
  PROVE  Inv'
<1> USE DEF TakeLogLock, RowAppended, AppendFails
<1>1. Shapes'
  BY DEF Inv, Shapes, At, PC
<1>2. CacheInv'
  BY SameCacheKeepsCacheInv DEF Inv
<1>3. \/ lock = NoCaller /\ lock' = c
      \/ lock = c /\ lock' = NoCaller
  BY DEF Inv, CallerInv, At
<1>4. ASSUME NEW d \in Callers, d # c PROVE CallerInv(d)'
  <2>1. Untouched(d)
    BY <1>4 DEF Inv, Shapes, At, Untouched
  <2>2. lock' = d <=> lock = d
    BY <1>3, <1>4, NoCallerAssumption
  <2> QED BY <1>4, <2>1, <2>2, OthersKeepCallerInv DEF Inv
<1>5. CASE TakeLogLock(c)
  <2>1. CallerInv(c)'
    BY <1>5 DEF Inv, Shapes, CallerInv, At
  <2> QED BY <1>1, <1>2, <1>4, <2>1 DEF Inv
<1>6. CASE RowAppended(c)
  <2>1. logged[c] = <<>> /\ logged'[c] = Append(logged[c], result[c])
    BY <1>6 DEF Inv, Shapes, CallerInv, At
  <2>2. logged'[c] = <<result[c]>>
    BY <2>1
  <2>3. CallerInv(c)'
    BY <1>6, <2>2, NoCallerAssumption DEF Inv, Shapes, CallerInv, At
  <2> QED BY <1>1, <1>2, <1>4, <2>3 DEF Inv
<1>7. CASE AppendFails(c)
  <2>1. CallerInv(c)'
    BY <1>7, NoCallerAssumption
       DEF Inv, Shapes, CallerInv, At, Unlogged, Rank
  <2> QED BY <1>1, <1>2, <1>4, <2>1 DEF Inv
<1> QED BY <1>5, <1>6, <1>7

(* The entries cache_put keeps leave room for one more.                    *)
LEMMA EvictedLeavesRoom ==
  ASSUME NEW key, IsFiniteSet(DOMAIN cache), CacheBounded,
         NEW kept \in Evicted(key)
  PROVE  /\ kept \subseteq DOMAIN cache
         /\ IsFiniteSet(kept \cup {key})
         /\ Cardinality(kept \cup {key}) <= Cap
<1> DEFINE keys == DOMAIN cache
<1>1. Cardinality(keys) \in Nat /\ Cardinality(keys) <= Cap
  BY FS_CardinalityType DEF CacheBounded
<1>2. CASE Cardinality(keys) >= Cap /\ key \notin keys
  <2>1. PICK old \in keys : kept = keys \ {old}
    BY <1>2 DEF Evicted
  <2> HIDE DEF keys
  <2>2. IsFiniteSet(kept) /\ Cardinality(kept) = Cardinality(keys) - 1
    BY <2>1, FS_RemoveElement DEF keys
  <2>3. key \notin kept
    BY <1>2, <2>1
  <2>4. /\ IsFiniteSet(kept \cup {key})
        /\ Cardinality(kept \cup {key}) = Cardinality(kept) + 1
    BY <2>2, <2>3, FS_AddElement
  <2> QED BY <1>1, <2>1, <2>2, <2>4, CapAssumption DEF keys
<1>3. CASE ~(Cardinality(keys) >= Cap /\ key \notin keys)
  <2>1. kept = keys
    BY <1>3 DEF Evicted
  <2> HIDE DEF keys
  <2>2. IsFiniteSet(kept \cup {key})
    BY <2>1, FS_AddElement DEF keys
  <2>3. CASE key \in keys
    <3>1. kept \cup {key} = keys
      BY <2>1, <2>3
    <3> QED BY <1>1, <2>1, <2>2, <3>1 DEF keys
  <2>4. CASE key \notin keys
    <3>1. Cardinality(kept \cup {key}) = Cardinality(keys) + 1
      BY <2>1, <2>4, FS_AddElement DEF keys
    <3> QED BY <1>1, <1>3, <2>1, <2>2, <2>4, <3>1, CapAssumption DEF keys
  <2> QED BY <2>3, <2>4
<1> QED BY <1>2, <1>3

(* cache_put.                                                              *)
LEMMA StoreKeepsInv ==
  ASSUME Inv, NEW c \in Callers, Store(c)
  PROVE  Inv'
<1>1. Shapes'
  BY DEF Inv, Shapes, Store, At, PC
<1>2. CallerInv(c)'
  BY DEF Inv, Shapes, CallerInv, Store, At
<1>3. ASSUME NEW d \in Callers, d # c PROVE CallerInv(d)'
  <2>1. Untouched(d)
    BY <1>3 DEF Inv, Shapes, Store, At, Untouched
  <2> QED BY <1>3, <2>1, OthersKeepCallerInv DEF Inv, Store
<1>4. CacheInv'
  <2>1. CASE keyed[c] /\ Cacheable(result[c])
    <3> DEFINE key == Key(override, job[c])
    <3>1. key.shadow = ShadowOn(override, job[c].policy)
      BY DEF Key
    <3>2. PICK kept \in Evicted(key) :
            cache' = [k \in kept \cup {key} |->
                        IF k = key THEN [at |-> now, verdict |-> result[c]]
                        ELSE cache[k]]
      BY <2>1 DEF Store
    <3> HIDE DEF key
    <3>3. /\ kept \subseteq DOMAIN cache
          /\ IsFiniteSet(kept \cup {key})
          /\ Cardinality(kept \cup {key}) <= Cap
      BY EvictedLeavesRoom DEF Inv, CacheInv
    <3>4. /\ now' = now /\ now \in 0 .. now
          /\ result[c].rank \in Rank
          /\ result[c].shadow = key.shadow
      BY <3>1, MaxTimeAssumption
         DEF Inv, Shapes, CallerInv, Store, At
    <3>5. ASSUME NEW k \in kept \cup {key} PROVE StoredOK(k)'
      <4>1. CASE k = key
        BY <2>1, <3>2, <3>4, <4>1 DEF StoredOK
      <4>2. CASE k # key
        BY <3>2, <3>3, <3>4, <4>2 DEF Inv, CacheInv, StoredOK
      <4> QED BY <4>1, <4>2
    <3>6. DOMAIN cache' = kept \cup {key}
      BY <3>2
    <3> QED BY <3>3, <3>5, <3>6 DEF CacheInv, CacheBounded
  <2>2. CASE ~(keyed[c] /\ Cacheable(result[c]))
    BY <2>2, SameCacheKeepsCacheInv DEF Inv, Store
  <2> QED BY <2>1, <2>2
<1> QED BY <1>1, <1>2, <1>3, <1>4 DEF Inv

LEMMA SharedKeepsInv ==
  ASSUME Inv, Tick \/ Reconfigure \/ ReplaceFake \/ UNCHANGED vars
  PROVE  Inv'
<1>1. CASE Tick
  <2>1. Shapes'
    BY <1>1, MaxTimeAssumption DEF Tick, Inv, Shapes
  <2>2. CacheInv'
    BY <1>1, MaxTimeAssumption
       DEF Tick, Inv, Shapes, CacheInv, StoredOK, CacheBounded
  <2>3. ASSUME NEW c \in Callers PROVE CallerInv(c)'
    BY <1>1 DEF Tick, Inv, CallerInv
  <2> QED BY <2>1, <2>2, <2>3 DEF Inv
<1>2. CASE Reconfigure
  <2>1. Shapes'
    BY <1>2 DEF Reconfigure, Inv, Shapes
  <2>2. CacheInv'
    BY <1>2, SameCacheKeepsCacheInv DEF Reconfigure, Inv
  <2>3. ASSUME NEW c \in Callers PROVE CallerInv(c)'
    BY <1>2 DEF Reconfigure, AllIdle, Inv, CallerInv
  <2> QED BY <2>1, <2>2, <2>3 DEF Inv
<1>3. CASE ReplaceFake
  <2>1. Shapes'
    BY <1>3 DEF ReplaceFake, Inv, Shapes
  <2>2. DOMAIN cache' = {}
    BY <1>3 DEF ReplaceFake
  <2>3. CacheInv'
    BY <2>2, FS_EmptySet, CapAssumption DEF CacheInv, CacheBounded
  <2>4. ASSUME NEW c \in Callers PROVE CallerInv(c)'
    BY <1>3 DEF ReplaceFake, Inv, CallerInv
  <2> QED BY <2>1, <2>3, <2>4 DEF Inv
<1>4. CASE UNCHANGED vars
  <2>1. Shapes' /\ CacheInv'
    BY <1>4 DEF vars, Inv, Shapes, CacheInv, StoredOK, CacheBounded
  <2>2. ASSUME NEW c \in Callers PROVE CallerInv(c)'
    BY <1>4 DEF vars, Inv, CallerInv
  <2> QED BY <2>1, <2>2 DEF Inv
<1> QED BY <1>1, <1>2, <1>3, <1>4

-----------------------------------------------------------------------------
(* The theorems.                                                           *)

(* The invariant holds however many callers share the client.              *)
THEOREM Invariance == Spec => []Inv
<1>1. Init => Inv
  BY InitInv
<1>2. Inv /\ [Next]_vars => Inv'
  <2> SUFFICES ASSUME Inv, [Next]_vars PROVE Inv'
    OBVIOUS
  <2>1. ASSUME NEW c \in Callers, Start(c) PROVE Inv'
    BY <2>1, StartKeepsInv
  <2>2. ASSUME NEW c \in Callers, Step(c) PROVE Inv'
    BY <2>2, LookupKeepsInv, EvaluationKeepsInv, AppendKeepsInv, StoreKeepsInv
       DEF Step
  <2> QED BY <2>1, <2>2, SharedKeepsInv DEF Next
<1> QED BY <1>1, <1>2, PTL DEF Spec

(* gate_with and its cache keep their types.                               *)
THEOREM TypeCorrect == Spec => []TypeOK
<1>1. Inv => TypeOK
  BY DEF Inv, Shapes, CacheInv, StoredOK, CallerInv, TypeOK
<1> QED BY <1>1, Invariance, PTL

(* cache_put keeps the cache within cache_capacity.                        *)
THEOREM CacheStaysBounded == Spec => []CacheBounded
<1>1. Inv => CacheBounded
  BY DEF Inv, CacheInv
<1> QED BY <1>1, Invariance, PTL

(* cacheable keeps every verdict of a failed backend out of the cache, so  *)
(* nobody is told of an outage that was not met by its own call.           *)
THEOREM OutagesStayOwn == Spec => []OutagesAreOwn
<1>1. Inv => OutagesAreOwn
  BY DEF Inv, CallerInv, OutagesAreOwn
<1> QED BY <1>1, Invariance, PTL

(* log_lock excludes: at most one caller is inside append_gate_log.        *)
THEOREM LogLockExcludes == Spec => []OneWriter
<1>1. Inv => OneWriter
  BY DEF Inv, CallerInv, OneWriter
<1> QED BY <1>1, Invariance, PTL

(* record logs each verdict exactly once before gate_with returns it.      *)
THEOREM RepliesLogged == Spec => []RepliesAreLogged
<1>1. Inv => RepliesAreLogged
  BY DEF Inv, CallerInv, RepliesAreLogged
<1> QED BY <1>1, Invariance, PTL

(* gate_cache_key covers the shadow mode, so a cached verdict never brings *)
(* back a mode that is no longer in force.                                 *)
THEOREM ShadowCurrent == Spec => []ShadowIsCurrent
<1>1. Inv => ShadowIsCurrent
  BY DEF Inv, CallerInv, ShadowIsCurrent
<1> QED BY <1>1, Invariance, PTL

-----------------------------------------------------------------------------
(* The client implements the abstract service, for any number of callers   *)
(* and any cache: Spec => ImplementsService.  Each step of gate_with maps  *)
(* to a step of GateService or to none, under the mapping of GateClient.   *)

(* What the mapping reads, for steps that leave parts of the state alone.  *)
LEMMA SameCacheForgetsNothing ==
  ASSUME UNCHANGED cache
  PROVE  Remembered' = Remembered
BY DEF Remembered

LEMMA FewerKeysForget ==
  ASSUME NEW kept, kept \subseteq DOMAIN cache,
         cache' = Restricted(cache, kept)
  PROVE  Remembered' \subseteq Remembered
<1>1. cache' = [k \in kept |-> cache[k]]
  BY DEF Restricted
<1>2. ASSUME NEW k \in kept PROVE cache'[k] = cache[k] /\ k \in DOMAIN cache
  BY <1>1
<1>3. DOMAIN cache' = kept
  BY <1>1
<1> QED BY <1>2, <1>3 DEF Remembered

(* Where the phases are, place by place.                                   *)
LEMMA Phases ==
  /\ PhaseOf("idle") = "idle"
  /\ PhaseOf("lookup") = "asked"
  /\ PhaseOf("uncached") = "scoring" /\ PhaseOf("evaluating") = "scoring"
  /\ PhaseOf("recording") = "decided" /\ PhaseOf("appending") = "decided"
  /\ PhaseOf("storing") = "published"
BY DEF PhaseOf

(* One caller moves on; the phase of the others stays.                     *)
LEMMA PhaseMoves ==
  ASSUME Inv, NEW c \in Callers, NEW from \in PC, NEW to \in PC,
         At(c, from, to)
  PROVE  /\ Phase[c] = PhaseOf(from)
         /\ Phase' = [Phase EXCEPT ![c] = PhaseOf(to)]
<1>1. pc \in [Callers -> PC] /\ pc' = [pc EXCEPT ![c] = to] /\ pc[c] = from
  BY DEF Inv, Shapes, At
<1>2. pc' = [d \in Callers |-> IF d = c THEN to ELSE pc[d]]
  BY <1>1
<1>3. Phase' = [d \in Callers |-> IF d = c THEN PhaseOf(to) ELSE Phase[d]]
  BY <1>2 DEF Phase
<1> QED BY <1>1, <1>3 DEF Phase

LEMMA StartRefines ==
  ASSUME Inv, NEW c \in Callers, Start(c)
  PROVE  Service!Ask(c)
<1>1. Phase[c] = "idle" /\ Phase' = [Phase EXCEPT ![c] = "asked"]
  BY PhaseMoves, Phases DEF Start, PC
<1>2. Remembered' = Remembered
  BY SameCacheForgetsNothing DEF Start
<1> QED BY <1>1, <1>2 DEF Start, Service!Ask, Service!Forgets

(* A hit reuses a live entry; a miss has none to reuse.                    *)
LEMMA LookupRefines ==
  ASSUME Inv, NEW c \in Callers
  PROVE  /\ CacheHit(c) => Service!Reused(c)
         /\ CacheMiss(c) => Service!Consult(c)
<1> DEFINE key == Key(override, job[c])
           entry == [key |-> key, verdict |-> cache[key].verdict,
                     at |-> cache[key].at]
<1>1. ASSUME CacheHit(c) PROVE Service!Reused(c)
  <2>1. Phase[c] = "asked" /\ Phase' = [Phase EXCEPT ![c] = "decided"]
    BY <1>1, PhaseMoves, Phases DEF CacheHit, PC
  <2>2. Remembered' = Remembered
    BY <1>1, SameCacheForgetsNothing DEF CacheHit
  <2>3. /\ entry \in Remembered
        /\ now - entry.at <= TTL
        /\ result' = [result EXCEPT ![c] = entry.verdict]
    BY <1>1 DEF CacheHit, Live, Remembered
  <2>4. Service!Alive(c, entry)
    BY <2>3 DEF Service!Alive, ServiceKey
  <2> HIDE DEF entry
  <2>5. \E e \in Remembered :
          /\ Service!Alive(c, e)
          /\ result' = [result EXCEPT ![c] = e.verdict]
    BY <2>3, <2>4
  <2> QED
    BY <1>1, <2>1, <2>2, <2>5 DEF CacheHit, Service!Reused, Service!Forgets
<1>2. ASSUME CacheMiss(c) PROVE Service!Consult(c)
  <2>1. Phase[c] = "asked" /\ Phase' = [Phase EXCEPT ![c] = "scoring"]
    BY <1>2, PhaseMoves, Phases DEF CacheMiss, PC
  <2>2. Remembered' \subseteq Remembered
    BY <1>2, FewerKeysForget DEF CacheMiss
  <2>3. ASSUME NEW e \in Remembered PROVE ~Service!Alive(c, e)
    <3>1. PICK k \in DOMAIN cache :
            e = [key |-> k, verdict |-> cache[k].verdict, at |-> cache[k].at]
      BY DEF Remembered
    <3>2. e.key = k /\ e.at = cache[k].at
      BY <3>1
    <3>3. ~(k = key /\ now - cache[k].at <= TTL)
      BY <1>2 DEF CacheMiss, Live
    <3> QED BY <3>2, <3>3 DEF Service!Alive, ServiceKey
  <2> QED
    BY <1>2, <2>1, <2>2, <2>3 DEF CacheMiss, Service!Consult, Service!Forgets
<1> QED BY <1>1, <1>2

(* What the scorer, or its failure, brings is a fresh verdict of the call. *)
LEMMA VerdictsAreFresh ==
  ASSUME NEW c \in Callers
  PROVE  /\ \A reason \in {"wire", "backend"} :
              Stamped(override, ClosedFor(c, reason), job[c])
                \in FreshVerdicts(job[c], override)
         /\ \A response \in Responses :
              Stamped(override,
                      Judge(job[c].policy, job[c].request,
                            FailFor(override, job[c].policy), response),
                      job[c])
                \in FreshVerdicts(job[c], override)
BY DEF FreshVerdicts, ClosedFor

LEMMA VerdictRefines ==
  ASSUME Inv, NEW c \in Callers,
         EncodeFails(c) \/ EvaluateFails(c) \/ EvaluateAnswers(c)
  PROVE  Service!Judged(c)
<1>1. Phase[c] = "scoring" /\ Phase' = [Phase EXCEPT ![c] = "decided"]
  <2>1. CASE EncodeFails(c)
    BY <2>1, PhaseMoves, Phases DEF EncodeFails, PC
  <2>2. CASE EvaluateFails(c)
    BY <2>2, PhaseMoves, Phases DEF EvaluateFails, PC
  <2>3. CASE EvaluateAnswers(c)
    BY <2>3, PhaseMoves, Phases DEF EvaluateAnswers, PC
  <2> QED BY <2>1, <2>2, <2>3
<1>2. PICK verdict : /\ Decided(c, verdict)
                     /\ Stamped(override, verdict, job[c])
                          \in FreshVerdicts(job[c], override)
  <2>1. CASE EncodeFails(c)
    BY <2>1, VerdictsAreFresh DEF EncodeFails
  <2>2. CASE EvaluateFails(c)
    BY <2>2, VerdictsAreFresh DEF EvaluateFails
  <2>3. CASE EvaluateAnswers(c)
    BY <2>3, VerdictsAreFresh DEF EvaluateAnswers
  <2> QED BY <2>1, <2>2, <2>3
<1>3. Remembered' = Remembered
  BY <1>2, SameCacheForgetsNothing DEF Decided
<1> QED BY <1>1, <1>2, <1>3 DEF Decided, Service!Judged, Service!Forgets

LEMMA GivingUpRefines ==
  ASSUME Inv, NEW c \in Callers, PolicyRefused(c) \/ Dropped(c)
  PROVE  Service!Abandoned(c)
<1>1. Phase[c] = "scoring" /\ Phase' = [Phase EXCEPT ![c] = "idle"]
  <2>1. CASE PolicyRefused(c)
    BY <2>1, PhaseMoves, Phases DEF PolicyRefused, PC
  <2>2. CASE Dropped(c)
    BY <2>2, PhaseMoves, Phases DEF Dropped, PC
  <2> QED BY <2>1, <2>2
<1>2. Remembered' = Remembered
  BY SameCacheForgetsNothing DEF PolicyRefused, Dropped
<1> QED BY <1>1, <1>2
        DEF PolicyRefused, Dropped, Service!Abandoned, Service!Forgets

(* The call to the scorer and the wait for the log lock are not seen.      *)
LEMMA WaitingStutters ==
  ASSUME Inv, NEW c \in Callers, Evaluate(c) \/ TakeLogLock(c)
  PROVE  UNCHANGED Service!svars
<1>1. Phase' = Phase
  <2>1. Phase = [Phase EXCEPT ![c] = Phase[c]]
    BY DEF Phase
  <2>2. CASE Evaluate(c)
    <3>1. Phase[c] = "scoring" /\ Phase' = [Phase EXCEPT ![c] = "scoring"]
      BY <2>2, PhaseMoves, Phases DEF Evaluate, PC
    <3> QED BY <2>1, <3>1
  <2>3. CASE TakeLogLock(c)
    <3>1. Phase[c] = "decided" /\ Phase' = [Phase EXCEPT ![c] = "decided"]
      BY <2>3, PhaseMoves, Phases DEF TakeLogLock, PC
    <3> QED BY <2>1, <3>1
  <2> QED BY <2>2, <2>3
<1>2. Remembered' = Remembered
  BY SameCacheForgetsNothing DEF Evaluate, TakeLogLock
<1> QED BY <1>1, <1>2 DEF Evaluate, TakeLogLock, Service!svars

LEMMA AppendRefines ==
  ASSUME Inv, NEW c \in Callers
  PROVE  /\ RowAppended(c) => Service!Published(c)
         /\ AppendFails(c) => Service!NotPublished(c)
<1>1. ASSUME RowAppended(c) PROVE Service!Published(c)
  <2>1. Phase[c] = "decided" /\ Phase' = [Phase EXCEPT ![c] = "published"]
    BY <1>1, PhaseMoves, Phases DEF RowAppended, PC
  <2>2. Remembered' = Remembered
    BY <1>1, SameCacheForgetsNothing DEF RowAppended
  <2> QED
    BY <1>1, <2>1, <2>2 DEF RowAppended, Service!Published, Service!Forgets
<1>2. ASSUME AppendFails(c) PROVE Service!NotPublished(c)
  <2>1. Phase[c] = "decided" /\ Phase' = [Phase EXCEPT ![c] = "idle"]
    BY <1>2, PhaseMoves, Phases DEF AppendFails, PC
  <2>2. Remembered' = Remembered
    BY <1>2, SameCacheForgetsNothing DEF AppendFails
  <2> QED
    BY <1>2, <2>1, <2>2 DEF AppendFails, Service!NotPublished, Service!Forgets
<1> QED BY <1>1, <1>2

(* cache_put adds the fresh verdict as of now, and may evict another.      *)
LEMMA StoreRefines ==
  ASSUME Inv, NEW c \in Callers, Store(c)
  PROVE  Service!Replied(c)
<1> DEFINE key == Key(override, job[c])
           entry == [key |-> key, verdict |-> result[c], at |-> now]
<1>1. Phase[c] = "published" /\ Phase' = [Phase EXCEPT ![c] = "idle"]
  BY PhaseMoves, Phases DEF Store, PC
<1>2. Remembered' \subseteq
        Remembered \cup (IF keyed[c] /\ Cacheable(result[c]) THEN {entry}
                        ELSE {})
  <2>1. CASE keyed[c] /\ Cacheable(result[c])
    <3>1. PICK kept \in Evicted(key) :
            cache' = [k \in kept \cup {key} |->
                        IF k = key THEN [at |-> now, verdict |-> result[c]]
                        ELSE cache[k]]
      BY <2>1 DEF Store
    <3>2. kept \subseteq DOMAIN cache
      BY DEF Evicted
    <3> HIDE DEF key
    <3>3. DOMAIN cache' = kept \cup {key}
      BY <3>1
    <3>4. ASSUME NEW e \in Remembered' PROVE e \in Remembered \cup {entry}
      <4>1. PICK k \in DOMAIN cache' :
              e = [key |-> k, verdict |-> cache'[k].verdict,
                   at |-> cache'[k].at]
        BY DEF Remembered
      <4>2. CASE k = key
        <5>1. cache'[k] = [at |-> now, verdict |-> result[c]]
          BY <3>1, <4>2
        <5> QED BY <4>1, <4>2, <5>1
      <4>3. CASE k # key
        <5>1. k \in DOMAIN cache /\ cache'[k] = cache[k]
          BY <3>1, <3>2, <3>3, <4>1, <4>3
        <5> QED BY <4>1, <5>1 DEF Remembered
      <4> QED BY <4>2, <4>3
    <3> QED BY <2>1, <3>4
  <2>2. CASE ~(keyed[c] /\ Cacheable(result[c]))
    <3>1. Remembered' = Remembered
      BY <2>2, SameCacheForgetsNothing DEF Store
    <3> QED BY <3>1
  <2> QED BY <2>1, <2>2
<1> QED BY <1>1, <1>2 DEF Store, Service!Replied, ServiceKey

(* The clock, and the host that has the client to itself.                  *)
LEMMA SharedRefines ==
  ASSUME Inv
  PROVE  /\ Tick => Service!Elapse
         /\ Reconfigure => Service!SetUp
         /\ ReplaceFake => Service!Forget
         /\ UNCHANGED vars => UNCHANGED Service!svars
<1>1. ASSUME UNCHANGED pc PROVE Phase' = Phase
  BY <1>1 DEF Phase
<1>2. ASSUME Tick PROVE Service!Elapse
  BY <1>1, <1>2, SameCacheForgetsNothing DEF Tick, Service!Elapse
<1>3. ASSUME Reconfigure PROVE Service!SetUp
  <2>1. \A c \in Callers : Phase[c] = "idle"
    BY <1>3, Phases DEF Reconfigure, AllIdle, Phase
  <2> QED
    BY <1>1, <1>3, <2>1, SameCacheForgetsNothing
       DEF Reconfigure, Service!SetUp, Service!Forgets
<1>4. ASSUME ReplaceFake PROVE Service!Forget
  <2>1. Remembered' = {}
    BY <1>4 DEF ReplaceFake, Remembered
  <2> QED
    BY <1>1, <1>4, <2>1 DEF ReplaceFake, Service!Forget, Service!Forgets
<1>5. ASSUME UNCHANGED vars PROVE UNCHANGED Service!svars
  BY <1>1, <1>5, SameCacheForgetsNothing DEF vars, Service!svars
<1> QED BY <1>2, <1>3, <1>4, <1>5

LEMMA InitRefines == Init => Service!Init
<1> SUFFICES ASSUME Init PROVE Service!Init
  OBVIOUS
<1>1. Phase = [c \in Callers |-> "idle"]
  BY Phases DEF Init, Phase
<1>2. Remembered = {}
  BY DEF Init, Remembered
<1>3. job \in [Callers -> Calls]
  BY CallsAssumption DEF Init
<1> QED BY <1>1, <1>2, <1>3 DEF Init, Service!Init

-----------------------------------------------------------------------------
(* gate_with, with its cache, its log lock and any number of callers, does *)
(* what GateService promises of gate: every answer is fresh, or was judged *)
(* no longer than the TTL ago for a call with the same key and was not an  *)
(* outage, and it is in the log before it is given.                        *)
THEOREM Refinement == Spec => ImplementsService
<1>1. Init => Service!Init
  BY InitRefines
<1>2. Inv /\ [Next]_vars => [Service!Next]_(Service!svars)
  <2> SUFFICES ASSUME Inv, [Next]_vars
               PROVE  Service!Next \/ UNCHANGED Service!svars
    OBVIOUS
  <2>1. ASSUME NEW c \in Callers, Start(c) PROVE Service!Next
    BY <2>1, StartRefines DEF Service!Next
  <2>2. ASSUME NEW c \in Callers, Step(c)
        PROVE  Service!Next \/ UNCHANGED Service!svars
    BY <2>2, LookupRefines, VerdictRefines, GivingUpRefines, WaitingStutters,
       AppendRefines, StoreRefines DEF Step, Service!Next
  <2> QED BY <2>1, <2>2, SharedRefines DEF Next, Service!Next
<1> QED BY <1>1, <1>2, Invariance, PTL
        DEF ImplementsService, Spec, Service!Spec

=============================================================================
