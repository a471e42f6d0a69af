--------------------------- MODULE HttpHopProofs ---------------------------
(***************************************************************************)
(* The safety of HttpBackend::evaluate, for every deadline, retry cap,     *)
(* Retry-After header and set of keys.                                     *)
(***************************************************************************)
EXTENDS HttpHop, TLAPS

(* The inductive invariant.  A request is counted by its retry only after  *)
(* the sleep, so between Send and Wake there is one more than retries.     *)
Shapes ==
  /\ now \in 0 .. MaxTime
  /\ slot \in Keys
  /\ stage \in {"start", "ready", "sent", "body", "asleep", "done"}
  /\ key \in Keys \cup {NoKey}
  /\ retries \in 0 .. MaxRetries
  /\ wake \in Int
  /\ outcome \in {"pending", "evaluated"} \cup Errors
  /\ status \in {0, 200, 302, 401, 422, 429, 500, 529}
  /\ stage \in {"body", "asleep"} => status # 0
  /\ sends \in Seq([at : Int, key : Keys \cup {NoKey}])

Counted ==
  /\ Len(sends) <= retries + 1
  /\ stage \in {"start", "ready"} => Len(sends) <= retries
  /\ stage = "start" => sends = <<>>
  /\ stage = "asleep" => retries < MaxRetries

Keyed == \A i \in 1 .. Len(sends) : sends[i].key = key

InTime == \A i \in 1 .. Len(sends) : sends[i].at < Deadline

Inv == Shapes /\ Counted /\ Keyed /\ InTime

LEMMA InitInv == Init => Inv
BY TimesAssumption, MaxRetriesAssumption
   DEF Init, Inv, Shapes, Counted, Keyed, InTime

(* An evaluation that returns keeps everything but stage and outcome.      *)
LEMMA ReturnKeepsInv ==
  ASSUME Inv, NEW what \in {"evaluated"} \cup Errors, Return(what)
  PROVE  Inv'
BY DEF Inv, Shapes, Counted, Keyed, InTime, Return

(* The statuses that are reported are errors of the backend.               *)
LEMMA StatusErrorIsError ==
  ASSUME status \in {401, 422, 429, 500, 529}
  PROVE  StatusError \in Errors
BY DEF StatusError, Errors

LEMMA ReturnsKeepInv ==
  ASSUME Inv,
         \/ TooLate \/ SendTimesOut \/ SendFails \/ BodyRead \/ BodyFails
         \/ BodyTimesOut \/ Redirected \/ Refused \/ GiveUp
  PROVE  Inv'
<1>1. \E what \in {"evaluated"} \cup Errors : Return(what)
  <2>1. CASE TooLate
    BY <2>1 DEF TooLate, Errors
  <2>2. CASE SendTimesOut
    BY <2>2 DEF SendTimesOut, Errors
  <2>3. CASE SendFails
    BY <2>3 DEF SendFails, Errors
  <2>4. CASE BodyRead
    BY <2>4 DEF BodyRead
  <2>5. CASE BodyFails
    BY <2>5 DEF BodyFails, Errors
  <2>6. CASE BodyTimesOut
    BY <2>6, StatusErrorIsError DEF BodyTimesOut, Errors
  <2>7. CASE Redirected
    BY <2>7 DEF Redirected, Errors
  <2>8. CASE Refused
    BY <2>8, StatusErrorIsError DEF Refused, Errors
  <2>9. CASE GiveUp
    BY <2>9, StatusErrorIsError DEF GiveUp, Throttled
  <2> QED BY <2>1, <2>2, <2>3, <2>4, <2>5, <2>6, <2>7, <2>8, <2>9
<1> QED BY <1>1, ReturnKeepsInv

LEMMA CopyKeyKeepsInv == ASSUME Inv, CopyKey PROVE Inv'
BY DEF Inv, Shapes, Counted, Keyed, InTime, CopyKey

(* One more request, with the key copied at the start, before the deadline *)
LEMMA SendKeepsInv ==
  ASSUME Inv, Send
  PROVE  Inv'
<1> DEFINE request == [at |-> now, key |-> key]
<1>1. /\ sends \in Seq([at : Int, key : Keys \cup {NoKey}])
      /\ request \in [at : Int, key : Keys \cup {NoKey}]
      /\ sends' = Append(sends, request)
  BY TimesAssumption DEF Inv, Shapes, Send
<1>2. /\ sends' \in Seq([at : Int, key : Keys \cup {NoKey}])
      /\ Len(sends') = Len(sends) + 1
      /\ \A i \in 1 .. Len(sends) : sends'[i] = sends[i]
      /\ sends'[Len(sends) + 1] = request
  BY <1>1
<1>3. Len(sends) \in Nat
  BY <1>1
<1>4. \A i \in 1 .. Len(sends') : i \in 1 .. Len(sends) \/ i = Len(sends) + 1
  BY <1>2, <1>3
<1>5. Shapes'
  BY <1>2 DEF Inv, Shapes, Send
<1>6. Counted'
  BY <1>2, <1>3 DEF Inv, Shapes, Counted, Send
<1>7. Keyed'
  BY <1>2, <1>4 DEF Inv, Keyed, Send
<1>8. InTime'
  BY <1>2, <1>4 DEF Inv, InTime, Send
<1> QED BY <1>5, <1>6, <1>7, <1>8 DEF Inv

LEMMA RespondKeepsInv == ASSUME Inv, Respond PROVE Inv'
BY DEF Inv, Shapes, Counted, Keyed, InTime, Respond, HeadArrives

(* A sleep is begun only below the cap.                                    *)
LEMMA BackOffKeepsInv ==
  ASSUME Inv, BackOff
  PROVE  Inv'
<1>1. PICK header \in RetryAfters :
        wake' = now + Requested(header)
  BY DEF BackOff
<1>2. Requested(header) \in Int
  BY RetryAftersAssumption, MaxRetriesAssumption
     DEF Requested, Inv, Shapes, Absent
<1>3. wake' \in Int
  BY <1>1, <1>2, TimesAssumption DEF Inv, Shapes
<1>4. retries < MaxRetries
  BY DEF BackOff
<1> QED
  BY <1>3, <1>4
     DEF Inv, Shapes, Counted, Keyed, InTime, BackOff, Throttled

LEMMA WakeKeepsInv == ASSUME Inv, Wake PROVE Inv'
BY MaxRetriesAssumption
   DEF Inv, Shapes, Counted, Keyed, InTime, Wake

(* The host and the clock change the key in the slot and the time only.    *)
LEMMA WorldKeepsInv == ASSUME Inv, Rotate \/ Tick \/ UNCHANGED vars PROVE Inv'
<1>1. UNCHANGED <<stage, key, retries, budget, status, wake, outcome, sends>>
  BY DEF Rotate, Tick, vars
<1>2. now' \in 0 .. MaxTime
  <2>1. CASE Rotate
    BY <2>1 DEF Rotate, Inv, Shapes
  <2>2. CASE Tick
    BY <2>2, TimesAssumption DEF Tick, Inv, Shapes
  <2>3. CASE UNCHANGED vars
    BY <2>3 DEF vars, Inv, Shapes
  <2> QED BY <2>1, <2>2, <2>3
<1>3. slot' \in Keys
  BY DEF Rotate, Tick, vars, Inv, Shapes
<1>4. Shapes'
  BY <1>1, <1>2, <1>3 DEF Inv, Shapes
<1>5. Counted'
  BY <1>1 DEF Inv, Counted
<1>6. Keyed'
  BY <1>1 DEF Inv, Keyed
<1>7. InTime'
  BY <1>1 DEF Inv, InTime
<1> QED BY <1>4, <1>5, <1>6, <1>7 DEF Inv

-----------------------------------------------------------------------------
(* The invariant holds whatever the server and the network do.             *)
THEOREM Invariance == Spec => []Inv
<1>1. Inv /\ [Next]_vars => Inv'
  BY ReturnsKeepInv, CopyKeyKeepsInv, SendKeepsInv, RespondKeepsInv,
     BackOffKeepsInv, WakeKeepsInv, WorldKeepsInv DEF Next, Local, Network
<1> QED BY <1>1, InitInv, PTL DEF Spec

(* The variables keep their types.                                         *)
THEOREM TypeCorrect == Spec => []TypeOK
<1>1. Inv => TypeOK
  BY DEF Inv, Shapes, TypeOK
<1> QED BY <1>1, Invariance, PTL

(* evaluate reads the key once: no rotation splits its requests.           *)
THEOREM OneKey == Spec => []OneKeyPerCall
<1>1. Inv => OneKeyPerCall
  BY DEF Inv, Shapes, Keyed, OneKeyPerCall
<1> QED BY <1>1, Invariance, PTL

(* MAX_RETRIES and the deadline bound the requests of one evaluation.      *)
THEOREM RequestsBounded == Spec => []RequestsAreBounded
<1>1. Inv => RequestsAreBounded
  BY MaxRetriesAssumption
     DEF Inv, Shapes, Counted, InTime, RequestsAreBounded
<1> QED BY <1>1, Invariance, PTL

=============================================================================
