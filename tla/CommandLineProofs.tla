-------------------------- MODULE CommandLineProofs --------------------------
(***************************************************************************)
(* What holds of the command line for any policies, calls, answers, edits  *)
(* and sessions: a row of the log says enough, so that replay comes to the *)
(* verdict it was logged with wherever nothing was left out of it; a call  *)
(* is decided under one policy, with the claim of its whole turn; and that *)
(* turn is one the session was at.                                         *)
(***************************************************************************)
EXTENDS CommandLine, FiniteSetTheorems, FunctionTheorems, SequenceTheorems,
        WellFoundedInduction, TLAPS

-----------------------------------------------------------------------------
(* Largest and least elements.                                             *)

LEMMA LeastIs ==
  ASSUME NEW S, S \subseteq Int, NEW n \in S, \A m \in S : n <= m
  PROVE  Min(S) = n
<1>1. Min(S) \in S /\ \A m \in S : Min(S) <= m
  BY DEF Min
<1> DEFINE m == Min(S)
<1> HIDE DEF m
<1>2. /\ m \in Int /\ n \in Int
      /\ m <= n /\ n <= m
  BY <1>1 DEF m
<1>3. m = n
  BY <1>2
<1> QED BY <1>3 DEF m

LEMMA GreatestIs ==
  ASSUME NEW S, S \subseteq Int, NEW n \in S, \A m \in S : n >= m
  PROVE  Max(S) = n
<1>1. Max(S) \in S /\ \A m \in S : Max(S) >= m
  BY DEF Max
<1> DEFINE m == Max(S)
<1> HIDE DEF m
<1>2. /\ m \in Int /\ n \in Int
      /\ m >= n /\ n >= m
  BY <1>1 DEF m
<1>3. m = n
  BY <1>2
<1> QED BY <1>3 DEF m

-----------------------------------------------------------------------------
(* Judge branch by branch.                                                 *)

JudgeGates(policy, request, r) ==
  EffectiveGates(policy, request.action, r.answers[HarmId].label)

JudgeHit(policy, request, r) ==
  BlockHit(policy, request, JudgeGates(policy, request, r).block_on,
           r.answers)

JudgeNotes(policy, request, r) ==
  (IF JudgeGates(policy, request, r).bumped THEN {"harm_class_bump"} ELSE {})
    \cup (IF CascadeStillUnsure(policy, r) THEN {"cascade_still_unsure"}
          ELSE {})

JudgeSet(policy, request, r) ==
  LET gs == JudgeGates(policy, request, r)
  IN  {VerdictFromSignal(Signal(policy, r.answers[HarmId]), gs)}
        \cup UnsureBlocks(policy, gs, r.answers)
        \cup ExtraVerdicts(policy, request, gs, r.answers)
        \cup (IF Truncated(request)
                THEN {WhenUnsureBump(gs, "truncated")} ELSE {})

LEMMA Judged ==
  ASSUME NEW policy, NEW request, NEW fail, NEW r
  PROVE  LET judged == Judge(policy, request, fail, r)
             hit    == JudgeHit(policy, request, r)
             folded == Strictest(JudgeSet(policy, request, r))
             notes == JudgeNotes(policy, request, r)
             signal == Signal(policy, r.answers[HarmId])
         IN  /\ ~CheckResponse(request, r.answers) =>
                  judged = ClosedOn(policy, request, fail, "decode")
             /\ CheckResponse(request, r.answers) =>
                  /\ hit = "unreadable" =>
                       judged = Closed(fail, JudgeGates(policy, request, r),
                                       "decode")
                  /\ hit = "fires" =>
                       judged = [rank |-> HintEscalate,
                                 reasons |-> {"battery"} \cup notes,
                                 signal |-> signal]
                  /\ hit = "none" =>
                       judged = [rank |-> folded.rank,
                                 reasons |-> folded.reasons \cup notes,
                                 signal |-> signal]
BY DEF Judge, ClosedOn, JudgeGates, JudgeHit, JudgeNotes, JudgeSet

LEMMA HitCases ==
  ASSUME NEW policy, NEW request, NEW r
  PROVE  JudgeHit(policy, request, r) \in {"none", "unreadable", "fires"}
BY DEF JudgeHit, BlockHit

-----------------------------------------------------------------------------
(* Places in a sequence.                                                   *)

Below == {pair \in Nat \X Nat : pair[1] < pair[2]}

LEMMA BelowIsWellFounded == IsWellFoundedOn(Below, Nat)
BY NatLessThanWellFounded DEF OpToRel, Below

LEMMA LeastThere ==
  ASSUME NEW S, S \subseteq Nat, S # {}
  PROVE  Min(S) \in S /\ \A m \in S : Min(S) <= m
<1>1. PICK n \in S : \A m \in S : ~(<<m, n>> \in Below)
  BY BelowIsWellFounded, WFMin
<1>2. ASSUME NEW m \in S PROVE n <= m
  <2>1. m < n => <<m, n>> \in Below
    BY DEF Below
  <2> QED BY <1>1, <2>1
<1>3. S \subseteq Int /\ \A m \in S : n <= m
  BY <1>2
<1>4. Min(S) = n
  BY <1>3, LeastIs
<1> QED BY <1>3, <1>4

LEMMA GreatestThere ==
  ASSUME NEW S, NEW n \in Nat, S \subseteq 1 .. n, S # {}
  PROVE  Max(S) \in S /\ \A m \in S : Max(S) >= m
<1> DEFINE T == {n - m : m \in S}
<1>1. T \subseteq Nat /\ T # {}
  <2>1. \A m \in S : m \in Int /\ m <= n
    OBVIOUS
  <2>2. PICK m \in S : TRUE
    OBVIOUS
  <2>3. n - m \in T
    BY <2>2
  <2> QED BY <2>1, <2>3
<1>2. PICK t \in T : \A u \in T : ~(<<u, t>> \in Below)
  <2> HIDE DEF T
  <2> QED BY <1>1, BelowIsWellFounded, WFMin
<1>3. PICK top \in S : t = n - top
  OBVIOUS
<1>4. \A m \in S : n - m \in T
  OBVIOUS
<1> HIDE DEF T
<1>5. \A m \in S : top >= m
  <2> SUFFICES ASSUME NEW m \in S PROVE top >= m
    OBVIOUS
  <2>1. ~(n - m < t)
    BY <1>1, <1>2, <1>4 DEF Below
  <2> QED BY <1>3, <2>1
<1>6. S \subseteq Int
  OBVIOUS
<1>7. Max(S) = top
  BY <1>5, <1>6, GreatestIs
<1> QED BY <1>5, <1>7

-----------------------------------------------------------------------------
(* clip_turn and approval_excerpt: what is sent of a turn makes the claims *)
(* the turn makes.                                                         *)

Word == STRING \cup {Cut}

LEMMA ClaimIs ==
  /\ Claim \in Seq(STRING) /\ Len(Claim) \in Nat /\ Len(Claim) > 0
  /\ \A k \in 1 .. Len(Claim) : Claim[k] \in STRING /\ Claim[k] # Cut
<1>1. Claim \in Seq(STRING) /\ Claim # <<>> /\ Cut \notin Range(Claim)
  BY ClaimAssumption
<1>2. Len(Claim) \in Nat /\ DOMAIN Claim = 1 .. Len(Claim)
      /\ \A k \in 1 .. Len(Claim) : Claim[k] \in STRING
  BY <1>1
<1>3. Len(Claim) > 0
  BY <1>1, <1>2, EmptySeq
<1>4. \A k \in DOMAIN Claim : Claim[k] # Cut
  BY <1>1 DEF Range
<1> QED BY <1>1, <1>2, <1>3, <1>4

(* A place of the claim, word by word.                                     *)
LEMMA PlaceMeans ==
  ASSUME NEW text \in Seq(Word), NEW i
  PROVE  i \in ClaimPlaces(text) <=>
           /\ i \in 1 .. Len(text) /\ i + Len(Claim) - 1 <= Len(text)
           /\ \A k \in 1 .. Len(Claim) : text[i + k - 1] = Claim[k]
<1> DEFINE L == Len(Claim)
           window == SubSeq(text, i, i + L - 1)
<1>1. /\ L \in Nat /\ L > 0 /\ Claim \in Seq(Word)
      /\ DOMAIN text = 1 .. Len(text) /\ Len(text) \in Nat
  BY ClaimIs DEF Word
<1>2. ASSUME i \in 1 .. Len(text), i + L - 1 <= Len(text)
      PROVE  window = Claim <=>
               \A k \in 1 .. Len(Claim) : text[i + k - 1] = Claim[k]
  <2>1. \A j \in i .. i + L - 1 : text[j] \in Word
    BY <1>1, <1>2
  <2>2. i \in Int /\ i + L - 1 \in Int /\ (i + L - 1) - i + 1 = L
        /\ i <= i + L - 1
    BY <1>1, <1>2
  <2>3. /\ window \in Seq(Word) /\ Len(window) = L
        /\ \A k \in 1 .. L : window[k] = text[i + k - 1]
    <3> HIDE DEF L
    <3>1. /\ window \in Seq(Word)
          /\ Len(window) = IF i <= i + L - 1 THEN (i + L - 1) - i + 1 ELSE 0
          /\ \A k \in 1 .. (i + L - 1) - i + 1 : window[k] = text[i + k - 1]
      BY <2>1, <2>2, SubSeqProperties
    <3> QED BY <3>1, <2>2
  <2>4. window = Claim <=> \A k \in 1 .. L : window[k] = Claim[k]
    <3> HIDE DEF window, L
    <3>1. Len(Claim) = L
      BY DEF L
    <3> QED BY <1>1, <2>3, <3>1, SeqEqual
  <2> QED BY <2>3, <2>4
<1> QED BY <1>1, <1>2 DEF ClaimPlaces

LEMMA ExcerptClaims ==
  ASSUME NEW text \in Seq(Word), Claims(text)
  PROVE  Claims(Excerpt(text))
<1> DEFINE place == Min(ClaimPlaces(text))
<1>1. ClaimPlaces(text) \subseteq Nat /\ ClaimPlaces(text) # {}
  <2>1. DOMAIN text \subseteq Nat
    BY LenProperties
  <2> QED BY <2>1 DEF Claims, ClaimPlaces
<1>2. place \in ClaimPlaces(text)
  BY <1>1, LeastThere
<1> HIDE DEF place
<1>3. SubSeq(text, place, place + Len(Claim) - 1) = Claim
  BY <1>2 DEF ClaimPlaces
<1>4. Excerpt(text) = Claim
  BY <1>3 DEF Excerpt, place
<1>5. Claim \in Seq(Word)
  BY ClaimIs DEF Word
<1>6. \A k \in 1 .. Len(Claim) : Claim[1 + k - 1] = Claim[k]
  BY ClaimIs
<1>7. 1 \in 1 .. Len(Claim) /\ 1 + Len(Claim) - 1 <= Len(Claim)
  BY ClaimIs
<1>8. 1 \in ClaimPlaces(Claim)
  BY <1>5, <1>6, <1>7, PlaceMeans
<1> QED BY <1>4, <1>8 DEF Claims

(* The clipped turn, word by word.                                         *)
LEMMA ClippedWords ==
  ASSUME NEW turnText \in Seq(STRING), Len(turnText) > ClipAt
  PROVE  LET clipped == ClipTurn(turnText)
         IN  /\ clipped \in Seq(Word)
             /\ Len(clipped) = 2 * ClipKeeps + 1
             /\ \A j \in 1 .. ClipKeeps : clipped[j] = turnText[j]
             /\ clipped[ClipKeeps + 1] = Cut
             /\ \A j \in 1 .. ClipKeeps :
                  clipped[ClipKeeps + 1 + j]
                    = turnText[Len(turnText) - ClipKeeps + j]
<1> DEFINE K    == ClipKeeps
           n    == Len(turnText)
           head == SubSeq(turnText, 1, K)
           tail == SubSeq(turnText, n - K + 1, n)
           most == head \o <<Cut>>
<1>1. /\ K \in Nat /\ n \in Nat /\ 2 * K < n
      /\ \A j \in 1 .. n : turnText[j] \in Word
  BY ClipAssumption DEF Word
<1>2. ClipTurn(turnText) = most \o tail
  BY <1>1, ClipAssumption DEF ClipTurn, After
<1>3. /\ head \in Seq(Word) /\ Len(head) = K
      /\ \A j \in 1 .. K : head[j] = turnText[j]
  <2> HIDE DEF K, n
  <2>1. \A j \in 1 .. K : turnText[j] \in Word
    BY <1>1
  <2>2. /\ head \in Seq(Word)
        /\ Len(head) = IF 1 <= K THEN K - 1 + 1 ELSE 0
        /\ \A j \in 1 .. K - 1 + 1 : head[j] = turnText[1 + j - 1]
    BY <1>1, <2>1, SubSeqProperties
  <2> QED BY <1>1, <2>2
<1>4. /\ tail \in Seq(Word) /\ Len(tail) = K
      /\ \A j \in 1 .. K : tail[j] = turnText[n - K + j]
  <2> HIDE DEF K, n
  <2>1. \A j \in n - K + 1 .. n : turnText[j] \in Word
    BY <1>1
  <2>2. n - K + 1 \in Int /\ n \in Int
    BY <1>1
  <2>3. /\ tail \in Seq(Word)
        /\ Len(tail) = IF n - K + 1 <= n THEN n - (n - K + 1) + 1 ELSE 0
        /\ \A j \in 1 .. n - (n - K + 1) + 1 :
             tail[j] = turnText[(n - K + 1) + j - 1]
    BY <2>1, <2>2, SubSeqProperties
  <2> QED BY <1>1, <2>3
<1>5. /\ <<Cut>> \in Seq(Word) /\ Len(<<Cut>>) = 1 /\ <<Cut>>[1] = Cut
  BY DEF Word
<1> HIDE DEF head, tail
<1>6. /\ most \in Seq(Word) /\ Len(most) = K + 1
      /\ \A j \in 1 .. K : most[j] = turnText[j]
      /\ most[K + 1] = Cut
  BY <1>1, <1>3, <1>5, ConcatProperties
<1> HIDE DEF most
<1> DEFINE clipped == most \o tail
<1>7. /\ clipped \in Seq(Word) /\ Len(clipped) = Len(most) + Len(tail)
      /\ \A j \in 1 .. Len(most) + Len(tail) :
           clipped[j] = IF j <= Len(most) THEN most[j] ELSE tail[j - Len(most)]
  BY <1>4, <1>6, ConcatProperties
<1>8. clipped = ClipTurn(turnText)
  BY <1>2
<1> HIDE DEF clipped, K
<1>9. Len(clipped) = 2 * K + 1
  BY <1>1, <1>4, <1>6, <1>7
<1>10. /\ \A j \in 1 .. K : clipped[j] = turnText[j]
       /\ clipped[K + 1] = Cut
  <2>1. K + 1 \in 1 .. K + 1 + K /\ \A j \in 1 .. K : j \in 1 .. K + 1 + K
    BY <1>1
  <2> QED BY <1>1, <1>4, <1>6, <1>7, <2>1
<1>11. ASSUME NEW j \in 1 .. K
       PROVE  clipped[K + 1 + j] = turnText[n - K + j]
  <2>1. /\ K + 1 + j \in 1 .. K + 1 + K /\ ~(K + 1 + j <= K + 1)
        /\ K + 1 + j - (K + 1) = j
    BY <1>1
  <2>2. Len(most) = K + 1 /\ Len(tail) = K
    BY <1>4, <1>6
  <2>3. \A m \in 1 .. K + 1 + K :
          clipped[m] = IF m <= K + 1 THEN most[m] ELSE tail[m - (K + 1)]
    BY <1>7, <2>2
  <2>4. PICK m \in 1 .. K + 1 + K : m = K + 1 + j
    BY <2>1
  <2>5. ~(m <= K + 1) /\ m - (K + 1) = j
    BY <1>1, <2>4
  <2>6. clipped[m] = tail[m - (K + 1)]
    BY <2>3, <2>5
  <2> QED BY <1>4, <2>4, <2>5, <2>6
<1> QED BY <1>7, <1>8, <1>9, <1>10, <1>11 DEF K

(* The mark of the cut is no word of the claim, so a claim in what was     *)
(* clipped lies within one of its two ends.                                *)
LEMMA ClippedClaims ==
  ASSUME NEW turnText \in Seq(STRING), Claims(ClipTurn(turnText))
  PROVE  Claims(turnText)
<1>1. CASE Len(turnText) <= ClipAt
  BY <1>1 DEF ClipTurn
<1>2. CASE ~(Len(turnText) <= ClipAt)
  <2> DEFINE K == ClipKeeps
             n == Len(turnText)
             L == Len(Claim)
             clipped == ClipTurn(turnText)
  <2>1. /\ K \in Nat /\ n \in Nat /\ 2 * K < n /\ L \in Nat /\ L > 0
        /\ n > ClipAt
    BY <1>2, ClipAssumption, ClaimIs
  <2>2. /\ clipped \in Seq(Word) /\ Len(clipped) = 2 * K + 1
        /\ \A j \in 1 .. K : clipped[j] = turnText[j]
        /\ clipped[K + 1] = Cut
        /\ \A j \in 1 .. K : clipped[K + 1 + j] = turnText[n - K + j]
    BY <2>1, ClippedWords
  <2>3. PICK i \in ClaimPlaces(clipped) : TRUE
    BY DEF Claims
  <2> HIDE DEF clipped
  <2>4. /\ i \in 1 .. 2 * K + 1 /\ i + L - 1 <= 2 * K + 1
        /\ \A k \in 1 .. L : clipped[i + k - 1] = Claim[k]
    BY <2>2, <2>3, PlaceMeans
  <2>5. ~(i <= K + 1 /\ K + 1 <= i + L - 1)
    <3> SUFFICES ASSUME i <= K + 1, K + 1 <= i + L - 1 PROVE FALSE
      OBVIOUS
    <3>1. PICK k \in 1 .. L : i + k - 1 = K + 1
      <4>1. K + 2 - i \in 1 .. L /\ i + (K + 2 - i) - 1 = K + 1
        BY <2>1, <2>4
      <4> QED BY <4>1
    <3> QED BY <2>2, <2>4, <3>1, ClaimIs
  <2>6. turnText \in Seq(Word)
    BY DEF Word
  <2>7. CASE i + L - 1 < K + 1
    <3>1. \A k \in 1 .. L : i + k - 1 \in 1 .. K
      BY <2>1, <2>4, <2>7
    <3>2. \A k \in 1 .. L : turnText[i + k - 1] = Claim[k]
      BY <2>2, <2>4, <3>1
    <3>3. i \in 1 .. n /\ i + L - 1 <= n
      BY <2>1, <2>4, <2>7
    <3>4. i \in ClaimPlaces(turnText)
      BY <2>6, <3>2, <3>3, PlaceMeans
    <3> QED BY <3>4 DEF Claims
  <2>8. CASE i > K + 1
    <3> DEFINE p == i + n - 2 * K - 1
    <3>1. \A k \in 1 .. L : /\ i + k - 1 - (K + 1) \in 1 .. K
                            /\ K + 1 + (i + k - 1 - (K + 1)) = i + k - 1
                            /\ n - K + (i + k - 1 - (K + 1)) = p + k - 1
      BY <2>1, <2>4, <2>8
    <3>2. \A k \in 1 .. L : clipped[i + k - 1] = turnText[p + k - 1]
      <4> HIDE DEF p, n, K, L
      <4> SUFFICES ASSUME NEW k \in 1 .. L
                   PROVE  clipped[i + k - 1] = turnText[p + k - 1]
        OBVIOUS
      <4>1. PICK j \in 1 .. K : j = i + k - 1 - (K + 1)
        BY <3>1
      <4>2. K + 1 + j = i + k - 1 /\ n - K + j = p + k - 1
        BY <3>1, <4>1
      <4>3. clipped[K + 1 + j] = turnText[n - K + j]
        BY <2>2
      <4> QED BY <4>2, <4>3
    <3>3. p \in 1 .. n /\ p + L - 1 <= n
      BY <2>1, <2>4, <2>8
    <3> HIDE DEF p
    <3>4. \A k \in 1 .. L : turnText[p + k - 1] = Claim[k]
      BY <2>4, <3>2
    <3>5. p \in ClaimPlaces(turnText)
      BY <2>6, <3>3, <3>4, PlaceMeans
    <3> QED BY <3>5 DEF Claims
  <2> QED BY <2>1, <2>4, <2>5, <2>7, <2>8
<1> QED BY <1>1, <1>2

(* What is sent of a turn makes a claim exactly when the turn does.        *)
LEMMA TurnClaims ==
  ASSUME NEW turnText \in Seq(STRING)
  PROVE  (\E text \in TrustedOf(turnText) : Claims(text)) <=> Claims(turnText)
<1>1. turnText \in Seq(Word)
  BY DEF Word
<1>2. Claims(turnText) => Claims(Excerpt(turnText))
  BY <1>1, ExcerptClaims
<1>3. Claims(ClipTurn(turnText)) => Claims(turnText)
  BY ClippedClaims
<1> QED BY <1>2, <1>3 DEF TrustedOf

-----------------------------------------------------------------------------
(* The scripted scorer.                                                    *)

LEMMA SixLabels == Labels = 6 /\ Unit % 6 = 0
<1>1. 0 \in Int /\ 5 \in Int
  OBVIOUS
<1>2. Cardinality(0 .. 5) = IF 0 > 5 THEN 0 ELSE 5 - 0 + 1
  BY <1>1, FS_Interval
<1> QED BY <1>2, GridAssumption DEF Labels, HarmClass

(* split_mass keeps a confidence for the top probability unless it lies    *)
(* below an even share, and all it returns lies in the unit interval.      *)
LEMMA Shares ==
  ASSUME NEW s \in Score
  PROVE  LET each == (Unit - s) \div (Labels - 1)
         IN  /\ each \in Score
             /\ Unit \div Labels \in Score
             /\ s >= Unit \div Labels => each <= s
<1>1. PICK k \in Int : Unit = 6 * k /\ Unit \div 6 = k
  <2>1. Unit = 6 * (Unit \div 6) + (Unit % 6) /\ Unit \div 6 \in Int
    BY UnitAssumption
  <2> QED BY <2>1, SixLabels
<1>2. s \in Int /\ 0 <= s /\ s <= Unit /\ Unit > 0
  BY UnitAssumption DEF Score
<1>3. PICK e \in Int : e = (Unit - s) \div 5 /\ 5 * e <= Unit - s /\ Unit - s < 5 * e + 5
  <2>1. Unit - s = 5 * ((Unit - s) \div 5) + ((Unit - s) % 5)
        /\ (Unit - s) \div 5 \in Int /\ (Unit - s) % 5 \in 0 .. 4
    BY <1>2, UnitAssumption
  <2> QED BY <2>1, <1>2
<1> QED BY <1>1, <1>2, <1>3, SixLabels DEF Score

LEMMA FakeChoiceTyped ==
  ASSUME NEW label \in HarmClass, NEW s \in Score
  PROVE  FakeChoice(label, s) \in Answer
<1> DEFINE each == (Unit - s) \div (Labels - 1)
           even == each > s
           choice == FakeChoice(label, s)
<1>1. each \in Score /\ Unit \div Labels \in Score
  BY Shares
<1>2. choice = [kind |-> "choice", confidence |-> s, label |-> label,
                top_prob |-> IF even THEN Unit \div Labels ELSE s,
                margin |-> IF even THEN 0 ELSE s - each]
  BY DEF FakeChoice
<1> HIDE DEF each, choice
<1>3. (IF even THEN Unit \div Labels ELSE s) \in Score
  BY <1>1
<1>4. (IF even THEN 0 ELSE s - each) \in Score
  BY <1>1, UnitAssumption DEF Score
<1>5. s \in Int /\ "choice" \in Kind
  BY UnitAssumption DEF Score, Kind
<1>6. choice \in Answer
  BY <1>2, <1>3, <1>4, <1>5 DEF Answer
<1> QED BY <1>6 DEF choice

LEMMA FakeNoulTyped ==
  ASSUME NEW p \in Score
  PROVE  FakeNoul(p) \in Answer
BY UnitAssumption DEF FakeNoul, Answer, Score, Kind

(* An answer as check_response takes it to be: an error, or typed.         *)
Sound(answer) ==
  \/ answer = Failure
  \/ ~answer.failed /\ answer.answers \in [DOMAIN answer.answers -> Answer]

LEMMA ScriptedSound ==
  ASSUME NEW script, ScriptOk(script)
  PROVE  Sound(Scripted(script))
<1>1. CASE script.timeout
  BY <1>1 DEF Scripted, Sound
<1>2. CASE ~script.timeout
  <2> DEFINE answers ==
        [id \in BatteryNoul \cup {HarmId} |->
           CASE id = HarmId -> FakeChoice(script.harm, script.confidence)
             [] id # HarmId /\ id \in DOMAIN script.nouls ->
                  FakeNoul(script.nouls[id])
             [] OTHER -> FakeNoul(0)]
  <2>1. Scripted(script) = Replied(answers)
    BY <1>2 DEF Scripted
  <2>2. FakeChoice(script.harm, script.confidence) \in Answer
    BY <1>2, FakeChoiceTyped DEF ScriptOk
  <2>3. FakeNoul(0) \in Answer
    BY FakeNoulTyped, UnitAssumption DEF Score
  <2>4. \A id \in BatteryNoul \cap DOMAIN script.nouls :
          FakeNoul(script.nouls[id]) \in Answer
    BY <1>2, FakeNoulTyped DEF ScriptOk
  <2>5. answers \in [DOMAIN answers -> Answer]
    BY <2>2, <2>3, <2>4
  <2> HIDE DEF answers
  <2> QED BY <2>1, <2>5 DEF Replied, Sound
<1> QED BY <1>1, <1>2

-----------------------------------------------------------------------------
(* A call judged again by the script of its row.                           *)

(* The shape of a policy that loads.                                       *)
LEMMA LoadableTyped ==
  ASSUME NEW policy \in Loadable
  PROVE  CheckInvariants(policy) /\ policy.signal \in SignalKind
BY LoadableAssumption

(* Judge reads no more of an answer without extra questions than the label,*)
(* the signal and, of each question of the battery, the number.            *)
Alike(policy, r1, r2) ==
  /\ r1.answers[HarmId].label = r2.answers[HarmId].label
  /\ Signal(policy, r1.answers[HarmId]) = Signal(policy, r2.answers[HarmId])
  /\ \A id \in BatteryNoul :
       r1.answers[id].confidence = r2.answers[id].confidence

LEMMA AlikeJudgedAlike ==
  ASSUME NEW policy, NEW request, NEW fail, NEW r1, NEW r2,
         request.extras = <<>>,
         CheckResponse(request, r1.answers), CheckResponse(request, r2.answers),
         Alike(policy, r1, r2),
         \A i \in DOMAIN Row(policy, request.action).block_on :
           Row(policy, request.action).block_on[i].id \in BatteryNoul,
         JudgeHit(policy, request, r1) # "unreadable"
  PROVE  Judge(policy, request, fail, r1).rank
           = Judge(policy, request, fail, r2).rank
<1> DEFINE gs     == JudgeGates(policy, request, r1)
           blocks == gs.block_on
           a1     == r1.answers
           a2     == r2.answers
<1>1. JudgeGates(policy, request, r2) = gs
  BY DEF JudgeGates, Alike
<1>2. blocks = Row(policy, request.action).block_on
  BY DEF JudgeGates, EffectiveGates
<1>3. \A id \in BatteryNoul :
        IsNoul(a1, id) /\ IsNoul(a2, id) /\ a1[id].confidence = a2[id].confidence
  <2> SUFFICES ASSUME NEW id \in BatteryNoul
               PROVE  /\ IsNoul(a1, id) /\ IsNoul(a2, id)
                      /\ a1[id].confidence = a2[id].confidence
    OBVIOUS
  <2>1. [id |-> id, kind |-> "noul"] \in Asked(request)
    BY DEF Asked, BatteryQuestions
  <2>2. /\ Answered(a1, [id |-> id, kind |-> "noul"])
        /\ Answered(a2, [id |-> id, kind |-> "noul"])
    BY <2>1 DEF CheckResponse
  <2> QED BY <2>2 DEF Answered, IsNoul, Alike
<1>4. \A i \in DOMAIN blocks :
        /\ IsNoul(a1, blocks[i].id) /\ IsNoul(a2, blocks[i].id)
        /\ a1[blocks[i].id].confidence = a2[blocks[i].id].confidence
  BY <1>2, <1>3
<1> HIDE DEF gs, blocks, a1, a2
<1>5. BlockHit(policy, request, blocks, a1) = BlockHit(policy, request, blocks, a2)
  <2>1. /\ {i \in DOMAIN blocks : ~IsNoul(a1, blocks[i].id)} = {}
        /\ {i \in DOMAIN blocks : ~IsNoul(a2, blocks[i].id)} = {}
    BY <1>4
  <2>2. \A i \in DOMAIN blocks :
          Fires(policy, request, blocks[i], a1) <=> Fires(policy, request, blocks[i], a2)
    BY <1>4 DEF Fires
  <2> DEFINE firing(a) == {i \in DOMAIN blocks \ {} : Fires(policy, request, blocks[i], a)}
             hit(fired) == IF {} \cup fired = {} THEN "none"
                           ELSE IF Min({} \cup fired) \in fired THEN "fires"
                           ELSE "unreadable"
  <2>3. firing(a1) = firing(a2)
    BY <2>2
  <2>4. /\ BlockHit(policy, request, blocks, a1) = hit(firing(a1))
        /\ BlockHit(policy, request, blocks, a2) = hit(firing(a2))
    BY <2>1 DEF BlockHit
  <2> HIDE DEF firing, hit
  <2> QED BY <2>3, <2>4
<1>6. JudgeHit(policy, request, r1) = JudgeHit(policy, request, r2)
  BY <1>1, <1>5 DEF JudgeHit, gs, blocks, a1, a2
<1>7. UnsureBlocks(policy, gs, a1) = UnsureBlocks(policy, gs, a2)
  <2>1. \A j \in DOMAIN blocks :
          Decide(policy, blocks[j], a1[blocks[j].id].confidence)
            = Decide(policy, blocks[j], a2[blocks[j].id].confidence)
    BY <1>4
  <2> QED BY <2>1 DEF UnsureBlocks, blocks
<1>8. /\ ExtraVerdicts(policy, request, gs, a1) = {}
      /\ ExtraVerdicts(policy, request, gs, a2) = {}
  <2>1. Range(request.extras) = {}
    BY DEF Range
  <2> QED BY <2>1 DEF ExtraVerdicts
<1>9. Signal(policy, a1[HarmId]) = Signal(policy, a2[HarmId])
  BY DEF Alike, a1, a2
<1>10. JudgeSet(policy, request, r1) = JudgeSet(policy, request, r2)
  BY <1>1, <1>7, <1>8, <1>9 DEF JudgeSet, gs, a1, a2
<1>11. JudgeHit(policy, request, r1) \in {"none", "fires"}
  BY HitCases
<1> QED BY <1>6, <1>10, <1>11, Judged

(* What an accepted answer has to each question of the battery.            *)
LEMMA BatteryAnswered ==
  ASSUME NEW request, NEW answers, answers \in [DOMAIN answers -> Answer],
         CheckResponse(request, answers)
  PROVE  /\ HarmId \in DOMAIN answers /\ HarmId \notin BatteryNoul
         /\ answers[HarmId] \in Answer
         /\ answers[HarmId].kind = "choice"
         /\ answers[HarmId].confidence \in Score
         /\ answers[HarmId].label \in HarmClass
         /\ \A id \in BatteryNoul : /\ id \in DOMAIN answers
                                    /\ answers[id].confidence \in Score
<1>1. [id |-> HarmId, kind |-> "choice"] \in Asked(request)
  BY DEF Asked, BatteryQuestions
<1>2. Answered(answers, [id |-> HarmId, kind |-> "choice"])
  BY <1>1 DEF CheckResponse
<1>3. ASSUME NEW id \in BatteryNoul
      PROVE  /\ id \in DOMAIN answers /\ answers[id].kind = "noul"
             /\ answers[id].confidence \in Score
  <2>1. [id |-> id, kind |-> "noul"] \in Asked(request)
    BY DEF Asked, BatteryQuestions
  <2>2. Answered(answers, [id |-> id, kind |-> "noul"])
    BY <2>1 DEF CheckResponse
  <2> QED BY <2>2 DEF Answered
<1>4. /\ HarmId \in DOMAIN answers /\ answers[HarmId].kind = "choice"
      /\ answers[HarmId].confidence \in Score
      /\ answers[HarmId].label \in HarmClass
  BY <1>2 DEF Answered
<1> QED BY <1>3, <1>4

(* What Judge returns unless it could not decode the answer.               *)
LEMMA DecodedVerdict ==
  ASSUME NEW policy, NEW request, NEW fail, NEW r,
         "decode" \notin Judge(policy, request, fail, r).reasons
  PROVE  /\ CheckResponse(request, r.answers)
         /\ JudgeHit(policy, request, r) # "unreadable"
         /\ Judge(policy, request, fail, r).signal
              = Signal(policy, r.answers[HarmId])
<1>1. \A gs : Closed(fail, gs, "decode").reasons = {"decode"}
  BY DEF Closed
<1>2. CheckResponse(request, r.answers)
  BY <1>1, Judged DEF ClosedOn
<1>3. JudgeHit(policy, request, r) # "unreadable"
  BY <1>1, <1>2, Judged
<1> QED BY <1>2, <1>3, HitCases, Judged

(* The battery's answers a script stands for.                              *)
LEMMA ScriptedAnswers ==
  ASSUME NEW script, ~script.timeout, HarmId \notin BatteryNoul,
         script.confidence \in Score, script.harm \in HarmClass,
         \A id \in BatteryNoul : id \in DOMAIN script.nouls
                                   /\ script.nouls[id] \in Score,
         NEW request, request.extras = <<>>
  PROVE  LET r == Scripted(script)
         IN  /\ ~r.failed
             /\ r.answers[HarmId] = FakeChoice(script.harm, script.confidence)
             /\ \A id \in BatteryNoul :
                  r.answers[id].confidence = script.nouls[id]
             /\ CheckResponse(request, r.answers)
<1> DEFINE answers ==
      [id \in BatteryNoul \cup {HarmId} |->
         CASE id = HarmId -> FakeChoice(script.harm, script.confidence)
           [] id # HarmId /\ id \in DOMAIN script.nouls ->
                FakeNoul(script.nouls[id])
           [] OTHER -> FakeNoul(0)]
<1>1. Scripted(script) = Replied(answers)
  BY DEF Scripted
<1>2. /\ DOMAIN answers = BatteryNoul \cup {HarmId}
      /\ answers[HarmId] = FakeChoice(script.harm, script.confidence)
      /\ \A id \in BatteryNoul : answers[id] = FakeNoul(script.nouls[id])
  OBVIOUS
<1> HIDE DEF answers
<1>3. /\ answers[HarmId].kind = "choice"
      /\ answers[HarmId].confidence = script.confidence
      /\ answers[HarmId].label = script.harm
  BY <1>2 DEF FakeChoice
<1>4. \A id \in BatteryNoul :
        answers[id].kind = "noul" /\ answers[id].confidence = script.nouls[id]
  BY <1>2 DEF FakeNoul
<1>5. Asked(request) = BatteryQuestions
  BY DEF Asked, Range
<1>6. CheckResponse(request, answers)
  BY <1>2, <1>3, <1>4, <1>5 DEF CheckResponse, BatteryQuestions, Answered
<1> QED BY <1>1, <1>2, <1>4, <1>6 DEF Replied

(* A scripted choice has the signal its row was logged with.               *)
LEMMA SignalComesBack ==
  ASSUME NEW policy, NEW label, NEW s \in Score,
         \/ policy.signal = "confidence"
         \/ policy.signal = "top_prob" /\ s >= Unit \div Labels
  PROVE  Signal(policy, FakeChoice(label, s)) = s
<1> DEFINE each == (Unit - s) \div (Labels - 1)
<1>1. /\ FakeChoice(label, s).confidence = s
      /\ FakeChoice(label, s).top_prob =
           IF each > s THEN Unit \div Labels ELSE s
  BY DEF FakeChoice
<1>2. /\ each \in Score
      /\ s >= Unit \div Labels => each <= s
  BY Shares
<1> HIDE DEF each
<1>3. s >= Unit \div Labels => ~(each > s)
  BY <1>2 DEF Score
<1> QED BY <1>1, <1>3 DEF Signal

(* The script of a logged row brings back the rank of its verdict, unless  *)
(* the row left out what Replayable excepts.                               *)
LEMMA RowReplays ==
  ASSUME NEW policy \in Loadable, NEW request, request.extras = <<>>,
         NEW answer, Sound(answer),
         NEW verdict, verdict = GateOf(policy, request, answer),
         NEW script, script = LogRow(request, answer, verdict).script,
         "decode" \notin verdict.reasons,
         \A i \in DOMAIN Row(policy, request.action).block_on :
           Row(policy, request.action).block_on[i].id \in BatteryNoul,
         \/ script.timeout
         \/ policy.signal = "confidence"
         \/ policy.signal = "top_prob" /\ script.confidence >= Unit \div Labels
  PROVE  /\ ScriptOk(script)
         /\ GateOf(policy, request, Scripted(script)).rank = verdict.rank
<1>1. script = IF verdict.signal = Unset
                 THEN [timeout |-> TRUE, confidence |-> 0, harm |-> NotALabel,
                       nouls |-> <<>>]
               ELSE [timeout |-> FALSE, confidence |-> verdict.signal,
                     harm |-> answer.answers[HarmId].label,
                     nouls |-> [id \in DOMAIN answer.answers \ {HarmId} |->
                                  answer.answers[id].confidence]]
  BY DEF LogRow, LogOf
<1>2. CASE answer.failed
  <2>1. verdict = ClosedOn(policy, request, policy.fail, "backend")
    BY <1>2 DEF GateOf
  <2>2. verdict.signal = Unset
    BY <2>1 DEF ClosedOn, Closed
  <2>3. script.timeout
    BY <1>1, <2>2
  <2>4. GateOf(policy, request, Scripted(script)) = verdict
    BY <2>1, <2>3 DEF GateOf, Scripted, Failure
  <2> QED BY <2>3, <2>4 DEF ScriptOk
<1>3. CASE ~answer.failed
  <2> DEFINE answers == answer.answers
             given   == Scripted(script)
  <2>1. verdict = Judge(policy, request, policy.fail, answer)
    BY <1>3 DEF GateOf
  <2>2. answers \in [DOMAIN answers -> Answer]
    BY <1>3 DEF Sound, Failure
  <2>3. /\ CheckResponse(request, answers)
        /\ JudgeHit(policy, request, answer) # "unreadable"
        /\ verdict.signal = Signal(policy, answers[HarmId])
    BY <2>1, DecodedVerdict
  <2>4. /\ HarmId \in DOMAIN answers /\ HarmId \notin BatteryNoul
        /\ answers[HarmId] \in Answer
        /\ answers[HarmId].confidence \in Score
        /\ answers[HarmId].label \in HarmClass
        /\ \A id \in BatteryNoul : /\ id \in DOMAIN answers
                                   /\ answers[id].confidence \in Score
    <3> HIDE DEF answers
    <3> QED BY <2>2, <2>3, BatteryAnswered DEF answers
  <2>5. verdict.signal \in Score
    <3>1. /\ answers[HarmId].top_prob \in Score
          /\ answers[HarmId].margin \in Score
      BY <2>4 DEF Answer
    <3>2. policy.signal \in {"confidence", "top_prob", "margin"}
      BY LoadableTyped DEF SignalKind
    <3> QED BY <2>3, <2>4, <3>1, <3>2 DEF Signal
  <2>6. verdict.signal # Unset
    BY <2>5, UnitAssumption DEF Score, Unset
  <2>7. /\ ~script.timeout
        /\ script.confidence = verdict.signal
        /\ script.harm = answers[HarmId].label
        /\ DOMAIN script.nouls = DOMAIN answers \ {HarmId}
        /\ \A id \in BatteryNoul : script.nouls[id] = answers[id].confidence
    BY <1>1, <2>4, <2>6
  <2>8. /\ script.confidence \in Score /\ script.harm \in HarmClass
        /\ \A id \in BatteryNoul : /\ id \in DOMAIN script.nouls
                                   /\ script.nouls[id] \in Score
    BY <2>4, <2>5, <2>7
  <2> HIDE DEF given, answers
  <2>9. /\ ~given.failed
        /\ given.answers[HarmId] = FakeChoice(script.harm, script.confidence)
        /\ \A id \in BatteryNoul :
             given.answers[id].confidence = script.nouls[id]
        /\ CheckResponse(request, given.answers)
    BY <2>4, <2>7, <2>8, ScriptedAnswers DEF given
  <2>10. Signal(policy, FakeChoice(script.harm, script.confidence))
           = script.confidence
    BY <2>7, <2>8, SignalComesBack
  <2>11. FakeChoice(script.harm, script.confidence).label = script.harm
    BY DEF FakeChoice
  <2>12. Alike(policy, answer, given)
    BY <2>3, <2>7, <2>9, <2>10, <2>11 DEF Alike, answers
  <2>13. Judge(policy, request, policy.fail, answer).rank
           = Judge(policy, request, policy.fail, given).rank
    BY <2>3, <2>9, <2>12, AlikeJudgedAlike DEF answers
  <2>14. GateOf(policy, request, given)
           = Judge(policy, request, policy.fail, given)
    BY <2>9 DEF GateOf
  <2> QED BY <2>1, <2>8, <2>13, <2>14 DEF ScriptOk, given
<1> QED BY <1>2, <1>3

-----------------------------------------------------------------------------
(* What holds in every state of a run, and while its row is replayed.      *)

(* The run is one of Calls, and its files hold what the editor writes.     *)
PolicyFiles(given) ==
  /\ setup = given.setup /\ body = given.body
  /\ DOMAIN disk = DOMAIN given.disk
  /\ Range(disk) \subseteq Versions \cup Range(given.disk)
SomeCall == \E given \in Calls : PolicyFiles(given)

(* open_client comes before anything that uses the client.                 *)
ClientLoaded ==
  pc \in (IF Hook THEN {"script", "load", "ask"}
          ELSE {"body", "script", "turn", "tail", "load", "ask"})
    => client \in Loadable

(* So does the check of the script.                                        *)
ScriptChecked ==
  pc \in (IF Hook THEN {"load", "ask"} ELSE {"turn", "tail", "load", "ask"})
    => \/ body.script.kind = "none"
       \/ body.script.kind = "script" /\ ScriptOk(body.script)

(* The row in the log is that of the verdict the call was given.           *)
Written == LogRow(Request, reply, GateOf(client, Request, reply))
Logged ==
  row.logged =>
    pc = "done" /\ client \in Loadable /\ Sound(reply) /\ row = Written

Rescored(policy) ==
  IF policy = BadPolicy \/ ~ScriptOk(row.script) THEN Unset
  ELSE GateOf(policy, row.request, Scripted(row.script)).rank
ReplayedRow ==
  replayed.done => row.logged /\ replayed.rank = Rescored(replayed.policy)

Inv == SomeCall /\ ClientLoaded /\ ScriptChecked /\ Logged /\ ReplayedRow

LEMMA InitInv == Init => Inv
<1> SUFFICES ASSUME Init PROVE Inv
  OBVIOUS
<1>1. PICK given \in Calls :
        setup = given.setup /\ body = given.body /\ disk = given.disk
  BY DEF Init
<1>2. SomeCall
  BY <1>1 DEF SomeCall, PolicyFiles
<1>3. pc = (IF Hook THEN "body" ELSE "environment")
  BY DEF Init, Hook
<1>4. ClientLoaded /\ ScriptChecked
  BY <1>3 DEF ClientLoaded, ScriptChecked
<1>5. ~row.logged /\ ~replayed.done
  BY DEF Init, NotLogged, NotReplayed
<1> QED BY <1>2, <1>4, <1>5 DEF Inv, Logged, ReplayedRow

(* What is loaded from a file, or in its absence the shipped policy, is a  *)
(* policy unless it does not load.                                         *)
LEMMA LoadedIs ==
  ASSUME NEW given \in Calls, PolicyFiles(given),
         NEW spec \in {setup.flag, setup.env}
  PROVE  Load(spec) = BadPolicy \/ Load(spec) \in PoliciesOf(given)
<1>1. CASE spec = NoSpec
  BY <1>1 DEF Load, PoliciesOf
<1>2. CASE spec # NoSpec
  <2>1. spec \in DOMAIN disk
    BY <1>2, CallsAssumption DEF PolicyFiles
  <2>2. disk[spec] \in Versions \cup Range(given.disk) /\ DOMAIN given.disk # {}
    BY <2>1 DEF PolicyFiles, Range
  <2> QED BY <1>2, <2>2 DEF Load, PoliciesOf
<1> QED BY <1>1, <1>2

LEMMA LoadedIsLoadable ==
  ASSUME SomeCall, NEW spec \in {setup.flag, setup.env}
  PROVE  Load(spec) = BadPolicy \/ Load(spec) \in Loadable
BY LoadedIs DEF SomeCall, Loadable

LEMMA SameWritten ==
  ASSUME UNCHANGED <<call, client, action, turn, reply>>
  PROVE  Written' = Written
BY DEF Written, LogRow, LogOf, GateOf, Request, RequestOf, Trusted, Hook, call

(* Until the row is written there is none, and it is written once.         *)
LEMMA RowKept ==
  ASSUME Inv, UNCHANGED <<row, replayed>>,
         \/ pc # "done"
         \/ UNCHANGED <<call, pc, client, action, turn, reply>>
  PROVE  Logged' /\ ReplayedRow'
<1>1. CASE pc # "done"
  BY <1>1 DEF Inv, Logged, ReplayedRow
<1>2. CASE UNCHANGED <<call, pc, client, action, turn, reply>>
  <2>1. Written' = Written
    BY <1>2, SameWritten
  <2>2. Logged'
    BY <1>2, <2>1 DEF Inv, Logged
  <2>3. ReplayedRow'
    BY DEF Inv, ReplayedRow, Rescored
  <2> QED BY <2>2, <2>3
<1> QED BY <1>1, <1>2

(* The steps of a run before it asks.                                      *)
LEMMA StepsKeep ==
  ASSUME Inv,
         \/ ReadBody \/ OpenFromEnvironment \/ OpenFromFlag \/ CheckScript
         \/ FindTurn \/ RefuseTrusted \/ OpenTranscript \/ ReadOn
         \/ ReadTranscript \/ NameRow \/ MatchRow
  PROVE  Inv'
<1>1. /\ UNCHANGED <<setup, body, disk, row, replayed>> /\ pc # "done"
      /\ Hook' = Hook
  BY DEF ReadBody, OpenFromEnvironment, OpenFromFlag, CheckScript, FindTurn,
         RefuseTrusted, OpenTranscript, ReadOn, ReadTranscript, NameRow, MatchRow,
         Quiet, Still, call, Hook
<1>2. SomeCall'
  BY <1>1 DEF Inv, SomeCall, PolicyFiles
<1>3. Logged' /\ ReplayedRow'
  BY <1>1, RowKept
<1>4. ClientLoaded'
  <2>1. CASE OpenFromEnvironment
    <3>1. client' = BadPolicy \/ client' \in Loadable
      BY <2>1, LoadedIsLoadable DEF Inv, OpenFromEnvironment
    <3> QED
      BY <1>1, <2>1, <3>1 DEF OpenFromEnvironment, Refuse, Step, ClientLoaded
  <2>2. CASE OpenFromFlag
    <3>1. client' = BadPolicy \/ client' \in Loadable
      BY <2>2, LoadedIsLoadable DEF Inv, OpenFromFlag
    <3> QED BY <1>1, <2>2, <3>1 DEF OpenFromFlag, Refuse, Step, ClientLoaded
  <2>3. CASE ReadBody
    BY <1>1, <2>3 DEF Inv, ReadBody, Refuse, Step, ClientLoaded
  <2>4. CASE CheckScript
    BY <1>1, <2>4 DEF Inv, CheckScript, Refuse, Step, ClientLoaded
  <2>5. CASE FindTurn \/ ReadTranscript
    BY <1>1, <2>5 DEF Inv, FindTurn, ReadTranscript, Step, ClientLoaded
  <2>6. CASE RefuseTrusted \/ OpenTranscript
    BY <1>1, <2>6
       DEF Inv, RefuseTrusted, OpenTranscript, Refuse, ClientLoaded
  <2>7. CASE NameRow \/ MatchRow
    BY <1>1, <2>7 DEF Inv, NameRow, MatchRow, Refuse, ClientLoaded
  <2>8. CASE ReadOn
    BY <1>1, <2>8 DEF Inv, ReadOn, ClientLoaded
  <2> QED BY <2>1, <2>2, <2>3, <2>4, <2>5, <2>6, <2>7, <2>8
<1>5. ScriptChecked'
  <2>1. CASE OpenFromEnvironment \/ OpenFromFlag
    BY <1>1, <2>1
       DEF OpenFromEnvironment, OpenFromFlag, Refuse, Step, ScriptChecked
  <2>2. CASE ReadBody
    BY <1>1, <2>2 DEF ReadBody, Refuse, Step, ScriptChecked
  <2>3. CASE CheckScript
    BY <1>1, <2>3 DEF CheckScript, Refuse, Step, ScriptChecked
  <2>4. CASE FindTurn \/ ReadTranscript
    BY <1>1, <2>4 DEF Inv, FindTurn, ReadTranscript, Step, ScriptChecked
  <2>5. CASE RefuseTrusted \/ OpenTranscript
    BY <1>1, <2>5
       DEF Inv, RefuseTrusted, OpenTranscript, Refuse, ScriptChecked
  <2>6. CASE NameRow \/ MatchRow
    BY <1>1, <2>6 DEF Inv, NameRow, MatchRow, Refuse, ScriptChecked
  <2>7. CASE ReadOn
    BY <1>1, <2>7 DEF Inv, ReadOn, ScriptChecked
  <2> QED BY <2>1, <2>2, <2>3, <2>4, <2>5, <2>6, <2>7
<1> QED BY <1>2, <1>3, <1>4, <1>5 DEF Inv

(* The scorer of a run that has come to Ask gives a sound answer.          *)
LEMMA ScorerSound ==
  ASSUME Inv, pc = "ask", NEW answer \in Scorer
  PROVE  Sound(answer)
<1>1. CASE ~setup.fake
  BY <1>1, RepliesAssumption DEF Scorer, Sound
<1>2. CASE setup.fake /\ body.script.kind = "none"
  <2>1. answer = Replied(<<>>)
    BY <1>2 DEF Scorer
  <2>2. <<>> \in [DOMAIN <<>> -> Answer]
    OBVIOUS
  <2> QED BY <2>1, <2>2 DEF Replied, Sound
<1>3. CASE setup.fake /\ body.script.kind # "none"
  <2>1. ScriptOk(body.script)
    BY <1>3 DEF Inv, ScriptChecked
  <2> QED BY <1>3, <2>1, ScriptedSound DEF Scorer
<1> QED BY <1>1, <1>2, <1>3

LEMMA AskKeeps == Inv /\ Ask => Inv'
<1> SUFFICES ASSUME Inv, Ask PROVE Inv'
  OBVIOUS
<1>1. /\ UNCHANGED <<setup, body, disk, client, action, turn, replayed>>
      /\ pc = "ask" /\ pc' = "done"
      /\ row' = LogRow(Request, reply', GateOf(client, Request, reply'))
  BY DEF Ask, Unread, call
<1>2. Sound(reply')
  BY <1>1, ScorerSound DEF Ask
<1>3. client \in Loadable
  BY <1>1 DEF Inv, ClientLoaded
<1>4. Written' = row'
  BY <1>1 DEF Written, LogRow, LogOf, GateOf, Request, RequestOf, Trusted, Hook
<1>5. Logged'
  BY <1>1, <1>2, <1>3, <1>4 DEF Logged
<1>6. ~row.logged
  BY <1>1 DEF Inv, Logged
<1>7. ReplayedRow'
  BY <1>1, <1>6 DEF Inv, ReplayedRow
<1>8. SomeCall' /\ ClientLoaded' /\ ScriptChecked'
  BY <1>1 DEF Inv, SomeCall, PolicyFiles, ClientLoaded, ScriptChecked
<1> QED BY <1>5, <1>7, <1>8 DEF Inv

LEMMA ReplayKeeps == Inv /\ Replay => Inv'
<1> SUFFICES ASSUME Inv, Replay PROVE Inv'
  OBVIOUS
<1>1. /\ UNCHANGED <<call, disk, pc, client, action, turn, row, reply>>
      /\ UNCHANGED <<setup, body>>
  BY DEF Replay, world, call
<1>2. Written' = Written
  BY <1>1, SameWritten
<1>3. Logged'
  BY <1>1, <1>2 DEF Inv, Logged
<1>4. SomeCall' /\ ClientLoaded' /\ ScriptChecked'
  BY <1>1 DEF Inv, SomeCall, PolicyFiles, ClientLoaded, ScriptChecked, Hook
<1>5. row.logged /\ replayed' = [done |-> TRUE, policy |-> Loaded,
                                 rank |-> Rescored(Loaded)]
  BY DEF Replay, Rescored
<1>6. ReplayedRow'
  BY <1>1, <1>5 DEF ReplayedRow, Rescored
<1> QED BY <1>3, <1>4, <1>6 DEF Inv

LEMMA WorldKeeps == Inv /\ (SessionWrites \/ EditPolicy) => Inv'
<1> SUFFICES ASSUME Inv, SessionWrites \/ EditPolicy PROVE Inv'
  OBVIOUS
<1>1. /\ UNCHANGED <<call, setup, body, pc, client, action, turn, row, replayed>>
      /\ UNCHANGED reply
  BY DEF SessionWrites, EditPolicy, call
<1>2. Logged' /\ ReplayedRow'
  BY <1>1, RowKept
<1>3. ClientLoaded' /\ ScriptChecked'
  BY <1>1 DEF Inv, ClientLoaded, ScriptChecked, Hook
<1>4. SomeCall'
  <2>1. PICK given \in Calls : PolicyFiles(given)
    BY DEF Inv, SomeCall
  <2>2. CASE SessionWrites
    BY <1>1, <2>1, <2>2 DEF SessionWrites, PolicyFiles, SomeCall
  <2>3. CASE EditPolicy
    <3>1. PICK path \in DOMAIN disk, version \in Versions :
            disk' = [disk EXCEPT ![path] = version]
      BY <2>3 DEF EditPolicy
    <3>2. /\ DOMAIN disk' = DOMAIN disk
          /\ \A other \in DOMAIN disk :
               disk'[other] = IF other = path THEN version ELSE disk[other]
      BY <3>1
    <3>3. PolicyFiles(given)'
      BY <1>1, <2>1, <3>2 DEF PolicyFiles, Range
    <3> QED BY <3>3 DEF SomeCall
  <2> QED BY <2>2, <2>3
<1> QED BY <1>2, <1>3, <1>4 DEF Inv

THEOREM Invariance == Spec => []Inv
<1>1. Init => Inv
  BY InitInv
<1>2. Inv /\ [Next]_vars => Inv'
  <2> SUFFICES ASSUME Inv, [Next]_vars PROVE Inv'
    OBVIOUS
  <2>1. CASE Next
    BY <2>1, StepsKeep, AskKeeps, ReplayKeeps, WorldKeeps DEF Next
  <2>2. CASE UNCHANGED vars
    <3>1. /\ UNCHANGED <<call, setup, body, disk, pc, client, action, turn>>
          /\ UNCHANGED <<row, replayed, reply>>
      BY <2>2 DEF vars, call, world
    <3>2. Logged' /\ ReplayedRow'
      BY <3>1, RowKept
    <3> QED
      BY <3>1, <3>2 DEF Inv, SomeCall, PolicyFiles, ClientLoaded, ScriptChecked, Hook
  <2> QED BY <2>1, <2>2
<1> QED BY <1>1, <1>2, PTL DEF Spec

(* A row of the log replays to the verdict it was logged with, under the   *)
(* policy it was judged by (append_gate_log and replay_cmd), whatever the  *)
(* call, the policies, the answer and the edits in between.                *)
THEOREM RowsReplay == Spec => []ReplayRepeats
<1>1. Inv => ReplayRepeats
  <2> SUFFICES ASSUME Inv, replayed.done, replayed.policy = client, Replayable
               PROVE  replayed.rank = row.expected
    BY DEF ReplayRepeats
  <2> DEFINE verdict == GateOf(client, Request, reply)
             script  == row.script
  <2>1. /\ row.logged /\ client \in Loadable /\ Sound(reply)
        /\ row = LogRow(Request, reply, verdict)
        /\ replayed.rank = Rescored(client)
    BY DEF Inv, Logged, Written, ReplayedRow
  <2>2. /\ row.expected = verdict.rank /\ row.reasons = verdict.reasons
        /\ row.request = [Request EXCEPT !.claim = row.request.claim,
                                         !.body = "fits"]
    BY <2>1 DEF LogRow, LogOf, Request, RequestOf
  <2>3. row.request = Request
    BY <2>2 DEF Replayable, Request, RequestOf
  <2>4. /\ "decode" \notin verdict.reasons
        /\ \A i \in DOMAIN Row(client, Request.action).block_on :
             Row(client, Request.action).block_on[i].id \in BatteryNoul
        /\ \/ script.timeout
           \/ client.signal = "confidence"
           \/ client.signal = "top_prob" /\ script.confidence >= Unit \div Labels
    BY <2>2 DEF Replayable, SignalKept, Request, RequestOf
  <2>5. Request.extras = <<>>
    BY DEF Request, RequestOf
  <2> HIDE DEF verdict, script
  <2>6. /\ ScriptOk(script)
        /\ GateOf(client, Request, Scripted(script)).rank = verdict.rank
    BY <2>1, <2>4, <2>5, RowReplays DEF verdict, script
  <2>7. client # BadPolicy
    BY <2>1 DEF Loadable, PoliciesOf
  <2> QED BY <2>1, <2>2, <2>3, <2>6, <2>7 DEF Rescored, script
<1> QED BY <1>1, Invariance, PTL

-----------------------------------------------------------------------------
(* The turn of a session is a text, whatever the host writes meanwhile.    *)

LEMMA TextsTyped ==
  /\ \A one \in SessionRow : one.text \in Seq(STRING)
  /\ \A cell \in Cell : cell.row \in SessionRow
BY DEF SessionRow, Cell

LEMMA ItemTyped ==
  ASSUME NEW S, NEW seq \in Seq(S)
  PROVE  /\ Len(seq) \in Nat /\ DOMAIN seq = 1 .. Len(seq)
         /\ \A i \in 1 .. Len(seq) : seq[i] \in S
BY LenProperties

LEMMA LastTurnTyped ==
  ASSUME NEW rows \in Seq(SessionRow)
  PROVE  LastTurn(rows) \in Seq(STRING)
<1> DEFINE said == {i \in DOMAIN rows : UserRowText(rows[i]) # <<>>}
<1>1. Len(rows) \in Nat /\ said \subseteq 1 .. Len(rows)
  BY LenProperties
<1>2. ASSUME said # {} PROVE Max(said) \in DOMAIN rows
  <2>1. Max(said) \in said
    <3> HIDE DEF said
    <3> QED BY <1>1, <1>2, GreatestThere
  <2> QED BY <2>1
<1>3. \A i \in DOMAIN rows : rows[i].text \in Seq(STRING)
  BY ItemTyped, TextsTyped
<1> HIDE DEF said
<1>4. LastTurn(rows) = IF said = {} THEN <<>> ELSE rows[Max(said)].text
  BY DEF LastTurn, said
<1> QED BY <1>2, <1>3, <1>4, EmptySeq

LEMMA AfterTyped ==
  ASSUME NEW cells \in Seq(Cell), NEW i \in Nat
  PROVE  After(cells, i) \in Seq(Cell)
<1>1. i + 1 \in Int /\ Len(cells) \in Int
      /\ \A j \in i + 1 .. Len(cells) : cells[j] \in Cell
  BY LenProperties
<1>2. SubSeq(cells, i + 1, Len(cells)) \in Seq(Cell)
  BY <1>1, SubSeqProperties
<1> QED BY <1>2 DEF After

LEMMA TurnOfTyped ==
  ASSUME NEW cells \in Seq(Cell), NEW inside
  PROVE  TurnOf(cells, inside) \in Seq(STRING)
<1> DEFINE ends == {i \in DOMAIN cells : EndsLine(cells[i])}
           read == IF inside THEN DropFirstLine(cells) ELSE cells
           said == {i \in LastLines(LineStarts(read)) :
                      /\ IsRow(LineAt(read, i))
                      /\ UserRowText(read[i].row) # <<>>}
<1>1. FirstIndex(ends, Len(cells)) \in Nat
  <2>1. ends \subseteq Nat /\ Len(cells) \in Nat
    BY LenProperties
  <2> HIDE DEF ends
  <2> QED BY <2>1, LeastThere DEF FirstIndex
<1>2. DropFirstLine(cells) \in Seq(Cell)
  BY <1>1, AfterTyped DEF DropFirstLine
<1>3. read \in Seq(Cell)
  BY <1>2
<1> HIDE DEF read
<1>4. said \subseteq 1 .. Len(read) /\ Len(read) \in Nat
  BY <1>3, LenProperties DEF LastLines, LineStarts
<1>5. TurnOf(cells, inside) = IF said = {} THEN <<>> ELSE read[Max(said)].row.text
  BY DEF TurnOf, read
<1> HIDE DEF said
<1>6. ASSUME said # {} PROVE Max(said) \in 1 .. Len(read)
  BY <1>4, <1>6, GreatestThere
<1>7. \A i \in 1 .. Len(read) : read[i].row.text \in Seq(STRING)
  BY <1>3, ItemTyped, TextsTyped
<1> QED BY <1>5, <1>6, <1>7, EmptySeq

(* What one more read leaves behind.                                       *)
LEMMA ReadTyped ==
  ASSUME transcript \in Seq(Cell), length \in Nat, bytes \in Seq(Cell),
         NEW upTo \in Place + 1 .. Reach
  PROVE  LET read == bytes \o SubSeq(transcript, Place + 1, upTo)
         IN  /\ Place \in Nat /\ Reach \in Nat /\ Start \in Nat
             /\ upTo <= Len(transcript) /\ upTo <= Start + TailCells
             /\ read \in Seq(Cell) /\ Len(read) = upTo - Start
             /\ \A i \in 1 .. Len(bytes) : read[i] = bytes[i]
             /\ \A i \in Len(bytes) + 1 .. upTo - Start :
                  read[i] = transcript[Start + i]
<1>1. /\ Start \in Nat /\ Len(bytes) \in Nat /\ Len(transcript) \in Nat
      /\ TailCells \in Nat
  BY TailAssumption, LenProperties DEF Start, Inside
<1>2. /\ Place \in Nat /\ Reach \in Nat /\ Place = Start + Len(bytes)
      /\ Reach <= Len(transcript) /\ Reach <= Start + TailCells
  BY <1>1 DEF Place, Reach
<1> HIDE DEF Place, Reach, Start
<1>3. upTo \in Nat /\ Place + 1 <= upTo /\ upTo <= Reach
  BY <1>2
<1> DEFINE more == SubSeq(transcript, Place + 1, upTo)
<1>4. /\ more \in Seq(Cell) /\ Len(more) = upTo - Place
      /\ \A i \in 1 .. upTo - Place : more[i] = transcript[Place + i]
  <2>1. \A i \in Place + 1 .. upTo : transcript[i] \in Cell
    BY <1>1, <1>2, <1>3, LenProperties
  <2>2. /\ more \in Seq(Cell)
        /\ Len(more) = IF Place + 1 <= upTo THEN upTo - (Place + 1) + 1 ELSE 0
        /\ \A i \in 1 .. upTo - (Place + 1) + 1 :
              more[i] = transcript[Place + 1 + i - 1]
    BY <1>2, <1>3, <2>1, SubSeqProperties
  <2> HIDE DEF more
  <2>3. Len(more) = upTo - Place
    BY <1>2, <1>3, <2>2
  <2>4. ASSUME NEW i \in 1 .. upTo - Place PROVE more[i] = transcript[Place + i]
    <3>1. i \in 1 .. upTo - (Place + 1) + 1 /\ Place + 1 + i - 1 = Place + i
      BY <1>2, <1>3
    <3> QED BY <2>2, <3>1
  <2> QED BY <2>2, <2>3, <2>4
<1> HIDE DEF more
<1> DEFINE read == bytes \o more
<1>5. /\ read \in Seq(Cell) /\ Len(read) = Len(bytes) + Len(more)
      /\ \A i \in 1 .. Len(bytes) + Len(more) :
           read[i] = IF i <= Len(bytes) THEN bytes[i] ELSE more[i - Len(bytes)]
  BY <1>4, ConcatProperties
<1> HIDE DEF read
<1>6. Len(read) = upTo - Start
  BY <1>1, <1>2, <1>3, <1>4, <1>5
<1>7. \A i \in 1 .. Len(bytes) : read[i] = bytes[i]
  BY <1>1, <1>2, <1>3, <1>4, <1>5
<1>8. ASSUME NEW i \in Len(bytes) + 1 .. upTo - Start
      PROVE  read[i] = transcript[Start + i]
  <2>1. /\ i \in 1 .. Len(bytes) + Len(more) /\ ~(i <= Len(bytes))
        /\ i - Len(bytes) \in 1 .. upTo - Place
        /\ Place + (i - Len(bytes)) = Start + i
    BY <1>1, <1>2, <1>3, <1>4
  <2> QED BY <1>4, <1>5, <2>1
<1>9. upTo <= Len(transcript) /\ upTo <= Start + TailCells
  BY <1>1, <1>2, <1>3
<1> QED BY <1>1, <1>2, <1>5, <1>6, <1>7, <1>8, <1>9 DEF read, more

LEMMA GrownByOne ==
  ASSUME NEW cells \in Seq(Cell), NEW next \in SessionRows
  PROVE  /\ Grown(cells, next) \in Seq(Cell)
         /\ \E cell \in Cell : Grown(cells, next) = Append(cells, cell)
<1>1. next \in SessionRow
  BY SessionAssumption
<1>2. [part |-> 1, row |-> next] \in Cell
  BY <1>1 DEF Cell
<1>3. ASSUME cells # <<>> PROVE [part |-> 2, row |-> Last(cells).row] \in Cell
  <2>1. Len(cells) \in DOMAIN cells
    BY <1>3, EmptySeq, LenProperties
  <2>2. Last(cells) \in Cell
    BY <2>1, ItemTyped DEF Last
  <2>3. Last(cells).row \in SessionRow
    BY <2>2, TextsTyped
  <2> QED BY <2>3 DEF Cell
<1>4. PICK cell \in Cell : Grown(cells, next) = Append(cells, cell)
  BY <1>2, <1>3 DEF Grown
<1> QED BY <1>4, AppendProperties

-----------------------------------------------------------------------------
(* From the readings of the policy to the decision.                        *)

Sessions ==
  /\ transcript \in Seq(Cell) /\ length \in Nat /\ turn \in Seq(STRING)
  /\ bytes \in Seq(Cell)

(* What was read of the policy is still there, unless it was rewritten.    *)
FlagNamed == pc = "flag" => setup.flag # NoSpec
OneVersion == ~edited /\ Opened => client = Load(Used)

(* The row is due under the policy it was looked for in, which is the one  *)
(* the call is judged by unless the file was rewritten.                    *)
RowDue ==
  (pc = "ask" \/ row.logged) =>
    /\ action \in RowsDue(matched)
    /\ RowNamed \/ edited \/ matched = client

ShownVerdict ==
  row.logged => outcome = Shown(GateOf(client, Request, reply).rank)

Decision == Sessions /\ FlagNamed /\ OneVersion /\ RowDue /\ ShownVerdict

LEMMA InitDecision == Init => Decision
<1> SUFFICES ASSUME Init PROVE Decision
  OBVIOUS
<1>1. Sessions
  BY SessionAssumption, EmptySeq DEF Init, Sessions
<1>2. ~row.logged /\ pc = (IF Hook THEN "body" ELSE "environment")
  BY DEF Init, Hook, NotLogged
<1> QED
  BY <1>1, <1>2
     DEF Decision, FlagNamed, OneVersion, Opened, RowDue, ShownVerdict

LEMMA GivenTurnTyped ==
  ASSUME Inv
  PROVE  GivenTurn \in Seq(STRING)
<1>1. body.prompt \in Seq(STRING) /\ body.inline \in Seq(SessionRow)
  BY CallsAssumption DEF Inv, SomeCall, PolicyFiles
<1> QED BY <1>1, LastTurnTyped DEF GivenTurn

(* The turn: what the call holds, or what is read of the transcript.       *)
LEMMA SessionSteps ==
  ASSUME Inv, Sessions,
         \/ ReadBody \/ OpenFromEnvironment \/ OpenFromFlag \/ CheckScript
         \/ FindTurn \/ RefuseTrusted \/ OpenTranscript \/ ReadOn
         \/ ReadTranscript \/ NameRow \/ MatchRow
  PROVE  Sessions'
<1>1. UNCHANGED transcript
  BY DEF ReadBody, OpenFromEnvironment, OpenFromFlag, CheckScript, FindTurn,
         RefuseTrusted, OpenTranscript, ReadOn, ReadTranscript, NameRow, MatchRow,
         Quiet, Still
<1>2. CASE \/ ReadBody \/ OpenFromEnvironment \/ OpenFromFlag \/ CheckScript
           \/ RefuseTrusted \/ NameRow \/ MatchRow
  <2>1. UNCHANGED <<turn, length, bytes>>
    BY <1>2 DEF ReadBody, OpenFromEnvironment, OpenFromFlag, CheckScript,
                RefuseTrusted, NameRow, MatchRow, Unread
  <2> QED BY <1>1, <2>1 DEF Sessions
<1>3. CASE FindTurn
  <2>1. turn' = <<>> \/ turn' = GivenTurn
    BY <1>3 DEF FindTurn
  <2>2. turn' \in Seq(STRING) /\ length' = length /\ bytes' = bytes
    BY <1>3, <2>1, GivenTurnTyped, EmptySeq DEF FindTurn
  <2> QED BY <1>1, <2>2 DEF Sessions
<1>4. CASE OpenTranscript
  BY <1>1, <1>4, LenProperties DEF OpenTranscript, Sessions
<1>5. CASE ReadTranscript
  <2>1. TurnOf(bytes, Inside) \in Seq(STRING)
    BY TurnOfTyped DEF Sessions
  <2> QED BY <1>1, <1>5, <2>1, EmptySeq DEF ReadTranscript, Sessions
<1>6. CASE ReadOn
  <2>1. PICK upTo \in Place + 1 .. Reach :
          bytes' = bytes \o SubSeq(transcript, Place + 1, upTo)
    BY <1>6 DEF ReadOn
  <2>2. bytes' \in Seq(Cell)
    BY <2>1, ReadTyped DEF Sessions
  <2>3. UNCHANGED <<turn, length>>
    BY <1>6 DEF ReadOn
  <2> QED BY <1>1, <2>2, <2>3 DEF Sessions
<1> QED BY <1>2, <1>3, <1>4, <1>5, <1>6

(* Until the row is looked for, the policy is only the one that was read.  *)
LEMMA VersionSteps ==
  ASSUME Inv, FlagNamed, OneVersion,
         \/ ReadBody \/ OpenFromEnvironment \/ OpenFromFlag \/ CheckScript
         \/ FindTurn \/ RefuseTrusted \/ OpenTranscript \/ ReadOn
         \/ ReadTranscript \/ NameRow \/ MatchRow
  PROVE  FlagNamed' /\ OneVersion'
<1>1. /\ UNCHANGED <<setup, disk, edited>>
      /\ Hook' = Hook /\ Used' = Used /\ \A spec : Load(spec)' = Load(spec)
  BY DEF ReadBody, OpenFromEnvironment, OpenFromFlag, CheckScript, FindTurn,
         RefuseTrusted, OpenTranscript, ReadOn, ReadTranscript, NameRow, MatchRow,
         Quiet, Still, call, Hook, Used, Load
<1>2. CASE OpenFromEnvironment
  <2>1. client' = Load(setup.env)
    BY <1>2 DEF OpenFromEnvironment
  <2>2. \/ pc' = "done"
        \/ setup.flag = NoSpec /\ pc' = (IF Hook THEN "script" ELSE "body")
        \/ setup.flag # NoSpec /\ pc' = "flag"
    BY <1>2 DEF OpenFromEnvironment, Refuse, Step
  <2>3. setup.flag = NoSpec => client' = Load(Used)
    BY <2>1 DEF Used
  <2> QED BY <1>1, <2>2, <2>3 DEF FlagNamed, OneVersion, Opened
<1>3. CASE OpenFromFlag
  <2>1. client' = Load(Used)
    BY <1>3 DEF OpenFromFlag, FlagNamed, Used
  <2>2. pc' # "flag"
    BY <1>3 DEF OpenFromFlag, Refuse, Step
  <2> QED BY <1>1, <2>1, <2>2 DEF FlagNamed, OneVersion
<1>4. CASE ~OpenFromEnvironment /\ ~OpenFromFlag
  <2>1. UNCHANGED client
    BY <1>4 DEF ReadBody, CheckScript, FindTurn, RefuseTrusted,
                OpenTranscript, ReadOn, ReadTranscript, NameRow, MatchRow
  <2>2. pc' # "flag" /\ (Opened' => Opened)
    <3>1. CASE ReadBody
      BY <1>1, <3>1 DEF ReadBody, Refuse, Step, Opened
    <3>2. CASE CheckScript
      BY <1>1, <3>2 DEF CheckScript, Refuse, Step, Opened
    <3>3. CASE FindTurn \/ ReadTranscript
      BY <1>1, <3>3 DEF FindTurn, ReadTranscript, Step, Opened
    <3>4. CASE RefuseTrusted \/ OpenTranscript
      BY <1>1, <3>4 DEF RefuseTrusted, OpenTranscript, Refuse, Opened
    <3>5. CASE NameRow \/ MatchRow
      BY <1>1, <3>5 DEF NameRow, MatchRow, Refuse, Opened
    <3>6. CASE ReadOn
      BY <1>1, <3>6 DEF ReadOn, Opened
    <3> QED BY <1>4, <3>1, <3>2, <3>3, <3>4, <3>5, <3>6
  <2> QED BY <1>1, <2>1, <2>2 DEF FlagNamed, OneVersion
<1> QED BY <1>2, <1>3, <1>4

(* The row that is looked for in a policy is due under it, and the policy  *)
(* is still the one that was opened unless the file was rewritten.         *)
LEMMA MatchedIsDue ==
  ASSUME Inv, OneVersion, MatchRow, pc' = "ask"
  PROVE  /\ matched' = Loaded /\ action' \in RowsDue(Loaded)
         /\ edited \/ Loaded = client
<1>1. PICK given \in Calls : PolicyFiles(given)
  BY DEF Inv, SomeCall
<1>2. /\ pc = "load" /\ ~RowNamed /\ ~Unmatchable /\ matched' = Loaded
      /\ action' = MatchedRow(Loaded, body.tool, Command)
  BY DEF MatchRow, Refuse
<1>3. Loaded = Load(Used) /\ Used \in {setup.flag, setup.env}
  BY DEF Loaded, LoadPolicy, Used
<1>4. edited \/ Loaded = client
  BY <1>2, <1>3 DEF OneVersion, Opened
<1>5. Loaded \in PoliciesOf(given)
  BY <1>1, <1>2, <1>3, LoadedIs DEF Unmatchable
<1>6. Command = CommandOf(given.body.command) /\ body = given.body
  BY <1>1 DEF Command, PolicyFiles
<1>7. Command.kind # "invalid" \/ body.tool \in DOMAIN Loaded.actions
  BY <1>2 DEF Unmatchable
<1>8. MatchedRow(Loaded, body.tool, Command) \in RowsOwed(Loaded, body)
  BY <1>5, <1>6, <1>7, MatcherAssumption
<1> QED BY <1>2, <1>4, <1>8 DEF RowsDue

LEMMA StepsDecide ==
  ASSUME Inv, Decision,
         \/ ReadBody \/ OpenFromEnvironment \/ OpenFromFlag \/ CheckScript
         \/ FindTurn \/ RefuseTrusted \/ OpenTranscript \/ ReadOn
         \/ ReadTranscript \/ NameRow \/ MatchRow
  PROVE  Decision'
<1>1. /\ UNCHANGED <<setup, body, row, edited>> /\ pc # "done"
      /\ Hook' = Hook
  BY DEF ReadBody, OpenFromEnvironment, OpenFromFlag, CheckScript, FindTurn,
         RefuseTrusted, OpenTranscript, ReadOn, ReadTranscript, NameRow, MatchRow,
         Quiet, Still, call, Hook
<1>2. ~row.logged
  BY <1>1 DEF Inv, Logged
<1>3. Sessions' /\ FlagNamed' /\ OneVersion'
  BY SessionSteps, VersionSteps DEF Decision
<1>4. ShownVerdict'
  BY <1>1, <1>2 DEF ShownVerdict
<1>5. RowDue'
  <2>1. CASE pc' # "ask"
    BY <1>1, <1>2, <2>1 DEF RowDue
  <2>2. CASE pc' = "ask"
    <3>1. NameRow \/ MatchRow
      BY <2>2 DEF ReadBody, OpenFromEnvironment, OpenFromFlag, CheckScript,
                  FindTurn, RefuseTrusted, OpenTranscript, ReadOn, ReadTranscript,
                  Refuse, Step
    <3>2. CASE NameRow
      BY <1>1, <3>2 DEF NameRow, RowDue, RowsDue, RowNamed, Quiet
    <3>3. CASE MatchRow
      <4>1. client' = client
        BY <3>3 DEF MatchRow
      <4>2. /\ matched' = Loaded /\ action' \in RowsDue(Loaded)
            /\ edited \/ Loaded = client
        BY <2>2, <3>3, MatchedIsDue DEF Decision
      <4>3. RowsDue(matched)' = RowsDue(Loaded)
        BY <1>1, <4>2 DEF RowsDue, RowNamed
      <4> QED BY <1>1, <4>1, <4>2, <4>3 DEF RowDue
    <3> QED BY <3>1, <3>2, <3>3
  <2> QED BY <2>1, <2>2
<1> QED BY <1>3, <1>4, <1>5 DEF Decision

LEMMA AskDecides == Inv /\ Decision /\ Ask => Decision'
<1> SUFFICES ASSUME Inv, Decision, Ask PROVE Decision'
  OBVIOUS
<1>1. /\ UNCHANGED <<setup, body, transcript, turn, length, bytes, client, action>>
      /\ UNCHANGED <<matched, edited>>
      /\ pc = "ask" /\ pc' = "done"
      /\ outcome' = Shown(GateOf(client, Request, reply').rank)
      /\ Hook' = Hook
  BY DEF Ask, Unread, call, Hook
<1>2. Sessions' /\ FlagNamed'
  BY <1>1 DEF Decision, Sessions, FlagNamed
<1>3. OneVersion'
  BY <1>1 DEF OneVersion, Opened
<1>4. RowDue'
  BY <1>1 DEF Decision, RowDue, RowsDue, RowNamed
<1>5. ShownVerdict'
  BY <1>1 DEF ShownVerdict, Shown, GateOf, Request, RequestOf, Trusted, Hook
<1> QED BY <1>2, <1>3, <1>4, <1>5 DEF Decision

(* A step that leaves the run and its verdict alone.                       *)
LEMMA Aside ==
  ASSUME Decision, edited => edited',
         UNCHANGED <<call, pc, client, action, matched, turn, length, row, outcome,
                     reply>>
  PROVE  /\ FlagNamed' /\ ShownVerdict' /\ RowDue'
         /\ Hook' = Hook /\ Used' = Used /\ Opened' = Opened
<1>1. UNCHANGED <<setup, body>> /\ Hook' = Hook
  BY DEF call, Hook
<1>2. FlagNamed' /\ RowDue'
  BY <1>1 DEF Decision, FlagNamed, RowDue, RowsDue, RowNamed
<1>3. ShownVerdict'
  BY <1>1 DEF Decision, ShownVerdict, Shown, GateOf, Request, RequestOf, Trusted, Hook
<1> QED BY <1>1, <1>2, <1>3 DEF Used, Opened

LEMMA WorldDecides ==
  ASSUME Inv, Decision, SessionWrites \/ EditPolicy \/ Replay
  PROVE  Decision'
<1>1. /\ UNCHANGED <<call, pc, client, action, matched, turn, length, bytes, row>>
      /\ UNCHANGED <<outcome, reply>>
  BY DEF SessionWrites, EditPolicy, Replay
<1>2. /\ FlagNamed' /\ ShownVerdict' /\ RowDue'
      /\ Used' = Used /\ Opened' = Opened
  <2>1. ASSUME edited PROVE edited'
    <3>1. CASE SessionWrites \/ Replay
      BY <2>1, <3>1 DEF SessionWrites, Replay, world
    <3>2. CASE EditPolicy
      BY <2>1, <3>2, Zenon DEF EditPolicy
    <3> QED BY <3>1, <3>2
  <2> QED BY <1>1, <2>1, Aside
<1>3. ~edited' => ~edited /\ (Opened => Load(Used)' = Load(Used))
  <2>1. CASE SessionWrites \/ Replay
    BY <1>2, <2>1 DEF SessionWrites, Replay, world, Load
  <2>2. CASE EditPolicy
    <3>1. PICK path \in DOMAIN disk, version \in Versions :
            /\ disk' = [disk EXCEPT ![path] = version]
            /\ edited' = (edited \/ (Opened /\ path = Used))
      BY <2>2 DEF EditPolicy
    <3>2. SUFFICES ASSUME ~edited', Opened
                   PROVE  Load(Used)' = Load(Used)
      BY <3>1
    <3>3. path # Used
      BY <3>1, <3>2
    <3>4. PICK spec : spec = Used
      OBVIOUS
    <3>5. Used' = spec /\ path # spec
      BY <1>2, <3>3, <3>4
    <3>6. Load(spec)' = Load(spec)
      <4>1. CASE spec = NoSpec
        BY <4>1 DEF Load
      <4>2. CASE spec # NoSpec
        <5>1. spec \in DOMAIN disk
          BY <3>4, <4>2, CallsAssumption DEF Inv, SomeCall, PolicyFiles, Used
        <5>2. disk'[spec] = disk[spec]
          BY <3>1, <3>5, <5>1
        <5> QED BY <4>2, <5>2 DEF Load
      <4> QED BY <4>1, <4>2
    <3> QED BY <3>4, <3>5, <3>6 DEF Load
  <2> QED BY <2>1, <2>2
<1>4. OneVersion'
  <2>1. CASE edited'
    BY <2>1 DEF OneVersion
  <2>2. CASE ~edited'
    BY <1>1, <1>2, <1>3, <2>2 DEF Decision, OneVersion
  <2> QED BY <2>1, <2>2
<1>5. Sessions'
  <2>1. CASE EditPolicy \/ Replay
    BY <1>1, <2>1 DEF EditPolicy, Replay, world, Decision, Sessions
  <2>2. CASE SessionWrites
    <3>1. transcript' \in Seq(Cell)
      BY <2>2, GrownByOne, EmptySeq DEF SessionWrites, Decision, Sessions
    <3> QED BY <1>1, <3>1 DEF Decision, Sessions
  <2> QED BY <2>1, <2>2
<1> QED BY <1>2, <1>4, <1>5 DEF Decision

THEOREM DecisionInvariance == Spec => []Decision
<1>1. Init => Decision
  BY InitDecision
<1>2. Inv /\ Decision /\ [Next]_vars => Decision'
  <2> SUFFICES ASSUME Inv, Decision, [Next]_vars PROVE Decision'
    OBVIOUS
  <2>1. CASE Next
    BY <2>1, StepsDecide, AskDecides, WorldDecides DEF Next
  <2>2. CASE UNCHANGED vars
    <3>1. /\ UNCHANGED <<call, pc, client, action, matched, turn, length, bytes>>
          /\ UNCHANGED <<row, outcome, reply, disk, transcript, edited>>
      BY <2>2 DEF vars, world
    <3>2. /\ FlagNamed' /\ ShownVerdict' /\ RowDue'
          /\ Used' = Used /\ Opened' = Opened
      BY <3>1, Aside
    <3>3. Sessions' /\ OneVersion'
      BY <3>1, <3>2 DEF Decision, Sessions, OneVersion, Load
    <3> QED BY <3>2, <3>3 DEF Decision
  <2> QED BY <2>1, <2>2
<1> QED BY <1>1, <1>2, Invariance, PTL DEF Spec

(* The decision is what the policy that was opened makes of a row that is  *)
(* due under the policy that was there when the row was looked for, with   *)
(* the claim of the whole turn (action_id_from_tool, hook_cmd,             *)
(* hook_trusted), whoever writes the transcript and whatever is written to *)
(* the policy files meanwhile; and the two are one policy unless the file  *)
(* they were read from was rewritten in between.  For any matcher that     *)
(* keeps to MatcherAssumption, which is what is said here of the matcher.  *)
THEOREM DecisionOwed == Spec => []DecidedAsOwed
<1>1. Inv /\ Decision => DecidedAsOwed
  <2> SUFFICES ASSUME Inv, Decision, row.logged
               PROVE  /\ \E id \in RowsDue(matched) :
                           outcome = Shown(Decided(client, id).rank)
                      /\ RowNamed \/ edited \/ matched = client
    BY DEF DecidedAsOwed
  <2> DEFINE said == IF body.trusted = "object" THEN body.said ELSE turn
  <2>1. action \in RowsDue(matched) /\ (RowNamed \/ edited \/ matched = client)
    BY DEF Decision, RowDue
  <2>2. (\E text \in Trusted : Claims(text)) <=> Claims(said)
    <3>1. turn \in Seq(STRING)
      BY DEF Decision, Sessions
    <3>2. (\E text \in TrustedOf(turn) : Claims(text)) <=> Claims(turn)
      BY <3>1, TurnClaims
    <3> QED BY <3>2 DEF Trusted
  <2>3. Request = RequestOf(action, Claims(said))
    <3> DEFINE sent == \E text \in Trusted : Claims(text)
               made == Claims(said)
               args == body.args \in {"claim", "secret claim"}
    <3>1. (sent \/ args) = (made \/ args)
      BY <2>2
    <3> QED BY <3>1 DEF Request, RequestOf
  <2>4. Decided(client, action) = GateOf(client, Request, reply)
    BY <2>3 DEF Decided
  <2>5. outcome = Shown(Decided(client, action).rank)
    BY <2>4 DEF Decision, ShownVerdict
  <2> QED BY <2>1, <2>5
<1> QED BY <1>1, Invariance, DecisionInvariance, PTL


-----------------------------------------------------------------------------
(* The lines of a transcript.  A line is known by where it starts when it  *)
(* is read (TurnOf), and by where it ends when it stands (TurnNow).        *)

EndsOf(cells) == {i \in DOMAIN cells : EndsLine(cells[i])}
EndBehind(cells, s) == FirstIndex({i \in EndsOf(cells) : i > s}, Len(cells))
LinesFrom(cells, i) ==
  Cardinality({j \in EndsOf(cells) : j >= i})
    + (IF EndsLine(Last(cells)) THEN 0 ELSE 1)
SaidBehind(cells, b) ==
  {i \in EndsOf(cells) :
     /\ i - 1 > b
     /\ i = 2 \/ EndsLine(cells[i - 2])
     /\ IsRow(SubSeq(cells, i - 1, i))
     /\ LinesFrom(cells, i) <= TailLines
     /\ UserRowText(cells[i].row) # <<>>}
TurnBehind(cells, b) ==
  IF SaidBehind(cells, b) = {} THEN <<>>
  ELSE cells[Max(SaidBehind(cells, b))].row.text

SaidIn(read) ==
  {i \in LastLines(LineStarts(read)) :
     IsRow(LineAt(read, i)) /\ UserRowText(read[i].row) # <<>>}
TurnIn(read) ==
  IF SaidIn(read) = {} THEN <<>> ELSE read[Max(SaidIn(read))].row.text

Begun(cells) ==
  IF Len(cells) > TailCells THEN EndBehind(cells, Len(cells) - TailCells) ELSE 0

LEMMA NowIs ==
  ASSUME NEW cells \in Seq(Cell)
  PROVE  TurnNow(cells) = TurnBehind(cells, Begun(cells))
<1>1. Len(cells) \in Nat /\ TailCells \in Nat
  BY LenProperties, TailAssumption
<1> DEFINE cut == IF Len(cells) > TailCells THEN Len(cells) - TailCells ELSE 0
<1>2. Begun(cells) = IF cut = 0 THEN 0 ELSE EndBehind(cells, cut)
  <2>1. CASE Len(cells) > TailCells
    <3>1. cut = Len(cells) - TailCells /\ cut # 0
      BY <1>1, <2>1
    <3> QED BY <2>1, <3>1 DEF Begun
  <2>2. CASE ~(Len(cells) > TailCells)
    BY <2>2 DEF Begun
  <2> QED BY <2>1, <2>2
<1> QED BY <1>2 DEF TurnNow, TurnBehind, SaidBehind, LinesFrom, EndBehind, EndsOf

LEMMA RowIs ==
  ASSUME NEW cells \in Seq(Cell), NEW i \in 2 .. Len(cells)
  PROVE  IsRow(SubSeq(cells, i - 1, i)) <=>
           /\ cells[i - 1].part = 1 /\ cells[i].part = 2
           /\ cells[i - 1].row = cells[i].row
<1> DEFINE line == SubSeq(cells, i - 1, i)
<1>1. /\ Len(cells) \in Nat /\ i - 1 \in Int /\ i \in Int
      /\ \A j \in i - 1 .. i : cells[j] \in Cell
  BY LenProperties
<1>2. /\ Len(line) = 2
      /\ \A j \in 1 .. i - (i - 1) + 1 : line[j] = cells[(i - 1) + j - 1]
  BY <1>1, SubSeqProperties
<1>3. line[1] = cells[i - 1] /\ line[2] = cells[i]
  <2>1. 1 \in 1 .. i - (i - 1) + 1 /\ 2 \in 1 .. i - (i - 1) + 1
        /\ (i - 1) + 1 - 1 = i - 1 /\ (i - 1) + 2 - 1 = i
    BY <1>1
  <2> HIDE DEF line
  <2>2. line[1] = cells[(i - 1) + 1 - 1] /\ line[2] = cells[(i - 1) + 2 - 1]
    BY <1>2, <2>1
  <2> QED BY <2>1, <2>2
<1> HIDE DEF line
<1>4. IsRow(line) <=> /\ cells[i - 1].part = 1 /\ cells[i].part = 2
                      /\ cells[i - 1].row = cells[i].row
  BY <1>2, <1>3 DEF IsRow
<1> QED BY <1>4 DEF line

(* The line that starts at j is a row: the next cell ends it.              *)
LEMMA LineIs ==
  ASSUME NEW read \in Seq(Cell), NEW j \in 1 .. Len(read)
  PROVE  IsRow(LineAt(read, j)) <=>
           /\ j + 1 <= Len(read)
           /\ read[j].part = 1 /\ read[j + 1].part = 2
           /\ read[j].row = read[j + 1].row
<1> DEFINE ends == {k \in j .. Len(read) : EndsLine(read[k])}
           end == FirstIndex(ends, Len(read))
           line == SubSeq(read, j, end)
<1>1. Len(read) \in Nat /\ \A k \in 1 .. Len(read) : read[k] \in Cell
  BY LenProperties
<1>2. end \in j .. Len(read) /\ (ends # {} => end \in ends)
  <2>1. ends \subseteq Nat /\ ends \subseteq j .. Len(read)
    BY <1>1
  <2>2. end = IF ends = {} THEN Len(read) ELSE Min(ends)
    BY DEF FirstIndex
  <2> HIDE DEF ends, end
  <2>3. ends # {} => Min(ends) \in ends
    BY <2>1, LeastThere
  <2>4. Len(read) \in j .. Len(read)
    BY <1>1
  <2> QED BY <2>1, <2>2, <2>3, <2>4
<1>3. LineAt(read, j) = line
  BY DEF LineAt
<1> HIDE DEF end
<1>4. /\ Len(line) = end - j + 1
      /\ \A k \in 1 .. end - j + 1 : line[k] = read[j + k - 1]
  <2>1. /\ j \in Int /\ end \in Int /\ j <= end
        /\ \A k \in j .. end : read[k] \in Cell
    BY <1>1, <1>2
  <2> QED BY <2>1, SubSeqProperties
<1>5. ASSUME end = j + 1 PROVE line[1] = read[j] /\ line[2] = read[j + 1]
  <2>1. 1 \in 1 .. end - j + 1 /\ 2 \in 1 .. end - j + 1
        /\ j + 1 - 1 = j /\ j + 2 - 1 = j + 1
    BY <1>2, <1>5
  <2> HIDE DEF line
  <2>2. line[1] = read[j + 1 - 1] /\ line[2] = read[j + 2 - 1]
    BY <1>4, <2>1
  <2> QED BY <2>1, <2>2
<1> HIDE DEF line
<1>6. ASSUME IsRow(line)
      PROVE  /\ j + 1 <= Len(read)
             /\ read[j].part = 1 /\ read[j + 1].part = 2
             /\ read[j].row = read[j + 1].row
  <2>1. Len(line) = 2
    BY <1>6 DEF IsRow
  <2>2. end = j + 1
    <3>1. end \in Int /\ j \in Int /\ Len(line) = end - j + 1
      BY <1>1, <1>2, <1>4
    <3>2. \A x, y, l \in Int : l = x - y + 1 /\ l = 2 => x = y + 1
      OBVIOUS
    <3>3. Len(line) \in Int
      BY <2>1
    <3> HIDE DEF ends
    <3> QED BY <2>1, <3>1, <3>2, <3>3
  <2> QED BY <1>2, <1>5, <1>6, <2>2 DEF IsRow
<1>7. ASSUME j + 1 <= Len(read), read[j].part = 1, read[j + 1].part = 2,
             read[j].row = read[j + 1].row
      PROVE  IsRow(line)
  <2>1. j + 1 \in ends
    BY <1>1, <1>7 DEF EndsLine
  <2>2. \A k \in ends : j + 1 <= k
    BY <1>7 DEF EndsLine
  <2>3. ends \subseteq Int
    OBVIOUS
  <2>4. Min(ends) = j + 1
    <3> HIDE DEF ends
    <3> QED BY <2>1, <2>2, <2>3, LeastIs
  <2>5. end = j + 1
    BY <2>1, <2>4 DEF FirstIndex, end
  <2> QED BY <1>4, <1>5, <1>7, <2>5 DEF IsRow
<1> QED BY <1>3, <1>6, <1>7

(* What is behind a place, cell by cell.                                   *)
LEMMA BehindWords ==
  ASSUME NEW cells \in Seq(Cell), NEW b \in 0 .. Len(cells)
  PROVE  /\ After(cells, b) \in Seq(Cell)
         /\ Len(After(cells, b)) = Len(cells) - b
         /\ \A j \in 1 .. Len(cells) - b : After(cells, b)[j] = cells[b + j]
<1>1. /\ Len(cells) \in Int /\ b + 1 \in Int
      /\ \A j \in b + 1 .. Len(cells) : cells[j] \in Cell
  BY LenProperties
<1> DEFINE rest == SubSeq(cells, b + 1, Len(cells))
<1>2. /\ rest \in Seq(Cell)
      /\ Len(rest) = IF b + 1 <= Len(cells) THEN Len(cells) - (b + 1) + 1 ELSE 0
      /\ \A j \in 1 .. Len(cells) - (b + 1) + 1 : rest[j] = cells[(b + 1) + j - 1]
  BY <1>1, SubSeqProperties
<1>3. rest = After(cells, b)
  BY DEF After
<1> HIDE DEF rest
<1>4. Len(rest) = Len(cells) - b
  BY <1>1, <1>2
<1>5. \A j \in 1 .. Len(cells) - b : rest[j] = cells[b + j]
  <2> SUFFICES ASSUME NEW j \in 1 .. Len(cells) - b PROVE rest[j] = cells[b + j]
    OBVIOUS
  <2>1. j \in 1 .. Len(cells) - (b + 1) + 1 /\ (b + 1) + j - 1 = b + j
    BY <1>1
  <2> QED BY <1>2, <2>1
<1> QED BY <1>2, <1>3, <1>4, <1>5

LEMMA StartIs ==
  ASSUME NEW cells \in Seq(Cell), NEW b \in 0 .. Len(cells)
  PROVE  \A j : j \in LineStarts(After(cells, b)) <=>
                  /\ j \in 1 .. Len(cells) - b
                  /\ j = 1 \/ EndsLine(cells[b + j - 1])
<1> DEFINE read == After(cells, b)
<1>1. /\ read \in Seq(Cell) /\ Len(read) = Len(cells) - b
      /\ Len(cells) \in Nat /\ b \in Nat
      /\ \A j \in 1 .. Len(cells) - b : read[j] = cells[b + j]
  BY BehindWords, LenProperties
<1> HIDE DEF read
<1>2. DOMAIN read = 1 .. Len(cells) - b
  BY <1>1, LenProperties
<1> SUFFICES ASSUME NEW j
             PROVE  j \in LineStarts(read) <=>
                      /\ j \in 1 .. Len(cells) - b
                      /\ j = 1 \/ EndsLine(cells[b + j - 1])
  BY DEF read
<1>3. ASSUME j \in 1 .. Len(cells) - b, j > 1
      PROVE  read[j - 1] = cells[b + j - 1]
  <2>1. j - 1 \in 1 .. Len(cells) - b /\ b + (j - 1) = b + j - 1
    BY <1>1, <1>3
  <2> QED BY <1>1, <2>1
<1>4. j \in LineStarts(read) <=>
        /\ j \in 1 .. Len(cells) - b
        /\ j = 1 \/ (j > 1 /\ EndsLine(read[j - 1]))
  BY <1>2 DEF LineStarts
<1>5. j \in 1 .. Len(cells) - b => j = 1 \/ j > 1
  BY <1>1
<1>6. j = 1 => j \in Int /\ ~(j > 1)
  OBVIOUS
<1> QED BY <1>3, <1>4, <1>5, <1>6

(* From a row on, there are as many lines by their starts as by their ends.*)
LEMMA SameCount ==
  ASSUME NEW cells \in Seq(Cell), NEW b \in 0 .. Len(cells),
         NEW j \in LineStarts(After(cells, b)),
         b + j + 1 \in EndsOf(cells), ~EndsLine(cells[b + j])
  PROVE  Cardinality({k \in LineStarts(After(cells, b)) : k >= j})
           = LinesFrom(cells, b + j + 1)
<1> DEFINE n == Len(cells)
           i == b + j + 1
           starts == {k \in LineStarts(After(cells, b)) : k >= j}
           ends == {k \in EndsOf(cells) : k >= i}
           middle == {k \in EndsOf(cells) : k >= i /\ k < n}
           next == [k \in middle |-> k + 1 - b]
<1>1. /\ n \in Nat /\ b \in Nat /\ j \in Nat /\ j >= 1 /\ i \in 1 .. n
      /\ \A k \in EndsOf(cells) : k \in 1 .. n /\ EndsLine(cells[k])
      /\ \A k \in 1 .. n : EndsLine(cells[k]) => k \in EndsOf(cells)
  <2>1. n \in Nat /\ DOMAIN cells = 1 .. n
    BY LenProperties
  <2>2. j \in 1 .. n - b
    BY StartIs
  <2> QED BY <2>1, <2>2 DEF EndsOf
<1>2. \A k : k \in starts <=>
              /\ k \in 1 .. n - b /\ k >= j
              /\ k = 1 \/ EndsLine(cells[b + k - 1])
  BY StartIs
<1>3. IsFiniteSet(middle) /\ IsFiniteSet(starts) /\ IsFiniteSet(ends)
  <2>1. IsFiniteSet(1 .. n) /\ IsFiniteSet(1 .. n - b)
    BY <1>1, FS_Interval
  <2>2. middle \in SUBSET (1 .. n) /\ ends \in SUBSET (1 .. n)
        /\ starts \in SUBSET (1 .. n - b)
    BY <1>1, <1>2
  <2> QED BY <2>1, <2>2, FS_Subset
<1> HIDE DEF starts
<1>4. next \in Bijection(middle, starts \ {j})
  <2>1. ASSUME NEW k \in middle PROVE k + 1 - b \in starts \ {j}
    <3>1. k \in 1 .. n /\ k >= i /\ k < n /\ EndsLine(cells[k])
      BY <1>1
    <3>2. k + 1 - b \in 1 .. n - b /\ k + 1 - b > j /\ b + (k + 1 - b) - 1 = k
      BY <1>1, <3>1
    <3> QED BY <1>1, <1>2, <3>1, <3>2
  <2>2. ASSUME NEW t \in starts \ {j} PROVE \E k \in middle : k + 1 - b = t
    <3>1. t \in 1 .. n - b /\ t > j /\ EndsLine(cells[b + t - 1])
      BY <1>1, <1>2
    <3>2. b + t - 1 # b + j
      BY <3>1
    <3>3. b + t - 1 \in 1 .. n /\ b + t - 1 >= i /\ b + t - 1 < n
          /\ (b + t - 1) + 1 - b = t
      BY <1>1, <3>1, <3>2
    <3>4. b + t - 1 \in middle
      BY <1>1, <3>1, <3>3
    <3> QED BY <3>3, <3>4
  <2>3. \A k, l \in middle : k + 1 - b = l + 1 - b => k = l
    BY <1>1
  <2> HIDE DEF middle
  <2>4. /\ next \in [middle -> starts \ {j}]
        /\ \A k, l \in middle : next[k] = next[l] => k = l
        /\ \A t \in starts \ {j} : \E k \in middle : next[k] = t
    BY <2>1, <2>2, <2>3
  <2> HIDE DEF next
  <2> QED BY <2>4, Fun_IsBij
<1>5. Cardinality(starts) = Cardinality(middle) + 1
  <2>1. j \in starts
    BY <1>1 DEF starts
  <2>2. ExistsBijection(middle, starts \ {j})
    <3> HIDE DEF middle, next
    <3> QED BY <1>4 DEF ExistsBijection
  <2>3. Cardinality(starts \ {j}) = Cardinality(middle)
    <3> HIDE DEF middle
    <3> QED BY <1>3, <2>2, FS_Bijection
  <2>4. Cardinality(starts \ {j}) = Cardinality(starts) - 1
    BY <1>3, <2>1, FS_RemoveElement
  <2>5. Cardinality(starts) \in Nat
    BY <1>3, FS_CardinalityType
  <2> QED BY <2>3, <2>4, <2>5
<1>6. Cardinality(ends) + (IF EndsLine(cells[n]) THEN 0 ELSE 1)
        = Cardinality(middle) + 1
  <2>1. Cardinality(middle) \in Nat
    <3> HIDE DEF middle
    <3> QED BY <1>3, FS_CardinalityType
  <2>2. CASE EndsLine(cells[n])
    <3>1. ends = middle \cup {n} /\ n \notin middle
      BY <1>1, <2>2
    <3> HIDE DEF middle, ends
    <3>2. Cardinality(middle \cup {n}) = Cardinality(middle) + 1
      BY <1>3, <3>1, FS_AddElement
    <3> QED BY <2>1, <2>2, <3>1, <3>2
  <2>3. CASE ~EndsLine(cells[n])
    <3>1. ends = middle
      BY <1>1, <2>3
    <3> HIDE DEF middle, ends
    <3> QED BY <2>1, <2>3, <3>1
  <2> QED BY <2>2, <2>3
<1> QED BY <1>5, <1>6 DEF LinesFrom, Last, starts

(* Behind the start of the file or the end of a line, the rows that are    *)
(* read are those that stand there.                                        *)
LEMMA SameRows ==
  ASSUME NEW cells \in Seq(Cell), NEW b \in 0 .. Len(cells),
         b = 0 \/ b = Len(cells) \/ EndsLine(cells[b]),
         NEW j \in Nat
  PROVE  j \in SaidIn(After(cells, b)) <=> b + j + 1 \in SaidBehind(cells, b)
<1> DEFINE read == After(cells, b)
           n == Len(cells)
           i == b + j + 1
<1>1. /\ read \in Seq(Cell) /\ Len(read) = n - b
      /\ n \in Nat /\ b \in Nat
      /\ \A k \in 1 .. n - b : read[k] = cells[b + k]
      /\ DOMAIN cells = 1 .. n
  BY BehindWords, LenProperties
<1>2. j \in SaidIn(read) <=>
        /\ j \in LineStarts(read)
        /\ Cardinality({k \in LineStarts(read) : k >= j}) <= TailLines
        /\ IsRow(LineAt(read, j)) /\ UserRowText(read[j].row) # <<>>
  BY DEF SaidIn, LastLines
<1>3. i \in SaidBehind(cells, b) <=>
        /\ i \in 1 .. n /\ EndsLine(cells[i]) /\ i - 1 > b
        /\ i = 2 \/ EndsLine(cells[i - 2])
        /\ IsRow(SubSeq(cells, i - 1, i)) /\ LinesFrom(cells, i) <= TailLines
        /\ UserRowText(cells[i].row) # <<>>
  BY <1>1 DEF SaidBehind, EndsOf
<1>4. j \in LineStarts(read) <=>
        j \in 1 .. n - b /\ (j = 1 \/ EndsLine(cells[b + j - 1]))
  BY StartIs
<1> HIDE DEF read
<1> DEFINE pair == /\ cells[b + j].part = 1 /\ cells[i].part = 2
                   /\ cells[b + j].row = cells[i].row
<1>5. ASSUME j \in 1 .. n - b
      PROVE  IsRow(LineAt(read, j)) <=> j + 1 <= n - b /\ pair
  <2>1. IsRow(LineAt(read, j)) <=>
          /\ j + 1 <= n - b /\ read[j].part = 1 /\ read[j + 1].part = 2
          /\ read[j].row = read[j + 1].row
    BY <1>1, <1>5, LineIs
  <2>2. read[j] = cells[b + j]
    BY <1>1, <1>5
  <2>3. j + 1 <= n - b => read[j + 1] = cells[i]
    <3> SUFFICES ASSUME j + 1 <= n - b PROVE read[j + 1] = cells[i]
      OBVIOUS
    <3>1. j + 1 \in 1 .. n - b /\ b + (j + 1) = i
      BY <1>1, <1>5
    <3> QED BY <1>1, <3>1
  <2> QED BY <2>1, <2>2, <2>3
<1>6. ASSUME i \in 1 .. n, i - 1 > b
      PROVE  /\ IsRow(SubSeq(cells, i - 1, i)) <=> pair
             /\ j \in 1 .. n - b /\ j + 1 <= n - b
  <2>1. i \in 2 .. n /\ i - 1 = b + j
    BY <1>1, <1>6
  <2>2. IsRow(SubSeq(cells, i - 1, i)) <=> pair
    BY <2>1, RowIs
  <2> QED BY <1>1, <1>6, <2>2
(* It is a row in both readings ...                                        *)
<1>7. j \in LineStarts(read) /\ IsRow(LineAt(read, j))
        <=> /\ i \in 1 .. n /\ EndsLine(cells[i]) /\ i - 1 > b
            /\ i = 2 \/ EndsLine(cells[i - 2])
            /\ IsRow(SubSeq(cells, i - 1, i))
  <2>1. ASSUME j \in LineStarts(read), IsRow(LineAt(read, j))
        PROVE  /\ i \in 1 .. n /\ EndsLine(cells[i]) /\ i - 1 > b
               /\ i = 2 \/ EndsLine(cells[i - 2])
               /\ IsRow(SubSeq(cells, i - 1, i))
    <3>1. j \in 1 .. n - b /\ j + 1 <= n - b /\ pair
      BY <1>4, <1>5, <2>1
    <3>2. i \in 1 .. n /\ i - 1 > b /\ EndsLine(cells[i])
      BY <1>1, <3>1 DEF EndsLine
    <3>3. IsRow(SubSeq(cells, i - 1, i))
      BY <1>6, <3>1, <3>2
    <3>4. CASE j = 1
      <4>1. i - 2 = b /\ b # n /\ (b = 0 => i = 2)
        BY <1>1, <3>1, <3>4
      <4> QED BY <3>2, <3>3, <4>1
    <3>5. CASE j # 1
      <4>1. i - 2 = b + j - 1
        BY <1>1
      <4> QED BY <1>4, <2>1, <3>2, <3>3, <3>5, <4>1
    <3> QED BY <3>4, <3>5
  <2>2. ASSUME i \in 1 .. n, EndsLine(cells[i]), i - 1 > b,
               i = 2 \/ EndsLine(cells[i - 2]), IsRow(SubSeq(cells, i - 1, i))
        PROVE  j \in LineStarts(read) /\ IsRow(LineAt(read, j))
    <3>1. j \in 1 .. n - b /\ j + 1 <= n - b /\ pair
      BY <1>6, <2>2
    <3>2. IsRow(LineAt(read, j))
      BY <1>5, <3>1
    <3>3. i = 2 => j = 1
      BY <1>1, <2>2
    <3>4. i - 2 = b + j - 1
      BY <1>1
    <3> QED BY <1>4, <2>2, <3>1, <3>2, <3>3, <3>4
  <2> HIDE DEF i, n
  <2> QED BY <2>1, <2>2
(* ... of the same user, and as far from the last line.                    *)
<1>8. ASSUME j \in LineStarts(read), IsRow(LineAt(read, j))
      PROVE  /\ Cardinality({k \in LineStarts(read) : k >= j})
                   = LinesFrom(cells, i)
             /\ read[j].row = cells[i].row
  <2>1. j \in 1 .. n - b /\ pair
    BY <1>4, <1>5, <1>8
  <2>2. i \in EndsOf(cells) /\ ~EndsLine(cells[b + j])
    BY <1>1, <1>7, <1>8, <2>1 DEF EndsOf, EndsLine
  <2>3. Cardinality({k \in LineStarts(read) : k >= j}) = LinesFrom(cells, i)
    BY <1>8, <2>2, SameCount DEF read
  <2> QED BY <1>1, <2>1, <2>3
<1> HIDE DEF i, n
<1>9. j \in SaidIn(read) <=> i \in SaidBehind(cells, b)
  BY <1>2, <1>3, <1>7, <1>8
<1> QED BY <1>9 DEF read, i

LEMMA SaidPlaces ==
  ASSUME NEW cells \in Seq(Cell), NEW b \in Nat
  PROVE  /\ Len(cells) \in Nat
         /\ SaidIn(cells) \subseteq 1 .. Len(cells)
         /\ SaidBehind(cells, b) \subseteq 1 .. Len(cells)
         /\ \A i \in SaidBehind(cells, b) : i - 1 > b
         /\ SaidIn(cells) # {} => Max(SaidIn(cells)) \in SaidIn(cells)
         /\ SaidBehind(cells, b) # {} =>
              Max(SaidBehind(cells, b)) \in SaidBehind(cells, b)
<1>1. Len(cells) \in Nat /\ DOMAIN cells = 1 .. Len(cells)
  BY LenProperties
<1>2. SaidIn(cells) \subseteq 1 .. Len(cells)
  BY <1>1 DEF SaidIn, LastLines, LineStarts
<1>3. /\ SaidBehind(cells, b) \subseteq 1 .. Len(cells)
      /\ \A i \in SaidBehind(cells, b) : i - 1 > b
  BY <1>1 DEF SaidBehind, EndsOf
<1> QED BY <1>1, <1>2, <1>3, GreatestThere

LEMMA SameTurn ==
  ASSUME NEW cells \in Seq(Cell), NEW b \in 0 .. Len(cells),
         b = 0 \/ b = Len(cells) \/ EndsLine(cells[b])
  PROVE  TurnIn(After(cells, b)) = TurnBehind(cells, b)
<1> DEFINE read == After(cells, b)
           within == SaidIn(read)
           behind == SaidBehind(cells, b)
<1>1. /\ read \in Seq(Cell) /\ Len(read) = Len(cells) - b
      /\ b \in Nat /\ Len(cells) \in Nat
      /\ \A k \in 1 .. Len(cells) - b : read[k] = cells[b + k]
  BY BehindWords, LenProperties
<1>2. /\ within \subseteq 1 .. Len(cells) - b /\ behind \subseteq 1 .. Len(cells)
      /\ \A i \in behind : i - 1 > b
      /\ within # {} => Max(within) \in within
      /\ behind # {} => Max(behind) \in behind
  <2> HIDE DEF read
  <2>1. within \subseteq 1 .. Len(read) /\ (within # {} => Max(within) \in within)
    BY <1>1, SaidPlaces
  <2> QED BY <1>1, <2>1, SaidPlaces
<1>3. \A j \in Nat : j \in within <=> b + j + 1 \in behind
  BY SameRows
<1>4. CASE within = {}
  <2>1. behind = {}
    <3> SUFFICES ASSUME NEW i \in behind PROVE FALSE
      OBVIOUS
    <3> HIDE DEF within, behind
    <3>1. i - b - 1 \in Nat /\ b + (i - b - 1) + 1 = i
      BY <1>1, <1>2
    <3> QED BY <1>3, <1>4, <3>1
  <2> QED BY <1>4, <2>1 DEF TurnIn, TurnBehind
<1>5. CASE within # {}
  <2>1. Max(within) \in within /\ \A j \in within : Max(within) >= j
    <3>1. PICK size \in Nat : size = Len(cells) - b
      <4>1. Len(cells) - b \in Nat
        BY <1>1
      <4> QED BY <4>1
    <3>2. within \subseteq 1 .. size
      BY <1>2, <3>1
    <3> HIDE DEF within
    <3> QED BY <1>5, <3>2, GreatestThere
  <2>2. PICK last \in within : last = Max(within) /\ \A j \in within : last >= j
    <3> HIDE DEF within
    <3> QED BY <2>1
  <2>3. last \in 1 .. Len(cells) - b /\ last \in Nat
    BY <1>1, <1>2
  <2>4. b + last + 1 \in behind
    BY <1>3, <2>2, <2>3
  <2>5. \A i \in behind : b + last + 1 >= i
    <3> SUFFICES ASSUME NEW i \in behind PROVE b + last + 1 >= i
      OBVIOUS
    <3> HIDE DEF within, behind
    <3>1. i - b - 1 \in Nat /\ b + (i - b - 1) + 1 = i /\ i \in Int
      BY <1>1, <1>2
    <3>2. last >= i - b - 1
      BY <1>3, <2>2, <2>3, <3>1
    <3> QED BY <1>1, <2>2, <2>3, <3>1, <3>2
  <2>6. Max(behind) = b + last + 1
    <3> HIDE DEF behind
    <3>1. behind \subseteq Int
      BY <1>1, <1>2
    <3> QED BY <2>4, <2>5, <3>1, GreatestIs
  <2>7. read[last].row = cells[b + last + 1].row
    <3>1. IsRow(LineAt(read, last))
      BY <2>2, <2>3 DEF SaidIn
    <3> HIDE DEF read, within, behind
    <3>2. last \in 1 .. Len(read)
      BY <1>1, <2>2, <2>3
    <3>3. last + 1 <= Len(read) /\ read[last].row = read[last + 1].row
      BY <1>1, <3>1, <3>2, LineIs
    <3>4. last + 1 \in 1 .. Len(cells) - b /\ b + (last + 1) = b + last + 1
      BY <1>1, <2>2, <2>3, <3>3
    <3> QED BY <1>1, <3>3, <3>4
  <2>8. TurnIn(read) = read[last].row.text
    <3>1. TurnIn(read) = IF within = {} THEN <<>> ELSE read[Max(within)].row.text
      BY DEF TurnIn
    <3> HIDE DEF read, within
    <3> QED BY <1>5, <2>2, <3>1
  <2>9. TurnBehind(cells, b) = cells[b + last + 1].row.text
    <3>1. TurnBehind(cells, b)
            = IF behind = {} THEN <<>> ELSE cells[Max(behind)].row.text
      BY DEF TurnBehind
    <3> HIDE DEF behind
    <3> QED BY <2>4, <2>6, <3>1
  <2> HIDE DEF read
  <2> QED BY <2>7, <2>8, <2>9 DEF read
<1> QED BY <1>4, <1>5

LEMMA EndIs ==
  ASSUME NEW cells \in Seq(Cell), NEW s \in 0 .. Len(cells)
  PROVE  /\ EndBehind(cells, s) \in s .. Len(cells)
         /\ EndBehind(cells, s) = Len(cells)
              \/ EndsLine(cells[EndBehind(cells, s)])
         /\ \A i \in EndsOf(cells) : i > s => EndBehind(cells, s) <= i
<1> DEFINE ends == {i \in EndsOf(cells) : i > s}
           end == EndBehind(cells, s)
<1>1. Len(cells) \in Nat /\ DOMAIN cells = 1 .. Len(cells)
  BY LenProperties
<1>2. ends \subseteq Nat /\ ends \subseteq s .. Len(cells)
      /\ \A i \in ends : EndsLine(cells[i])
  BY <1>1 DEF EndsOf
<1>3. end = IF ends = {} THEN Len(cells) ELSE Min(ends)
  BY DEF EndBehind, FirstIndex
<1>4. \A i \in EndsOf(cells) : i > s => i \in ends
  OBVIOUS
<1> HIDE DEF ends, end
<1>5. ends # {} => Min(ends) \in ends /\ \A i \in ends : Min(ends) <= i
  BY <1>2, LeastThere
<1>6. CASE ends = {}
  BY <1>1, <1>3, <1>4, <1>6 DEF end
<1>7. CASE ends # {}
  <2>1. end \in ends /\ \A i \in ends : end <= i
    BY <1>3, <1>5, <1>7
  <2> QED BY <1>2, <1>4, <2>1 DEF end
<1> QED BY <1>6, <1>7

LEMMA LaterEnd ==
  ASSUME NEW cells \in Seq(Cell), NEW s \in 0 .. Len(cells), NEW t \in s .. Len(cells)
  PROVE  EndBehind(cells, s) <= EndBehind(cells, t)
<1>1. Len(cells) \in Nat /\ DOMAIN cells = 1 .. Len(cells) /\ t \in 0 .. Len(cells)
  BY LenProperties
<1> DEFINE first == EndBehind(cells, s)
           later == EndBehind(cells, t)
<1>2. /\ first \in s .. Len(cells)
      /\ \A i \in EndsOf(cells) : i > s => first <= i
  BY EndIs
<1>3. /\ later \in t .. Len(cells)
      /\ later = Len(cells) \/ EndsLine(cells[later])
      /\ \A i \in EndsOf(cells) : i > t => later <= i
  BY <1>1, EndIs
<1>4. later = t \/ later > t
  BY <1>1, <1>3
<1> QED BY <1>1, <1>2, <1>3, <1>4 DEF EndsOf

(* The first line of the tail is dropped: what is left begins a line.      *)
LEMMA DropIs ==
  ASSUME NEW cells \in Seq(Cell), NEW s \in 0 .. Len(cells)
  PROVE  DropFirstLine(After(cells, s)) = After(cells, EndBehind(cells, s))
<1> DEFINE tail == After(cells, s)
           n == Len(cells)
           ends == {i \in EndsOf(cells) : i > s}
           within == {i \in DOMAIN tail : EndsLine(tail[i])}
           first == FirstIndex(within, Len(tail))
           end == EndBehind(cells, s)
<1>1. /\ tail \in Seq(Cell) /\ Len(tail) = n - s
      /\ n \in Nat /\ s \in Nat /\ DOMAIN cells = 1 .. n
      /\ \A k \in 1 .. n - s : tail[k] = cells[s + k]
  BY BehindWords, LenProperties
<1>2. DOMAIN tail = 1 .. n - s
  <2> HIDE DEF tail
  <2> QED BY <1>1, LenProperties
<1>3. end \in s .. n
  BY EndIs
<1>4. first \in Nat /\ end = s + first
  <2>1. end = IF ends = {} THEN n ELSE Min(ends)
    BY DEF EndBehind, FirstIndex
  <2>2. first = IF within = {} THEN n - s ELSE Min(within)
    BY <1>1 DEF FirstIndex
  <2>3. ends \subseteq 1 .. n /\ \A i : i \in ends <=> i \in 1 .. n /\ i > s /\ EndsLine(cells[i])
    BY <1>1 DEF EndsOf
  <2>4. \A i \in 1 .. n - s : i \in within <=> s + i \in ends
    BY <1>1, <1>2, <2>3
  <2>5. within \subseteq 1 .. n - s
    BY <1>2
  <2> HIDE DEF ends, within, end, first
  <2>6. \A i \in ends : i - s \in within
    <3> SUFFICES ASSUME NEW i \in ends PROVE i - s \in within
      OBVIOUS
    <3>1. i - s \in 1 .. n - s /\ s + (i - s) = i
      BY <1>1, <2>3
    <3> QED BY <2>4, <3>1
  <2>7. CASE within = {}
    BY <1>1, <2>1, <2>2, <2>6, <2>7
  <2>8. CASE within # {}
    <3>1. within \subseteq Nat
      BY <1>1, <2>5
    <3>2. Min(within) \in within /\ \A i \in within : Min(within) <= i
      BY <2>8, <3>1, LeastThere
    <3>3. PICK least \in within : least = Min(within) /\ \A i \in within : least <= i
      BY <3>2
    <3>4. s + least \in ends /\ \A i \in ends : s + least <= i
      <4>1. s + least \in ends
        BY <2>4, <2>5, <3>3
      <4>2. ASSUME NEW i \in ends PROVE s + least <= i
        <5>1. least <= i - s /\ i \in Int /\ least \in Int
          BY <2>3, <2>5, <2>6, <3>3
        <5> QED BY <1>1, <5>1
      <4> QED BY <4>1, <4>2
    <3>5. ends \subseteq Int
      BY <2>3
    <3>6. Min(ends) = s + least
      BY <3>4, <3>5, LeastIs
    <3> QED BY <2>1, <2>2, <2>8, <3>1, <3>3, <3>4, <3>6
  <2> QED BY <2>7, <2>8
<1>5. DropFirstLine(tail) = After(tail, first)
  BY DEF DropFirstLine
<1> HIDE DEF tail, first, end, ends, within
<1>6. first \in 0 .. Len(tail)
  BY <1>1, <1>3, <1>4
<1>7. After(tail, first) = After(cells, end)
  <2>1. /\ After(tail, first) \in Seq(Cell)
        /\ Len(After(tail, first)) = Len(tail) - first
        /\ \A j \in 1 .. Len(tail) - first : After(tail, first)[j] = tail[first + j]
    BY <1>1, <1>6, BehindWords
  <2>2. end \in 0 .. n
    BY <1>1, <1>3
  <2>3. /\ After(cells, end) \in Seq(Cell)
        /\ Len(After(cells, end)) = n - end
        /\ \A j \in 1 .. n - end : After(cells, end)[j] = cells[end + j]
    BY <2>2, BehindWords
  <2>4. Len(tail) - first = n - end
    BY <1>1, <1>3, <1>4, <1>6
  <2>5. ASSUME NEW j \in 1 .. n - end
        PROVE  After(tail, first)[j] = After(cells, end)[j]
    <3>1. first + j \in 1 .. n - s /\ s + (first + j) = end + j
      BY <1>1, <1>3, <1>4, <1>6
    <3> QED BY <1>1, <2>1, <2>3, <2>4, <3>1
  <2> QED BY <2>1, <2>3, <2>4, <2>5, SeqEqual
<1> QED BY <1>5, <1>7 DEF tail, end

LEMMA ReadIs ==
  ASSUME NEW cells \in Seq(Cell), NEW s \in 0 .. Len(cells)
  PROVE  /\ TurnOf(After(cells, s), TRUE) = TurnBehind(cells, EndBehind(cells, s))
         /\ TurnOf(cells, FALSE) = TurnBehind(cells, 0)
<1>1. \A read : TurnOf(read, FALSE) = TurnIn(read)
                /\ TurnOf(read, TRUE) = TurnIn(DropFirstLine(read))
  BY DEF TurnOf, TurnIn, SaidIn
<1>2. TurnIn(After(cells, EndBehind(cells, s))) = TurnBehind(cells, EndBehind(cells, s))
  <2>1. EndBehind(cells, s) \in s .. Len(cells)
        /\ (EndBehind(cells, s) = Len(cells)
             \/ EndsLine(cells[EndBehind(cells, s)]))
    BY EndIs
  <2>2. EndBehind(cells, s) \in 0 .. Len(cells)
    BY <2>1, LenProperties
  <2> QED BY <2>1, <2>2, SameTurn
<1>3. After(cells, 0) = cells
  BY SubSeqFull DEF After
<1>4. TurnIn(After(cells, 0)) = TurnBehind(cells, 0)
  <2>1. 0 \in 0 .. Len(cells)
    BY LenProperties
  <2> QED BY <2>1, SameTurn
<1> QED BY <1>1, <1>2, <1>3, <1>4, DropIs

(* A reading that begins later finds the same turn, or none.               *)
LEMMA LaterReading ==
  ASSUME NEW cells \in Seq(Cell), NEW b \in Nat, NEW c \in Nat, b <= c
  PROVE  TurnBehind(cells, c) = <<>> \/ TurnBehind(cells, c) = TurnBehind(cells, b)
<1> DEFINE all == SaidBehind(cells, b)
           some == SaidBehind(cells, c)
<1>1. \A i \in Nat : i \in some <=> i \in all /\ i - 1 > c
  BY DEF SaidBehind
<1>2. /\ Len(cells) \in Nat
      /\ all \subseteq 1 .. Len(cells) /\ some \subseteq 1 .. Len(cells)
      /\ \A i \in some : i - 1 > c
  BY SaidPlaces
<1> SUFFICES ASSUME some # {}
             PROVE  all # {} /\ Max(all) = Max(some)
  BY DEF TurnBehind
<1> HIDE DEF all, some
<1>3. Max(some) \in some /\ \A i \in some : Max(some) >= i
  BY <1>2, GreatestThere
<1>4. PICK top \in some : top = Max(some) /\ \A i \in some : top >= i
  BY <1>3
<1>5. top \in all /\ top \in Nat /\ top - 1 > c
  BY <1>1, <1>2, <1>4
<1>6. ASSUME NEW i \in all PROVE top >= i
  <2>1. i \in Nat /\ (i - 1 > c => i \in some)
    BY <1>1, <1>2
  <2> QED BY <1>4, <1>5, <2>1
<1>7. all \subseteq Int
  BY <1>2
<1> QED BY <1>4, <1>5, <1>6, <1>7, GreatestIs

-----------------------------------------------------------------------------
(* What was read is a tail of what the transcript was at some moment.      *)

NowAt(n) == TurnNow(SubSeq(transcript, 1, n))

LEMMA PrefixWords ==
  ASSUME NEW cells \in Seq(Cell), NEW n \in 0 .. Len(cells)
  PROVE  /\ SubSeq(cells, 1, n) \in Seq(Cell) /\ Len(SubSeq(cells, 1, n)) = n
         /\ \A i \in 1 .. n : SubSeq(cells, 1, n)[i] = cells[i]
<1>1. /\ Len(cells) \in Nat /\ n \in Int /\ 1 \in Int
      /\ \A i \in 1 .. n : cells[i] \in Cell
  BY LenProperties
<1> DEFINE start == SubSeq(cells, 1, n)
<1>2. /\ start \in Seq(Cell) /\ Len(start) = IF 1 <= n THEN n - 1 + 1 ELSE 0
      /\ \A i \in 1 .. n - 1 + 1 : start[i] = cells[1 + i - 1]
  BY <1>1, SubSeqProperties
<1> HIDE DEF start
<1>3. Len(start) = n
  BY <1>1, <1>2
<1>4. \A i \in 1 .. n : start[i] = cells[i]
  <2> SUFFICES ASSUME NEW i \in 1 .. n PROVE start[i] = cells[i]
    OBVIOUS
  <2>1. i \in 1 .. n - 1 + 1 /\ 1 + i - 1 = i
    BY <1>1
  <2> QED BY <1>2, <2>1
<1> QED BY <1>2, <1>3, <1>4 DEF start

(* What one instant reading of the tail would give.                        *)
TailCellsRead ==
  LET tail == After(transcript, Start)
  IN  SubSeq(tail, 1, IF Len(tail) < TailCells THEN Len(tail) ELSE TailCells)

LEMMA TailIs ==
  ASSUME transcript \in Seq(Cell), length \in Nat,
         NEW s, s = IF Start < Len(transcript) THEN Start ELSE Len(transcript),
         NEW m, m = IF s + TailCells < Len(transcript) THEN s + TailCells
                    ELSE Len(transcript)
  PROVE  /\ Start \in Nat /\ m \in 0 .. Len(transcript) /\ s \in 0 .. m
         /\ TailCellsRead = After(SubSeq(transcript, 1, m), s)
<1> DEFINE n == Len(transcript)
           tail == After(transcript, s)
           most == IF n - s < TailCells THEN n - s ELSE TailCells
<1>1. n \in Nat /\ TailCells \in Nat
  BY LenProperties, TailAssumption
<1>2. Start \in Nat
  BY <1>1 DEF Start, Inside
<1>3. m \in 0 .. n /\ s \in 0 .. m /\ s \in 0 .. n /\ most = m - s
  <2>1. s \in Nat /\ s <= n
    BY <1>1, <1>2
  <2>2. m \in Nat /\ s <= m /\ m <= n /\ most = m - s
    <3>1. CASE s + TailCells < n
      <4>1. m = s + TailCells
        BY <3>1
      <4>2. ~(n - s < TailCells)
        BY <1>1, <2>1, <3>1
      <4>3. most = TailCells
        BY <4>2
      <4> HIDE DEF most
      <4> QED BY <1>1, <2>1, <3>1, <4>1, <4>3
    <3>2. CASE ~(s + TailCells < n)
      <4>1. m = n
        BY <3>2
      <4>2. n - s < TailCells \/ TailCells = n - s
        BY <1>1, <2>1, <3>2
      <4>3. most = n - s
        BY <4>2
      <4> HIDE DEF most
      <4> QED BY <1>1, <2>1, <3>2, <4>1, <4>3
    <3> QED BY <3>1, <3>2
  <2> HIDE DEF most
  <2> QED BY <1>1, <2>1, <2>2
<1>4. After(transcript, Start) = tail
  <2>1. CASE Start < n
    BY <2>1
  <2>2. CASE ~(Start < n)
    <3>1. SubSeq(transcript, Start + 1, n) = <<>> /\ SubSeq(transcript, n + 1, n) = <<>>
      <4>1. Start + 1 \in Int /\ n + 1 \in Int /\ n \in Int
            /\ n < Start + 1 /\ n < n + 1
        BY <1>1, <1>2, <2>2
      <4> QED BY <4>1, SubSeqEmpty
    <3> QED BY <2>2, <3>1 DEF After
  <2> QED BY <2>1, <2>2
<1>5. /\ tail \in Seq(Cell) /\ Len(tail) = n - s
      /\ \A j \in 1 .. n - s : tail[j] = transcript[s + j]
  BY <1>3, BehindWords
<1>6. TailCellsRead = SubSeq(tail, 1, most)
  BY <1>4, <1>5 DEF TailCellsRead
<1> HIDE DEF tail
<1> DEFINE now == SubSeq(transcript, 1, m)
<1>7. /\ now \in Seq(Cell) /\ Len(now) = m
      /\ \A i \in 1 .. m : now[i] = transcript[i]
  BY <1>3, PrefixWords
<1> HIDE DEF now
<1>8. /\ After(now, s) \in Seq(Cell) /\ Len(After(now, s)) = m - s
      /\ \A j \in 1 .. m - s : After(now, s)[j] = now[s + j]
  <2>1. s \in 0 .. Len(now)
    BY <1>3, <1>7
  <2>2. /\ After(now, s) \in Seq(Cell) /\ Len(After(now, s)) = Len(now) - s
        /\ \A j \in 1 .. Len(now) - s : After(now, s)[j] = now[s + j]
    BY <1>7, <2>1, BehindWords
  <2> QED BY <1>7, <2>2
<1>9. /\ SubSeq(tail, 1, m - s) \in Seq(Cell) /\ Len(SubSeq(tail, 1, m - s)) = m - s
      /\ \A i \in 1 .. m - s : SubSeq(tail, 1, m - s)[i] = tail[i]
  <2>1. m - s \in 0 .. Len(tail)
    BY <1>1, <1>3, <1>5
  <2> QED BY <1>5, <2>1, PrefixWords
<1>10. ASSUME NEW j \in 1 .. m - s
       PROVE  SubSeq(tail, 1, m - s)[j] = After(now, s)[j]
  <2>1. j \in 1 .. n - s /\ s + j \in 1 .. m
    BY <1>1, <1>3
  <2> QED BY <1>5, <1>7, <1>8, <1>9, <2>1
<1>11. SubSeq(tail, 1, m - s) = After(now, s)
  BY <1>8, <1>9, <1>10, SeqEqual
<1> QED BY <1>2, <1>3, <1>6, <1>11 DEF now

LEMMA NoTurnYet ==
  ASSUME NEW cells \in Seq(Cell)
  PROVE  SubSeq(cells, 1, 0) = <<>> /\ TurnNow(<<>>) = <<>>
<1>1. <<>> \in Seq(Cell) /\ Len(<<>>) = 0
  BY EmptySeq
<1>2. Begun(<<>>) = 0
  BY <1>1, TailAssumption DEF Begun
<1>3. TurnBehind(<<>>, 0) = <<>>
  <2>1. SaidBehind(<<>>, 0) = {}
    BY <1>1, LenProperties DEF SaidBehind, EndsOf
  <2> QED BY <2>1 DEF TurnBehind
<1>4. TurnNow(<<>>) = <<>>
  BY <1>1, <1>2, <1>3, NowIs
<1> QED BY <1>4, SubSeqEmpty

(* Every length the transcript has had since it was opened, or since it    *)
(* was begun anew, is a moment of the session.                             *)
Witnessed ==
  pc = "tail" =>
    \/ /\ length <= Len(transcript)
       /\ \A n \in length .. Len(transcript) : NowAt(n) \in turns
    \/ \A n \in 0 .. Len(transcript) : NowAt(n) \in turns

LEMMA ReadingOfAMoment ==
  ASSUME Sessions, Witnessed, pc = "tail"
  PROVE  TurnOf(TailCellsRead, Inside) \in turns
<1> DEFINE n == Len(transcript)
<1>1. /\ transcript \in Seq(Cell) /\ length \in Nat
      /\ n \in Nat /\ TailCells \in Nat
  BY LenProperties, TailAssumption DEF Sessions
<1>2. PICK s : s = IF Start < n THEN Start ELSE n
  OBVIOUS
<1>3. PICK m : m = IF s + TailCells < n THEN s + TailCells ELSE n
  OBVIOUS
<1>4. /\ Start \in Nat /\ m \in 0 .. n /\ s \in 0 .. m
      /\ TailCellsRead = After(SubSeq(transcript, 1, m), s)
  BY <1>1, <1>2, <1>3, TailIs
<1> DEFINE now == SubSeq(transcript, 1, m)
           end == EndBehind(now, s)
<1>5. now \in Seq(Cell) /\ Len(now) = m
  BY <1>1, <1>4, PrefixWords
<1> HIDE DEF now
<1>6. TurnNow(now) = TurnBehind(now, Begun(now))
  BY <1>5, NowIs
<1>7. /\ TurnOf(After(now, s), TRUE) = TurnBehind(now, end)
      /\ TurnOf(now, FALSE) = TurnBehind(now, 0)
  BY <1>4, <1>5, ReadIs
<1>8. CASE ~Inside
  <2>1. Start = 0 /\ length <= TailCells
    BY <1>1, <1>8 DEF Start, Inside
  <2>2. s = 0 /\ m <= TailCells /\ (length <= n => length <= m)
    BY <1>1, <1>2, <1>3, <2>1
  <2>3. TailCellsRead = now
    BY <1>4, <1>5, <2>2, SubSeqFull DEF now, After
  <2>4. Begun(now) = 0
    BY <1>1, <1>4, <1>5, <2>2 DEF Begun
  <2>5. TurnOf(TailCellsRead, Inside) = NowAt(m)
    <3>1. Inside = FALSE
      BY <1>8 DEF Inside
    <3>2. TurnOf(TailCellsRead, Inside) = TurnOf(now, FALSE)
      BY <2>3, <3>1
    <3>3. NowAt(m) = TurnNow(now)
      BY DEF NowAt, now
    <3> QED BY <1>6, <1>7, <2>4, <3>2, <3>3
  <2>6. NowAt(m) \in turns
    BY <1>1, <1>4, <2>2 DEF Witnessed
  <2> QED BY <2>5, <2>6
<1>9. CASE Inside
  <2>1. Start = length - TailCells /\ length > TailCells
    BY <1>9 DEF Start, Inside
  <2>2. TurnOf(TailCellsRead, Inside) = TurnBehind(now, end)
    BY <1>4, <1>7, <1>9 DEF now, Inside
  <2>3. CASE length <= n /\ \A k \in length .. n : NowAt(k) \in turns
    <3>1. s = length - TailCells /\ m = length
      BY <1>1, <1>2, <1>3, <2>1, <2>3
    <3>2. Begun(now) = end
      BY <1>1, <1>5, <2>1, <3>1 DEF Begun
    <3>3. NowAt(m) \in turns
      BY <1>1, <2>3, <3>1
    <3> QED BY <1>6, <2>2, <3>2, <3>3 DEF NowAt, now
  <2>4. CASE \A k \in 0 .. n : NowAt(k) \in turns
    <3>1. end \in s .. m
      BY <1>4, <1>5, EndIs
    <3>2. Begun(now) \in Nat /\ Begun(now) <= end
      <4>1. CASE Len(now) > TailCells
        <5>1. m - TailCells \in 0 .. Len(now) /\ s \in m - TailCells .. Len(now)
          BY <1>1, <1>2, <1>3, <1>4, <1>5, <4>1
        <5>2. /\ EndBehind(now, m - TailCells) \in m - TailCells .. Len(now)
              /\ EndBehind(now, m - TailCells) <= end
          BY <1>5, <5>1, EndIs, LaterEnd
        <5>3. Begun(now) = EndBehind(now, m - TailCells)
          BY <1>5, <4>1 DEF Begun
        <5> QED BY <1>5, <5>1, <5>2, <5>3
      <4>2. CASE ~(Len(now) > TailCells)
        BY <1>4, <3>1, <4>2 DEF Begun
      <4> QED BY <4>1, <4>2
    <3>3. end \in Nat
      BY <1>4, <3>1
    <3> HIDE DEF end
    <3>4. TurnBehind(now, end) = <<>> \/ TurnBehind(now, end) = TurnNow(now)
      BY <1>5, <1>6, <3>2, <3>3, LaterReading
    <3>5. NowAt(0) = <<>> /\ NowAt(m) = TurnNow(now)
      BY <1>1, NoTurnYet DEF NowAt, now
    <3>6. NowAt(0) \in turns /\ NowAt(m) \in turns
      BY <1>1, <1>4, <2>4
    <3> QED BY <2>2, <3>4, <3>5, <3>6 DEF end
  <2> QED BY <1>1, <2>3, <2>4 DEF Witnessed
<1> QED BY <1>8, <1>9

(* What the reads have given so far is still the beginning of the tail,    *)
(* unless the file was begun anew between two of them.                     *)
ReadSoFar ==
  /\ pc # "tail" => bytes = <<>>
  /\ bytes # <<>> /\ ~renewed =>
       /\ Len(bytes) <= TailCells /\ Place <= Len(transcript)
       /\ \A i \in 1 .. Len(bytes) : bytes[i] = transcript[Start + i]

LEMMA ReadWhole ==
  ASSUME Sessions, ReadSoFar, ~renewed, Reach <= Place
  PROVE  bytes = TailCellsRead
<1> DEFINE n == Len(transcript)
<1>1. /\ transcript \in Seq(Cell) /\ length \in Nat /\ bytes \in Seq(Cell)
      /\ n \in Nat /\ TailCells \in Nat /\ Len(bytes) \in Nat
  BY LenProperties, TailAssumption DEF Sessions
<1>2. PICK s : s = IF Start < n THEN Start ELSE n
  OBVIOUS
<1>3. PICK m : m = IF s + TailCells < n THEN s + TailCells ELSE n
  OBVIOUS
<1>4. /\ Start \in Nat /\ m \in 0 .. n /\ s \in 0 .. m
      /\ TailCellsRead = After(SubSeq(transcript, 1, m), s)
  BY <1>1, <1>2, <1>3, TailIs
<1> DEFINE now == SubSeq(transcript, 1, m)
<1>5. /\ now \in Seq(Cell) /\ Len(now) = m
      /\ \A i \in 1 .. m : now[i] = transcript[i]
  BY <1>1, <1>4, PrefixWords
<1> HIDE DEF now
<1>6. /\ After(now, s) \in Seq(Cell) /\ Len(After(now, s)) = m - s
      /\ \A j \in 1 .. m - s : After(now, s)[j] = now[s + j]
  <2>1. s \in 0 .. Len(now)
    BY <1>4, <1>5
  <2>2. /\ After(now, s) \in Seq(Cell) /\ Len(After(now, s)) = Len(now) - s
        /\ \A j \in 1 .. Len(now) - s : After(now, s)[j] = now[s + j]
    BY <1>5, <2>1, BehindWords
  <2> QED BY <1>5, <2>2
<1>7. /\ Place = Start + Len(bytes) /\ Reach <= Place
      /\ Reach = IF n < Start + TailCells THEN n ELSE Start + TailCells
  BY DEF Place, Reach
<1>8. CASE bytes = <<>>
  <2>1. Len(bytes) = 0
    BY <1>8, EmptySeq
  <2>2. m - s = 0
    BY <1>1, <1>2, <1>3, <1>4, <1>7, <2>1
  <2>3. Len(After(now, s)) = 0 /\ \A j \in 1 .. 0 : bytes[j] = After(now, s)[j]
    BY <1>6, <2>2
  <2> QED BY <1>1, <1>4, <1>6, <2>1, <2>3, SeqEqual DEF now
<1>9. CASE bytes # <<>>
  <2>1. /\ Len(bytes) <= TailCells /\ Place <= n
        /\ \A i \in 1 .. Len(bytes) : bytes[i] = transcript[Start + i]
    BY <1>9 DEF ReadSoFar
  <2>2. Len(bytes) > 0
    BY <1>1, <1>9, EmptySeq
  <2>3. s = Start /\ m - s = Len(bytes)
    BY <1>1, <1>2, <1>3, <1>4, <1>7, <2>1, <2>2
  <2>4. ASSUME NEW j \in 1 .. Len(bytes) PROVE bytes[j] = After(now, s)[j]
    <3>1. j \in 1 .. m - s /\ s + j \in 1 .. m
      BY <1>1, <1>4, <2>3
    <3> QED BY <1>5, <1>6, <2>1, <2>3, <3>1
  <2>5. Len(After(now, s)) = Len(bytes)
    BY <1>6, <2>3
  <2> QED BY <1>1, <1>4, <1>6, <2>4, <2>5, SeqEqual DEF now
<1> QED BY <1>8, <1>9

-----------------------------------------------------------------------------
(* The third invariant.                                                    *)

(* Nothing is taken for a moment before the transcript is open.            *)
Unopened ==
  pc \in (IF Hook THEN {"body", "turn"}
          ELSE {"environment", "flag", "body", "script", "turn"})
    => turns = {}

Moments == Unopened /\ Witnessed /\ ReadSoFar /\ TurnOfOneMoment

LEMMA InitMoments == Init => Moments
<1> SUFFICES ASSUME Init PROVE Moments
  OBVIOUS
<1>1. turns = {} /\ pc # "tail" /\ bytes = <<>>
  BY DEF Init
<1> QED BY <1>1 DEF Moments, Unopened, Witnessed, ReadSoFar, TurnOfOneMoment

(* A step that leaves the turn alone.                                      *)
LEMMA UnreadSteps ==
  ASSUME Moments,
         \/ ReadBody \/ OpenFromEnvironment \/ OpenFromFlag \/ CheckScript
         \/ RefuseTrusted \/ NameRow \/ MatchRow \/ Ask
  PROVE  Moments'
<1>1. /\ UNCHANGED <<turn, turns, bytes, renewed, setup>>
      /\ pc # "tail" /\ pc' # "tail" /\ Hook' = Hook
  BY DEF ReadBody, OpenFromEnvironment, OpenFromFlag, CheckScript,
         RefuseTrusted, NameRow, MatchRow, Ask, Unread, Quiet, Still, call, Hook,
         Refuse, Step
<1>2. Unopened'
  <2>1. CASE turns = {}
    BY <1>1, <2>1 DEF Unopened
  <2>2. CASE turns # {}
    <3>1. pc \notin (IF Hook THEN {"body", "turn"}
                    ELSE {"environment", "flag", "body", "script", "turn"})
      BY <2>2 DEF Moments, Unopened
    <3>2. pc' \notin (IF Hook THEN {"body", "turn"}
                     ELSE {"environment", "flag", "body", "script", "turn"})
      BY <3>1 DEF ReadBody, OpenFromEnvironment, OpenFromFlag, CheckScript,
         RefuseTrusted, NameRow, MatchRow, Ask, Refuse, Step
    <3> QED BY <1>1, <3>2 DEF Unopened
  <2> QED BY <2>1, <2>2
<1>3. Witnessed' /\ ReadSoFar' /\ TurnOfOneMoment'
  BY <1>1 DEF Moments, Witnessed, ReadSoFar, TurnOfOneMoment
<1> QED BY <1>2, <1>3 DEF Moments

LEMMA TurnSteps ==
  ASSUME Sessions, Moments, 
         FindTurn \/ OpenTranscript \/ ReadOn \/ ReadTranscript
  PROVE  Moments'
<1>1. UNCHANGED <<transcript, setup, renewed>> /\ Hook' = Hook
  BY DEF FindTurn, OpenTranscript, ReadOn, ReadTranscript, Quiet, Still, call, Hook
<1>2. CASE FindTurn
  <2>1. turns = {}
    BY <1>2 DEF FindTurn, Moments, Unopened
  <2>2. turns' = {} /\ pc' # "tail" /\ bytes' = <<>>
    BY <1>2, <2>1 DEF FindTurn, Step, Moments, ReadSoFar
  <2> QED BY <2>2 DEF Moments, Unopened, Witnessed, ReadSoFar, TurnOfOneMoment
<1>3. CASE OpenTranscript
  <2>1. pc' = "tail" /\ length' = Len(transcript) /\ turns' = {TurnNow(transcript)}
    BY <1>3 DEF OpenTranscript
  <2>2. SubSeq(transcript, 1, Len(transcript)) = transcript
        /\ Len(transcript) \in Nat
    BY LenProperties, SubSeqFull DEF Sessions
  <2>3. \A k \in Len(transcript) .. Len(transcript) : NowAt(k) \in turns'
    <3>1. NowAt(Len(transcript)) \in turns'
      <4>1. NowAt(Len(transcript)) = TurnNow(transcript)
        BY <2>2 DEF NowAt
      <4> QED BY <2>1, <4>1
    <3>2. \A k \in Len(transcript) .. Len(transcript) : k = Len(transcript)
      <4>1. \A n \in Nat : \A k \in n .. n : k = n
        OBVIOUS
      <4> QED BY <2>2, <4>1
    <3> QED BY <3>1, <3>2
  <2>4. Witnessed'
    BY <1>1, <2>1, <2>2, <2>3 DEF Witnessed, NowAt
  <2>5. bytes' = <<>>
    BY <1>3 DEF OpenTranscript, Moments, ReadSoFar
  <2> QED BY <2>1, <2>4, <2>5 DEF Moments, Unopened, ReadSoFar, TurnOfOneMoment
<1>4. CASE ReadTranscript
  <2>1. /\ pc = "tail" /\ turn' = TurnOf(bytes, Inside) /\ turns' = turns
        /\ Reach <= Place /\ bytes' = <<>>
    BY <1>4 DEF ReadTranscript
  <2>2. ~renewed => turn' \in turns'
    <3> SUFFICES ASSUME ~renewed PROVE turn' \in turns'
      OBVIOUS
    <3>1. bytes = TailCellsRead
      BY <2>1, ReadWhole DEF Moments
    <3> QED BY <2>1, <3>1, ReadingOfAMoment DEF Moments
  <2>3. pc' = IF Hook THEN "environment" ELSE "load"
    BY <1>4 DEF ReadTranscript, Step
  <2> QED BY <1>1, <2>1, <2>2, <2>3
          DEF Moments, Unopened, Witnessed, ReadSoFar, TurnOfOneMoment
<1>5. CASE ReadOn
  <2>1. pc = "tail" /\ UNCHANGED <<pc, turn, length, turns>>
    BY <1>5 DEF ReadOn
  <2>2. PICK upTo \in Place + 1 .. Reach :
          bytes' = bytes \o SubSeq(transcript, Place + 1, upTo)
    BY <1>5 DEF ReadOn
  <2>3. /\ Start \in Nat /\ upTo <= Len(transcript) /\ upTo <= Start + TailCells
        /\ Len(bytes') = upTo - Start
        /\ \A i \in 1 .. Len(bytes) : bytes'[i] = bytes[i]
        /\ \A i \in Len(bytes) + 1 .. upTo - Start : bytes'[i] = transcript[Start + i]
        /\ Place \in Nat /\ Reach \in Nat
    BY <2>2, ReadTyped DEF Sessions
  <2>4. upTo \in Nat /\ TailCells \in Nat /\ Len(bytes) \in Nat
    BY <2>2, <2>3, TailAssumption, LenProperties DEF Sessions
  <2>5. Start' = Start
    BY <2>1 DEF Start, Inside
  <2>6. Len(bytes') <= TailCells /\ Place' <= Len(transcript)
    BY <2>3, <2>4, <2>5 DEF Place
  <2>7. ASSUME ~renewed, NEW i \in 1 .. Len(bytes')
        PROVE  bytes'[i] = transcript[Start + i]
    <3>1. CASE i \in 1 .. Len(bytes)
      <4>1. bytes # <<>>
        BY <2>4, <3>1, EmptySeq
      <4>2. bytes[i] = transcript[Start + i]
        BY <2>7, <3>1, <4>1 DEF Moments, ReadSoFar
      <4> QED BY <2>3, <3>1, <4>2
    <3>2. CASE i \notin 1 .. Len(bytes)
      <4>1. i \in Len(bytes) + 1 .. upTo - Start
        BY <2>3, <2>4, <3>2
      <4> QED BY <2>3, <4>1
    <3> QED BY <3>1, <3>2
  <2>8. ReadSoFar'
    BY <1>1, <2>1, <2>5, <2>6, <2>7 DEF ReadSoFar
  <2>9. Witnessed' /\ Unopened' /\ TurnOfOneMoment'
    BY <1>1, <2>1 DEF Moments, Witnessed, NowAt, Unopened, TurnOfOneMoment
  <2> QED BY <2>8, <2>9 DEF Moments
<1> QED BY <1>2, <1>3, <1>4, <1>5

LEMMA SessionWitnessed ==
  ASSUME Sessions, Moments, SessionWrites
  PROVE  Moments'
<1>1. /\ pc = "tail" /\ UNCHANGED <<pc, length, bytes, setup>>
      /\ turns' = turns \cup {TurnNow(transcript')}
      /\ Len(transcript) \in Nat /\ transcript \in Seq(Cell)
  BY LenProperties DEF SessionWrites, call, Sessions
<1>2. CASE transcript' = <<>>
  <2>1. Len(transcript') = 0 /\ \A n \in 0 .. Len(transcript') : n = 0
    BY <1>2, EmptySeq
  <2>2. NowAt(0)' = TurnNow(transcript')
    <3>1. SubSeq(transcript', 1, 0) = transcript'
      BY <1>2, EmptySeq, NoTurnYet
    <3> QED BY <3>1 DEF NowAt
  <2>3. \A n \in 0 .. Len(transcript') : TurnNow(SubSeq(transcript', 1, n)) \in turns'
    BY <1>1, <2>1, <2>2 DEF NowAt
  <2>4. Witnessed'
    BY <2>3 DEF Witnessed, NowAt
  <2>5. bytes = <<>> \/ renewed'
    <3>1. CASE renewed' = (renewed \/ bytes # <<>>)
      BY <3>1
    <3>2. CASE UNCHANGED renewed /\ \E next \in SessionRows :
                                      transcript' = Grown(transcript, next)
      BY <1>1, <1>2, <3>2, GrownByOne, AppendProperties, EmptySeq
    <3> QED BY <3>1, <3>2 DEF SessionWrites
  <2>6. ReadSoFar'
    BY <1>1, <2>5 DEF ReadSoFar
  <2> QED BY <1>1, <2>4, <2>6 DEF Moments, Unopened, TurnOfOneMoment, Hook
<1>3. ASSUME NEW next \in SessionRows, transcript' = Grown(transcript, next),
             UNCHANGED renewed
      PROVE  Moments'
  <2> DEFINE n == Len(transcript)
  <2>1. PICK cell \in Cell : transcript' = Append(transcript, cell)
    BY <1>1, <1>3, GrownByOne
  <2>2. /\ transcript' \in Seq(Cell) /\ Len(transcript') = n + 1
        /\ \A i \in 1 .. n : transcript'[i] = transcript[i]
    BY <1>1, <2>1, AppendProperties
  <2>3. ASSUME NEW k \in 0 .. n
        PROVE  SubSeq(transcript', 1, k) = SubSeq(transcript, 1, k)
    <3>1. k \in 0 .. Len(transcript')
      BY <1>1, <2>2
    <3>2. /\ SubSeq(transcript', 1, k) \in Seq(Cell)
          /\ Len(SubSeq(transcript', 1, k)) = k
          /\ \A i \in 1 .. k : SubSeq(transcript', 1, k)[i] = transcript'[i]
      BY <2>2, <3>1, PrefixWords
    <3>3. /\ SubSeq(transcript, 1, k) \in Seq(Cell)
          /\ Len(SubSeq(transcript, 1, k)) = k
          /\ \A i \in 1 .. k : SubSeq(transcript, 1, k)[i] = transcript[i]
      BY <1>1, PrefixWords
    <3>4. \A i \in 1 .. k : SubSeq(transcript', 1, k)[i] = SubSeq(transcript, 1, k)[i]
      BY <1>1, <2>2, <3>2, <3>3
    <3> QED BY <3>2, <3>3, <3>4, SeqEqual
  <2>4. ASSUME NEW k \in 0 .. n + 1, k <= n => NowAt(k) \in turns
        PROVE  TurnNow(SubSeq(transcript', 1, k)) \in turns'
    <3>1. CASE k <= n
      <4>1. k \in 0 .. n
        BY <1>1, <3>1
      <4>2. TurnNow(SubSeq(transcript, 1, k)) \in turns
        BY <2>4, <3>1 DEF NowAt
      <4>3. SubSeq(transcript', 1, k) = SubSeq(transcript, 1, k)
        BY <2>3, <4>1
      <4> QED BY <1>1, <4>2, <4>3
    <3>2. CASE ~(k <= n)
      <4>1. k = Len(transcript')
        BY <1>1, <2>2, <3>2
      <4>2. SubSeq(transcript', 1, k) = transcript'
        BY <2>2, <4>1, SubSeqFull
      <4> QED BY <1>1, <4>2
    <3> QED BY <3>1, <3>2
  <2>5. \/ /\ length <= Len(transcript')
           /\ \A k \in length .. Len(transcript') :
                TurnNow(SubSeq(transcript', 1, k)) \in turns'
        \/ \A k \in 0 .. Len(transcript') :
              TurnNow(SubSeq(transcript', 1, k)) \in turns'
    <3>1. CASE length <= n /\ \A k \in length .. n : NowAt(k) \in turns
      <4>1. length \in Nat
        BY DEF Sessions
      <4>2. ASSUME NEW k \in length .. n + 1
            PROVE  TurnNow(SubSeq(transcript', 1, k)) \in turns'
        <5>1. k \in 0 .. n + 1 /\ (k <= n => k \in length .. n)
          BY <1>1, <4>1
        <5> QED BY <2>4, <3>1, <5>1
      <4> QED BY <1>1, <2>2, <3>1, <4>1, <4>2
    <3>2. CASE \A k \in 0 .. n : NowAt(k) \in turns
      <4>1. ASSUME NEW k \in 0 .. n + 1
            PROVE  TurnNow(SubSeq(transcript', 1, k)) \in turns'
        <5>1. k <= n => k \in 0 .. n
          BY <1>1
        <5> QED BY <2>4, <3>2, <5>1
      <4> QED BY <2>2, <4>1
    <3> QED BY <1>1, <3>1, <3>2 DEF Moments, Witnessed
  <2>6. Witnessed'
    BY <1>1, <2>5 DEF Witnessed, NowAt
  <2>7. ReadSoFar'
    <3> SUFFICES ASSUME bytes # <<>>, ~renewed
                 PROVE  /\ Len(bytes) <= TailCells /\ Place' <= Len(transcript')
                        /\ \A i \in 1 .. Len(bytes) : bytes[i] = transcript'[Start' + i]
      BY <1>1, <1>3 DEF ReadSoFar
    <3>1. /\ Len(bytes) <= TailCells /\ Place <= n
          /\ \A i \in 1 .. Len(bytes) : bytes[i] = transcript[Start + i]
      BY DEF Moments, ReadSoFar
    <3>2. Start' = Start /\ Place' = Place
      BY <1>1 DEF Start, Inside, Place
    <3>3. /\ Start \in Nat /\ Len(bytes) \in Nat
          /\ Place = Start + Len(bytes)
      BY LenProperties, TailAssumption DEF Start, Inside, Place, Sessions
    <3>4. ASSUME NEW i \in 1 .. Len(bytes)
          PROVE  bytes[i] = transcript'[Start + i]
      <4>1. Start + i \in 1 .. n
        BY <1>1, <3>1, <3>3
      <4> QED BY <2>2, <3>1, <4>1
    <3> QED BY <1>1, <2>2, <3>1, <3>2, <3>3, <3>4
  <2> QED BY <1>1, <1>3, <2>6, <2>7 DEF Moments, Unopened, TurnOfOneMoment, Hook
<1> QED BY <1>2, <1>3 DEF SessionWrites

LEMMA AsideMoments ==
  ASSUME Moments,
         UNCHANGED <<setup, pc, transcript, turn, length, bytes, turns, renewed>>
  PROVE  Moments'
BY DEF Moments, Unopened, Witnessed, ReadSoFar, Place, Start, Inside,
       TurnOfOneMoment, NowAt, Hook

LEMMA MomentsInvariance == Spec => []Moments
<1>1. Init => Moments
  BY InitMoments
<1>2. Decision /\ Moments /\ [Next]_vars => Moments'
  <2> SUFFICES ASSUME Decision, Moments, [Next]_vars PROVE Moments'
    OBVIOUS
  <2>1. Sessions
    BY DEF Decision
  <2>2. CASE EditPolicy \/ Replay \/ UNCHANGED vars
    <3>1. UNCHANGED <<setup, pc, transcript, turn, length, bytes, turns, renewed>>
      BY <2>2 DEF EditPolicy, Replay, vars, call, world
    <3> QED BY <3>1, AsideMoments
  <2> QED BY <2>1, <2>2, UnreadSteps, TurnSteps, SessionWitnessed DEF Next
<1> QED BY <1>1, <1>2, DecisionInvariance, PTL DEF Spec

(* The turn that is sent is one the session was at between the opening of  *)
(* the transcript and the end of the last read (transcript_file_tail),     *)
(* however the tail comes in reads and whatever the host writes in         *)
(* between: rows whole or in part, any number of them, and a file begun    *)
(* anew before the first read; for any transcript there was, even a torn   *)
(* one, and any limits of the tail.  Nothing is said of a file begun anew  *)
(* between two reads.                                                      *)
THEOREM OneMoment == Spec => []TurnOfOneMoment
<1>1. Moments => TurnOfOneMoment
  BY DEF Moments
<1> QED BY <1>1, MomentsInvariance, PTL

=============================================================================
