--------------------------- MODULE ShellMatchProofs ---------------------------
(***************************************************************************)
(* What holds of the scan of any command, for any rows and ranks, names,   *)
(* letters, declarations and inputs, and any depth cap.  The row of a      *)
(* command is as strict as any row that was matched in it, whatever        *)
(* matched_in and consider_segment do with variables meanwhile; all that   *)
(* the scan keeps has its type; what it keeps for the return of a function *)
(* is of a frame that exists; and what eval of a parameter scores covers   *)
(* what bash would run there.                                              *)
(***************************************************************************)
EXTENDS ShellMatch, SequenceTheorems, WellFoundedInduction, TLAPS

Rows == Row \cup {NoRow}

(* The row is held by the scan under way or by a suspended one.            *)
Held(row) == row = best \/ \E i \in 1 .. Len(stack) : row = stack[i].best

(* The inductive invariant: every row matched so far is covered by one     *)
(* that is held, and what is held was matched.                             *)
Covered(row) == \E other \in Row : Held(other) /\ ~Outranks(row, other)
Inv ==
  /\ Len(stack) \in Nat
  /\ stack = [i \in 1 .. Len(stack) |-> stack[i]]
  /\ hits \subseteq Row
  /\ best \in hits \cup {NoRow}
  /\ \A i \in 1 .. Len(stack) : stack[i].best \in hits \cup {NoRow}
  /\ \A row \in hits : Covered(row)

(* Triples of numbers in the order Outranks has of ranks.                  *)
Above(a1, a2, a3, b1, b2, b3) ==
  \/ a1 > b1
  \/ a1 = b1 /\ a2 > b2
  \/ a1 = b1 /\ a2 = b2 /\ a3 > b3

LEMMA OutranksIsAbove ==
  ASSUME NEW a \in Row, NEW b \in Row
  PROVE  /\ ActionRank[a][1] \in Nat /\ ActionRank[a][2] \in Nat
         /\ ActionRank[a][3] \in Nat
         /\ Outranks(a, b) <=>
              Above(ActionRank[a][1], ActionRank[a][2], ActionRank[a][3],
                    ActionRank[b][1], ActionRank[b][2], ActionRank[b][3])
<1>1. ActionRank[a] \in (0 .. 1) \X (0 .. 1) \X (0 .. 1000)
  BY RankAssumption
<1>2. /\ ActionRank[a][1] \in Nat /\ ActionRank[a][2] \in Nat
      /\ ActionRank[a][3] \in Nat
  BY <1>1
<1> QED BY <1>2 DEF Outranks, Above

(* What does not outrank a row outranks none that the row does not outrank.*)
LEMMA RanksAreOrdered ==
  ASSUME NEW a \in Row, NEW b \in Row, NEW c \in Row
  PROVE  /\ ~Outranks(a, a)
         /\ Outranks(a, b) => ~Outranks(b, a)
         /\ (~Outranks(a, b) /\ ~Outranks(b, c)) => ~Outranks(a, c)
<1>1. \A row \in Row :
        /\ ActionRank[row][1] \in Nat /\ ActionRank[row][2] \in Nat
        /\ ActionRank[row][3] \in Nat
  BY OutranksIsAbove
<1>2. \A x, y \in Row : Outranks(x, y) <=>
        Above(ActionRank[x][1], ActionRank[x][2], ActionRank[x][3],
              ActionRank[y][1], ActionRank[y][2], ActionRank[y][3])
  BY OutranksIsAbove
<1> DEFINE a1 == ActionRank[a][1]  a2 == ActionRank[a][2]  a3 == ActionRank[a][3]
           b1 == ActionRank[b][1]  b2 == ActionRank[b][2]  b3 == ActionRank[b][3]
           c1 == ActionRank[c][1]  c2 == ActionRank[c][2]  c3 == ActionRank[c][3]
<1>3. /\ a1 \in Nat /\ a2 \in Nat /\ a3 \in Nat
      /\ b1 \in Nat /\ b2 \in Nat /\ b3 \in Nat
      /\ c1 \in Nat /\ c2 \in Nat /\ c3 \in Nat
  BY <1>1
<1>4. /\ Outranks(a, a) <=> Above(a1, a2, a3, a1, a2, a3)
      /\ Outranks(a, b) <=> Above(a1, a2, a3, b1, b2, b3)
      /\ Outranks(b, a) <=> Above(b1, b2, b3, a1, a2, a3)
      /\ Outranks(b, c) <=> Above(b1, b2, b3, c1, c2, c3)
      /\ Outranks(a, c) <=> Above(a1, a2, a3, c1, c2, c3)
  BY <1>2
<1> HIDE DEF a1, a2, a3, b1, b2, b3, c1, c2, c3
<1>5. /\ ~Above(a1, a2, a3, a1, a2, a3)
      /\ Above(a1, a2, a3, b1, b2, b3) => ~Above(b1, b2, b3, a1, a2, a3)
      /\ (~Above(a1, a2, a3, b1, b2, b3) /\ ~Above(b1, b2, b3, c1, c2, c3))
           => ~Above(a1, a2, a3, c1, c2, c3)
  BY <1>3 DEF Above
<1> QED BY <1>4, <1>5

(* prefer gives one of its two rows, and neither outranks it.              *)
LEMMA PreferCovers ==
  ASSUME NEW a \in Rows, NEW b \in Rows
  PROVE  /\ Prefer(a, b) \in {a, b}
         /\ \A row \in {a, b} \ {NoRow} :
              /\ Prefer(a, b) \in Row
              /\ ~Outranks(row, Prefer(a, b))
BY DeepAssumption, RanksAreOrdered DEF Prefer, Rows

-----------------------------------------------------------------------------
(* The kinds of steps: those that match nothing and run nothing, those that*)
(* match a row, those that suspend the scan for another, and the return.   *)
Still == UNCHANGED <<best, hits, stack>>
MatchesOne(row) == Match(row) /\ UNCHANGED stack
Suspends(row) ==
  \E frame :
    /\ stack' = Append(stack, frame)
    /\ frame.best = Prefer(best, row)
    /\ best' = NoRow
    /\ hits' = hits \cup ({row} \ {NoRow})

LEMMA ScanSuspends ==
  ASSUME NEW kind, NEW isolated, NEW row, NEW a, NEW b, NEW c, NEW d,
         Scan(kind, isolated, row, a, b, c, d)
  PROVE  Suspends(row)
<1> DEFINE frame == [kind |-> kind, isolated |-> isolated, exported |-> exported,
                     scope |-> scope, functions |-> functions,
                     best |-> Prefer(best, row), base |-> b, real |-> real]
<1>1. /\ stack' = Append(stack, frame)
      /\ frame.best = Prefer(best, row)
      /\ best' = NoRow
      /\ hits' = hits \cup ({row} \ {NoRow})
  BY DEF Scan
<1> HIDE DEF frame
<1> QED BY <1>1 DEF Suspends

LEMMA StepsByKind ==
  ASSUME Next
  PROVE  \/ Still
         \/ \E row \in Rows : MatchesOne(row) \/ Suspends(row)
         \/ Returns
<1>1. ASSUME NEW row \in Row, Matches(row) PROVE MatchesOne(row)
  BY <1>1 DEF Matches, MatchesOne
<1>2. ASSUME NEW fn \in Fn, Defines(fn) PROVE Still
  BY <1>2 DEF Defines, NoMatch, Still
<1>3. ASSUME NEW dir, NEW isolated, ChangesDirectory(dir, isolated) PROVE Still
  BY <1>3 DEF ChangesDirectory, NoMatch, Leave, Still
<1>4. ASSUME NEW token, NEW conditional, NEW isolated,
             Assigns(token, conditional, isolated)
      PROVE  Still
  BY <1>4 DEF Assigns, NoMatch, Leave, Still
<1>5. ASSUME NEW unexport, NEW word, NEW prefix, NEW isolated,
             Exports(unexport, word, prefix, isolated)
      PROVE  Still
  BY <1>5 DEF Exports, NoMatch, Leave, Still
<1>6. ASSUME NEW decl, NEW isolated, DeclaresNames(decl, isolated) PROVE Still
  BY <1>6 DEF DeclaresNames, NoMatch, Leave, Still
<1>7. ASSUME NEW token, NEW isolated, PrintsTo(token, isolated) PROVE Still
  BY <1>7 DEF PrintsTo, NoMatch, Leave, Still
<1>8. ASSUME NEW name, NEW input, NEW isolated, Reads(name, input, isolated)
      PROVE  Still \/ MatchesOne(Deep)
  BY <1>8 DEF Reads, NoMatch, Leave, Still, MatchesOne
<1>9. ASSUME NEW name, NEW opts, NEW input, NEW isolated,
             Mapfiles(name, opts, input, isolated)
      PROVE  \/ Still \/ MatchesOne(Deep)
             \/ Suspends(Deep) \/ Suspends(NoRow)
  BY <1>9, ScanSuspends DEF Mapfiles, NoMatch, Leave, Still, MatchesOne
<1>10. ASSUME NEW blank, TooDeep(blank) PROVE Still \/ MatchesOne(Deep)
  BY <1>10 DEF TooDeep, NoMatch, Still, MatchesOne
<1>11. ASSUME NEW fn, NEW prefix, NEW isolated,
              \/ Calls(fn, prefix, isolated) \/ RunsHere(prefix, isolated)
              \/ RunsChild(prefix) \/ Substitutes
       PROVE  Suspends(NoRow)
  BY <1>11, ScanSuspends DEF Calls, RunsHere, RunsChild, Substitutes
<1>12. ASSUME NEW name, NEW single, NEW prefix, Evaluates(name, single, prefix)
       PROVE  Still
  BY <1>12 DEF Evaluates, NoMatch, Still
<1>13. Deep \in Rows /\ NoRow \in Rows /\ Row \subseteq Rows
  BY DeepAssumption DEF Rows
<1> QED BY <1>1, <1>2, <1>3, <1>4, <1>5, <1>6, <1>7, <1>8, <1>9, <1>10,
           <1>11, <1>12, <1>13 DEF Next

-----------------------------------------------------------------------------
(* Each kind of step keeps the invariant.                                  *)
LEMMA InitInv == Init => Inv
BY DEF Init, Inv

LEMMA StillKeepsInv ==
  ASSUME Inv, Still
  PROVE  Inv'
BY DEF Inv, Still, Covered, Held

(* A match goes into the row of the scan under way.                        *)
LEMMA MatchKeepsInv ==
  ASSUME Inv, NEW row \in Rows, MatchesOne(row)
  PROVE  Inv'
<1>1. /\ best' = Prefer(best, row)
      /\ hits' = hits \cup ({row} \ {NoRow})
      /\ stack' = stack
      /\ best \in Rows /\ hits \subseteq Row /\ NoRow \notin Row
  BY DeepAssumption DEF MatchesOne, Match, Inv, Rows
<1>2. /\ Prefer(best, row) \in {best, row}
      /\ \A given \in {best, row} \ {NoRow} :
           best' \in Row /\ ~Outranks(given, best')
  BY <1>1, PreferCovers
<1>3. /\ hits' \subseteq Row
      /\ best' \in hits' \cup {NoRow}
      /\ \A i \in 1 .. Len(stack) : stack[i].best \in hits' \cup {NoRow}
  BY <1>1, <1>2 DEF Inv, Rows
<1>4. \A given \in hits' : Covered(given)'
  <2> SUFFICES ASSUME NEW given \in hits'
               PROVE  \E other \in Row : Held(other)' /\ ~Outranks(given, other)
    BY DEF Covered
  <2>1. CASE given = row
    BY <1>1, <1>2, <1>3, <2>1 DEF Held
  <2>2. CASE given \in hits
    <3>1. PICK other \in Row : Held(other) /\ ~Outranks(given, other)
      BY <2>2 DEF Inv, Covered
    <3>2. CASE other = best
      BY <1>1, <1>2, <2>2, <3>1, <3>2, RanksAreOrdered DEF Held
    <3>3. CASE other # best
      BY <1>1, <3>1, <3>3 DEF Held
    <3> QED BY <3>2, <3>3
  <2> QED BY <1>1, <2>1, <2>2
<1> QED BY <1>1, <1>3, <1>4 DEF Inv

(* A scan that is suspended keeps its row, with the match of its segment.  *)
LEMMA SuspendKeepsInv ==
  ASSUME Inv, NEW row \in Rows, Suspends(row)
  PROVE  Inv'
<1>1. PICK frame : /\ stack' = Append(stack, frame)
                   /\ frame.best = Prefer(best, row)
                   /\ best' = NoRow
                   /\ hits' = hits \cup ({row} \ {NoRow})
  BY DEF Suspends
<1> DEFINE S == {stack[i] : i \in 1 .. Len(stack)} \cup {frame}
<1>2. stack \in Seq(S) /\ frame \in S /\ Len(stack) \in Nat
  BY DEF Inv
<1> HIDE DEF S
<1>3. /\ Len(stack') = Len(stack) + 1
      /\ stack' = [i \in 1 .. Len(stack') |-> stack'[i]]
      /\ \A i \in 1 .. Len(stack) : stack'[i] = stack[i]
      /\ stack'[Len(stack) + 1] = frame
  <2>1. /\ stack' \in Seq(S)
        /\ Len(stack') = Len(stack) + 1
        /\ stack'[Len(stack) + 1] = frame
    BY <1>1, <1>2, AppendProperties
  <2>2. \A i \in 1 .. Len(stack) : stack'[i] = stack[i]
    BY <1>1, <1>2, AppendProperties
  <2>3. stack' = [i \in 1 .. Len(stack') |-> stack'[i]]
    BY <2>1, SeqDef
  <2> QED BY <2>1, <2>2, <2>3
<1>4. /\ best \in Rows /\ hits \subseteq Row /\ NoRow \notin Row
  BY DeepAssumption DEF Inv, Rows
<1>5. /\ frame.best \in {best, row}
      /\ \A given \in {best, row} \ {NoRow} :
           frame.best \in Row /\ ~Outranks(given, frame.best)
  BY <1>1, <1>4, PreferCovers
<1>6. /\ hits' \subseteq Row
      /\ best' \in hits' \cup {NoRow}
      /\ \A i \in 1 .. Len(stack') : stack'[i].best \in hits' \cup {NoRow}
  BY <1>1, <1>2, <1>3, <1>4, <1>5 DEF Inv, Rows
<1>7. \A given \in hits' : Covered(given)'
  <2> SUFFICES ASSUME NEW given \in hits'
               PROVE  \E other \in Row : Held(other)' /\ ~Outranks(given, other)
    BY DEF Covered
  <2>1. \A other : other = frame.best => Held(other)'
    BY <1>2, <1>3 DEF Held
  <2>2. CASE given = row
    BY <1>1, <1>4, <1>5, <2>1, <2>2
  <2>3. CASE given \in hits
    <3>1. PICK other \in Row : Held(other) /\ ~Outranks(given, other)
      BY <2>3 DEF Inv, Covered
    <3>2. CASE other = best
      BY <1>4, <1>5, <2>1, <2>3, <3>1, <3>2, RanksAreOrdered
    <3>3. CASE other # best
      <4>1. PICK i \in 1 .. Len(stack) : other = stack[i].best
        BY <3>1, <3>3 DEF Held
      <4>2. i \in 1 .. Len(stack') /\ other = stack'[i].best
        BY <1>2, <1>3, <4>1
      <4> QED BY <3>1, <4>2 DEF Held
    <3> QED BY <3>2, <3>3
  <2> QED BY <1>1, <2>2, <2>3
<1> QED BY <1>2, <1>3, <1>6, <1>7 DEF Inv

(* A scan that ends gives its row to the one it was started by.            *)
LEMMA ReturnKeepsInv ==
  ASSUME Inv, Returns
  PROVE  Inv'
<1> DEFINE n == Len(stack)
           frame == stack[n]
<1>1. /\ stack # <<>>
      /\ stack' = Front(stack)
      /\ best' = Prefer(frame.best, best)
      /\ hits' = hits
  BY DEF Returns, Last
<1>2. n \in Nat /\ n >= 1
  BY <1>1 DEF Inv
<1>3. /\ stack' = [i \in 1 .. Len(stack') |-> stack'[i]]
      /\ Len(stack') = n - 1
      /\ \A i \in 1 .. Len(stack') : stack'[i] = stack[i]
  <2> DEFINE S == {stack[i] : i \in 1 .. n}
             m == n - 1
             rest == SubSeq(stack, 1, m)
  <2>1. m \in Int /\ \A i \in 1 .. m : stack[i] \in S
    BY <1>2
  <2> HIDE DEF S, m
  <2>2. /\ rest \in Seq(S)
        /\ Len(rest) = IF 1 <= m THEN m - 1 + 1 ELSE 0
        /\ \A i \in 1 .. m - 1 + 1 : rest[i] = stack[1 + i - 1]
    BY <2>1, SubSeqProperties
  <2>3. stack' = rest
    BY <1>1 DEF Front, m
  <2> HIDE DEF rest
  <2>4. stack' = [i \in 1 .. Len(stack') |-> stack'[i]]
    BY <2>2, <2>3, SeqDef
  <2>5. m \in Nat /\ m = n - 1
    BY <1>2 DEF m
  <2> HIDE DEF n
  <2>6. Len(rest) = m /\ \A i \in 1 .. m : rest[i] = stack[i]
    BY <2>2, <2>5
  <2> QED BY <2>3, <2>4, <2>5, <2>6
<1>4. /\ best \in Rows /\ frame.best \in Rows
      /\ hits \subseteq Row /\ NoRow \notin Row
      /\ frame.best \in hits \cup {NoRow} /\ best \in hits \cup {NoRow}
  BY <1>2, DeepAssumption DEF Inv, Rows
<1>5. /\ best' \in {frame.best, best}
      /\ \A given \in {frame.best, best} \ {NoRow} :
           best' \in Row /\ ~Outranks(given, best')
  BY <1>1, <1>4, PreferCovers
<1>6. /\ best' \in hits' \cup {NoRow}
      /\ \A i \in 1 .. Len(stack') : stack'[i].best \in hits' \cup {NoRow}
  BY <1>1, <1>2, <1>3, <1>4, <1>5 DEF Inv
<1>7. \A given \in hits' : Covered(given)'
  <2> SUFFICES ASSUME NEW given \in hits
               PROVE  \E other \in Row : Held(other)' /\ ~Outranks(given, other)
    BY <1>1 DEF Covered
  <2>1. PICK other \in Row : Held(other) /\ ~Outranks(given, other)
    BY DEF Inv, Covered
  <2>2. CASE other \in {frame.best, best}
    BY <1>4, <1>5, <2>1, <2>2, RanksAreOrdered DEF Held
  <2>3. CASE other \notin {frame.best, best}
    <3>1. PICK i \in 1 .. n : other = stack[i].best
      BY <2>1, <2>3 DEF Held
    <3>2. i \in 1 .. Len(stack') /\ other = stack'[i].best
      BY <1>2, <1>3, <2>3, <3>1
    <3> QED BY <2>1, <3>2 DEF Held
  <2> QED BY <2>2, <2>3
<1> QED BY <1>1, <1>2, <1>3, <1>4, <1>6, <1>7 DEF Inv

-----------------------------------------------------------------------------
LEMMA Invariance == Spec => []Inv
<1>1. Inv /\ [Next]_vars => Inv'
  <2>1. UNCHANGED vars => Still
    BY DEF vars, Still
  <2> QED BY <2>1, StepsByKind, StillKeepsInv, MatchKeepsInv, SuspendKeepsInv,
             ReturnKeepsInv
<1> QED BY <1>1, InitInv, PTL DEF Spec

(* The row a command goes by is as strict as the strictest row matched in  *)
(* any script it runs, however deep; shell.deep is one of them             *)
(* (matched_in, prefer).                                                   *)
THEOREM StrictestWins == Spec => []StrictestRowWins
<1>1. Inv => StrictestRowWins
  <2> SUFFICES ASSUME Inv, stack = <<>> PROVE StrictestRowWins
    BY DEF StrictestRowWins
  <2>1. \A row \in Row : Held(row) <=> row = best
    BY DEF Held
  <2>2. \A row \in hits : best \in Row /\ ~Outranks(row, best)
    BY <2>1 DEF Inv, Covered
  <2> QED BY <2>2, DeepAssumption DEF Inv, StrictestRowWins
<1> QED BY <1>1, Invariance, PTL

-----------------------------------------------------------------------------
(* Folds.                                                                  *)

Below == {pair \in Nat \X Nat : pair[1] < pair[2]}

(* Of numbers that are not all of a kind there is a first that is not.     *)
LEMMA FirstOf ==
  ASSUME NEW S, S \subseteq Nat, S # {}
  PROVE  \E n \in S : \A m \in S : n <= m
<1>1. IsWellFoundedOn(Below, Nat)
  BY NatLessThanWellFounded DEF OpToRel, Below
<1>2. PICK n \in S : \A m \in S : ~(<<m, n>> \in Below)
  BY <1>1, WFMin
<1>3. ASSUME NEW m \in S PROVE n <= m
  <2>1. n \in Nat /\ m \in Nat /\ ~(m < n)
    BY <1>2 DEF Below
  <2> QED BY <2>1
<1> QED BY <1>3

LEMMA GreatestIs ==
  ASSUME NEW S, S \subseteq Int, NEW n \in S, \A m \in S : m <= n
  PROVE  Max(S) = n
<1>1. \A x, y \in S : (\A m \in S : x >= m) /\ (\A m \in S : y >= m) => x = y
  OBVIOUS
<1>2. \A m \in S : n >= m
  OBVIOUS
<1> QED BY <1>1, <1>2 DEF Max

(* A fold from the left, as the library unfolds it over the places of a    *)
(* sequence.                                                               *)
Folds(h, places, base, step, seq) ==
  h = [s \in SUBSET places |->
         IF s = {} THEN base ELSE step[<<h[s \ {Max(s)}], seq[Max(s)]>>]]

LEMMA FoldThere ==
  ASSUME NEW S, NEW W, NEW base \in S, NEW seq \in Seq(W),
         NEW step \in [S \X W -> S]
  PROVE  \E h \in [SUBSET (1 .. Len(seq)) -> S] :
           Folds(h, 1 .. Len(seq), base, step, seq)
<1> DEFINE There(k) == \E h \in [SUBSET (1 .. k) -> S] :
                         Folds(h, 1 .. k, base, step, seq)
           missing == {k \in 0 .. Len(seq) : ~There(k)}
<1>1. Len(seq) \in Nat /\ \A i \in 1 .. Len(seq) : seq[i] \in W
  BY LenProperties, ElementOfSeq
<1>2. There(0)
  <2> DEFINE h == [s \in SUBSET (1 .. 0) |-> base]
  <2>1. \A s \in SUBSET (1 .. 0) : s = {}
    OBVIOUS
  <2>2. h \in [SUBSET (1 .. 0) -> S] /\ Folds(h, 1 .. 0, base, step, seq)
    BY <2>1 DEF Folds
  <2> QED BY <2>2
<1>3. ASSUME NEW k \in 1 .. Len(seq), There(k - 1) PROVE There(k)
  <2>1. PICK g \in [SUBSET (1 .. (k - 1)) -> S] :
          Folds(g, 1 .. (k - 1), base, step, seq)
    BY <1>3
  <2> DEFINE h == [s \in SUBSET (1 .. k) |->
                     IF k \in s THEN step[<<g[s \ {k}], seq[k]>>] ELSE g[s]]
  <2>2. k \in Nat /\ k >= 1 /\ seq[k] \in W
    BY <1>1
  <2>3. \A s \in SUBSET (1 .. k) :
          /\ s \ {k} \in SUBSET (1 .. (k - 1))
          /\ k \notin s => s \in SUBSET (1 .. (k - 1))
    BY <2>2
  <2>4. h \in [SUBSET (1 .. k) -> S]
    <3> SUFFICES ASSUME NEW s \in SUBSET (1 .. k) PROVE h[s] \in S
      OBVIOUS
    <3>1. CASE k \in s
      <4>1. <<g[s \ {k}], seq[k]>> \in S \X W
        BY <2>2, <2>3
      <4> QED BY <3>1, <4>1
    <3>2. CASE k \notin s
      BY <2>3, <3>2
    <3> QED BY <3>1, <3>2
  <2>5. ASSUME NEW s \in SUBSET (1 .. k)
        PROVE  h[s] = IF s = {} THEN base
                      ELSE step[<<h[s \ {Max(s)}], seq[Max(s)]>>]
    <3>1. CASE k \in s
      <4>1. s \subseteq Int /\ \A m \in s : m <= k
        BY <2>2
      <4>2. Max(s) = k
        BY <3>1, <4>1, GreatestIs
      <4>3. s \ {k} \in SUBSET (1 .. k) /\ k \notin s \ {k}
        OBVIOUS
      <4>4. h[s \ {k}] = g[s \ {k}]
        BY <4>3
      <4> QED BY <3>1, <4>2, <4>4
    <3>2. CASE k \notin s
      <4>1. s \in SUBSET (1 .. (k - 1)) /\ h[s] = g[s]
        BY <2>3, <3>2
      <4>2. CASE s # {}
        <5>1. g[s] = step[<<g[s \ {Max(s)}], seq[Max(s)]>>]
          BY <2>1, <4>1, <4>2 DEF Folds
        <5>2. s \ {Max(s)} \in SUBSET (1 .. k) /\ k \notin s \ {Max(s)}
          BY <3>2
        <5> QED BY <4>1, <4>2, <5>1, <5>2
      <4>3. CASE s = {}
        BY <2>1, <4>1, <4>3 DEF Folds
      <4> QED BY <4>2, <4>3
    <3> QED BY <3>1, <3>2
  <2> HIDE DEF h
  <2>6. h = [s \in SUBSET (1 .. k) |-> h[s]]
    BY <2>4
  <2>7. Folds(h, 1 .. k, base, step, seq)
    BY <2>5, <2>6 DEF Folds
  <2> QED BY <2>4, <2>7
<1> HIDE DEF There
<1>4. missing = {}
  <2> SUFFICES ASSUME missing # {} PROVE FALSE
    OBVIOUS
  <2>1. missing \subseteq Nat
    BY <1>1
  <2>2. \E k \in missing : \A m \in missing : k <= m
    <3> HIDE DEF missing
    <3> QED BY <2>1, FirstOf
  <2>3. PICK k \in missing : \A m \in missing : k <= m
    BY <2>2
  <2>4. k # 0
    BY <1>2
  <2>5. k - 1 \in 0 .. Len(seq) /\ k \in 1 .. Len(seq) /\ k - 1 \notin missing
    BY <1>1, <2>1, <2>3, <2>4
  <2> QED BY <1>3, <2>5
<1>5. There(Len(seq))
  BY <1>1, <1>4
<1> QED BY <1>5 DEF There

(* The greatest of some places is one of them.                             *)
LEMMA GreatestThere ==
  ASSUME NEW n \in Nat, NEW s \in SUBSET (1 .. n), s # {}
  PROVE  Max(s) \in s /\ s \ {Max(s)} \in SUBSET (1 .. (Max(s) - 1))
<1> DEFINE gaps == {n - i : i \in s}
<1>1. gaps \subseteq Nat /\ gaps # {}
  <2>1. ASSUME NEW i \in s PROVE n - i \in Nat
    <3>1. i \in 1 .. n
      OBVIOUS
    <3> QED BY <3>1
  <2> QED BY <2>1
<1>2. \E g \in gaps : \A m \in gaps : g <= m
  <2> HIDE DEF gaps
  <2> QED BY <1>1, FirstOf
<1>3. PICK g \in gaps : \A m \in gaps : g <= m
  BY <1>2
<1>4. PICK top \in s : g = n - top
  BY <1>3
<1>5. ASSUME NEW i \in s PROVE i <= top
  <2>1. n - i \in gaps /\ i \in Nat /\ top \in Nat
    OBVIOUS
  <2>2. n - top <= n - i
    BY <1>3, <1>4, <2>1
  <2> QED BY <2>1, <2>2
<1>6. s \subseteq Int
  OBVIOUS
<1>7. Max(s) = top
  BY <1>5, <1>6, GreatestIs
<1> QED BY <1>5, <1>7

(* What holds of an empty fold and is kept by each of its steps holds of   *)
(* the fold.                                                               *)
LEMMA FoldTyped ==
  ASSUME NEW S, NEW n \in Nat, NEW h, h[{}] \in S,
         \A s \in SUBSET (1 .. n) :
           s # {} /\ h[s \ {Max(s)}] \in S => h[s] \in S
  PROVE  h[1 .. n] \in S
<1> DEFINE Typed(k) == \A s \in SUBSET (1 .. k) : h[s] \in S
           wrong == {k \in 0 .. n : ~Typed(k)}
<1>1. Typed(0)
  <2>1. \A s \in SUBSET (1 .. 0) : s = {}
    OBVIOUS
  <2> QED BY <2>1
<1>2. ASSUME NEW k \in 1 .. n, Typed(k - 1) PROVE Typed(k)
  <2> SUFFICES ASSUME NEW s \in SUBSET (1 .. k), s # {} PROVE h[s] \in S
    OBVIOUS
  <2>1. s \in SUBSET (1 .. n)
    OBVIOUS
  <2>2. Max(s) \in s /\ s \ {Max(s)} \in SUBSET (1 .. (Max(s) - 1))
    BY <2>1, GreatestThere
  <2>3. s \ {Max(s)} \in SUBSET (1 .. (k - 1))
    <3>1. PICK top \in s : top = Max(s) /\ s \ {top} \in SUBSET (1 .. (top - 1))
      BY <2>2
    <3>2. top \in 1 .. k
      OBVIOUS
    <3>3. \A i \in 1 .. (top - 1) : i \in 1 .. (k - 1)
      BY <3>2
    <3> QED BY <3>1, <3>3
  <2> QED BY <1>2, <2>1, <2>3
<1> HIDE DEF Typed
<1>3. wrong = {}
  <2> SUFFICES ASSUME wrong # {} PROVE FALSE
    OBVIOUS
  <2>1. wrong \subseteq Nat
    OBVIOUS
  <2>2. \E k \in wrong : \A m \in wrong : k <= m
    <3> HIDE DEF wrong
    <3> QED BY <2>1, FirstOf
  <2>3. PICK k \in wrong : \A m \in wrong : k <= m
    BY <2>2
  <2>4. k # 0
    BY <1>1
  <2>5. k - 1 \in 0 .. n /\ k \in 1 .. n /\ k - 1 \notin wrong
    BY <2>1, <2>3, <2>4
  <2> QED BY <1>2, <2>5
<1>4. Typed(n)
  BY <1>3
<1> QED BY <1>4 DEF Typed

(* The same of what is said of the places folded so far.                   *)
LEMMA FoldAlong ==
  ASSUME NEW n \in Nat, NEW S, {} \in S,
         \A s \in SUBSET (1 .. n) : s # {} /\ s \ {Max(s)} \in S => s \in S
  PROVE  1 .. n \in S
<1> DEFINE h == [s \in SUBSET (1 .. n) |-> s]
<1>1. h[{}] \in S /\ h[1 .. n] = 1 .. n
  OBVIOUS
<1>2. \A s \in SUBSET (1 .. n) : s # {} => s \ {Max(s)} \in SUBSET (1 .. n)
  OBVIOUS
<1>3. \A s \in SUBSET (1 .. n) : s # {} /\ h[s \ {Max(s)}] \in S => h[s] \in S
  BY <1>2
<1> HIDE DEF h
<1>4. h[1 .. n] \in S
  BY <1>1, <1>3, FoldTyped
<1> QED BY <1>1, <1>4

-----------------------------------------------------------------------------
(* Environments.                                                           *)

LEMMA ApplyTyped ==
  ASSUME NEW env \in Env, NEW token \in Token
  PROVE  /\ ApplyAssignment(env, token) \in Env
         /\ ApplyAssignment(env, token)[token.name] \in Text
<1>1. token.name \in Name /\ token.value \in Text
  BY DEF Token
<1>2. env[token.name] # Unset => env[token.name] \o token.value \in Text
  BY <1>1, ConcatProperties DEF Env, Text
<1>3. \A value \in Text : [env EXCEPT ![token.name] = value] \in Env
                          /\ [env EXCEPT ![token.name] = value][token.name] = value
  BY <1>1 DEF Env
<1> QED BY <1>1, <1>2, <1>3 DEF ApplyAssignment, AppendEnv, SetEnv

(* The fold of a prefix, as the environments it goes through.              *)
LEMMA PrefixFolds ==
  ASSUME NEW env \in Env, NEW prefix \in Seq(Token)
  PROVE  \E h :
           /\ h[{}] = env
           /\ WithPrefix(env, prefix) = h[1 .. Len(prefix)]
           /\ \A s \in SUBSET (1 .. Len(prefix)) : s # {} =>
                /\ prefix[Max(s)] \in Token
                /\ h[s] = ApplyAssignment(h[s \ {Max(s)}], prefix[Max(s)])
<1> DEFINE step == [pair \in Env \X Token |-> ApplyAssignment(pair[1], pair[2])]
           n == Len(prefix)
           Iterates(h) == h = [s \in SUBSET DOMAIN prefix |->
                     IF s = {} THEN env
                     ELSE ApplyAssignment(h[s \ {Max(s)}], prefix[Max(s)])]
           iter == CHOOSE h : Iterates(h)
<1>1. step \in [Env \X Token -> Env]
  BY ApplyTyped
<1>2. DOMAIN prefix = 1 .. n /\ n \in Nat /\ \A i \in 1 .. n : prefix[i] \in Token
  BY LenProperties, ElementOfSeq
<1>3. \A s \in SUBSET (1 .. n) : s # {} =>
        s \ {Max(s)} \in SUBSET (1 .. n) /\ prefix[Max(s)] \in Token
  BY <1>2, GreatestThere
<1>4. WithPrefix(env, prefix) = iter[1 .. n]
  BY <1>2 DEF WithPrefix, FoldLeft, MapThenFoldSet
<1>5. PICK h \in [SUBSET (1 .. n) -> Env] : Folds(h, 1 .. n, env, step, prefix)
  <2> HIDE DEF step
  <2> QED BY <1>1, FoldThere
<1>6. Iterates(h)
  BY <1>2, <1>3, <1>5 DEF Folds
<1>7. Iterates(iter)
  BY <1>6
<1> HIDE DEF iter
<1>8. \A s \in SUBSET (1 .. n) :
        iter[s] = IF s = {} THEN env
                  ELSE ApplyAssignment(iter[s \ {Max(s)}], prefix[Max(s)])
  BY <1>2, <1>7
<1>9. iter[{}] = env
  BY <1>8
<1>10. \A s \in SUBSET (1 .. n) : s # {} =>
         /\ prefix[Max(s)] \in Token
         /\ iter[s] = ApplyAssignment(iter[s \ {Max(s)}], prefix[Max(s)])
  BY <1>3, <1>8
<1> QED BY <1>4, <1>9, <1>10

LEMMA WithPrefixTyped ==
  ASSUME NEW env \in Env, NEW prefix \in Seq(Token)
  PROVE  WithPrefix(env, prefix) \in Env
<1> DEFINE n == Len(prefix)
<1>1. PICK h :
        /\ h[{}] = env
        /\ WithPrefix(env, prefix) = h[1 .. n]
        /\ \A s \in SUBSET (1 .. n) : s # {} =>
             /\ prefix[Max(s)] \in Token
             /\ h[s] = ApplyAssignment(h[s \ {Max(s)}], prefix[Max(s)])
  BY PrefixFolds
<1>2. n \in Nat
  BY LenProperties
<1>3. \A s \in SUBSET (1 .. n) :
        s # {} /\ h[s \ {Max(s)}] \in Env => h[s] \in Env
  BY <1>1, ApplyTyped
<1>4. h[1 .. n] \in Env
  <2> HIDE DEF n
  <2> QED BY <1>1, <1>2, <1>3, FoldTyped
<1> QED BY <1>1, <1>4

(* A prefix gives a text to the names it assigns, and leaves the others.   *)
LEMMA PrefixGives ==
  ASSUME NEW env \in Env, NEW prefix \in Seq(Token), NEW name \in Name
  PROVE  /\ Prefixed(name, prefix) => WithPrefix(env, prefix)[name] \in Text
         /\ ~Prefixed(name, prefix)
              => WithPrefix(env, prefix)[name] = env[name]
<1> DEFINE n == Len(prefix)
<1>1. PICK h :
        /\ h[{}] = env
        /\ WithPrefix(env, prefix) = h[1 .. n]
        /\ \A s \in SUBSET (1 .. n) : s # {} =>
             /\ prefix[Max(s)] \in Token
             /\ h[s] = ApplyAssignment(h[s \ {Max(s)}], prefix[Max(s)])
  BY PrefixFolds
<1>2. n \in Nat /\ DOMAIN prefix = 1 .. n
      /\ \A i \in 1 .. n : prefix[i] \in Token
  BY LenProperties, ElementOfSeq
<1> HIDE DEF n
<1>3. ASSUME ~Prefixed(name, prefix) PROVE h[1 .. n][name] = env[name]
  <2> DEFINE S == {its \in Env : its[name] = env[name]}
  <2>1. h[{}] \in S
    BY <1>1
  <2>2. ASSUME NEW s \in SUBSET (1 .. n), s # {}, h[s \ {Max(s)}] \in S
        PROVE  h[s] \in S
    <3> DEFINE token == prefix[Max(s)]
               before == h[s \ {Max(s)}]
    <3>1. /\ token \in Token /\ h[s] = ApplyAssignment(before, token)
          /\ before \in Env /\ before[name] = env[name]
      BY <1>1, <2>2
    <3>2. Max(s) \in 1 .. n
      BY <1>2, <2>2, GreatestThere
    <3>3. token.name # name
      BY <1>2, <1>3, <3>2 DEF Prefixed
    <3> HIDE DEF token, before
    <3>4. ApplyAssignment(before, token)[name] = before[name]
      BY <3>1, <3>3 DEF ApplyAssignment, AppendEnv, SetEnv, Env, Token
    <3> QED BY <3>1, <3>4, ApplyTyped
  <2> HIDE DEF S
  <2>3. h[1 .. n] \in S
    BY <1>2, <2>1, <2>2, FoldTyped
  <2> QED BY <2>3 DEF S
<1>4. ASSUME NEW i \in 1 .. n, prefix[i].name = name
      PROVE  h[1 .. n][name] \in Text
  <2> DEFINE S == {s \in SUBSET (1 .. n) :
                     h[s] \in Env /\ (i \in s => h[s][name] \in Text)}
  <2>1. {} \in S
    BY <1>1
  <2>2. ASSUME NEW s \in SUBSET (1 .. n), s # {}, s \ {Max(s)} \in S
        PROVE  s \in S
    <3> DEFINE token == prefix[Max(s)]
               before == h[s \ {Max(s)}]
    <3>1. Max(s) \in s /\ s \ {Max(s)} \in SUBSET (1 .. n)
      BY <1>2, <2>2, GreatestThere
    <3>2. /\ token \in Token /\ h[s] = ApplyAssignment(before, token)
          /\ before \in Env
          /\ i \in s \ {Max(s)} => before[name] \in Text
      BY <1>1, <2>2, <3>1
    <3>3. i \in s => i = Max(s) \/ i \in s \ {Max(s)}
      OBVIOUS
    <3>4. i = Max(s) => token.name = name
      BY <1>4
    <3> HIDE DEF token, before
    <3>5. /\ ApplyAssignment(before, token) \in Env
          /\ ApplyAssignment(before, token)[token.name] \in Text
      BY <3>2, ApplyTyped
    <3>6. token.name # name
            => ApplyAssignment(before, token)[name] = before[name]
      BY <3>2 DEF ApplyAssignment, AppendEnv, SetEnv, Env, Token
    <3>7. i \in s => h[s][name] \in Text
      BY <3>2, <3>3, <3>4, <3>5, <3>6
    <3>8. h[s] \in Env
      BY <3>2, <3>5
    <3> QED BY <3>7, <3>8
  <2> HIDE DEF S
  <2>3. 1 .. n \in S
    BY <1>2, <2>1, <2>2, FoldAlong
  <2> QED BY <2>3 DEF S
<1> QED BY <1>1, <1>2, <1>3, <1>4 DEF Prefixed

LEMMA PublishedTyped ==
  ASSUME NEW parent \in Env, NEW before \in Env, NEW after \in Env
  PROVE  PublishEnvChanges(parent, before, after) \in Env
BY DEF PublishEnvChanges, Env

-----------------------------------------------------------------------------
(* The scope: what is kept for a frame is of a frame that exists.          *)

Sound(known) == known \in Scope /\ WithinFrames(known)

LEMMA EnvAtTyped ==
  ASSUME NEW known \in Scope, NEW d \in 0 .. Len(known.locals)
  PROVE  EnvAt(known, d) \in Env
BY ElementOfSeq DEF EnvAt, Scope

LEMMA FrameThere ==
  ASSUME NEW known \in Scope, NEW name
  PROVE  /\ LocalFrame(known, name) \in 0 .. Len(known.locals)
         /\ LocalFrame(known, name) # 0
              => known.locals[LocalFrame(known, name)][name] # Unset
         /\ LocalFrame(known, name) = 0 => LocalDepths(known, name) = {}
         /\ \A d \in 1 .. Len(known.locals) :
              d > LocalFrame(known, name) => known.locals[d][name] = Unset
<1> DEFINE depths == LocalDepths(known, name)
<1>1. Len(known.locals) \in Nat /\ depths \in SUBSET (1 .. Len(known.locals))
  BY LenProperties DEF Scope, LocalDepths
<1>2. CASE depths = {}
  BY <1>1, <1>2 DEF LocalFrame, LocalDepths
<1>3. CASE depths # {}
  <2>1. /\ Max(depths) \in depths
        /\ depths \ {Max(depths)} \in SUBSET (1 .. (Max(depths) - 1))
    <3> HIDE DEF depths
    <3> QED BY <1>1, <1>3, GreatestThere
  <2>2. PICK top \in depths : depths \ {top} \in SUBSET (1 .. (top - 1))
    BY <2>1
  <2>3. \A other \in depths : other <= top
    BY <1>1, <2>2
  <2>4. /\ LocalFrame(known, name) \in depths
        /\ \A other \in depths : other <= LocalFrame(known, name)
    BY <1>3, <2>2, <2>3 DEF LocalFrame
  <2> QED BY <1>1, <2>4 DEF LocalDepths
<1> QED BY <1>2, <1>3

LEMMA LookupTyped ==
  ASSUME NEW known \in Scope, NEW name \in Name
  PROVE  Lookup(known, name) \in Text \cup {Unset}
BY FrameThere, EnvAtTyped DEF Lookup, Env

(* Another environment at a depth.                                         *)
LEMMA PutSound ==
  ASSUME NEW known, Sound(known), NEW d \in 0 .. Len(known.locals),
         NEW env \in Env
  PROVE  /\ Sound(WithEnvAt(known, d, env))
         /\ Len(WithEnvAt(known, d, env).locals) = Len(known.locals)
         /\ EnvAt(WithEnvAt(known, d, env), d) = env
         /\ WithEnvAt(known, d, env).alts = known.alts
         /\ WithEnvAt(known, d, env).saved = known.saved
         /\ WithEnvAt(known, d, env).arrays = known.arrays
<1> DEFINE new == WithEnvAt(known, d, env)
<1>1. known \in Scope /\ known.locals \in Seq(Env) /\ Len(known.locals) \in Nat
  BY LenProperties DEF Sound, Scope
<1>2. CASE d = 0
  <2>1. new = [known EXCEPT !.global = env]
    BY <1>2 DEF WithEnvAt
  <2>2. /\ new \in Scope /\ new.locals = known.locals /\ new.alts = known.alts
        /\ new.saved = known.saved /\ new.arrays = known.arrays
        /\ new.global = env
    BY <1>1, <2>1 DEF Scope
  <2> QED BY <1>2, <2>2 DEF Sound, WithinFrames, EnvAt
<1>3. CASE d # 0
  <2> DEFINE locals == [known.locals EXCEPT ![d] = env]
  <2>1. new = [known EXCEPT !.locals = locals]
    BY <1>3 DEF WithEnvAt
  <2>2. locals \in Seq(Env) /\ Len(locals) = Len(known.locals) /\ locals[d] = env
    BY <1>1, <1>3, ExceptSeq
  <2> HIDE DEF locals
  <2>3. /\ new \in Scope /\ new.locals = locals /\ new.alts = known.alts
        /\ new.saved = known.saved /\ new.arrays = known.arrays
    BY <1>1, <2>1, <2>2 DEF Scope
  <2> QED BY <1>3, <2>2, <2>3 DEF Sound, WithinFrames, EnvAt
<1> QED BY <1>2, <1>3

LEMMA DropSound ==
  ASSUME NEW known, Sound(known), NEW name, NEW d
  PROVE  /\ Sound(DropArray(known, name, d))
         /\ DropArray(known, name, d).locals = known.locals
         /\ DropArray(known, name, d).global = known.global
         /\ DropArray(known, name, d).alts = known.alts
         /\ DropArray(known, name, d).saved = known.saved
         /\ \A array \in DropArray(known, name, d).arrays :
              ~(array.name = name /\ array.depth = d)
<1> DEFINE new == DropArray(known, name, d)
<1>1. /\ new \in Scope /\ new.locals = known.locals /\ new.alts = known.alts
      /\ new.global = known.global /\ new.saved = known.saved
      /\ new.arrays = {array \in known.arrays :
                         ~(array.name = name /\ array.depth = d)}
  BY DEF Sound, Scope, DropArray
<1> HIDE DEF new
<1> QED BY <1>1 DEF Sound, WithinFrames, new

(* What is selected of a sequence is of the kind of what it has there.     *)
LEMMA SelectedTyped ==
  ASSUME NEW W, NEW seq \in Seq(W), NEW places, NEW S,
         \A i \in DOMAIN seq : i \in places => seq[i] \in S
  PROVE  Selected(seq, places) \in Seq(S)
<1> DEFINE n == Len(seq)
           spots == [i \in DOMAIN seq |-> i]
           Keep(kept, i) == IF i \in places THEN Append(kept, seq[i]) ELSE kept
           step == [pair \in Seq(S) \X (1 .. n) |-> Keep(pair[1], pair[2])]
           Iterates(h) == h = [s \in SUBSET DOMAIN spots |->
                                 IF s = {} THEN <<>>
                                 ELSE Keep(h[s \ {Max(s)}], spots[Max(s)])]
           iter == CHOOSE h : Iterates(h)
<1>1. /\ DOMAIN seq = 1 .. n /\ n \in Nat /\ DOMAIN spots = 1 .. n
      /\ spots \in Seq(1 .. n) /\ Len(spots) = n
  BY LenProperties
<1>2. \A kept \in Seq(S), i \in 1 .. n : Keep(kept, i) \in Seq(S)
  BY <1>1, AppendProperties
<1> HIDE DEF Keep
<1>3. step \in [Seq(S) \X (1 .. n) -> Seq(S)] /\ <<>> \in Seq(S)
  BY <1>2, EmptySeq
<1>4. \A s \in SUBSET (1 .. n) : s # {} =>
        s \ {Max(s)} \in SUBSET (1 .. n) /\ spots[Max(s)] \in 1 .. n
  BY <1>1, GreatestThere
<1>5. Selected(seq, places) = iter[1 .. n]
  BY <1>1 DEF Selected, FoldLeft, MapThenFoldSet, Keep
<1>6. PICK h \in [SUBSET (1 .. n) -> Seq(S)] : Folds(h, 1 .. n, <<>>, step, spots)
  <2> HIDE DEF step, spots, n
  <2> QED BY <1>1, <1>3, FoldThere
<1>7. Iterates(h)
  <2> HIDE DEF spots
  <2> QED BY <1>1, <1>4, <1>6 DEF Folds
<1>8. Iterates(iter)
  BY <1>7
<1> HIDE DEF iter
<1>9. \A s \in SUBSET (1 .. n) :
        iter[s] = IF s = {} THEN <<>>
                  ELSE Keep(iter[s \ {Max(s)}], spots[Max(s)])
  BY <1>1, <1>8
<1>10. iter[{}] = <<>>
  BY <1>9
<1>11. \A s \in SUBSET (1 .. n) :
         s # {} /\ iter[s \ {Max(s)}] \in Seq(S) => iter[s] \in Seq(S)
  <2> HIDE DEF spots
  <2> QED BY <1>2, <1>4, <1>9
<1>12. iter[1 .. n] \in Seq(S)
  <2> HIDE DEF n
  <2> QED BY <1>1, <1>3, <1>10, <1>11, FoldTyped
<1> QED BY <1>5, <1>12

-----------------------------------------------------------------------------
(* Assignments.                                                            *)

Alternative == [depth : Nat, name : Name, value : Text]

LEMMA SetVisibleSound ==
  ASSUME NEW known, Sound(known), NEW name \in Name, NEW value \in Text
  PROVE  /\ Sound(SetVisible(known, name, value))
         /\ Len(SetVisible(known, name, value).locals) = Len(known.locals)
<1> DEFINE d == LocalFrame(known, name)
           env == SetEnv(EnvAt(known, d), name, value)
           put == WithEnvAt(known, d, env)
<1>1. d \in 0 .. Len(known.locals)
  BY FrameThere DEF Sound
<1>2. env \in Env
  BY <1>1, EnvAtTyped DEF Sound, SetEnv, Env
<1> HIDE DEF d, env
<1>3. Sound(put) /\ Len(put.locals) = Len(known.locals)
  BY <1>1, <1>2, PutSound
<1> HIDE DEF put
<1> QED BY <1>3, DropSound DEF SetVisible, d, env, put

LEMMA AltsSound ==
  ASSUME NEW known, Sound(known), NEW alts \in Seq(Alternative),
         \A i \in DOMAIN alts : alts[i].depth \in 0 .. Len(known.locals)
  PROVE  Sound([known EXCEPT !.alts = alts])
BY DEF Sound, Scope, WithinFrames, Alternative

LEMMA AssignTokenSound ==
  ASSUME NEW known, Sound(known), NEW token \in Token, NEW conditional
  PROVE  /\ Sound(AssignToken(known, token, conditional))
         /\ Len(AssignToken(known, token, conditional).locals)
              = Len(known.locals)
<1> DEFINE d == LocalFrame(known, token.name)
           env == ApplyAssignment(EnvAt(known, d), token)
           put == WithEnvAt(known, d, env)
           set == DropArray(put, token.name, d)
           alt == [depth |-> d, name |-> token.name,
                   value |-> Lookup(set, token.name)]
           kept == {i \in DOMAIN known.alts :
                      ~(known.alts[i].name = token.name /\ known.alts[i].depth = d)}
           alts == IF conditional THEN Append(set.alts, alt)
                   ELSE Selected(set.alts, kept)
           n == Len(known.locals)
<1>1. /\ d \in 0 .. n /\ token.name \in Name /\ n \in Nat
      /\ known.locals \in Seq(Env)
  BY FrameThere, LenProperties DEF Sound, Token, Scope
<1>2. env \in Env /\ env[token.name] \in Text
  BY <1>1, EnvAtTyped, ApplyTyped DEF Sound
<1> HIDE DEF env
<1>3. /\ Sound(put) /\ Len(put.locals) = n /\ put.alts = known.alts
      /\ EnvAt(put, d) = env
  BY <1>1, <1>2, PutSound
<1>4. /\ Sound(set) /\ set.locals = put.locals /\ set.global = put.global
      /\ set.alts = known.alts
  <2> HIDE DEF put
  <2> QED BY <1>3, DropSound
<1>5. Lookup(set, token.name) \in Text
  <2>1. EnvAt(set, d)[token.name] \in Text
    BY <1>2, <1>3, <1>4 DEF EnvAt
  <2> HIDE DEF set, d
  <2>2. Len(set.locals) = n /\ set \in Scope
    BY <1>3, <1>4 DEF Sound
  <2>3. Lookup(set, token.name) \in Text \cup {Unset}
    BY <1>1, <2>2, LookupTyped
  <2>4. CASE LocalFrame(set, token.name) # 0
    BY <2>2, <2>3, <2>4, FrameThere DEF Lookup, EnvAt
  <2>5. CASE LocalFrame(set, token.name) = 0
    <3>1. LocalDepths(set, token.name) = {}
      BY <2>2, <2>5, FrameThere
    <3>2. d = 0
      <4>1. d # 0 => d \in LocalDepths(set, token.name)
        BY <1>1, <2>1, <2>2, UnsetAssumption DEF LocalDepths, EnvAt
      <4> QED BY <3>1, <4>1
    <3> QED BY <2>1, <2>5, <3>2 DEF Lookup, EnvAt
  <2> QED BY <2>4, <2>5
<1> HIDE DEF set
<1>6. /\ known.alts \in Seq(Alternative)
      /\ \A i \in DOMAIN known.alts : known.alts[i].depth \in 0 .. n
  BY DEF Sound, Scope, WithinFrames, Alternative
<1>7. alts \in Seq({a \in Alternative : a.depth \in 0 .. n})
  <2> DEFINE A == {a \in Alternative : a.depth \in 0 .. n}
  <2>1. DOMAIN known.alts = 1 .. Len(known.alts)
        /\ \A i \in DOMAIN known.alts : known.alts[i] \in A
    BY <1>6, LenProperties, ElementOfSeq
  <2>2. known.alts \in Seq(A)
    BY <1>6, <2>1, LenProperties, SeqDef
  <2>3. alt \in A
    BY <1>1, <1>5 DEF Alternative
  <2> HIDE DEF A, alt, kept
  <2>4. alts \in Seq(A)
    <3>1. Append(known.alts, alt) \in Seq(A)
      BY <2>2, <2>3, AppendProperties
    <3>2. Selected(known.alts, kept) \in Seq(A)
      BY <2>1, <2>2, SelectedTyped
    <3> QED BY <1>4, <3>1, <3>2
  <2> QED BY <2>4 DEF A
<1> HIDE DEF alts
<1>8. /\ alts \in Seq(Alternative)
      /\ \A i \in DOMAIN alts : alts[i].depth \in 0 .. n
  BY <1>7, LenProperties, ElementOfSeq
<1>9. AssignToken(known, token, conditional) = [set EXCEPT !.alts = alts]
  BY <1>4 DEF AssignToken, set, put, env, alts, kept
<1>10. /\ Sound([set EXCEPT !.alts = alts])
       /\ [set EXCEPT !.alts = alts].locals = set.locals
  BY <1>3, <1>4, <1>8, AltsSound DEF Sound, Scope
<1> QED BY <1>3, <1>4, <1>9, <1>10

LEMMA SetArraySound ==
  ASSUME NEW known, Sound(known), NEW name \in Name, NEW values \in Seq(Text)
  PROVE  /\ Sound(SetArray(known, name, values))
         /\ Len(SetArray(known, name, values).locals) = Len(known.locals)
<1> DEFINE d == LocalFrame(known, name)
           env == UnsetEnv(EnvAt(known, d), name)
           drop == DropArray(known, name, d)
           bare == WithEnvAt(drop, d, env)
           array == [depth |-> d, name |-> name, values |-> values]
           new == [bare EXCEPT !.arrays = @ \cup {array}]
<1>1. d \in 0 .. Len(known.locals) /\ Len(known.locals) \in Nat
  BY FrameThere, LenProperties DEF Sound, Scope
<1>2. env \in Env
  BY <1>1, EnvAtTyped DEF Sound, UnsetEnv, Env
<1> HIDE DEF env
<1>3. /\ Sound(drop) /\ drop.locals = known.locals
      /\ \A other \in drop.arrays : ~(other.name = name /\ other.depth = d)
  <2> HIDE DEF d
  <2> QED BY DropSound
<1> HIDE DEF drop, d
<1>4. /\ Sound(bare) /\ Len(bare.locals) = Len(known.locals)
      /\ bare.arrays = drop.arrays
  BY <1>1, <1>2, <1>3, PutSound
<1> HIDE DEF bare
<1>5. array \in [depth : Nat, name : Name, values : Seq(Text)]
  BY <1>1
<1>6. /\ array.depth = d /\ array.name = name
  OBVIOUS
<1> HIDE DEF array
<1>7. /\ new \in Scope /\ new.locals = bare.locals /\ new.alts = bare.alts
      /\ new.saved = bare.saved /\ new.arrays = bare.arrays \cup {array}
  BY <1>4, <1>5 DEF Sound, Scope
<1>8. SetArray(known, name, values) = new
  BY DEF SetArray, d, bare, drop, env, array
<1> HIDE DEF new
<1>9. WithinFrames(new)
  <2>1. \A i \in DOMAIN new.alts : new.alts[i].depth \in 0 .. Len(new.locals)
    BY <1>4, <1>7 DEF Sound, WithinFrames
  <2>2. \A a \in new.arrays : a.depth \in 0 .. Len(new.locals)
    BY <1>1, <1>4, <1>6, <1>7 DEF Sound, WithinFrames
  <2>3. /\ \A save \in new.saved : save.depth \in (0 .. Len(new.locals)) \ {0}
        /\ \A s, t \in new.saved : s.depth = t.depth /\ s.name = t.name => s = t
    BY <1>4, <1>7 DEF Sound, WithinFrames
  <2>4. \A a, b \in new.arrays : a.depth = b.depth /\ a.name = b.name => a = b
    BY <1>3, <1>4, <1>6, <1>7 DEF Sound, WithinFrames
  <2> QED BY <2>1, <2>2, <2>3, <2>4 DEF WithinFrames
<1> QED BY <1>4, <1>7, <1>8, <1>9 DEF Sound

-----------------------------------------------------------------------------
(* Calls and returns.                                                      *)

LEMMA PushSound ==
  ASSUME NEW known, Sound(known)
  PROVE  /\ Sound(PushFrame(known))
         /\ Len(PushFrame(known).locals) = Len(known.locals) + 1
<1> DEFINE locals == Append(known.locals, EmptyEnv)
           new == [known EXCEPT !.locals = locals]
<1>1. /\ known.locals \in Seq(Env) /\ Len(known.locals) \in Nat
      /\ EmptyEnv \in Env
  BY LenProperties DEF Sound, Scope, EmptyEnv, Env
<1>2. locals \in Seq(Env) /\ Len(locals) = Len(known.locals) + 1
  BY <1>1, AppendProperties
<1>3. PushFrame(known) = new
  BY DEF PushFrame
<1> HIDE DEF locals
<1>4. /\ new \in Scope /\ new.locals = locals /\ new.alts = known.alts
      /\ new.saved = known.saved /\ new.arrays = known.arrays
  BY <1>2 DEF Sound, Scope
<1> HIDE DEF new
<1>5. \A d \in 0 .. Len(known.locals) : d \in 0 .. Len(locals)
  BY <1>1, <1>2
<1> QED BY <1>2, <1>3, <1>4, <1>5 DEF Sound, WithinFrames

LEMMA FrontTyped ==
  ASSUME NEW S, NEW seq \in Seq(S)
  PROVE  /\ SubSeq(seq, 1, Len(seq) - 1) \in Seq(S)
         /\ Len(SubSeq(seq, 1, Len(seq) - 1))
              = IF seq = <<>> THEN 0 ELSE Len(seq) - 1
         /\ \A i \in 1 .. Len(SubSeq(seq, 1, Len(seq) - 1)) :
              SubSeq(seq, 1, Len(seq) - 1)[i] = seq[i]
<1> DEFINE n == Len(seq)
           front == SubSeq(seq, 1, n - 1)
<1>1. n \in Nat /\ (n = 0 <=> seq = <<>>) /\ \A i \in 1 .. n : seq[i] \in S
  BY LenProperties, EmptySeq, ElementOfSeq
<1> HIDE DEF n
<1>2. n - 1 \in Int /\ \A i \in 1 .. (n - 1) : seq[i] \in S
  BY <1>1
<1>3. /\ front \in Seq(S)
      /\ Len(front) = IF 1 <= n - 1 THEN n - 1 - 1 + 1 ELSE 0
      /\ \A i \in 1 .. n - 1 - 1 + 1 : front[i] = seq[1 + i - 1]
  BY <1>2, SubSeqProperties
<1> HIDE DEF front
<1>4. Len(front) = IF n = 0 THEN 0 ELSE n - 1
  BY <1>1, <1>3
<1>5. \A i \in 1 .. Len(front) : front[i] = seq[i]
  BY <1>1, <1>3, <1>4
<1> QED BY <1>1, <1>3, <1>4, <1>5 DEF front, n

LEMMA PopSound ==
  ASSUME NEW known, Sound(known)
  PROVE  /\ Sound(PopScope(known))
         /\ Len(PopScope(known).locals) =
              IF known.locals = <<>> THEN 0 ELSE Len(known.locals) - 1
<1> DEFINE d == Len(known.locals)
           locals == SubSeq(known.locals, 1, d - 1)
           below == {i \in DOMAIN known.alts : known.alts[i].depth <= d - 1}
           alts == Selected(known.alts, below)
           saved == {save \in known.saved : save.depth # d}
           arrays == {array \in known.arrays : array.depth <= d - 1}
           A == {a \in Alternative : a.depth <= d - 1}
           new == [known EXCEPT !.locals = locals, !.saved = saved,
                                !.alts = alts, !.arrays = arrays]
<1>1. /\ d \in Nat /\ known.locals \in Seq(Env)
      /\ d = 0 <=> known.locals = <<>>
      /\ known.alts \in Seq(Alternative)
  BY LenProperties, EmptySeq DEF Sound, Scope, Alternative
<1>2. /\ locals \in Seq(Env)
      /\ Len(locals) = IF known.locals = <<>> THEN 0 ELSE d - 1
  <2> HIDE DEF locals
  <2> QED BY <1>1, FrontTyped DEF locals
<1>3. alts \in Seq(A)
  <2>1. \A i \in DOMAIN known.alts : i \in below => known.alts[i] \in A
    BY <1>1, LenProperties, ElementOfSeq
  <2> HIDE DEF below, A
  <2> QED BY <1>1, <2>1, SelectedTyped
<1>4. PopScope(known) = new
  BY DEF PopScope, AltsUpTo
<1> HIDE DEF locals, alts
<1>5. alts \in Seq(Alternative) /\ \A i \in DOMAIN alts : alts[i].depth <= d - 1
  BY <1>3, LenProperties, ElementOfSeq
<1>6. /\ new \in Scope /\ new.locals = locals /\ new.alts = alts
      /\ new.saved = saved /\ new.arrays = arrays
  BY <1>2, <1>5 DEF Sound, Scope, Alternative
<1> HIDE DEF new
<1>7. \A i \in DOMAIN alts : alts[i].depth \in 0 .. Len(locals)
  <2> SUFFICES ASSUME NEW i \in DOMAIN alts
               PROVE  alts[i].depth \in 0 .. Len(locals)
    OBVIOUS
  <2>1. alts[i] \in Alternative /\ alts[i].depth <= d - 1
    BY <1>5, LenProperties, ElementOfSeq
  <2>2. alts[i].depth \in Nat
    BY <2>1 DEF Alternative
  <2> QED BY <1>1, <1>2, <2>1, <2>2
<1>8. \A array \in arrays : array.depth \in 0 .. Len(locals)
  <2> SUFFICES ASSUME NEW array \in arrays
               PROVE  array.depth \in 0 .. Len(locals)
    OBVIOUS
  <2>1. array.depth \in Nat /\ array.depth <= d - 1
    BY DEF Sound, Scope
  <2> QED BY <1>1, <1>2, <2>1
<1>9. \A save \in saved : save.depth \in (0 .. Len(locals)) \ {0}
  <2> SUFFICES ASSUME NEW save \in saved
               PROVE  save.depth \in (0 .. Len(locals)) \ {0}
    OBVIOUS
  <2>1. save.depth \in (0 .. d) \ {0} /\ save.depth # d
    BY DEF Sound, WithinFrames
  <2> QED BY <1>1, <1>2, <2>1
<1>10. /\ \A s, t \in saved : s.depth = t.depth /\ s.name = t.name => s = t
       /\ \A a, b \in arrays : a.depth = b.depth /\ a.name = b.name => a = b
  BY DEF Sound, WithinFrames
<1>11. WithinFrames(new)
  <2> HIDE DEF saved, arrays
  <2> QED BY <1>6, <1>7, <1>8, <1>9, <1>10 DEF WithinFrames
<1> QED BY <1>2, <1>4, <1>6, <1>11 DEF Sound

LEMMA PopExportsTyped ==
  ASSUME NEW known \in Scope, NEW env \in Env
  PROVE  PopExports(known, env) \in Env
<1> SUFFICES ASSUME NEW name \in Name
             PROVE  PopExports(known, env)[name] \in Text \cup {Unset}
  BY DEF PopExports, Env
<1> DEFINE mine == {save \in known.saved :
                      save.depth = Len(known.locals) /\ save.name = name}
<1>1. mine # {} => (CHOOSE save \in mine : TRUE) \in mine
  OBVIOUS
<1>2. \A save \in mine : save.previous \in Text \cup {Unset}
  BY DEF Scope
<1>3. PopExports(known, env)[name] =
        IF mine = {} THEN env[name]
        ELSE (CHOOSE save \in mine : TRUE).previous
  BY DEF PopExports
<1> QED BY <1>1, <1>2, <1>3 DEF Env

-----------------------------------------------------------------------------
(* export.                                                                 *)

(* A scope with n frames, and what is exported beside it.                  *)
Views(n) == {view \in [exported : Env, scope : Scope] :
               WithinFrames(view.scope) /\ Len(view.scope.locals) = n}

LEMMA ViewIs ==
  ASSUME NEW n, NEW view \in Views(n)
  PROVE  /\ view.exported \in Env /\ Sound(view.scope)
         /\ Len(view.scope.locals) = n
         /\ view = [exported |-> view.exported, scope |-> view.scope]
BY DEF Views, Sound

LEMMA ViewOf ==
  ASSUME NEW known, Sound(known), NEW env \in Env
  PROVE  [exported |-> env, scope |-> known] \in Views(Len(known.locals))
BY DEF Views, Sound

LEMMA ExportOneSound ==
  ASSUME NEW n, NEW view \in Views(n), NEW word \in Word, NEW local \in Env
  PROVE  ExportOne(view, word, local) \in Views(n)
<1> DEFINE value == IF "append" \in DOMAIN word
                    THEN ApplyAssignment(view.exported, word)[word.name]
                    ELSE IF local[word.name] # Unset THEN local[word.name]
                         ELSE Lookup(view.scope, word.name)
           env == SetEnv(view.exported, word.name, value)
           seen == SetVisible(view.scope, word.name, value)
<1>1. /\ word.name \in Name
      /\ "append" \in DOMAIN word => word \in Token
  BY DEF Word, Token
<1>2. /\ view.exported \in Env /\ Sound(view.scope) /\ view.scope \in Scope
      /\ Len(view.scope.locals) = n
  BY ViewIs DEF Sound
<1>3. value \in Text \cup {Unset}
  <2>1. CASE "append" \in DOMAIN word
    BY <1>1, <1>2, <2>1, ApplyTyped
  <2>2. CASE "append" \notin DOMAIN word /\ local[word.name] # Unset
    BY <1>1, <2>2 DEF Env
  <2>3. CASE "append" \notin DOMAIN word /\ local[word.name] = Unset
    BY <1>1, <1>2, <2>3, LookupTyped
  <2> QED BY <2>1, <2>2, <2>3
<1>4. ExportOne(view, word, local) =
        IF value = Unset THEN view ELSE [exported |-> env, scope |-> seen]
  BY DEF ExportOne
<1> HIDE DEF value
<1>5. CASE value # Unset
  <2>1. env \in Env
    BY <1>1, <1>2, <1>3, <1>5 DEF SetEnv, Env
  <2>2. Sound(seen) /\ Len(seen.locals) = n
    BY <1>1, <1>2, <1>3, <1>5, SetVisibleSound
  <2> HIDE DEF env, seen
  <2> QED BY <1>4, <1>5, <2>1, <2>2, ViewOf
<1> QED BY <1>4, <1>5

LEMMA ExportsSound ==
  ASSUME NEW env \in Env, NEW known, Sound(known), NEW unexport,
         NEW words \in Seq(Word), NEW local \in Env
  PROVE  ApplyExports(env, known, unexport, words, local)
           \in Views(Len(known.locals))
<1> DEFINE n == Len(words)
           m == Len(known.locals)
           base == [exported |-> env, scope |-> known]
           One(view, word) ==
             IF unexport
             THEN [view EXCEPT !.exported = UnsetEnv(@, word.name)]
             ELSE ExportOne(view, word, local)
           step == [pair \in Views(m) \X Word |-> One(pair[1], pair[2])]
           Iterates(h) == h = [s \in SUBSET DOMAIN words |->
                                 IF s = {} THEN base
                                 ELSE One(h[s \ {Max(s)}], words[Max(s)])]
           iter == CHOOSE h : Iterates(h)
<1>1. DOMAIN words = 1 .. n /\ n \in Nat /\ \A i \in 1 .. n : words[i] \in Word
  BY LenProperties, ElementOfSeq
<1>2. \A view \in Views(m), word \in Word : One(view, word) \in Views(m)
  <2> SUFFICES ASSUME NEW view \in Views(m), NEW word \in Word
               PROVE  One(view, word) \in Views(m)
    OBVIOUS
  <2>1. UnsetEnv(view.exported, word.name) \in Env
    BY ViewIs DEF UnsetEnv, Env
  <2>2. [view EXCEPT !.exported = UnsetEnv(@, word.name)] \in Views(m)
    BY <2>1 DEF Views
  <2> QED BY <2>2, ExportOneSound
<1> HIDE DEF m, One
<1>3. step \in [Views(m) \X Word -> Views(m)] /\ base \in Views(m)
  BY <1>2, ViewOf DEF m
<1>4. \A s \in SUBSET (1 .. n) : s # {} =>
        s \ {Max(s)} \in SUBSET (1 .. n) /\ words[Max(s)] \in Word
  BY <1>1, GreatestThere
<1>5. ApplyExports(env, known, unexport, words, local) = iter[1 .. n]
  BY <1>1 DEF ApplyExports, FoldLeft, MapThenFoldSet, One
<1> HIDE DEF base
<1>6. PICK h \in [SUBSET (1 .. n) -> Views(m)] :
        Folds(h, 1 .. n, base, step, words)
  <2> HIDE DEF step
  <2> QED BY <1>1, <1>3, FoldThere
<1>7. Iterates(h)
  BY <1>1, <1>4, <1>6 DEF Folds
<1>8. Iterates(iter)
  BY <1>7
<1> HIDE DEF iter
<1>9. \A s \in SUBSET (1 .. n) :
        iter[s] = IF s = {} THEN base
                  ELSE One(iter[s \ {Max(s)}], words[Max(s)])
  BY <1>1, <1>8
<1>10. iter[{}] = base
  BY <1>9
<1>11. \A s \in SUBSET (1 .. n) :
         s # {} /\ iter[s \ {Max(s)}] \in Views(m) => iter[s] \in Views(m)
  BY <1>2, <1>4, <1>9
<1>12. iter[1 .. n] \in Views(m)
  <2> HIDE DEF n
  <2> QED BY <1>1, <1>3, <1>10, <1>11, FoldTyped
<1> QED BY <1>5, <1>12 DEF m

-----------------------------------------------------------------------------
(* Declarations.                                                           *)

LEMMA DeclDepthTyped ==
  ASSUME NEW known \in Scope, NEW toGlobal
  PROVE  DeclDepth(known, toGlobal) \in 0 .. Len(known.locals)
BY LenProperties DEF DeclDepth, Scope

LEMMA AssignDeclSound ==
  ASSUME NEW known, Sound(known), NEW token \in Token, NEW toGlobal
  PROVE  /\ Sound(AssignDecl(known, token, toGlobal))
         /\ Len(AssignDecl(known, token, toGlobal).locals) = Len(known.locals)
<1> DEFINE d == DeclDepth(known, toGlobal)
           env == ApplyAssignment(EnvAt(known, d), token)
           put == WithEnvAt(known, d, env)
<1>1. d \in 0 .. Len(known.locals)
  BY DeclDepthTyped DEF Sound
<1>2. env \in Env
  BY <1>1, EnvAtTyped, ApplyTyped DEF Sound
<1> HIDE DEF d, env
<1>3. Sound(put) /\ Len(put.locals) = Len(known.locals)
  BY <1>1, <1>2, PutSound
<1> HIDE DEF put
<1> QED BY <1>3, DropSound DEF AssignDecl, d, env, put

LEMMA RememberSound ==
  ASSUME NEW known, Sound(known), NEW name \in Name, NEW toGlobal
  PROVE  /\ Sound(RememberName(known, name, toGlobal))
         /\ Len(RememberName(known, name, toGlobal).locals)
              = Len(known.locals)
<1> DEFINE d == DeclDepth(known, toGlobal)
           env == SetEnv(EnvAt(known, d), name, <<>>)
           put == WithEnvAt(known, d, env)
<1>1. d \in 0 .. Len(known.locals)
  BY DeclDepthTyped DEF Sound
<1>2. env \in Env
  BY <1>1, EnvAtTyped, EmptySeq DEF Sound, SetEnv, Env, Text
<1>3. RememberName(known, name, toGlobal) \in {known, put}
  BY DEF RememberName
<1> HIDE DEF d, env
<1>4. Sound(put) /\ Len(put.locals) = Len(known.locals)
  BY <1>1, <1>2, PutSound
<1> QED BY <1>3, <1>4

LEMMA ExportHereSound ==
  ASSUME NEW known, Sound(known), NEW env \in Env, NEW name \in Name,
         NEW toGlobal
  PROVE  ExportHere(known, env, name, toGlobal) \in Views(Len(known.locals))
<1> DEFINE d == Len(known.locals)
           save == [depth |-> d, name |-> name, previous |-> env[name]]
           first == \A old \in known.saved : ~(old.depth = d /\ old.name = name)
           kept == IF ~toGlobal /\ d # 0 /\ first
                   THEN [known EXCEPT !.saved = @ \cup {save}] ELSE known
           value == Lookup(known, name)
           new == [exported |-> SetEnv(env, name, value), scope |-> kept]
<1>1. value \in Text \cup {Unset} /\ d \in Nat
  BY LookupTyped, LenProperties DEF Sound, Scope
<1>2. Sound(kept) /\ Len(kept.locals) = d
  <2>1. CASE kept = known
    BY <2>1
  <2>2. CASE ~toGlobal /\ d # 0 /\ first
    <3>1. /\ save \in [depth : Nat, name : Name, previous : Text \cup {Unset}]
          /\ save.depth = d /\ save.name = name
      BY <1>1 DEF Env
    <3> HIDE DEF save
    <3>2. /\ kept \in Scope /\ kept.locals = known.locals
          /\ kept.alts = known.alts /\ kept.arrays = known.arrays
          /\ kept.saved = known.saved \cup {save}
      BY <2>2, <3>1 DEF Sound, Scope
    <3> HIDE DEF kept
    <3> QED BY <1>1, <2>2, <3>1, <3>2 DEF Sound, WithinFrames
  <2> QED BY <2>1, <2>2
<1>3. ExportHere(known, env, name, toGlobal) =
        IF value = Unset THEN [scope |-> known, exported |-> env] ELSE new
  BY DEF ExportHere
<1> HIDE DEF kept, value
<1>4. CASE value = Unset
  <2>1. [exported |-> env, scope |-> known]
          = [scope |-> known, exported |-> env]
    OBVIOUS
  <2> QED BY <1>3, <1>4, <2>1, ViewOf
<1>5. CASE value # Unset
  <2>1. SetEnv(env, name, value) \in Env
    BY <1>1, <1>5 DEF SetEnv, Env
  <2> QED BY <1>2, <1>3, <1>5, <2>1, ViewOf
<1> QED BY <1>4, <1>5

LEMMA DeclarationSound ==
  ASSUME NEW known, Sound(known), NEW env \in Env, NEW base, NEW flags,
         NEW words \in Seq(Word)
  PROVE  BindDeclaration(known, env, base, flags, words)
           \in Views(Len(known.locals))
<1> DEFINE toGlobal == ToGlobal(known, base, flags)
           nothing == \/ base = "local" /\ known.locals = <<>>
                      \/ base = "readonly" /\ ~(flags \subseteq {"a", "A", "p"})
           named == IF nothing THEN <<>> ELSE words
           m == Len(known.locals)
           n == Len(named)
           first == [scope |-> known, exported |-> env]
           Set(before, word) ==
             IF "append" \in DOMAIN word
             THEN AssignDecl(before, word, toGlobal)
             ELSE RememberName(before, word.name, toGlobal)
           One(view, word) ==
             IF "x" \in flags
             THEN ExportHere(Set(view.scope, word), view.exported, word.name,
                             toGlobal)
             ELSE [view EXCEPT !.scope = Set(@, word)]
           step == [pair \in Views(m) \X Word |-> One(pair[1], pair[2])]
           Iterates(h) == h = [s \in SUBSET DOMAIN named |->
                                 IF s = {} THEN first
                                 ELSE One(h[s \ {Max(s)}], named[Max(s)])]
           iter == CHOOSE h : Iterates(h)
<1>1. named \in Seq(Word)
  BY EmptySeq
<1> HIDE DEF named
<1>2. DOMAIN named = 1 .. n /\ n \in Nat /\ \A i \in 1 .. n : named[i] \in Word
  BY <1>1, LenProperties, ElementOfSeq
<1>3. BindDeclaration(known, env, base, flags, words) = iter[1 .. n]
  BY <1>2 DEF BindDeclaration, FoldLeft, MapThenFoldSet, named
<1> HIDE DEF toGlobal
<1>4. \A view \in Views(m), word \in Word : One(view, word) \in Views(m)
  <2> SUFFICES ASSUME NEW view \in Views(m), NEW word \in Word
               PROVE  One(view, word) \in Views(m)
    OBVIOUS
  <2> DEFINE set == Set(view.scope, word)
  <2>1. /\ view.exported \in Env /\ Sound(view.scope)
        /\ Len(view.scope.locals) = m /\ word.name \in Name
        /\ "append" \in DOMAIN word => word \in Token
    BY ViewIs DEF Word, Token
  <2>2. Sound(set) /\ Len(set.locals) = m
    BY <2>1, AssignDeclSound, RememberSound
  <2> HIDE DEF Set
  <2>3. CASE "x" \in flags
    BY <2>1, <2>2, <2>3, ExportHereSound
  <2>4. CASE "x" \notin flags
    <3>1. One(view, word) = [view EXCEPT !.scope = set]
      BY <2>4
    <3> QED BY <2>2, <3>1 DEF Views, Sound
  <2> QED BY <2>3, <2>4
<1> HIDE DEF Set, One
<1>5. first = [exported |-> env, scope |-> known]
  OBVIOUS
<1> HIDE DEF first
<1>6. first \in Views(m)
  BY <1>5, ViewOf
<1> HIDE DEF m
<1>7. step \in [Views(m) \X Word -> Views(m)]
  BY <1>4
<1>8. \A s \in SUBSET (1 .. n) : s # {} =>
        s \ {Max(s)} \in SUBSET (1 .. n) /\ named[Max(s)] \in Word
  BY <1>2, GreatestThere
<1>9. PICK h \in [SUBSET (1 .. n) -> Views(m)] :
        Folds(h, 1 .. n, first, step, named)
  <2> HIDE DEF step
  <2> QED BY <1>1, <1>6, <1>7, FoldThere
<1>10. Iterates(h)
  BY <1>2, <1>8, <1>9 DEF Folds
<1>11. Iterates(iter)
  BY <1>10
<1> HIDE DEF iter
<1>12. \A s \in SUBSET (1 .. n) :
         iter[s] = IF s = {} THEN first
                   ELSE One(iter[s \ {Max(s)}], named[Max(s)])
  BY <1>2, <1>11
<1>13. iter[{}] = first
  BY <1>12
<1>14. \A s \in SUBSET (1 .. n) :
         s # {} /\ iter[s \ {Max(s)}] \in Views(m) => iter[s] \in Views(m)
  BY <1>4, <1>8, <1>12
<1>15. iter[1 .. n] \in Views(m)
  <2> HIDE DEF n
  <2> QED BY <1>2, <1>6, <1>13, <1>14, FoldTyped
<1> QED BY <1>3, <1>15 DEF m

-----------------------------------------------------------------------------
(* Texts, read and mapfile.                                                *)

LEMMA PartTyped ==
  ASSUME NEW text \in Text, NEW m \in Nat, NEW n \in Int, m >= 1,
         n <= Len(text)
  PROVE  SubSeq(text, m, n) \in Text
<1>1. Len(text) \in Nat /\ \A i \in 1 .. Len(text) : text[i] \in Letter
  BY LenProperties, ElementOfSeq DEF Text
<1>2. \A i \in m .. n : text[i] \in Letter
  BY <1>1
<1> QED BY <1>2, SubSeqProperties DEF Text

LEMMA EarliestTyped ==
  ASSUME NEW text \in Text, NEW letters
  PROVE  /\ Earliest(Places(text, letters), Len(text) + 1)
              \in 1 .. Len(text) + 1
         /\ Earliest(Others(text, letters), Len(text) + 1)
              \in 1 .. Len(text) + 1
<1>1. /\ Len(text) \in Nat /\ DOMAIN text = 1 .. Len(text)
      /\ Places(text, letters) \subseteq DOMAIN text
      /\ Others(text, letters) \subseteq DOMAIN text
  BY LenProperties DEF Text, Places, Others
<1>2. ASSUME NEW places, places \subseteq 1 .. Len(text)
      PROVE  Earliest(places, Len(text) + 1) \in 1 .. Len(text) + 1
  <2>1. CASE places = {}
    BY <1>1, <2>1 DEF Earliest
  <2>2. CASE places # {}
    <3>1. PICK i \in places : \A j \in places : i <= j
      <4>1. places \subseteq Nat
        BY <1>1, <1>2
      <4> QED BY <2>2, <4>1, FirstOf
    <3>2. Earliest(places, Len(text) + 1) \in places
      BY <2>2, <3>1 DEF Earliest
    <3>3. \A at \in 1 .. Len(text) : at \in 1 .. Len(text) + 1
      BY <1>1
    <3> QED BY <1>2, <3>2, <3>3
  <2> QED BY <2>1, <2>2
<1> QED BY <1>1, <1>2

LEMMA LineTyped ==
  ASSUME NEW text \in Text
  PROVE  Line(text) \in Text
<1> DEFINE i == Earliest(Places(text, {Newline}), Len(text) + 1)
<1>1. Len(text) \in Nat /\ i \in 1 .. Len(text) + 1
  BY EarliestTyped, LenProperties DEF Text
<1> HIDE DEF i
<1>2. i - 1 \in Int /\ i - 1 <= Len(text)
  BY <1>1
<1> QED BY <1>2, PartTyped DEF Line, Before, i

LEMMA TrimTyped ==
  ASSUME NEW text \in Text
  PROVE  Trim(text) \in Text
<1>1. ASSUME NEW given \in Text PROVE DropLeading(given) \in Text
  <2> DEFINE i == Earliest(Others(given, Ifs), Len(given) + 1)
  <2>1. Len(given) \in Nat /\ i \in 1 .. Len(given) + 1
    BY EarliestTyped, LenProperties DEF Text
  <2> HIDE DEF i
  <2>2. i \in Nat /\ i >= 1 /\ Len(given) \in Int /\ Len(given) <= Len(given)
    BY <2>1
  <2> QED BY <2>2, PartTyped DEF DropLeading, From, i
<1>2. ASSUME NEW given \in Text PROVE Reverse(given) \in Text
  <2>1. Len(given) \in Nat /\ \A i \in 1 .. Len(given) : given[i] \in Letter
    BY LenProperties, ElementOfSeq DEF Text
  <2>2. \A i \in 1 .. Len(given) : given[(Len(given) - i) + 1] \in Letter
    BY <2>1
  <2> QED BY <2>1, <2>2, SeqDef DEF Reverse, Text
<1> QED BY <1>1, <1>2 DEF Trim

LEMMA CommandTextTyped ==
  ASSUME NEW input \in Input
  PROVE  CommandText(input).text \in Text
<1>1. /\ input.proc.text \in Text /\ input.file.text \in Text
      /\ input.heredocs \in Seq(Text)
  BY DEF Input, Loaded
<1>2. input.heredocs # <<>> => Last(input.heredocs) \in Text
  <2>1. Len(input.heredocs) \in Nat
    BY <1>1, LenProperties
  <2>2. input.heredocs # <<>> => Len(input.heredocs) # 0
    BY <1>1, EmptySeq
  <2> QED BY <1>1, <2>1, <2>2, ElementOfSeq DEF Last
<1>3. <<>> \in Text
  BY EmptySeq DEF Text
<1> QED BY <1>1, <1>2, <1>3 DEF CommandText

(* The one name of a read keeps its trimmed line.                          *)
LEMMA FieldTyped ==
  ASSUME NEW line \in Text
  PROVE  ReadIfsFields(line, 1)[1] = Trim(line)
<1> DEFINE stop(text) == Earliest(Places(text, Ifs), Len(text) + 1)
           Iterates(h) == h = [nth \in 1 .. 1 |->
             IF nth = 1 THEN Trim(line)
             ELSE DropLeading(From(h[nth - 1], stop(h[nth - 1])))]
           rest == CHOOSE h : Iterates(h)
<1>1. Iterates([nth \in 1 .. 1 |-> Trim(line)])
  OBVIOUS
<1>2. Iterates(rest)
  BY <1>1
<1>3. ReadIfsFields(line, 1) =
        [nth \in 1 .. 1 |-> IF nth = 1 THEN rest[nth]
                            ELSE Before(rest[nth], stop(rest[nth]))]
  BY DEF ReadIfsFields
<1> HIDE DEF rest
<1> QED BY <1>2, <1>3

LEMMA ReadIs ==
  ASSUME NEW known, NEW name, NEW text
  PROVE  BindRead(known, <<name>>, text)
           = SetVisible(known, name, ReadIfsFields(Line(text), 1)[1])
<1> DEFINE fields == ReadIfsFields(Line(text), Len(<<name>>))
           set == SetVisible(known, name, fields[1])
           Iterates(h) == h = [i \in 0 .. Len(<<name>>) |->
             IF i = 0 THEN known ELSE SetVisible(h[i - 1], <<name>>[i], fields[i])]
           step == CHOOSE h : Iterates(h)
<1>1. Len(<<name>>) = 1 /\ <<name>>[1] = name
  OBVIOUS
<1>2. fields = ReadIfsFields(Line(text), 1)
  BY <1>1
<1> HIDE DEF fields
<1>3. Iterates([i \in 0 .. 1 |-> IF i = 0 THEN known ELSE set])
  BY <1>1
<1>4. Iterates(step)
  BY <1>3
<1>5. BindRead(known, <<name>>, text) = step[1]
  BY <1>1 DEF BindRead, fields
<1> HIDE DEF step
<1>6. step[1] = SetVisible(step[0], name, fields[1]) /\ step[0] = known
  BY <1>1, <1>4
<1> QED BY <1>2, <1>5, <1>6

LEMMA ReadSound ==
  ASSUME NEW known, Sound(known), NEW name \in Name, NEW text \in Text
  PROVE  /\ Sound(BindRead(known, <<name>>, text))
         /\ Len(BindRead(known, <<name>>, text).locals) = Len(known.locals)
BY ReadIs, LineTyped, TrimTyped, FieldTyped, SetVisibleSound

LEMMA RecordsTyped ==
  ASSUME NEW text \in Text, NEW end
  PROVE  Records(text, end) \in Seq(Text)
<1> DEFINE n == Len(text)
           ends == Places(text, {end})
                     \cup (IF text = <<>> THEN {} ELSE {Len(text)})
           spots == [i \in DOMAIN text |-> i]
           order == InOrder(ends, text)
           Record(k) == SubSeq(text, IF k = 1 THEN 1 ELSE order[k - 1] + 1,
                               order[k])
<1>1. n \in Nat /\ DOMAIN text = 1 .. n /\ spots \in Seq(1 .. n)
  BY LenProperties DEF Text
<1>2. order \in Seq(1 .. n)
  <2>1. \A i \in DOMAIN spots : spots[i] \in 1 .. n
    BY <1>1
  <2> HIDE DEF spots, n, ends
  <2>2. Selected(spots, ends) \in Seq(1 .. n)
    BY <1>1, <2>1, SelectedTyped
  <2> QED BY <2>2 DEF InOrder, spots
<1>3. Records(text, end) = [k \in DOMAIN order |-> Record(k)]
  BY DEF Records
<1> HIDE DEF order
<1>4. /\ Len(order) \in Nat /\ DOMAIN order = 1 .. Len(order)
      /\ \A k \in 1 .. Len(order) : order[k] \in 1 .. n
  BY <1>2, LenProperties, ElementOfSeq
<1>5. ASSUME NEW k \in 1 .. Len(order) PROVE Record(k) \in Text
  <2> DEFINE first == IF k = 1 THEN 1 ELSE order[k - 1] + 1
  <2>1. first \in Nat /\ first >= 1
    <3>1. k # 1 => k - 1 \in 1 .. Len(order)
      BY <1>4
    <3> QED BY <1>1, <1>4, <3>1
  <2>2. order[k] \in Int /\ order[k] <= Len(text)
    BY <1>1, <1>4
  <2> HIDE DEF first
  <2>3. SubSeq(text, first, order[k]) \in Text
    BY <2>1, <2>2, PartTyped
  <2> QED BY <2>3 DEF first
<1> HIDE DEF Record
<1> QED BY <1>3, <1>4, <1>5, SeqDef

LEMMA MapfileRecordsTyped ==
  ASSUME NEW text \in Text, NEW delim, NEW strip
  PROVE  MapfileRecords(text, delim, strip) \in Seq(Text)
<1> DEFINE records == Records(text, delim)
           Kept(k) == IF strip THEN Chomp(records[k], delim) ELSE records[k]
<1>1. records \in Seq(Text)
  BY RecordsTyped
<1>2. MapfileRecords(text, delim, strip) = [k \in DOMAIN records |-> Kept(k)]
  BY DEF MapfileRecords
<1> HIDE DEF records
<1>3. /\ Len(records) \in Nat /\ DOMAIN records = 1 .. Len(records)
      /\ \A k \in 1 .. Len(records) : records[k] \in Text
  BY <1>1, LenProperties, ElementOfSeq
<1>4. \A record \in Text : Chomp(record, delim) \in Text
  BY FrontTyped DEF Chomp, Front, Text
<1>5. \A k \in 1 .. Len(records) : Kept(k) \in Text
  BY <1>3, <1>4
<1> HIDE DEF Kept
<1> QED BY <1>2, <1>3, <1>5, SeqDef

LEMMA MapfileSound ==
  ASSUME NEW known, Sound(known), NEW name \in Name,
         NEW opts \in MapfileOption, NEW text \in Text
  PROVE  /\ Sound(BindMapfile(known, name, opts, text).scope)
         /\ Len(BindMapfile(known, name, opts, text).scope.locals)
              = Len(known.locals)
<1> DEFINE raw == MapfileRecords(text, opts.delim, opts.strip)
           limit == IF opts.limit = 0 THEN Len(raw) ELSE opts.limit
           lines == Least(Len(raw), opts.skip + limit)
           kept == SubSeq(raw, opts.skip + 1, lines)
           origin == [i \in 1 .. opts.origin |-> <<>>]
           set == SetArray(known, name, origin \o kept)
<1>1. raw \in Seq(Text) /\ opts.skip \in Nat /\ opts.origin \in Nat
      /\ opts.limit \in Nat
  BY MapfileRecordsTyped DEF MapfileOption
<1>2. BindMapfile(known, name, opts, text).scope =
        IF opts.origin > MapfileOriginCap THEN known ELSE set
  BY DEF BindMapfile
<1> HIDE DEF raw
<1>3. Len(raw) \in Nat /\ \A i \in 1 .. Len(raw) : raw[i] \in Text
  BY <1>1, LenProperties, ElementOfSeq
<1>4. lines \in Nat /\ lines <= Len(raw)
  BY <1>1, <1>3 DEF Least
<1> HIDE DEF lines
<1>5. kept \in Seq(Text)
  <2>1. opts.skip + 1 \in Int /\ lines \in Int
        /\ \A i \in opts.skip + 1 .. lines : raw[i] \in Text
    BY <1>1, <1>3, <1>4
  <2> QED BY <2>1, SubSeqProperties
<1>6. origin \in Seq(Text)
  <2>1. <<>> \in Text
    BY EmptySeq DEF Text
  <2>2. opts.origin \in Nat /\ \A i \in 1 .. opts.origin : <<>> \in Text
    BY <1>1, <2>1
  <2>3. [i \in 1 .. opts.origin |-> <<>>] \in [1 .. opts.origin -> Text]
    BY <2>1
  <2> QED BY <2>2, <2>3, SeqDef
<1> HIDE DEF kept, origin
<1>7. origin \o kept \in Seq(Text)
  BY <1>5, <1>6, ConcatProperties
<1>8. Sound(set) /\ Len(set.locals) = Len(known.locals)
  BY <1>7, SetArraySound
<1> QED BY <1>2, <1>8

LEMMA VisibleArrayTyped ==
  ASSUME NEW known \in Scope, NEW name
  PROVE  VisibleArray(known, name) \in Seq(Text) \cup {Unset}
<1> DEFINE d == VisibleDepth(known, name)
           array == CHOOSE array \in known.arrays :
                      array.depth = d /\ array.name = name
<1>1. HasArray(known, name, d) => array \in known.arrays
  BY DEF HasArray
<1>2. \A given \in known.arrays : given.values \in Seq(Text)
  BY DEF Scope
<1>3. VisibleArray(known, name) =
        IF HasArray(known, name, d) THEN array.values ELSE Unset
  BY DEF VisibleArray
<1> HIDE DEF d, array
<1> QED BY <1>1, <1>2, <1>3

-----------------------------------------------------------------------------
(* Bash's variables.                                                       *)

HeldTexts == Seq(Text) \cup {Unset}
(* As many frames as the scope has.                                        *)
Beside(its) == its \in Real /\ Len(its.locals) = Len(scope.locals)

LEMMA RealDepthTyped ==
  ASSUME Beside(real), NEW name
  PROVE  /\ RealDepth(name) \in 0 .. Len(real.locals)
         /\ RealDepth(name) # 0
              => real.locals[RealDepth(name)][name] # Unset
         /\ \A d \in 1 .. Len(real.locals) :
              d > RealDepth(name) => real.locals[d][name] = Unset
<1> DEFINE known == {d \in 1 .. Len(real.locals) : real.locals[d][name] # Unset}
<1>1. Len(real.locals) \in Nat /\ known \in SUBSET (1 .. Len(real.locals))
  BY LenProperties DEF Beside, Real
<1>2. CASE known = {}
  BY <1>1, <1>2 DEF RealDepth
<1>3. CASE known # {}
  <2>1. /\ Max(known) \in known
        /\ known \ {Max(known)} \in SUBSET (1 .. (Max(known) - 1))
    <3> HIDE DEF known
    <3> QED BY <1>1, <1>3, GreatestThere
  <2>2. PICK top \in known : known \ {top} \in SUBSET (1 .. (top - 1))
    BY <2>1
  <2>3. \A other \in known : other <= top
    BY <1>1, <2>2
  <2>4. /\ RealDepth(name) \in known
        /\ \A other \in known : other <= RealDepth(name)
    BY <1>3, <2>2, <2>3 DEF RealDepth
  <2> QED BY <1>1, <2>4
<1> QED BY <1>2, <1>3

LEMMA RealAtTyped ==
  ASSUME Beside(real), NEW d \in 0 .. Len(real.locals)
  PROVE  RealAt(d) \in RealEnv
BY ElementOfSeq DEF RealAt, Beside, Real

LEMMA RealStoreTyped ==
  ASSUME Beside(real), NEW d \in 0 .. Len(real.locals), NEW name \in Name,
         NEW held \in HeldTexts
  PROVE  Beside(RealStore(d, name, held))
<1>1. real \in Real /\ real.locals \in Seq(RealEnv) /\ real.global \in RealEnv
  BY DEF Beside, Real
<1>2. \A env \in RealEnv : [env EXCEPT ![name] = held] \in RealEnv
  BY DEF RealEnv, HeldTexts
<1>3. CASE d = 0
  <2> DEFINE env == [real.global EXCEPT ![name] = held]
  <2>1. RealStore(d, name, held) = [real EXCEPT !.global = env]
    BY <1>3 DEF RealStore
  <2>2. env \in RealEnv
    BY <1>1, <1>2
  <2> HIDE DEF env
  <2> QED BY <1>1, <2>1, <2>2 DEF Beside, Real
<1>4. CASE d # 0
  <2> DEFINE env == [real.locals[d] EXCEPT ![name] = held]
             locals == [real.locals EXCEPT ![d] = env]
  <2>1. RealStore(d, name, held) = [real EXCEPT !.locals = locals]
    BY <1>1, <1>4 DEF RealStore, Real
  <2>2. d \in 1 .. Len(real.locals) /\ real.locals[d] \in RealEnv
    BY <1>1, <1>4, ElementOfSeq
  <2>3. env \in RealEnv
    BY <1>2, <2>2
  <2> HIDE DEF env
  <2>4. locals \in Seq(RealEnv) /\ Len(locals) = Len(real.locals)
    BY <1>1, <2>2, <2>3, ExceptSeq
  <2> HIDE DEF locals
  <2> QED BY <1>1, <2>1, <2>4 DEF Beside, Real
<1> QED BY <1>3, <1>4

LEMMA RealAssignTyped ==
  ASSUME Beside(real), NEW d \in 0 .. Len(real.locals), NEW token \in Token
  PROVE  Beside(RealAssign(d, token))
<1> DEFINE held == RealAt(d)[token.name]
           empty == held \in {Unset, <<>>}
           text == IF token.append /\ ~empty THEN held[1] \o token.value
                   ELSE token.value
           more == IF empty THEN <<>> ELSE Tail(held)
<1>1. token.name \in Name /\ token.value \in Text
  BY DEF Token
<1>2. held \in HeldTexts
  BY <1>1, RealAtTyped DEF RealEnv, HeldTexts
<1>3. RealAssign(d, token) = RealStore(d, token.name, <<text>> \o more)
  BY DEF RealAssign
<1> HIDE DEF held
<1>4. ~empty => /\ held \in Seq(Text) /\ held # <<>>
                /\ held[1] \in Text /\ Tail(held) \in Seq(Text)
  <2> SUFFICES ASSUME held \in Seq(Text), held # <<>>
               PROVE  held[1] \in Text /\ Tail(held) \in Seq(Text)
    BY <1>2 DEF HeldTexts
  <2>1. Len(held) \in Nat /\ Len(held) # 0
    BY LenProperties, EmptySeq
  <2> QED BY <2>1, ElementOfSeq, HeadTailProperties
<1>5. text \in Text
  BY <1>1, <1>4, ConcatProperties DEF Text
<1>6. more \in Seq(Text)
  BY <1>4, EmptySeq
<1> HIDE DEF text, more
<1>7. <<text>> \o more \in Seq(Text)
  BY <1>5, <1>6, ConcatProperties
<1> QED BY <1>1, <1>3, <1>7, RealStoreTyped DEF HeldTexts

LEMMA RealDeclareTyped ==
  ASSUME Beside(real), NEW base, NEW flags, NEW word \in Word
  PROVE  Beside(RealDeclare(base, flags, word))
<1> DEFINE d == IF base = "readonly" THEN RealDepth(word.name)
                ELSE IF "g" \in flags THEN 0 ELSE Len(real.locals)
<1>1. /\ word.name \in Name
      /\ "append" \in DOMAIN word => word \in Token
  BY DEF Word, Token
<1>2. Len(real.locals) \in Nat
  BY LenProperties DEF Beside, Real
<1>3. d \in 0 .. Len(real.locals)
  BY <1>2, RealDepthTyped
<1>4. \/ RealDeclare(base, flags, word) = real
      \/ /\ "append" \in DOMAIN word
         /\ RealDeclare(base, flags, word) = RealAssign(d, word)
      \/ RealDeclare(base, flags, word) = RealStore(d, word.name, <<>>)
  BY DEF RealDeclare
<1> HIDE DEF d
<1>5. <<>> \in HeldTexts
  BY EmptySeq DEF HeldTexts
<1> QED BY <1>1, <1>3, <1>4, <1>5, RealAssignTyped, RealStoreTyped

-----------------------------------------------------------------------------
(* The second invariant: the types of all that is kept, by the scan under  *)
(* way and by the suspended ones, and what NothingOutlivesItsFrame says,   *)
(* of each of their scopes.                                                *)

Suspended == {frame \in Frame : /\ WithinFrames(frame.scope)
                                /\ Len(frame.real.locals)
                                     = Len(frame.scope.locals)}
Whole ==
  /\ Sound(scope)
  /\ exported \in Env
  /\ functions \subseteq Fn
  /\ best \in Row \cup {NoRow}
  /\ stack \in Seq(Suspended) /\ Len(stack) <= MaxShellDepth
  /\ steps \in 0 .. MaxSegments
  /\ hits \subseteq Row
  /\ Beside(real)
  /\ strays \subseteq Forms

LEMMA EmptyRealTyped ==
  ASSUME NEW env \in Env
  PROVE  /\ RealFrom(env) \in Real /\ Len(RealFrom(env).locals) = 0
         /\ EmptyReal \in Real /\ Len(EmptyReal.locals) = 0
<1>1. <<>> \in Seq(RealEnv) /\ Len(<<>>) = 0
  BY EmptySeq
<1>2. [name \in Name |-> Unset] \in RealEnv
  BY DEF RealEnv
<1>3. [name \in Name |-> IF env[name] = Unset THEN Unset ELSE <<env[name]>>]
        \in RealEnv
  BY DEF RealEnv, Env
<1> QED BY <1>1, <1>2, <1>3 DEF RealFrom, EmptyReal, Real

LEMMA EmptySound == Sound(EmptyScope) /\ Len(EmptyScope.locals) = 0
<1>1. /\ <<>> \in Seq(Env) /\ <<>> \in Seq([depth : Nat, name : Name, value : Text])
      /\ Len(<<>>) = 0 /\ DOMAIN <<>> = {}
  BY EmptySeq
<1>2. EmptyEnv \in Env
  BY DEF EmptyEnv, Env
<1> QED BY <1>1, <1>2 DEF Sound, Scope, WithinFrames, EmptyScope

LEMMA InitWhole == Init => Whole
<1> SUFFICES ASSUME Init PROVE Whole
  OBVIOUS
<1>1. EmptyEnv \in Env /\ <<>> \in Seq(Suspended) /\ Len(<<>>) = 0
  BY EmptySeq DEF EmptyEnv, Env
<1>2. Beside(real)
  BY <1>1, EmptyRealTyped, EmptySound DEF Init, Beside
<1> QED BY <1>1, <1>2, EmptySound, DepthAssumption, SegmentsAssumption
        DEF Init, Whole

(* What a match, or none, leaves of the row and of those that were matched.*)
Chosen == best' \in Row \cup {NoRow} /\ hits' \subseteq Row

LEMMA MatchChosen ==
  ASSUME Whole, NEW row \in Row \cup {NoRow}, Match(row) \/ NoMatch
  PROVE  Chosen
BY DEF Whole, Match, NoMatch, Prefer, Chosen

(* What a segment may add to the forms that were used.                     *)
Passes == \E forms \in SUBSET Forms : Segment(forms)

LEMMA FormIs ==
  ASSUME NEW name, NEW used
  PROVE  Form(name, used) \subseteq {name} /\ (Form(name, used) = {} => ~used)
BY DEF Form

LEMMA FormsKnown ==
  /\ {} \in SUBSET Forms
  /\ \A token, taken : AssignForms(token, taken) \in SUBSET Forms
  /\ \A unexport, word : ExportForms(unexport, word) \in SUBSET Forms
  /\ \A base, flags, words : DeclareForms(base, flags, words) \in SUBSET Forms
  /\ \A prefix : GrowsPrefix(prefix) \in SUBSET Forms
  /\ \A name \in Forms : \A used : Form(name, used) \in SUBSET Forms
<1>1. \A name \in Forms : \A used : Form(name, used) \in SUBSET Forms
  BY FormIs
<1>2. {"skip", "reassign", "inherited", "dropped", "array", "leak", "append",
       "several", "readonly"} \subseteq Forms
  BY DEF Forms
<1>3. \A token, taken : AssignForms(token, taken) \in SUBSET Forms
  BY <1>1, <1>2 DEF AssignForms
<1>4. \A unexport, word : ExportForms(unexport, word) \in SUBSET Forms
  BY <1>1, <1>2 DEF ExportForms
<1>5. \A base, flags, words : DeclareForms(base, flags, words) \in SUBSET Forms
  BY <1>1, <1>2 DEF DeclareForms
<1>6. \A prefix : GrowsPrefix(prefix) \in SUBSET Forms
  BY <1>1, <1>2 DEF GrowsPrefix
<1> QED BY <1>1, <1>3, <1>4, <1>5, <1>6

LEMMA PassesKeep ==
  ASSUME Whole, Passes
  PROVE  steps' \in 0 .. MaxSegments /\ strays' \subseteq Forms
BY SegmentsAssumption DEF Passes, Segment, Whole

(* A command that has used no form so far used none before.                *)
LEMMA NoForms ==
  ASSUME NEW forms, Segment(forms), strays' = {}
  PROVE  strays = {} /\ forms = {}
BY DEF Segment

(* A segment that stays in its scan.                                       *)
LEMMA LeaveKeeps ==
  ASSUME Whole, Passes, Chosen, NEW isolated, NEW its, NEW env, NEW known,
         Leave(isolated, known, env, its),
         Sound(known), env \in Env, its \in Real,
         Len(its.locals) = Len(known.locals)
  PROVE  Whole'
<1>1. /\ steps' \in 0 .. MaxSegments /\ strays' \subseteq Forms
      /\ UNCHANGED <<functions, stack>>
  BY PassesKeep DEF Leave
<1>2. /\ Sound(scope') /\ exported' \in Env
      /\ real' \in Real /\ Len(real'.locals) = Len(scope'.locals)
  BY DEF Leave, Whole, Beside
<1> QED BY <1>1, <1>2 DEF Whole, Beside, Chosen

(* A segment that leaves everything else as it is.                         *)
LEMMA StayKeeps ==
  ASSUME Whole, Passes, Chosen, functions' \subseteq Fn,
         UNCHANGED <<scope, exported, stack, real>>
  PROVE  Whole'
<1>1. steps' \in 0 .. MaxSegments /\ strays' \subseteq Forms
  BY PassesKeep
<1> QED BY <1>1 DEF Whole, Beside, Chosen

LEMMA ScanKeeps ==
  ASSUME Whole, Passes,
         NEW kind \in {"call", "here", "child", "subst"},
         NEW isolated \in BOOLEAN, NEW row \in Row \cup {NoRow},
         NEW known, NEW env \in Env, NEW its \in Real, NEW fns,
         fns \subseteq Fn,
         Sound(known), Len(its.locals) = Len(known.locals),
         Scan(kind, isolated, row, known, env, fns, its)
  PROVE  Whole'
<1> DEFINE frame == [kind |-> kind, isolated |-> isolated,
                     exported |-> exported, scope |-> scope,
                     functions |-> functions, best |-> Prefer(best, row),
                     base |-> env, real |-> real]
<1>1. steps' \in 0 .. MaxSegments /\ strays' \subseteq Forms
  BY PassesKeep
<1>2. Prefer(best, row) \in Row \cup {NoRow}
  BY DEF Whole, Prefer
<1>3. frame \in Suspended
  <2>1. frame \in Frame
    BY <1>2 DEF Whole, Frame, Sound, Beside
  <2> QED BY <2>1 DEF Whole, Suspended, Sound, Beside
<1>4. /\ Len(stack) < MaxShellDepth /\ stack' = Append(stack, frame)
      /\ scope' = known /\ exported' = env /\ functions' = fns
      /\ real' = its /\ best' = NoRow /\ hits' = hits \cup ({row} \ {NoRow})
  BY DEF Scan
<1> HIDE DEF frame
<1>5. /\ stack' \in Seq(Suspended) /\ Len(stack') = Len(stack) + 1
      /\ Len(stack) \in Nat
  BY <1>3, <1>4, AppendProperties, LenProperties DEF Whole
<1>6. Len(stack') <= MaxShellDepth
  BY <1>4, <1>5, DepthAssumption
<1>7. hits' \subseteq Row
  BY <1>4 DEF Whole
<1>8. Beside(real)'
  BY <1>4 DEF Beside
<1> QED BY <1>1, <1>4, <1>5, <1>6, <1>7, <1>8 DEF Whole

LEMMA ReturnKeeps ==
  ASSUME Whole, Returns
  PROVE  Whole'
<1> DEFINE n == Len(stack)
           frame == stack[n]
           public == PublishEnvChanges(frame.exported, frame.base, exported)
           popped == IF frame.kind = "call" THEN PopScope(scope) ELSE scope
           restored == IF frame.kind = "call" THEN PopExports(scope, public)
                       ELSE public
           locals == SubSeq(real.locals, 1, Len(real.locals) - 1)
           gone == [real EXCEPT !.locals = locals]
<1>1. /\ stack # <<>> /\ stack' = SubSeq(stack, 1, n - 1)
      /\ best' = Prefer(frame.best, best)
      /\ scope' = IF frame.isolated THEN frame.scope ELSE popped
      /\ exported' = IF frame.isolated THEN frame.exported ELSE restored
      /\ real' = CASE frame.isolated -> frame.real
                   [] ~frame.isolated /\ frame.kind = "call" -> gone
                   [] OTHER -> real
      /\ functions' = IF frame.kind \in {"child", "subst"}
                      THEN frame.functions ELSE functions
      /\ steps' = steps /\ hits' = hits /\ strays' = strays
  BY DEF Returns, Front, Last
<1>2. /\ frame \in Suspended /\ n \in Nat /\ n # 0
  <2>1. stack \in Seq(Suspended)
    BY DEF Whole
  <2>2. n \in Nat /\ n # 0
    BY <1>1, <2>1, LenProperties, EmptySeq
  <2>3. n \in 1 .. Len(stack)
    BY <2>2
  <2> HIDE DEF n
  <2> QED BY <2>1, <2>2, <2>3, ElementOfSeq
<1>3. /\ stack' \in Seq(Suspended) /\ Len(stack') <= MaxShellDepth
  <2>1. /\ SubSeq(stack, 1, n - 1) \in Seq(Suspended)
        /\ Len(SubSeq(stack, 1, n - 1)) = IF stack = <<>> THEN 0 ELSE n - 1
    BY FrontTyped DEF Whole
  <2>2. n <= MaxShellDepth
    BY DEF Whole
  <2> HIDE DEF n
  <2> QED BY <1>1, <1>2, <2>1, <2>2, DepthAssumption
<1> HIDE DEF n, frame
<1>4. /\ frame.exported \in Env /\ frame.base \in Env
      /\ Sound(frame.scope) /\ frame.functions \subseteq Fn
      /\ frame.best \in Row \cup {NoRow}
      /\ frame.real \in Real
      /\ Len(frame.real.locals) = Len(frame.scope.locals)
  BY <1>2 DEF Suspended, Frame, Sound
<1>5. public \in Env
  BY <1>4, PublishedTyped DEF Whole
<1> HIDE DEF public
<1>6. restored \in Env
  BY <1>5, PopExportsTyped DEF Whole, Sound
<1>7. /\ gone \in Real
      /\ Len(gone.locals) = IF real.locals = <<>> THEN 0
                            ELSE Len(real.locals) - 1
  <2>1. real \in Real /\ real.locals \in Seq(RealEnv)
    BY DEF Whole, Beside, Real
  <2>2. /\ locals \in Seq(RealEnv)
        /\ Len(locals) = IF real.locals = <<>> THEN 0
                         ELSE Len(real.locals) - 1
    BY <2>1, FrontTyped
  <2> HIDE DEF locals
  <2> QED BY <2>1, <2>2 DEF Real
<1> HIDE DEF gone
<1>8. /\ Sound(PopScope(scope))
      /\ Len(PopScope(scope).locals) = Len(gone.locals)
  <2>1. real.locals = <<>> <=> scope.locals = <<>>
    <3>1. real.locals \in Seq(RealEnv) /\ scope.locals \in Seq(Env)
      BY DEF Whole, Beside, Real, Sound, Scope
    <3>2. Len(real.locals) = Len(scope.locals)
      BY DEF Whole, Beside
    <3> QED BY <3>1, <3>2, EmptySeq, LenProperties
  <2> QED BY <1>7, <2>1, PopSound DEF Whole, Beside
<1>9. /\ Sound(scope') /\ exported' \in Env /\ real' \in Real
      /\ Len(real'.locals) = Len(scope'.locals)
  BY <1>1, <1>4, <1>6, <1>7, <1>8 DEF Whole, Beside
<1>10. best' \in Row \cup {NoRow} /\ functions' \subseteq Fn
  BY <1>1, <1>4 DEF Whole, Prefer
<1> QED BY <1>1, <1>3, <1>9, <1>10 DEF Whole, Beside

-----------------------------------------------------------------------------
(* The actions.                                                            *)

LEMMA PrefixOf ==
  ASSUME NEW prefix \in PrefixWords, Whole
  PROVE  /\ WithPrefix(exported, prefix) \in Env
         /\ \A i \in DOMAIN prefix : prefix[i] \in Token
<1>1. prefix \in Seq(Token)
  BY PrefixAssumption
<1> QED BY <1>1, WithPrefixTyped, LenProperties, ElementOfSeq DEF Whole

LEMMA SimpleKeep ==
  ASSUME Whole,
         \/ \E row \in Row : Matches(row)
         \/ \E fn \in Fn : Defines(fn)
         \/ \E blank \in BOOLEAN : TooDeep(blank)
         \/ \E name \in Name, single \in BOOLEAN, prefix \in PrefixWords :
              Evaluates(name, single, prefix)
  PROVE  Whole'
<1>1. Deep \in Row \cup {NoRow}
  BY DeepAssumption
<1>2. ASSUME NEW row \in Row, Matches(row) PROVE Whole'
  BY <1>2, FormsKnown, MatchChosen, StayKeeps DEF Matches, Whole, Passes
<1>3. ASSUME NEW fn \in Fn, Defines(fn) PROVE Whole'
  BY <1>1, <1>3, FormsKnown, MatchChosen, StayKeeps DEF Defines, Whole, Passes
<1>4. ASSUME NEW blank \in BOOLEAN, TooDeep(blank) PROVE Whole'
  BY <1>1, <1>4, FormsKnown, MatchChosen, StayKeeps DEF TooDeep, Whole, Passes
<1>5. ASSUME NEW name, NEW single, NEW prefix, Evaluates(name, single, prefix)
      PROVE  Whole'
  <2>1. /\ Passes /\ NoMatch
        /\ UNCHANGED <<scope, exported, functions, stack, real>>
    BY <1>5, FormsKnown DEF Evaluates, Passes, Forms
  <2> QED BY <1>1, <2>1, MatchChosen, StayKeeps DEF Whole
<1> QED BY <1>2, <1>3, <1>4, <1>5

LEMMA DirectoryKeeps ==
  ASSUME Whole, NEW token \in Tokens, NEW isolated,
         ChangesDirectory(token.value, isolated)
  PROVE  Whole'
<1> DEFINE known == [scope EXCEPT !.dir = token.value]
<1>1. /\ Passes /\ NoMatch /\ Leave(isolated, known, exported, real)
  BY FormsKnown DEF ChangesDirectory, Passes
<1>2. /\ token.value \in Text /\ Sound(scope) /\ Beside(real)
      /\ exported \in Env
  BY TokensAssumption DEF Token, Whole
<1>3. known \in Scope /\ known.locals = scope.locals /\ known.alts = scope.alts
      /\ known.saved = scope.saved /\ known.arrays = scope.arrays
  BY <1>2 DEF Sound, Scope
<1> HIDE DEF known
<1>4. Sound(known) /\ Len(real.locals) = Len(known.locals) /\ real \in Real
  BY <1>2, <1>3 DEF Sound, WithinFrames, Beside
<1>5. Chosen
  BY <1>1, MatchChosen, DeepAssumption
<1> QED BY <1>1, <1>2, <1>4, <1>5, LeaveKeeps

LEMMA AssignsKeep ==
  ASSUME Whole, NEW token \in Tokens, NEW conditional \in BOOLEAN, NEW isolated,
         Assigns(token, conditional, isolated)
  PROVE  Whole'
<1> DEFINE known == AssignToken(scope, token, conditional)
           assigned == RealAssign(RealDepth(token.name), token)
<1>1. PICK taken \in BOOLEAN :
        Leave(isolated, known, exported, IF taken THEN assigned ELSE real)
  BY DEF Assigns
<1>2. /\ Passes /\ NoMatch /\ token \in Token
      /\ Sound(scope) /\ Beside(real) /\ exported \in Env
  BY FormsKnown, TokensAssumption DEF Assigns, Passes, Whole
<1>3. Sound(known) /\ Len(known.locals) = Len(scope.locals)
  BY <1>2, AssignTokenSound
<1>4. Beside(assigned)
  BY <1>2, RealDepthTyped, RealAssignTyped
<1> HIDE DEF known, assigned
<1> DEFINE its == IF taken THEN assigned ELSE real
<1>5. its \in Real /\ Len(its.locals) = Len(known.locals)
  BY <1>2, <1>3, <1>4 DEF Beside
<1>6. Chosen
  BY <1>2, MatchChosen, DeepAssumption
<1> HIDE DEF its
<1>7. Leave(isolated, known, exported, its)
  BY <1>1 DEF its
<1> QED BY <1>2, <1>3, <1>5, <1>6, <1>7, LeaveKeeps

LEMMA ExportsKeep ==
  ASSUME Whole, NEW unexport \in BOOLEAN, NEW word \in Word,
         NEW prefix \in PrefixWords, NEW isolated,
         Exports(unexport, word, prefix, isolated)
  PROVE  Whole'
<1> DEFINE local == WithPrefix(exported, prefix)
           new == ApplyExports(exported, scope, unexport, <<word>>, local)
           plain == [name |-> word.name, value |-> local[word.name],
                     append |-> FALSE]
           told == CASE "append" \in DOMAIN word -> word [] OTHER -> plain
           its == IF /\ ~unexport
                     /\ "append" \in DOMAIN word \/ Prefixed(word.name, prefix)
                  THEN RealAssign(RealDepth(word.name), told) ELSE real
<1>1. /\ Passes /\ NoMatch
      /\ Leave(isolated, new.scope, new.exported, its)
  <2>1. /\ Segment(ExportForms(unexport, word) \cup GrowsPrefix(prefix))
        /\ NoMatch /\ Leave(isolated, new.scope, new.exported, its)
    BY DEF Exports
  <2> HIDE DEF new, its
  <2> QED BY <2>1, FormsKnown DEF Passes
<1>2. /\ Sound(scope) /\ Beside(real) /\ exported \in Env
      /\ local \in Env /\ <<word>> \in Seq(Word)
  BY PrefixOf DEF Whole
<1>3. "append" \in DOMAIN word \/ Prefixed(word.name, prefix)
        => told \in Token /\ word.name \in Name
  <2>1. word.name \in Name /\ ("append" \in DOMAIN word => word \in Token)
    BY DEF Word, Token
  <2>2. prefix \in Seq(Token)
    BY PrefixAssumption
  <2>3. Prefixed(word.name, prefix) => plain \in Token
    BY <1>2, <2>1, <2>2, PrefixGives DEF Token
  <2> HIDE DEF plain
  <2> QED BY <2>1, <2>3
<1> HIDE DEF told, local
<1>4. Beside(its)
  BY <1>2, <1>3, RealDepthTyped, RealAssignTyped
<1> HIDE DEF its
<1>5. new \in Views(Len(scope.locals))
  BY <1>2, ExportsSound
<1> HIDE DEF new
<1>6. /\ Sound(new.scope) /\ new.exported \in Env
      /\ Len(new.scope.locals) = Len(scope.locals)
  BY <1>5, ViewIs
<1>7. Chosen
  BY <1>1, MatchChosen, DeepAssumption
<1> QED BY <1>1, <1>4, <1>6, <1>7, LeaveKeeps DEF Beside

LEMMA DeclaresKeep ==
  ASSUME Whole, NEW decl \in Declarations, NEW isolated,
         DeclaresNames(decl, isolated)
  PROVE  Whole'
<1> DEFINE new == BindDeclaration(scope, exported, decl.base, decl.flags,
                                  decl.words)
           its == RealDeclare(decl.base, decl.flags, Head(decl.words))
<1>1. /\ Passes /\ NoMatch
      /\ Leave(isolated, new.scope, new.exported, its)
  BY FormsKnown DEF DeclaresNames, Passes
<1>2. /\ Sound(scope) /\ Beside(real) /\ exported \in Env
      /\ decl.words \in Seq(Word) /\ Head(decl.words) \in Word
  <2>1. decl.words \in Seq(Word) /\ decl.words # <<>>
    BY DeclarationsAssumption
  <2> QED BY <2>1, HeadTailProperties DEF Whole
<1>3. new \in Views(Len(scope.locals))
  BY <1>2, DeclarationSound
<1> HIDE DEF new
<1>4. /\ Sound(new.scope) /\ new.exported \in Env
      /\ Len(new.scope.locals) = Len(scope.locals)
  BY <1>3, ViewIs
<1>5. Beside(its)
  BY <1>2, RealDeclareTyped
<1> HIDE DEF its
<1>6. Chosen
  BY <1>1, MatchChosen, DeepAssumption
<1> QED BY <1>1, <1>4, <1>5, <1>6, LeaveKeeps DEF Beside

LEMMA PrintsKeep ==
  ASSUME Whole, NEW token \in Tokens, NEW isolated, PrintsTo(token, isolated)
  PROVE  Whole'
<1> DEFINE known == SetVisible(scope, token.name, token.value)
           its == RealAssign(RealDepth(token.name), token)
<1>1. /\ Passes /\ NoMatch /\ Leave(isolated, known, exported, its)
  BY FormsKnown DEF PrintsTo, Passes, Forms
<1>2. /\ Sound(scope) /\ Beside(real) /\ exported \in Env /\ token \in Token
      /\ token.name \in Name /\ token.value \in Text
  BY TokensAssumption DEF Whole, Token
<1>3. Sound(known) /\ Len(known.locals) = Len(scope.locals)
  BY <1>2, SetVisibleSound
<1>4. Beside(its)
  BY <1>2, RealDepthTyped, RealAssignTyped
<1> HIDE DEF known, its
<1>5. Chosen
  BY <1>1, MatchChosen, DeepAssumption
<1> QED BY <1>1, <1>2, <1>3, <1>4, <1>5, LeaveKeeps DEF Beside

LEMMA ReadsKeep ==
  ASSUME Whole, NEW name \in Name, NEW input \in Inputs, NEW isolated,
         Reads(name, input, isolated)
  PROVE  Whole'
<1> DEFINE given == CommandText(input)
           line == ReadIfsFields(Line(given.text), 1)[1]
           token == [name |-> name, value |-> line, append |-> FALSE]
           known == BindRead(scope, <<name>>, given.text)
           its == RealAssign(RealDepth(name), token)
<1>1. /\ Passes
      /\ Match(Deep) \/ NoMatch
      /\ \/ Leave(isolated, scope, exported, real)
         \/ Leave(isolated, known, exported, its)
  BY FormsKnown DEF Reads, Passes, Forms
<1>2. /\ Sound(scope) /\ Beside(real) /\ exported \in Env
      /\ given.text \in Text
  BY InputsAssumption, CommandTextTyped DEF Whole
<1>3. line \in Text
  BY <1>2, LineTyped, TrimTyped, FieldTyped
<1>4. Sound(known) /\ Len(known.locals) = Len(scope.locals)
  BY <1>2, ReadSound
<1> HIDE DEF line, known
<1>5. token \in Token
  BY <1>3 DEF Token
<1>6. Beside(its)
  BY <1>2, <1>5, RealDepthTyped, RealAssignTyped
<1> HIDE DEF its
<1>7. Chosen
  BY <1>1, MatchChosen, DeepAssumption
<1> QED BY <1>1, <1>2, <1>4, <1>6, <1>7, LeaveKeeps DEF Beside

LEMMA MapfilesKeep ==
  ASSUME Whole, NEW name \in Name, NEW opts \in MapfileOptions,
         NEW input \in Inputs, NEW isolated \in BOOLEAN,
         Mapfiles(name, opts, input, isolated)
  PROVE  Whole'
<1> DEFINE given == CommandText(input)
           bound == BindMapfile(scope, name, opts, given.text)
           large == given.kind = "unscanned" \/ bound.unscanned
           set == IF given.kind = "text" THEN bound.scope ELSE scope
           held == IF given.kind = "text" /\ ~large
                   THEN RealStore(RealDepth(name), name,
                                  VisibleArray(bound.scope, name))
                   ELSE real
           deep == large /\ given.kind # "absent"
           row == IF deep THEN Deep ELSE NoRow
<1>1. /\ Passes
      /\ \/ Scan("here", isolated, row, set, exported, functions, held)
         \/ /\ Match(Deep) \/ NoMatch
            /\ Leave(isolated, set, exported, held)
  <2>1. /\ Segment(Form("reassign", Frozen(name))
                     \cup Form("array", LocalFrame(scope, name) # 0))
        /\ \/ Scan("here", isolated, row, set, exported, functions, held)
           \/ /\ Match(Deep) \/ NoMatch
              /\ Leave(isolated, set, exported, held)
    BY DEF Mapfiles
  <2>2. {"reassign", "array"} \subseteq Forms
    BY DEF Forms
  <2> HIDE DEF set, held, row
  <2> QED BY <2>1, <2>2, FormsKnown DEF Passes
<1>2. /\ Sound(scope) /\ Beside(real) /\ exported \in Env
      /\ functions \subseteq Fn
      /\ given.text \in Text /\ opts \in MapfileOption
  BY InputsAssumption, OptionsAssumption, CommandTextTyped DEF Whole
<1>3. Sound(bound.scope) /\ Len(bound.scope.locals) = Len(scope.locals)
  BY <1>2, MapfileSound
<1> HIDE DEF given, bound
<1>4. Sound(set) /\ Len(set.locals) = Len(scope.locals)
  BY <1>2, <1>3
<1>5. Beside(held)
  BY <1>2, <1>3, RealDepthTyped, VisibleArrayTyped, RealStoreTyped
     DEF Sound, HeldTexts
<1>6. row \in Row \cup {NoRow} /\ Deep \in Row \cup {NoRow}
  BY DeepAssumption
<1> HIDE DEF set, held, row
<1>7. held \in Real /\ Len(held.locals) = Len(set.locals)
  BY <1>4, <1>5 DEF Beside
<1>8. CASE Scan("here", isolated, row, set, exported, functions, held)
  BY <1>1, <1>2, <1>4, <1>6, <1>7, <1>8, ScanKeeps
<1>9. CASE /\ Match(Deep) \/ NoMatch
           /\ Leave(isolated, set, exported, held)
  BY <1>1, <1>2, <1>4, <1>6, <1>7, <1>9, MatchChosen, LeaveKeeps
<1> QED BY <1>1, <1>8, <1>9

LEMMA ScriptsKeep ==
  ASSUME Whole, NEW prefix \in PrefixWords, NEW isolated \in BOOLEAN,
         \/ \E fn \in Fn : Calls(fn, prefix, isolated)
         \/ RunsHere(prefix, isolated)
         \/ RunsChild(prefix)
  PROVE  Whole'
<1> DEFINE local == WithPrefix(exported, prefix)
           frame == [name \in Name |-> Unset]
           locals == Append(real.locals, frame)
           pushed == [real EXCEPT !.locals = locals]
<1>1. /\ local \in Env /\ exported \in Env /\ Sound(scope) /\ Beside(real)
      /\ functions \subseteq Fn /\ {} \subseteq Fn
      /\ NoRow \in Row \cup {NoRow}
      /\ real \in Real /\ Len(real.locals) = Len(scope.locals)
  BY PrefixOf DEF Whole, Beside
<1>2. pushed \in Real /\ Len(pushed.locals) = Len(scope.locals) + 1
  <2>1. real.locals \in Seq(RealEnv) /\ frame \in RealEnv
    BY <1>1 DEF Real, RealEnv
  <2> HIDE DEF frame
  <2>2. locals \in Seq(RealEnv) /\ Len(locals) = Len(scope.locals) + 1
    BY <1>1, <2>1, AppendProperties
  <2> HIDE DEF locals
  <2> QED BY <1>1, <2>2 DEF Real
<1>3. /\ Sound(PushFrame(scope))
      /\ Len(PushFrame(scope).locals) = Len(scope.locals) + 1
  BY <1>1, PushSound
<1>4. /\ Sound(EmptyScope) /\ RealFrom(local) \in Real
      /\ Len(RealFrom(local).locals) = Len(EmptyScope.locals)
  <2> HIDE DEF local
  <2> QED BY <1>1, EmptySound, EmptyRealTyped
<1>5. ASSUME NEW fn \in Fn, Calls(fn, prefix, isolated) PROVE Whole'
  <2>1. /\ Passes
        /\ Scan("call", isolated, NoRow, PushFrame(scope), local, functions,
                pushed)
    BY <1>5, FormsKnown DEF Calls, Passes, Forms
  <2> HIDE DEF local, pushed
  <2> QED BY <1>1, <1>2, <1>3, <2>1, ScanKeeps
<1>6. CASE RunsHere(prefix, isolated)
  <2>1. /\ Passes
        /\ Scan("here", isolated, NoRow, scope, local, functions, real)
    BY <1>6, FormsKnown DEF RunsHere, Passes, Forms
  <2> HIDE DEF local
  <2> QED BY <1>1, <2>1, ScanKeeps
<1>7. CASE RunsChild(prefix)
  <2>1. /\ Passes
        /\ Scan("child", TRUE, NoRow, EmptyScope, local, {}, RealFrom(local))
    BY <1>7, FormsKnown DEF RunsChild, Passes, Forms
  <2> DEFINE its == RealFrom(local)
             known == EmptyScope
             fns == {}
  <2>2. its \in Real /\ Len(its.locals) = Len(known.locals)
        /\ Sound(known) /\ fns \subseteq Fn
    BY <1>4
  <2>3. Scan("child", TRUE, NoRow, known, local, fns, its)
    BY <2>1
  <2> HIDE DEF its, known, fns, local
  <2> QED BY <1>1, <2>1, <2>2, <2>3, ScanKeeps
<1> QED BY <1>5, <1>6, <1>7

LEMMA WholeInvariance == Spec => []Whole
<1>1. Whole /\ [Next]_vars => Whole'
  <2> SUFFICES ASSUME Whole, [Next]_vars PROVE Whole'
    OBVIOUS
  <2>1. CASE UNCHANGED vars
    BY <2>1 DEF vars, Whole, Beside
  <2>2. CASE \E row \in Row : Matches(row)
    BY <2>2, SimpleKeep
  <2>3. CASE \E fn \in Fn : Defines(fn)
    BY <2>3, SimpleKeep
  <2>4. CASE \E dir \in {token.value : token \in Tokens}, isolated \in BOOLEAN :
               ChangesDirectory(dir, isolated)
    BY <2>4, DirectoryKeeps
  <2>5. CASE \E token \in Tokens, conditional, isolated \in BOOLEAN :
               Assigns(token, conditional, isolated)
    BY <2>5, AssignsKeep
  <2>6. CASE \E unexport, isolated \in BOOLEAN, prefix \in PrefixWords :
               \/ \E token \in Tokens : Exports(unexport, token, prefix, isolated)
               \/ \E name \in Name :
                    Exports(unexport, [name |-> name], prefix, isolated)
    <3>1. \A token \in Tokens : token \in Word
      BY TokensAssumption DEF Word
    <3>2. \A name \in Name : [name |-> name] \in Word
      BY DEF Word
    <3> QED BY <2>6, <3>1, <3>2, ExportsKeep
  <2>7. CASE \E decl \in Declarations, isolated \in BOOLEAN :
               DeclaresNames(decl, isolated)
    BY <2>7, DeclaresKeep
  <2>8. CASE \E token \in Tokens, isolated \in BOOLEAN :
               ~token.append /\ PrintsTo(token, isolated)
    BY <2>8, PrintsKeep
  <2>9. CASE \E name \in Name, input \in Inputs, isolated \in BOOLEAN :
               Reads(name, input, isolated)
    BY <2>9, ReadsKeep
  <2>10. CASE \E name \in Name, opts \in MapfileOptions, input \in Inputs,
                 isolated \in BOOLEAN : Mapfiles(name, opts, input, isolated)
    BY <2>10, MapfilesKeep
  <2>11. CASE \E blank \in BOOLEAN : TooDeep(blank)
    BY <2>11, SimpleKeep
  <2>12. CASE \E fn \in Fn, prefix \in PrefixWords, isolated \in BOOLEAN :
                Calls(fn, prefix, isolated)
    BY <2>12, ScriptsKeep
  <2>13. CASE \E prefix \in PrefixWords, isolated \in BOOLEAN :
                RunsHere(prefix, isolated)
    BY <2>13, ScriptsKeep
  <2>14. CASE \E prefix \in PrefixWords : RunsChild(prefix)
    BY <2>14, ScriptsKeep
  <2>15. CASE Substitutes
    <3>1. Passes /\ Scan("subst", TRUE, NoRow, scope, exported, functions, real)
      BY <2>15, FormsKnown DEF Substitutes, Passes
    <3> QED BY <3>1, ScanKeeps DEF Whole, Beside
  <2>16. CASE \E name \in Name, single \in BOOLEAN, prefix \in PrefixWords :
                Evaluates(name, single, prefix)
    BY <2>16, SimpleKeep
  <2>17. CASE Returns
    BY <2>17, ReturnKeeps
  <2> QED BY <2>1, <2>2, <2>3, <2>4, <2>5, <2>6, <2>7, <2>8, <2>9, <2>10,
             <2>11, <2>12, <2>13, <2>14, <2>15, <2>16, <2>17 DEF Next
<1> QED BY <1>1, InitWhole, PTL DEF Spec

(* What the scan keeps has its type, in every script it is suspended in,   *)
(* for any names, letters, declarations, inputs and depth cap (matched_in).*)
THEOREM TypeCorrect == Spec => []TypeOK
<1>1. Whole => TypeOK
  <2> SUFFICES ASSUME Whole PROVE TypeOK
    OBVIOUS
  <2>1. Suspended \subseteq Frame /\ stack \in Seq(Suspended)
    BY DEF Suspended, Whole
  <2>2. stack \in Seq(Frame)
    <3>1. /\ Len(stack) \in Nat
          /\ \A i \in 1 .. Len(stack) : stack[i] \in Frame
      BY <2>1, LenProperties, ElementOfSeq
    <3>2. stack = [i \in 1 .. Len(stack) |-> stack[i]]
      BY <2>1, SeqDef
    <3> QED BY <3>1, <3>2, SeqDef
  <2> QED BY <2>2 DEF TypeOK, Whole, Sound, Beside
<1> QED BY <1>1, WholeInvariance, PTL

(* What a function keeps for its return is of a frame that exists, and is  *)
(* kept once, however calls, isolated segments and child shells nest       *)
(* (ShellScope, push_frame, pop_frame).                                    *)
THEOREM FramesHoldTheirOwn == Spec => []NothingOutlivesItsFrame
<1>1. Whole => NothingOutlivesItsFrame
  BY DEF Whole, Sound, NothingOutlivesItsFrame
<1> QED BY <1>1, WholeInvariance, PTL

-----------------------------------------------------------------------------
(* One variable, as the scan and bash have it: its texts at each depth     *)
(* from 0 (at and held), its alternatives, its arrays, the exports of it   *)
(* that a return puts back, and the one there is now.                      *)

HeldAt(its, d, name) == IF d = 0 THEN its.global[name] ELSE its.locals[d][name]
AltsAt(known, d, name) ==
  {known.alts[i].value : i \in {j \in DOMAIN known.alts :
     known.alts[j].name = name /\ known.alts[j].depth = d}}
Variable(known, env, its, name) ==
  [n      |-> Len(known.locals),
   at     |-> [d \in 0 .. Len(known.locals) |-> EnvAt(known, d)[name]],
   held   |-> [d \in 0 .. Len(known.locals) |-> HeldAt(its, d, name)],
   alts   |-> [d \in 0 .. Len(known.locals) |-> AltsAt(known, d, name)],
   arrays |-> {array \in known.arrays : array.name = name},
   saves  |-> {save \in known.saved : save.name = name},
   now    |-> env[name]]

Shape(p) ==
  /\ p.n \in Nat
  /\ p.at \in [0 .. p.n -> Text \cup {Unset}]
  /\ p.held \in [0 .. p.n -> HeldTexts]
  /\ p.alts \in [0 .. p.n -> SUBSET Text]
  /\ p.now \in Text \cup {Unset}
  /\ \A save \in p.saves : /\ save.depth \in 1 .. p.n
                           /\ save.previous \in Text \cup {Unset}
  /\ \A s, t \in p.saves : s.depth = t.depth => s = t
  /\ \A array \in p.arrays : /\ array.depth \in 0 .. p.n
                             /\ array.values \in Seq(Text)
  /\ \A a, b \in p.arrays : a.depth = b.depth => a = b

(* What $name is, of the texts that are held.                              *)
Shown(held) == IF held \in {Unset, <<>>} THEN <<>> ELSE held[1]
TextOf(value) == IF value = Unset THEN <<>> ELSE value

(* What is exported once the calls above a depth have returned.            *)
SavesAbove(p, d) == {save \in p.saves : save.depth > d}
Lowest(saves) ==
  CHOOSE save \in saves : \A other \in saves : save.depth <= other.depth
Later(p, d) ==
  IF SavesAbove(p, d) = {} THEN p.now ELSE Lowest(SavesAbove(p, d)).previous

(* The innermost depth that has the name.                                  *)
Top(p, d) == /\ d \in 0 .. p.n
             /\ d # 0 => p.at[d] # Unset
             /\ \A e \in 1 .. p.n : e > d => p.at[e] = Unset

(* The scan has the text that bash holds, or has it as an alternative.     *)
Fits(p, d) ==
  \/ Shown(p.held[d]) = TextOf(p.at[d])
  \/ p.alts[d] # {} /\ Shown(p.held[d]) \in {<<>>} \cup p.alts[d]
OnlyInherited(p, d) == d = 0 /\ p.at[0] = Unset /\ Later(p, 0) # Unset

SameLocals(p) == \A d \in 1 .. p.n : p.at[d] = Unset <=> p.held[d] = Unset
ArrayAlone(p) == \A array \in p.arrays :
  /\ array.depth = 0
  /\ p.now = Unset
  /\ \A d \in 0 .. p.n : p.at[d] = Unset
  /\ Shown(p.held[0]) = Shown(array.values)
TextsFit(p) == p.arrays = {} =>
  \A d \in 0 .. p.n : Fits(p, d) \/ OnlyInherited(p, d)
ExportedIsSet(p) == \A d \in 0 .. p.n :
  p.at[d] # Unset => Later(p, d) \in {Unset, p.at[d]}
SavesOfLocals(p) == \A save \in p.saves :
  /\ p.at[save.depth] # Unset
  /\ \A d \in save.depth .. p.n : Later(p, d) # Unset
AltsOfLocals(p) == \A d \in 1 .. p.n : p.alts[d] # {} => p.at[d] # Unset
InheritedIsHeld(p) ==
  OnlyInherited(p, 0) => Shown(p.held[0]) = Later(p, 0)
Agrees(p) ==
  /\ SameLocals(p) /\ ArrayAlone(p) /\ TextsFit(p) /\ ExportedIsSet(p)
  /\ SavesOfLocals(p) /\ AltsOfLocals(p) /\ InheritedIsHeld(p)

(* Nothing that will be exported then is no longer exported then.          *)
Lasts(p, q, n) == \A d \in 0 .. n : Later(p, d) # Unset => Later(q, d) # Unset

LEMMA LaterOf ==
  ASSUME NEW p, Shape(p), NEW d \in Nat
  PROVE  \/ SavesAbove(p, d) = {} /\ Later(p, d) = p.now
         \/ \E save \in p.saves :
              /\ save.depth > d /\ Later(p, d) = save.previous
              /\ \A other \in p.saves :
                   other.depth > d => save.depth <= other.depth
<1> DEFINE above == SavesAbove(p, d)
           depths == {save.depth : save \in above}
<1>1. CASE above = {}
  BY <1>1 DEF Later
<1>2. CASE above # {}
  <2>1. depths \subseteq Nat /\ depths # {}
    BY <1>2 DEF Shape, SavesAbove
  <2>2. \E m \in depths : \A k \in depths : m <= k
    <3> HIDE DEF depths
    <3> QED BY <2>1, FirstOf
  <2>3. PICK save \in above : \A other \in above : save.depth <= other.depth
    BY <2>2
  <2>4. /\ Lowest(above) \in above
        /\ \A other \in above : Lowest(above).depth <= other.depth
    <3> HIDE DEF above
    <3> QED BY <2>3 DEF Lowest
  <2>5. Later(p, d) = Lowest(above).previous
    BY <1>2 DEF Later
  <2> DEFINE low == Lowest(above)
  <2>6. /\ low \in p.saves /\ low.depth > d /\ Later(p, d) = low.previous
        /\ \A other \in p.saves : other.depth > d => low.depth <= other.depth
    BY <2>4, <2>5 DEF SavesAbove
  <2> HIDE DEF low
  <2> QED BY <2>6
<1> QED BY <1>1, <1>2

LEMMA LaterNow ==
  ASSUME NEW p, NEW d, \A save \in p.saves : ~(save.depth > d)
  PROVE  Later(p, d) = p.now
BY DEF Later, SavesAbove

LEMMA LaterIs ==
  ASSUME NEW p, Shape(p), NEW d \in Nat, NEW save \in p.saves,
         save.depth > d,
         \A other \in p.saves : other.depth > d => save.depth <= other.depth
  PROVE  Later(p, d) = save.previous
<1>1. PICK low \in p.saves :
        /\ low.depth > d /\ Later(p, d) = low.previous
        /\ \A other \in p.saves : other.depth > d => low.depth <= other.depth
  BY LaterOf DEF SavesAbove
<1>2. low.depth <= save.depth /\ save.depth <= low.depth
      /\ low.depth \in Nat /\ save.depth \in Nat
  BY <1>1 DEF Shape
<1>3. low.depth = save.depth
  BY <1>2
<1> QED BY <1>1, <1>3 DEF Shape

(* Of exports that are as they were, only the last is told by what is      *)
(* exported now.                                                           *)
LEMMA LaterSame ==
  ASSUME NEW p, Shape(p), NEW q, Shape(q), q.saves = p.saves, NEW d \in Nat
  PROVE  \/ Later(q, d) = Later(p, d)
         \/ Later(p, d) = p.now /\ Later(q, d) = q.now
<1>1. CASE SavesAbove(p, d) = {}
  BY <1>1 DEF Later, SavesAbove
<1>2. CASE SavesAbove(p, d) # {}
  BY <1>2 DEF Later, SavesAbove
<1> QED BY <1>1, <1>2

(* Above the innermost depth of a name nothing of it is saved.             *)
LEMMA TopSaves ==
  ASSUME NEW p, Shape(p), Agrees(p), NEW d, Top(p, d)
  PROVE  /\ \A save \in p.saves : save.depth <= d
         /\ \A e \in d .. p.n : Later(p, e) = p.now
         /\ d = 0 => p.saves = {}
         /\ p.arrays # {} => d = 0
<1>1. d \in 0 .. p.n /\ p.n \in Nat
  BY DEF Top, Shape
<1>2. ASSUME NEW save \in p.saves PROVE save.depth <= d
  <2>1. save.depth \in 1 .. p.n /\ p.at[save.depth] # Unset
    BY DEF Shape, Agrees, SavesOfLocals
  <2> QED BY <1>1, <2>1 DEF Top
<1>3. ASSUME NEW e \in d .. p.n PROVE Later(p, e) = p.now
  <2>1. ASSUME NEW save \in p.saves PROVE ~(save.depth > e)
    <3>1. save.depth \in Nat /\ save.depth <= d
      BY <1>2 DEF Shape
    <3> QED BY <1>1, <3>1
  <2> QED BY <2>1, LaterNow
<1>4. d = 0 => p.saves = {}
  BY <1>2 DEF Shape
<1>5. p.arrays # {} => d = 0
  BY <1>1 DEF Agrees, ArrayAlone, Top
<1> QED BY <1>2, <1>3, <1>4, <1>5

(* What is not exported now is not to be exported later.                   *)
LEMMA NowhereExported ==
  ASSUME NEW p, Shape(p), Agrees(p), p.now = Unset
  PROVE  p.saves = {} /\ \A d \in 0 .. p.n : Later(p, d) = Unset
<1>1. p.n \in Nat
  BY DEF Shape
<1>2. \A save \in p.saves : save.depth \in 1 .. p.n
  BY DEF Shape
<1>3. Later(p, p.n) = p.now
  BY <1>1, <1>2, LaterNow
<1>4. p.saves = {}
  <2> SUFFICES ASSUME NEW save \in p.saves PROVE FALSE
    OBVIOUS
  <2>1. p.n \in save.depth .. p.n
    BY <1>1, <1>2
  <2> QED BY <1>3, <2>1 DEF Agrees, SavesOfLocals
<1> QED BY <1>4, LaterNow

-----------------------------------------------------------------------------
(* What the steps do to a variable.                                        *)

(* At depth d it has another text, which fits what bash has there.         *)
Put(p, q, d) ==
  /\ q.n = p.n /\ d \in 0 .. p.n
  /\ \A e \in 0 .. p.n : e # d => /\ q.at[e] = p.at[e]
                                  /\ q.held[e] = p.held[e]
                                  /\ q.alts[e] = p.alts[e]
  /\ q.at[d] # Unset /\ Fits(q, d)
  /\ d # 0 => q.held[d] # Unset
  /\ q.arrays = {} /\ (p.arrays # {} => d = 0)

LEMMA PutParts ==
  ASSUME NEW p, Shape(p), Agrees(p), NEW q, Shape(q), NEW d, Put(p, q, d)
  PROVE  /\ SameLocals(q) /\ ArrayAlone(q) /\ AltsOfLocals(q)
         /\ \A e \in 0 .. q.n : e # d => Fits(q, e) \/ OnlyInherited(p, e)
<1>1. p.n \in Nat /\ d \in 0 .. p.n /\ q.n = p.n
  BY DEF Shape, Put
<1>2. SameLocals(q)
  BY <1>1 DEF Agrees, SameLocals, Put
<1>3. AltsOfLocals(q)
  BY <1>1 DEF Agrees, AltsOfLocals, Put
<1>4. ASSUME NEW e \in 0 .. q.n, e # d PROVE Fits(q, e) \/ OnlyInherited(p, e)
  <2>1. Fits(q, e) <=> Fits(p, e)
    BY <1>1, <1>4 DEF Put, Fits
  <2>2. CASE p.arrays = {}
    BY <1>1, <2>1, <2>2 DEF Agrees, TextsFit
  <2>3. CASE p.arrays # {}
    <3>1. d = 0 /\ e \in 1 .. p.n /\ p.at[e] = Unset
      BY <1>1, <1>4, <2>3 DEF Put, Agrees, ArrayAlone
    <3>2. p.held[e] = Unset
      BY <3>1 DEF Agrees, SameLocals
    <3> QED BY <2>1, <3>1, <3>2 DEF Fits, Shown, TextOf
  <2> QED BY <2>2, <2>3
<1> QED BY <1>2, <1>3, <1>4 DEF ArrayAlone, Put

(* An assignment to a name that is not exported.                           *)
LEMMA AssignedAgrees ==
  ASSUME NEW p, Shape(p), Agrees(p), NEW q, Shape(q), NEW d, Put(p, q, d),
         p.now = Unset, q.now = p.now, q.saves = p.saves
  PROVE  Agrees(q) /\ Lasts(p, q, p.n)
<1>1. p.n \in Nat /\ d \in 0 .. p.n /\ q.n = p.n
  BY DEF Shape, Put
<1>2. p.saves = {} /\ \A e \in 0 .. p.n : Later(p, e) = Unset
  BY NowhereExported
<1>3. \A e \in 0 .. p.n : Later(q, e) = Unset
  BY <1>2, LaterNow
<1>4. TextsFit(q)
  BY <1>1, <1>2, PutParts DEF TextsFit, OnlyInherited, Put
<1>5. ExportedIsSet(q) /\ SavesOfLocals(q) /\ InheritedIsHeld(q)
  BY <1>1, <1>2, <1>3 DEF ExportedIsSet, SavesOfLocals, InheritedIsHeld,
                          OnlyInherited
<1> QED BY <1>2, <1>4, <1>5, PutParts DEF Agrees, Lasts

(* An export of the innermost text, global or to be put back.              *)
LEMMA ExportedAgrees ==
  ASSUME NEW p, Shape(p), Agrees(p), NEW q, Shape(q), NEW d, Put(p, q, d),
         Top(p, d), q.now = q.at[d], q.saves = p.saves,
         d = 0 \/ \E save \in p.saves : save.depth = d
  PROVE  Agrees(q) /\ Lasts(p, q, p.n)
<1>1. /\ p.n \in Nat /\ d \in 0 .. p.n /\ q.n = p.n /\ d \in Nat
      /\ \A e \in 0 .. p.n : e \in Nat
  BY DEF Shape, Put
<1>2. /\ \A save \in p.saves : save.depth <= d
      /\ d = 0 => p.saves = {}
      /\ \A e \in d .. p.n : Later(p, e) = p.now
  BY TopSaves
<1>3. \A save \in p.saves : save.depth \in 1 .. p.n
  BY DEF Shape
<1>4. \A e \in d .. p.n : Later(q, e) = q.now
  <2> SUFFICES ASSUME NEW e \in d .. p.n PROVE Later(q, e) = q.now
    OBVIOUS
  <2>1. \A save \in q.saves : ~(save.depth > e)
    BY <1>1, <1>2, <1>3
  <2> QED BY <2>1, LaterNow
<1>5. \A e \in 0 .. p.n : e < d => Later(q, e) = Later(p, e)
  <2> SUFFICES ASSUME NEW e \in 0 .. p.n, e < d
               PROVE  Later(q, e) = Later(p, e)
    OBVIOUS
  <2>1. PICK save \in p.saves : save.depth = d
    BY <1>1
  <2>2. SavesAbove(p, e) # {} /\ SavesAbove(q, e) = SavesAbove(p, e)
    BY <1>1, <2>1 DEF SavesAbove
  <2> QED BY <2>2 DEF Later
<1>6. q.at[d] # Unset /\ q.now # Unset
  BY DEF Put
<1>7. \A e \in 0 .. p.n : e < d \/ e \in d .. p.n
  BY <1>1
<1>8. Lasts(p, q, p.n)
  BY <1>4, <1>5, <1>6, <1>7 DEF Lasts
<1>9. TextsFit(q)
  <2> SUFFICES ASSUME NEW e \in 0 .. q.n
               PROVE  Fits(q, e) \/ OnlyInherited(q, e)
    BY DEF TextsFit
  <2>1. CASE e = d
    BY <2>1 DEF Put
  <2>2. CASE e # d
    <3>1. OnlyInherited(p, e) => OnlyInherited(q, e)
      BY <1>1, <1>8, <2>2 DEF OnlyInherited, Put, Lasts
    <3> QED BY <1>1, <2>2, <3>1, PutParts
  <2> QED BY <2>1, <2>2
<1>10. ExportedIsSet(q)
  <2> SUFFICES ASSUME NEW e \in 0 .. q.n, q.at[e] # Unset
               PROVE  Later(q, e) \in {Unset, q.at[e]}
    BY DEF ExportedIsSet
  <2>1. CASE e = d
    BY <1>1, <1>4, <2>1
  <2>2. CASE e < d
    BY <1>1, <1>5, <2>2 DEF Put, Agrees, ExportedIsSet
  <2>3. CASE e > d
    BY <1>1, <2>3 DEF Put, Top
  <2> QED BY <1>1, <2>1, <2>2, <2>3
<1>11. SavesOfLocals(q)
  <2> SUFFICES ASSUME NEW save \in q.saves
               PROVE  /\ q.at[save.depth] # Unset
                      /\ \A e \in save.depth .. q.n : Later(q, e) # Unset
    BY DEF SavesOfLocals
  <2>1. /\ save \in p.saves /\ save.depth \in 1 .. p.n
        /\ p.at[save.depth] # Unset
        /\ \A e \in save.depth .. p.n : Later(p, e) # Unset
    BY <1>3 DEF Agrees, SavesOfLocals
  <2>2. q.at[save.depth] # Unset
    BY <1>1, <1>6, <2>1 DEF Put
  <2>3. ASSUME NEW e \in save.depth .. q.n PROVE Later(q, e) # Unset
    BY <1>1, <1>8, <2>1, <2>3 DEF Lasts
  <2> QED BY <2>2, <2>3
<1>12. InheritedIsHeld(q)
  <2> SUFFICES ASSUME OnlyInherited(q, 0) PROVE Shown(q.held[0]) = Later(q, 0)
    BY DEF InheritedIsHeld
  <2>1. d # 0 /\ 0 < d
    BY <1>1, <1>6 DEF OnlyInherited
  <2>2. /\ Later(q, 0) = Later(p, 0) /\ q.at[0] = p.at[0]
        /\ q.held[0] = p.held[0]
    BY <1>1, <1>5, <2>1 DEF Put
  <2> QED BY <2>2 DEF OnlyInherited, Agrees, InheritedIsHeld
<1> QED BY <1>8, <1>9, <1>10, <1>11, <1>12, PutParts DEF Agrees

(* An export by the innermost call, which its return is to put back.       *)
LEMMA SavedAgrees ==
  ASSUME NEW p, Shape(p), Agrees(p), NEW q, Shape(q), Put(p, q, p.n),
         p.n # 0, q.now = q.at[p.n],
         NEW new, q.saves = p.saves \cup {new},
         new.depth = p.n, new.previous = p.now,
         \A save \in p.saves : save.depth # p.n
  PROVE  Agrees(q) /\ Lasts(p, q, p.n)
<1> DEFINE n == p.n
<1>1. n \in Nat /\ q.n = n /\ \A e \in 0 .. n : e \in Nat
  BY DEF Shape, Put
<1>2. \A save \in p.saves : save.depth \in 1 .. n /\ save.depth < n
  BY <1>1 DEF Shape
<1>3. Later(q, n) = q.now
  <2>1. \A save \in q.saves : ~(save.depth > n)
    BY <1>1, <1>2
  <2> QED BY <2>1, LaterNow
<1>4. ASSUME NEW e \in 0 .. n, e < n PROVE Later(q, e) = Later(p, e)
  <2>1. CASE SavesAbove(p, e) = {}
    <3>1. Later(p, e) = p.now
      BY <2>1 DEF Later
    <3>2. \A other \in q.saves : other.depth > e => new.depth <= other.depth
      BY <1>1, <2>1 DEF SavesAbove
    <3>3. Later(q, e) = new.previous
      BY <1>1, <1>4, <3>2, LaterIs
    <3> QED BY <3>1, <3>3
  <2>2. CASE SavesAbove(p, e) # {}
    <3>1. PICK save \in p.saves :
            /\ save.depth > e /\ Later(p, e) = save.previous
            /\ \A other \in p.saves :
                 other.depth > e => save.depth <= other.depth
      BY <1>1, <2>2, LaterOf
    <3>2. \A other \in q.saves : other.depth > e => save.depth <= other.depth
      BY <1>1, <1>2, <3>1
    <3> QED BY <1>1, <3>1, <3>2, LaterIs
  <2> QED BY <2>1, <2>2
<1>5. q.at[n] # Unset /\ q.now # Unset
  BY DEF Put
<1>6. \A e \in 0 .. n : e < n \/ e = n
  BY <1>1
<1>7. Lasts(p, q, n)
  BY <1>3, <1>4, <1>5, <1>6 DEF Lasts
<1>8. TextsFit(q)
  <2> SUFFICES ASSUME NEW e \in 0 .. q.n
               PROVE  Fits(q, e) \/ OnlyInherited(q, e)
    BY DEF TextsFit
  <2>1. CASE e = n
    BY <2>1 DEF Put
  <2>2. CASE e # n
    <3>1. OnlyInherited(p, e) => OnlyInherited(q, e)
      BY <1>1, <1>7, <2>2 DEF OnlyInherited, Put, Lasts
    <3> QED BY <1>1, <2>2, <3>1, PutParts
  <2> QED BY <2>1, <2>2
<1>9. ExportedIsSet(q)
  <2> SUFFICES ASSUME NEW e \in 0 .. q.n, q.at[e] # Unset
               PROVE  Later(q, e) \in {Unset, q.at[e]}
    BY DEF ExportedIsSet
  <2>1. CASE e = n
    BY <1>3, <2>1
  <2>2. CASE e < n
    BY <1>1, <1>4, <2>2 DEF Put, Agrees, ExportedIsSet
  <2> QED BY <1>1, <1>6, <2>1, <2>2
<1>10. SavesOfLocals(q)
  <2> SUFFICES ASSUME NEW save \in q.saves
               PROVE  /\ q.at[save.depth] # Unset
                      /\ \A e \in save.depth .. q.n : Later(q, e) # Unset
    BY DEF SavesOfLocals
  <2>1. CASE save \in p.saves
    <3>1. /\ save.depth \in 1 .. n /\ p.at[save.depth] # Unset
          /\ \A e \in save.depth .. n : Later(p, e) # Unset
      BY <1>2, <2>1 DEF Agrees, SavesOfLocals
    <3>2. q.at[save.depth] # Unset
      BY <1>1, <1>5, <3>1 DEF Put
    <3>3. ASSUME NEW e \in save.depth .. q.n PROVE Later(q, e) # Unset
      BY <1>1, <1>7, <3>1, <3>3 DEF Lasts
    <3> QED BY <3>2, <3>3
  <2>2. CASE save = new
    <3>1. \A e \in n .. q.n : e = n
      BY <1>1
    <3> QED BY <1>3, <1>5, <2>2, <3>1
  <2> QED BY <2>1, <2>2
<1>11. InheritedIsHeld(q)
  <2> SUFFICES ASSUME OnlyInherited(q, 0) PROVE Shown(q.held[0]) = Later(q, 0)
    BY DEF InheritedIsHeld
  <2>1. /\ Later(q, 0) = Later(p, 0) /\ q.at[0] = p.at[0]
        /\ q.held[0] = p.held[0]
    BY <1>1, <1>4 DEF Put
  <2> QED BY <2>1 DEF OnlyInherited, Agrees, InheritedIsHeld
<1> QED BY <1>7, <1>8, <1>9, <1>10, <1>11, PutParts DEF Agrees

(* export -n, outside of calls.                                            *)
LEMMA DroppedAgrees ==
  ASSUME NEW p, Shape(p), Agrees(p), NEW q, p.n = 0,
         p.now \in {Unset, p.at[0]}, q = [p EXCEPT !.now = Unset]
  PROVE  Agrees(q)
<1>1. p.saves = {}
  BY DEF Shape
<1>2. Later(p, 0) = p.now
  BY <1>1, LaterNow
<1>3. /\ q.n = 0 /\ q.at = p.at /\ q.held = p.held /\ q.alts = p.alts
      /\ q.arrays = p.arrays /\ q.saves = {} /\ q.now = Unset
  <2>1. p.n = 0 /\ p.saves = {}
    BY <1>1
  <2> QED BY <2>1 DEF Shape
<1>4. Later(q, 0) = Unset
  BY <1>3, LaterNow
<1> QED BY <1>2, <1>3, <1>4
        DEF Agrees, SameLocals, ArrayAlone, TextsFit, ExportedIsSet,
            SavesOfLocals, AltsOfLocals, InheritedIsHeld, OnlyInherited, Fits

(* mapfile into a global name that is not exported.                        *)
LEMMA ArrayAgrees ==
  ASSUME NEW p, Shape(p), Agrees(p), NEW q, Shape(q), Top(p, 0),
         p.now = Unset, q.now = p.now, q.n = p.n, q.saves = p.saves,
         q.at[0] = Unset, q.alts = p.alts,
         \A e \in 1 .. p.n : q.at[e] = p.at[e] /\ q.held[e] = p.held[e],
         NEW array, q.arrays = {array}, array.depth = 0,
         Shown(q.held[0]) = Shown(array.values)
  PROVE  Agrees(q) /\ Lasts(p, q, p.n)
<1>1. p.n \in Nat /\ \A e \in 1 .. p.n : p.at[e] = Unset
  BY DEF Shape, Top
<1>2. p.saves = {} /\ \A e \in 0 .. p.n : Later(p, e) = Unset
  BY NowhereExported
<1>3. \A e \in 0 .. p.n : Later(q, e) = Unset
  BY <1>2, LaterNow
<1>4. \A e \in 0 .. q.n : q.at[e] = Unset
  BY <1>1
<1> QED BY <1>1, <1>2, <1>3, <1>4
        DEF Agrees, SameLocals, ArrayAlone, TextsFit, ExportedIsSet,
            SavesOfLocals, AltsOfLocals, InheritedIsHeld, OnlyInherited, Lasts

(* Bash marks a name that the scan does not.                               *)
LEMMA MarkedAgrees ==
  ASSUME NEW p, Shape(p), Agrees(p), NEW q, q.n = p.n, q.at = p.at,
         q.alts = p.alts, q.arrays = p.arrays, q.saves = p.saves,
         q.now = p.now,
         \A e \in 1 .. p.n : q.held[e] = p.held[e],
         Shown(q.held[0]) = Shown(p.held[0])
  PROVE  Agrees(q) /\ Lasts(p, q, p.n)
<1>1. \A e : Later(q, e) = Later(p, e)
  BY DEF Later, SavesAbove
<1>2. p.n \in Nat /\ \A e \in 0 .. p.n : e = 0 \/ e \in 1 .. p.n
  BY DEF Shape
<1>3. \A e \in 0 .. p.n : Fits(q, e) <=> Fits(p, e)
  BY <1>2 DEF Fits
<1>4. TextsFit(q)
  BY <1>1, <1>3 DEF Agrees, TextsFit, OnlyInherited
<1>5. SameLocals(q) /\ ArrayAlone(q)
  BY <1>2 DEF Agrees, SameLocals, ArrayAlone
<1>6. ExportedIsSet(q) /\ SavesOfLocals(q) /\ AltsOfLocals(q)
  BY <1>1 DEF Agrees, ExportedIsSet, SavesOfLocals, AltsOfLocals
<1>7. InheritedIsHeld(q)
  BY <1>1 DEF Agrees, InheritedIsHeld, OnlyInherited
<1> QED BY <1>1, <1>4, <1>5, <1>6, <1>7 DEF Agrees, Lasts

(* A call.                                                                 *)
LEMMA CalledAgrees ==
  ASSUME NEW p, Shape(p), Agrees(p), NEW q, Shape(q), q.n = p.n + 1,
         \A e \in 0 .. p.n : /\ q.at[e] = p.at[e] /\ q.held[e] = p.held[e]
                             /\ q.alts[e] = p.alts[e],
         q.at[q.n] = Unset, q.held[q.n] = Unset, q.alts[q.n] = {},
         q.arrays = p.arrays, q.saves = p.saves, q.now = p.now
  PROVE  Agrees(q) /\ Lasts(p, q, p.n)
<1>1. \A e : Later(q, e) = Later(p, e)
  BY DEF Later, SavesAbove
<1>2. p.n \in Nat /\ \A e \in 0 .. q.n : e = q.n \/ e \in 0 .. p.n
  BY DEF Shape
<1>3. \A save \in p.saves : save.depth \in 1 .. p.n
  BY DEF Shape
<1>4. TextsFit(q)
  <2>1. Fits(q, q.n)
    BY DEF Fits, Shown, TextOf
  <2>2. \A e \in 0 .. p.n : Fits(q, e) <=> Fits(p, e)
    BY DEF Fits
  <2>3. \A e \in 0 .. p.n : OnlyInherited(p, e) => OnlyInherited(q, e)
    BY <1>1, <1>2 DEF OnlyInherited
  <2> QED BY <1>2, <2>1, <2>2, <2>3 DEF Agrees, TextsFit
<1>5. SameLocals(q) /\ AltsOfLocals(q) /\ ArrayAlone(q)
  BY <1>2 DEF Agrees, SameLocals, AltsOfLocals, ArrayAlone
<1>6. ExportedIsSet(q)
  BY <1>1, <1>2 DEF Agrees, ExportedIsSet
<1>7. SavesOfLocals(q)
  <2> SUFFICES ASSUME NEW save \in p.saves, NEW e \in save.depth .. q.n
               PROVE  q.at[save.depth] # Unset /\ Later(q, e) # Unset
    BY <1>2, <1>3 DEF SavesOfLocals
  <2>1. /\ p.at[save.depth] # Unset
        /\ \A f \in save.depth .. p.n : Later(p, f) # Unset
    BY DEF Agrees, SavesOfLocals
  <2>2. CASE e \in save.depth .. p.n
    BY <1>1, <1>3, <2>1, <2>2
  <2>3. CASE e = q.n
    <3>1. Later(p, q.n) = p.now /\ Later(p, p.n) = p.now
      BY <1>2, <1>3, LaterNow
    <3>2. p.n \in save.depth .. p.n
      BY <1>2, <1>3
    <3> QED BY <1>1, <1>3, <2>1, <2>3, <3>1, <3>2
  <2> QED BY <1>2, <1>3, <2>2, <2>3
<1>8. InheritedIsHeld(q)
  BY <1>1, <1>2 DEF Agrees, InheritedIsHeld, OnlyInherited
<1> QED BY <1>1, <1>4, <1>5, <1>6, <1>7, <1>8 DEF Agrees, Lasts

(* A return, after which the exports it puts back are those of now.        *)
LEMMA ReturnedAgrees ==
  ASSUME NEW p, Shape(p), Agrees(p), NEW q, Shape(q), p.n = q.n + 1,
         \A e \in 0 .. q.n : /\ q.at[e] = p.at[e] /\ q.held[e] = p.held[e]
                             /\ q.alts[e] = p.alts[e],
         q.arrays = p.arrays,
         q.saves = {save \in p.saves : save.depth # p.n},
         q.now = Later(p, q.n)
  PROVE  Agrees(q) /\ \A e \in 0 .. q.n : Later(q, e) = Later(p, e)
<1>1. q.n \in Nat /\ \A e \in 0 .. q.n : e \in 0 .. p.n /\ e \in Nat
  BY DEF Shape
<1>2. \A save \in p.saves : save.depth \in 1 .. p.n /\ save.depth \in Nat
  BY DEF Shape
<1>3. ASSUME NEW e \in 0 .. q.n PROVE Later(q, e) = Later(p, e)
  <2>1. CASE SavesAbove(q, e) = {}
    <3>1. Later(q, e) = Later(p, q.n)
      BY <2>1 DEF Later
    <3>2. \A save \in p.saves : save.depth > e => save.depth = p.n
      BY <2>1 DEF SavesAbove
    <3>3. SavesAbove(p, e) = SavesAbove(p, q.n)
      BY <1>1, <1>2, <3>2 DEF SavesAbove
    <3> QED BY <3>1, <3>3 DEF Later
  <2>2. CASE SavesAbove(q, e) # {}
    <3>1. PICK save \in q.saves :
            /\ save.depth > e /\ Later(q, e) = save.previous
            /\ \A other \in q.saves :
                 other.depth > e => save.depth <= other.depth
      BY <1>1, <2>2, LaterOf
    <3>2. \A other \in p.saves : other.depth > e => save.depth <= other.depth
      BY <1>1, <1>2, <3>1
    <3> QED BY <1>1, <3>1, <3>2, LaterIs
  <2> QED BY <2>1, <2>2
<1>4. \A e \in 0 .. q.n : Fits(q, e) <=> Fits(p, e)
  BY DEF Fits
<1>5. 0 \in 0 .. q.n
  BY <1>1
<1>6. TextsFit(q)
  BY <1>1, <1>3, <1>4, <1>5 DEF Agrees, TextsFit, OnlyInherited
<1>7. SameLocals(q) /\ AltsOfLocals(q)
  BY <1>1 DEF Agrees, SameLocals, AltsOfLocals
<1>8. ArrayAlone(q)
  <2> SUFFICES ASSUME NEW array \in p.arrays
               PROVE  /\ array.depth = 0 /\ q.now = Unset
                      /\ \A d \in 0 .. q.n : q.at[d] = Unset
                      /\ Shown(q.held[0]) = Shown(array.values)
    BY DEF ArrayAlone
  <2>1. /\ array.depth = 0 /\ p.now = Unset
        /\ \A d \in 0 .. p.n : p.at[d] = Unset
        /\ Shown(p.held[0]) = Shown(array.values)
    BY DEF Agrees, ArrayAlone
  <2>2. Later(p, q.n) = Unset
    BY <1>1, <2>1, NowhereExported
  <2> QED BY <1>1, <1>5, <2>1, <2>2
<1>9. ExportedIsSet(q)
  BY <1>1, <1>3 DEF Agrees, ExportedIsSet
<1>10. SavesOfLocals(q)
  <2> SUFFICES ASSUME NEW save \in p.saves, save.depth # p.n
               PROVE  /\ q.at[save.depth] # Unset
                      /\ \A e \in save.depth .. q.n : Later(q, e) # Unset
    BY DEF SavesOfLocals
  <2>1. save.depth \in 0 .. q.n
    BY <1>1, <1>2
  <2>2. /\ p.at[save.depth] # Unset
        /\ \A e \in save.depth .. p.n : Later(p, e) # Unset
    BY DEF Agrees, SavesOfLocals
  <2>3. \A e \in save.depth .. q.n : e \in 0 .. q.n /\ e \in save.depth .. p.n
    BY <1>1, <2>1
  <2> QED BY <1>3, <2>1, <2>2, <2>3
<1>11. InheritedIsHeld(q)
  BY <1>3, <1>5 DEF Agrees, InheritedIsHeld, OnlyInherited
<1> QED BY <1>3, <1>6, <1>7, <1>8, <1>9, <1>10, <1>11 DEF Agrees

(* A process of its own has what is exported, and nothing else.            *)
LEMMA StartedAgrees ==
  ASSUME NEW p, Shape(p), p.n = 0, p.at[0] = Unset, p.alts[0] = {},
         p.arrays = {}, p.saves = {}, Shown(p.held[0]) = TextOf(p.now)
  PROVE  Agrees(p)
<1>1. \A e : Later(p, e) = p.now
  BY LaterNow
<1>2. \A d \in 0 .. 0 : d = 0
  OBVIOUS
<1>3. TextsFit(p)
  BY <1>1, <1>2 DEF TextsFit, Fits, OnlyInherited, TextOf
<1> QED BY <1>1, <1>3 DEF Agrees, SameLocals, ArrayAlone, ExportedIsSet,
        SavesOfLocals, AltsOfLocals, InheritedIsHeld, OnlyInherited, TextOf

-----------------------------------------------------------------------------
(* The variables of a scan.                                                *)

Paired(known, its) == its \in Real /\ Len(its.locals) = Len(known.locals)

LEMMA HeldAtTyped ==
  ASSUME NEW its \in Real, NEW d \in 0 .. Len(its.locals), NEW name \in Name
  PROVE  HeldAt(its, d, name) \in HeldTexts
<1>1. /\ its.global \in RealEnv
      /\ d # 0 => its.locals[d] \in RealEnv
  BY ElementOfSeq DEF Real
<1>2. \A env \in RealEnv : env[name] \in HeldTexts
  BY DEF RealEnv, HeldTexts
<1> QED BY <1>1, <1>2 DEF HeldAt

LEMMA ShapeOf ==
  ASSUME NEW known, Sound(known), NEW env \in Env, NEW its,
         Paired(known, its), NEW name \in Name
  PROVE  Shape(Variable(known, env, its, name))
<1> DEFINE n == Len(known.locals)
           at == [d \in 0 .. n |-> EnvAt(known, d)[name]]
           held == [d \in 0 .. n |-> HeldAt(its, d, name)]
           alts == [d \in 0 .. n |-> AltsAt(known, d, name)]
           arrays == {array \in known.arrays : array.name = name}
           saves == {save \in known.saved : save.name = name}
           p == Variable(known, env, its, name)
<1>1. /\ p.n = n /\ p.at = at /\ p.held = held /\ p.alts = alts
      /\ p.arrays = arrays /\ p.saves = saves /\ p.now = env[name]
  BY DEF Variable
<1>2. n \in Nat /\ known \in Scope /\ its \in Real /\ n = Len(its.locals)
  BY LenProperties DEF Sound, Scope, Paired
<1> HIDE DEF n
<1>3. at \in [0 .. n -> Text \cup {Unset}]
  <2> SUFFICES ASSUME NEW d \in 0 .. n
               PROVE  EnvAt(known, d)[name] \in Text \cup {Unset}
    OBVIOUS
  <2>1. EnvAt(known, d) \in Env
    BY <1>2, EnvAtTyped DEF n
  <2> QED BY <2>1 DEF Env
<1>4. held \in [0 .. n -> HeldTexts]
  BY <1>2, HeldAtTyped
<1>5. alts \in [0 .. n -> SUBSET Text]
  <2>1. known.alts \in Seq(Alternative)
    BY <1>2 DEF Scope, Alternative
  <2>2. \A i \in DOMAIN known.alts : known.alts[i] \in Alternative
    BY <2>1, LenProperties, ElementOfSeq
  <2>3. \A i \in DOMAIN known.alts : known.alts[i].value \in Text
    BY <2>2 DEF Alternative
  <2>4. \A d : AltsAt(known, d, name) \in SUBSET Text
    BY <2>3 DEF AltsAt
  <2> QED BY <2>4
<1>6. \A save \in saves : /\ save.depth \in 1 .. n
                          /\ save.previous \in Text \cup {Unset}
  <2>1. \A save \in known.saved : /\ save.depth \in (0 .. n) \ {0}
                                  /\ save.previous \in Text \cup {Unset}
    BY DEF Sound, Scope, WithinFrames, n
  <2>2. \A d \in (0 .. n) \ {0} : d \in 1 .. n
    BY <1>2
  <2> QED BY <2>1, <2>2
<1>7. \A s, t \in saves : s.depth = t.depth => s = t
  BY DEF Sound, WithinFrames
<1>8. \A array \in arrays : /\ array.depth \in 0 .. n
                            /\ array.values \in Seq(Text)
  BY DEF Sound, Scope, WithinFrames, n
<1>9. \A a, b \in arrays : a.depth = b.depth => a = b
  BY DEF Sound, WithinFrames
<1>10. env[name] \in Text \cup {Unset}
  BY DEF Env
<1> HIDE DEF at, held, alts, arrays, saves, p
<1> QED BY <1>1, <1>2, <1>3, <1>4, <1>5, <1>6, <1>7, <1>8, <1>9, <1>10
        DEF Shape, p

(* Its parts.                                                              *)
LEMMA PartsOf ==
  ASSUME NEW known, NEW env, NEW its, NEW name, NEW p,
         p = Variable(known, env, its, name)
  PROVE  /\ p.n = Len(known.locals)
         /\ \A d \in 0 .. p.n : /\ p.at[d] = EnvAt(known, d)[name]
                                /\ p.held[d] = HeldAt(its, d, name)
                                /\ p.alts[d] = AltsAt(known, d, name)
         /\ p.arrays = {array \in known.arrays : array.name = name}
         /\ p.saves = {save \in known.saved : save.name = name}
         /\ p.now = env[name]
BY DEF Variable

(* The innermost depth is the one the scan finds, ...                      *)
LEMMA TopOf ==
  ASSUME NEW known, Sound(known), NEW env, NEW its, NEW name, NEW p,
         p = Variable(known, env, its, name)
  PROVE  /\ Top(p, LocalFrame(known, name))
         /\ Lookup(known, name) = p.at[LocalFrame(known, name)]
<1> DEFINE d == LocalFrame(known, name)
<1>1. /\ d \in 0 .. Len(known.locals) /\ Len(known.locals) \in Nat
      /\ d # 0 => known.locals[d][name] # Unset
      /\ \A e \in 1 .. Len(known.locals) :
           e > d => known.locals[e][name] = Unset
  BY FrameThere, LenProperties DEF Sound, Scope
<1> HIDE DEF d
<1>2. p.n = Len(known.locals) /\ \A e \in 0 .. p.n : p.at[e] = EnvAt(known, e)[name]
  BY PartsOf
<1>3. \A e \in 1 .. p.n : e \in 0 .. p.n /\ e # 0
  BY <1>1, <1>2
<1>4. Top(p, d)
  BY <1>1, <1>2, <1>3 DEF Top, EnvAt
<1> QED BY <1>1, <1>2, <1>4 DEF Lookup, d

LEMMA TopUnique ==
  ASSUME NEW p, Shape(p), NEW d, NEW e, Top(p, d), Top(p, e)
  PROVE  d = e
BY DEF Top, Shape

(* ... and the one that bash does.                                         *)
LEMMA RealDepthIs ==
  ASSUME Sound(scope), Beside(real), NEW env, NEW name, NEW p,
         p = Variable(scope, env, real, name), SameLocals(p)
  PROVE  /\ RealDepth(name) = LocalFrame(scope, name)
         /\ RealAt(RealDepth(name))[name] = p.held[RealDepth(name)]
<1> DEFINE d == RealDepth(name)
           e == LocalFrame(scope, name)
<1>1. /\ d \in 0 .. Len(real.locals) /\ Len(real.locals) = Len(scope.locals)
      /\ d # 0 => real.locals[d][name] # Unset
      /\ \A f \in 1 .. Len(real.locals) :
           f > d => real.locals[f][name] = Unset
      /\ Len(scope.locals) \in Nat
  BY RealDepthTyped, LenProperties DEF Beside, Sound, Scope
<1>2. Top(p, e)
  BY TopOf
<1> HIDE DEF d, e
<1>3. /\ p.n = Len(scope.locals)
      /\ \A f \in 0 .. p.n : p.held[f] = HeldAt(real, f, name)
  BY PartsOf
<1>4. \A f \in 1 .. p.n : /\ f \in 0 .. p.n /\ f # 0
                          /\ p.held[f] = real.locals[f][name]
                          /\ p.at[f] = Unset <=> p.held[f] = Unset
  BY <1>1, <1>3 DEF HeldAt, SameLocals
<1>5. d = e
  BY <1>1, <1>2, <1>3, <1>4 DEF Top
<1>6. p.held[d] = HeldAt(real, d, name)
  BY <1>1, <1>3
<1> QED BY <1>5, <1>6 DEF d, e, RealAt, HeldAt

-----------------------------------------------------------------------------
(* What changes with a variable, and what does not.                        *)

Sets(known, new, d, name, value) ==
  /\ Len(new.locals) = Len(known.locals)
  /\ \A e \in 0 .. Len(known.locals), other \in Name :
       EnvAt(new, e)[other] =
         IF e = d /\ other = name THEN value ELSE EnvAt(known, e)[other]
Holds(its, new, d, name, held) ==
  /\ Len(new.locals) = Len(its.locals)
  /\ \A e \in 0 .. Len(its.locals), other \in Name :
       HeldAt(new, e, other) =
         IF e = d /\ other = name THEN held ELSE HeldAt(its, e, other)
Spares(known, new, name) == \A other \in Name \ {name} :
  /\ \A d \in 0 .. Len(known.locals) :
       AltsAt(new, d, other) = AltsAt(known, d, other)
  /\ {array \in new.arrays : array.name = other}
       = {array \in known.arrays : array.name = other}
  /\ {save \in new.saved : save.name = other}
       = {save \in known.saved : save.name = other}

LEMMA OthersStay ==
  ASSUME NEW known, NEW env, NEW its, NEW new, NEW env2, NEW its2,
         Paired(known, its), Paired(new, its2),
         NEW name, NEW d, NEW value, NEW held,
         Sets(known, new, d, name, value), Holds(its, its2, d, name, held),
         Spares(known, new, name), NEW other \in Name \ {name},
         env2[other] = env[other]
  PROVE  Variable(new, env2, its2, other) = Variable(known, env, its, other)
<1> DEFINE n == Len(known.locals)
<1>1. /\ Len(new.locals) = n /\ Len(its.locals) = n
      /\ other \in Name /\ other # name
  BY DEF Sets, Paired
<1>2. \A e \in 0 .. n : /\ EnvAt(new, e)[other] = EnvAt(known, e)[other]
                        /\ HeldAt(its2, e, other) = HeldAt(its, e, other)
                        /\ AltsAt(new, e, other) = AltsAt(known, e, other)
  BY <1>1 DEF Sets, Holds, Spares
<1>3. /\ {array \in new.arrays : array.name = other}
           = {array \in known.arrays : array.name = other}
      /\ {save \in new.saved : save.name = other}
           = {save \in known.saved : save.name = other}
  BY DEF Spares
<1>4. /\ [e \in 0 .. n |-> EnvAt(new, e)[other]]
           = [e \in 0 .. n |-> EnvAt(known, e)[other]]
      /\ [e \in 0 .. n |-> HeldAt(its2, e, other)]
           = [e \in 0 .. n |-> HeldAt(its, e, other)]
      /\ [e \in 0 .. n |-> AltsAt(new, e, other)]
           = [e \in 0 .. n |-> AltsAt(known, e, other)]
  BY <1>2
<1> HIDE DEF n
<1>5. /\ Variable(known, env, its, other) =
           [n |-> n, at |-> [e \in 0 .. n |-> EnvAt(known, e)[other]],
            held |-> [e \in 0 .. n |-> HeldAt(its, e, other)],
            alts |-> [e \in 0 .. n |-> AltsAt(known, e, other)],
            arrays |-> {array \in known.arrays : array.name = other},
            saves |-> {save \in known.saved : save.name = other},
            now |-> env[other]]
  BY DEF Variable, n
<1>6. /\ Variable(new, env2, its2, other) =
           [n |-> n, at |-> [e \in 0 .. n |-> EnvAt(new, e)[other]],
            held |-> [e \in 0 .. n |-> HeldAt(its2, e, other)],
            alts |-> [e \in 0 .. n |-> AltsAt(new, e, other)],
            arrays |-> {array \in new.arrays : array.name = other},
            saves |-> {save \in new.saved : save.name = other},
            now |-> env2[other]]
  BY <1>1 DEF Variable
<1> QED BY <1>3, <1>4, <1>5, <1>6

(* A text at a depth, as the variable has it.                              *)
LEMMA PutIs ==
  ASSUME NEW known, NEW env, NEW its, NEW new, NEW env2, NEW its2,
         Paired(known, its), Paired(new, its2), NEW name \in Name, NEW p, NEW q,
         p = Variable(known, env, its, name),
         q = Variable(new, env2, its2, name),
         NEW d \in 0 .. p.n, NEW value \in Text, NEW held,
         Sets(known, new, d, name, value), Holds(its, its2, d, name, held),
         \A e \in 0 .. p.n : e # d =>
           AltsAt(new, e, name) = AltsAt(known, e, name),
         q.arrays = {}, p.arrays # {} => d = 0, d # 0 => held # Unset,
         Fits(q, d)
  PROVE  Put(p, q, d) /\ q.at[d] = value /\ q.held[d] = held
<1>1. /\ p.n = Len(known.locals) /\ q.n = Len(new.locals)
      /\ q.n = p.n /\ Len(its.locals) = p.n
  BY PartsOf DEF Sets, Paired
<1>2. \A e \in 0 .. p.n : /\ p.at[e] = EnvAt(known, e)[name]
                          /\ p.held[e] = HeldAt(its, e, name)
                          /\ p.alts[e] = AltsAt(known, e, name)
  BY PartsOf
<1>3. \A e \in 0 .. q.n : /\ q.at[e] = EnvAt(new, e)[name]
                          /\ q.held[e] = HeldAt(its2, e, name)
                          /\ q.alts[e] = AltsAt(new, e, name)
  BY PartsOf
<1>4. q.at[d] = value /\ q.held[d] = held
  BY <1>1, <1>3 DEF Sets, Holds
<1>5. \A e \in 0 .. p.n : e # d =>
        q.at[e] = p.at[e] /\ q.held[e] = p.held[e] /\ q.alts[e] = p.alts[e]
  BY <1>1, <1>2, <1>3 DEF Sets, Holds
<1>6. value # Unset
  BY UnsetAssumption
<1> QED BY <1>1, <1>4, <1>5, <1>6 DEF Put

-----------------------------------------------------------------------------
(* The changes of the scope.                                               *)

LEMMA PutSets ==
  ASSUME NEW known, Sound(known), NEW d \in 0 .. Len(known.locals),
         NEW name \in Name, NEW env \in Env,
         \A other \in Name \ {name} : env[other] = EnvAt(known, d)[other]
  PROVE  Sets(known, WithEnvAt(known, d, env), d, name, env[name])
<1> DEFINE new == WithEnvAt(known, d, env)
           n == Len(known.locals)
<1>1. known \in Scope /\ known.locals \in Seq(Env) /\ n \in Nat
  BY LenProperties DEF Sound, Scope
<1>2. Len(new.locals) = n /\ EnvAt(new, d) = env
  BY PutSound
<1>3. \A e \in 0 .. n : e # d => EnvAt(new, e) = EnvAt(known, e)
  <2>1. CASE d = 0
    BY <1>1, <2>1 DEF WithEnvAt, EnvAt, Scope
  <2>2. CASE d # 0
    <3> DEFINE locals == [known.locals EXCEPT ![d] = env]
    <3>1. new = [known EXCEPT !.locals = locals]
      BY <2>2 DEF WithEnvAt
    <3>2. \A e \in 1 .. n : e # d => locals[e] = known.locals[e]
      BY <1>1, <2>2
    <3> HIDE DEF locals
    <3>3. new.locals = locals /\ new.global = known.global
      BY <1>1, <3>1 DEF Scope
    <3> QED BY <1>1, <3>2, <3>3 DEF EnvAt
  <2> QED BY <2>1, <2>2
<1> HIDE DEF new, n
<1> QED BY <1>2, <1>3 DEF Sets, new, n

LEMMA DropSame ==
  ASSUME NEW known, Sound(known), NEW name, NEW d
  PROVE  /\ \A e : EnvAt(DropArray(known, name, d), e) = EnvAt(known, e)
         /\ DropArray(known, name, d).arrays =
              {array \in known.arrays : ~(array.name = name /\ array.depth = d)}
<1> DEFINE new == DropArray(known, name, d)
<1>1. /\ new.locals = known.locals /\ new.global = known.global
      /\ new.arrays =
           {array \in known.arrays : ~(array.name = name /\ array.depth = d)}
  BY DEF DropArray, Sound, Scope
<1> HIDE DEF new
<1> QED BY <1>1 DEF EnvAt, new

(* What an assignment leaves of the rest of the scope.                     *)
Changes(known, new, d, name, value) ==
  /\ Sets(known, new, d, name, value)
  /\ new.saved = known.saved
  /\ new.arrays =
       {array \in known.arrays : ~(array.name = name /\ array.depth = d)}

LEMMA PutDropChanges ==
  ASSUME NEW known, Sound(known), NEW d \in 0 .. Len(known.locals),
         NEW name \in Name, NEW env \in Env,
         \A other \in Name \ {name} : env[other] = EnvAt(known, d)[other],
         NEW new, new = DropArray(WithEnvAt(known, d, env), name, d)
  PROVE  /\ Changes(known, new, d, name, env[name])
         /\ new.alts = known.alts
<1> DEFINE put == WithEnvAt(known, d, env)
<1>1. /\ Sound(put) /\ Len(put.locals) = Len(known.locals)
      /\ put.alts = known.alts /\ put.saved = known.saved
      /\ put.arrays = known.arrays
      /\ Sets(known, put, d, name, env[name])
  BY PutSound, PutSets
<1> HIDE DEF put
<1>2. /\ new.alts = put.alts /\ new.saved = put.saved
      /\ new.locals = put.locals
      /\ \A e : EnvAt(new, e) = EnvAt(put, e)
      /\ new.arrays =
           {array \in put.arrays : ~(array.name = name /\ array.depth = d)}
  BY <1>1, DropSound, DropSame DEF put
<1> QED BY <1>1, <1>2 DEF Changes, Sets

LEMMA SetVisibleChanges ==
  ASSUME NEW known, Sound(known), NEW name \in Name, NEW value \in Text
  PROVE  LET new == SetVisible(known, name, value)
         IN  /\ Changes(known, new, LocalFrame(known, name), name, value)
             /\ new.alts = known.alts
<1> DEFINE d == LocalFrame(known, name)
           env == SetEnv(EnvAt(known, d), name, value)
<1>1. d \in 0 .. Len(known.locals) /\ known \in Scope
  BY FrameThere DEF Sound
<1>2. EnvAt(known, d) \in Env
  BY <1>1, EnvAtTyped
<1>3. /\ env \in Env /\ env[name] = value
      /\ \A other \in Name \ {name} : env[other] = EnvAt(known, d)[other]
  BY <1>2 DEF SetEnv, Env
<1>4. SetVisible(known, name, value) = DropArray(WithEnvAt(known, d, env), name, d)
  BY DEF SetVisible
<1> HIDE DEF d, env
<1> QED BY <1>1, <1>3, <1>4, PutDropChanges DEF d

(* What NAME=value or NAME+=value gives where the name has a text or none. *)
Given(before, token) ==
  IF token.append /\ before # Unset THEN before \o token.value ELSE token.value

LEMMA ApplyGives ==
  ASSUME NEW env \in Env, NEW token \in Token
  PROVE  /\ ApplyAssignment(env, token) \in Env
         /\ ApplyAssignment(env, token)[token.name] = Given(env[token.name], token)
         /\ Given(env[token.name], token) \in Text
         /\ \A other \in Name \ {token.name} :
              ApplyAssignment(env, token)[other] = env[other]
<1>1. token.name \in Name /\ token.value \in Text
  BY DEF Token
<1>2. ApplyAssignment(env, token) =
        [env EXCEPT ![token.name] = Given(env[token.name], token)]
  BY DEF ApplyAssignment, AppendEnv, SetEnv, Given
<1>3. ApplyAssignment(env, token)[token.name] = Given(env[token.name], token)
  BY <1>1, <1>2 DEF Env
<1> QED BY <1>1, <1>2, <1>3, ApplyTyped DEF Env

LEMMA AssignDeclChanges ==
  ASSUME NEW known, Sound(known), NEW token \in Token, NEW toGlobal,
         NEW d, d = DeclDepth(known, toGlobal)
  PROVE  LET new == AssignDecl(known, token, toGlobal)
         IN  /\ Changes(known, new, d, token.name,
                        Given(EnvAt(known, d)[token.name], token))
             /\ new.alts = known.alts
<1> DEFINE env == ApplyAssignment(EnvAt(known, d), token)
<1>1. d \in 0 .. Len(known.locals) /\ EnvAt(known, d) \in Env
      /\ token.name \in Name
  BY DeclDepthTyped, EnvAtTyped DEF Sound, Token
<1>2. /\ env \in Env
      /\ env[token.name] = Given(EnvAt(known, d)[token.name], token)
      /\ \A other \in Name \ {token.name} : env[other] = EnvAt(known, d)[other]
  BY <1>1, ApplyGives
<1>3. AssignDecl(known, token, toGlobal) =
        DropArray(WithEnvAt(known, d, env), token.name, d)
  BY DEF AssignDecl
<1> HIDE DEF env
<1> QED BY <1>1, <1>2, <1>3, PutDropChanges

(* What is selected of a sequence is what it has there.                    *)
LEMMA SelectedIs ==
  ASSUME NEW W, NEW seq \in Seq(W), NEW places
  PROVE  /\ DOMAIN Selected(seq, places) = 1 .. Len(Selected(seq, places))
         /\ ToSet(Selected(seq, places))
              = {seq[i] : i \in {j \in DOMAIN seq : j \in places}}
<1> DEFINE n == Len(seq)
           spots == [i \in DOMAIN seq |-> i]
           S == {seq[i] : i \in {j \in DOMAIN seq : j \in places}}
           Keep(kept, i) == IF i \in places THEN Append(kept, seq[i]) ELSE kept
           step == [pair \in Seq(S) \X (1 .. n) |-> Keep(pair[1], pair[2])]
           Iterates(h) == h = [s \in SUBSET DOMAIN spots |->
                                 IF s = {} THEN <<>>
                                 ELSE Keep(h[s \ {Max(s)}], spots[Max(s)])]
           iter == CHOOSE h : Iterates(h)
<1>1. /\ DOMAIN seq = 1 .. n /\ n \in Nat /\ DOMAIN spots = 1 .. n
      /\ spots \in Seq(1 .. n) /\ Len(spots) = n
      /\ \A i \in 1 .. n : spots[i] = i
  BY LenProperties
<1>2. \A kept \in Seq(S), i \in 1 .. n : Keep(kept, i) \in Seq(S)
  BY <1>1, AppendProperties
<1>3. \A kept \in Seq(S), i \in 1 .. n :
        /\ ToSet(kept) \subseteq ToSet(Keep(kept, i))
        /\ i \in places => seq[i] \in ToSet(Keep(kept, i))
  <2> SUFFICES ASSUME NEW kept \in Seq(S), NEW i \in 1 .. n, i \in places
               PROVE  /\ ToSet(kept) \subseteq ToSet(Append(kept, seq[i]))
                      /\ seq[i] \in ToSet(Append(kept, seq[i]))
    OBVIOUS
  <2>1. seq[i] \in S
    BY <1>1
  <2> HIDE DEF S
  <2>2. /\ Len(Append(kept, seq[i])) = Len(kept) + 1
        /\ Append(kept, seq[i]) \in Seq(S)
        /\ \A j \in 1 .. Len(kept) : Append(kept, seq[i])[j] = kept[j]
        /\ Append(kept, seq[i])[Len(kept) + 1] = seq[i]
        /\ Len(kept) \in Nat
    BY <2>1, AppendProperties, LenProperties
  <2>3. DOMAIN kept = 1 .. Len(kept)
        /\ DOMAIN Append(kept, seq[i]) = 1 .. (Len(kept) + 1)
    BY <2>2, LenProperties
  <2> QED BY <2>2, <2>3 DEF ToSet
<1> HIDE DEF Keep
<1>4. step \in [Seq(S) \X (1 .. n) -> Seq(S)] /\ <<>> \in Seq(S)
  BY <1>2, EmptySeq
<1>5. \A s \in SUBSET (1 .. n) : s # {} =>
        /\ s \ {Max(s)} \in SUBSET (1 .. n) /\ Max(s) \in 1 .. n
        /\ spots[Max(s)] = Max(s)
  BY <1>1, GreatestThere
<1>6. Selected(seq, places) = iter[1 .. n]
  BY <1>1 DEF Selected, FoldLeft, MapThenFoldSet, Keep
<1>7. PICK h \in [SUBSET (1 .. n) -> Seq(S)] : Folds(h, 1 .. n, <<>>, step, spots)
  <2> HIDE DEF step, spots, n, S
  <2> QED BY <1>1, <1>4, FoldThere
<1>8. Iterates(h)
  <2>1. \A s \in SUBSET (1 .. n) : s # {} =>
          s \ {Max(s)} \in SUBSET (1 .. n) /\ spots[Max(s)] \in 1 .. n
    BY <1>5
  <2>2. DOMAIN spots = 1 .. n
    BY <1>1
  <2> HIDE DEF spots, S
  <2> QED BY <2>1, <2>2, <1>7 DEF Folds
<1>9. Iterates(iter)
  BY <1>8
<1> HIDE DEF iter, S
<1>10. \A s \in SUBSET (1 .. n) :
         iter[s] = IF s = {} THEN <<>>
                   ELSE Keep(iter[s \ {Max(s)}], spots[Max(s)])
  BY <1>1, <1>9
<1> HIDE DEF spots, n
<1> DEFINE Done == {s \in SUBSET (1 .. n) :
                      /\ iter[s] \in Seq(S)
                      /\ \A i \in s : i \in places => seq[i] \in ToSet(iter[s])}
<1>11. {} \in Done
  BY <1>4, <1>10
<1>12. ASSUME NEW s \in SUBSET (1 .. n), s # {}, s \ {Max(s)} \in Done
       PROVE  s \in Done
  <2> DEFINE top == Max(s)
             kept == iter[s \ {top}]
  <2>1. /\ kept \in Seq(S) /\ top \in 1 .. n
        /\ \A i \in s \ {top} : i \in places => seq[i] \in ToSet(kept)
        /\ iter[s] = Keep(kept, top)
    BY <1>5, <1>10, <1>12
  <2>2. iter[s] \in Seq(S)
    BY <1>2, <2>1
  <2> HIDE DEF kept, top
  <2>3. ASSUME NEW i \in s, i \in places PROVE seq[i] \in ToSet(iter[s])
    BY <1>3, <2>1, <2>3
  <2> QED BY <2>2, <2>3
<1> HIDE DEF Done
<1>13. 1 .. n \in Done
  BY <1>1, <1>11, <1>12, FoldAlong
<1>14. /\ Selected(seq, places) \in Seq(S)
       /\ \A i \in 1 .. n : i \in places => seq[i] \in ToSet(Selected(seq, places))
  BY <1>6, <1>13 DEF Done
<1>15. ToSet(Selected(seq, places)) \subseteq S
  BY <1>14, LenProperties, ElementOfSeq DEF ToSet
<1> QED BY <1>1, <1>14, <1>15, LenProperties DEF S

(* The alternatives that are kept include those of the name at its depth.  *)
Keeps(known, places, e, name) == \A j \in DOMAIN known.alts :
  known.alts[j].name = name /\ known.alts[j].depth = e => j \in places

LEMMA AltsKept ==
  ASSUME NEW known, NEW seq \in Seq(Alternative), seq = known.alts,
         NEW places, NEW new, new.alts = Selected(seq, places),
         NEW e, NEW name, Keeps(known, places, e, name)
  PROVE  AltsAt(new, e, name) = AltsAt(known, e, name)
<1>1. ToSet(new.alts) =
        {known.alts[i] : i \in {j \in DOMAIN known.alts : j \in places}}
  BY SelectedIs
<1>2. AltsAt(new, e, name) =
        {a.value : a \in {b \in ToSet(new.alts) : b.name = name /\ b.depth = e}}
  BY DEF AltsAt, ToSet
<1>3. ASSUME NEW text \in AltsAt(known, e, name)
      PROVE  text \in AltsAt(new, e, name)
  <2>1. PICK i \in DOMAIN known.alts :
          /\ known.alts[i].name = name /\ known.alts[i].depth = e
          /\ text = known.alts[i].value
    BY DEF AltsAt
  <2>2. known.alts[i] \in ToSet(new.alts)
    BY <1>1, <2>1 DEF Keeps
  <2> QED BY <1>2, <2>1, <2>2
<1>4. ASSUME NEW text \in AltsAt(new, e, name)
      PROVE  text \in AltsAt(known, e, name)
  <2>1. PICK b \in ToSet(new.alts) : b.name = name /\ b.depth = e /\ text = b.value
    BY <1>2
  <2>2. PICK i \in DOMAIN known.alts : b = known.alts[i]
    BY <1>1, <2>1
  <2> QED BY <2>1, <2>2 DEF AltsAt
<1> QED BY <1>3, <1>4

LEMMA AssignTokenChanges ==
  ASSUME NEW known, Sound(known), NEW token \in Token, NEW conditional,
         NEW d, d = LocalFrame(known, token.name),
         NEW value, value = Given(EnvAt(known, d)[token.name], token),
         NEW new, new = AssignToken(known, token, conditional)
  PROVE  /\ Changes(known, new, d, token.name, value)
         /\ value \in Text
         /\ \A e, name : (e # d \/ name # token.name) =>
              AltsAt(new, e, name) = AltsAt(known, e, name)
         /\ conditional => value \in AltsAt(new, d, token.name)
         /\ conditional => AltsAt(known, d, token.name)
                             \subseteq AltsAt(new, d, token.name)
<1> DEFINE env == ApplyAssignment(EnvAt(known, d), token)
           set == DropArray(WithEnvAt(known, d, env), token.name, d)
           alt == [depth |-> d, name |-> token.name,
                   value |-> Lookup(set, token.name)]
           kept == {i \in DOMAIN known.alts :
                      ~(known.alts[i].name = token.name /\ known.alts[i].depth = d)}
           alts == IF conditional THEN Append(set.alts, alt)
                   ELSE Selected(set.alts, kept)
<1>1. /\ d \in 0 .. Len(known.locals) /\ token.name \in Name
      /\ known \in Scope
  BY FrameThere DEF Sound, Token
<1>2. EnvAt(known, d) \in Env
  BY <1>1, EnvAtTyped
<1>3. /\ env \in Env /\ env[token.name] = value /\ value \in Text
      /\ \A other \in Name \ {token.name} : env[other] = EnvAt(known, d)[other]
  BY <1>2, ApplyGives
<1>4. new = [set EXCEPT !.alts = alts]
  BY DEF AssignToken
<1> HIDE DEF env
<1>5. Changes(known, set, d, token.name, value) /\ set.alts = known.alts
  BY <1>1, <1>3, PutDropChanges
<1>6. Sound(set) /\ Len(set.locals) = Len(known.locals)
  BY <1>1, <1>3, PutSound, DropSound
<1> HIDE DEF set
<1>7. /\ new.alts = alts /\ new.locals = set.locals /\ new.global = set.global
      /\ new.saved = set.saved /\ new.arrays = set.arrays
  BY <1>4, <1>6 DEF Sound, Scope
<1>8. Changes(known, new, d, token.name, value)
  BY <1>5, <1>7 DEF Changes, Sets, EnvAt
<1>9. Lookup(set, token.name) = value
  <2> DEFINE p == Variable(known, EmptyEnv, EmptyReal, token.name)
             q == Variable(set, EmptyEnv, EmptyReal, token.name)
             e == LocalFrame(set, token.name)
  <2>1. Top(p, d) /\ p.n = Len(known.locals)
        /\ \A f \in 0 .. p.n : p.at[f] = EnvAt(known, f)[token.name]
    BY TopOf, PartsOf
  <2>2. /\ Top(q, e) /\ Lookup(set, token.name) = q.at[e]
        /\ q.n = Len(set.locals)
        /\ \A f \in 0 .. q.n : q.at[f] = EnvAt(set, f)[token.name]
    BY <1>6, TopOf, PartsOf
  <2> HIDE DEF p, q, e
  <2>3. p.n \in Nat /\ q.n = p.n
    BY <1>1, <1>6, <2>1, <2>2, LenProperties DEF Scope
  <2>4. \A f \in 0 .. p.n : q.at[f] = IF f = d THEN value ELSE p.at[f]
    BY <1>1, <1>5, <2>1, <2>2, <2>3 DEF Changes, Sets
  <2>5. value # Unset
    BY <1>3, UnsetAssumption
  <2>6. e = d
    BY <2>1, <2>2, <2>3, <2>4, <2>5 DEF Top
  <2> QED BY <1>1, <2>1, <2>2, <2>4, <2>6
<1>10. known.alts \in Seq(Alternative)
  BY <1>1 DEF Scope, Alternative
<1>11. CASE conditional
  <2> DEFINE m == Len(known.alts)
  <2>1. alts = Append(known.alts, alt)
    BY <1>5, <1>11
  <2>2. alt.depth = d /\ alt.name = token.name /\ alt.value = value
    BY <1>9
  <2>3. alt \in Alternative
    BY <1>1, <1>3, <1>9, LenProperties DEF Alternative, Scope
  <2> HIDE DEF alt, alts
  <2>4. /\ m \in Nat /\ DOMAIN known.alts = 1 .. m
        /\ DOMAIN alts = 1 .. (m + 1) /\ alts[m + 1] = alt
        /\ \A i \in 1 .. m : alts[i] = known.alts[i]
    <3>1. alts \in Seq(Alternative) /\ Len(alts) = m + 1
      BY <1>10, <2>1, <2>3, AppendProperties
    <3> QED BY <1>10, <2>1, <2>3, <3>1, AppendProperties, LenProperties
  <2> HIDE DEF m
  <2>5. \A i \in 1 .. (m + 1) : i = m + 1 \/ i \in 1 .. m
    BY <2>4
  <2>6. \A e, name : AltsAt(new, e, name) =
          AltsAt(known, e, name)
            \cup (IF e = d /\ name = token.name THEN {value} ELSE {})
    BY <1>7, <2>2, <2>4, <2>5 DEF AltsAt
  <2> QED BY <1>3, <1>8, <2>6
<1>12. CASE ~conditional
  <2>1. alts = Selected(known.alts, kept)
    BY <1>5, <1>12
  <2>2. \A e, name : e # d \/ name # token.name =>
          \A j \in DOMAIN known.alts :
            known.alts[j].name = name /\ known.alts[j].depth = e => j \in kept
    OBVIOUS
  <2> HIDE DEF kept, alts
  <2>4. new.alts = Selected(known.alts, kept)
    BY <1>7, <2>1
  <2>3. ASSUME NEW e, NEW name, e # d \/ name # token.name
        PROVE  AltsAt(new, e, name) = AltsAt(known, e, name)
    <3>1. Keeps(known, kept, e, name)
      BY <2>2, <2>3 DEF Keeps
    <3> QED BY <1>10, <2>4, <3>1, AltsKept
  <2> QED BY <1>3, <1>8, <1>12, <2>3
<1> QED BY <1>11, <1>12

-----------------------------------------------------------------------------
(* One step of the scan that is not a script.                              *)

Follows(known, env, its) ==
  \A name \in Name : Agrees(Variable(known, env, its, name))
Lasting(known, env, its, new, env2, its2) == \A name \in Name :
  Lasts(Variable(known, env, its, name), Variable(new, env2, its2, name),
        Len(known.locals))
Here == Sound(scope) /\ exported \in Env /\ Beside(real)
        /\ Follows(scope, exported, real)
Goes(new, env, its) ==
  /\ Len(new.locals) = Len(scope.locals)
  /\ Follows(new, env, its)
  /\ Lasting(scope, exported, real, new, env, its)

LEMMA StaysGoes ==
  ASSUME Here PROVE Goes(scope, exported, real)
BY DEF Here, Goes, Lasting, Lasts

LEMMA VariableHere ==
  ASSUME Here, NEW name \in Name, NEW p,
         p = Variable(scope, exported, real, name)
  PROVE  /\ Shape(p) /\ Agrees(p)
         /\ p.n = Len(scope.locals) /\ p.n \in Nat
         /\ Paired(scope, real)
         /\ LocalFrame(scope, name) \in 0 .. p.n
         /\ Top(p, LocalFrame(scope, name))
         /\ Lookup(scope, name) = p.at[LocalFrame(scope, name)]
         /\ RealDepth(name) = LocalFrame(scope, name)
         /\ \A d \in 0 .. p.n : RealAt(d)[name] = p.held[d]
         /\ p.now = exported[name]
         /\ \A d \in 0 .. p.n : p.held[d] \in HeldTexts
         /\ \A d \in 0 .. p.n : p.at[d] \in Text \cup {Unset}
<1>1. Paired(scope, real) /\ Agrees(p) /\ SameLocals(p)
  BY DEF Here, Beside, Paired, Follows, Agrees
<1>2. Shape(p)
  BY <1>1, ShapeOf DEF Here
<1>3. /\ p.n = Len(scope.locals) /\ p.now = exported[name]
      /\ \A d \in 0 .. p.n : p.held[d] = HeldAt(real, d, name)
  BY PartsOf
<1>4. RealDepth(name) = LocalFrame(scope, name)
  BY <1>1, RealDepthIs DEF Here
<1>5. \A d \in 0 .. p.n : RealAt(d)[name] = p.held[d]
  BY <1>3 DEF RealAt, HeldAt
<1>6. /\ Top(p, LocalFrame(scope, name))
      /\ Lookup(scope, name) = p.at[LocalFrame(scope, name)]
  BY TopOf DEF Here
<1>7. LocalFrame(scope, name) \in 0 .. p.n
  BY <1>6 DEF Top
<1> QED BY <1>1, <1>2, <1>3, <1>4, <1>5, <1>6, <1>7 DEF Shape

(* A step that changes one name.                                           *)
LEMMA OneGoes ==
  ASSUME Here, NEW new, NEW env, NEW its, Paired(new, its),
         NEW name \in Name, NEW d, NEW value, NEW held,
         Sets(scope, new, d, name, value), Holds(real, its, d, name, held),
         Spares(scope, new, name),
         \A other \in Name \ {name} : env[other] = exported[other],
         NEW p, p = Variable(scope, exported, real, name),
         NEW q, q = Variable(new, env, its, name),
         Agrees(q), Lasts(p, q, p.n)
  PROVE  Goes(new, env, its)
<1>1. Paired(scope, real) /\ p.n = Len(scope.locals)
  BY VariableHere
<1>2. \A other \in Name \ {name} :
        Variable(new, env, its, other) = Variable(scope, exported, real, other)
  BY <1>1, OthersStay
<1>3. \A other \in Name : Agrees(Variable(scope, exported, real, other))
  BY DEF Here, Follows
<1>4. Follows(new, env, its)
  BY <1>2, <1>3 DEF Follows
<1>5. Lasting(scope, exported, real, new, env, its)
  BY <1>1, <1>2 DEF Lasting, Lasts
<1> QED BY <1>4, <1>5 DEF Goes, Sets

-----------------------------------------------------------------------------
(* Nothing changes.                                                        *)
LEMMA SetsSame ==
  ASSUME NEW known, NEW d, NEW name
  PROVE  Sets(known, known, d, name, EnvAt(known, d)[name])
BY DEF Sets

LEMMA HoldsSame ==
  ASSUME NEW its, NEW d, NEW name
  PROVE  Holds(its, its, d, name, HeldAt(its, d, name))
BY DEF Holds

LEMMA ChangesSpares ==
  ASSUME NEW known, NEW new, NEW d, NEW name, NEW value,
         Changes(known, new, d, name, value),
         \A e, other : (e # d \/ other # name) =>
           AltsAt(new, e, other) = AltsAt(known, e, other)
  PROVE  /\ Spares(known, new, name)
         /\ \A e : e # d => AltsAt(new, e, name) = AltsAt(known, e, name)
BY DEF Spares, Changes

LEMMA SameAlts ==
  ASSUME NEW known, NEW new, new.alts = known.alts
  PROVE  \A e, other : AltsAt(new, e, other) = AltsAt(known, e, other)
BY DEF AltsAt

-----------------------------------------------------------------------------
(* What bash does to a name.                                               *)

LEMMA RealStoreHolds ==
  ASSUME Beside(real), NEW d \in 0 .. Len(real.locals), NEW name \in Name,
         NEW held \in HeldTexts
  PROVE  /\ Holds(real, RealStore(d, name, held), d, name, held)
         /\ Paired(scope, RealStore(d, name, held))
<1> DEFINE new == RealStore(d, name, held)
<1>1. real \in Real /\ real.locals \in Seq(RealEnv) /\ real.global \in RealEnv
  BY DEF Beside, Real
<1>2. CASE d = 0
  <2> DEFINE env == [real.global EXCEPT ![name] = held]
  <2>1. new = [real EXCEPT !.global = env]
    BY <1>2 DEF RealStore
  <2>2. \A other \in Name :
          env[other] = IF other = name THEN held ELSE real.global[other]
    BY <1>1 DEF RealEnv
  <2> HIDE DEF env
  <2>3. new.global = env /\ new.locals = real.locals
    BY <1>1, <2>1 DEF Real
  <2> HIDE DEF new
  <2> QED BY <1>2, <2>2, <2>3, RealStoreTyped
          DEF Holds, HeldAt, Paired, Beside, new
<1>3. CASE d # 0
  <2> DEFINE env == [real.locals[d] EXCEPT ![name] = held]
             locals == [real.locals EXCEPT ![d] = env]
  <2>1. new = [real EXCEPT !.locals = locals]
    BY <1>1, <1>3 DEF RealStore, Real
  <2>2. d \in 1 .. Len(real.locals) /\ real.locals[d] \in RealEnv
    BY <1>1, <1>3, ElementOfSeq
  <2>3. \A other \in Name :
          env[other] = IF other = name THEN held ELSE real.locals[d][other]
    BY <2>2 DEF RealEnv
  <2>4. /\ Len(locals) = Len(real.locals)
        /\ \A e \in 1 .. Len(real.locals) :
             locals[e] = IF e = d THEN env ELSE real.locals[e]
    BY <1>1, <2>2
  <2> HIDE DEF env, locals
  <2>5. new.locals = locals /\ new.global = real.global
    BY <1>1, <2>1 DEF Real
  <2>6. Len(real.locals) \in Nat
    BY <1>1, LenProperties
  <2> HIDE DEF new
  <2> QED BY <1>3, <2>2, <2>3, <2>4, <2>5, <2>6, RealStoreTyped
          DEF Holds, HeldAt, Paired, Beside, new
<1> QED BY <1>2, <1>3

LEMMA RealAssignHolds ==
  ASSUME Beside(real), NEW d \in 0 .. Len(real.locals), NEW token \in Token
  PROVE  \E held \in HeldTexts \ {Unset} :
           /\ Holds(real, RealAssign(d, token), d, token.name, held)
           /\ Paired(scope, RealAssign(d, token))
           /\ Shown(held) = IF token.append
                            THEN Shown(RealAt(d)[token.name]) \o token.value
                            ELSE token.value
<1> DEFINE held == RealAt(d)[token.name]
           empty == held \in {Unset, <<>>}
           text == IF token.append /\ ~empty THEN held[1] \o token.value
                   ELSE token.value
           more == IF empty THEN <<>> ELSE Tail(held)
           new == <<text>> \o more
<1>1. token.name \in Name /\ token.value \in Text
  BY DEF Token
<1>2. held \in HeldTexts
  BY <1>1, RealAtTyped DEF RealEnv, HeldTexts
<1>3. RealAssign(d, token) = RealStore(d, token.name, new)
  BY DEF RealAssign
<1> HIDE DEF held
<1>4. ~empty => /\ held \in Seq(Text) /\ held # <<>>
                /\ held[1] \in Text /\ Tail(held) \in Seq(Text)
  <2> SUFFICES ASSUME held \in Seq(Text), held # <<>>
               PROVE  held[1] \in Text /\ Tail(held) \in Seq(Text)
    BY <1>2 DEF HeldTexts
  <2>1. Len(held) \in Nat /\ Len(held) # 0
    BY LenProperties, EmptySeq
  <2> QED BY <2>1, ElementOfSeq, HeadTailProperties
<1>5. text \in Text
  BY <1>1, <1>4, ConcatProperties DEF Text
<1>6. more \in Seq(Text)
  BY <1>4, EmptySeq
<1>7. text = IF token.append THEN Shown(held) \o token.value ELSE token.value
  <2>1. <<>> \o token.value = token.value
    BY <1>1, ConcatEmptySeq DEF Text
  <2> QED BY <2>1 DEF Shown
<1> HIDE DEF text, more
<1>8. new \in Seq(Text) /\ new # <<>> /\ new[1] = text
  <2>1. <<text>> \in Seq(Text) /\ Len(<<text>>) = 1 /\ <<text>>[1] = text
    BY <1>5
  <2>2. Len(more) \in Nat
    BY <1>6, LenProperties
  <2>3. new \in Seq(Text) /\ Len(new) = 1 + Len(more) /\ new[1] = text
    BY <1>6, <2>1, <2>2, ConcatProperties
  <2> QED BY <2>2, <2>3, EmptySeq
<1> HIDE DEF new
<1>9. new \in HeldTexts \ {Unset} /\ Shown(new) = text
  BY <1>8, UnsetAssumption DEF HeldTexts, Shown
<1>10. /\ Holds(real, RealStore(d, token.name, new), d, token.name, new)
       /\ Paired(scope, RealStore(d, token.name, new))
  BY <1>1, <1>9, RealStoreHolds
<1> QED BY <1>3, <1>7, <1>9, <1>10 DEF held

-----------------------------------------------------------------------------
(* A text at a depth, and what bash holds there then.                      *)

LEMMA PutHere ==
  ASSUME Here, NEW name \in Name, NEW d \in 0 .. Len(scope.locals),
         NEW value \in Text, NEW held \in HeldTexts, d # 0 => held # Unset,
         NEW new, Sound(new), NEW env \in Env, NEW its, Paired(new, its),
         Sets(scope, new, d, name, value), Holds(real, its, d, name, held),
         new.arrays = {array \in scope.arrays :
                         ~(array.name = name /\ array.depth = d)},
         \A other \in Name \ {name} : {save \in new.saved : save.name = other}
           = {save \in scope.saved : save.name = other},
         \A e, other : (e # d \/ other # name) =>
           AltsAt(new, e, other) = AltsAt(scope, e, other),
         NEW p, p = Variable(scope, exported, real, name),
         NEW q, q = Variable(new, env, its, name),
         p.arrays # {} => d = 0,
         \/ Shown(held) = value
         \/ /\ AltsAt(new, d, name) # {}
            /\ Shown(held) \in {<<>>} \cup AltsAt(new, d, name)
  PROVE  /\ Shape(q) /\ Put(p, q, d) /\ q.at[d] = value
         /\ q.now = env[name]
         /\ q.saves = {save \in new.saved : save.name = name}
         /\ Spares(scope, new, name)
<1>1. /\ Shape(p) /\ Agrees(p) /\ p.n = Len(scope.locals)
      /\ Paired(scope, real)
  BY VariableHere
<1>2. Shape(q)
  BY ShapeOf
<1>3. /\ q.n = Len(new.locals) /\ q.n = p.n
      /\ q.at[d] = EnvAt(new, d)[name] /\ q.held[d] = HeldAt(its, d, name)
      /\ q.alts[d] = AltsAt(new, d, name)
      /\ q.arrays = {array \in new.arrays : array.name = name}
      /\ q.saves = {save \in new.saved : save.name = name}
      /\ q.now = env[name]
      /\ p.arrays = {array \in scope.arrays : array.name = name}
  BY <1>1, PartsOf DEF Sets
<1>4. q.at[d] = value /\ q.held[d] = held
  BY <1>1, <1>3 DEF Sets, Holds, Paired
<1>5. value # Unset
  BY UnsetAssumption
<1>6. Fits(q, d)
  BY <1>3, <1>4, <1>5 DEF Fits, TextOf
<1>7. q.arrays = {}
  BY <1>1, <1>3 DEF Agrees, ArrayAlone
<1>8. \A e \in 0 .. p.n : e # d =>
        AltsAt(new, e, name) = AltsAt(scope, e, name)
  OBVIOUS
<1>9. Put(p, q, d)
  BY <1>1, <1>6, <1>7, <1>8, PutIs
<1>10. Spares(scope, new, name)
  BY DEF Spares
<1> QED BY <1>2, <1>3, <1>4, <1>9, <1>10

(* An assignment to a name that is not exported.                           *)
LEMMA AssignedGoes ==
  ASSUME Here, NEW name \in Name, exported[name] = Unset,
         NEW d \in 0 .. Len(scope.locals),
         NEW value \in Text, NEW held \in HeldTexts, d # 0 => held # Unset,
         NEW new, Sound(new), NEW its, Paired(new, its),
         Changes(scope, new, d, name, value), Holds(real, its, d, name, held),
         \A e, other : (e # d \/ other # name) =>
           AltsAt(new, e, other) = AltsAt(scope, e, other),
         (\E array \in scope.arrays : array.name = name) => d = 0,
         \/ Shown(held) = value
         \/ /\ AltsAt(new, d, name) # {}
            /\ Shown(held) \in {<<>>} \cup AltsAt(new, d, name)
  PROVE  Goes(new, exported, its)
<1> DEFINE p == Variable(scope, exported, real, name)
           q == Variable(new, exported, its, name)
<1>1. /\ Shape(p) /\ Agrees(p) /\ p.now = exported[name] /\ exported \in Env
  BY VariableHere DEF Here
<1>2. /\ p.arrays = {array \in scope.arrays : array.name = name}
      /\ p.saves = {save \in scope.saved : save.name = name}
  BY PartsOf
<1> HIDE DEF p, q
<1>3. Sets(scope, new, d, name, value) /\ new.saved = scope.saved
      /\ new.arrays = {array \in scope.arrays :
                         ~(array.name = name /\ array.depth = d)}
  BY DEF Changes
<1>4. p.arrays # {} => d = 0
  BY <1>2
<1>5. /\ Shape(q) /\ Put(p, q, d) /\ q.now = exported[name]
      /\ q.saves = {save \in new.saved : save.name = name}
      /\ Spares(scope, new, name)
  BY <1>1, <1>3, <1>4, PutHere DEF p, q
<1>6. Agrees(q) /\ Lasts(p, q, p.n)
  BY <1>1, <1>2, <1>3, <1>5, AssignedAgrees
<1> QED BY <1>3, <1>5, <1>6, OneGoes DEF p, q

(* The arrays of a name are global, and then so is the name.               *)
LEMMA ArraysGlobal ==
  ASSUME Here, NEW name \in Name, NEW array \in scope.arrays, array.name = name
  PROVE  /\ LocalFrame(scope, name) = 0 /\ array.depth = 0
         /\ exported[name] = Unset
         /\ \A d \in 0 .. Len(scope.locals) : EnvAt(scope, d)[name] = Unset
         /\ Shown(RealAt(0)[name]) = Shown(array.values)
         /\ array.values \in Seq(Text)
<1> DEFINE p == Variable(scope, exported, real, name)
<1>1. /\ Shape(p) /\ Agrees(p) /\ Top(p, LocalFrame(scope, name))
      /\ p.now = exported[name] /\ p.n = Len(scope.locals) /\ p.n \in Nat
      /\ \A d \in 0 .. p.n : RealAt(d)[name] = p.held[d]
  BY VariableHere
<1>2. array \in p.arrays
      /\ \A d \in 0 .. p.n : p.at[d] = EnvAt(scope, d)[name]
  BY PartsOf
<1> HIDE DEF p
<1>3. LocalFrame(scope, name) = 0
  BY <1>1, <1>2, TopSaves
<1> QED BY <1>1, <1>2, <1>3 DEF Agrees, ArrayAlone, Shape

LEMMA SetVisibleGoes ==
  ASSUME Here, NEW token \in Token, ~token.append, exported[token.name] = Unset
  PROVE  Goes(SetVisible(scope, token.name, token.value), exported,
              RealAssign(RealDepth(token.name), token))
<1> DEFINE name == token.name
           value == token.value
           d == LocalFrame(scope, name)
           new == SetVisible(scope, name, value)
           its == RealAssign(RealDepth(name), token)
<1>1. name \in Name /\ value \in Text
  BY DEF Token
<1>2. d \in 0 .. Len(scope.locals) /\ RealDepth(name) = d
      /\ Sound(scope) /\ Beside(real)
  <2> DEFINE p == Variable(scope, exported, real, name)
  <2>1. p = Variable(scope, exported, real, name)
    OBVIOUS
  <2> HIDE DEF p, d
  <2> QED BY <1>1, <2>1, VariableHere DEF Here, d
<1>3. Sound(new) /\ Len(new.locals) = Len(scope.locals)
  BY <1>1, <1>2, SetVisibleSound
<1>4. Changes(scope, new, d, name, value) /\ new.alts = scope.alts
  BY <1>1, <1>2, SetVisibleChanges
<1>5. PICK held \in HeldTexts \ {Unset} :
        /\ Holds(real, its, d, name, held) /\ Paired(scope, its)
        /\ Shown(held) = value
  BY <1>2, RealAssignHolds DEF Beside
<1>6. Paired(new, its)
  BY <1>3, <1>5 DEF Paired
<1> HIDE DEF new, its
<1>7. \A e, other : AltsAt(new, e, other) = AltsAt(scope, e, other)
  BY <1>4, SameAlts
<1>8. (\E array \in scope.arrays : array.name = name) => d = 0
  BY <1>1, ArraysGlobal
<1> HIDE DEF d, name, value
<1>9. exported[name] = Unset
  BY DEF name
<1> QED
  <2>1. Goes(new, exported, its)
    BY <1>1, <1>2, <1>3, <1>4, <1>5, <1>6, <1>7, <1>8, <1>9, AssignedGoes
  <2> QED BY <2>1 DEF new, its, name, value

(* The alternatives that eval reads are those of the innermost depth.      *)
LEMMA AltValuesAre ==
  ASSUME Here, NEW name \in Name
  PROVE  /\ ToSet(AltValues(scope, name))
              = AltsAt(scope, LocalFrame(scope, name), name)
         /\ AltValues(scope, name) \in Seq(Text)
<1> DEFINE d == LocalFrame(scope, name)
           p == Variable(scope, exported, real, name)
           places == {i \in DOMAIN scope.alts :
                        /\ scope.alts[i].name = name
                        /\ AltVisible(scope, scope.alts[i])}
           seen == Selected(scope.alts, places)
           n == Len(seen)
<1>1. /\ scope.alts \in Seq(Alternative) /\ scope \in Scope
      /\ \A i \in DOMAIN scope.alts :
           scope.alts[i].depth \in 0 .. Len(scope.locals)
  BY DEF Here, Sound, Scope, Alternative, WithinFrames
<1>2. /\ DOMAIN seen = 1 .. n
      /\ ToSet(seen) = {scope.alts[i] : i \in {j \in DOMAIN scope.alts : j \in places}}
  BY <1>1, SelectedIs
<1>3. n \in Nat /\ \A i \in 1 .. n : seen[i].value \in Text
  <2>1. \A i \in DOMAIN scope.alts : scope.alts[i] \in Alternative
    BY <1>1, LenProperties, ElementOfSeq
  <2> HIDE DEF places
  <2>2. seen \in Seq(Alternative)
    BY <1>1, <2>1, SelectedTyped
  <2> HIDE DEF seen
  <2>3. \A i \in 1 .. n : seen[i] \in Alternative
    BY <2>2, ElementOfSeq
  <2> QED BY <2>2, <2>3, LenProperties DEF Alternative
<1>4. AltValues(scope, name) = [i \in 1 .. n |-> seen[i].value]
  BY <1>2 DEF AltValues
<1>5. /\ Agrees(p) /\ p.n = Len(scope.locals) /\ p.n \in Nat
      /\ Top(p, d) /\ d \in 0 .. p.n
  BY VariableHere
<1>6. \A e \in 0 .. p.n : /\ p.at[e] = EnvAt(scope, e)[name]
                          /\ p.alts[e] = AltsAt(scope, e, name)
  BY PartsOf
<1> HIDE DEF p
<1>7. \A i \in DOMAIN scope.alts : i \in places <=>
        scope.alts[i].name = name /\ scope.alts[i].depth = d
  <2> SUFFICES ASSUME NEW i \in DOMAIN scope.alts, scope.alts[i].name = name
               PROVE  AltVisible(scope, scope.alts[i])
                        <=> scope.alts[i].depth = d
    OBVIOUS
  <2> DEFINE e == scope.alts[i].depth
  <2>1. e \in 0 .. p.n
    BY <1>1, <1>5
  <2>2. e # 0 => p.at[e] # Unset
    <3>1. p.alts[e] # {}
      BY <1>6, <2>1 DEF AltsAt
    <3> QED BY <1>5, <2>1, <3>1 DEF Agrees, AltsOfLocals
  <2>3. \A f \in 1 .. p.n : p.at[f] = scope.locals[f][name]
    BY <1>5, <1>6 DEF EnvAt
  <2>4. AltVisible(scope, scope.alts[i])
          <=> IF e = 0 THEN d = 0
              ELSE \A f \in (e + 1) .. p.n : scope.locals[f][name] = Unset
    BY <1>5, <2>1 DEF AltVisible
  <2> HIDE DEF e, d
  <2>5. CASE e = 0
    BY <2>4, <2>5 DEF e
  <2>6. CASE e # 0
    <3>1. e = d => \A f \in (e + 1) .. p.n : scope.locals[f][name] = Unset
      BY <1>5, <2>1, <2>3, <2>6 DEF Top
    <3>2. (\A f \in (e + 1) .. p.n : scope.locals[f][name] = Unset) => e = d
      BY <1>5, <2>1, <2>2, <2>3, <2>6 DEF Top
    <3> QED BY <2>4, <2>6, <3>1, <3>2 DEF e
  <2> QED BY <2>5, <2>6
<1> HIDE DEF places, d
<1>8. AltsAt(scope, d, name) = {b.value : b \in ToSet(seen)}
  <2>1. ASSUME NEW text \in AltsAt(scope, d, name)
        PROVE  text \in {b.value : b \in ToSet(seen)}
    <3>1. PICK i \in DOMAIN scope.alts :
            /\ scope.alts[i].name = name /\ scope.alts[i].depth = d
            /\ text = scope.alts[i].value
      BY DEF AltsAt
    <3>2. scope.alts[i] \in ToSet(seen)
      BY <1>2, <1>7, <3>1
    <3> HIDE DEF seen
    <3> QED BY <3>1, <3>2
  <2>2. ASSUME NEW b \in ToSet(seen) PROVE b.value \in AltsAt(scope, d, name)
    <3>1. PICK i \in DOMAIN scope.alts : i \in places /\ b = scope.alts[i]
      BY <1>2
    <3> QED BY <1>7, <3>1 DEF AltsAt
  <2> QED BY <2>1, <2>2
<1> HIDE DEF seen, n
<1>9. ToSet(AltValues(scope, name)) = {b.value : b \in ToSet(seen)}
  BY <1>2, <1>4 DEF ToSet
<1>10. AltValues(scope, name) \in Seq(Text)
  BY <1>3, <1>4
<1> QED BY <1>8, <1>9, <1>10 DEF d

-----------------------------------------------------------------------------
LEMMA ShownTyped ==
  ASSUME NEW held \in HeldTexts
  PROVE  Shown(held) \in Text
<1>1. CASE held \in {Unset, <<>>}
  BY <1>1, EmptySeq DEF Shown, Text
<1>2. CASE held \notin {Unset, <<>>}
  <2>1. held \in Seq(Text) /\ Len(held) \in Nat \ {0}
    BY <1>2, EmptySeq DEF HeldTexts
  <2> QED BY <1>2, <2>1, ElementOfSeq DEF Shown
<1> QED BY <1>1, <1>2

LEMMA RealTextIs ==
  ASSUME Here, NEW name \in Name, NEW held,
         held = RealAt(LocalFrame(scope, name))[name]
  PROVE  RealText(name) = IF held = Unset THEN Unset ELSE Shown(held)
<1>1. RealDepth(name) = LocalFrame(scope, name)
  <2> DEFINE p == Variable(scope, exported, real, name)
  <2>1. p = Variable(scope, exported, real, name)
    OBVIOUS
  <2> HIDE DEF p
  <2> QED BY <2>1, VariableHere
<1> QED BY <1>1 DEF RealText, Shown

(* Eval reads the array of a name that has one.                            *)
LEMMA ArrayVisible ==
  ASSUME Here, NEW name \in Name
  PROVE  /\ VisibleArray(scope, name) = Unset
              => \A array \in scope.arrays : array.name # name
         /\ VisibleArray(scope, name) # Unset
              => \E array \in scope.arrays :
                   array.name = name /\ VisibleArray(scope, name) = array.values
<1> DEFINE e == VisibleDepth(scope, name)
           One(array) == array.depth = e /\ array.name = name
<1>1. VisibleArray(scope, name) =
        IF \E array \in scope.arrays : One(array)
        THEN (CHOOSE array \in scope.arrays : One(array)).values ELSE Unset
  BY DEF VisibleArray, HasArray
<1>2. VisibleArray(scope, name) # Unset
        => \E array \in scope.arrays :
             array.name = name /\ VisibleArray(scope, name) = array.values
  <2> SUFFICES ASSUME NEW array \in scope.arrays, One(array)
               PROVE  \E other \in scope.arrays :
                        other.name = name /\ VisibleArray(scope, name) = other.values
    BY <1>1
  <2>1. PICK other \in scope.arrays :
          One(other) /\ other = CHOOSE one \in scope.arrays : One(one)
    OBVIOUS
  <2> QED BY <1>1, <2>1
<1>3. ASSUME NEW array \in scope.arrays, array.name = name
      PROVE  VisibleArray(scope, name) # Unset
  <2>1. /\ array.depth = 0 /\ array.values \in Seq(Text)
        /\ \A d \in 0 .. Len(scope.locals) : EnvAt(scope, d)[name] = Unset
    BY <1>3, ArraysGlobal
  <2>2. \A other \in scope.arrays :
          other.name = name => other.depth = 0 /\ other.values \in Seq(Text)
    BY ArraysGlobal
  <2>3. Len(scope.locals) \in Nat
    BY LenProperties DEF Here, Sound, Scope
  <2>4. \A d \in 1 .. Len(scope.locals) :
          scope.locals[d][name] = Unset /\ ~HasArray(scope, name, d)
    <3>1. \A d \in 1 .. Len(scope.locals) :
            d # 0 /\ d \in 0 .. Len(scope.locals)
      BY <2>3
    <3> QED BY <2>1, <2>2, <3>1 DEF EnvAt, HasArray
  <2>5. e = 0
    BY <2>4 DEF VisibleDepth
  <2>6. One(array)
    BY <1>3, <2>1, <2>5
  <2>7. \A other \in scope.arrays : One(other) => other.values \in Seq(Text)
    BY <2>2
  <2> HIDE DEF One
  <2> QED BY <1>1, <2>6, <2>7, UnsetAssumption
<1> QED BY <1>2, <1>3

(* NAME+=value, where the scan has the one text that bash has.             *)
LEMMA GrownIs ==
  ASSUME NEW p, Shape(p), Agrees(p), NEW d \in 0 .. p.n, p.arrays = {},
         p.alts[d] = {}, ~OnlyInherited(p, d), NEW token \in Token, token.append
  PROVE  Shown(p.held[d]) \o token.value = Given(p.at[d], token)
<1>1. Shown(p.held[d]) = TextOf(p.at[d])
  BY DEF Agrees, TextsFit, Fits
<1>2. <<>> \o token.value = token.value
  BY ConcatEmptySeq DEF Token, Text
<1> QED BY <1>1, <1>2 DEF Given, TextOf

LEMMA GrowsFits ==
  ASSUME Here, NEW token \in Token, GrowsOne(token),
         NEW d \in 0 .. Len(scope.locals), NEW p,
         p = Variable(scope, exported, real, token.name), ~OnlyInherited(p, d)
  PROVE  (IF token.append THEN Shown(RealAt(d)[token.name]) \o token.value
          ELSE token.value) = Given(EnvAt(scope, d)[token.name], token)
<1>1. token.name \in Name /\ "append" \in DOMAIN token
  BY DEF Token
<1>2. /\ Shape(p) /\ Agrees(p) /\ d \in 0 .. p.n
      /\ p.held[d] = RealAt(d)[token.name]
      /\ p.at[d] = EnvAt(scope, d)[token.name]
      /\ p.alts[d] = AltsAt(scope, d, token.name)
      /\ p.arrays = {array \in scope.arrays : array.name = token.name}
  BY <1>1, VariableHere, PartsOf
<1>3. CASE token.append
  <2>1. /\ VisibleArray(scope, token.name) = Unset
        /\ \A i \in DOMAIN scope.alts : scope.alts[i].name # token.name
    BY <1>1, <1>3 DEF GrowsOne, Grows
  <2>2. p.arrays = {} /\ p.alts[d] = {}
    BY <1>1, <1>2, <2>1, ArrayVisible DEF AltsAt
  <2>3. Shown(p.held[d]) \o token.value = Given(p.at[d], token)
    BY <1>2, <1>3, <2>2, GrownIs
  <2> QED BY <1>2, <1>3, <2>3
<1> QED BY <1>3 DEF Given

LEMMA AssignsGo ==
  ASSUME Here, NEW token \in Token, NEW conditional,
         ~Frozen(token.name), GrowsOne(token), NEW taken,
         taken \/ (conditional /\ ~Skips(token)), NEW its,
         its = IF taken THEN RealAssign(RealDepth(token.name), token) ELSE real
  PROVE  Goes(AssignToken(scope, token, conditional), exported, its)
<1> DEFINE name == token.name
           d == LocalFrame(scope, name)
           value == Given(EnvAt(scope, d)[name], token)
           new == AssignToken(scope, token, conditional)
           p == Variable(scope, exported, real, name)
<1>1. name \in Name /\ exported[name] = Unset
  BY DEF Token, Frozen
<1>2. /\ Shape(p) /\ Agrees(p) /\ Top(p, d) /\ d \in 0 .. p.n
      /\ p.n = Len(scope.locals) /\ p.now = Unset /\ RealDepth(name) = d
      /\ RealAt(d)[name] = p.held[d] /\ p.held[d] \in HeldTexts
      /\ Paired(scope, real)
  BY <1>1, VariableHere
<1>3. /\ p.held[d] = HeldAt(real, d, name)
      /\ p.alts[d] = AltsAt(scope, d, name)
  BY <1>2, PartsOf
<1>4. ~OnlyInherited(p, d)
  <2> HIDE DEF p, d
  <2> QED BY <1>2, NowhereExported DEF OnlyInherited
<1>5. Sound(new) /\ Len(new.locals) = Len(scope.locals)
  BY AssignTokenSound DEF Here
<1>6. /\ Changes(scope, new, d, name, value) /\ value \in Text
      /\ \A e, other : (e # d \/ other # name) =>
           AltsAt(new, e, other) = AltsAt(scope, e, other)
      /\ conditional => value \in AltsAt(new, d, name)
      /\ conditional => AltsAt(scope, d, name) \subseteq AltsAt(new, d, name)
  <2>1. /\ d = LocalFrame(scope, token.name) /\ name = token.name
        /\ value = Given(EnvAt(scope, d)[token.name], token)
        /\ new = AssignToken(scope, token, conditional) /\ Sound(scope)
    BY DEF Here
  <2> HIDE DEF new, value, d, name
  <2> QED BY <2>1, AssignTokenChanges
<1>7. (\E array \in scope.arrays : array.name = name) => d = 0
  BY <1>1, ArraysGlobal
<1>8. Len(real.locals) = Len(scope.locals) /\ Beside(real)
  BY DEF Here, Beside
<1>9. CASE taken
  <2>1. its = RealAssign(d, token)
    BY <1>2, <1>9
  <2>2. PICK held \in HeldTexts \ {Unset} :
          /\ Holds(real, its, d, name, held) /\ Paired(scope, its)
          /\ Shown(held) = IF token.append
                           THEN Shown(RealAt(d)[name]) \o token.value
                           ELSE token.value
    BY <1>2, <1>8, <2>1, RealAssignHolds
  <2>3. Shown(held) = value
    <3> HIDE DEF p, d
    <3> QED BY <1>2, <1>4, <2>2, GrowsFits DEF p
  <2>4. Paired(new, its)
    BY <1>5, <2>2 DEF Paired
  <2> HIDE DEF p, d, value, new, name
  <2>5. Goes(new, exported, its)
    BY <1>1, <1>2, <1>5, <1>6, <1>7, <2>2, <2>3, <2>4, AssignedGoes
  <2> QED BY <2>5 DEF new
<1>10. CASE ~taken
  <2> DEFINE held == p.held[d]
  <2>1. its = real /\ conditional /\ ~Skips(token)
    BY <1>10
  <2>2. /\ held \in HeldTexts /\ Holds(real, its, d, name, held)
        /\ d # 0 => held # Unset
    <3>1. d # 0 => held # Unset
      <4> HIDE DEF p, d
      <4> QED BY <1>2 DEF Agrees, SameLocals, Top, Shape
    <3> HIDE DEF p, d
    <3> QED BY <1>2, <1>3, <2>1, <3>1, HoldsSame
  <2>3. Shown(held) \in {<<>>} \cup AltsAt(scope, d, name)
    <3> HIDE DEF p, d
    <3>1. RealText(name) = IF held = Unset THEN Unset ELSE Shown(held)
      BY <1>1, <1>2, RealTextIs DEF d
    <3>2. Shown(held) \in Text
      BY <2>2, ShownTyped
    <3>3. RealText(name) = Unset \/ RealText(name) \in AltsAt(scope, d, name)
      BY <1>1, <2>1, AltValuesAre DEF Skips, d
    <3>4. CASE held = Unset
      BY <3>4 DEF Shown
    <3>5. CASE held # Unset
      BY <3>1, <3>2, <3>3, <3>5, UnsetAssumption
    <3> QED BY <3>4, <3>5
  <2>4. Paired(new, its)
    BY <1>2, <1>5, <2>1 DEF Paired
  <2> HIDE DEF held
  <2>5. AltsAt(new, d, name) # {} /\ Shown(held) \in {<<>>} \cup AltsAt(new, d, name)
    BY <1>6, <2>1, <2>3
  <2> HIDE DEF p, d, value, new, name
  <2>6. Goes(new, exported, its)
    BY <1>1, <1>2, <1>5, <1>6, <1>7, <2>2, <2>4, <2>5, AssignedGoes
  <2> QED BY <2>6 DEF new
<1> QED BY <1>9, <1>10

-----------------------------------------------------------------------------
(* export of one name.                                                     *)

LEMMA OnlyOne ==
  /\ \A s \in SUBSET {1} : s = {} \/ s = {1}
  /\ Max({1}) = 1 /\ {1} \ {1} = {} /\ {1} # {}
<1>1. Max({1}) = 1
  <2>1. {1} \subseteq Int /\ \A m \in {1} : m <= 1
    OBVIOUS
  <2> QED BY <2>1, GreatestIs
<1> QED BY <1>1

LEMMA ApplyOne ==
  ASSUME NEW env, NEW known, NEW unexport, NEW word, NEW local
  PROVE  ApplyExports(env, known, unexport, <<word>>, local) =
           IF unexport
           THEN [[exported |-> env, scope |-> known] EXCEPT
                   !.exported = UnsetEnv(@, word.name)]
           ELSE ExportOne([exported |-> env, scope |-> known], word, local)
<1> DEFINE words == <<word>>
           base == [exported |-> env, scope |-> known]
           One(view, next) ==
             IF unexport
             THEN [view EXCEPT !.exported = UnsetEnv(@, next.name)]
             ELSE ExportOne(view, next, local)
           Iterates(h) == h = [s \in SUBSET DOMAIN words |->
                                 IF s = {} THEN base
                                 ELSE One(h[s \ {Max(s)}], words[Max(s)])]
           iter == CHOOSE h : Iterates(h)
           last == [s \in SUBSET {1} |->
                      IF s = {} THEN base ELSE One(base, word)]
<1>1. DOMAIN words = {1} /\ words[1] = word
  OBVIOUS
<1>2. ApplyExports(env, known, unexport, words, local) = iter[{1}]
  BY <1>1 DEF ApplyExports, FoldLeft, MapThenFoldSet, One
<1>3. One(base, word) =
        IF unexport THEN [base EXCEPT !.exported = UnsetEnv(@, word.name)]
        ELSE ExportOne(base, word, local)
  OBVIOUS
<1> HIDE DEF One, base, words
<1>4. Iterates(last)
  <2>1. /\ last[{}] = base /\ {1} \ {Max({1})} = {} /\ words[Max({1})] = word
    BY <1>1, OnlyOne
  <2>2. \A s \in SUBSET {1} :
          (IF s = {} THEN base ELSE One(base, word))
            = (IF s = {} THEN base ELSE One(last[s \ {Max(s)}], words[Max(s)]))
    BY <2>1, OnlyOne
  <2> HIDE DEF last
  <2>3. last = [s \in SUBSET {1} |->
                  IF s = {} THEN base
                  ELSE One(last[s \ {Max(s)}], words[Max(s)])]
    BY <2>2 DEF last
  <2> QED BY <1>1, <2>3
<1>5. Iterates(iter)
  BY <1>4
<1> HIDE DEF iter
<1>6. iter[{}] = base /\ iter[{1}] = One(iter[{}], word)
  BY <1>1, <1>5, OnlyOne
<1> QED BY <1>2, <1>3, <1>6 DEF base, words

LEMMA ExportedGoes ==
  ASSUME Here, NEW name \in Name, ~Leaks(name), NEW value \in Text,
         NEW held \in HeldTexts, NEW its, Paired(scope, its),
         NEW d, d = LocalFrame(scope, name),
         Holds(real, its, d, name, held), d # 0 => held # Unset,
         \/ Shown(held) = value
         \/ /\ AltsAt(scope, d, name) # {}
            /\ Shown(held) \in {<<>>} \cup AltsAt(scope, d, name)
  PROVE  Goes(SetVisible(scope, name, value), SetEnv(exported, name, value), its)
<1> DEFINE new == SetVisible(scope, name, value)
           env == SetEnv(exported, name, value)
           p == Variable(scope, exported, real, name)
           q == Variable(new, env, its, name)
<1>1. /\ Shape(p) /\ Agrees(p) /\ Top(p, d) /\ p.n = Len(scope.locals)
      /\ d \in 0 .. p.n
  BY VariableHere
<1>2. /\ p.arrays = {array \in scope.arrays : array.name = name}
      /\ p.saves = {save \in scope.saved : save.name = name}
  BY PartsOf
<1>3. p.arrays # {} => d = 0
  <2> HIDE DEF p
  <2> QED BY <1>1, TopSaves
<1>4. /\ env \in Env /\ env[name] = value
      /\ \A other \in Name \ {name} : env[other] = exported[other]
  BY DEF Here, SetEnv, Env
<1>5. Sound(new) /\ Len(new.locals) = Len(scope.locals)
  BY SetVisibleSound DEF Here
<1>6. Changes(scope, new, d, name, value) /\ new.alts = scope.alts
  BY SetVisibleChanges DEF Here
<1>7. Paired(new, its)
  BY <1>5 DEF Paired
<1> HIDE DEF p, q, new, env
<1>8. \A e, other : AltsAt(new, e, other) = AltsAt(scope, e, other)
  BY <1>6, SameAlts
<1>9. /\ Sets(scope, new, d, name, value) /\ new.saved = scope.saved
      /\ new.arrays = {array \in scope.arrays :
                         ~(array.name = name /\ array.depth = d)}
  BY <1>6 DEF Changes
<1>10. /\ Shape(q) /\ Put(p, q, d) /\ q.at[d] = value /\ q.now = env[name]
       /\ q.saves = {save \in new.saved : save.name = name}
       /\ Spares(scope, new, name)
  BY <1>1, <1>3, <1>4, <1>5, <1>7, <1>8, <1>9, PutHere DEF p, q
<1>11. d = 0 \/ \E save \in p.saves : save.depth = d
  BY <1>2 DEF Leaks
<1>12. Agrees(q) /\ Lasts(p, q, p.n)
  BY <1>1, <1>2, <1>4, <1>9, <1>10, <1>11, ExportedAgrees
<1> QED BY <1>4, <1>7, <1>9, <1>10, <1>12, OneGoes DEF p, q, new, env

(* export -n, outside of calls.                                            *)
LEMMA DroppedFollows ==
  ASSUME Here, NEW name \in Name, ~Inherited(name),
         scope.locals = <<>>
  PROVE  Follows(scope, UnsetEnv(exported, name), real)
<1> DEFINE env == UnsetEnv(exported, name)
           p == Variable(scope, exported, real, name)
           q == Variable(scope, env, real, name)
<1>1. /\ Shape(p) /\ Agrees(p) /\ p.n = 0 /\ Top(p, LocalFrame(scope, name))
      /\ p.now = exported[name]
      /\ Lookup(scope, name) = p.at[LocalFrame(scope, name)]
  BY VariableHere
<1>2. p.now \in {Unset, p.at[0]}
  <2> HIDE DEF p
  <2>1. LocalFrame(scope, name) = 0
    BY <1>1 DEF Top
  <2> QED BY <1>1, <2>1 DEF Inherited
<1>3. env[name] = Unset /\ \A other \in Name \ {name} : env[other] = exported[other]
  BY DEF Here, UnsetEnv, Env
<1>4. q = [p EXCEPT !.now = Unset]
  BY <1>3 DEF Variable
<1>5. Agrees(q)
  <2> HIDE DEF p, q
  <2> QED BY <1>1, <1>2, <1>4, DroppedAgrees
<1>6. \A other \in Name \ {name} :
        Variable(scope, env, real, other) = Variable(scope, exported, real, other)
  BY <1>3 DEF Variable
<1> HIDE DEF env
<1> QED BY <1>5, <1>6 DEF Follows, Here, env

(* What an export of a name that is exported already says of it.           *)
LEMMA ExportedIsHeld ==
  ASSUME NEW p, Shape(p), Agrees(p), NEW d, Top(p, d), p.now # Unset
  PROVE  /\ p.arrays = {}
         /\ p.at[d] \in {Unset, p.now}
         /\ \/ Shown(p.held[d]) = p.now
            \/ p.alts[d] # {} /\ Shown(p.held[d]) \in {<<>>} \cup p.alts[d]
<1>1. d \in 0 .. p.n /\ p.n \in Nat /\ Later(p, d) = p.now /\ p.arrays = {}
  <2>1. d \in 0 .. p.n /\ p.n \in Nat
    BY DEF Top, Shape
  <2> QED BY <2>1, TopSaves DEF Agrees, ArrayAlone
<1>2. p.at[d] \in {Unset, p.now}
  BY <1>1 DEF Agrees, ExportedIsSet
<1>3. CASE p.at[d] = Unset
  <2>1. d = 0
    BY <1>3 DEF Top
  <2>2. OnlyInherited(p, 0)
    BY <1>1, <1>3, <2>1 DEF OnlyInherited
  <2> QED BY <1>1, <1>2, <2>1, <2>2 DEF Agrees, InheritedIsHeld
<1>4. CASE p.at[d] # Unset
  BY <1>1, <1>2, <1>4 DEF Agrees, TextsFit, Fits, TextOf, OnlyInherited
<1> QED BY <1>1, <1>2, <1>3, <1>4

-----------------------------------------------------------------------------
LEMMA ExportTokenFits ==
  ASSUME Here, NEW token \in Token,
         GrowsOne(token), GrowsExported(token),
         NEW d, d = LocalFrame(scope, token.name)
  PROVE  (IF token.append THEN Shown(RealAt(d)[token.name]) \o token.value
          ELSE token.value) = Given(exported[token.name], token)
<1> DEFINE name == token.name
           p == Variable(scope, exported, real, name)
<1>1. name \in Name /\ "append" \in DOMAIN token
  BY DEF Token
<1>2. /\ Shape(p) /\ Agrees(p) /\ Top(p, d) /\ p.now = exported[name]
      /\ d \in 0 .. p.n /\ p.n = Len(scope.locals)
      /\ p.held[d] = RealAt(d)[name] /\ Lookup(scope, name) = p.at[d]
  BY <1>1, VariableHere
<1>3. /\ p.at[d] = EnvAt(scope, d)[name] /\ p.alts[d] = AltsAt(scope, d, name)
  BY <1>2, PartsOf
<1>4. ~token.append => (IF token.append
                        THEN Shown(RealAt(d)[name]) \o token.value
                        ELSE token.value) = Given(exported[name], token)
  BY DEF Given
<1>5. CASE token.append
  <2>1. p.alts[d] = {} /\ Grows(token)
    BY <1>1, <1>3, <1>5 DEF GrowsOne, Grows, AltsAt
  <2>2. CASE p.now # Unset
    <3> HIDE DEF p
    <3>1. Shown(p.held[d]) = p.now
      BY <1>2, <2>1, <2>2, ExportedIsHeld
    <3> QED BY <1>2, <1>5, <2>2, <3>1 DEF Given
  <2>3. CASE p.now = Unset
    <3>1. ~OnlyInherited(p, d)
      <4> HIDE DEF p
      <4> QED BY <1>2, <2>3, NowhereExported DEF OnlyInherited
    <3>2. Shown(RealAt(d)[name]) \o token.value = Given(EnvAt(scope, d)[name], token)
      BY <1>2, <1>5, <3>1, GrowsFits
    <3>3. EnvAt(scope, d)[name] \in {Unset, <<>>}
      BY <1>2, <1>3, <2>1, <2>3 DEF GrowsExported
    <3>4. <<>> \o token.value = token.value
      BY ConcatEmptySeq DEF Token, Text
    <3> QED BY <1>2, <1>5, <2>3, <3>2, <3>3, <3>4 DEF Given
  <2> QED BY <2>2, <2>3
<1> QED BY <1>4, <1>5

LEMMA ExportOneGoes ==
  ASSUME Here, NEW word \in Word, NEW prefix \in Seq(Token),
         ~Leaks(word.name), GrowsOne(word), GrowsExported(word),
         NEW local, local = WithPrefix(exported, prefix),
         NEW new,
         new = ExportOne([exported |-> exported, scope |-> scope], word, local),
         NEW told, told = CASE "append" \in DOMAIN word -> word
                            [] OTHER -> [name |-> word.name,
                                         value |-> local[word.name],
                                         append |-> FALSE],
         NEW its, its = IF "append" \in DOMAIN word \/ Prefixed(word.name, prefix)
                        THEN RealAssign(RealDepth(word.name), told) ELSE real
  PROVE  Goes(new.scope, new.exported, its)
<1> DEFINE name == word.name
           d == LocalFrame(scope, name)
           p == Variable(scope, exported, real, name)
           value == IF "append" \in DOMAIN word
                    THEN ApplyAssignment(exported, word)[name]
                    ELSE IF local[name] # Unset THEN local[name]
                         ELSE Lookup(scope, name)
           Fit(held) == \/ Shown(held) = value
                        \/ /\ AltsAt(scope, d, name) # {}
                           /\ Shown(held) \in {<<>>} \cup AltsAt(scope, d, name)
<1>1. /\ name \in Name
      /\ "append" \in DOMAIN word => word \in Token
  BY DEF Word, Token
<1>2. /\ Shape(p) /\ Agrees(p) /\ Top(p, d) /\ p.n = Len(scope.locals)
      /\ d \in 0 .. p.n /\ RealDepth(name) = d /\ p.now = exported[name]
      /\ Lookup(scope, name) = p.at[d] /\ Paired(scope, real)
      /\ p.held[d] \in HeldTexts
      /\ p.at[d] \in Text \cup {Unset} /\ p.n \in Nat
  BY <1>1, VariableHere
<1>3. /\ p.held[d] = HeldAt(real, d, name) /\ p.alts[d] = AltsAt(scope, d, name)
      /\ p.arrays = {array \in scope.arrays : array.name = name}
  BY <1>2, PartsOf
<1>4. /\ Prefixed(name, prefix) => local[name] \in Text
      /\ ~Prefixed(name, prefix) => local[name] = exported[name]
      /\ local \in Env
  BY <1>1, PrefixGives, WithPrefixTyped DEF Here
<1>5. Beside(real) /\ d \in 0 .. Len(real.locals)
  BY <1>2 DEF Here, Beside
<1>6. CASE "append" \in DOMAIN word \/ Prefixed(name, prefix)
  <2>1. told \in Token /\ told.name = name
    BY <1>1, <1>4, <1>6 DEF Token
  <2>2. PICK held \in HeldTexts \ {Unset} :
          /\ Holds(real, its, d, name, held) /\ Paired(scope, its)
          /\ Shown(held) = IF told.append
                           THEN Shown(RealAt(d)[name]) \o told.value
                           ELSE told.value
    <3>1. its = RealAssign(d, told)
      BY <1>2, <1>6
    <3> HIDE DEF d, name
    <3> QED BY <1>5, <2>1, <3>1, RealAssignHolds
  <2>3. value \in Text /\ Shown(held) = value
    <3>1. CASE "append" \in DOMAIN word
      <4>1. word \in Token /\ told = word
        BY <1>1, <3>1
      <4>2. value = Given(exported[name], word) /\ value \in Text
        BY <3>1, <4>1, ApplyGives DEF Here
      <4>3. (IF word.append THEN Shown(RealAt(d)[name]) \o word.value
             ELSE word.value) = Given(exported[name], word)
        BY <4>1, ExportTokenFits
      <4> HIDE DEF value
      <4> QED BY <2>2, <4>1, <4>2, <4>3
    <3>2. CASE "append" \notin DOMAIN word
      <4>1. Prefixed(name, prefix)
        BY <1>6, <3>2
      <4>2. ~told.append /\ told.value = local[name]
        BY <3>2
      <4>3. local[name] \in Text /\ value = local[name]
        BY <1>4, <3>2, <4>1, UnsetAssumption
      <4> HIDE DEF value
      <4> QED BY <2>2, <4>2, <4>3
    <3> QED BY <3>1, <3>2
  <2>4. new = [exported |-> SetEnv(exported, name, value),
               scope    |-> SetVisible(scope, name, value)]
    <3>1. value # Unset
      BY <2>3, UnsetAssumption
    <3> QED BY <3>1 DEF ExportOne
  <2> HIDE DEF value, d, name, p
  <2>5. Goes(SetVisible(scope, name, value), SetEnv(exported, name, value), its)
    BY <1>1, <2>2, <2>3, ExportedGoes DEF d, name
  <2> QED BY <2>4, <2>5
<1>7. CASE ~("append" \in DOMAIN word \/ Prefixed(name, prefix))
  <2>1. /\ its = real /\ local[name] = exported[name]
        /\ value = IF exported[name] # Unset THEN exported[name]
                   ELSE Lookup(scope, name)
    BY <1>4, <1>7
  <2>2. new = IF value = Unset THEN [exported |-> exported, scope |-> scope]
              ELSE [exported |-> SetEnv(exported, name, value),
                    scope    |-> SetVisible(scope, name, value)]
    BY <1>7 DEF ExportOne
  <2> DEFINE held == p.held[d]
  <2>3. value \in Text \cup {Unset}
    BY <1>1, <1>2, <2>1 DEF Here, Env
  <2>4. Holds(real, its, d, name, held)
    <3> HIDE DEF p, d
    <3> QED BY <1>3, <2>1, HoldsSame
  <2>5. ASSUME value # Unset PROVE Fit(held) /\ (d # 0 => held # Unset)
    <3> HIDE DEF value, p, d
    <3>1. d # 0 => held # Unset
      BY <1>2 DEF Agrees, SameLocals, Top
    <3>2. CASE p.now # Unset
      <4>1. value = p.now
        BY <1>2, <2>1, <3>2
      <4> QED BY <1>2, <1>3, <3>1, <3>2, <4>1, ExportedIsHeld
    <3>3. CASE p.now = Unset
      <4>1. value = p.at[d] /\ p.at[d] # Unset
        BY <1>2, <2>1, <2>5, <3>3
      <4>2. p.arrays = {} /\ Fits(p, d)
        BY <1>2, <4>1 DEF Agrees, ArrayAlone, TextsFit, OnlyInherited
      <4> QED BY <1>3, <3>1, <4>1, <4>2 DEF Fits, TextOf
    <3> QED BY <3>2, <3>3
  <2>6. CASE value = Unset
    BY <2>1, <2>2, <2>6, StaysGoes
  <2>7. CASE value # Unset
    <3>1. /\ new.scope = SetVisible(scope, name, value)
          /\ new.exported = SetEnv(exported, name, value)
      BY <2>2, <2>7
    <3>2. value \in Text
      BY <2>3, <2>7
    <3>3. Fit(held) /\ (d # 0 => held # Unset)
      BY <2>5, <2>7
    <3>4. held \in HeldTexts /\ Paired(scope, its)
      BY <1>2, <2>1
    <3> HIDE DEF value, p, d, name, held
    <3> QED BY <1>1, <2>4, <3>1, <3>2, <3>3, <3>4, ExportedGoes DEF d, name
  <2> QED BY <2>6, <2>7
<1> QED BY <1>6, <1>7

-----------------------------------------------------------------------------
(* declare, typeset, local and readonly of one name.                       *)

Nothing(known, base, flags) ==
  \/ base = "local" /\ known.locals = <<>>
  \/ base = "readonly" /\ ~(flags \subseteq {"a", "A", "p"})
Declared(known, word, toGlobal) ==
  IF "append" \in DOMAIN word THEN AssignDecl(known, word, toGlobal)
  ELSE RememberName(known, word.name, toGlobal)

LEMMA BindOne ==
  ASSUME NEW known, NEW env, NEW base, NEW flags, NEW word, NEW toGlobal,
         toGlobal = ToGlobal(known, base, flags), NEW new,
         new = BindDeclaration(known, env, base, flags, <<word>>)
  PROVE  new = IF Nothing(known, base, flags)
               THEN [scope |-> known, exported |-> env]
               ELSE IF "x" \in flags
               THEN ExportHere(Declared(known, word, toGlobal), env, word.name,
                               toGlobal)
               ELSE [scope |-> Declared(known, word, toGlobal), exported |-> env]
<1> DEFINE named == IF Nothing(known, base, flags) THEN <<>> ELSE <<word>>
           first == [scope |-> known, exported |-> env]
           One(view, next) ==
             IF "x" \in flags
             THEN ExportHere(Declared(view.scope, next, toGlobal), view.exported,
                             next.name, toGlobal)
             ELSE [view EXCEPT !.scope = Declared(@, next, toGlobal)]
           Iterates(h) == h = [s \in SUBSET DOMAIN named |->
                                 IF s = {} THEN first
                                 ELSE One(h[s \ {Max(s)}], named[Max(s)])]
           iter == CHOOSE h : Iterates(h)
<1>1. new = iter[DOMAIN named]
  BY DEF BindDeclaration, FoldLeft, MapThenFoldSet, Nothing, Declared
<1>2. One(first, word) =
        IF "x" \in flags
        THEN ExportHere(Declared(known, word, toGlobal), env, word.name, toGlobal)
        ELSE [scope |-> Declared(known, word, toGlobal), exported |-> env]
  OBVIOUS
<1>3. CASE Nothing(known, base, flags)
  <2>1. named = <<>> /\ DOMAIN named = {}
    BY <1>3
  <2> DEFINE last == [s \in SUBSET {} |-> first]
  <2> HIDE DEF named, One, first
  <2>2. \A s \in SUBSET {} : s = {}
    OBVIOUS
  <2>3. last = [s \in SUBSET {} |-> IF s = {} THEN first
                                    ELSE One(last[s \ {Max(s)}], named[Max(s)])]
    BY <2>2
  <2>4. Iterates(last)
    BY <2>1, <2>3
  <2>5. Iterates(iter)
    BY <2>4
  <2> HIDE DEF iter
  <2>6. iter[{}] = first
    BY <2>1, <2>5
  <2> QED BY <1>1, <1>3, <2>1, <2>6 DEF first
<1>4. CASE ~Nothing(known, base, flags)
  <2>1. DOMAIN named = {1} /\ named[1] = word
    BY <1>4
  <2> DEFINE last == [s \in SUBSET {1} |->
                        IF s = {} THEN first ELSE One(first, word)]
  <2> HIDE DEF named, One, first
  <2>2. Iterates(last)
    <3>1. /\ last[{}] = first /\ {1} \ {Max({1})} = {} /\ named[Max({1})] = word
      BY <2>1, OnlyOne
    <3>2. \A s \in SUBSET {1} :
            (IF s = {} THEN first ELSE One(first, word))
              = (IF s = {} THEN first ELSE One(last[s \ {Max(s)}], named[Max(s)]))
      BY <3>1, OnlyOne
    <3> HIDE DEF last
    <3>3. last = [s \in SUBSET {1} |->
                    IF s = {} THEN first
                    ELSE One(last[s \ {Max(s)}], named[Max(s)])]
      BY <3>2 DEF last
    <3> QED BY <2>1, <3>3
  <2>3. Iterates(iter)
    BY <2>2
  <2> HIDE DEF iter
  <2>4. iter[{}] = first /\ iter[{1}] = One(iter[{}], word)
    <3>1. \A s \in SUBSET {1} :
            iter[s] = IF s = {} THEN first
                      ELSE One(iter[s \ {Max(s)}], named[Max(s)])
      BY <2>1, <2>3
    <3>2. iter[{}] = first
      BY <3>1
    <3>3. /\ {1} \in SUBSET {1} /\ {1} # {} /\ {1} \ {Max({1})} = {}
          /\ named[Max({1})] = word
      BY <2>1, OnlyOne
    <3>4. iter[{1}] = One(iter[{1} \ {Max({1})}], named[Max({1})])
      BY <3>1, <3>3
    <3> QED BY <3>2, <3>3, <3>4
  <2> QED BY <1>1, <1>2, <1>4, <2>1, <2>4
<1> QED BY <1>3, <1>4

(* A bare name, where there is no array of it.                             *)
LEMMA RememberChanges ==
  ASSUME NEW known, Sound(known), NEW name \in Name, NEW toGlobal,
         NEW d, d = DeclDepth(known, toGlobal), NEW new,
         new = RememberName(known, name, toGlobal),
         \A array \in known.arrays : array.name # name
  PROVE  /\ new.alts = known.alts
         /\ IF EnvAt(known, d)[name] # Unset
            THEN Changes(known, new, d, name, EnvAt(known, d)[name])
            ELSE IF d = 0 /\ LocalFrame(known, name) # 0 THEN new = known
            ELSE Changes(known, new, d, name, <<>>)
<1>1. d \in 0 .. Len(known.locals) /\ known \in Scope
  BY DeclDepthTyped DEF Sound
<1>2. known.arrays = {array \in known.arrays :
                        ~(array.name = name /\ array.depth = d)}
  OBVIOUS
<1>3. CASE EnvAt(known, d)[name] # Unset
  <2>1. new = known
    BY <1>3 DEF RememberName
  <2> QED BY <1>2, <1>3, <2>1, SetsSame DEF Changes
<1>4. CASE EnvAt(known, d)[name] = Unset /\ d = 0 /\ LocalFrame(known, name) # 0
  <2>1. new = known
    BY <1>4 DEF RememberName
  <2> QED BY <1>4, <2>1
<1>5. CASE EnvAt(known, d)[name] = Unset /\ ~(d = 0 /\ LocalFrame(known, name) # 0)
  <2> DEFINE env == SetEnv(EnvAt(known, d), name, <<>>)
  <2>1. new = WithEnvAt(known, d, env)
    BY <1>5 DEF RememberName
  <2>2. EnvAt(known, d) \in Env
    BY <1>1, EnvAtTyped
  <2>3. /\ env \in Env /\ env[name] = <<>>
        /\ \A other \in Name \ {name} : env[other] = EnvAt(known, d)[other]
    BY <2>2, EmptySeq DEF SetEnv, Env, Text
  <2> HIDE DEF env
  <2>4. Sets(known, new, d, name, <<>>)
    BY <1>1, <2>1, <2>3, PutSets
  <2>5. new.alts = known.alts /\ new.saved = known.saved
        /\ new.arrays = known.arrays
    BY <1>1, <2>1, <2>3, PutSound
  <2> QED BY <1>2, <1>5, <2>4, <2>5 DEF Changes
<1> QED BY <1>3, <1>4, <1>5

(* What bash does there.                                                   *)
LEMMA RealDeclareIs ==
  ASSUME Here, NEW base \in Declares, NEW flags, NEW word \in Word,
         ~Nothing(scope, base, flags),
         base = "readonly" => LocalFrame(scope, word.name) = 0,
         NEW d, d = DeclDepth(scope, ToGlobal(scope, base, flags))
  PROVE  RealDeclare(base, flags, word) =
           IF "append" \in DOMAIN word THEN RealAssign(d, word)
           ELSE IF RealAt(d)[word.name] = Unset /\ base # "readonly"
           THEN RealStore(d, word.name, <<>>) ELSE real
<1>1. /\ RealDepth(word.name) = LocalFrame(scope, word.name)
      /\ Len(real.locals) = Len(scope.locals) /\ Len(scope.locals) \in Nat
      /\ scope.locals = <<>> <=> Len(scope.locals) = 0
      /\ real.locals = <<>> <=> Len(real.locals) = 0
  <2> DEFINE p == Variable(scope, exported, real, word.name)
  <2>1. word.name \in Name /\ p = Variable(scope, exported, real, word.name)
    BY DEF Word, Token
  <2> HIDE DEF p
  <2>2. RealDepth(word.name) = LocalFrame(scope, word.name)
    BY <2>1, VariableHere
  <2>3. /\ scope.locals \in Seq(Env) /\ real.locals \in Seq(RealEnv)
        /\ Len(real.locals) = Len(scope.locals)
    BY DEF Here, Sound, Scope, Beside, Real
  <2>4. /\ Len(scope.locals) \in Nat
        /\ scope.locals = <<>> <=> Len(scope.locals) = 0
        /\ real.locals = <<>> <=> Len(real.locals) = 0
    BY <2>3, LenProperties, EmptySeq
  <2> QED BY <2>2, <2>3, <2>4
<1>2. ~(base = "local" /\ real.locals = <<>>)
      /\ ~(base = "readonly" /\ ~(flags \subseteq {"a", "A", "p"}))
  BY <1>1 DEF Nothing
<1> DEFINE e == IF base = "readonly" THEN RealDepth(word.name)
                ELSE IF "g" \in flags THEN 0 ELSE Len(real.locals)
<1>3. d = e
  <2>1. CASE base = "readonly"
    BY <1>1, <2>1 DEF DeclDepth, ToGlobal
  <2>2. CASE base # "readonly" /\ "g" \in flags
    BY <2>2 DEF DeclDepth, ToGlobal, Declares
  <2>3. CASE base = "declare" /\ "g" \notin flags
    BY <1>1, <2>3 DEF DeclDepth, ToGlobal
  <2>4. CASE base = "local" /\ "g" \notin flags
    BY <1>1, <2>4 DEF DeclDepth, ToGlobal
  <2>5. base \in {"declare", "local", "readonly"}
    BY DEF Declares
  <2> HIDE DEF e
  <2> QED BY <2>1, <2>2, <2>3, <2>4, <2>5
<1>4. RealDeclare(base, flags, word) =
        IF "append" \in DOMAIN word THEN RealAssign(e, word)
        ELSE IF RealAt(e)[word.name] = Unset /\ base # "readonly"
        THEN RealStore(e, word.name, <<>>) ELSE real
  BY <1>2 DEF RealDeclare
<1>5. e = d
  BY <1>3
<1> HIDE DEF e
<1> QED BY <1>4, <1>5

-----------------------------------------------------------------------------
(* The name has a text at the depth of the declaration; ...                *)
Settled(new, its, d, name) ==
  \E value \in Text, held \in HeldTexts :
    /\ Changes(scope, new, d, name, value) /\ new.alts = scope.alts
    /\ Holds(real, its, d, name, held) /\ (d # 0 => held # Unset)
    /\ \/ Shown(held) = value
       \/ /\ AltsAt(scope, d, name) # {}
          /\ Shown(held) \in {<<>>} \cup AltsAt(scope, d, name)
(* ... or only bash marks it, globally.                                    *)
MarkedOnly(new, its, d, name) ==
  /\ new = scope /\ d = 0 /\ LocalFrame(scope, name) # 0
  /\ \E held \in HeldTexts :
       /\ Holds(real, its, 0, name, held)
       /\ Shown(held) = Shown(RealAt(0)[name])

LEMMA DeclaredIs ==
  ASSUME Here, NEW base \in Declares, NEW flags, NEW word \in Word,
         ~Nothing(scope, base, flags),
         base = "readonly" => LocalFrame(scope, word.name) = 0,
         ~IsArray(word.name), GrowsOne(word),
         NEW toGlobal, toGlobal = ToGlobal(scope, base, flags),
         NEW d, d = DeclDepth(scope, toGlobal),
         NEW p, p = Variable(scope, exported, real, word.name),
         ~OnlyInherited(p, d),
         NEW new, new = Declared(scope, word, toGlobal),
         NEW its, its = RealDeclare(base, flags, word)
  PROVE  /\ Sound(new) /\ Len(new.locals) = Len(scope.locals)
         /\ Paired(scope, its)
         /\ Settled(new, its, d, word.name) \/ MarkedOnly(new, its, d, word.name)
<1> DEFINE name == word.name
<1>1. /\ name \in Name
      /\ "append" \in DOMAIN word => word \in Token
  BY DEF Word, Token
<1>2. /\ Shape(p) /\ Agrees(p) /\ p.n = Len(scope.locals) /\ p.n \in Nat
      /\ Paired(scope, real) /\ Beside(real) /\ Sound(scope)
  BY <1>1, VariableHere DEF Here
<1>3. d \in 0 .. p.n /\ d \in 0 .. Len(real.locals)
      /\ d \in 0 .. Len(scope.locals)
  BY <1>2, DeclDepthTyped DEF Sound, Beside
<1>4. /\ p.held[d] = HeldAt(real, d, name) /\ p.alts[d] = AltsAt(scope, d, name)
      /\ p.at[d] = EnvAt(scope, d)[name] /\ p.held[d] = RealAt(d)[name]
      /\ p.arrays = {array \in scope.arrays : array.name = name}
      /\ p.held[d] \in HeldTexts /\ p.at[d] \in Text \cup {Unset}
  BY <1>1, <1>3, PartsOf, VariableHere
<1>5. \A array \in scope.arrays : array.name # name
  BY <1>1, ArrayVisible DEF IsArray
<1>6. its = IF "append" \in DOMAIN word THEN RealAssign(d, word)
            ELSE IF RealAt(d)[name] = Unset /\ base # "readonly"
            THEN RealStore(d, name, <<>>) ELSE real
  BY RealDeclareIs
<1>7. Sound(new) /\ Len(new.locals) = Len(scope.locals)
  BY <1>1, <1>2, AssignDeclSound, RememberSound DEF Declared
<1>8. Fits(p, d)
  BY <1>2, <1>3, <1>4, <1>5 DEF Agrees, TextsFit
<1> HIDE DEF name
<1>9. CASE "append" \in DOMAIN word
  <2> DEFINE value == Given(EnvAt(scope, d)[name], word)
  <2>1. word \in Token /\ its = RealAssign(d, word) /\ name = word.name
    BY <1>1, <1>6, <1>9 DEF name
  <2>2. PICK held \in HeldTexts \ {Unset} :
          /\ Holds(real, its, d, name, held) /\ Paired(scope, its)
          /\ Shown(held) = IF word.append
                           THEN Shown(RealAt(d)[name]) \o word.value
                           ELSE word.value
    BY <1>2, <1>3, <2>1, RealAssignHolds
  <2>3. Shown(held) = value
    BY <1>3, <2>1, <2>2, GrowsFits
  <2>4. value \in Text
    <3>1. EnvAt(scope, d) \in Env
      BY <1>2, <1>3, EnvAtTyped DEF Sound
    <3> QED BY <2>1, <3>1, ApplyGives
  <2>5. Changes(scope, new, d, name, value) /\ new.alts = scope.alts
    <3>1. new = AssignDecl(scope, word, toGlobal)
      BY <1>9 DEF Declared
    <3> HIDE DEF value
    <3> QED BY <1>2, <2>1, <3>1, AssignDeclChanges DEF value
  <2> HIDE DEF value
  <2>6. Settled(new, its, d, name)
    BY <2>2, <2>3, <2>4, <2>5 DEF Settled
  <2> QED BY <1>7, <2>2, <2>6 DEF name
<1>10. CASE "append" \notin DOMAIN word
  <2> DEFINE held == IF p.held[d] = Unset /\ base # "readonly" THEN <<>>
                     ELSE p.held[d]
  <2>1. /\ new.alts = scope.alts
        /\ IF p.at[d] # Unset THEN Changes(scope, new, d, name, p.at[d])
           ELSE IF d = 0 /\ LocalFrame(scope, name) # 0 THEN new = scope
           ELSE Changes(scope, new, d, name, <<>>)
    <3>1. new = RememberName(scope, name, toGlobal)
      BY <1>10 DEF Declared, name
    <3> QED BY <1>1, <1>2, <1>4, <1>5, <3>1, RememberChanges DEF name
  <2>2. held \in HeldTexts /\ Holds(real, its, d, name, held) /\ Paired(scope, its)
    <3>1. <<>> \in HeldTexts
      BY EmptySeq DEF HeldTexts
    <3>2. CASE p.held[d] = Unset /\ base # "readonly"
      <4>1. its = RealStore(d, name, <<>>)
        BY <1>4, <1>6, <1>10, <3>2
      <4> QED BY <1>1, <1>2, <1>3, <3>1, <3>2, <4>1, RealStoreHolds DEF name
    <3>3. CASE ~(p.held[d] = Unset /\ base # "readonly")
      <4>1. its = real
        BY <1>4, <1>6, <1>10, <3>3
      <4>2. Holds(real, real, d, name, HeldAt(real, d, name))
        BY HoldsSame
      <4>3. HeldAt(real, d, name) = p.held[d]
        BY <1>4
      <4> QED BY <1>2, <1>4, <3>3, <4>1, <4>2, <4>3
    <3> QED BY <3>2, <3>3
  <2>3. Shown(held) = Shown(p.held[d])
    BY DEF Shown
  <2>4. d # 0 => held # Unset
    <3>1. d # 0 => base # "readonly"
      BY DEF DeclDepth, ToGlobal
    <3> QED BY <3>1, EmptySeq, UnsetAssumption DEF Text
  <2> HIDE DEF held
  <2>5. CASE p.at[d] # Unset
    <3>1. p.at[d] \in Text /\ Changes(scope, new, d, name, p.at[d])
      BY <1>4, <2>1, <2>5
    <3>2. \/ Shown(held) = p.at[d]
          \/ /\ AltsAt(scope, d, name) # {}
             /\ Shown(held) \in {<<>>} \cup AltsAt(scope, d, name)
      BY <1>4, <1>8, <2>3, <2>5 DEF Fits, TextOf
    <3>3. Settled(new, its, d, name)
      BY <2>1, <2>2, <2>4, <3>1, <3>2 DEF Settled
    <3> QED BY <1>7, <2>2, <3>3 DEF name
  <2>6. CASE p.at[d] = Unset /\ d = 0 /\ LocalFrame(scope, name) # 0
    <3>1. MarkedOnly(new, its, d, name)
      BY <1>4, <2>1, <2>2, <2>3, <2>6 DEF MarkedOnly
    <3> QED BY <1>7, <2>2, <3>1 DEF name
  <2>7. CASE p.at[d] = Unset /\ ~(d = 0 /\ LocalFrame(scope, name) # 0)
    <3>1. <<>> \in Text /\ Changes(scope, new, d, name, <<>>)
      BY <2>1, <2>7, EmptySeq DEF Text
    <3>2. \/ Shown(held) = <<>>
          \/ /\ AltsAt(scope, d, name) # {}
             /\ Shown(held) \in {<<>>} \cup AltsAt(scope, d, name)
      BY <1>4, <1>8, <2>3, <2>7 DEF Fits, TextOf
    <3>3. Settled(new, its, d, name)
      BY <2>1, <2>2, <2>4, <3>1, <3>2 DEF Settled
    <3> QED BY <1>7, <2>2, <3>3 DEF name
  <2> QED BY <2>5, <2>6, <2>7
<1> QED BY <1>9, <1>10

(* A name that only bash marks.                                            *)
LEMMA MarkedGoes ==
  ASSUME Here, NEW name \in Name, NEW its, Paired(scope, its), NEW d,
         MarkedOnly(scope, its, d, name)
  PROVE  Goes(scope, exported, its)
<1> DEFINE p == Variable(scope, exported, real, name)
           q == Variable(scope, exported, its, name)
<1>1. PICK held \in HeldTexts : /\ Holds(real, its, 0, name, held)
                                /\ Shown(held) = Shown(RealAt(0)[name])
  BY DEF MarkedOnly
<1>2. /\ Shape(p) /\ Agrees(p) /\ p.n = Len(scope.locals) /\ p.n \in Nat
      /\ p.held[0] = RealAt(0)[name]
  BY VariableHere
<1>3. /\ q.n = p.n /\ q.at = p.at /\ q.alts = p.alts /\ q.arrays = p.arrays
      /\ q.saves = p.saves /\ q.now = p.now
      /\ \A e \in 0 .. p.n : /\ q.held[e] = HeldAt(its, e, name)
                             /\ p.held[e] = HeldAt(real, e, name)
  BY DEF Variable
<1>4. Len(real.locals) = p.n
  BY <1>2 DEF Here, Beside
<1> HIDE DEF p, q
<1>5. /\ \A e \in 1 .. p.n : q.held[e] = p.held[e]
      /\ q.held[0] = held
  BY <1>1, <1>2, <1>3, <1>4 DEF Holds
<1>6. Agrees(q) /\ Lasts(p, q, p.n)
  BY <1>1, <1>2, <1>3, <1>5, MarkedAgrees
<1>7. Sets(scope, scope, 0, name, EnvAt(scope, 0)[name])
      /\ Spares(scope, scope, name)
  BY SetsSame DEF Spares
<1> QED BY <1>1, <1>6, <1>7, OneGoes DEF p, q

-----------------------------------------------------------------------------
LEMMA SettledGoes ==
  ASSUME Here, NEW name \in Name, exported[name] = Unset,
         \A array \in scope.arrays : array.name # name,
         NEW d \in 0 .. Len(scope.locals), NEW new, Sound(new),
         Len(new.locals) = Len(scope.locals),
         NEW its, Paired(scope, its), Settled(new, its, d, name)
  PROVE  Goes(new, exported, its)
<1>1. PICK value \in Text, held \in HeldTexts :
        /\ Changes(scope, new, d, name, value) /\ new.alts = scope.alts
        /\ Holds(real, its, d, name, held) /\ (d # 0 => held # Unset)
        /\ \/ Shown(held) = value
           \/ /\ AltsAt(scope, d, name) # {}
              /\ Shown(held) \in {<<>>} \cup AltsAt(scope, d, name)
  BY DEF Settled
<1>2. \A e, other : AltsAt(new, e, other) = AltsAt(scope, e, other)
  BY <1>1, SameAlts
<1>3. Paired(new, its)
  BY DEF Paired
<1> QED BY <1>1, <1>2, <1>3, AssignedGoes

LEMMA SettledExported ==
  ASSUME Here, NEW name \in Name, \A array \in scope.arrays : array.name # name,
         NEW toGlobal, NEW d, d = DeclDepth(scope, toGlobal),
         d = 0 => LocalFrame(scope, name) = 0,
         NEW set, Sound(set), Len(set.locals) = Len(scope.locals),
         NEW its, Paired(scope, its), Settled(set, its, d, name),
         NEW out, out = ExportHere(set, exported, name, toGlobal)
  PROVE  Goes(out.scope, out.exported, its)
<1> DEFINE n == Len(scope.locals)
           p == Variable(scope, exported, real, name)
           q == Variable(out.scope, out.exported, its, name)
           s == Variable(set, exported, its, name)
           save == [depth |-> n, name |-> name, previous |-> exported[name]]
           first == \A old \in set.saved : ~(old.depth = n /\ old.name = name)
           saves == ~toGlobal /\ n # 0 /\ first
           new == IF saves THEN [set EXCEPT !.saved = @ \cup {save}] ELSE set
<1>1. PICK value \in Text, held \in HeldTexts :
        /\ Changes(scope, set, d, name, value) /\ set.alts = scope.alts
        /\ Holds(real, its, d, name, held) /\ (d # 0 => held # Unset)
        /\ \/ Shown(held) = value
           \/ /\ AltsAt(scope, d, name) # {}
              /\ Shown(held) \in {<<>>} \cup AltsAt(scope, d, name)
  BY DEF Settled
<1> DEFINE env == SetEnv(exported, name, value)
<1>2. /\ Shape(p) /\ Agrees(p) /\ Top(p, LocalFrame(scope, name)) /\ p.n = n
      /\ n \in Nat /\ p.now = exported[name]
  BY VariableHere
<1>3. /\ p.arrays = {array \in scope.arrays : array.name = name}
      /\ p.saves = {old \in scope.saved : old.name = name}
      /\ \A e \in 0 .. p.n : p.at[e] = EnvAt(scope, e)[name]
  BY PartsOf
<1>4. d = (IF toGlobal THEN 0 ELSE n) /\ d \in 0 .. n
  BY <1>2 DEF DeclDepth
<1>5. Top(s, LocalFrame(set, name)) /\ s.n = n
      /\ Lookup(set, name) = s.at[LocalFrame(set, name)]
      /\ \A e \in 0 .. s.n : s.at[e] = EnvAt(set, e)[name]
  BY TopOf, PartsOf
<1> HIDE DEF p, s
<1>6. value # Unset
  BY UnsetAssumption
<1>7. \A e \in 0 .. n : s.at[e] = IF e = d THEN value ELSE p.at[e]
  BY <1>1, <1>2, <1>3, <1>5 DEF Changes, Sets
<1>8. Top(s, d)
  <2>1. CASE d = n
    BY <1>2, <1>4, <1>5, <1>6, <1>7, <2>1 DEF Top
  <2>2. CASE d = 0
    <3>1. \A e \in 1 .. n : p.at[e] = Unset
      BY <1>2, <2>2 DEF Top
    <3> QED BY <1>2, <1>4, <1>5, <1>7, <2>2, <3>1 DEF Top
  <2> QED BY <1>4, <2>1, <2>2
<1>9. Lookup(set, name) = value
  <2>1. LocalFrame(set, name) = d
    BY <1>2, <1>5, <1>8 DEF Top
  <2> QED BY <1>4, <1>5, <1>7, <2>1
<1>10. out = [exported |-> env, scope |-> new]
  BY <1>6, <1>9 DEF ExportHere
<1>11. /\ env \in Env /\ env[name] = value
       /\ \A other \in Name \ {name} : env[other] = exported[other]
  BY DEF Here, SetEnv, Env
<1>12. /\ Sound(new) /\ Len(new.locals) = n
  <2>1. out \in Views(n)
    BY ExportHereSound DEF Here
  <2>2. Sound(out.scope) /\ Len(out.scope.locals) = n
    BY <2>1, ViewIs
  <2> HIDE DEF new, env
  <2> QED BY <1>10, <2>2
<1>13. /\ new.locals = set.locals /\ new.global = set.global
       /\ new.alts = set.alts /\ new.arrays = set.arrays
       /\ new.saved = IF saves THEN scope.saved \cup {save} ELSE scope.saved
  <2> HIDE DEF save, saves
  <2>1. set \in Scope /\ set.saved = scope.saved
    BY <1>1 DEF Sound, Changes
  <2> QED BY <2>1 DEF Scope
<1>14. out.scope = new /\ out.exported = env /\ q = Variable(new, env, its, name)
  BY <1>10
<1>15. save.depth = n /\ save.name = name /\ save.previous = exported[name]
  OBVIOUS
<1>16. saves <=> ~toGlobal /\ n # 0 /\ \A old \in p.saves : old.depth # n
  BY <1>1, <1>3 DEF Changes
<1> HIDE DEF new, env, save, saves, q
<1>17. /\ Sets(scope, new, d, name, value)
       /\ new.arrays = {array \in scope.arrays :
                          ~(array.name = name /\ array.depth = d)}
       /\ \A e, other : AltsAt(new, e, other) = AltsAt(scope, e, other)
  <2>1. \A e : EnvAt(new, e) = EnvAt(set, e)
    BY <1>13 DEF EnvAt
  <2>2. \A e, other : AltsAt(new, e, other) = AltsAt(scope, e, other)
    BY <1>1, <1>13, SameAlts
  <2> QED BY <1>1, <1>13, <2>1, <2>2 DEF Changes, Sets
<1>18. \A other \in Name \ {name} : {old \in new.saved : old.name = other}
         = {old \in scope.saved : old.name = other}
  BY <1>13, <1>15
<1>19. Paired(new, its)
  BY <1>12 DEF Paired
<1>20. p.arrays = {}
  BY <1>3
<1>21. /\ Shape(q) /\ Put(p, q, d) /\ q.at[d] = value /\ q.now = env[name]
       /\ q.saves = {old \in new.saved : old.name = name}
       /\ Spares(scope, new, name)
  BY <1>1, <1>4, <1>11, <1>12, <1>14, <1>17, <1>18, <1>19, <1>20, PutHere DEF p
<1>22. Agrees(q) /\ Lasts(p, q, p.n)
  <2>1. CASE saves
    <3>1. d = p.n /\ p.n # 0 /\ \A old \in p.saves : old.depth # p.n
      BY <1>2, <1>4, <1>16, <2>1
    <3>2. q.saves = p.saves \cup {save}
      BY <1>3, <1>13, <1>15, <1>21, <2>1
    <3> QED BY <1>2, <1>11, <1>15, <1>21, <3>1, <3>2, SavedAgrees
  <2>2. CASE ~saves
    <3>1. q.saves = p.saves
      BY <1>3, <1>13, <1>21, <2>2
    <3>2. Top(p, d) /\ (d = 0 \/ \E old \in p.saves : old.depth = d)
      <4>1. CASE d = 0
        BY <1>2, <4>1
      <4>2. CASE d # 0
        <5>1. d = n /\ ~toGlobal /\ n # 0
          BY <1>4, <4>2
        <5>2. PICK old \in p.saves : old.depth = n
          BY <1>16, <2>2, <5>1
        <5>3. p.at[n] # Unset
          BY <1>2, <5>2 DEF Agrees, SavesOfLocals
        <5> QED BY <1>2, <5>1, <5>2, <5>3 DEF Top
      <4> QED BY <4>1, <4>2
    <3> QED BY <1>2, <1>11, <1>21, <3>1, <3>2, ExportedAgrees
  <2> QED BY <2>1, <2>2
<1> QED BY <1>1, <1>11, <1>14, <1>17, <1>19, <1>21, <1>22, OneGoes DEF p

(* A declaration of one name.                                              *)
LEMMA DeclaresGo ==
  ASSUME Here, NEW base \in Declares, NEW flags, NEW word \in Word,
         "x" \in flags \/ ~Frozen(word.name),
         ~Inherited(word.name), ~IsArray(word.name), GrowsOne(word),
         ~({"g", "x"} \subseteq flags) \/ LocalFrame(scope, word.name) = 0,
         base # "readonly" \/ LocalFrame(scope, word.name) = 0,
         NEW out, out = BindDeclaration(scope, exported, base, flags, <<word>>),
         NEW its, its = RealDeclare(base, flags, word)
  PROVE  Goes(out.scope, out.exported, its)
<1> DEFINE name == word.name
           toGlobal == ToGlobal(scope, base, flags)
           d == DeclDepth(scope, toGlobal)
           new == Declared(scope, word, toGlobal)
           p == Variable(scope, exported, real, name)
<1>1. name \in Name
  BY DEF Word, Token
<1>2. /\ Shape(p) /\ Agrees(p) /\ p.n = Len(scope.locals) /\ p.n \in Nat
      /\ Top(p, LocalFrame(scope, name)) /\ p.now = exported[name]
      /\ Lookup(scope, name) = p.at[LocalFrame(scope, name)]
      /\ LocalFrame(scope, name) \in 0 .. p.n
  BY <1>1, VariableHere
<1>3. out = IF Nothing(scope, base, flags)
            THEN [scope |-> scope, exported |-> exported]
            ELSE IF "x" \in flags THEN ExportHere(new, exported, name, toGlobal)
            ELSE [scope |-> new, exported |-> exported]
  BY BindOne
<1>4. CASE Nothing(scope, base, flags)
  <2>1. real.locals = <<>> <=> scope.locals = <<>>
    <3>1. /\ scope.locals \in Seq(Env) /\ real.locals \in Seq(RealEnv)
          /\ Len(real.locals) = Len(scope.locals)
      BY DEF Here, Sound, Scope, Beside, Real
    <3> QED BY <3>1, EmptySeq
  <2>2. its = real
    BY <1>4, <2>1 DEF RealDeclare, Nothing
  <2> QED BY <1>3, <1>4, <2>2, StaysGoes
<1>5. CASE ~Nothing(scope, base, flags)
  <2>1. "x" \in flags /\ d = 0 => LocalFrame(scope, name) = 0
    <3> SUFFICES ASSUME "x" \in flags, d = 0
                 PROVE  LocalFrame(scope, name) = 0
      OBVIOUS
    <3>1. Len(scope.locals) = 0 => LocalFrame(scope, name) = 0
      <4> HIDE DEF p
      <4> QED BY <1>2
    <3>2. scope.locals = <<>> => Len(scope.locals) = 0
      OBVIOUS
    <3>3. base # "readonly"
      BY <1>5 DEF Nothing
    <3>4. CASE "g" \in flags
      BY <3>4
    <3>5. CASE "g" \notin flags
      <4>1. toGlobal <=> base = "declare" /\ scope.locals = <<>>
        BY <3>3, <3>5 DEF ToGlobal
      <4> QED BY <3>1, <3>2, <4>1 DEF DeclDepth
    <3> QED BY <3>4, <3>5
  <2>2. ~OnlyInherited(p, d)
    <3>1. CASE "x" \notin flags
      <4>1. p.now = Unset
        BY <1>2, <3>1 DEF Frozen
      <4> HIDE DEF p, d
      <4> QED BY <1>2, <4>1, NowhereExported DEF OnlyInherited
    <3>2. CASE "x" \in flags
      <4> SUFFICES ASSUME d = 0, p.at[0] = Unset, Later(p, 0) # Unset
                   PROVE  FALSE
        BY DEF OnlyInherited
      <4>1. LocalFrame(scope, name) = 0
        BY <2>1, <3>2
      <4>2. p.now \in {Unset, p.at[0]}
        BY <1>2, <4>1 DEF Inherited
      <4> HIDE DEF p, d
      <4>3. Later(p, 0) = p.now
        BY <1>2, <4>1, TopSaves
      <4> QED BY <4>2, <4>3
    <3> QED BY <3>1, <3>2
  <2>3. \A array \in scope.arrays : array.name # name
    BY <1>1, ArrayVisible DEF IsArray
  <2>4. d \in 0 .. Len(scope.locals)
    BY DeclDepthTyped DEF Here, Sound
  <2>5. /\ Sound(new) /\ Len(new.locals) = Len(scope.locals)
        /\ Paired(scope, its)
        /\ Settled(new, its, d, name) \/ MarkedOnly(new, its, d, name)
    <3>1. /\ toGlobal = ToGlobal(scope, base, flags)
          /\ d = DeclDepth(scope, toGlobal) /\ name = word.name
          /\ new = Declared(scope, word, toGlobal)
          /\ p = Variable(scope, exported, real, word.name)
      OBVIOUS
    <3> HIDE DEF p, new, d, toGlobal, name
    <3>2. base = "readonly" => LocalFrame(scope, word.name) = 0
      OBVIOUS
    <3> QED BY <1>5, <2>2, <3>1, <3>2, DeclaredIs
  <2> HIDE DEF new, p
  <2>6. CASE "x" \in flags
    <3>1. Settled(new, its, d, name)
      BY <2>1, <2>5, <2>6 DEF MarkedOnly
    <3>2. out = ExportHere(new, exported, name, toGlobal)
      BY <1>3, <1>5, <2>6
    <3> HIDE DEF name, toGlobal
    <3>3. d = 0 => LocalFrame(scope, name) = 0
      BY <2>1, <2>6
    <3> QED BY <1>1, <2>3, <2>5, <3>1, <3>2, <3>3, SettledExported
  <2>7. CASE "x" \notin flags
    <3>1. out.scope = new /\ out.exported = exported
      BY <1>3, <1>5, <2>7
    <3>2. exported[name] = Unset
      BY <2>7 DEF Frozen
    <3> HIDE DEF name, d
    <3>3. CASE Settled(new, its, d, name)
      BY <1>1, <2>3, <2>4, <2>5, <3>1, <3>2, <3>3, SettledGoes
    <3>4. CASE MarkedOnly(new, its, d, name)
      <4>1. new = scope
        BY <3>4 DEF MarkedOnly
      <4> QED BY <1>1, <2>5, <3>1, <3>4, <4>1, MarkedGoes
    <3> QED BY <2>5, <3>1, <3>3, <3>4
  <2> QED BY <2>6, <2>7
<1> QED BY <1>4, <1>5

-----------------------------------------------------------------------------
(* mapfile.                                                                *)

LEMMA SetArrayChanges ==
  ASSUME NEW known, Sound(known), NEW name \in Name, NEW values,
         NEW d, d = LocalFrame(known, name),
         NEW new, new = SetArray(known, name, values),
         NEW array, array = [depth |-> d, name |-> name, values |-> values]
  PROVE  /\ Sets(known, new, d, name, Unset)
         /\ new.alts = known.alts /\ new.saved = known.saved
         /\ new.arrays = {other \in known.arrays :
                            ~(other.name = name /\ other.depth = d)} \cup {array}
<1> DEFINE env == UnsetEnv(EnvAt(known, d), name)
           drop == DropArray(known, name, d)
           bare == WithEnvAt(drop, d, env)
<1>1. d \in 0 .. Len(known.locals) /\ known \in Scope
  BY FrameThere DEF Sound
<1>2. EnvAt(known, d) \in Env
  BY <1>1, EnvAtTyped
<1>3. /\ env \in Env /\ env[name] = Unset
      /\ \A other \in Name \ {name} : env[other] = EnvAt(known, d)[other]
  BY <1>2 DEF UnsetEnv, Env
<1>4. /\ Sound(drop) /\ drop.locals = known.locals
      /\ drop.alts = known.alts /\ drop.saved = known.saved
      /\ \A e : EnvAt(drop, e) = EnvAt(known, e)
      /\ drop.arrays = {other \in known.arrays :
                          ~(other.name = name /\ other.depth = d)}
  BY DropSound, DropSame
<1> HIDE DEF env, drop
<1>5. /\ Sets(drop, bare, d, name, Unset) /\ bare \in Scope
      /\ bare.alts = drop.alts /\ bare.saved = drop.saved
      /\ bare.arrays = drop.arrays
  <2>1. \A other \in Name \ {name} : env[other] = EnvAt(drop, d)[other]
    BY <1>3, <1>4
  <2>2. Sets(drop, bare, d, name, Unset)
    BY <1>1, <1>3, <1>4, <2>1, PutSets
  <2> QED BY <1>1, <1>3, <1>4, <2>2, PutSound DEF Sound
<1>6. new = [bare EXCEPT !.arrays = @ \cup {array}]
  BY DEF SetArray, env, drop
<1> HIDE DEF bare
<1>7. /\ new.locals = bare.locals /\ new.global = bare.global
      /\ new.alts = bare.alts /\ new.saved = bare.saved
      /\ new.arrays = bare.arrays \cup {array}
  BY <1>5, <1>6 DEF Scope
<1>8. Sets(known, new, d, name, Unset)
  BY <1>4, <1>5, <1>7 DEF Sets, EnvAt
<1> QED BY <1>4, <1>5, <1>7, <1>8

LEMMA SetArrayGoes ==
  ASSUME Here, NEW name \in Name, exported[name] = Unset,
         LocalFrame(scope, name) = 0, NEW values,
         NEW new, new = SetArray(scope, name, values), Sound(new),
         NEW its, its = RealStore(RealDepth(name), name, VisibleArray(new, name))
  PROVE  Goes(new, exported, its)
<1> DEFINE array == [depth |-> 0, name |-> name, values |-> values]
           p == Variable(scope, exported, real, name)
           q == Variable(new, exported, its, name)
<1>1. /\ Shape(p) /\ Agrees(p) /\ Top(p, 0) /\ p.n = Len(scope.locals)
      /\ p.n \in Nat /\ p.now = Unset /\ RealDepth(name) = 0
      /\ Paired(scope, real) /\ Sound(scope) /\ Beside(real)
      /\ exported \in Env
  BY VariableHere DEF Here
<1>2. /\ Sets(scope, new, 0, name, Unset)
      /\ new.alts = scope.alts /\ new.saved = scope.saved
      /\ new.arrays = {other \in scope.arrays :
                         ~(other.name = name /\ other.depth = 0)} \cup {array}
  <2>1. array = [depth |-> 0, name |-> name, values |-> values]
    OBVIOUS
  <2>2. 0 = LocalFrame(scope, name) /\ Sound(scope)
    BY <1>1
  <2> HIDE DEF array, p
  <2> QED BY <2>1, <2>2, SetArrayChanges
<1>3. array.depth = 0 /\ array.name = name /\ array.values = values
  OBVIOUS
<1> HIDE DEF array
<1>4. \A other \in scope.arrays : other.name = name => other.depth = 0
  BY ArraysGlobal
<1>5. {other \in new.arrays : other.name = name} = {array}
  BY <1>2, <1>3, <1>4
<1>6. /\ p.saves = {save \in scope.saved : save.name = name}
      /\ \A e \in 0 .. p.n : /\ p.at[e] = EnvAt(scope, e)[name]
                             /\ p.held[e] = HeldAt(real, e, name)
      /\ p.alts = [e \in 0 .. p.n |-> AltsAt(scope, e, name)]
  BY DEF Variable
<1>7. VisibleArray(new, name) = values
  <2>1. \A d : HasArray(new, name, d) <=> d = 0
    BY <1>3, <1>5 DEF HasArray
  <2>2. \A d \in 1 .. Len(new.locals) : new.locals[d][name] = Unset
    <3> HIDE DEF p
    <3>1. \A d \in 1 .. p.n : /\ d \in 0 .. p.n /\ d # 0
                              /\ EnvAt(scope, d)[name] = Unset
      BY <1>1, <1>6 DEF Top
    <3> QED BY <1>1, <1>2, <3>1 DEF Sets, EnvAt
  <2>3. VisibleDepth(new, name) = 0
    <3>1. \A d \in 1 .. Len(new.locals) : d # 0
      BY <1>1, <1>2 DEF Sets
    <3> QED BY <2>1, <2>2, <3>1 DEF VisibleDepth
  <2>4. {other \in new.arrays : other.depth = 0 /\ other.name = name} = {array}
    BY <1>3, <1>5
  <2>5. (CHOOSE other \in new.arrays : other.depth = 0 /\ other.name = name) = array
    BY <2>4
  <2> QED BY <1>3, <2>1, <2>3, <2>5 DEF VisibleArray
<1>8. values \in HeldTexts
  BY <1>3, <1>5 DEF Sound, Scope, HeldTexts
<1>9. Holds(real, its, 0, name, values) /\ Paired(scope, its)
  <2>1. its = RealStore(0, name, values)
    BY <1>1, <1>7
  <2>2. 0 \in 0 .. Len(real.locals)
    BY <1>1 DEF Paired
  <2> HIDE DEF p
  <2> QED BY <1>1, <1>8, <2>1, <2>2, RealStoreHolds
<1>10. Len(new.locals) = p.n /\ Paired(new, its)
  BY <1>1, <1>2, <1>9 DEF Paired, Sets
<1>11. /\ q.n = p.n /\ q.now = p.now
       /\ q.saves = {save \in new.saved : save.name = name}
       /\ q.arrays = {other \in new.arrays : other.name = name}
       /\ \A e \in 0 .. p.n : /\ q.at[e] = EnvAt(new, e)[name]
                              /\ q.held[e] = HeldAt(its, e, name)
       /\ q.alts = [e \in 0 .. p.n |-> AltsAt(new, e, name)]
  BY <1>10 DEF Variable
<1>12. Shape(q)
  BY <1>1, <1>10, ShapeOf
<1> HIDE DEF p, q
<1>13. \A e, other : AltsAt(new, e, other) = AltsAt(scope, e, other)
  BY <1>2, SameAlts
<1>14. q.saves = p.saves /\ q.arrays = {array} /\ q.alts = p.alts
  BY <1>2, <1>5, <1>6, <1>11, <1>13
<1>15. /\ q.at[0] = Unset /\ q.held[0] = values
       /\ \A e \in 1 .. p.n : q.at[e] = p.at[e] /\ q.held[e] = p.held[e]
  <2>1. /\ 0 \in 0 .. p.n
        /\ \A e \in 1 .. p.n : e \in 0 .. p.n /\ e # 0
        /\ Len(real.locals) = p.n
    BY <1>1 DEF Paired
  <2> QED BY <1>1, <1>2, <1>6, <1>9, <1>11, <2>1 DEF Sets, Holds
<1>16. Agrees(q) /\ Lasts(p, q, p.n)
  BY <1>1, <1>3, <1>11, <1>12, <1>14, <1>15, ArrayAgrees
<1>17. Spares(scope, new, name)
  BY <1>2, <1>3, <1>13 DEF Spares
<1> QED BY <1>2, <1>9, <1>10, <1>16, <1>17, OneGoes DEF p, q

LEMMA MapfilesGo ==
  ASSUME Here, NEW name \in Name, NEW opts \in MapfileOption,
         NEW input \in Input, ~Frozen(name), LocalFrame(scope, name) = 0,
         NEW given, given = CommandText(input),
         NEW bound, bound = BindMapfile(scope, name, opts, given.text),
         NEW large, large = (given.kind = "unscanned" \/ bound.unscanned),
         NEW set, set = IF given.kind = "text" THEN bound.scope ELSE scope,
         NEW held, held = IF given.kind = "text" /\ ~large
                          THEN RealStore(RealDepth(name), name,
                                         VisibleArray(bound.scope, name))
                          ELSE real
  PROVE  Goes(set, exported, held)
<1>1. Sound(bound.scope)
  BY CommandTextTyped, MapfileSound DEF Here
<1>2. bound.unscanned <=> opts.origin > MapfileOriginCap
  BY DEF BindMapfile
<1>3. \E values : bound.scope = IF opts.origin > MapfileOriginCap THEN scope
                                ELSE SetArray(scope, name, values)
  BY DEF BindMapfile
<1>4. CASE given.kind = "text" /\ ~large
  <2>1. PICK values : bound.scope = SetArray(scope, name, values)
    BY <1>2, <1>3, <1>4
  <2>2. exported[name] = Unset
    BY DEF Frozen
  <2>3. set = bound.scope
        /\ held = RealStore(RealDepth(name), name, VisibleArray(bound.scope, name))
    BY <1>4
  <2> QED BY <1>1, <2>1, <2>2, <2>3, SetArrayGoes
<1>5. CASE ~(given.kind = "text" /\ ~large)
  <2>1. set = scope /\ held = real
    BY <1>2, <1>3, <1>5
  <2> QED BY <2>1, StaysGoes
<1> QED BY <1>4, <1>5

-----------------------------------------------------------------------------
(* Calls, processes and returns.                                           *)

RealPushed == [real EXCEPT !.locals = Append(@, [name \in Name |-> Unset])]
RealPopped == [real EXCEPT !.locals = SubSeq(@, 1, Len(@) - 1)]

LEMMA CalledFollows ==
  ASSUME Here, NEW new, new = PushFrame(scope), NEW its,
         its = RealPushed
  PROVE  /\ Follows(new, exported, its)
         /\ Lasting(scope, exported, real, new, exported, its)
<1> DEFINE n == Len(scope.locals)
           bare == [name \in Name |-> Unset]
<1>1. /\ Sound(scope) /\ Beside(real) /\ scope \in Scope /\ real \in Real
      /\ scope.locals \in Seq(Env) /\ real.locals \in Seq(RealEnv)
      /\ n \in Nat /\ Len(real.locals) = n /\ exported \in Env
      /\ Paired(scope, real)
  BY LenProperties DEF Here, Sound, Scope, Beside, Real, Paired
<1>2. bare \in RealEnv /\ EmptyEnv \in Env /\ EmptyEnv = bare
  BY DEF RealEnv, EmptyEnv, Env
<1> DEFINE locals == Append(scope.locals, EmptyEnv)
           theirs == Append(real.locals, bare)
<1>3. /\ locals \in Seq(Env) /\ Len(locals) = n + 1 /\ locals[n + 1] = EmptyEnv
      /\ \A e \in 1 .. n : locals[e] = scope.locals[e]
  BY <1>1, <1>2, AppendProperties
<1>4. /\ theirs \in Seq(RealEnv) /\ Len(theirs) = n + 1 /\ theirs[n + 1] = bare
      /\ \A e \in 1 .. n : theirs[e] = real.locals[e]
  BY <1>1, <1>2, AppendProperties
<1>5. new = [scope EXCEPT !.locals = locals] /\ its = [real EXCEPT !.locals = theirs]
  BY DEF PushFrame, RealPushed
<1> HIDE DEF locals, theirs
<1>6. /\ new.locals = locals /\ new.global = scope.global
      /\ new.alts = scope.alts /\ new.saved = scope.saved
      /\ new.arrays = scope.arrays
      /\ its.locals = theirs /\ its.global = real.global /\ its \in Real
  BY <1>1, <1>4, <1>5 DEF Scope, Real
<1>7. Sound(new) /\ Paired(new, its)
  BY <1>1, <1>3, <1>4, <1>6, PushSound DEF Paired
<1>8. ASSUME NEW name \in Name
      PROVE  /\ Agrees(Variable(new, exported, its, name))
             /\ Lasts(Variable(scope, exported, real, name),
                      Variable(new, exported, its, name), n)
  <2> DEFINE p == Variable(scope, exported, real, name)
             q == Variable(new, exported, its, name)
  <2>1. Shape(p) /\ Agrees(p) /\ p.n = n
    BY VariableHere
  <2>2. Shape(q)
    BY <1>1, <1>7, ShapeOf
  <2>3. /\ q.n = n + 1 /\ q.now = p.now /\ q.saves = p.saves
        /\ q.arrays = p.arrays
        /\ \A e \in 0 .. q.n : /\ q.at[e] = EnvAt(new, e)[name]
                               /\ q.held[e] = HeldAt(its, e, name)
                               /\ q.alts[e] = AltsAt(new, e, name)
        /\ \A e \in 0 .. p.n : /\ p.at[e] = EnvAt(scope, e)[name]
                               /\ p.held[e] = HeldAt(real, e, name)
                               /\ p.alts[e] = AltsAt(scope, e, name)
    BY <1>3, <1>6 DEF Variable
  <2> HIDE DEF p, q
  <2>4. \A e, other : AltsAt(new, e, other) = AltsAt(scope, e, other)
    BY <1>6, SameAlts
  <2>5. \A e \in 0 .. n : e \in 0 .. (n + 1) /\ (e # 0 => e \in 1 .. n)
    BY <1>1
  <2>6. \A e \in 0 .. p.n : /\ q.at[e] = p.at[e] /\ q.held[e] = p.held[e]
                            /\ q.alts[e] = p.alts[e]
    <3>1. \A e \in 0 .. n : EnvAt(new, e) = EnvAt(scope, e)
      BY <1>3, <1>6, <2>5 DEF EnvAt
    <3>2. \A e \in 0 .. n : HeldAt(its, e, name) = HeldAt(real, e, name)
      BY <1>4, <1>6, <2>5 DEF HeldAt
    <3> QED BY <2>1, <2>3, <2>4, <2>5, <3>1, <3>2
  <2>7. q.at[n + 1] = Unset /\ q.held[n + 1] = Unset
    <3>1. n + 1 \in 0 .. (n + 1) /\ n + 1 # 0
      BY <1>1
    <3>2. bare[name] = Unset
      OBVIOUS
    <3>3. EnvAt(new, n + 1) = EmptyEnv
      BY <1>3, <1>6, <3>1 DEF EnvAt
    <3>4. HeldAt(its, n + 1, name) = bare[name]
      BY <1>4, <1>6, <3>1 DEF HeldAt
    <3>5. q.at[n + 1] = EmptyEnv[name] /\ q.held[n + 1] = bare[name]
      BY <2>1, <2>3, <3>1, <3>3, <3>4
    <3> QED BY <1>2, <3>2, <3>5
  <2>8. q.alts[n + 1] = {}
    <3>1. \A i \in DOMAIN scope.alts : scope.alts[i].depth # n + 1
      BY <1>1 DEF Sound, WithinFrames
    <3>2. n + 1 \in 0 .. (n + 1)
      BY <1>1
    <3> QED BY <1>6, <2>3, <3>1, <3>2 DEF AltsAt
  <2>9. Agrees(q) /\ Lasts(p, q, p.n)
    BY <2>1, <2>2, <2>3, <2>6, <2>7, <2>8, CalledAgrees
  <2> QED BY <2>1, <2>9 DEF p, q
<1> QED BY <1>8 DEF Follows, Lasting

(* A process of its own.                                                   *)
LEMMA StartedFollows ==
  ASSUME NEW env \in Env
  PROVE  Follows(EmptyScope, env, RealFrom(env))
<1> SUFFICES ASSUME NEW name \in Name, NEW p,
                    p = Variable(EmptyScope, env, RealFrom(env), name)
             PROVE  Agrees(p)
  BY DEF Follows
<1>1. /\ Sound(EmptyScope) /\ Len(EmptyScope.locals) = 0
      /\ Paired(EmptyScope, RealFrom(env))
  BY EmptySound, EmptyRealTyped DEF Paired
<1>2. Shape(p)
  BY <1>1, ShapeOf
<1>3. /\ p.n = 0 /\ p.at[0] = EnvAt(EmptyScope, 0)[name]
      /\ p.held[0] = HeldAt(RealFrom(env), 0, name)
      /\ p.alts[0] = AltsAt(EmptyScope, 0, name)
      /\ p.arrays = {array \in EmptyScope.arrays : array.name = name}
      /\ p.saves = {save \in EmptyScope.saved : save.name = name}
      /\ p.now = env[name]
  BY <1>1, PartsOf
<1>4. p.at[0] = Unset /\ p.alts[0] = {} /\ p.arrays = {} /\ p.saves = {}
  <2>1. /\ EmptyScope.global = EmptyEnv /\ EmptyScope.alts = <<>>
        /\ EmptyScope.arrays = {} /\ EmptyScope.saved = {}
    BY DEF EmptyScope
  <2>2. EmptyEnv[name] = Unset
    BY DEF EmptyEnv
  <2>3. DOMAIN EmptyScope.alts = {}
    BY <2>1
  <2> QED BY <1>3, <2>1, <2>2, <2>3 DEF EnvAt, AltsAt
<1>5. Shown(p.held[0]) = TextOf(p.now)
  <2>1. p.held[0] = IF env[name] = Unset THEN Unset ELSE <<env[name]>>
    BY <1>3 DEF HeldAt, RealFrom
  <2>2. CASE env[name] = Unset
    BY <1>3, <2>1, <2>2 DEF Shown, TextOf
  <2>3. CASE env[name] # Unset
    <3>1. env[name] \in Text
      BY <2>3 DEF Env
    <3>2. <<env[name]>> \in Seq(Text) /\ <<env[name]>> # <<>>
      BY <3>1
    <3>3. p.held[0] = <<env[name]>> /\ p.now = env[name]
      BY <1>3, <2>1, <2>3
    <3>4. <<env[name]>> # Unset /\ <<env[name]>>[1] = env[name]
      BY <3>2, UnsetAssumption
    <3> QED BY <2>3, <3>2, <3>3, <3>4 DEF Shown, TextOf
  <2> QED BY <2>2, <2>3
<1> QED BY <1>2, <1>3, <1>4, <1>5, StartedAgrees

(* A return, when what it leaves exported is what was saved.               *)
LEMMA ReturnedFollows ==
  ASSUME Here, scope.locals # <<>>, NEW n, n = Len(scope.locals) - 1,
         NEW new, new = PopScope(scope), NEW its,
         its = RealPopped,
         NEW env \in Env,
         \A name \in Name :
           env[name] = Later(Variable(scope, exported, real, name), n)
  PROVE  /\ Follows(new, env, its)
         /\ \A name \in Name, e \in 0 .. n :
              Later(Variable(new, env, its, name), e)
                = Later(Variable(scope, exported, real, name), e)
<1> DEFINE locals == SubSeq(scope.locals, 1, n)
           theirs == SubSeq(real.locals, 1, n)
           below == {i \in DOMAIN scope.alts : scope.alts[i].depth <= n}
<1>1. /\ Sound(scope) /\ Beside(real) /\ scope \in Scope /\ real \in Real
      /\ scope.locals \in Seq(Env) /\ real.locals \in Seq(RealEnv)
      /\ Len(real.locals) = Len(scope.locals) /\ exported \in Env
      /\ Paired(scope, real) /\ scope.alts \in Seq(Alternative)
  BY DEF Here, Sound, Scope, Beside, Real, Paired, Alternative
<1>2. n \in Nat /\ Len(scope.locals) = n + 1 /\ real.locals # <<>>
  <2>1. Len(scope.locals) \in Nat \ {0}
    BY <1>1, EmptySeq
  <2> QED BY <1>1, <2>1
<1>3. /\ locals \in Seq(Env) /\ Len(locals) = n
      /\ \A e \in 1 .. n : locals[e] = scope.locals[e]
  <2>1. n = Len(scope.locals) - 1
    OBVIOUS
  <2> QED BY <1>1, <1>2, <2>1, FrontTyped
<1>4. /\ theirs \in Seq(RealEnv) /\ Len(theirs) = n
      /\ \A e \in 1 .. n : theirs[e] = real.locals[e]
  <2>1. n = Len(real.locals) - 1
    BY <1>1
  <2> QED BY <1>1, <1>2, <2>1, FrontTyped
<1>5. /\ new = [scope EXCEPT !.locals = locals,
                             !.saved  = {save \in scope.saved : save.depth # n + 1},
                             !.alts   = Selected(scope.alts, below),
                             !.arrays = {array \in scope.arrays : array.depth <= n}]
      /\ its = [real EXCEPT !.locals = theirs]
  BY <1>1, <1>2 DEF PopScope, AltsUpTo, RealPopped
<1> HIDE DEF locals, theirs, below
<1>6. /\ new.locals = locals /\ new.global = scope.global
      /\ new.alts = Selected(scope.alts, below)
      /\ new.saved = {save \in scope.saved : save.depth # n + 1}
      /\ new.arrays = {array \in scope.arrays : array.depth <= n}
      /\ its.locals = theirs /\ its.global = real.global /\ its \in Real
  BY <1>1, <1>4, <1>5 DEF Scope, Real
<1>7. Sound(new) /\ Paired(new, its)
  BY <1>1, <1>3, <1>4, <1>6, PopSound DEF Paired
<1>8. \A e \in 0 .. n : \A name : AltsAt(new, e, name) = AltsAt(scope, e, name)
  <2>1. \A e \in 0 .. n : \A name : \A j \in DOMAIN scope.alts :
          scope.alts[j].name = name /\ scope.alts[j].depth = e => j \in below
    BY <1>2 DEF below
  <2>2. new.alts = Selected(scope.alts, below)
    BY <1>6
  <2>3. ASSUME NEW e \in 0 .. n, NEW name
        PROVE  AltsAt(new, e, name) = AltsAt(scope, e, name)
    <3>1. Keeps(scope, below, e, name)
      BY <2>1 DEF Keeps
    <3> QED BY <1>1, <2>2, <3>1, AltsKept
  <2> QED BY <2>3
<1>9. ASSUME NEW name \in Name
      PROVE  LET p == Variable(scope, exported, real, name)
                 q == Variable(new, env, its, name)
             IN  Agrees(q) /\ \A e \in 0 .. n : Later(q, e) = Later(p, e)
  <2> DEFINE p == Variable(scope, exported, real, name)
             q == Variable(new, env, its, name)
  <2>1. Shape(p) /\ Agrees(p) /\ p.n = n + 1
    BY <1>2, VariableHere
  <2>2. Shape(q)
    BY <1>7, ShapeOf
  <2>3. /\ q.n = n /\ q.now = env[name]
        /\ q.saves = {save \in new.saved : save.name = name}
        /\ q.arrays = {array \in new.arrays : array.name = name}
        /\ p.saves = {save \in scope.saved : save.name = name}
        /\ p.arrays = {array \in scope.arrays : array.name = name}
        /\ \A e \in 0 .. q.n : /\ q.at[e] = EnvAt(new, e)[name]
                               /\ q.held[e] = HeldAt(its, e, name)
                               /\ q.alts[e] = AltsAt(new, e, name)
        /\ \A e \in 0 .. p.n : /\ p.at[e] = EnvAt(scope, e)[name]
                               /\ p.held[e] = HeldAt(real, e, name)
                               /\ p.alts[e] = AltsAt(scope, e, name)
    BY <1>3, <1>6 DEF Variable
  <2>4. q.now = Later(p, n)
    BY <2>3
  <2> HIDE DEF p, q
  <2>5. \A e \in 0 .. n : e \in 0 .. (n + 1) /\ (e # 0 => e \in 1 .. n)
    BY <1>2
  <2>6. \A e \in 0 .. q.n : /\ q.at[e] = p.at[e] /\ q.held[e] = p.held[e]
                            /\ q.alts[e] = p.alts[e]
    <3>1. \A e \in 0 .. n : EnvAt(new, e) = EnvAt(scope, e)
      BY <1>3, <1>6, <2>5 DEF EnvAt
    <3>2. \A e \in 0 .. n : HeldAt(its, e, name) = HeldAt(real, e, name)
      BY <1>4, <1>6, <2>5 DEF HeldAt
    <3> QED BY <1>8, <2>1, <2>3, <2>5, <3>1, <3>2
  <2>7. q.saves = {save \in p.saves : save.depth # p.n}
    BY <1>6, <2>1, <2>3
  <2>8. q.arrays = p.arrays
    <3>1. \A array \in scope.arrays : array.name = name => array.depth = 0
      BY ArraysGlobal
    <3>2. 0 <= n
      BY <1>2
    <3> QED BY <1>6, <2>3, <3>1, <3>2
  <2>9. p.n = q.n + 1
    BY <2>1, <2>3
  <2>10. q.now = Later(p, q.n)
    BY <2>3, <2>4
  <2> QED
    <3>1. Agrees(q) /\ \A e \in 0 .. q.n : Later(q, e) = Later(p, e)
      BY <2>1, <2>2, <2>6, <2>7, <2>8, <2>9, <2>10, ReturnedAgrees
    <3> QED BY <2>3, <3>1 DEF p, q
<1> QED BY <1>9 DEF Follows

-----------------------------------------------------------------------------
(* What eval reads.                                                        *)

LEMMA AddNewKeeps ==
  ASSUME NEW values \in Seq(Text), NEW text \in Text, NEW all,
         all = AddNew(values, text)
  PROVE  /\ all \in Seq(Text) /\ Len(all) \in Nat
         /\ Len(all) <= Len(values) + 1
         /\ ToSet(values) \subseteq ToSet(all) /\ text \in ToSet(all)
<1>1. Len(values) \in Nat /\ DOMAIN values = 1 .. Len(values)
  BY LenProperties
<1>2. CASE Contains(values, text)
  <2>1. all = values
    BY <1>2 DEF AddNew
  <2>2. text \in ToSet(values)
    BY <1>1, <1>2 DEF Contains, ToSet
  <2> QED BY <1>1, <2>1, <2>2
<1>3. CASE ~Contains(values, text)
  <2>1. all = Append(values, text)
    BY <1>3 DEF AddNew
  <2>2. /\ all \in Seq(Text) /\ Len(all) = Len(values) + 1
        /\ all[Len(values) + 1] = text
        /\ \A i \in 1 .. Len(values) : all[i] = values[i]
    BY <2>1, AppendProperties
  <2>3. DOMAIN all = 1 .. (Len(values) + 1)
    BY <2>2, LenProperties
  <2>4. Len(values) + 1 \in DOMAIN all /\ \A i \in DOMAIN values : i \in DOMAIN all
    BY <1>1, <2>3
  <2>5. \A i \in DOMAIN values : all[i] = values[i]
    BY <1>1, <2>2
  <2> QED BY <1>1, <2>2, <2>4, <2>5 DEF ToSet
<1> QED BY <1>2, <1>3

LEMMA AllAdded ==
  ASSUME NEW base \in Seq(Text), NEW seq \in Seq(Text), NEW all,
         all = FoldLeft(AddNew, base, seq)
  PROVE  /\ all \in Seq(Text) /\ Len(all) <= Len(base) + Len(seq)
         /\ ToSet(base) \subseteq ToSet(all) /\ ToSet(seq) \subseteq ToSet(all)
<1> DEFINE n == Len(seq)
           step == [pair \in Seq(Text) \X Text |-> AddNew(pair[1], pair[2])]
           Iterates(h) == h = [s \in SUBSET DOMAIN seq |->
                                 IF s = {} THEN base
                                 ELSE AddNew(h[s \ {Max(s)}], seq[Max(s)])]
           iter == CHOOSE h : Iterates(h)
<1>1. /\ DOMAIN seq = 1 .. n /\ n \in Nat /\ Len(base) \in Nat
      /\ \A i \in 1 .. n : seq[i] \in Text
  BY LenProperties, ElementOfSeq
<1>2. step \in [Seq(Text) \X Text -> Seq(Text)]
  BY AddNewKeeps
<1>3. \A s \in SUBSET (1 .. n) : s # {} =>
        /\ s \ {Max(s)} \in SUBSET (1 .. (Max(s) - 1)) /\ Max(s) \in 1 .. n
        /\ s \ {Max(s)} \in SUBSET (1 .. n)
        /\ Max(s) \in s /\ seq[Max(s)] \in Text
  <2> SUFFICES ASSUME NEW s \in SUBSET (1 .. n), s # {}
               PROVE  /\ s \ {Max(s)} \in SUBSET (1 .. (Max(s) - 1))
                      /\ Max(s) \in s
    BY <1>1
  <2> HIDE DEF n
  <2> QED BY <1>1, GreatestThere
<1>4. all = iter[1 .. n]
  BY <1>1 DEF FoldLeft, MapThenFoldSet
<1>5. PICK h \in [SUBSET (1 .. n) -> Seq(Text)] : Folds(h, 1 .. n, base, step, seq)
  <2> HIDE DEF step
  <2> QED BY <1>2, FoldThere
<1>6. Iterates(h)
  BY <1>1, <1>3, <1>5 DEF Folds
<1>7. Iterates(iter)
  BY <1>6
<1> HIDE DEF iter
<1>8. \A s \in SUBSET (1 .. n) :
        iter[s] = IF s = {} THEN base
                  ELSE AddNew(iter[s \ {Max(s)}], seq[Max(s)])
  BY <1>1, <1>7
<1> HIDE DEF n
<1> DEFINE Added(s) == IF s = {} THEN 0 ELSE Max(s)
           Done == {s \in SUBSET (1 .. n) :
                      /\ iter[s] \in Seq(Text)
                      /\ Len(iter[s]) <= Len(base) + Added(s)
                      /\ ToSet(base) \subseteq ToSet(iter[s])
                      /\ \A i \in s : seq[i] \in ToSet(iter[s])}
<1>9. {} \in Done
  <2>1. iter[{}] = base
    BY <1>8
  <2> QED BY <1>1, <2>1
<1>10. ASSUME NEW s \in SUBSET (1 .. n), s # {}, s \ {Max(s)} \in Done
       PROVE  s \in Done
  <2> DEFINE top == Max(s)
             kept == iter[s \ {top}]
             new == iter[s]
  <2>1. /\ kept \in Seq(Text) /\ Len(kept) <= Len(base) + Added(s \ {top})
        /\ ToSet(base) \subseteq ToSet(kept)
        /\ \A i \in s \ {top} : seq[i] \in ToSet(kept)
        /\ new = AddNew(kept, seq[top])
    BY <1>3, <1>8, <1>10
  <2>2. /\ top \in s /\ top \in 1 .. n /\ seq[top] \in Text
        /\ s \ {top} \in SUBSET (1 .. (top - 1)) /\ s \ {top} \in SUBSET (1 .. n)
    BY <1>3, <1>10
  <2>3. Added(s \ {top}) <= top - 1 /\ Added(s \ {top}) \in Nat
    <3>1. CASE s \ {top} = {}
      BY <1>1, <2>2, <3>1
    <3>2. CASE s \ {top} # {}
      <4>1. Max(s \ {top}) \in s \ {top}
        BY <1>3, <2>2, <3>2
      <4>2. Added(s \ {top}) = Max(s \ {top})
        BY <3>2
      <4> HIDE DEF Added, top
      <4>3. Max(s \ {top}) \in 1 .. (top - 1)
        BY <2>2, <4>1
      <4> QED BY <1>1, <2>2, <4>2, <4>3
    <3> QED BY <3>1, <3>2
  <2>4. Added(s) = top
    BY <1>10
  <2> HIDE DEF top, kept, Added, new
  <2>5. /\ new \in Seq(Text) /\ Len(new) \in Nat /\ Len(new) <= Len(kept) + 1
        /\ ToSet(kept) \subseteq ToSet(new) /\ seq[top] \in ToSet(new)
        /\ Len(kept) \in Nat
    BY <2>1, <2>2, AddNewKeeps, LenProperties
  <2>6. Len(new) <= Len(base) + Added(s)
    BY <1>1, <2>1, <2>2, <2>3, <2>4, <2>5
  <2>7. \A i \in s : seq[i] \in ToSet(new)
    BY <2>1, <2>5
  <2> QED BY <2>1, <2>5, <2>6, <2>7 DEF new
<1> HIDE DEF Done
<1>11. 1 .. n \in Done
  BY <1>1, <1>9, <1>10, FoldAlong
<1>12. /\ all \in Seq(Text) /\ Len(all) <= Len(base) + Added(1 .. n)
       /\ ToSet(base) \subseteq ToSet(all)
       /\ \A i \in 1 .. n : seq[i] \in ToSet(all)
  BY <1>4, <1>11 DEF Done
<1>13. Added(1 .. n) \in 0 .. n
  <2>1. 1 .. n \in SUBSET (1 .. n)
    OBVIOUS
  <2>2. 1 .. n # {} => Max(1 .. n) \in 1 .. n
    BY <1>3, <2>1
  <2>3. CASE 1 .. n = {}
    BY <1>1, <2>3 DEF Added
  <2>4. CASE 1 .. n # {}
    <3>1. Added(1 .. n) = Max(1 .. n)
      BY <2>4 DEF Added
    <3> QED BY <1>1, <2>2, <2>4, <3>1
  <2> QED BY <2>3, <2>4
<1> HIDE DEF Added
<1>14. Len(all) <= Len(base) + Len(seq)
  <2>1. Len(all) \in Nat
    BY <1>12, LenProperties
  <2> QED BY <1>1, <1>12, <1>13, <2>1 DEF n
<1> QED BY <1>1, <1>12, <1>14 DEF ToSet

-----------------------------------------------------------------------------
LEMMA OnceIs ==
  ASSUME NEW m \in Nat
  PROVE  1 * m = m
OBVIOUS

LEMMA SmallQuotient ==
  ASSUME NEW m \in Nat, NEW j \in Nat, j < m
  PROVE  j \div m = 0
OBVIOUS

LEMMA SmallRemainder ==
  ASSUME NEW m \in Nat, NEW j \in Nat, j < m
  PROVE  j % m = j
OBVIOUS

(* Gluing texts to nothing leaves them.                                    *)
LEMMA CombineFirst ==
  ASSUME NEW S, NEW parts \in Seq(S), Len(parts) \in 1 .. EvalVariantCap,
         NEW separator
  PROVE  Combine(<< <<>> >>, parts, separator) = parts
<1> DEFINE n == Len(parts)
           base == << <<>> >>
           glued(left, right) ==
             IF left = <<>> THEN right ELSE left \o separator \o right
<1>1. n \in Nat \ {0} /\ n <= EvalVariantCap /\ EvalVariantCap \in Nat
      /\ parts = [k \in 1 .. n |-> parts[k]]
  BY VariantAssumption, LenProperties
<1>2. Len(base) = 1 /\ base[1] = <<>>
  OBVIOUS
<1>3. Least(1 * n, EvalVariantCap) = n
  <2>1. 1 * n = n
    BY <1>1, OnceIs
  <2> HIDE DEF n
  <2> QED BY <1>1, <2>1 DEF Least
<1>4. \A k \in 1 .. n : (k - 1) \div n = 0 /\ (k - 1) % n = k - 1
  <2> SUFFICES ASSUME NEW k \in 1 .. n
               PROVE  (k - 1) \div n = 0 /\ (k - 1) % n = k - 1
    OBVIOUS
  <2> HIDE DEF n
  <2>1. k - 1 \in Nat /\ k - 1 < n
    BY <1>1
  <2> QED BY <1>1, <2>1, SmallQuotient, SmallRemainder
<1>5. Combine(base, parts, separator) =
        [k \in 1 .. Least(Len(base) * n, EvalVariantCap) |->
           glued(base[(k - 1) \div n + 1], parts[((k - 1) % n) + 1])]
  BY DEF Combine
<1>6. \A right : glued(<<>>, right) = right
  OBVIOUS
<1> HIDE DEF n, base, glued
<1>7. \A k \in 1 .. n : glued(base[(k - 1) \div n + 1], parts[((k - 1) % n) + 1])
                          = parts[k]
  <2> SUFFICES ASSUME NEW k \in 1 .. n
               PROVE  glued(base[(k - 1) \div n + 1], parts[((k - 1) % n) + 1])
                        = parts[k]
    OBVIOUS
  <2>1. (k - 1) \div n + 1 = 1 /\ ((k - 1) % n) + 1 = k
    BY <1>1, <1>4
  <2> QED BY <1>2, <1>6, <2>1
<1> QED
  <2>1. Combine(base, parts, separator) = [k \in 1 .. n |-> parts[k]]
    BY <1>2, <1>3, <1>5, <1>7
  <2> QED BY <1>1, <2>1 DEF base

LEMMA ExpandOne ==
  ASSUME NEW known, NEW env, NEW local, NEW spec, NEW original, NEW single,
         NEW word, word = [single |-> single,
                           pieces |-> <<[spec |-> spec, original |-> original]>>]
  PROVE  ExpandEvalWord(known, env, local, word) =
           Combine(<< <<>> >>,
                   ParameterText(known, env, local, spec, single, original), <<>>)
<1> DEFINE piece == [spec |-> spec, original |-> original]
           pieces == <<piece>>
           base == << <<>> >>
           One(texts, next) ==
             Combine(texts,
                     IF "spec" \in DOMAIN next
                     THEN ParameterText(known, env, local, next.spec,
                                        word.single, next.original)
                     ELSE <<next.text>>, <<>>)
           Iterates(h) == h = [s \in SUBSET DOMAIN pieces |->
                                 IF s = {} THEN base
                                 ELSE One(h[s \ {Max(s)}], pieces[Max(s)])]
           iter == CHOOSE h : Iterates(h)
           last == [s \in SUBSET {1} |->
                      IF s = {} THEN base ELSE One(base, piece)]
<1>1. DOMAIN pieces = {1} /\ pieces[1] = piece /\ word.pieces = pieces
  OBVIOUS
<1>2. ExpandEvalWord(known, env, local, word) = iter[{1}]
  BY <1>1 DEF ExpandEvalWord, FoldLeft, MapThenFoldSet
<1>3. One(base, piece) =
        Combine(base, ParameterText(known, env, local, spec, single, original),
                <<>>)
  OBVIOUS
<1> HIDE DEF One, base, pieces, piece
<1>4. Iterates(last)
  <2>1. /\ last[{}] = base /\ {1} \ {Max({1})} = {} /\ pieces[Max({1})] = piece
    BY <1>1, OnlyOne
  <2>2. \A s \in SUBSET {1} :
          (IF s = {} THEN base ELSE One(base, piece))
            = (IF s = {} THEN base ELSE One(last[s \ {Max(s)}], pieces[Max(s)]))
    BY <2>1, OnlyOne
  <2> HIDE DEF last
  <2>3. last = [s \in SUBSET {1} |->
                  IF s = {} THEN base
                  ELSE One(last[s \ {Max(s)}], pieces[Max(s)])]
    BY <2>2 DEF last
  <2> QED BY <1>1, <2>3
<1>5. Iterates(iter)
  BY <1>4
<1> HIDE DEF iter
<1>6. iter[{}] = base /\ iter[{1}] = One(iter[{}], piece)
  <2>1. \A s \in SUBSET {1} :
          iter[s] = IF s = {} THEN base
                    ELSE One(iter[s \ {Max(s)}], pieces[Max(s)])
    BY <1>1, <1>5
  <2>2. iter[{}] = base
    BY <2>1
  <2>3. /\ {1} \in SUBSET {1} /\ {1} # {} /\ {1} \ {Max({1})} = {}
        /\ pieces[Max({1})] = piece
    BY <1>1, OnlyOne
  <2> QED BY <2>1, <2>2, <2>3
<1>7. iter[{1}] = Combine(base, ParameterText(known, env, local, spec, single,
                                              original), <<>>)
  BY <1>3, <1>6
<1>8. ExpandEvalWord(known, env, local, word) =
        Combine(base, ParameterText(known, env, local, spec, single, original),
                <<>>)
  BY <1>2, <1>7
<1> QED BY <1>8 DEF base

LEMMA ScriptsOne ==
  ASSUME NEW known, NEW env, NEW local, NEW word
  PROVE  EvalScripts(known, env, local, <<word>>) =
           Combine(<< <<>> >>, ExpandEvalWord(known, env, local, word), <<Blank>>)
<1> DEFINE words == <<word>>
           base == << <<>> >>
           One(texts, next) ==
             Combine(texts, ExpandEvalWord(known, env, local, next), <<Blank>>)
           Iterates(h) == h = [s \in SUBSET DOMAIN words |->
                                 IF s = {} THEN base
                                 ELSE One(h[s \ {Max(s)}], words[Max(s)])]
           iter == CHOOSE h : Iterates(h)
           last == [s \in SUBSET {1} |->
                      IF s = {} THEN base ELSE One(base, word)]
<1>1. DOMAIN words = {1} /\ words[1] = word
  OBVIOUS
<1>2. EvalScripts(known, env, local, words) = iter[{1}]
  BY <1>1 DEF EvalScripts, FoldLeft, MapThenFoldSet
<1> HIDE DEF One, base, words
<1>4. Iterates(last)
  <2>1. /\ last[{}] = base /\ {1} \ {Max({1})} = {} /\ words[Max({1})] = word
    BY <1>1, OnlyOne
  <2>2. \A s \in SUBSET {1} :
          (IF s = {} THEN base ELSE One(base, word))
            = (IF s = {} THEN base ELSE One(last[s \ {Max(s)}], words[Max(s)]))
    BY <2>1, OnlyOne
  <2> HIDE DEF last
  <2>3. last = [s \in SUBSET {1} |->
                  IF s = {} THEN base
                  ELSE One(last[s \ {Max(s)}], words[Max(s)])]
    BY <2>2 DEF last
  <2> QED BY <1>1, <2>3
<1>5. Iterates(iter)
  BY <1>4
<1> HIDE DEF iter
<1>6. iter[{}] = base /\ iter[{1}] = One(iter[{}], word)
  BY <1>1, <1>5, OnlyOne
<1> QED BY <1>2, <1>6 DEF base, One, words

-----------------------------------------------------------------------------
(* The texts of one parameter.                                             *)

LEMMA OneText ==
  ASSUME NEW S, NEW text \in S
  PROVE  << text >> \in Seq(S) /\ Len(<< text >>) = 1 /\ text \in ToSet(<< text >>)
BY DEF ToSet

(* The value of the shell, and those of its alternatives.                  *)
LEMMA ValuesCover ==
  ASSUME Here, NEW name \in Name,
         Len(AltValues(scope, name)) < EvalVariantCap,
         NEW here, here = ShellValue(scope, exported, name),
         NEW base, base = (IF here = Unset THEN <<>> ELSE <<here>>), NEW alts,
         alts = AltValues(scope, name), NEW values,
         values = FoldLeft(AddNew, base, alts)
  PROVE  /\ values \in Seq(Text) /\ Len(values) \in 0 .. EvalVariantCap
         /\ here # Unset => here \in ToSet(values)
         /\ AltsAt(scope, LocalFrame(scope, name), name) \subseteq ToSet(values)
<1>1. here \in Text \cup {Unset}
  <2>1. exported \in Env /\ Lookup(scope, name) \in Text \cup {Unset}
    BY LookupTyped DEF Here, Sound
  <2> QED BY <2>1 DEF ShellValue, Env
<1>2. /\ base \in Seq(Text) /\ Len(base) \in 0 .. 1
      /\ here # Unset => here \in ToSet(base)
  <2>1. CASE here = Unset
    BY <2>1, EmptySeq
  <2>2. CASE here # Unset
    <3>1. here \in Text /\ base = <<here>>
      BY <1>1, <2>2
    <3> QED BY <3>1, OneText
  <2> QED BY <2>1, <2>2
<1>3. /\ alts \in Seq(Text) /\ Len(alts) \in Nat
      /\ ToSet(alts) = AltsAt(scope, LocalFrame(scope, name), name)
  BY AltValuesAre, LenProperties
<1>5. /\ values \in Seq(Text) /\ Len(values) <= Len(base) + Len(alts)
      /\ ToSet(base) \subseteq ToSet(values) /\ ToSet(alts) \subseteq ToSet(values)
  BY <1>2, <1>3, AllAdded
<1>6. Len(values) \in 0 .. EvalVariantCap
  <2>1. Len(values) \in Nat
    BY <1>5, LenProperties
  <2>2. Len(alts) < EvalVariantCap
    OBVIOUS
  <2>3. \A v, a \in Nat, b \in 0 .. 1 :
          v <= b + a /\ a < EvalVariantCap => v \in 0 .. EvalVariantCap
    BY VariantAssumption
  <2>4. Len(values) <= Len(base) + Len(alts)
    BY <1>5
  <2>5. Len(base) \in 0 .. 1 /\ Len(alts) \in Nat
    BY <1>2, <1>3
  <2> QED BY <2>1, <2>2, <2>3, <2>4, <2>5
<1> QED BY <1>1, <1>2, <1>3, <1>5, <1>6

LEMMA HeldCovered ==
  ASSUME Here, NEW name \in Name, VisibleArray(scope, name) = Unset,
         NEW here, here = ShellValue(scope, exported, name),
         NEW wanted, wanted = RealText(name), wanted \notin {Unset, <<>>}
  PROVE  \/ here # Unset /\ wanted = here
         \/ wanted \in AltsAt(scope, LocalFrame(scope, name), name)
<1> DEFINE d == LocalFrame(scope, name)
           p == Variable(scope, exported, real, name)
<1>1. /\ Shape(p) /\ Agrees(p) /\ Top(p, d) /\ d \in 0 .. p.n
      /\ Lookup(scope, name) = p.at[d] /\ p.now = exported[name]
      /\ RealAt(d)[name] = p.held[d] /\ p.n \in Nat
  BY VariableHere
<1>2. /\ p.arrays = {array \in scope.arrays : array.name = name}
      /\ p.alts[d] = AltsAt(scope, d, name)
  BY <1>1, PartsOf
<1> HIDE DEF p
<1>3. p.arrays = {}
  BY <1>2, ArrayVisible
<1>4. wanted = Shown(p.held[d])
  BY <1>1, RealTextIs
<1>5. here = IF p.at[d] = Unset THEN p.now ELSE p.at[d]
  BY <1>1 DEF ShellValue
<1> HIDE DEF d
<1>6. Fits(p, d) \/ OnlyInherited(p, d)
  BY <1>1, <1>3 DEF Agrees, TextsFit
<1>7. CASE Fits(p, d)
  <2>1. CASE Shown(p.held[d]) = TextOf(p.at[d])
    BY <1>4, <1>5, <2>1 DEF TextOf
  <2>2. CASE Shown(p.held[d]) \in {<<>>} \cup p.alts[d]
    BY <1>2, <1>4, <2>2 DEF d
  <2> QED BY <1>7, <2>1, <2>2 DEF Fits
<1>8. CASE OnlyInherited(p, d)
  <2>1. d = 0 /\ p.at[0] = Unset /\ Shown(p.held[0]) = Later(p, 0)
        /\ Later(p, 0) # Unset
    BY <1>1, <1>8 DEF OnlyInherited, Agrees, InheritedIsHeld
  <2>2. Later(p, 0) = p.now
    <3>1. 0 \in 0 .. p.n
      BY <1>1
    <3> QED BY <1>1, <2>1, <3>1, TopSaves
  <2> QED BY <1>4, <1>5, <2>1, <2>2
<1> QED BY <1>6, <1>7, <1>8

(* A name that is exported shows what is exported.                         *)
LEMMA ExportedShows ==
  ASSUME Here, NEW name \in Name, exported[name] # Unset
  PROVE  /\ ShellValue(scope, exported, name) = exported[name]
         /\ VisibleArray(scope, name) = Unset
<1> DEFINE d == LocalFrame(scope, name)
           p == Variable(scope, exported, real, name)
<1>1. /\ Shape(p) /\ Agrees(p) /\ Top(p, d) /\ d \in 0 .. p.n
      /\ Lookup(scope, name) = p.at[d] /\ p.now = exported[name]
      /\ p.n \in Nat
  BY VariableHere
<1> HIDE DEF p, d
<1>2. Later(p, d) = p.now
  <2>1. d \in d .. p.n
    BY <1>1
  <2> QED BY <1>1, <2>1, TopSaves
<1>3. p.at[d] # Unset => p.at[d] = exported[name]
  BY <1>1, <1>2 DEF Agrees, ExportedIsSet
<1>4. VisibleArray(scope, name) = Unset
  <2> SUFFICES ASSUME VisibleArray(scope, name) # Unset PROVE FALSE
    OBVIOUS
  <2>1. PICK array \in scope.arrays : array.name = name
    BY ArrayVisible
  <2> QED BY <2>1, ArraysGlobal
<1> QED BY <1>1, <1>3, <1>4 DEF ShellValue

LEMMA TextCovered ==
  ASSUME Here, NEW name \in Name, NEW single \in BOOLEAN, NEW prefix \in Seq(Token),
         Len(AltValues(scope, name)) < EvalVariantCap,
         NEW local, local = WithPrefix(exported, prefix), NEW spec,
         spec = [name |-> name, index |-> 0, all |-> FALSE], NEW original,
         NEW wanted, wanted = IF single /\ Prefixed(name, prefix) THEN local[name]
                              ELSE RealText(name),
         NEW texts, texts = ParameterText(scope, exported, local, spec, single,
                                          original)
  PROVE  /\ texts \in Seq(Text \cup {original})
         /\ Len(texts) \in 1 .. EvalVariantCap
         /\ wanted \notin {Unset, <<>>} => wanted \in ToSet(texts)
<1> DEFINE array == VisibleArray(scope, name)
           here == ShellValue(scope, exported, name)
           base == IF here = Unset THEN <<>> ELSE <<here>>
           alts == AltValues(scope, name)
           values == FoldLeft(AddNew, base, alts)
           alone == single /\ local[name] \notin {Unset, exported[name]}
           S == Text \cup {original}
<1>1. texts = IF alone THEN <<ScalarParam(spec, local[name])>>
              ELSE IF array # Unset THEN <<ArrayParam(spec, array)>>
              ELSE IF values = <<>> THEN <<original>> ELSE values
  BY DEF ParameterText
<1>2. /\ Prefixed(name, prefix) => local[name] \in Text
      /\ ~Prefixed(name, prefix) => local[name] = exported[name]
  BY PrefixGives DEF Here
<1>3. 1 \in 1 .. EvalVariantCap
  <2>1. Len(AltValues(scope, name)) \in Nat
    BY AltValuesAre, LenProperties
  <2> QED BY <2>1, VariantAssumption
<1>4. /\ values \in Seq(Text) /\ Len(values) \in 0 .. EvalVariantCap
      /\ here # Unset => here \in ToSet(values)
      /\ AltsAt(scope, LocalFrame(scope, name), name) \subseteq ToSet(values)
  <2>1. /\ here = ShellValue(scope, exported, name)
        /\ base = (IF here = Unset THEN <<>> ELSE <<here>>)
        /\ alts = AltValues(scope, name) /\ values = FoldLeft(AddNew, base, alts)
    OBVIOUS
  <2> HIDE DEF values, here, base, alts
  <2> QED BY <2>1, ValuesCover
<1>5. \A text \in S : /\ <<text>> \in Seq(S) /\ Len(<<text>>) = 1
                      /\ text \in ToSet(<<text>>)
  BY OneText
<1> HIDE DEF values, here, array, S
<1>6. CASE alone
  <2>1. Prefixed(name, prefix) /\ single
    BY <1>2, <1>6
  <2>2. wanted = local[name] /\ local[name] \in S
    BY <1>2, <2>1 DEF S
  <2>3. ScalarParam(spec, local[name]) = local[name]
    BY DEF ScalarParam
  <2>4. texts = <<local[name]>>
    BY <1>1, <1>6, <2>3
  <2> QED BY <1>3, <1>5, <2>2, <2>4 DEF S
<1>7. CASE ~alone
  <2>1. single /\ Prefixed(name, prefix)
          => wanted = exported[name] /\ exported[name] # Unset
    BY <1>2, <1>7, UnsetAssumption
  <2>2. CASE array # Unset
    <3>1. PICK one \in scope.arrays : one.name = name /\ array = one.values
      BY <2>2, ArrayVisible DEF array
    <3>2. /\ LocalFrame(scope, name) = 0 /\ exported[name] = Unset
          /\ Shown(RealAt(0)[name]) = Shown(array) /\ array \in Seq(Text)
      BY <3>1, ArraysGlobal
    <3>3. wanted \notin {Unset, <<>>} => wanted = Shown(array)
      BY <2>1, <3>2, RealTextIs
    <3>4. ArrayParam(spec, array) = Shown(array)
      <4>1. CASE array = <<>>
        BY <4>1 DEF ArrayParam, Shown
      <4>2. CASE array # <<>>
        <5>1. Len(array) \in Nat \ {0} /\ DOMAIN array = 1 .. Len(array)
          BY <3>2, <4>2, EmptySeq, LenProperties
        <5>2. 0 + 1 \in DOMAIN array /\ spec.index = 0 /\ spec.all = FALSE
          BY <5>1
        <5> QED BY <2>2, <4>2, <5>2 DEF ArrayParam, Shown
      <4> QED BY <4>1, <4>2
    <3>5. Shown(array) \in S
      BY <3>2, ShownTyped DEF HeldTexts, S
    <3>6. texts = <<Shown(array)>>
      BY <1>1, <1>7, <2>2, <3>4
    <3> QED BY <1>3, <1>5, <3>3, <3>5, <3>6 DEF S
  <2>3. CASE array = Unset
    <3>1. texts = IF values = <<>> THEN <<original>> ELSE values
      BY <1>1, <1>7, <2>3
    <3>2. wanted \notin {Unset, <<>>} => wanted \in ToSet(values)
      <4> SUFFICES ASSUME wanted \notin {Unset, <<>>}
                   PROVE  wanted \in ToSet(values)
        OBVIOUS
      <4>1. CASE single /\ Prefixed(name, prefix)
        <5>1. wanted = here /\ here # Unset
          BY <2>1, <4>1, ExportedShows DEF here
        <5> QED BY <1>4, <5>1
      <4>2. CASE ~(single /\ Prefixed(name, prefix))
        <5>1. wanted = RealText(name)
          BY <4>2
        <5>2. \/ here # Unset /\ wanted = here
              \/ wanted \in AltsAt(scope, LocalFrame(scope, name), name)
          BY <2>3, <5>1, HeldCovered DEF here, array
        <5> QED BY <1>4, <5>2
      <4> QED BY <4>1, <4>2
    <3>3. CASE values = <<>>
      <4>1. original \in S
        BY DEF S
      <4>2. ToSet(<<>>) = {}
        BY DEF ToSet
      <4>3. wanted \in {Unset, <<>>}
        BY <3>2, <3>3, <4>2
      <4>4. texts = <<original>>
        BY <3>1, <3>3
      <4> QED BY <1>3, <1>5, <4>1, <4>3, <4>4 DEF S
    <3>4. CASE values # <<>>
      <4>1. values \in Seq(S)
        <5>1. Text \subseteq S
          BY DEF S
        <5>2. \A i \in 1 .. Len(values) : values[i] \in S
          BY <1>4, <5>1, ElementOfSeq
        <5>3. DOMAIN values = 1 .. Len(values) /\ Len(values) \in Nat
              /\ values = [i \in 1 .. Len(values) |-> values[i]]
          BY <1>4, LenProperties
        <5> QED BY <5>2, <5>3
      <4>2. Len(values) \in 1 .. EvalVariantCap
        BY <1>4, <3>4, EmptySeq, VariantAssumption
      <4> QED BY <3>1, <3>2, <3>4, <4>1, <4>2 DEF S
    <3> QED BY <3>3, <3>4
  <2> QED BY <2>2, <2>3
<1> QED BY <1>6, <1>7

LEMMA EvaluatesCovers ==
  ASSUME Here, NEW name \in Name, NEW single \in BOOLEAN,
         NEW prefix \in Seq(Token), Evaluates(name, single, prefix),
         strays' = {}
  PROVE  Scores'
<1> DEFINE local == WithPrefix(exported, prefix)
           spec == [name |-> name, index |-> 0, all |-> FALSE]
           original == <<Unset>>
           piece == [spec |-> spec, original |-> original]
           word == [single |-> single, pieces |-> <<piece>>]
           texts == ParameterText(scope, exported, local, spec, single, original)
           wanted == IF single /\ Prefixed(name, prefix) THEN local[name]
                     ELSE RealText(name)
           scripts == EvalScripts(scope, exported, local, <<word>>)
<1>1. /\ Len(AltValues(scope, name)) < EvalVariantCap
      /\ evaluated' = [scored |-> ToSet(scripts), wanted |-> wanted]
  <2>1. evaluated' = [scored |-> ToSet(scripts), wanted |-> wanted]
    BY DEF Evaluates
  <2>2. Segment(GrowsPrefix(prefix)
                  \cup Form("variants",
                            Len(AltValues(scope, name)) >= EvalVariantCap))
    BY DEF Evaluates
  <2>3. ~(Len(AltValues(scope, name)) >= EvalVariantCap)
    <3>1. Form("variants", Len(AltValues(scope, name)) >= EvalVariantCap) = {}
      BY <2>2, NoForms
    <3> QED BY <3>1 DEF Form
  <2>4. Len(AltValues(scope, name)) \in Nat
    BY AltValuesAre DEF Here
  <2> QED BY <2>1, <2>3, <2>4, VariantAssumption
<1>2. /\ texts \in Seq(Text \cup {original})
      /\ Len(texts) \in 1 .. EvalVariantCap
      /\ wanted \notin {Unset, <<>>} => wanted \in ToSet(texts)
  <2>1. /\ local = WithPrefix(exported, prefix)
        /\ spec = [name |-> name, index |-> 0, all |-> FALSE]
        /\ wanted = IF single /\ Prefixed(name, prefix) THEN local[name]
                    ELSE RealText(name)
        /\ texts = ParameterText(scope, exported, local, spec, single, original)
    OBVIOUS
  <2> HIDE DEF local, spec, wanted, texts, original
  <2> QED BY <1>1, <2>1, TextCovered
<1>3. ExpandEvalWord(scope, exported, local, word) = Combine(<< <<>> >>, texts, <<>>)
  <2> HIDE DEF local, spec, original
  <2> QED BY ExpandOne
<1>4. scripts = Combine(<< <<>> >>, ExpandEvalWord(scope, exported, local, word),
                        <<Blank>>)
  <2> HIDE DEF local, word
  <2> QED BY ScriptsOne
<1> HIDE DEF texts, scripts, local, word, wanted, original
<1>5. scripts = texts
  BY <1>2, <1>3, <1>4, CombineFirst
<1>6. evaluated'.scored = ToSet(scripts) /\ evaluated'.wanted = wanted
  BY <1>1
<1> QED BY <1>2, <1>5, <1>6 DEF Scores

-----------------------------------------------------------------------------
(* A stack of suspended scans, and the one that is running on top of it.   *)
Paused(frame) ==
  [scope |-> frame.scope, exported |-> frame.exported, real |-> frame.real]
Level(frames, running, i) ==
  IF i \in 1 .. Len(frames) THEN Paused(frames[i]) ELSE running

Keeping(level) == Follows(level.scope, level.exported, level.real)
Onward(level, next) ==
  Lasting(level.scope, level.exported, level.real,
          next.scope, next.exported, next.real)
Frames(level) == Len(level.scope.locals)

(* What a scan goes back to, when it worked on its caller's variables.     *)
Returnable(frame, next) ==
  /\ frame.kind \in {"child", "subst"} => frame.isolated
  /\ frame.kind \in {"call", "here"} => frame.base = frame.exported
  /\ ~frame.isolated =>
       /\ Onward(Paused(frame), next)
       /\ Frames(next) = Frames(frame) + (IF frame.kind = "call" THEN 1 ELSE 0)

(* Where nothing below is a function there are no local names.             *)
Calling == {"call", "here"}
Called(frames, i) == \E j \in 1 .. (i - 1) : frames[j].kind \in Calling
NoLocals(frames, running, i) ==
  Called(frames, i) \/ Level(frames, running, i).scope.locals = <<>>

Stands(frames, running) ==
  /\ \A i \in 1 .. (Len(frames) + 1) :
       /\ Keeping(Level(frames, running, i))
       /\ NoLocals(frames, running, i)
  /\ \A i \in 1 .. Len(frames) :
       Returnable(frames[i], Level(frames, running, i + 1))

LEMMA OnwardTrans ==
  ASSUME NEW a, NEW b, NEW c, Onward(a, b), Onward(b, c),
         Frames(a) \in Nat, Frames(b) \in Nat, Frames(a) <= Frames(b)
  PROVE  Onward(a, c)
<1>1. \A d \in 0 .. Frames(a) : d \in 0 .. Frames(b)
  OBVIOUS
<1> QED BY <1>1 DEF Onward, Lasting, Lasts, Frames

LEMMA FrameAt ==
  ASSUME NEW frames \in Seq(Suspended)
  PROVE  /\ Len(frames) \in Nat
         /\ \A i \in 1 .. Len(frames) :
              /\ frames[i] \in Suspended
              /\ frames[i].kind \in {"call", "here", "child", "subst"}
              /\ Frames(frames[i]) \in Nat
              /\ Frames(Paused(frames[i])) = Frames(frames[i])
<1>1. \A i \in 1 .. Len(frames) : frames[i] \in Suspended
  BY ElementOfSeq
<1>2. \A frame \in Suspended :
        /\ frame.kind \in {"call", "here", "child", "subst"}
        /\ Frames(frame) \in Nat /\ Frames(Paused(frame)) = Frames(frame)
  BY LenProperties DEF Suspended, Frame, Scope, Frames, Paused
<1> QED BY <1>1, <1>2, LenProperties

(* The running scan goes on.                                               *)
LEMMA RunningStands ==
  ASSUME NEW frames \in Seq(Suspended), NEW running, NEW next,
         Stands(frames, running), Keeping(next),
         Frames(running) \in Nat, Frames(next) = Frames(running),
         running.scope.locals = <<>> => next.scope.locals = <<>>,
         Onward(running, next) \/ ~Called(frames, Len(frames) + 1)
  PROVE  Stands(frames, next)
<1> DEFINE n == Len(frames)
<1>1. /\ n \in Nat
      /\ \A i \in 1 .. n : /\ frames[i].kind \in {"call", "here", "child", "subst"}
                           /\ Frames(frames[i]) \in Nat
                           /\ Frames(Paused(frames[i])) = Frames(frames[i])
  BY FrameAt
<1>2. n + 1 \notin 1 .. n /\ \A i \in 1 .. (n + 1) : i \in 1 .. n \/ i = n + 1
  BY <1>1
<1>3. /\ \A i \in 1 .. n : Level(frames, next, i) = Level(frames, running, i)
      /\ Level(frames, next, n + 1) = next
      /\ Level(frames, running, n + 1) = running
  BY <1>2 DEF Level
<1>4. ASSUME NEW i \in 1 .. (n + 1)
      PROVE  Keeping(Level(frames, next, i)) /\ NoLocals(frames, next, i)
  <2>1. Keeping(Level(frames, running, i)) /\ NoLocals(frames, running, i)
    BY DEF Stands
  <2>2. CASE i \in 1 .. n
    BY <1>3, <2>1, <2>2 DEF NoLocals
  <2>3. CASE i = n + 1
    <3>1. Called(frames, i) \/ next.scope.locals = <<>>
      BY <1>3, <2>1, <2>3 DEF NoLocals
    <3> QED BY <1>3, <2>3, <3>1 DEF NoLocals
  <2> QED BY <1>2, <2>2, <2>3
<1>5. ASSUME NEW i \in 1 .. n
      PROVE  Returnable(frames[i], Level(frames, next, i + 1))
  <2>1. Returnable(frames[i], Level(frames, running, i + 1))
    BY DEF Stands
  <2>2. i + 1 \in 1 .. (n + 1)
    BY <1>1
  <2>3. CASE i + 1 \in 1 .. n
    BY <1>3, <2>1, <2>3
  <2>4. CASE i + 1 = n + 1
    <3>1. Returnable(frames[i], running)
      BY <1>3, <2>1, <2>4
    <3>2. CASE frames[i].isolated
      BY <1>3, <2>4, <3>1, <3>2 DEF Returnable
    <3>3. CASE ~frames[i].isolated
      <4>1. frames[i].kind \in Calling
        BY <1>1, <3>1, <3>3 DEF Returnable, Calling
      <4>2. Called(frames, n + 1)
        <5>1. i \in 1 .. ((n + 1) - 1)
          BY <1>1
        <5> QED BY <4>1, <5>1 DEF Called
      <4>3. Onward(Paused(frames[i]), running)
            /\ Frames(running) = Frames(frames[i])
                 + (IF frames[i].kind = "call" THEN 1 ELSE 0)
        BY <3>1, <3>3 DEF Returnable
      <4>4. Frames(Paused(frames[i])) <= Frames(running)
            /\ Frames(Paused(frames[i])) \in Nat
        BY <1>1, <4>3
      <4>5. Onward(Paused(frames[i]), next)
        BY <4>2, <4>3, <4>4, OnwardTrans
      <4> QED BY <1>3, <2>4, <3>1, <4>3, <4>5 DEF Returnable
    <3> QED BY <3>2, <3>3
  <2> QED BY <1>2, <2>2, <2>3, <2>4
<1> QED BY <1>4, <1>5 DEF Stands

(* The running scan is suspended.                                          *)
LEMMA SuspendedStands ==
  ASSUME NEW frames \in Seq(Suspended), NEW frame \in Suspended, NEW running,
         Paused(frame) = running, NEW next,
         Stands(frames, running), Keeping(next), Returnable(frame, next),
         frame.kind \in Calling
           \/ (running.scope.locals = <<>> => next.scope.locals = <<>>)
  PROVE  Stands(Append(frames, frame), next)
<1> DEFINE n == Len(frames)
           more == Append(frames, frame)
<1>1. n \in Nat
  BY FrameAt
<1>2. /\ Len(more) = n + 1 /\ more[n + 1] = frame
      /\ \A i \in 1 .. n : more[i] = frames[i]
  BY AppendProperties
<1> HIDE DEF more
<1>3. /\ \A i \in 1 .. ((n + 1) + 1) : i \in 1 .. (n + 1) \/ i = n + 2
      /\ \A i \in 1 .. (n + 1) : i \in 1 .. n \/ i = n + 1
      /\ n + 1 \notin 1 .. n /\ n + 2 \notin 1 .. (n + 1)
      /\ n + 1 \in 1 .. (n + 1) /\ \A i \in 1 .. n : i \in 1 .. (n + 1)
  BY <1>1
<1>4. /\ \A i \in 1 .. (n + 1) : Level(more, next, i) = Level(frames, running, i)
      /\ Level(more, next, n + 2) = next
      /\ Level(frames, running, n + 1) = running
  BY <1>2, <1>3 DEF Level
<1>5. \A i \in 1 .. (n + 1) : Called(more, i) <=> Called(frames, i)
  <2> SUFFICES ASSUME NEW i \in 1 .. (n + 1)
               PROVE  Called(more, i) <=> Called(frames, i)
    OBVIOUS
  <2>1. \A j \in 1 .. (i - 1) : j \in 1 .. n
    BY <1>1
  <2> QED BY <1>2, <2>1 DEF Called
<1>6. ASSUME NEW i \in 1 .. (n + 1)
      PROVE  Keeping(Level(more, next, i)) /\ NoLocals(more, next, i)
  <2>1. Keeping(Level(frames, running, i)) /\ NoLocals(frames, running, i)
    BY DEF Stands
  <2> QED BY <1>4, <1>5, <2>1 DEF NoLocals
<1>7. NoLocals(more, next, n + 2)
  <2>1. NoLocals(frames, running, n + 1)
    BY <1>3 DEF Stands
  <2>2. CASE frame.kind \in Calling
    <3>1. n + 1 \in 1 .. ((n + 2) - 1)
      BY <1>1
    <3> QED BY <1>2, <2>2, <3>1 DEF NoLocals, Called
  <2>3. CASE Called(frames, n + 1)
    <3>1. PICK j \in 1 .. ((n + 1) - 1) : frames[j].kind \in Calling
      BY <2>3 DEF Called
    <3>2. j \in 1 .. n /\ j \in 1 .. ((n + 2) - 1)
      BY <1>1
    <3> QED BY <1>2, <3>1, <3>2 DEF NoLocals, Called
  <2>4. CASE running.scope.locals = <<>> /\ next.scope.locals = <<>>
    BY <1>4, <2>4 DEF NoLocals
  <2> QED BY <1>4, <2>1, <2>2, <2>3, <2>4 DEF NoLocals
<1>8. ASSUME NEW i \in 1 .. (n + 1)
      PROVE  Returnable(more[i], Level(more, next, i + 1))
  <2>1. CASE i \in 1 .. n
    <3>1. i + 1 \in 1 .. (n + 1)
      BY <1>1, <2>1
    <3>2. Returnable(frames[i], Level(frames, running, i + 1))
      BY <2>1 DEF Stands
    <3> QED BY <1>2, <1>4, <2>1, <3>1, <3>2
  <2>2. CASE i = n + 1
    <3>1. i + 1 = n + 2
      BY <1>1, <2>2
    <3> QED BY <1>2, <1>4, <2>2, <3>1
  <2> QED BY <1>3, <2>1, <2>2
<1>9. \A i \in 1 .. (Len(more) + 1) :
        Keeping(Level(more, next, i)) /\ NoLocals(more, next, i)
  <2>1. \A i \in 1 .. (Len(more) + 1) : i \in 1 .. (n + 1) \/ i = n + 2
    BY <1>2, <1>3
  <2> QED BY <1>4, <1>6, <1>7, <2>1
<1> QED BY <1>2, <1>8, <1>9 DEF Stands, more

(* The last suspended scan goes on.                                        *)
LEMMA ResumedStands ==
  ASSUME NEW frames \in Seq(Suspended), frames # <<>>, NEW running,
         Stands(frames, running), NEW n, n = Len(frames),
         NEW rest, rest = SubSeq(frames, 1, n - 1), NEW next, Keeping(next),
         Frames(next) = Frames(frames[n]), Onward(Paused(frames[n]), next),
         frames[n].scope.locals = <<>> => next.scope.locals = <<>>
  PROVE  Stands(rest, next)
<1>1. /\ n \in Nat /\ n # 0 /\ n \in 1 .. n /\ n - 1 \in Nat
      /\ Frames(frames[n]) \in Nat /\ Frames(Paused(frames[n])) = Frames(frames[n])
  <2>1. n \in Nat /\ n # 0
    BY EmptySeq, LenProperties
  <2> QED BY <2>1, FrameAt
<1>2. /\ rest \in Seq(Suspended) /\ Len(rest) = n - 1
      /\ \A i \in 1 .. (n - 1) : rest[i] = frames[i]
  BY FrontTyped
<1> DEFINE held == Paused(frames[n])
<1>3. held.scope = frames[n].scope
  BY DEF Paused
<1>4. /\ \A i \in 1 .. ((n - 1) + 1) : i \in 1 .. n
      /\ \A i \in 1 .. n : i \in 1 .. (n - 1) \/ i = n
      /\ n \notin 1 .. (n - 1) /\ \A i \in 1 .. (n - 1) : i \in 1 .. n
      /\ \A i \in 1 .. n : i \in 1 .. (n + 1)
  BY <1>1
<1>5. \A i \in 1 .. n : Level(rest, held, i) = Level(frames, running, i)
  BY <1>1, <1>2, <1>4 DEF Level
<1> HIDE DEF held
<1>6. \A i \in 1 .. n : Called(rest, i) <=> Called(frames, i)
  <2> SUFFICES ASSUME NEW i \in 1 .. n
               PROVE  Called(rest, i) <=> Called(frames, i)
    OBVIOUS
  <2>1. \A j \in 1 .. (i - 1) : j \in 1 .. (n - 1)
    BY <1>1
  <2> QED BY <1>2, <2>1 DEF Called
<1>7. ASSUME NEW i \in 1 .. n
      PROVE  Keeping(Level(rest, held, i)) /\ NoLocals(rest, held, i)
  <2>1. Keeping(Level(frames, running, i)) /\ NoLocals(frames, running, i)
    BY <1>4 DEF Stands
  <2> QED BY <1>5, <1>6, <2>1 DEF NoLocals
<1>8. ASSUME NEW i \in 1 .. (n - 1)
      PROVE  Returnable(rest[i], Level(rest, held, i + 1))
  <2>1. Returnable(frames[i], Level(frames, running, i + 1))
    BY <1>4 DEF Stands
  <2>2. i + 1 \in 1 .. n
    BY <1>1
  <2> QED BY <1>2, <1>5, <2>1, <2>2
<1>9. Stands(rest, held)
  <2>1. \A i \in 1 .. (Len(rest) + 1) : i \in 1 .. n
    BY <1>1, <1>2
  <2> QED BY <1>2, <1>7, <1>8, <2>1 DEF Stands
<1>10. Frames(held) = Frames(frames[n]) /\ Onward(held, next)
  BY <1>1 DEF held
<1> QED BY <1>1, <1>2, <1>3, <1>9, <1>10, RunningStands

-----------------------------------------------------------------------------
(* The steps of the scan.                                                  *)
Triple(known, env, its) == [scope |-> known, exported |-> env, real |-> its]
Standing == Stands(stack, Triple(scope, exported, real))
StandsNext == Stands(stack', Triple(scope', exported', real'))

LEMMA TripleIs ==
  ASSUME NEW known, NEW env, NEW its, NEW level, level = Triple(known, env, its)
  PROVE  /\ level.scope = known /\ level.exported = env /\ level.real = its
         /\ Frames(level) = Len(known.locals)
         /\ Keeping(level) <=> Follows(known, env, its)
BY DEF Triple, Frames, Keeping

LEMMA StandingHere ==
  ASSUME Whole, Standing
  PROVE  Here
<1>1. /\ Len(stack) \in Nat /\ Len(stack) + 1 \notin 1 .. Len(stack)
      /\ Len(stack) + 1 \in 1 .. (Len(stack) + 1)
  BY LenProperties DEF Whole
<1>2. Keeping(Level(stack, Triple(scope, exported, real), Len(stack) + 1))
  BY <1>1 DEF Standing, Stands
<1>3. Follows(scope, exported, real)
  BY <1>1, <1>2 DEF Level, Keeping, Triple
<1> QED BY <1>3 DEF Here, Whole

LEMMA NothingChanges ==
  ASSUME Standing, UNCHANGED <<scope, exported, stack, real>>
  PROVE  StandsNext
BY DEF Standing, StandsNext

LEMMA SameFrames ==
  ASSUME NEW a, NEW b, Sound(a), Sound(b), Len(a.locals) = Len(b.locals)
  PROVE  Len(a.locals) \in Nat /\ (a.locals = <<>> => b.locals = <<>>)
<1>1. a.locals \in Seq(Env) /\ b.locals \in Seq(Env)
  BY DEF Sound, Scope
<1> QED BY <1>1, EmptySeq, LenProperties

LEMMA LeaveStands ==
  ASSUME Whole, Standing, NEW isolated, NEW known, NEW env, NEW its,
         Leave(isolated, known, env, its), Sound(known),
         Len(known.locals) = Len(scope.locals), Follows(known, env, its),
         \/ Lasting(scope, exported, real, known, env, its)
         \/ ~InCaller
  PROVE  StandsNext
<1>1. CASE isolated
  BY <1>1, NothingChanges DEF Leave
<1>2. CASE ~isolated
  <2> DEFINE running == Triple(scope, exported, real)
             next == Triple(known, env, its)
  <2>1. scope' = known /\ exported' = env /\ real' = its /\ stack' = stack
    BY <1>2 DEF Leave
  <2>2. /\ Frames(running) = Len(scope.locals) /\ running.scope = scope
        /\ Frames(next) = Len(known.locals) /\ next.scope = known
        /\ Keeping(next)
    BY TripleIs
  <2>3. /\ Len(scope.locals) \in Nat
        /\ scope.locals = <<>> => known.locals = <<>>
    BY SameFrames DEF Whole
  <2>4. Onward(running, next) \/ ~Called(stack, Len(stack) + 1)
    <3>1. CASE Lasting(scope, exported, real, known, env, its)
      BY <3>1 DEF Onward, Triple
    <3>2. CASE ~InCaller
      <4>1. \A i \in DOMAIN stack : stack[i].kind \notin Calling
        BY <3>2 DEF InCaller, Calling
      <4>2. \A i \in 1 .. ((Len(stack) + 1) - 1) : i \in DOMAIN stack
        BY LenProperties DEF Whole
      <4> QED BY <4>1, <4>2 DEF Called
    <3> QED BY <3>1, <3>2
  <2>5. stack \in Seq(Suspended) /\ Stands(stack, running)
    BY DEF Whole, Standing
  <2> HIDE DEF running, next
  <2>6. Stands(stack, next)
    BY <2>2, <2>3, <2>4, <2>5, RunningStands
  <2> QED BY <2>1, <2>6 DEF StandsNext, next
<1> QED BY <1>1, <1>2

LEMMA GoesStands ==
  ASSUME Whole, Standing, NEW isolated, NEW known, NEW env, NEW its,
         Leave(isolated, known, env, its), Sound(known), Goes(known, env, its)
  PROVE  StandsNext
BY LeaveStands DEF Goes

LEMMA ScanStands ==
  ASSUME Whole, Standing, NEW kind \in {"call", "here", "child", "subst"},
         NEW isolated \in BOOLEAN, NEW row \in Row \cup {NoRow}, NEW known,
         NEW env \in Env, NEW fns, NEW its,
         Scan(kind, isolated, row, known, env, fns, its),
         Follows(known, env, its),
         kind \in {"child", "subst"} => isolated,
         kind \in {"call", "here"} => env = exported,
         ~isolated =>
           /\ Lasting(scope, exported, real, known, env, its)
           /\ Len(known.locals) =
                Len(scope.locals) + (IF kind = "call" THEN 1 ELSE 0),
         \/ kind \in Calling
         \/ scope.locals = <<>> => known.locals = <<>>
  PROVE  StandsNext
<1> DEFINE frame == [kind |-> kind, isolated |-> isolated,
                     exported |-> exported, scope |-> scope,
                     functions |-> functions, best |-> Prefer(best, row),
                     base |-> env, real |-> real]
           running == Triple(scope, exported, real)
           next == Triple(known, env, its)
<1>1. frame \in Suspended
  <2>1. Prefer(best, row) \in Row \cup {NoRow}
    BY DEF Whole, Prefer
  <2>2. frame \in Frame
    BY <2>1 DEF Whole, Frame, Sound, Beside
  <2> QED BY <2>2 DEF Whole, Suspended, Sound, Beside
<1>2. /\ stack' = Append(stack, frame) /\ scope' = known
      /\ exported' = env /\ real' = its
  BY DEF Scan
<1>3. /\ frame.kind = kind /\ frame.isolated = isolated
      /\ frame.base = env /\ frame.exported = exported
      /\ frame.scope = scope /\ frame.real = real
  OBVIOUS
<1> HIDE DEF frame
<1>4. Paused(frame) = running
  BY <1>3 DEF Paused, Triple
<1>5. /\ Frames(running) = Len(scope.locals) /\ running.scope = scope
      /\ Frames(next) = Len(known.locals) /\ next.scope = known
      /\ Keeping(next)
  BY TripleIs
<1>6. Returnable(frame, next)
  <2>1. ~isolated => Onward(running, next)
    BY DEF Onward, Triple
  <2>2. Frames(frame) = Len(scope.locals)
    BY <1>3 DEF Frames
  <2> HIDE DEF running, next
  <2> QED BY <1>3, <1>4, <1>5, <2>1, <2>2 DEF Returnable
<1>7. stack \in Seq(Suspended) /\ Stands(stack, running)
  BY DEF Whole, Standing
<1> HIDE DEF running, next
<1>8. Stands(Append(stack, frame), next)
  BY <1>1, <1>3, <1>4, <1>5, <1>6, <1>7, SuspendedStands
<1> QED BY <1>2, <1>8 DEF StandsNext, next

LEMMA NoPrefix ==
  ASSUME NEW env \in Env
  PROVE  WithPrefix(env, <<>>) = env
<1>1. <<>> \in Seq(Token) /\ DOMAIN <<>> = {}
  BY EmptySeq
<1>2. WithPrefix(env, <<>>) \in Env
  BY <1>1, WithPrefixTyped
<1>3. \A name \in Name : WithPrefix(env, <<>>)[name] = env[name]
  BY <1>1, PrefixGives DEF Prefixed
<1> QED BY <1>2, <1>3 DEF Env

-----------------------------------------------------------------------------
(* What a return leaves.                                                   *)

LEMMA PublicIs ==
  ASSUME Here, NEW frame \in Suspended,
         frame.base = frame.exported, NEW m, m = Len(frame.scope.locals),
         Lasting(frame.scope, frame.exported, frame.real, scope, exported, real),
         NEW public, public = PublishEnvChanges(frame.exported, frame.base, exported),
         NEW name \in Name, NEW p, p = Variable(scope, exported, real, name),
         Later(p, m) = p.now
  PROVE  public[name] = exported[name]
<1> DEFINE was == Variable(frame.scope, frame.exported, frame.real, name)
<1>1. /\ Sound(frame.scope) /\ frame.exported \in Env
      /\ Paired(frame.scope, frame.real) /\ m \in Nat
  BY LenProperties DEF Suspended, Frame, Sound, Paired, Scope
<1>2. Shape(was) /\ was.n = m /\ was.now = frame.exported[name]
  BY <1>1, ShapeOf DEF Variable
<1>3. p.now = exported[name]
  BY DEF Variable
<1>4. Lasts(was, p, m)
  BY DEF Lasting
<1> HIDE DEF was
<1>5. Later(was, m) = was.now
  <2>1. \A save \in was.saves : ~(save.depth > m)
    BY <1>1, <1>2 DEF Shape
  <2> QED BY <2>1, LaterNow
<1>6. m \in 0 .. m
  BY <1>1
<1>7. exported[name] = Unset => frame.exported[name] = Unset
  BY <1>2, <1>3, <1>4, <1>5, <1>6 DEF Lasts
<1>8. public[name] = IF exported[name] # Unset
                        /\ exported[name] # frame.exported[name]
                     THEN exported[name] ELSE frame.exported[name]
  BY DEF PublishEnvChanges
<1> QED BY <1>7, <1>8

(* The exports that a function kept are put back.                          *)
LEMMA RestoredIs ==
  ASSUME Here, NEW frame \in Suspended,
         frame.base = frame.exported, NEW m, m = Len(frame.scope.locals),
         Len(scope.locals) = m + 1,
         Lasting(frame.scope, frame.exported, frame.real, scope, exported, real),
         NEW public, public = PublishEnvChanges(frame.exported, frame.base, exported),
         NEW name \in Name
  PROVE  PopExports(scope, public)[name]
           = Later(Variable(scope, exported, real, name), m)
<1> DEFINE p == Variable(scope, exported, real, name)
           mine == {save \in scope.saved :
                      save.depth = Len(scope.locals) /\ save.name = name}
           one == CHOOSE save \in mine : TRUE
<1>1. Shape(p) /\ p.n = m + 1
  BY VariableHere
<1>2. p.saves = {save \in scope.saved : save.name = name}
  BY DEF Variable
<1>3. PopExports(scope, public)[name] =
        IF mine = {} THEN public[name] ELSE one.previous
  BY DEF PopExports
<1>4. m \in Nat
  BY LenProperties DEF Suspended, Frame, Scope
<1>5. p = Variable(scope, exported, real, name)
  OBVIOUS
<1> HIDE DEF p
<1>6. mine = SavesAbove(p, m)
  <2>1. \A save \in p.saves : save.depth \in 1 .. (m + 1)
    BY <1>1 DEF Shape
  <2>2. \A save \in p.saves : save.depth > m <=> save.depth = m + 1
    BY <1>4, <2>1
  <2> QED BY <1>2, <2>2 DEF SavesAbove
<1>7. CASE mine = {}
  <2>1. Later(p, m) = p.now
    BY <1>6, <1>7 DEF Later
  <2>2. p.now = exported[name]
    BY <1>5 DEF Variable
  <2> QED BY <1>3, <1>5, <1>7, <2>1, <2>2, PublicIs
<1>8. CASE mine # {}
  <2>1. one \in mine
    BY <1>8
  <2> HIDE DEF one
  <2>2. one \in p.saves /\ one.depth = m + 1
    BY <1>2, <2>1
  <2>3. \A other \in p.saves : other.depth > m => one.depth <= other.depth
    BY <1>1, <1>4, <2>2 DEF Shape
  <2>4. Later(p, m) = one.previous
    BY <1>1, <1>4, <2>2, <2>3, LaterIs
  <2> QED BY <1>3, <1>5, <1>8, <2>4
<1> QED BY <1>7, <1>8

LEMMA ReturnsStand ==
  ASSUME Whole, Standing, Returns
  PROVE  StandsNext
<1> DEFINE n == Len(stack)
           frame == stack[n]
           rest == SubSeq(stack, 1, n - 1)
           running == Triple(scope, exported, real)
           public == PublishEnvChanges(frame.exported, frame.base, exported)
           restored == PopExports(scope, public)
           gone == [real EXCEPT !.locals =
                      SubSeq(real.locals, 1, Len(real.locals) - 1)]
           m == Len(frame.scope.locals)
<1>1. /\ stack # <<>> /\ stack' = rest
      /\ scope' = IF frame.isolated THEN frame.scope
                  ELSE IF frame.kind = "call" THEN PopScope(scope) ELSE scope
      /\ exported' = IF frame.isolated THEN frame.exported
                     ELSE IF frame.kind = "call" THEN restored ELSE public
      /\ real' = CASE frame.isolated -> frame.real
                   [] ~frame.isolated /\ frame.kind = "call" -> gone
                   [] OTHER -> real
  BY DEF Returns, Front, Last
<1>2. /\ stack \in Seq(Suspended) /\ n \in Nat /\ n # 0 /\ n \in 1 .. n
      /\ frame \in Suspended /\ Stands(stack, running) /\ Here
  <2>1. stack \in Seq(Suspended)
    BY DEF Whole
  <2>2. n \in Nat /\ n # 0
    BY <1>1, <2>1, LenProperties, EmptySeq
  <2>3. n \in 1 .. n
    BY <2>2
  <2>4. frame \in Suspended
    <3> HIDE DEF n
    <3>1. n = Len(stack)
      BY DEF n
    <3> QED BY <2>1, <2>3, <3>1, ElementOfSeq
  <2> QED BY <2>1, <2>2, <2>3, <2>4, StandingHere DEF Standing
<1>3. /\ Level(stack, running, n) = Paused(frame)
      /\ Level(stack, running, n + 1) = running
  <2>1. n + 1 \notin 1 .. n
    BY <1>2
  <2> QED BY <1>2, <2>1 DEF Level
<1>4. Keeping(Paused(frame)) /\ Returnable(frame, running)
  <2>1. n \in 1 .. (n + 1)
    BY <1>2
  <2> QED BY <1>2, <1>3, <2>1 DEF Stands
<1>5. frame.scope \in Scope /\ frame.exported \in Env /\ frame.base \in Env
      /\ frame.kind \in {"call", "here", "child", "subst"}
      /\ Sound(frame.scope) /\ m \in Nat /\ Frames(frame) = m
  BY <1>2, LenProperties DEF Suspended, Frame, Sound, Frames, Scope
<1>6. \A next :
        /\ Keeping(next) /\ Frames(next) = m /\ Onward(Paused(frame), next)
        /\ frame.scope.locals = <<>> => next.scope.locals = <<>>
        => Stands(rest, next)
  <2> SUFFICES ASSUME NEW next, Keeping(next), Frames(next) = m,
                      Onward(Paused(frame), next),
                      frame.scope.locals = <<>> => next.scope.locals = <<>>
               PROVE  Stands(rest, next)
    OBVIOUS
  <2>1. Frames(next) = Frames(stack[n])
    BY <1>5
  <2>2. n = Len(stack) /\ rest = SubSeq(stack, 1, n - 1)
    OBVIOUS
  <2> HIDE DEF n, rest, running, m
  <2> QED BY <1>1, <1>2, <2>1, <2>2, ResumedStands
<1>7. CASE frame.isolated
  <2> DEFINE next == Triple(frame.scope, frame.exported, frame.real)
  <2>1. /\ scope' = frame.scope /\ exported' = frame.exported
        /\ real' = frame.real
    BY <1>1, <1>7
  <2>2. next = Paused(frame) /\ next.scope = frame.scope /\ Frames(next) = m
    BY DEF Triple, Paused, Frames
  <2>3. Onward(next, next)
    BY DEF Onward, Lasting, Lasts
  <2> HIDE DEF next, m, frame, rest
  <2>4. Stands(rest, next)
    BY <1>4, <1>6, <2>2, <2>3
  <2> QED BY <1>1, <2>1, <2>4 DEF StandsNext, next
<1>8. CASE ~frame.isolated
  <2>1. /\ frame.kind \in {"call", "here"} /\ frame.base = frame.exported
        /\ Onward(Paused(frame), running)
        /\ Frames(running) = m + (IF frame.kind = "call" THEN 1 ELSE 0)
    BY <1>4, <1>5, <1>8 DEF Returnable
  <2>2. /\ Lasting(frame.scope, frame.exported, frame.real, scope, exported, real)
        /\ Len(scope.locals) = m + (IF frame.kind = "call" THEN 1 ELSE 0)
    <3>1. /\ Paused(frame).scope = frame.scope /\ Paused(frame).real = frame.real
          /\ Paused(frame).exported = frame.exported
      BY DEF Paused
    <3>2. /\ running.scope = scope /\ running.exported = exported
          /\ running.real = real /\ Frames(running) = Len(scope.locals)
      BY TripleIs
    <3> HIDE DEF running, frame, m
    <3> QED BY <2>1, <3>1, <3>2 DEF Onward
  <2>3. /\ exported \in Env /\ Sound(scope) /\ public \in Env
        /\ Follows(scope, exported, real) /\ restored \in Env
    <3>1. public \in Env
      BY <1>5, PublishedTyped DEF Whole
    <3> HIDE DEF public
    <3> QED BY <1>2, <3>1, PopExportsTyped DEF Here, Sound
  <2>4. CASE frame.kind = "here"
    <3>1. \A name \in Name : public[name] = exported[name]
      <4> SUFFICES ASSUME NEW name \in Name PROVE public[name] = exported[name]
        OBVIOUS
      <4> DEFINE p == Variable(scope, exported, real, name)
      <4>1. p = Variable(scope, exported, real, name)
        OBVIOUS
      <4> HIDE DEF p
      <4>2. Shape(p) /\ p.n = m
        BY <1>2, <1>5, <2>2, <2>4, <4>1, VariableHere
      <4>3. \A save \in p.saves : ~(save.depth > m)
        BY <1>5, <4>2 DEF Shape
      <4>4. Later(p, m) = p.now
        BY <4>3, LaterNow
      <4>5. public = PublishEnvChanges(frame.exported, frame.base, exported)
            /\ m = Len(frame.scope.locals)
        OBVIOUS
      <4> HIDE DEF public, frame, m
      <4> QED BY <1>2, <2>1, <2>2, <4>1, <4>4, <4>5, PublicIs
    <3>2. public = exported
      BY <2>3, <3>1 DEF Env
    <3>3. scope' = scope /\ exported' = exported /\ real' = real
      BY <1>1, <1>8, <2>4, <3>2
    <3>4. Keeping(running) /\ running.scope = scope /\ Frames(running) = m
      <4>1. m + 0 = m
        BY <1>5
      <4> QED BY <2>2, <2>3, <2>4, <4>1, TripleIs
    <3>5. frame.scope.locals = <<>> => scope.locals = <<>>
      <4>1. Len(scope.locals) = Len(frame.scope.locals)
        BY <1>5, <2>2, <2>4
      <4> QED BY <1>5, <2>3, <4>1, SameFrames
    <3> HIDE DEF running, m, frame, rest
    <3>6. Stands(rest, running)
      BY <1>6, <2>1, <3>4, <3>5
    <3> QED BY <1>1, <3>3, <3>6 DEF StandsNext, running
  <2>5. CASE frame.kind = "call"
    <3> DEFINE popped == PopScope(scope)
               next == Triple(popped, restored, gone)
    <3>1. scope' = popped /\ exported' = restored /\ real' = gone
      BY <1>1, <1>8, <2>5
    <3>2. Len(scope.locals) = m + 1 /\ scope.locals # <<>>
      <4>1. Len(scope.locals) = m + 1
        BY <2>2, <2>5
      <4> QED BY <1>5, <4>1, EmptySeq
    <3>3. \A name \in Name :
            restored[name] = Later(Variable(scope, exported, real, name), m)
      <4>1. public = PublishEnvChanges(frame.exported, frame.base, exported)
            /\ m = Len(frame.scope.locals)
        OBVIOUS
      <4> HIDE DEF public, frame, m
      <4> QED BY <1>2, <2>1, <2>2, <3>2, <4>1, RestoredIs
    <3>4. /\ Follows(popped, restored, gone)
          /\ \A name \in Name, e \in 0 .. m :
               Later(Variable(popped, restored, gone, name), e)
                 = Later(Variable(scope, exported, real, name), e)
      <4>1. m = Len(scope.locals) - 1
        BY <1>5, <3>2
      <4>2. popped = PopScope(scope)
            /\ gone = RealPopped
        BY DEF RealPopped
      <4> HIDE DEF m, popped, restored, gone
      <4>3. Here /\ restored \in Env /\ scope.locals # <<>>
        BY <1>2, <2>3, <3>2
      <4> QED BY ONLY <3>3, <4>1, <4>2, <4>3, ReturnedFollows
    <3>5. Sound(popped) /\ Len(popped.locals) = m
      <4>1. Len(scope.locals) - 1 = m
        BY <1>5, <3>2
      <4> QED BY <2>3, <3>2, <4>1, PopSound
    <3> HIDE DEF popped, restored, gone
    <3>6. Keeping(next) /\ next.scope = popped /\ Frames(next) = m
      BY <3>4, <3>5, TripleIs
    <3>7. Onward(Paused(frame), next)
      <4>1. Lasting(frame.scope, frame.exported, frame.real, popped, restored, gone)
        <5> HIDE DEF m, frame
        <5>1. m = Len(frame.scope.locals)
          BY DEF m
        <5> QED BY <2>2, <3>4, <5>1 DEF Lasting, Lasts
      <4> QED BY <4>1 DEF Onward, Paused, Triple
    <3>8. frame.scope.locals = <<>> => popped.locals = <<>>
      BY <1>5, <3>5, SameFrames
    <3> HIDE DEF next, m, frame, rest
    <3>9. Stands(rest, next)
      BY <1>6, <3>6, <3>7, <3>8
    <3> QED BY <1>1, <3>1, <3>9 DEF StandsNext, next
  <2> QED BY <2>1, <2>4, <2>5
<1> QED BY <1>7, <1>8

-----------------------------------------------------------------------------
(* The actions.                                                            *)

LEMMA DirectoryStands ==
  ASSUME Whole, Standing, NEW dir \in Text, NEW isolated,
         ChangesDirectory(dir, isolated),
         strays' = {}
  PROVE  StandsNext
<1> DEFINE known == [scope EXCEPT !.dir = dir]
<1>1. Leave(isolated, known, exported, real)
  BY DEF ChangesDirectory
<1>2. Here /\ Sound(scope)
  BY StandingHere DEF Whole
<1>3. /\ known \in Scope /\ known.locals = scope.locals
      /\ known.global = scope.global /\ known.alts = scope.alts
      /\ known.saved = scope.saved /\ known.arrays = scope.arrays
  BY <1>2 DEF Sound, Scope
<1> HIDE DEF known
<1>4. Sound(known)
  BY <1>2, <1>3 DEF Sound, WithinFrames
<1>5. \A name \in Name :
        Variable(known, exported, real, name) = Variable(scope, exported, real, name)
  <2>1. \A d : EnvAt(known, d) = EnvAt(scope, d)
    BY <1>3 DEF EnvAt
  <2>2. \A d, name : AltsAt(known, d, name) = AltsAt(scope, d, name)
    BY <1>3, SameAlts
  <2> QED BY <1>3, <2>1, <2>2 DEF Variable
<1>6. Goes(known, exported, real)
  BY <1>2, <1>3, <1>5, StaysGoes DEF Goes, Follows, Lasting
<1> QED BY <1>1, <1>4, <1>6, GoesStands

LEMMA AssignsStand ==
  ASSUME Whole, Standing, NEW token \in Tokens,
         NEW conditional \in BOOLEAN, NEW isolated,
         Assigns(token, conditional, isolated),
         strays' = {}
  PROVE  StandsNext
<1> DEFINE known == AssignToken(scope, token, conditional)
           assigned == RealAssign(RealDepth(token.name), token)
<1>1. PICK taken \in BOOLEAN :
        /\ taken \/ conditional
        /\ Segment(AssignForms(token, taken))
        /\ Leave(isolated, known, exported, IF taken THEN assigned ELSE real)
  BY DEF Assigns
<1> DEFINE its == IF taken THEN assigned ELSE real
<1>2. /\ token \in Token /\ Here /\ Sound(scope)
      /\ ~Frozen(token.name) /\ GrowsOne(token)
      /\ taken \/ (conditional /\ ~Skips(token))
  <2>1. AssignForms(token, taken) = {}
    BY <1>1, NoForms
  <2>2. ~Frozen(token.name) /\ GrowsOne(token) /\ ~(~taken /\ Skips(token))
    <3>1. /\ Form("reassign", Frozen(token.name)) = {}
          /\ Form("append", ~GrowsOne(token)) = {}
          /\ Form("skip", ~taken /\ Skips(token)) = {}
      BY <2>1 DEF AssignForms
    <3> QED BY <3>1 DEF Form
  <2> QED BY <1>1, <2>2, StandingHere, TokensAssumption DEF Whole
<1>3. Sound(known)
  BY <1>2, AssignTokenSound
<1>4. Leave(isolated, known, exported, its)
  BY <1>1
<1>5. its = IF taken THEN RealAssign(RealDepth(token.name), token) ELSE real
  OBVIOUS
<1> HIDE DEF its
<1>6. Goes(known, exported, its)
  BY <1>1, <1>2, <1>5, AssignsGo
<1> HIDE DEF known
<1> QED BY <1>3, <1>4, <1>6, GoesStands

LEMMA ExportsStand ==
  ASSUME Whole, Standing, NEW unexport \in BOOLEAN,
         NEW word \in Word, NEW prefix \in PrefixWords, NEW isolated,
         Exports(unexport, word, prefix, isolated),
         strays' = {}
  PROVE  StandsNext
<1> DEFINE local == WithPrefix(exported, prefix)
           new == ApplyExports(exported, scope, unexport, <<word>>, local)
           told == CASE "append" \in DOMAIN word -> word
                     [] OTHER -> [name |-> word.name, value |-> local[word.name],
                                  append |-> FALSE]
           its == IF /\ ~unexport
                     /\ "append" \in DOMAIN word \/ Prefixed(word.name, prefix)
                  THEN RealAssign(RealDepth(word.name), told) ELSE real
<1>1. /\ Leave(isolated, new.scope, new.exported, its)
      /\ IF unexport THEN ~Inherited(word.name) /\ ~InCaller
         ELSE ~Leaks(word.name) /\ GrowsOne(word) /\ GrowsExported(word)
  <2>1. /\ Leave(isolated, new.scope, new.exported, its)
        /\ Segment(ExportForms(unexport, word) \cup GrowsPrefix(prefix))
    BY DEF Exports
  <2> HIDE DEF new, its
  <2>2. ExportForms(unexport, word) = {}
    BY <2>1, NoForms
  <2>3. CASE unexport
    BY <2>1, <2>2, <2>3, FormIs DEF ExportForms
  <2>4. CASE ~unexport
    <3>1. ~Leaks(word.name) /\ ~(~GrowsOne(word) \/ ~GrowsExported(word))
      <4>1. /\ Form("leak", Leaks(word.name)) = {}
            /\ Form("append", ~GrowsOne(word) \/ ~GrowsExported(word)) = {}
        BY <2>2, <2>4 DEF ExportForms
      <4> QED BY <4>1 DEF Form
    <3> QED BY <2>1, <2>4, <3>1
  <2> QED BY <2>3, <2>4
<1>2. /\ Sound(scope) /\ Here /\ exported \in Env /\ word.name \in Name
      /\ local \in Env /\ <<word>> \in Seq(Word) /\ prefix \in Seq(Token)
  <2>1. Sound(scope) /\ Here /\ exported \in Env
    BY StandingHere DEF Whole
  <2>2. prefix \in Seq(Token)
    BY PrefixAssumption
  <2>3. word.name \in Name
    BY DEF Word, Token
  <2>4. local \in Env
    BY <2>1, <2>2, WithPrefixTyped
  <2>5. <<word>> \in Seq(Word)
    OBVIOUS
  <2> QED BY <2>1, <2>2, <2>3, <2>4, <2>5
<1>3. new = IF unexport
            THEN [[exported |-> exported, scope |-> scope] EXCEPT
                    !.exported = UnsetEnv(@, word.name)]
            ELSE ExportOne([exported |-> exported, scope |-> scope], word, local)
  <2> HIDE DEF local
  <2> QED BY ApplyOne
<1>4. local = WithPrefix(exported, prefix)
  OBVIOUS
<1> HIDE DEF local
<1>5. new \in Views(Len(scope.locals))
  BY <1>2, ExportsSound
<1>6. told = CASE "append" \in DOMAIN word -> word
               [] OTHER -> [name |-> word.name, value |-> local[word.name],
                            append |-> FALSE]
  OBVIOUS
<1> HIDE DEF told
<1>7. its = IF /\ ~unexport
               /\ "append" \in DOMAIN word \/ Prefixed(word.name, prefix)
            THEN RealAssign(RealDepth(word.name), told) ELSE real
  OBVIOUS
<1> HIDE DEF its, new
<1>8. Sound(new.scope) /\ Len(new.scope.locals) = Len(scope.locals)
  BY <1>5, ViewIs
<1>9. CASE unexport
  <2>1. new.scope = scope /\ new.exported = UnsetEnv(exported, word.name)
    BY <1>3, <1>9
  <2>2. its = real /\ ~Inherited(word.name) /\ ~InCaller
    BY <1>1, <1>7, <1>9
  <2>3. scope.locals = <<>>
    <3>1. Len(stack) \in Nat /\ DOMAIN stack = 1 .. Len(stack)
      BY LenProperties DEF Whole
    <3>2. ~Called(stack, Len(stack) + 1)
      <4>1. \A j \in 1 .. ((Len(stack) + 1) - 1) : j \in DOMAIN stack
        BY <3>1
      <4> QED BY <2>2, <4>1 DEF Called, Calling, InCaller
    <3>3. Level(stack, Triple(scope, exported, real), Len(stack) + 1)
            = Triple(scope, exported, real)
      BY <3>1 DEF Level
    <3>4. NoLocals(stack, Triple(scope, exported, real), Len(stack) + 1)
      BY <3>1 DEF Standing, Stands
    <3> QED BY <3>2, <3>3, <3>4 DEF NoLocals, Triple
  <2>4. Follows(scope, UnsetEnv(exported, word.name), real)
    BY <1>2, <2>2, <2>3, DroppedFollows
  <2>5. Leave(isolated, scope, UnsetEnv(exported, word.name), real)
    BY <1>1, <2>1, <2>2
  <2> QED BY <1>2, <2>2, <2>4, <2>5, LeaveStands
<1>10. CASE ~unexport
  <2>1. new = ExportOne([exported |-> exported, scope |-> scope], word, local)
    BY <1>3, <1>10
  <2>2. its = IF "append" \in DOMAIN word \/ Prefixed(word.name, prefix)
              THEN RealAssign(RealDepth(word.name), told) ELSE real
    BY <1>7, <1>10
  <2>3. Goes(new.scope, new.exported, its)
    BY <1>1, <1>2, <1>4, <1>6, <1>10, <2>1, <2>2, ExportOneGoes
  <2> QED BY <1>1, <1>8, <2>3, GoesStands
<1> QED BY <1>9, <1>10

LEMMA DeclaresStand ==
  ASSUME Whole, Standing, NEW decl \in Declarations,
         NEW isolated, DeclaresNames(decl, isolated),
         strays' = {}
  PROVE  StandsNext
<1> DEFINE word == Head(decl.words)
           new == BindDeclaration(scope, exported, decl.base, decl.flags,
                                  decl.words)
           its == RealDeclare(decl.base, decl.flags, word)
<1>1. /\ Leave(isolated, new.scope, new.exported, its)
      /\ DeclareForms(decl.base, decl.flags, decl.words) = {}
  <2>1. /\ Leave(isolated, new.scope, new.exported, its)
        /\ Segment(DeclareForms(decl.base, decl.flags, decl.words))
    BY DEF DeclaresNames
  <2> HIDE DEF new, its
  <2> QED BY <2>1, NoForms
<1>2. /\ Sound(scope) /\ exported \in Env /\ Here /\ decl.base \in Declares
      /\ decl.words \in Seq(Word) /\ decl.words # <<>>
  BY StandingHere, DeclarationsAssumption DEF Whole
<1>3. word \in Word /\ decl.words = <<word>>
  <2>1. Len(decl.words) = 1
    <3>1. Form("several", Len(decl.words) # 1) = {}
      BY <1>1 DEF DeclareForms
    <3> QED BY <3>1 DEF Form
  <2> QED BY <1>2, <2>1
<1>4. new \in Views(Len(scope.locals))
  BY <1>2, DeclarationSound
<1>5. /\ "x" \in decl.flags \/ ~Frozen(word.name)
      /\ ~Inherited(word.name) /\ ~IsArray(word.name) /\ GrowsOne(word)
      /\ ~({"g", "x"} \subseteq decl.flags) \/ LocalFrame(scope, word.name) = 0
      /\ decl.base # "readonly" \/ LocalFrame(scope, word.name) = 0
  <2> DEFINE local == LocalFrame(scope, word.name) # 0
  <2>1. /\ Form("reassign", "x" \notin decl.flags /\ Frozen(word.name)) = {}
        /\ Form("inherited", Inherited(word.name)) = {}
        /\ Form("array", IsArray(word.name)) = {}
        /\ Form("append", ~GrowsOne(word)) = {}
        /\ Form("leak", {"g", "x"} \subseteq decl.flags /\ local) = {}
        /\ Form("readonly", decl.base = "readonly" /\ local) = {}
    BY <1>1 DEF DeclareForms
  <2> HIDE DEF local, word
  <2>2. /\ ~("x" \notin decl.flags /\ Frozen(word.name))
        /\ ~Inherited(word.name) /\ ~IsArray(word.name) /\ ~(~GrowsOne(word))
    BY <2>1, FormIs
  <2>3. /\ ~({"g", "x"} \subseteq decl.flags /\ local)
        /\ ~(decl.base = "readonly" /\ local)
    BY <2>1, FormIs
  <2> QED BY <2>2, <2>3 DEF local
<1>6. new = BindDeclaration(scope, exported, decl.base, decl.flags, <<word>>)
      /\ its = RealDeclare(decl.base, decl.flags, word)
  BY <1>3
<1> HIDE DEF new, its, word
<1>7. Sound(new.scope)
  BY <1>4, ViewIs
<1>8. Goes(new.scope, new.exported, its)
  BY <1>2, <1>3, <1>5, <1>6, DeclaresGo
<1> QED BY <1>1, <1>7, <1>8, GoesStands

LEMMA PrintsStand ==
  ASSUME Whole, Standing, NEW token \in Tokens, ~token.append,
         NEW isolated, PrintsTo(token, isolated),
         strays' = {}
  PROVE  StandsNext
<1> DEFINE known == SetVisible(scope, token.name, token.value)
           its == RealAssign(RealDepth(token.name), token)
<1>1. Leave(isolated, known, exported, its) /\ ~Frozen(token.name)
  BY NoForms, FormIs DEF PrintsTo
<1>2. /\ Sound(scope) /\ Here /\ token \in Token
      /\ token.name \in Name /\ token.value \in Text
  BY StandingHere, TokensAssumption DEF Whole, Token
<1>3. Sound(known)
  BY <1>2, SetVisibleSound
<1>4. exported[token.name] = Unset
  BY <1>1 DEF Frozen
<1>5. Goes(known, exported, its)
  BY <1>2, <1>4, SetVisibleGoes
<1> HIDE DEF known, its
<1> QED BY <1>1, <1>3, <1>5, GoesStands

LEMMA ReadsStand ==
  ASSUME Whole, Standing, NEW name \in Name, NEW input \in Inputs,
         NEW isolated, Reads(name, input, isolated),
         strays' = {}
  PROVE  StandsNext
<1> DEFINE given == CommandText(input)
           line == ReadIfsFields(Line(given.text), 1)[1]
           token == [name |-> name, value |-> line, append |-> FALSE]
           known == SetVisible(scope, name, line)
           its == RealAssign(RealDepth(name), token)
<1>1. /\ \/ Leave(isolated, scope, exported, real)
         \/ Leave(isolated, BindRead(scope, <<name>>, given.text), exported, its)
      /\ ~Frozen(name)
  BY NoForms, FormIs DEF Reads
<1>2. Sound(scope) /\ Here /\ given.text \in Text
  BY StandingHere, InputsAssumption, CommandTextTyped DEF Whole
<1>3. line \in Text
  BY <1>2, LineTyped, TrimTyped, FieldTyped
<1>4. BindRead(scope, <<name>>, given.text) = known
  BY ReadIs
<1> HIDE DEF line
<1>5. token \in Token /\ token.name = name /\ token.value = line /\ ~token.append
  BY <1>3 DEF Token
<1>6. Sound(known)
  BY <1>2, <1>3, SetVisibleSound
<1>7. exported[name] = Unset
  BY <1>1 DEF Frozen
<1>8. Goes(known, exported, its)
  <2> HIDE DEF token
  <2> QED BY <1>2, <1>5, <1>7, SetVisibleGoes
<1>9. CASE Leave(isolated, scope, exported, real)
  BY <1>2, <1>9, StaysGoes, GoesStands
<1>10. CASE Leave(isolated, known, exported, its)
  <2> HIDE DEF known, its
  <2> QED BY <1>6, <1>8, <1>10, GoesStands
<1> QED BY <1>1, <1>4, <1>9, <1>10

-----------------------------------------------------------------------------
LEMMA MapfilesStand ==
  ASSUME Whole, Standing, NEW name \in Name,
         NEW opts \in MapfileOptions, NEW input \in Inputs,
         NEW isolated \in BOOLEAN, Mapfiles(name, opts, input, isolated),
         strays' = {}
  PROVE  StandsNext
<1> DEFINE given == CommandText(input)
           bound == BindMapfile(scope, name, opts, given.text)
           large == given.kind = "unscanned" \/ bound.unscanned
           set == IF given.kind = "text" THEN bound.scope ELSE scope
           held == IF given.kind = "text" /\ ~large
                   THEN RealStore(RealDepth(name), name,
                                  VisibleArray(bound.scope, name))
                   ELSE real
           deep == large /\ given.kind # "absent"
           row == IF deep THEN Deep ELSE NoRow
<1>1. /\ \/ Scan("here", isolated, row, set, exported, functions, held)
         \/ Leave(isolated, set, exported, held)
      /\ ~Frozen(name) /\ LocalFrame(scope, name) = 0
  <2>1. /\ \/ Scan("here", isolated, row, set, exported, functions, held)
           \/ Leave(isolated, set, exported, held)
        /\ Segment(Form("reassign", Frozen(name))
                     \cup Form("array", LocalFrame(scope, name) # 0))
    BY DEF Mapfiles
  <2> HIDE DEF set, held, row
  <2>2. /\ Form("reassign", Frozen(name)) = {}
        /\ Form("array", LocalFrame(scope, name) # 0) = {}
    BY <2>1, NoForms
  <2> QED BY <2>1, <2>2, FormIs
<1>2. /\ Sound(scope) /\ Here /\ exported \in Env /\ Len(scope.locals) \in Nat
      /\ given.text \in Text /\ opts \in MapfileOption /\ input \in Input
  BY StandingHere, InputsAssumption, OptionsAssumption, CommandTextTyped,
     SameFrames DEF Whole
<1>3. Goes(set, exported, held)
  <2>1. /\ given = CommandText(input)
        /\ bound = BindMapfile(scope, name, opts, given.text)
        /\ large = (given.kind = "unscanned" \/ bound.unscanned)
        /\ set = IF given.kind = "text" THEN bound.scope ELSE scope
        /\ held = IF given.kind = "text" /\ ~large
                  THEN RealStore(RealDepth(name), name,
                                 VisibleArray(bound.scope, name))
                  ELSE real
    OBVIOUS
  <2> HIDE DEF given, bound, large, set, held
  <2> QED BY <1>1, <1>2, <2>1, MapfilesGo
<1>4. Sound(bound.scope)
  BY <1>2, MapfileSound
<1> HIDE DEF given, bound
<1>5. Sound(set)
  BY <1>2, <1>4
<1>6. row \in Row \cup {NoRow}
  BY DeepAssumption
<1> HIDE DEF set, held, row
<1>7. /\ Follows(set, exported, held)
      /\ Lasting(scope, exported, real, set, exported, held)
      /\ Len(set.locals) = Len(scope.locals) + 0
  BY <1>2, <1>3 DEF Goes
<1>8. CASE Scan("here", isolated, row, set, exported, functions, held)
  BY <1>2, <1>6, <1>7, <1>8, ScanStands DEF Calling
<1>9. CASE Leave(isolated, set, exported, held)
  BY <1>3, <1>5, <1>9, GoesStands
<1> QED BY <1>1, <1>8, <1>9

LEMMA ScriptsStand ==
  ASSUME Whole, Standing, NEW prefix \in PrefixWords,
         NEW isolated \in BOOLEAN,
         \/ \E fn \in Fn : Calls(fn, prefix, isolated)
         \/ RunsHere(prefix, isolated)
         \/ RunsChild(prefix)
         \/ Substitutes,
         strays' = {}
  PROVE  StandsNext
<1>1. /\ Sound(scope) /\ Here /\ exported \in Env /\ Len(scope.locals) \in Nat
      /\ WithPrefix(exported, prefix) \in Env
      /\ NoRow \in Row \cup {NoRow}
      /\ Len(scope.locals) = Len(scope.locals) + 0
  BY StandingHere, PrefixOf, SameFrames DEF Whole
<1>2. WithPrefix(exported, <<>>) = exported
      /\ (Segment(Form("prefixCall", prefix # <<>>)) => prefix = <<>>)
  BY <1>1, NoPrefix, NoForms, FormIs
<1>3. ASSUME NEW fn \in Fn, Calls(fn, prefix, isolated) PROVE StandsNext
  <2> DEFINE known == PushFrame(scope)
             its == RealPushed
  <2>1. Scan("call", isolated, NoRow, known, exported, functions, its)
    BY <1>2, <1>3 DEF Calls, RealPushed
  <2>2. /\ Follows(known, exported, its)
        /\ Lasting(scope, exported, real, known, exported, its)
    BY <1>1, CalledFollows
  <2>3. Len(known.locals) = Len(scope.locals) + 1
    BY <1>1, PushSound
  <2> HIDE DEF known, its
  <2> QED BY <1>1, <2>1, <2>2, <2>3, ScanStands DEF Calling
<1>4. CASE RunsHere(prefix, isolated)
  <2>1. Scan("here", isolated, NoRow, scope, exported, functions, real)
    BY <1>2, <1>4 DEF RunsHere
  <2>2. /\ Follows(scope, exported, real)
        /\ Lasting(scope, exported, real, scope, exported, real)
    BY <1>1, StaysGoes DEF Goes
  <2> QED BY <1>1, <2>1, <2>2, ScanStands DEF Calling
<1>5. CASE RunsChild(prefix)
  <2> DEFINE local == WithPrefix(exported, prefix)
             known == EmptyScope
             its == RealFrom(local)
             fns == {}
  <2>1. Scan("child", TRUE, NoRow, known, local, fns, its)
    BY <1>5 DEF RunsChild
  <2>2. Follows(known, local, its) /\ local \in Env
    BY <1>1, StartedFollows
  <2>3. known.locals = <<>>
    BY DEF EmptyScope
  <2> HIDE DEF known, its, local, fns
  <2> QED BY <2>1, <2>2, <2>3, <1>1, ScanStands
<1>6. CASE Substitutes
  <2>1. Scan("subst", TRUE, NoRow, scope, exported, functions, real)
    BY <1>6 DEF Substitutes
  <2>2. Follows(scope, exported, real)
    BY <1>1, StaysGoes DEF Goes
  <2> QED BY <1>1, <2>1, <2>2, ScanStands
<1> QED BY <1>3, <1>4, <1>5, <1>6

LEMMA InitStands == Init => Standing
<1> SUFFICES ASSUME Init PROVE Standing
  OBVIOUS
<1> DEFINE running == Triple(scope, exported, real)
<1>1. /\ scope = EmptyScope /\ exported = EmptyEnv /\ real = EmptyReal
      /\ stack = <<>> /\ Len(stack) = 0 /\ EmptyEnv \in Env
  BY EmptySeq DEF Init, EmptyEnv, Env
<1>2. EmptyReal = RealFrom(EmptyEnv)
  BY DEF EmptyReal, RealFrom, EmptyEnv
<1>3. Follows(scope, exported, real) /\ scope.locals = <<>>
  BY <1>1, <1>2, StartedFollows DEF EmptyScope
<1>4. Keeping(running) /\ running.scope.locals = <<>>
  BY <1>3, TripleIs
<1> HIDE DEF running
<1>5. \A i \in 1 .. (Len(stack) + 1) : Level(stack, running, i) = running
  BY <1>1 DEF Level
<1>6. Stands(stack, running)
  BY <1>1, <1>4, <1>5 DEF Stands, NoLocals
<1> QED BY <1>6 DEF Standing, running

LEMMA StandingNext ==
  ASSUME Whole, Standing, strays' = {}, [Next]_vars
  PROVE  StandsNext
<1>1. CASE UNCHANGED vars
  BY <1>1, NothingChanges DEF vars
<1>2. CASE \E row \in Row : Matches(row)
  BY <1>2, NothingChanges DEF Matches
<1>3. CASE \E fn \in Fn : Defines(fn)
  BY <1>3, NothingChanges DEF Defines
<1>4. CASE \E dir \in {token.value : token \in Tokens}, isolated \in BOOLEAN :
             ChangesDirectory(dir, isolated)
  <2>1. \A token \in Tokens : token.value \in Text
    BY TokensAssumption DEF Token
  <2> QED BY <1>4, <2>1, DirectoryStands
<1>5. CASE \E token \in Tokens, conditional, isolated \in BOOLEAN :
             Assigns(token, conditional, isolated)
  BY <1>5, AssignsStand
<1>6. CASE \E unexport, isolated \in BOOLEAN, prefix \in PrefixWords :
             \/ \E token \in Tokens : Exports(unexport, token, prefix, isolated)
             \/ \E name \in Name :
                  Exports(unexport, [name |-> name], prefix, isolated)
  <2>1. \A token \in Tokens : token \in Word
    BY TokensAssumption DEF Word
  <2>2. \A name \in Name : [name |-> name] \in Word
    BY DEF Word
  <2> QED BY <1>6, <2>1, <2>2, ExportsStand
<1>7. CASE \E decl \in Declarations, isolated \in BOOLEAN :
             DeclaresNames(decl, isolated)
  BY <1>7, DeclaresStand
<1>8. CASE \E token \in Tokens, isolated \in BOOLEAN :
             ~token.append /\ PrintsTo(token, isolated)
  BY <1>8, PrintsStand
<1>9. CASE \E name \in Name, input \in Inputs, isolated \in BOOLEAN :
             Reads(name, input, isolated)
  BY <1>9, ReadsStand
<1>10. CASE \E name \in Name, opts \in MapfileOptions, input \in Inputs,
               isolated \in BOOLEAN : Mapfiles(name, opts, input, isolated)
  BY <1>10, MapfilesStand
<1>11. CASE \E blank \in BOOLEAN : TooDeep(blank)
  BY <1>11, NothingChanges DEF TooDeep
<1>12. CASE \E fn \in Fn, prefix \in PrefixWords, isolated \in BOOLEAN :
              Calls(fn, prefix, isolated)
  BY <1>12, ScriptsStand
<1>13. CASE \E prefix \in PrefixWords, isolated \in BOOLEAN :
              RunsHere(prefix, isolated)
  BY <1>13, ScriptsStand
<1>14. CASE \E prefix \in PrefixWords : RunsChild(prefix)
  BY <1>14, ScriptsStand
<1>15. CASE Substitutes
  <2>1. Scan("subst", TRUE, NoRow, scope, exported, functions, real)
    BY <1>15 DEF Substitutes
  <2>2. /\ Follows(scope, exported, real) /\ exported \in Env
        /\ NoRow \in Row \cup {NoRow}
    BY StandingHere, StaysGoes DEF Goes, Whole
  <2> QED BY <2>1, <2>2, ScanStands
<1>16. CASE \E name \in Name, single \in BOOLEAN, prefix \in PrefixWords :
              Evaluates(name, single, prefix)
  BY <1>16, NothingChanges DEF Evaluates
<1>17. CASE Returns
  BY <1>17, ReturnsStand
<1> QED BY <1>1, <1>2, <1>3, <1>4, <1>5, <1>6, <1>7, <1>8, <1>9, <1>10,
           <1>11, <1>12, <1>13, <1>14, <1>15, <1>16, <1>17 DEF Next

(* Only an eval writes what was scored and what was wanted.                *)
LEMMA EvaluatedNext ==
  ASSUME Whole, Standing, strays' = {}, Scores, [Next]_vars
  PROVE  Scores'
<1>1. CASE UNCHANGED evaluated
  BY <1>1 DEF Scores
<1>2. CASE \E name \in Name, single \in BOOLEAN, prefix \in PrefixWords :
             Evaluates(name, single, prefix)
  <2>1. Here /\ \A prefix \in PrefixWords : prefix \in Seq(Token)
    BY StandingHere, PrefixAssumption
  <2> QED BY <1>2, <2>1, EvaluatesCovers
<1>3. ASSUME NEW name \in Name, NEW opts, NEW input, NEW isolated,
             Mapfiles(name, opts, input, isolated)
      PROVE  UNCHANGED evaluated
  BY <1>3 DEF Mapfiles, Scan, Leave
<1>4. ASSUME NEW word, NEW prefix, NEW unexport, NEW isolated,
             Exports(unexport, word, prefix, isolated)
      PROVE  UNCHANGED evaluated
  BY <1>4 DEF Exports, Leave
<1>5. ASSUME NEW token, NEW conditional, NEW isolated,
             Assigns(token, conditional, isolated)
      PROVE  UNCHANGED evaluated
  BY <1>5 DEF Assigns, Leave
<1>6. ASSUME NEW decl, NEW isolated, DeclaresNames(decl, isolated)
      PROVE  UNCHANGED evaluated
  BY <1>6 DEF DeclaresNames, Leave
<1>7. ASSUME NEW name, NEW input, NEW isolated, Reads(name, input, isolated)
      PROVE  UNCHANGED evaluated
  BY <1>7 DEF Reads, Leave
<1>8. ASSUME NEW token, NEW dir, NEW isolated,
             PrintsTo(token, isolated) \/ ChangesDirectory(dir, isolated)
      PROVE  UNCHANGED evaluated
  BY <1>8 DEF PrintsTo, ChangesDirectory, Leave
<1>9. ASSUME NEW fn, NEW prefix, NEW isolated,
             \/ Calls(fn, prefix, isolated) \/ RunsHere(prefix, isolated)
             \/ RunsChild(prefix) \/ Substitutes
      PROVE  UNCHANGED evaluated
  BY <1>9 DEF Calls, RunsHere, RunsChild, Substitutes, Scan
<1>10. ASSUME NEW row, NEW fn, NEW blank,
              Matches(row) \/ Defines(fn) \/ TooDeep(blank) \/ Returns
       PROVE  UNCHANGED evaluated
  BY <1>10 DEF Matches, Defines, TooDeep, Returns
<1>11. CASE UNCHANGED vars
  BY <1>1, <1>11 DEF vars
<1>12. CASE Next
  <2>1. UNCHANGED evaluated
        \/ \E name \in Name, single \in BOOLEAN, prefix \in PrefixWords :
             Evaluates(name, single, prefix)
    BY <1>3, <1>4, <1>5, <1>6, <1>7, <1>8, <1>9, <1>10, <1>12, Zenon DEF Next
  <2> QED BY <1>1, <1>2, <2>1
<1> QED BY <1>11, <1>12

(* No step forgets a form.                                                 *)
LEMMA StraysGrow ==
  ASSUME [Next]_vars, strays' = {}
  PROVE  strays = {}
<1>1. CASE UNCHANGED vars
  BY <1>1 DEF vars
<1>2. ASSUME NEW row, NEW fn, NEW blank, NEW dir, NEW isolated,
             \/ Matches(row) \/ Defines(fn) \/ TooDeep(blank) \/ Substitutes
             \/ ChangesDirectory(dir, isolated) \/ Returns
      PROVE  strays = {}
  BY <1>2, NoForms DEF Matches, Defines, TooDeep, Substitutes,
     ChangesDirectory, Returns
<1>3. ASSUME NEW token, NEW conditional, NEW isolated,
             Assigns(token, conditional, isolated) \/ PrintsTo(token, isolated)
      PROVE  strays = {}
  BY <1>3, NoForms DEF Assigns, PrintsTo
<1>4. ASSUME NEW word, NEW prefix, NEW unexport, NEW isolated,
             Exports(unexport, word, prefix, isolated)
      PROVE  strays = {}
  BY <1>4, NoForms DEF Exports
<1>5. ASSUME NEW decl, NEW isolated, DeclaresNames(decl, isolated)
      PROVE  strays = {}
  BY <1>5, NoForms DEF DeclaresNames
<1>6. ASSUME NEW name, NEW input, NEW isolated, Reads(name, input, isolated)
      PROVE  strays = {}
  BY <1>6, NoForms DEF Reads
<1>7. ASSUME NEW name, NEW opts, NEW input, NEW isolated,
             Mapfiles(name, opts, input, isolated)
      PROVE  strays = {}
  BY <1>7, NoForms DEF Mapfiles
<1>8. ASSUME NEW fn, NEW prefix, NEW isolated,
             \/ Calls(fn, prefix, isolated) \/ RunsHere(prefix, isolated)
             \/ RunsChild(prefix)
      PROVE  strays = {}
  BY <1>8, NoForms DEF Calls, RunsHere, RunsChild
<1>9. ASSUME NEW name, NEW single, NEW prefix, Evaluates(name, single, prefix)
      PROVE  strays = {}
  BY <1>9, NoForms DEF Evaluates
<1> QED BY <1>1, <1>2, <1>3, <1>4, <1>5, <1>6, <1>7, <1>8, <1>9, Zenon DEF Next

(* eval "$x" and eval '$x' score every text that bash could run there,     *)
(* after any number of segments, to any depth, for any names and texts, as *)
(* long as the command used none of Forms: assignments, declarations,      *)
(* functions, branches, subshells and child shells may have come before    *)
(* in any order (eval_scripts, ShellScope).  For a command that did use    *)
(* one it says nothing.                                                    *)
THEOREM EvalCovers == Spec => []EvalCoversShell
<1> DEFINE Covers == strays = {} => Standing /\ Scores
<1>1. Init => Covers
  BY InitStands DEF Init, Scores
<1>2. Whole /\ Covers /\ [Next]_vars => Covers'
  <2> SUFFICES ASSUME Whole, Covers, [Next]_vars, strays' = {}
               PROVE  Standing' /\ Scores'
    OBVIOUS
  <2>1. strays = {}
    BY StraysGrow
  <2>2. StandsNext /\ Scores'
    BY <2>1, StandingNext, EvaluatedNext
  <2> QED BY <2>2 DEF Standing, StandsNext
<1>3. Covers => EvalCoversShell
  BY DEF EvalCoversShell
<1> QED BY <1>1, <1>2, <1>3, WholeInvariance, PTL DEF Spec

=============================================================================
