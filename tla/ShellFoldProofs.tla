--------------------------- MODULE ShellFoldProofs ---------------------------
(***************************************************************************)
(* What holds of the folding of any script, however many pieces it has and *)
(* however long its texts, when each of its pipelines is followed as       *)
(* PipeIsFollowed says: the fold neither drops a piece that the shell runs *)
(* nor loses a line that the shell prints, and it is exact where it claims *)
(* to be.                                                                  *)
(***************************************************************************)
EXTENDS ShellFold, SequenceTheorems, WellFoundedInduction, TLAPS

-----------------------------------------------------------------------------
(* Folds.                                                                  *)

Below == {pair \in Nat \X Nat : pair[1] < pair[2]}

(* Of numbers that are not all of a kind there is a first that is not.     *)
LEMMA LeastOf ==
  ASSUME NEW S, S \subseteq Nat, S # {}
  PROVE  \E n \in S : \A m \in S : n <= m
<1>1. IsWellFoundedOn(Below, Nat)
  BY NatLessThanWellFounded DEF OpToRel, Below
<1>2. PICK n \in S : \A m \in S : ~(<<m, n>> \in Below)
  BY <1>1, WFMin
<1>3. ASSUME NEW m \in S PROVE n <= m
  <2>1. n \in Nat /\ m \in Nat /\ ~(m < n)
    BY <1>2 DEF Below
  <2> QED BY <2>1
<1> QED BY <1>3

LEMMA GreatestIs ==
  ASSUME NEW S, S \subseteq Int, NEW n \in S, \A m \in S : m <= n
  PROVE  Max(S) = n
<1>1. \A x, y \in S : (\A m \in S : x >= m) /\ (\A m \in S : y >= m) => x = y
  OBVIOUS
<1>2. \A m \in S : n >= m
  OBVIOUS
<1> QED BY <1>1, <1>2 DEF Max

(* A fold from the left, as the library unfolds it over the places of a    *)
(* sequence.                                                               *)
Folds(h, places, base, step, seq) ==
  h = [s \in SUBSET places |->
         IF s = {} THEN base ELSE step[<<h[s \ {Max(s)}], seq[Max(s)]>>]]

LEMMA FoldThere ==
  ASSUME NEW S, NEW W, NEW base \in S, NEW seq \in Seq(W),
         NEW step \in [S \X W -> S]
  PROVE  \E h \in [SUBSET (1 .. Len(seq)) -> S] :
           Folds(h, 1 .. Len(seq), base, step, seq)
<1> DEFINE There(k) == \E h \in [SUBSET (1 .. k) -> S] :
                         Folds(h, 1 .. k, base, step, seq)
           missing == {k \in 0 .. Len(seq) : ~There(k)}
<1>1. Len(seq) \in Nat /\ \A i \in 1 .. Len(seq) : seq[i] \in W
  BY LenProperties, ElementOfSeq
<1>2. There(0)
  <2> DEFINE h == [s \in SUBSET (1 .. 0) |-> base]
  <2>1. \A s \in SUBSET (1 .. 0) : s = {}
    OBVIOUS
  <2>2. h \in [SUBSET (1 .. 0) -> S] /\ Folds(h, 1 .. 0, base, step, seq)
    BY <2>1 DEF Folds
  <2> QED BY <2>2
<1>3. ASSUME NEW k \in 1 .. Len(seq), There(k - 1) PROVE There(k)
  <2>1. PICK g \in [SUBSET (1 .. (k - 1)) -> S] :
          Folds(g, 1 .. (k - 1), base, step, seq)
    BY <1>3
  <2> DEFINE h == [s \in SUBSET (1 .. k) |->
                     IF k \in s THEN step[<<g[s \ {k}], seq[k]>>] ELSE g[s]]
  <2>2. k \in Nat /\ k >= 1 /\ seq[k] \in W
    BY <1>1
  <2>3. \A s \in SUBSET (1 .. k) :
          /\ s \ {k} \in SUBSET (1 .. (k - 1))
          /\ k \notin s => s \in SUBSET (1 .. (k - 1))
    BY <2>2
  <2>4. h \in [SUBSET (1 .. k) -> S]
    <3> SUFFICES ASSUME NEW s \in SUBSET (1 .. k) PROVE h[s] \in S
      OBVIOUS
    <3>1. CASE k \in s
      <4>1. <<g[s \ {k}], seq[k]>> \in S \X W
        BY <2>2, <2>3
      <4> QED BY <3>1, <4>1
    <3>2. CASE k \notin s
      BY <2>3, <3>2
    <3> QED BY <3>1, <3>2
  <2>5. ASSUME NEW s \in SUBSET (1 .. k)
        PROVE  h[s] = IF s = {} THEN base
                      ELSE step[<<h[s \ {Max(s)}], seq[Max(s)]>>]
    <3>1. CASE k \in s
      <4>1. s \subseteq Int /\ \A m \in s : m <= k
        BY <2>2
      <4>2. Max(s) = k
        BY <3>1, <4>1, GreatestIs
      <4>3. s \ {k} \in SUBSET (1 .. k) /\ k \notin s \ {k}
        OBVIOUS
      <4>4. h[s \ {k}] = g[s \ {k}]
        BY <4>3
      <4> QED BY <3>1, <4>2, <4>4
    <3>2. CASE k \notin s
      <4>1. s \in SUBSET (1 .. (k - 1)) /\ h[s] = g[s]
        BY <2>3, <3>2
      <4>2. CASE s # {}
        <5>1. g[s] = step[<<g[s \ {Max(s)}], seq[Max(s)]>>]
          BY <2>1, <4>1, <4>2 DEF Folds
        <5>2. s \ {Max(s)} \in SUBSET (1 .. k) /\ k \notin s \ {Max(s)}
          BY <3>2
        <5> QED BY <4>1, <4>2, <5>1, <5>2
      <4>3. CASE s = {}
        BY <2>1, <4>1, <4>3 DEF Folds
      <4> QED BY <4>2, <4>3
    <3> QED BY <3>1, <3>2
  <2> HIDE DEF h
  <2>6. h = [s \in SUBSET (1 .. k) |-> h[s]]
    BY <2>4
  <2>7. Folds(h, 1 .. k, base, step, seq)
    BY <2>5, <2>6 DEF Folds
  <2> QED BY <2>4, <2>7
<1> HIDE DEF There
<1>4. missing = {}
  <2> SUFFICES ASSUME missing # {} PROVE FALSE
    OBVIOUS
  <2>1. missing \subseteq Nat
    BY <1>1
  <2>2. \E k \in missing : \A m \in missing : k <= m
    <3> HIDE DEF missing
    <3> QED BY <2>1, LeastOf
  <2>3. PICK k \in missing : \A m \in missing : k <= m
    BY <2>2
  <2>4. k # 0
    BY <1>2
  <2>5. k - 1 \in 0 .. Len(seq) /\ k \in 1 .. Len(seq) /\ k - 1 \notin missing
    BY <1>1, <2>1, <2>3, <2>4
  <2> QED BY <1>3, <2>5
<1>5. There(Len(seq))
  BY <1>1, <1>4
<1> QED BY <1>5 DEF There

(* The greatest of some places is one of them.                             *)
LEMMA GreatestThere ==
  ASSUME NEW n \in Nat, NEW s \in SUBSET (1 .. n), s # {}
  PROVE  Max(s) \in s /\ s \ {Max(s)} \in SUBSET (1 .. (Max(s) - 1))
<1> DEFINE gaps == {n - i : i \in s}
<1>1. gaps \subseteq Nat /\ gaps # {}
  <2>1. ASSUME NEW i \in s PROVE n - i \in Nat
    <3>1. i \in 1 .. n
      OBVIOUS
    <3> QED BY <3>1
  <2> QED BY <2>1
<1>2. \E g \in gaps : \A m \in gaps : g <= m
  <2> HIDE DEF gaps
  <2> QED BY <1>1, LeastOf
<1>3. PICK g \in gaps : \A m \in gaps : g <= m
  BY <1>2
<1>4. PICK top \in s : g = n - top
  BY <1>3
<1>5. ASSUME NEW i \in s PROVE i <= top
  <2>1. n - i \in gaps /\ i \in Nat /\ top \in Nat
    OBVIOUS
  <2>2. n - top <= n - i
    BY <1>3, <1>4, <2>1
  <2> QED BY <2>1, <2>2
<1>6. s \subseteq Int
  OBVIOUS
<1>7. Max(s) = top
  BY <1>5, <1>6, GreatestIs
<1> QED BY <1>5, <1>7

(* What holds of an empty fold and is kept by each of its steps holds of   *)
(* the fold.                                                               *)
LEMMA FoldTyped ==
  ASSUME NEW S, NEW n \in Nat, NEW h, h[{}] \in S,
         \A s \in SUBSET (1 .. n) :
           s # {} /\ h[s \ {Max(s)}] \in S => h[s] \in S
  PROVE  h[1 .. n] \in S
<1> DEFINE Typed(k) == \A s \in SUBSET (1 .. k) : h[s] \in S
           wrong == {k \in 0 .. n : ~Typed(k)}
<1>1. Typed(0)
  <2>1. \A s \in SUBSET (1 .. 0) : s = {}
    OBVIOUS
  <2> QED BY <2>1
<1>2. ASSUME NEW k \in 1 .. n, Typed(k - 1) PROVE Typed(k)
  <2> SUFFICES ASSUME NEW s \in SUBSET (1 .. k), s # {} PROVE h[s] \in S
    OBVIOUS
  <2>1. s \in SUBSET (1 .. n)
    OBVIOUS
  <2>2. Max(s) \in s /\ s \ {Max(s)} \in SUBSET (1 .. (Max(s) - 1))
    BY <2>1, GreatestThere
  <2>3. s \ {Max(s)} \in SUBSET (1 .. (k - 1))
    <3>1. PICK top \in s : top = Max(s) /\ s \ {top} \in SUBSET (1 .. (top - 1))
      BY <2>2
    <3>2. top \in 1 .. k
      OBVIOUS
    <3>3. \A i \in 1 .. (top - 1) : i \in 1 .. (k - 1)
      BY <3>2
    <3> QED BY <3>1, <3>3
  <2> QED BY <1>2, <2>1, <2>3
<1> HIDE DEF Typed
<1>3. wrong = {}
  <2> SUFFICES ASSUME wrong # {} PROVE FALSE
    OBVIOUS
  <2>1. wrong \subseteq Nat
    OBVIOUS
  <2>2. \E k \in wrong : \A m \in wrong : k <= m
    <3> HIDE DEF wrong
    <3> QED BY <2>1, LeastOf
  <2>3. PICK k \in wrong : \A m \in wrong : k <= m
    BY <2>2
  <2>4. k # 0
    BY <1>1
  <2>5. k - 1 \in 0 .. n /\ k \in 1 .. n /\ k - 1 \notin wrong
    BY <2>1, <2>3, <2>4
  <2> QED BY <1>2, <2>5
<1>4. Typed(n)
  BY <1>3
<1> QED BY <1>4 DEF Typed

(* The same of what is said of the places folded so far.                   *)
LEMMA FoldAlong ==
  ASSUME NEW n \in Nat, NEW S, {} \in S,
         \A s \in SUBSET (1 .. n) : s # {} /\ s \ {Max(s)} \in S => s \in S
  PROVE  1 .. n \in S
<1> DEFINE h == [s \in SUBSET (1 .. n) |-> s]
<1>1. h[{}] \in S /\ h[1 .. n] = 1 .. n
  OBVIOUS
<1>2. \A s \in SUBSET (1 .. n) : s # {} => s \ {Max(s)} \in SUBSET (1 .. n)
  OBVIOUS
<1>3. \A s \in SUBSET (1 .. n) : s # {} /\ h[s \ {Max(s)}] \in S => h[s] \in S
  BY <1>2
<1> HIDE DEF h
<1>4. h[1 .. n] \in S
  BY <1>1, <1>3, FoldTyped
<1> QED BY <1>1, <1>4

-----------------------------------------------------------------------------
(* The lines of a text.                                                    *)

LEMMA TextIs ==
  ASSUME NEW text, IsText(text)
  PROVE  /\ Len(text) \in Nat /\ DOMAIN text = 1 .. Len(text)
         /\ text \in Seq(ToSet(text))
         /\ \A i \in 1 .. Len(text) : text[i] \in ToSet(text)
BY LenProperties DEF IsText, ToSet

LEMMA SeqIsText ==
  ASSUME NEW S, NEW text \in Seq(S)
  PROVE  IsText(text)
<1>1. Len(text) \in Nat /\ DOMAIN text = 1 .. Len(text)
  BY LenProperties
<1>2. text = [i \in 1 .. Len(text) |-> text[i]]
  BY <1>1
<1>3. \A i \in 1 .. Len(text) : text[i] \in ToSet(text)
  BY <1>1 DEF ToSet
<1>4. [i \in 1 .. Len(text) |-> text[i]] \in Seq(ToSet(text))
  BY <1>1, <1>3, IsASeq
<1> QED BY <1>2, <1>4 DEF IsText

(* Places in order: each of them once, an earlier one first.               *)
Ordered(order, places) ==
  /\ \A k \in 1 .. Len(order) : order[k] \in places
  /\ \A i \in places : \E k \in 1 .. Len(order) : order[k] = i
  /\ \A k, m \in 1 .. Len(order) : k < m => order[k] < order[m]

LEMMA InOrderIs ==
  ASSUME NEW text, IsText(text), NEW places \in SUBSET (DOMAIN text)
  PROVE  /\ InOrder(places, text) \in Seq(1 .. Len(text))
         /\ Ordered(InOrder(places, text), places)
<1> DEFINE n == Len(text)
           seq == [i \in DOMAIN text |-> i]
           spots == [i \in DOMAIN seq |-> i]
           S == Seq(1 .. n)
           Keep(kept, i) == IF i \in places THEN Append(kept, seq[i]) ELSE kept
           step == [pair \in S \X (1 .. n) |-> Keep(pair[1], pair[2])]
           Iterates(h) == h = [s \in SUBSET DOMAIN spots |->
                                 IF s = {} THEN <<>>
                                 ELSE Keep(h[s \ {Max(s)}], spots[Max(s)])]
           iter == CHOOSE h : Iterates(h)
<1>1. /\ DOMAIN seq = 1 .. n /\ n \in Nat /\ DOMAIN spots = 1 .. n
      /\ spots = [i \in 1 .. n |-> i]
      /\ \A i \in 1 .. n : spots[i] = i /\ seq[i] = i
      /\ places \subseteq 1 .. n
  BY TextIs
<1>2. spots \in Seq(1 .. n) /\ Len(spots) = n
  <2>1. [i \in 1 .. n |-> i] \in Seq(1 .. n)
    BY <1>1, IsASeq
  <2>2. spots \in Seq(1 .. n)
    BY <1>1, <2>1
  <2> HIDE DEF spots, n
  <2> QED BY <1>1, <2>2, LenProperties
<1>3. \A kept \in S, i \in 1 .. n : Keep(kept, i) \in S
  <2> SUFFICES ASSUME NEW kept \in Seq(1 .. n), NEW i \in 1 .. n
               PROVE  Append(kept, seq[i]) \in Seq(1 .. n)
    OBVIOUS
  <2> QED BY <1>1, AppendProperties
<1>4. step \in [S \X (1 .. n) -> S] /\ <<>> \in S
  <2> HIDE DEF Keep
  <2>1. step \in [S \X (1 .. n) -> S]
    BY <1>3
  <2> QED BY <2>1, EmptySeq
<1>5. \A s \in SUBSET (1 .. n) : s # {} =>
        /\ Max(s) \in s /\ Max(s) \in 1 .. n
        /\ s \ {Max(s)} \in SUBSET (1 .. (Max(s) - 1))
        /\ s \ {Max(s)} \in SUBSET (1 .. n)
        /\ spots[Max(s)] = Max(s)
  BY <1>1, GreatestThere
<1>6. InOrder(places, text) = iter[1 .. n]
  <2>1. InOrder(places, text) = Selected(seq, places)
    BY DEF InOrder
  <2>2. DOMAIN spots = 1 .. Len(spots) /\ Len(spots) = n
    BY <1>1, <1>2
  <2> HIDE DEF seq, Keep
  <2>3. Selected(seq, places) = iter[1 .. n]
    BY <1>1, <2>2 DEF Selected, FoldLeft, MapThenFoldSet, Keep
  <2> QED BY <2>1, <2>3
<1>7. PICK h \in [SUBSET (1 .. n) -> S] : Folds(h, 1 .. n, <<>>, step, spots)
  <2> HIDE DEF step, spots, n, S
  <2> QED BY <1>1, <1>2, <1>4, FoldThere
<1>8. Iterates(h)
  <2>1. \A s \in SUBSET (1 .. n) : s # {} =>
          s \ {Max(s)} \in SUBSET (1 .. n) /\ spots[Max(s)] \in 1 .. n
    BY <1>5
  <2>2. DOMAIN spots = 1 .. n
    BY <1>1
  <2> HIDE DEF spots, S, Keep
  <2> QED BY <2>1, <2>2, <1>7 DEF Folds
<1>9. Iterates(iter)
  BY <1>8
<1> HIDE DEF iter
<1>10. \A s \in SUBSET (1 .. n) :
         iter[s] = IF s = {} THEN <<>>
                   ELSE IF Max(s) \in places
                        THEN Append(iter[s \ {Max(s)}], Max(s))
                        ELSE iter[s \ {Max(s)}]
  BY <1>1, <1>5, <1>9
<1> HIDE DEF spots, n, S, step, seq
<1> DEFINE Done == {s \in SUBSET (1 .. n) :
                      iter[s] \in Seq(1 .. n) /\ Ordered(iter[s], s \cap places)}
<1>11. {} \in Done
  <2>1. iter[{}] = <<>> /\ Len(<<>>) = 0 /\ <<>> \in Seq(1 .. n)
    BY <1>10, EmptySeq
  <2>2. Ordered(<<>>, {})
    BY <2>1 DEF Ordered
  <2>3. {} \cap places = {}
    OBVIOUS
  <2> QED BY <2>1, <2>2, <2>3
<1>12. ASSUME NEW s \in SUBSET (1 .. n), s # {}, s \ {Max(s)} \in Done
       PROVE  s \in Done
  <2> DEFINE kept == iter[s \ {Max(s)}]
  <2>1. PICK top \in 1 .. n : top = Max(s)
    BY <1>5, <1>12
  <2>2. /\ top \in s /\ s \ {top} \in SUBSET (1 .. (top - 1))
        /\ kept \in Seq(1 .. n) /\ Ordered(kept, (s \ {top}) \cap places)
        /\ iter[s] = IF top \in places THEN Append(kept, top) ELSE kept
    BY <1>5, <1>10, <1>12, <2>1
  <2> HIDE DEF kept
  <2>3. CASE top \notin places
    <3>1. (s \ {top}) \cap places = s \cap places
      BY <2>3
    <3> QED BY <2>2, <2>3, <3>1
  <2>4. CASE top \in places
    <3> DEFINE more == Append(kept, top)
    <3>1. /\ more \in Seq(1 .. n) /\ Len(more) = Len(kept) + 1
          /\ Len(kept) \in Nat
          /\ \A k \in 1 .. Len(kept) : more[k] = kept[k]
          /\ more[Len(kept) + 1] = top
      BY <2>2, AppendProperties, LenProperties
    <3> HIDE DEF more
    <3>2. \A k \in 1 .. Len(kept) : kept[k] \in (s \ {top}) \cap places
      BY <2>2 DEF Ordered
    <3>3. \A i \in (s \ {top}) \cap places : i < top /\ i \in Nat
      BY <1>1, <2>1, <2>2
    <3>4. \A k \in 1 .. Len(more) : more[k] \in s \cap places
      BY <2>2, <2>4, <3>1, <3>2
    <3>5. \A i \in s \cap places : \E k \in 1 .. Len(more) : more[k] = i
      <4> SUFFICES ASSUME NEW i \in s \cap places
                   PROVE  \E k \in 1 .. Len(more) : more[k] = i
        OBVIOUS
      <4>1. CASE i = top
        BY <3>1, <4>1
      <4>2. CASE i # top
        <5>1. PICK k \in 1 .. Len(kept) : kept[k] = i
          BY <2>2, <4>2 DEF Ordered
        <5> QED BY <3>1, <5>1
      <4> QED BY <4>1, <4>2
    <3>6. ASSUME NEW k \in 1 .. Len(more), NEW m \in 1 .. Len(more), k < m
          PROVE  more[k] < more[m]
      <4>1. k \in 1 .. Len(kept) /\ more[k] = kept[k]
        BY <3>1, <3>6
      <4>2. CASE m = Len(kept) + 1
        BY <3>1, <3>2, <3>3, <4>1, <4>2
      <4>3. CASE m # Len(kept) + 1
        <5>1. m \in 1 .. Len(kept) /\ more[m] = kept[m]
          BY <3>1, <4>3
        <5> QED BY <2>2, <3>6, <4>1, <5>1 DEF Ordered
      <4> QED BY <4>2, <4>3
    <3>7. Ordered(more, s \cap places)
      BY <3>4, <3>5, <3>6 DEF Ordered
    <3> QED BY <2>2, <2>4, <3>1, <3>7 DEF more
  <2> QED BY <2>3, <2>4
<1> HIDE DEF Done
<1>13. 1 .. n \in Done
  BY <1>1, <1>11, <1>12, FoldAlong
<1>14. iter[1 .. n] \in Seq(1 .. n) /\ Ordered(iter[1 .. n], places)
  <2>1. (1 .. n) \cap places = places
    BY <1>1
  <2> QED BY <1>13, <2>1 DEF Done
<1> QED BY <1>6, <1>14 DEF n

(* A line of a text: between newlines, or the ends of the text.            *)
LineAt(text, w, i) ==
  /\ i + Len(w) <= Len(text)
  /\ \A k \in 1 .. Len(w) : w[k] = text[i + k] /\ w[k] # Newline
  /\ i = 0 \/ text[i] = Newline
  /\ i + Len(w) = Len(text) \/ text[i + Len(w) + 1] = Newline
IsLineOf(text, w) ==
  /\ w \in Seq(ToSet(text)) /\ Len(w) >= 1
  /\ \E i \in Nat : LineAt(text, w, i)

LEMMA PartIs ==
  ASSUME NEW text, IsText(text), NEW m \in Nat, m >= 1, NEW n \in Nat,
         n <= Len(text), m <= n + 1
  PROVE  /\ SubSeq(text, m, n) \in Seq(ToSet(text))
         /\ Len(SubSeq(text, m, n)) = n + 1 - m
         /\ \A k \in 1 .. (n + 1 - m) : SubSeq(text, m, n)[k] = text[m + k - 1]
<1>1. Len(text) \in Nat /\ text \in Seq(ToSet(text))
  BY TextIs
<1>2. \A i \in m .. n : i \in 1 .. Len(text) /\ text[i] \in ToSet(text)
  BY <1>1, TextIs
<1>3. SubSeq(text, m, n) = [k \in 1 .. (n + 1 - m) |-> text[m + k - 1]]
  BY <1>1
<1>4. \A k \in 1 .. (n + 1 - m) : text[m + k - 1] \in ToSet(text)
  BY <1>2
<1>5. /\ [k \in 1 .. (n + 1 - m) |-> text[m + k - 1]] \in Seq(ToSet(text))
      /\ n + 1 - m \in Nat
  BY <1>4, IsASeq
<1>6. SubSeq(text, m, n) \in Seq(ToSet(text))
  BY <1>3, <1>5
<1>7. Len(SubSeq(text, m, n)) = n + 1 - m
  BY <1>3, <1>5, <1>6, LenProperties
<1> QED BY <1>3, <1>6, <1>7

(* Two sequences with the same elements in the same places are the same.   *)
LEMMA SameSeq ==
  ASSUME NEW S, NEW a \in Seq(S), NEW b \in Seq(S), Len(a) = Len(b),
         \A k \in 1 .. Len(a) : a[k] = b[k]
  PROVE  a = b
<1>1. /\ Len(a) \in Nat
      /\ a = [k \in 1 .. Len(a) |-> a[k]] /\ b = [k \in 1 .. Len(a) |-> b[k]]
  BY LenProperties
<1> QED BY <1>1

(* The places where the lines of a text end.                               *)
EndsOf(text) ==
  Places(text, {Newline}) \cup (IF text = <<>> THEN {} ELSE {Len(text)})

LEMMA EndsAre ==
  ASSUME NEW text, IsText(text)
  PROVE  /\ EndsOf(text) \in SUBSET (DOMAIN text)
         /\ DOMAIN text = 1 .. Len(text) /\ Len(text) \in Nat
         /\ \A i \in 1 .. Len(text) :
              i \in EndsOf(text) <=> text[i] = Newline \/ i = Len(text)
<1>1. Len(text) \in Nat /\ DOMAIN text = 1 .. Len(text)
  BY TextIs
<1>2. text # <<>> => Len(text) \in 1 .. Len(text)
  BY <1>1, EmptySeq, TextIs
<1>3. \A i \in 1 .. Len(text) : text # <<>>
  BY <1>1, EmptySeq
<1> QED BY <1>1, <1>2, <1>3 DEF EndsOf, Places

LEMMA BodyIs ==
  ASSUME NEW text, IsText(text), NEW a \in Nat, NEW b \in Nat,
         a < b, b <= Len(text)
  PROVE  Body(SubSeq(text, a + 1, b))
           = SubSeq(text, a + 1, IF text[b] = Newline THEN b - 1 ELSE b)
<1> DEFINE record == SubSeq(text, a + 1, b)
           short  == SubSeq(text, a + 1, b - 1)
<1>1. /\ record \in Seq(ToSet(text)) /\ Len(record) = b - a
      /\ \A k \in 1 .. (b - a) : record[k] = text[a + k]
  <2>1. a + 1 \in Nat /\ a + 1 >= 1 /\ a + 1 <= b + 1
    OBVIOUS
  <2> QED BY <2>1, PartIs
<1>2. /\ short \in Seq(ToSet(text)) /\ Len(short) = b - 1 - a
      /\ \A k \in 1 .. (b - 1 - a) : short[k] = text[a + k]
  <2>1. /\ a + 1 \in Nat /\ a + 1 >= 1 /\ b - 1 \in Nat /\ b - 1 <= Len(text)
        /\ a + 1 <= (b - 1) + 1
    BY TextIs
  <2> QED BY <2>1, PartIs
<1> HIDE DEF record, short
<1>3. IsText(record)
  BY <1>1, SeqIsText
<1>4. record # <<>> /\ Last(record) = text[b]
  <2>1. Len(record) = b - a /\ b - a >= 1 /\ b - a \in 1 .. (b - a)
    BY <1>1
  <2>2. record # <<>>
    BY <2>1, EmptySeq
  <2> QED BY <1>1, <2>1, <2>2 DEF Last
<1>5. Front(record) = short
  <2> DEFINE front == SubSeq(record, 1, b - a - 1)
  <2>1. /\ front \in Seq(ToSet(record)) /\ Len(front) = b - a - 1
        /\ \A k \in 1 .. (b - a - 1) : front[k] = record[k]
    <3>1. /\ 1 \in Nat /\ b - a - 1 \in Nat /\ b - a - 1 <= Len(record)
          /\ 1 <= (b - a - 1) + 1
      BY <1>1
    <3> QED BY <1>3, <3>1, PartIs
  <2> HIDE DEF front
  <2>2. ToSet(record) \subseteq ToSet(text)
    BY <1>1, LenProperties, ElementOfSeq DEF ToSet
  <2>3. \A k \in 1 .. (b - a - 1) : front[k] = text[a + k]
    BY <1>1, <2>1
  <2>4. \A i \in 1 .. Len(front) : front[i] \in ToSet(text)
    BY <2>1, <2>2, TextIs, SeqIsText
  <2>5. front \in Seq(ToSet(text))
    <3>1. front = [k \in 1 .. Len(front) |-> front[k]] /\ Len(front) \in Nat
      BY <2>1, LenProperties
    <3>2. [k \in 1 .. Len(front) |-> front[k]] \in Seq(ToSet(text))
      BY <2>4, <3>1, IsASeq
    <3> QED BY <3>1, <3>2
  <2>6. front = short
    <3>1. Len(front) = Len(short) /\ \A k \in 1 .. Len(front) : front[k] = short[k]
      BY <1>2, <2>1, <2>3
    <3> QED BY <1>2, <2>5, <3>1, SameSeq
  <2>7. Front(record) = front
    BY <1>1 DEF Front, front
  <2> QED BY <2>6, <2>7
<1> QED BY <1>4, <1>5 DEF Body, Chomp, record, short

(* The bodies of the lines, by the places where these end.                 *)
StartOf(order, k) == IF k = 1 THEN 0 ELSE order[k - 1]
LineEnds(text) == InOrder(EndsOf(text), text)

LEMMA BodiesAre ==
  ASSUME NEW text, IsText(text), NEW order, order = LineEnds(text)
  PROVE  /\ Len(order) \in Nat /\ Ordered(order, EndsOf(text))
         /\ DOMAIN Bodies(text) = 1 .. Len(order)
         /\ \A k \in 1 .. Len(order) :
              Bodies(text)[k] = Body(SubSeq(text, StartOf(order, k) + 1, order[k]))
<1>1. order \in Seq(1 .. Len(text)) /\ Ordered(order, EndsOf(text))
  BY EndsAre, InOrderIs DEF LineEnds
<1>2. Len(order) \in Nat /\ DOMAIN order = 1 .. Len(order)
  BY <1>1, LenProperties
<1>3. Lines(text) = [k \in 1 .. Len(order) |->
        SubSeq(text, IF k = 1 THEN 1 ELSE order[k - 1] + 1, order[k])]
  BY <1>2 DEF Lines, Records, LineEnds, EndsOf
<1>4. \A k \in 1 .. Len(order) :
        (IF k = 1 THEN 1 ELSE order[k - 1] + 1) = StartOf(order, k) + 1
  BY DEF StartOf
<1>5. Bodies(text) = [k \in 1 .. Len(order) |-> Body(Lines(text)[k])]
  <2> DEFINE lines == Lines(text)
  <2>1. DOMAIN lines = 1 .. Len(order)
    BY <1>3
  <2> HIDE DEF lines
  <2>2. BodiesOf(lines) = [k \in 1 .. Len(order) |-> Body(lines[k])]
    BY <2>1 DEF BodiesOf
  <2> QED BY <2>2 DEF Bodies, lines
<1> QED BY <1>1, <1>2, <1>3, <1>4, <1>5

(* Between two ends there is none, and so no newline.                      *)
LEMMA SpansAre ==
  ASSUME NEW text, IsText(text), NEW order, order = LineEnds(text),
         NEW k \in 1 .. Len(order)
  PROVE  LET a == StartOf(order, k)
             b == order[k]
         IN  /\ a \in Nat /\ b \in Nat /\ a < b /\ b <= Len(text)
             /\ a = 0 \/ text[a] = Newline
             /\ \A i \in (a + 1) .. (b - 1) : text[i] # Newline
             /\ text[b] = Newline \/ b = Len(text)
<1> DEFINE a == StartOf(order, k)
           b == order[k]
<1>1. /\ Len(order) \in Nat /\ Ordered(order, EndsOf(text))
      /\ k - 1 \in Nat /\ k # 1 => k - 1 \in 1 .. Len(order)
  BY BodiesAre
<1>2. \A m \in 1 .. Len(order) :
        /\ order[m] \in 1 .. Len(text)
        /\ text[order[m]] = Newline \/ order[m] = Len(text)
  BY <1>1, EndsAre DEF Ordered
<1>3. b \in 1 .. Len(text) /\ (text[b] = Newline \/ b = Len(text))
  BY <1>2
<1>4. /\ a \in Nat /\ a < b /\ a <= Len(text)
      /\ a = 0 \/ (a = order[k - 1] /\ k # 1)
  <2>1. CASE k = 1
    BY <1>3, <2>1, EndsAre DEF StartOf
  <2>2. CASE k # 1
    <3>1. order[k - 1] < order[k] /\ order[k - 1] \in 1 .. Len(text)
      BY <1>1, <1>2, <2>2 DEF Ordered
    <3> QED BY <2>2, <3>1, EndsAre DEF StartOf
  <2> QED BY <2>1, <2>2
<1>5. a = 0 \/ text[a] = Newline
  <2> SUFFICES ASSUME a # 0 PROVE text[a] = Newline
    OBVIOUS
  <2>1. a = order[k - 1] /\ k - 1 \in 1 .. Len(order)
    BY <1>1, <1>4
  <2>2. text[a] = Newline \/ a = Len(text)
    BY <1>2, <2>1
  <2>3. a # Len(text)
    BY <1>3, <1>4, EndsAre
  <2> QED BY <2>2, <2>3
<1>6. ASSUME NEW i \in (a + 1) .. (b - 1) PROVE text[i] # Newline
  <2> SUFFICES ASSUME text[i] = Newline PROVE FALSE
    OBVIOUS
  <2>1. i \in Nat /\ i \in 1 .. Len(text) /\ a < i /\ i < b
    BY <1>3, <1>4, EndsAre
  <2>2. PICK m \in 1 .. Len(order) : order[m] = i
    BY <1>1, <2>1, EndsAre DEF Ordered
  <2>3. m < k
    <3>1. m # k
      BY <2>1, <2>2
    <3>2. ~(k < m)
      <4> SUFFICES ASSUME k < m PROVE FALSE
        OBVIOUS
      <4>1. order[k] < order[m]
        BY <1>1 DEF Ordered
      <4> QED BY <1>3, <2>1, <2>2, <4>1
    <3> QED BY <1>1, <3>1, <3>2
  <2>4. k # 1 /\ a = order[k - 1]
    BY <1>1, <2>3 DEF StartOf
  <2>5. m = k - 1 \/ m < k - 1
    BY <1>1, <2>3
  <2>6. order[m] = order[k - 1] \/ order[m] < order[k - 1]
    BY <1>1, <2>4, <2>5 DEF Ordered
  <2> QED BY <1>4, <2>1, <2>2, <2>4, <2>6
<1> QED BY <1>3, <1>4, <1>5, <1>6

(* What the words see of a text: the lines between its newlines that are   *)
(* not empty.                                                              *)
LEMMA LinesAre ==
  ASSUME NEW text, IsText(text)
  PROVE  LineSet(text) = {w \in Seq(ToSet(text)) : IsLineOf(text, w)}
<1> DEFINE order == LineEnds(text)
           bodies == Bodies(text)
           First(k) == StartOf(order, k)
           Final(k) == IF text[order[k]] = Newline THEN order[k] - 1 ELSE order[k]
<1>1. order = LineEnds(text)
  OBVIOUS
<1> HIDE DEF order, First
<1>2. /\ Len(order) \in Nat /\ Ordered(order, EndsOf(text))
      /\ DOMAIN bodies = 1 .. Len(order)
      /\ \A k \in 1 .. Len(order) :
           bodies[k] = Body(SubSeq(text, First(k) + 1, order[k]))
  BY <1>1, BodiesAre DEF First
<1>3. ASSUME NEW k \in 1 .. Len(order)
      PROVE  /\ First(k) \in Nat /\ order[k] \in Nat /\ First(k) < order[k]
             /\ order[k] <= Len(text)
             /\ First(k) = 0 \/ text[First(k)] = Newline
             /\ \A i \in (First(k) + 1) .. (order[k] - 1) : text[i] # Newline
             /\ text[order[k]] = Newline \/ order[k] = Len(text)
  BY <1>1, SpansAre DEF First
<1>4. ASSUME NEW k \in 1 .. Len(order)
      PROVE  /\ bodies[k] \in Seq(ToSet(text))
             /\ Len(bodies[k]) = Final(k) - First(k)
             /\ \A i \in 1 .. Len(bodies[k]) :
                  bodies[k][i] = text[First(k) + i] /\ bodies[k][i] # Newline
             /\ Final(k) = Len(text) \/ text[Final(k) + 1] = Newline
             /\ Final(k) \in Nat /\ Final(k) >= First(k)
             /\ Final(k) <= Len(text)
  <2> DEFINE a == First(k)
             b == order[k]
             c == Final(k)
  <2>1. /\ a \in Nat /\ b \in Nat /\ a < b /\ b <= Len(text)
        /\ \A i \in (a + 1) .. (b - 1) : text[i] # Newline
        /\ text[b] = Newline \/ b = Len(text)
    BY <1>3
  <2>2. c = IF text[b] = Newline THEN b - 1 ELSE b
    OBVIOUS
  <2>3. bodies[k] = SubSeq(text, a + 1, IF text[b] = Newline THEN b - 1 ELSE b)
    <3> HIDE DEF a, b
    <3>1. bodies[k] = Body(SubSeq(text, a + 1, b))
      BY <1>2 DEF a, b
    <3> QED BY <2>1, <3>1, BodyIs
  <2> HIDE DEF a, b, c, Final, bodies
  <2>4. /\ c \in Nat /\ a <= c /\ c <= b /\ c <= Len(text)
        /\ c = Len(text) \/ text[c + 1] = Newline
        /\ c = b - 1 \/ (c = b /\ text[b] # Newline)
    BY <2>1, <2>2
  <2>5. bodies[k] = SubSeq(text, a + 1, c)
    BY <2>2, <2>3
  <2>6. /\ SubSeq(text, a + 1, c) \in Seq(ToSet(text))
        /\ Len(SubSeq(text, a + 1, c)) = c - a
        /\ \A i \in 1 .. (c - a) : SubSeq(text, a + 1, c)[i] = text[a + i]
    <3>1. a + 1 \in Nat /\ a + 1 >= 1 /\ a + 1 <= c + 1
      BY <2>1, <2>4
    <3> QED BY <2>1, <2>4, <3>1, PartIs
  <2>7. \A i \in 1 .. (c - a) : text[a + i] # Newline
    <3> SUFFICES ASSUME NEW i \in 1 .. (c - a) PROVE text[a + i] # Newline
      OBVIOUS
    <3>1. a + i \in (a + 1) .. (b - 1) \/ (a + i = b /\ c = b)
      BY <2>1, <2>4
    <3> QED BY <2>1, <2>4, <3>1
  <2> QED BY <2>1, <2>4, <2>5, <2>6, <2>7 DEF a, b, c
<1> HIDE DEF bodies
<1>5. \A w : w \in LineSet(text) <=>
               w # <<>> /\ \E k \in 1 .. Len(order) : w = bodies[k]
  BY <1>2 DEF LineSet, ToSet, bodies
<1>6. ASSUME NEW w, w \in LineSet(text)
      PROVE  w \in Seq(ToSet(text)) /\ IsLineOf(text, w)
  <2>1. PICK k \in 1 .. Len(order) : w = bodies[k] /\ w # <<>>
    BY <1>5, <1>6
  <2> DEFINE a == First(k)
             c == Final(k)
  <2>2. /\ w \in Seq(ToSet(text)) /\ Len(w) = c - a
        /\ \A i \in 1 .. Len(w) : w[i] = text[a + i] /\ w[i] # Newline
        /\ c = Len(text) \/ text[c + 1] = Newline
        /\ a \in Nat /\ c \in Nat /\ c >= a /\ c <= Len(text)
        /\ a = 0 \/ text[a] = Newline
    BY <1>3, <1>4, <2>1
  <2> HIDE DEF a, c
  <2>3. Len(w) # 0
    BY <2>1, <2>2, EmptySeq
  <2>4. a + Len(w) = c /\ Len(w) >= 1
    BY <2>2, <2>3
  <2>5. LineAt(text, w, a)
    BY <2>2, <2>4 DEF LineAt
  <2> QED BY <2>2, <2>4, <2>5 DEF IsLineOf
<1>7. ASSUME NEW w \in Seq(ToSet(text)), IsLineOf(text, w)
      PROVE  w \in LineSet(text)
  <2>1. PICK i \in Nat : LineAt(text, w, i)
    BY <1>7 DEF IsLineOf
  <2> DEFINE j == i + Len(w)
             b == IF j = Len(text) THEN j ELSE j + 1
  <2>2. /\ Len(w) \in Nat /\ Len(w) >= 1 /\ j \in Nat /\ i < j
        /\ j <= Len(text) /\ Len(text) \in Nat
        /\ \A k \in 1 .. Len(w) : w[k] = text[i + k] /\ w[k] # Newline
        /\ i = 0 \/ text[i] = Newline
        /\ j = Len(text) \/ text[j + 1] = Newline
    <3>1. Len(w) \in Nat /\ Len(w) >= 1 /\ Len(text) \in Nat
      BY <1>7, LenProperties, EndsAre DEF IsLineOf
    <3>2. /\ j <= Len(text) /\ (i = 0 \/ text[i] = Newline)
          /\ \A k \in 1 .. Len(w) : w[k] = text[i + k] /\ w[k] # Newline
          /\ j = Len(text) \/ text[j + 1] = Newline
      BY <2>1 DEF LineAt
    <3> QED BY <3>1, <3>2
  <2>3. \A k \in (i + 1) .. j : text[k] # Newline
    <3> SUFFICES ASSUME NEW k \in (i + 1) .. j PROVE text[k] # Newline
      OBVIOUS
    <3>1. k - i \in 1 .. Len(w) /\ i + (k - i) = k
      BY <2>2
    <3> QED BY <2>2, <3>1
  <2> HIDE DEF j
  <2>4. b \in 1 .. Len(text) /\ b \in EndsOf(text)
    BY <2>2, EndsAre
  <2>5. PICK k \in 1 .. Len(order) : order[k] = b
    BY <1>2, <2>4 DEF Ordered
  <2>6. First(k) = i
    <3>1. /\ First(k) \in Nat /\ First(k) < b
          /\ First(k) = 0 \/ text[First(k)] = Newline
          /\ \A m \in (First(k) + 1) .. (b - 1) : text[m] # Newline
      BY <1>3, <2>5
    <3>2. ~(First(k) < i)
      <4> SUFFICES ASSUME First(k) < i PROVE FALSE
        OBVIOUS
      <4>1. i \in (First(k) + 1) .. (b - 1)
        BY <2>2, <3>1
      <4>2. i # 0
        BY <3>1
      <4> QED BY <2>2, <3>1, <4>1, <4>2
    <3>3. ~(First(k) > i)
      <4> SUFFICES ASSUME First(k) > i PROVE FALSE
        OBVIOUS
      <4>1. First(k) \in (i + 1) .. j /\ First(k) # 0
        BY <2>2, <3>1
      <4> QED BY <2>3, <3>1, <4>1
    <3> QED BY <3>1, <3>2, <3>3
  <2>7. Final(k) = j
    <3>1. j = Len(text) => text[j] # Newline
      BY <2>2, <2>3
    <3>2. j # Len(text) => b = j + 1 /\ text[b] = Newline
      BY <2>2
    <3> QED BY <2>2, <2>5, <3>1, <3>2
  <2>8. /\ bodies[k] \in Seq(ToSet(text)) /\ Len(bodies[k]) = Len(w)
        /\ \A m \in 1 .. Len(bodies[k]) : bodies[k][m] = w[m]
    <3>1. j - i = Len(w)
      BY <2>2 DEF j
    <3> HIDE DEF Final
    <3>2. /\ bodies[k] \in Seq(ToSet(text)) /\ Len(bodies[k]) = j - i
          /\ \A m \in 1 .. Len(bodies[k]) : bodies[k][m] = text[i + m]
      BY <1>4, <2>6, <2>7
    <3> QED BY <2>2, <3>1, <3>2
  <2>9. bodies[k] = w
    BY <2>8, SameSeq
  <2>10. w # <<>>
    BY <2>2, EmptySeq
  <2> QED BY <1>5, <2>9, <2>10
<1> QED BY <1>6, <1>7

-----------------------------------------------------------------------------
(* Lines of two texts.                                                     *)

IsConcat(a, b, c) ==
  /\ Len(c) = Len(a) + Len(b)
  /\ \A i \in 1 .. Len(a) : c[i] = a[i]
  /\ \A i \in 1 .. Len(b) : c[Len(a) + i] = b[i]

LEMMA ConcatIs ==
  ASSUME NEW a, IsText(a), NEW b, IsText(b), NEW c, c = a \o b
  PROVE  IsText(c) /\ IsConcat(a, b, c)
<1> DEFINE S == ToSet(a) \cup ToSet(b)
<1>1. /\ Len(a) \in Nat /\ DOMAIN a = 1 .. Len(a) /\ a \in Seq(ToSet(a))
      /\ Len(b) \in Nat /\ DOMAIN b = 1 .. Len(b) /\ b \in Seq(ToSet(b))
  BY TextIs
<1>2. \A i \in 1 .. Len(a) : a[i] \in S
  BY TextIs
<1>3. \A i \in 1 .. Len(b) : b[i] \in S
  BY TextIs
<1>4. a \in Seq(S) /\ b \in Seq(S)
  <2>1. a = [i \in 1 .. Len(a) |-> a[i]] /\ b = [i \in 1 .. Len(b) |-> b[i]]
    BY <1>1
  <2> HIDE DEF S
  <2>2. /\ [i \in 1 .. Len(a) |-> a[i]] \in Seq(S)
        /\ [i \in 1 .. Len(b) |-> b[i]] \in Seq(S)
    BY <1>1, <1>2, <1>3, IsASeq
  <2> QED BY <2>1, <2>2
<1> HIDE DEF S
<1>5. /\ a \o b \in Seq(S) /\ Len(a \o b) = Len(a) + Len(b)
      /\ \A i \in 1 .. Len(a) + Len(b) :
           (a \o b)[i] = IF i <= Len(a) THEN a[i] ELSE b[i - Len(a)]
  BY <1>4, ConcatProperties
<1>6. IsText(a \o b)
  BY <1>5, SeqIsText
<1>7. \A i \in 1 .. Len(a) : (a \o b)[i] = a[i]
  BY <1>1, <1>5
<1>8. \A i \in 1 .. Len(b) : (a \o b)[Len(a) + i] = b[i]
  <2> SUFFICES ASSUME NEW i \in 1 .. Len(b)
               PROVE  (a \o b)[Len(a) + i] = b[i]
    OBVIOUS
  <2>1. /\ Len(a) + i \in 1 .. Len(a) + Len(b) /\ ~(Len(a) + i <= Len(a))
        /\ (Len(a) + i) - Len(a) = i
    BY <1>1
  <2> QED BY <1>5, <2>1
<1> QED BY <1>5, <1>6, <1>7, <1>8 DEF IsConcat

(* A line is of the letters it is made of.                                 *)
LEMMA LineTyped ==
  ASSUME NEW text, IsText(text), NEW S, NEW w \in Seq(S), NEW i \in Nat,
         LineAt(text, w, i)
  PROVE  w \in Seq(ToSet(text))
<1>1. Len(w) \in Nat /\ w = [k \in 1 .. Len(w) |-> w[k]]
  BY LenProperties
<1>2. \A k \in 1 .. Len(w) : i + k \in 1 .. Len(text)
  BY <1>1, TextIs DEF LineAt
<1>3. \A k \in 1 .. Len(w) : w[k] \in ToSet(text)
  BY <1>2, TextIs DEF LineAt
<1>4. [k \in 1 .. Len(w) |-> w[k]] \in Seq(ToSet(text))
  BY <1>1, <1>3, IsASeq
<1> QED BY <1>1, <1>4

(* In other words: w is a line of the text at some place.                  *)
LEMMA LineIs ==
  ASSUME NEW text, IsText(text), NEW w
  PROVE  w \in LineSet(text) <=>
           /\ \E S : w \in Seq(S)
           /\ Len(w) >= 1
           /\ \E i \in Nat : LineAt(text, w, i)
BY LinesAre, LineTyped DEF IsLineOf

LEMMA EndedIs ==
  ASSUME NEW text, IsText(text)
  PROVE  /\ Ended(text) <=> (Len(text) = 0 \/ text[Len(text)] = Newline)
         /\ text = <<>> <=> Len(text) = 0
BY TextIs, EmptySeq DEF Ended, Last

(* A text that ends with a newline keeps its lines to itself, whatever     *)
(* text follows.                                                           *)
LEMMA LinesOfConcat ==
  ASSUME NEW a, IsText(a), Ended(a), NEW b, IsText(b)
  PROVE  LineSet(a \o b) = LineSet(a) \cup LineSet(b)
<1> DEFINE c == a \o b
           n == Len(a)
<1>1. /\ IsText(c) /\ Len(c) = n + Len(b) /\ n \in Nat /\ Len(b) \in Nat
      /\ \A i \in 1 .. n : c[i] = a[i]
      /\ \A i \in 1 .. Len(b) : c[n + i] = b[i]
      /\ n = 0 \/ a[n] = Newline
  <2>1. n \in Nat /\ Len(b) \in Nat
    BY TextIs
  <2>2. n = 0 \/ a[n] = Newline
    BY EndedIs
  <2>3. /\ IsText(c) /\ Len(c) = n + Len(b)
        /\ \A i \in 1 .. n : c[i] = a[i]
        /\ \A i \in 1 .. Len(b) : c[n + i] = b[i]
    <3>1. c = a \o b
      OBVIOUS
    <3> HIDE DEF c
    <3>2. IsText(c) /\ IsConcat(a, b, c)
      BY <3>1, ConcatIs, Zenon
    <3> QED BY <3>2 DEF IsConcat
  <2> QED BY <2>1, <2>2, <2>3
<1> HIDE DEF c, n
<1>2. ASSUME NEW w, NEW S, w \in Seq(S), Len(w) >= 1, NEW i \in Nat,
             LineAt(c, w, i)
      PROVE  w \in LineSet(a) \cup LineSet(b)
  <2>1. /\ Len(w) \in Nat /\ i + Len(w) <= Len(c)
        /\ \A k \in 1 .. Len(w) : w[k] = c[i + k] /\ w[k] # Newline
        /\ i = 0 \/ c[i] = Newline
        /\ i + Len(w) = Len(c) \/ c[i + Len(w) + 1] = Newline
    BY <1>2, LenProperties DEF LineAt
  <2>2. CASE i >= n
    <3> DEFINE j == i - n
    <3>1. /\ j \in Nat /\ i = n + j /\ j + Len(w) <= Len(b)
      BY <1>1, <2>1, <2>2
    <3> HIDE DEF j
    <3>2. \A k \in 1 .. Len(w) : w[k] = b[j + k] /\ w[k] # Newline
      <4> SUFFICES ASSUME NEW k \in 1 .. Len(w)
                   PROVE  w[k] = b[j + k] /\ w[k] # Newline
        OBVIOUS
      <4>1. j + k \in 1 .. Len(b) /\ i + k = n + (j + k)
        BY <1>1, <2>1, <3>1
      <4> QED BY <1>1, <2>1, <4>1
    <3>3. j = 0 \/ b[j] = Newline
      <4>1. j # 0 => j \in 1 .. Len(b) /\ i # 0
        BY <1>1, <2>1, <3>1
      <4> QED BY <1>1, <2>1, <3>1, <4>1
    <3>4. j + Len(w) = Len(b) \/ b[j + Len(w) + 1] = Newline
      <4>1. j + Len(w) # Len(b) =>
              /\ j + Len(w) + 1 \in 1 .. Len(b) /\ i + Len(w) # Len(c)
              /\ i + Len(w) + 1 = n + (j + Len(w) + 1)
        BY <1>1, <2>1, <3>1
      <4> QED BY <1>1, <2>1, <4>1
    <3>5. LineAt(b, w, j)
      BY <3>1, <3>2, <3>3, <3>4 DEF LineAt
    <3> QED BY <1>2, <3>1, <3>5, LineIs
  <2>3. CASE i < n
    <3>1. n # 0 /\ n \in 1 .. n /\ c[n] = Newline
      BY <1>1, <2>3
    <3>2. i + Len(w) < n
      <4> SUFFICES ASSUME ~(i + Len(w) < n) PROVE FALSE
        OBVIOUS
      <4>1. n - i \in 1 .. Len(w) /\ i + (n - i) = n
        BY <1>1, <2>1, <2>3
      <4> QED BY <2>1, <3>1, <4>1
    <3>3. \A k \in 1 .. Len(w) : w[k] = a[i + k] /\ w[k] # Newline
      <4>1. \A k \in 1 .. Len(w) : i + k \in 1 .. n
        BY <1>1, <2>1, <3>2
      <4> QED BY <1>1, <2>1, <4>1
    <3>4. i = 0 \/ a[i] = Newline
      <4>1. i # 0 => i \in 1 .. n
        BY <1>1, <2>3
      <4> QED BY <1>1, <2>1, <4>1
    <3>5. a[i + Len(w) + 1] = Newline
      <4>1. i + Len(w) + 1 \in 1 .. n /\ i + Len(w) # Len(c)
        BY <1>1, <2>1, <3>2
      <4> QED BY <1>1, <2>1, <4>1
    <3>6. LineAt(a, w, i)
      BY <1>1, <2>1, <3>2, <3>3, <3>4, <3>5 DEF LineAt, n
    <3> QED BY <1>2, <3>6, LineIs
  <2> QED BY <1>1, <2>2, <2>3
<1>3. ASSUME NEW w, NEW S, w \in Seq(S), Len(w) >= 1, NEW i \in Nat,
             LineAt(a, w, i)
      PROVE  w \in LineSet(c)
  <2>1. /\ Len(w) \in Nat /\ i + Len(w) <= n
        /\ \A k \in 1 .. Len(w) : w[k] = a[i + k] /\ w[k] # Newline
        /\ i = 0 \/ a[i] = Newline
        /\ i + Len(w) = n \/ a[i + Len(w) + 1] = Newline
    BY <1>3, LenProperties DEF LineAt, n
  <2>2. i + Len(w) < n
    <3>1. ASSUME i + Len(w) = n PROVE FALSE
      <4>1. Len(w) \in 1 .. Len(w) /\ a[n] # Newline /\ n # 0
        BY <1>1, <1>3, <2>1, <3>1
      <4> QED BY <1>1, <4>1
    <3>2. i + Len(w) # n
      BY <3>1
    <3>3. n \in Nat /\ Len(w) \in Nat /\ i + Len(w) <= n
      BY <1>1, <2>1
    <3> QED BY <3>2, <3>3
  <2>3. \A k \in 1 .. Len(w) : w[k] = c[i + k] /\ w[k] # Newline
    <3>1. \A k \in 1 .. Len(w) : i + k \in 1 .. n
      BY <1>1, <2>1, <2>2
    <3> QED BY <1>1, <2>1, <3>1
  <2>4. i = 0 \/ c[i] = Newline
    <3>1. i # 0 => i \in 1 .. n
      BY <1>1, <2>1
    <3> QED BY <1>1, <2>1, <3>1
  <2>5. c[i + Len(w) + 1] = Newline
    <3>1. i + Len(w) + 1 \in 1 .. n
      BY <1>1, <2>1, <2>2
    <3> QED BY <1>1, <2>1, <2>2, <3>1
  <2>6. LineAt(c, w, i)
    BY <1>1, <2>1, <2>3, <2>4, <2>5 DEF LineAt
  <2> QED BY <1>1, <1>3, <2>6, LineIs
<1>4. ASSUME NEW w, NEW S, w \in Seq(S), Len(w) >= 1, NEW j \in Nat,
             LineAt(b, w, j)
      PROVE  w \in LineSet(c)
  <2> DEFINE i == n + j
  <2>1. /\ Len(w) \in Nat /\ j + Len(w) <= Len(b)
        /\ \A k \in 1 .. Len(w) : w[k] = b[j + k] /\ w[k] # Newline
        /\ j = 0 \/ b[j] = Newline
        /\ j + Len(w) = Len(b) \/ b[j + Len(w) + 1] = Newline
    BY <1>4, LenProperties DEF LineAt
  <2>2. i \in Nat /\ i = n + j /\ i + Len(w) <= Len(c)
    BY <1>1, <2>1
  <2> HIDE DEF i
  <2>3. \A k \in 1 .. Len(w) : w[k] = c[i + k] /\ w[k] # Newline
    <3> SUFFICES ASSUME NEW k \in 1 .. Len(w)
                 PROVE  w[k] = c[i + k] /\ w[k] # Newline
      OBVIOUS
    <3>1. j + k \in 1 .. Len(b) /\ i + k = n + (j + k)
      BY <1>1, <2>1, <2>2
    <3> QED BY <1>1, <2>1, <3>1
  <2>4. i = 0 \/ c[i] = Newline
    <3>1. CASE j = 0
      <4>1. i = n /\ (n # 0 => n \in 1 .. n)
        BY <1>1, <2>2, <3>1
      <4> QED BY <1>1, <4>1
    <3>2. CASE j # 0
      <4>1. j \in 1 .. Len(b)
        BY <1>1, <2>1, <3>2
      <4> QED BY <1>1, <2>1, <2>2, <3>2, <4>1
    <3> QED BY <3>1, <3>2
  <2>5. i + Len(w) = Len(c) \/ c[i + Len(w) + 1] = Newline
    <3>1. j + Len(w) # Len(b) =>
            /\ j + Len(w) + 1 \in 1 .. Len(b)
            /\ i + Len(w) + 1 = n + (j + Len(w) + 1)
      BY <1>1, <2>1, <2>2
    <3>2. j + Len(w) = Len(b) => i + Len(w) = Len(c)
      BY <1>1, <2>1, <2>2
    <3>3. CASE j + Len(w) = Len(b)
      BY <3>2, <3>3
    <3>4. CASE j + Len(w) # Len(b)
      <4>1. b[j + Len(w) + 1] = Newline
        BY <2>1, <3>4
      <4>2. c[n + (j + Len(w) + 1)] = b[j + Len(w) + 1]
        BY <1>1, <3>1, <3>4
      <4> QED BY <3>1, <3>4, <4>1, <4>2
    <3> QED BY <3>3, <3>4
  <2>6. LineAt(c, w, i)
    BY <2>2, <2>3, <2>4, <2>5 DEF LineAt
  <2> QED BY <1>1, <1>4, <2>2, <2>6, LineIs
<1>5. \A w \in LineSet(c) : w \in LineSet(a) \cup LineSet(b)
  BY <1>1, <1>2, LineIs
<1>6. \A w \in LineSet(a) \cup LineSet(b) : w \in LineSet(c)
  BY <1>3, <1>4, LineIs
<1> QED BY <1>5, <1>6 DEF c

(* Newlines at the end go, and no other line with them.                    *)
LEMMA StripIs ==
  ASSUME NEW text, IsText(text)
  PROVE  \E m \in 0 .. Len(text) :
           /\ StripNewlines(text) = SubSeq(text, 1, m)
           /\ IsText(StripNewlines(text)) /\ Len(StripNewlines(text)) = m
           /\ \A i \in 1 .. m : StripNewlines(text)[i] = text[i]
           /\ m = 0 \/ text[m] # Newline
           /\ \A i \in (m + 1) .. Len(text) : text[i] = Newline
<1> DEFINE kept == Others(text, {Newline})
<1>1. /\ Len(text) \in Nat
      /\ kept = {i \in 1 .. Len(text) : text[i] # Newline}
  BY TextIs DEF Others, Places
<1> HIDE DEF kept
<1>2. \E m \in 0 .. Len(text) :
        /\ StripNewlines(text) = SubSeq(text, 1, m)
        /\ m = 0 \/ text[m] # Newline
        /\ \A i \in (m + 1) .. Len(text) : text[i] = Newline
  <2>1. CASE kept = {}
    <3>1. StripNewlines(text) = SubSeq(text, 1, 0)
      BY <2>1 DEF StripNewlines, kept
    <3>2. \A i \in (0 + 1) .. Len(text) : text[i] = Newline
      BY <1>1, <2>1
    <3> QED BY <1>1, <3>1, <3>2
  <2>2. CASE kept # {}
    <3> DEFINE m == Max(kept)
    <3>1. kept \in SUBSET (1 .. Len(text))
      BY <1>1
    <3>2. m \in kept /\ kept \ {m} \in SUBSET (1 .. (m - 1))
      BY <1>1, <2>2, <3>1, GreatestThere
    <3> HIDE DEF m
    <3>3. /\ m \in Nat /\ m \in 1 .. Len(text) /\ text[m] # Newline
          /\ \A j \in kept : j <= m /\ j \in Nat
      BY <1>1, <3>2
    <3>4. \A i \in kept : (\A j \in kept : j <= i) => i = m
      BY <3>2, <3>3
    <3>5. (CHOOSE i \in kept : \A j \in kept : j <= i) = m
      BY <3>2, <3>3, <3>4
    <3>6. StripNewlines(text) = SubSeq(text, 1, m)
      BY <2>2, <3>5 DEF StripNewlines, kept
    <3>7. \A i \in (m + 1) .. Len(text) : text[i] = Newline
      <4> SUFFICES ASSUME NEW i \in (m + 1) .. Len(text), text[i] # Newline
                   PROVE  FALSE
        OBVIOUS
      <4>1. i \in kept /\ i > m /\ i \in Nat
        BY <1>1, <3>3
      <4> QED BY <3>3, <4>1
    <3> QED BY <3>3, <3>6, <3>7
  <2> QED BY <2>1, <2>2
<1>3. PICK m \in 0 .. Len(text) :
        /\ StripNewlines(text) = SubSeq(text, 1, m)
        /\ m = 0 \/ text[m] # Newline
        /\ \A i \in (m + 1) .. Len(text) : text[i] = Newline
  BY <1>2
<1>4. /\ SubSeq(text, 1, m) \in Seq(ToSet(text)) /\ Len(SubSeq(text, 1, m)) = m
      /\ \A i \in 1 .. m : SubSeq(text, 1, m)[i] = text[i]
  <2>1. /\ 1 \in Nat /\ 1 >= 1 /\ m \in Nat /\ m <= Len(text) /\ 1 <= m + 1
        /\ m + 1 - 1 = m /\ \A k \in 1 .. m : 1 + k - 1 = k
    BY <1>1
  <2> QED BY <2>1, PartIs
<1>5. IsText(SubSeq(text, 1, m))
  BY <1>4, SeqIsText
<1> QED BY <1>3, <1>4, <1>5

LEMMA LinesOfStrip ==
  ASSUME NEW text, IsText(text)
  PROVE  LineSet(StripNewlines(text)) = LineSet(text)
<1> DEFINE t == StripNewlines(text)
<1>1. PICK m \in 0 .. Len(text) :
        /\ IsText(t) /\ Len(t) = m
        /\ \A i \in 1 .. m : t[i] = text[i]
        /\ m = 0 \/ text[m] # Newline
        /\ \A i \in (m + 1) .. Len(text) : text[i] = Newline
  BY StripIs
<1> HIDE DEF t
<1>2. Len(text) \in Nat /\ m \in Nat /\ m <= Len(text)
  BY TextIs
<1>3. ASSUME NEW w, NEW S, w \in Seq(S), Len(w) >= 1, NEW i \in Nat,
             LineAt(text, w, i)
      PROVE  w \in LineSet(t)
  <2>1. /\ Len(w) \in Nat /\ i + Len(w) <= Len(text)
        /\ \A k \in 1 .. Len(w) : w[k] = text[i + k] /\ w[k] # Newline
        /\ i = 0 \/ text[i] = Newline
        /\ i + Len(w) = Len(text) \/ text[i + Len(w) + 1] = Newline
    BY <1>3, LenProperties DEF LineAt
  <2>2. i + Len(w) <= m
    <3> SUFFICES ASSUME ~(i + Len(w) <= m) PROVE FALSE
      OBVIOUS
    <3>1. i + Len(w) \in (m + 1) .. Len(text) /\ Len(w) \in 1 .. Len(w)
      BY <1>2, <1>3, <2>1
    <3> QED BY <1>1, <2>1, <3>1
  <2>3. \A k \in 1 .. Len(w) : i + k \in 1 .. m
    BY <2>1, <2>2
  <2>4. i # 0 => i \in 1 .. m
    BY <1>2, <2>1, <2>2
  <2>5. i + Len(w) # m => /\ i + Len(w) + 1 \in 1 .. m
                          /\ i + Len(w) # Len(text)
    BY <1>2, <2>1, <2>2
  <2>6. /\ i + Len(w) <= m
        /\ \A k \in 1 .. Len(w) : w[k] = t[i + k] /\ w[k] # Newline
        /\ i = 0 \/ t[i] = Newline
        /\ i + Len(w) = m \/ t[i + Len(w) + 1] = Newline
    BY <1>1, <2>1, <2>2, <2>3, <2>4, <2>5
  <2>7. LineAt(t, w, i)
    BY <1>1, <2>6 DEF LineAt
  <2> QED BY <1>1, <1>3, <2>7, LineIs
<1>4. ASSUME NEW w, NEW S, w \in Seq(S), Len(w) >= 1, NEW i \in Nat,
             LineAt(t, w, i)
      PROVE  w \in LineSet(text)
  <2>1. /\ Len(w) \in Nat /\ i + Len(w) <= m
        /\ \A k \in 1 .. Len(w) : w[k] = t[i + k] /\ w[k] # Newline
        /\ i = 0 \/ t[i] = Newline
        /\ i + Len(w) = m \/ t[i + Len(w) + 1] = Newline
    BY <1>1, <1>4, LenProperties DEF LineAt
  <2>2. \A k \in 1 .. Len(w) : i + k \in 1 .. m
    BY <2>1
  <2>3. i # 0 => i \in 1 .. m
    BY <1>2, <2>1
  <2>4. i + Len(w) # m => i + Len(w) + 1 \in 1 .. m
    BY <1>2, <2>1
  <2>5. i + Len(w) = Len(text) \/ text[i + Len(w) + 1] = Newline
    <3>1. CASE i + Len(w) # m
      BY <1>1, <2>1, <2>4, <3>1
    <3>2. CASE i + Len(w) = m
      <4>1. m # Len(text) => m + 1 \in (m + 1) .. Len(text)
        BY <1>2
      <4> QED BY <1>1, <3>2, <4>1
    <3> QED BY <3>1, <3>2
  <2>6. /\ i + Len(w) <= Len(text)
        /\ \A k \in 1 .. Len(w) : w[k] = text[i + k] /\ w[k] # Newline
        /\ i = 0 \/ text[i] = Newline
    BY <1>1, <1>2, <2>1, <2>2, <2>3
  <2>7. LineAt(text, w, i)
    BY <2>5, <2>6 DEF LineAt
  <2> QED BY <1>4, <2>7, LineIs
<1>5. LineSet(t) = LineSet(text)
  <2>1. \A w \in LineSet(text) : w \in LineSet(t)
    BY <1>3, LineIs
  <2>2. \A w \in LineSet(t) : w \in LineSet(text)
    BY <1>1, <1>4, LineIs
  <2> QED BY <2>1, <2>2
<1> QED BY <1>5 DEF t

LEMMA StripOnce ==
  ASSUME NEW text, IsText(text)
  PROVE  StripNewlines(StripNewlines(text)) = StripNewlines(text)
<1> DEFINE t == StripNewlines(text)
<1>1. IsText(t) /\ (Len(t) = 0 \/ t[Len(t)] # Newline) /\ Len(t) \in Nat
  <2>1. PICK m \in 0 .. Len(text) :
          /\ IsText(t) /\ Len(t) = m
          /\ \A i \in 1 .. m : t[i] = text[i]
          /\ m = 0 \/ text[m] # Newline
    BY StripIs
  <2>2. m \in Nat /\ (m # 0 => m \in 1 .. m)
    BY TextIs
  <2> QED BY <2>1, <2>2
<1> HIDE DEF t
<1>2. PICK m \in 0 .. Len(t) :
        /\ StripNewlines(t) = SubSeq(t, 1, m)
        /\ IsText(StripNewlines(t)) /\ Len(StripNewlines(t)) = m
        /\ \A i \in 1 .. m : StripNewlines(t)[i] = t[i]
        /\ \A i \in (m + 1) .. Len(t) : t[i] = Newline
  BY <1>1, StripIs
<1>3. m = Len(t)
  <2> SUFFICES ASSUME m # Len(t) PROVE FALSE
    OBVIOUS
  <2>1. Len(t) \in (m + 1) .. Len(t) /\ Len(t) # 0
    BY <1>1
  <2> QED BY <1>1, <1>2, <2>1
<1>4. SubSeq(t, 1, m) \in Seq(ToSet(t)) /\ t \in Seq(ToSet(t))
  <2>1. /\ 1 \in Nat /\ 1 >= 1 /\ m \in Nat /\ m <= Len(t) /\ 1 <= m + 1
    BY <1>1
  <2> QED BY <1>1, <2>1, PartIs, TextIs
<1>5. StripNewlines(t) = t
  <2> DEFINE u == StripNewlines(t)
  <2>1. u \in Seq(ToSet(t)) /\ Len(u) = Len(t) /\ \A i \in 1 .. Len(u) : u[i] = t[i]
    BY <1>2, <1>3, <1>4
  <2> HIDE DEF u
  <2>2. u = t
    BY <1>4, <2>1, SameSeq
  <2> QED BY <2>2 DEF u
<1> QED BY <1>5 DEF t

LEMMA Associative ==
  ASSUME NEW a, IsText(a), NEW b, IsText(b), NEW t, IsText(t)
  PROVE  (a \o b) \o t = a \o (b \o t)
<1> DEFINE S == ToSet(a) \cup ToSet(b) \cup ToSet(t)
<1>1. ASSUME NEW s, IsText(s), ToSet(s) \subseteq S PROVE s \in Seq(S)
  <2> HIDE DEF S
  <2>1. Len(s) \in Nat /\ s = [i \in 1 .. Len(s) |-> s[i]]
    BY <1>1, TextIs
  <2>2. \A i \in 1 .. Len(s) : s[i] \in S
    BY <1>1, TextIs
  <2>3. [i \in 1 .. Len(s) |-> s[i]] \in Seq(S)
    BY <2>1, <2>2, IsASeq
  <2> QED BY <2>1, <2>3
<1>2. a \in Seq(S) /\ b \in Seq(S) /\ t \in Seq(S)
  BY <1>1
<1> HIDE DEF S
<1> QED BY <1>2, ConcatAssociative

LEMMA NothingAfter ==
  ASSUME NEW a, IsText(a)
  PROVE  a \o <<>> = a /\ IsText(<<>>) /\ Ended(<<>>)
<1>1. a \in Seq(ToSet(a)) /\ <<>> \in Seq(ToSet(a))
  BY TextIs, EmptySeq
<1>2. a \o <<>> = a
  BY <1>1, ConcatEmptySeq
<1>3. IsText(<<>>)
  BY <1>1, SeqIsText
<1> QED BY <1>2, <1>3 DEF Ended

LEMMA EndOfConcat ==
  ASSUME NEW a, IsText(a), NEW b, IsText(b)
  PROVE  Ended(a \o b) <=> Ended(b) /\ (b = <<>> => Ended(a))
<1> DEFINE c == a \o b
<1>1. c = a \o b
  OBVIOUS
<1> HIDE DEF c
<1>2. IsText(c) /\ IsConcat(a, b, c)
  BY <1>1, ConcatIs, Zenon
<1>3. Len(a) \in Nat /\ Len(b) \in Nat /\ Len(c) = Len(a) + Len(b)
  BY <1>2, TextIs DEF IsConcat
<1>4. CASE Len(b) = 0
  <2>1. Ended(b) /\ b = <<>>
    BY <1>4, EndedIs
  <2>2. c = a
    BY <1>1, <2>1, NothingAfter
  <2> QED BY <1>1, <2>1, <2>2
<1>5. CASE Len(b) # 0
  <2>1. Len(b) \in 1 .. Len(b) /\ Len(c) # 0
    BY <1>3, <1>5
  <2>2. c[Len(c)] = b[Len(b)]
    BY <1>2, <1>3, <2>1 DEF IsConcat
  <2>3. Ended(c) <=> c[Len(c)] = Newline
    BY <1>2, <2>1, EndedIs
  <2>4. (Ended(b) <=> b[Len(b)] = Newline) /\ b # <<>>
    BY <1>5, EndedIs
  <2> QED BY <1>1, <2>2, <2>3, <2>4
<1> QED BY <1>4, <1>5

(* Whatever is printed next, the lines of one text are among those of the  *)
(* other: a line that has begun ends with what is printed next.            *)
Covers(text, other) ==
  \A t : IsText(t) => LineSet(other \o t) \subseteq LineSet(text \o t)

LEMMA CoversLines ==
  ASSUME NEW f, IsText(f), NEW s, IsText(s), Covers(f, s)
  PROVE  LineSet(s) \subseteq LineSet(f)
<1>1. f \o <<>> = f /\ s \o <<>> = s /\ IsText(<<>>)
  BY NothingAfter
<1>2. LineSet(s \o <<>>) \subseteq LineSet(f \o <<>>)
  BY <1>1 DEF Covers
<1> QED BY <1>1, <1>2

LEMMA CoversSame ==
  ASSUME NEW f, IsText(f), NEW s, IsText(s), Covers(f, s), NEW r, IsText(r)
  PROVE  Covers(f \o r, s \o r)
<1> SUFFICES ASSUME NEW t, IsText(t)
             PROVE  LineSet((s \o r) \o t) \subseteq LineSet((f \o r) \o t)
  BY DEF Covers
<1>1. IsText(r \o t)
  BY ConcatIs
<1>2. LineSet(s \o (r \o t)) \subseteq LineSet(f \o (r \o t))
  BY <1>1 DEF Covers
<1>3. (s \o r) \o t = s \o (r \o t)
  BY Associative
<1>4. (f \o r) \o t = f \o (r \o t)
  BY Associative
<1> QED BY <1>2, <1>3, <1>4

LEMMA CoversMore ==
  ASSUME NEW f, IsText(f), NEW s, IsText(s), Covers(f, s),
         Ended(f), Ended(s), NEW r, IsText(r), Ended(r),
         NEW q, IsText(q), Ended(q), LineSet(q) \subseteq LineSet(r)
  PROVE  Covers(f \o r, s \o q)
<1> SUFFICES ASSUME NEW t, IsText(t)
             PROVE  LineSet((s \o q) \o t) \subseteq LineSet((f \o r) \o t)
  BY DEF Covers
<1>1. /\ IsText(s \o q) /\ Ended(s \o q)
      /\ IsText(f \o r) /\ Ended(f \o r)
  BY ConcatIs, EndOfConcat
<1>2. LineSet((s \o q) \o t) = LineSet(s \o q) \cup LineSet(t)
  BY <1>1, LinesOfConcat
<1>3. LineSet((f \o r) \o t) = LineSet(f \o r) \cup LineSet(t)
  BY <1>1, LinesOfConcat
<1>4. LineSet(s \o q) = LineSet(s) \cup LineSet(q)
  BY LinesOfConcat
<1>5. LineSet(f \o r) = LineSet(f) \cup LineSet(r)
  BY LinesOfConcat
<1>6. LineSet(s) \subseteq LineSet(f)
  BY CoversLines
<1> QED BY <1>2, <1>3, <1>4, <1>5, <1>6

LEMMA CoversLonger ==
  ASSUME NEW f, IsText(f), NEW s, IsText(s), Covers(f, s),
         Ended(f), Ended(s), NEW r, IsText(r), Ended(r)
  PROVE  Covers(f \o r, s)
<1> SUFFICES ASSUME NEW t, IsText(t)
             PROVE  LineSet(s \o t) \subseteq LineSet((f \o r) \o t)
  BY DEF Covers
<1>1. IsText(f \o r) /\ Ended(f \o r)
  BY ConcatIs, EndOfConcat
<1>2. LineSet((f \o r) \o t) = LineSet(f \o r) \cup LineSet(t)
  BY <1>1, LinesOfConcat
<1>3. LineSet(s \o t) = LineSet(s) \cup LineSet(t)
  BY LinesOfConcat
<1>4. LineSet(f \o r) = LineSet(f) \cup LineSet(r)
  BY LinesOfConcat
<1>5. LineSet(s) \subseteq LineSet(f)
  BY CoversLines
<1> QED BY <1>2, <1>3, <1>4, <1>5

-----------------------------------------------------------------------------
(* The inductive invariant.  While pieces are folded, the fold never skips *)
(* what the shell runs: behind an unknown exit it takes every join.  An    *)
(* exit it does know, when it skips, is that of the shell.  It covers what *)
(* is printed whatever follows, and when every exit was known and every    *)
(* command followed to the letter it is where the shell is.                *)
FoldedShape(f) ==
  f = [text |-> f.text, exit |-> f.exit, runs |-> f.runs, known |-> f.known,
       extra |-> f.extra]
ShellShape(s) ==
  s = [text |-> s.text, ok |-> s.ok, runs |-> s.runs, exact |-> s.exact]
PipeShape(p) ==
  p = [stages |-> p.stages, run |-> p.run, fed |-> p.fed, real |-> p.real,
       exact |-> p.exact, back |-> p.back]
Shaped == FoldedShape(folded) /\ ShellShape(shell) /\ PipeShape(pipe)

Same ==
  /\ folded.runs = shell.runs
  /\ folded.exit = Exit(shell.ok)
  /\ folded.text = shell.text
Alongside ==
  /\ folded.runs \/ (~shell.runs /\ folded.exit = Exit(shell.ok))
  /\ Ended(folded.text) => Ended(shell.text)
  /\ Covers(folded.text, shell.text)
  /\ folded.extra = 0 /\ shell.exact => Same

Staging ==
  /\ pipe.stages > 0 => pieces < MaxPieces /\ (folded.runs \/ shell.runs)
  /\ pipe.exact \/ Ended(folded.text)
Answered ==
  /\ LineSet(shell.text) \subseteq LineSet(folded.text)
  /\ folded.extra = 0 /\ shell.exact =>
       /\ folded.runs = shell.runs
       /\ folded.exit = Exit(shell.ok)
       /\ StripNewlines(folded.text) = StripNewlines(shell.text)

Typed ==
  /\ TypeOK /\ Shaped
  /\ folded.extra <= pieces
  /\ result = "open" /\ pipe.stages > 0 => pieces < MaxPieces
Inv ==
  /\ result \in {"open", "text"} => IsText(folded.text) /\ IsText(shell.text)
  /\ result = "open" => Alongside /\ Staging
  /\ result = "text" => Answered

-----------------------------------------------------------------------------
(* One piece at a time.                                                    *)

Onward(exit, join) ==
  \/ join = ";"
  \/ join = "&&" /\ exit # "failed"
  \/ join = "||" /\ exit # "ok"

LEMMA ChainedIs ==
  ASSUME NEW kept, FoldedShape(kept), NEW join
  PROVE  LET new == Chained(kept, join)
         IN  /\ FoldedShape(new)
             /\ new.text = kept.text /\ new.exit = kept.exit
             /\ new.known = kept.known /\ new.extra = kept.extra
             /\ new.runs = Onward(kept.exit, join)
<1> DEFINE runs == Onward(kept.exit, join)
           new == Chained(kept, join)
<1>1. new = [kept EXCEPT !.runs = runs]
  BY DEF Chained, Onward
<1>2. runs = Onward(kept.exit, join)
  OBVIOUS
<1> HIDE DEF runs, new
<1>3. /\ FoldedShape(new) /\ new.runs = runs
      /\ new.text = kept.text /\ new.exit = kept.exit
      /\ new.known = kept.known /\ new.extra = kept.extra
  BY <1>1 DEF FoldedShape
<1> QED BY <1>2, <1>3 DEF new

LEMMA KeptIs ==
  ASSUME FoldedShape(folded), NEW found
  PROVE  /\ FoldedShape(KeptPiece(found))
         /\ ~folded.runs => KeptPiece(found) = folded
         /\ folded.runs /\ found.kind = "produced" =>
              /\ KeptPiece(found).text = folded.text \o found.text
              /\ KeptPiece(found).exit = Exit(found.ok)
              /\ KeptPiece(found).known = TRUE
              /\ KeptPiece(found).extra = folded.extra
         /\ folded.runs /\ found.kind # "produced" =>
              /\ KeptPiece(found).text = folded.text
              /\ KeptPiece(found).exit = "unknown"
              /\ KeptPiece(found).known = folded.known
              /\ KeptPiece(found).extra = folded.extra + 1
<1>1. CASE ~folded.runs
  BY <1>1 DEF KeptPiece
<1>2. CASE folded.runs /\ found.kind = "produced"
  <2> DEFINE text == folded.text \o found.text
             exit == Exit(found.ok)
  <2>1. KeptPiece(found)
          = [folded EXCEPT !.text = text, !.known = TRUE, !.exit = exit]
    BY <1>2 DEF KeptPiece
  <2> HIDE DEF text, exit
  <2>2. /\ FoldedShape(KeptPiece(found))
        /\ KeptPiece(found).text = text /\ KeptPiece(found).exit = exit
        /\ KeptPiece(found).known = TRUE /\ KeptPiece(found).extra = folded.extra
    BY <2>1 DEF FoldedShape
  <2> QED BY <1>2, <2>2 DEF text, exit
<1>3. CASE folded.runs /\ found.kind # "produced"
  <2>1. KeptPiece(found)
          = [folded EXCEPT !.exit = "unknown", !.extra = folded.extra + 1]
    BY <1>3 DEF KeptPiece
  <2>2. /\ FoldedShape(KeptPiece(found))
        /\ KeptPiece(found).text = folded.text /\ KeptPiece(found).exit = "unknown"
        /\ KeptPiece(found).known = folded.known
        /\ KeptPiece(found).extra = folded.extra + 1
    BY <2>1 DEF FoldedShape
  <2> QED BY <1>3, <2>2
<1> QED BY <1>1, <1>2, <1>3

(* What the shell prints of a piece that the fold covers.                  *)
CoveredPiece(found) == ~folded.runs \/ found.kind = "produced"

LEMMA ShellPieceIs ==
  ASSUME ShellShape(shell), NEW found, NEW join, NEW ok \in BOOLEAN,
         shell.ok \in BOOLEAN
  PROVE  LET new == ShellPiece(found, join, ok)
         IN  /\ ShellShape(new) /\ new.ok \in BOOLEAN
             /\ new.runs = Onward(Exit(new.ok), join)
             /\ ~shell.runs =>
                  /\ new.text = shell.text /\ new.ok = shell.ok
                  /\ new.exact = shell.exact
             /\ shell.runs =>
                  /\ new.text = IF CoveredPiece(found)
                                THEN shell.text \o pipe.real.text ELSE shell.text
                  /\ new.ok = ok
                  /\ new.exact = (shell.exact /\ pipe.exact)
<1> DEFINE text == IF CoveredPiece(found) THEN shell.text \o pipe.real.text
                   ELSE shell.text
           ran == IF ~shell.runs THEN shell
                  ELSE [shell EXCEPT !.ok = ok, !.text = text,
                                     !.exact = (shell.exact /\ pipe.exact)]
           new == ShellPiece(found, join, ok)
<1>1. new = [ran EXCEPT !.runs = \/ join = ";"
                                 \/ join = "&&" /\ ran.ok
                                 \/ join = "||" /\ ~ran.ok]
  BY DEF ShellPiece, CoveredPiece
<1> HIDE DEF text, new
<1>2. /\ ShellShape(ran)
      /\ ~shell.runs => ran = shell
      /\ shell.runs => /\ ran.text = text /\ ran.ok = ok
                       /\ ran.exact = (shell.exact /\ pipe.exact)
  BY DEF ShellShape
<1> HIDE DEF ran
<1>3. /\ ShellShape(new) /\ new.text = ran.text /\ new.ok = ran.ok
      /\ new.exact = ran.exact
      /\ new.runs = (\/ join = ";"
                     \/ join = "&&" /\ ran.ok
                     \/ join = "||" /\ ~ran.ok)
  BY <1>1, <1>2 DEF ShellShape
<1>4. ran.ok \in BOOLEAN
  BY <1>2
<1>5. new.runs = Onward(Exit(new.ok), join)
  BY <1>3, <1>4 DEF Onward, Exit
<1> QED BY <1>2, <1>3, <1>4, <1>5 DEF text, new

-----------------------------------------------------------------------------
(* Types: what the fold keeps has the form it began with, and every piece  *)
(* under way is still within the bound.                                    *)

LEMMA TypedInit == Init => Typed
BY BoundsAssumption
   DEF Init, Typed, TypeOK, Shaped, FoldedShape, ShellShape, PipeShape, NoPipe,
       Exits

LEMMA OnwardIs == \A exit, join : Onward(exit, join) \in BOOLEAN
BY DEF Onward

LEMMA StagedShape ==
  ASSUME PipeShape(pipe), NEW command, NEW run, NEW real
  PROVE  LET new == Staged(command, run, real)
         IN  /\ PipeShape(new)
             /\ new.stages = pipe.stages + 1
             /\ \/ new.exact = pipe.exact
                \/ new.exact = (pipe.exact /\ command.exact)
<1>1. CASE pipe.run.kind # "produced"
  <2>1. Staged(command, run, real)
          = [pipe EXCEPT !.stages = pipe.stages + 1, !.back = None]
    BY <1>1 DEF Staged
  <2> DEFINE new == Staged(command, run, real)
  <2> HIDE DEF new
  <2>2. new = [pipe EXCEPT !.stages = pipe.stages + 1, !.back = None]
    BY <2>1 DEF new
  <2>3. /\ PipeShape(new) /\ new.stages = pipe.stages + 1
        /\ new.exact = pipe.exact
    BY <2>2 DEF PipeShape
  <2> QED BY <2>3 DEF new
<1>2. CASE pipe.run.kind = "produced"
  <2> DEFINE new == Staged(command, run, real)
             seen == IF run.kind = "produced" THEN real ELSE NoPipe.real
             exact == pipe.exact /\ command.exact
             back == IF pipe.stages = 0 /\ "loads" \in DOMAIN command
                     THEN command.loads ELSE None
  <2>1. new = [stages |-> pipe.stages + 1, run |-> run, fed |-> run.text,
               real |-> seen, exact |-> exact, back |-> back]
    BY <1>2 DEF Staged
  <2>2. exact = (pipe.exact /\ command.exact)
    OBVIOUS
  <2> HIDE DEF new, seen, exact, back
  <2>3. PipeShape(new) /\ new.stages = pipe.stages + 1 /\ new.exact = exact
    BY <2>1 DEF PipeShape
  <2> QED BY <2>2, <2>3 DEF new
<1> QED BY <1>1, <1>2

LEMMA StageTyped ==
  ASSUME Typed, NEW command \in Commands, Stage(command)
  PROVE  Typed'
<1>1. /\ pipe' = Staged(command, RunStage(command, pipe.fed),
                        ShellStage(command, pipe.real.text))
      /\ pipe.stages < MaxStages /\ pieces < MaxPieces
      /\ folded' = folded /\ shell' = shell
      /\ pieces' = pieces /\ result' = result
      /\ strays' = strays \cup StageForms(command)
  BY DEF Stage
<1>2. PipeShape(pipe') /\ pipe'.stages = pipe.stages + 1
  BY <1>1, StagedShape DEF Typed, Shaped
<1>3. pipe'.stages \in 0 .. MaxStages
  BY <1>1, <1>2, BoundsAssumption DEF Typed, TypeOK
<1>4. strays' \subseteq Forms
  BY <1>1 DEF Typed, TypeOK, StageForms, Form, Forms
<1> QED BY <1>1, <1>2, <1>3, <1>4 DEF Typed, TypeOK, Shaped

(* The end of a piece, of which the shell knows the exit.                  *)
LEMMA PieceTyped ==
  ASSUME Typed, NEW found, NEW join \in Joins, NEW ok \in BOOLEAN, result = "open",
         pieces < MaxPieces,
         folded' = FoldPiece(found, join), shell' = ShellPiece(found, join, ok),
         strays' \subseteq Forms,
         pipe' = NoPipe, pieces' = pieces + 1, result' \in {"open", "unscanned"}
  PROVE  Typed'
<1>1. /\ FoldedShape(folded) /\ ShellShape(shell) /\ shell.ok \in BOOLEAN
      /\ folded.extra \in Nat /\ folded.extra <= pieces /\ pieces \in Nat
      /\ folded.exit \in Exits /\ folded.known \in BOOLEAN
  BY BoundsAssumption DEF Typed, TypeOK, Shaped
<1>2. /\ FoldedShape(KeptPiece(found))
      /\ KeptPiece(found).exit \in Exits /\ KeptPiece(found).known \in BOOLEAN
      /\ KeptPiece(found).extra \in {folded.extra, folded.extra + 1}
  <2>1. Exit(found.ok) \in Exits /\ "unknown" \in Exits
    BY DEF Exit, Exits
  <2>2. FoldedShape(KeptPiece(found))
    BY <1>1, KeptIs
  <2>3. CASE ~folded.runs
    BY <1>1, <2>2, <2>3, KeptIs
  <2>4. CASE folded.runs /\ found.kind = "produced"
    BY <1>1, <2>1, <2>2, <2>4, KeptIs
  <2>5. CASE folded.runs /\ found.kind # "produced"
    BY <1>1, <2>1, <2>2, <2>5, KeptIs
  <2> QED BY <2>3, <2>4, <2>5
<1>3. /\ FoldedShape(folded') /\ folded'.exit = KeptPiece(found).exit
      /\ folded'.known = KeptPiece(found).known /\ folded'.extra = KeptPiece(found).extra
      /\ folded'.runs = Onward(KeptPiece(found).exit, join)
  BY <1>2, ChainedIs DEF FoldPiece
<1>4. folded'.runs \in BOOLEAN
  BY <1>3, OnwardIs
<1>5. /\ ShellShape(shell') /\ shell'.ok \in BOOLEAN
      /\ shell'.runs = Onward(Exit(shell'.ok), join)
  BY <1>1, ShellPieceIs
<1>6. shell'.runs \in BOOLEAN
  BY <1>5, OnwardIs
<1>7. PipeShape(NoPipe) /\ NoPipe.stages = 0
  BY DEF PipeShape, NoPipe
<1>8. folded'.extra \in 0 .. MaxPieces /\ folded'.extra <= pieces'
      /\ pieces' \in 0 .. MaxPieces /\ 0 \in 0 .. MaxStages
  BY <1>1, <1>2, <1>3, BoundsAssumption
<1>9. TypeOK'
  BY <1>2, <1>3, <1>4, <1>5, <1>6, <1>7, <1>8 DEF TypeOK
<1>10. Shaped'
  BY <1>3, <1>5, <1>7 DEF Shaped
<1>11. (result = "open" /\ pipe.stages > 0 => pieces < MaxPieces)'
  BY <1>7
<1> QED BY <1>8, <1>9, <1>10, <1>11 DEF Typed

LEMMA LoadedKinds ==
  \A path, first :
    LoadedPrint(path, first).kind \in {"produced", "unscanned", "unknown"}
BY DEF LoadedPrint, Produced, Unscanned, Unknown

LEMMA NextTyped == Typed /\ [Next]_vars => Typed'
<1> SUFFICES ASSUME Typed, [Next]_vars PROVE Typed'
  OBVIOUS
<1>1. ASSUME NEW command \in Commands, Stage(command) PROVE Typed'
  BY <1>1, StageTyped
<1>2. ASSUME NEW join \in Joins, EndPiece(join) PROVE Typed'
  <2>1. PICK ok \in BOOLEAN : shell' = ShellPiece(PieceRun, join, ok)
    BY <1>2 DEF EndPiece
  <2>2. /\ result = "open" /\ pipe.stages > 0
        /\ folded' = FoldPiece(PieceRun, join) /\ pipe' = NoPipe
        /\ pieces' = pieces + 1 /\ result' \in {"open", "unscanned"}
        /\ strays' = strays \cup PieceForms(PieceRun, join)
    BY <1>2 DEF EndPiece
  <2>3. pieces < MaxPieces
    BY <2>2 DEF Typed
  <2>4. strays' \subseteq Forms
    BY <2>2 DEF Typed, TypeOK, PieceForms, Form, Forms
  <2> QED BY <2>1, <2>2, <2>3, <2>4, PieceTyped
<1>3. ASSUME NEW join \in Joins, SkipPiece(join) PROVE Typed'
  <2>1. /\ result = "open" /\ pipe.stages = 0 /\ pieces < MaxPieces
        /\ folded' = FoldPiece(PieceRun, join)
        /\ shell' = ShellPiece(PieceRun, join, shell.ok)
        /\ pieces' = pieces + 1 /\ pipe' = pipe /\ result' = result
        /\ strays' = strays
    BY <1>3 DEF SkipPiece
  <2>2. /\ FoldedShape(folded) /\ ShellShape(shell) /\ shell.ok \in BOOLEAN
        /\ folded.extra \in Nat /\ folded.extra <= pieces /\ pieces \in Nat
        /\ ~folded.runs /\ PipeShape(pipe)
    BY <1>3, BoundsAssumption DEF Typed, TypeOK, Shaped, SkipPiece
  <2>3. KeptPiece(PieceRun) = folded
    BY <2>2, KeptIs
  <2>4. /\ FoldedShape(folded') /\ folded'.exit = folded.exit
        /\ folded'.known = folded.known /\ folded'.extra = folded.extra
        /\ folded'.runs = Onward(folded.exit, join)
    BY <2>1, <2>2, <2>3, ChainedIs DEF FoldPiece
  <2>5. /\ ShellShape(shell') /\ shell'.ok \in BOOLEAN
        /\ shell'.runs = Onward(Exit(shell'.ok), join)
    BY <2>1, <2>2, ShellPieceIs
  <2>6. folded'.runs \in BOOLEAN /\ shell'.runs \in BOOLEAN
    BY <2>4, <2>5, OnwardIs
  <2>7. pieces' \in 0 .. MaxPieces /\ folded'.extra \in 0 .. MaxPieces
        /\ folded'.extra <= pieces'
    BY <2>1, <2>2, <2>4, BoundsAssumption
  <2>8. TypeOK'
    BY <2>1, <2>4, <2>5, <2>6, <2>7 DEF Typed, TypeOK
  <2>9. Shaped'
    BY <2>1, <2>2, <2>4, <2>5 DEF Shaped
  <2> QED BY <2>1, <2>7, <2>8, <2>9 DEF Typed
<1>4. ASSUME Finish PROVE Typed'
  <2>1. folded' = [folded EXCEPT !.text = StripNewlines(folded.text)]
    BY <1>4 DEF Finish
  <2>2. /\ FoldedShape(folded') /\ folded'.exit = folded.exit
        /\ folded'.known = folded.known /\ folded'.extra = folded.extra
        /\ folded'.runs = folded.runs
    BY <2>1 DEF Typed, Shaped, FoldedShape
  <2>3. /\ result' \in {"text", "unknown"}
        /\ shell' = shell /\ pipe' = pipe /\ pieces' = pieces
        /\ strays' = strays
    BY <1>4 DEF Finish
  <2> QED BY <2>2, <2>3 DEF Typed, TypeOK, Shaped
<1>5. ASSUME NEW idiom \in ReadBacks, ReadBack(idiom) PROVE Typed'
  <2> DEFINE run == LoadedPrint(idiom.path, idiom.first)
             does == Does(idiom.meaning, Paths[idiom.path].text)
             text == StripNewlines(run.text)
             known == run.kind = "produced"
  <2>1. folded' = [folded EXCEPT !.text = text, !.known = known]
    BY <1>5 DEF ReadBack
  <2>2. shell' = [shell EXCEPT !.text = does]
    BY <1>5 DEF ReadBack
  <2>3. /\ result' = IF run.kind = "produced" THEN "text" ELSE run.kind
        /\ pieces' = MaxPieces /\ pipe' = pipe /\ strays' = strays
    BY <1>5 DEF ReadBack
  <2>4. run.kind \in {"produced", "unscanned", "unknown"}
    BY LoadedKinds
  <2>5. known \in BOOLEAN /\ result' \in {"text", "unscanned", "unknown"}
    BY <2>3, <2>4
  <2> HIDE DEF run, does, text, known
  <2>6. /\ FoldedShape(folded') /\ folded'.exit = folded.exit
        /\ folded'.known = known /\ folded'.extra = folded.extra
        /\ folded'.runs = folded.runs
    BY <2>1 DEF Typed, Shaped, FoldedShape
  <2>7. ShellShape(shell') /\ shell'.ok = shell.ok /\ shell'.runs = shell.runs
    BY <2>2 DEF Typed, Shaped, ShellShape
  <2>8. TypeOK'
    BY <2>3, <2>5, <2>6, <2>7, BoundsAssumption DEF Typed, TypeOK
  <2>9. Shaped'
    BY <2>3, <2>6, <2>7 DEF Typed, Shaped
  <2> QED BY <2>3, <2>5, <2>6, <2>8, <2>9, BoundsAssumption DEF Typed, TypeOK
<1>6. CASE UNCHANGED vars
  BY <1>6 DEF vars, Typed, TypeOK, Shaped
<1> QED BY <1>1, <1>2, <1>3, <1>4, <1>5, <1>6 DEF Next

(* What the fold keeps has its types (Printed of the fold in policy.rs),   *)
(* for any number of stages and pieces.                                    *)
THEOREM TypeCorrect == Spec => []TypeOK
<1>1. Init => Typed
  BY TypedInit
<1>2. Typed /\ [Next]_vars => Typed'
  BY NextTyped
<1>3. Typed => TypeOK
  BY DEF Typed
<1> QED BY <1>1, <1>2, <1>3, PTL DEF Spec

-----------------------------------------------------------------------------
(* A script that has used none of the forms, and of which each pipeline    *)
(* under way is followed.                                                  *)

LEMMA InvInit == Init => Inv
<1> SUFFICES ASSUME Init PROVE Inv
  OBVIOUS
<1>1. /\ folded.text = <<>> /\ shell.text = <<>>
      /\ folded.runs = TRUE /\ shell.runs = TRUE
      /\ folded.exit = "ok" /\ shell.ok = TRUE
      /\ pipe.stages = 0 /\ pipe.exact = TRUE /\ result = "open"
  BY DEF Init, NoPipe
<1>2. IsText(<<>>)
  BY EmptySeq, SeqIsText
<1>3. Covers(folded.text, shell.text)
  BY <1>1 DEF Covers
<1>4. Same
  BY <1>1 DEF Same, Exit
<1> QED BY <1>1, <1>2, <1>3, <1>4 DEF Inv, Alongside, Staging

LEMMA StageInv ==
  ASSUME Typed, Inv, NEW command \in Commands, Stage(command), strays' = {}
  PROVE  Inv'
<1>1. /\ pipe' = Staged(command, RunStage(command, pipe.fed),
                        ShellStage(command, pipe.real.text))
      /\ result = "open" /\ pieces < MaxPieces /\ (folded.runs \/ shell.runs)
      /\ folded' = folded /\ shell' = shell
      /\ pieces' = pieces /\ result' = result
  BY DEF Stage
<1>2. \/ pipe'.exact = pipe.exact
      \/ pipe'.exact = (pipe.exact /\ command.exact)
  BY <1>1, StagedShape DEF Typed, Shaped
<1>3. command.exact \/ Ended(folded.text)
  <2>1. Form("runOn", ~command.exact /\ ~Ended(folded.text)) = {}
    BY DEF Stage, StageForms
  <2> QED BY <2>1 DEF Form
<1>4. pipe.exact \/ Ended(folded.text)
  BY <1>1 DEF Inv, Staging
<1>5. pipe'.exact \/ Ended(folded.text)
  BY <1>2, <1>3, <1>4
<1>6. Staging'
  BY <1>1, <1>5 DEF Staging
<1>7. Alongside'
  BY <1>1 DEF Inv, Alongside, Same
<1> QED BY <1>1, <1>6, <1>7 DEF Inv

LEMMA FollowsPiece ==
  ASSUME Typed, Inv, PipeIsFollowed,
         NEW join \in Joins, NEW ok \in BOOLEAN,
         NEW found, found.kind = "produced" => found = pipe.run,
         strays = {}, pipe.stages > 0, result = "open", Decided(found, join),
         found.kind = "produced" => ok = pipe.real.ok,
         folded' = FoldPiece(found, join), shell' = ShellPiece(found, join, ok)
  PROVE  /\ IsText(folded'.text) /\ IsText(shell'.text)
         /\ Alongside'
<1> DEFINE f == folded.text
           s == shell.text
           r == found.text
           q == pipe.real.text
<1>1. /\ FoldedShape(folded) /\ ShellShape(shell) /\ shell.ok \in BOOLEAN
      /\ folded.extra \in Nat
      /\ IsText(f) /\ IsText(s) /\ Alongside /\ Staging
      /\ folded.runs \in BOOLEAN /\ shell.runs \in BOOLEAN
  BY DEF Typed, TypeOK, Shaped, Inv
<1>2. folded.runs
  BY <1>1 DEF Alongside, Staging
<1>3. /\ Ended(f) => Ended(s)
      /\ Covers(f, s)
      /\ folded.extra = 0 /\ shell.exact => Same
      /\ pipe.exact \/ Ended(f)
  BY <1>1 DEF Alongside, Staging
<1>4. /\ FoldedShape(folded') /\ folded'.text = KeptPiece(found).text
      /\ folded'.exit = KeptPiece(found).exit /\ folded'.extra = KeptPiece(found).extra
      /\ folded'.runs = Onward(KeptPiece(found).exit, join)
  BY <1>1, KeptIs, ChainedIs DEF FoldPiece
<1>5. /\ shell'.ok \in BOOLEAN
      /\ shell'.runs = Onward(Exit(shell'.ok), join)
      /\ ~shell.runs => /\ shell'.text = s /\ shell'.ok = shell.ok
                        /\ shell'.exact = shell.exact
      /\ shell.runs => /\ shell'.text = IF CoveredPiece(found) THEN s \o q ELSE s
                       /\ shell'.ok = ok
                       /\ shell'.exact = (shell.exact /\ pipe.exact)
  BY <1>1, ShellPieceIs
<1>6. CASE found.kind # "produced"
  <2>1. /\ folded'.text = f /\ folded'.exit = "unknown"
        /\ folded'.extra = folded.extra + 1
    BY <1>1, <1>2, <1>4, <1>6, KeptIs
  <2>2. shell'.text = s
    BY <1>2, <1>5, <1>6 DEF CoveredPiece
  <2>3. folded'.runs \/ (~shell'.runs /\ folded'.exit = Exit(shell'.ok))
    <3>1. Onward("unknown", join)
      BY DEF Onward, Joins
    <3> QED BY <1>4, <2>1, <3>1
  <2>4. folded'.extra # 0
    BY <1>1, <2>1
  <2> HIDE DEF f, s, r, q
  <2>5. IsText(folded'.text) /\ IsText(shell'.text)
    BY <1>1, <2>1, <2>2
  <2>6. /\ Ended(folded'.text) => Ended(shell'.text)
        /\ Covers(folded'.text, shell'.text)
    BY <1>3, <2>1, <2>2
  <2> QED BY <2>3, <2>4, <2>5, <2>6 DEF Alongside
<1>7. CASE found.kind = "produced"
  <2>1. /\ folded'.text = f \o r /\ folded'.exit = Exit(found.ok)
        /\ folded'.extra = folded.extra
    BY <1>1, <1>2, <1>4, <1>7, KeptIs
  <2>2. /\ IsText(r) /\ IsText(q)
        /\ found.ok = pipe.real.ok
        /\ pipe.exact => r = q
        /\ ~pipe.exact => Ended(r) /\ Ended(q) /\ LineSet(q) \subseteq LineSet(r)
    <3>1. found = pipe.run /\ pipe.run.kind = "produced"
      BY <1>7
    <3>2. strays \cap {"unended", "reorder"} = {}
      OBVIOUS
    <3> QED BY <3>1, <3>2 DEF PipeIsFollowed
  <2>3. folded'.exit = Exit(ok)
    BY <1>7, <2>1, <2>2
  <2>4. CASE shell.runs
    <3>1. /\ shell'.text = s \o q /\ shell'.ok = ok
          /\ shell'.exact = (shell.exact /\ pipe.exact)
      BY <1>5, <1>7, <2>4 DEF CoveredPiece
    <3> HIDE DEF f, s, r, q
    <3>2. folded'.runs \/ (~shell'.runs /\ folded'.exit = Exit(shell'.ok))
      BY <1>4, <1>5, <2>3, <3>1
    <3>3. IsText(f \o r) /\ IsText(s \o q)
      BY <1>1, <2>2, ConcatIs
    <3>4. Ended(f \o r) => Ended(s \o q)
      <4> SUFFICES ASSUME Ended(f \o r) PROVE Ended(s \o q)
        OBVIOUS
      <4>1. Ended(r) /\ (r = <<>> => Ended(f))
        BY <1>1, <2>2, EndOfConcat
      <4>2. CASE pipe.exact
        BY <1>1, <1>3, <2>2, <4>1, <4>2, EndOfConcat
      <4>3. CASE ~pipe.exact
        <5>1. Ended(q) /\ Ended(s)
          BY <1>3, <2>2, <4>3
        <5> QED BY <1>1, <2>2, <5>1, EndOfConcat
      <4> QED BY <4>2, <4>3
    <3>5. Covers(f \o r, s \o q)
      <4>1. CASE pipe.exact
        <5>1. r = q
          BY <2>2, <4>1
        <5>2. Covers(f \o r, s \o r)
          BY <1>1, <1>3, <2>2, CoversSame
        <5> QED BY <5>1, <5>2
      <4>2. CASE ~pipe.exact
        <5>1. /\ Ended(f) /\ Ended(s) /\ Ended(r) /\ Ended(q)
              /\ LineSet(q) \subseteq LineSet(r)
          BY <1>3, <2>2, <4>2
        <5> QED BY <1>1, <1>3, <2>2, <5>1, CoversMore
      <4> QED BY <4>1, <4>2
    <3>6. ASSUME folded'.extra = 0, shell'.exact PROVE Same'
      <4>1. folded.extra = 0 /\ shell.exact /\ pipe.exact
        BY <2>1, <3>1, <3>6
      <4>2. f = s /\ r = q
        BY <1>3, <2>2, <4>1 DEF Same, f, s
      <4>3. folded'.text = shell'.text
        BY <2>1, <3>1, <4>2
      <4>4. folded'.exit = Exit(shell'.ok)
        BY <2>3, <3>1
      <4>5. folded'.runs = shell'.runs
        BY <1>4, <1>5, <4>4
      <4> QED BY <4>3, <4>4, <4>5 DEF Same
    <3>7. /\ IsText(folded'.text) /\ IsText(shell'.text)
          /\ Ended(folded'.text) => Ended(shell'.text)
          /\ Covers(folded'.text, shell'.text)
      BY <2>1, <3>1, <3>3, <3>4, <3>5
    <3> QED BY <3>2, <3>6, <3>7 DEF Alongside
  <2>5. CASE ~shell.runs
    <3>1. shell'.text = s /\ shell'.ok = shell.ok /\ shell'.exact = shell.exact
      BY <1>5, <2>5
    <3>2. join = ";" /\ Ended(f) /\ Ended(r)
      BY <1>2, <1>7, <2>5 DEF Decided
    <3> HIDE DEF f, s, r, q
    <3>3. IsText(f \o r) /\ Covers(f \o r, s)
      BY <1>1, <1>3, <2>2, <3>2, ConcatIs, CoversLonger
    <3>4. folded'.runs
      BY <1>4, <3>2 DEF Onward
    <3>5. ~(folded'.extra = 0 /\ shell'.exact)
      <4> SUFFICES ASSUME folded'.extra = 0, shell'.exact PROVE FALSE
        OBVIOUS
      <4>1. folded.runs = shell.runs
        BY <1>3, <2>1, <3>1 DEF Same
      <4> QED BY <1>2, <2>5, <4>1
    <3>6. Ended(s)
      BY <1>3, <3>2
    <3>7. /\ IsText(folded'.text) /\ IsText(shell'.text)
          /\ Ended(folded'.text) => Ended(shell'.text)
          /\ Covers(folded'.text, shell'.text)
      BY <1>1, <2>1, <3>1, <3>3, <3>6
    <3> QED BY <3>4, <3>5, <3>7 DEF Alongside
  <2> QED BY <1>1, <2>4, <2>5
<1> QED BY <1>6, <1>7

LEMMA EndPieceInv ==
  ASSUME Typed, Inv, PipeIsFollowed,
         NEW join \in Joins, EndPiece(join), strays' = {}
  PROVE  Inv'
<1>1. PICK ok \in BOOLEAN :
        /\ pipe.run.kind = "produced" => ok = pipe.real.ok
        /\ shell' = ShellPiece(PieceRun, join, ok)
  BY DEF EndPiece
<1>2. /\ result = "open" /\ pipe.stages > 0
      /\ folded' = FoldPiece(PieceRun, join) /\ pipe' = NoPipe
      /\ result' \in {"open", "unscanned"}
  BY DEF EndPiece
<1>3. strays = {} /\ PieceForms(PieceRun, join) = {}
  BY DEF EndPiece
<1>4. Decided(PieceRun, join)
  <2>1. Form("guess", ~Decided(PieceRun, join)) = {}
    BY <1>3 DEF PieceForms
  <2> QED BY <2>1 DEF Form
<1>5. PieceRun.kind = "produced" => PieceRun = pipe.run
  <2>1. Form("readBack", pipe.run.kind # PieceRun.kind
                           /\ PieceRun.kind = "produced") = {}
    BY <1>3 DEF PieceForms
  <2>2. PieceRun.kind = "produced" => pipe.run.kind = "produced"
    BY <2>1 DEF Form
  <2> QED BY <2>2 DEF PieceRun
<1>6. PieceRun.kind = "produced" => ok = pipe.real.ok
  BY <1>1, <1>5
<1>7. IsText(folded'.text) /\ IsText(shell'.text) /\ Alongside'
  BY <1>1, <1>2, <1>3, <1>4, <1>5, <1>6, FollowsPiece
<1>8. Staging'
  BY <1>2 DEF Staging, NoPipe
<1> QED BY <1>2, <1>7, <1>8 DEF Inv

LEMMA SkipPieceInv ==
  ASSUME Typed, Inv, NEW join \in Joins, SkipPiece(join)
  PROVE  Inv'
<1>1. /\ result = "open" /\ pipe.stages = 0 /\ ~folded.runs /\ ~shell.runs
      /\ folded' = FoldPiece(PieceRun, join)
      /\ shell' = ShellPiece(PieceRun, join, shell.ok)
      /\ pipe' = pipe /\ result' = result
  BY DEF SkipPiece
<1>2. /\ FoldedShape(folded) /\ ShellShape(shell) /\ shell.ok \in BOOLEAN
      /\ IsText(folded.text) /\ IsText(shell.text) /\ Alongside /\ Staging
  BY <1>1 DEF Typed, TypeOK, Shaped, Inv
<1>3. KeptPiece(PieceRun) = folded
  BY <1>1, <1>2, KeptIs
<1>4. /\ folded'.text = folded.text /\ folded'.exit = folded.exit
      /\ folded'.extra = folded.extra
      /\ folded'.runs = Onward(folded.exit, join)
  BY <1>1, <1>2, <1>3, ChainedIs DEF FoldPiece
<1>5. /\ shell'.ok = shell.ok /\ shell'.text = shell.text
      /\ shell'.exact = shell.exact
      /\ shell'.runs = Onward(Exit(shell'.ok), join)
  BY <1>1, <1>2, ShellPieceIs
<1>6. folded.exit = Exit(shell.ok)
  BY <1>1, <1>2 DEF Alongside
<1>7. folded'.runs = shell'.runs /\ folded'.exit = Exit(shell'.ok)
  BY <1>4, <1>5, <1>6
<1>8. folded'.runs \/ (~shell'.runs /\ folded'.exit = Exit(shell'.ok))
  BY <1>7
<1>9. /\ Ended(folded'.text) => Ended(shell'.text)
      /\ Covers(folded'.text, shell'.text)
      /\ folded'.extra = 0 /\ shell'.exact => folded'.text = shell'.text
  BY <1>2, <1>4, <1>5 DEF Alongside, Same
<1>10. Alongside'
  BY <1>7, <1>8, <1>9 DEF Alongside, Same
<1>11. Staging'
  BY <1>1, <1>2, <1>4 DEF Staging
<1> QED BY <1>1, <1>2, <1>4, <1>5, <1>10, <1>11 DEF Inv

LEMMA FinishInv ==
  ASSUME Typed, Inv, Finish
  PROVE  Inv'
<1> DEFINE f == folded.text
           s == shell.text
           t == StripNewlines(f)
<1>1. /\ result = "open" /\ folded' = [folded EXCEPT !.text = t]
      /\ shell' = shell /\ result' \in {"text", "unknown"}
  BY DEF Finish
<1>2. FoldedShape(folded) /\ IsText(f) /\ IsText(s) /\ Alongside
  BY <1>1 DEF Typed, Shaped, Inv
<1> HIDE DEF t
<1>3. /\ folded'.text = t /\ folded'.exit = folded.exit
      /\ folded'.runs = folded.runs /\ folded'.extra = folded.extra
  BY <1>1, <1>2 DEF FoldedShape
<1>4. /\ Covers(f, s)
      /\ folded.extra = 0 /\ shell.exact => Same
  BY <1>2 DEF Alongside
<1>5. ASSUME folded.extra = 0, shell.exact
      PROVE  /\ folded.runs = shell.runs /\ folded.exit = Exit(shell.ok)
             /\ f = s
  BY <1>4, <1>5 DEF Same
<1> HIDE DEF f, s
<1>6. IsText(t)
  BY <1>2, StripIs DEF t
<1>7. LineSet(t) = LineSet(f) /\ StripNewlines(t) = StripNewlines(f)
  BY <1>2, LinesOfStrip, StripOnce DEF t
<1>8. LineSet(s) \subseteq LineSet(t)
  BY <1>2, <1>4, <1>7, CoversLines
<1>9. LineSet(shell'.text) \subseteq LineSet(folded'.text)
  BY <1>1, <1>3, <1>8 DEF s
<1>10. ASSUME folded'.extra = 0, shell'.exact
       PROVE  /\ folded'.runs = shell'.runs /\ folded'.exit = Exit(shell'.ok)
              /\ StripNewlines(folded'.text) = StripNewlines(shell'.text)
  <2>1. folded.extra = 0 /\ shell.exact
    BY <1>1, <1>3, <1>10
  <2>2. /\ folded.runs = shell.runs /\ folded.exit = Exit(shell.ok)
        /\ f = s
    BY <1>5, <2>1
  <2>3. StripNewlines(t) = StripNewlines(s)
    BY <1>7, <2>2
  <2> QED BY <1>1, <1>3, <2>2, <2>3 DEF s
<1>11. Answered'
  BY <1>9, <1>10 DEF Answered
<1>12. IsText(folded'.text) /\ IsText(shell'.text)
  BY <1>1, <1>2, <1>3, <1>6 DEF s
<1> QED BY <1>1, <1>11, <1>12 DEF Inv

LEMMA ReadBackInv ==
  ASSUME Typed, Inv, NEW idiom \in ReadBacks, ReadBack(idiom)
  PROVE  Inv'
<1> DEFINE run == LoadedPrint(idiom.path, idiom.first)
           does == Does(idiom.meaning, Paths[idiom.path].text)
           r == run.text
           t == StripNewlines(r)
           known == run.kind = "produced"
<1>1. /\ result = "open"
      /\ folded' = [folded EXCEPT !.text = t, !.known = known]
      /\ shell' = [shell EXCEPT !.text = does]
      /\ result' = IF run.kind = "produced" THEN "text" ELSE run.kind
  BY DEF ReadBack
<1>2. run.kind \in {"produced", "unscanned", "unknown"}
  BY LoadedKinds
<1>3. known => /\ IsText(r) /\ IsText(does)
               /\ StripNewlines(r) = StripNewlines(does)
  BY ReadBacksAssumption
<1>4. /\ known => result' = "text"
      /\ ~known => result' \in {"unscanned", "unknown"}
  BY <1>1, <1>2
<1>5. /\ FoldedShape(folded) /\ ShellShape(shell)
      /\ folded.extra = 0 /\ shell.exact =>
           folded.runs = shell.runs /\ folded.exit = Exit(shell.ok)
  BY <1>1 DEF Typed, Shaped, Inv, Alongside, Same
<1> HIDE DEF run, does, r, t, known
<1>6. /\ folded'.text = t /\ folded'.exit = folded.exit
      /\ folded'.runs = folded.runs /\ folded'.extra = folded.extra
  BY <1>1, <1>5 DEF FoldedShape
<1>7. /\ shell'.text = does /\ shell'.ok = shell.ok
      /\ shell'.runs = shell.runs /\ shell'.exact = shell.exact
  BY <1>1, <1>5 DEF ShellShape
<1>8. CASE ~known
  BY <1>4, <1>8 DEF Inv
<1>9. CASE known
  <2>1. IsText(t)
    BY <1>3, <1>9, StripIs DEF t
  <2>2. LineSet(t) = LineSet(r) /\ StripNewlines(t) = StripNewlines(r)
    BY <1>3, <1>9, LinesOfStrip, StripOnce DEF t
  <2>3. LineSet(StripNewlines(does)) = LineSet(does)
    BY <1>3, <1>9, LinesOfStrip
  <2>4. LineSet(t) = LineSet(does)
    BY <1>3, <1>9, <2>2, <2>3 DEF t
  <2>5. StripNewlines(t) = StripNewlines(does)
    BY <1>3, <1>9, <2>2
  <2>6. Answered'
    BY <1>5, <1>6, <1>7, <2>4, <2>5 DEF Answered
  <2>7. IsText(folded'.text) /\ IsText(shell'.text) /\ result' = "text"
    BY <1>3, <1>4, <1>6, <1>7, <1>9, <2>1
  <2> QED BY <2>6, <2>7 DEF Inv
<1> QED BY <1>8, <1>9

LEMMA NextInv ==
  Typed /\ (strays = {} => Inv) /\ PipeIsFollowed /\ [Next]_vars
    => (strays' = {} => Inv')
<1> SUFFICES ASSUME Typed, strays = {} => Inv, PipeIsFollowed, [Next]_vars,
                    strays' = {}
             PROVE  Inv'
  OBVIOUS
<1>1. ASSUME NEW command \in Commands, Stage(command) PROVE Inv'
  <2>1. strays = {}
    BY <1>1 DEF Stage
  <2> QED BY <1>1, <2>1, StageInv
<1>2. ASSUME NEW join \in Joins, EndPiece(join) PROVE Inv'
  <2>1. strays = {}
    BY <1>2 DEF EndPiece
  <2> QED BY <1>2, <2>1, EndPieceInv
<1>3. ASSUME NEW join \in Joins, SkipPiece(join) PROVE Inv'
  <2>1. strays = {}
    BY <1>3 DEF SkipPiece
  <2> QED BY <1>3, <2>1, SkipPieceInv
<1>4. ASSUME Finish PROVE Inv'
  <2>1. strays = {}
    BY <1>4 DEF Finish
  <2> QED BY <1>4, <2>1, FinishInv
<1>5. ASSUME NEW idiom \in ReadBacks, ReadBack(idiom) PROVE Inv'
  <2>1. strays = {}
    BY <1>5 DEF ReadBack
  <2> QED BY <1>5, <2>1, ReadBackInv
<1>6. CASE UNCHANGED vars
  BY <1>6 DEF vars, Inv, Alongside, Same, Staging, Answered
<1> QED BY <1>1, <1>2, <1>3, <1>4, <1>5, <1>6 DEF Next

LEMMA InvCovers == (strays = {} => Inv) => FoldCoversOutput
<1> SUFFICES ASSUME Inv, result \in {"open", "text"}
             PROVE  LineSet(shell.text) \subseteq LineSet(folded.text)
  BY DEF FoldCoversOutput, Covered
<1>1. CASE result = "open"
  <2>1. /\ IsText(folded.text) /\ IsText(shell.text)
        /\ Covers(folded.text, shell.text)
    BY <1>1 DEF Inv, Alongside
  <2> QED BY <2>1, CoversLines
<1>2. CASE result = "text"
  BY <1>2 DEF Inv, Answered
<1> QED BY <1>1, <1>2

LEMMA InvExact == (strays = {} => Inv) => FoldIsExact
BY DEF Inv, Alongside, Same, Answered, FoldIsExact

(* The step from pipelines to scripts (fold_print): if each single         *)
(* pipeline is followed, which the run checks and nothing here proves,     *)
(* then of a script that has used none of Forms, however many pieces it    *)
(* has and however long its texts, every line the shell prints is a line   *)
(* of the folded text.  Of a script that did use one it says nothing.      *)
THEOREM CoversOutput == Spec /\ []PipeIsFollowed => []FoldCoversOutput
<1>1. Init => Typed /\ (strays = {} => Inv)
  BY TypedInit, InvInit
<1>2. Typed /\ (strays = {} => Inv) /\ PipeIsFollowed /\ [Next]_vars
        => Typed' /\ (strays = {} => Inv)'
  BY NextTyped, NextInv
<1>3. (strays = {} => Inv) => FoldCoversOutput
  BY InvCovers
<1> QED BY <1>1, <1>2, <1>3, PTL DEF Spec

(* On the same condition, a script that has used none of Forms, of which   *)
(* every exit is known and every command followed to the letter, folds to  *)
(* just what it prints, with the exit the shell sees (fold_print).         *)
THEOREM IsExact == Spec /\ []PipeIsFollowed => []FoldIsExact
<1>1. Init => Typed /\ (strays = {} => Inv)
  BY TypedInit, InvInit
<1>2. Typed /\ (strays = {} => Inv) /\ PipeIsFollowed /\ [Next]_vars
        => Typed' /\ (strays = {} => Inv)'
  BY NextTyped, NextInv
<1>3. (strays = {} => Inv) => FoldIsExact
  BY InvExact
<1> QED BY <1>1, <1>2, <1>3, PTL DEF Spec

=============================================================================
