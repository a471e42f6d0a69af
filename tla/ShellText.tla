------------------------------ MODULE ShellText ------------------------------
(***************************************************************************)
(* Texts as the shell matcher cuts them: sequences of letters, of which    *)
(* only the blank and the newline mean something by themselves.            *)
(***************************************************************************)
EXTENDS Naturals, Sequences, SequencesExt

CONSTANTS Blank, Newline   \* letters

Ifs == {Blank, Newline}

(* The places of a text that hold, or do not hold, a letter of a set.      *)
Places(text, letters) == {i \in DOMAIN text : text[i] \in letters}
Others(text, letters) == DOMAIN text \ Places(text, letters)
Earliest(places, otherwise) ==
  IF places = {} THEN otherwise
  ELSE CHOOSE i \in places : \A j \in places : i <= j

Before(text, i) == SubSeq(text, 1, i - 1)
From(text, i) == SubSeq(text, i, Len(text))

(* What a sequence has at some of its places, in its order.                *)
Selected(seq, places) ==
  FoldLeft(LAMBDA kept, i : IF i \in places THEN Append(kept, seq[i]) ELSE kept,
           <<>>, [i \in DOMAIN seq |-> i])

(* Places in the order of the text.                                        *)
InOrder(places, text) == Selected([i \in DOMAIN text |-> i], places)

(* What precedes the first newline.                                        *)
Line(text) == Before(text, Earliest(Places(text, {Newline}), Len(text) + 1))

DropLeading(text) ==
  From(text, Earliest(Others(text, Ifs), Len(text) + 1))
Trim(text) == Reverse(DropLeading(Reverse(DropLeading(text))))

(* The pieces that end with a letter `end', the last one perhaps without.  *)
Records(text, end) ==
  LET ends  == Places(text, {end}) \cup (IF text = <<>> THEN {} ELSE {Len(text)})
      order == InOrder(ends, text)
  IN  [k \in DOMAIN order |->
         SubSeq(text, IF k = 1 THEN 1 ELSE order[k - 1] + 1, order[k])]
Lines(text) == Records(text, Newline)

Chomp(record, end) ==
  IF record # <<>> /\ Last(record) = end THEN Front(record) ELSE record
Body(line) == Chomp(line, Newline)
BodiesOf(lines) == [i \in DOMAIN lines |-> Body(lines[i])]
Bodies(text) == BodiesOf(Lines(text))

(* Newlines at the end of a text go when it is substituted.                *)
StripNewlines(text) ==
  LET kept == Others(text, {Newline})
  IN  SubSeq(text, 1, IF kept = {} THEN 0
                      ELSE CHOOSE i \in kept : \A j \in kept : j <= i)

(* The fields between blanks and newlines.                                 *)
SplitIfs(text) ==
  LET starts == {i \in Others(text, Ifs) : i = 1 \/ text[i - 1] \in Ifs}
      order  == InOrder(starts, text)
      stop(i) == Earliest({j \in Places(text, Ifs) : j > i}, Len(text) + 1)
  IN  [k \in DOMAIN order |-> SubSeq(text, order[k], stop(order[k]) - 1)]

JoinWith(separator, texts) ==
  IF texts = <<>> THEN <<>>
  ELSE FoldLeft(LAMBDA joined, text : joined \o separator \o text,
                Head(texts), Tail(texts))

=============================================================================
