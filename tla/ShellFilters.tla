---------------------------- MODULE ShellFilters ----------------------------
(***************************************************************************)
(* The programs and the line tools: sed, awk, sort, uniq, tac, dd and the  *)
(* printers whose output holds the lines of their input.                   *)
(***************************************************************************)
EXTENDS ShellTools

CONSTANTS
  SedScript,   \* value -> the pieces of a sed script, between its `;'
  AwkProgram,  \* value -> the pieces of an awk program
  NulNames,    \* text -> the file names between its NULs
  AnyLetter,   \* the `.' of an awk pattern
  LastPlace    \* the `$' of a sed address

-----------------------------------------------------------------------------
(* sed.                                                                    *)

SedSpec == [Takes({"n"}, {"e"}) EXCEPT !.cluster = FALSE, !.permute = FALSE,
                                       !.stdin = FALSE]
SedRead(query, given, words) ==
  [ok     |-> query.ok /\ Len(given) <= 1 /\ Len(words) \in 1..2,
   script |-> IF words = <<>> THEN None ELSE words[1],
   quiet  |-> Has(query, "n"),
   file   |-> IF Len(words) = 2 THEN words[2] ELSE None]
SedGiven(query, given) == SedRead(query, given, given \o query.files)
SedParsed(query) == SedGiven(query, Given(query, {"e"}))
SedQuery(args) == SedParsed(Parse(SedSpec, args))

(* A piece is s/from/to/ with its flags, /text/p, a p or an l alone, or an *)
(* address: a line or two, before p or l.                                  *)
Address(first, last) == [kind |-> "address", first |-> first, last |-> last]
Slash(text) == [kind |-> "slash", text |-> text]
Subst(from, to, global, print) ==
  [kind |-> "subst", from |-> from, to |-> to, global |-> global,
   print |-> print]
PieceP == [kind |-> "p"]
PieceL == [kind |-> "l"]

SedIndex(place, last) == IF place = LastPlace THEN last ELSE place

(* union_lines: the lines some span holds, each once.                      *)
UnionLines(text, spans) ==
  LET lines == Lines(text)
      held(i) == \E s \in DOMAIN spans :
                   /\ SedIndex(spans[s].first, Len(lines)) <= i
                   /\ i <= SedIndex(spans[s].last, Len(lines))
  IN  FlattenSeq([i \in DOMAIN lines |->
                    IF held(i) THEN lines[i] ELSE <<>>])

Doubled(text) ==
  LET lines == Lines(text)
      whole(i) == Body(lines[i]) \o <<Newline>>
  IN  FlattenSeq([i \in DOMAIN lines |-> whole(i) \o whole(i)])

OccursAt(text, needle, i) ==
  /\ i + Len(needle) - 1 <= Len(text)
  /\ SubSeq(text, i, i + Len(needle) - 1) = needle
Occurs(text, needle) == \E i \in 1..(Len(text) + 1) : OccursAt(text, needle, i)

SedContains(text, needle) ==
  LET lines == Lines(text)
  IN  FlattenSeq([i \in DOMAIN lines |->
        IF Occurs(Body(lines[i]), needle)
        THEN Body(lines[i]) \o <<Newline>> ELSE <<>>])

SedReplaceLine(line, piece) ==
  LET size == Len(piece.from)
      scan[i \in 1..(Len(line) + 1)] ==
        CASE i > Len(line) -> <<>>
          [] i <= Len(line) /\ OccursAt(line, piece.from, i) ->
               piece.to \o (IF piece.global THEN scan[i + size]
                            ELSE From(line, i + size))
          [] OTHER -> <<line[i]>> \o scan[i + 1]
  IN  scan[1]
SedSubstApply(text, piece, printAll) ==
  LET lines == Lines(text)
      shown(body) == printAll \/ Occurs(body, piece.from)
  IN  FlattenSeq([i \in DOMAIN lines |->
        IF shown(Body(lines[i]))
        THEN SedReplaceLine(Body(lines[i]), piece) \o <<Newline>>
        ELSE <<>>])

(* The pieces of a script that are followed: one substitution, one search, *)
(* or addresses up to the first p or l.                                    *)
PrintPiece(pieces) ==
  Earliest({i \in DOMAIN pieces : pieces[i].kind \in {"p", "l"}},
           Len(pieces) + 1)
SedFollows(script) ==
  \/ script = ""
  \/ /\ script \in DOMAIN SedScript
     /\ LET pieces == SedScript[script]
        IN  /\ pieces # <<>>
            /\ \/ Len(pieces) = 1
               \/ \A i \in 1..(PrintPiece(pieces) - 1) :
                    pieces[i].kind = "address"

SedApply(query, text) ==
  LET pieces == SedScript[query.script]
      piece  == pieces[1]
      print  == PrintPiece(pieces)
      quiet  == query.quiet
  IN  CASE query.script = "" -> IF quiet THEN <<>> ELSE text
        [] query.script \in {"1p", "1,1p"} ->
             FirstLines(text, 1) \o (IF quiet THEN <<>> ELSE text)
        [] piece.kind = "subst" ->
             IF quiet /\ ~piece.print THEN <<>>
             ELSE SedSubstApply(text, piece, ~quiet)
        [] piece.kind = "slash" ->
             IF quiet THEN SedContains(text, piece.text) ELSE text
        [] OTHER ->
             IF print \in DOMAIN pieces
             THEN IF quiet \/ pieces[print].kind = "l" THEN text
                  ELSE Doubled(text)
             ELSE IF quiet THEN UnionLines(text, pieces) ELSE text
SedText(query, source) ==
  IF ~query.ok \/ ~SedFollows(query.script) THEN Unknown
  ELSE Shown(source, SedApply(query, source.text))
SedRun(query, input) == SedText(query, SourceText(query.file, input))

-----------------------------------------------------------------------------
(* awk.  A piece keeps every line, the lines of a span, the lines a        *)
(* literal or a pattern is in, the joined bodies, or the last line.        *)

AwkAll == [kind |-> "all"]
AwkConcat == [kind |-> "concat"]
AwkLast == [kind |-> "last"]
AwkRange(first, last) == [kind |-> "range", first |-> first, last |-> last]
AwkLiteral(text) == [kind |-> "literal", text |-> text]
AwkRegex(parts) == [kind |-> "regex", parts |-> parts]
AwkPart(letter, quant) == [letter |-> letter, quant |-> quant]

(* A word that is an option stands for a program no table holds.           *)
AwkQuery(args) ==
  LET start   == IF args # <<>> /\ args[1] = EndOfOptions THEN 2 ELSE 1
      option  == start \in DOMAIN args
                 /\ args[start].names \in {<<"e">>, <<"source">>}
                 /\ args[start].value = None
      at      == IF option THEN start + 1 ELSE start
      program == IF at \in DOMAIN args THEN AsWord(args[at]) ELSE Opaque
      rest    == From(args, at + 1)
  IN  [ok      |-> /\ program \in DOMAIN AwkProgram
                   /\ Len(rest) <= 1
                   /\ \A i \in DOMAIN rest :
                        rest[i].dash = 0 /\ rest[i].value # Stdin,
       program |-> program,
       file    |-> IF rest = <<>> THEN None ELSE rest[1].value]
AwkFollows(pieces) ==
  /\ pieces # <<>>
  /\ \A i \in DOMAIN pieces :
       pieces[i].kind \in {"concat", "last"} => Len(pieces) = 1

AwkEat(line, i, letter) ==
  i \in DOMAIN line /\ letter \in {AnyLetter, line[i]}
AwkMatchFixed(line, parts, i) ==
  \A k \in DOMAIN parts :
    parts[k].quant = "one" /\ AwkEat(line, i + k - 1, parts[k].letter)

(* The parts before the first quantifier are fixed; it takes as many       *)
(* letters as it can and gives them back until the rest is there.          *)
AwkMatchAt(line, parts, i) ==
  LET quants == {k \in DOMAIN parts : parts[k].quant # "one"}
      at     == Earliest(quants, Len(parts) + 1)
      here   == i + at - 1
      count  == Earliest({n \in 0..Len(line) :
                            ~AwkEat(line, here + n, parts[at].letter)},
                         Len(line))
      least  == IF parts[at].quant = "plus" THEN 1 ELSE 0
  IN  /\ AwkMatchFixed(line, Before(parts, at), i)
      /\ quants # {} =>
           \E n \in least..count :
             AwkMatchFixed(line, From(parts, at + 1), here + n)
AwkRegexHit(line, parts) ==
  \/ parts = <<>>
  \/ Cardinality({k \in DOMAIN parts : parts[k].quant # "one"}) > 1
  \/ \E i \in 1..(Len(line) + 1) : AwkMatchAt(line, parts, i)

AwkKeeps(piece, nr, body) ==
  CASE piece.kind = "all"     -> TRUE
    [] piece.kind = "range"   -> piece.first <= nr /\ nr <= piece.last
    [] piece.kind = "literal" -> Occurs(body, piece.text)
    [] OTHER                  -> AwkRegexHit(body, piece.parts)
AwkScript(text, pieces) ==
  LET lines == Lines(text)
      kept(i) == \E p \in DOMAIN pieces :
                   AwkKeeps(pieces[p], i, Body(lines[i]))
  IN  FlattenSeq([i \in DOMAIN lines |->
        IF kept(i) THEN Body(lines[i]) \o <<Newline>> ELSE <<>>])
AwkPrint(pieces, text) ==
  LET lines == Lines(text)
      kinds == {pieces[p].kind : p \in DOMAIN pieces}
  IN  CASE pieces = <<AwkAll>> -> text
        [] pieces = <<AwkConcat>> ->
             FlattenSeq([i \in DOMAIN lines |-> Body(lines[i])])
        [] pieces = <<AwkLast>> ->
             IF lines = <<>> THEN <<>> ELSE Body(Last(lines)) \o <<Newline>>
        [] kinds = {"range"} -> UnionLines(text, pieces)
        [] OTHER -> AwkScript(text, pieces)
AwkText(pieces, source) ==
  IF ~AwkFollows(pieces) THEN Unknown
  ELSE Shown(source, AwkPrint(pieces, source.text))
AwkRun(query, input) ==
  IF ~query.ok THEN Unknown
  ELSE AwkText(AwkProgram[query.program], SourceText(query.file, input))

-----------------------------------------------------------------------------
(* sort: every line of its input, in the order it came.                    *)

SortSpec ==
  Takes({"b", "d", "f", "g", "h", "i", "M", "m", "n", "r", "R", "s", "u",
         "V", "z", "stable", "unique", "reverse", "zero-terminated",
         "numeric-sort", "dictionary-order", "ignore-case",
         "ignore-leading-blanks", "ignore-nonprinting", "month-sort",
         "human-numeric-sort", "version-sort", "general-numeric-sort",
         "merge", "random-sort", "debug"},
        {"k", "t", "S", "T", "key", "field-separator", "buffer-size",
         "temporary-directory", "parallel", "batch-size", "random-source",
         "compress-program", "sort", "files0-from"})
SortRead(query, from0) ==
  [ok    |-> /\ query.ok
             /\ Len(from0) <= 1
             /\ from0 # <<>> => query.files = <<>>,
   files |-> query.files,
   from0 |-> LastOf(from0, None)]
SortGiven(query) == SortRead(query, Given(query, {"files0-from"}))
SortQuery(args) == SortGiven(Parse(SortSpec, args))

(* The names in a file, none when it cannot be read.                       *)
Names(text) == IF text \in DOMAIN NulNames THEN NulNames[text] ELSE <<>>
SortNames(list, input) ==
  CASE list.kind # "produced" -> list
    [] list.kind = "produced" /\ Names(list.text) = <<>> -> Nothing(FALSE)
    [] OTHER -> LoadPieces(Names(list.text), input, TRUE)
SortRun(query, input) ==
  CASE ~query.ok -> Unknown
    [] query.ok /\ query.from0 = None -> LoadPieces(query.files, input, TRUE)
    [] OTHER -> SortNames(SourceText(query.from0, input), input)

(* The program that sort runs to compress is a command of its own.         *)
SortCompressProgram(args) ==
  LET before == Before(args, Earliest(Places(args, {EndOfOptions}),
                                      Len(args) + 1))
      named  == {i \in DOMAIN before :
                   before[i].names = <<"compress-program">>}
      at     == Earliest(named, 0)
  IN  CASE named = {} -> <<>>
        [] named # {} /\ before[at].value # None -> <<before[at].value>>
        [] OTHER -> IF at + 1 \in DOMAIN args THEN <<AsWord(args[at + 1])>>
                    ELSE <<>>

-----------------------------------------------------------------------------
(* uniq.                                                                   *)

UniqSpec == [Takes({"d", "D", "u", "i", "z", "repeated", "unique",
                    "ignore-case", "zero-terminated"},
                   {"f", "s", "w", "skip-fields", "skip-chars",
                    "check-chars"})
               EXCEPT !.optional = {"all-repeated", "group"}]
UniqMode(name) ==
  CASE name \in {"d", "repeated"}     -> "dups"
    [] name \in {"D", "all-repeated"} -> "everydup"
    [] name \in {"u", "unique"}       -> "once"
    [] name = "group"                 -> "group"
    [] OTHER                          -> "each"
UniqRead(query, modes) ==
  LET styles == [all |-> {None, "none", "prepend", "separate"},
                 group |-> {None, "separate", "prepend", "append", "both"}]
  IN  [ok   |-> /\ query.ok
                /\ Len(modes) <= 1
                /\ AllPlain(Given(query, UniqSpec.valued))
                /\ ToSet(Given(query, {"all-repeated"})) \subseteq styles.all
                /\ ToSet(Given(query, {"group"})) \subseteq styles.group
                /\ Len(query.files) <= 1,
       mode |-> IF modes = <<>> THEN "each" ELSE UniqMode(modes[1].name),
       fold |-> Has(query, "i") \/ Has(query, "ignore-case"),
       zero |-> Has(query, "z") \/ Has(query, "zero-terminated"),
       file |-> File(query)]
UniqGiven(query) ==
  UniqRead(query, SelectSeq(query.opts,
                            LAMBDA opt : UniqMode(opt.name) # "each"))
UniqQuery(args) == UniqGiven(Parse(UniqSpec, args))

LineEq(left, right, fold) ==
  Lowered([ignore |-> fold], left) = Lowered([ignore |-> fold], right)

(* The first line of every run of equal ones, as often as the mode says.   *)
UniqLines(text, query, lines) ==
  LET ended == ~query.zero /\ text # <<>> /\ Last(text) = Newline
      first(i) == i = 1 \/ ~LineEq(lines[i - 1], lines[i], query.fold)
      next(i)  == Earliest({j \in DOMAIN lines : j > i /\ first(j)},
                           Len(lines) + 1)
      copies(count) ==
        CASE query.mode = "each"     -> 1
          [] query.mode = "once"     -> IF count = 1 THEN 1 ELSE 0
          [] query.mode = "dups"     -> IF count > 1 THEN 1 ELSE 0
          [] query.mode = "everydup" -> IF count > 1 THEN count ELSE 0
      joined(kept) == IF kept = <<>> THEN <<>>
                      ELSE JoinWith(<<Newline>>, kept)
                           \o (IF ended THEN <<Newline>> ELSE <<>>)
  IN  IF query.mode = "group" THEN text
      ELSE joined(FlattenSeq([i \in DOMAIN lines |->
             IF first(i) THEN [c \in 1..copies(next(i) - i) |-> lines[i]]
             ELSE <<>>]))
UniqText(query, source) ==
  IF query.ok
  THEN Shown(source, UniqLines(source.text, query,
                       IF query.zero THEN <<source.text>>
                       ELSE Bodies(source.text)))
  ELSE Unknown
UniqRun(query, input) == UniqText(query, SourceText(query.file, input))

-----------------------------------------------------------------------------
(* tac.                                                                    *)

TacSpec == Takes({"b", "r", "before", "regex"}, {"s", "separator"})
TacRead(query, given) ==
  [ok     |-> query.ok /\ Len(given) <= 1,
   before |-> Has(query, "b") \/ Has(query, "before"),
   regex  |-> Has(query, "r") \/ Has(query, "regex"),
   sep    |-> LastOf(given, None),
   files  |-> query.files]
TacGiven(query) == TacRead(query, Given(query, {"s", "separator"}))
TacQuery(args) == TacGiven(Parse(TacSpec, args))

(* Where the records end, left to right, each with its separator.          *)
Cuts(text, sep) ==
  LET scan[i \in 1..(Len(text) + 1)] ==
        CASE i > Len(text) -> <<>>
          [] i <= Len(text) /\ OccursAt(text, sep, i) ->
               <<i + Len(sep) - 1>> \o scan[i + Len(sep)]
          [] OTHER -> scan[i + 1]
  IN  scan[1]
TacText(text, sep, before, cuts) ==
  LET tail    == IF cuts = <<>> THEN text ELSE From(text, Last(cuts) + 1)
      start(k) == IF k = 1 THEN 1 ELSE cuts[k - 1] + 1
      content(k) == SubSeq(text, start(k), cuts[k] - Len(sep))
      record(k) == IF before THEN sep \o content(k) ELSE content(k) \o sep
  IN  tail \o FlattenSeq([k \in DOMAIN cuts |->
                            record(Len(cuts) + 1 - k)])
TacOf(query, sep, loaded) ==
  IF sep.text = <<>> \/ (query.regex /\ sep.regex) THEN Unknown
  ELSE Shown(loaded, TacText(loaded.text, sep.text, query.before,
                             Cuts(loaded.text, sep.text)))
TacRun(query, input) ==
  IF ~query.ok \/ query.sep \notin DOMAIN Separator \cup {None} THEN Unknown
  ELSE TacOf(query, IF query.sep = None
                    THEN [text |-> <<Newline>>, regex |-> FALSE]
                    ELSE Separator[query.sep],
             LoadPieces(query.files, input, FALSE))

-----------------------------------------------------------------------------
(* The printers whose output still holds the file, and dd.                 *)

IdentitySpec(name) ==
  CASE name = "paste"    -> Takes({"s", "serial"}, {"d", "delimiters"})
    [] name = "unexpand" -> Takes({"a", "all"}, {})
    [] name = "fold"     -> Takes({"s", "b", "spaces", "bytes"}, {"w", "width"})
    [] name = "column"   -> Takes({"t", "table"}, {"c", "output-width"})
    [] name = "expand"   -> Takes({"i", "initial"}, {"t", "tabs"})
    [] name = "strings"  -> Takes({"a", "all"}, {"n", "bytes"})
    [] name = "fmt"      -> Takes({"s", "split-only"}, {"w", "width"})
    [] name = "pr"       -> Takes({"t"}, {})
    [] OTHER             -> Takes({}, {})
IdentityQuery(name, args) == Parse(IdentitySpec(name), args)
IdentityRun(query, input) ==
  IF ~query.ok \/ Len(query.files) > 1 THEN Unknown
  ELSE SourceText(File(query), input)

(* if=path, as the option "if"; - stands for the input.                    *)
DdSpec == [Takes({}, {"if", "status", "bs", "ibs", "obs", "cbs"})
             EXCEPT !.end = FALSE]
DdRead(query, paths) ==
  [ok   |-> query.ok /\ query.files = <<>> /\ Len(paths) <= 1,
   file |-> IF paths = <<Stdin>> THEN None ELSE LastOf(paths, None)]
DdGiven(query) == DdRead(query, Given(query, {"if"}))
DdQuery(args) == DdGiven(Parse(DdSpec, args))

=============================================================================
