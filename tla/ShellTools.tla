------------------------------ MODULE ShellTools ------------------------------
(***************************************************************************)
(* The text tools whose output the matcher works out instead of running    *)
(* them: what each accepts of its arguments (the *_query functions), and   *)
(* what it would print of a text.  A tool that is not accepted is Unknown. *)
(* A value stands for itself; what a tool makes of one is given by the     *)
(* tables below, which hold the result of parse_split_number, line_count   *)
(* and the like for the values they accept.                                *)
(***************************************************************************)
EXTENDS ShellText, ShellArgs, FiniteSets, Integers

CONSTANTS
  Contents,   \* value -> [kind, text] of the file of that name
  Number,     \* value -> [sign, n], for digits after nothing, + or -
  Chunk,      \* value -> [mode, k, n], for the -n of split
  Pattern,    \* value -> [kind, text], for grep
  Separator,  \* value -> [text, regex], for tac
  Charset,    \* value -> the charset it names, for iconv
  Lower,      \* letter -> its lower case
  WordLetter, \* letters, digits and _
  Tab

-----------------------------------------------------------------------------
(* Where the text comes from.                                              *)

Produced(text, ok) == [kind |-> "produced", text |-> text, ok |-> ok]
Unscanned == [kind |-> "unscanned", text |-> <<>>, ok |-> FALSE]
Unknown == [kind |-> "unknown", text |-> <<>>, ok |-> FALSE]
Nothing(ok) == Produced(<<>>, ok)

LoadTextOperand(value) ==
  IF value \in DOMAIN Contents THEN Contents[value]
  ELSE [kind |-> IF value = Opaque THEN "unknown" ELSE "missing",
        text |-> <<>>]

Loaded(file) ==
  CASE file.kind = "text"      -> Produced(file.text, TRUE)
    [] file.kind = "unscanned" -> Unscanned
    [] file.kind = "null"      -> Nothing(TRUE)
    [] file.kind \in {"missing", "orphan", "dir"} -> Nothing(FALSE)
    [] OTHER                   -> Unknown
SourceText(file, input) ==
  IF file \notin {None, Stdin} THEN Loaded(LoadTextOperand(file))
  ELSE IF input = None THEN Unknown ELSE Produced(input, TRUE)

(* What is printed of a source that is there.                              *)
Shown(source, text) ==
  IF source.kind = "produced" THEN Produced(text, source.ok) ELSE source

(* Several operands; tac prints those it can read, sort and join nothing   *)
(* when one is missing, cat those before and after.                        *)
JoinPiece(run, one, dropAll) ==
  CASE run.kind # "produced" \/ run.stop -> run
    [] run.kind = "produced" /\ ~run.stop /\ one.kind # "produced" ->
         [run EXCEPT !.kind = one.kind, !.text = <<>>, !.ok = FALSE]
    [] OTHER ->
         IF ~one.ok /\ dropAll
         THEN [run EXCEPT !.text = <<>>, !.ok = FALSE, !.stop = TRUE]
         ELSE [run EXCEPT !.text = @ \o one.text, !.ok = @ /\ one.ok]
Joined(run) == [kind |-> run.kind, text |-> run.text, ok |-> run.ok]
LoadPieces(files, input, dropAll) ==
  LET join(run, file) == JoinPiece(run, SourceText(file, input), dropAll)
  IN  IF files = <<>> THEN SourceText(None, input)
      ELSE Joined(FoldLeft(join, [kind |-> "produced", text |-> <<>>,
                                  ok |-> TRUE, stop |-> FALSE], files))

-----------------------------------------------------------------------------
(* head, tail.                                                             *)

Plain(value) == value \in DOMAIN Number /\ Number[value].sign = ""
AllPlain(values) == \A i \in DOMAIN values : Plain(values[i])
AllNumbers(values) == \A i \in DOMAIN values : values[i] \in DOMAIN Number

FirstOf(pieces, n) == SubSeq(pieces, 1, Min({n, Len(pieces)}))
FirstLines(text, n) == FlattenSeq(FirstOf(Lines(text), n))
FromLine(text, n) == FlattenSeq(From(Lines(text), n))
LastLines(text, n) == FromLine(text, Max({1, Len(Lines(text)) - n + 1}))
FirstBytes(text, n) == FirstOf(text, n)
LastBytes(text, n) == From(text, Max({1, Len(text) - n + 1}))

(* -3 is the option # with the value 3.                                    *)
HeadSpec == [Takes({}, {"n", "c", "bytes", "#"}) EXCEPT !.cluster = FALSE,
                                                        !.permute = FALSE]
HeadRead(query, lines, bytes) ==
  [ok    |-> /\ query.ok
             /\ Len(query.files) <= 1
             /\ AllPlain(lines) /\ AllPlain(bytes)
             /\ lines = <<>> \/ bytes = <<>>,
   lines |-> LastOf(lines, None),
   bytes |-> LastOf(bytes, None),
   file  |-> File(query)]
HeadGiven(query) == HeadRead(query, Given(query, {"n", "#"}),
                                    Given(query, {"c", "bytes"}))
HeadQuery(args) == HeadGiven(Parse(HeadSpec, args))
HeadPrint(query, text) ==
  IF query.bytes # None THEN FirstBytes(text, Number[query.bytes].n)
  ELSE FirstLines(text, IF query.lines = None THEN 10
                        ELSE Number[query.lines].n)
HeadText(query, source) ==
  IF query.ok THEN Shown(source, HeadPrint(query, source.text)) ELSE Unknown
HeadRun(query, input) == HeadText(query, SourceText(query.file, input))

TailSpec == [HeadSpec EXCEPT !.valued = {"n", "c", "#", "+"}]
TailRead(query) ==
  [ok   |-> /\ query.ok
            /\ Len(query.files) <= 1
            /\ AllNumbers(Given(query, {"n", "c"}))
            /\ AllPlain(Given(query, {"#", "+"}))
            /\ Has(query, "+") => query.files # <<>>,
   mode |-> LastOf(query.opts, [name |-> "n", value |-> None]),
   file |-> File(query)]
TailQuery(args) == TailRead(Parse(TailSpec, args))
TailPrint(name, number, text) ==
  CASE name = "+" -> text
    [] name \in {"n", "#"} ->
         IF number.sign = "+" THEN FromLine(text, Max({1, number.n}))
         ELSE LastLines(text, number.n)
    [] OTHER ->
         IF number.sign = "+" THEN From(text, Max({1, number.n}))
         ELSE LastBytes(text, number.n)
TailText(query, source) ==
  LET number == IF query.mode.value = None THEN [sign |-> "", n |-> 10]
                ELSE Number[query.mode.value]
  IN  IF query.ok
      THEN Shown(source, TailPrint(query.mode.name, number, source.text))
      ELSE Unknown
TailRun(query, input) == TailText(query, SourceText(query.file, input))

-----------------------------------------------------------------------------
(* cat, tee, tr, cut, jq, iconv, join: what they print is their input,     *)
(* or as good as.                                                          *)

CatSpec == Takes({"u", "v", "e", "E", "t", "T", "s", "A", "show-nonprinting",
                  "show-ends", "show-tabs", "squeeze-blank", "show-all"}, {})
CatQuery(args) == Parse(CatSpec, args)
CatRun(query, input) ==
  IF ~query.ok THEN Unknown ELSE LoadPieces(query.files, input, FALSE)

TeeSpec == [Takes({"a", "append", "i", "ignore-interrupts"}, {})
              EXCEPT !.cluster = FALSE]
TeeRun(query, input) ==
  IF ~query.ok \/ input = None THEN Unknown ELSE Produced(input, TRUE)

TrRun(args, input) ==
  IF args = <<>> \/ input = None THEN Unknown ELSE Produced(input, TRUE)

CutSpec == [Takes({}, {"d", "delimiter", "f", "c"})
              EXCEPT !.cluster = FALSE, !.permute = FALSE, !.stdin = FALSE]
CutRead(query) ==
  [ok   |-> /\ query.ok
            /\ Len(query.files) <= 1
            /\ ToSet(Given(query, {"f", "c"})) = {"1-"},
   file |-> File(query)]
CutQuery(args) == CutRead(Parse(CutSpec, args))

JqSpec == [Takes({"R", "raw-input", "r", "raw-output"}, {})
             EXCEPT !.end = FALSE]
JqRead(query) ==
  [ok   |-> /\ query.ok
            /\ Has(query, "R") \/ Has(query, "raw-input")
            /\ Has(query, "r") \/ Has(query, "raw-output")
            /\ Len(query.files) = 2 /\ query.files[1] = ".",
   file |-> IF Len(query.files) = 2 THEN query.files[2] ELSE None]
JqQuery(args) == JqRead(Parse(JqSpec, args))

IconvSpec == [Takes({}, {"f", "from-code", "t", "to-code"})
                EXCEPT !.cluster = FALSE, !.apart = {"f", "t"}]
CharsetOf(value) ==
  IF value \in DOMAIN Charset THEN Charset[value] ELSE value
SameCharset(from, to) ==
  /\ (from = None) <=> (to = None)
  /\ CharsetOf(from) = CharsetOf(to)
IconvRead(query) ==
  [ok   |-> /\ query.ok
            /\ Len(query.files) <= 1
            /\ SameCharset(LastGiven(query, {"f", "from-code"}, None),
                           LastGiven(query, {"t", "to-code"}, None)),
   file |-> File(query)]
IconvQuery(args) == IconvRead(Parse(IconvSpec, args))

TwoFiles(query) == [query EXCEPT !.ok = @ /\ Len(query.files) = 2]
JoinSpec == [Takes({}, {}) EXCEPT !.end = FALSE]
JoinQuery(args) == TwoFiles(Parse(JoinSpec, args))
JoinRun(query, input) ==
  IF query.ok THEN LoadPieces(query.files, input, TRUE) ELSE Unknown

(* comm: three columns, of which -1, -2 and -3 hide one each.              *)
CommSpec == Takes({"1", "2", "3", "nocheck-order", "check-order"}, {})
CommQuery(args) == TwoFiles(Parse(CommSpec, args))
CommText(left, right, hide) ==
  LET ours   == Lines(left)
      theirs == Lines(right)
      indent(column) ==
        [i \in 1..Cardinality((1..(column - 1)) \ hide) |-> Tab]
      row(column, line) ==
        IF column \in hide THEN <<>>
        ELSE indent(column) \o Body(line) \o <<Newline>>
      alike(line, used) == {j \in DOMAIN theirs \ used :
                              Body(theirs[j]) = Body(line)}
      put(state, line, same) ==
        IF same = {}
        THEN [state EXCEPT !.text = @ \o row(1, line)]
        ELSE [used |-> state.used \cup {Earliest(same, 0)},
              text |-> state.text \o row(3, line)]
      pair(state, line) == put(state, line, alike(line, state.used))
      more(state) ==
        state.text \o FlattenSeq([j \in DOMAIN theirs |->
          IF j \in state.used THEN <<>> ELSE row(2, theirs[j])])
  IN  more(FoldLeft(pair, [used |-> {}, text |-> <<>>], ours))
CommSides(query, left, right) ==
  LET hide == {n \in 1..3 : Has(query, <<"1", "2", "3">>[n])}
      bad(side) == side.kind # "produced" \/ ~side.ok
      stop(side) == IF side.kind = "produced" THEN Nothing(FALSE) ELSE side
  IN  IF bad(left) THEN stop(left)
      ELSE IF bad(right) THEN stop(right)
      ELSE Produced(CommText(left.text, right.text, hide), TRUE)
CommRun(query, input) ==
  IF ~query.ok THEN Unknown
  ELSE CommSides(query, SourceText(query.files[1], input),
                 SourceText(query.files[2], input))

-----------------------------------------------------------------------------
(* split, which prints when -n names one chunk or when its filter is cat.  *)

SplitSpec ==
  [Takes({"d", "e", "u", "x", "verbose", "elide-empty-files", "unbuffered"},
         {"a", "b", "C", "l", "t", "n", "number", "filter", "lines", "bytes",
          "line-bytes", "suffix-length", "additional-suffix", "separator"})
     EXCEPT !.optional = {"numeric-suffixes", "hex-suffixes"}]
SplitRead(query, number, filter) ==
  [ok     |-> /\ query.ok
              /\ Len(query.files) <= 2
              /\ Len(number) <= 1 /\ ToSet(number) \subseteq DOMAIN Chunk
              /\ Len(filter) <= 1,
   number |-> LastOf(number, None),
   filter |-> LastOf(filter, None),
   file   |-> File(query)]
SplitGiven(query) == SplitRead(query, Given(query, {"n", "number"}),
                                      Given(query, {"filter"}))
SplitPlan(args) == SplitGiven(Parse(SplitSpec, args))

(* Letters first + 1 to last of a text cut into n even chunks, the longer  *)
(* ones first.                                                             *)
ByteRange(len, k, n) ==
  LET rem == len % n
      start[i \in 1..(n + 1)] ==
        IF i = 1 THEN 0
        ELSE start[i - 1] + (len \div n) + (IF i - 1 <= rem THEN 1 ELSE 0)
  IN  IF n = 0 \/ k = 0 \/ k > n THEN [first |-> 0, last |-> 0]
      ELSE [first |-> start[k], last |-> start[k + 1]]
LineStart(lines, i) == Len(FlattenSeq(SubSeq(lines, 1, i - 1)))
SplitChunk(text, chunk) ==
  LET lines == Lines(text)
      bytes(range) == SubSeq(text, range.first + 1, range.last)
      starts(i, range) == LineStart(lines, i) \in range.first..(range.last - 1)
      turn(i) == chunk.k <= chunk.n /\ (i - 1) % chunk.n = chunk.k - 1
      range   == ByteRange(Len(text), chunk.k, chunk.n)
  IN  IF chunk.mode = "bytes" THEN bytes(range)
      ELSE FlattenSeq([i \in DOMAIN lines |->
             IF IF chunk.mode = "lines" THEN starts(i, range) ELSE turn(i)
             THEN lines[i] ELSE <<>>])

LoadSplitFile(file, input) ==
  CASE file = None -> Unknown
    [] file # None /\ file # Stdin /\ LoadTextOperand(file).kind = "null" ->
         Nothing(FALSE)
    [] OTHER -> SourceText(file, input)
SplitText(plan, loaded) ==
  LET chunk  == plan.ok /\ plan.number # None
                /\ Chunk[plan.number].mode # "files"
      stopped == loaded.kind # "produced" \/ ~loaded.ok
  IN  CASE ~plan.ok -> Unknown
        [] chunk /\ plan.filter # None -> Nothing(FALSE)
        [] chunk /\ plan.filter = None ->
             IF stopped THEN loaded
             ELSE Produced(SplitChunk(loaded.text, Chunk[plan.number]), TRUE)
        [] plan.ok /\ ~chunk ->
             IF plan.filter = "cat" THEN loaded ELSE Unknown
SplitRun(plan, input) == SplitText(plan, LoadSplitFile(plan.file, input))

-----------------------------------------------------------------------------
(* grep.                                                                   *)

GrepFlags == {"F", "fixed-strings", "i", "ignore-case", "w", "word-regexp",
              "o", "only-matching", "E", "extended-regexp", "G",
              "basic-regexp", "P", "perl-regexp", "a", "text", "I", "h",
              "no-filename"}
GrepSpec == [Takes(GrepFlags, {"e"}) EXCEPT !.permute = FALSE,
                                            !.stdin = FALSE]
GrepRead(name, args, query, patterns, files) ==
  LET clusters == {i \in DOMAIN args : Len(args[i].names) > 1}
  IN  [ok       |-> /\ query.ok
                    /\ \A i \in clusters : ToSet(args[i].names) \cap
                         {"G", "P", "e"} = {}
                    /\ \A i \in DOMAIN args :
                         args[i].names = <<"e">> => args[i].value = None
                    /\ patterns # <<>> /\ Len(files) <= 1,
       patterns |-> patterns,
       fixed    |-> \/ Has(query, "F") \/ Has(query, "fixed-strings")
                    \/ name = "fgrep",
       ignore   |-> Has(query, "i") \/ Has(query, "ignore-case"),
       word     |-> Has(query, "w") \/ Has(query, "word-regexp"),
       only     |-> Has(query, "o") \/ Has(query, "only-matching"),
       extended |-> \/ Has(query, "E") \/ Has(query, "extended-regexp")
                    \/ name = "egrep",
       file     |-> IF files = <<>> THEN None ELSE files[1]]
GrepGiven(name, args, query, given) ==
  IF given # <<>> THEN GrepRead(name, args, query, given, query.files)
  ELSE GrepRead(name, args, query, FirstOf(query.files, 1),
                From(query.files, 2))
GrepParsed(name, args, query) ==
  GrepGiven(name, args, query, Given(query, {"e"}))
GrepQuery(name, args) == GrepParsed(name, args, Parse(GrepSpec, args))
(* The kind of pattern a query makes of a value: a literal text, a dot, a  *)
(* dot and star, a text and plus, or one that is not followed.             *)
PatternKind(query, value) ==
  LET kind == IF value \in DOMAIN Pattern THEN Pattern[value].kind
              ELSE "other"
  IN  CASE query.fixed -> "literal"
        [] ~query.fixed /\ kind = "plus" ->
             IF query.extended THEN "plus" ELSE "other"
        [] OTHER -> kind
Follows(query, value) ==
  LET kind == PatternKind(query, value)
  IN  /\ value \in DOMAIN Pattern
      /\ kind # "other"
      /\ query.only => kind \notin {"dot", "plus"}
      /\ query.word => kind = "literal"

Lowered(query, text) ==
  IF query.ignore THEN [i \in DOMAIN text |-> Lower[text[i]]] ELSE text
WordAt(line, from, to) ==
  /\ from = 1 \/ line[from - 1] \notin WordLetter
  /\ to >= Len(line) \/ line[to + 1] \notin WordLetter

(* literal_hits: where a literal starts, left to right without overlap.    *)
LiteralHits(query, line, needle) ==
  LET hay  == Lowered(query, line)
      want == Lowered(query, needle)
      size == Len(want)
      here(i) == /\ i + size - 1 <= Len(hay)
                 /\ SubSeq(hay, i, i + size - 1) = want
                 /\ query.word => WordAt(hay, i, i + size - 1)
      scan[i \in 1..(Len(hay) + 1)] ==
        IF size = 0 \/ i > Len(hay) THEN <<>>
        ELSE IF here(i) THEN <<i>> \o scan[i + size] ELSE scan[i + 1]
  IN  scan[1]

(* plus_matches: the text before the last letter, and then that letter.    *)
PlusMatches(line, prefix) ==
  LET head == Front(prefix)
      at(i) == /\ i + Len(head) \in DOMAIN line
               /\ SubSeq(line, i, i + Len(head) - 1) = head
               /\ line[i + Len(head)] = Last(prefix)
  IN  \E i \in 1..(Len(line) + 1) : at(i)

GrepBody(query, kind, needle, body) ==
  LET whole  == body \o <<Newline>>
      parts(hits) == FlattenSeq([h \in DOMAIN hits |->
                       SubSeq(body, hits[h], hits[h] + Len(needle) - 1)
                       \o <<Newline>>])
      found(hits) == CASE hits = <<>> -> <<>>
                       [] hits # <<>> /\ query.only -> parts(hits)
                       [] OTHER -> whole
  IN  CASE kind = "star" -> whole
        [] kind = "plus" -> IF PlusMatches(body, Front(needle)) THEN whole ELSE <<>>
        [] kind = "dot"  -> IF body = <<>> THEN <<>> ELSE whole
        [] OTHER -> found(LiteralHits(query, body, needle))
GrepLine(query, value, line) ==
  GrepBody(query, PatternKind(query, value), Pattern[value].text, Body(line))

GrepAny(query, text) ==
  LET lines == Lines(text)
  IN  FlattenSeq([i \in DOMAIN lines |->
        FlattenSeq([k \in DOMAIN query.patterns |->
          GrepLine(query, query.patterns[k], lines[i])])])
GrepText(query, source) ==
  LET follows == \A k \in DOMAIN query.patterns :
                   Follows(query, query.patterns[k])
      found(text) == Produced(text, text # <<>>)
  IN  CASE ~query.ok -> Unknown
        [] query.ok /\ source.kind # "produced" -> source
        [] query.ok /\ source.kind = "produced" /\ ~source.ok -> Nothing(FALSE)
        [] OTHER -> IF source.text # <<>> /\ ~follows THEN Unknown
                    ELSE found(GrepAny(query, source.text))
GrepRun(query, input) == GrepText(query, SourceText(query.file, input))

=============================================================================
