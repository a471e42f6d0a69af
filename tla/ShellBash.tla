------------------------------ MODULE ShellBash ------------------------------
(***************************************************************************)
(* What the shell and the text tools do when they run, for the commands    *)
(* the matcher claims to follow: not code of this repository, but what its *)
(* fold is held against.  A command says what it does in a record of its   *)
(* own, so that how its arguments are read is held against that too.       *)
(***************************************************************************)
EXTENDS ShellText, FiniteSets, Integers

CONSTANTS
  Paths,      \* path -> [kind, text], the files of the machine
  Wild,       \* the letter of a pattern that any letter matches
  Rank        \* letter -> its place in the order of sort

-----------------------------------------------------------------------------
(* Places are counted from the start, or from the end when negative.       *)
PlaceIn(n, count) == IF n < 0 THEN count + 1 + n ELSE n
Within(i, meaning, count) ==
  PlaceIn(meaning.first, count) <= i /\ i <= PlaceIn(meaning.last, count)

KeepWhere(records, places) ==
  FlattenSeq([i \in DOMAIN records |->
                IF i \in places THEN records[i] ELSE <<>>])

(* Where a pattern that starts at one of the places can end.               *)
PatternEnds(line, parts, starts) ==
  LET fits(part, i) == i \in DOMAIN line /\ part.letter \in {Wild, line[i]}
      after(part, i) == IF fits(part, i) THEN {i + 1} ELSE {}
      reach(part, i) ==
        {j \in i..(Len(line) + 1) : \A k \in i..(j - 1) : fits(part, k)}
      step(ends, part) ==
        UNION {CASE part.quant = "one"  -> after(part, i)
                 [] part.quant = "star" -> reach(part, i)
                 [] part.quant = "plus" -> reach(part, i) \ {i} : i \in ends}
  IN  FoldLeft(step, starts, parts)
Matches(line, parts) ==
  PatternEnds(line, parts, 1..(Len(line) + 1)) # {}

Replaced(line, meaning) ==
  LET here(i) == /\ line[i] = meaning.from
                 /\ meaning.all \/ \A j \in 1..(i - 1) : line[j] # meaning.from
  IN  FlattenSeq([i \in DOMAIN line |->
                    IF here(i) THEN meaning.to ELSE <<line[i]>>])

(* uniq: whether a line differs from the one before, or from the next.     *)
RunPlaces(lines, keep) ==
  LET same(i, j) == {i, j} \subseteq DOMAIN lines /\ lines[i] = lines[j]
      opens(i)   == ~same(i - 1, i)
      goesOn(i)  == same(i, i + 1)
  IN  {i \in DOMAIN lines :
         CASE keep = "each"     -> opens(i)
           [] keep = "once"     -> opens(i) /\ ~goesOn(i)
           [] keep = "dups"     -> opens(i) /\ goesOn(i)
           [] keep = "everydup" -> ~opens(i) \/ goesOn(i)}

(* split -n k/n: the longer chunks come first; a line is in the chunk its  *)
(* first letter is in.                                                     *)
ChunkStart(count, k, n) ==
  (k - 1) * (count \div n)
  + (IF k - 1 <= count % n THEN k - 1 ELSE count % n)
InChunk(i, meaning, count) ==
  /\ ChunkStart(count, meaning.k, meaning.n) < i
  /\ i <= ChunkStart(count, meaning.k + 1, meaning.n)

(* sort: by the letters, a shorter line first.                             *)
SortKey(line) ==
  LET ranks == [i \in 1..4 |-> IF i \in DOMAIN line THEN Rank[line[i]] ELSE 0]
  IN  FoldLeft(LAMBDA key, rank : 8 * key + rank, 0, ranks)
Sorted(lines) ==
  LET earlier(i, j) == \/ SortKey(lines[i]) < SortKey(lines[j])
                       \/ SortKey(lines[i]) = SortKey(lines[j]) /\ i < j
      place(i) == Cardinality({j \in DOMAIN lines : earlier(j, i)}) + 1
  IN  [k \in DOMAIN lines |->
         lines[CHOOSE i \in DOMAIN lines : place(i) = k]]

Letter(text) == [i \in DOMAIN text |-> <<text[i]>>]

(* What a tool prints of its text.                                         *)
Does(meaning, text) ==
  LET lines == Lines(text)
      at(i)  == Len(FlattenSeq(SubSeq(lines, 1, i - 1))) + 1
      hits(i) == Matches(Body(lines[i]), meaning.parts)
  IN  CASE meaning.does = "copy"    -> text
        [] meaning.does = "lines"   ->
             KeepWhere(lines, {i \in DOMAIN lines :
                                 Within(i, meaning, Len(lines))})
        [] meaning.does = "letters" ->
             KeepWhere(Letter(text), {i \in DOMAIN text :
                                        Within(i, meaning, Len(text))})
        [] meaning.does = "double"  ->
             FlattenSeq([i \in DOMAIN lines |-> lines[i] \o lines[i]])
        [] meaning.does = "match"   ->
             KeepWhere(lines, {i \in DOMAIN lines : hits(i)})
        [] meaning.does = "either"  ->
             KeepWhere(lines, {i \in DOMAIN lines :
                                 hits(i) \/ i = meaning.line})
        [] meaning.does = "without" ->
             KeepWhere(lines, DOMAIN lines \ {meaning.line})
        [] meaning.does = "replace" ->
             FlattenSeq([i \in DOMAIN lines |->
               IF meaning.every \/ Replaced(lines[i], meaning) # lines[i]
               THEN Replaced(lines[i], meaning) ELSE <<>>])
        [] meaning.does = "only"    ->
             FlattenSeq([i \in DOMAIN lines |->
               FlattenSeq([j \in DOMAIN lines[i] |->
                 IF lines[i][j] = meaning.letter
                 THEN <<meaning.letter, Newline>> ELSE <<>>])])
        [] meaning.does = "runs"    ->
             KeepWhere(lines, RunPlaces(lines, meaning.keep))
        [] meaning.does = "reverse" ->
             FlattenSeq(Reverse(Records(text, meaning.end)))
        [] meaning.does = "joined"  -> FlattenSeq(Bodies(text))
        [] meaning.does = "sorted"  ->
             FlattenSeq(Sorted(lines))
        [] meaning.does = "bytes"   ->
             KeepWhere(Letter(text), {i \in DOMAIN text :
                                        InChunk(i, meaning, Len(text))})
        [] meaning.does = "part"    ->
             KeepWhere(lines, {i \in DOMAIN lines :
                                 InChunk(at(i), meaning, Len(text))})
        [] meaning.does = "robin"   ->
             KeepWhere(lines, {i \in DOMAIN lines :
                                 (i - meaning.k) % meaning.n = 0})
        [] meaning.does = "common"  ->
             KeepWhere(lines, {i \in DOMAIN lines :
                                 (lines[i] \in ToSet(Lines(meaning.with)))
                                 = meaning.shared})
        [] meaning.does = "words"   ->
             JoinWith(<<Blank>>, SplitIfs(text)) \o <<Newline>>
        [] meaning.does = "says"    -> meaning.text

-----------------------------------------------------------------------------
(* The descriptors of a command, redirected left to right.                 *)

Descriptors == [fd \in 0..3 |-> CASE fd = 0 -> "pipe" [] fd = 1 -> "out"
                                  [] fd = 2 -> "err"  [] OTHER -> "closed"]
CannotOpen(redirect) ==
  LET kind == Paths[redirect.target].kind
  IN  CASE redirect.op = "<" -> kind \in {"missing", "orphan"}
        [] redirect.op = ">&" -> FALSE
        [] OTHER -> kind \in {"dir", "orphan"}
Opened(fds, redirect) ==
  CASE redirect.op = ">&" -> [fds EXCEPT ![redirect.fd] = fds[redirect.target]]
    [] redirect.op = "&>" -> [fds EXCEPT ![1] = redirect.target,
                                         ![2] = redirect.target]
    [] OTHER -> [fds EXCEPT ![redirect.fd] = redirect.target]

(* A tool reads its operands, or its input without any; one that prints    *)
(* nothing when an operand is missing says so.                             *)
Readable(path) == Paths[path].kind \in {"text", "null"}
Reads(meaning, input) ==
  LET files == meaning.files
      all   == \A i \in DOMAIN files : Readable(files[i])
      read  == FlattenSeq([i \in DOMAIN files |->
                 IF Readable(files[i]) THEN Paths[files[i]].text ELSE <<>>])
  IN  IF files = <<>> THEN [text |-> input, ok |-> TRUE]
      ELSE [text |-> IF all \/ ~meaning.strict THEN read ELSE <<>>,
            ok |-> all]

(* One command of a pipeline: what it prints and whether it succeeds.      *)
ShellStage(command, pipe) ==
  LET fds    == FoldLeft(Opened, Descriptors, command.redirects)
      fails  == \E i \in DOMAIN command.redirects :
                  CannotOpen(command.redirects[i])
      deaf   == /\ fds[0] # "pipe" /\ ~Readable(fds[0])
                /\ command.meaning.files = <<>>
                /\ command.meaning.does # "says"
      input  == IF fds[0] = "pipe" THEN pipe ELSE Paths[fds[0]].text
      ran(prints, read) ==
        [text |-> IF fds[1] = "out" THEN prints ELSE <<>>,
         ok   |-> /\ read
                  /\ command.meaning.status = "found" => prints # <<>>
                  /\ command.meaning.status # "fails"]
      printing(source) == ran(Does(command.meaning, source.text), source.ok)
  IN  IF fails \/ deaf THEN [text |-> <<>>, ok |-> FALSE]
      ELSE printing(Reads(command.meaning, input))

(* The lines of a text, as words see them: without their ends.             *)
LineSet(text) == ToSet(Bodies(text)) \ {<<>>}

=============================================================================
