---------------------------- MODULE ShellScripts ----------------------------
(***************************************************************************)
(* The one-liners of perl, ruby, python, node and php that print a file,   *)
(* decode one or unpack one.  The matcher knows a list of scripts for each *)
(* language, which Script names by what they do; any other is not          *)
(* followed, but for a loop of perl or ruby that prints its lines.         *)
(***************************************************************************)
EXTENDS ShellArchives

CONSTANT Script   \* value -> [langs, does] of a script, or of the file of
                  \* that name

Perl == "perl"
Ruby == "ruby"
Python == "python"
Node == "node"
Php == "php"
Does_(lang, value) ==
  IF value \in DOMAIN Script
  THEN IF lang \in Script[value].langs THEN Script[value].does ELSE "other"
  ELSE "other"
Inflaters == {"gzip", "zlib", "raw", "any", "gzip_or_zlib", "bzip2",
              "xz_or_lzma", "brotli"}

(* What a query asks for: bytes to inflate, an archive to open, or a text, *)
(* of which it prints a part or what it decodes to.                        *)
OfBytes(file, decoder) ==
  [use |-> "bytes", ok |-> TRUE, file |-> file, kind |-> decoder]
OfArchive(kind, file, member) ==
  [use |-> "archive", ok |-> TRUE, file |-> file, kind |-> kind,
   member |-> member, compress |-> "auto"]
OfText(file, kind) ==
  [use |-> "text", ok |-> TRUE, file |-> file, kind |-> kind]
NotFollowed == [use |-> "text", ok |-> FALSE, file |-> None, kind |-> "read"]

(* A script given once by its flag, no other options but the ones that do  *)
(* not matter, and operands.                                               *)
InlineSpec(bare, flags) ==
  [Takes(bare, flags) EXCEPT !.cluster = FALSE, !.end = FALSE]
Inline(lang, args, query, given, flags) ==
  [ok    |-> /\ query.ok /\ Len(given) = 1
             /\ \A i \in DOMAIN args :
                  ToSet(args[i].names) \cap flags # {} => args[i].value = None,
   does  |-> Does_(lang, LastOf(given, None)),
   files |-> query.files]
InlineGiven(lang, args, query, flags) ==
  Inline(lang, args, query, Given(query, flags), flags)
InlineOf(lang, args, bare, flags) ==
  InlineGiven(lang, args, Parse(InlineSpec(bare, flags), args), flags)

Attached(args, name) ==
  \A i \in DOMAIN args : args[i].names = <<name>> => args[i].value # None

-----------------------------------------------------------------------------
(* perl and ruby.                                                          *)

(* Each of perl's modules goes with one script.                            *)
PerlModule(module) ==
  CASE module = "IO::Uncompress::Gunzip=gunzip"         -> "gzip"
    [] module = "IO::Uncompress::Bunzip2=bunzip2"       -> "bzip2"
    [] module = "IO::Uncompress::RawInflate=rawinflate" -> "raw"
    [] module = "IO::Uncompress::AnyInflate=anyinflate" -> "any"
    [] module = "Archive::Tar" -> "tar"
    [] module = "Archive::Zip" -> "zip"
    [] OTHER                   -> "none"
PerlSpec == [InlineSpec({}, {"e", "M"}) EXCEPT !.apart = {"e"}]
PerlRead(args, query, modules, scripts) ==
  LET kind  == PerlModule(LastOf(modules, None))
      files == query.files
      known == /\ query.ok /\ Attached(args, "M")
               /\ Len(scripts) = 1 /\ Cardinality(ToSet(modules)) = 1
               /\ Does_(Perl, LastOf(scripts, None)) = kind
  IN  CASE known /\ kind \in Inflaters /\ Len(files) = 1 ->
             OfBytes(files[1], kind)
        [] known /\ kind \in {"tar", "zip"} /\ Len(files) = 2 ->
             OfArchive(kind, files[1], files[2])
        [] OTHER -> NotFollowed
PerlGiven(args, query) ==
  PerlRead(args, query, Given(query, {"M"}), Given(query, {"e"}))

RubySpec == [InlineSpec({}, {"e", "r"}) EXCEPT !.apart = {"e"}]
RubyRead(query, libraries, scripts) ==
  LET does == Does_(Ruby, LastOf(scripts, None))
  IN  IF /\ query.ok /\ ToSet(libraries) = {"zlib"}
         /\ Len(scripts) = 1 /\ Len(query.files) = 1
         /\ does \in {"gzip", "zlib"}
      THEN OfBytes(query.files[1], does)
      ELSE NotFollowed
RubyGiven(query) == RubyRead(query, Given(query, {"r"}), Given(query, {"e"}))

(* A loop that prints: -p or -n and a script, perhaps in one cluster that  *)
(* takes the script from the next argument.                                *)
LoopFlags == {"l", "n", "p", "e", "w"}
EndInE(arg) ==
  IF Len(arg.names) > 1 /\ "e" \in ToSet(arg.names) /\ arg.value = None
  THEN [arg EXCEPT !.names = SelectSeq(@, LAMBDA name : name # "e") \o <<"e">>]
  ELSE arg
LoopArgOk(arg) ==
  /\ Len(arg.names) > 1 =>
       "e" \in ToSet(arg.names) /\ ToSet(arg.names) \subseteq LoopFlags
  /\ "e" \in ToSet(arg.names) /\ arg.value # None => arg.names = <<"p", "e">>
LoopSpec == Takes({"p", "n", "l", "w", "W", "X", "0"},
                  {"e", "E", "W", "0", "r", "M"})
LoopPrints(lang, query, does) ==
  \/ Has(query, "p") /\ does # "clear"
  \/ Has(query, "n") /\ does = "print"
  \/ /\ Len(query.files) = 1
     /\ \/ lang = Ruby /\ does \in {"read", "decode64"}
        \/ lang = Perl /\ does \in {"decode64", "diamond"}
FlagScript(args) ==
  LET at == {i \in DOMAIN args : args[i].names \in {<<"e">>, <<"c">>}}
      next == Earliest(at, Len(args)) + 1
  IN  IF next \in DOMAIN args THEN AsWord(args[next]) ELSE None
LoopRead(lang, args, query, scripts) ==
  IF /\ query.ok /\ Len(query.files) <= 1 /\ Len(scripts) = 1
     /\ \A i \in DOMAIN args : LoopArgOk(args[i])
     /\ \A name \in {"E", "r", "M"} : Attached(args, name)
     /\ LoopPrints(lang, query, Does_(lang, LastOf(scripts, None)))
  THEN OfText(File(query),
              IF Does_(lang, FlagScript(args)) = "decode64" THEN "decode64"
              ELSE "read")
  ELSE NotFollowed
LoopGiven(lang, args, query) ==
  LoopRead(lang, args, query, Given(query, {"e"}))
LinePrintQuery(lang, args) ==
  LoopGiven(lang, args, Parse(LoopSpec, [i \in DOMAIN args |-> EndInE(args[i])]))

FirstFollowed(query, otherwise) == IF query.ok THEN query ELSE otherwise
PerlRubyQuery(lang, args) ==
  FirstFollowed(IF lang = Perl THEN PerlGiven(args, Parse(PerlSpec, args))
                ELSE RubyGiven(Parse(RubySpec, args)),
                LinePrintQuery(lang, args))

-----------------------------------------------------------------------------
(* python, node and php.                                                   *)

PyFlags == {"u", "E", "B", "s", "I"}
(* python -m base64 -d, its file the last operand.                         *)
PyModuleRead(query) ==
  LET file == LastOf(query.files, Stdin)
  IN  IF /\ query.ok /\ HasOne(query, {"d", "u"})
         /\ query.files # <<>> => ToSet(Front(query.files)) \subseteq {Stdin}
      THEN OfText(IF file = Stdin THEN None ELSE file, "decode64")
      ELSE NotFollowed
PyModuleB64(args) ==
  LET at == Earliest({i \in DOMAIN args : args[i].names = <<"m">>}, Len(args))
      flags == \A i \in 1..(at - 1) : /\ args[i].dash = 1
                                      /\ ToSet(args[i].names) \subseteq PyFlags
                                      /\ Len(args[i].names) = 1
  IN  IF /\ flags /\ at < Len(args)
         /\ args[at].value = None /\ args[at + 1] = Word("base64")
      THEN PyModuleRead(Parse([InlineSpec({"d", "u"}, {}) EXCEPT !.end = FALSE],
                              From(args, at + 2)))
      ELSE NotFollowed

(* An archive is opened by a script given inline or named first.           *)
PyArchive(does, files) ==
  CASE does = "first of zip" /\ Len(files) = 1 ->
         OfArchive("first of zip", files[1], None)
    [] does \in {"tar", "zip"} /\ Len(files) = 2 ->
         OfArchive(does, files[1], files[2])
    [] does = "tar of a mode" /\ Len(files) = 3 ->
         OfArchive("tar", files[2], files[3])
    [] OTHER -> NotFollowed
PyFile(query) ==
  IF query.ok /\ query.files # <<>> /\ LoadBytes(File(query)).kind = "bytes"
  THEN PyArchive(Does_(Python, File(query)), Tail(query.files))
  ELSE NotFollowed
PyInline(inline) ==
  CASE ~inline.ok -> NotFollowed
    [] inline.ok /\ inline.does \in Inflaters /\ Len(inline.files) = 1 ->
         OfBytes(inline.files[1], inline.does)
    [] inline.ok /\ inline.does \in {"read", "decode64"}
       /\ Len(inline.files) = 1 -> OfText(inline.files[1], inline.does)
    [] OTHER -> PyArchive(inline.does, inline.files)
PythonQuery(args) ==
  FirstFollowed(PyInline(InlineOf(Python, args, PyFlags, {"c"})),
    FirstFollowed(PyModuleB64(args), PyFile(Parse(InlineSpec(PyFlags, {}), args))))

NodeRead(inline) ==
  IF ~inline.ok \/ Len(inline.files) # 1 THEN NotFollowed
  ELSE CASE inline.does \in Inflaters -> OfBytes(inline.files[1], inline.does)
         [] inline.does \in {"read", "decode64"} ->
              OfText(inline.files[1], inline.does)
         [] OTHER -> NotFollowed
(* What --eval gives is not looked at for whether it decodes.              *)
NodeQuery(args) ==
  LET query == NodeRead(InlineOf(Node, args, {}, {"e", "eval"}))
  IN  IF \E i \in DOMAIN args : args[i].names = <<"e">> THEN query
      ELSE IF query.kind = "decode64" THEN [query EXCEPT !.kind = "read"]
      ELSE query

PhpRead(inline) ==
  LET files == inline.files
      does  == inline.does
  IN  CASE ~inline.ok -> NotFollowed
        [] inline.ok /\ Len(files) = 2 /\ does = "zip" ->
             OfArchive("zip", files[1], files[2])
        [] inline.ok /\ Len(files) = 1 ->
             CASE does = "git of zip"  -> OfArchive("zip", files[1], "git.txt")
               [] does \in Inflaters   -> OfBytes(files[1], does)
               [] does \in {"read", "decode64", "first line", "buffer"} ->
                    OfText(files[1], does)
               [] OTHER                -> NotFollowed
        [] OTHER -> NotFollowed
PhpQuery(args) == PhpRead(InlineOf(Php, args, {}, {"r"}))

Interpreters == {"perl", "ruby", "python", "python3", "node", "php"}
ScriptQuery(name, args) ==
  CASE name \in {"perl", "ruby"}      -> PerlRubyQuery(name, args)
    [] name \in {"python", "python3"} -> PythonQuery(args)
    [] name = "node"                  -> NodeQuery(args)
    [] name = "php"                   -> PhpQuery(args)

PhpBuffer == 4096
Prints(kind, source) ==
  CASE kind = "read"       -> source
    [] kind = "decode64"   -> DecodedOf("base64", source)
    [] kind = "first line" -> Shown(source, FirstLines(source.text, 1))
    [] kind = "buffer"     -> Shown(source, FirstBytes(source.text, PhpBuffer))
ScriptRun(query, input) ==
  CASE ~query.ok -> Unknown
    [] query.ok /\ query.use = "bytes"   -> DecodedBytesRun(query, input)
    [] query.ok /\ query.use = "archive" -> ArchiveRun(query)
    [] OTHER -> Prints(query.kind, SourceText(query.file, input))

=============================================================================
