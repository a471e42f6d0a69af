----------------------------- MODULE MCShellFold -----------------------------
(***************************************************************************)
(* Texts of two letters, files of every kind a path can be, and the        *)
(* commands a reader would pipe them through.                              *)
(***************************************************************************)
EXTENDS ShellFold, TLC

MCBlank == " "
MCNewline == "nl"
Ab == <<"a", "nl", "b", "nl">>
Bba == <<"b", "nl", "b", "nl", "a", "nl">>
JustB == <<"b", "nl">>
File_(kind, text) == [kind |-> kind, text |-> text]

MCFiles ==
  [ab |-> File_("text", Ab), bba |-> File_("text", Bba),
   justb |-> File_("text", JustB), none |-> File_("text", <<>>),
   null |-> File_("null", <<>>), gone |-> File_("missing", <<>>),
   dir |-> File_("dir", <<>>), fifo |-> File_("fifo", <<>>),
   big |-> File_("unscanned", <<>>), orphan |-> File_("orphan", <<>>),
   log |-> File_("text", <<>>)]
MCNumber ==
  "1" :> [sign |-> "", n |-> 1] @@ "2" :> [sign |-> "", n |-> 2]
  @@ "3" :> [sign |-> "", n |-> 3] @@ "+2" :> [sign |-> "+", n |-> 2]
  @@ "-1" :> [sign |-> "-", n |-> 1] @@ "80" :> [sign |-> "", n |-> 80]
Piece_(mode, k, n) == [mode |-> mode, k |-> k, n |-> n]
MCChunk == "1/2" :> Piece_("bytes", 1, 2) @@ "l/2/2" :> Piece_("lines", 2, 2)
           @@ "r/1/2" :> Piece_("robin", 1, 2) @@ "2" :> Piece_("files", 1, 2)
MCPattern ==
  "a" :> [kind |-> "literal", text |-> <<"a">>]
  @@ "b" :> [kind |-> "literal", text |-> <<"b">>]
  @@ "." :> [kind |-> "dot", text |-> <<>>]
  @@ ".*" :> [kind |-> "star", text |-> <<>>]
  @@ "b+" :> [kind |-> "plus", text |-> <<"b", "+">>]
MCSeparator == "a" :> [text |-> <<"a">>, regex |-> FALSE]
               @@ "." :> [text |-> <<".">>, regex |-> TRUE]
MCCharset == "utf8" :> "u" @@ "UTF-8" :> "u" @@ "latin1" :> "l"
MCLower == [letter \in {"a", "b", " ", "nl"} |-> letter]
MCWordLetter == {"a", "b"}
MCRank == "nl" :> 1 @@ " " :> 2 @@ "a" :> 3 @@ "b" :> 4
MCSedScript ==
  "p" :> <<PieceP>> @@ "2p" :> <<Address(2, 2)>>
  @@ "$p" :> <<Address(LastPlace, LastPlace)>> @@ "1p" :> <<Address(1, 1)>>
  @@ "1p;3,$p" :> <<Address(1, 1), Address(3, LastPlace)>>
  @@ "/a/p" :> <<Slash(<<"a">>)>>
  @@ "s/a/b/" :> <<Subst(<<"a">>, <<"b">>, FALSE, FALSE)>>
  @@ "s/b/aa/gp" :> <<Subst(<<"b">>, <<"a", "a">>, TRUE, TRUE)>>
Part(letter, quant) == AwkPart(letter, quant)
MCAwkProgram ==
  "1" :> <<AwkAll>> @@ "NR==2" :> <<AwkRange(2, 2)>>
  @@ "/ba*/" :> <<AwkRegex(<<Part("b", "one"), Part("a", "star")>>)>>
  @@ "NR==1;/b+/" :> <<AwkRange(1, 1), AwkRegex(<<Part("b", "plus")>>)>>
  @@ "/a.+/" :> <<AwkRegex(<<Part("a", "one"), Part("any", "plus")>>)>>
  @@ "printf" :> <<AwkConcat>> @@ "END" :> <<AwkLast>>
MCNulNames == <<>> :> <<>>
MCLetters == "a" :> <<"a">> @@ "b" :> <<"b">> @@ "aa" :> <<"a", "a">>
             @@ "aaaa" :> <<"a", "a", "a", "a">>
             @@ "bb" :> <<"b", "b">> @@ "ab" :> <<"a", "b">>
             @@ "bba" :> <<"b", "b", "a">>
MCEscaped == "a\\nb" :> <<"a", "nl", "b">>
MCFormats == "bba" :> Bba @@ "%s" :> <<"%s", "nl", "%s">>

-----------------------------------------------------------------------------
(* Files whose lines are encoded: each stands for the lines a and b, or b. *)
MCCoded ==
  [b64 |-> <<"Y", "Q", "p", "i", "C", "g", "=", "=">>,
   b32 |-> <<"M", "E", "F", "G", "E", "C", "Q", "=">>,
   b32hex |-> <<"C", "4", "5", "6", "4", "2", "G", "=">>,
   hex |-> <<"6", "1", "0", "a", "6", "2", "0", "a">>,
   z85 |-> <<"v", "g", "3", "D", "J">>,
   b58 |-> <<"3", "U", "s", "H", "c", "V">>,
   uu |->
     <<"b", "e", "g", "i", "n", " ", "1", " ", "x", "nl", "$", "8", "0",
     "I", "B", "\"", "@", "nl", "e", "n", "d", "nl">>,
   msb |->
     <<"0", "1", "1", "0", "0", "0", "1", "0", "0", "0", "0", "0", "1",
     "0", "1", "0">>,
   lsb |->
     <<"0", "1", "0", "0", "0", "1", "1", "0", "0", "1", "0", "1", "0",
     "0", "0", "0">>,
   odd |-> <<"Y", "Q", "p">>]
MCCode ==
  "nl" :> 10 @@ " " :> 32 @@ "\"" :> 34 @@ "$" :> 36 @@ "0" :> 48
  @@ "1" :> 49 @@ "2" :> 50 @@ "3" :> 51 @@ "4" :> 52 @@ "5" :> 53
  @@ "6" :> 54 @@ "8" :> 56 @@ "=" :> 61 @@ "@" :> 64 @@ "B" :> 66
  @@ "C" :> 67 @@ "D" :> 68 @@ "E" :> 69 @@ "F" :> 70 @@ "G" :> 71
  @@ "H" :> 72 @@ "I" :> 73 @@ "J" :> 74 @@ "M" :> 77 @@ "Q" :> 81
  @@ "U" :> 85 @@ "V" :> 86 @@ "Y" :> 89 @@ "a" :> 97 @@ "b" :> 98
  @@ "c" :> 99 @@ "d" :> 100 @@ "e" :> 101 @@ "g" :> 103 @@ "i" :> 105
  @@ "n" :> 110 @@ "p" :> 112 @@ "s" :> 115 @@ "v" :> 118 @@ "x" :> 120
  @@ "tab" :> 9

Gz(inner) == Pack("gzip", inner)
Ab_ == Plainly(Ab)
Tree == Archive("tar",
  <<Entry("file", "d/._x", "._x", <<"b">>), Entry("dir", "d", "d", <<>>),
    Entry("file", "d/x", "x", Ab), Entry("file", "y", "y", JustB)>>)
HiddenTree == [Tree EXCEPT !.entries[1].hidden = TRUE]
CutTree == [Tree EXCEPT !.entries[1].hidden = TRUE, !.entries[4].kind = "broken"]
Zipped == [HiddenTree EXCEPT !.form = "zip", !.entries[1].kind = "dir"]
MCPacked ==
  [gz |-> Gz(Ab_), bz |-> Pack("bzip2", Ab_), xz |-> Pack("xz", Ab_),
   lzma |-> Pack("lzma", Ab_), br |-> Pack("brotli", Ab_),
   zst |-> [Pack("zstd", Ab_) EXCEPT !.skips = <<3>>],
   lz4 |-> Pack("lz4", Ab_), zz |-> Pack("zlib", Ab_),
   raw |-> Pack("raw", Ab_),
   Z |-> [form |-> "compress", inner |-> Tree,
          bytes |-> <<31, 157, 144, 98, 2, 42, 0>>],
   tar |-> HiddenTree, tgz |-> Gz(CutTree),
   tzst |-> [Pack("zstd", HiddenTree) EXCEPT !.skips = <<3>>],
   tlzma |-> Pack("lzma", HiddenTree),
   tiny |-> [Pack("lzma", HiddenTree) EXCEPT !.dict = 1],
   tlz4 |-> Pack("lz4", HiddenTree), tZ |-> [form |-> "compress",
     inner |-> HiddenTree, bytes |-> <<31, 157, 144, 98, 2, 42, 0>>],
   zip |-> Zipped, sevenz |-> [Zipped EXCEPT !.form = "7z"]]

(* What is read as text of a packed file is of no use.                     *)
Garbage == File_("text", <<"a">>)
MCContents ==
  MCFiles @@ [name \in DOMAIN MCCoded |-> File_("text", MCCoded[name])]
  @@ [name \in DOMAIN MCPacked |-> Garbage]

Text_(langs, does) == [langs |-> langs, does |-> does]
MCScript ==
  [inflate |-> Text_({Perl, Ruby, Node, Php, Python}, "gzip"),
   inflateRaw |-> Text_({Perl, Node, Php}, "raw"),
   untar |-> Text_({Perl, Python}, "tar"),
   unzip |-> Text_({Perl, Php}, "zip"),
   unzipFirst |-> Text_({Python}, "first of zip"),
   gitOfZip |-> Text_({Php}, "git of zip"),
   reader |-> Text_({Ruby, Python, Node, Php}, "read"),
   decoder |-> Text_({Perl, Ruby, Python, Node, Php}, "decode64"),
   clearer |-> Text_({Perl, Ruby}, "clear"),
   printer |-> Text_({Perl, Ruby}, "print"),
   diamond |-> Text_({Perl}, "diamond"),
   gets |-> Text_({Php}, "first line"), fread |-> Text_({Php}, "buffer"),
   justb |-> Text_({Python}, "tar of a mode")]

-----------------------------------------------------------------------------
Reading(does, files) ==
  [does |-> does, files |-> files, strict |-> FALSE, status |-> ""]
Of(does) == Reading(does, <<>>)
Says(text) == Of("says") @@ [text |-> text]
Found(meaning) == [meaning EXCEPT !.status = "found"]
Span(does, first, last) == Of(does) @@ [first |-> first, last |-> last]
Matching(parts) == Of("match") @@ [parts |-> parts]
Cut(does, k, n, path) == Reading(does, <<path>>) @@ [k |-> k, n |-> n]
Common(path, with, shared) ==
  Reading("common", <<path>>) @@ [with |-> with, shared |-> shared]
Change(from, to, all, every) ==
  Of("replace") @@ [from |-> from, to |-> to, all |-> all, every |-> every]
RunsOf(keep) == Of("runs") @@ [keep |-> keep]

Exactly(name, args, meaning) ==
  [name |-> name, args |-> args, redirects |-> <<>>, meaning |-> meaning,
   exact |-> TRUE]
Roughly(name, args, meaning) ==
  [Exactly(name, args, meaning) EXCEPT !.exact = FALSE]
With(redirects, command) == [command EXCEPT !.redirects = redirects]
W(value) == Word(value)
S(name, value) == Short(<<name>>, value)
One(letter) == Part(letter, "one")
CatAb == Exactly("cat", <<W("ab")>>, Reading("copy", <<"ab">>))
CatIt == Exactly("cat", <<>>, Of("copy"))

Sources ==
  {Exactly("echo", <<W("a")>>, Says(<<"a", "nl">>)),
   Exactly("echo", <<S("n", None), W("b")>>, Says(<<"b">>)),
   Exactly("echo", <<S("e", None), W("a\\nb")>>, Says(Ab)),
   Exactly("printf", <<W("bba")>>, Says(Bba)),
   Exactly("printf", <<W("%s"), W("a")>>, Says(<<"a", "nl">>)),
   Exactly("true", <<>>, Says(<<>>)),
   Exactly("false", <<>>, [Says(<<>>) EXCEPT !.status = "fails"]),
   Roughly("mystery", <<>>, Says(<<>>)),
   CatAb,
   Exactly("cat", <<W("gone"), W("bba")>>, Reading("copy", <<"gone", "bba">>)),
   Exactly("cat", <<W("big")>>, Reading("copy", <<"big">>)),
   Exactly("head", <<W("dir")>>, Reading("copy", <<"dir">>))}
Redirected ==
  {With(<<Redirect("<", 0, path)>>, CatIt) :
     path \in {"bba", "gone", "dir", "fifo", "null"}}
  \cup
  {With(redirects, CatAb) : redirects \in
     {<<Redirect(">", 1, "log")>>, <<Redirect(">&", 1, 2)>>,
      <<Redirect(">", 2, "log")>>, <<Redirect(">&", 2, 1)>>,
      <<Redirect(">", 2, "orphan")>>, <<Redirect("&>", 1, "log")>>,
      <<Redirect("<", 3, "gone")>>, <<Redirect("<", 3, "ab")>>,
      <<Redirect("<", 0, "ab"), Redirect("<", 0, "bba")>>,
      <<Redirect(">", 1, "fifo")>>}}
Filters ==
  {CatIt,
   Exactly("head", <<S("n", "1")>>, Span("lines", 1, 1)),
   Exactly("head", <<S("#", "2")>>, Span("lines", 1, 2)),
   Exactly("head", <<S("c", "3")>>, Span("letters", 1, 3)),
   Exactly("tail", <<S("n", "1")>>, Span("lines", -1, -1)),
   Exactly("tail", <<S("n", "+2")>>, Span("lines", 2, -1)),
   Exactly("tail", <<S("c", "2")>>, Span("letters", -2, -1)),
   Exactly("sed", <<S("n", None), W("2p")>>, Span("lines", 2, 2)),
   Exactly("sed", <<S("n", None), S("e", "$p")>>, Span("lines", -1, -1)),
   Exactly("sed", <<S("n", None), W("1p;3,$p")>>,
           Of("without") @@ [line |-> 2]),
   Exactly("sed", <<W("p")>>, Of("double")),
   Roughly("sed", <<W("2p")>>, Of("copy")),
   Exactly("sed", <<S("n", None), W("/a/p")>>, Matching(<<One("a")>>)),
   Exactly("sed", <<W("s/a/b/")>>, Change("a", <<"b">>, FALSE, TRUE)),
   Exactly("sed", <<S("n", None), W("s/b/aa/gp")>>,
           Change("b", <<"a", "a">>, TRUE, FALSE))}
MoreFilters ==
  {Exactly("awk", <<W("NR==2")>>, Span("lines", 2, 2)),
   Exactly("awk", <<W("/ba*/")>>, Matching(<<One("b"), Part("a", "star")>>)),
   Exactly("awk", <<W("/a.+/")>>, Matching(<<One("a"), Part("any", "plus")>>)),
   Exactly("awk", <<W("NR==1;/b+/")>>,
           Of("either") @@ [parts |-> <<Part("b", "plus")>>, line |-> 1]),
   Exactly("awk", <<W("printf")>>, Of("joined")),
   Exactly("awk", <<W("END")>>, Span("lines", -1, -1)),
   Exactly("grep", <<W("a")>>, Found(Matching(<<One("a")>>))),
   Exactly("grep", <<S("o", None), W("b")>>,
           Found(Of("only") @@ [letter |-> "b"])),
   Exactly("egrep", <<W("b+")>>, Found(Matching(<<Part("b", "plus")>>))),
   Exactly("grep", <<W(".")>>, Found(Matching(<<One("any")>>))),
   Roughly("grep", <<S("v", None), W("a")>>, Of("copy")),
   Exactly("uniq", <<>>, RunsOf("each")),
   Exactly("uniq", <<S("u", None)>>, RunsOf("once")),
   Exactly("uniq", <<S("d", None)>>, RunsOf("dups")),
   Exactly("uniq", <<S("D", None)>>, RunsOf("everydup")),
   Exactly("tac", <<>>, Of("reverse") @@ [end |-> "nl"]),
   Roughly("sort", <<>>, Of("sorted")),
   Exactly("xargs", <<>>, Of("words")) @@
     [runs |-> [name |-> "echo", args |-> <<>>]],
   Exactly("nice", <<>>, Of("copy")) @@
     [inner |-> [name |-> "tee", args |-> <<W("log")>>]],
   Exactly("cut", <<S("f", "1-")>>, Of("copy"))}
OnFiles ==
  {Exactly("split", <<S("n", "1/2"), W("bba")>>, Cut("bytes", 1, 2, "bba")),
   Exactly("split", <<S("n", "l/2/2"), W("bba")>>, Cut("part", 2, 2, "bba")),
   Exactly("split", <<S("n", "r/1/2"), W("bba")>>, Cut("robin", 1, 2, "bba")),
   Exactly("comm", <<Short(<<"1", "2">>, None), W("ab"), W("justb")>>,
           Common("ab", JustB, TRUE)),
   Exactly("comm", <<Short(<<"2", "3">>, None), W("ab"), W("justb")>>,
           Common("ab", JustB, FALSE)),
   Roughly("sort", <<W("ab"), W("gone")>>,
           [Reading("sorted", <<"ab", "gone">>) EXCEPT !.strict = TRUE]),
   Exactly("tac", <<W("gone"), W("ab")>>,
           Reading("reverse", <<"gone", "ab">>) @@ [end |-> "nl"]),
   Exactly("dd", <<Long("if", "bba")>>, Reading("copy", <<"bba">>))}

(* Decoders: each prints the lines of a and b, or b, that its file holds.  *)
Un(name, args, text) == Exactly(name, args, Says(text))
Fails(name, args) == Exactly(name, args, [Says(<<>>) EXCEPT !.status = "fails"])
Lost(name, args) == Roughly(name, args, Says(<<>>))
B(names) == Short(names, None)
L(name) == Long(name, None)
Of_(kind, file) == <<L(kind), S("d", None), W(file)>>
Decoding ==
  {Un("base64", <<S("d", None), W("b64")>>, Ab),
   Un("base64", <<Short(<<"D", "i", "w">>, "80"), EndOfOptions, W("b64")>>, Ab),
   Lost("base64", <<S("d", None), W("odd")>>),
   Lost("base64", <<W("b64")>>),
   Fails("base64", <<S("d", None), W("gone")>>),
   Un("base32", <<Short(<<"d", "w">>, None), W("80"), W("b32")>>, Ab),
   Un("basenc", Of_("base64url", "b64"), Ab),
   Un("basenc", Of_("base32hex", "b32hex"), Ab),
   Un("basenc", Of_("base2msbf", "msb"), JustB),
   Un("basenc", Of_("base2lsbf", "lsb"), JustB),
   Un("basenc", Of_("z85", "z85"), Ab), Un("basenc", Of_("base58", "b58"), Ab),
   Lost("basenc", <<L("z85")>> \o Of_("base16", "hex")),
   Un("uudecode", <<S("p", None), W("uu")>>, Ab),
   Un("xxd", <<S("r", None), S("ps", None), W("hex")>>, Ab),
   Un("openssl", <<W("enc"), S("a", None), S("d", None), S("in", None),
                   W("b64")>>, Ab),
   Lost("openssl", <<W("enc"), S("d", None), S("in", None), W("b64")>>)}
Fed == {With(<<Redirect("<", 0, "b64")>>, Un("base64", <<S("d", None)>>, Ab)),
        With(<<Redirect("<", 0, "hex")>>,
             Un("xxd", <<S("r", None), S("p", None)>>, Ab)),
        With(<<Redirect("<", 0, "b64")>>,
             Un("python3", <<S("m", None), W("base64"), S("d", None)>>, Ab))}
Unpacking ==
  {Un("zcat", <<W("gz")>>, Ab), Un("gzip", <<B(<<"d", "c">>), W("gz")>>, Ab),
   Lost("gunzip", <<W("gz")>>), Lost("zcat", <<W("gone")>>),
   Un("uncompress", <<S("c", None), W("Z")>>, <<"b", "b", "b", "nl">>),
   Un("bzcat", <<W("bz")>>, Ab), Un("xzcat", <<W("xz")>>, Ab),
   Un("xz", <<B(<<"d", "c">>), Short(<<"F">>, "lzma"), W("lzma")>>, Ab),
   Un("lzcat", <<W("lzma")>>, Ab), Lost("xzcat", <<W("lzma")>>),
   Un("zstdcat", <<W("zst")>>, Ab), Un("lz4", <<S("c", None), W("lz4")>>, Ab),
   Un("brotli", <<B(<<"d", "c">>), W("br")>>, Ab),
   Lost("zcat", <<W("big")>>)}
Untar(args) == <<B(<<"x", "O", "f">>)>> \o args
Opening ==
  {Un("tar", Untar(<<W("tar")>>), Ab \o JustB),
   Un("tar", Untar(<<W("tgz"), W("x")>>), Ab), Lost("tar", <<W("tar")>>),
   Lost("tar", Untar(<<W("tgz"), W("y")>>)),
   Un("tar", Untar(<<W("tlzma"), W("y")>>), JustB),
   Lost("tar", Untar(<<W("tzst")>>)), Lost("tar", Untar(<<W("tiny")>>)),
   Un("tar", <<S("I", None), W("lz4")>> \o Untar(<<W("tlz4"), W("d/x")>>), Ab),
   Lost("tar", <<S("I", None), W("lz4"), S("I", None), W("brotli")>>
               \o Untar(<<W("tlz4")>>)),
   Un("tar", Untar(<<W("tZ"), W("x")>>), Ab),
   Un("unzip", <<S("p", None), W("zip"), W("d/x")>>, Ab),
   Lost("unzip", <<S("p", None), W("zip"), W("x")>>),
   Un("unzip", <<B(<<"q", "p">>), W("zip")>>, Ab \o JustB),
   Un("7z", <<W("x"), S("so", None), W("sevenz"), W("x")>>, Ab)}
Inlined(flag, script, files) == <<S(flag, None), W(script)>> \o files
Scripted ==
  {Un("perl", <<Short(<<"M">>, "IO::Uncompress::Gunzip=gunzip")>>
              \o Inlined("e", "inflate", <<W("gz")>>), Ab),
   Un("perl", <<Short(<<"M">>, "Archive::Tar")>>
              \o Inlined("e", "untar", <<W("tar"), W("x")>>), Ab),
   Un("perl", <<B(<<"n", "e">>), W("printer"), W("ab")>>, Ab),
   Roughly("perl", <<B(<<"e", "p">>), W("printer"), W("ab")>>,
           Reading("double", <<"ab">>)),
   Lost("perl", <<B(<<"p", "e">>), W("clearer"), W("ab")>>),
   Un("perl", Inlined("e", "decoder", <<W("b64")>>), Ab),
   Un("perl", Inlined("e", "diamond", <<W("ab")>>), Ab),
   Un("ruby", <<Short(<<"r">>, "zlib")>>
              \o Inlined("e", "inflate", <<W("gz")>>), Ab),
   Un("ruby", Inlined("e", "reader", <<W("ab")>>), Ab),
   Un("python3", Inlined("c", "inflate", <<W("gz")>>), Ab),
   Un("python3", Inlined("c", "unzipFirst", <<W("zip")>>), Ab),
   Un("python3", Inlined("c", "untar", <<W("tar"), W("y")>>), JustB),
   Un("python3", <<W("justb"), W("r"), W("tar"), W("y")>>, JustB),
   Un("python3", Inlined("c", "decoder", <<W("b64")>>), Ab),
   Un("node", <<L("eval"), W("inflateRaw"), W("raw")>>, Ab),
   Un("node", Inlined("e", "reader", <<W("ab")>>), Ab),
   Un("php", Inlined("r", "unzip", <<W("zip"), W("d/x")>>), Ab),
   Lost("php", Inlined("r", "gitOfZip", <<W("zip")>>)),
   Un("php", Inlined("r", "inflate", <<W("gz")>>), Ab),
   Un("php", Inlined("r", "gets", <<W("bba")>>), JustB),
   Un("php", Inlined("r", "fread", <<W("ab")>>), Ab),
   Un("php", Inlined("r", "decoder", <<W("b64")>>), Ab)}
Decoders == Decoding \cup Fed \cup Unpacking \cup Opening \cup Scripted
(* read x < FILE echo "$x", all of it words of the read.                   *)
Loading ==
  {With(<<Redirect("<", 0, path)>>, Lost("read", <<W("x"), W("echo"), W("x")>>))
     @@ [loads |-> [path |-> path, first |-> TRUE]] :
     path \in {"bba", "gone", "dir"}}
MCCommands == Loading \cup Sources \cup Redirected \cup Filters \cup MoreFilters \cup OnFiles
              \cup Decoders

MCReadBacks ==
  {[path |-> path, first |-> FALSE, meaning |-> Of("copy")] :
     path \in {"ab", "big", "gone"}}
  \cup {[path |-> "bba", first |-> TRUE, meaning |-> Span("lines", 1, 1)]}

(* A script that used a form is followed while it is short.                *)
Followed == strays = {} \/ pieces < 2
=============================================================================
