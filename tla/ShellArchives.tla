---------------------------- MODULE ShellArchives ----------------------------
(***************************************************************************)
(* Files of bytes: the decompressors and archivers whose output the        *)
(* matcher follows.  What a compressed file holds is a tree of forms; only *)
(* the codes of compress are bytes, since the matcher decodes them itself. *)
(***************************************************************************)
EXTENDS ShellCodecs

CONSTANTS
  Packed,     \* value -> the form of the file of that name, when not text
  Lz4Named    \* the values that end in .lz4

-----------------------------------------------------------------------------
(* A form is plain, packed by a method around another form, an archive, or *)
(* the bytes of compress.  A zstd form may be preceded by frames to skip;  *)
(* an lzma form says how large its dictionary is.  No format but its own   *)
(* reads a form.                                                           *)

Plainly(text) == [form |-> "plain", text |-> text]
Pack(form, inner) ==
  [form |-> form, inner |-> inner, skips |-> <<>>, dict |-> 65536]
Archive(form, entries) == [form |-> form, entries |-> entries]
Entry(kind, path, base, text) ==
  [kind |-> kind, path |-> path, base |-> base, text |-> text,
   hidden |-> FALSE]

(* load_script_bytes: a regular file within the cap, or nothing.           *)
LoadBytes(file) ==
  CASE file \in DOMAIN Packed -> [kind |-> "bytes", tree |-> Packed[file]]
    [] file \notin DOMAIN Packed
       /\ LoadTextOperand(file).kind \in {"text", "unscanned"} ->
         [kind |-> IF LoadTextOperand(file).kind = "text" THEN "bytes"
                   ELSE "unscanned",
          tree |-> Plainly(LoadTextOperand(file).text)]
    [] OTHER -> [kind |-> "none", tree |-> Plainly(<<>>)]

PlainText(tree) ==
  IF tree.form = "plain" THEN [ok |-> TRUE, text |-> tree.text] ELSE Rejected
Uncompressed(bytes) ==
  IF UnixCompressDecode(bytes).ok THEN AsText(UnixCompressDecode(bytes).bytes)
  ELSE Rejected

(* Which methods a decoder tries; gzip's own also reads compress.          *)
Methods(decoder) ==
  CASE decoder \in {"gzip", "gunzip"} -> {"gzip"}
    [] decoder = "gzip_or_zlib" -> {"gzip", "zlib"}
    [] decoder = "any"          -> {"gzip", "zlib", "raw"}
    [] decoder = "xz_or_lzma"   -> {"xz", "lzma"}
    [] OTHER                    -> {decoder}
Inflate(decoder, tree) ==
  CASE decoder = "gunzip" /\ tree.form = "compress" -> Uncompressed(tree.bytes)
    [] tree.form \in Methods(decoder) -> PlainText(tree.inner)
    [] OTHER -> Rejected

(* decoded_bytes_run.                                                      *)
BytesRun(loaded, decoder) ==
  CASE loaded.kind = "unscanned" -> Unscanned
    [] loaded.kind = "none"      -> Unknown
    [] OTHER -> DecodedRun(Nothing(TRUE), Inflate(decoder, loaded.tree))
DecodedBytesRun(query, input) ==
  CASE ~query.ok -> Unknown
    [] query.ok /\ query.file # None ->
         BytesRun(LoadBytes(query.file), query.kind)
    [] OTHER -> IF input = None THEN Unknown
                ELSE DecodedRun(Nothing(TRUE),
                                Inflate(query.kind, Plainly(input)))

-----------------------------------------------------------------------------
(* gzip and its kin: a query is taken that decodes to standard output.     *)

DecodeFlags == {"d", "decompress", "uncompress"}
StdoutFlags == {"c", "stdout", "to-stdout"}
DecompressSpec ==
  [Takes(DecodeFlags \cup StdoutFlags
         \cup {"f", "force", "k", "keep", "q", "quiet", "n", "no-name", "N",
               "name"}, {}) EXCEPT !.stdin = FALSE]
DecompressRead(query, decode, stdout, kind) ==
  Coded(query, kind,
        /\ Len(query.files) <= 1
        /\ decode \/ HasOne(query, DecodeFlags)
        /\ stdout \/ HasOne(query, StdoutFlags),
        File(query))
DecompressQuery(args, decode, stdout, kind) ==
  DecompressRead(Parse(DecompressSpec, args), decode, stdout, kind)

(* xz names a format, alone or attached; it does not end a cluster.        *)
XzFormats(args) == {i \in DOMAIN args : args[i].names \in {<<"F">>, <<"format">>}}
XzSpec == [DecompressSpec EXCEPT !.valued = {"F", "format"}]
XzRead(name, args, query, formats) ==
  [DecompressRead(query, name \in {"unxz", "xzcat", "unlzma", "lzcat"},
                  name \in {"xzcat", "lzcat"},
                  IF LastOf(formats, name)
                       \in {"lzma", "alone", "unlzma", "lzcat"}
                  THEN "lzma" ELSE "xz")
     EXCEPT !.ok = /\ @
                   /\ ToSet(formats) \subseteq {"lzma", "alone", "xz", "auto"}
                   /\ \A i \in XzFormats(args) :
                        args[i].value \in {None, "lzma", "xz"}
                   /\ Len(formats) = Cardinality(XzFormats(args))]
XzGiven(name, args, query) ==
  XzRead(name, args, query, Given(query, {"F", "format"}))
XzQuery(name, args) == XzGiven(name, args, Parse(XzSpec, args))

(* lz4 decodes a file that is named so without being told to.              *)
Lz4Read(name, query) ==
  LET told == DecompressRead(query, name \in {"unlz4", "lz4cat"},
                             name = "lz4cat", "lz4")
      named == DecompressRead(query, TRUE, FALSE, "lz4")
  IN  IF told.ok \/ name # "lz4" THEN told
      ELSE [named EXCEPT !.ok = @ /\ named.file \in Lz4Named]
Lz4Query(name, args) == Lz4Read(name, Parse(DecompressSpec, args))

Gzips == {"gzip", "gunzip", "gzcat", "zcat"}
Bzips == {"bzip2", "bunzip2", "bzcat"}
Xzs == {"xz", "unxz", "xzcat", "lzma", "unlzma", "lzcat"}
Zstds == {"zstd", "unzstd", "zstdcat", "pzstd"}
Lz4s == {"lz4", "unlz4", "lz4cat"}
Decompressors == Gzips \cup Bzips \cup Xzs \cup Zstds \cup Lz4s
                 \cup {"brotli", "uncompress"}
DecompressorQuery(name, args) ==
  CASE name \in Gzips ->
         DecompressQuery(args, name # "gzip", name \in {"gzcat", "zcat"},
                         "gunzip")
    [] name \in Bzips ->
         DecompressQuery(args, name # "bzip2", name = "bzcat", "bzip2")
    [] name \in Xzs -> XzQuery(name, args)
    [] name \in Zstds ->
         DecompressQuery(args, name \in {"unzstd", "zstdcat"},
                         name = "zstdcat", "zstd")
    [] name \in Lz4s        -> Lz4Query(name, args)
    [] name = "brotli"      -> DecompressQuery(args, FALSE, FALSE, "brotli")
    [] name = "uncompress"  -> DecompressQuery(args, TRUE, FALSE, "gunzip")

-----------------------------------------------------------------------------
(* Archives.                                                               *)

(* tar_magic: what a tar file is packed with is told by its first bytes;   *)
(* lzma has none and is taken when a tar comes out of it.                  *)
TarMagic(tree) ==
  CASE tree.form = "compress" ->
         IF UnixCompressDecode(tree.bytes).ok THEN tree.inner
         ELSE Plainly(<<>>)
    [] tree.form \in {"gzip", "bzip2", "xz"} -> tree.inner
    [] tree.form = "zstd" ->
         IF tree.skips = <<>> \/ tree.skips[1] = 0 THEN tree.inner ELSE tree
    [] tree.form = "lzma" ->
         IF tree.dict \in 4096..2^27 /\ tree.inner.form = "tar"
         THEN tree.inner ELSE tree
    [] OTHER -> tree
TarPayload(tree, compress) ==
  CASE compress = "auto"    -> TarMagic(tree)
    [] compress = tree.form -> TarMagic(tree.inner)
    [] OTHER                -> Plainly(<<>>)

MemberMatches(entry, member) == member \in {None, entry.path, entry.base}
Texts(entries, places) ==
  FlattenSeq([i \in DOMAIN entries |->
                IF i \in places THEN entries[i].text ELSE <<>>])

(* The members of a name before an entry that cannot be read, or the first *)
(* of them when a member is asked for.                                     *)
TarText(tree, member) ==
  LET entries == tree.entries
      broken  == Earliest({i \in DOMAIN entries : entries[i].kind = "broken"},
                          Len(entries) + 1)
      found   == {i \in 1..(broken - 1) :
                    /\ entries[i].kind = "file" /\ ~entries[i].hidden
                    /\ MemberMatches(entries[i], member)}
  IN  IF tree.form # "tar" THEN Rejected
      ELSE IF found = {} THEN Rejected
      ELSE [ok |-> TRUE,
            text |-> Texts(entries, IF member = None THEN found
                                    ELSE {Earliest(found, 0)})]

(* unzip takes a member by its path, and an empty text for nothing.        *)
ZipFiles(tree) == {i \in DOMAIN tree.entries : tree.entries[i].kind = "file"}
UnzipText(tree, member) ==
  LET asked == {i \in ZipFiles(tree) : member \in {None, tree.entries[i].path}}
      text  == Texts(tree.entries, asked)
  IN  IF tree.form # "zip" THEN Rejected
      ELSE [ok |-> text # <<>>, text |-> text]
UnzipFirst(tree) ==
  IF tree.form # "zip" THEN Rejected
  ELSE [ok |-> ZipFiles(tree) # {},
        text |-> Texts(tree.entries, {Earliest(ZipFiles(tree), 0)})]

SevenzText(tree, member) ==
  LET found == {i \in ZipFiles(tree) : MemberMatches(tree.entries[i], member)}
  IN  IF tree.form # "7z" THEN Rejected
      ELSE [ok |-> found # {}, text |-> Texts(tree.entries, found)]

(* produced_archive.                                                       *)
ArchiveText(kind, tree, member, compress) ==
  CASE kind = "tar" -> TarText(TarPayload(tree, compress), member)
    [] kind = "zip" -> UnzipText(tree, member)
    [] kind = "first of zip" -> UnzipFirst(tree)
    [] kind = "7z"  -> SevenzText(tree, member)
ProducedArchive(query, loaded) ==
  CASE loaded.kind = "unscanned" -> Unscanned
    [] loaded.kind = "none"      -> Unknown
    [] OTHER -> DecodedRun(Nothing(TRUE),
                  ArchiveText(query.kind, loaded.tree, query.member,
                              query.compress))
ArchiveRun(query) ==
  IF query.ok THEN ProducedArchive(query, LoadBytes(query.file)) ELSE Unknown

ArchiveOf(query, kind, ok, files, compress) ==
  [ok |-> query.ok /\ ok, kind |-> kind,
   file |-> IF files = <<>> THEN None ELSE files[1],
   member |-> IF Len(files) = 2 THEN files[2] ELSE None,
   compress |-> compress]

(* tar: to extract to standard output, of at most one member.  A program   *)
(* named for lz4 or brotli unpacks; two of them do not agree.              *)
TarSpec ==
  [Takes({"x", "extract", "get", "O", "to-stdout", "v", "verbose", "z", "j",
          "J", "Z", "gzip", "gunzip", "bzip2", "xz", "zstd", "compress"},
         {"f", "file", "I", "use-compress-program"})
     EXCEPT !.stdin = FALSE, !.apart = {"I"}]
TarProgram(program) ==
  CASE program \in Lz4s     -> "lz4"
    [] program = "brotli"   -> "brotli"
    [] OTHER                -> "auto"
TarPrograms(programs) ==
  {TarProgram(programs[i]) : i \in DOMAIN programs} \ {"auto"}
TarRead(args, query, archives, programs) ==
  ArchiveOf(query, "tar",
            /\ HasOne(query, {"x", "extract", "get"})
            /\ HasOne(query, {"O", "to-stdout"})
            /\ Len(query.files) <= 1 /\ archives # <<>>
            /\ Cardinality(programs) <= 1
            /\ \A i \in DOMAIN args :
                 Len(args[i].names) > 1 => "I" \notin ToSet(args[i].names),
            <<LastOf(archives, None)>> \o query.files,
            IF programs = {} THEN "auto" ELSE CHOOSE p \in programs : TRUE)
TarGiven(args, query) ==
  TarRead(args, query, Given(query, {"f", "file"}),
          TarPrograms(Given(query, {"I", "use-compress-program"})))
TarQuery(args) == TarGiven(args, Parse(TarSpec, args))

UnzipSpec == [Takes({"p", "q", "o"}, {}) EXCEPT !.stdin = FALSE]
UnzipRead(args, query) ==
  ArchiveOf(query, "zip",
            /\ Has(query, "p")
            /\ \A i \in DOMAIN args :
                 Len(args[i].names) > 1 =>
                   "p" \in ToSet(args[i].names) \/ args[i].names = <<"q", "q">>
            /\ Len(query.files) \in 1..2,
            query.files, "auto")
UnzipQuery(args) == UnzipRead(args, Parse(UnzipSpec, args))

SevenzSpec == [Takes({"so", "bd", "y", "bso0", "bse0", "bsp0"}, {})
                 EXCEPT !.cluster = FALSE, !.stdin = FALSE]
SevenzRead(query) ==
  ArchiveOf(query, "7z",
            /\ Has(query, "so")
            /\ Len(query.files) \in 2..3
            /\ query.files[1] \in {"e", "x"},
            From(query.files, 2), "auto")
SevenzQuery(args) == SevenzRead(Parse(SevenzSpec, args))

Archivers == {"tar", "unzip", "7z", "7za", "7zz"}
ArchiverQuery(name, args) ==
  CASE name = "tar"   -> TarQuery(args)
    [] name = "unzip" -> UnzipQuery(args)
    [] OTHER          -> SevenzQuery(args)

=============================================================================
