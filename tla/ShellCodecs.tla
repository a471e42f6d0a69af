----------------------------- MODULE ShellCodecs -----------------------------
(***************************************************************************)
(* The decoders of text the matcher follows: base64 and its kin, xxd,      *)
(* uudecode, openssl, and the codes of compress.  A decoder takes letters  *)
(* to bytes and bytes back to letters; a byte no letter stands for is not  *)
(* text, and the matcher then does not know what is printed.               *)
(***************************************************************************)
EXTENDS ShellFilters

CONSTANT Code   \* letter -> its byte

Rejected == [ok |-> FALSE, text |-> <<>>]
AsText(bytes) ==
  LET letter(byte) == {l \in DOMAIN Code : Code[l] = byte}
  IN  IF \A i \in DOMAIN bytes : letter(bytes[i]) # {}
      THEN [ok |-> TRUE, text |-> [i \in DOMAIN bytes |->
                                     CHOOSE l \in letter(bytes[i]) : TRUE]]
      ELSE Rejected
AsBytes(text) == [i \in DOMAIN text |-> Code[text[i]]]

White == {9, 10, 12, 13, 32}
Pad == 61
Dense(text) == SelectSeq(AsBytes(text), LAMBDA byte : byte \notin White)

-----------------------------------------------------------------------------
(* Alphabets: the bytes that stand for 0, 1, 2, ...                        *)

Ascii(first, last) == [i \in 1..(last - first + 1) |-> first + i - 1]
Figures == Ascii(48, 57)
Capitals == Ascii(65, 90)
Smalls == Ascii(97, 122)
Alphabet64 == Capitals \o Smalls \o Figures \o <<43, 47>>
Alphabet32 == Capitals \o Ascii(50, 55)
Alphabet32Hex == Figures \o Ascii(65, 86)
Alphabet16 == Figures \o Ascii(65, 70)
Alphabet85 == Figures \o Smalls \o Capitals
              \o <<46, 45, 58, 43, 61, 94, 33, 47, 42, 63, 38, 60, 62, 40, 41,
                   91, 93, 123, 125, 64, 37, 36, 35>>
Alphabet58 == SelectSeq(Figures \o Capitals \o Smalls,
                        LAMBDA byte : byte \notin {48, 73, 79, 108})

Upcase(bytes) ==
  [i \in DOMAIN bytes |->
     IF bytes[i] \in 97..122 THEN bytes[i] - 32 ELSE bytes[i]]
(* base64url writes - and _ where base64 writes + and /.                   *)
FromUrl(bytes) ==
  [i \in DOMAIN bytes |-> CASE bytes[i] = 45 -> 43
                            [] bytes[i] = 95 -> 47
                            [] OTHER -> bytes[i]]

Spells(bytes, alphabet) == ToSet(bytes) \subseteq ToSet(alphabet)
DigitsOf(bytes, alphabet) ==
  [i \in DOMAIN bytes |->
     (CHOOSE d \in DOMAIN alphabet : alphabet[d] = bytes[i]) - 1]

-----------------------------------------------------------------------------
(* Digits of a width in bits, regrouped into bytes; bits that do not fill  *)
(* a byte are dropped.                                                     *)
Regroup(digits, width) ==
  LET bit(i) == (digits[((i - 1) \div width) + 1]
                 \div 2^(width - 1 - ((i - 1) % width))) % 2
      byte(k) == FoldLeft(LAMBDA value, j : (2 * value) + bit((8 * (k - 1)) + j),
                          0, <<1, 2, 3, 4, 5, 6, 7, 8>>)
  IN  [k \in 1..((Len(digits) * width) \div 8) |-> byte(k)]

Groups(items, size) ==
  [k \in 1..(Len(items) \div size) |->
     SubSeq(items, (size * (k - 1)) + 1, size * k)]

(* b64_decode: groups of four, of which the last two slots may be padding, *)
(* and after padding nothing but padding.                                  *)
Unpadded(group) == SelectSeq(group, LAMBDA byte : byte # Pad)
GroupOk64(group) ==
  /\ Spells(Unpadded(group), Alphabet64)
  /\ Len(Unpadded(group)) >= 2
  /\ FirstOf(group, Len(Unpadded(group))) = Unpadded(group)
Decode64(bytes) ==
  LET groups == Groups(bytes, 4)
  IN  IF Len(bytes) % 4 # 0 \/ \E k \in DOMAIN groups : ~GroupOk64(groups[k])
      THEN Rejected
      ELSE AsText(FlattenSeq([k \in DOMAIN groups |->
             Regroup(DigitsOf(Unpadded(groups[k]), Alphabet64), 6)]))

Decode32(bytes, alphabet) ==
  LET kept == Upcase(Unpadded(bytes))
  IN  IF ~Spells(kept, alphabet) THEN Rejected
      ELSE AsText(Regroup(DigitsOf(kept, alphabet), 5))

(* hex_decode.                                                             *)
Decode16(bytes) ==
  LET kept == Upcase(bytes)
  IN  IF ~Spells(kept, Alphabet16) \/ Len(kept) % 2 # 0 THEN Rejected
      ELSE AsText(Regroup(DigitsOf(kept, Alphabet16), 4))

Decode2(bytes, msbFirst) ==
  LET groups == Groups(bytes, 8)
      bits(group) == IF msbFirst THEN group ELSE Reverse(group)
  IN  IF bytes = <<>> \/ Len(bytes) % 8 # 0 \/ ~Spells(bytes, <<48, 49>>)
      THEN Rejected
      ELSE AsText(Regroup(DigitsOf(
             FlattenSeq([k \in DOMAIN groups |-> bits(groups[k])]),
             <<48, 49>>), 1))

(* A number of any length in base 256, times a base plus a digit.          *)
MulAdd(bytes, base, digit) ==
  LET sum[i \in 1..(Len(bytes) + 1)] ==
        IF i > Len(bytes) THEN 256 * digit
        ELSE (bytes[i] * base) + (sum[i + 1] \div 256)
      carry == sum[1] \div 256
  IN  (IF carry = 0 THEN <<>> ELSE <<carry>>)
      \o [i \in DOMAIN bytes |-> sum[i] % 256]
Number256(digits, base) ==
  FoldLeft(LAMBDA bytes, digit : MulAdd(bytes, base, digit), <<>>, digits)
Widen(bytes, size) == [i \in 1..(size - Len(bytes)) |-> 0] \o bytes

(* z85_decode: five digits make four bytes.                                *)
Decode85(bytes) ==
  LET groups == Groups(bytes, 5)
      value(k) == Number256(DigitsOf(groups[k], Alphabet85), 85)
  IN  IF \/ bytes = <<>> \/ Len(bytes) % 5 # 0 \/ ~Spells(bytes, Alphabet85)
         \/ \E k \in DOMAIN groups : Len(value(k)) > 4
      THEN Rejected
      ELSE AsText(FlattenSeq([k \in DOMAIN groups |-> Widen(value(k), 4)]))

(* base58_decode: each leading 1 is a byte of its own.                     *)
Decode58(bytes) ==
  LET zeros == Earliest({i \in DOMAIN bytes : bytes[i] # 49},
                        Len(bytes) + 1) - 1
      rest  == From(bytes, zeros + 1)
  IN  IF ~Spells(rest, Alphabet58) THEN Rejected
      ELSE AsText([i \in 1..zeros |-> 0]
                  \o Number256(DigitsOf(rest, Alphabet58), 58))

-----------------------------------------------------------------------------
(* uu_decode: a header, lines that begin with how many bytes they hold,    *)
(* and end.  A line is padded with blanks to groups of four.               *)
BeginWord == <<98, 101, 103, 105, 110, 32>>
EndWord == <<101, 110, 100>>
Opens(bytes, word) == FirstOf(bytes, Len(word)) = word
UuDigits(bytes) == [i \in DOMAIN bytes |-> (bytes[i] + 224) % 64]
UuLine(line) ==
  LET digits == UuDigits(line)
      short  == (4 - ((Len(line) - 1) % 4)) % 4
  IN  IF line = <<>> THEN [size |-> 0, bytes |-> <<>>]
      ELSE [size  |-> digits[1],
            bytes |-> Regroup(Tail(digits) \o [i \in 1..short |-> 0], 6)]
UuHeld(held) ==
  IF \E i \in DOMAIN held : Len(held[i].bytes) < held[i].size THEN Rejected
  ELSE AsText(FlattenSeq([i \in DOMAIN held |->
                            FirstOf(held[i].bytes, held[i].size)]))
UuLines(lines) ==
  LET stop == Earliest({i \in DOMAIN lines : i > 1 /\ Opens(lines[i], EndWord)},
                       Len(lines) + 1)
  IN  IF lines = <<>> THEN Rejected
      ELSE IF ~Opens(lines[1], BeginWord) THEN Rejected
      ELSE UuHeld([i \in 1..(stop - 2) |-> UuLine(lines[i + 1])])
AllAsBytes(texts) == [i \in DOMAIN texts |-> AsBytes(texts[i])]
DecodeUu(text) == UuLines(AllAsBytes(Bodies(text)))

-----------------------------------------------------------------------------
(* unix_compress_decode: after two magic bytes and a byte that gives the   *)
(* widest code and whether 256 clears the table, codes of growing width,   *)
(* least bit first.  The table holds what the codes above 255 stand for.   *)
Clear == 256
CodeAt(bytes, at, width) ==
  LET bit(i) == (bytes[(i \div 8) + 1] \div 2^(i % 8)) % 2
  IN  FoldLeft(LAMBDA value, j : (2 * value) + bit(at + width - j), 0,
               [j \in 1..width |-> j])

(* The first code, and the first after a clear, is a byte; a later one may *)
(* be the entry it completes itself.                                       *)
FirstCode(state, code) ==
  IF code > 255 THEN [state EXCEPT !.ok = FALSE]
  ELSE [state EXCEPT !.out = Append(@, code), !.old = <<code>>,
                     !.at = @ + state.width]
Cleared(state) ==
  [state EXCEPT !.old = <<>>, !.entries = <<>>, !.width = 9,
                !.at = 8 * ((@ + state.width + 7) \div 8)]
LaterCode(state, code, first, widest) ==
  LET free  == first + Len(state.entries)
      word  == CASE code < 256  -> <<code>>
                 [] code = free -> Append(state.old, state.old[1])
                 [] OTHER       -> state.entries[code - first + 1]
      wider == free + 1 = 2^state.width /\ state.width < widest
  IN  IF code > free THEN [state EXCEPT !.ok = FALSE]
      ELSE [state EXCEPT
              !.out = @ \o word, !.old = word, !.at = @ + state.width,
              !.entries = IF free = 2^widest THEN @
                          ELSE Append(@, Append(state.old, word[1])),
              !.width = IF wider THEN @ + 1 ELSE @]

UnixCompressDecode(bytes) ==
  LET widest == bytes[3] % 32
      block  == bytes[3] >= 128
      body   == From(bytes, 4)
      more(state) == state.ok /\ state.at + state.width <= 8 * Len(body)
      take(state, code) ==
        CASE state.old = <<>> -> FirstCode(state, code)
          [] state.old # <<>> /\ block /\ code = Clear -> Cleared(state)
          [] OTHER -> LaterCode(state, code, IF block THEN 257 ELSE 256, widest)
      step(state, byte) ==
        IF more(state) THEN take(state, CodeAt(body, state.at, state.width))
        ELSE state
      start == [ok |-> TRUE, out |-> <<>>, old |-> <<>>, entries |-> <<>>,
                width |-> 9, at |-> 0]
      last  == FoldLeft(step, start, body)
  IN  IF Len(bytes) < 3 \/ ~Opens(bytes, <<31, 157>>) THEN Rejected
      ELSE IF widest \notin 9..16 \/ ~last.ok THEN Rejected
      ELSE [ok |-> TRUE, bytes |-> last.out]

-----------------------------------------------------------------------------
(* Which decoder a command asks for, and of which file.                    *)

Decode(kind, text) ==
  CASE kind = "base64"    -> Decode64(Dense(text))
    [] kind = "base64url" -> Decode64(FromUrl(Dense(text)))
    [] kind = "base32"    -> Decode32(Dense(text), Alphabet32)
    [] kind = "base32hex" -> Decode32(Dense(text), Alphabet32Hex)
    [] kind = "base16"    -> Decode16(Dense(text))
    [] kind = "base2msbf" -> Decode2(Dense(text), TRUE)
    [] kind = "base2lsbf" -> Decode2(Dense(text), FALSE)
    [] kind = "z85"       -> Decode85(Dense(text))
    [] kind = "base58"    -> Decode58(Dense(text))
    [] kind = "uu"        -> DecodeUu(text)
Basencs == {"base64", "base64url", "base32", "base32hex", "base16",
            "base2msbf", "base2lsbf", "z85", "base58"}

Coded(query, kind, ok, file) ==
  [ok |-> query.ok /\ ok, kind |-> kind, file |-> file]
HasOne(query, names) == \E name \in names : Has(query, name)

(* coreutils_short_opts: -d and -i may be clustered, and -w with columns.  *)
Base64Spec ==
  [Takes({"d", "D", "decode", "i", "ignore-garbage"}, {"w", "wrap"})
     EXCEPT !.permute = FALSE, !.stdin = FALSE]
Base64Read(query) ==
  Coded(query, "base64",
        /\ HasOne(query, {"d", "D", "decode"}) /\ Len(query.files) <= 1
        /\ AllPlain(Given(query, {"w", "wrap"})),
        File(query))
Base64Query(args) == Base64Read(Parse(Base64Spec, args))

(* base32 looks at the columns of a -w only within a cluster.              *)
Base32Spec == [Base64Spec EXCEPT !.bare = @ \ {"D"}]
ClusteredColumns(args, i) ==
  IF args[i].value # None THEN args[i].value
  ELSE IF i < Len(args) THEN AsWord(args[i + 1]) ELSE None
Base32Read(args, query) ==
  Coded(query, "base32",
        /\ HasOne(query, {"d", "decode"}) /\ Len(query.files) <= 1
        /\ \A i \in DOMAIN args :
             Len(args[i].names) > 1 /\ Last(args[i].names) = "w" =>
               Plain(ClusteredColumns(args, i)),
        File(query))
Base32Query(args) == Base32Read(args, Parse(Base32Spec, args))

BasencSpec == [Takes({"d", "decode", "i", "ignore-garbage"} \cup Basencs,
                     {"w", "wrap"})
                 EXCEPT !.cluster = FALSE, !.stdin = FALSE]
BasencKinds(query) ==
  SelectSeq(query.opts, LAMBDA opt : opt.name \in Basencs)
BasencRead(query, kinds) ==
  Coded(query, IF kinds = <<>> THEN None ELSE kinds[1].name,
        /\ HasOne(query, {"d", "decode"}) /\ Len(query.files) <= 1
        /\ Len(kinds) = 1 /\ AllPlain(Given(query, {"w", "wrap"})),
        File(query))
BasencGiven(query) == BasencRead(query, BasencKinds(query))
BasencQuery(args) == BasencGiven(Parse(BasencSpec, args))

OneFileSpec(bare) ==
  [Takes(bare, {}) EXCEPT !.cluster = FALSE, !.stdin = FALSE, !.end = FALSE]
UuRead(query) ==
  Coded(query, "uu", Has(query, "p") /\ Len(query.files) <= 1, File(query))
UuQuery(args) == UuRead(Parse(OneFileSpec({"p"}), args))

XxdRead(query) ==
  Coded(query, "base16",
        /\ HasOne(query, {"r", "reverse"})
        /\ HasOne(query, {"p", "ps", "postscript"})
        /\ Len(query.files) <= 1,
        File(query))
XxdQuery(args) ==
  XxdRead(Parse(OneFileSpec({"r", "reverse", "p", "ps", "postscript"}), args))

OpensslSpec == [Takes({"d", "D", "decode", "a", "base64", "A"}, {"in"})
                  EXCEPT !.cluster = FALSE, !.stdin = FALSE, !.end = FALSE,
                         !.apart = {"in"}]
OpensslRead(sub, query, given) ==
  Coded(query, "base64",
        /\ sub \in {"base64", "enc"}
        /\ HasOne(query, {"d", "D", "decode"})
        /\ sub = "base64" \/ HasOne(query, {"a", "base64"})
        /\ Len(given) <= 1 /\ query.files = <<>>,
        LastOf(given, None))
OpensslGiven(sub, query) == OpensslRead(sub, query, Given(query, {"in"}))
OpensslQuery(args) ==
  IF args = <<>> THEN [ok |-> FALSE]
  ELSE OpensslGiven(AsWord(args[1]), Parse(OpensslSpec, Tail(args)))

Codecs == {"base64", "base32", "basenc", "uudecode", "xxd", "openssl"}
CodecQuery(name, args) ==
  CASE name = "base64"   -> Base64Query(args)
    [] name = "base32"   -> Base32Query(args)
    [] name = "basenc"   -> BasencQuery(args)
    [] name = "uudecode" -> UuQuery(args)
    [] name = "xxd"      -> XxdQuery(args)
    [] name = "openssl"  -> OpensslQuery(args)

(* A source that cannot be read is an empty text of a failed command; what *)
(* does not decode is not known.                                           *)
DecodedRun(source, decoded) ==
  CASE source.kind # "produced" -> source
    [] source.kind = "produced" /\ ~source.ok -> Nothing(FALSE)
    [] OTHER -> IF decoded.ok THEN Produced(decoded.text, TRUE) ELSE Unknown
DecodedOf(kind, source) == DecodedRun(source, Decode(kind, source.text))
CodecRun(query, input) ==
  IF query.ok THEN DecodedOf(query.kind, SourceText(query.file, input))
  ELSE Unknown

=============================================================================
