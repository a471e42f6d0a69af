------------------------------ MODULE ShellPipe ------------------------------
(***************************************************************************)
(* One command of a pipeline, worked out without running it (run_stage):   *)
(* its redirections, where its input comes from, and what it prints.       *)
(***************************************************************************)
EXTENDS ShellScripts

CONSTANTS
  Letters,     \* value -> text of a word
  Escaped,     \* value -> that text with its escapes read, for echo -e
  Formats,     \* value -> letters and %s's, for printf
  Argument     \* the %s of a format

-----------------------------------------------------------------------------
(* echo, printf, and the command that a wrapper runs.                      *)

(* A command names its tool and gives its arguments, its redirections and, *)
(* for the shell beside the fold, what it does.                            *)
EchoRun(args) ==
  LET flags  == {i \in DOMAIN args : \A j \in 1..i : args[j].dash = 1}
      count  == Cardinality(flags)
      ended  == count + 1 \in DOMAIN args /\ args[count + 1] = EndOfOptions
      words  == From(args, IF ended THEN count + 2 ELSE count + 1)
      given  == FlattenSeq([i \in 1..count |-> args[i].names])
      escape == LET last == {i \in DOMAIN given : given[i] \in {"e", "E"}}
                IN  last # {} /\ given[Max(last)] = "e"
      table  == IF escape THEN Escaped ELSE Letters
  IN  IF \/ ~(ToSet(given) \subseteq {"n", "e", "E"})
         \/ \E i \in DOMAIN words : AsWord(words[i]) \notin DOMAIN table
      THEN Unknown
      ELSE Produced(JoinWith(<<Blank>>, [i \in DOMAIN words |->
                                           table[AsWord(words[i])]])
                    \o (IF "n" \in ToSet(given) THEN <<>> ELSE <<Newline>>),
                    TRUE)

(* Each %s takes the next argument, and nothing once they are used up.     *)
PrintfLiteral(format, words) ==
  LET nth(i) == Cardinality({j \in 1..i : format[j] = Argument})
  IN  FlattenSeq([i \in DOMAIN format |->
        CASE format[i] # Argument -> <<format[i]>>
          [] format[i] = Argument /\ nth(i) \in DOMAIN words -> words[nth(i)]
          [] OTHER -> <<>>])
PrintfRun(args) ==
  LET words == IF args # <<>> /\ args[1] = EndOfOptions THEN Tail(args)
               ELSE args
      known == /\ words # <<>>
               /\ AsWord(words[1]) \in DOMAIN Formats
               /\ \A i \in DOMAIN Tail(words) :
                    AsWord(Tail(words)[i]) \in DOMAIN Letters
  IN  CASE args # <<>> /\ args[1].names = <<"v">> -> Nothing(TRUE)
        [] args = <<>> \/ args[1].names # <<"v">> ->
             IF ~known THEN Unknown
             ELSE Produced(PrintfLiteral(Formats[AsWord(words[1])],
                             [i \in DOMAIN Tail(words) |->
                                Letters[AsWord(Tail(words)[i])]]), TRUE)

(* peel_stage_wrappers and stdbuf_command: the wrapped command runs.       *)
Wrapped(command) ==
  LET peel[n \in 0..8] ==
        IF n = 0 THEN command
        ELSE IF "inner" \in DOMAIN peel[n - 1] THEN peel[n - 1].inner
             ELSE peel[n - 1]
  IN  peel[8]

Identities == {"paste", "expand", "unexpand", "column", "fold", "fmt", "pr",
               "strings"}
Greps == {"grep", "egrep", "fgrep", "ggrep"}

(* What a tool makes of its arguments, if it reads them.                   *)
Query(name, args) ==
  CASE name = "cat"        -> CatQuery(args)
    [] name = "split"      -> SplitPlan(args)
    [] name = "tee"        -> Parse(TeeSpec, args)
    [] name = "iconv"      -> IconvQuery(args)
    [] name = "join"       -> JoinQuery(args)
    [] name = "comm"       -> CommQuery(args)
    [] name \in Greps      -> GrepQuery(name, args)
    [] name = "head"       -> HeadQuery(args)
    [] name = "tail"       -> TailQuery(args)
    [] name \in {"sed", "gsed"} -> SedQuery(args)
    [] name \in {"awk", "gawk"} -> AwkQuery(args)
    [] name = "jq"         -> JqQuery(args)
    [] name = "cut"        -> CutQuery(args)
    [] name = "sort"       -> SortQuery(args)
    [] name = "uniq"       -> UniqQuery(args)
    [] name = "tac"        -> TacQuery(args)
    [] name = "dd"         -> DdQuery(args)
    [] name \in Identities -> IdentityQuery(name, args)
    [] name \in Codecs        -> CodecQuery(name, args)
    [] name \in Decompressors -> DecompressorQuery(name, args)
    [] name \in Archivers     -> ArchiverQuery(name, args)
    [] name \in Interpreters  -> ScriptQuery(name, args)
    [] OTHER               -> [ok |-> FALSE]

RunTool(name, args, query, input) ==
  CASE name = "echo"          -> EchoRun(args)
    [] name = "printf"        -> PrintfRun(args)
    [] name \in {"true", ":"} -> Nothing(TRUE)
    [] name = "false"         -> Nothing(FALSE)
    [] name = "cat"           -> CatRun(query, input)
    [] name = "split"         -> SplitRun(query, input)
    [] name = "tee"           -> TeeRun(query, input)
    [] name = "tr"            -> TrRun(args, input)
    [] name = "join"          -> JoinRun(query, input)
    [] name = "comm"          -> CommRun(query, input)
    [] name \in Greps         -> GrepRun(query, input)
    [] name = "head"          -> HeadRun(query, input)
    [] name = "tail"          -> TailRun(query, input)
    [] name \in {"sed", "gsed"} -> SedRun(query, input)
    [] name \in {"awk", "gawk"} -> AwkRun(query, input)
    [] name = "sort"          -> SortRun(query, input)
    [] name = "uniq"          -> UniqRun(query, input)
    [] name = "tac"           -> TacRun(query, input)
    [] name \in Identities    -> IdentityRun(query, input)
    [] name \in {"iconv", "jq", "cut", "dd"} ->
         IF query.ok THEN SourceText(query.file, input) ELSE Unknown
    [] name \in Codecs        -> CodecRun(query, input)
    [] name \in Decompressors -> DecodedBytesRun(query, input)
    [] name \in Archivers     -> ArchiveRun(query)
    [] name \in Interpreters  -> ScriptRun(query, input)
    [] OTHER                  -> Unknown

(* xargs runs its command with the fields of its input as arguments, and   *)
(* nothing to read.                                                        *)
XargsTarget(command, input) ==
  LET words == SplitIfs(input)
      value(text) == IF \E v \in DOMAIN Letters : Letters[v] = text
                     THEN CHOOSE v \in DOMAIN Letters : Letters[v] = text
                     ELSE Opaque
  IN  [name |-> command.runs.name,
       args |-> command.runs.args
                \o [i \in DOMAIN words |-> Word(value(words[i]))]]

(* builtin_reads_stdin: a query that is refused counts as one that reads,  *)
(* but for the tools of the second group.                                  *)
ReadsStdin(name, query) ==
  LET dash(files) == files = <<>> \/ Stdin \in ToSet(files)
      reads ==
        CASE name \in {"cat", "tac"}   -> dash(query.files)
          [] name \in {"join", "comm"} -> Stdin \in ToSet(query.files)
          [] name \in {"head", "tail"} -> query.file \in {None, Stdin}
          [] name \in {"sed", "gsed"}  -> \/ query.file = None
                                          \/ ~SedFollows(query.script)
          [] name = "sort" -> \/ query.from0 = Stdin
                              \/ query.from0 = None /\ dash(query.files)
          [] name \in Identities -> Len(query.files) # 1
          [] name \in Greps \cup {"iconv", "dd", "awk", "gawk", "jq", "cut",
                                  "uniq", "base64", "base32", "basenc",
                                  "uudecode", "xxd", "openssl"}
                     \cup Decompressors -> query.file = None
          [] name \in Archivers    -> query.file = Stdin
          [] name \in Interpreters -> query.use = "text" /\ query.file = None
          [] OTHER -> FALSE
      asks == {"cat", "tac", "join", "comm", "head", "tail", "sed", "gsed",
               "sort", "iconv", "dd", "awk", "gawk", "jq", "cut", "uniq",
               "base64", "base32"}
              \cup Identities \cup Greps \cup Interpreters
  IN  CASE name \in asks -> ~query.ok \/ reads
        [] name \notin asks /\ name \in Codecs \cup Decompressors
                                        \cup Archivers -> query.ok /\ reads
        [] OTHER -> name \in {"xargs", "tee", "tr"}

-----------------------------------------------------------------------------
(* Redirections, left to right.                                            *)

Redirect(op, fd, target) == [op |-> op, fd |-> fd, target |-> target]

(* classify_input, output_open and read_open: what the path is.            *)
OpenRead(path) ==
  CASE Contents[path].kind \in {"missing", "orphan"} -> "fail"
    [] Contents[path].kind = "fifo"    -> "block"
    [] OTHER                           -> "ok"
OpenWrite(path) ==
  CASE Contents[path].kind \in {"dir", "orphan"} -> "fail"
    [] Contents[path].kind = "fifo"              -> "block"
    [] OTHER                                     -> "ok"

NoRedirect == [ok |-> TRUE, stdin |-> None, lost |-> FALSE,
               cancelled |-> FALSE, blocked |-> FALSE]
NoteOpen(state, opened, lose) ==
  CASE opened = "ok"   -> [state EXCEPT !.lost = @ \/ lose]
    [] opened = "fail" -> [state EXCEPT !.cancelled = TRUE]
    [] OTHER           -> [state EXCEPT !.blocked = TRUE]

ApplyRedirect(state, redirect) ==
  CASE redirect.op = "<" /\ redirect.fd = 0 ->
         IF state.stdin # None THEN [state EXCEPT !.ok = FALSE]
         ELSE NoteOpen([state EXCEPT !.stdin = redirect.target],
                       OpenRead(redirect.target), FALSE)
    [] redirect.op = "<" /\ redirect.fd # 0 ->
         NoteOpen(state, OpenRead(redirect.target), FALSE)
    [] redirect.op = ">&" ->
         [state EXCEPT !.lost = @ \/ (redirect.fd = 1 /\ redirect.target # 1)]
    [] redirect.op \in {">", ">>"} ->
         NoteOpen(state, OpenWrite(redirect.target), redirect.fd = 1)
    [] redirect.op = "&>" ->
         NoteOpen(state, OpenWrite(redirect.target), TRUE)
    [] OTHER -> [state EXCEPT !.ok = FALSE]
PeelRedirects(redirects) == FoldLeft(ApplyRedirect, NoRedirect, redirects)

(* stdin_for: a redirection before the pipe, and xargs without either has  *)
(* nothing to read.                                                        *)
Ready(text) == [kind |-> "ready", text |-> text]
(* Mutant: a file that cannot be read counts as an empty one.              *)
StdinForAlwaysReady(name, reads, stdin, pipe) ==
  CASE ~reads -> Ready(None)
    [] reads /\ stdin # None -> Ready(Contents[stdin].text)
    [] OTHER -> IF pipe = None THEN [kind |-> "unknown"] ELSE Ready(pipe)

StdinFor(name, reads, stdin, pipe) ==
  CASE ~reads -> Ready(None)
    [] reads /\ stdin # None ->
         LET kind == Contents[stdin].kind
         IN  CASE kind = "text"      -> Ready(Contents[stdin].text)
               [] kind = "null"      -> Ready(<<>>)
               [] kind = "dir"       -> [kind |-> "failed"]
               [] kind = "unscanned" -> [kind |-> "unscanned"]
               [] OTHER              -> [kind |-> "unknown"]
    [] OTHER -> CASE pipe # None     -> Ready(pipe)
                  [] name = "xargs"  -> Ready(<<>>)
                  [] OTHER           -> [kind |-> "unknown"]

MaskStdout(run, lost) ==
  IF lost /\ run.kind = "produced" THEN [run EXCEPT !.text = <<>>] ELSE run

(* run_builtin, after the query that said whether it reads; what xargs     *)
(* runs is not the command that was asked about.                           *)
RunTarget(target, again, query, input) ==
  RunTool(target.name, target.args,
          IF again THEN Query(target.name, target.args) ELSE query, input)

(* run_stage.                                                              *)
RunWith(inner, query, stdin) ==
  CASE stdin.kind = "failed"    -> Nothing(FALSE)
    [] stdin.kind = "unscanned" -> Unscanned
    [] stdin.kind = "unknown"   -> Unknown
    [] OTHER ->
         LET piped == inner.name = "xargs"
         IN  RunTarget(IF piped THEN XargsTarget(inner, stdin.text) ELSE inner,
                       piped, query, IF piped THEN None ELSE stdin.text)
RunInner(inner, query, redirected, pipe) ==
  RunWith(inner, query,
          StdinFor(inner.name, ReadsStdin(inner.name, query), redirected, pipe))
RunPeeled(inner, peeled, pipe) ==
  CASE ~peeled.ok \/ peeled.blocked -> Unknown
    [] peeled.ok /\ ~peeled.blocked /\ peeled.cancelled -> Nothing(FALSE)
    [] OTHER ->
         MaskStdout(RunInner(inner, Query(inner.name, inner.args),
                             peeled.stdin, pipe), peeled.lost)
RunStage(command, pipe) ==
  RunPeeled(Wrapped(command), PeelRedirects(command.redirects), pipe)

=============================================================================
