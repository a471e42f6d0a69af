------------------------------ MODULE ShellHands ------------------------------
(***************************************************************************)
(* The commands a command hands on: to a shell, to another host, to another*)
(* process.  No word begins with a +, the sign of a shell option that is   *)
(* turned off, and a script that is a lone - is not among the texts.       *)
(***************************************************************************)
EXTENDS ShellWords
(* Leading options, as the runners skip them: the letters and names that   *)
(* take the next word, whether -- ends them, and what stops the reader: an *)
(* option by itself, or one with its value behind a `='.                   *)
Takes(letters, longs, ends, stops, gives) ==
  [letters |-> letters, longs |-> longs, ends |-> ends, stops |-> stops,
   gives |-> gives]
RECURSIVE SkipTo(_, _)
SkipTo(takes, args) ==
  LET word  == Head(args)
      stops == \/ Named(word, takes.stops, takes.stops)
               \/ Gives(word, takes.gives)
      valued == Len(args) > 1 /\ Named(word, takes.letters, takes.longs)
  IN  CASE args = <<>> \/ ~Dashed(word) -> [args |-> args, stopped |-> FALSE]
        [] args # <<>> /\ Marks(word) /\ takes.ends ->
             [args |-> Tail(args), stopped |-> FALSE]
        [] args # <<>> /\ stops -> [args |-> args, stopped |-> TRUE]
        [] OTHER -> SkipTo(takes, Drop(args, IF valued THEN 2 ELSE 1))

Behind(args, n) == IF Len(args) > n THEN <<Joined(Drop(args, n))>> ELSE <<>>
NextWord(args) == IF Len(args) > 1 THEN <<args[2]>> ELSE <<>>
ValueOf(args, longs) ==
  IF Gives(args[1], longs) THEN <<args[1][1].value>> ELSE NextWord(args)

(* The words some options give, wherever they stand.                       *)
RECURSIVE GivenBy(_, _, _)
GivenBy(args, letters, longs) ==
  IF args = <<>> THEN <<>>
  ELSE IF Gives(args[1], longs)
    THEN <<args[1][1].value>> \o GivenBy(Tail(args), letters, longs)
  ELSE IF Named(args[1], letters, longs)
    THEN NextWord(args) \o GivenBy(Drop(args, IF Len(args) > 1 THEN 2 ELSE 1),
                                   letters, longs)
  ELSE GivenBy(Tail(args), letters, longs)

SshLetters == {"b", "c", "D", "E", "e", "F", "i", "J", "L", "l", "m", "O", "o",
               "p", "Q", "R", "S", "W", "w"}
SshLongs == {"bind_address", "cipher", "dynamic", "logfile", "escape", "config",
             "identity", "jump", "local", "login", "mac", "option", "port",
             "query", "remote", "session", "stdio", "tunnel"}
SshRemote(args) == Behind(SkipTo(Takes(SshLetters, SshLongs, TRUE, {}, {}), args).args, 1)
(* ProxyCommand=x or ProxyCommand x; the word none takes it back.          *)
ProxyScript(word) ==
  LET set  == IF Assigns(word) /\ word[1].names[1] = "ProxyCommand"
              THEN word[1].value
              ELSE IF Len(word) > 2 /\ word[1] = Plain("ProxyCommand")
              THEN Drop(word, 2) ELSE <<>>
  IN  IF set \in {<<>>, <<Plain("none")>>} THEN <<>> ELSE <<set>>
(* ssh_proxy_commands: the option of -o is the next word or glued to it.    *)
RECURSIVE SshProxies(_, _)
SshProxies(letters, args) ==
  LET word   == Head(args)
      valued == Len(args) > 1 /\ Named(word, letters, SshLongs)
      spec   == CASE Named(word, {"o"}, {}) -> NextWord(args)
                  [] Shorts(word) = <<"o">> /\ ~Named(word, {"o"}, {}) ->
                       <<word[1].value>>
                  [] OTHER -> <<>>
      script == IF spec = <<>> THEN <<>> ELSE ProxyScript(spec[1])
  IN  IF args = <<>> \/ ~Dashed(word) \/ Marks(word) THEN <<>>
      ELSE script \o SshProxies(letters, Drop(args, IF valued THEN 2 ELSE 1))
(* The shells rsync and ncat are told to use.                              *)
RsyncShells(args) == NotEmpty(GivenBy(args, {"e"}, {"rsh"}))
NcatCommands(args) == NotEmpty(GivenBy(args, {"e", "c"}, {"exec", "sh-exec"}))

FlockScript(args) ==
  LET found == SkipTo(Takes({"w", "E"}, {"wait", "conflict-exit-code", "timeout"},
                            TRUE, {"c", "command"}, {}), args)
      rest  == found.args
  IN  IF found.stopped THEN NextWord(rest)
      ELSE IF Len(rest) > 1 /\ Named(rest[2], {"c"}, {"command"})
        THEN NextWord(Tail(rest))
      ELSE Behind(rest, 1)

DockerTakes ==
  Takes({"u", "w", "e", "n", "v"},
        {"user", "workdir", "env", "name", "hostname", "network", "volume",
         "mount"}, TRUE, {"entrypoint"}, {"entrypoint"})
RECURSIVE DockerScript(_, _)
DockerScript(args, entry) ==
  LET found == SkipTo(DockerTakes, args)
      rest  == found.args
      tail  == IF Len(rest) > 1 THEN Drop(rest, 1) ELSE <<>>
      given == Gives(rest[1], {"entrypoint"})
  IN  IF found.stopped
        THEN DockerScript(Drop(rest, IF given \/ Len(rest) = 1 THEN 1 ELSE 2),
                          ValueOf(rest, {"entrypoint"}))
      ELSE IF rest = <<>> \/ (entry = <<>> /\ tail = <<>>) THEN <<>>
      ELSE <<Joined(entry \o tail)>>

(* kubectl exec: what stands behind the --.                                *)
RECURSIVE BehindMark(_)
BehindMark(args) ==
  IF args = <<>> THEN <<>>
  ELSE IF Marks(args[1]) THEN Behind(args, 1)
  ELSE BehindMark(Drop(args,
         IF Len(args) > 1
            /\ Named(args[1], {"c", "n"}, {"container", "namespace"})
         THEN 2 ELSE 1))

Upto(args, names) ==
  LET ends == {i \in DOMAIN args : \E name \in names : Is(args[i], name)}
  IN  SubSeq(args, 1, IF ends = {} THEN Len(args) ELSE Min(ends) - 1)
ParallelScript(args) ==
  LET rest == SkipTo(Takes({"j", "S", "a", "C"},
                           {"jobs", "sshlogin", "arg-file", "colsep", "timeout"},
                           FALSE, {}, {}), args).args
  IN  Behind(Upto(rest, {":::", "::::"}), 0)

ScriptIn(args, commands, script) ==
  IF args # <<>> /\ (\E name \in commands : Is(args[1], name)) THEN script ELSE <<>>
ChrootScript(args) ==
  Behind(SkipTo(Takes({"u"}, {"userspec"}, FALSE, {}, {}), args).args, 1)
NsenterScript(args) ==
  Behind(SkipTo(Takes({"t", "S", "G", "r"}, {"target", "setuid", "setgid", "root"},
                      FALSE, {}, {}), args).args, 0)
SystemdScript(args) ==
  Behind(SkipTo(Takes({"p", "u"}, {"property", "unit", "uid", "gid", "slice",
                                   "description"}, TRUE, {}, {}), args).args, 0)

RemoteScripts(argv) ==
  LET base == Base(argv[1])
      args == Tail(argv)
  IN  CASE base = "ssh" -> SshRemote(args) \o SshProxies(SshLetters, args)
        [] base \in {"scp", "sftp"} -> SshProxies(SshLetters \cup {"P"}, args)
        [] base = "rsync" -> RsyncShells(args)
        [] base = "ncat" -> NcatCommands(args)
        [] base = "flock" -> FlockScript(args)
        [] base \in {"docker", "podman"} ->
             ScriptIn(args, {"run", "exec"}, DockerScript(Tail(args), <<>>))
        [] base = "parallel" -> ParallelScript(args)
        [] base = "kubectl" -> ScriptIn(args, {"exec"}, BehindMark(Tail(args)))
        [] base = "chroot" -> ChrootScript(args)
        [] base = "nsenter" -> NsenterScript(args)
        [] base = "systemd-run" -> SystemdScript(args)
        [] OTHER -> <<>>

Finds == {"find", "gfind"}
ExecFlags == {"exec", "execdir", "ok", "okdir"}
Terminators == {";", "+", "\\;"}
RECURSIVE FindExecs(_)
FindExecs(args) ==
  IF args = <<>> THEN <<>>
  ELSE IF Named(args[1], ExecFlags, {})
    THEN LET command == Upto(Tail(args), Terminators)
         IN  Behind(command, 0)
               \o FindExecs(Drop(args, IF Len(args) > Len(command) + 1
                                       THEN Len(command) + 2 ELSE Len(args)))
  ELSE FindExecs(Tail(args))
FindArguments ==
  {"name", "iname", "path", "ipath", "regex", "iregex", "wholename",
   "iwholename", "lname", "ilname", "samefile", "fstype", "user", "group",
   "uid", "gid", "perm", "size", "type", "xtype", "context", "printf",
   "fprint", "newer", "anewer", "cnewer", "mmin", "amin", "cmin", "mtime",
   "atime", "ctime", "used", "links", "inum", "maxdepth", "mindepth",
   "regextype", "D"}
RECURSIVE FindDeletes(_)
FindDeletes(args) ==
  LET skip == IF Named(args[1], ExecFlags, {})
                THEN Len(Upto(Tail(args), Terminators)) + 2
              ELSE IF Named(args[1], {"fprintf"}, {}) THEN 3
              ELSE IF Named(args[1], FindArguments, {}) THEN 2 ELSE 1
  IN  /\ args # <<>>
      /\ \/ Named(args[1], {"delete"}, {})
         \/ FindDeletes(Drop(args, IF skip < Len(args) THEN skip ELSE Len(args)))

ShellNames == {"sh", "bash", "dash", "zsh", "ksh", "ash", "fish", "csh", "tcsh"}
ShellOptTakesValue(word) == Named(word, {"o", "O"}, {"rcfile", "init-file"})
FishInlineScript(word) ==
  IF Gives(word, {"command", "init-command"}) THEN <<word[1].value>> ELSE <<>>
CArgument(args) ==
  IF Named(args[1], {}, {"command"}) \/ "c" \in ToSet(Shorts(args[1]))
  THEN NextWord(args) ELSE <<>>
RECURSIVE ShellScript(_, _)
ShellScript(base, args) ==
  LET word == Head(args)
      fish == base = "fish"
  IN  CASE args = <<>> \/ Marks(Head(args)) -> <<>>
        [] args # <<>> /\ ShellOptTakesValue(word) ->
             ShellScript(base, Drop(args, IF Len(args) > 1 THEN 2 ELSE 1))
        [] args # <<>> /\ fish /\ FishInlineScript(word) # <<>> ->
             FishInlineScript(word)
        [] args # <<>> /\ fish /\ Named(word, {"C"}, {"init-command"}) ->
             NextWord(args)
        [] OTHER ->
             IF CArgument(args) # <<>> THEN CArgument(args)
             ELSE IF Dashed(word) THEN ShellScript(base, Tail(args))
             ELSE <<>>
RECURSIVE SuScript(_)
SuScript(args) ==
  IF args = <<>> THEN <<>>
  ELSE IF Gives(args[1], {"command"}) THEN <<args[1][1].value>>
  ELSE IF Named(args[1], {"c"}, {"command"}) THEN NextWord(args)
  ELSE SuScript(Tail(args))

(* The program sort packs its temporary files with.                        *)
RECURSIVE SortCompress(_)
SortCompress(args) ==
  LET program == {"compress-program"}
  IN  CASE args = <<>> \/ Marks(Head(args)) -> <<>>
        [] args # <<>> /\ Gives(Head(args), program) ->
             NotEmpty(<<args[1][1].value>>)
        [] args # <<>> /\ Named(Head(args), {}, program) ->
             NotEmpty(NextWord(args))
        [] OTHER -> SortCompress(Tail(args))

(* The signals trap takes, by name and the few the runs give by number.    *)
TrapSpecs ==
  {"EXIT", "DEBUG", "ERR", "RETURN", "HUP", "INT", "QUIT", "ILL", "TRAP", "ABRT",
   "EMT", "FPE", "BUS", "SEGV", "SYS", "PIPE", "ALRM", "TERM", "URG", "TSTP",
   "CONT", "CHLD", "TTIN", "TTOU", "IO", "XCPU", "XFSZ", "VTALRM", "PROF",
   "WINCH", "INFO", "USR1", "USR2", "0", "2", "15"}
TrapScript(args) ==
  LET prints == Shorts(args[1]) # <<>> /\ ToSet(Shorts(args[1])) \subseteq {"l", "p", "P"}
      rest   == IF Marks(args[1]) THEN Tail(args) ELSE args
  IN  IF /\ args # <<>> /\ ~prints
         /\ Len(rest) > 1 /\ rest[1] # <<>>
         /\ \E i \in 2 .. Len(rest) : \E spec \in TrapSpecs : Is(rest[i], spec)
      THEN <<rest[1]>> ELSE <<>>

(* cmd runs what stands behind /c or /k, its quotes gone.                  *)
RECURSIVE CmdScript(_)
CmdScript(args) ==
  IF args = <<>> THEN <<>>
  ELSE IF Named(args[1], {"c", "k"}, {}) THEN NotEmpty(Behind(args, 1))
  ELSE CmdScript(Tail(args))

(* The switches of powershell and pwsh, by the prefixes of theirs the runs *)
(* use: a command joins the words behind it, an encoded one is one word,   *)
(* and a file ends the search.  The value of one may be glued by a colon.  *)
PsCommandNames == {"c", "com", "command", "cwa", "commandwithargs"}
PsEncodedNames == {"e", "enc", "encodedcommand", "ec"}
PsFileNames == {"f", "file"}
PsValuedNames(base) ==
  {"ex", "executionpolicy", "ep", "o", "outputformat", "w", "windowstyle", "wd",
   "workingdirectory", "v", "version", "ps", "psconsolefile", "con",
   "configurationname", "set", "settingsfile", "inputformat"}
    \cup (IF base = "pwsh" THEN {} ELSE {"i"})
PsName(word) == IF word[1].names = <<>> THEN "" ELSE word[1].names[1]
PsInline(word) == IF word[1].eq THEN word[1].value ELSE <<>>
PsCommandScript(inline, rest) ==
  NotEmpty(<<Joined((IF inline = <<>> THEN <<>> ELSE <<inline>>) \o rest)>>)
(* A word of base64 is decoded; any other is no script.                    *)
Encoded(text) == Atom("base64", <<>>, FALSE, text)
Decoded(words) ==
  IF words # <<>> /\ One(words[1]) /\ words[1][1].kind = "base64"
  THEN NotEmpty(<<words[1][1].value>>) ELSE <<>>
RECURSIVE PowershellScript(_, _)
PowershellScript(base, args) ==
  LET word  == Head(args)
      name  == PsName(word)
      taken == IF name \in PsValuedNames(base) /\ ~word[1].eq THEN 2 ELSE 1
  IN  CASE args = <<>> -> <<>>
        [] args # <<>> /\ ~Dashed(word) ->
             IF base = "powershell" THEN PsCommandScript(<<>>, args) ELSE <<>>
        [] args # <<>> /\ Dashed(word) /\ name \in PsCommandNames ->
             PsCommandScript(PsInline(word), Tail(args))
        [] args # <<>> /\ Dashed(word) /\ name \in PsEncodedNames ->
             Decoded(IF word[1].eq THEN <<PsInline(word)>> ELSE NextWord(args))
        [] args # <<>> /\ Dashed(word) /\ name \in PsFileNames -> <<>>
        [] OTHER -> PowershellScript(base, Drop(args, IF taken < Len(args)
                                                      THEN taken ELSE Len(args)))

(* A script that is run instead of the words, and those beside them.       *)
InnerScript(argv) ==
  LET base == Base(argv[1])
  IN  CASE argv = <<>> -> <<>>
        [] argv # <<>> /\ base \in ShellNames -> ShellScript(base, Tail(argv))
        [] argv # <<>> /\ base = "cmd" -> CmdScript(Tail(argv))
        [] argv # <<>> /\ base \in {"powershell", "pwsh"} ->
             PowershellScript(base, Tail(argv))
        [] argv # <<>> /\ base = "su" -> SuScript(Tail(argv))
        [] OTHER -> <<>>
Scripts(argv, blocked) ==
  LET base == Base(argv[1])
  IN  CASE argv = <<>> -> <<>>
        [] argv # <<>> /\ base \in Finds -> FindExecs(Tail(argv))
        [] argv # <<>> /\ base \in {"sort", "gsort"} ->
             SortCompress(Tail(argv))
        [] argv # <<>> /\ Is(argv[1], "trap") ->
             IF blocked THEN <<>> ELSE TrapScript(Tail(argv))
        [] OTHER -> RemoteScripts(argv)

=============================================================================
