------------------------------- MODULE ShellGit -------------------------------
(***************************************************************************)
(* The commands git runs of its own accord: aliases, and the programs its  *)
(* configuration names for a subcommand, given by -c and --config-env; and *)
(* the hooks of the repository.  A binding given to an alias that is a     *)
(* shell command holds for the git commands in it as well.                 *)
(***************************************************************************)
EXTENDS ShellWords

CONSTANTS
  MaxShellDepth,  \* MAX_SHELL_DEPTH
  GitHooks        \* <<directory, name>> -> the text of an executable hook
ASSUME DepthAssumption == MaxShellDepth \in Nat

(* A word key=value, the key by its parts in lower case; a value may begin *)
(* with the mark that makes it a shell command.                            *)
Config(key, value) == Atom("config", key, TRUE, value)
Bang == Plain("!")
HasBang(text) == text # <<>> /\ text[1] = Bang
StripBang(text) == IF HasBang(text) THEN Tail(text) ELSE text

(* GitBindings: the credential helpers, the keys of one value, and those   *)
(* that are a list by name.                                                *)
NoBindings == [helpers |-> <<>>, single |-> <<>>, named |-> <<>>]
SingleOf(seen, key) == IF key \in DOMAIN seen.single THEN seen.single[key] ELSE <<>>

NoteHelper(helpers, value) ==
  IF value = <<>> THEN <<>>
  ELSE IF HasBang(value) /\ Tail(value) # <<>> THEN Append(helpers, Tail(value))
  ELSE helpers
(* set_named: the last value of a name stands in the place of the first,   *)
(* and an empty one takes it out.                                          *)
SetNamed(named, kind, name, value) ==
  LET old   == {i \in DOMAIN named : named[i].kind = kind /\ named[i].name = name}
      entry == [kind |-> kind, name |-> name, value |-> value]
  IN  CASE old = {} /\ value = <<>> -> named
        [] old = {} /\ value # <<>> -> Append(named, entry)
        [] old # {} /\ value = <<>> -> RemoveAt(named, Max(old))
        [] OTHER -> [named EXCEPT ![Max(old)] = entry]
Note(seen, key, value) ==
  LET section == Head(key)
      name    == Last(key)
      single(text) == [seen EXCEPT !.single = (key :> text) @@ @]
      called(kind, by, text) == [seen EXCEPT !.named = SetNamed(@, kind, by, text)]
  IN  CASE section = "credential" /\ name = "helper" ->
             [seen EXCEPT !.helpers = NoteHelper(@, value)]
        [] key \in {<<"core", "sshcommand">>, <<"diff", "external">>} ->
             single(StripBang(value))
        [] key \in {<<"core", "hookspath">>, <<"diff", "tool">>, <<"merge", "tool">>} ->
             single(value)
        [] section \in {"difftool", "mergetool"} /\ name = "cmd" /\ Len(key) = 3 ->
             called(section, <<key[2]>>, StripBang(value))
        [] section = "filter" /\ name \in {"clean", "smudge"} /\ Len(key) = 3 ->
             called(name, <<key[2]>>, StripBang(value))
        [] section = "alias" -> called("alias", Tail(key), value)
        [] OTHER -> seen
NoteSpec(seen, words) ==
  IF words # <<>> /\ One(words[1]) /\ words[1][1].kind = "config"
  THEN Note(seen, words[1][1].names, words[1][1].value) ELSE seen
(* --config-env=key=NAME: the value is that of the variable.               *)
NoteEnv(seen, words, env) ==
  LET spec == words[1][1]
      var  == spec.value[1].names[1]
  IN  IF words # <<>> /\ One(words[1]) /\ spec.kind = "config" /\ spec.value # <<>>
         /\ var \in DOMAIN env
      THEN Note(seen, spec.names, env[var]) ELSE seen

RECURSIVE Bindings(_, _, _)
Bindings(args, seen, env) ==
  LET word == Head(args)
      past(n) == Drop(args, IF n < Len(args) THEN n ELSE Len(args))
      next == SubSeq(args, 2, IF Len(args) > 1 THEN 2 ELSE 1)
  IN  CASE args = <<>> \/ ~Dashed(Head(args)) \/ Marks(Head(args)) -> seen
        [] args # <<>> /\ Named(word, {"c"}, {}) ->
             Bindings(past(2), NoteSpec(seen, next), env)
        [] args # <<>> /\ Gives(word, {"config-env"}) ->
             Bindings(past(1), NoteEnv(seen, <<word[1].value>>, env), env)
        [] args # <<>> /\ Named(word, {}, {"config-env"}) ->
             Bindings(past(2), NoteEnv(seen, next, env), env)
        [] OTHER -> Bindings(past(IF OptionTakesValue(word) THEN 2 ELSE 1), seen, env)

-----------------------------------------------------------------------------
(* The subcommand, and what it goes to.                                    *)

BehindGit(argv) == SkipOptions(Tail(argv))
Subcommand(argv) ==
  LET words == BehindGit(argv)
  IN  IF words # <<>> /\ \E name \in {Base(words[1])} : Is(words[1], name)
      THEN Base(words[1]) ELSE "none"
ArgsAfter(argv) == Tail(BehindGit(argv))

GitCommands ==
  {"add", "am", "apply", "archive", "bisect", "blame", "branch", "bundle",
   "checkout", "cherry", "cherry-pick", "clean", "clone", "commit", "config",
   "credential", "describe", "diff", "difftool", "fetch", "format-patch", "gc",
   "grep", "init", "log", "ls-files", "ls-remote", "merge", "mergetool", "mv",
   "notes", "pull", "push", "range-diff", "rebase", "reflog", "remote", "reset",
   "restore", "revert", "rm", "shortlog", "show", "stash", "status", "submodule",
   "switch", "tag", "worktree"}

(* remote_is_ssh: an address by its scheme; a path is no ssh remote.       *)
Remote(scheme) == Atom("remote", <<scheme>>, FALSE, <<>>)
Address(word) ==
  IF One(word) /\ word[1].kind = "long" /\ word[1].eq THEN word[1].value ELSE word
SshAddress(word) == Address(word) = <<Remote("ssh")>>
OtherAddress(word) ==
  /\ One(Address(word)) /\ ~SshAddress(word)
  /\ \/ Address(word)[1].kind = "remote"
     \/ Address(word)[1].kind = "plain" /\ Len(Address(word)[1].names) > 1
RECURSIVE Addresses(_)
Addresses(args) ==
  IF args = <<>> THEN {}
  ELSE IF Named(args[1], {"c"}, {"config-env"})
    THEN Addresses(Drop(args, IF Len(args) > 1 THEN 2 ELSE 1))
  ELSE Addresses(Tail(args))
         \cup {word \in {args[1]} : SshAddress(word) \/ OtherAddress(word)}
UsesSsh(argv) ==
  /\ Subcommand(argv) \in {"ls-remote", "fetch", "pull", "push", "clone"}
  /\ Addresses(argv) = {} \/ \E word \in Addresses(argv) : SshAddress(word)
(* GIT_SSH_COMMAND goes before core.sshCommand, and that before GIT_SSH,   *)
(* even when they are empty; GIT_SSH is the path of one program.           *)
SshScripts(seen, argv, env) ==
  LET key == <<"core", "sshcommand">>
      one(text) == IF text = <<>> THEN <<>> ELSE <<text>>
  IN  CASE ~UsesSsh(argv) -> <<>>
        [] UsesSsh(argv) /\ "GIT_SSH_COMMAND" \in DOMAIN env ->
             one(env["GIT_SSH_COMMAND"])
        [] UsesSsh(argv) /\ "GIT_SSH_COMMAND" \notin DOMAIN env
             /\ key \in DOMAIN seen.single -> one(seen.single[key])
        [] UsesSsh(argv) /\ {"GIT_SSH_COMMAND", "GIT_SSH"} \cap DOMAIN env = {"GIT_SSH"}
             /\ key \notin DOMAIN seen.single ->
             IF Len(env["GIT_SSH"]) = 1 THEN <<env["GIT_SSH"]>> ELSE <<>>
        [] OTHER -> <<>>

(* The tool of difftool and mergetool: the last the words name, or the one *)
(* that is configured.                                                     *)
RECURSIVE SelectedTool(_, _)
SelectedTool(args, tool) ==
  LET past == Drop(args, IF Len(args) > 1 THEN 2 ELSE 1)
  IN  CASE args = <<>> \/ Marks(Head(args)) -> tool
        [] args # <<>> /\ Gives(args[1], {"tool"}) ->
             SelectedTool(Tail(args), IF args[1][1].value = <<>> THEN tool
                                      ELSE args[1][1].value)
        [] args # <<>> /\ Named(args[1], {"t"}, {"tool"}) ->
             SelectedTool(past, IF Len(args) > 1 /\ args[2] # <<>> THEN args[2] ELSE tool)
        [] args # <<>> /\ Named(args[1], {"x"}, {"extcmd"}) -> SelectedTool(past, tool)
        [] OTHER -> SelectedTool(Tail(args), tool)
NamedValues(seen, kind) ==
  LET ofKind == SelectSeq(seen.named, LAMBDA entry : entry.kind = kind)
  IN  [i \in DOMAIN ofKind |-> ofKind[i].value]
ToolScripts(seen, argv, kind, key) ==
  LET tool   == SelectedTool(ArgsAfter(argv), SingleOf(seen, key))
      picked == SelectSeq(seen.named, LAMBDA entry :
                  entry.kind = kind /\ <<Path(entry.name)>> = tool)
  IN  [i \in DOMAIN picked |-> picked[i].value]

-----------------------------------------------------------------------------
(* Hooks.                                                                  *)

HasShort(args, letter) == \E i \in DOMAIN args : letter \in ToSet(Shorts(args[i]))
HasLong(args, name) == \E i \in DOMAIN args : Named(args[i], {}, {name})
BeforeMark(args) ==
  LET marks == {i \in DOMAIN args : Marks(args[i])}
  IN  SubSeq(args, 1, IF marks = {} THEN Len(args) ELSE Min(marks) - 1)
NoVerify(argv) == HasLong(BeforeMark(argv), "no-verify") \/ HasShort(BeforeMark(argv), "n")
Rebases(argv) ==
  \/ HasLong(argv, "rebase") \/ HasShort(argv, "r")
  \/ \E i \in DOMAIN argv : /\ Gives(argv[i], {"rebase"})
                            /\ argv[i][1].value # <<Plain("false")>>
HookNames(argv) ==
  LET sub == Subcommand(argv)
      Unless(skipped, names) == IF skipped THEN <<>> ELSE names
  IN  CASE sub = "commit" ->
             Unless(NoVerify(argv), <<"pre-commit">>) \o <<"prepare-commit-msg">>
               \o Unless(NoVerify(argv), <<"commit-msg">>) \o <<"post-commit">>
        [] sub = "merge" ->
             Unless(NoVerify(argv), <<"pre-merge-commit">>)
               \o <<"prepare-commit-msg", "post-merge">>
        [] sub \in {"checkout", "switch"} -> <<"post-checkout">>
        [] sub = "clone" ->
             Unless(HasLong(argv, "no-checkout") \/ HasShort(argv, "n"),
                    <<"post-checkout">>)
        [] sub = "cherry-pick" ->
             Unless(HasLong(argv, "no-verify") \/ HasLong(argv, "no-commit")
                      \/ HasShort(argv, "n"), <<"prepare-commit-msg", "post-commit">>)
        [] sub = "pull" ->
             IF Rebases(argv) THEN <<"pre-rebase", "post-checkout", "post-rewrite">>
             ELSE Unless(~HasLong(argv, "no-rebase"),
                         <<"pre-merge-commit", "prepare-commit-msg", "commit-msg">>)
                    \o <<"post-merge">>
        [] sub = "rebase" ->
             Unless(HasLong(argv, "no-verify"), <<"pre-rebase">>)
               \o <<"post-checkout", "post-rewrite">>
        [] sub = "am" -> <<"applypatch-msg", "pre-applypatch", "post-applypatch">>
        [] OTHER -> <<>>

(* core.hooksPath wins, even an empty one; a clone has no repository yet.  *)
RECURSIVE Tree(_)
Tree(args) ==
  CASE args = <<>> \/ ~Dashed(Head(args)) \/ Marks(Head(args)) -> <<>>
    [] args # <<>> /\ Named(args[1], {"C"}, {}) /\ Len(args) > 1 ->
         args[2] \o Tree(Drop(args, 2))
    [] OTHER -> Tree(Drop(args, IF Len(args) > 1 /\ OptionTakesValue(args[1])
                                THEN 2 ELSE 1))
HookDirectory(seen, argv) ==
  LET key == <<"core", "hookspath">>
  IN  IF key \in DOMAIN seen.single THEN seen.single[key]
      ELSE IF Subcommand(argv) \in {"none", "clone"} THEN <<>>
      ELSE Tree(Tail(argv)) \o <<Path(<<".git", "hooks">>)>>
HookScripts(seen, argv) ==
  LET dir   == HookDirectory(seen, argv)
      there == SelectSeq(HookNames(argv), LAMBDA name :
                 dir # <<>> /\ <<dir, name>> \in DOMAIN GitHooks)
  IN  [i \in DOMAIN there |-> GitHooks[<<dir, there[i]>>]]

-----------------------------------------------------------------------------
(* collect: commands are processes git starts; shells are scripts that see *)
(* its bindings as well.                                                   *)

QuoteArgv(argv) == Joined([i \in DOMAIN argv |-> <<Quote(argv[i])>>])
Found(commands, shells) == [commands |-> commands, shells |-> shells]
Also(found, more) ==
  Found(found.commands \o more.commands, found.shells \o more.shells)

RECURSIVE Collect(_, _, _, _)
Collect(seen, argv, env, depth) ==
  LET sub == Subcommand(argv)
      only(subs, scripts) == IF sub \in subs THEN scripts ELSE <<>>
      own == Found(
        NotEmpty(only({"diff"}, <<SingleOf(seen, <<"diff", "external">>)>>))
          \o only({"add"}, NamedValues(seen, "clean"))
          \o only({"checkout"}, NamedValues(seen, "smudge"))
          \o only({"difftool"}, ToolScripts(seen, argv, "difftool", <<"diff", "tool">>))
          \o only({"mergetool"}, ToolScripts(seen, argv, "mergetool", <<"merge", "tool">>))
          \o SshScripts(seen, argv, env)
          \o only({"credential"}, seen.helpers),
        HookScripts(seen, argv))
      \* An alias that hides a command of git is not looked at.
      aliases == SelectSeq(seen.named, LAMBDA entry :
                   /\ entry.kind = "alias" /\ entry.name = <<sub>>
                   /\ sub \notin GitCommands)
      becomes(value) ==
        ExecutedArgv(SplitAtBlanks(<<Plain("git"), Blank>> \o value), <<>>).argv
          \o ArgsAfter(argv)
      followed(words) ==
        IF Len(words) > 1
          THEN Also(Found(<<QuoteArgv(words)>>, <<>>),
                    Collect(seen, words, env, depth + 1))
        ELSE Found(<<>>, <<>>)
      expanded(value) ==
        IF HasBang(value)
          THEN Found(<<>>, NotEmpty(<<Tail(value)>>))
        ELSE followed(becomes(value))
  IN  IF depth > MaxShellDepth \/ BehindGit(argv) = <<>> THEN Found(<<>>, <<>>)
      ELSE FoldLeft(LAMBDA found, entry : Also(found, expanded(entry.value)),
                    own, aliases)

IsGit(argv) == argv # <<>> /\ Base(argv[1]) = "git"
GitScripts(argv, env, inherited) ==
  IF IsGit(argv)
  THEN LET seen == Bindings(Tail(argv), inherited, env)
       IN  [found |-> Collect(seen, argv, env, 0), bindings |-> seen]
  ELSE [found |-> Found(<<>>, <<>>), bindings |-> inherited]

=============================================================================
