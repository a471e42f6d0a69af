------------------------------ MODULE ShellWords ------------------------------
(***************************************************************************)
(* The words of one simple command: executed_argv peels the wrappers off,  *)
(* and prefix_hit compares what is left with the prefixes of the rows.     *)
(*                                                                         *)
(* A text is a sequence of atoms and a word is a text that has been cut    *)
(* out and unquoted, for the most part one atom.                           *)
(***************************************************************************)
EXTENDS Integers, Sequences, FiniteSets, FiniteSetsExt, SequencesExt

Atom(kind, names, eq, value) ==
  [kind |-> kind, names |-> names, eq |-> eq, value |-> value]
Blank == Atom("blank", <<>>, FALSE, <<>>)
EndMark == Atom("end", <<>>, FALSE, <<>>)
Path(parts) == Atom("plain", parts, FALSE, <<>>)
Plain(name) == Path(<<name>>)
Sets(name, value) == Atom("set", <<name>>, TRUE, value)
Flag(letters, glued) == Atom("short", letters, FALSE, glued)
LongFlag(name) == Atom("long", <<name>>, FALSE, <<>>)
LongWith(name, value) == Atom("long", <<name>>, TRUE, value)
Quote(text) == Atom("quoted", <<>>, FALSE, text)

NotEmpty(scripts) == SelectSeq(scripts, LAMBDA script : script # <<>>)
Drop(words, n) == SubSeq(words, n + 1, Len(words))

(* The shell cuts a text at its blanks and takes one level of quotes off.  *)
SplitAtBlanks(text) ==
  LET bare == SelectSeq(text, LAMBDA atom : atom # Blank)
  IN  [i \in DOMAIN bare |-> IF bare[i].kind = "quoted" THEN bare[i].value
                             ELSE <<bare[i]>>]
(* Words put side by side again; their quotes are gone.                    *)
Joined(words) ==
  FoldLeft(LAMBDA text, word : IF text = <<>> THEN word
                               ELSE text \o <<Blank>> \o word, <<>>, words)

One(word) == Len(word) = 1
Is(word, name) == word = <<Plain(name)>>
Assigns(word) == One(word) /\ word[1].kind = "set"
Dashed(word) == word # <<>> /\ word[1].kind \in {"short", "long", "end"}
Marks(word) == word = <<EndMark>>
Shorts(word) == IF One(word) /\ word[1].kind = "short" THEN word[1].names ELSE <<>>
(* command_basename: a program goes by the last part of its path.          *)
Base(word) ==
  IF One(word) /\ word[1].kind = "plain" THEN Last(word[1].names) ELSE "no name"

(* The word is one of these options, by itself.                            *)
Named(word, letters, longs) ==
  /\ One(word) /\ ~word[1].eq /\ word[1].value = <<>>
  /\ Len(word[1].names) = 1
  /\ word[1].names[1] \in CASE word[1].kind = "short" -> letters
                            [] word[1].kind = "long"  -> longs
                            [] OTHER                  -> {}
(* The option of that name, with its value behind a `='.                   *)
Gives(word, longs) ==
  One(word) /\ word[1].kind = "long" /\ word[1].eq /\ word[1].names[1] \in longs

-----------------------------------------------------------------------------
(* Wrappers.                                                               *)

Wrappers == {"sudo", "doas", "pkexec", "env", "command", "builtin", "nice",
             "nohup", "time", "busybox", "ionice", "stdbuf", "setsid", "exec",
             "timeout", "xargs"}
GnuAlias(name) ==
  CASE name = "gtimeout" -> "timeout" [] name = "gnice" -> "nice"
    [] name = "genv" -> "env" [] name = "gnohup" -> "nohup"
    [] name = "gstdbuf" -> "stdbuf" [] name = "gxargs" -> "xargs"
    [] OTHER -> name
Keywords == {"if", "then", "else", "elif", "do", "while", "until", "!", "{", "("}
SetsEnv == {"env", "sudo", "doas"}

ValuedLetters(wrapper) ==
  CASE wrapper \in {"sudo", "doas"} ->
         {"u", "g", "h", "p", "C", "T", "R", "D", "U", "a"}
    [] wrapper = "env" -> {"u", "S", "C"}
    [] wrapper \in {"nice", "ionice"} -> {"n", "c", "p"}
    [] wrapper = "time" -> {"f", "o"}
    [] wrapper = "stdbuf" -> {"i", "o", "e"}
    [] wrapper = "exec" -> {"a"}
    [] wrapper = "timeout" -> {"k", "s"}
    [] wrapper = "xargs" -> {"a", "I", "L", "n", "P", "s", "d", "E"}
    [] OTHER -> {}
ValuedLongs(wrapper) ==
  CASE wrapper \in {"sudo", "doas"} ->
         {"user", "group", "host", "prompt", "chdir", "role", "type",
          "command-timeout", "close-from"}
    [] wrapper = "env" -> {"unset", "chdir", "split-string", "argv0"}
    [] wrapper \in {"nice", "ionice"} -> {"adjustment"}
    [] wrapper = "time" -> {"format", "output"}
    [] wrapper = "stdbuf" -> {"input", "output", "error"}
    [] wrapper = "pkexec" -> {"user"}
    [] wrapper = "timeout" -> {"kill-after", "signal"}
    [] wrapper = "xargs" ->
         {"arg-file", "replace", "max-lines", "max-args", "max-procs",
          "max-chars", "delimiter", "process-slot-var", "eof"}
    [] OTHER -> {}

(* wrapper_does_not_execute: sudo -l and the like run nothing.             *)
NotRun(wrapper, word) ==
  LET says(letters, longs) == \/ ToSet(Shorts(word)) \cap letters # {}
                              \/ Named(word, {}, longs)
  IN  CASE wrapper \in {"sudo", "doas"} -> says({"l", "v"}, {"list", "validate"})
        [] wrapper = "command" -> says({"v", "V"}, {"help"})
        [] OTHER -> FALSE

(* A script is a sequence of at most one text; the first one stands.       *)
First(split, found) == IF split # <<>> THEN split ELSE found
SplitFlag(wrapper, word) ==
  /\ wrapper = "env"
  /\ Named(word, {"S"}, {"split-string"}) \/ Gives(word, {"split-string"})

(* consume_short_cluster: the first letter that takes a value takes the    *)
(* rest of the cluster, or else the next word.                             *)
Cluster(wrapper, rest) ==
  LET letters == Shorts(rest[1])
      glued   == rest[1][1].value
      valued  == {i \in DOMAIN letters : letters[i] \in ValuedLetters(wrapper)}
      within  == Min(valued) < Len(letters) \/ glued # <<>>
      value   == IF within THEN <<glued>>
                 ELSE IF Len(rest) > 1 THEN <<rest[2]>> ELSE <<>>
  IN  IF valued = {} THEN [rest |-> Tail(rest), split |-> <<>>]
      ELSE [rest  |-> Drop(rest, IF ~within /\ Len(rest) > 1 THEN 2 ELSE 1),
            split |-> IF wrapper = "env" /\ letters[Min(valued)] = "S"
                      THEN value ELSE <<>>]

Skipped(rest, split, env) ==
  [runs |-> TRUE, rest |-> rest, split |-> split, env |-> env]
(* The environment a command is given: name -> text.                       *)
SetEnv(env, word) == (word[1].names[1] :> word[1].value) @@ env
(* The first word after the options of timeout is the duration.            *)
PastDuration(wrapper, rest) ==
  IF wrapper = "timeout" /\ rest # <<>> THEN Tail(rest) ELSE rest

RECURSIVE SkipWrapperFlags(_, _, _, _)
SkipWrapperFlags(wrapper, rest, split, env) ==
  LET word  == Head(rest)
      next  == Cluster(wrapper, rest)
      taken == IF Named(word, {}, ValuedLongs(wrapper)) /\ Len(rest) > 1
               THEN 2 ELSE 1
      past(words) == Skipped(PastDuration(wrapper, words), split, env)
  IN  CASE rest = <<>> -> Skipped(rest, split, env)
        [] rest # <<>> /\ Assigns(word) ->
             IF wrapper \in SetsEnv
             THEN SkipWrapperFlags(wrapper, Tail(rest), split, SetEnv(env, word))
             ELSE past(rest)
        [] rest # <<>> /\ Marks(word) -> past(Tail(rest))
        [] rest # <<>> /\ ~Assigns(word) /\ ~Dashed(word) -> past(rest)
        [] rest # <<>> /\ NotRun(wrapper, word) ->
             [runs |-> split # <<>>, rest |-> <<>>, split |-> split, env |-> env]
        [] rest # <<>> /\ One(word) /\ word[1].eq /\ ~Assigns(word)
             /\ ~NotRun(wrapper, word) ->
             SkipWrapperFlags(wrapper, Tail(rest),
               First(split, IF SplitFlag(wrapper, word) THEN <<word[1].value>>
                            ELSE <<>>), env)
        [] rest # <<>> /\ Shorts(word) # <<>> /\ ~NotRun(wrapper, word) ->
             SkipWrapperFlags(wrapper, next.rest, First(split, next.split), env)
        [] OTHER ->
             SkipWrapperFlags(wrapper, Drop(rest, taken),
               First(split, IF SplitFlag(wrapper, word) /\ taken = 2
                            THEN <<rest[2]>> ELSE <<>>), env)

(* executed_argv: what runs once assignments, keywords and wrappers are    *)
(* peeled off; blocked when a program and not the shell runs it.           *)
Executed(argv, split, blocked, env) ==
  [argv |-> argv, split |-> split, blocked |-> blocked, env |-> env]
RECURSIVE Peel(_, _, _, _)
Peel(rest, state, assigns, builtin) ==
  LET word    == Head(rest)
      after   == Tail(rest)
      wrapper == GnuAlias(Base(word))
      skipped == SkipWrapperFlags(wrapper, after, <<>>, state.env)
      named   == Len(after) > 1 /\ ~Is(after[1], "{") /\ Is(after[2], "{")
      shell   == \/ Is(word, "command") \/ Is(word, "builtin")
                 \/ Is(word, "time") /\ ~builtin
      peeled  == [state EXCEPT !.blocked = @ \/ ~shell]
      later   == builtin \/ Is(word, "command") \/ Is(word, "builtin")
  IN  CASE rest = <<>> -> state
        [] rest # <<>> /\ assigns /\ Assigns(word) ->
             Peel(after, [state EXCEPT !.env = SetEnv(@, word)], assigns, builtin)
        [] rest # <<>> /\ Base(word) = "coproc" ->
             Peel(IF named THEN Tail(after) ELSE after, state, assigns, builtin)
        [] rest # <<>> /\ \E key \in Keywords : Is(word, key) ->
             Peel(after, state, assigns, builtin)
        [] rest # <<>> /\ wrapper \in Wrappers ->
             IF ~skipped.runs THEN [peeled EXCEPT !.env = skipped.env]
             ELSE IF skipped.rest # after
               THEN Peel(skipped.rest,
                         [peeled EXCEPT !.split = First(@, skipped.split),
                                        !.env = skipped.env],
                         /\ assigns
                         /\ \A i \in 1 .. Len(after) - Len(skipped.rest) :
                              ~Marks(after[i]),
                         later)
             ELSE IF after # <<>> /\ Assigns(after[1])
               THEN [peeled EXCEPT !.argv = after]
             ELSE Peel(after, peeled, assigns, later)
        [] OTHER -> [state EXCEPT !.argv = rest]
ExecutedArgv(words, env) ==
  Peel(words, Executed(<<>>, <<>>, FALSE, env), TRUE, FALSE)

-----------------------------------------------------------------------------
(* Prefixes.                                                               *)

OptionTakesValue(word) ==
  Named(word, {"C", "c"}, {"git-dir", "work-tree", "namespace", "super-prefix",
                           "config-env", "exec-path"})
RECURSIVE SkipOptions(_)
SkipOptions(args) ==
  IF args = <<>> \/ ~Dashed(Head(args)) THEN args
  ELSE IF Marks(Head(args)) THEN Tail(args)
  ELSE SkipOptions(Drop(args,
         IF Len(args) > 1 /\ OptionTakesValue(Head(args)) THEN 2 ELSE 1))

RECURSIVE Follows(_, _)
Follows(args, words) ==
  LET rest == SkipOptions(args)
  IN  \/ words = <<>>
      \/ /\ words # <<>> /\ rest # <<>>
         /\ Is(rest[1], words[1])
         /\ Follows(Tail(rest), Tail(words))
SameTool(name, prefix) == name = prefix \/ (name = "grm" /\ prefix = "rm")
ArgvMatches(argv, prefix) ==
  /\ argv # <<>> /\ prefix # <<>>
  /\ SameTool(Base(argv[1]), prefix[1])
  /\ Follows(Tail(argv), Tail(prefix))
PrefixHit(policy, tool, argv) ==
  LET hits == {i \in DOMAIN policy.prefixes :
                 /\ policy.prefixes[i].tool = tool
                 /\ ArgvMatches(argv, policy.prefixes[i].words)}
  IN  IF hits = {} THEN <<>> ELSE <<policy.prefixes[Min(hits)].action>>

=============================================================================
