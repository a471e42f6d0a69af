------------------------------- MODULE ShellRows -------------------------------
(***************************************************************************)
(* From a command to the rows of the policy it touches.  Functions,        *)
(* variables and several commands in a row are in ShellMatch.              *)
(***************************************************************************)
EXTENDS ShellHands, ShellGit

(* matched_in and consider_segment: the rows of a command, in the order    *)
(* they are found.  Beyond the depth nothing is looked at and the row      *)
(* shell.deep is taken.                                                    *)
NamedRow(policy, row) == IF row \in DOMAIN policy.actions THEN <<row>> ELSE <<>>
Deletes(policy, tool, argv) ==
  /\ Base(argv[1]) \in Finds /\ FindDeletes(Tail(argv))
  /\ \E i \in DOMAIN policy.prefixes :
       policy.prefixes[i].action = "bash.rm" /\ policy.prefixes[i].tool = tool

RECURSIVE RowsIn(_, _, _, _, _, _), RowsOfRun(_, _, _, _, _)
(* Of the commands it hands on, each one level deeper.                     *)
RowsBelow(policy, tool, scripts, depth, env, git) ==
  FoldLeft(LAMBDA rows, script :
             rows \o RowsIn(policy, tool, script, depth + 1, env, git),
           <<>>, scripts)
RowsBeside(policy, tool, run, depth, git, inner, own) ==
  LET below(scripts, bindings) ==
        RowsBelow(policy, tool, scripts, depth, run.env, bindings)
  IN  CASE inner # <<>>    -> below(inner, git)
        [] run.argv = <<>> -> <<>>
        [] OTHER ->
             PrefixHit(policy, tool, run.argv)
               \o (IF Deletes(policy, tool, run.argv)
                   THEN NamedRow(policy, "bash.rm") ELSE <<>>)
               \o below(Scripts(run.argv, run.blocked), git)
               \o below(own.found.commands, git)
               \o below(own.found.shells, own.bindings)
RowsOfRun(policy, tool, run, depth, git) ==
  RowsBelow(policy, tool, run.split, depth, run.env, git)
    \o RowsBeside(policy, tool, run, depth, git, InnerScript(run.argv),
                  GitScripts(run.argv, run.env, git))
RowsIn(policy, tool, text, depth, env, git) ==
  IF SplitAtBlanks(text) = <<>> THEN <<>>
  ELSE IF depth > MaxShellDepth THEN NamedRow(policy, "shell.deep")
  ELSE RowsOfRun(policy, tool, ExecutedArgv(SplitAtBlanks(text), env), depth, git)
RowsOf(policy, tool, text) == RowsIn(policy, tool, text, 0, <<>>, NoBindings)

=============================================================================
