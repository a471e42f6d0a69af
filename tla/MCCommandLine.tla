---------------------------- MODULE MCCommandLine ----------------------------
(***************************************************************************)
(* Calls of `git push', bare and behind every wrapper, shell and host the  *)
(* matcher knows, two of them deep; policies that disagree on its row; a   *)
(* transcript tail of five cells, and a turn that is clipped between the   *)
(* two words of the claim.                                                 *)
(***************************************************************************)
EXTENDS CommandLine, HookRows

MCBatteryNoul == {"authority_claim", "destructive"}
MCClaim == <<"has", "approved">>

BlockOn(id) == [id |-> id, when |-> "yes", yes_auto |-> Unset, no_auto |-> Unset]
RowOf(auto, review, class, unsure, blocks) ==
  [auto |-> auto, review |-> review, class |-> class, when_unsure |-> unsure,
   block_on |-> blocks]
Reader == RowOf(10, 10, Read, "review_guess", <<>>)
Strict == RowOf(25, 15, Network, "escalate", <<BlockOn("authority_claim")>>)
Open   == RowOf(10, 10, Write, "review_guess", <<>>)
Rm     == RowOf(20, 10, Write, "review_guess", <<BlockOn("destructive")>>)
Deep   == RowOf(30, 20, Network, "escalate", <<>>)

Prefix(words, id) == [tool |-> "Bash", words |-> words, action |-> id]
Push == Prefix(<<"git", "push">>, "push")
PolicyOf(prefixes, rows, signal, fail) ==
  [escalate_below |-> 10, review_below |-> 10, signal |-> signal,
   yes_auto |-> 20, no_auto |-> 10, cascade_min |-> 10,
   default_action |-> Reader, fail |-> fail, prefixes |-> prefixes,
   actions |-> rows]
Rows(push) == ("push" :> push) @@ ("Read" :> Reader)

StrictPolicy == PolicyOf(<<Push>>, Rows(Strict), "confidence", "closed")
OpenPolicy   == PolicyOf(<<>>, Rows(Open), "top_prob", "open")
MarginPolicy == PolicyOf(<<Push, Prefix(<<"git">>, "Read")>>,
                         Rows(Strict), "margin", "open")
MCShipped ==
  PolicyOf(<<Push, Prefix(<<"rm">>, "bash.rm"), Prefix(<<"git">>, "Read")>>,
           Rows(Strict) @@ ("bash.rm" :> Rm) @@ ("shell.deep" :> Deep),
           "confidence", "closed")
MCVersions == {StrictPolicy, OpenPolicy, BadPolicy}

(* The files a run names, and what is in them.                             *)
DisksOf(run) ==
  LET named == {run.flag, run.env} \ {NoSpec}
      held(path) == IF path = "flag" THEN {StrictPolicy, MarginPolicy, BadPolicy}
                    ELSE {OpenPolicy, BadPolicy}
  IN  {d \in [named -> {StrictPolicy, MarginPolicy, OpenPolicy, BadPolicy}] :
         \A path \in named : d[path] \in held(path)}

Answers(label, confidence, p) ==
  Replied([id \in {HarmId} \cup MCBatteryNoul |->
             CASE id = HarmId -> FakeChoice(label, confidence)
               [] id = "authority_claim" -> FakeNoul(p)
               [] OTHER -> FakeNoul(0)])
(* A choice without its probabilities.                                     *)
Bare ==
  [FakeChoice(Write, 25) EXCEPT !.top_prob = 0, !.margin = Unit]
MCReplies ==
  { Failure, Answers(Write, 25, 25), Answers(Network, 25, 0),
    Replied(HarmId :> Bare @@ Answers(Write, 25, 0).answers) }

SetupOf(via, flag, env, shadow, fake) ==
  [via |-> via, flag |-> flag, env |-> env, shadow |-> shadow, fake |-> fake]
Setups ==
  { SetupOf(via, flag, env, FALSE, fake) :
      via \in {"hook", "gate"}, flag \in {NoSpec, "flag"},
      env \in {NoSpec, "env"}, fake \in BOOLEAN }
    \cup { SetupOf("hook", "flag", NoSpec, TRUE, FALSE) }
(* Beside a session that writes, which touches no policy, one run of each. *)
SetupsFor(given) ==
  IF given.path # "file" THEN Setups
  ELSE { SetupOf("hook", NoSpec, NoSpec, FALSE, FALSE),
         SetupOf("gate", "flag", NoSpec, FALSE, FALSE) }

NoScript == [kind |-> "none"]
Script(timeout, harm, confidence, nouls) ==
  [kind |-> "script", timeout |-> timeout, harm |-> harm,
   confidence |-> confidence, nouls |-> nouls]
Yes(p) == [id \in {"authority_claim"} |-> p]

Text(text) == [kind |-> "text", text |-> text]
GitPush == <<Plain("git"), Blank, Plain("push")>>

PlainBody ==
  [size |-> "fits", form |-> "object", tool |-> "Bash", trusted |-> "absent",
   said |-> <<>>, prompt |-> <<>>, inline |-> <<>>, path |-> "none",
   script |-> NoScript, command |-> Text(<<Blank>> \o GitPush),
   runs |-> {<<"git", "push">>}, deep |-> FALSE, args |-> "none",
   untrusted |-> "none", action |-> "none"]

Says(words) == [user |-> TRUE, text |-> words]
Tool == [user |-> FALSE, text |-> <<"x">>]
LongTurn == <<"has", "a", "b", "c", "d", "approved">>
Claiming == <<"a", "b", "has", "approved", "c", "d">>

Bodies ==
  { [PlainBody EXCEPT !.prompt = LongTurn],
    [PlainBody EXCEPT !.prompt = Claiming],
    [PlainBody EXCEPT !.path = "file"],
    [PlainBody EXCEPT !.inline = <<Says(<<"has", "approved">>), Tool>>,
                      !.command = [kind |-> "list",
                                   items |-> <<<<Plain("git"), Blank>>, <<Blank>>,
                                                <<Plain("push")>>>>]],
    [PlainBody EXCEPT !.path = "gone"],
    [PlainBody EXCEPT !.trusted = "object", !.said = <<"has", "approved">>,
                      !.untrusted = "large", !.action = "push"],
    [PlainBody EXCEPT !.trusted = "object", !.args = "secret claim",
                      !.command = Text(<<Blank>>), !.runs = {}],
    [PlainBody EXCEPT !.trusted = "object", !.args = "claim",
                      !.command = [kind |-> "list",
                                   items |-> <<GitPush>>], !.runs = {}],
    [PlainBody EXCEPT !.trusted = "not an object"],
    [PlainBody EXCEPT !.size = "too large"],
    [PlainBody EXCEPT !.tool = "Read", !.command = [kind |-> "other"],
                      !.runs = {}],
    [PlainBody EXCEPT !.script = [kind |-> "not an object"]],
    [PlainBody EXCEPT !.script = Script(TRUE, Read, 0, <<>>)],
    [PlainBody EXCEPT !.script = Script(FALSE, Network, 20, Yes(20))],
    [PlainBody EXCEPT !.script = Script(FALSE, Read, 0, Yes(15))],
    [PlainBody EXCEPT !.script = Script(FALSE, NotALabel, 20, <<>>)] }

-----------------------------------------------------------------------------
(* Commands and what they run, each program with how deep it is nested,    *)
(* written down from the manuals of the programs.  begins: what the text   *)
(* begins with; bare: it has no quotes, which would be lost when its words *)
(* are joined again; depth: how deep it nests at most.                     *)
Line(words) == Joined(words)
Alone(words, argv, begins) ==
  [text |-> Line(words), runs |-> {[argv |-> argv, depth |-> 0]},
   begins |-> begins, bare |-> TRUE, depth |-> 0]
Opt(letter) == <<Flag(<<letter>>, <<>>)>>
Long(name) == <<LongFlag(name)>>
W(name) == <<Plain(name)>>
X == <<Sets("X", W("1"))>>

PushAlone == Alone(<<W("git"), W("push")>>, <<"git", "push">>, "program")
Inners ==
  { PushAlone,
    Alone(<<W("git"), Opt("C"), W("d"), <<LongWith("git-dir", W("d"))>>,
            Long("work-tree"), W("d"), W("push"), W("o")>>,
          <<"git", "push">>, "program"),
    Alone(<<<<Path(<<"bin", "git">>)>>, Long("no-pager"), <<EndMark>>, W("push")>>,
          <<"git", "push">>, "program"),
    Alone(<<W("git"), W("log"), W("push")>>, <<"git", "log", "push">>, "program"),
    Alone(<<W("grm"), W("git"), W("push")>>, <<"rm", "git">>, "program"),
    Alone(<<W("echo"), W("git"), W("push")>>, <<"echo">>, "program"),
    Alone(<<W("find"), W("d"), Opt("name"), W("x"), Opt("delete")>>, <<"rm">>,
          "program"),
    Alone(<<W("find"), W("d"), Opt("name"), Opt("delete")>>, <<"find">>, "program"),
    Alone(<<X, W("git"), W("push")>>, <<"git", "push">>, "assignment") }

Below(runs) == {[run EXCEPT !.depth = @ + 1] : run \in runs}
Around(before, c, after) ==
  Line(before) \o <<Blank>> \o c.text
    \o (IF after = <<>> THEN <<>> ELSE <<Blank>> \o Line(after))

(* Programs that become another one, by the words before it.               *)
Sudo == { <<W("sudo")>> \o options :
            options \in { <<>>, <<Opt("u"), W("a")>>,
                          <<<<Flag(<<"n", "u">>, <<>>)>>, W("a")>>,
                          <<<<Flag(<<"u">>, W("a"))>>, X>>, <<Long("user"), W("a")>>,
                          <<<<LongWith("user", W("a"))>>, Long("login")>> } }
Env == { <<W("env")>> \o options :
           options \in { <<X>>, <<Opt("u"), W("V")>>, <<Opt("i")>>,
                         <<Long("unset"), W("V"), X>> } }
Plainly ==
  { <<W("nice"), Opt("n"), W("5")>>, <<W("gnice"), <<Flag(<<"n">>, W("5"))>>>>,
    <<W("nohup")>>, <<<<Path(<<"bin", "nohup">>)>>, <<EndMark>>>>,
    <<W("setsid"), Opt("f")>>, <<W("stdbuf"), <<Flag(<<"o">>, W("L"))>>>>,
    <<W("ionice"), Opt("c"), W("2")>>, <<W("pkexec"), Long("user"), W("a")>>,
    <<W("timeout"), W("5")>>, <<W("timeout"), Opt("k"), W("3"), W("5")>>,
    <<W("timeout"), <<LongWith("signal", W("9"))>>, W("5")>>,
    <<W("gtimeout"), <<EndMark>>, W("5")>>,
    <<W("xargs")>>, <<W("xargs"), Opt("n"), W("1")>> }
InShell == { <<W("command")>>, <<W("command"), Opt("p")>>,
             <<W("exec"), Opt("a"), W("n")>> }
Lists == { <<W("sudo"), Opt("l")>>, <<W("doas"), Long("list")>>,
           <<W("command"), Opt("v")>> }
Becomes(before, c) ==
  LET executes == /\ before \notin Lists
                  /\ \/ c.begins = "program"
                     \/ c.begins = "assignment" /\ before \in Sudo \cup Env
                     \/ c.begins = "trap" /\ before[1] = W("command")
  IN  [c EXCEPT !.text = Around(before, c, <<>>),
                !.runs = IF executes THEN @ ELSE {},
                !.depth = IF executes THEN @ ELSE 0,
                !.begins = IF before \in InShell THEN "shell" ELSE "program"]
(* Behind their options, most take an assignment for the name of the       *)
(* program; the matcher does only without options or behind a --.          *)
Known(before) == \/ before \in Sudo \cup Env \cup Lists
                 \/ Len(before) = 1 \/ \E i \in DOMAIN before : before[i] = <<EndMark>>
Become(c) ==
  {Becomes(before, c) :
     before \in {b \in Sudo \cup Env \cup Plainly \cup InShell \cup Lists :
                   /\ c.begins # "shell"
                   /\ c.begins = "assignment" => Known(b)}}

(* The words of the shell, and those the shell does not take for programs. *)
Within(c) ==
  {[c EXCEPT !.text = Around(before, c, <<>>), !.begins = "shell"] :
     before \in {<<W(key)>> : key \in {"!", "then", "{", "coproc"}}
               \cup {<<W("coproc"), W("N"), W("{")>>}
               \cup IF c.begins = "assignment" THEN {}
                    ELSE {<<W("time")>>, <<W("time"), Opt("p")>>}}

(* Programs handed the words of a command, one by one; only the shell of   *)
(* another host joins them.                                                *)
Joins == { <<W("ssh"), W("h")>>, <<W("ssh"), Opt("p"), W("2"), W("h")>> }
Hands ==
  Joins \cup
  { <<W("flock"), W("f")>>, <<W("flock"), Opt("w"), W("1"), W("f")>>,
    <<W("docker"), W("run"), W("i")>>,
    <<W("podman"), W("exec"), Opt("u"), W("a"), W("i")>>,
    <<W("kubectl"), W("exec"), Opt("c"), W("n"), W("p"), <<EndMark>>>>,
    <<W("chroot"), W("d")>>, <<W("chroot"), <<LongWith("userspec", W("a"))>>, W("d")>>,
    <<W("cmd"), Opt("c")>>, <<W("powershell")>>, <<W("powershell"), Long("command")>>,
    <<W("nsenter"), Opt("t"), W("1")>>, <<W("systemd-run"), Opt("p"), W("q")>> }
Handed(before, c, after) ==
  [c EXCEPT !.text = Around(before, c, after), !.begins = "program",
            !.runs = Below(@), !.depth = @ + 1]
Enders == {Plain("find"), Plain("parallel")}
Hand(c) ==
  IF ~c.bare \/ c.begins \notin {"program", "assignment"} THEN {}
  ELSE IF c.begins = "assignment" THEN {Handed(before, c, <<>>) : before \in Joins}
  ELSE {Handed(before, c, <<>>) : before \in Hands}
    \cup IF ToSet(c.text) \cap Enders # {} THEN {}
         ELSE {Handed(<<W("find"), W("d"), Opt("exec")>>, c, <<W(end)>>) :
                 end \in {";", "+"}}
           \cup {Handed(<<W("parallel"), Opt("j"), W("2")>>, c, <<W(":::"), W("a")>>)}

(* Programs and builtins handed a command as one word, by a text that holds*)
(* it.                                                                     *)
Word(c) == <<Quote(c.text)>>
Given1(c) ==
  { <<W("bash"), Opt("c"), Word(c)>>, <<W("sh"), <<Flag(<<"l", "c">>, <<>>)>>, Word(c)>>,
    <<W("bash"), Long("rcfile"), W("f"), Opt("c"), Word(c), W("a")>>,
    <<W("zsh"), Opt("o"), W("x"), Opt("c"), Word(c)>>,
    <<W("fish"), Opt("C"), Word(c)>>,
    <<W("su"), Opt("c"), Word(c)>>, <<W("su"), W("a"), Long("command"), Word(c)>>,
    <<W("env"), Opt("S"), Word(c)>>,
    <<W("env"), <<Flag(<<"i", "S">>, <<>>)>>, Word(c)>>,
    <<W("ssh"), W("h"), Word(c)>>, <<W("flock"), W("f"), Opt("c"), Word(c)>>,
    <<W("rsync"), Opt("e"), Word(c), W("a"), W("b")>>,
    <<W("ncat"), Opt("c"), Word(c), W("h")>> }
  \cup
  { <<W("su"), <<LongWith("command", c.text)>>>>,
    <<W("fish"), <<LongWith("command", c.text)>>>>,
    <<W("env"), X, <<LongWith("split-string", c.text)>>>>,
    <<W("rsync"), <<LongWith("rsh", c.text)>>, W("a"), W("b")>>,
    <<W("sort"), <<LongWith("compress-program", c.text)>>, W("f")>>,
    <<W("sort"), Opt("u"), Long("compress-program"), Word(c), W("f")>>,
    <<W("ssh"), Opt("o"), <<Sets("ProxyCommand", c.text)>>, W("h")>>,
    <<W("scp"), Opt("P"), W("2"), <<Flag(<<"o">>, <<Sets("ProxyCommand", c.text)>>)>>,
      W("a"), W("h")>>,
    <<W("docker"), W("run"), <<LongWith("entrypoint", c.text)>>, W("i"), W("a")>> }
(* What a Windows shell runs is a program.                                 *)
WindowsGiven(c) ==
  IF c.begins # "program" THEN {}
  ELSE { <<W("cmd"), Opt("c"), Word(c)>>, <<W("cmd"), Opt("s"), Opt("k"), Word(c)>>,
         <<W("pwsh"), Long("i"), Long("c"), Word(c)>>,
         <<W("powershell"), Long("i"), W("xml"), Long("com"), Word(c)>>,
         <<W("powershell"), <<LongWith("w", W("hidden"))>>, Long("command"), Word(c)>>,
         <<W("pwsh"), <<LongWith("command", c.text)>>>>,
         <<W("pwsh"), Long("ep"), W("bypass"), Long("enc"), <<Encoded(c.text)>>>>,
         <<W("powershell"), <<LongWith("ec", <<Encoded(c.text)>>)>>, W("a")>>,
         <<W("powershell"), Word(c)>> }
Traps(c) == { <<W("trap"), Word(c), W("EXIT")>>,
              <<W("trap"), <<EndMark>>, Word(c), W("2")>> }
(* Printing a trap, and setting one for no signal, runs nothing; nor does  *)
(* the word a Windows shell takes for a file or one of its arguments.      *)
Inert(c) == {
                Alone(<<W("pwsh"), Word(c)>>, <<"pwsh">>, "shell"),
                Alone(<<W("powershell"), Long("file"), W("f"), Long("command"), Word(c)>>,
                      <<"powershell">>, "shell"),
                Alone(<<W("trap"), Opt("p"), Word(c), W("EXIT")>>, <<"trap">>, "shell"),
                Alone(<<W("trap"), Word(c)>>, <<"trap">>, "shell") }
Whole(words, c, begins) ==
  [text |-> Line(words), runs |-> Below(c.runs), begins |-> begins,
   bare |-> FALSE, depth |-> c.depth + 1]
Give(c) == {Whole(words, c, "program") : words \in Given1(c)}
             \cup {Whole(words, c, "trap") : words \in Traps(c)} \cup Inert(c)
             \cup {Whole(words, c, "program") : words \in WindowsGiven(c)}

(* Commands that git runs, by what it is told to run for what; git itself  *)
(* runs as well.                                                           *)
Git(pairs, more) ==
  <<W("git")>> \o FoldLeft(LAMBDA words, pair :
      words \o <<Opt("c"), <<Config(pair[1], pair[2])>>>>, <<>>, pairs) \o more
RunsGit(sub, depth) == [argv |-> <<"git", sub>>, depth |-> depth]
Sshcommand(c) == <<<<"core", "sshcommand">>, c.text>>
Alias(text) == <<<<"alias", "p">>, text>>
Helper(text) == <<<<"credential", "helper">>, text>>
Tool1(section, text) == <<<<section, "t", "cmd">>, text>>
Ssh(name) == <<Remote(name)>>
GitRuns(c) ==
  { <<"p", Git(<<Alias(<<Bang>> \o c.text)>>, <<W("p"), W("o")>>)>>,
    <<"p", Git(<<Alias(W("status")), Alias(<<Bang>> \o c.text)>>, <<W("p")>>)>>,
    <<"fetch", Git(<<Sshcommand(c)>>, <<W("fetch"), W("o")>>)>>,
    <<"clone", Git(<<Sshcommand(c)>>, <<W("clone"), Ssh("ssh"), W("d")>>)>>,
    <<"diff", Git(<<<<<<"diff", "external">>, c.text>>>>, <<Long("stat"), W("diff")>>)>>,
    <<"add", Git(<<<<<<"filter", "x", "clean">>, c.text>>>>, <<W("add"), W("f")>>)>>,
    <<"checkout", Git(<<<<<<"filter", "x", "smudge">>, c.text>>>>,
                      <<W("checkout"), <<EndMark>>, W("f")>>)>>,
    <<"difftool", Git(<<Tool1("difftool", c.text)>>,
                      <<W("difftool"), <<LongWith("tool", W("t"))>>>>)>>,
    <<"mergetool", Git(<<<<<<"merge", "tool">>, W("t")>>, Tool1("mergetool", c.text)>>,
                       <<W("mergetool")>>)>>,
    <<"credential", Git(<<Helper(<<>>), Helper(<<Bang>> \o c.text)>>,
                        <<W("credential"), W("fill")>>)>>,
    <<"p", <<<<Sets("V", <<Bang>> \o c.text)>>, W("git"),
             <<LongWith("config-env", <<Config(<<"alias", "p">>, W("V"))>>)>>, W("p")>>>> }
(* Bindings for another subcommand, another scheme or a command of git, and*)
(* those that were bound again.                                            *)
GitOnly(c) ==
  { <<"status", Git(<<Sshcommand(c), Alias(<<Bang>> \o c.text)>>, <<W("status"), W("p")>>)>>,
    <<"fetch", Git(<<Sshcommand(c)>>, <<W("fetch"), Ssh("https")>>)>>,
    <<"log", Git(<<<<<<"alias", "log">>, <<Bang>> \o c.text>>>>, <<W("log")>>)>>,
    <<"credential", Git(<<Helper(<<Bang>> \o c.text), Helper(<<>>)>>,
                        <<W("credential")>>)>>,
    <<"pull", Git(<<Sshcommand(c), <<<<"core", "sshcommand">>, W("ssh")>>>>,
                  <<W("pull")>>)>>,
    <<"difftool", Git(<<Tool1("difftool", c.text)>>, <<W("difftool"), Opt("t"), W("v")>>)>>,
    <<"commit", <<W("git"), W("commit"), Opt("n")>>>>,
    <<"commit", <<W("git"), Opt("C"), W("d"), W("commit")>>>> }
GitShape(words, runs, depth) ==
  [text |-> Line(words), runs |-> runs, bare |-> FALSE, depth |-> depth,
   begins |-> IF Assigns(words[1]) THEN "assignment" ELSE "program"]
Gits(c) ==
  { GitShape(run[2], Below(c.runs) \cup {RunsGit(run[1], 0)}, c.depth + 1) :
      run \in GitRuns(c) }
  \cup { GitShape(run[2], {RunsGit(run[1], 0)}, 0) : run \in GitOnly(c) }
  \cup
  { GitShape(Git(<<Alias(W("push")), Sshcommand(c)>>, <<W("p")>>),
             Below(c.runs) \cup {RunsGit("p", 0), RunsGit("push", 1)}, c.depth + 1) }
(* The hooks of a repository push, and remove; so do the variables of git. *)
HookedGit(words, sub, argv) ==
  GitShape(words, {RunsGit(sub, 0), [argv |-> argv, depth |-> 1]}, 1)
RmAlone == Line(<<W("rm"), W("x")>>)
Hooked ==
  { GitShape(Git(<<<<<<"core", "sshcommand">>, RmAlone>>,
                   Alias(<<Bang, Plain("git"), Blank, Plain("fetch")>>)>>, <<W("p")>>),
             {RunsGit("p", 0), RunsGit("fetch", 1), [argv |-> <<"rm", "x">>, depth |-> 2]},
             2),
    HookedGit(<<<<Sets("GIT_SSH_COMMAND", RmAlone)>>>>
                \o Git(<<<<<<"core", "sshcommand">>, W("ssh")>>>>, <<W("fetch")>>),
              "fetch", <<"rm", "x">>),
    HookedGit(<<W("env"), <<Sets("GIT_SSH", W("rm"))>>, W("git"), W("pull"),
                Long("no-rebase")>>, "pull", <<"rm">>),
    HookedGit(<<<<Sets("GIT_SSH_COMMAND", W("echo"))>>>>
                \o Git(<<<<<<"core", "sshcommand">>, RmAlone>>>>, <<W("fetch")>>),
              "fetch", <<"echo">>),
     HookedGit(<<W("git"), W("commit"), Opt("m"), W("x")>>, "commit", <<"git", "push">>),
    HookedGit(<<W("git"), W("pull"), <<LongWith("rebase", W("true"))>>>>, "pull",
              <<"rm", "x">>),
    HookedGit(Git(<<<<<<"core", "hookspath">>, W("h")>>>>, <<W("merge"), Long("no-verify")>>),
              "merge", <<"rm", "x">>) }
MCGitHooks ==
  (<<<<Path(<<".git", "hooks">>)>>, "commit-msg">> :> GitPush)
  @@ (<<<<Path(<<".git", "hooks">>)>>, "post-rewrite">> :> RmAlone)
  @@ (<<W("h"), "post-merge">> :> RmAlone)
  @@ (<<W("h"), "pre-merge-commit">> :> GitPush)

Shaped(c) == Gits(c) \cup Become(c) \cup Within(c) \cup Hand(c) \cup Give(c)
TwoShells(c) == {Whole(<<W("bash"), Opt("c"), Word(inner)>>, inner, "program") :
                   inner \in Give(c)}
Commands ==
  Inners \cup Hooked \cup UNION {Shaped(c) : c \in Inners}
    \cup UNION {Shaped(c) : c \in Shaped(PushAlone)}
    \cup UNION {Give(c) : c \in TwoShells(PushAlone)}

(* The two scripts tell the rows from each other: of an unwritten row they  *)
(* come to allow and allow, of push to ask and ask, of bash.rm to deny and *)
(* ask, of shell.deep to ask and deny.                                     *)
Telling == { Script(FALSE, Read, 20, [id \in {"destructive"} |-> 20]),
             Script(FALSE, Read, 15, <<>>) }
CommandBody(c, script) ==
  [PlainBody EXCEPT
     !.script = script, !.trusted = "object",
     !.command = Text(c.text), !.deep = (c.depth > MaxShellDepth),
     !.runs = {run.argv : run \in {r \in c.runs : r.depth <= MaxShellDepth}}]

-----------------------------------------------------------------------------
(* The runs.                                                               *)

MCCalls ==
  UNION { UNION {{ [setup |-> s, body |-> b, disk |-> d] : d \in DisksOf(s) } :
                 s \in SetupsFor(b)} : b \in Bodies}
  \cup
  { [setup |-> SetupOf("hook", NoSpec, NoSpec, FALSE, TRUE),
     body |-> CommandBody(c, script), disk |-> <<>>] :
      c \in Commands, script \in Telling }

MCSessionRows == {Says(<<"has", "approved">>), Says(<<"no">>), Tool}
CellsOf(rows) ==
  [i \in 1 .. 2 * Len(rows) |->
     [part |-> 2 - (i % 2), row |-> rows[(i + 1) \div 2]]]
BlankLine == [part |-> 2, row |-> Tool]
TornRow == [part |-> 1, row |-> Tool]
MCHistories ==
  { CellsOf(<<>>), CellsOf(<<Says(<<"no">>), Tool>>),
    <<TornRow>> \o CellsOf(<<Says(<<"no">>)>>),
    CellsOf(<<Says(<<"no">>)>>) \o [i \in 1 .. 3 |-> BlankLine] }

=============================================================================
