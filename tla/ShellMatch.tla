------------------------------ MODULE ShellMatch ------------------------------
(***************************************************************************)
(* matched_in and consider_segment: the scan of a shell command, one       *)
(* segment per step.  What a segment is made of is chosen by the steps, so *)
(* the behaviours are the scans of every bounded command.  A segment that  *)
(* runs a script of its own (a function, eval, a child shell, $(...))      *)
(* suspends the scan it is part of on a stack; its depth is the height of  *)
(* that stack.  A segment of a pipeline or in parentheses is isolated: the *)
(* scan gives it copies of the scope and of the environment.               *)
(*                                                                         *)
(* `real' is no part of the program: it holds what bash itself would have  *)
(* in its variables on the path that was taken, for eval to be compared    *)
(* with.                                                                   *)
(***************************************************************************)
EXTENDS ShellVars, FiniteSets

CONSTANTS
  Row,            \* the action rows of the policy
  ActionRank,     \* row -> <<destructive, escalate, auto in thousandths>>
  Deep,           \* the row shell.deep, NoRow when the policy has none
  NoRow,
  Fn,             \* names of functions
  MaxShellDepth,  \* MAX_SHELL_DEPTH
  MaxSegments,    \* bound on the segments of a command
  Tokens,         \* the NAME=value words of the segments
  PrefixWords,    \* prefix assignments of a command
  Declarations,   \* [base, flags, words]
  Inputs,         \* what read and mapfile may be given
  MapfileOptions  \* [delim, strip, limit, skip, origin, callback, quantum]

ASSUME RankAssumption ==
  ActionRank \in [Row -> (0..1) \X (0..1) \X (0..1000)]
ASSUME DeepAssumption == Deep \in Row \cup {NoRow} /\ NoRow \notin Row
ASSUME DepthAssumption == MaxShellDepth \in Nat
ASSUME SegmentsAssumption == MaxSegments \in Nat
ASSUME TokensAssumption == Tokens \subseteq Token
ASSUME PrefixAssumption == PrefixWords \subseteq Seq(Token)
ASSUME DeclarationsAssumption ==
  \A decl \in Declarations : /\ decl.base \in Declares
                             /\ decl.words \in Seq(Word) \ {<<>>}
ASSUME InputsAssumption == Inputs \subseteq Input
ASSUME OptionsAssumption == MapfileOptions \subseteq MapfileOption

VARIABLES
  scope, exported,  \* ShellScope and the exported environment
  functions,        \* names of the functions seen so far
  best,             \* the row matched so far in this script
  stack,            \* the suspended scans, the innermost last
  steps,            \* segments seen
  hits,             \* history: every row that was matched
  real,             \* history: bash's variables
  evaluated,        \* history: what eval scored, and what bash would run
  strays            \* history: the forms, of those the scan reads otherwise
                    \* than bash does, that the command has used so far

vars == <<scope, exported, functions, best, stack, steps, hits, real,
          evaluated, strays>>

-----------------------------------------------------------------------------
(* The row that stands for the command.                                    *)

Outranks(row, other) ==
  LET r == ActionRank[row]
      o == ActionRank[other]
  IN  \/ r[1] > o[1]
      \/ r[1] = o[1] /\ r[2] > o[2]
      \/ r[1] = o[1] /\ r[2] = o[2] /\ r[3] > o[3]

(* Mutant: a later match replaces an earlier one.                          *)
PreferLatest(previous, row) == IF row = NoRow THEN previous ELSE row

Prefer(previous, row) ==
  IF row # NoRow /\ (previous = NoRow \/ Outranks(row, previous))
  THEN row ELSE previous

-----------------------------------------------------------------------------
(* Bash.  A variable is a sequence of texts, of which $name is the first;  *)
(* local without a value hides the outer name and holds nothing.           *)

RealEnv == [Name -> Seq(Text) \cup {Unset}]
Real == [global : RealEnv, locals : Seq(RealEnv)]
EmptyReal == [global |-> [name \in Name |-> Unset], locals |-> <<>>]
RealDepth(name) ==
  LET known == {d \in 1..Len(real.locals) : real.locals[d][name] # Unset}
  IN  IF known = {} THEN 0
      ELSE CHOOSE d \in known : \A other \in known : other <= d
RealAt(d) == IF d = 0 THEN real.global ELSE real.locals[d]
RealText(name) ==
  LET held == RealAt(RealDepth(name))[name]
  IN  IF held = Unset THEN Unset ELSE IF held = <<>> THEN <<>> ELSE held[1]
RealStore(d, name, held) ==
  IF d = 0 THEN [real EXCEPT !.global[name] = held]
  ELSE [real EXCEPT !.locals[d][name] = held]
RealAssign(d, token) ==
  LET held  == RealAt(d)[token.name]
      empty == held \in {Unset, <<>>}
      text  == IF token.append /\ ~empty THEN held[1] \o token.value
               ELSE token.value
  IN  RealStore(d, token.name, <<text>> \o (IF empty THEN <<>> ELSE Tail(held)))
RealDeclare(base, flags, word) ==
  LET d == IF base = "readonly" THEN RealDepth(word.name)
           ELSE IF "g" \in flags THEN 0 ELSE Len(real.locals)
  IN  IF \/ base = "local" /\ real.locals = <<>>
         \/ base = "readonly" /\ ~(flags \subseteq {"a", "A", "p"})
      THEN real
      ELSE IF "append" \in DOMAIN word THEN RealAssign(d, word)
      ELSE IF RealAt(d)[word.name] = Unset /\ base # "readonly"
      THEN RealStore(d, word.name, <<>>) ELSE real
RealFrom(env) ==
  [global |-> [name \in Name |-> IF env[name] = Unset THEN Unset
                                 ELSE <<env[name]>>],
   locals |-> <<>>]

-----------------------------------------------------------------------------
Forms == {"skip", "reassign", "inherited", "dropped", "array", "leak",
          "append", "several", "readonly", "prefixCall", "variants"}

Init ==
  /\ scope = EmptyScope
  /\ exported = EmptyEnv
  /\ functions = {}
  /\ best = NoRow
  /\ stack = <<>>
  /\ steps = 0
  /\ hits = {}
  /\ real = EmptyReal
  /\ evaluated = [scored |-> {}, wanted |-> Unset]
  /\ strays = {}

Segment(forms) ==
  /\ steps < MaxSegments
  /\ steps' = steps + 1
  /\ strays' = strays \cup forms
Match(row) ==
  /\ best' = Prefer(best, row)
  /\ hits' = hits \cup ({row} \ {NoRow})
NoMatch == UNCHANGED <<best, hits>>

(* What a segment leaves behind; an isolated one worked on copies.         *)
Leave(isolated, newScope, newExported, newReal) ==
  /\ scope' = IF isolated THEN scope ELSE newScope
  /\ exported' = IF isolated THEN exported ELSE newExported
  /\ real' = IF isolated THEN real ELSE newReal
  /\ UNCHANGED <<functions, stack, evaluated>>

(* A command whose words match the prefixes of a row.                      *)
Matches(row) ==
  /\ Segment({})
  /\ Match(row)
  /\ UNCHANGED <<scope, exported, functions, stack, real, evaluated>>

Defines(fn) ==
  /\ Segment({})
  /\ functions' = functions \cup {fn}
  /\ NoMatch
  /\ UNCHANGED <<scope, exported, stack, real, evaluated>>

ChangesDirectory(dir, isolated) ==
  /\ Segment({})
  /\ NoMatch
  /\ Leave(isolated, [scope EXCEPT !.dir = dir], exported, real)

(* The forms.  The program has no test for them: it goes on as it does,    *)
(* and bash goes another way.                                              *)
Form(name, used) == {form \in {name} : used}

(* NAME=value behind a then, else or do that bash does not take: the text  *)
(* from before it is gone unless it was one of several.                    *)
Skips(token) ==
  RealText(token.name) \notin
    {Unset} \cup ToSet(AltValues(scope, token.name))
(* An exported name, assigned: eval goes on with the exported text.        *)
Frozen(name) == exported[name] # Unset
(* A name of the environment that the scope has not, or has otherwise.     *)
Inherited(name) == exported[name] \notin {Unset, Lookup(scope, name)}
(* A change of the environment that is lost when the script returns.       *)
InCaller == \E i \in DOMAIN stack : stack[i].kind \in {"here", "call"}
IsArray(name) == VisibleArray(scope, name) # Unset
(* An export that no return takes back, as declare -x of the name would.   *)
Leaks(name) == /\ LocalFrame(scope, name) # 0
               /\ \A save \in scope.saved :
                    ~(save.name = name /\ save.depth = LocalFrame(scope, name))
(* NAME+=value, which sees one text of the several a name may have.        *)
Grows(word) == "append" \in DOMAIN word /\ word.append
GrowsOne(word) ==
  Grows(word) => /\ VisibleArray(scope, word.name) = Unset
                 /\ \A i \in DOMAIN scope.alts : scope.alts[i].name # word.name
GrowsExported(word) ==
  Grows(word) => \/ exported[word.name] # Unset
                 \/ Lookup(scope, word.name) \in {Unset, <<>>}
GrowsPrefix(prefix) ==
  Form("append", \E i \in DOMAIN prefix : Grows(prefix[i]))

AssignForms(token, taken) ==
  Form("reassign", Frozen(token.name)) \cup Form("append", ~GrowsOne(token))
    \cup Form("skip", ~taken /\ Skips(token))
ExportForms(unexport, word) ==
  IF unexport
  THEN Form("inherited", Inherited(word.name)) \cup Form("dropped", InCaller)
  ELSE Form("leak", Leaks(word.name))
         \cup Form("append", ~GrowsOne(word) \/ ~GrowsExported(word))
DeclareForms(base, flags, words) ==
  LET word  == Head(words)
      local == LocalFrame(scope, word.name) # 0
  IN  Form("several", Len(words) # 1)
        \cup Form("reassign", "x" \notin flags /\ Frozen(word.name))
        \cup Form("inherited", Inherited(word.name))
        \cup Form("array", IsArray(word.name))
        \cup Form("append", ~GrowsOne(word))
        \cup Form("leak", {"g", "x"} \subseteq flags /\ local)
        \cup Form("readonly", base = "readonly" /\ local)

(* A statement of assignments, also after then, else, elif or do, whose    *)
(* branch bash may not take.                                               *)
Assigns(token, conditional, isolated) ==
  /\ NoMatch
  /\ \E taken \in BOOLEAN :
       /\ taken \/ conditional
       /\ Segment(AssignForms(token, taken))
       /\ Leave(isolated, AssignToken(scope, token, conditional), exported,
                IF taken THEN RealAssign(RealDepth(token.name), token)
                ELSE real)

(* The command's own environment gives the name a text.                    *)
Prefixed(name, prefix) == \E i \in DOMAIN prefix : prefix[i].name = name

(* export, with the prefix of the command.                                 *)
Exports(unexport, word, prefix, isolated) ==
  LET local == WithPrefix(exported, prefix)
      new   == ApplyExports(exported, scope, unexport, <<word>>, local)
      told  == CASE "append" \in DOMAIN word -> word
                 [] OTHER -> [name |-> word.name, value |-> local[word.name],
                              append |-> FALSE]
  IN  /\ Segment(ExportForms(unexport, word) \cup GrowsPrefix(prefix))
      /\ NoMatch
      /\ Leave(isolated, new.scope, new.exported,
               IF /\ ~unexport
                  /\ "append" \in DOMAIN word \/ Prefixed(word.name, prefix)
               THEN RealAssign(RealDepth(word.name), told) ELSE real)

DeclaresNames(decl, isolated) ==
  LET new == BindDeclaration(scope, exported, decl.base, decl.flags,
                             decl.words)
  IN  /\ Segment(DeclareForms(decl.base, decl.flags, decl.words))
      /\ NoMatch
      /\ Leave(isolated, new.scope, new.exported,
               RealDeclare(decl.base, decl.flags, Head(decl.words)))

PrintsTo(token, isolated) ==
  /\ Segment(Form("reassign", Frozen(token.name)))
  /\ NoMatch
  /\ Leave(isolated, SetVisible(scope, token.name, token.value), exported,
           RealAssign(RealDepth(token.name), token))

(* read: an input too large to read matches shell.deep.                    *)
Reads(name, input, isolated) ==
  LET given == CommandText(input)
      line  == ReadIfsFields(Line(given.text), 1)[1]
  IN  /\ Segment(Form("reassign", Frozen(name)))
      /\ IF given.kind = "unscanned" THEN Match(Deep) ELSE NoMatch
      /\ IF given.kind # "text" THEN Leave(isolated, scope, exported, real)
         ELSE Leave(isolated, BindRead(scope, <<name>>, given.text), exported,
                    RealAssign(RealDepth(name),
                      [name |-> name, value |-> line, append |-> FALSE]))

-----------------------------------------------------------------------------
(* Scripts that a segment runs.                                            *)

Scan(kind, isolated, row, newScope, newExported, newFunctions, newReal) ==
  /\ Len(stack) < MaxShellDepth
  /\ stack' = Append(stack,
       [kind |-> kind, isolated |-> isolated, exported |-> exported,
        scope |-> scope, functions |-> functions, best |-> Prefer(best, row),
        base |-> newExported, real |-> real])
  /\ scope' = newScope
  /\ exported' = newExported
  /\ functions' = newFunctions
  /\ real' = newReal
  /\ best' = NoRow
  /\ hits' = hits \cup ({row} \ {NoRow})
  /\ UNCHANGED evaluated

(* Past MAX_SHELL_DEPTH a script is not read: shell.deep, unless blank.    *)
TooDeep(blank) ==
  /\ Segment({})
  /\ Len(stack) = MaxShellDepth
  /\ IF blank THEN NoMatch ELSE Match(Deep)
  /\ UNCHANGED <<scope, exported, functions, stack, real, evaluated>>

(* A call of a function: a frame for its locals, its body in this shell.   *)
Calls(fn, prefix, isolated) ==
  /\ Segment(Form("prefixCall", prefix # <<>>))
  /\ fn \in functions
  /\ Scan("call", isolated, NoRow, PushFrame(scope), WithPrefix(exported, prefix),
          functions,
          [real EXCEPT !.locals =
             Append(@, [name \in Name |-> Unset])])

(* eval of a literal text, source, a heredoc that is sourced.              *)
RunsHere(prefix, isolated) ==
  /\ Segment(Form("prefixCall", prefix # <<>>))
  /\ Scan("here", isolated, NoRow, scope, WithPrefix(exported, prefix), functions,
          real)

(* A new process: bash -c, a script file, a command's own commands.        *)
RunsChild(prefix) ==
  /\ Segment(GrowsPrefix(prefix))
  /\ Scan("child", TRUE, NoRow, EmptyScope, WithPrefix(exported, prefix), {},
          RealFrom(WithPrefix(exported, prefix)))

(* $(...), which sees no prefix and publishes nothing.                     *)
Substitutes ==
  /\ Segment({})
  /\ Scan("subst", TRUE, NoRow, scope, exported, functions, real)

(* eval of one parameter, quoted one way or the other.                     *)
Evaluates(name, single, prefix) ==
  LET local  == WithPrefix(exported, prefix)
      spec   == [name |-> name, index |-> 0, all |-> FALSE]
      piece  == [spec |-> spec, original |-> <<Unset>>]
      word   == [single |-> single, pieces |-> <<piece>>]
  IN  /\ Segment(GrowsPrefix(prefix)
                   \cup Form("variants",
                             Len(AltValues(scope, name)) >= EvalVariantCap))
      /\ Len(stack) < MaxShellDepth
      /\ evaluated' =
           [scored |-> ToSet(EvalScripts(scope, exported, local, <<word>>)),
            wanted |-> IF single /\ Prefixed(name, prefix) THEN local[name]
                       ELSE RealText(name)]
      /\ NoMatch
      /\ UNCHANGED <<scope, exported, functions, stack, real>>

(* mapfile, and its callback when enough records were read.                *)
Mapfiles(name, opts, input, isolated) ==
  LET given == CommandText(input)
      bound == BindMapfile(scope, name, opts, given.text)
      large == given.kind = "unscanned" \/ bound.unscanned
      set   == IF given.kind = "text" THEN bound.scope ELSE scope
      held  == IF given.kind = "text" /\ ~large
               THEN RealStore(RealDepth(name), name,
                              VisibleArray(bound.scope, name))
               ELSE real
      calls == \/ given.kind = "unscanned" /\ opts.callback
               \/ given.kind = "text" /\ bound.callback
      deep  == large /\ given.kind # "absent"
  IN  /\ Segment(Form("reassign", Frozen(name))
                   \cup Form("array", LocalFrame(scope, name) # 0))
      /\ IF calls /\ Len(stack) < MaxShellDepth
         THEN Scan("here", isolated, IF deep THEN Deep ELSE NoRow, set,
                   exported, functions, held)
         ELSE /\ IF deep \/ calls THEN Match(Deep) ELSE NoMatch
              /\ Leave(isolated, set, exported, held)

-----------------------------------------------------------------------------
(* The end of the innermost script.                                        *)
Returns ==
  LET frame   == Last(stack)
      public  == PublishEnvChanges(frame.exported, frame.base, exported)
      popped  == IF frame.kind = "call" THEN PopScope(scope) ELSE scope
      restored == IF frame.kind = "call" THEN PopExports(scope, public)
                  ELSE public
      gone    == [real EXCEPT !.locals = SubSeq(@, 1, Len(@) - 1)]
  IN  /\ stack # <<>>
      /\ stack' = Front(stack)
      /\ best' = Prefer(frame.best, best)
      /\ scope' = IF frame.isolated THEN frame.scope ELSE popped
      /\ exported' = IF frame.isolated THEN frame.exported ELSE restored
      /\ real' = CASE frame.isolated      -> frame.real
                   [] ~frame.isolated /\ frame.kind = "call" -> gone
                   [] OTHER               -> real
      /\ functions' = IF frame.kind \in {"child", "subst"}
                      THEN frame.functions ELSE functions
      /\ UNCHANGED <<steps, hits, evaluated, strays>>

Next ==
  \/ \E row \in Row : Matches(row)
  \/ \E fn \in Fn : Defines(fn)
  \/ \E dir \in {token.value : token \in Tokens}, isolated \in BOOLEAN :
       ChangesDirectory(dir, isolated)
  \/ \E token \in Tokens, conditional, isolated \in BOOLEAN :
       Assigns(token, conditional, isolated)
  \/ \E unexport, isolated \in BOOLEAN, prefix \in PrefixWords :
       \/ \E token \in Tokens : Exports(unexport, token, prefix, isolated)
       \/ \E name \in Name :
            Exports(unexport, [name |-> name], prefix, isolated)
  \/ \E decl \in Declarations, isolated \in BOOLEAN :
       DeclaresNames(decl, isolated)
  \/ \E token \in Tokens, isolated \in BOOLEAN :
       ~token.append /\ PrintsTo(token, isolated)
  \/ \E name \in Name, input \in Inputs, isolated \in BOOLEAN :
       Reads(name, input, isolated)
  \/ \E name \in Name, opts \in MapfileOptions, input \in Inputs,
        isolated \in BOOLEAN : Mapfiles(name, opts, input, isolated)
  \/ \E blank \in BOOLEAN : TooDeep(blank)
  \/ \E fn \in Fn, prefix \in PrefixWords, isolated \in BOOLEAN :
       Calls(fn, prefix, isolated)
  \/ \E prefix \in PrefixWords, isolated \in BOOLEAN : RunsHere(prefix, isolated)
  \/ \E prefix \in PrefixWords : RunsChild(prefix)
  \/ Substitutes
  \/ \E name \in Name, single \in BOOLEAN, prefix \in PrefixWords :
       Evaluates(name, single, prefix)
  \/ Returns

Spec == Init /\ [][Next]_vars

-----------------------------------------------------------------------------
Frame == [kind : {"call", "here", "child", "subst"}, isolated : BOOLEAN,
          exported : Env, scope : Scope, functions : SUBSET Fn,
          best : Row \cup {NoRow}, base : Env,
          real : Real]

(* Every variable has its type, and so has what a suspended scan keeps;    *)
(* there are as many frames of locals as bash has.                         *)
TypeOK ==
  /\ scope \in Scope
  /\ exported \in Env
  /\ functions \subseteq Fn
  /\ best \in Row \cup {NoRow}
  /\ stack \in Seq(Frame) /\ Len(stack) <= MaxShellDepth
  /\ steps \in 0..MaxSegments
  /\ hits \subseteq Row
  /\ real \in Real /\ Len(real.locals) = Len(scope.locals)
  /\ strays \subseteq Forms

(* eval "$x" and eval '$x' score every text that bash could run there,     *)
(* whatever assignments, declarations, functions, branches, subshells and  *)
(* child shells came before, as long as none of the forms was used: the    *)
(* view the scope keeps of a name covers the value the shell holds on the  *)
(* path it took.                                                           *)
Scores == evaluated.wanted \notin {Unset, <<>>} =>
            evaluated.wanted \in evaluated.scored
EvalCoversShell == strays = {} => Scores

(* "then, else, elif, and do run only on some paths, so both values stay   *)
(* visible to eval": whichever way a command takes, as long as it uses no  *)
(* other form.                                                             *)
BothValuesStay == strays \subseteq {"skip"} => Scores

(* The row for the command is as strict as the strictest row matched in    *)
(* any script it runs, however deep, and a script past the depth cap       *)
(* counts as shell.deep and not as nothing.                                *)
StrictestRowWins ==
  stack = <<>> => /\ best \in hits \cup {NoRow}
                 /\ \A row \in hits : best # NoRow /\ ~Outranks(row, best)

(* What a function keeps for its return is of a frame that still exists,   *)
(* and no export is saved twice for one frame: otherwise a return would    *)
(* restore the wrong value or a later function would see old locals.       *)
NothingOutlivesItsFrame == WithinFrames(scope)

=============================================================================
