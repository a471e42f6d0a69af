------------------------------ MODULE ShellVars ------------------------------
(***************************************************************************)
(* What the shell matcher knows of a shell's variables while it scans a    *)
(* command: ShellScope with the global names, one frame per function call, *)
(* the values a branch might have assigned, the exports a returning        *)
(* function puts back and the arrays of mapfile; beside it the exported    *)
(* environment.  A vector of (name, value) that is only read by the last   *)
(* entry and written in place is a function from names; a name without an  *)
(* entry is Unset.                                                         *)
(***************************************************************************)
EXTENDS ShellText

CONSTANTS
  Name,             \* shell variable names
  Letter,           \* letters of texts
  Unset,            \* no entry
  EvalVariantCap,   \* EVAL_VARIANT_CAP
  MapfileOriginCap  \* MAPFILE_ORIGIN_CAP

Text == Seq(Letter)

ASSUME UnsetAssumption == Unset \notin Text /\ Unset \notin Seq(Text)
ASSUME VariantAssumption == EvalVariantCap \in Nat

-----------------------------------------------------------------------------
(* The environment.                                                        *)

Env == [Name -> Text \cup {Unset}]
EmptyEnv == [name \in Name |-> Unset]

SetEnv(env, name, value) == [env EXCEPT ![name] = value]
UnsetEnv(env, name) == [env EXCEPT ![name] = Unset]

(* NAME=value replaces, NAME+=value appends; an unset name becomes it.     *)
AppendEnv(env, name, extra) ==
  SetEnv(env, name, IF env[name] = Unset THEN extra ELSE env[name] \o extra)

Token == [name : Name, value : Text, append : BOOLEAN]
ApplyAssignment(env, token) ==
  IF token.append THEN AppendEnv(env, token.name, token.value)
  ELSE SetEnv(env, token.name, token.value)

(* A command's own environment: what is exported and then its prefix.      *)
WithPrefix(env, prefix) == FoldLeft(ApplyAssignment, env, prefix)

(* Names whose last assignment a copied environment changed.  A name the   *)
(* copy dropped is not one of them.                                        *)
PublishEnvChanges(parent, before, after) ==
  [name \in Name |-> IF after[name] # Unset /\ after[name] # before[name]
                     THEN after[name] ELSE parent[name]]

-----------------------------------------------------------------------------
(* ShellScope.  Depth 0 is global, the frame locals[d] has depth d.        *)

EmptyScope == [dir |-> Unset, global |-> EmptyEnv, locals |-> <<>>,
               alts |-> <<>>, saved |-> {}, arrays |-> {}]

Scope == [dir : Text \cup {Unset}, global : Env, locals : Seq(Env),
          alts : Seq([depth : Nat, name : Name, value : Text]),
          saved : SUBSET [depth : Nat, name : Name,
                          previous : Text \cup {Unset}],
          arrays : SUBSET [depth : Nat, name : Name, values : Seq(Text)]]

(* What is kept for a frame is of a frame that exists, and once.           *)
WithinFrames(scope) ==
  LET depths == 0..Len(scope.locals)
  IN  /\ \A i \in DOMAIN scope.alts : scope.alts[i].depth \in depths
      /\ \A array \in scope.arrays : array.depth \in depths
      /\ \A save \in scope.saved : save.depth \in depths \ {0}
      /\ \A s, t \in scope.saved :
           s.depth = t.depth /\ s.name = t.name => s = t
      /\ \A a, b \in scope.arrays :
           a.depth = b.depth /\ a.name = b.name => a = b

LocalDepths(scope, name) ==
  {d \in 1..Len(scope.locals) : scope.locals[d][name] # Unset}

(* The innermost frame that has the name, 0 when none has.                 *)
LocalFrame(scope, name) ==
  IF LocalDepths(scope, name) = {} THEN 0
  ELSE CHOOSE d \in LocalDepths(scope, name) :
         \A other \in LocalDepths(scope, name) : other <= d

EnvAt(scope, d) == IF d = 0 THEN scope.global ELSE scope.locals[d]
WithEnvAt(scope, d, env) ==
  IF d = 0 THEN [scope EXCEPT !.global = env]
  ELSE [scope EXCEPT !.locals = [@ EXCEPT ![d] = env]]

Lookup(scope, name) == EnvAt(scope, LocalFrame(scope, name))[name]
ShellValue(scope, exported, name) ==
  IF Lookup(scope, name) = Unset THEN exported[name] ELSE Lookup(scope, name)

DropArray(scope, name, d) ==
  [scope EXCEPT !.arrays =
     {array \in @ : ~(array.name = name /\ array.depth = d)}]

(* Mutant: the assignment goes to the global name past a local one.        *)
AssignTokenGlobal(scope, token, conditional) ==
  DropArray(WithEnvAt(scope, 0, ApplyAssignment(scope.global, token)),
            token.name, 0)

(* One NAME=value of an assignment statement.  Under then, else, elif or   *)
(* do the new value is also kept as an alternative; elsewhere it ends the  *)
(* alternatives of its depth.                                              *)
AssignToken(scope, token, conditional) ==
  LET d    == LocalFrame(scope, token.name)
      kept == {i \in DOMAIN scope.alts :
                 ~(scope.alts[i].name = token.name /\ scope.alts[i].depth = d)}
      set  == DropArray(WithEnvAt(scope, d,
                ApplyAssignment(EnvAt(scope, d), token)), token.name, d)
  IN  [set EXCEPT !.alts =
         IF conditional
         THEN Append(@, [depth |-> d, name |-> token.name,
                         value |-> Lookup(set, token.name)])
         ELSE Selected(@, kept)]

SetVisible(scope, name, value) ==
  LET d == LocalFrame(scope, name)
  IN  DropArray(WithEnvAt(scope, d, SetEnv(EnvAt(scope, d), name, value)),
                name, d)

(* mapfile drops the scalar of its depth, also the mark of a local name.   *)
SetArray(scope, name, values) ==
  LET d    == LocalFrame(scope, name)
      bare == WithEnvAt(DropArray(scope, name, d), d,
                        UnsetEnv(EnvAt(scope, d), name))
  IN  [bare EXCEPT !.arrays =
         @ \cup {[depth |-> d, name |-> name, values |-> values]}]

-----------------------------------------------------------------------------
(* Function calls.                                                         *)

(* Mutant: a call gets no frame of its own.                               *)
PushFrameNever(scope) == scope

PushFrame(scope) == [scope EXCEPT !.locals = Append(@, EmptyEnv)]

(* The alternatives of the frames up to a depth.                           *)
AltsUpTo(alts, d) == Selected(alts, {i \in DOMAIN alts : alts[i].depth <= d})

(* Mutant: a return leaves the exports it has put back on the list.        *)
PopScopeKeepsSaved(scope) ==
  LET d == Len(scope.locals)
  IN  [scope EXCEPT !.locals = SubSeq(@, 1, d - 1),
                    !.alts   = AltsUpTo(@, d - 1),
                    !.arrays = {array \in @ : array.depth <= d - 1}]

(* What a return leaves of the scope, and of the exported names.           *)
PopScope(scope) ==
  LET d == Len(scope.locals)
  IN  [scope EXCEPT !.locals = SubSeq(@, 1, d - 1),
                    !.saved  = {save \in @ : save.depth # d},
                    !.alts   = AltsUpTo(@, d - 1),
                    !.arrays = {array \in @ : array.depth <= d - 1}]

PopExports(scope, exported) ==
  [name \in Name |->
     LET mine == {save \in scope.saved :
                    save.depth = Len(scope.locals) /\ save.name = name}
     IN  IF mine = {} THEN exported[name]
         ELSE (CHOOSE save \in mine : TRUE).previous]


-----------------------------------------------------------------------------
(* Builtins that assign.                                                   *)

(* export: -n drops names; NAME=value sets the name here and in the        *)
(* environment; NAME copies the value of the command's own environment,    *)
(* or else the shell's, to both.                                           *)
ExportOne(state, word, local) ==
  LET value == IF "append" \in DOMAIN word
               THEN ApplyAssignment(state.exported, word)[word.name]
               ELSE IF local[word.name] # Unset THEN local[word.name]
                    ELSE Lookup(state.scope, word.name)
  IN  IF value = Unset THEN state
      ELSE [exported |-> SetEnv(state.exported, word.name, value),
            scope    |-> SetVisible(state.scope, word.name, value)]

ApplyExports(exported, scope, unexport, words, local) ==
  FoldLeft(LAMBDA state, word :
             IF unexport
             THEN [state EXCEPT !.exported = UnsetEnv(@, word.name)]
             ELSE ExportOne(state, word, local),
           [exported |-> exported, scope |-> scope], words)

(* declare, typeset, local and readonly: where the name goes, ...          *)
Declares == {"declare", "local", "readonly"}
Word == Token \cup [name : Name]
ToGlobal(scope, base, flags) ==
  \/ base = "readonly"
  \/ base = "declare" /\ (scope.locals = <<>> \/ "g" \in flags)
  \/ base = "local" /\ "g" \in flags
DeclDepth(scope, toGlobal) == IF toGlobal THEN 0 ELSE Len(scope.locals)

AssignDecl(scope, token, toGlobal) ==
  LET d == DeclDepth(scope, toGlobal)
  IN  DropArray(WithEnvAt(scope, d, ApplyAssignment(EnvAt(scope, d), token)),
                token.name, d)

(* a bare name only marks itself where it is not known yet, ...            *)
RememberName(scope, name, toGlobal) ==
  LET d == DeclDepth(scope, toGlobal)
  IN  IF EnvAt(scope, d)[name] # Unset
         \/ (d = 0 /\ LocalFrame(scope, name) # 0)
      THEN scope
      ELSE WithEnvAt(scope, d, SetEnv(EnvAt(scope, d), name, <<>>))

(* and -x exports the visible value, to be put back on return.             *)
ExportHere(scope, exported, name, toGlobal) ==
  LET d     == Len(scope.locals)
      save  == [depth |-> d, name |-> name, previous |-> exported[name]]
      first == \A old \in scope.saved : ~(old.depth = d /\ old.name = name)
  IN  IF Lookup(scope, name) = Unset
      THEN [scope |-> scope, exported |-> exported]
      ELSE [exported |-> SetEnv(exported, name, Lookup(scope, name)),
            scope |-> IF ~toGlobal /\ d # 0 /\ first
                      THEN [scope EXCEPT !.saved = @ \cup {save}]
                      ELSE scope]

BindDeclaration(scope, exported, base, flags, words) ==
  LET toGlobal == ToGlobal(scope, base, flags)
      set(before, word) ==
        IF "append" \in DOMAIN word
        THEN AssignDecl(before, word, toGlobal)
        ELSE RememberName(before, word.name, toGlobal)
      one(state, word) ==
        IF "x" \in flags
        THEN ExportHere(set(state.scope, word), state.exported, word.name,
                        toGlobal)
        ELSE [state EXCEPT !.scope = set(@, word)]
      nothing == \/ base = "local" /\ scope.locals = <<>>
                 \/ base = "readonly" /\ ~(flags \subseteq {"a", "A", "p"})
  IN  FoldLeft(one, [scope |-> scope, exported |-> exported],
               IF nothing THEN <<>> ELSE words)

-----------------------------------------------------------------------------
(* read and mapfile.                                                       *)

(* The input that won on the command: a process, else a file, else the     *)
(* last heredoc when a heredoc or here-string came last.  Loading one      *)
(* gives a text, or "unscanned" (past one megabyte), or "absent".          *)
Loaded == [kind : {"text", "unscanned", "absent", "none"}, text : Text]
Input == [proc : Loaded, file : Loaded, heredocs : Seq(Text),
          heredocWins : BOOLEAN]
CommandText(input) ==
  CASE input.proc.kind # "none" -> input.proc
    [] input.proc.kind = "none" /\ input.file.kind # "none" -> input.file
    [] OTHER ->
         IF input.heredocWins /\ input.heredocs # <<>>
         THEN [kind |-> "text", text |-> Last(input.heredocs)]
         ELSE [kind |-> "absent", text |-> <<>>]

(* One name keeps the trimmed line; of several, each takes a field and     *)
(* the last keeps what remains.                                            *)
ReadIfsFields(line, count) ==
  LET stop(text) == Earliest(Places(text, Ifs), Len(text) + 1)
      rest[nth \in 1..count] ==
        IF nth = 1 THEN Trim(line)
        ELSE DropLeading(From(rest[nth - 1], stop(rest[nth - 1])))
  IN  [nth \in 1..count |->
         IF nth = count THEN rest[nth]
         ELSE Before(rest[nth], stop(rest[nth]))]

BindRead(scope, names, text) ==
  LET fields == ReadIfsFields(Line(text), Len(names))
      step[i \in 0..Len(names)] ==
        IF i = 0 THEN scope ELSE SetVisible(step[i - 1], names[i], fields[i])
  IN  step[Len(names)]

MapfileOption == [delim : Letter, strip : BOOLEAN, limit : Nat, skip : Nat,
                  origin : Nat, callback : BOOLEAN, quantum : Nat]
MapfileRecords(text, delim, strip) ==
  LET records == Records(text, delim)
  IN  [k \in DOMAIN records |->
         IF strip THEN Chomp(records[k], delim) ELSE records[k]]

Least(m, n) == IF m < n THEN m ELSE n

(* mapfile with -O origin, -s skip, -n limit and -c quantum: the array it  *)
(* leaves, whether its callback runs, and whether it is too long to scan.  *)
BindMapfile(scope, name, opts, text) ==
  LET raw   == MapfileRecords(text, opts.delim, opts.strip)
      limit == IF opts.limit = 0 THEN Len(raw) ELSE opts.limit
      lines == Least(Len(raw), opts.skip + limit)
      kept  == SubSeq(raw, opts.skip + 1, lines)
  IN  [unscanned |-> opts.origin > MapfileOriginCap,
       callback  |-> opts.callback /\ lines >= opts.quantum,
       scope |-> IF opts.origin > MapfileOriginCap THEN scope
                 ELSE SetArray(scope, name,
                        [i \in 1..opts.origin |-> <<>>] \o kept)]

-----------------------------------------------------------------------------
(* What eval reads.                                                        *)

(* The array that is not hidden by a scalar of its frame or an inner one.  *)
HasArray(scope, name, d) ==
  \E array \in scope.arrays : array.depth = d /\ array.name = name
VisibleDepth(scope, name) ==
  LET known == {d \in 1..Len(scope.locals) :
                  scope.locals[d][name] # Unset \/ HasArray(scope, name, d)}
  IN  IF known = {} THEN 0
      ELSE CHOOSE d \in known : \A other \in known : other <= d
VisibleArray(scope, name) ==
  LET d == VisibleDepth(scope, name)
  IN  IF HasArray(scope, name, d)
      THEN (CHOOSE array \in scope.arrays :
              array.depth = d /\ array.name = name).values
      ELSE Unset

AltVisible(scope, alt) ==
  IF alt.depth = 0 THEN LocalFrame(scope, alt.name) = 0
  ELSE /\ alt.depth <= Len(scope.locals)
       /\ \A d \in (alt.depth + 1)..Len(scope.locals) :
            scope.locals[d][alt.name] = Unset

AltValues(scope, name) ==
  LET seen == Selected(scope.alts, {i \in DOMAIN scope.alts :
                /\ scope.alts[i].name = name
                /\ AltVisible(scope, scope.alts[i])})
  IN  [i \in DOMAIN seen |-> seen[i].value]

AddNew(values, value) ==
  IF Contains(values, value) THEN values ELSE Append(values, value)

(* A parameter is $name or ${name[0]}, ${name[index]}, or ${name[@]}.      *)
Param == [name : Name, index : Nat, all : BOOLEAN]
JoinWords(values) == JoinWith(<<Blank>>, values)
ScalarParam(spec, value) ==
  IF spec.index = 0 \/ spec.all THEN value ELSE <<>>
ArrayParam(spec, values) ==
  IF spec.all THEN JoinWords(values)
  ELSE IF spec.index + 1 \in DOMAIN values THEN values[spec.index + 1]
       ELSE <<>>

(* The texts one parameter may stand for; the word as it is (original)     *)
(* when nothing is known of the name.                                      *)
ParameterText(scope, exported, local, spec, single, original) ==
  LET name     == spec.name
      array    == VisibleArray(scope, name)
      here     == ShellValue(scope, exported, name)
      values   == FoldLeft(AddNew, IF here = Unset THEN <<>> ELSE <<here>>,
                           AltValues(scope, name))
  IN  IF single /\ local[name] \notin {Unset, exported[name]}
      THEN <<ScalarParam(spec, local[name])>>
      ELSE IF array # Unset THEN <<ArrayParam(spec, array)>>
      ELSE IF values = <<>> THEN <<original>>
      ELSE IF spec.index # 0 /\ ~spec.all THEN << <<>> >> ELSE values

(* The first EVAL_VARIANT_CAP combinations of two lists of texts.          *)
Combine(prefixes, parts, separator) ==
  LET total == Len(prefixes) * Len(parts)
      glued(left, right) ==
        IF left = <<>> THEN right ELSE left \o separator \o right
  IN  [k \in 1..Least(total, EvalVariantCap) |->
         glued(prefixes[(k - 1) \div Len(parts) + 1],
               parts[((k - 1) % Len(parts)) + 1])]

(* A word is a sequence of pieces, a literal text or a parameter.          *)
ExpandEvalWord(scope, exported, local, word) ==
  FoldLeft(LAMBDA texts, piece :
             Combine(texts,
                     IF "spec" \in DOMAIN piece
                     THEN ParameterText(scope, exported, local, piece.spec,
                                        word.single, piece.original)
                     ELSE <<piece.text>>, <<>>),
           << <<>> >>, word.pieces)

EvalScripts(scope, exported, local, words) ==
  FoldLeft(LAMBDA texts, word :
             Combine(texts,
                     ExpandEvalWord(scope, exported, local, word), <<Blank>>),
           << <<>> >>, words)

=============================================================================
