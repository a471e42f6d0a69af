------------------------------ MODULE ShellArgs ------------------------------
(***************************************************************************)
(* The arguments of a text tool as the matcher's *_query functions read    *)
(* them.  An argument is a word, a cluster of short options (-ab, the last *)
(* perhaps with a value attached) or a long option (--name, --name=value). *)
(* Each query is a loop over the arguments of one shape; Parse is that     *)
(* shape, and a tool gives the options it takes.                           *)
(***************************************************************************)
EXTENDS Naturals, Sequences, SequencesExt

CONSTANTS
  Value,    \* what a word or the value of an option can be
  None,     \* no value
  Stdin,    \* the word -
  Opaque    \* an option that stands where a word is expected

Word(value) == [dash |-> 0, names |-> <<>>, value |-> value]
Short(names, value) == [dash |-> 1, names |-> names, value |-> value]
Long(name, value) == [dash |-> 2, names |-> <<name>>, value |-> value]
EndOfOptions == [dash |-> 2, names |-> <<>>, value |-> None]
AsWord(arg) == IF arg.dash = 0 THEN arg.value ELSE Opaque

(* The options a tool takes: alone, with a value, or with one if it is     *)
(* attached by `='; whether short options may be clustered, whether        *)
(* options may follow an operand, whether - may stand before one, whether  *)
(* -- ends the options, and the options that take no attached value.       *)
Takes(bare, valued) ==
  [bare |-> bare, valued |-> valued, optional |-> {}, cluster |-> TRUE,
   permute |-> TRUE, stdin |-> TRUE, end |-> TRUE, apart |-> {}]

Start == [ok |-> TRUE, opts |-> <<>>, files |-> <<>>, awaits |-> None,
          ended |-> FALSE]
Reject(state) == [state EXCEPT !.ok = FALSE]
AddOption(state, name, value) ==
  [state EXCEPT !.opts = Append(@, [name |-> name, value |-> value])]
AddFile(state, value, ended) ==
  [state EXCEPT !.files = Append(@, value), !.ended = @ \/ ended]

TakeLong(spec, state, name, value) ==
  CASE name \in spec.bare /\ value = None -> AddOption(state, name, None)
    [] name \in spec.optional -> AddOption(state, name, value)
    [] name \in spec.valued /\ value = None ->
         [state EXCEPT !.awaits = name]
    [] name \in spec.valued /\ value # None -> AddOption(state, name, value)
    [] OTHER -> Reject(state)

TakeShort(spec, state, names, value) ==
  LET last   == Last(names)
      first  == FoldLeft(LAMBDA seen, name : AddOption(seen, name, None),
                         state, Front(names))
      bare   == /\ ToSet(Front(names)) \subseteq spec.bare
                /\ Len(names) = 1 \/ spec.cluster
  IN  CASE ~bare -> Reject(state)
        [] bare /\ last \in spec.bare /\ value = None ->
             AddOption(first, last, None)
        [] bare /\ last \in spec.valued /\ value = None ->
             [first EXCEPT !.awaits = last]
        [] bare /\ last \in spec.valued \ spec.apart /\ value # None ->
             AddOption(first, last, value)
        [] OTHER -> Reject(state)

Take(spec, state, arg) ==
  CASE ~state.ok -> state
    [] state.ok /\ state.awaits # None ->
         [AddOption(state, state.awaits, AsWord(arg)) EXCEPT !.awaits = None]
    [] state.ok /\ state.awaits = None /\ (state.ended \/ arg.dash = 0) ->
         IF ~state.ended /\ arg.value = Stdin /\ ~spec.stdin
         THEN Reject(state)
         ELSE AddFile(state, AsWord(arg), ~spec.permute)
    [] OTHER ->
         IF arg = EndOfOptions
         THEN IF spec.end THEN [state EXCEPT !.ended = TRUE] ELSE Reject(state)
         ELSE IF arg.dash = 2
              THEN TakeLong(spec, state, arg.names[1], arg.value)
              ELSE TakeShort(spec, state, arg.names, arg.value)

(* An option that still awaits its value ends the query without an answer. *)
Answer(state) == [ok |-> state.ok /\ state.awaits = None,
                  opts |-> state.opts, files |-> state.files]
Parse(spec, args) ==
  Answer(FoldLeft(LAMBDA state, arg : Take(spec, state, arg), Start, args))

Given(query, names) ==
  LET given == SelectSeq(query.opts, LAMBDA opt : opt.name \in names)
  IN  [i \in DOMAIN given |-> given[i].value]
Has(query, name) == \E i \in DOMAIN query.opts : query.opts[i].name = name
LastOf(values, otherwise) == IF values = <<>> THEN otherwise ELSE Last(values)
LastGiven(query, names, otherwise) == LastOf(Given(query, names), otherwise)

(* The one operand, None without.                                          *)
File(query) == IF query.files = <<>> THEN None ELSE query.files[1]

=============================================================================
