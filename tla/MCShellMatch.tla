---------------------------- MODULE MCShellMatch ----------------------------
(***************************************************************************)
(* One variable with two texts, one function, three rows of which one is   *)
(* shell.deep, scripts nested two deep and commands of a few segments.     *)
(***************************************************************************)
EXTENDS ShellMatch

CONSTANTS a, b   \* letters

MCLetter == {a, b, Blank, Newline}
MCName == {"x"}
MCFn == {"f"}
MCRow == {"plain", "rm", "shell.deep"}
MCRank == [row \in MCRow |->
             CASE row = "plain" -> <<0, 0, 800>>
               [] row = "rm"    -> <<1, 0, 900>>
               [] OTHER         -> <<0, 1, 1000>>]
MCTokens == {[name |-> "x", value |-> <<a>>, append |-> FALSE],
             [name |-> "x", value |-> <<b>>, append |-> FALSE],
             [name |-> "x", value |-> <<b>>, append |-> TRUE]}
MCPrefixWords ==
  {<<>>, << [name |-> "x", value |-> <<b>>, append |-> FALSE] >>}
(* Each flag where it matters: with a value; without one; and with +=.     *)
Assigned == [name |-> "x", value |-> <<a>>, append |-> FALSE]
Declared ==
  {<<flags, Assigned>> : flags \in {{}, {"x"}, {"g"}, {"g", "x"}}}
    \cup {<<flags, [name |-> "x"]>> : flags \in {{}, {"x"}}}
    \cup {<<{}, [Assigned EXCEPT !.append = TRUE]>>}
MCDeclarations ==
  {[base |-> base, flags |-> said[1], words |-> <<said[2]>>] :
     base \in Declares, said \in Declared}
None == [kind |-> "none", text |-> <<>>]
MCInputs ==
  {[proc |-> None, file |-> None, heredocs |-> << <<Blank, b, Newline>> >>,
    heredocWins |-> TRUE],
   [proc |-> None, file |-> [kind |-> "unscanned", text |-> <<>>],
    heredocs |-> <<>>, heredocWins |-> FALSE]}
MCMapfileOptions ==
  {[delim |-> Newline, strip |-> TRUE, limit |-> 0, skip |-> 0,
    origin |-> said[1], callback |-> said[2], quantum |-> 1] :
     said \in {<<0, FALSE>>, <<0, TRUE>>, <<2, FALSE>>}}

(* A command that used a form is followed while it is short.               *)
Followed == strays = {} \/ steps < 2

=============================================================================
