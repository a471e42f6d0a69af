------------------------------ MODULE ShellFold ------------------------------
(***************************************************************************)
(* The text a script prints, folded without running it (fold_print),       *)
(* beside the shell that would run it.  A script grows one command at a    *)
(* time: commands joined by pipes into pieces, pieces joined by ; && and   *)
(* ||.  Each step takes the matcher and the shell one command further.     *)
(***************************************************************************)
EXTENDS ShellPipe, ShellBash

CONSTANTS
  Commands,    \* the commands a script is built from; one with `loads',
               \* [path, first], reads like a read loop when it is a piece
  Openers,     \* those of them only a pipeline begins with
  ReadBacks,   \* the read loops and the like, [path, first, meaning]
  MaxStages,   \* bound: commands in a pipeline
  MaxPieces,   \* bound: pieces in a script
  MaxText      \* bound: letters folded when a third piece begins

ASSUME BoundsAssumption == MaxStages \in Nat /\ MaxPieces \in Nat

VARIABLES
  folded,   \* what fold_print keeps between pieces
  shell,    \* the same of the shell that runs the script
  pipe,     \* the pipeline under way in both
  pieces,   \* how many pieces are folded
  result,   \* what the fold answers, once it does
  strays    \* history: the forms, of those the fold reads otherwise than
            \* the shell does, that the script has used so far

vars == <<folded, shell, pipe, pieces, result, strays>>

IsText(text) == text \in Seq(ToSet(text))

Joins == {";", "&&", "||"}
Exits == {"ok", "failed", "unknown"}
Exit(ok) == IF ok THEN "ok" ELSE "failed"

(* Between two pipelines there is no text and no command.                  *)
NoPipe == [stages |-> 0, run |-> Nothing(TRUE), fed |-> None,
           real |-> [text |-> <<>>, ok |-> TRUE], exact |-> TRUE, back |-> None]

Forms == {"unended", "runOn", "reorder", "guess", "readBack"}
Form(name, used) == {form \in {name} : used}

Init ==
  /\ folded = [text |-> <<>>, exit |-> "ok", runs |-> TRUE, known |-> FALSE,
               extra |-> 0]
  /\ shell  = [text |-> <<>>, ok |-> TRUE, runs |-> TRUE, exact |-> TRUE]
  /\ pipe   = NoPipe
  /\ pieces = 0
  /\ result = "open"
  /\ strays = {}

-----------------------------------------------------------------------------
(* The forms.  The program has no test for them: it goes on as it does,    *)
(* and the shell goes another way.                                         *)

(* A text whose last line does not end, read by a later stage or followed  *)
(* by lines that are only roughly those of the shell; a rough text from    *)
(* which a later stage selects.                                            *)
Ended(text) == text # <<>> => Last(text) = Newline
StageForms(command) ==
  Form("unended", ~Ended(pipe.run.text))
    \cup Form("runOn", ~command.exact /\ ~Ended(folded.text))
    \cup Form("reorder", ~pipe.exact /\ command.meaning.does # "copy")

(* Only one side of a && or || behind an unknown exit runs; the fold takes *)
(* the exit and the text of the side it ran, whether it runs or not.       *)
Decided(found, join) ==
  \/ folded.runs = shell.runs
  \/ found.kind # "produced"
  \/ join = ";" /\ Ended(folded.text) /\ Ended(found.text)

(* Within one piece the shell reads all words of a read-back as arguments  *)
(* of its first, and prints nothing.                                       *)
PieceForms(found, join) ==
  Form("guess", ~Decided(found, join))
    \cup Form("readBack", pipe.run.kind # found.kind /\ found.kind = "produced")

-----------------------------------------------------------------------------
(* run_command: stage after stage, until one is not followed.              *)

Staged(command, run, real) ==
  IF pipe.run.kind # "produced"
  THEN [pipe EXCEPT !.stages = @ + 1, !.back = None]
  ELSE [stages |-> pipe.stages + 1, run |-> run, fed |-> run.text,
        real   |-> IF run.kind = "produced" THEN real ELSE NoPipe.real,
        exact  |-> pipe.exact /\ command.exact,
        back   |-> IF pipe.stages = 0 /\ "loads" \in DOMAIN command
                   THEN command.loads ELSE None]
Stage(command) ==
  /\ result = "open"
  /\ folded.runs \/ shell.runs
  /\ pipe.stages < MaxStages
  /\ pieces < MaxPieces
  /\ pieces < 2 \/ Len(folded.text) <= MaxText
  /\ strays' = strays \cup StageForms(command)
  /\ pipe' = Staged(command, RunStage(command, pipe.fed),
                    ShellStage(command, pipe.real.text))
  /\ UNCHANGED <<folded, shell, pieces, result>>

(* read_back_print and printed_file: a loop that reads a file and prints   *)
(* each line, a mapfile, a read of the first line, or $(<file).            *)
LoadedPrint(path, first) ==
  LET loaded == LoadTextOperand(path)
  IN  CASE loaded.kind = "text" ->
             Produced(IF first THEN Line(loaded.text) ELSE loaded.text, TRUE)
        [] loaded.kind = "unscanned" -> Unscanned
        [] OTHER -> Unknown

(* A piece that run_command does not follow may be a read-back.            *)
PieceRun == IF pipe.run.kind = "unknown" /\ pipe.back # None
            THEN LoadedPrint(pipe.back.path, pipe.back.first) ELSE pipe.run

(* Mutant: an unknown piece counts as one that succeeded.                  *)
KeptPieceOk(found) ==
  CASE ~folded.runs -> folded
    [] folded.runs /\ found.kind = "produced" ->
         [folded EXCEPT !.text = @ \o found.text, !.known = TRUE,
                        !.exit = Exit(found.ok)]
    [] OTHER -> [folded EXCEPT !.exit = "ok", !.extra = @ + 1]

(* The end of a piece: what it printed is kept, an unknown one is left to  *)
(* be matched as a command, and the join says whether the next one runs.   *)
KeptPiece(found) ==
  CASE ~folded.runs -> folded
    [] folded.runs /\ found.kind = "produced" ->
         [folded EXCEPT !.text = @ \o found.text, !.known = TRUE,
                        !.exit = Exit(found.ok)]
    [] OTHER -> [folded EXCEPT !.exit = "unknown", !.extra = @ + 1]

(* Mutant: what && joins runs whatever the exit.                           *)
ChainedEagerly(kept, join) ==
  [kept EXCEPT !.runs = join \in {";", "&&"} \/ kept.exit # "ok"]

Chained(kept, join) ==
  [kept EXCEPT !.runs = \/ join = ";"
                        \/ join = "&&" /\ kept.exit # "failed"
                        \/ join = "||" /\ kept.exit # "ok"]
FoldPiece(found, join) == Chained(KeptPiece(found), join)

(* The shell prints what the fold must cover: all but what is printed by a *)
(* piece that is matched as a command.                                     *)
ShellPiece(found, join, ok) ==
  LET covered == ~folded.runs \/ found.kind = "produced"
      ran     == IF ~shell.runs THEN shell
                 ELSE [shell EXCEPT !.ok = ok,
                         !.text = IF covered THEN @ \o pipe.real.text ELSE @,
                         !.exact = @ /\ pipe.exact]
  IN  [ran EXCEPT !.runs = \/ join = ";"
                           \/ join = "&&" /\ ran.ok
                           \/ join = "||" /\ ~ran.ok]

EndPiece(join) ==
  /\ result = "open"
  /\ pipe.stages > 0
  /\ \E ok \in BOOLEAN :
       /\ pipe.run.kind = "produced" => ok = pipe.real.ok
       /\ shell' = ShellPiece(PieceRun, join, ok)
  /\ folded' = FoldPiece(PieceRun, join)
  /\ strays' = strays \cup PieceForms(PieceRun, join)
  /\ pipe' = NoPipe
  /\ pieces' = pieces + 1
  /\ result' = IF folded.runs /\ PieceRun.kind = "unscanned"
               THEN "unscanned" ELSE "open"

(* A piece that neither runs: its commands do not matter.                  *)
SkipPiece(join) ==
  /\ result = "open"
  /\ pipe.stages = 0
  /\ pieces < MaxPieces
  /\ ~folded.runs /\ ~shell.runs
  /\ folded' = FoldPiece(PieceRun, join)
  /\ shell' = ShellPiece(PieceRun, join, shell.ok)
  /\ pieces' = pieces + 1
  /\ UNCHANGED <<pipe, result, strays>>

(* printed_output: newlines at the end go; without a piece that is known   *)
(* the whole body stays a command.                                         *)
Finish ==
  /\ result = "open"
  /\ pipe.stages = 0
  /\ pieces > 0
  /\ folded' = [folded EXCEPT !.text = StripNewlines(@)]
  /\ result' = IF folded.known THEN "text" ELSE "unknown"
  /\ UNCHANGED <<shell, pipe, pieces, strays>>

(* A read-back that is the whole script, and followed, prints what its     *)
(* idiom does, but for the newlines at the end.                            *)
ASSUME ReadBacksAssumption ==
  \A idiom \in ReadBacks :
    LET run  == LoadedPrint(idiom.path, idiom.first)
        does == Does(idiom.meaning, Paths[idiom.path].text)
    IN  run.kind = "produced" =>
          /\ IsText(run.text) /\ IsText(does)
          /\ StripNewlines(run.text) = StripNewlines(does)

ReadBack(idiom) ==
  LET run == LoadedPrint(idiom.path, idiom.first)
  IN  /\ result = "open"
      /\ pieces = 0 /\ pipe.stages = 0
      /\ folded' = [folded EXCEPT !.text = StripNewlines(run.text),
                                  !.known = run.kind = "produced"]
      /\ shell' = [shell EXCEPT !.text = Does(idiom.meaning,
                                               Paths[idiom.path].text)]
      /\ result' = IF run.kind = "produced" THEN "text" ELSE run.kind
      /\ pieces' = MaxPieces
      /\ UNCHANGED <<pipe, strays>>

Next ==
  \/ \E command \in Commands :
       (command \in Openers => pipe.stages = 0) /\ Stage(command)
  \/ \E join \in Joins : EndPiece(join) \/ SkipPiece(join)
  \/ Finish
  \/ \E idiom \in ReadBacks : ReadBack(idiom)

Spec == Init /\ [][Next]_vars

-----------------------------------------------------------------------------
(* The fold keeps a text, an exit and whether the next piece runs.         *)
TypeOK ==
  /\ folded.exit \in Exits /\ folded.runs \in BOOLEAN
  /\ folded.known \in BOOLEAN /\ folded.extra \in 0..MaxPieces
  /\ shell.ok \in BOOLEAN /\ shell.runs \in BOOLEAN
  /\ pipe.stages \in 0..MaxStages
  /\ pieces \in 0..MaxPieces
  /\ result \in {"open", "text", "unscanned", "unknown"}
  /\ strays \subseteq Forms

(* A pipeline that the fold follows to its end succeeds as it does in the  *)
(* shell and prints the same, to the letter if each of its commands is     *)
(* followed to the letter, and otherwise no line that the fold has not, as *)
(* long as no stage selected from a rough text or read an unended one.     *)
PipeIsFollowed ==
  (strays \cap {"unended", "reorder"} = {} /\ pipe.run.kind = "produced") =>
    /\ IsText(pipe.run.text) /\ IsText(pipe.real.text)
    /\ pipe.run.ok = pipe.real.ok
    /\ pipe.exact => pipe.run.text = pipe.real.text
    /\ ~pipe.exact =>
         /\ Ended(pipe.run.text) /\ Ended(pipe.real.text)
         /\ LineSet(pipe.real.text) \subseteq LineSet(pipe.run.text)

(* Every line the shell prints is a line of the folded text, unless a      *)
(* piece that is left as a command printed it: the matcher scans the text  *)
(* in the place of the script, so a line that is lost is a line never      *)
(* scanned.                                                                *)
Covered == result \in {"open", "text"} =>
             LineSet(shell.text) \subseteq LineSet(folded.text)

(* A script that uses none of the forms is covered.                        *)
FoldCoversOutput == strays = {} => Covered

(* "`None` is an unknown exit. `&&` and `||` then still keep a later       *)
(* printer, because that side runs for one of the two exits": whichever    *)
(* exit it is, what is printed behind it is kept.                          *)
LaterPrinterIsKept == strays \subseteq {"guess"} => Covered

(* A script of which every exit is known and every command followed to the *)
(* letter folds to just the text it prints, and a known exit is the exit   *)
(* the shell sees: a wrong exit would drop the wrong side of && or ||.     *)
FoldIsExact ==
  (/\ strays = {} /\ folded.extra = 0 /\ shell.exact
   /\ result \in {"open", "text"}) =>
    /\ folded.runs = shell.runs
    /\ folded.exit = Exit(shell.ok)
    /\ StripNewlines(folded.text) = StripNewlines(shell.text)

=============================================================================
