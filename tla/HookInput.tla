------------------------------ MODULE HookInput ------------------------------
(***************************************************************************)
(* What `snapif hook' and `snapif gate' make of a call: the turn of the    *)
(* user that goes with it, how strict the rows of a policy are, and the    *)
(* scripted scorer that stands in for a model.  A text is a sequence of    *)
(* words; a turn of no words is no turn.                                   *)
(***************************************************************************)
EXTENDS GateDecision, SequencesExt

CONSTANTS
  Claim,       \* the words of an approval, as approval_excerpt looks for them
  Cut,         \* the mark clip_turn leaves: no word, and no gap between two
  ClipAt,      \* longest turn that is sent whole
  ClipKeeps,   \* words kept of each end of a longer one
  TailCells,   \* TAIL_BYTES: cells read of a transcript, at most
  TailLines    \* TAIL_LINES

ASSUME ClaimAssumption ==
  Claim \in Seq(STRING) /\ Claim # <<>> /\ Cut \notin Range(Claim)
ASSUME ClipAssumption == /\ ClipAt \in Nat /\ ClipKeeps \in Nat
                         /\ 2 * ClipKeeps <= ClipAt
ASSUME GridAssumption == Unit % Cardinality(HarmClass) = 0
ASSUME TailAssumption == TailCells \in Nat /\ TailLines \in Nat

FirstIndex(places, otherwise) == IF places = {} THEN otherwise ELSE Min(places)
After(seq, i) == SubSeq(seq, i + 1, Len(seq))

-----------------------------------------------------------------------------
(* The turn.                                                               *)

(* approval_excerpt: the claim stands in the text, its words in a row.     *)
ClaimPlaces(text) ==
  {i \in DOMAIN text :
     /\ i + Len(Claim) - 1 <= Len(text)
     /\ SubSeq(text, i, i + Len(Claim) - 1) = Claim}
Claims(text) == ClaimPlaces(text) # {}
Excerpt(text) ==
  SubSeq(text, Min(ClaimPlaces(text)), Min(ClaimPlaces(text)) + Len(Claim) - 1)

(* Mutant: the two ends are put side by side.                              *)
ClipTurnJoins(text) ==
  IF Len(text) <= ClipAt THEN text
  ELSE SubSeq(text, 1, ClipKeeps) \o After(text, Len(text) - ClipKeeps)

ClipTurn(text) ==
  IF Len(text) <= ClipAt THEN text
  ELSE SubSeq(text, 1, ClipKeeps) \o <<Cut>> \o After(text, Len(text) - ClipKeeps)

(* The trusted texts of a turn: what is kept of it and, when the claim is  *)
(* in what was cut, the claim by itself.                                   *)
TrustedOf(turn) ==
  {ClipTurn(turn)} \cup (IF Claims(turn) /\ ~Claims(ClipTurn(turn))
                         THEN {Excerpt(turn)} ELSE {})

(* A row of a transcript counts when a user wrote it and it says something.*)
SessionRow == [user : BOOLEAN, text : Seq(STRING)]
UserRowText(row) == IF row.user THEN row.text ELSE <<>>
LastTurn(rows) ==
  LET said == {i \in DOMAIN rows : UserRowText(rows[i]) # <<>>}
  IN  IF said = {} THEN <<>> ELSE rows[Max(said)].text

(* A transcript on disk: each row is written as two cells, of which the    *)
(* second ends the line.  A line that is not a whole row is not JSON.      *)
Cell == [part : {1, 2}, row : SessionRow]
EndsLine(cell) == cell.part = 2
IsRow(line) ==
  /\ Len(line) = 2 /\ line[1].part = 1 /\ line[2].part = 2
  /\ line[1].row = line[2].row
LineStarts(cells) ==
  {i \in DOMAIN cells : i = 1 \/ (i > 1 /\ EndsLine(cells[i - 1]))}
LineAt(cells, i) ==
  SubSeq(cells, i, FirstIndex({j \in i..Len(cells) : EndsLine(cells[j])},
                              Len(cells)))
LastLines(starts) ==
  {i \in starts : Cardinality({j \in starts : j >= i}) <= TailLines}

(* The last turn among the lines read; the first of them may be the end of *)
(* a longer one and is dropped when the tail began inside the file.        *)
DropFirstLine(cells) ==
  After(cells, FirstIndex({i \in DOMAIN cells : EndsLine(cells[i])}, Len(cells)))
TurnOf(cells, inside) ==
  LET read == IF inside THEN DropFirstLine(cells) ELSE cells
      said == {i \in LastLines(LineStarts(read)) :
                 /\ IsRow(LineAt(read, i))
                 /\ UserRowText(read[i].row) # <<>>}
  IN  IF said = {} THEN <<>> ELSE read[Max(said)].row.text

-----------------------------------------------------------------------------
(* The rows of a policy.                                                   *)

(* action_rank: a row with a block on destruction before one that          *)
(* escalates when unsure, and that before one with a higher threshold.     *)
ActionRank(policy, id) ==
  LET row    == policy.actions[id]
      blocks == \E i \in DOMAIN row.block_on : row.block_on[i].id = "destructive"
      auto   == IF row.auto # Unset THEN row.auto
                ELSE IF policy.default_action.auto # Unset
                THEN policy.default_action.auto ELSE (4 * Unit) \div 5
  IN  (IF blocks THEN 2 * (Unit + 1) ELSE 0)
        + (IF row.when_unsure = "escalate" THEN Unit + 1 ELSE 0) + auto

-----------------------------------------------------------------------------
(* The scripted scorer.                                                    *)

Failure == [failed |-> TRUE, answers |-> <<>>, fallback |-> {}]
Replied(answers) == [failed |-> FALSE, answers |-> answers, fallback |-> {}]

(* FakeBackend gives the label its confidence and shares the rest among    *)
(* the other five, or gives all six the same when that would be less.      *)
(* In the runs Unit is a multiple of 30 and confidences of 5, so that it   *)
(* comes out even.                                                         *)
Labels == Cardinality(HarmClass)
FakeChoice(label, confidence) ==
  LET each == (Unit - confidence) \div (Labels - 1)
      even == each > confidence
  IN  [kind |-> "choice", confidence |-> confidence, label |-> label,
       top_prob |-> IF even THEN Unit \div Labels ELSE confidence,
       margin |-> IF even THEN 0 ELSE confidence - each]
FakeNoul(p) == [kind |-> "noul", confidence |-> p, label |-> NotALabel,
                top_prob |-> p, margin |-> p]

Scripted(script) ==
  IF script.timeout THEN Failure
  ELSE Replied([id \in BatteryNoul \cup {HarmId} |->
                  CASE id = HarmId -> FakeChoice(script.harm, script.confidence)
                    [] id # HarmId /\ id \in DOMAIN script.nouls ->
                         FakeNoul(script.nouls[id])
                    [] OTHER -> FakeNoul(0)])
ScriptOk(script) ==
  \/ script.timeout
  \/ /\ script.confidence \in Score /\ script.harm \in HarmClass
     /\ \A id \in DOMAIN script.nouls \cap BatteryNoul :
          script.nouls[id] \in Score

=============================================================================
