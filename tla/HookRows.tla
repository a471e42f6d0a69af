------------------------------- MODULE HookRows -------------------------------
(***************************************************************************)
(* The command of a call, and the row of the policy it goes to: what a run *)
(* of the command line takes for CommandOf and MatchedRow.                 *)
(***************************************************************************)
EXTENDS HookInput, ShellRows

Absent == [kind |-> "absent", text |-> <<>>]
Invalid == [kind |-> "invalid", text |-> <<>>]
Given(text) == [kind |-> "text", text |-> text]

(* The items of a list are trimmed and quoted, so each of them stays one   *)
(* word of the text they make.                                             *)
NotBlank(item) == ToSet(item) \ {Blank} # {}
Trimmed(item) ==
  LET kept == {i \in DOMAIN item : item[i] # Blank}
  IN  SubSeq(item, Min(kept), Max(kept))
Quoted(items) ==
  LET said == SelectSeq(items, NotBlank)
  IN  Joined([i \in DOMAIN said |-> <<Quote(Trimmed(said[i]))>>])
HookCommand(input) ==
  LET text == CASE input.kind = "text" -> input.text
                [] input.kind = "list" -> Quoted(input.items)
                [] OTHER               -> <<>>
  IN  CASE input.kind = "other" -> Invalid
        [] input.kind # "other" /\ SplitAtBlanks(text) = <<>> -> Absent
        [] OTHER -> Given(text)

(* prefer: of two rows that rank the same the earlier one stays.           *)
Preferred(policy, rows) ==
  FoldLeft(LAMBDA best, id : IF ActionRank(policy, id) > ActionRank(policy, best)
                             THEN id ELSE best, Head(rows), Tail(rows))

(* matched_action: the row of the tool's name, or else the strictest of    *)
(* the rows its command touches; without either, the call goes by the name *)
(* of the tool.                                                            *)
RowAmong(policy, tool, rows) ==
  IF tool \in DOMAIN policy.actions \/ rows = <<>> THEN tool
  ELSE Preferred(policy, rows)
Matched(policy, tool, command) ==
  RowAmong(policy, tool, RowsOf(policy, tool, command.text))

=============================================================================
