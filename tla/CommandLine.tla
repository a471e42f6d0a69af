----------------------------- MODULE CommandLine -----------------------------
(***************************************************************************)
(* One run of `snapif hook' or `snapif gate' from the call it is given to  *)
(* the decision it prints, beside a host that goes on writing the          *)
(* transcript and an editor that rewrites the policy files; then a run of  *)
(* `snapif replay' over the row the call has logged.                       *)
(***************************************************************************)
EXTENDS HookInput

CONSTANTS
  Calls,       \* [setup, body, disk]: the runs, [via, flag, env, shadow, fake],
               \* the calls they are given and the policy files they find
  Versions,    \* what a policy file may hold: policies, and BadPolicy
  Replies,     \* what a model may answer, and Failure
  SessionRows, \* rows the host may write
  Histories,   \* transcripts before the run
  NoSpec,      \* no file is named
  Shipped,     \* the policy tool-gate
  BadPolicy,   \* a file that is missing or does not load
  CommandOf(_),         \* the command of a call: its kind, and its text
  MatchedRow(_, _, _),  \* the row a policy has for a tool and a command
  MaxCells,    \* bound: cells of the transcript
  MaxEdits     \* bound: times a policy file is rewritten

(* What a policy loads as, for a run: the shipped policy, or a file's.     *)
PoliciesOf(given) ==
  ({Shipped} \cup (IF DOMAIN given.disk = {} THEN {}
                   ELSE Versions \cup Range(given.disk))) \ {BadPolicy}
Loadable == UNION {PoliciesOf(given) : given \in Calls}

ASSUME LoadableAssumption ==
  \A policy \in Loadable :
    CheckInvariants(policy) /\ policy.signal \in SignalKind
ASSUME CallsAssumption ==
  \A given \in Calls :
    /\ {given.setup.flag, given.setup.env} \subseteq DOMAIN given.disk \cup {NoSpec}
    /\ given.body.prompt \in Seq(STRING)
    /\ given.body.inline \in Seq(SessionRow)
ASSUME RepliesAssumption ==
  \A answer \in Replies :
    \/ answer = Failure
    \/ ~answer.failed /\ answer.answers \in [DOMAIN answer.answers -> Answer]
ASSUME SessionAssumption ==
  SessionRows \subseteq SessionRow /\ Histories \subseteq Seq(Cell)

(* What the matcher owes a call: the row of its tool, or else the strictest*)
(* row of the programs its command really runs, and the row shell.deep     *)
(* when some of them lie too deep; without either the name of the tool.    *)
RowsRun(policy, called) ==
  LET begins(i, program) ==
        /\ policy.prefixes[i].tool = called.tool
        /\ policy.prefixes[i].words
             \in {SubSeq(program, 1, n) : n \in 1 .. Len(program)}
      hits(program) == {i \in DOMAIN policy.prefixes : begins(i, program)}
  IN  {policy.prefixes[Min(hits(program))].action :
         program \in {p \in called.runs : hits(p) # {}}}
        \cup {id \in DOMAIN policy.actions : called.deep /\ id = "shell.deep"}
StrictestRun(policy, called) ==
  {id \in RowsRun(policy, called) :
     \A other \in RowsRun(policy, called) :
       ActionRank(policy, id) >= ActionRank(policy, other)}
RowsOwed(policy, called) ==
  IF called.tool \in DOMAIN policy.actions \/ RowsRun(policy, called) = {}
    THEN {called.tool}
  ELSE StrictestRun(policy, called)

ASSUME MatcherAssumption ==
  \A given \in Calls : \A policy \in PoliciesOf(given) :
    LET called  == given.body
        command == CommandOf(called.command)
    IN  (command.kind # "invalid" \/ called.tool \in DOMAIN policy.actions)
          => MatchedRow(policy, called.tool, command) \in RowsOwed(policy, called)

VARIABLES
  setup, body,  \* of the run
  pc,           \* its next step
  disk,         \* path -> version
  transcript,   \* the cells of the transcript file
  client,       \* the policy the client was opened with
  action,       \* the row the call goes to
  turn, length, \* the turn; how long the transcript was when it was opened
  bytes,        \* what has been read of it
  row,          \* what the run has logged
  outcome,      \* what the run has decided
  replayed,     \* what the replay has found
  \* for the properties alone:
  edits,        \* rewrites so far
  edited,       \* the file was rewritten between the two readings
  matched,      \* the policy the row was looked for in
  renewed,      \* the transcript was begun anew between two reads
  turns,        \* the turn at each moment since the transcript was opened
  reply         \* what the scorer answered

call == <<setup, body>>
world == <<disk, transcript, edits, edited, turns, renewed>>
vars == <<call, world, pc, client, action, matched, turn, length, bytes, row,
          outcome, replayed, reply>>

NotLogged == [logged |-> FALSE]
NotReplayed == [done |-> FALSE]

(* --policy wins over SNAPIF_POLICY.                                       *)
Load(spec) == IF spec = NoSpec THEN Shipped ELSE disk[spec]
(* Mutant: SNAPIF_POLICY wins over --policy.                               *)
LoadPolicyEnvFirst(flag, env) == Load(IF env # NoSpec THEN env ELSE flag)

LoadPolicy(flag, env) == Load(IF flag # NoSpec THEN flag ELSE env)

Hook == setup.via = "hook"
Refusal == IF Hook THEN "deny" ELSE "1"

Init ==
  /\ \E given \in Calls :
       setup = given.setup /\ body = given.body /\ disk = given.disk
  /\ pc = IF setup.via = "hook" THEN "body" ELSE "environment"
  /\ transcript \in IF body.path = "file" THEN Histories ELSE {<<>>}
  /\ client = BadPolicy /\ action = "none"
  /\ turn = <<>> /\ length = 0 /\ bytes = <<>> /\ renewed = FALSE
  /\ row = NotLogged /\ outcome = "none" /\ replayed = NotReplayed
  /\ edits = 0 /\ edited = FALSE /\ matched = BadPolicy
  /\ turns = {} /\ reply = Failure

-----------------------------------------------------------------------------
(* The steps of a run.  The hook reads the call first and the policy files *)
(* later; gate opens its client before it reads the call.                  *)

Step(hookNext, gateNext) == pc' = IF Hook THEN hookNext ELSE gateNext
Refuse == pc' = "done" /\ outcome' = Refusal
Proceed == UNCHANGED outcome
Unread == UNCHANGED <<turn, length, bytes, turns, renewed>>
Still == UNCHANGED <<call, disk, transcript, edits, edited, row, replayed, reply>>
Quiet == Still /\ UNCHANGED matched

BodyOk ==
  /\ body.form = "object"
  /\ Hook => body.size = "fits"
  /\ body.tool # "none"
  /\ ~Hook => body.script.kind # "not an object"
ReadBody ==
  /\ pc = "body"
  /\ IF BodyOk THEN Step("turn", "script") /\ Proceed ELSE Refuse
  /\ Unread /\ UNCHANGED <<client, action>> /\ Quiet

(* Client::from_env loads what the environment names even when the flag    *)
(* names another file.                                                     *)
OpenFromEnvironment ==
  /\ pc = "environment"
  /\ client' = Load(setup.env)
  /\ IF client' = BadPolicy THEN Refuse
     ELSE /\ IF setup.flag = NoSpec THEN Step("script", "body") ELSE pc' = "flag"
          /\ Proceed
  /\ Unread /\ UNCHANGED action /\ Quiet
OpenFromFlag ==
  /\ pc = "flag"
  /\ client' = Load(setup.flag)
  /\ IF client' = BadPolicy THEN Refuse ELSE Step("script", "body") /\ Proceed
  /\ Unread /\ UNCHANGED action /\ Quiet

CheckScript ==
  /\ pc = "script"
  /\ IF \/ body.script.kind = "none"
        \/ body.script.kind = "script" /\ ScriptOk(body.script) /\ setup.fake
     THEN Step("load", "turn") /\ Proceed
     ELSE Refuse
  /\ Unread /\ UNCHANGED <<client, action>> /\ Quiet

(* hook_trusted: what the call holds itself, or else the file it names.    *)
GivenTurn ==
  IF body.prompt # <<>> THEN body.prompt ELSE LastTurn(body.inline)
SaysItself ==
  body.trusted = "object" \/ GivenTurn # <<>> \/ body.path = "none"
Inside == length > TailCells
Start == IF Inside THEN length - TailCells ELSE 0

(* The turn an instant reading would give: of the rows that make a line of *)
(* their own in the tail, behind the first end of a line there when it     *)
(* begins inside the file, and among the last lines, the last of a user.   *)
TurnNow(cells) ==
  LET cut   == IF Len(cells) > TailCells THEN Len(cells) - TailCells ELSE 0
      ends  == {i \in DOMAIN cells : EndsLine(cells[i])}
      begun == IF cut = 0 THEN 0
               ELSE FirstIndex({i \in ends : i > cut}, Len(cells))
      after(i) == Cardinality({j \in ends : j >= i})
                  + (IF EndsLine(Last(cells)) THEN 0 ELSE 1)
      said  == {i \in ends : /\ i - 1 > begun
                             /\ i = 2 \/ EndsLine(cells[i - 2])
                             /\ IsRow(SubSeq(cells, i - 1, i))
                             /\ after(i) <= TailLines
                             /\ UserRowText(cells[i].row) # <<>>}
  IN  IF said = {} THEN <<>> ELSE cells[Max(said)].row.text

FindTurn ==
  /\ pc = "turn" /\ body.trusted # "not an object" /\ SaysItself
  /\ turn' = IF body.trusted = "object" THEN <<>> ELSE GivenTurn
  /\ Step("environment", "load") /\ Proceed
  /\ UNCHANGED <<length, bytes, turns, renewed, client, action>> /\ Quiet
RefuseTrusted ==
  /\ pc = "turn"
  /\ \/ body.trusted = "not an object"
     \/ ~SaysItself /\ body.path = "gone"
  /\ Refuse
  /\ Unread /\ UNCHANGED <<client, action>> /\ Quiet
OpenTranscript ==
  /\ pc = "turn" /\ body.trusted # "not an object"
  /\ ~SaysItself /\ body.path = "file"
  /\ length' = Len(transcript)
  /\ turns' = {TurnNow(transcript)}
  /\ pc' = "tail" /\ Proceed
  /\ UNCHANGED <<turn, bytes, renewed, client, action>> /\ Quiet

(* read_to_end: one read after the other, each of as much as there is or of*)
(* less, until one finds nothing more in the file or in the limit.         *)
Place == Start + Len(bytes)
Reach ==
  IF Len(transcript) < Start + TailCells THEN Len(transcript) ELSE Start + TailCells
ReadOn ==
  /\ pc = "tail"
  /\ \E upTo \in Place + 1 .. Reach :
       bytes' = bytes \o SubSeq(transcript, Place + 1, upTo)
  /\ UNCHANGED <<pc, outcome, turn, length, turns, renewed, client, action>>
  /\ Quiet

(* Mutant: what is read is taken for the end of a file that has grown.     *)
ReadTranscriptAsGrown ==
  /\ pc = "tail" /\ Reach <= Place
  /\ turn' = TurnOf(bytes, Len(transcript) > TailCells) /\ bytes' = <<>>
  /\ Step("environment", "load") /\ Proceed
  /\ UNCHANGED <<length, turns, renewed, client, action>> /\ Quiet

ReadTranscript ==
  /\ pc = "tail" /\ Reach <= Place
  /\ turn' = TurnOf(bytes, Inside) /\ bytes' = <<>>
  /\ Step("environment", "load") /\ Proceed
  /\ UNCHANGED <<length, turns, renewed, client, action>> /\ Quiet

(* The policy is read a second time, and the row is looked for in what was *)
(* read; a call of gate may name its row itself.  A command that is no     *)
(* text stops the hook, and gate unless the tool has a row of its own.     *)
Loaded == LoadPolicy(setup.flag, setup.env)
Command == CommandOf(body.command)
Unmatchable ==
  \/ Loaded = BadPolicy
  \/ Command.kind = "invalid" /\ (Hook \/ body.tool \notin DOMAIN Loaded.actions)

RowNamed == ~Hook /\ body.action # "none"
NameRow ==
  /\ pc = "load" /\ RowNamed
  /\ action' = body.action
  /\ pc' = "ask" /\ Proceed
  /\ Unread /\ UNCHANGED client /\ Quiet
MatchRow ==
  /\ pc = "load" /\ ~RowNamed
  /\ IF Unmatchable THEN Refuse /\ UNCHANGED action
     ELSE /\ action' = MatchedRow(Loaded, body.tool, Command)
          /\ pc' = "ask" /\ Proceed
  /\ matched' = Loaded
  /\ Unread /\ UNCHANGED client /\ Still

(* Client::gate over the call, and the answer the host sees.               *)
Trusted == IF body.trusted = "object" THEN {body.said} ELSE TrustedOf(turn)
RequestOf(id, claim) ==
  [action |-> id, extras |-> <<>>,
   claim |-> claim \/ body.args \in {"claim", "secret claim"},
   body |-> IF ~Hook /\ body.untrusted = "large" THEN "trimmed" ELSE "fits"]
Request == RequestOf(action, \E text \in Trusted : Claims(text))

GateOf(policy, request, answer) ==
  IF answer.failed THEN ClosedOn(policy, request, policy.fail, "backend")
  ELSE Judge(policy, request, policy.fail, answer)

HookAnswer == <<"allow", "ask", "deny">>
GateAnswer == <<"0", "10", "11">>
Shown(rank) == IF ~Hook THEN GateAnswer[rank + 1]
               ELSE IF setup.shadow THEN "allow"
               ELSE HookAnswer[rank + 1]

(* append_gate_log: an argument under a secret key is struck out, and of   *)
(* the untrusted state there is only a length.                             *)
LogOf(request, answer, verdict, timeout) ==
  [logged |-> TRUE, expected |-> verdict.rank, reasons |-> verdict.reasons,
   request |-> [request EXCEPT
     !.claim = (\E text \in Trusted : Claims(text)) \/ body.args = "claim",
     !.body = "fits"],
   script |->
     IF verdict.signal = Unset
       THEN [timeout |-> timeout, confidence |-> 0, harm |-> NotALabel,
             nouls |-> <<>>]
     ELSE [timeout |-> timeout, confidence |-> verdict.signal,
           harm |-> answer.answers[HarmId].label,
           nouls |-> [id \in DOMAIN answer.answers \ {HarmId} |->
                        answer.answers[id].confidence]]]

(* Mutant: a call nobody answered is logged as one of confidence zero.     *)
LogRowZeroSignal(request, answer, verdict) ==
  LogOf(request, answer, verdict, FALSE)

LogRow(request, answer, verdict) ==
  LogOf(request, answer, verdict, verdict.signal = Unset)

Scorer ==
  IF ~setup.fake THEN Replies
  ELSE IF body.script.kind = "none" THEN {Replied(<<>>)}
  ELSE {Scripted(body.script)}

Ask ==
  /\ pc = "ask"
  /\ reply' \in Scorer
  /\ LET verdict == GateOf(client, Request, reply')
     IN  /\ row' = LogRow(Request, reply', verdict)
         /\ outcome' = Shown(verdict.rank)
  /\ pc' = "done"
  /\ Unread
  /\ UNCHANGED <<call, disk, transcript, edits, edited, client, action, matched,
                 replayed>>

-----------------------------------------------------------------------------
(* Replay reads the policy once more and scores the row with its script.   *)
Replay ==
  /\ pc = "done" /\ row.logged /\ ~replayed.done
  /\ replayed' =
       [done |-> TRUE, policy |-> Loaded,
        rank |-> IF Loaded = BadPolicy \/ ~ScriptOk(row.script) THEN Unset
                 ELSE GateOf(Loaded, row.request, Scripted(row.script)).rank]
  /\ UNCHANGED <<call, world, pc, client, action, matched, turn, length, bytes,
                 row, outcome, reply>>

-----------------------------------------------------------------------------
(* The host, and the editor.                                               *)

Grown(cells, next) ==
  IF cells = <<>> \/ EndsLine(Last(cells))
    THEN Append(cells, [part |-> 1, row |-> next])
  ELSE Append(cells, [part |-> 2, row |-> Last(cells).row])

(* A row is written in two parts, and a new session begins a new file.     *)
SessionWrites ==
  /\ pc = "tail"
  /\ \/ /\ Len(transcript) < MaxCells
        /\ \E next \in SessionRows : transcript' = Grown(transcript, next)
        /\ UNCHANGED renewed
     \/ /\ transcript # <<>> /\ transcript' = <<>>
        /\ renewed' = (renewed \/ bytes # <<>>)
  /\ turns' = turns \cup {TurnNow(transcript')}
  /\ UNCHANGED <<call, pc, disk, client, action, matched, turn, length, bytes,
                 row, outcome, replayed, edits, edited, reply>>

Used == IF setup.flag # NoSpec THEN setup.flag ELSE setup.env
Opened == pc \in IF Hook THEN {"script", "load"}
                 ELSE {"body", "script", "turn", "tail", "load"}
EditPolicy ==
  /\ edits < MaxEdits /\ ~replayed.done
  /\ \E path \in DOMAIN disk, version \in Versions :
       /\ version # disk[path]
       /\ disk' = [disk EXCEPT ![path] = version]
       /\ edited' = (edited \/ (Opened /\ path = Used))
  /\ edits' = edits + 1
  /\ UNCHANGED <<call, pc, transcript, turns, renewed, client, action, matched,
                 turn, length, bytes, row, outcome, replayed, reply>>

Next ==
  \/ ReadBody \/ OpenFromEnvironment \/ OpenFromFlag \/ CheckScript
  \/ FindTurn \/ RefuseTrusted \/ OpenTranscript \/ ReadOn
  \/ ReadTranscript \/ NameRow \/ MatchRow \/ Ask \/ Replay
  \/ SessionWrites \/ EditPolicy

Spec == Init /\ [][Next]_vars

-----------------------------------------------------------------------------
(* Properties.                                                             *)

(* The turn that is sent with a call is one the session was at, at some    *)
(* moment between the opening of the transcript and the end of the last    *)
(* read (transcript_file_tail): rows that come in between two reads, in    *)
(* part or whole, make no turn of their own, and none that lies before     *)
(* another one that was already there; nor does a file that is begun anew  *)
(* before the first read.  One that is begun anew between two reads is     *)
(* excepted: what is read then is of both files.                           *)
TurnOfOneMoment ==
  (turns # {} /\ pc # "tail" /\ ~renewed) => turn \in turns

(* The rows that are due: the one the call names, or those it is owed; and *)
(* what a policy makes of one, with the claim of the whole turn.           *)
RowsDue(policy) == IF RowNamed THEN {body.action} ELSE RowsOwed(policy, body)
Decided(policy, id) ==
  LET said == IF body.trusted = "object" THEN body.said ELSE turn
  IN  GateOf(policy, RequestOf(id, Claims(said)), reply)

(* The row of a call is looked for in a second reading of the policy       *)
(* (action_id_from_tool, hook_cmd), and the call is judged by the first    *)
(* (open_client), for the hook and for gate alike.  The row is due under   *)
(* the policy that was there at the second: the row of what the command    *)
(* runs, behind whatever wrappers, shells and hosts it is handed on by     *)
(* (matched_in), and the row shell.deep when that lies too deep.  The      *)
(* decision is what the policy of the first makes of that row, with the    *)
(* claim of the whole turn: neither a turn that is cut nor the place the   *)
(* turn came from makes or loses a claim of approval.  The two policies    *)
(* are one unless the file was rewritten between the two readings, and     *)
(* then only: a flag and a variable that name two files do not part them.  *)
DecidedAsOwed ==
  row.logged =>
    /\ \E id \in RowsDue(matched) : outcome = Shown(Decided(client, id).rank)
    /\ RowNamed \/ edited \/ matched = client

(* A row of the log replays, and to the verdict it was logged with, under  *)
(* the policy it was judged by (append_gate_log and replay_cmd), a backend *)
(* that failed included.  What a row leaves out is excepted: a prompt that *)
(* was trimmed, a claim under a struck-out key, the probabilities behind a *)
(* margin or behind no top probability at all, which the script spreads    *)
(* anew, the label of a call whose blocks could not be read, and an answer *)
(* to a block's question that the battery does not ask.                    *)
SignalKept ==
  \/ row.script.timeout
  \/ client.signal = "confidence"
  \/ client.signal = "top_prob" /\ row.script.confidence >= Unit \div Labels
Replayable ==
  /\ Request.body = "fits" /\ row.request.claim = Request.claim
  /\ SignalKept
  /\ "decode" \notin row.reasons
  /\ LET blocks == Row(client, action).block_on
     IN  \A i \in DOMAIN blocks : blocks[i].id \in BatteryNoul
ReplayRepeats ==
  (replayed.done /\ replayed.policy = client /\ Replayable)
    => replayed.rank = row.expected

=============================================================================
