# A TLA+ verification of snapif

snapif decides whether a tool call of an agent may run. A host hands `Client::gate`
a call and its state; the library picks a policy row, asks a scoring backend a few
questions and folds the answers into `Auto` (no objection), `Review` or `Escalate`.
This directory holds TLA+ modules translated from the Rust source, TLC
configurations that check them on small instances, and proofs, checked by TLAPS, of
what matters most. Paths below are relative to the repository's `src/` directory
(`gate.rs` is `src/gate.rs`); README means the repository's own.

## 1. Inventory

| component | source | state it keeps | operations | what is hard | what makes it correct |
|---|---|---|---|---|---|
| Gate decision | `gate.rs` `gate_uncached`, `policy.rs` `effective_gates`, `verdict_from_signal`, `answer.rs`, `wire.rs` `check_response`, `verdict.rs` | none between calls; within one call the thresholds, the response, the current verdict and the loop positions | check the policy, encode, evaluate, check the response, read the harm label, blocks, extra questions, truncation, close on failure | early returns in loops; folds whose order matters; boundaries of thresholds; `effective_gates` called twice around the await | Auto is earned; a failure never gives Auto; a worse label, from the row's class up, or one more question never loosens the verdict; what the cascade keeps clears the thresholds of the policy |
| Client | `gate.rs` `gate_with`, `record`; `backend.rs` `Client` | overrides for `fail` and `shadow`, cache with a cap and a time to live, `log_lock` | `gate`, `gate_with`, `fail`, `shadow`, `replace_fake` | concurrent calls around one await, dropped futures, stale entries, a log that fails after the decision | replies are logged, cache bounded and sound, every reply in the mode in force, calls come back |
| Cascade | `backends/cascade.rs` | the rule; the keys of two hops | `evaluate`, `replace_api_key` | partial answers, merging per question, hops that answer late, a swap in two places without a lock | forced answers are the fallback's; sure ones are not lost; marks tell the truth; keys agree |
| HTTP backend | `backends/http.rs` | the key behind a mutex | `evaluate`, `replace_api_key` | retries, `retry-after`, silence at any point, rotation meanwhile | bounded requests, none behind the deadline, one key per call, it ends |
| Replay log | `gate.rs` `append_gate_log` | a file shared by clients and processes | append one row | a row is several `write(2)` calls; crashes; disk full | rows of one client do not mix; what was reported recorded is there |
| Shell matcher | `policy.rs` 355-25568 | `ShellScope`: frames, exports, functions, arrays, while one command is read | `matched_action`; `fold_print` of a script that prints; `executed_argv` of one command | a long case analysis with an environment that is copied and published back; text tools worked out without running them; commands handed on by others; a depth cap | the row is the strictest of the parts; what `eval` may run is scored; no printed line is lost |
| Policy files | `policy.rs` 120-355, `policies/` | `Policy` | parse, check, seal | defaults and TOML shapes | what is accepted satisfies `check_invariants` |
| Command line, hook | `bin/snapif.rs` | none | `gate`, `ask`, `explain`, `hook`, `test`, `calibrate`, `replay` | reads the policy twice; reads the tail of a transcript that is being written, portion by portion | the row is the one owed, the decision that of the client's policy, the turn that of one moment; a logged row replays to its verdict |
| Typed ask, packs | `backend.rs` `ask`, `question.rs`, `battery.rs`, `review.rs`, `screen.rs`, `triage.rs`, `macros.rs` | none | `ask` and its decoders | shares the wire with the gate | decoders refuse what they cannot type |
| Scorecard | `scorecard.rs` | counts | add, rates | zero denominators | totals agree with rows |
| Fake backend | `backends/fake.rs` | a script | `evaluate` | a row of the log has to become a script that scores the same | replay repeats the verdict |
| Supporting types | `ids.rs`, `state.rs`, `usage.rs`, `error.rs`, `lib.rs` | data | - | - | - |

How they interact: the hook and the other commands build a `Client` and call `gate`.
`gate` looks in the cache, else calls the backend (the only await), which may be a
cascade of two backends, each of which may be the HTTP one. Before a verdict leaves,
`record` appends a row to the log under `log_lock`; only then it goes into the cache.
`replace_api_key` enters from another thread and touches the keys the hops read.
The hook asks the matcher for the row of the call, after `open_client` has read the
same policy file for the client. `matched_in` walks a command segment by segment; a
segment may run a script of its own, whose text is an argument, a variable, or what a
pipe of text tools prints, which `fold_print` works out.

## 2. Modules

| module | models | EXTENDS / INSTANCE |
|---|---|---|
| `GateDecision` | the pure part of the gate: operators for thresholds, signals, the response check, the folds, `Closed`, and `Judge`, the verdict of a whole call stated at once | Integers, Sequences, community modules |
| `GatePipeline` | `gate_uncached` as a state machine, one step per stage or loop iteration | `GateDecision` |
| `GateClient` | `gate_with` of several callers of one client, with cache, log lock and overrides | `GateDecision`; INSTANCE `GateService` |
| `GateService` | the abstract specification: what `gate` promises, with no cache layout, lock or eviction | - |
| `Cascade` | `Cascaded::evaluate` next to threads in `replace_api_key` | - |
| `HttpHop` | `HttpBackend::evaluate` next to a thread in `replace_api_key` | - |
| `GateLog` | `append_gate_log` at the level of `write(2)` | - |
| `ShellText`, `ShellArgs` | texts as sequences of letters; the loop over arguments the `*_query` functions share | community modules |
| `ShellVars` | `ShellScope`: names, frames, exports, arrays, branches | `ShellText` |
| `ShellMatch` | `matched_in` and `consider_segment` as a state machine, one segment per step, with a stack of suspended scans | `ShellVars` |
| `ShellTools`, `ShellFilters`, `ShellCodecs`, `ShellArchives`, `ShellScripts` | what each text tool accepts and prints: the selectors; sed, awk, sort and the line tools; the decoders; the archivers; the one-liners | each the one before it, `ShellTools` the texts and arguments |
| `ShellPipe` | `run_stage`: one command of a pipe with its redirections | `ShellScripts` |
| `ShellBash` | external: what the shell and the tools do | `ShellText` |
| `ShellFold` | `fold_print` beside that shell, one command per step | `ShellPipe`, `ShellBash` |
| `ShellWords` | `executed_argv`, `prefix_hit`: the words of one command without its wrappers | community modules |
| `ShellHands`, `ShellGit` | the commands a command hands on; those git runs of its own accord | `ShellWords` |
| `ShellRows` | from a command to the rows it touches | `ShellHands`, `ShellGit` |
| `HookInput` | the turn, the ranks of rows and the scripted scorer behind `hook` and `gate` | `GateDecision`, community modules |
| `CommandLine` | one run of `hook` or `gate` beside a session and an editor, then `replay`; the matcher is a parameter | `HookInput` |
| `HookRows` | the matcher a run takes for that parameter: the command of a call, and its row | `HookInput`, `ShellRows` |
| `GatePipelineProofs`, `CommandLineProofs`, `GateClientProofs`, `CascadeProofs`, `HttpHopProofs`, `GateLogProofs`, `ShellMatchProofs`, `ShellFoldProofs` | theorems and proofs, the refinement of `GateService` among them | the module they are about, TLAPS |
| `MC*` | constants for TLC | the module they instantiate |

### GateDecision and GatePipeline

Scores are integers on a grid `0 .. Unit` (`Unit` stands for 1.0; a missing number is
`Unset`), so each threshold can lie below, on or above each score. A tolerance of
`1e-12` is smaller than any step of the grid and left out. Harm labels are
`None < Read < Write < Exec < Network < Money`, hints `HintAuto < HintReview <
HintEscalate`, as the derived `Ord` of the enums orders them. An answer is a record of
its kind, confidence, top probability, margin and label, which a response may set
independently (the wire does not tie them together).

`stage` is the position in `gate_uncached`; `call` its arguments; `gates` the
`EffectiveGates`, which is computed twice, before the await and again with the decoded
label; `response` the answers and the set of ids the cascade marked; `at` the loop
index; `verdict` the verdict folded so far. One action stands for each early return
(`PolicyRefused`, `EncodeFails`, `BackendFails`, `ResponseRejected`,
`BlockUnreadable`, `BlockFires`) and one for each iteration that goes on
(`BlockPasses`, `FoldUnsureBlock`, `FoldExtra`). `Finish` applies the truncation bump.
A definition under a comment `Mutant:` is a plausible bug of the one after it, kept to
show which property would catch it; no specification uses it.

### GateClient and GateService

One action per piece of `gate_with` between two points where another caller can run:
`Start`, `CacheHit`/`CacheMiss` (under the cache lock), the refusals, `Evaluate` and
its results, `Dropped` (the future is dropped at its only await), `TakeLogLock`,
`RowAppended` or `AppendFails`, `Store`. `Reconfigure` is `Client::fail` and
`Client::shadow`, which take the client by value and so run only between calls;
`ReplaceFake` clears the cache. The key is the record that the code hashes:
the request, the policy without `shipped_id` (which serde skips), the model, the
timeout (one value here) and the shadow mode in force. A client with both a log and a
cache is modelled; without one of them it does less.

`GateService` says only: an answer is judged afresh for the call, or was judged at
most the time to live ago for a call with the same key and was not an outage; it is
published before it is seen, or the caller gets an escalation. It may forget anything
at any time. `GateClient` implements it under the mapping `Service`: the memory is
what the cache holds, `lookup` is "asked", `uncached` and `evaluating` are "scoring".
The scorer is not asked while a live verdict is remembered, and a hit, which is not
fresh, does not renew its entry.

### Cascade, HttpHop, GateLog

`Cascade` has the two hops as nondeterministic backends which answer any subset of the
questions, surely or not, or fail, in time or late: `evaluate` hands each a deadline and
puts no timeout around it, so `Tick` asks nothing of a running hop. `Merge`, `Retry`,
`ForcedGap` and `Marked` are the helpers of the source. A rotation is three separate
steps (`SwapFirst`, `SwapFallback`, `Rollback`), since no lock spans them.

`HttpHop` lets the server and the network do anything at any time. Time is in units
of the first back off (100 ms); a request's timeout is what is left until the
deadline. Status codes are one per class the code tells apart (200, 302, 401, 422,
429, 500, 529). Base URL and redirect origin checks are not modelled.

`GateLog` splits a row into `Pieces` appends (`writeln!` on an unbuffered file formats
straight into `write`); `Killed` ends a process between any two of them. `log_lock` is a
field of each `Client`, so `lock` has one entry per client: threads of one client take
turns, two clients on one file do not, whether they share a process or not.

### The shell matcher: three models

The matcher is 25 000 lines of one function calling itself. What is hard in it splits
three ways, and each part has its own model.

`ShellMatch` is the walk. What a segment is made of is chosen by the action, so the
behaviours are the scans of every command up to `MaxSegments`: a match, a function, an
assignment, `export`, `declare`, `printf -v`, `read`, `mapfile`, `cd`, `eval`, a
function call, a child shell, a substitution. `scope` and `exported` are the
`ShellScope` and the environment; a vector that is read by its last entry is a function
from names. `Scan` pushes a frame on `stack` and `Returns` pops it; the height of the
stack is `depth`. `real` is not of the program: it holds what bash would have in its
variables, so that what `eval` scores can be compared with what bash would run. Nor is
`strays`: it notes which of the `Forms` that the scan reads otherwise than bash does
(section 6) a command has used so far. A form is a step like any other; the actions have
no guard against it.

`ShellFold` is the text. A letter stands for itself, a tool's option values for what the
parsers make of them (`Value` and the tables over it), a compressed file is a tree of
forms. `folded` is what `fold_print` keeps between the pieces of a script, `shell` the
same of the shell, `pipe` the pipeline under way in both. A piece ends in two parts, as
in the loop of `fold_print`: what it printed is kept (`KeptPiece`), and its join says
whether the next one runs (`Chained`). A piece that `run_command` does not follow is
tried as a read back, a loop or command that prints a file it reads (`PieceRun`); only
then it is left as a command. `strays` notes here, too, the forms a script has used.
`ShellBash` says what each command does in a record of its own, so that also the reading
of its arguments is held against it.

`ShellRows` is one command: `executed_argv` peels wrappers such as `sudo`, `env`,
`timeout` and `nice` off (`ExecutedArgv`); `Scripts` lists what shells, `find -exec`,
`ssh`, `docker` and their kin are given to run; `GitScripts` what git runs for an
alias, a hook or a configured program. A text is cut at its blanks; there is no
tokenizer. `RowsIn` takes the rows of all of them, one level down at a time.

### HookInput and CommandLine

`pc` walks a run: `ReadBody`, `OpenFromFlag` or `OpenFromEnvironment` (the first reading
of the policy), `CheckScript`, `FindTurn` with `OpenTranscript`, `ReadOn` and
`ReadTranscript`: `read_to_end` reads portion by portion, each of any size, until there
is no more, and the host may write between any two of them. Then `NameRow`/`MatchRow`
(the second reading), `Ask`, `Replay`. Beside it `SessionWrites` appends to the
transcript, in whole rows or in parts, or begins it anew, and `EditPolicy` rewrites a
policy file. A transcript is a sequence of cells (one of the run's begins with a row that
was torn), a turn a sequence of words. `Ask` uses `Judge` of `GateDecision`, the operator
that `LoopsJudge` shows to be what the loops of the gate compute, so the decision that is
printed is that of the modelled gate. `LogRow` makes the row of the log, and `Scripted`
the answers its script comes to when it is replayed.

`CommandOf` and `MatchedRow` are constants, which the run gives the operators
`HookCommand` and `Matched` of `HookRows`, and so the whole of `ShellRows`. What
`CommandLine` itself needs of a matcher is `MatcherAssumption`: the row it finds is one
that `RowsOwed` says the call is owed, from the programs its command runs.

## 3. Runs

| run | instance | shows |
|---|---|---|
| `GatePipeline` | grid of quarters, 40 policies (both block lists, all orders of thresholds, three signals), 8 requests, 384 well-formed and 7 malformed responses | `LoopsJudge`: the loops with their early returns compute `Judge`. `AutoIsEarned`, `FailureStaysShut`, `WorseLabelNeverLoosens`, `ExtrasOnlyTighten`, `KeptIsDecided` |
| `GateClient` | 2 callers, 3 calls (good, unencodable, refused policy), cap 1, time to live 1, clock to 2, 2 settings of the overrides | `CacheBounded`, `OutagesAreOwn`, `OneWriter`, `RepliesAreLogged`, `ShadowIsCurrent`, `EveryCallReturns`, `ImplementsService` |
| `Cascade` | 2 questions, one of them forced or none, deadline 3, first budget 2, one rotating thread | `ForcedFromFallback`, `UnsureIsFlagged`, `MarksAreTrue`, `SureAnswersStay`, `RotatedKeysAgree` |
| `HttpHop` | deadline 8, 3 retries, `retry-after` absent, 0 or too long, 2 keys | `OneKeyPerCall`, `RequestsAreBounded`, `EvaluationEnds` |
| `GateLog` | 2 threads of one client, one of another client of their process, one of another process, 2 pieces | `RowsDoNotMix`, `RecordedRowsAreThere` |
| `ShellMatch` | 1 variable, 2 texts assigned or added to it, 1 function, 3 rows, depth 2, 5 segments, branches and isolated segments | `EvalCoversShell`, `StrictestRowWins`, `NothingOutlivesItsFrame` |
| `ShellFold` | 140 commands of the text tools over small files, 2 commands in a pipe, 3 pieces joined by `;`, `&&`, `\|\|` | `PipeIsFollowed`: a single pipeline prints what the code says it prints. `FoldCoversOutput`, `FoldIsExact`: so does a script of pipelines |
| `CommandLine` | 26,145 calls and settings: `git push` bare and behind each wrapper, shell, host and git program, two deep; 5 policies, one of them broken, a tail of 5 cells, 1 edit | `TurnOfOneMoment`, `DecidedAsOwed`, `ReplayRepeats`; as an assumption, so for every one of these calls under every policy it may meet, `MatcherAssumption`: the wrappers, shells, hosts and git programs of `HookRows` are seen through |
| `FailOverride` | 1 caller, `fail` unset or closed | violated: section 6 |
| `KeyRotation` | 2 rotating threads | violated: section 6 |
| `Both` | as `ShellMatch`, 3 segments | `BothValuesStay` violated: section 6 |
| `LaterPrinter` | as `ShellFold`, 1 command in a pipe | `LaterPrinterIsKept` violated: section 6 |

Each machine but `CommandLine` has one type invariant, `TypeOK`. The runs check it, but
for that of `ShellFold`, which is proved. For each property of a passing run
`PROJECT.json` names a mutant of a modelled definition which breaks it.

Why the bounds are enough. `GatePipeline`: the code compares numbers only with each
other, and four steps leave room for a score strictly below, on and above
`escalate_below`, `review_below` and `auto`; lists of two blocks and two extra questions
show every order of a pass, a hit and an unsure one. `GateClient`: the callers are
symmetric and share the cache and the lock, so two show every race between a pair; one
entry and two keys force eviction; a clock to 2 lets an entry be fresh, last at the limit
and expire. `MaxTime` only bounds the clock. `Cascade`: the questions are treated one by
one except in `ForcedGap` and in the test for an empty retry, for which two questions
show all cases. `HttpHop`: 1 + 2 + 4 fits the deadline of 8 and any further wait does
not. `GateLog`: a lock shared, one beside it in the same process and one in another; two
pieces leave a place in between to be broken at. `ShellMatch`: a frame below and one
above the one that changes, or the cap itself, need depth 2; a leak takes an assignment,
a script that begins, a change in it and an `eval` behind it, and a function has to be
defined first, which makes 5 segments (a return is none). A command that has used a form
is followed while it is short, since `EvalCoversShell` says nothing of it; the other
three properties were checked of such commands to that length, and are proved.
`ShellFold`: a tool sees a text another one made (2 in a pipe); a guess takes 3 pieces,
as in `a && b || c`. `MaxText` stops the third piece from building on longer texts;
`Openers`, commands that read a file and not their input, only begin a pipe.
`CommandLine`: a wrapper around a wrapper around `git push` is one below `shell.deep`;
`MaxCells` 6 is one more than `TailCells`, so the tail is cut, and `ClipAt` 4 cuts a turn
between the two words of a claim. The log is on and can be written (a log that breaks is
in `GateClient`), a valid backend is named, replay runs once, and a policy file exists
only if the run names it.

Forms. Some forms the matcher reads otherwise than bash does, by its own stated limits or
without a word; section 6 lists them. Those of `Forms` in `ShellMatch` and `ShellFold`
happen in the behaviours like all else, and are noted in `strays`: `EvalCoversShell`,
`FoldCoversOutput` and `FoldIsExact` speak of the commands and scripts that have used
none, and say with it that besides the listed forms there is no other, among the modelled
commands. What a comment in the source promises of one of them is a property by itself,
`BothValuesStay` and `LaterPrinterIsKept`, and fails. Forms without a name in `Forms` are
left out of the commands of the MC modules.

Deadlock is checked for `GateClient`, `Cascade` and `HttpHop`, where something
(the clock, the host) can always go on, and off where calls, scans or runs simply end.

Fairness. `GateClient`: weak fairness of the steps of each caller; each await has a
deadline and the executor polls. Nothing is assumed of the order in which the
standard mutex admits waiters, which is why `EveryCallReturns` excepts a caller
beside which others take the log lock again and again. `Cascade`: none; that an
evaluation ends is up to the hops it awaits, and `HttpHop` shows that an HTTP hop ends.
`HttpHop`: weak fairness of the task's own steps
and of the clock; none of the server or network.

## 4. Proofs

For all values of the constants, under the named assumptions of the modules, which TLC
evaluates on the constants of the runs. Most say what the structs hold: a positive
`Unit` and cap, callers distinct from `NoCaller`, policies, requests and responses with
their fields (`GatePipeline`). Those of `CommandLine` say that a policy which loads
passed `check_invariants`, that a transcript is a sequence of cells of rows, that the
mark `Cut` is no word of a claim, that a sixth is on the grid (`GridAssumption`, for
`split_mass`), and `MatcherAssumption`. That one is more than a type: a matcher
recurses over the command, so TLC checks it for each call of the run. So is
`ReadBacksAssumption` of `ShellFold`, that a loop which reads a file back prints the
text of that file but for newlines at the end; TLC checks it for each idiom and file of
the run.

`GatePipelineProofs`. Lemmas on the operators of the decision come first: `AbsorbIs` and
`StrictestIs` (a fold is the strictest of what was folded), `HitFirst` and `HitNone` (the
first block that fires, or none), `HitCases`, and `JudgeMonotone`: a verdict is no milder
when its thresholds are no looser and its contributions no fewer. `CommandLineProofs`
states those four that it needs again. `Invariance` proves `Spec => []Inv`.
`AutoIsEarned` alone is not inductive: when the last loop ends, nothing says what the
earlier loops saw. `Inv` adds
- `Entered`: what the guards of the stages passed so far have established (policy
  checked, request encodable, response checked) and that `gates` are those of the
  decoded label,
- `BlocksPass`: every block before the loop index does not fire,
- `StillAuto`: while the verdict is `HintAuto`, the harm signal clears the threshold
  and every unsure block and extra question already folded clears its own.

`BumpIsNotAuto` and `AbsorbStrictest` are the two lemmas on the folds; `SignalVerdict`
says when a signal gives Auto; `ClosedIsShut` when a failure may be softened. The
theorems on single verdicts are `TypeCorrect`, `AutoEarned`, `FailureShut` and
`KeptClearsThresholds`. The last follows from the floors that `check_invariants` puts
under `cascade_min`, and says no more than they give: the confidence of a kept noul lies
outside the policy's own unsure band, that of a kept choice reaches `escalate_below`. A
block with a band of its own, or a policy that goes by margin or top probability, may
still find a kept answer unsure.

`LoopsComputeJudge` needs a second invariant, `JudgeInv`: `LoopsJudge` speaks of ended
calls only, so `Gathered` says what is in the verdict at each stage, namely the strictest
of the signal's, of the unsure blocks and of the extra questions before the loop index,
and `Unanswered` that nothing was answered before the await. `FoldsOne` is one turn of a
loop: the strictest of what was folded and the next is the strictest of all up to it. The
sets behind the index replace an induction over the lists. Two whole runs are then
compared by `Judge` alone. `WorseNeverLoosens`: `WorseGates` shows that a worse label
gives no looser thresholds, `WorseTightens` the rest, case by case of the early returns.
Both labels are as strong as the row's class; below it the claim is false (a write row is
Review under the label `none` and may be Auto under `write`). `ExtrasNeverGrant`: without
the extra questions the same blocks are read and fewer verdicts are folded
(`ExtrasTighten`).

`GateClientProofs`. `Inv` is `Shapes`, `CacheInv` (an entry's time is past, its verdict
is cacheable and has the shadow mode of its key, the cache is finite and within its
cap) and `CallerInv` for each caller (lock held exactly while appending, the row
written exactly from then on, shadow mode as in force, an outage only as its own). A
step of one caller leaves the invariant of the others alone (`OthersKeepCallerInv`).
`StoreKeepsInv` carries the cardinality argument of the eviction. The theorems are
`TypeCorrect`, `CacheStaysBounded`, `OutagesStayOwn`, `LogLockExcludes`,
`RepliesLogged` and `ShadowCurrent`.

`Refinement` proves `Spec => ImplementsService` from the same
`Inv`: initial states map to initial states, and each action of `GateClient` to one
action of `GateService`, except `Evaluate` and `TakeLogLock`, which map to stutters.
`PhaseMoves` gives the phase a caller moves to; `FewerKeysForget` and
`SameCacheForgetsNothing` relate the cache to the service's memory.

`CascadeProofs`. `Inv` says that a result is `Truthful` with respect to what the two hops
returned (`Answered`). `KeptIsTruthful`, `FallbackIsTruthful` and `MergeIsTruthful` are
the lemmas on the three ways to make one. The theorems are `TypeCorrect`,
`ForcedAnswered`, `UnsureFlagged`, `MarksTrue` and `SureStay`. `RotationInv` says where
the new key is in each step of a rotation, and gives `OneRotatorAgrees`:
`RotatedKeysAgree` under `OneRotator`, any sequence of rotations and refusals. With two
it is false, as `KeyRotation` shows.

`HttpHopProofs`. The retry is counted only after the sleep, so `Counted` tells by stage
whether the requests are `retries` or one more; `Keyed` and `InTime` speak of every
request sent. The theorems are `TypeCorrect`, `OneKey` and `RequestsBounded`.

`GateLogProofs`. `FileInv` counts the pieces of each row in the file (`Counted`), puts
them where their writer remembers them (`Placed`), in order (`Ordered`), and makes a
reported row whole (`Whole`); `RecordedThere` follows, for any clients, processes,
failures and kills. `RowsStayApart` needs the lock besides: it names the open thread of
its client (`Holds`), and who has not begun has written nothing (`Unbegun`). It is about
the threads of one client, with any number of other clients and processes beside them;
rows of two clients do mix (section 6).

`ShellMatchProofs`. `StrictestWins` proves `Spec => []StrictestRowWins` for any rows and
ranks, any commands and cap. While scans are suspended the strictest row may be in any
of them, so `Inv` says that each matched row is `Covered` by one that is `Held`, in
`best` or on the stack. `StepsByKind` reduces the actions to four kinds (still, match,
suspend, return), since the walk touches `best` in no other way; `RanksAreOrdered` and
`PreferCovers` are the lemmas on ranks.

`Whole` is for the variables: scope, environment and bash's variables have their types,
in the scan under way and in each `Suspended` one, a scope keeps for its frames what
`WithinFrames` says, and bash has as many frames beside it (`Beside`). Suspended scans are
in it since an isolated one gives its own scope back when it returns. Each operation on
the scope has a lemma that it keeps a scope `Sound` and its frames as many (`PutSound`,
`AssignTokenSound`, `PopSound`, ...), each kind of step one (`LeaveKeeps`, `ScanKeeps`,
`ReturnKeeps`), and each action one. `TypeCorrect` and `FramesHoldTheirOwn` are the
theorems. A prefix, `export`, a declaration and the choice of some alternatives go through
a list of any length in a fold; `FoldThere` shows that the function which the library's
`FoldLeft` chooses is there, `FoldTyped` that what its steps keep holds of its end, both
from the least length where it would fail.

`EvalCovers` proves `Spec => []EvalCoversShell`, for any names and texts, any number of
segments and any depth, with no hypothesis: `strays` only grows (`StraysGrow`), so a
command that has used no form yet had used none before, and the invariant is on those.
What `eval` scores is right only if the scan has kept up with bash until then, so the
invariant is on all that it keeps. A `Variable` takes one name out of scope, environment
and bash's variables, with what it has at each depth; `Agrees` says how the two sides
belong together: the same frames have the name (`SameLocals`), at each depth the scan has
bash's text or has it as an alternative (`TextsFit`, `Fits`), an array stands alone
(`ArrayAlone`), and what is exported now, and what a return will put back (`Later`), is
the text of that depth (`ExportedIsSet`, `SavesOfLocals`). A name that is only inherited
has no text in the scope, so that bash's must be the exported one (`InheritedIsHeld`).

That holds of the running scan and of every suspended one (`Stands`, on `Level`). A
function or `source` works on the variables of its caller, and nothing in its own scope
tells what the caller had; `Lasting` relates the two levels: what will be exported once
the calls above a depth have returned was not lost meanwhile, by which a return finds
the exports it puts back (`PublicIs`, `RestoredIs`). `export -n` outside of calls would
break that, and may, as no caller is below (`NoLocals`). The lemmas come in layers: on
one `Variable` (`CalledAgrees`, `StartedAgrees`, ...), on the changes of scope and of
bash's variables (`SetVisibleGoes`, `AssignsGo`, `ExportOneGoes`, `DeclaresGo`,
`MapfilesGo`, `CalledFollows`, `ReturnedFollows`), on what `eval` reads
(`EvaluatesCovers`) and on the stack (`RunningStands`, `SuspendedStands`,
`ResumedStands`), then one for each action. The forms of section 6 from exports to
`NAME+=value` were met in this proof, as the steps that it failed at; TLC then had the
commands.

`ShellFoldProofs`. What one command prints is the business of many tools, over which no
one argument goes; TLC compares them one by one (`PipeIsFollowed`). What a script of them
prints is proved from that: `CoversOutput` and `IsExact` have the hypothesis
`[]PipeIsFollowed`, the invariant the run checks, speak of scripts that use none of the
`Forms`, and hold for any number of pieces and any joins, for pipelines of any length,
and for texts of any letters and length, where the run stops at three pieces and
`MaxText` letters. `FoldCoversOutput` itself is not inductive: a last line without its
newline goes on in the next text, so that two texts with the same lines may differ in
them once more is printed. `Covers` is what is: the lines of one text are among those of
the other whatever is printed next. A text to the letter keeps it (`CoversSame`), a text
with the same lines or fewer keeps it behind texts that have ended (`CoversMore`), and so
does a text that the fold adds and the shell does not print (`CoversLonger`). Where none
of the three holds lies a form (`StageForms`, `Decided`), as section 6 lists them.
`Alongside` adds what an exit that is not known does: the fold runs each piece the shell
may run, and skips one only for an exit that is the shell's. `Same` is the rest of
`FoldIsExact`. Below them are the lemmas on texts: `LineIs` says where a line of a text
lies, `LinesAre` derives it from the folds that cut a text up, and `LinesOfConcat`,
`LinesOfStrip` and `EndOfConcat` say what joining and stripping do to lines.
`TypeCorrect` is `Spec => []TypeOK` with no hypothesis.

`CommandLineProofs`. `Inv` is for the replay: the files hold what some call began with or
an editor wrote (`SomeCall`), the client was opened with a policy that loads
(`ClientLoaded`), a script that reaches the scorer was checked (`ScriptChecked`), the row
in the log is that of the verdict the call was given (`Logged`), and a replay is of that
row (`ReplayedRow`). `RowReplays` is the step that counts: the script of a row, scored by
the fake backend, gives an answer with the same signal (`SignalComesBack`, `Shares` on
the arithmetic of `split_mass`) and the same label and nouls (`ScriptedAnswers`), and
answers that agree in these are judged alike (`AlikeJudgedAlike`). `RowsReplay` is the
theorem, with the exceptions that `Replayable` names and no others.

`Decision` is for the other: transcript and turn are of their types (`Sessions`), the
flag is read only when it is given (`FlagNamed`), the policy of the client is the one the
second reading finds unless the file was edited between them (`OneVersion`), the row is
one due under the second reading (`RowDue`), and what is printed is what the client's
policy, the first reading, makes of it (`ShownVerdict`). The claim of the whole turn is
sent with it whether the turn is cut or not (`TurnClaims`, by `ExcerptClaims`, and
`ClippedClaims`: a claim in a cut turn lies in one of its ends, since the claim does not
hold `Cut`). `DecisionOwed` is the theorem: it says of a file rewritten in between that
row and thresholds come from two versions, and that they do then only. What the matcher
owes is `MatcherAssumption`, which TLC evaluates for the modelled matcher. Least and
greatest places, which the community modules define by CHOOSE, are there by `LeastThere`
and `GreatestThere`.

`Moments` is for the turn. Before the transcript is open no moment is noted (`Unopened`);
what has been read is a part of the tail as it is now (`ReadSoFar`), since the file only
grows while it is read or is begun anew, which is excepted between two reads;
while its tail is read, every length it has had since it was opened, or else since it was
begun anew, is a moment of the session (`Witnessed`), so a read that takes its length at
one time and its bytes at another still ends at one of them (`ReadingOfAMoment`). The work
is to show that the two ways to find a turn agree: the code looks behind the first end of
a line it has read and counts lines by where they begin, `TurnNow` looks in the whole
transcript and counts lines by where they end. `SameCount` maps the one to the other, and
`SameTurn` draws from it that both find the same words. When the file was begun anew
the old length may place the beginning of the read too far in; such a read finds the turn
of its moment or none (`LaterReading`), and none was the turn while the new file was empty
(`NoTurnYet`). `OneMoment` is the theorem, for any transcript, rows and limits of
the tail. A row counts for `TurnNow` only when it is a line of its own: behind a row that
was torn the code reads both as one line and finds no row in it, and without this the
claim is false as soon as a transcript holds a torn row.

Only model-checked:
- liveness under fairness (`EveryCallReturns`, `EvaluationEnds`), which TLAPS does not
  reach;
- `PipeIsFollowed`, which compares the code with what particular commands do, one by
  one: it is a hypothesis of the theorems of `ShellFoldProofs`, and the run checks it for
  the commands and files of `MCShellFold`;
- `MatcherAssumption`: the matcher calls itself, so `ShellWords`, `ShellHands`,
  `ShellGit` and `ShellRows` hold RECURSIVE operators, and TLAPS proves nothing where
  they are reached. `HookRows` alone reaches them, and no module of proofs does.

## 5. Not modelled

- Of the shell matcher: the tokenizer and quoting, here documents, `case` arms, cmd
  batch files, script files, PowerShell's `-File`, `-Command -` and bodies of
  `.ps1` files, `split --filter`, interpreters that load modules, the directory that
  `cd` leaves for git hooks (in `ShellMatch` `cd` is only a segment that matches nothing).
- Policy files: the TOML parser and the shipped packs are data. What
  `check_invariants` accepts is modelled in `GateDecision`.
- Of the command line: `ask`, `explain`, `test`, `calibrate` and the installer, which
  print or loop over calls of the modelled kind.
- Typed `ask` and the question packs: one straight line from encode through the await
  to decoders that keep no state; encode and the response check are in `GateDecision`.
- The scorecard and the supporting types: counts over a finished list, and data.
- The call counters and planned failures of the fake backend, which only unit tests use.
- `verdict_with_blocks`, a public helper that `gate` does not use. `gate_many` is a loop
  of `gate_with`; an empty action id is refused before anything happens; a poisoned log
  lock gives the same escalation as a failed append.

Hazards without a property: the keys of the two hops of one evaluation (`cascade.rs`
119: a key rotated while the first is awaited is used by the fallback) and a hop that
overstays its deadline (`cascade.rs` 99), which `Cascaded` leaves to its hops; the flags
of the escalation for an unwritten row (`gate.rs` 385), as no document says what they
should be; `shipped_id` outside the key (`policy.rs` 61) and collisions of
the 64 bit key (`gate.rs` 479), as the key is modelled by the body it hashes;
the margin of a choice with one probability (`answer.rs` 116), which the model
takes as an input of its own.

What would come next: the tokenizer as operators over letters, in front of
`ShellWords`; a machine for typed `ask` and its packs; the scorecard as operators.

## 6. Disagreements met

- `backend.rs` 190: `Client::fail` overrides the policy's `fail` for `gate()`. The cache
  key leaves the override out, and a `Wire` or `Decode` failure verdict is cached, so a
  `Review` from the open setting outlives `fail(Fail::Closed)`. Run `FailOverride`.
- `backend.rs` 256: the next evaluation uses the key that `replace_api_key` was given.
  Two rotations at once, one of them refused: the roll back of the refused one takes
  the first hop back from the accepted one. Run `KeyRotation`.
- `policy.rs` 15388: behind `then`, `else`, `elif` and `do` both values of a name stay
  visible to `eval`. `assign_token` (1790) overwrites the value and keeps only the new one
  as an alternative, so in `x=a; if c; then x=b; fi; eval "$x"` the `a` is not scored. Run
  `Both`.
- `policy.rs` 16755: behind an unknown exit `&&` and `||` still keep a later printer. The
  fold goes on with the exit of the side it ran (16783), so of `a && b || c` it loses `c`.
  Run `LaterPrinter`.

Others were met that no run shows. README line 256 says that a milder label than the row
stays off Auto; `effective_gates` (`policy.rs` 25589) does so for rows from write upwards.
README line 267 says that the log gets one row per gate; clients on one file, of one
process or two, can write into each other's line, and a torn row is continued by the next.
`backend.rs` 258 says that a call already inside `evaluate` keeps the key it copied; the
fallback of a cascade copies its key only when it is called.

One more thing to know, on which no document says otherwise: when the log cannot be
written, the escalation in its place has neither pack nor shadow flag.

### Replay

README line 206 promises only that a failed backend replays to its verdict; the code
does more, with these exceptions, which `Replayable` names: a row judged by margin
replays from a margin spread anew (m becomes m - (1 - m)/5); a truncated row replays
without the bump; a claim under a struck-out argument key is lost; a row closed because
a block could not be read replays by its label under `fail = "open"`; a logged score of
an extra question above 1 makes the replay fail.

### Forms the fold reads otherwise than the shell

- Behind an exit that is not known the fold takes one side of `&&` or `||` and drops
  the other (run `LaterPrinter`).
- A text without a final newline is glued to the next one; a tool that selects lines
  sees another order behind `sort`.
- `tr`, `sort`, `cat -A`, `paste -s` and `fmt` are taken to print their input; `uniq -d
  -f1`, `tac -b`, `2>&1 1>&2`, `sed -n 2,1p`, `awk 'NR==3,NR==1'`, anchors in sed,
  `grep ''`, `grep -iE 'A+'`, a second `-e`, `printf` with more arguments than its
  format, `echo --`, and `-` as the name of standard input are read in part.
- `> f` and then `cat f` reads what `f` held before; a substitution inside a word keeps
  its blanks; `while read` does not trim.
- Decoders stop at the first member of a gzip or bzip2 file, and at a CLEAR code of
  compress; of a tar member that is asked for only the first is printed; formats without
  a magic number are taken to refuse plain text; `perl -pe` is the identity; `puts` and
  `console.log` add no newline; the byte count of php's `readfile` is left out; base64
  inside `node --eval` is not decoded. The byte ranges of `split -n` are those of
  coreutils from 9.2 on.

### Forms the walk reads otherwise than bash

- A conditional assignment drops the value from before it (run `Both`), an
  exported name keeps its first value when it is assigned or exported again (1681 to
  1698), and `declare X` or `export -n X` in a child shell hides the inherited value.
- `mapfile` into a local drops the mark of a local; `readonly` makes no local; a
  function that is defined in an isolated segment stays known; `export -n` inside a
  function or `eval` is not published; a prefix assignment before a function that
  declares the name; and more than 8 possible texts of an `eval` are cut off without a
  word.
- A local that `export` and not `declare -x` exports stays exported after the return
  (1654 to 1697), and `declare -gx` of a name with a local exports the text of the local.
- `NAME+=value` (15373) adds to one text of a name that has alternatives and drops the
  others, to nothing where the name is an array of `mapfile`, and behind `export` or as
  a prefix to the exported text alone.

### Forms one command is read otherwise than it runs

- An option value attached to `sudo -u` that holds an l or v is taken for `-l` or `-v`.
- `bash -c 'git push'` as the words of docker, kubectl, `find -exec`, flock, chroot,
  nsenter or systemd-run is joined without its quotes.
- `time X=1 git push` is not matched, while `nice -n 5 X=1 git push` and `timeout 5 X=1
  git push` are, which would run a program named `X=1` (comment at `policy.rs` 3744).
  An assignment in front of the program of `find -exec` or docker, a keyword behind a
  wrapper and any program behind busybox are matched.
- The scan for a local path in `git_uses_ssh` begins at the word `git` itself, so
  `/usr/bin/git` or `-C a/b` keeps `core.sshCommand` from being looked at; `git merge -n`
  is taken for `--no-verify`; a program that git starts is looked at without the `-c`
  bindings it inherits; `env -i` and `env -u` do not clear them either.
