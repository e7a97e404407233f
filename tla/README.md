# Formal model of AgentContract

AgentContract watches a tool-using agent. It keeps the user's requirements as
constraints in a ledger, decides before every tool call whether an active
constraint forbids it, records what happened in an append-only trace, and
checks the agent's completion claims against that trace. In production it runs
as short-lived hook processes started by the Codex host; every process loads
the session from files, changes it in memory and saves it again.

This directory holds TLA+ modules translated from the Python source, TLC
configurations that check them on small instances, and TLAPS proofs of the
main results for every instance. Paths below are relative to the repository.

## Inventory

| Component (under `src/agentcontract/`) | State | Operations | Hard behaviours | What makes it correct |
|---|---|---|---|---|
| Constraint ledger (`constraints/`) | dictionary id -> constraint with status, supersession and conflict links | add, revoke, supersede, mark_conflicted, resolve_conflict, get_history, snapshot, from_snapshot | long sequences of legal calls, two records changed by one call, one-sided conflicts, restores | lineages are finite, consistent chains; terminal records never change; no constraint is suspended without a reason |
| Session store (`integrations/codex/state.py`) | four JSON files and a lock file per session | session_transaction = lock, load or create, body, save, unlock | concurrent processes, kills and I/O errors between two file replacements, lock timeouts | transactions are atomic and exclusive, nothing is lost, locks are given back |
| Lifecycle hooks (`integrations/codex/hooks.py`) | none of their own (the session) | SessionStart, UserPromptSubmit, PreToolUse, PostToolUse, Stop | order of hooks, duplicated deliveries, fail-closed exception paths | an allowed action respects every answered prompt; calls and results pair; reports rest on the trace |
| Trace store (`trace/`) | per trace an ordered list of events, indexes by event id and call id | append, lookups, from_dict (replay) | correlation over the whole history, sequence numbers | every result has exactly one earlier call; parents precede children; replay rebuilds the same store |
| SpecGuard (`guard/`) | none (reads the ledger) | match_scope, evaluate, evaluate_post_action, evaluate_observation | combination of rules and partial information, aggregation | a HARD rule that matches always blocks; aggregation never weakens |
| Runtime session (`runtime/`) | ledger, guard, gate, store, sequence counter | execute, verify_claims | the executor may raise or call execute again; post-check after the effect | a blocked action never runs; every call that ran has its result on record |
| EvidenceGate, evidence graph (`evidence/`) | graph of evaluations | evaluate, evaluate_many, add_evaluation | ambiguous or contradicting events, re-indexing | no claim is verified without, or against, evidence |
| Payload adapter (`integrations/codex/adapter.py`) | none | parse patches, commands, prompts, messages and tool responses | text parsing; order of checks over chains and pipelines | patches and commands are judged by the changes they make, but for misread names and hidden programs (see `CodexPatch`, `CodexAction`); what cannot be analysed counts as opaque; no failure is recorded as a success |
| Hook installer (`integrations/codex/cli.py`) | `hooks.json` | install, uninstall, status, audit | read-modify-write of a file others edit | foreign hooks survive, uninstall undoes install |
| Tool-event adapter (`adapters/tool_events.py`) | none | calls to actions, records to results | several encodings of one fact | the result says what the record says, or the record is refused |
| Extraction and its client (`extraction/`, `adapters/openai.py`) | none; its callers keep the processed prompts | extract requirements, extract claims | untrusted answers, one bad candidate among several, failing requests, killed hooks | no candidate disappears; authority stays with the caller; one request per prompt |
| OTel adapter (`adapters/otel.py`) | none | exports trace events as spans | - | - |
| Benchmark, CLI, demo, configuration | none | replay of scenarios, argument handling | - | - |

How they interact: the host starts one hook process per event. Inside a
session transaction, a hook calls the adapter to translate its payload, adds
extracted constraints to the ledger (UserPromptSubmit), asks SpecGuard, which
reads `list_active()`, about an action (PreToolUse), appends events to the
trace store (all but SessionStart and Stop), or lets EvidenceGate judge claims
against the trace (Stop). Processes share nothing but the session's files,
guarded by one lock file per session directory. The runtime session is the
in-process alternative to the hooks: it drives the same ledger, guard, store
and gate around an executor callback. No component keeps a thread of its own.

The hazards this leads to, each at its line and with the properties that cover
it, are listed under `hazards` in `PROJECT.json`.

## Modules

| Module | Stands for |
|---|---|
| `ConstraintLedger` | `constraints/ledger.py`, `constraints/models.py` |
| `ConstraintLedger_proofs` | proofs about it |
| `SessionTx` | the bodies of the hook handlers as functions of the loaded session |
| `AtomicSession` | abstract specification: hooks as atomic transactions |
| `CodexSession` | hook processes, lock, files, crashes (`state.py`, `hooks.py`) |
| `MCCodexSession` | instances of it for TLC |
| `CodexSession_proofs` | proofs of its invariants, and that it implements `AtomicSession` |
| `ToolCalls` | abstract specification: the life of a tool call in a trace |
| `TraceLog` | the data of `trace/store.py`: events, indexes, the checks and the effect of `append` |
| `TraceStore` | a store as a state machine: appending, saving and replay |
| `MCTraceStore`, `TraceStore_proofs` | its symmetry for TLC; proofs about it, and the lemmas about `TraceLog` that the proofs about `RuntimeSession` and `EvidenceGate` use too |
| `SpecGuard` | `guard/engine.py`, and how PreToolUse judges a patch |
| `CodexPatch` | how the adapter reads a patch into the operations that `SpecGuard` judges, and what patches of each format do |
| `CodexAction` | how the adapter reads shell commands and other tools, and what PreToolUse decides before `SpecGuard` |
| `MCSpecGuard`, `SpecGuard_proofs` | rules, actions, patches, commands and observations for TLC; proofs about `SpecGuard` |
| `RuntimeSession` | `runtime/session.py`: `execute`, over a shared trace store |
| `MCRuntimeSession`, `RuntimeSession_proofs` | identifiers, user events and rules for TLC; proofs about it |
| `EvidenceGate` | `evidence/gate.py`, `evidence/graph.py`, over a growing trace |
| `ToolEvents` | what tools report (`to_tool_result` of both adapters), as the results the gate judges by |
| `MCEvidenceGate`, `EvidenceGate_proofs` | events, outcomes and claims for TLC; proofs about `EvidenceGate` |
| `Extraction` | `extraction/`, the request of `adapters/openai.py`, and their callers in `hooks.py` and `adapter.py` |
| `MCExtraction`, `Extraction_proofs` | answers of a provider for TLC; proofs about it |
| `HookInstall` | `install_hooks` and `uninstall_hooks` of `integrations/codex/cli.py` |
| `MCHookInstall`, `HookInstall_proofs` | hooks files for TLC; proofs about it |

### ConstraintLedger

`record` is the dictionary `_constraints` (an `ABSENT` record for a missing
key), `order` its insertion order, `snap` the last `LedgerSnapshot`. There is
one action per mutating method, with the method's guards in order: `Add`,
`Revoke`, `Supersede`, `MarkConflicted`, `ResolveConflict`, `TakeSnapshot`,
`FromSnapshot`. A call that raises leaves the ledger alone and is no step.
`AllowedTransitions` is the table of the same name. `GetHistory` is
`get_history`: two walks (`Walk`) that stop at an id already seen; as that is one
step at most for each constraint, the recursion is over numbers up to
`Len(order)`. Descriptions,
scopes, timestamps and reasons are left out: no decision of the ledger reads
them. Constraints handed in by a caller carry no links of their own.

### SessionTx and CodexSession

A session on disk is four files: `meta.json` (here: the processed prompts),
`ledger.json` (the constraints; hooks only ever add), `trace.json` and
`evidence.json` (the last report). `SessionTx` gives, for a loaded session `s`
and a hook `h`, whether the body raises (`Raises`), the session to be saved
(`After`) and the answer (`AnswerOf`). What a prompt contains (`Extract`), what
a rule matches (`Prohibits`), which rules are about the file system
(`FsBodies`) and which tool inputs cannot be analysed (`OpaqueActions`) are
constants: the results of the extraction client and of the adapter. Of the
action's outcome only "blocked or not" matters to the host, so a decision WARN
is an `allow`.

`CodexSession` runs any number of processes, one hook each:

| Control point | Code | Action |
|---|---|---|
| `idle` | the host starts the process | `Start`, `Arrive` |
| `waiting` | `SessionLock.acquire` | `Acquire`, `TimeOut` |
| `loading` | `get_or_create_session` | `LoadSession`, `LoadCorrupted` |
| `save_*` with `creating` | the `save_session` inside `get_or_create_session` | `WriteMeta`, `WriteLedger`, `WriteTrace` |
| `body` | the handler inside the `with` block | `RunBody`, `BodyRaises` |
| `save_*` | `save_session` at the end of `session_transaction` | the same, and `WriteReport` |
| `release` | `SessionLock.release` and the answer on stdout | `Release` |
| any | exception, process death | `Raise` (in several actions), `WriteFails`, `Kill` |

`Raise` is every way out of the `with` block by an exception: nothing more is
saved, the lock is released, PreToolUse answers deny and every other hook `{}`
(`FailAnswer`). Each file is replaced by `os.replace`, so no half-written file
exists and parsing does not fail; a session is corrupted when `meta.json`
exists without `ledger.json` or `trace.json`. A lock is an flock: it vanishes
with its process. `KillPoints` and `FailPoints` say where kills and failing
writes may happen; the runs and the theorems choose them.

`base`, `before` and `stop` are history variables that properties refer to; no
action reads them.

`AtomicSession` promises what a user of `session_transaction` relies on: each
hook answered normally took effect in one indivisible step between its start
and its answer, on the session it answered from. `CodexSession` implements it
under the mapping at its end: while a process is saving, its directory stands
for the session that was loaded, and the transaction takes effect when the
last file is replaced.

### TraceLog and TraceStore

`store` is the object in memory: the event list and the five dictionaries
`_events_by_id`, `_events_by_trace`, `_max_sequences`, `_tool_calls` and
`_tool_results` (`lastSeq` is -1 for a trace without events). `Accepts` is the
sequence of checks in `append`, `Appended` its assignments; a refused append is
no step. `ToDict` writes the plain event list to `saved`; `FromDict` starts
from an empty store and `ReplayNext` appends one saved event per step, through
the same checks, which is the loop of `from_dict`. A step per event is not a
concurrency the code has. It lets the question "is every saved event accepted
again" be asked, and proved, as an invariant.

`ToolCalls` says what a reader of a trace relies on: per trace and call id,
unknown, then open, then answered, and a restart goes back to what was saved.
`TraceStore` implements it; during a replay the saved list counts.

### SpecGuard

One behaviour is one evaluation: `Evaluate` (of one action), `EvaluatePatch`
(the loop over `patch_ops` in PreToolUse), `EvaluatePostAction` and
`EvaluateObservation` choose a ledger and an input; `ConsiderConstraint` is one
round of the loop in `evaluate`; `AddDecision` is one round of
`_aggregate_decisions`; `Return` hands back the result. `MatchScope` is
`match_scope`, one operator for each of its five dimensions, with the verb
tables and the file system aliases. `EffectAction`, `ReadAction`,
`WriteAction` and `GeneralAction` are the actions that `evaluate_post_action`
builds from the plan and the observation.

Whether a path falls under a pattern (normalisation, prefix, suffix, glob) is
the constant `Covers`. `None` is a missing value, `Text` a payload that is not
a mapping. `FieldOf` looks a selector up in the payload first and then in the
context, which is what updating a copy of the context with the payload does.
`evaluate_post_action` validates all changed paths in one write action, so one
path that meets a REQUIRE rule excuses the others; `ChangesBlocked` is therefore
about rules that deny. The context keys that PreToolUse adds for a patch (`sub_path` and the like) are
left out: the ledger would need a rule that selects on them to tell the two
apart. Note that an observation's output takes the place of the payload, so the
two checks see different arguments; `PostCoversPre` speaks of observations
without an output.

### CodexPatch

A path is the sequence of the words its blanks separate, each with its steps between
the slashes; a patch text is a sequence of lines, of which the kind and the words that
follow are kept. `CleanPath` is `_clean_path`, and no identity: it takes the first word
alone (`my file.txt` becomes `my`), drops a leading slash (`/etc/app.conf` becomes
`etc/app.conf`), and drops one leading `a` or `b` in every format (`a/secret.txt`
becomes `secret.txt`), while the rules compare paths as they are. `ReadText` is what
the adapter reads of each line. `ParsePatchPaths` and `ParsePatchOperations` are the
functions of these names: `Scanned` is the loop over the lines, with `GitOp`, `Paired`
and `IndexOp` for the three formats whose verdict depends on later lines, and the
fallback counts a path the loop missed as written and deleted. `ToPatch` adds the paths
given beside the patch (up to four keys of the tool's input), uncleaned, as `to_action`
does. The patches that `SpecGuard` judges are then no free choice but what the adapter
makes of texts (`PatchAssumption`).

What patches look like is not in `src/` but in the formats the parser reads.
`IsDocument` says it for each of four styles (`HeaderLines`, `BodyLine`): a document
has any number of files, each changed, created, deleted or renamed by one part, with
or without the prefixes `a/` and `b/`, and with a time stamp after its paths; `InputOf`
writes it out line by line, and `ChangesOf` is what applying it does, to the files as
they are named. `PatchJudged` compares the decision with those changes, for documents
that are `Readable`: all their files have names that `_clean_path` reads as they are
meant. Patches of other files are in the instances too, where they are judged as
changes of files that do not exist; that is how the code falls short of its docstring
("all affected target paths", `adapter.py:35`), and the property makes no claim about
them. A document is `Clear` if no file is renamed and no body has a line like
`--- name`: then the decision is also not harder, while otherwise the fallback adds
operations for paths nothing happens to.

Three things are left out of the documents, because the code does not read them as the
formats mean them. A text that mixes styles: the part of a file in a git diff reaches
to the next `diff` or `***` line, so a plain unified deletion that follows it makes
the git file's write count as a deletion, although the docstring excludes that
(`adapter.py:125`). A line of a file that looks like another header than `---`, for
example an added line that begins with `++`. And the header `*** Move to:` of Codex,
which neither the code nor the tests mention: it is read as a mention of the new path,
which counts as written and deleted, and the old file as written only. Of such texts
`MentionedGuarded` holds, see below. Left out of the texts altogether are quotes,
backslashes and doubled slashes in paths, `--- /dev/null` followed by a time stamp, and
`diff --git` lines with fewer than two paths.

### CodexAction

The adapter splits a command at `;`, `&&` and `||`, then at `|`, and judges each stage
by what it begins with. A command is therefore the sequence of the commands it chains,
each a pipeline of stages; of a stage the class of its first word (`program`), what its
text shows (`Marks`) and the paths it shows are kept. The shell sees more: at a newline,
a single `&`, `<( )` or a script block it starts further programs. So a stage also has
`runs`, the programs the shell starts from it, each with what it writes. `CanWrite` says
which programs can write, without reference to the adapter's checks: readers do through
a redirection, a substitution or an argument (`output`, as in `git diff --output=f`),
`find` through its options, and everything that is no reader or test runner by itself.

`OpaqueStage` is the order of checks in `is_opaque_destructive_command`, over `program`
and `marks` only, `OpaqueCommand` its loop over a pipeline, `IsOpaque` the one over a
chain. `ToAction` is `to_action` for everything that is not a patch with paths: the
words in a tool's name decide, first those of a patch tool, then those of a shell, then
those that `adapters/tool_events.py` looks for. `Answer` is what `handle_pre_tool_use`
decides before it asks `SpecGuard`. The actions that `SpecGuard` judges then include
what the adapter makes of the calls (`ToolAssumption`, which says no more of them).

`WritesStopped` compares the answer with what the call does: `MayWrite` are the files
that its programs write, a writing tool names, or a patch without paths may write;
`Harmless` the calls whose programs cannot write, and begin as their stages do. The
exception, named in the property, are programs that are `Hidden`: nothing in the text
of the stage shows the write, and the stage begins with another program, or the program
is a reader made to write by an argument. `pytest`, a newline and `rm f`; `ls & touch f`;
`git diff --output=f` all pass in the code as one safe stage, against its docstring
("Only demonstrably safe read/inspection or test commands [...] may pass",
`adapter.py:280`). They are in the instances, are let through there, and no claim is
made about them. What a test runner does while it runs is outside the model, as it is
outside the code; so are separators within quotes. Words are looked for anywhere in a
tool's name (`sh` in `publish`), which only makes more tools count as shells; names are
members of a set here, with the words they contain.

### ToolEvents

`Response` is what the two `to_tool_result` functions read of a tool's report, in four
forms: a mapping, a text or something else from a Codex hook, a record from another
agent. Keys of a hook's mapping that they do not read, such as `isError` or `status`,
are left out; a failure that only those tell is recorded as a success. `ToToolResult` gives the status and the
exit code that the trace records; `Refused` stands for an error of the adapter.
The events of `EvidenceGate` say what was recorded, and `ReportedAs` which
reports may stand behind it, so that `VerifiedAsReported` relates a verdict in
the graph to what a tool reported. A hook response without an exit code is
recorded with exit code 0 (`adapter.py:564`, `adapter.py:578`), also when
`exit_code` is there but is no number; COMMAND_EXITED_ZERO is then VERIFIED
although no 0 was observed, which `.agent/tasks/TASK-004.md:70` asks for. The
property says what does hold: under the keys that are read no other code was reported.

### Extraction

One behaviour is a sequence of calls: of a UserPromptSubmit hook, a Stop hook or
library code (`Jobs`). `Begin` is everything before the request (a processed or
blank prompt, no client), `AskFails` and `Answered` the one request of
`OpenAICompatibleExtractionClient.extract` with all its exceptions and the lookup
of the list of candidates, `Scan` one round of the loop over it, in strict mode
or not; both extractors have the same loop. `Use`, `Swallow` and `FallBack` are
`extract_prompt_constraints` and `extract_completion_claims` of the hook adapter;
`Register` is one round of the loop over the constraints in
`handle_user_prompt_submit`, `Save` the end of its transaction. Hooks of one
session hold its lock, so calls do not overlap. `Kill` ends a prompt hook before
it has saved (`MaxDeaths` bounds how often, per prompt). A draft is its body, what
decides whether it converts, and which fields of the caller it declares; other
forms are `not_mapping` and `unparsable`. What the patterns match in a text is
the constant `Patterns`. Ids the program makes are taken to be fresh; the
patterns' ids are hashes of the target, and two targets with one hash would lose
the second rule (`hooks.py:113`).

`RegistersExtract` says that a saved prompt hook did what `SessionTx` says
(`Register`, with the extracted items as the constant `Extract`), which ties this
module to the sessions. Two things the code does are kept as they are: an answer
with an empty list under the preferred key counts as an answer without a list
(`requirements.py:135`), and one usable item of the provider keeps the patterns
from being looked at (`adapter.py:608`).

### HookInstall

`file` is `hooks.json`: missing, broken (everything
`_validate_hooks_json_structure` refuses), or a map from events to entries, with
or without the key `hooks` around it. A command looks whether there is a file
(`Start`), reads it and decides (`Read`), and replaces or deletes it (`Write`);
between these steps other commands run and the user edits (`Edit`,
`AddHandler`). `Installed` and `Uninstalled` are the two transformations. A
command may be killed anywhere; `os.replace` leaves the old or the new file, and
a left-over temporary file is not modelled. Matchers and the content of
handlers are abstracted to what decides: is a handler AgentContract's, and has
a group keys besides `hooks` and `matcher`.

Three things the code does are outside the properties. What is written to the
file between a command's read and its replace is lost. A handler of AgentContract
outside a group is not noticed by install. And uninstall drops the user's groups
that hold no handler, and deletes a file that was `{}` before install, where
`docs/integrations/codex.md:177` promises to keep group metadata and to delete
generated files only.

### RuntimeSession

`execute` calls the executor in the middle, and the executor is user code: it
may call `execute` again, of the same or of another runtime on the same store,
append events itself, change the ledger, raise, or be interrupted. All of it
happens in one thread, so the model keeps a `stack` of frames, one per
`execute` under way, and a step is a step of the innermost one:

| Control point | Code | Action |
|---|---|---|
| (new frame) | normalisation and the guard's decision before the action | `Execute` |
| `block` | the decision is BLOCK: record it and return | `RecordBlock` |
| `pre` | record the decision (`record_all_guard_decisions`) | `RecordPre` |
| `call` | record the TOOL_CALL event | `RecordCall` |
| `invoke` | `_resolve_executor_args`, then the executor is entered | `SignatureFails`, `Invoke` |
| `running` | the executor returns or raises; a BaseException passes through | `ExecutorEnds`, `Interrupt`, and the steps of user code |
| `result` | record the TOOL_RESULT event | `RecordResult` |
| `post` | the guard's decision after the action, recorded if it blocks | `PostCheck` |

User code is in control when the stack is empty or the innermost executor is
running; then `Execute`, `ChangeRules` and `UserRecords` are possible. An
append the store refuses raises out of `execute` (`Raise`): the frame is gone
and its caller goes on. Caught or not, the exception of a nested `execute` is
one way for the outer executor to end.

The store is the one of `TraceLog`. The guard is a pair of relations: `Forbids`
(before the action) and `ForbidsAfter` (on the effect the executor reported);
what they contain is the subject of `SpecGuard`. `EventId` and `NewCallId` are
what a runtime's `IdGenerator` yields, in order. An action carries a trace
pointer only to an event that the store gave it, or to one the store does not
have. `ran`, `finished` and `answers` are history. `MaxIds` and `MaxDepth` are
bounds; the guard of `Execute` keeps an execution from running out of
identifiers half-way, which the code's generators never do.

### EvidenceGate

`trace` is the store of `TraceLog`, `graph` the `EvidenceGraph`. `Record` is
whoever appends to the trace, `Evaluate` one call of `evaluate` with the
`add_evaluation` at its end; `evaluate_many` and `verify_claims` are sequences
of it. The many early returns of `evaluate` become one question: which events
does it look at (`Considered`: none, the one result the claim resolves to, or
all events in scope), what do they say (`Supports`, `Contradicts`), and what
follows (`Decide`). The two lookups of an execution, by call id and by the other
selectors, are one set (`Executions`): the store has at most one call and one
result per id. What else an event carries is the constant `Payload`, a function
of its id, so that one store holds at most one of several possible outcomes of
a call. `Reindexed` is the removal of old edges and the indexing of new ones,
for either index; a deleted key is an empty list.

One disagreement is visible in `OutcomeSupports`: with `expected_exit_code=0`, a
successful test run whose exit code was not recorded is CONTRADICTED
(`gate.py:346`, `None != 0`), where the class says that missing evidence always
yields UNVERIFIED (`gate.py:192`). The model follows the code. Likewise, a
trace-level FILE_EXISTS claim may be VERIFIED although contradicting evidence
is on record, when it is older (`gate.py:479`).

## Runs

| Run | Instance | Question and answer |
|---|---|---|
| `ledger` | 3 ids | Do lineages, conflicts and history stay consistent through every sequence of calls, snapshots and restores? Yes. |
| `sessions` | 3 processes, 1 directory, 2 prompts (a HARD and a SOFT constraint), 2 actions (one opaque), 1 call; kills and failing writes everywhere | Are transactions exclusive, is nothing lost, do allowed actions respect every answered prompt, do calls and results pair, do incomplete sessions deny? Yes. |
| `sessions_atomic` | 2 processes, 1 directory; no save interrupted after its first file | Do the processes implement `AtomicSession`, and does every hook end? Yes; as a lock is held only by a process inside a transaction (`LockExclusive`), every lock is released too. |
| `torn_save` | 2 processes, failing writes | Is a save atomic? No: a failure after `meta.json` loses the prompt's constraints for good. |
| `dedup` | 2 prompts, same body, HARD and SOFT | Is only an identical constraint skipped as a duplicate? No: strength is not compared. |
| `trace` | 4 event ids, 2 traces, 2 call ids, sequence numbers 0..2 | Does every accepted history, also after saves and restarts, have unique ids, growing numbers, earlier parents and paired calls; do the indexes say the same; is everything saved accepted again? Yes. |
| `guard` | 13 rules, ledgers of up to 2 of them in either order; 11 actions, the texts of patches of one file in every form of four formats, of two files in one format, of three files whose names the adapter misreads, with and without paths beside them; 19 stages that start one program and 9 that start two, alone, in chains and in pipelines, tools that write or read; 32 observations | Is the decision exactly what the rules ask for; are patches judged by the changes they make, but for misread names, and commands by what they write, but for hidden programs; does splitting a patch or checking afterwards never weaken the decision? Yes. |
| `runtime` | 2 runtimes (one recording all decisions) on one trace, nesting depth 2, 9 unique identifiers each, 1 action, 1 rule, 2 events of user code | Are events refused for duplicates only, do executors run only for recorded and allowed calls, is what `execute` returns on record, is the result of every executor that ended on record? Yes. |
| `evidence` | 2 traces, 2 sessions, 12 events (2 executions of one tool, four outcomes of the first, a call with the same id in the other trace, 3 other events), 4 events at a time; 13 claims under 2 ids | Does one fitting result decide each claim about an execution, do verdicts change only as they may, do claims about one execution agree, is nothing verified that was reported otherwise, does the last observation of a file decide, and does the graph cite what the latest evaluations cite? Yes. |
| `runtime_ids` | the same as `runtime`, with the identifiers of `IdGenerator(deterministic=True)` | Is the result of every executor that ended on record? No: two runtimes yield the same event ids, and the result of a tool that ran is refused. |
| `extraction` | 2 prompts (one with three matches of the patterns, two alike), the blank one, 6 candidates, 26 answers; each prompt's hooks killed once | Does every candidate become an item or a diagnostic, does the provider never decide whose rule or claim it is, is a prompt asked about once, is what was extracted registered in the session? Yes. |
| `hooks_file` | 2 processes, 2 hooked events and one other, 10 files the user may put, 2 edits; kills everywhere | Is no event hooked twice, is nothing of the user's taken out of a file that nobody changed meanwhile, and is the file as a successful command says? Yes. |

Why the bounds are enough. Ledger: a chain of three records has a root, a
middle and an end, and three records are the fewest with a conflict between
members and one outside; all sequences of calls of any length are covered, as
the state space is finite. Sessions: the interesting interleavings are a
writer, a second writer and an observer on one session; directories do not
interact, so one is enough. Every
process runs one hook, which is what the host does; a repeated hook is a
second process. Trace: a call, its result, a second event with the same
correlation and a parent need four events; the second trace is there to be
mixed up with the first; three numbers allow a gap and a repetition. Guard:
order effects need two rules, and the rules cover the three effects, the three
strengths and every dimension of a scope; two files and three patterns give
"both", "one" and "neither"; the files `f g`, `/f` and `a/f`, one for each thing
`_clean_path` does to a path, are all read as `f`, and a fourth pattern is about them; a patch of two operations is the smallest that
can be split; a stage is judged by itself and by its neighbours, so two or three
stages show a bad one first, last, and inside a chained pipeline. Runtime: a second runtime and one nested
execution are the fewest with which numbers, parents, identifiers and rules can
change between a call and its result; nine identifiers let both runtimes execute
twice, once nested; the user's events leave a gap in the numbers and answer a
call themselves. Evidence: a call with its result and a second call
with its own are the four events it takes to make a claim ambiguous after it was
decided, or to have two observations of a file in both orders; two claim ids
are a claim that changes and one beside it. Hooks file: two commands are enough for
one to act on what the other replaced, commands repeat without a bound, and the
ten files have each kind of entry beside each other; two edits let the user
change the file before and after a command has read it. Extraction: an answer
with two candidates, one of them bad, is the smallest in which one can be lost
with the other; two bodies and three candidates give duplicates within an answer
and across prompts; calls repeat without a bound, killed hooks are bounded. `HookSymmetry` permutes processes only, which every property
of those runs treats alike; `sessions_atomic`, which checks liveness, uses no symmetry.

`AllowRespectsPrompts` makes two exceptions on purpose: prompts that an earlier
torn save marked as processed (the `torn_save` finding), and instances where
one body comes with two strengths (the `dedup` finding).

Fairness: `FairSpec` asks weak fairness of each process's own steps, that is,
that the operating system goes on scheduling a process that has started. The
lock is retried at most until a timeout, modelled as an ever-enabled step while
the lock is taken, so no fairness of the lock is assumed. Neither the start of
a process nor a kill nor a failing write is fair.

## Proofs

`ConstraintLedger_proofs` proves `TypeOK`, `LineageInv`, `NoConflictCycle`,
`ConflictRecorded` and `HistoryKept` for every set of ids. `LineageInv` is
inductive together with `TypeOK`: each action keeps "two records are linked
forward exactly when they are linked backward", and because a successor is
always appended to `order` after its predecessor, no chain closes. For
`NoConflictCycle` the strengthening is `ConflictRecorded`: a constraint that
becomes CONFLICTED names an ACTIVE peer, which is outside any group of
CONFLICTED constraints, and an ACTIVE constraint can only become CONFLICTED
later, so a group always has a member whose peers are outside.

It also proves `HistoryComplete` (`HistoriesComplete`). The walk is recursive, so
the proof ranks the constraints by their place in `order`: a link forward leads to
a later place. That the walk is defined for every number of steps, and that it
reaches the end of the chain, are shown by looking at the least number for which
it fails (`LeastNumber`, which needs only that the numbers are well-founded, and no
induction theorem); `LineageInv` then makes the walk forward from the root list
exactly the constraints whose root it is.

`CodexSession_proofs` proves for any number of processes, sessions, prompts
and constraints, and for every choice of `KillPoints` and `FailPoints`:
`TypeOK`, `LockExclusive`, `NothingLost`, `IncompleteDenies`, `CallsPaired` and
`ReportBacked`. The inductive invariant is `TransactionInv`: what a process
holds in memory is never behind its files (`MemoryInv`), and at each control
point of a save the files written so far are those in memory (`SaveInv`).
Without it a save could replace a file by an older one; with `LockExclusive`
no other process can invalidate it.

It also proves that `CodexSession` implements `AtomicSession`
(`Atomicity`), under the assumption `SavesComplete`: processes are killed and
writes fail only before the first file of a save is replaced. This is exactly
the assumption the `torn_save` run shows to be needed. The additional
invariant is `AtomicInv`: what is in memory is the loaded session, or what the
handler makes of it, with the answer that belongs to it.

`AllowRespectsPrompts` is proved under `SameStrength` (`AllowCorrect`): extracted
constraints with the same description and scope have the same strength. The `dedup`
run shows what happens without it: a HARD rule is left out because a SOFT one has
its body. The invariant `PromptInv` follows a prompt through every place it can be
in: a prompt marked in `meta.json` has its constraints in `ledger.json`, or a save
that holds the lock stands between the two files, or a save was stopped there for
good (`MarkedInv`); a process that loaded the session has no such neighbour, so what
is marked in its memory is stored in its memory; and what was answered before it
started is marked there (`RecallInv`). `HistoryInv` ties this to the past: a process
that is over stays as it is (`OverStays`).

`AnswerDurable` (`AnswersAreDurable`) counts: of each kind of event, a session's file has
as many as hooks were answered that record it. The invariant `CountInv` says so of
the directories (`DiskCounts`), and that the memory of a process whose body has run
holds one more (`MemoryCounts`). What is counted has to be finite: at any time only
finitely many processes have started (`StartedInv`), so nothing is assumed of how
many there are.

Assumptions on constants: `NoIdAssumption`, `HookDataAssumption`,
`SessionFilesAssumption`, `TraceAssumption`, `NoneAssumption`,
`GuardAssumption`, `RuntimeAssumption`, `EvidenceAssumption`,
`NoEvaluationAssumption`, `PatchAssumption`, `ToolAssumption`, `OddAssumption`,
`ExtractionAssumption`, `FilesAssumption` (types of the constants, and that "no file", "no process",
"no argument" and the like are not values).

`TraceStore_proofs` proves for any number of events, traces and calls:
`StoreTypeOK`, `LogsOK`, `IndexesAgree`, `ReplayAccepted` and `ImplementsToolCalls`.
The inductive invariant `ReplayInv` joins the first three with `ReplayPrefix`: while
replaying, the store is exactly what appending the first n saved events makes.
`LogsOK` of a prefix and `IndexesAgree` give that the next saved event passes
the checks. What a recursive `from_dict` computes could not be proved by
induction on the list; as steps, it follows from the invariant rule.

`SpecGuard_proofs` proves for every ledger, action, patch and observation, of
any size: `TypeOK`, `DecisionExact`, `SplitStricter`, `PostCoversPre` and
`ChangesBlocked`. The invariant `GuardInv` says after each round what the
decision so far is worth: it is the strictest answer of the rules considered
(`LoopInv`), and of the sub-decisions added. `SplitStricter` then needs that a
scope which matches the patch matches one of its parts (`ScopeOfPatch`), and
`PostCoversPre` that an observation without new information rebuilds the
planned action (`PlannedAgain`).

Three theorems there take the adapter in. `WritesStopped` (`WritesAreStopped`) holds for
every call under `ToolAssumption`, which gives types only: a program that writes a path
and is not hidden makes its stage opaque (`WriterRefused`), so that a HARD rule about
files denies the call, and a stage whose programs cannot write is passed
(`ReaderPassed`). `MentionedGuarded` (`NoFileSlipsThrough`) speaks of patch texts of any
length: a path that the text names (`Shows`), in whatever format and order, is among the
paths of some operation that `SpecGuard` judges, so a rule that protects it from every
change blocks the patch. In the text it must be written so that `_clean_path` leaves it
as it is, beside the text any path will do. For this the parser is written with a
recursive function over the lines and `FlattenSeq`: that the function is defined
(`ScanExists`) and what it returns (`ScannedType`) are again shown through the least
line for which they fail (`Stepwise`), and the members of a flattened sequence are known
without induction over sequences (`FlattenHas`).

`PatchJudged` (`PatchesAreJudged`) is proved for readable documents of any number of
files, in each of the four styles, with bodies of any length. What a header says after
`CleanPath` is first shown to be the file's name, with the prefix dropped where one is
written (`Legible`, `SimpleRead`); the rest is about lines that have been read. The loop of the parser looks ahead,
in a git diff as far as the part reaches, so its result for a part has to be
independent of the parts after it: every part begins with a line at which looking
ahead stops (`PartApart`), and so the loop is at the end of a text where it would be without what
follows (`LinesApart`, `ScanPrefix`). A part read after a text which has no operation
about its path then adds exactly one operation (`PartRead`, from what each kind of header
and a body add: `FromToRead`, `GitRead`, `IndexRead`, `BodyRead`), and a document
exactly one for each of its files (`DocumentRead`, again by counting, `SequencesStepwise`).
With the fallback (`OperationsExact`) and the paths beside the text (`ToPatchOps`)
every change is among the operations, and no other if the document is clear
(`ChangesFound`). More actions are judged at least as hard (`MoreActions`),
so the decision about the operations, which `GuardInv` knows, is at least what the
changes ask for.
That the files of a document are different and its style one is needed: without it
the `+++` line of one part is no operation if another had the path before, and a part
of a git diff takes in the next one.

`RuntimeSession_proofs` proves for any number of runtimes, any nesting of
executions, any events of user code and any identifier generators: `TypeOK`,
`OnlyDuplicatesRefused`, `EffectsDeclared`, `AnswersBacked`, and that the shared
store stays well formed (`LogCorrect`). The assumption is `UnboundedNumbers`:
sequence numbers are Python's. The inductive invariant `RInv` says at each
control point what a frame knows of the store (`FrameOK`), that all frames but
the innermost have their executors running, that no two frames share a call,
and that no user code runs between the decision and the executor
(`DecisionInv`). A frame whose executor runs is undisturbed by whatever others
append, because nothing on record ever changes (`Extends`). `EffectsRecorded`
needs `UniqueIdentifiers` in addition, the assumption whose failure the run
`runtime_ids` shows: then the identifier of a result is always new
(`FreshInv`), and the only reason left to refuse it is that there is one.

`EvidenceGate_proofs` proves for any claims, events and outcomes: `TypeOK`,
`GraphExact`, `DecidedByOne`, `StrongerWins`, `NeverFlips`, `UndecidedForAReason`,
`LastObservationDecides` and `VerifiedAsReported`. Two strengthenings
make `EvidenceInv` inductive. `FiledOK` ties an evaluation to the id it is filed
under, so that an index may be corrected for one claim without looking at the
others. `JudgedInv` says that a decided evaluation equals the judgement of one
result whose call is on record (`DecidedFrom`); recording events keeps that
true, because a scope only grows. `NeverFlips` follows (`EvaluatedAgain`): the
call is still among the matching ones, so either it is the only one and its
result is the same, or the claim has become ambiguous. `VerifiedAsReported` goes back
to what the tool said: of a response with a status outside the known words, a
failure in any of its forms, or another exit code, neither adapter makes a successful
result (`HookSuccess`, `RecordSuccess`). `OddAssumption` keeps the odd values apart
from the known words and from 0.

`Extraction_proofs` proves for any texts, candidates, answers and number of kills:
`TypeOK`, `CandidatesAccounted`, `AuthorityKept`, `AskedOncePerPrompt` and
`RegistersExtract`. The inductive invariant joins `ScanInv` (the candidates before
the next one are accounted for), `RegisterInv` (what is in memory is what
`SessionTx` registers of the items before the next one), `LedgerInv`,
`RequestsInv` (a request that was made is the running hook's, a saved one's or a
killed one's) and `PhaseInv`, which says what a call has not touched yet.
`RegisterInv` needs that registering a list step by step, and skipping what is in
the memory already, gives the same set as `SessionTx!Register`, which looks at the
list as a whole.

`HookInstall_proofs` proves for any number of processes and edits, any events and
any files the user may put there: `HooksOnce`, `ForeignKept` and `SuccessIsTrue`.
`FilesAssumption` says of these files that each is missing, broken, or one that
`_validate_hooks_json_structure` accepts and in which the user calls AgentContract by
hand at most once for an event. The invariant `HooksInv` carries this to the file
and to what every process has read: what a process writes is made of a file it read
at some time, never of the present one, so each of those must be good, whatever has
become of the file since; and a process that writes has read a file it can change,
or there was none and it installs (`Ready`). The rest is about `Installed` and
`Uninstalled` (`AfterFacts`): install appends its group only where no group calls
AgentContract, so there is one call then (`HookAdded`); uninstall leaves none
(`NoHookLeft`); and neither changes what the user put there, in order
(`UserPartRemaining`). The last is a statement about sequences of sequences. The model
therefore filters with `FlattenSeq`, not with `SelectSeq`, whose recursive definition
the provers cannot use; `FlattenExists` shows that the function `FlattenSeq` chooses
exists, `FlattenAppend` and `KeepAppend` what it does to one more element, and
`SequencesStepwise`, that what holds of the empty sequence and survives `Append` holds
of every sequence, takes the place of induction.

The type invariants are not among the runs: they hold for every instance by the
theorems named `TypeCorrect` (`StoreTypeCorrect` in `TraceStore_proofs`; in `HookInstall` the
types are part of `HooksOnce`, whose point is that both commands accept the file).

`ConflictRecorded` and `ReportBacked` are proved and have no run of their own:
the first is the strengthening of `NoConflictCycle`, the second follows from
what a save keeps (`TransactionInv`) and from a trace that only grows.

Only model-checked: the liveness property, which is out of the prover's reach. Every
safety and action property of a passing run is proved.

## Plan

Done: 1 `ConstraintLedger`, 2 `SessionTx`, `AtomicSession`, `CodexSession`,
3 `TraceLog`, `TraceStore`, 4 `SpecGuard`, 5 `RuntimeSession`,
6 `EvidenceGate`, 7 `CodexPatch`, `CodexAction`, `ToolEvents`, 8 `Extraction`,
9 `HookInstall`, each with its proofs.

## Not modelled

Quotes, backslashes and doubled slashes in the paths of patches, separators within the
quotes of a command, and what a program does that its command line does not say.
The text of payloads, prompts, patterns, reasons and reports, and the data of
requests to a provider (the prompt, the strict JSON schema). The transcript
reader, which only picks a message out of a file. Windows locking (the POSIX
flock is modelled; `msvcrt` locks behave alike where the model looks).
`delete_session` and `list_sessions` are not reachable from the hooks. A Stop
hook without any message returns before its transaction and touches nothing.
How long a request to a provider takes: it is made while the session's lock is
held (`hooks.py:103`), and `CodexSession` lets any waiting hook time out instead.
The OTel adapter, the benchmark, the CLI and the demo keep no state of their own
and run one after the other: a model of them would repeat the code.
