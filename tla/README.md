# A TLA+ model of wasmsh

wasmsh is a Bash-compatible shell written in Rust and compiled to WebAssembly.
It runs in a browser worker, inside Pyodide, under Node as a standalone WASI
module, and behind a small control plane (a dispatcher and pools of runners)
that gives every session its own sandbox.  This directory holds TLA+ modules
translated from that code, TLC configurations that check them on small
instances and TLAPS proofs of the results that matter for every instance.

`PROJECT.json` is the index: which lines a definition models, which properties
a run checks, which hazard of the code a property is there for, and where the
code and its documentation disagree.

## 1. The system

### Parts, their state and their operations

| part | source | state it keeps | operations | modelled in |
|---|---|---|---|---|
| progressive executor | `crates/wasmsh-runtime/src/lib.rs` (`handle_command`, `poll_active_run`) | `active_run`, `pending_signals`, `pending_streaming_pipeline`, `ExecState`, the `Vm` | Init, Run, StartRun, PollRun, Signal, Cancel | `ProgressiveRun` |
| VM and budgets | `crates/wasmsh-vm/src/lib.rs` | `BudgetTracker`, `ExecutionLimits`, cancellation token | begin_step, output, recursion, run_with_executor | `ProgressiveRun` |
| pipe buffers | `crates/wasmsh-vm/src/pipe.rs` | bounded byte queue, two closed flags | read, write, drain, close_read, close_write | `PipeBuffer` |
| streaming pipelines | `crates/wasmsh-runtime/src/lib.rs` (`StreamingPipeProcess`, `*PipeProcess`) | one process per stage, one pipe between two stages, host process handles, a deadline | poll, close, drain, deadline, cancel | `StreamingPipeline` |
| streaming filters | `crates/wasmsh-runtime/src/streaming_*.rs` | what a reader keeps between two reads | feed, next line, end, take output | `StreamingFilters` |
| interpreter | `crates/wasmsh-runtime/src/lib.rs` (`execute_command` and below) | the unwinding flags, function stack, locals, traps, errexit | every compound command, functions, subshells, traps | `ControlFlow` |
| descriptors and redirections | `crates/wasmsh-runtime/src/fd_table.rs`, `lib.rs` | fd table, capture stack, sinks, substitution scopes | open, dup, close, capture, substitute, restore | `Redirections` |
| syntax | `crates/wasmsh-{lex,parse,ast,hir,ir}` | none between calls | lexing, word parsing, parsing, lowering | `Lexer`, `Parser`, `Lowering` |
| expansion | `crates/wasmsh-expand`, `wasmsh-runtime/src/{pattern,dbl_bracket}.rs` | none between calls | parameters, arithmetic, braces, fields, globs, `[[ ]]` | `Patterns`, `Arithmetic`, `Expansion` |
| shell state | `crates/wasmsh-state` | scopes of variables and their attributes, positional parameters | get, set, arrays, unset, declare, push and pop scope | `ShellState` |
| file systems | `crates/wasmsh-fs` | nodes, handles, readers, sinks, three quotas | open, read, write, rename, link, remove, ... | `MemoryFs` |
| file utilities | `wasmsh-utils/src/{file,archive,tree,disk}_ops.rs` | none of their own | rm, mv, cp, find, tar, ... | `FileUtils` |
| text utilities | `wasmsh-utils/src/text_ops.rs` | none of their own | grep, sed, sort, ... | `TextUtils` |
| network policy, curl, wget | `wasmsh-utils/src/net_*.rs` | a request's redirect and retry state | parse, build, check, fetch, redirect, retry, deliver | `NetworkPolicy`, `NetworkClient`, `Transfers` |
| runner | `tools/runner-node/src` | session registry, restore slots, workers, metrics gauges, draining flag | createSession, run, close, drain, shutdown | `RunnerSessions`, `SlotPool` |
| dispatcher | `crates/wasmsh-dispatcher/src` | runner snapshots, session affinity | create, run, close, delete, refresh | `Dispatcher` |
| builtins | `crates/wasmsh-builtins` | variables of the shell (OPTIND, the rest of an input) | getopts, read, printf, test, export, readonly, unset, ... | `Builtins`, `ControlFlow` |
| other utilities | `wasmsh-utils` (awk, jq, ...) | none of their own | some 80 commands | no |
| protocol | `crates/wasmsh-protocol` | none | message types | as the actions of `ProgressiveRun` |
| hosts | `crates/wasmsh-browser`, `crates/wasmsh-pyodide`, `tools/standalone`, `packages/npm/wasmsh-pyodide` | request maps, child processes | request, response, exit | no |
| fetch broker | `tools/runner-node/src/fetch-broker.mjs` | a shared buffer per request | guest fetch, host answer | its failure, in `RunnerSessions` |
| integrations, deployment | `packages/*/langchain-wasmsh`, `deploy`, `docs`, `e2e` | none | clients, charts, tests | no |

### How they interact

* A host sends one `HostCommand` at a time to the runtime and gets the events of
  that command back.  The runtime is single threaded; a run lives across several
  `PollRun` commands, so signals, cancels and other commands are interleaved with
  it at poll boundaries.
* A poll executes and-or lists, on the IR virtual machine when the list is in its
  subset, otherwise pipeline by pipeline.  A list that begins with an external
  command under `StartRun` becomes a pending streaming pipeline, driven one pass
  per poll.
* A script is lexed, parsed and lowered as a whole, then interpreted; each word is
  expanded when its command runs, against the variables of that moment.  The
  interpreter unwinds by flags that every construct passes on or consumes.
* Stages of a streaming pipeline share only pipe buffers.  External stages talk to
  a host process by `poll_process`, `write_stdin` and `close_stdin` calls.
* Redirections, captures and substitutions are scopes on one descriptor table that
  is saved and put back around each command.  Utilities see files only through the
  `Vfs` trait and the network only through a backend that holds the policy.
* A dispatcher picks a runner for a new session from the last snapshot it fetched,
  remembers the choice, and forwards the session's requests over HTTP without
  holding its lock.  A runner restores a worker from a template within a number of
  restore slots, and serves runs until the session is closed or times out.

### What is hard here

Runs cut at arbitrary points; four ways to end a run that may meet in one poll;
three budgets with different scopes; pipes that fill up while the stage that
should drain them has gone; a pipeline that only a deadline can end; flags that
must cross some constructs and stop at others; tables and scopes that must come
back after a failure half way; two scanners that must agree on where a quoted or
nested piece ends; an accounting of bytes and inodes over refused writes; policy
and credentials over redirects and retries; requests that are in flight while the
state they were decided on changes; a timeout that races the answer it stands for;
sessions that die on one side only.

## 2. The modules

| module | what it is | instance |
|---|---|---|
| `ProgressiveRun` | the resumable executor: one action per host command and per step of a poll | `MCProgressiveRun` (scripts) |
| `ProgressiveRunProofs` | TLAPS proofs about `ProgressiveRun`: types, ownership, exits, cancels and limits, and that a run cut into polls agrees with `ShellReference` | |
| `ShellReference` | the uninterrupted shell a run is compared with | used by `MCProgressiveRun` |
| `RecursionProofs` | TLAPS lemmas: induction and recursive functions up to n | |
| `PipeBuffer` | the bounded pipe as operators on a record | used by `StreamingPipeline` |
| `StreamingPipeline` | both pipeline schedulers over every process type; composes `PipeBuffer` | `MCStreamingPipeline` |
| `StreamingPipelineProofs` | TLAPS proofs about `PipeBuffer` and `StreamingPipeline` | |
| `ConservationProofs` | TLAPS proof that no byte of a pipeline is lost, doubled or reordered | |
| `LossProofs` | TLAPS proof that a pipeline that reports success has delivered its source | |
| `SlotPool` | abstract specification of the restore slots and their queue | implemented by `RunnerSessions` |
| `RunnerSessions` | one runner process: creates, restore slots, sessions, workers, shutdown | `MCRunnerSessions` |
| `RunnerSessionsProofs` | TLAPS proofs about `RunnerSessions`, among them that it implements `SlotPool` | |
| `Dispatcher` | routing state and request handlers, over runners reduced to what they answer | `MCDispatcher` |
| `DispatcherProofs` | TLAPS proofs about `Dispatcher` with minted ids | |
| `ControlFlow` | the interpreter that unwinds by flags, as operators | `MCControlFlow` (the session that runs programs, and a reference that unwinds by signals) |
| `MemoryFs` | every operation of the in-memory file system | used by `FileUtils` |
| `FileUtils` | utilities that change or walk the tree; composes `MemoryFs` | `MCFiles` |
| `Redirections` | descriptor table, redirections, captures, process substitution; composes `MemoryFs` | `MCRedirections` (reference without tables to restore) |
| `TextUtils` | the text utilities as functions | |
| `StreamingFilters` | the stages that stream; composes `TextUtils` | `MCText` |
| `Lexer`, `Parser`, `Lowering` | from a source text to the instructions of the VM | `MCSyntax` (trees, their text) |
| `Patterns`, `ShellState`, `Arithmetic`, `Expansion` | from a word to its fields | `MCExpansion` (trees, their text and meaning) |
| `Builtins` | getopts, read, printf, test, export, readonly, unset; composes `ShellState` | `MCExpansion` |
| `NetworkPolicy`, `NetworkClient` | policy, and what curl and wget do at each step, as operators | |
| `Transfers` | a run of curl or wget, from arguments to delivered bodies; composes the two | `MCNetwork` (commands, policies, servers) |
| `NetworkProofs` | TLAPS proofs about `Transfers`: retries, credentials and the policy | |

Operators with a comment "Mutant of" are plausible wrong versions of a definition.
They are used nowhere in the specifications; `PROJECT.json` pairs each property with
one of them, and TLC finds the property violated when it takes the definition's place.

In `Transfers` and in the MC modules that compare an algorithm with a reference, the
algorithms are constant operators (`Interpreter`, `Reference`, `Shell`, ...) that the
configuration binds to the definitions named beside their declaration.  The machine's
actions then stay small, so that TLC's coverage tells which of them were taken.

### ProgressiveRun

A script is a sequence of and-or lists; a command is one of a dozen that differ in
what they do to the executor (`true`, `false`, `echo`, `set_e`, the traps, `exit`,
`call` for a function with a body, `recurse`, `loop`, and `ext0`/`ext1` for an
external command with that status).

* State: `m` is `Vm` and `ExecState` (status, the three budgets, the cancellation
  token, errexit and trap settings, `exit_requested`, `resource_exhausted`,
  `stop_reason`); `run`, `idx`, `pc`, `left` are `active_run` and the locals of the
  poll; `sigs` is `pending_signals`; `stream`, `polls` the pending pipeline and its
  age.  `ran`, `owed`, `code`, `calm`, `start` are history and never read by a guard.
* Actions of the host: `HostInit`, `StartRun` (both `Run`, which drains the run, and
  `StartRun`, which returns), `ParseError`, `SignalActive`, `SignalIdle`, `Cancel`.
* A poll is `PollRun` followed by the steps of `poll_active_run`: pending signals,
  the choice of the path, one step per IR instruction (`VmStep`) or per pipeline
  (`ChainStep`), errexit after the list (`PostAndOr`), the streaming pipeline's pass,
  and the end (`RunEnds`, with the EXIT trap) or the return to the host (`RunYields`).
  Nothing of the host comes in between: the runtime is single threaded.

### StreamingPipeline and PipeBuffer

Stage `i` reads `pipes[i-1]` and writes `pipes[i]`.  A pass polls the stages from
last to first (`Poll`), then drains the last pipe, looks at the limits and decides
(`EndPass`).  There is one operator per process type's `poll`: `ReadPoll`,
`HeadPoll`, tee (`DrainPending`), `BufferedPoll`; an external's poll is `ExternalQuits`
or `ExternalRuns`.  An external stage talks to a host that may accept or return any
portion, report the status before or after the end of the output, block, exit, fail,
flood, or claim bytes it was never given.  A scenario fixes the stages and which faults and
limits they meet; `SchedulerOf` derives from the stages whether
`drive_streaming_pipeline` or `poll_pending_streaming_pipeline` runs them, and only
the latter meets `ClockPasses`, `DeadlinePasses` and `Cancel` between passes.  The
bytes of the source are numbered, so order and duplication are visible.

### RunnerSessions and SlotPool

A job is a `POST /sessions` and the session object it makes.  One action is one event
of the Node loop with the microtasks it sets off.  `job[j].pc` is how far
`createSession` has come, `worker`, `killed`, `closed`, `close`, `runs` are the
worker, the session object and the requests pending on it; `registry`, `waiters`
(`restoreWaiters`), `gauge` (the counters), `draining`, `shut` (the loop of
`runner.close`) are the runner's own.  `registry.delete` and the gauges go by id and
by `Math.max(0, n - 1)`, as in the code.  `load` picks one of two mixes of jobs and
faults.

`SlotPool` says what the slots promise with two variables: at most `Slots` clients
hold one, and a slot that is given back goes to the longest waiting client in the
same step.  `RunnerSessions` instantiates it with the jobs that are past their
acquisition and not yet past their release as `held` and `waiters` as `queue`;
`PoolSpec` (its `Spec` under that mapping) is checked as a property.

### Dispatcher

A handler is a sequence of critical sections: `Fetch` (no lock), `Refresh`,
`Dispatch`, the upstream request, `Answer` or `TimesOut`, `Release`; requests for an
existing session start at `LookUp`.  `ClientGone` drops a handler at its await.  The
runner's side (`Serve`, `Restored`, `Crash`, `Drain`, `Forget`) goes on without the
handler.  `Releases` collects which outcome of which handler gives the affinity up.
A runner is what the dispatcher can see of `RunnerSessions`: up, draining, restores
against slots, and the ids it holds.

### ControlFlow

`Exec` maps a shell and a command to a shell: a recursive function per construct, in
the order the code takes its steps, over a record that holds the flags
(`break_depth`, `loop_continue`, `return_requested`, `exit_requested`,
`resource_exhausted`), scopes, saved locals, function stack, traps and the step and
frame counts.  The reference in `MCControlFlow` returns a signal from each construct
instead and knows no flags.  A program is run in a shell that an earlier program has
used (errexit, traps, functions, variables set).

### MemoryFs, FileUtils, Redirections

A path is a sequence of names, contents are sequences of which mainly the length
counts, an operation gives a file system and an error.  Utilities are written over
these operations in the order of the code, error paths included.  `MCFiles` applies
utilities, live write sinks and installed readers to small trees close to the three
quotas.  `Redirections` keeps the descriptor table, the capture stack and the scopes
of `<( )` and `>( )`; its reference threads an immutable table of destinations.

### TextUtils and StreamingFilters

Utilities are functions from arguments, input and files to output, files and status.
A stream reader is a record that is fed chunks (`Arrive`), asked for lines
(`PullLine`), told the end (`End`) and emptied in pieces (`Deliver`).

### Lexer, Parser, Lowering and Patterns, ShellState, Arithmetic, Expansion

Sources are sequences of atoms, a character that means something standing for
itself.  The scanners and the recursive-descent rules keep the code's positions, its
peeking and its way of going on after an error.  The MC modules grow trees by one node
per step, write them out and compare what the code's algorithm does with the text to
what the tree is or means; forms on which the code is known to differ from bash (see
section 4) are left out of the trees, by named predicates.

### Builtins

A builtin maps variables and arguments to variables and a status.  `MCExpansion` calls
getopts until it reports the end, with a reset of OPTIND at any time; lets reads with
different options share one input with other builtins in between, the rest of which the
runtime installs again (`install_read_remainder`); and formats every argument list.

### NetworkPolicy, NetworkClient and Transfers

The actions of `Transfers` are `ParseArgs`, `NextUrl`, `CheckUrl`, `Fetch`, `FollowRedirect`, `Settle`,
`Retry`, `Deliver`, `Finish`.  The server's answer to each `Fetch` is free within the
job's set.  `sent` records every request that left, with its answer.  What a command
means (`job.want`) and what the policy's rules stand for (`job.config`, `Permitted`) are
written down independently of the parser and of `NetworkPolicy`, for each job of
`MCNetwork`.  `Understood`, `BuiltAsMeant` and `DecidedAsMeant` say that one call of the
parser, the builder or the check did what that says; the proofs start from them.

## 3. What TLC checks

| run | instance | what it shows |
|---|---|---|
| `progressive` | nine scripts, one-list polls, 2 runs, one Init, one idle signal | `ResumeEquivalence`: cut into polls, with trapped and ignored signals in between, a script runs the commands and gives the status one uninterrupted evaluation gives. `ExitOwed`: one Exit per run. `PipelineOwned`. `CancelQuiet`: nothing runs between a cancel and its Exit. `StopsHonoured`: steps within the limit, the code of a stopped run. `RunsEnd`: a polled run ends. |
| `pipeline` | 31 scenarios, one-byte pipes, three source bytes | `Conserved`: nothing lost, doubled or reordered between stages. `NoSilentLoss`: a pipeline that reports success delivered everything. `NoStall`: no circular wait. `Released`: no child or staging file survives. `Ends` although the host may never answer |
| `runner_sessions` | 2 creates with all faults, 3 creates over 1 slot, 2 ids | `SlotsConserved`, `RegistrySound`, `PoolSpec` (refinement); `CreatesAnswered`, `ClosesEnd` |
| `dispatcher` | minted ids, 3 requests, 2 runners, timeouts, drains and one other fault | `Routable`, `AnswersHold`, `Answered` |
| `shell` | 1330 programs, each in four kinds of used session | `Agrees`: flags and signals give the same output, status and variables, and a run out of steps printed a prefix. `Unwound`: every run leaves a clean shell |
| `files` | three steps from four trees, files of 3, 4 bytes and 7 inodes in all | `QuotaSafe`, `Confined`, `ReportsTrue`, `TreesFaithful` |
| `routing` | two commands with up to three redirections, groups, captures, substitutions | `Routed`, `NoLeftovers` |
| `text` | 110 command lines over ten texts, chunks and pieces of up to two bytes | `Streamed`: a stage prints what the utility prints. `LinesKept`: laws of grep, uniq, cut, sort, sed -i.  Deadlock is checked: no reader stops short |
| `syntax` | trees of three growth steps, words of three parts, nesting limit 2 | `RoundTrip`, `ScannersAgree`, `LoweredFaithfully` |
| `expansion` | trees of three growth steps, four-bit integers, four commands on variables | `PatternsFaithful`: globs, regular expressions, `[[ ]]` and `test`. `ExpansionsFaithful`: parameters, arithmetic, braces, words. `BuiltinsFaithful`: options one by one however bundled, one record per read, each argument printed once. `ReadonlyKept` |
| `network` | commands × policies × every sequence of answers | `PolicyObeyed`, `CredentialsStay`, `RetriesJustified`, `Delivered` |
| `stream_rest` | scripts that begin with an external | ends in a counterexample: under `StartRun` the rest of `ext && echo` never runs, against `docs/reference/protocol.md:133` |

### Bounds

* `progressive`: a poll's quota is one list, so every boundary between lists is a
  poll boundary.  Lists have at most three pipelines, the smallest that has a skipped
  pipeline in the middle.  Two runs show what one leaves to the next.  `MinPollSteps`
  (100 in the code) is 8: enough for the ordinary scripts, and the script of two
  function calls uses it up exactly.  `OutputLimit` is reached only over two runs.
* `pipeline`: a capacity of one byte with chunks of two makes every write partial;
  three source bytes are more than a pipe and a chunk hold together; three stages have
  a stage with neighbours on both sides.  `MaxInput`, `PipeLimit` and `OutputLimit` lie
  below the source's length, so each of them is met in the middle of the stream.
* `runner_sessions`: with one slot the second create queues and the third stands behind
  it; two ids let a session have a successor of the same id and a neighbour of another.
* `dispatcher`: one create and two more requests; `MaxFaults` bounds the faults other
  than timeouts and drains, which are free.
* `shell`: programs nest two constructs around a command that unwinds, with a command
  after each; `StepLimit` 30 is reached by the endless and the nested ones.
* `files`: a block of two bytes and files of up to three cover the empty, the exact and
  the padded tail; four bytes in all are one file more than any tree starts with.  A tar
  archive is longer than a file may be, so sessions pack with `-z`: a compressed text is
  one element, and archives with plain, `..` and absolute names are stored and unpacked.
* `text`, `syntax`, `expansion`, `network`: inputs of a few characters, enough for two
  pieces of one line, a construct inside another beside a third, a chain of redirects
  that leaves and comes back.

### Fairness

* `WF(Poll)`: a host that started a run polls it until its Exit, and the runtime
  never stops inside a command (it is single threaded and does not block).
* `WF(Turn)`, `WF(ClockPasses)` of `StreamingPipeline`: `Turn` says only that the
  scheduler goes on to its next stage or phase, whichever way the host answers; the
  passes are made by that poll.  An external's `timeout_ms` is validated to be at least
  1 at registration, so every pending pipeline has a deadline.  The external host is
  not fair.
* `RunnerSessions`: settled promises continue; the ready timer and every request's
  timer exist (`DEFAULT_REQUEST_TIMEOUT_MS`), so either the event or its timer comes;
  a terminated worker exits.  Runs and clients are not fair.
* `Dispatcher`: reqwest's connect and request timeouts bound every await.  Nothing is
  assumed of runners.

Deadlock is checked only in `text`: the runtime, the runner and the dispatcher may all
be idle for ever, and the other instances come to rest when their input is used up.

## 4. Where the code differs from its documents or from bash

Found while the models were written.  The models take the code's side; the trees and
inputs of the MC modules leave out what would only restate one of these, by the
predicates named below where the property would otherwise fail or, worse, have to ask
for what the code does.  The first of them is a run of its own (`stream_rest`).

### The executor and the control plane

* Under `StartRun` the rest of an and-or list whose first pipeline is a streaming
  external is dropped (`wasmsh-runtime/src/lib.rs:4827`, against
  `docs/reference/protocol.md:133`).
* `execute_ir_program` discards the `StepResult` (`lib.rs:5281`), so a budget that runs
  out on the VM path is noticed only by the next step
  (`docs/reference/sandbox-and-capabilities.md:74`); `vm.output_bytes` is never reset
  between runs (`lib.rs:4576`, same document, line 80).
* `apply_streaming_deadline` gives 124 only to unfinished externals (`lib.rs:5062`):
  whether a deadline shows in the status depends on its race with the last external's
  exit.  `Ends` claims the end, not the status.
* `exit_requested` and the stop reason of a finished run stay until the next start: an
  idle signal's handler reads them (`lib.rs:4708`, `5198`); the EXIT trap runs against
  the used-up step counter (`lib.rs:4636`); the frame of a refused recursion is not
  given back (`wasmsh-vm/src/lib.rs:187`), so such frames can use up the limit, the EXIT
  trap of a cancelled run is refused, and it ends with Exit(128) instead of 130.
* A list goes on after `exit || cmd`, and one whose VM step was refused is abandoned.
* A host that reports an error beside the exit status 0 makes `append_poll_output`
  (`lib.rs:1351-1391`, `self.status.unwrap_or(126)`) fail the stage with status 0: its
  pending input is thrown away and the pipeline reports success.  `HostPolls` lets this
  happen only to a child that exits before it has read its input ("exit"), for which
  `NoSilentLoss` claims nothing.
* `head -n 0` in a streaming pipeline passes one unit (`lib.rs:1843`).
* `execute_pipeline_chain` does not look at the unwinding flags (`lib.rs:5943`, against
  the comments at 150 and 10433); `with_exec_io_scope` (`lib.rs:5769`, comment 9067)
  hides a group's input from nested commands.
* A worker that never becomes ready leaves `inflight_restores` counted
  (`restore-engine.mjs:237`, `metrics.mjs:29`); `draining` is read once at the start of
  `createSession` (`runner-main.mjs:205`); a close that waits for the exit of a worker that
  crashed waits for ever (`restore-engine.mjs:150`, excepted in `ClosesEnd`).
* With ids chosen by clients, a duplicate create releases the live session's affinity
  (`service.rs:370`, `architecture.md:405`); a DELETE answered 404 leaves the affinity
  in place (`service.rs:663`).

### The interpreter

* A `return` in a condition loses its status; a `for` does not look at
  `return_requested` before its next round; a stray `break` leaks into the next loop;
  `continue n` ignores `n`; `break`, `return`, `cd` and array element assignments inside
  a subshell leak out of it.
* errexit: `f || true` with a failure inside `f` exits, against
  `docs/guides/troubleshooting.md:112-115`; `return N` under `set -e` exits; the list
  form never fires; a negated compound is not exempt.
* `local` saves scalars only; the parent's EXIT trap fires in `$(...)` and `sh -c`; a
  shebang script leaks its settings; the RETURN trap never fires; a DEBUG handler that
  exits does not stop its command.
* Redirections: `$(...)` gets no stdin; a bare redirection always has status 0; two
  sinks on one file replace each other's contents.
* Every builtin and utility takes its scope's input and drops what it does not read
  (`lib.rs:8211`, `10148`, `10300`, `3667`): `{ echo; cat; } < g` copies nothing
  (`InputLost`).  `_STDIN_REMAINING` outlives the scope it was read in: in `read x < f;
  read y` the second read goes on in `f`.
* A command of redirections only moves what is pending: `2>f` and `2>&1` move the stderr
  of earlier commands too, and after a path that cannot be opened the next redirection is
  tried all the same, though a refusal of noclobber ends it (`lib.rs:12637-12733`;
  `BareAny` and `BareLast` have the forms that mean the same in both).
* `for x in "$@"` without arguments runs the body once (`lib.rs:10539`, comment
  10494-10499; `NoElement`); an unclosed quote is accepted (`wasmsh-parse/src/lib.rs:280`,
  `tests/suite/errors/unclosed_single_quote.toml:2`).

### Syntax and expansion

* `$((1 + (2 * 3)))` is cut at the first `))` (`word_parser.rs:258`); the scanners
  disagree on `$(echo \()`, `${x:-"}"}`, `$'it\'s'`; bodies of here documents on
  one-line compounds are lost; `<<\EOF` still expands; `case x in a) b; ;; esac` is an
  error; `${ }` does not count towards `MAX_LEX_DEPTH`; streaming `s/^a/X/g` slices out
  of range (`streaming_sed.rs:262`).
* An unquoted `$x` is not split, nor dropped when empty (`docs/reference/shell-syntax.md:160`,
  `SUPPORTED.md:102`; `ToSplit`); quotes do not protect `*` (`QuotedStar`) and braces in a
  for list; globs in leading directories and a final `**` do not
  match; `${v?msg}` never errors; the operands of `:+` and `/pat/rep` are not expanded;
  `${a[@]%x}` is empty; `{3..1..2}` is literal; array elements keep insertion order; a
  cycle of name references recurses without end; byte slices panic inside characters.
* Arithmetic evaluates both sides of `&&`, `||` and `?:`; `/=` by 0 gives 0; `08` and
  literals out of range are 0; a base above 36 panics.
* `[a-]`, unclosed classes, `!(...)` beside wildcards, groups of `=~` that need
  backtracking, and operands of `[[ ]]` that look like operators are matched otherwise
  than in bash.  `[[ false && s =~ re ]]` tries the expression and overwrites `BASH_REMATCH`
  (`dbl_bracket.rs:22-41`, against `docs/reference/shell-syntax.md:118-119`;
  `SettledBefore`).

### Builtins, utilities, network

* `getopts`: `OPTIND=1` in the middle of the first word's cluster does not start again
  (comment `wasmsh-builtins/src/lib.rs:1201`; `InFirstCluster`).
* `read`: the last variable keeps leading blanks (against the comment at 1671-1672;
  `BlankBeforeLast`) and a trailing delimiter; escapes are removed before splitting, so an escaped separator still
  separates; `read -n N` swallows a delimiter right behind (`DelimiterBehind`); after a failed `read -u 3` an
  old remainder becomes the input; a utility inside `while read` is given the rest and
  `read` reads it again.  `%03d` pads before a sign.
* `readonly r=v`, `readonly` of an array and `declare -n` change a variable that is
  readonly (`wasmsh-state/src/lib.rs:413-427`, `wasmsh-runtime/src/lib.rs:11632-11651`,
  against `docs/reference/builtins.md:100`).  `MarkReadonly` and `Refer` take these steps;
  `ReadonlyKept` names them as its two exceptions (`Remarks`, `Refers`).
* Text: `sort`, `uniq`, `cut`, `rev` and `column` read their first file only; `sort -rc`
  tests the wrong way (`text_ops.rs:2254`); streaming `cat` ignores operands; `grep -H` of
  stdin and `paste -s` differ between stream and utility, and so does `grep -w` beside a
  letter of two bytes, which only the stage takes for one (`text_ops.rs:982-994`,
  `streaming_grep.rs:49-52`; `Differs`).  `tr -s SET ''` squeezes in the stream and not in
  the utility (`streaming_tr.rs:196`, `text_ops.rs:2709`); `sed -- script` is taken by the
  stage (`lib.rs:7136-7166`), while the utility misses its script.
* Files: `mv f f` loses the file; `ensure_parents` accepts a file as parent; the byte
  account leaks on some overwrites; `tar` cuts names of more than 100 bytes and unpacks
  absolute and `..` names as they are (`archive_ops.rs:814`), which `unzip` refuses, so that
  `Confined` holds it to the names in the archive; `--strip-components`
  (`docs/reference/utilities.md:316`) is not in the code; `touch -c`,
  `find -maxdepth 0`, `mkdir -m` are not honoured.
* Network: `curl -L` without `--max-redirs` follows 50 hops (`net_ops.rs:1611`), not the 10
  of `docs/reference/utilities.md:344`, so every job that follows redirects sets its limit;
  `wget --max-redirect` (line 354 there) does not exist; "There is no denylist"
  (`design-decisions.md:140`) is older than ADR-0021.  A redirect that becomes a GET keeps Content-Type; `-o` with several
  URLs overwrites; `--max-filesize` looks at the decompressed body; `--retry-delay` and
  `--retry-max-time` are unused; a failed write leaves an emptied file and status 23.

## 5. What is proved

Every theorem holds for every value of the constants that satisfies the assumption
named for its module, so for scripts, pipelines, numbers of requests, runners and
slots of any size.

### ProgressiveRunProofs (`ConstantsAssumption`)

* `TypeCorrect` (`TypeOK`), `PipelineIsOwned` (`PipelineOwned`), `OneExitPerRun`
  (`ExitOwed`) as invariants; `CancelIsQuiet` (`CancelQuiet`): no command runs between
  a cancel and the Exit.

  The inductive invariant is `IInv == TypeOK /\ PhaseInv /\ PipelineOwned /\ ExitOwed`.
  `PhaseInv` says what the executor may rely on in the middle of a poll: a poll belongs
  to an active run; while a list is executed there is no pending pipeline and no
  cancellation, the list exists, and `pc` is inside it.  It is what makes
  `PipelineOwned` inductive (a pipeline starts only at a list's beginning) and what
  `CancelQuiet` follows from (a cancel comes between polls only, and the next poll
  looks at it before it executes anything).  A machine passes through some twenty
  operators in one step; the `...Keeps` lemmas say that each of them keeps the type and
  the cancellation flag, and are chained with `KeepsTrans`.
* `StepsAlwaysBounded` (`StepsBounded`), `LimitsStop` (`LimitStops`), `CancelExits`
  (`CancelExit`), together `StopsAlwaysHonoured` (`StopsHonoured`).  `StopInv ==
  StepsBounded /\ LimitHit /\ CancelSeen`: a list that has hit a limit has itself run the
  last command (so what may still run is of the same list), and a poll of a cancelled run
  gets no further than the loop, which notes the cancellation.
* `RunsResume` (`ResumeEquivalence`; hypothesis `AllStraight`): a run cut into polls anywhere, with trapped and
  ignored signals in between, runs what the reference shell of `ShellReference` runs and
  ends with its status.  `AllStraight` leaves out two kinds of list for which the code
  does otherwise (section 4): one with a streaming external among several pipelines, whose
  rest is dropped, and one that goes on after `exit`.  The `CoreScripts` of the
  run `progressive` satisfy it (`CoreStraight`, evaluated by TLC); the run `stream_rest` shows that the first
  restriction is needed.  `ResumeInv == Place /\ Follow`: `Follow` says
  that, as long as no limit refused anything and nothing from outside interfered, the
  machine has run the commands, and has the status and the trap, that the reference has at
  the same place of the script, for each phase of a poll; `Place` that it is in the script.

`RecursionProofs` has the little induction the others use: a set of numbers that
holds 0 and with k also k + 1 up to n holds 0..n (`UpTo`), least and greatest elements,
and that a recursive function on 0..n satisfies its equations (`ByRecursion`).

### RunnerSessionsProofs (`RunnerAssumption`)

* `TypeCorrect`, `SlotsAlwaysConserved` (`SlotsConserved`), with `PoolInv == QueueInv /\
  SlotsConserved`.  `QueueInv` says that the queue lists each waiting create once and
  that nobody waits while a slot is free; the counting is done with the finite set
  theorems.
* `RunnerImplementsPool` (`PoolSpec`): the runner's counters, promises and workers are a
  refinement of `SlotPool`, step by step.
* `RegistryAlwaysSound` (`RegistrySound`), with `RegistryInv == SessionInv /\ Rivals /\
  Listed /\ Entries /\ Reachable`.  `Rivals` is what makes it inductive:
  two creates of one client-chosen id may both be open, but then one of them is gone
  already or a worker of that id was terminated.

### DispatcherProofs (`DispatcherAssumption`, and `Auth`: ids are minted)

`DispatcherTypes`, `SessionsRoutable` (`Routable`), `AnswersAlwaysHold` (`AnswersHold`),
from `TypeOK /\ Shape /\ RouteInv`.  With ids chosen by clients both fail (section 4),
so `Auth` is a hypothesis.  `RouteInv` rests on `OneCreate` (an id has one create), `Asked`
(a client uses only a session it was told of), `Placed`, `Hosted` and `Held` (affinity and
session are where the create was sent, the affinity already while it is under way),
`Followed` (a request goes where the create did) and `Lost` (a session that was not found
or was closed is on no runner, and will be on none).

### StreamingPipelineProofs (`StreamingAssumption`)

* `WriteFacts`, `ReadFacts`, `CloseFacts` say what an operation on a pipe returns,
  keeps and bounds; the pipeline proofs use only these.
* `PipelineTypes`, `PipesWithinCapacity`, `PipelineReleases` (`Released`),
  `PipelineNeverStalls` (`NoStall`), from `PipelineInv == TypeOK /\ Config /\ Shape /\
  WithinCapacity /\ SyncInv /\ Released /\ NoStall`.  `SyncInv` holds the wiring of the
  ends of pipes to the stages beside them and what a stage that reported pending waits
  for.  `NoCircle` excludes the stall: the last stage that is blocked would be
  blocked by one that reads, the first that is starved would be starved by one that is
  done and has closed its output; so all are done, unless one has failed.

### ConservationProofs (`StreamingAssumption`)

`BytesConserved` (`Conserved`).  The invariant `FlowInv` gives each stage three positions
in the source: `put` (written to its output pipe), `have` (had by the stage), `got` (read
from that pipe).  Each buffer, without merged stderr, is the segment of the source
between two positions, and the positions of neighbours meet, unless the stage is `Lost`:
it threw bytes away, takes no more, and there is a reason that breaks `Intact`.  `Order`
says when a stage may be done: `Sane` (its own buffers and flags agree), `AtEnd`
(its input is closed when it has seen the end of it), `Reasoned` (why an end of a pipe is
closed: its writer is done, or a stage further on gave up). The proof has three layers:
what a poll does to the view of one stage (`Moves`, `Drops`, `Starts`), what that is for
the stage and its two pipes (`Lands`), and what it leaves of `Order` and `FlowInv` for the
whole pipeline.

### LossProofs (`StreamingAssumption`, and `HeadBytes > 0`)

`NothingLostSilently` (`NoSilentLoss`): a pipeline that ran to its end and reports success
under pipefail has delivered its source, or exactly what `head` asked for.  The hypothesis
is the code's: `update_head_limit` counts down after a byte was taken, so `head -c 0`
passes a byte.  `NoSilentLoss` itself leaves out a child that exits before it has read its
input, and stderr merged before a `head`, which counts it.

`FlowInv` alone does not give it: it says nothing of a stage that is `Lost`, and a stage
may stop reading for a good reason or a bad one.  Two invariants are added:

* `Settled` (while no child exits early): every stage is `Ending`.  Its flags mean what they
  say (`Firm`: one that has not failed and has seen the end of its input really got all of
  it, a child that is gone has taken its inbox), and unless a stage further on is the
  `Cause` of its end, it ended `Emptied`, with nothing left in its buffers.  Without merged
  stderr or failure, all buffers are `Clear` of stderr.
* `PlacesInv`: the positions of `FlowInv` exist and satisfy `Tally`.  `Begun`: a first stage
  that makes its data itself has made all of it, is lost or has yet to run; `Counted`: what
  a head has read and what it still wants are together what it wanted at first.

Each poll and each quiet step keeps them (`PollSettled`, `QuietSettled`, `PollTallies`,
`QuietTallies`, on the lemmas of `ConservationProofs` about the same poll).  At the end all
stages succeeded (`AllSucceeded`); a stage that ended without a cause has passed on all it
was given (`EndedStage`, `PassedOn`), a head all that it wanted (`HeadPassedOn`); and by
induction along the pipeline the last has passed on the source, cut at the limit
(`AllPassedOn`, `FinishedWhole`).

### NetworkProofs (`JobsAssumption`, and `Bound`)

* `RetriesAlwaysJustified` (`RetriesJustified`, where `Understood`), `CredentialsAlwaysStay`
  (`CredentialsStay`, where `BuiltAsMeant`), `PolicyAlwaysObeyed` (`PolicyObeyed`, where
  `DecidedAsMeant`): for any commands, policies and servers, over every chain of redirects
  and every number of attempts.

`Bound` says which of the constant operators are fixed: the check and the redirect are
`CheckTarget` and `NextHop`; a command line is parsed to a list, what is built for a member
of it is a request, a server answers with an error or a response.  The parser, the builder,
the servers and the delivery are otherwise arbitrary.  What the parser, the builder and the
check compute from a text is a recursion over data, out of the prover's reach; that they
compute what is meant is therefore a hypothesis of each theorem, about the transfer under
way and single calls only.  The states of the run `network` satisfy the three hypotheses:
it passes with `Understood`, `BuiltAsMeant` and `DecidedAsMeant` added to its invariants.
What the theorems add is that the loop around these calls keeps the promise: no hop is
sent unchecked, no attempt starts from a stripped or redirected request, and none is spent
on a failure that does not pass.

`Listed` says that the transfers left to do were asked for.  The inductive invariant is
`TransferInv == Shape /\ History /\ Counts /\ Past /\ Luggage /\ Checked`.  `History`
relates the loop's counters to the requests sent: those of the attempt under way are the
last ones, one per hop, and its result is the last answer, a refusal or one redirect too
many.  `Counts` and `Past` bound attempts and hops by the options, and say how each earlier
attempt ended.  `Luggage` says what the next request carries, at home and once a chain has
been away; it is about the request about to be sent too, since stripping is never undone in
an attempt and always undone by the next.  `Checked` says that what is about to be fetched
was approved.  `StripFacts` says that no header in `Sensitive` survives
`strip_cross_origin_sensitive_headers`, by an induction on the list.

### Only model-checked

* Liveness (`RunsEnd`, `Ends`, `CreatesAnswered`, `ClosesEnd`, `Answered`): fairness is
  outside the prover's reach.
* Everything about the components written as recursive operators (`ControlFlow`,
  `FileUtils`, `Redirections`, text, syntax, expansion, builtins), whose references are recursive
  too; and what the parser, the request builder and the delivery of `NetworkClient` compute
  (`Delivered`, and the hypotheses of `NetworkProofs`).

## 6. What is abstracted and what is missing

* `ProgressiveRun`: words, variables, redirections and compound commands inside a list
  (they are in `ControlFlow` and `Redirections`); `set -n`, `set -v`;
  `vm_subset_enabled = false`; the file and Mount commands; event texts.
* `StreamingPipeline`: filters copy their input (what they do to it is in
  `StreamingFilters`); negation, `time` and the stderr that is not merged.  The two EOFs of
  a child are one flag, whose output is ended when both are.  The second open in
  `ensure_staging_handle` (`lib.rs:1574-1582`) reads a file that was just created and cannot
  fail in `memfs.rs`; on another file system its failure would leave that file behind.
* `RunnerSessions`: the template worker, latency samples and `restore_queue_depth`;
  HTTP encoding.  `StartRestore` is a step of its own although the code takes it in the
  event that gives the slot.
* `Dispatcher`: the loads behind `compare_runner_priority` (any accepting runner may be
  chosen), the token check, body limits; one refresh fetches all snapshots at one
  moment, and applies them later (`service.rs:476-489` awaits them one by one).
* `ControlFlow`: positional parameters, `set -n`, `-v`, `-x`, `-T`, `-E`, `wait`, `times`.
* `FileUtils`, `TextUtils`: layouts, dates, owners and the regular expression engine;
  texts are over a few characters; archives on stdin or stdout (`-`) of tar.
  `NetworkClient`: wording, digests and encodings; `NetworkPolicy`: what `Url::parse` makes
  of a host is reduced to lower case and to one address in two spellings, without IDNA.
* `Redirections`: those of a bare assignment, which take the same code as `Bare`.
* `ShellState`, `Builtins`: RANDOM, SECONDS and `$-`; echo, pwd, cd, type and the
  printing of variables; numeric escapes, `%x`, `%o`, `%f`.
* Not modelled: the parts PROJECT.json lists so, with the reason: awk, jq and the other
  sequential utilities, message types, hosts and integrations that are thin loops over
  code outside the repository.

## 7. What the plan has left

1. `FetchBroker`: the shared buffer between a waiting guest and the host, and
   `NodeSession`, the request map of a child process that may exit.
2. Composition of `Dispatcher` with `RunnerSessions`: the runner of `Dispatcher` as an
   abstraction that `RunnerSessions` implements.
