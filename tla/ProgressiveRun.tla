---------------------------- MODULE ProgressiveRun ----------------------------
(* The resumable executor of wasmsh-runtime (WorkerRuntime::handle_command).  *)
(*                                                                            *)
(* The worker is single threaded: host commands (Init, Run, StartRun,         *)
(* PollRun, Signal, Cancel) are served one at a time, and one PollRun walks   *)
(* the phases "begin" -> "signals" -> "steps" -> ("vm" | "chain") -> "post"   *)
(* -> "steps" ... -> "end" before the next host command is looked at (phase "idle").     *)
(* Run drains the same executor, poll after poll, without returning to the    *)
(* host.                                                                      *)
(*                                                                            *)
(* A program is a sequence of and-or lists.  Commands are told apart by what  *)
(* they do to the executor: the path that runs them (IR virtual machine or    *)
(* pipeline chain) and their effect on status, budgets, traps and exit.       *)
EXTENDS Integers, Sequences

CONSTANTS
    Programs,        \* the scripts the host may submit
    StepBudget,      \* BrowserConfig.step_budget; 0 is unlimited
    MinPollSteps,    \* MIN_POLL_STEPS, the floor of the per-poll step limit
    OutputLimit,     \* output_byte_limit, in units of one write; 0 is unlimited
    RecursionLimit,  \* recursion_limit (MAX_RECURSION_DEPTH by default)
    Signals,         \* the signals the host may send
    MaxRuns,         \* bound: runs the host starts between two Inits
    MaxInits,        \* bound: Init commands
    MaxSignals,      \* bound: signals queued on one run, and sent when idle
    Deadline         \* polls after which a streaming pipeline is past deadline

NoExit == -1

VmCommand    == {"true", "false", "echo", "set_e", "trap_echo", "trap_exit",
                 "trap_ignore", "trap_reset", "trap_EXIT"}
ChainCommand == {"exit", "call", "recurse", "loop", "ext0", "ext1"}
External     == {"ext0", "ext1"}
Command      == VmCommand \cup ChainCommand
Link         == [op : {"and", "or"}, cmd : Command]
AndOr        == [first : Command, rest : Seq(Link)]
Handler      == {"none", "ignore", "echo", "exit"}
Stop         == {"none", "steps", "output", "recursion", "cancelled"}
Phase        == {"idle", "begin", "signals", "steps", "vm", "chain", "post", "end"}

(* RUNTIME_SIGNAL_SPECS: one signal per way the table's rows differ.          *)
SignalSpec ==
    [TERM |-> [number |-> 15, terminates |-> TRUE],
     KILL |-> [number |-> 9,  terminates |-> TRUE],
     CHLD |-> [number |-> 17, terminates |-> FALSE]]

ASSUME ConstantsAssumption ==
    /\ StepBudget \in Nat /\ MinPollSteps \in Nat \ {0}
    /\ OutputLimit \in Nat /\ RecursionLimit \in Nat \ {0}
    /\ MaxRuns \in Nat /\ MaxInits \in Nat /\ MaxSignals \in Nat
    /\ Deadline \in Nat \ {0}
    /\ Programs \subseteq Seq(AndOr)
    /\ Signals \subseteq DOMAIN SignalSpec

NoRun == [on |-> FALSE, prog |-> <<>>, drain |-> FALSE]

VARIABLES
    up,       \* initialized
    m,        \* Vm and ExecState: status, budgets, traps, stop bookkeeping
    run,      \* active_run and whether Run (drain) or StartRun began it
    phase,    \* where the poll in progress is; "idle" between host commands
    idx,      \* ActiveRun's position: the and-or list being executed
    pc,       \* IR program counter ("vm") or next pipeline of the list ("chain")
    left,     \* poll_active_run's `remaining`
    sigs,     \* pending_signals
    stream,   \* pending_streaming_pipeline
    polls,    \* polls the pending pipeline has had: its age against Deadline
    ran,      \* history: <<and-or, pipeline>> of the commands this run executed
    owed,     \* history: runs accepted minus Exit events that answered one
    code,     \* history: the code of the last Exit event
    calm,     \* history: nothing outside the script interfered with this run
    start,    \* history: the machine when the run started
    count     \* bounds: runs, inits and idle signals so far

ghosts == <<ran, owed, code, calm, start, count>>
vars   == <<up, m, run, phase, idx, pc, left, sigs, stream, polls, ghosts>>

Machine ==
    [last : Nat, steps : Nat, out : Nat, vis : Nat, bstop : Stop, depth : Nat,
     cancelled : BOOLEAN, errexit : BOOLEAN, term : Handler, xtrap : Handler,
     exit : Nat \cup {NoExit}, exhausted : BOOLEAN, stop : Stop,
     xstart : Handler]

(* Vm::with_limits with a new ShellState, and ExecState::new.                 *)
FreshMachine ==
    [last |-> 0, steps |-> 0, out |-> 0, vis |-> 0, bstop |-> "none",
     depth |-> 0, cancelled |-> FALSE, errexit |-> FALSE, term |-> "none",
     xtrap |-> "none", exit |-> NoExit, exhausted |-> FALSE, stop |-> "none",
     xstart |-> "none"]

-----------------------------------------------------------------------------
(* Budgets (wasmsh-vm).  lim is the step limit in force.                      *)

(* poll_active_run raises the limit to MIN_POLL_STEPS for the poll and        *)
(* restores the configured one afterwards.                                    *)
PollLimit ==
    IF StepBudget = 0 THEN 0
    ELSE IF StepBudget < MinPollSteps THEN MinPollSteps ELSE StepBudget

CanStep(s, lim) ==
    ~s.cancelled /\ s.bstop # "output" /\ (lim = 0 \/ s.steps < lim)

(* Vm::begin_step: a refused step records why in the budget tracker.          *)
BeginStep(s, lim) ==
    IF CanStep(s, lim) THEN [s EXCEPT !.steps = @ + 1]
    ELSE [s EXCEPT !.bstop = IF s.cancelled THEN "cancelled"
                             ELSE IF @ = "output" THEN "output" ELSE "steps"]

CheckResourceLimits(s, lim) ==
    LET b == BeginStep(s, lim)
    IN  IF s.exhausted THEN s
        ELSE IF CanStep(s, lim) THEN b
        ELSE [b EXCEPT !.exhausted = TRUE, !.stop = b.bstop]

(* RuntimeOutputRouter::account_output, behind the builtins of the IR path:   *)
(* counts against vm.output_bytes alone, and clears the stop reason.          *)
RouterOutput(s) ==
    LET o == [s EXCEPT !.out = @ + 1, !.stop = "none"]
    IN  IF ~s.exhausted /\ OutputLimit > 0 /\ o.out > OutputLimit
        THEN [o EXCEPT !.exhausted = TRUE, !.stop = "output"] ELSE o

(* WorkerRuntime::account_output, behind everything else: the tracker counts  *)
(* visible_output_bytes, and a limit hit is flagged without a stop reason.    *)
TrackedOutput(s) ==
    LET over == OutputLimit > 0 /\ s.vis + 1 > OutputLimit
        hit  == over \/ s.bstop = "output"
    IN  [s EXCEPT !.out = @ + 1, !.vis = @ + 1,
                  !.bstop = IF over THEN "output" ELSE @,
                  !.exhausted = IF hit THEN TRUE ELSE @]

(* BudgetTracker::enter_recursion counts the frame before it refuses it, and  *)
(* no caller gives a refused frame back; mark_recursion_exhaustion.           *)
RecursionRefused(s) == s.depth + 1 > RecursionLimit
EnterRecursion(s)   == [s EXCEPT !.depth = @ + 1]
ExitRecursion(s)    == [s EXCEPT !.depth = IF @ > 0 THEN @ - 1 ELSE 0]
MarkRecursion(s)    == [s EXCEPT !.depth = @ + 1, !.bstop = "recursion",
                                 !.stop = "recursion", !.last = 128]

-----------------------------------------------------------------------------
(* Commands.                                                                  *)

(* handle_post_and_or for a list of one pipeline: should_errexit.             *)
Errexit(s) ==
    IF s.errexit /\ s.last # 0 /\ s.exit = NoExit
    THEN [s EXCEPT !.exit = s.last] ELSE s

(* What the builtins that print nothing do to the shell state.                *)
Quiet(s, c) ==
    CASE c = "true"        -> [s EXCEPT !.last = 0]
      [] c = "false"       -> [s EXCEPT !.last = 1]
      [] c = "set_e"       -> [s EXCEPT !.last = 0, !.errexit = TRUE]
      [] c = "trap_echo"   -> [s EXCEPT !.last = 0, !.term = "echo"]
      [] c = "trap_exit"   -> [s EXCEPT !.last = 0, !.term = "exit"]
      [] c = "trap_ignore" -> [s EXCEPT !.last = 0, !.term = "ignore"]
      [] c = "trap_reset"  -> [s EXCEPT !.last = 0, !.term = "none"]
      [] c = "trap_EXIT"   -> [s EXCEPT !.last = 0, !.xtrap = "echo"]

(* RuntimeVmExecutor::execute_builtin.                                        *)
VmBuiltin(s, c) == IF c = "echo" THEN [RouterOutput(s) EXCEPT !.last = 0] ELSE Quiet(s, c)

(* The runtime command `exit 7`.                                              *)
ExitCommand(s) == [s EXCEPT !.exit = 7, !.last = 7]

(* execute_complete_command on one `echo` (IR path: its IR costs two steps,   *)
(* a refused step abandons it) or one `exit 7` (chain path).                  *)
Stopped(s) == s.exit # NoExit \/ s.exhausted
Nested(s, h, lim) ==
    IF Stopped(s) THEN s
    ELSE IF h = "echo"
    THEN LET b == BeginStep(s, lim)
         IN  Errexit(IF CanStep(s, lim) THEN BeginStep(VmBuiltin(b, "echo"), lim) ELSE b)
    ELSE LET c == CheckResourceLimits(s, lim)
         IN  IF c.exhausted THEN Errexit(c) ELSE ExitCommand(c)

(* execute_input_inner: how trap handlers run.                                *)
ExecuteInputInner(s, h, lim) ==
    IF RecursionRefused(s) THEN MarkRecursion(s)
    ELSE ExitRecursion(Nested(EnterRecursion(s), h, lim))

(* execute_body on one `echo`.                                                *)
ExecuteBody(s, lim) ==
    IF Stopped(s) THEN s ELSE Nested(CheckResourceLimits(s, lim), "echo", lim)

(* call_shell_function on `f() { echo; }`.                                    *)
CallFunction(s, lim) ==
    IF RecursionRefused(s) THEN TrackedOutput(MarkRecursion(s))
    ELSE ExitRecursion(ExecuteBody(EnterRecursion(s), lim))

(* A body that runs until the step limit refuses the next step.               *)
OutOfSteps(s, lim) ==
    [s EXCEPT !.steps = lim, !.bstop = "steps", !.stop = "steps", !.exhausted = TRUE]

(* call_shell_function on `f() { f; }`: every frame costs a step for its body *)
(* and one for the next call, until the recursion or the step limit refuses.  *)
RunawayRecursion(s, lim) ==
    LET frames == IF s.depth < RecursionLimit THEN RecursionLimit - s.depth ELSE 0
        cost   == 2 * frames
        refuse == TrackedOutput(MarkRecursion([s EXCEPT !.steps = @ + cost]))
    IN  IF frames = 0 THEN refuse
        ELSE IF Stopped(s) THEN s
        ELSE IF lim = 0 \/ s.steps + cost <= lim THEN Errexit(refuse)
        ELSE IF s.steps < lim THEN Errexit(OutOfSteps(s, lim)) ELSE OutOfSteps(s, lim)

(* execute_while_loop on `while true; do :; done`.                            *)
EndlessLoop(s, lim) ==
    [(IF Stopped(s) THEN s ELSE OutOfSteps(s, lim)) EXCEPT !.last = 0]

(* run_single_pipeline_stage: one pipeline of a list outside the IR subset.   *)
(* streaming is allow_external_streaming; `echo` compiles to a Literal stage, *)
(* which no resource check guards; an external that is not the first          *)
(* pipeline of a streaming run is a stage the single-stage path rejects.      *)
ChainBuiltin(s, c, streaming, lim) ==
    IF c = "echo"
    THEN LET o == TrackedOutput(s) IN IF o.exhausted THEN o ELSE [o EXCEPT !.last = 0]
    ELSE IF c \in External /\ streaming
    THEN TrackedOutput([s EXCEPT !.last = 1])
    ELSE LET k == CheckResourceLimits(s, lim)
         IN  IF c = "loop" THEN EndlessLoop(k, lim)
             ELSE IF k.exhausted THEN k
             ELSE CASE c \in VmCommand -> Quiet(k, c)
                    [] c = "exit"      -> ExitCommand(k)
                    [] c = "call"      -> CallFunction(k, lim)
                    [] c = "recurse"   -> RunawayRecursion(k, lim)
                    [] c = "ext0"      -> [TrackedOutput(k) EXCEPT !.last = 0]
                    [] c = "ext1"      -> [TrackedOutput(k) EXCEPT !.last = 1]

-----------------------------------------------------------------------------
(* Signals, the EXIT trap and the end of a run.                               *)

(* signal_trap_handler: the modelled `trap` commands name TERM (and EXIT).    *)
HandlerOf(s, sig) == IF sig = "TERM" THEN s.term ELSE "none"
Trapped(s, sig)   == HandlerOf(s, sig) \in {"echo", "exit"}

RunSignalTrap(s, sig, lim) ==
    LET t == ExecuteInputInner([s EXCEPT !.last = 128 + SignalSpec[sig].number],
                               HandlerOf(s, sig), lim)
    IN  IF ~t.exhausted /\ t.exit = s.exit THEN [t EXCEPT !.last = s.last] ELSE t

Terminates(s, sig) == HandlerOf(s, sig) = "none" /\ SignalSpec[sig].terminates

(* One turn of drain_pending_signal_events.                                   *)
DeliverSignal(s, sig, lim) ==
    IF Trapped(s, sig) THEN RunSignalTrap(s, sig, lim)
    ELSE IF Terminates(s, sig) THEN [s EXCEPT !.exit = 128 + SignalSpec[sig].number]
    ELSE s

RunExitTrap(s, normally, lim) ==
    IF s.xtrap = "none" \/ (normally /\ s.xstart = s.xtrap) THEN s
    ELSE LET was == IF s.exit # NoExit THEN s.exit ELSE s.last
             t   == ExecuteInputInner([s EXCEPT !.exit = NoExit, !.last = was], s.xtrap, lim)
             now == IF t.exit # NoExit THEN t.exit ELSE was
         IN  [t EXCEPT !.exit = now, !.last = now]

EnsureStopReason(s) ==
    IF ~s.exhausted \/ s.stop # "none" THEN s
    ELSE IF s.cancelled THEN [s EXCEPT !.stop = "cancelled"]
    ELSE IF s.bstop # "none" THEN [s EXCEPT !.stop = s.bstop]
    ELSE IF OutputLimit > 0 /\ s.out > OutputLimit THEN [s EXCEPT !.stop = "output"]
    ELSE s

(* Mutant of CurrentRunExitStatus: a requested exit hides a cancellation.     *)
CurrentRunExitStatusExitFirst(s) ==
    IF s.exit # NoExit THEN s.exit
    ELSE IF s.exhausted THEN IF s.stop = "cancelled" THEN 130 ELSE 128 ELSE s.last

CurrentRunExitStatus(s) ==
    IF s.exhausted THEN IF s.stop = "cancelled" THEN 130 ELSE 128
    ELSE IF s.exit # NoExit THEN s.exit ELSE s.last

(* ExecState::reset.                                                          *)
ExecReset(s) == [s EXCEPT !.exit = NoExit, !.exhausted = FALSE, !.stop = "none"]

-----------------------------------------------------------------------------
(* The program under execution.                                               *)

Done          == idx > Len(run.prog)
Item          == run.prog[idx]
Pipelines     == Len(Item.rest) + 1
PipelineAt(k) == IF k = 1 THEN Item.first ELSE Item.rest[k - 1].cmd
Over          == Done \/ Stopped(m)

(* lower_vm_subset_and_or succeeds when every pipeline is one builtin.        *)
InVmSubset == \A k \in 1..Pipelines : PipelineAt(k) \in VmCommand

(* Whether the status so far lets pipeline k of the list run.                 *)
Taken(k) == k = 1 \/ (Item.rest[k - 1].op = "and") = (m.last = 0)

Init ==
    /\ up = FALSE /\ m = FreshMachine /\ run = NoRun /\ phase = "idle"
    /\ idx = 1 /\ pc = 0 /\ left = 0 /\ sigs = <<>> /\ stream = "none" /\ polls = 0
    /\ ran = <<>> /\ owed = 0 /\ code = NoExit /\ calm = TRUE
    /\ start = FreshMachine
    /\ count = [runs |-> 0, inits |-> 0, signals |-> 0]

-----------------------------------------------------------------------------
(* Host commands.                                                             *)

(* handle_init_command: a new Vm; an active run is dropped without an Exit.   *)
HostInit ==
    /\ phase = "idle" /\ count.inits < MaxInits
    /\ up' = TRUE
    /\ m' = [FreshMachine EXCEPT !.xstart = m.xstart]
    /\ run' = NoRun /\ idx' = 1 /\ sigs' = <<>> /\ stream' = "none"
    /\ ran' = <<>> /\ owed' = 0
    /\ count' = [runs |-> 0, inits |-> count.inits + 1, signals |-> 0]
    /\ UNCHANGED <<phase, pc, left, polls, code, calm, start>>

(* start_execution_with_streaming resets the transient state and the budgets. *)
Started(s) ==
    [ExecReset(s) EXCEPT !.xstart = s.xtrap, !.steps = 0, !.vis = s.out, !.depth = 0,
                         !.bstop = "none", !.cancelled = FALSE]

(* Mutant of StartRun: a second run is accepted while one is active.          *)
StartRunUnchecked(p, drain) ==
    /\ phase = "idle" /\ up /\ count.runs < MaxRuns
    /\ m' = Started(m) /\ start' = Started(m)
    /\ run' = [on |-> TRUE, prog |-> p, drain |-> drain]
    /\ idx' = 1 /\ sigs' = <<>> /\ stream' = "none"
    /\ phase' = IF drain THEN "begin" ELSE "idle"
    /\ ran' = <<>> /\ owed' = owed + 1 /\ calm' = TRUE
    /\ count' = [count EXCEPT !.runs = @ + 1]
    /\ UNCHANGED <<up, pc, left, polls, code>>

(* Run (drain) and StartRun: Run goes on to poll without returning.           *)
StartRun(p, drain) ==
    /\ phase = "idle" /\ up /\ ~run.on /\ count.runs < MaxRuns
    /\ m' = Started(m) /\ start' = Started(m)
    /\ run' = [on |-> TRUE, prog |-> p, drain |-> drain]
    /\ idx' = 1 /\ sigs' = <<>> /\ stream' = "none"
    /\ phase' = IF drain THEN "begin" ELSE "idle"
    /\ ran' = <<>> /\ owed' = owed + 1 /\ calm' = TRUE
    /\ count' = [count EXCEPT !.runs = @ + 1]
    /\ UNCHANGED <<up, pc, left, polls, code>>

(* A script that does not parse: status 2 and Exit(2), and nothing is reset.  *)
ParseError ==
    /\ phase = "idle" /\ up /\ ~run.on /\ count.runs < MaxRuns
    /\ m' = [m EXCEPT !.last = 2]
    /\ code' = 2
    /\ count' = [count EXCEPT !.runs = @ + 1]
    /\ UNCHANGED <<up, run, phase, idx, pc, left, sigs, stream, polls, ran, owed, calm, start>>

(* handle_signal_command while a run is active: queued for the next poll.     *)
SignalActive(sig) ==
    /\ phase = "idle" /\ up /\ run.on /\ Len(sigs) < MaxSignals
    /\ sigs' = Append(sigs, sig)
    /\ UNCHANGED <<up, m, run, phase, idx, pc, left, stream, polls, ghosts>>

(* handle_signal_command with no run: the handler, the ignore flag or the     *)
(* default action, and finish_idle_signal_exit when an exit is requested.     *)
SignalIdle(sig) ==
    LET s == DeliverSignal(m, sig, StepBudget)
        x == RunExitTrap(s, FALSE, StepBudget)
    IN  /\ phase = "idle" /\ up /\ ~run.on /\ count.signals < MaxSignals
        /\ count' = [count EXCEPT !.signals = @ + 1]
        /\ IF (Trapped(m, sig) \/ Terminates(m, sig)) /\ s.exit # NoExit
           THEN m' = ExecReset(x) /\ code' = CurrentRunExitStatus(x)
           ELSE m' = s /\ UNCHANGED code
        /\ UNCHANGED <<up, run, phase, idx, pc, left, sigs, stream, polls, ran, owed, calm, start>>

(* cancel_active_execution.                                                   *)
Cancel ==
    /\ phase = "idle" /\ ~m.cancelled
    /\ m' = [m EXCEPT !.cancelled = TRUE]
    /\ stream' = "none"
    /\ calm' = (calm /\ ~run.on)
    /\ UNCHANGED <<up, run, phase, idx, pc, left, sigs, polls, ran, owed, code, start, count>>

-----------------------------------------------------------------------------
(* poll_active_run.                                                           *)

(* Its opening, for the host's PollRun and for Run's own loop.                *)
PollRun ==
    /\ run.on /\ (phase = "idle" \/ phase = "begin")
    /\ phase' = "signals"
    /\ m' = [m EXCEPT !.steps = 0]
    /\ left' = StepBudget
    /\ UNCHANGED <<up, run, idx, pc, sigs, stream, polls, ghosts>>

(* drain_pending_signal_events stops early once the run is to end.            *)
DrainSignal ==
    /\ phase = "signals" /\ sigs # <<>>
    /\ LET s == DeliverSignal(m, Head(sigs), PollLimit)
       IN  /\ m' = s
           /\ calm' = (calm /\ ~Stopped(s))
           /\ phase' = IF Stopped(s) THEN "steps" ELSE phase
    /\ sigs' = Tail(sigs)
    /\ UNCHANGED <<up, run, idx, pc, left, stream, polls, ran, owed, code, start, count>>

SignalsDrained ==
    /\ phase = "signals" /\ sigs = <<>>
    /\ phase' = "steps"
    /\ UNCHANGED <<up, m, run, idx, pc, left, sigs, stream, polls, ghosts>>

(* Mutant of Halting: the loop does not look at the cancellation token.       *)
HaltingUncancelled == Over \/ (StepBudget > 0 /\ left = 0)

Halting == Over \/ m.cancelled \/ (StepBudget > 0 /\ left = 0)

(* The loop's exits: nothing left of the script or of this poll's quota, a    *)
(* cancellation (noted in the tracker) or a requested stop.                   *)
LoopExit ==
    /\ phase = "steps" /\ Halting
    /\ m' = IF ~Done /\ (StepBudget = 0 \/ left > 0) /\ m.cancelled
            THEN [m EXCEPT !.bstop = "cancelled", !.exhausted = TRUE] ELSE m
    /\ phase' = "end"
    /\ UNCHANGED <<up, run, idx, pc, left, sigs, stream, polls, ghosts>>

(* try_start_pending_streaming_pipeline looks at the first pipeline only.     *)
Streams == ~run.drain /\ Item.first \in External

StartStream ==
    /\ phase = "steps" /\ ~Halting /\ stream = "none" /\ Streams
    /\ stream' = "running" /\ polls' = 0
    /\ ran' = Append(ran, <<idx, 1>>)
    /\ UNCHANGED <<up, m, run, phase, idx, pc, left, sigs, owed, code, calm, start, count>>

StartVm ==
    /\ phase = "steps" /\ ~Halting /\ stream = "none" /\ ~Streams /\ InVmSubset
    /\ phase' = "vm" /\ pc' = 0
    /\ UNCHANGED <<up, m, run, idx, left, sigs, stream, polls, ghosts>>

StartChain ==
    /\ phase = "steps" /\ ~Halting /\ stream = "none" /\ ~Streams /\ ~InVmSubset
    /\ phase' = "chain" /\ pc' = 1
    /\ UNCHANGED <<up, m, run, idx, left, sigs, stream, polls, ghosts>>

(* poll_pending_streaming_pipeline and finish_pending_streaming_pipeline.     *)
(* Every pass may write some of the pipeline's output; an output limit hit on *)
(* the way closes the pipeline and leaves the status alone.                   *)
StreamWrites(s, n) == IF n = 0 THEN s ELSE TrackedOutput(s)

(* Mutant of StreamWaits: every poll restarts the pipeline's deadline.        *)
StreamWaitsRestarted ==
    /\ phase = "steps" /\ ~Halting /\ stream = "running" /\ polls < Deadline
    /\ \E n \in 0..1 :
           /\ ~StreamWrites(m, n).exhausted
           /\ m' = StreamWrites(m, n)
    /\ phase' = "end"
    /\ UNCHANGED <<up, run, idx, pc, left, sigs, stream, polls, ran, owed, code, calm, start, count>>

StreamWaits ==
    /\ phase = "steps" /\ ~Halting /\ stream = "running" /\ polls < Deadline
    /\ \E n \in 0..1 :
           /\ ~StreamWrites(m, n).exhausted
           /\ m' = StreamWrites(m, n)
    /\ polls' = polls + 1
    /\ phase' = "end"
    /\ UNCHANGED <<up, run, idx, pc, left, sigs, stream, ran, owed, code, calm, start, count>>

StreamEnds ==
    /\ phase = "steps" /\ ~Halting /\ stream = "running" /\ polls < Deadline
    /\ \E n \in 0..1 :
           LET w == StreamWrites(m, n)
           IN  m' = IF w.exhausted THEN w
                    ELSE [w EXCEPT !.last = IF Item.first = "ext0" THEN 0 ELSE 1]
    /\ stream' = "none" /\ phase' = "post"
    /\ UNCHANGED <<up, run, idx, pc, left, sigs, polls, ran, owed, code, calm, start, count>>

(* apply_streaming_deadline: status 124 and a diagnostic on stderr.           *)
StreamDeadline ==
    /\ phase = "steps" /\ ~Halting /\ stream = "running" /\ polls >= Deadline
    /\ LET w == TrackedOutput(m)
       IN  m' = IF w.exhausted THEN w ELSE [w EXCEPT !.last = 124]
    /\ stream' = "none" /\ phase' = "post" /\ calm' = FALSE
    /\ UNCHANGED <<up, run, idx, pc, left, sigs, polls, ran, owed, code, start, count>>

(* One instruction of run_with_executor.  The lowered list alternates         *)
(* commands (even pc) with the jumps over the next one (odd pc) and ends in   *)
(* ReturnLastStatus.  A refused step abandons the program: execute_ir_program *)
(* drops the StepResult, so the run goes on to the next list.                 *)
VmStep ==
    LET k == (pc \div 2) + 1
    IN  /\ phase = "vm"
        /\ IF ~CanStep(m, PollLimit)
           THEN /\ phase' = "post"
                /\ m' = BeginStep(m, PollLimit)
                /\ UNCHANGED <<pc, ran>>
           ELSE IF pc % 2 = 0
           THEN /\ m' = VmBuiltin(BeginStep(m, PollLimit), PipelineAt(k))
                /\ ran' = Append(ran, <<idx, k>>)
                /\ pc' = pc + 1
                /\ UNCHANGED phase
           ELSE /\ m' = BeginStep(m, PollLimit)
                /\ phase' = IF k = Pipelines THEN "post" ELSE phase
                /\ pc' = IF k < Pipelines /\ Taken(k + 1) THEN pc + 1 ELSE pc + 2
                /\ UNCHANGED ran
        /\ UNCHANGED <<up, run, idx, left, sigs, stream, polls, owed, code, calm, start, count>>

(* One pipeline of execute_pipeline_chain.  Nothing between two pipelines of  *)
(* a list looks at exit_requested or resource_exhausted.                      *)
ChainStep ==
    /\ phase = "chain"
    /\ m' = IF Taken(pc) THEN ChainBuiltin(m, PipelineAt(pc), ~run.drain, PollLimit) ELSE m
    /\ ran' = IF Taken(pc) THEN Append(ran, <<idx, pc>>) ELSE ran
    /\ pc' = pc + 1
    /\ phase' = IF pc = Pipelines THEN "post" ELSE phase
    /\ UNCHANGED <<up, run, idx, left, sigs, stream, polls, owed, code, calm, start, count>>

(* Mutant of PostAndOr: the progressive path forgets errexit.                 *)
PostAndOrNoErrexit ==
    /\ phase = "post"
    /\ idx' = idx + 1
    /\ left' = IF left > 0 THEN left - 1 ELSE 0
    /\ phase' = "steps"
    /\ UNCHANGED <<up, m, run, pc, sigs, stream, polls, ghosts>>

(* handle_post_and_or and advance_active_run_after_and_or.                    *)
PostAndOr ==
    /\ phase = "post"
    /\ m' = IF Pipelines = 1 THEN Errexit(m) ELSE m
    /\ idx' = idx + 1
    /\ left' = IF left > 0 THEN left - 1 ELSE 0
    /\ phase' = "steps"
    /\ UNCHANGED <<up, run, pc, sigs, stream, polls, ghosts>>

(* Mutant of RunEnds: the pending pipeline is not cancelled.                  *)
RunEndsKeepsPipeline ==
    /\ phase = "end" /\ Over
    /\ LET s == EnsureStopReason(m)
           x == RunExitTrap(s, ~Stopped(s), StepBudget)
       IN  m' = x /\ code' = CurrentRunExitStatus(x)
    /\ run' = [run EXCEPT !.on = FALSE]
    /\ phase' = "idle"
    /\ owed' = owed - 1
    /\ UNCHANGED <<up, idx, pc, left, sigs, stream, polls, ran, calm, start, count>>

(* The run ends with its one Exit: the pipeline is cancelled, the stop reason *)
(* settled, and the EXIT trap runs under the configured step limit.           *)
RunEnds ==
    /\ phase = "end" /\ Over
    /\ LET s == EnsureStopReason(m)
           x == RunExitTrap(s, ~Stopped(s), StepBudget)
       IN  m' = x /\ code' = CurrentRunExitStatus(x)
    /\ stream' = "none"
    /\ run' = [run EXCEPT !.on = FALSE]
    /\ phase' = "idle"
    /\ owed' = owed - 1
    /\ UNCHANGED <<up, idx, pc, left, sigs, polls, ran, calm, start, count>>

RunYields ==
    /\ phase = "end" /\ ~Over
    /\ phase' = IF run.drain THEN "begin" ELSE "idle"
    /\ UNCHANGED <<up, m, run, idx, pc, left, sigs, stream, polls, ghosts>>

Poll ==
    \/ PollRun \/ DrainSignal \/ SignalsDrained \/ LoopExit
    \/ StartStream \/ StartVm \/ StartChain
    \/ StreamWaits \/ StreamEnds \/ StreamDeadline
    \/ VmStep \/ ChainStep \/ PostAndOr \/ RunEnds \/ RunYields

Host ==
    \/ HostInit \/ ParseError \/ Cancel
    \/ \E p \in Programs, drain \in BOOLEAN : StartRun(p, drain)
    \/ \E sig \in Signals : SignalActive(sig) \/ SignalIdle(sig)

Next == Host \/ Poll

(* A host that started a run polls it until Exit, and the worker never stops  *)
(* in the middle of a command.                                                *)
Spec == Init /\ [][Next]_vars /\ WF_vars(Poll)

-----------------------------------------------------------------------------
(* Properties.                                                                *)

(* Every variable of the executor stays in its type: statuses and counters    *)
(* are naturals, exec.exit_requested is an Option, positions are positive.    *)
TypeOK ==
    /\ up \in BOOLEAN /\ m \in Machine /\ start \in Machine
    /\ run \in [on : BOOLEAN, prog : Programs \cup {<<>>}, drain : BOOLEAN]
    /\ phase \in Phase /\ idx \in Nat \ {0} /\ pc \in Nat /\ left \in Nat
    /\ sigs \in Seq(Signals) /\ stream \in {"none", "running"} /\ polls \in Nat
    /\ ran \in Seq(Nat \X Nat) /\ owed \in Int /\ code \in Nat \cup {NoExit}
    /\ calm \in BOOLEAN
    /\ count \in [runs : Nat, inits : Nat, signals : Nat]

(* A pending streaming pipeline (host processes, pipes) always belongs to an  *)
(* active StartRun whose current list begins with the external command it     *)
(* runs: no Exit, Cancel, Init, signal or Run leaves one behind to be polled  *)
(* on behalf of another list.                                                 *)
PipelineOwned ==
    stream = "running" =>
        run.on /\ ~run.drain /\ ~Done /\ Item.first \in External

(* Every accepted run is answered by exactly one Exit event: one is owed      *)
(* while the run is active and none afterwards, whatever the order of polls,  *)
(* signals and cancels (an Init drops the run and the debt together).         *)
ExitOwed == owed = IF run.on THEN 1 ELSE 0

(* From the moment the host cancels a run to its Exit no command of the       *)
(* script is executed, not even one the current list had still to run.        *)
CancelQuiet == [][m.cancelled /\ run.on /\ run'.on => ran' = ran]_vars

(* A cancelled run that has commands left ends with Exit(130), unless a limit *)
(* had stopped it before: a refused recursion counts as one, even when the    *)
(* script survived it, until the next output of a builtin clears its stop     *)
(* reason, and again once its lost frames have used up the limit, when the    *)
(* EXIT trap is refused.                                                      *)
CancelExit ==
    [][phase = "end" /\ phase' = "idle" /\ m.cancelled /\ ~Done
           /\ m.stop \in {"none", "cancelled"} /\ ~RecursionRefused(m) => code' = 130]_vars

(* Once a limit has stopped a run it stays stopped, and no later list of its  *)
(* script executes a command: the flag a list raises holds until the Exit.    *)
LimitStops ==
    [][run.on /\ run'.on /\ m.exhausted =>
           /\ m'.exhausted
           /\ ran' # ran => ran # <<>> /\ ran[Len(ran)][1] = ran'[Len(ran')][1]]_vars

(* One poll (or one idle signal) is never granted more VM steps than the      *)
(* limit in force, on any path: IR, chain, trap handler or nested body.       *)
StepsBounded == StepBudget > 0 => m.steps <= PollLimit

(* A run that is stopped is stopped for good and says why: a cancel yields    *)
(* Exit(130), a limit lets no later list run, and no poll is granted more     *)
(* steps than its limit.                                                      *)
StopsHonoured == CancelExit /\ LimitStops /\ []StepsBounded

(* A host that keeps polling sees every run end: the per-poll quota, the      *)
(* step limit and the pipeline deadline leave no run active for ever.         *)
RunsEnd == run.on ~> ~run.on

=============================================================================
