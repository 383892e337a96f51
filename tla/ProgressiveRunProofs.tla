------------------------- MODULE ProgressiveRunProofs -------------------------
(* Proofs about ProgressiveRun, for every set of programs and every budget:   *)
(* its invariants and action properties, and that a run cut into polls does   *)
(* what ShellReference does.                                                  *)
EXTENDS ProgressiveRun, ShellReference, RecursionProofs, TLAPS

-----------------------------------------------------------------------------
(* Every operator on the machine keeps its type and the cancellation flag:    *)
(* only Cancel, StartRun and Init write the token.                            *)

Keeps(s, t) == t \in Machine /\ t.cancelled = s.cancelled

(* The step limits in force are naturals.                                     *)
LEMMA LimitType == PollLimit \in Nat /\ StepBudget \in Nat
BY ConstantsAssumption DEF ConstantsAssumption, PollLimit

(* Setting one field to a value of its type.                                  *)
LEMMA SetField ==
    ASSUME NEW s \in Machine
    PROVE  /\ \A v \in Nat : /\ Keeps(s, [s EXCEPT !.last = v])
                             /\ Keeps(s, [s EXCEPT !.steps = v])
                             /\ Keeps(s, [s EXCEPT !.vis = v])
                             /\ Keeps(s, [s EXCEPT !.depth = v])
           /\ \A v \in Stop : /\ Keeps(s, [s EXCEPT !.bstop = v])
                              /\ Keeps(s, [s EXCEPT !.stop = v])
           /\ \A v \in BOOLEAN : Keeps(s, [s EXCEPT !.exhausted = v])
           /\ \A v \in Nat \cup {NoExit} : Keeps(s, [s EXCEPT !.exit = v])
           /\ \A v \in Handler : Keeps(s, [s EXCEPT !.xstart = v])
BY DEF Keeps, Machine

(* Counting one more step, unit of output or frame.                           *)
LEMMA BumpField ==
    ASSUME NEW s \in Machine
    PROVE  /\ Keeps(s, [s EXCEPT !.steps = @ + 1])
           /\ Keeps(s, [s EXCEPT !.out = @ + 1])
           /\ Keeps(s, [s EXCEPT !.vis = @ + 1])
           /\ Keeps(s, [s EXCEPT !.depth = @ + 1])
BY DEF Keeps, Machine

(* Keeping composes.                                                          *)
LEMMA KeepsTrans ==
    ASSUME NEW r, NEW s, NEW t, Keeps(r, s), Keeps(s, t)
    PROVE  Keeps(r, t)
BY DEF Keeps

(* A budget step, granted or refused.                                         *)
LEMMA BeginStepKeeps ==
    ASSUME NEW s \in Machine, NEW lim \in Nat
    PROVE  Keeps(s, BeginStep(s, lim))
BY DEF Keeps, BeginStep, CanStep, Machine, Stop

(* check_resource_limits.                                                     *)
LEMMA CheckKeeps ==
    ASSUME NEW s \in Machine, NEW lim \in Nat
    PROVE  Keeps(s, CheckResourceLimits(s, lim))
BY BeginStepKeeps DEF Keeps, CheckResourceLimits, Machine, Stop

(* The account behind the builtins of the IR path.                            *)
LEMMA RouterOutputKeeps ==
    ASSUME NEW s \in Machine
    PROVE  Keeps(s, RouterOutput(s))
<1> DEFINE a == [s EXCEPT !.out = @ + 1]
           b == [a EXCEPT !.stop = "none"]
           c == [b EXCEPT !.exhausted = TRUE]
           d == [c EXCEPT !.stop = "output"]
<1>1. Keeps(s, a) BY BumpField
<1>2. Keeps(s, b) BY <1>1, SetField DEF Keeps, Stop
<1>3. Keeps(s, c) BY <1>2, SetField DEF Keeps
<1>4. Keeps(s, d) BY <1>3, SetField DEF Keeps, Stop
<1>5. RouterOutput(s) = b \/ RouterOutput(s) = d
      BY DEF RouterOutput, Machine
<1> QED BY <1>2, <1>4, <1>5

(* The account behind everything else.                                        *)
LEMMA TrackedOutputKeeps ==
    ASSUME NEW s \in Machine
    PROVE  Keeps(s, TrackedOutput(s))
<1> DEFINE a == [s EXCEPT !.out = @ + 1]
           b == [a EXCEPT !.vis = @ + 1]
           c == [b EXCEPT !.bstop = "output"]
           d(x) == [x EXCEPT !.exhausted = TRUE]
<1>1. Keeps(s, a) BY BumpField
<1>2. Keeps(a, b) BY <1>1, BumpField DEF Keeps
<1>3. Keeps(s, b) BY <1>1, <1>2, KeepsTrans
<1>4. Keeps(s, c) BY <1>3, SetField DEF Keeps, Stop
<1>5. Keeps(s, d(b)) /\ Keeps(s, d(c)) BY <1>3, <1>4, SetField DEF Keeps
<1>6. TrackedOutput(s) \in {b, c, d(b), d(c)}
      BY DEF TrackedOutput, Machine
<1> QED BY <1>3, <1>4, <1>5, <1>6

(* Recursion bookkeeping: a frame entered, left or refused.                   *)
LEMMA RecursionKeeps ==
    ASSUME NEW s \in Machine
    PROVE  /\ Keeps(s, EnterRecursion(s)) /\ Keeps(s, ExitRecursion(s))
           /\ Keeps(s, MarkRecursion(s))
<1> DEFINE a == [s EXCEPT !.depth = @ + 1]
           b == [a EXCEPT !.bstop = "recursion"]
           c == [b EXCEPT !.stop = "recursion"]
           d == [c EXCEPT !.last = 128]
<1>1. Keeps(s, a) BY BumpField
<1>2. Keeps(s, b) BY <1>1, SetField DEF Keeps, Stop
<1>3. Keeps(s, c) BY <1>2, SetField DEF Keeps, Stop
<1>4. 128 \in Nat OBVIOUS
<1>5. Keeps(s, d) BY ZenonT(40), <1>4, <1>3, SetField DEF Keeps
<1>6. MarkRecursion(s) = d BY DEF MarkRecursion, Machine
<1>7. EnterRecursion(s) = a BY DEF EnterRecursion
<1>8. Keeps(s, ExitRecursion(s)) BY DEF Keeps, ExitRecursion, Machine
<1> QED BY <1>1, <1>5, <1>6, <1>7, <1>8

(* errexit and `exit`.                                                        *)
LEMMA ExitKeeps ==
    ASSUME NEW s \in Machine
    PROVE  Keeps(s, Errexit(s)) /\ Keeps(s, ExitCommand(s))
<1>1. Keeps(s, Errexit(s)) BY DEF Keeps, Errexit, Machine
<1>2. Keeps(s, ExitCommand(s)) BY DEF Keeps, ExitCommand, Machine
<1> QED BY <1>1, <1>2

(* The reset of the transient state, and settling the stop reason.            *)
LEMMA StopKeeps ==
    ASSUME NEW s \in Machine
    PROVE  Keeps(s, ExecReset(s)) /\ Keeps(s, EnsureStopReason(s))
<1> DEFINE a == [s EXCEPT !.exit = NoExit]
           b == [a EXCEPT !.exhausted = FALSE]
           c == [b EXCEPT !.stop = "none"]
<1>1. Keeps(s, a) BY SetField
<1>2. Keeps(s, b) BY <1>1, SetField DEF Keeps
<1>3. Keeps(s, c) BY <1>2, SetField DEF Keeps, Stop
<1>4. ExecReset(s) = c BY DEF ExecReset, Machine
<1>5. Keeps(s, EnsureStopReason(s))
  <2>1. Keeps(s, s) /\ s.bstop \in Stop BY DEF Keeps, Machine
  <2>2. \A v \in {"cancelled", s.bstop, "output"} : Keeps(s, [s EXCEPT !.stop = v])
        BY <2>1, SetField DEF Stop
  <2> QED BY <2>1, <2>2 DEF EnsureStopReason
<1> QED BY <1>3, <1>4, <1>5

(* The builtins that print nothing.                                           *)
LEMMA QuietKeeps ==
    ASSUME NEW s \in Machine, NEW c \in VmCommand \ {"echo"}
    PROVE  Keeps(s, Quiet(s, c))
BY DEF Keeps, Quiet, VmCommand, Machine, Handler

(* The builtins of the IR path.                                               *)
LEMMA VmBuiltinKeeps ==
    ASSUME NEW s \in Machine, NEW c \in VmCommand
    PROVE  Keeps(s, VmBuiltin(s, c))
<1>1. CASE c = "echo"
  <2>1. Keeps(s, RouterOutput(s)) BY RouterOutputKeeps
  <2>2. Keeps(s, [RouterOutput(s) EXCEPT !.last = 0])
        BY <2>1, SetField DEF Keeps
  <2> QED BY <1>1, <2>2 DEF VmBuiltin
<1>2. CASE c # "echo"
      BY <1>2, QuietKeeps DEF VmBuiltin
<1> QED BY <1>1, <1>2

(* One nested `echo` or `exit`.                                               *)
LEMMA NestedKeeps ==
    ASSUME NEW s \in Machine, NEW h, NEW lim \in Nat
    PROVE  Keeps(s, Nested(s, h, lim))
<1> DEFINE b == BeginStep(s, lim)
           v == VmBuiltin(b, "echo")
           w == BeginStep(v, lim)
           c == CheckResourceLimits(s, lim)
<1>1. Keeps(s, s) BY DEF Keeps
<1>2. Keeps(s, b) /\ Keeps(s, c) BY BeginStepKeeps, CheckKeeps
<1>3. Keeps(b, v) BY <1>2, VmBuiltinKeeps DEF Keeps, VmCommand
<1>4. Keeps(v, w) BY <1>3, BeginStepKeeps DEF Keeps
<1>5. Keeps(s, w) BY <1>2, <1>3, <1>4, KeepsTrans
<1>6. Keeps(s, Errexit(w)) /\ Keeps(s, Errexit(b)) /\ Keeps(s, Errexit(c))
      BY <1>2, <1>5, ExitKeeps, KeepsTrans DEF Keeps
<1>7. Keeps(s, ExitCommand(c)) BY <1>2, ExitKeeps, KeepsTrans DEF Keeps
<1>8. Nested(s, h, lim) \in {s, Errexit(w), Errexit(b), Errexit(c), ExitCommand(c)}
      BY DEF Nested
<1> QED BY <1>1, <1>6, <1>7, <1>8

(* A trap handler.                                                            *)
LEMMA InputInnerKeeps ==
    ASSUME NEW s \in Machine, NEW h, NEW lim \in Nat
    PROVE  Keeps(s, ExecuteInputInner(s, h, lim))
<1> DEFINE e == EnterRecursion(s)
           n == Nested(e, h, lim)
<1>1. Keeps(s, e) BY RecursionKeeps
<1>2. Keeps(e, n) BY <1>1, NestedKeeps DEF Keeps
<1>3. Keeps(n, ExitRecursion(n)) BY <1>2, RecursionKeeps DEF Keeps
<1>4. Keeps(s, ExitRecursion(n)) BY <1>1, <1>2, <1>3, KeepsTrans
<1> QED BY <1>4, RecursionKeeps DEF ExecuteInputInner

(* A function call.                                                           *)
LEMMA CallKeeps ==
    ASSUME NEW s \in Machine, NEW lim \in Nat
    PROVE  Keeps(s, CallFunction(s, lim))
<1> DEFINE e == EnterRecursion(s)
           c == CheckResourceLimits(e, lim)
           n == Nested(c, "echo", lim)
           b == ExecuteBody(e, lim)
           r == MarkRecursion(s)
<1>1. Keeps(s, e) /\ Keeps(s, r) BY RecursionKeeps
<1>2. Keeps(e, e) /\ Keeps(e, c) BY <1>1, CheckKeeps DEF Keeps
<1>3. Keeps(c, n) BY <1>2, NestedKeeps DEF Keeps
<1>4. Keeps(e, n) BY <1>2, <1>3, KeepsTrans
<1>5. Keeps(e, b) BY <1>2, <1>4 DEF ExecuteBody
<1>6. Keeps(b, ExitRecursion(b)) BY <1>5, RecursionKeeps DEF Keeps
<1>7. Keeps(s, ExitRecursion(b)) BY <1>1, <1>5, <1>6, KeepsTrans
<1>8. Keeps(r, TrackedOutput(r)) BY <1>1, TrackedOutputKeeps DEF Keeps
<1>9. Keeps(s, TrackedOutput(r)) BY <1>1, <1>8, KeepsTrans
<1> QED BY <1>7, <1>9 DEF CallFunction

(* A body that runs out of steps.                                             *)
LEMMA OutOfStepsKeeps ==
    ASSUME NEW s \in Machine, NEW lim \in Nat
    PROVE  Keeps(s, OutOfSteps(s, lim))
<1> DEFINE a == [s EXCEPT !.steps = lim]
           b == [a EXCEPT !.bstop = "steps"]
           c == [b EXCEPT !.stop = "steps"]
           d == [c EXCEPT !.exhausted = TRUE]
<1>1. Keeps(s, a) BY SetField
<1>2. Keeps(s, b) BY <1>1, SetField DEF Keeps, Stop
<1>3. Keeps(s, c) BY <1>2, SetField DEF Keeps, Stop
<1>4. Keeps(s, d) BY <1>3, SetField DEF Keeps
<1>5. OutOfSteps(s, lim) = d BY DEF OutOfSteps, Machine
<1> QED BY <1>4, <1>5

(* A runaway recursion.                                                       *)
LEMMA RunawayKeeps ==
    ASSUME NEW s \in Machine, NEW lim \in Nat
    PROVE  Keeps(s, RunawayRecursion(s, lim))
<1> DEFINE frames == IF s.depth < RecursionLimit THEN RecursionLimit - s.depth ELSE 0
           cost   == 2 * frames
           a == [s EXCEPT !.steps = @ + cost]
           r == TrackedOutput(MarkRecursion(a))
           o == OutOfSteps(s, lim)
<1>1. cost \in Nat
      BY ConstantsAssumption DEF ConstantsAssumption, Machine
<1>2. Keeps(s, a)
  <2> HIDE DEF cost
  <2> QED BY <1>1 DEF Keeps, Machine
<1> HIDE DEF frames
<1>3. Keeps(a, MarkRecursion(a)) BY <1>2, RecursionKeeps DEF Keeps
<1>4. Keeps(MarkRecursion(a), r) BY <1>3, TrackedOutputKeeps DEF Keeps
<1>5. Keeps(s, r) BY <1>2, <1>3, <1>4, KeepsTrans
<1>6. Keeps(s, o) BY OutOfStepsKeeps
<1>7. Keeps(s, Errexit(r)) /\ Keeps(s, Errexit(o))
      BY <1>5, <1>6, ExitKeeps, KeepsTrans DEF Keeps
<1>8. Keeps(s, s) BY DEF Keeps
<1>9. RunawayRecursion(s, lim) \in {s, r, Errexit(r), o, Errexit(o)}
      BY DEF RunawayRecursion, frames
<1> QED BY <1>5, <1>6, <1>7, <1>8, <1>9

(* One pipeline of a list outside the IR subset.                              *)
LEMMA ChainBuiltinKeeps ==
    ASSUME NEW s \in Machine, NEW c \in Command, NEW x, NEW lim \in Nat
    PROVE  Keeps(s, ChainBuiltin(s, c, x, lim))
<1> DEFINE k == CheckResourceLimits(s, lim)
           p == TrackedOutput(s)
           f == [s EXCEPT !.last = 1]
<1>1. CASE c = "echo"
  <2>1. Keeps(s, p) BY TrackedOutputKeeps
  <2>2. Keeps(s, [p EXCEPT !.last = 0]) BY <2>1, SetField DEF Keeps
  <2> QED BY <1>1, <2>1, <2>2 DEF ChainBuiltin
<1>2. CASE c # "echo" /\ c \in External /\ x
  <2>1. Keeps(s, f) BY SetField
  <2>2. Keeps(f, TrackedOutput(f)) BY <2>1, TrackedOutputKeeps DEF Keeps
  <2> QED BY <1>2, <2>1, <2>2, KeepsTrans DEF ChainBuiltin
<1>3. CASE c # "echo" /\ ~(c \in External /\ x)
  <2>1. Keeps(s, k) BY CheckKeeps
  <2>2. Keeps(k, k) BY <2>1 DEF Keeps
  <2>3. CASE c = "loop"
    <3> DEFINE o == IF Stopped(k) THEN k ELSE OutOfSteps(k, lim)
    <3>1. Keeps(k, o) BY <2>1, <2>2, OutOfStepsKeeps DEF Keeps
    <3> HIDE DEF k, o
    <3>2. Keeps(o, [o EXCEPT !.last = 0]) BY <3>1, SetField DEF Keeps
    <3>3. ChainBuiltin(s, c, x, lim) = [o EXCEPT !.last = 0]
          BY <1>3, <2>3 DEF ChainBuiltin, EndlessLoop, k, o
    <3> QED BY <2>1, <3>1, <3>2, <3>3, KeepsTrans
  <2>4. CASE c # "loop" /\ k.exhausted
        BY <1>3, <2>1, <2>4 DEF ChainBuiltin
  <2>5. CASE c # "loop" /\ ~k.exhausted
    <3> DEFINE t == TrackedOutput(k)
    <3>1. Keeps(k, t) BY <2>1, TrackedOutputKeeps DEF Keeps
    <3>2. Keeps(k, [t EXCEPT !.last = 0]) /\ Keeps(k, [t EXCEPT !.last = 1])
          BY <3>1, SetField DEF Keeps
    <3>3. Keeps(k, CallFunction(k, lim)) /\ Keeps(k, RunawayRecursion(k, lim))
          BY <2>1, CallKeeps, RunawayKeeps DEF Keeps
    <3>4. Keeps(k, ExitCommand(k)) BY <2>1, ExitKeeps DEF Keeps
    <3>5. c \in VmCommand => Keeps(k, Quiet(k, c))
          BY <1>3, <2>1, QuietKeeps DEF Keeps
    <3>6. Keeps(k, ChainBuiltin(s, c, x, lim))
          BY <1>3, <2>5, <3>2, <3>3, <3>4, <3>5
             DEF ChainBuiltin, Command, ChainCommand, VmCommand
    <3> QED BY <2>1, <3>6, KeepsTrans
  <2> QED BY <2>3, <2>4, <2>5
<1> QED BY <1>1, <1>2, <1>3

(* A signal delivered to the shell.                                           *)
LEMMA DeliverKeeps ==
    ASSUME NEW s \in Machine, NEW sig \in Signals, NEW lim \in Nat
    PROVE  Keeps(s, DeliverSignal(s, sig, lim))
<1> DEFINE n == 128 + SignalSpec[sig].number
           a == [s EXCEPT !.last = n]
           t == ExecuteInputInner(a, HandlerOf(s, sig), lim)
<1>1. n \in Nat
      BY ConstantsAssumption DEF ConstantsAssumption, SignalSpec
<1> HIDE DEF n
<1>2. Keeps(s, a) BY <1>1, SetField
<1>3. Keeps(a, t) BY <1>2, InputInnerKeeps DEF Keeps
<1>4. Keeps(s, t) BY <1>2, <1>3, KeepsTrans
<1>5. s.last \in Nat BY DEF Machine
<1>6. Keeps(s, [t EXCEPT !.last = s.last]) BY <1>4, <1>5, SetField DEF Keeps
<1>7. Keeps(s, RunSignalTrap(s, sig, lim)) BY <1>4, <1>6 DEF RunSignalTrap, n
<1>8. Keeps(s, [s EXCEPT !.exit = n]) BY <1>1, SetField
<1>9. Keeps(s, s) BY DEF Keeps
<1> QED BY <1>7, <1>8, <1>9 DEF DeliverSignal, n

(* The EXIT trap.                                                             *)
LEMMA ExitTrapKeeps ==
    ASSUME NEW s \in Machine, NEW normally, NEW lim \in Nat
    PROVE  Keeps(s, RunExitTrap(s, normally, lim))
<1> DEFINE was == IF s.exit # NoExit THEN s.exit ELSE s.last
           a   == [s EXCEPT !.exit = NoExit]
           b   == [a EXCEPT !.last = was]
           t   == ExecuteInputInner(b, s.xtrap, lim)
           now == IF t.exit # NoExit THEN t.exit ELSE was
           c   == [t EXCEPT !.exit = now]
           d   == [c EXCEPT !.last = now]
<1>1. was \in Nat BY DEF Machine, NoExit
<1> HIDE DEF was
<1>2. Keeps(s, a) BY SetField
<1>3. Keeps(s, b) BY <1>1, <1>2, SetField DEF Keeps
<1>4. Keeps(b, t) BY <1>3, InputInnerKeeps DEF Keeps
<1>5. Keeps(s, t) BY <1>3, <1>4, KeepsTrans
<1>6. now \in Nat BY <1>1, <1>5 DEF Keeps, Machine, NoExit
<1> HIDE DEF now
<1>7. Keeps(s, c) BY <1>5, <1>6, SetField DEF Keeps
<1>8. Keeps(s, d) BY <1>6, <1>7, SetField DEF Keeps
<1>9. [s EXCEPT !.exit = NoExit, !.last = was] = b
      BY DEF Machine
<1>10. [t EXCEPT !.exit = now, !.last = now] = d
      BY <1>5 DEF Keeps, Machine
<1>11. Keeps(s, s) BY DEF Keeps
<1> HIDE DEF b, d
<1>12. RunExitTrap(s, normally, lim) \in {s, d}
      BY <1>9, <1>10 DEF RunExitTrap, was, now, t
<1> QED BY <1>8, <1>11, <1>12

(* An Exit code is a natural number.                                          *)
LEMMA ExitStatusType ==
    ASSUME NEW s \in Machine
    PROVE  CurrentRunExitStatus(s) \in Nat
BY DEF CurrentRunExitStatus, Machine, NoExit

-----------------------------------------------------------------------------
(* The inductive invariant.                                                   *)

(* Where a poll is, and what that says of the rest of the state: a list is    *)
(* under execution only in an active run that is not cancelled, with no       *)
(* pipeline pending and the position inside the script and the list.          *)
PhaseInv ==
    /\ phase # "idle" => run.on
    /\ phase \in {"vm", "chain", "post"} => stream = "none" /\ ~m.cancelled /\ ~Done
    /\ phase = "vm" => InVmSubset /\ pc < 2 * Pipelines
    /\ phase = "chain" => pc \in 1..Pipelines

IInv == TypeOK /\ PhaseInv /\ PipelineOwned /\ ExitOwed

(* The list being executed is an and-or list of commands.                     *)
LEMMA ItemType ==
    ASSUME TypeOK, ~Done
    PROVE  /\ Item \in AndOr /\ Pipelines \in Nat \ {0}
           /\ \A k \in 1..Pipelines : PipelineAt(k) \in Command
<1>1. run.prog \in Seq(AndOr)
  <2>1. run.prog \in Programs \cup {<<>>} BY DEF TypeOK
  <2>2. Programs \subseteq Seq(AndOr) BY ConstantsAssumption DEF ConstantsAssumption
  <2>3. <<>> \in Seq(AndOr) OBVIOUS
  <2> QED BY <2>1, <2>2, <2>3, Zenon
<1>2. idx \in 1..Len(run.prog) BY <1>1 DEF TypeOK, Done
<1>3. Item \in AndOr BY <1>1, <1>2 DEF Item
<1>4. Item.rest \in Seq(Link) /\ Item.first \in Command
      BY <1>3 DEF AndOr
<1>5. Pipelines \in Nat \ {0} BY <1>4 DEF Pipelines
<1>6. ASSUME NEW k \in 1..Pipelines PROVE PipelineAt(k) \in Command
  <2>1. CASE k = 1 BY <1>4, <2>1 DEF PipelineAt
  <2>2. CASE k # 1
    <3>1. k - 1 \in 1..Len(Item.rest) BY <1>4, <2>2 DEF Pipelines
    <3>2. Item.rest[k - 1] \in Link BY <1>4, <3>1
    <3> QED BY <2>2, <3>2 DEF PipelineAt, Link
  <2> QED BY <2>1, <2>2
<1> QED BY <1>3, <1>5, <1>6

(* The machine a Vm is born with, and the one a run starts from.              *)
LEMMA FreshType ==
    /\ FreshMachine \in Machine
    /\ \A s \in Machine : /\ [FreshMachine EXCEPT !.xstart = s.xstart] \in Machine
                          /\ Started(s) \in Machine
<1>1. FreshMachine \in Machine BY DEF FreshMachine, Machine, Stop, Handler, NoExit
<1>2. ASSUME NEW s \in Machine
      PROVE  [FreshMachine EXCEPT !.xstart = s.xstart] \in Machine
  <2>1. s.xstart \in Handler BY DEF Machine
  <2> QED BY <1>1, <2>1, SetField DEF Keeps
<1>3. ASSUME NEW s \in Machine PROVE Started(s) \in Machine
  <2> DEFINE r == ExecReset(s)
             a == [r EXCEPT !.xstart = s.xtrap]
             b == [a EXCEPT !.steps = 0]
             c == [b EXCEPT !.vis = s.out]
             d == [c EXCEPT !.depth = 0]
             e == [d EXCEPT !.bstop = "none"]
             f == [e EXCEPT !.cancelled = FALSE]
  <2>1. r \in Machine BY StopKeeps DEF Keeps
  <2>2. s.xtrap \in Handler /\ s.out \in Nat /\ 0 \in Nat BY DEF Machine
  <2> HIDE DEF r
  <2>3. a \in Machine BY <2>1, <2>2, SetField DEF Keeps
  <2>4. b \in Machine BY <2>2, <2>3, SetField DEF Keeps
  <2>5. c \in Machine BY <2>2, <2>4, SetField DEF Keeps
  <2>6. d \in Machine BY <2>2, <2>5, SetField DEF Keeps
  <2>7. e \in Machine BY <2>6, SetField DEF Keeps, Stop
  <2>8. f \in Machine BY <2>7 DEF Machine
  <2>9. Started(s) = f BY <2>1 DEF Started, r, Machine
  <2> QED BY <2>8, <2>9
<1> QED BY <1>1, <1>2, <1>3

(* The initial state.                                                         *)
LEMMA InitIInv == Init => IInv
<1> SUFFICES ASSUME Init PROVE IInv OBVIOUS
<1>1. TypeOK
  <2>1. m \in Machine /\ start \in Machine BY FreshType DEF Init
  <2>2. sigs \in Seq(Signals) /\ ran \in Seq(Nat \X Nat) BY DEF Init
  <2>3. run \in [on : BOOLEAN, prog : Programs \cup {<<>>}, drain : BOOLEAN]
        BY DEF Init, NoRun
  <2>4. count \in [runs : Nat, inits : Nat, signals : Nat] BY DEF Init
  <2>5. /\ up \in BOOLEAN /\ phase \in Phase /\ stream \in {"none", "running"}
        /\ calm \in BOOLEAN /\ code \in Nat \cup {NoExit}
        BY DEF Init, Phase
  <2>6. idx \in Nat \ {0} /\ pc \in Nat /\ left \in Nat /\ polls \in Nat /\ owed \in Int
        BY DEF Init
  <2> QED BY <2>1, <2>2, <2>3, <2>4, <2>5, <2>6, Zenon DEF TypeOK
<1>2. PhaseInv /\ PipelineOwned /\ ExitOwed
      BY DEF Init, PhaseInv, PipelineOwned, ExitOwed, NoRun
<1> QED BY <1>1, <1>2 DEF IInv

-----------------------------------------------------------------------------
(* Every step preserves it: first the host's commands.                        *)

(* Init drops the run, its pipeline and its debt.                             *)
LEMMA HostInitStep ==
    ASSUME IInv, HostInit
    PROVE  IInv'
<1> USE DEF IInv
<1>1. m' \in Machine
      BY FreshType DEF TypeOK, HostInit
<1>2. TypeOK'
      BY <1>1 DEF TypeOK, Phase, HostInit, NoRun
<1>3. PhaseInv' /\ PipelineOwned' /\ ExitOwed'
      BY DEF TypeOK, PhaseInv, PipelineOwned, ExitOwed, Done, Item, Pipelines, PipelineAt,
         InVmSubset, HostInit, NoRun
<1> QED BY <1>2, <1>3

(* A new run owes one Exit.                                                   *)
LEMMA StartRunStep ==
    ASSUME IInv, NEW p \in Programs, NEW drain \in BOOLEAN, StartRun(p, drain)
    PROVE  IInv'
<1> USE DEF IInv
<1>1. m' \in Machine
      BY FreshType DEF TypeOK, StartRun
<1>2. TypeOK'
  <2>1. count' \in [runs : Nat, inits : Nat, signals : Nat] BY SMTT(30) DEF TypeOK, StartRun
  <2>2. run' \in [on : BOOLEAN, prog : Programs \cup {<<>>}, drain : BOOLEAN] BY DEF StartRun
  <2>3. start' \in Machine BY FreshType DEF StartRun, TypeOK
  <2>4. sigs' \in Seq(Signals) /\ ran' \in Seq(Nat \X Nat) BY DEF StartRun
  <2> QED BY <1>1, <2>1, <2>2, <2>3, <2>4 DEF TypeOK, Phase, StartRun
<1>3. PhaseInv' /\ PipelineOwned' /\ ExitOwed'
      BY DEF TypeOK, PhaseInv, PipelineOwned, ExitOwed, Done, Item, Pipelines, PipelineAt,
         InVmSubset, StartRun
<1> QED BY <1>2, <1>3

(* A parse error answers with an Exit of its own.                             *)
LEMMA ParseErrorStep ==
    ASSUME IInv, ParseError
    PROVE  IInv'
<1> USE DEF IInv
<1>1. m' \in Machine
      BY SetField DEF TypeOK, ParseError, Keeps
<1>2. TypeOK'
  <2>1. count' = [count EXCEPT !.runs = @ + 1] BY DEF ParseError
  <2>2. count \in [runs : Nat, inits : Nat, signals : Nat] BY DEF TypeOK
  <2>3. count' \in [runs : Nat, inits : Nat, signals : Nat] BY <2>1, <2>2
  <2>4. UNCHANGED <<up, run, phase, idx, pc, left, sigs, stream, polls, ran, owed, calm, start>>
        BY DEF ParseError
  <2> QED BY <1>1, <2>3, <2>4 DEF TypeOK, ParseError
<1>3. PhaseInv' /\ PipelineOwned' /\ ExitOwed'
      BY DEF TypeOK, PhaseInv, PipelineOwned, ExitOwed, Done, Item, Pipelines, PipelineAt,
         InVmSubset, ParseError
<1> QED BY <1>2, <1>3

(* A signal is queued.                                                        *)
LEMMA SignalActiveStep ==
    ASSUME IInv, NEW sig \in Signals, SignalActive(sig)
    PROVE  IInv'
<1> USE DEF IInv
<1>1. m' \in Machine BY DEF TypeOK, SignalActive
<1>2. TypeOK'
      BY <1>1 DEF TypeOK, Phase, SignalActive, ghosts
<1>3. PhaseInv' /\ PipelineOwned' /\ ExitOwed'
      BY DEF TypeOK, PhaseInv, PipelineOwned, ExitOwed, Done, Item, Pipelines, PipelineAt,
         InVmSubset, SignalActive, ghosts
<1> QED BY <1>2, <1>3

(* A signal reaches an idle shell.                                            *)
LEMMA SignalIdleStep ==
    ASSUME IInv, NEW sig \in Signals, SignalIdle(sig)
    PROVE  IInv'
<1> USE DEF IInv
<1> DEFINE s == DeliverSignal(m, sig, StepBudget)
           x == RunExitTrap(s, FALSE, StepBudget)
<1>1. s \in Machine BY DeliverKeeps, LimitType DEF Keeps, TypeOK
<1>2. x \in Machine BY <1>1, ExitTrapKeeps, LimitType DEF Keeps
<1>3. ExecReset(x) \in Machine /\ CurrentRunExitStatus(x) \in Nat
      BY <1>2, StopKeeps, ExitStatusType DEF Keeps
<1>4. m' \in Machine /\ code' \in Nat \cup {NoExit}
      BY <1>1, <1>3 DEF SignalIdle, TypeOK
<1>5. TypeOK'
  <2>1. count' = [count EXCEPT !.signals = @ + 1] BY DEF SignalIdle
  <2>2. count \in [runs : Nat, inits : Nat, signals : Nat] BY DEF TypeOK
  <2>3. count' \in [runs : Nat, inits : Nat, signals : Nat] BY <2>1, <2>2
  <2>4. UNCHANGED <<up, run, phase, idx, pc, left, sigs, stream, polls, ran, owed, calm, start>>
        BY DEF SignalIdle
  <2> QED BY <1>4, <2>3, <2>4 DEF TypeOK
<1>6. PhaseInv' /\ PipelineOwned' /\ ExitOwed'
      BY DEF TypeOK, PhaseInv, PipelineOwned, ExitOwed, Done, Item, Pipelines, PipelineAt,
         InVmSubset, SignalIdle
<1> QED BY <1>5, <1>6

(* Cancel sets the token between two commands, when no list is running.       *)
LEMMA CancelStep ==
    ASSUME IInv, Cancel
    PROVE  IInv'
<1> USE DEF IInv
<1>1. m' \in Machine BY DEF TypeOK, Cancel, Machine
<1>2. TypeOK'
      BY <1>1 DEF TypeOK, Phase, Cancel
<1>3. PhaseInv' /\ PipelineOwned' /\ ExitOwed'
      BY DEF TypeOK, PhaseInv, PipelineOwned, ExitOwed, Done, Item, Pipelines, PipelineAt,
         InVmSubset, Cancel
<1> QED BY <1>2, <1>3

-----------------------------------------------------------------------------
(* The steps of a poll.                                                       *)

(* A poll opens.                                                              *)
LEMMA PollRunStep ==
    ASSUME IInv, PollRun
    PROVE  IInv'
<1> USE DEF IInv
<1>1. m' \in Machine
      BY SetField DEF TypeOK, PollRun, Keeps
<1>2. TypeOK'
      BY <1>1, LimitType DEF TypeOK, Phase, PollRun, ghosts
<1>3. PhaseInv' /\ PipelineOwned' /\ ExitOwed'
      BY DEF TypeOK, PhaseInv, PipelineOwned, ExitOwed, Done, Item, Pipelines, PipelineAt,
         InVmSubset, PollRun, ghosts, Machine
<1> QED BY <1>2, <1>3

(* A queued signal is delivered.                                              *)
LEMMA DrainSignalStep ==
    ASSUME IInv, DrainSignal
    PROVE  IInv'
<1> USE DEF IInv
<1>1. Head(sigs) \in Signals /\ Tail(sigs) \in Seq(Signals)
      BY DEF DrainSignal, TypeOK
<1>2. m' \in Machine
      BY <1>1, DeliverKeeps, LimitType DEF DrainSignal, TypeOK, Keeps
<1>3. TypeOK'
      BY <1>2, <1>1 DEF TypeOK, Phase, DrainSignal
<1>4. PhaseInv' /\ PipelineOwned' /\ ExitOwed'
      BY DEF TypeOK, PhaseInv, PipelineOwned, ExitOwed, Done, Item, Pipelines, PipelineAt,
         InVmSubset, DrainSignal
<1> QED BY <1>3, <1>4

(* The queue is empty.                                                        *)
LEMMA SignalsDrainedStep ==
    ASSUME IInv, SignalsDrained
    PROVE  IInv'
<1> USE DEF IInv
<1>1. m' \in Machine BY DEF TypeOK, SignalsDrained
<1>2. TypeOK'
      BY <1>1 DEF TypeOK, Phase, SignalsDrained, ghosts
<1>3. PhaseInv' /\ PipelineOwned' /\ ExitOwed'
      BY DEF TypeOK, PhaseInv, PipelineOwned, ExitOwed, Done, Item, Pipelines, PipelineAt,
         InVmSubset, SignalsDrained, ghosts
<1> QED BY <1>2, <1>3

(* The loop is left.                                                          *)
LEMMA LoopExitStep ==
    ASSUME IInv, LoopExit
    PROVE  IInv'
<1> USE DEF IInv
<1>1. m' \in Machine
  <2> DEFINE a == [m EXCEPT !.bstop = "cancelled"]
             b == [a EXCEPT !.exhausted = TRUE]
  <2>1. a \in Machine BY SetField DEF Keeps, TypeOK, Stop
  <2>2. b \in Machine BY <2>1, SetField DEF Keeps
  <2>3. m' = m \/ m' = b BY DEF LoopExit, TypeOK, Machine
  <2> QED BY <2>2, <2>3 DEF TypeOK
<1>2. TypeOK'
      BY <1>1 DEF TypeOK, Phase, LoopExit, ghosts
<1>3. PhaseInv' /\ PipelineOwned' /\ ExitOwed'
      BY DEF TypeOK, PhaseInv, PipelineOwned, ExitOwed, Done, Item, Pipelines, PipelineAt,
         InVmSubset, LoopExit, ghosts
<1> QED BY <1>2, <1>3

(* A streaming pipeline starts: the run streams and has a list to run.        *)
LEMMA StartStreamStep ==
    ASSUME IInv, StartStream
    PROVE  IInv'
<1> USE DEF IInv
<1>1. m' \in Machine BY DEF TypeOK, StartStream
<1>2. TypeOK'
  <2>1. ran' \in Seq(Nat \X Nat) BY DEF TypeOK, StartStream
  <2> QED BY <1>1, <2>1 DEF TypeOK, StartStream
<1>3. PhaseInv' /\ PipelineOwned' /\ ExitOwed'
      BY DEF TypeOK, PhaseInv, PipelineOwned, ExitOwed, Done, Item, Pipelines, PipelineAt,
         InVmSubset, StartStream, Halting, Over, Streams
<1> QED BY <1>2, <1>3

(* The IR virtual machine starts on a list it can run.                        *)
LEMMA StartVmStep ==
    ASSUME IInv, StartVm
    PROVE  IInv'
<1> USE DEF IInv
<1>1. m' \in Machine BY DEF TypeOK, StartVm
<1>2. TypeOK'
      BY <1>1 DEF TypeOK, Phase, StartVm, ghosts
<1>3. PhaseInv' /\ PipelineOwned' /\ ExitOwed'
      BY <1>1, ItemType DEF TypeOK, PhaseInv, PipelineOwned, ExitOwed, Done, Item, Pipelines,
         PipelineAt, InVmSubset, StartVm, Halting, Over, ghosts
<1> QED BY <1>2, <1>3

(* The pipeline chain starts.                                                 *)
LEMMA StartChainStep ==
    ASSUME IInv, StartChain
    PROVE  IInv'
<1> USE DEF IInv
<1>1. m' \in Machine BY DEF TypeOK, StartChain
<1>2. TypeOK'
      BY <1>1 DEF TypeOK, Phase, StartChain, ghosts
<1>3. PhaseInv' /\ PipelineOwned' /\ ExitOwed'
      BY <1>1, ItemType DEF TypeOK, PhaseInv, PipelineOwned, ExitOwed, Done, Item, Pipelines,
         PipelineAt, InVmSubset, StartChain, Halting, Over, ghosts
<1> QED BY <1>2, <1>3

(* The pipeline needs another poll.                                           *)
LEMMA StreamWaitsStep ==
    ASSUME IInv, StreamWaits
    PROVE  IInv'
<1> USE DEF IInv
<1>1. m \in Machine BY DEF TypeOK
<1>2. \A n \in 0..1 : Keeps(m, StreamWrites(m, n))
      BY <1>1, TrackedOutputKeeps DEF StreamWrites, Keeps
<1>3. ASSUME NEW n \in 0..1, NEW v \in Nat
      PROVE  Keeps(m, [StreamWrites(m, n) EXCEPT !.last = v])
  <2>1. StreamWrites(m, n) \in Machine BY <1>2 DEF Keeps
  <2>2. Keeps(StreamWrites(m, n), [StreamWrites(m, n) EXCEPT !.last = v])
        BY <2>1, SetField
  <2> QED BY <1>2, <2>2, KeepsTrans
<1>4. m' \in Machine /\ m'.cancelled = m.cancelled
      BY <1>1, <1>2, <1>3 DEF StreamWaits, Keeps
<1>5. TypeOK'
      BY <1>4 DEF TypeOK, Phase, StreamWaits
<1>6. PhaseInv' /\ PipelineOwned' /\ ExitOwed'
      BY <1>4 DEF TypeOK, PhaseInv, PipelineOwned, ExitOwed, Done, Item, Pipelines, PipelineAt,
         InVmSubset, StreamWaits, Halting, Over
<1> QED BY <1>5, <1>6

(* The pipeline ends.                                                         *)
LEMMA StreamEndsStep ==
    ASSUME IInv, StreamEnds
    PROVE  IInv'
<1> USE DEF IInv
<1>1. m \in Machine BY DEF TypeOK
<1>2. \A n \in 0..1 : Keeps(m, StreamWrites(m, n))
      BY <1>1, TrackedOutputKeeps DEF StreamWrites, Keeps
<1>3. ASSUME NEW n \in 0..1, NEW v \in Nat
      PROVE  Keeps(m, [StreamWrites(m, n) EXCEPT !.last = v])
  <2>1. StreamWrites(m, n) \in Machine BY <1>2 DEF Keeps
  <2>2. Keeps(StreamWrites(m, n), [StreamWrites(m, n) EXCEPT !.last = v])
        BY <2>1, SetField
  <2> QED BY <1>2, <2>2, KeepsTrans
<1>4. m' \in Machine /\ m'.cancelled = m.cancelled
      BY <1>1, <1>2, <1>3 DEF StreamEnds, Keeps
<1>5. TypeOK'
      BY <1>4 DEF TypeOK, Phase, StreamEnds
<1>6. PhaseInv' /\ PipelineOwned' /\ ExitOwed'
      BY <1>4 DEF TypeOK, PhaseInv, PipelineOwned, ExitOwed, Done, Item, Pipelines, PipelineAt,
         InVmSubset, StreamEnds, Halting, Over
<1> QED BY <1>5, <1>6

(* The pipeline is past its deadline.                                         *)
LEMMA StreamDeadlineStep ==
    ASSUME IInv, StreamDeadline
    PROVE  IInv'
<1> USE DEF IInv
<1>1. Keeps(m, TrackedOutput(m)) BY TrackedOutputKeeps DEF TypeOK
<1>2. 124 \in Nat OBVIOUS
<1>3. Keeps(m, [TrackedOutput(m) EXCEPT !.last = 124]) BY ZenonT(40), <1>1, <1>2, SetField DEF Keeps
<1>4. m' \in Machine /\ m'.cancelled = m.cancelled
      BY <1>1, <1>3 DEF StreamDeadline, Keeps
<1>5. TypeOK'
      BY <1>4 DEF TypeOK, Phase, StreamDeadline
<1>6. PhaseInv' /\ PipelineOwned' /\ ExitOwed'
      BY <1>4 DEF TypeOK, PhaseInv, PipelineOwned, ExitOwed, Done, Item, Pipelines, PipelineAt,
         InVmSubset, StreamDeadline, Halting, Over
<1> QED BY <1>5, <1>6

(* Appending keeps the type of a sequence.                                    *)
LEMMA AppendType ==
    ASSUME NEW S, NEW q \in Seq(S), NEW e \in S
    PROVE  Append(q, e) \in Seq(S)
OBVIOUS

(* One IR instruction: the program counter stays inside the lowered list.     *)
LEMMA VmStepStep ==
    ASSUME IInv, VmStep
    PROVE  IInv'
<1> USE DEF IInv
<1> DEFINE k == (pc \div 2) + 1
           b == BeginStep(m, PollLimit)
<1>1. /\ phase = "vm" /\ run.on /\ ~Done /\ stream = "none" /\ ~m.cancelled
      /\ pc \in Nat /\ pc < 2 * Pipelines /\ m \in Machine
      BY DEF VmStep, PhaseInv, TypeOK
<1>2. Pipelines \in Nat \ {0} BY <1>1, ItemType
<1>3. k \in 1..Pipelines
      BY <1>1, <1>2
<1>4. PipelineAt(k) \in VmCommand BY <1>1, <1>3 DEF PhaseInv, InVmSubset
<1>5. Keeps(m, b) BY <1>1, BeginStepKeeps, LimitType
<1>6. Keeps(b, VmBuiltin(b, PipelineAt(k))) BY <1>4, <1>5, VmBuiltinKeeps DEF Keeps
<1>7. Keeps(m, VmBuiltin(b, PipelineAt(k))) BY <1>5, <1>6, KeepsTrans
<1>8. m' \in Machine /\ m'.cancelled = m.cancelled
      BY <1>5, <1>7 DEF VmStep, Keeps
<1>9. ran' \in Seq(Nat \X Nat)
  <2>1. ran \in Seq(Nat \X Nat) /\ <<idx, k>> \in Nat \X Nat BY <1>3 DEF TypeOK
  <2>2. ran' = ran \/ ran' = Append(ran, <<idx, k>>) BY DEF VmStep
  <2> HIDE DEF k
  <2> QED BY <2>1, <2>2, AppendType
<1>10. pc' \in Nat /\ phase' \in {"vm", "post"}
      BY <1>1 DEF VmStep
<1>11. phase' = "vm" => pc' < 2 * Pipelines
  <2>1. CASE pc % 2 = 0
        BY <1>1, <1>2, <2>1 DEF VmStep
  <2>2. CASE pc % 2 # 0
    <3>1. pc = 2 * k - 1 BY <1>1, <2>2
    <3>2. phase' = "vm" => k # Pipelines BY <2>2 DEF VmStep
    <3>3. phase' = "vm" => pc' \in {pc + 1, pc + 2} BY <2>2 DEF VmStep
    <3> HIDE DEF k
    <3> QED BY <1>1, <1>2, <1>3, <3>1, <3>2, <3>3
  <2> QED BY <2>1, <2>2
<1>12. UNCHANGED <<up, run, idx, left, sigs, stream, polls, owed, code, calm, start, count>>
      BY DEF VmStep
<1>13. TypeOK' BY <1>8, <1>9, <1>10, <1>12 DEF TypeOK, Phase
<1>14. PhaseInv'
      BY <1>1, <1>8, <1>10, <1>11, <1>12
         DEF PhaseInv, Done, Item, Pipelines, PipelineAt, InVmSubset
<1>15. PipelineOwned' /\ ExitOwed'
      BY <1>1, <1>12 DEF PipelineOwned, ExitOwed
<1> QED BY <1>13, <1>14, <1>15

(* One pipeline of the chain.                                                 *)
LEMMA ChainStepStep ==
    ASSUME IInv, ChainStep
    PROVE  IInv'
<1> USE DEF IInv
<1>1. /\ phase = "chain" /\ run.on /\ ~Done /\ stream = "none" /\ ~m.cancelled
      /\ pc \in 1..Pipelines /\ m \in Machine
      BY DEF ChainStep, PhaseInv, TypeOK
<1>2. Pipelines \in Nat \ {0} /\ PipelineAt(pc) \in Command BY <1>1, ItemType
<1>3. Keeps(m, ChainBuiltin(m, PipelineAt(pc), ~run.drain, PollLimit))
      BY <1>1, <1>2, ChainBuiltinKeeps, LimitType
<1>4. m' \in Machine /\ m'.cancelled = m.cancelled
      BY <1>1, <1>3 DEF ChainStep, Keeps
<1>5. ran' \in Seq(Nat \X Nat)
  <2>1. ran \in Seq(Nat \X Nat) /\ <<idx, pc>> \in Nat \X Nat BY DEF TypeOK
  <2>2. ran' = ran \/ ran' = Append(ran, <<idx, pc>>) BY DEF ChainStep
  <2> QED BY <2>1, <2>2, AppendType
<1>6. /\ phase' \in {"chain", "post"} /\ pc' = pc + 1
      /\ phase' = "chain" => pc # Pipelines
      BY <1>1 DEF ChainStep
<1>7. UNCHANGED <<up, run, idx, left, sigs, stream, polls, owed, code, calm, start, count>>
      BY DEF ChainStep
<1>8. TypeOK' BY <1>4, <1>5, <1>6, <1>7 DEF TypeOK, Phase
<1>9. PhaseInv'
      BY <1>1, <1>2, <1>4, <1>6, <1>7 DEF PhaseInv, Done, Item, Pipelines
<1>10. PipelineOwned' /\ ExitOwed' BY <1>1, <1>7 DEF PipelineOwned, ExitOwed
<1> QED BY <1>8, <1>9, <1>10

(* A list is over: no pipeline is pending when the position moves.            *)
LEMMA PostAndOrStep ==
    ASSUME IInv, PostAndOr
    PROVE  IInv'
<1> USE DEF IInv
<1>1. m' \in Machine
      BY ExitKeeps DEF PostAndOr, TypeOK, Keeps
<1>2. TypeOK'
      BY <1>1 DEF TypeOK, Phase, PostAndOr, ghosts
<1>3. PhaseInv' /\ PipelineOwned' /\ ExitOwed'
      BY DEF TypeOK, PhaseInv, PipelineOwned, ExitOwed, PostAndOr, ghosts
<1> QED BY <1>2, <1>3

(* The run ends with the Exit it owed.                                        *)
LEMMA RunEndsStep ==
    ASSUME IInv, RunEnds
    PROVE  IInv'
<1> USE DEF IInv
<1> DEFINE s == EnsureStopReason(m)
           x == RunExitTrap(s, ~Stopped(s), StepBudget)
<1>1. s \in Machine BY StopKeeps DEF Keeps, TypeOK
<1>2. x \in Machine BY <1>1, ExitTrapKeeps, LimitType DEF Keeps
<1>3. CurrentRunExitStatus(x) \in Nat BY <1>2, ExitStatusType
<1>4. m' \in Machine /\ code' \in Nat BY <1>2, <1>3 DEF RunEnds
<1>5. run' \in [on : BOOLEAN, prog : Programs \cup {<<>>}, drain : BOOLEAN] /\ ~run'.on
  <2>1. run \in [on : BOOLEAN, prog : Programs \cup {<<>>}, drain : BOOLEAN] BY DEF TypeOK
  <2>2. run' = [run EXCEPT !.on = FALSE] BY DEF RunEnds
  <2> QED BY <2>1, <2>2
<1>6. /\ stream' = "none" /\ phase' = "idle" /\ owed' = owed - 1
      /\ UNCHANGED <<up, idx, pc, left, sigs, polls, ran, calm, start, count>>
      BY DEF RunEnds
<1>7. owed = 1 BY DEF RunEnds, PhaseInv, ExitOwed
<1>8. TypeOK' BY <1>4, <1>5, <1>6 DEF TypeOK, Phase
<1>9. PhaseInv' /\ PipelineOwned' /\ ExitOwed'
      BY <1>5, <1>6, <1>7 DEF PhaseInv, PipelineOwned, ExitOwed
<1> QED BY <1>8, <1>9

(* The run yields to the host, or Run polls on.                               *)
LEMMA RunYieldsStep ==
    ASSUME IInv, RunYields
    PROVE  IInv'
<1> USE DEF IInv
<1>1. TypeOK'
      BY DEF TypeOK, Phase, RunYields, ghosts
<1>2. PhaseInv' /\ PipelineOwned' /\ ExitOwed'
      BY DEF TypeOK, PhaseInv, PipelineOwned, ExitOwed, Done, Item, RunYields, ghosts
<1> QED BY <1>1, <1>2

(* Nothing changes.                                                           *)
LEMMA StutterStep ==
    ASSUME IInv, UNCHANGED vars
    PROVE  IInv'
BY DEF IInv, TypeOK, PhaseInv, PipelineOwned, ExitOwed, Done, Item, Pipelines,
       PipelineAt, InVmSubset, vars, ghosts

(* The invariant is inductive: one case per action.                           *)
LEMMA NextIInv ==
    ASSUME IInv, [Next]_vars
    PROVE  IInv'
<1>1. CASE Host
  <2>1. CASE HostInit BY <2>1, HostInitStep
  <2>2. CASE ParseError BY <2>2, ParseErrorStep
  <2>3. CASE Cancel BY <2>3, CancelStep
  <2>4. CASE \E p \in Programs, drain \in BOOLEAN : StartRun(p, drain)
        BY <2>4, StartRunStep
  <2>5. CASE \E sig \in Signals : SignalActive(sig) \/ SignalIdle(sig)
        BY <2>5, SignalActiveStep, SignalIdleStep
  <2> QED BY <1>1, <2>1, <2>2, <2>3, <2>4, <2>5 DEF Host
<1>2. CASE Poll
      BY <1>2, PollRunStep, DrainSignalStep, SignalsDrainedStep, LoopExitStep,
         StartStreamStep, StartVmStep, StartChainStep, StreamWaitsStep, StreamEndsStep,
         StreamDeadlineStep, VmStepStep, ChainStepStep, PostAndOrStep, RunEndsStep,
         RunYieldsStep DEF Poll
<1> QED BY <1>1, <1>2, StutterStep DEF Next

-----------------------------------------------------------------------------
(* The theorems.                                                              *)

(* The inductive invariant holds in every reachable state.                    *)
THEOREM IInvHolds == Spec => []IInv
BY InitIInv, NextIInv, PTL DEF Spec

(* Every variable of the executor stays in its type, whatever the scripts,    *)
(* budgets and limits.                                                        *)
THEOREM TypeCorrect == Spec => []TypeOK
<1>1. IInv => TypeOK BY DEF IInv
<1> QED BY <1>1, IInvHolds, PTL

(* A pending streaming pipeline always belongs to the list the active         *)
(* StartRun is at: nothing leaves host processes behind.                      *)
THEOREM PipelineIsOwned == Spec => []PipelineOwned
<1>1. IInv => PipelineOwned BY DEF IInv
<1> QED BY <1>1, IInvHolds, PTL

(* Every accepted run is answered by exactly one Exit.                        *)
THEOREM OneExitPerRun == Spec => []ExitOwed
<1>1. IInv => ExitOwed BY DEF IInv
<1> QED BY <1>1, IInvHolds, PTL

(* Between Cancel and the Exit of the cancelled run no command runs.          *)
THEOREM CancelIsQuiet == Spec => CancelQuiet
<1>1. IInv /\ [Next]_vars => [m.cancelled /\ run.on /\ run'.on => ran' = ran]_vars
  <2> SUFFICES ASSUME IInv, Next, m.cancelled, run.on, run'.on PROVE ran' = ran
      OBVIOUS
  <2>1. phase \notin {"vm", "chain", "post"} BY DEF IInv, PhaseInv
  <2>2. CASE Host
        BY <2>2 DEF Host, HostInit, NoRun, ParseError, Cancel, StartRun, SignalActive,
                    SignalIdle, ghosts
  <2>3. CASE Poll
        BY <2>1, <2>3
           DEF Poll, PollRun, DrainSignal, SignalsDrained, LoopExit, StartStream, StartVm,
               StartChain, StreamWaits, StreamEnds, StreamDeadline, VmStep, ChainStep,
               PostAndOr, RunEnds, RunYields, Halting, ghosts
  <2> QED BY <2>2, <2>3 DEF Next
<1> QED BY <1>1, IInvHolds, PTL DEF Spec, CancelQuiet

-----------------------------------------------------------------------------
(* Every operator on the machine honours a stop: a limit that was hit stays   *)
(* hit, and the steps of a poll stay within the limit.                        *)

Granted(s) == StepBudget > 0 => s.steps <= PollLimit
Honours(s, t) == (s.exhausted => t.exhausted) /\ (Granted(s) => Granted(t))

(* The limits a poll, an idle signal and the EXIT trap run under.             *)
Limit(lim) == lim \in Nat /\ (StepBudget > 0 => lim > 0 /\ lim <= PollLimit)

(* The two limits a poll and everything else run under are limits in this     *)
(* sense.                                                                     *)
LEMMA Limits == Limit(StepBudget) /\ Limit(PollLimit)
BY ConstantsAssumption DEF ConstantsAssumption, Limit, PollLimit

(* Operators may be applied one after the other.                              *)
LEMMA HonoursTrans ==
    ASSUME NEW r, NEW s, NEW t, Honours(r, s), Honours(s, t)
    PROVE  Honours(r, t)
BY DEF Honours

(* An operator that touches neither the flag nor the steps.                   *)
LEMMA SameHonours ==
    ASSUME NEW s, NEW t, t.exhausted = s.exhausted, t.steps = s.steps
    PROVE  Honours(s, t)
BY DEF Honours, Granted

(* Vm::begin_step: a step beyond the limit is refused.                        *)
LEMMA BeginStepHonours ==
    ASSUME NEW s \in Machine, NEW lim, Limit(lim)
    PROVE  Honours(s, BeginStep(s, lim)) /\ BeginStep(s, lim).exhausted = s.exhausted
BY LimitType DEF Honours, Granted, Limit, BeginStep, CanStep, Machine

(* check_resource_limits.                                                     *)
LEMMA CheckHonours ==
    ASSUME NEW s \in Machine, NEW lim, Limit(lim)
    PROVE  Honours(s, CheckResourceLimits(s, lim))
<1> DEFINE b == BeginStep(s, lim)
           c == [b EXCEPT !.exhausted = TRUE, !.stop = b.bstop]
<1>1. Honours(s, b) /\ b \in Machine
      BY BeginStepHonours, BeginStepKeeps DEF Keeps, Limit
<1>2. Honours(s, s) BY SameHonours
<1>3. Honours(s, c)
  <2> HIDE DEF b
  <2>1. c.exhausted = TRUE /\ c.steps = b.steps BY <1>1 DEF Machine
  <2> QED BY <1>1, <2>1 DEF Honours, Granted
<1> QED BY <1>1, <1>2, <1>3 DEF CheckResourceLimits

(* The two output accounts.                                                   *)
LEMMA OutputHonours ==
    ASSUME NEW s \in Machine
    PROVE  Honours(s, RouterOutput(s)) /\ Honours(s, TrackedOutput(s))
<1>1. RouterOutput(s).steps = s.steps /\ (s.exhausted => RouterOutput(s).exhausted)
      BY DEF RouterOutput, Machine
<1>2. TrackedOutput(s).steps = s.steps /\ (s.exhausted => TrackedOutput(s).exhausted)
      BY DEF TrackedOutput, Machine
<1> QED BY <1>1, <1>2 DEF Honours, Granted

(* Frames entered, left and refused.                                          *)
LEMMA RecursionHonours ==
    ASSUME NEW s \in Machine
    PROVE  /\ Honours(s, EnterRecursion(s)) /\ Honours(s, ExitRecursion(s))
           /\ Honours(s, MarkRecursion(s))
<1>1. ASSUME NEW t \in {EnterRecursion(s), ExitRecursion(s), MarkRecursion(s)}
      PROVE  t.exhausted = s.exhausted /\ t.steps = s.steps
      BY DEF EnterRecursion, ExitRecursion, MarkRecursion, Machine
<1> QED BY <1>1, SameHonours

(* errexit, `exit` and a status or an exit request that is set.               *)
LEMMA ExitHonours ==
    ASSUME NEW s \in Machine
    PROVE  /\ Honours(s, Errexit(s)) /\ Honours(s, ExitCommand(s))
           /\ \A v : Honours(s, [s EXCEPT !.last = v])
           /\ \A v : Honours(s, [s EXCEPT !.exit = v])
<1>1. ASSUME NEW t \in {Errexit(s), ExitCommand(s)}
      PROVE  t.exhausted = s.exhausted /\ t.steps = s.steps
      BY DEF Errexit, ExitCommand, Machine
<1>2. ASSUME NEW v, NEW t \in {[s EXCEPT !.last = v], [s EXCEPT !.exit = v]}
      PROVE  t.exhausted = s.exhausted /\ t.steps = s.steps
      BY DEF Machine
<1> QED BY <1>1, <1>2, SameHonours

(* The builtins of the IR path.                                               *)
LEMMA VmBuiltinHonours ==
    ASSUME NEW s \in Machine, NEW c \in VmCommand
    PROVE  Honours(s, VmBuiltin(s, c)) /\ (c # "echo" => Honours(s, Quiet(s, c)))
<1>1. c # "echo" => Honours(s, Quiet(s, c))
  <2> SUFFICES ASSUME c # "echo" PROVE Honours(s, Quiet(s, c)) OBVIOUS
  <2>1. Quiet(s, c).exhausted = s.exhausted /\ Quiet(s, c).steps = s.steps
        BY DEF Quiet, VmCommand, Machine
  <2> QED BY <2>1, SameHonours
<1>2. Honours(s, [RouterOutput(s) EXCEPT !.last = 0])
  <2> DEFINE r == RouterOutput(s)
  <2>1. r \in Machine /\ Honours(s, r) BY RouterOutputKeeps, OutputHonours DEF Keeps
  <2> HIDE DEF r
  <2>2. Honours(r, [r EXCEPT !.last = 0]) BY <2>1, ExitHonours
  <2> QED BY <2>1, <2>2, HonoursTrans DEF r
<1> QED BY <1>1, <1>2 DEF VmBuiltin

(* A nested `echo` or `exit`.                                                 *)
LEMMA NestedHonours ==
    ASSUME NEW s \in Machine, NEW h, NEW lim, Limit(lim)
    PROVE  Honours(s, Nested(s, h, lim))
<1> DEFINE b == BeginStep(s, lim)
           v == VmBuiltin(b, "echo")
           w == BeginStep(v, lim)
           c == CheckResourceLimits(s, lim)
<1>1. lim \in Nat BY DEF Limit
<1>2. Honours(s, s) BY SameHonours
<1>3. b \in Machine /\ c \in Machine /\ Honours(s, b) /\ Honours(s, c)
      BY <1>1, BeginStepKeeps, CheckKeeps, BeginStepHonours, CheckHonours DEF Keeps
<1>4. v \in Machine /\ Honours(b, v)
      BY <1>3, VmBuiltinKeeps, VmBuiltinHonours DEF Keeps, VmCommand
<1>5. w \in Machine /\ Honours(v, w)
      BY <1>1, <1>4, BeginStepKeeps, BeginStepHonours DEF Keeps
<1>6. Honours(s, w) BY <1>3, <1>4, <1>5, HonoursTrans
<1>7. ASSUME NEW t \in {b, c, w}
      PROVE  Honours(s, Errexit(t)) /\ Honours(s, ExitCommand(t))
  <2>1. t \in Machine /\ Honours(s, t) BY <1>3, <1>5, <1>6
  <2> QED BY <2>1, ExitHonours, HonoursTrans
<1>8. Nested(s, h, lim) \in {s, Errexit(w), Errexit(b), Errexit(c), ExitCommand(c)}
      BY DEF Nested
<1> QED BY <1>2, <1>7, <1>8

(* A trap handler.                                                            *)
LEMMA InputInnerHonours ==
    ASSUME NEW s \in Machine, NEW h, NEW lim, Limit(lim)
    PROVE  Honours(s, ExecuteInputInner(s, h, lim))
<1> DEFINE e == EnterRecursion(s)
           n == Nested(e, h, lim)
<1>1. lim \in Nat BY DEF Limit
<1>2. e \in Machine /\ Honours(s, e) BY RecursionKeeps, RecursionHonours DEF Keeps
<1>3. n \in Machine /\ Honours(e, n) BY <1>1, <1>2, NestedKeeps, NestedHonours DEF Keeps
<1>4. Honours(n, ExitRecursion(n)) BY <1>3, RecursionHonours
<1>5. Honours(s, ExitRecursion(n)) BY <1>2, <1>3, <1>4, HonoursTrans
<1> QED BY <1>5, RecursionHonours DEF ExecuteInputInner

(* A function call.                                                           *)
LEMMA CallHonours ==
    ASSUME NEW s \in Machine, NEW lim, Limit(lim)
    PROVE  Honours(s, CallFunction(s, lim))
<1> DEFINE e == EnterRecursion(s)
           c == CheckResourceLimits(e, lim)
           n == Nested(c, "echo", lim)
           b == ExecuteBody(e, lim)
           r == MarkRecursion(s)
<1>1. lim \in Nat BY DEF Limit
<1>2. e \in Machine /\ r \in Machine /\ Honours(s, e) /\ Honours(s, r) /\ Honours(e, e)
      BY RecursionKeeps, RecursionHonours, SameHonours DEF Keeps
<1>3. c \in Machine /\ Honours(e, c) BY <1>1, <1>2, CheckKeeps, CheckHonours DEF Keeps
<1>4. n \in Machine /\ Honours(c, n) BY <1>1, <1>3, NestedKeeps, NestedHonours DEF Keeps
<1>5. Honours(e, n) BY <1>3, <1>4, HonoursTrans
<1>6. b \in Machine /\ Honours(e, b) BY <1>2, <1>4, <1>5 DEF ExecuteBody
<1>7. Honours(b, ExitRecursion(b)) BY <1>6, RecursionHonours
<1>8. Honours(s, ExitRecursion(b)) BY <1>2, <1>6, <1>7, HonoursTrans
<1>9. Honours(r, TrackedOutput(r)) BY <1>2, OutputHonours
<1>10. Honours(s, TrackedOutput(r)) BY <1>2, <1>9, HonoursTrans
<1> QED BY <1>8, <1>10 DEF CallFunction

(* A body that runs out of steps stops at the limit.                          *)
LEMMA OutOfStepsHonours ==
    ASSUME NEW s \in Machine, NEW lim, Limit(lim)
    PROVE  Honours(s, OutOfSteps(s, lim))
<1>1. OutOfSteps(s, lim).exhausted = TRUE /\ OutOfSteps(s, lim).steps = lim
      BY DEF OutOfSteps, Machine
<1> QED BY <1>1 DEF Honours, Granted, Limit

(* A runaway recursion takes no more steps than are left.                     *)
LEMMA RunawayHonours ==
    ASSUME NEW s \in Machine, NEW lim, Limit(lim)
    PROVE  Honours(s, RunawayRecursion(s, lim))
<1> DEFINE frames == IF s.depth < RecursionLimit THEN RecursionLimit - s.depth ELSE 0
           cost   == 2 * frames
           a == [s EXCEPT !.steps = @ + cost]
           r == TrackedOutput(MarkRecursion(a))
           o == OutOfSteps(s, lim)
<1>1. lim \in Nat /\ s.steps \in Nat BY DEF Limit, Machine
<1>2. frames \in Nat /\ cost \in Nat
      BY ConstantsAssumption DEF ConstantsAssumption, Machine
<1>3. a \in Machine /\ a.exhausted = s.exhausted /\ a.steps = s.steps + cost
      BY <1>2 DEF Machine
<1>4. o \in Machine /\ Honours(s, o) BY <1>1, OutOfStepsKeeps, OutOfStepsHonours DEF Keeps
<1>5. MarkRecursion(a) \in Machine /\ Honours(a, MarkRecursion(a))
      BY <1>3, RecursionKeeps, RecursionHonours DEF Keeps
<1>6. r \in Machine /\ Honours(MarkRecursion(a), r)
      BY <1>5, TrackedOutputKeeps, OutputHonours DEF Keeps
<1>7. Honours(a, r) BY <1>5, <1>6, HonoursTrans
<1>8. Honours(s, s) /\ Honours(s, Errexit(o))
      BY <1>4, SameHonours, ExitHonours, HonoursTrans
<1>9. ASSUME frames = 0 \/ lim = 0 \/ s.steps + cost <= lim
      PROVE  Honours(s, r) /\ Honours(s, Errexit(r))
  <2>1. frames = 0 => cost = 0 OBVIOUS
  <2> HIDE DEF frames, cost
  <2>2. Honours(s, a)
        BY <1>1, <1>2, <1>3, <1>9, <2>1, LimitType DEF Honours, Granted, Limit
  <2>3. Honours(s, r) BY <1>7, <2>2, HonoursTrans
  <2> QED BY <1>6, <2>3, ExitHonours, HonoursTrans
<1> HIDE DEF o
<1> QED BY <1>4, <1>8, <1>9 DEF RunawayRecursion, o

(* One pipeline of a list outside the IR subset.                              *)
LEMMA ChainBuiltinHonours ==
    ASSUME NEW s \in Machine, NEW c \in Command, NEW x, NEW lim, Limit(lim)
    PROVE  Honours(s, ChainBuiltin(s, c, x, lim))
<1> DEFINE p == TrackedOutput(s)
           f == [s EXCEPT !.last = 1]
           k == CheckResourceLimits(s, lim)
<1>1. lim \in Nat BY DEF Limit
<1>2. CASE c = "echo"
  <2>1. p \in Machine /\ Honours(s, p) BY TrackedOutputKeeps, OutputHonours DEF Keeps
  <2> HIDE DEF p
  <2>2. Honours(s, [p EXCEPT !.last = 0]) BY <2>1, ExitHonours, HonoursTrans
  <2> QED BY <1>2, <2>1, <2>2 DEF ChainBuiltin, p
<1>3. CASE c # "echo" /\ c \in External /\ x
  <2>1. f \in Machine /\ Honours(s, f) BY SetField, ExitHonours DEF Keeps
  <2>2. Honours(f, TrackedOutput(f)) BY <2>1, OutputHonours
  <2> QED BY <1>3, <2>1, <2>2, HonoursTrans DEF ChainBuiltin
<1>4. CASE c # "echo" /\ ~(c \in External /\ x)
  <2>1. k \in Machine /\ Honours(s, k) /\ Honours(k, k)
        BY <1>1, CheckKeeps, CheckHonours, SameHonours DEF Keeps
  <2>2. CASE c = "loop"
    <3> DEFINE o == IF Stopped(k) THEN k ELSE OutOfSteps(k, lim)
    <3>1. o \in Machine /\ Honours(k, o)
          BY <1>1, <2>1, OutOfStepsKeeps, OutOfStepsHonours DEF Keeps
    <3> HIDE DEF k, o
    <3>2. Honours(o, [o EXCEPT !.last = 0]) BY <3>1, ExitHonours
    <3>3. ChainBuiltin(s, c, x, lim) = [o EXCEPT !.last = 0]
          BY <1>4, <2>2 DEF ChainBuiltin, EndlessLoop, k, o
    <3> QED BY <2>1, <3>1, <3>2, <3>3, HonoursTrans
  <2>3. CASE c # "loop" /\ k.exhausted
        BY <1>4, <2>1, <2>3 DEF ChainBuiltin
  <2>4. CASE c # "loop" /\ ~k.exhausted
    <3> DEFINE t == TrackedOutput(k)
    <3>1. t \in Machine /\ Honours(k, t) BY <2>1, TrackedOutputKeeps, OutputHonours DEF Keeps
    <3>2. Honours(k, [t EXCEPT !.last = 0]) /\ Honours(k, [t EXCEPT !.last = 1])
      <4> HIDE DEF t
      <4> QED BY <3>1, ExitHonours, HonoursTrans
    <3>3. Honours(k, CallFunction(k, lim)) /\ Honours(k, RunawayRecursion(k, lim))
          BY <2>1, CallHonours, RunawayHonours
    <3>4. Honours(k, ExitCommand(k)) BY <2>1, ExitHonours
    <3>5. c \in VmCommand => Honours(k, Quiet(k, c))
          BY <1>4, <2>1, VmBuiltinHonours
    <3>6. Honours(k, ChainBuiltin(s, c, x, lim))
          BY <1>4, <2>4, <3>2, <3>3, <3>4, <3>5
             DEF ChainBuiltin, Command, ChainCommand, VmCommand
    <3> QED BY <2>1, <3>6, HonoursTrans
  <2> QED BY <2>2, <2>3, <2>4
<1> QED BY <1>2, <1>3, <1>4

(* A signal delivered to the shell.                                           *)
LEMMA DeliverHonours ==
    ASSUME NEW s \in Machine, NEW sig \in Signals, NEW lim, Limit(lim)
    PROVE  Honours(s, DeliverSignal(s, sig, lim))
<1> DEFINE n == 128 + SignalSpec[sig].number
           a == [s EXCEPT !.last = n]
           t == ExecuteInputInner(a, HandlerOf(s, sig), lim)
<1>1. n \in Nat /\ lim \in Nat
      BY ConstantsAssumption DEF ConstantsAssumption, SignalSpec, Limit
<1> HIDE DEF n
<1>2. a \in Machine /\ Honours(s, a) BY <1>1, SetField, ExitHonours DEF Keeps
<1>3. t \in Machine /\ Honours(a, t) BY <1>1, <1>2, InputInnerKeeps, InputInnerHonours DEF Keeps
<1>4. Honours(s, t) BY <1>2, <1>3, HonoursTrans
<1>5. Honours(s, [t EXCEPT !.last = s.last])
  <2> HIDE DEF t
  <2> QED BY <1>3, <1>4, ExitHonours, HonoursTrans
<1>6. Honours(s, RunSignalTrap(s, sig, lim)) BY <1>4, <1>5 DEF RunSignalTrap, n
<1>7. Honours(s, [s EXCEPT !.exit = n]) BY ExitHonours
<1>8. Honours(s, s) BY SameHonours
<1> QED BY <1>6, <1>7, <1>8 DEF DeliverSignal, n

(* The EXIT trap.                                                             *)
LEMMA ExitTrapHonours ==
    ASSUME NEW s \in Machine, NEW normally, NEW lim, Limit(lim)
    PROVE  Honours(s, RunExitTrap(s, normally, lim))
<1> DEFINE was == IF s.exit # NoExit THEN s.exit ELSE s.last
           b   == [s EXCEPT !.exit = NoExit, !.last = was]
           t   == ExecuteInputInner(b, s.xtrap, lim)
           now == IF t.exit # NoExit THEN t.exit ELSE was
           d   == [t EXCEPT !.exit = now, !.last = now]
<1>1. was \in Nat /\ lim \in Nat BY DEF Machine, NoExit, Limit
<1> HIDE DEF was
<1>2. b \in Machine /\ b.exhausted = s.exhausted /\ b.steps = s.steps
  <2> DEFINE a == [s EXCEPT !.exit = NoExit]
             c == [a EXCEPT !.last = was]
  <2>1. a \in Machine BY SetField DEF Keeps
  <2>2. c \in Machine BY <1>1, <2>1, SetField DEF Keeps
  <2>3. b = c BY DEF Machine
  <2> QED BY <2>2, <2>3 DEF Machine
<1>3. Honours(s, b) BY <1>2, SameHonours
<1>4. t \in Machine /\ Honours(b, t) BY <1>1, <1>2, InputInnerKeeps, InputInnerHonours DEF Keeps
<1> HIDE DEF t, b, now
<1>5. d.exhausted = t.exhausted /\ d.steps = t.steps BY <1>4 DEF Machine
<1>6. Honours(t, d) BY <1>5, SameHonours
<1>7. Honours(s, d) BY <1>3, <1>4, <1>6, HonoursTrans
<1>8. Honours(s, s) BY SameHonours
<1> HIDE DEF d
<1>9. RunExitTrap(s, normally, lim) \in {s, d}
      BY DEF RunExitTrap, was, now, t, b, d
<1> QED BY <1>7, <1>8, <1>9


-----------------------------------------------------------------------------
(* The invariant behind the stops.                                            *)

(* A list that has hit a limit goes on by itself at most: its last command is *)
(* of the list being executed.                                                *)
LimitHit ==
    phase \in {"vm", "chain"} /\ m.exhausted => ran # <<>> /\ ran[Len(ran)][1] = idx

(* A poll of a cancelled run has its whole quota before it and goes no        *)
(* further than the loop, which notes the cancellation.                       *)
CancelSeen ==
    /\ phase \in {"signals", "steps"} /\ m.cancelled => left = StepBudget
    /\ phase = "end" /\ m.cancelled /\ ~Done => m.exhausted

StopInv == StepsBounded /\ LimitHit /\ CancelSeen

(* A machine that is reset, or restarted, has taken no more steps.            *)
LEMMA ResetSteps ==
    ASSUME NEW s \in Machine
    PROVE  /\ ExecReset(s).steps = s.steps
           /\ Started(s).steps = 0
           /\ [FreshMachine EXCEPT !.xstart = s.xstart].steps = 0
           /\ FreshMachine.steps = 0
<1>1. ExecReset(s).steps = s.steps BY DEF ExecReset, Machine
<1>2. ExecReset(s) \in Machine BY StopKeeps DEF Keeps
<1>3. Started(s).steps = 0
  <2> DEFINE r == ExecReset(s)
  <2> HIDE DEF r
  <2>1. r \in Machine BY <1>2 DEF r
  <2> QED BY <2>1 DEF Started, Machine, r
<1>4. FreshMachine.steps = 0 /\ [FreshMachine EXCEPT !.xstart = s.xstart].steps = 0
      BY DEF FreshMachine
<1> QED BY <1>1, <1>3, <1>4

(* No step grants more than the limit, and none but the start of a run lifts  *)
(* a stop.                                                                    *)
Upheld ==
    /\ StepsBounded => StepsBounded'
    /\ run.on /\ run'.on /\ m.exhausted => m'.exhausted

(* A step that honours the stops upholds them.                                *)
LEMMA HonoursUpheld ==
    ASSUME Honours(m, m')
    PROVE  Upheld
BY DEF Upheld, Honours, Granted, StepsBounded

(* The commands of the host.                                                  *)
LEMMA HostUpheld ==
    ASSUME IInv, Host
    PROVE  Upheld
<1> USE DEF IInv
<1>1. m \in Machine /\ PollLimit \in Nat BY LimitType DEF TypeOK
<1>2. ASSUME m'.steps = 0, ~run.on \/ ~run'.on PROVE Upheld
      BY <1>1, <1>2 DEF Upheld, StepsBounded
<1>3. CASE HostInit
  <2>1. m'.steps = 0 /\ ~run'.on BY <1>1, <1>3, ResetSteps DEF HostInit, NoRun
  <2> QED BY <1>2, <2>1
<1>4. CASE ParseError
  <2>1. Honours(m, m') BY <1>1, <1>4, ExitHonours DEF ParseError
  <2> QED BY <2>1, HonoursUpheld
<1>5. CASE Cancel
  <2>1. m'.exhausted = m.exhausted /\ m'.steps = m.steps BY <1>1, <1>5 DEF Cancel, Machine
  <2>2. Honours(m, m') BY <2>1, SameHonours
  <2> QED BY <2>2, HonoursUpheld
<1>6. ASSUME NEW p \in Programs, NEW drain \in BOOLEAN, StartRun(p, drain)
      PROVE  Upheld
  <2>1. m'.steps = 0 /\ ~run.on BY <1>1, <1>6, ResetSteps DEF StartRun
  <2> QED BY <1>2, <2>1
<1>7. ASSUME NEW sig \in Signals, SignalActive(sig)
      PROVE  Upheld
  <2>1. Honours(m, m') BY <1>7, SameHonours DEF SignalActive
  <2> QED BY <2>1, HonoursUpheld
<1>8. ASSUME NEW sig \in Signals, SignalIdle(sig)
      PROVE  Upheld
  <2> DEFINE s == DeliverSignal(m, sig, StepBudget)
             x == RunExitTrap(s, FALSE, StepBudget)
  <2>1. s \in Machine /\ Honours(m, s)
        BY <1>1, Limits, LimitType, DeliverKeeps, DeliverHonours DEF Keeps
  <2>2. x \in Machine /\ Honours(s, x)
        BY <2>1, Limits, LimitType, ExitTrapKeeps, ExitTrapHonours DEF Keeps
  <2>3. Honours(m, x) BY <2>1, <2>2, HonoursTrans
  <2>4. ExecReset(x).steps = x.steps BY <2>2, ResetSteps
  <2>5. m' \in {s, ExecReset(x)} /\ ~run.on BY <1>8 DEF SignalIdle
  <2> HIDE DEF s, x
  <2> QED BY <2>1, <2>3, <2>4, <2>5 DEF Upheld, Honours, Granted, StepsBounded
<1> QED BY <1>3, <1>4, <1>5, <1>6, <1>7, <1>8 DEF Host

(* The steps of a poll.                                                       *)
LEMMA PollUpheld ==
    ASSUME IInv, Poll
    PROVE  Upheld
<1> USE DEF IInv
<1>1. m \in Machine /\ PollLimit \in Nat BY LimitType DEF TypeOK
<1>2. CASE PollRun
  <2>1. m'.steps = 0 /\ m'.exhausted = m.exhausted BY <1>1, <1>2 DEF PollRun, Machine
  <2> QED BY <1>1, <2>1 DEF Upheld, StepsBounded
<1>3. CASE DrainSignal
  <2>1. Head(sigs) \in Signals BY <1>3 DEF DrainSignal, TypeOK
  <2>2. Honours(m, m') BY <1>1, <1>3, <2>1, Limits, DeliverHonours DEF DrainSignal
  <2> QED BY <2>2, HonoursUpheld
<1>4. CASE SignalsDrained \/ StartStream \/ StartVm \/ StartChain \/ RunYields
  <2>1. m' = m BY <1>4 DEF SignalsDrained, StartStream, StartVm, StartChain, RunYields
  <2>2. Honours(m, m') BY <2>1, SameHonours
  <2> QED BY <2>2, HonoursUpheld
<1>5. CASE LoopExit
  <2>1. m'.steps = m.steps /\ (m.exhausted => m'.exhausted)
        BY <1>1, <1>5 DEF LoopExit, Machine
  <2> QED BY <2>1 DEF Upheld, StepsBounded
<1>6. CASE StreamWaits \/ StreamEnds
  <2>1. ASSUME NEW n \in 0..1
        PROVE  /\ Honours(m, StreamWrites(m, n))
               /\ \A v : Honours(m, [StreamWrites(m, n) EXCEPT !.last = v])
    <3> DEFINE w == StreamWrites(m, n)
    <3>1. w \in Machine /\ Honours(m, w)
          BY <1>1, TrackedOutputKeeps, OutputHonours, SameHonours DEF StreamWrites, Keeps
    <3> HIDE DEF w
    <3>2. \A v : Honours(w, [w EXCEPT !.last = v]) BY <3>1, ExitHonours
    <3>3. \A v : Honours(m, [w EXCEPT !.last = v]) BY <3>1, <3>2, HonoursTrans
    <3> QED BY <3>1, <3>3 DEF w
  <2>2. Honours(m, m') BY <1>6, <2>1 DEF StreamWaits, StreamEnds
  <2> QED BY <2>2, HonoursUpheld
<1>7. CASE StreamDeadline
  <2> DEFINE w == TrackedOutput(m)
  <2>1. w \in Machine /\ Honours(m, w) BY <1>1, TrackedOutputKeeps, OutputHonours DEF Keeps
  <2>2. m' \in {w, [w EXCEPT !.last = 124]} BY <1>7 DEF StreamDeadline
  <2> HIDE DEF w
  <2>3. Honours(m, [w EXCEPT !.last = 124]) BY <2>1, ExitHonours, HonoursTrans
  <2>4. Honours(m, m') BY <2>1, <2>2, <2>3
  <2> QED BY <2>4, HonoursUpheld
<1>8. CASE VmStep
  <2> DEFINE k == (pc \div 2) + 1
             b == BeginStep(m, PollLimit)
  <2>1. /\ ~Done /\ pc \in Nat /\ pc < 2 * Pipelines
        BY <1>8 DEF VmStep, PhaseInv, TypeOK
  <2>2. Pipelines \in Nat \ {0} BY <2>1, ItemType
  <2>3. k \in 1..Pipelines BY <2>1, <2>2
  <2>4. PipelineAt(k) \in VmCommand BY <1>8, <2>3 DEF VmStep, PhaseInv, InVmSubset
  <2>5. b \in Machine /\ Honours(m, b)
        BY <1>1, Limits, BeginStepKeeps, BeginStepHonours DEF Keeps
  <2>6. Honours(m, VmBuiltin(b, PipelineAt(k)))
        BY <2>4, <2>5, VmBuiltinHonours, HonoursTrans
  <2>7. m' \in {b, VmBuiltin(b, PipelineAt(k))} BY <1>8 DEF VmStep
  <2>8. Honours(m, m') BY <2>5, <2>6, <2>7
  <2> QED BY <2>8, HonoursUpheld
<1>9. CASE ChainStep
  <2>1. ~Done /\ pc \in 1..Pipelines BY <1>9 DEF ChainStep, PhaseInv
  <2>2. PipelineAt(pc) \in Command BY <2>1, ItemType
  <2>3. Honours(m, m) /\ Honours(m, ChainBuiltin(m, PipelineAt(pc), ~run.drain, PollLimit))
        BY <1>1, <2>2, Limits, SameHonours, ChainBuiltinHonours
  <2>4. Honours(m, m') BY <1>9, <2>3 DEF ChainStep
  <2> QED BY <2>4, HonoursUpheld
<1>10. CASE PostAndOr
  <2>1. Honours(m, m) /\ Honours(m, Errexit(m)) BY <1>1, SameHonours, ExitHonours
  <2>2. Honours(m, m') BY <1>10, <2>1 DEF PostAndOr
  <2> QED BY <2>2, HonoursUpheld
<1>11. CASE RunEnds
  <2> DEFINE s == EnsureStopReason(m)
             x == RunExitTrap(s, ~Stopped(s), StepBudget)
  <2>1. s \in Machine BY <1>1, StopKeeps DEF Keeps
  <2>2. s.exhausted = m.exhausted /\ s.steps = m.steps BY <1>1 DEF EnsureStopReason, Machine
  <2>3. Honours(m, s) BY <2>2, SameHonours
  <2> HIDE DEF s
  <2>4. Honours(s, x) BY <2>1, Limits, ExitTrapHonours
  <2>5. Honours(m, x) BY <2>3, <2>4, HonoursTrans
  <2>6. m' = x BY <1>11 DEF RunEnds, s
  <2> QED BY <2>5, <2>6, HonoursUpheld
<1> QED BY <1>2, <1>3, <1>4, <1>5, <1>6, <1>7, <1>8, <1>9, <1>10, <1>11 DEF Poll

(* A list that starts has hit no limit; one that hits it has just run the     *)
(* command that did.                                                          *)
LEMMA LimitHitStep ==
    ASSUME IInv, LimitHit, [Next]_vars
    PROVE  LimitHit'
<1> USE DEF IInv, LimitHit
<1> SUFFICES ASSUME phase' \in {"vm", "chain"}, m'.exhausted
             PROVE  ran' # <<>> /\ ran'[Len(ran')][1] = idx'
    OBVIOUS
<1>1. m \in Machine /\ ran \in Seq(Nat \X Nat) /\ pc \in Nat /\ idx \in Nat BY DEF TypeOK
<1>2. ASSUME NEW e, ran' = Append(ran, e) PROVE ran' # <<>> /\ ran'[Len(ran')] = e
      BY <1>1, <1>2
<1>3. CASE VmStep
  <2> DEFINE k == (pc \div 2) + 1
             b == BeginStep(m, PollLimit)
  <2>1. CASE ran' = Append(ran, <<idx, k>>)
    <3>1. ran'[Len(ran')] = <<idx, k>> /\ ran' # <<>> BY <1>2, <2>1
    <3>2. idx' = idx BY <1>3 DEF VmStep
    <3> HIDE DEF k
    <3> QED BY <3>1, <3>2
  <2>2. CASE ran' = ran /\ m' = b
    <3>1. m'.exhausted = m.exhausted BY <1>1, <2>2, Limits, BeginStepHonours
    <3> QED BY <1>3, <2>2, <3>1 DEF VmStep
  <2>3. (ran' = Append(ran, <<idx, k>>)) \/ (ran' = ran /\ m' = b)
        BY <1>3 DEF VmStep
  <2> QED BY <2>1, <2>2, <2>3
<1>4. CASE ChainStep
  <2>1. CASE ran' = Append(ran, <<idx, pc>>)
    <3>1. ran'[Len(ran')] = <<idx, pc>> /\ ran' # <<>> BY <1>2, <2>1
    <3>2. idx' = idx BY <1>4 DEF ChainStep
    <3> QED BY <3>1, <3>2
  <2>2. CASE ran' = ran /\ m' = m
        BY <1>4, <2>2 DEF ChainStep
  <2> QED BY <1>4, <2>1, <2>2 DEF ChainStep
<1>5. CASE StartVm \/ StartChain
  <2>1. m' = m /\ ~m.exhausted
        BY <1>5 DEF StartVm, StartChain, Halting, Over, Stopped
  <2> QED BY <2>1
<1>6. CASE UNCHANGED vars
      BY <1>6 DEF vars, ghosts
<1>7. phase' \notin {"vm", "chain"} \/ VmStep \/ ChainStep \/ StartVm \/ StartChain
          \/ UNCHANGED vars
      BY DEF Next, Host, Poll, HostInit, ParseError, Cancel, StartRun, SignalActive, SignalIdle,
             PollRun, DrainSignal, SignalsDrained, LoopExit, StartStream, StreamWaits, StreamEnds,
             StreamDeadline, PostAndOr, RunEnds, RunYields
<1> QED BY <1>3, <1>4, <1>5, <1>6, <1>7

(* Cancel comes between two polls; the next one opens with its whole quota,   *)
(* delivers the signals, and leaves the loop before it runs anything.         *)
LEMMA CancelSeenStep ==
    ASSUME IInv, CancelSeen, [Next]_vars
    PROVE  CancelSeen'
<1> USE DEF IInv
<1>1. m \in Machine /\ StepBudget \in Nat BY LimitType DEF TypeOK
<1>2. CASE PollRun
      BY <1>2 DEF PollRun, CancelSeen
<1>3. CASE DrainSignal
  <2>1. Head(sigs) \in Signals BY <1>3 DEF DrainSignal, TypeOK
  <2>2. m'.cancelled = m.cancelled
        BY <1>1, <1>3, <2>1, LimitType, DeliverKeeps DEF DrainSignal, Keeps
  <2>3. phase = "signals" /\ phase' \in {"signals", "steps"} /\ left' = left
        BY <1>3 DEF DrainSignal
  <2> QED BY <2>2, <2>3 DEF CancelSeen
<1>4. CASE SignalsDrained
      BY <1>4 DEF SignalsDrained, CancelSeen
<1>5. CASE LoopExit
  <2>1. phase = "steps" /\ phase' = "end" /\ Done' = Done
        BY <1>5 DEF LoopExit, Done
  <2>2. m'.cancelled /\ ~Done => m.cancelled /\ left = StepBudget
        BY <1>1, <1>5, <2>1 DEF LoopExit, CancelSeen, Machine
  <2>3. m.cancelled /\ ~Done /\ left = StepBudget => m'.exhausted
        BY <1>1, <1>5 DEF LoopExit, Machine
  <2> QED BY <2>1, <2>2, <2>3 DEF CancelSeen
<1>6. CASE StartStream
      BY <1>6 DEF StartStream, CancelSeen
<1>7. CASE StreamWaits
  <2>1. \A n \in 0..1 : StreamWrites(m, n).cancelled = m.cancelled
        BY <1>1, TrackedOutputKeeps DEF StreamWrites, Keeps
  <2>2. ~m'.cancelled BY <1>7, <2>1 DEF StreamWaits, Halting
  <2> QED BY <2>2 DEF CancelSeen
<1>8. CASE PostAndOr
  <2>1. ~m'.cancelled BY <1>1, <1>8, ExitKeeps DEF PostAndOr, PhaseInv, Keeps
  <2> QED BY <2>1 DEF CancelSeen
<1>9. CASE UNCHANGED vars
      BY <1>9 DEF vars, CancelSeen, Done
<1>10. \/ phase' \notin {"signals", "steps", "end"}
       \/ PollRun \/ DrainSignal \/ SignalsDrained \/ LoopExit \/ StartStream \/ StreamWaits
       \/ PostAndOr \/ UNCHANGED vars
      BY DEF Next, Host, Poll, HostInit, ParseError, Cancel, StartRun, SignalActive, SignalIdle,
             StartVm, StartChain, StreamEnds, StreamDeadline, VmStep, ChainStep, RunEnds, RunYields
<1> QED BY <1>2, <1>3, <1>4, <1>5, <1>6, <1>7, <1>8, <1>9, <1>10 DEF CancelSeen

(* The invariant holds in every reachable state.                              *)
THEOREM StopInvHolds == Spec => [](IInv /\ StopInv)
<1>1. Init => StopInv
  <2> SUFFICES ASSUME Init PROVE StopInv OBVIOUS
  <2>1. m.steps = 0 /\ phase = "idle" BY DEF Init, FreshMachine
  <2> QED BY <2>1, LimitType DEF StopInv, StepsBounded, LimitHit, CancelSeen
<1>2. IInv /\ StopInv /\ [Next]_vars => StopInv'
  <2> SUFFICES ASSUME IInv, StopInv, [Next]_vars PROVE StopInv' OBVIOUS
  <2>1. CASE Next
    <3>1. Upheld BY <2>1, HostUpheld, PollUpheld DEF Next
    <3> QED BY <3>1, LimitHitStep, CancelSeenStep DEF StopInv, Upheld
  <2>2. CASE UNCHANGED vars
    <3>1. StepsBounded' BY <2>2 DEF StopInv, StepsBounded, vars
    <3> QED BY <3>1, LimitHitStep, CancelSeenStep DEF StopInv
  <2> QED BY <2>1, <2>2
<1> QED BY <1>1, <1>2, InitIInv, NextIInv, PTL DEF Spec

-----------------------------------------------------------------------------
(* The theorems.                                                              *)

(* The EXIT trap of a stopped run runs nothing and hides nothing.             *)
LEMMA StoppedTrap ==
    ASSUME NEW s \in Machine, s.exhausted, s.stop = "cancelled", ~RecursionRefused(s),
           NEW normally, NEW lim
    PROVE  CurrentRunExitStatus(RunExitTrap(s, normally, lim)) = 130
<1> DEFINE was == IF s.exit # NoExit THEN s.exit ELSE s.last
           b   == [s EXCEPT !.exit = NoExit, !.last = was]
           e   == EnterRecursion(b)
           t   == ExitRecursion(e)
           now == IF t.exit # NoExit THEN t.exit ELSE was
           d   == [t EXCEPT !.exit = now, !.last = now]
<1>1. was \in Nat BY DEF Machine, NoExit
<1> HIDE DEF was
<1>2. b \in Machine /\ b.exhausted /\ b.stop = "cancelled" /\ b.depth = s.depth
  <2> DEFINE a == [s EXCEPT !.exit = NoExit]
             c == [a EXCEPT !.last = was]
  <2>1. a \in Machine BY SetField DEF Keeps
  <2>2. c \in Machine BY <1>1, <2>1, SetField DEF Keeps
  <2>3. b = c BY DEF Machine
  <2> QED BY <2>2, <2>3 DEF Machine
<1> HIDE DEF b
<1>3. e \in Machine /\ e.exhausted /\ e.stop = "cancelled"
      BY <1>2, RecursionKeeps DEF Keeps, EnterRecursion, Machine
<1> HIDE DEF e
<1>4. t \in Machine /\ t.exhausted /\ t.stop = "cancelled"
      BY <1>3, RecursionKeeps DEF Keeps, ExitRecursion, Machine
<1>5. ExecuteInputInner(b, s.xtrap, lim) = t
      BY <1>2, <1>3 DEF ExecuteInputInner, RecursionRefused, Nested, Stopped, e
<1> HIDE DEF t
<1>6. d.exhausted /\ d.stop = "cancelled" BY <1>4 DEF Machine
<1> HIDE DEF now, d
<1>7. RunExitTrap(s, normally, lim) \in {s, d}
      BY <1>5 DEF RunExitTrap, was, b, now, d
<1> QED BY <1>6, <1>7 DEF CurrentRunExitStatus

(* No poll and no idle signal is granted more steps than the limit in force,  *)
(* on any path through the machine.                                           *)
THEOREM StepsAlwaysBounded == Spec => []StepsBounded
<1>1. StopInv => StepsBounded BY DEF StopInv
<1> QED BY <1>1, StopInvHolds, PTL

(* A limit that stopped a run stops it until its Exit: no later list runs.    *)
THEOREM LimitsStop == Spec => LimitStops
<1>1. ASSUME IInv, StopInv, Next, run.on, run'.on, m.exhausted
      PROVE  /\ m'.exhausted
             /\ ran' # ran => ran # <<>> /\ ran[Len(ran)][1] = ran'[Len(ran')][1]
  <2>1. m'.exhausted
    <3>1. Upheld BY <1>1, HostUpheld, PollUpheld DEF Next
    <3> QED BY <1>1, <3>1 DEF Upheld
  <2>2. ASSUME ran' # ran PROVE ran # <<>> /\ ran[Len(ran)][1] = ran'[Len(ran')][1]
    <3>1. \/ VmStep /\ \E k : ran' = Append(ran, <<idx, k>>)
          \/ ChainStep /\ \E k : ran' = Append(ran, <<idx, k>>)
      <4>1. CASE Host
            BY <1>1, <2>2, <4>1
               DEF Host, HostInit, NoRun, ParseError, Cancel, StartRun, SignalActive,
                   SignalIdle, ghosts
      <4>2. CASE Poll
        <5>1. CASE VmStep BY <2>2, <5>1 DEF VmStep
        <5>2. CASE ChainStep BY <2>2, <5>2 DEF ChainStep
        <5> QED BY <1>1, <2>2, <4>2, <5>1, <5>2
               DEF Poll, PollRun, DrainSignal, SignalsDrained, LoopExit, StartStream, StartVm,
                   StartChain, StreamWaits, StreamEnds, StreamDeadline, PostAndOr, RunEnds,
                   RunYields, Halting, Over, Stopped, ghosts
      <4> QED BY <1>1, <4>1, <4>2 DEF Next
    <3>2. phase \in {"vm", "chain"} BY <3>1 DEF VmStep, ChainStep
    <3>3. ran # <<>> /\ ran[Len(ran)][1] = idx BY <1>1, <3>2 DEF StopInv, LimitHit
    <3>4. ran \in Seq(Nat \X Nat) BY <1>1 DEF IInv, TypeOK
    <3>5. PICK k : ran' = Append(ran, <<idx, k>>) BY <3>1
    <3>6. ran'[Len(ran')] = <<idx, k>> BY <3>4, <3>5
    <3> QED BY <3>3, <3>6
  <2> QED BY <2>1, <2>2
<1>2. IInv /\ StopInv /\ [Next]_vars =>
      [run.on /\ run'.on /\ m.exhausted =>
           /\ m'.exhausted
           /\ ran' # ran => ran # <<>> /\ ran[Len(ran)][1] = ran'[Len(ran')][1]]_vars
      BY <1>1
<1> QED BY <1>2, StopInvHolds, PTL DEF Spec, LimitStops

(* A cancelled run that has commands left ends with Exit(130).                *)
THEOREM CancelExits == Spec => CancelExit
<1>1. ASSUME IInv, StopInv, Next, phase = "end", phase' = "idle", m.cancelled, ~Done,
             m.stop \in {"none", "cancelled"}, ~RecursionRefused(m)
      PROVE  code' = 130
  <2>1. m \in Machine BY <1>1 DEF IInv, TypeOK
  <2>2. m.exhausted BY <1>1 DEF StopInv, CancelSeen
  <2>3. RunEnds
    <3>1. CASE Host
          BY <1>1, <3>1
             DEF Host, HostInit, ParseError, Cancel, StartRun, SignalActive, SignalIdle
    <3>2. CASE Poll
          BY <1>1, <2>2, <3>2
             DEF Poll, PollRun, DrainSignal, SignalsDrained, LoopExit, StartStream, StartVm,
                 StartChain, StreamWaits, StreamEnds, StreamDeadline, VmStep, ChainStep,
                 PostAndOr, RunYields, Over, Stopped
    <3> QED BY <1>1, <3>1, <3>2 DEF Next
  <2> DEFINE s == EnsureStopReason(m)
  <2>4. s \in Machine BY <2>1, StopKeeps DEF Keeps
  <2>5. s.exhausted /\ s.stop = "cancelled" /\ s.depth = m.depth
        BY <1>1, <2>1, <2>2 DEF EnsureStopReason, Machine
  <2>6. ~RecursionRefused(s) BY <1>1, <2>5 DEF RecursionRefused
  <2> HIDE DEF s
  <2>7. CurrentRunExitStatus(RunExitTrap(s, ~Stopped(s), StepBudget)) = 130
        BY <2>4, <2>5, <2>6, StoppedTrap
  <2> QED BY <2>3, <2>7 DEF RunEnds, s
<1>2. IInv /\ StopInv /\ [Next]_vars =>
      [phase = "end" /\ phase' = "idle" /\ m.cancelled /\ ~Done
           /\ m.stop \in {"none", "cancelled"} /\ ~RecursionRefused(m) => code' = 130]_vars
      BY <1>1
<1> QED BY <1>2, StopInvHolds, PTL DEF Spec, CancelExit

(* A stopped run is stopped for good, says why, and no poll exceeds its       *)
(* limit.                                                                     *)
THEOREM StopsAlwaysHonoured == Spec => StopsHonoured
BY CancelExits, LimitsStop, StepsAlwaysBounded, PTL DEF StopsHonoured

-----------------------------------------------------------------------------
(* A run, however it is cut into polls, does what the reference shell does.   *)
(* The invariant of that.                                                     *)

(* No limit has refused anything.                                             *)
Clean(s) == ~s.exhausted /\ s.bstop = "none"

Agree(s, r) ==
    /\ s.last = r.last /\ s.errexit = r.errexit
    /\ s.exit = IF r.exited THEN r.last ELSE NoExit

(* The reference after i lists of the script, and in the current list after k *)
(* pipelines.                                                                 *)
RefAt(i) == RefLists(run.prog, RefStart(start))[i]
Part(k)  == RefPipelines(RefAt(idx - 1), idx, Item)[k]

Between == phase \in {"idle", "begin", "signals", "steps", "end"}
AtList  ==
    /\ Agree(m, RefAt(idx - 1))
    /\ ran = IF stream = "running" THEN Append(RefAt(idx - 1).ran, <<idx, 1>>)
             ELSE RefAt(idx - 1).ran
AtPart(k) ==
    /\ ~RefAt(idx - 1).exited /\ Agree(m, Part(k)) /\ ran = Part(k).ran

(* As long as no limit has refused anything and nothing from outside has      *)
(* interfered, the machine is where the reference is.                         *)
InStep ==
    /\ Between => AtList
    /\ phase = "vm" => IF pc % 2 = 0 THEN AtPart(pc \div 2) /\ Taken((pc \div 2) + 1)
                       ELSE AtPart((pc \div 2) + 1)
    /\ phase = "chain" => AtPart(pc - 1)
    /\ phase = "post" => AtPart(Pipelines)
    /\ phase \in {"idle", "begin", "signals", "vm", "chain"} \/ stream = "running"
           => m.exit = NoExit

(* The EXIT trap is unset or an `echo`; the position is in the script or just *)
(* after it; the chain runs no list that streams.                             *)
Place ==
    /\ m.xtrap \in {"none", "echo"}
    /\ run.on => idx <= Len(run.prog) + 1
    /\ phase = "chain" => ~Streams

Follow == run.on /\ calm /\ Clean(m) => InStep

ResumeInv == Place /\ Follow

-----------------------------------------------------------------------------
(* The reference, unfolded.                                                   *)

(* A command leaves a state of the reference.                                 *)
LEMMA RefCommandType ==
    ASSUME NEW s \in RefState, NEW c, NEW i \in Nat, NEW k \in Nat
    PROVE  RefCommand(s, c, <<i, k>>) \in RefState
<1>1. s.ran \in Seq(Nat \X Nat) /\ <<i, k>> \in Nat \X Nat BY DEF RefState
<1>2. Append(s.ran, <<i, k>>) \in Seq(Nat \X Nat) BY <1>1, AppendType
<1>3. (s.errexit \/ c = "set_e") \in BOOLEAN /\ (c = "exit") \in BOOLEAN
      BY Zenon DEF RefState
<1> QED BY <1>2, <1>3 DEF RefCommand, RefState

(* A list is made of commands.                                                *)
LEMMA SizeType ==
    ASSUME NEW item \in AndOr
    PROVE  Size(item) \in Nat \ {0} /\ item.rest \in Seq(Link)
BY DEF AndOr, Size

(* The pipelines of a list, one after another.                                *)
LEMMA RefPipelinesFacts ==
    ASSUME NEW s0 \in RefState, NEW i \in Nat, NEW item \in AndOr,
           NEW P, P = RefPipelines(s0, i, item)
    PROVE  /\ P[0] = s0
           /\ \A k \in 0..Size(item) : P[k] \in RefState
           /\ \A k \in 1..Size(item) :
                  P[k] = IF Applies(P[k - 1], item, k)
                         THEN RefCommand(P[k - 1], CommandAt(item, k), <<i, k>>) ELSE P[k - 1]
<1> DEFINE n == Size(item)
           Step(s, k) == IF Applies(s, item, k)
                         THEN RefCommand(s, CommandAt(item, k), <<i, k>>) ELSE s
           g == [k \in 1..n |-> [s \in RefState |-> Step(s, k)]]
<1>1. n \in Nat BY SizeType
<1> HIDE DEF n
<1>2. \A k \in 1..n, s \in RefState : Step(s, k) \in RefState
      BY <1>1, RefCommandType
<1> HIDE DEF Step
<1>3. g \in [1..n -> [RefState -> RefState]] BY <1>2
<1>4. \A k \in 1..n, s \in RefState : g[k][s] = Step(s, k) OBVIOUS
<1> HIDE DEF g
<1>5. PICK f : f \in [0..n -> RefState] /\ f[0] = s0 /\ \A k \in 1..n : f[k] = g[k][f[k - 1]]
  <2>1. \E f : Iterates(f, n, RefState, s0, g) BY <1>1, <1>3, ByRecursion DEF Steps
  <2> QED BY <2>1 DEF Iterates
<1>6. f = [k \in 0..n |-> IF k = 0 THEN s0 ELSE Step(f[k - 1], k)]
  <2>1. \A k \in 1..n : f[k - 1] \in RefState /\ g[k][f[k - 1]] = Step(f[k - 1], k)
        BY <1>1, <1>4, <1>5
  <2>2. \A k \in 0..n : f[k] = IF k = 0 THEN s0 ELSE Step(f[k - 1], k)
        BY <1>1, <1>5, <2>1
  <2> QED BY <1>5, <2>2
<1>7. P = [k \in 0..n |-> IF k = 0 THEN s0 ELSE Step(P[k - 1], k)]
  <2>1. P = CHOOSE F : F = [k \in 0..n |-> IF k = 0 THEN s0 ELSE Step(F[k - 1], k)]
        BY DEF RefPipelines, n, Step
  <2> QED BY <1>6, <2>1
<1> DEFINE Q(k) == k \in 0..n /\ P[k] \in RefState
           T == {k \in 0..n : P[k] \in RefState}
<1>8. P[0] = s0 /\ \A k \in 1..n : P[k] = Step(P[k - 1], k) BY <1>1, <1>7
<1>9. \A k \in 0..n : k \in T
  <2>1. 0 \in T BY <1>1, <1>8
  <2>2. \A k \in 1..n : k - 1 \in T => k \in T BY <1>2, <1>8
  <2> HIDE DEF T
  <2> QED BY <1>1, <2>1, <2>2, UpTo
<1> QED BY <1>8, <1>9 DEF n, Step

(* The errexit of a list keeps the type.                                      *)
LEMMA RefListType ==
    ASSUME NEW s \in RefState, NEW i \in Nat, NEW item \in AndOr
    PROVE  RefList(s, i, item) \in RefState
<1>1. RefPipelines(s, i, item)[Size(item)] \in RefState BY RefPipelinesFacts, SizeType
<1>2. \A r \in RefState : RefErrexit(r, item) \in RefState BY DEF RefErrexit, RefState
<1> QED BY <1>1, <1>2 DEF RefList

(* The lists of a script, one after another.                                  *)
LEMMA RefListsFacts ==
    ASSUME NEW s0 \in RefState, NEW prog \in Seq(AndOr), NEW L, L = RefLists(prog, s0)
    PROVE  /\ L[0] = s0
           /\ \A i \in 0..Len(prog) : L[i] \in RefState
           /\ \A i \in 1..Len(prog) :
                  L[i] = IF L[i - 1].exited THEN L[i - 1] ELSE RefList(L[i - 1], i, prog[i])
<1> DEFINE n == Len(prog)
           Step(s, i) == IF s.exited THEN s ELSE RefList(s, i, prog[i])
           g == [i \in 1..n |-> [s \in RefState |-> Step(s, i)]]
<1>1. n \in Nat OBVIOUS
<1>2. \A i \in 1..n, s \in RefState : Step(s, i) \in RefState
      BY RefListType
<1> HIDE DEF n, Step
<1>3. g \in [1..n -> [RefState -> RefState]] BY <1>2
<1>4. \A i \in 1..n, s \in RefState : g[i][s] = Step(s, i) OBVIOUS
<1> HIDE DEF g
<1>5. PICK f : f \in [0..n -> RefState] /\ f[0] = s0 /\ \A i \in 1..n : f[i] = g[i][f[i - 1]]
  <2>1. \E f : Iterates(f, n, RefState, s0, g) BY <1>1, <1>3, ByRecursion DEF Steps
  <2> QED BY <2>1 DEF Iterates
<1>6. f = [i \in 0..n |-> IF i = 0 THEN s0 ELSE Step(f[i - 1], i)]
  <2>1. \A i \in 1..n : f[i - 1] \in RefState /\ g[i][f[i - 1]] = Step(f[i - 1], i)
        BY <1>1, <1>4, <1>5
  <2>2. \A i \in 0..n : f[i] = IF i = 0 THEN s0 ELSE Step(f[i - 1], i)
        BY <1>1, <1>5, <2>1
  <2> QED BY <1>5, <2>2
<1>7. L = [i \in 0..n |-> IF i = 0 THEN s0 ELSE Step(L[i - 1], i)]
  <2>1. L = CHOOSE F : F = [i \in 0..n |-> IF i = 0 THEN s0 ELSE Step(F[i - 1], i)]
        BY DEF RefLists, n, Step
  <2> QED BY <1>6, <2>1
<1> DEFINE T == {i \in 0..n : L[i] \in RefState}
<1>8. L[0] = s0 /\ \A i \in 1..n : L[i] = Step(L[i - 1], i) BY <1>1, <1>7
<1>9. \A i \in 0..n : i \in T
  <2>1. 0 \in T BY <1>1, <1>8
  <2>2. \A i \in 1..n : i - 1 \in T => i \in T BY <1>2, <1>8
  <2> HIDE DEF T
  <2> QED BY <1>1, <2>1, <2>2, UpTo
<1> QED BY <1>8, <1>9 DEF n, Step

(* A shell that has exited stays so.                                          *)
LEMMA RefExited ==
    ASSUME NEW s0 \in RefState, NEW prog \in Seq(AndOr), NEW L, L = RefLists(prog, s0),
           NEW i \in 0..Len(prog), L[i].exited
    PROVE  L[Len(prog)] = L[i]
<1> DEFINE n == Len(prog)
           T == {j \in 0..n : j >= i => L[j] = L[i]}
<1>1. \A j \in 1..n : L[j] = IF L[j - 1].exited THEN L[j - 1] ELSE RefList(L[j - 1], j, prog[j])
      BY RefListsFacts
<1>2. n \in Nat OBVIOUS
<1> HIDE DEF n
<1>3. 0 \in T BY <1>2 DEF n
<1>4. ASSUME NEW j \in 1..n, j - 1 \in T PROVE j \in T
  <2>1. CASE j - 1 >= i BY <1>1, <1>4, <2>1
  <2>2. CASE ~(j - 1 >= i) BY <1>4, <2>2 DEF n
  <2> QED BY <2>1, <2>2
<1> HIDE DEF T
<1>5. \A j \in 1..n : j - 1 \in T => j \in T BY <1>4
<1>6. n \in T
  <2>1. \A j \in 0..n : j \in T BY <1>2, <1>3, <1>5, UpTo
  <2> QED BY <1>2, <2>1
<1> QED BY <1>6 DEF T, n
-----------------------------------------------------------------------------
(* What the operators on the machine do to the status, the errexit setting    *)
(* and the exit request, unless they meet a limit.                            *)

(* A limit that was met is not forgotten; only `trap ... EXIT` sets the trap. *)
Carries(s, t) == (Clean(t) => Clean(s)) /\ t.xtrap \in {s.xtrap, "echo"}

Same(s, t) == t.last = s.last /\ t.errexit = s.errexit /\ t.exit = s.exit

(* The effect of command c.                                                   *)
Does(s, t, c) ==
    /\ t.last = IF c = "exit" THEN 7 ELSE IF c \in {"false", "ext1"} THEN 1 ELSE 0
    /\ t.errexit = (s.errexit \/ c = "set_e")
    /\ t.exit = IF c = "exit" THEN 7 ELSE s.exit

(* Steps may be taken one after the other.                                    *)
LEMMA CarriesTrans ==
    ASSUME NEW r, NEW s, NEW t, Carries(r, s), Carries(s, t)
    PROVE  Carries(r, t)
BY DEF Carries

(* A budget step; a refused one is a limit met.                               *)
LEMMA BeginStepEffect ==
    ASSUME NEW s \in Machine, NEW lim \in Nat, NEW t, t = BeginStep(s, lim)
    PROVE  Carries(s, t) /\ Same(s, t) /\ (Clean(t) => CanStep(s, lim))
BY DEF Carries, Clean, Same, BeginStep, CanStep, Machine, Stop

(* check_resource_limits.                                                     *)
LEMMA CheckEffect ==
    ASSUME NEW s \in Machine, NEW lim \in Nat, NEW t, t = CheckResourceLimits(s, lim)
    PROVE  Carries(s, t) /\ Same(s, t)
<1> DEFINE b == BeginStep(s, lim)
           c == [b EXCEPT !.exhausted = TRUE, !.stop = b.bstop]
<1>1. b \in Machine /\ Carries(s, b) /\ Same(s, b)
      BY BeginStepEffect, BeginStepKeeps DEF Keeps
<1>2. Carries(s, s) /\ Same(s, s) BY DEF Carries, Same
<1>3. Carries(s, c) /\ Same(s, c)
  <2> HIDE DEF b
  <2>1. c.exhausted = TRUE /\ c.xtrap = b.xtrap /\ Same(b, c) BY <1>1 DEF Machine, Same
  <2> QED BY <1>1, <2>1 DEF Carries, Same, Clean
<1> QED BY <1>1, <1>2, <1>3 DEF CheckResourceLimits

(* Output.                                                                    *)
LEMMA OutputEffect ==
    ASSUME NEW s \in Machine, NEW t \in {RouterOutput(s), TrackedOutput(s)}
    PROVE  Carries(s, t) /\ Same(s, t)
<1>1. /\ RouterOutput(s).bstop = s.bstop /\ (s.exhausted => RouterOutput(s).exhausted)
      /\ RouterOutput(s).xtrap = s.xtrap /\ Same(s, RouterOutput(s))
      BY DEF RouterOutput, Machine, Same
<1>2. /\ TrackedOutput(s).bstop \in {s.bstop, "output"}
      /\ s.exhausted => TrackedOutput(s).exhausted
      /\ TrackedOutput(s).xtrap = s.xtrap /\ Same(s, TrackedOutput(s))
      BY DEF TrackedOutput, Machine, Same
<1> QED BY <1>1, <1>2 DEF Carries, Clean

(* Frames; a refused one is a limit met.                                      *)
LEMMA RecursionEffect ==
    ASSUME NEW s \in Machine
    PROVE  /\ Carries(s, EnterRecursion(s)) /\ Same(s, EnterRecursion(s))
           /\ Carries(s, ExitRecursion(s)) /\ Same(s, ExitRecursion(s))
           /\ Carries(s, MarkRecursion(s)) /\ ~Clean(MarkRecursion(s))
           /\ MarkRecursion(s).exit = s.exit
<1>1. ASSUME NEW t \in {EnterRecursion(s), ExitRecursion(s)}
      PROVE  t.exhausted = s.exhausted /\ t.bstop = s.bstop /\ t.xtrap = s.xtrap /\ Same(s, t)
      BY DEF EnterRecursion, ExitRecursion, Machine, Same
<1>2. LET t == MarkRecursion(s)
      IN  t.bstop = "recursion" /\ t.xtrap = s.xtrap /\ t.exit = s.exit
      BY DEF MarkRecursion, Machine
<1> QED BY <1>1, <1>2 DEF Carries, Clean

(* A status or an exit request that is set, and errexit.                      *)
LEMMA FieldEffect ==
    ASSUME NEW s \in Machine
    PROVE  /\ \A v : LET t == [s EXCEPT !.last = v]
                     IN  /\ Carries(s, t) /\ t.last = v
                         /\ t.errexit = s.errexit /\ t.exit = s.exit
           /\ \A v : LET t == [s EXCEPT !.exit = v] IN Carries(s, t)
           /\ Carries(s, Errexit(s)) /\ Carries(s, ExitCommand(s))
           /\ s.last = 0 => Errexit(s) = s
           /\ Errexit(s).errexit = s.errexit /\ ExitCommand(s).errexit = s.errexit
           /\ Does(s, ExitCommand(s), "exit")
           /\ Errexit(s).last = s.last /\ Errexit(s).exhausted = s.exhausted
           /\ Errexit(s).exit \in {s.exit, s.last}
<1>1. ASSUME NEW v
      PROVE  LET t == [s EXCEPT !.last = v]
             IN  /\ Carries(s, t) /\ t.last = v
                 /\ t.errexit = s.errexit /\ t.exit = s.exit
      BY DEF Carries, Clean, Machine
<1>2. ASSUME NEW v PROVE Carries(s, [s EXCEPT !.exit = v])
      BY DEF Carries, Clean, Machine
<1>3. /\ Carries(s, Errexit(s)) /\ (s.last = 0 => Errexit(s) = s)
      /\ Errexit(s).errexit = s.errexit
      /\ Errexit(s).last = s.last /\ Errexit(s).exhausted = s.exhausted
      /\ Errexit(s).exit \in {s.exit, s.last}
      BY DEF Carries, Clean, Machine, Errexit
<1>4. /\ Carries(s, ExitCommand(s)) /\ ExitCommand(s).errexit = s.errexit
      /\ ExitCommand(s).last = 7 /\ ExitCommand(s).exit = 7
      BY DEF Carries, Clean, Machine, ExitCommand
<1>5. (s.errexit \/ "exit" = "set_e") = s.errexit BY DEF Machine
<1>6. Does(s, ExitCommand(s), "exit") BY <1>4, <1>5 DEF Does
<1> QED BY <1>1, <1>2, <1>3, <1>4, <1>6

(* The builtins of the IR path.                                               *)
LEMMA QuietEffect ==
    ASSUME NEW s \in Machine, NEW c \in VmCommand \ {"echo"}
    PROVE  Carries(s, Quiet(s, c)) /\ Does(s, Quiet(s, c), c)
<1> DEFINE t == Quiet(s, c)
<1>1. t.exhausted = s.exhausted /\ t.bstop = s.bstop /\ t.exit = s.exit
      BY DEF Quiet, VmCommand, Machine
<1>2. t.xtrap \in {s.xtrap, "echo"} /\ t.last = IF c = "false" THEN 1 ELSE 0
      BY DEF Quiet, VmCommand, Machine
<1>3. t.errexit = (s.errexit \/ c = "set_e")
  <2>1. CASE c = "set_e"
    <3>1. t.errexit = TRUE BY <2>1 DEF Quiet, Machine
    <3> QED BY <2>1, <3>1
  <2>2. CASE c # "set_e"
    <3>1. t.errexit = s.errexit BY <2>2 DEF Quiet, VmCommand, Machine
    <3>2. s.errexit \in BOOLEAN BY DEF Machine
    <3> HIDE DEF t
    <3> QED BY <2>2, <3>1, <3>2
  <2> QED BY <2>1, <2>2
<1>4. c # "exit" /\ c # "ext1" BY DEF VmCommand
<1> HIDE DEF t
<1>5. Carries(s, t) /\ Does(s, t, c) BY <1>1, <1>2, <1>3, <1>4 DEF Carries, Clean, Does
<1> QED BY <1>5 DEF t

(* With `echo`.                                                               *)
LEMMA VmBuiltinEffect ==
    ASSUME NEW s \in Machine, NEW c \in VmCommand
    PROVE  Carries(s, VmBuiltin(s, c)) /\ Does(s, VmBuiltin(s, c), c)
<1>1. CASE c = "echo"
  <2> DEFINE r == RouterOutput(s)
             t == [r EXCEPT !.last = 0]
  <2>1. r \in Machine /\ Carries(s, r) /\ Same(s, r)
        BY RouterOutputKeeps, OutputEffect DEF Keeps
  <2> HIDE DEF r
  <2>2. Carries(r, t) /\ t.last = 0 /\ t.errexit = r.errexit /\ t.exit = r.exit
        BY <2>1, FieldEffect
  <2>3. Carries(s, t) BY <2>1, <2>2, CarriesTrans
  <2>4. (s.errexit \/ c = "set_e") = s.errexit BY <1>1 DEF Machine
  <2>5. Does(s, t, c) BY <1>1, <2>1, <2>2, <2>4 DEF Does, Same
  <2>6. VmBuiltin(s, c) = t BY <1>1 DEF VmBuiltin, r
  <2> QED BY <2>3, <2>5, <2>6
<1>2. CASE c # "echo" BY <1>2, QuietEffect DEF VmBuiltin
<1> QED BY <1>1, <1>2

(* A nested `echo` or `exit`.                                                 *)
LEMMA NestedEffect ==
    ASSUME NEW s \in Machine, NEW h, NEW lim \in Nat, NEW t, t = Nested(s, h, lim)
    PROVE  /\ Carries(s, t) /\ t.errexit = s.errexit
           /\ h = "echo" /\ Clean(t) /\ s.exit = NoExit => t.last = 0 /\ t.exit = NoExit
           /\ h = "echo" /\ s.exit = NoExit => t.exit \in {NoExit, s.last}
<1> DEFINE b == BeginStep(s, lim)
           v == VmBuiltin(b, "echo")
           w == BeginStep(v, lim)
           c == CheckResourceLimits(s, lim)
<1>1. CASE Stopped(s)
  <2>1. t = s BY <1>1 DEF Nested
  <2>2. Clean(s) => s.exit # NoExit BY <1>1 DEF Clean, Stopped
  <2> QED BY <2>1, <2>2 DEF Carries
<1>2. CASE ~Stopped(s) /\ h = "echo"
  <2>1. b \in Machine /\ Carries(s, b) /\ Same(s, b) /\ (Clean(b) => CanStep(s, lim))
        BY BeginStepKeeps, BeginStepEffect DEF Keeps
  <2> HIDE DEF b
  <2>2. v \in Machine /\ Carries(b, v) /\ Does(b, v, "echo")
        BY <2>1, VmBuiltinKeeps, VmBuiltinEffect DEF Keeps, VmCommand
  <2>3. v.last = 0 /\ v.errexit = b.errexit /\ v.exit = b.exit
    <3>1. (b.errexit \/ "echo" = "set_e") = b.errexit BY <2>1 DEF Machine
    <3> QED BY <2>2, <3>1 DEF Does
  <2> HIDE DEF v
  <2>4. w \in Machine /\ Carries(v, w) /\ Same(v, w)
        BY <2>2, BeginStepKeeps, BeginStepEffect DEF Keeps
  <2> HIDE DEF w
  <2>5. CASE CanStep(s, lim)
    <3>1. t = Errexit(w) BY <1>2, <2>5 DEF Nested, b, v, w
    <3>2. t = w BY <2>3, <2>4, <3>1, FieldEffect DEF Same
    <3>3. Carries(s, w) BY <2>1, <2>2, <2>4, CarriesTrans
    <3> QED BY <2>1, <2>3, <2>4, <3>2, <3>3 DEF Same
  <2>6. CASE ~CanStep(s, lim)
    <3>1. t = Errexit(b) BY <1>2, <2>6 DEF Nested, b
    <3>2. Carries(b, t) /\ t.errexit = b.errexit /\ t.exit \in {b.exit, b.last}
          BY <2>1, <3>1, FieldEffect
    <3>3. Carries(s, t) BY <2>1, <3>2, CarriesTrans
    <3>4. ~Clean(t) BY <2>1, <2>6, <3>2 DEF Carries
    <3> QED BY <2>1, <3>2, <3>3, <3>4 DEF Same
  <2> QED BY <2>5, <2>6
<1>3. CASE ~Stopped(s) /\ h # "echo"
  <2>1. c \in Machine /\ Carries(s, c) /\ Same(s, c)
        BY CheckKeeps, CheckEffect DEF Keeps
  <2>2. t \in {Errexit(c), ExitCommand(c)} BY <1>3 DEF Nested
  <2> HIDE DEF c
  <2>3. Carries(c, t) /\ t.errexit = c.errexit BY <2>1, <2>2, FieldEffect
  <2> QED BY <1>3, <2>1, <2>3, CarriesTrans DEF Same
<1> QED BY <1>1, <1>2, <1>3

(* A trap handler.                                                            *)
LEMMA InputInnerEffect ==
    ASSUME NEW s \in Machine, NEW h, NEW lim \in Nat, NEW t, t = ExecuteInputInner(s, h, lim)
    PROVE  /\ Carries(s, t)
           /\ Clean(t) => t.errexit = s.errexit
           /\ h = "echo" /\ s.exit = NoExit => t.exit \in {NoExit, s.last}
<1> DEFINE e == EnterRecursion(s)
           n == Nested(e, h, lim)
           x == ExitRecursion(n)
<1>1. CASE RecursionRefused(s)
  <2>1. t = MarkRecursion(s) BY <1>1 DEF ExecuteInputInner
  <2> QED BY <2>1, RecursionEffect
<1>2. CASE ~RecursionRefused(s)
  <2>1. t = x BY <1>2 DEF ExecuteInputInner
  <2>2. e \in Machine /\ Carries(s, e) /\ Same(s, e)
        BY RecursionKeeps, RecursionEffect DEF Keeps
  <2> HIDE DEF e
  <2>3. /\ n \in Machine /\ Carries(e, n) /\ n.errexit = e.errexit
        /\ h = "echo" /\ e.exit = NoExit => n.exit \in {NoExit, e.last}
        BY <2>2, NestedKeeps, NestedEffect DEF Keeps
  <2> HIDE DEF n
  <2>4. Carries(n, x) /\ Same(n, x) BY <2>3, RecursionEffect
  <2>5. Carries(s, x) BY <2>2, <2>3, <2>4, CarriesTrans
  <2> QED BY <2>1, <2>2, <2>3, <2>4, <2>5 DEF Same
<1> QED BY <1>1, <1>2

(* A function call.                                                           *)
LEMMA CallEffect ==
    ASSUME NEW s \in Machine, NEW lim \in Nat, NEW t, t = CallFunction(s, lim)
    PROVE  /\ Carries(s, t)
           /\ Clean(t) /\ s.exit = NoExit => Does(s, t, "call")
<1> DEFINE e == EnterRecursion(s)
           c == CheckResourceLimits(e, lim)
           n == Nested(c, "echo", lim)
           b == ExecuteBody(e, lim)
           r == MarkRecursion(s)
           x == ExitRecursion(b)
<1>1. CASE RecursionRefused(s)
  <2>1. t = TrackedOutput(r) BY <1>1 DEF CallFunction
  <2>2. r \in Machine /\ Carries(s, r) /\ ~Clean(r)
        BY RecursionKeeps, RecursionEffect DEF Keeps
  <2> HIDE DEF r
  <2>3. Carries(r, t) BY <2>1, <2>2, OutputEffect
  <2>4. ~Clean(t) BY <2>2, <2>3 DEF Carries
  <2> QED BY <2>2, <2>3, <2>4, CarriesTrans
<1>2. CASE ~RecursionRefused(s)
  <2>1. t = x BY <1>2 DEF CallFunction
  <2>2. e \in Machine /\ Carries(s, e) /\ Same(s, e)
        BY RecursionKeeps, RecursionEffect DEF Keeps
  <2> HIDE DEF e
  <2>3. c \in Machine /\ Carries(e, c) /\ Same(e, c)
        BY <2>2, CheckKeeps, CheckEffect DEF Keeps
  <2> HIDE DEF c
  <2>4. /\ n \in Machine /\ Carries(c, n) /\ n.errexit = c.errexit
        /\ Clean(n) /\ c.exit = NoExit => n.last = 0 /\ n.exit = NoExit
        BY <2>3, NestedKeeps, NestedEffect DEF Keeps
  <2> HIDE DEF n
  <2>5. /\ b \in Machine /\ Carries(e, b) /\ b.errexit = e.errexit
        /\ Clean(b) /\ e.exit = NoExit => b.last = 0 /\ b.exit = NoExit
    <3>1. CASE Stopped(e)
      <4>1. b = e BY <3>1 DEF ExecuteBody
      <4>2. Clean(e) => e.exit # NoExit BY <3>1 DEF Clean, Stopped
      <4> QED BY <2>2, <4>1, <4>2 DEF Carries
    <3>2. CASE ~Stopped(e)
      <4>1. b = n BY <3>2 DEF ExecuteBody, n, c
      <4>2. Carries(e, n) BY <2>3, <2>4, CarriesTrans
      <4> HIDE DEF b
      <4> QED BY <2>3, <2>4, <4>1, <4>2 DEF Same
    <3> QED BY <3>1, <3>2
  <2> HIDE DEF b
  <2>6. Carries(b, x) /\ Same(b, x) BY <2>5, RecursionEffect
  <2>7. Carries(s, x) BY <2>2, <2>5, <2>6, CarriesTrans
  <2>8. ASSUME Clean(x), s.exit = NoExit PROVE Does(s, x, "call")
    <3>1. Clean(b) /\ e.exit = NoExit BY <2>2, <2>6, <2>8 DEF Carries, Same
    <3>2. x.last = 0 /\ x.exit = s.exit /\ x.errexit = s.errexit
          BY <2>2, <2>5, <2>6, <2>8, <3>1 DEF Same
    <3>3. (s.errexit \/ "call" = "set_e") = s.errexit BY DEF Machine
    <3> HIDE DEF x
    <3> QED BY <3>2, <3>3 DEF Does
  <2> QED BY <2>1, <2>7, <2>8
<1> QED BY <1>1, <1>2

(* A runaway recursion always meets a limit.                                  *)
LEMMA RunawayEffect ==
    ASSUME NEW s \in Machine, NEW lim \in Nat, NEW t, t = RunawayRecursion(s, lim)
    PROVE  Carries(s, t) /\ (s.exit = NoExit => ~Clean(t))
<1> DEFINE frames == IF s.depth < RecursionLimit THEN RecursionLimit - s.depth ELSE 0
           cost   == 2 * frames
           a == [s EXCEPT !.steps = @ + cost]
           k == MarkRecursion(a)
           r == TrackedOutput(k)
           o == OutOfSteps(s, lim)
<1>1. cost \in Nat
      BY ConstantsAssumption DEF ConstantsAssumption, Machine
<1>2. a \in Machine /\ Carries(s, a)
  <2> HIDE DEF cost
  <2> QED BY <1>1 DEF Machine, Carries, Clean
<1>3. k \in Machine /\ Carries(a, k) /\ ~Clean(k)
      BY <1>2, RecursionKeeps, RecursionEffect DEF Keeps
<1>4. r \in Machine /\ Carries(k, r)
      BY <1>3, TrackedOutputKeeps, OutputEffect DEF Keeps
<1>5. Carries(s, r) /\ ~Clean(r)
  <2> HIDE DEF a, k, r
  <2>1. Carries(s, r) BY <1>2, <1>3, <1>4, CarriesTrans
  <2>2. ~Clean(r) BY <1>3, <1>4 DEF Carries
  <2> QED BY <2>1, <2>2
<1>6. o \in Machine /\ Carries(s, o) /\ ~Clean(o)
  <2>1. o.exhausted = TRUE /\ o.xtrap = s.xtrap BY DEF OutOfSteps, Machine
  <2> QED BY <2>1, OutOfStepsKeeps DEF Carries, Clean, Keeps
<1> HIDE DEF r, o
<1>7. ASSUME NEW e \in {r, o}
      PROVE  Carries(s, Errexit(e)) /\ ~Clean(Errexit(e))
  <2>1. e \in Machine /\ Carries(s, e) /\ ~Clean(e) BY <1>4, <1>5, <1>6
  <2>2. Carries(e, Errexit(e)) BY <2>1, FieldEffect
  <2>3. ~Clean(Errexit(e)) BY <2>1, <2>2 DEF Carries
  <2> QED BY <2>1, <2>2, <2>3, CarriesTrans
<1>8. Carries(s, s) /\ (Stopped(s) /\ s.exit = NoExit => ~Clean(s))
      BY DEF Carries, Clean, Stopped
<1>9. t \in {r, Errexit(r), o, Errexit(o)} \/ (t = s /\ Stopped(s))
      BY DEF RunawayRecursion, r, o
<1> QED BY <1>5, <1>6, <1>7, <1>8, <1>9

(* One pipeline outside the IR subset.                                        *)
LEMMA ChainBuiltinEffect ==
    ASSUME NEW s \in Machine, NEW c \in Command, NEW x, NEW lim \in Nat,
           NEW t, t = ChainBuiltin(s, c, x, lim)
    PROVE  /\ Carries(s, t)
           /\ Clean(t) /\ s.exit = NoExit /\ ~(c \in External /\ x) => Does(s, t, c)
<1> DEFINE k == CheckResourceLimits(s, lim)
           p == TrackedOutput(s)
           f == [s EXCEPT !.last = 1]
<1>1. CASE c = "echo"
  <2>1. p \in Machine /\ Carries(s, p) /\ Same(s, p)
        BY TrackedOutputKeeps, OutputEffect DEF Keeps
  <2>2. t = IF p.exhausted THEN p ELSE [p EXCEPT !.last = 0] BY <1>1 DEF ChainBuiltin
  <2> HIDE DEF p
  <2>3. LET l == [p EXCEPT !.last = 0]
        IN  Carries(p, l) /\ l.last = 0 /\ l.errexit = p.errexit /\ l.exit = p.exit
        BY <2>1, FieldEffect
  <2>4. (s.errexit \/ c = "set_e") = s.errexit BY <1>1 DEF Machine
  <2>5. CASE p.exhausted BY <2>1, <2>2, <2>5 DEF Clean
  <2>6. CASE ~p.exhausted
    <3>1. Carries(s, t) BY <2>1, <2>2, <2>3, <2>6, CarriesTrans
    <3>2. Does(s, t, c) BY <1>1, <2>1, <2>2, <2>3, <2>4, <2>6 DEF Does, Same
    <3> QED BY <3>1, <3>2
  <2> QED BY <2>5, <2>6
<1>2. CASE c # "echo" /\ c \in External /\ x
  <2>1. f \in Machine /\ Carries(s, f) BY SetField, FieldEffect DEF Keeps
  <2>2. t = TrackedOutput(f) BY <1>2 DEF ChainBuiltin
  <2> HIDE DEF f
  <2>3. Carries(f, t) BY <2>1, <2>2, OutputEffect
  <2> QED BY <1>2, <2>1, <2>3, CarriesTrans
<1>3. CASE c # "echo" /\ ~(c \in External /\ x)
  <2>1. k \in Machine /\ Carries(s, k) /\ Same(s, k)
        BY CheckKeeps, CheckEffect DEF Keeps
  <2>2. CASE c = "loop"
    <3> DEFINE o == IF Stopped(k) THEN k ELSE OutOfSteps(k, lim)
    <3>1. t = [o EXCEPT !.last = 0] BY <1>3, <2>2 DEF ChainBuiltin, EndlessLoop
    <3> HIDE DEF k
    <3>2. OutOfSteps(k, lim).exhausted = TRUE /\ OutOfSteps(k, lim).xtrap = k.xtrap
          BY <2>1 DEF OutOfSteps, Machine
    <3>3. /\ o \in Machine /\ Carries(k, o)
          /\ k.exit = NoExit => ~Clean(o)
          BY <2>1, <3>2, OutOfStepsKeeps DEF Carries, Clean, Stopped, Keeps
    <3> HIDE DEF o
    <3>4. Carries(o, t) BY <3>1, <3>3, FieldEffect
    <3>5. Carries(s, t) BY <2>1, <3>3, <3>4, CarriesTrans
    <3>6. s.exit = NoExit => ~Clean(t) BY <2>1, <3>3, <3>4 DEF Carries, Same
    <3> QED BY <3>5, <3>6
  <2>3. CASE c # "loop" /\ k.exhausted
    <3>1. t = k BY <1>3, <2>3 DEF ChainBuiltin
    <3> QED BY <2>1, <2>3, <3>1 DEF Clean
  <2>4. CASE c # "loop" /\ ~k.exhausted
    <3>1. ASSUME Does(k, t, c) PROVE Does(s, t, c)
          BY <2>1, <3>1 DEF Does, Same
    <3>2. ASSUME Carries(k, t), Clean(t) /\ k.exit = NoExit => Does(k, t, c)
          PROVE  /\ Carries(s, t)
                 /\ Clean(t) /\ s.exit = NoExit => Does(s, t, c)
      <4>1. Carries(s, t) BY <2>1, <3>2, CarriesTrans
      <4>2. Clean(t) /\ s.exit = NoExit => Does(s, t, c) BY <2>1, <3>1, <3>2 DEF Same
      <4> QED BY <4>1, <4>2
    <3>3. CASE c \in VmCommand
      <4>1. t = Quiet(k, c) BY <1>3, <2>4, <3>3 DEF ChainBuiltin, VmCommand
      <4> HIDE DEF k
      <4>2. Carries(k, t) /\ Does(k, t, c) BY <1>3, <2>1, <3>3, <4>1, QuietEffect
      <4> QED BY <3>2, <4>2
    <3>4. CASE c = "exit"
      <4>1. t = ExitCommand(k) BY <1>3, <2>4, <3>4 DEF ChainBuiltin, VmCommand
      <4> HIDE DEF k
      <4>2. Carries(k, t) /\ Does(k, t, c) BY <2>1, <3>4, <4>1, FieldEffect
      <4> QED BY <3>2, <4>2
    <3>5. CASE c = "call"
      <4>1. t = CallFunction(k, lim) BY <1>3, <2>4, <3>5 DEF ChainBuiltin, VmCommand
      <4> HIDE DEF k
      <4>2. Carries(k, t) /\ (Clean(t) /\ k.exit = NoExit => Does(k, t, c))
            BY <2>1, <3>5, <4>1, CallEffect
      <4> QED BY <3>2, <4>2
    <3>6. CASE c = "recurse"
      <4>1. t = RunawayRecursion(k, lim) BY <1>3, <2>4, <3>6 DEF ChainBuiltin, VmCommand
      <4> HIDE DEF k
      <4>2. Carries(k, t) /\ (k.exit = NoExit => ~Clean(t))
            BY <2>1, <4>1, RunawayEffect
      <4> QED BY <3>2, <4>2
    <3>7. CASE c \in {"ext0", "ext1"}
      <4> DEFINE w == TrackedOutput(k)
                 v == IF c = "ext0" THEN 0 ELSE 1
      <4>1. t = [w EXCEPT !.last = v] BY <1>3, <2>4, <3>7 DEF ChainBuiltin, VmCommand
      <4> HIDE DEF k
      <4>2. w \in Machine /\ Carries(k, w) /\ Same(k, w)
            BY <2>1, TrackedOutputKeeps, OutputEffect DEF Keeps
      <4> HIDE DEF w, v
      <4>3. Carries(w, t) /\ t.last = v /\ t.errexit = w.errexit /\ t.exit = w.exit
            BY <4>1, <4>2, FieldEffect
      <4>4. Carries(k, t) BY <4>2, <4>3, CarriesTrans
      <4>5. (k.errexit \/ c = "set_e") = k.errexit BY <2>1, <3>7 DEF Machine
      <4>6. Does(k, t, c) BY <3>7, <4>2, <4>3, <4>5 DEF Does, Same, v
      <4> QED BY <3>2, <4>4, <4>6
    <3>8. c \in VmCommand \cup {"exit", "call", "recurse", "ext0", "ext1"}
          BY <2>4 DEF Command, ChainCommand
    <3> QED BY <3>3, <3>4, <3>5, <3>6, <3>7, <3>8
  <2> QED BY <2>2, <2>3, <2>4
<1> QED BY <1>1, <1>2, <1>3

(* A signal the script survives leaves nothing behind.                        *)
LEMMA DeliverEffect ==
    ASSUME NEW s \in Machine, NEW sig \in Signals, NEW lim \in Nat,
           NEW t, t = DeliverSignal(s, sig, lim)
    PROVE  /\ Carries(s, t)
           /\ Clean(t) /\ s.exit = NoExit /\ ~Stopped(t) => Same(s, t)
<1> DEFINE n == 128 + SignalSpec[sig].number
           a == [s EXCEPT !.last = n]
           i == ExecuteInputInner(a, HandlerOf(s, sig), lim)
<1>1. n \in Nat
      BY ConstantsAssumption DEF ConstantsAssumption, SignalSpec
<1> HIDE DEF n
<1>2. CASE Trapped(s, sig)
  <2>1. t = IF ~i.exhausted /\ i.exit = s.exit THEN [i EXCEPT !.last = s.last] ELSE i
        BY <1>2 DEF DeliverSignal, RunSignalTrap, n
  <2>2. a \in Machine /\ Carries(s, a) /\ a.errexit = s.errexit
        BY <1>1, SetField, FieldEffect DEF Keeps
  <2> HIDE DEF a
  <2>3. i \in Machine /\ Carries(a, i) /\ (Clean(i) => i.errexit = a.errexit)
        BY <2>2, InputInnerKeeps, InputInnerEffect DEF Keeps
  <2> HIDE DEF i
  <2>4. Carries(s, i) BY <2>2, <2>3, CarriesTrans
  <2>5. LET l == [i EXCEPT !.last = s.last]
        IN  Carries(i, l) /\ l.last = s.last /\ l.errexit = i.errexit /\ l.exit = i.exit
        BY <2>3, FieldEffect
  <2>6. Carries(i, t) BY <2>1, <2>5 DEF Carries
  <2>7. Carries(s, t) BY <2>4, <2>6, CarriesTrans
  <2>8. ASSUME Clean(t), s.exit = NoExit, ~Stopped(t) PROVE Same(s, t)
    <3>1. Clean(i) BY <2>6, <2>8 DEF Carries
    <3>2. i.exit = NoExit BY <2>1, <2>5, <2>8 DEF Stopped
    <3> QED BY <2>1, <2>2, <2>3, <2>5, <2>8, <3>1, <3>2 DEF Same, Clean
  <2> QED BY <2>7, <2>8
<1>3. CASE ~Trapped(s, sig) /\ Terminates(s, sig)
  <2>1. t = [s EXCEPT !.exit = n] BY <1>3 DEF DeliverSignal, n
  <2>2. t.exit = n BY <2>1 DEF Machine
  <2>3. Stopped(t) BY <1>1, <2>2 DEF Stopped, NoExit
  <2> QED BY <2>1, <2>3, FieldEffect
<1>4. CASE ~Trapped(s, sig) /\ ~Terminates(s, sig)
  <2>1. t = s BY <1>4 DEF DeliverSignal
  <2> QED BY <2>1 DEF Carries, Same
<1> QED BY <1>2, <1>3, <1>4

(* The EXIT trap does not change the status a run ends with.                  *)
LEMMA ExitTrapEffect ==
    ASSUME NEW s \in Machine, s.xtrap \in {"none", "echo"}, NEW normally, NEW lim \in Nat,
           NEW x, x = RunExitTrap(s, normally, lim)
    PROVE  /\ Carries(s, x)
           /\ ~x.exhausted =>
                  CurrentRunExitStatus(x) = IF s.exit # NoExit THEN s.exit ELSE s.last
<1> DEFINE was == IF s.exit # NoExit THEN s.exit ELSE s.last
           b   == [s EXCEPT !.exit = NoExit, !.last = was]
           t   == ExecuteInputInner(b, s.xtrap, lim)
           now == IF t.exit # NoExit THEN t.exit ELSE was
           d   == [t EXCEPT !.exit = now, !.last = now]
<1>1. CASE s.xtrap = "none" \/ (normally /\ s.xstart = s.xtrap)
  <2>1. x = s BY <1>1 DEF RunExitTrap
  <2> QED BY <2>1 DEF Carries, CurrentRunExitStatus
<1>2. CASE s.xtrap = "echo" /\ ~(normally /\ s.xstart = s.xtrap)
  <2>1. was \in Nat BY DEF Machine, NoExit
  <2>2. x = d BY <1>2 DEF RunExitTrap
  <2> HIDE DEF was
  <2>3. b \in Machine /\ Carries(s, b) /\ b.exit = NoExit /\ b.last = was
    <3> DEFINE a == [s EXCEPT !.exit = NoExit]
               c == [a EXCEPT !.last = was]
    <3>1. a \in Machine BY SetField DEF Keeps
    <3>2. c \in Machine BY <2>1, <3>1, SetField DEF Keeps
    <3>3. b = c BY DEF Machine
    <3>4. b.exhausted = s.exhausted /\ b.bstop = s.bstop /\ b.xtrap = s.xtrap
          BY DEF Machine
    <3>5. b.exit = NoExit /\ b.last = was BY DEF Machine
    <3> QED BY <3>2, <3>3, <3>4, <3>5 DEF Carries, Clean
  <2> HIDE DEF b
  <2>4. t \in Machine /\ Carries(b, t) /\ t.exit \in {NoExit, was}
        BY <1>2, <2>3, InputInnerKeeps, InputInnerEffect DEF Keeps
  <2> HIDE DEF t
  <2>5. now = was BY <2>4
  <2> HIDE DEF now
  <2>6. d.exit = was /\ d.last = was /\ Carries(t, d)
    <3>1. d.exit = now /\ d.last = now BY <2>4 DEF Machine
    <3>2. d.exhausted = t.exhausted /\ d.bstop = t.bstop /\ d.xtrap = t.xtrap
          BY <2>4 DEF Machine
    <3> QED BY <2>5, <3>1, <3>2 DEF Carries, Clean
  <2> HIDE DEF d
  <2>7. Carries(s, d) BY <2>3, <2>4, <2>6, CarriesTrans
  <2> QED BY <2>1, <2>2, <2>6, <2>7 DEF CurrentRunExitStatus, was, NoExit
<1> QED BY <1>1, <1>2

-----------------------------------------------------------------------------
(* Machine and reference.                                                     *)

(* The script is a sequence of lists, and the reference defined at each.      *)
LEMMA RefAtFacts ==
    ASSUME IInv
    PROVE  /\ run.prog \in Seq(AndOr)
           /\ RefAt(0) = RefStart(start)
           /\ \A i \in 0..Len(run.prog) : RefAt(i) \in RefState
           /\ \A i \in 1..Len(run.prog) :
                  RefAt(i) = IF RefAt(i - 1).exited THEN RefAt(i - 1)
                             ELSE RefList(RefAt(i - 1), i, run.prog[i])
           /\ \A i \in 0..Len(run.prog) :
                  RefAt(i).exited => RefAt(i) = RefRun(run.prog, start)
<1>1. run.prog \in Seq(AndOr)
  <2>1. run.prog \in Programs \cup {<<>>} BY DEF IInv, TypeOK
  <2>2. Programs \subseteq Seq(AndOr) BY ConstantsAssumption DEF ConstantsAssumption
  <2>3. <<>> \in Seq(AndOr) OBVIOUS
  <2> QED BY <2>1, <2>2, <2>3, Zenon
<1>2. RefStart(start) \in RefState BY DEF IInv, TypeOK, Machine, RefStart, RefState
<1> DEFINE prog == run.prog
           s0 == RefStart(start)
           L == RefLists(prog, s0)
<1>3. \A i : RefAt(i) = L[i] BY DEF RefAt
<1>4. RefRun(run.prog, start) = L[Len(prog)] BY DEF RefRun
<1> HIDE DEF prog, s0
<1>5. prog \in Seq(AndOr) /\ s0 \in RefState BY <1>1, <1>2 DEF prog, s0
<1>6. /\ L[0] = s0
      /\ \A i \in 0..Len(prog) : L[i] \in RefState
      /\ \A i \in 1..Len(prog) :
             L[i] = IF L[i - 1].exited THEN L[i - 1] ELSE RefList(L[i - 1], i, prog[i])
      BY <1>5, RefListsFacts
<1>7. \A i \in 0..Len(prog) : L[i].exited => L[Len(prog)] = L[i]
      BY <1>5, RefExited
<1> HIDE DEF L
<1> QED BY <1>1, <1>3, <1>4, <1>6, <1>7 DEF prog, s0

(* The reference within the list that is executed.                            *)
LEMMA PartFacts ==
    ASSUME IInv, ~Done
    PROVE  /\ idx - 1 \in 0..Len(run.prog) /\ idx \in 1..Len(run.prog)
           /\ RefAt(idx - 1) \in RefState /\ Part(0) = RefAt(idx - 1)
           /\ \A k \in 0..Pipelines : Part(k) \in RefState
           /\ \A k \in 1..Pipelines :
                  Part(k) = IF Applies(Part(k - 1), Item, k)
                            THEN RefCommand(Part(k - 1), PipelineAt(k), <<idx, k>>)
                            ELSE Part(k - 1)
           /\ RefList(RefAt(idx - 1), idx, Item) = RefErrexit(Part(Pipelines), Item)
           /\ Size(Item) = Pipelines
<1>1. idx \in Nat \ {0} /\ idx <= Len(run.prog) /\ run.prog \in Seq(AndOr)
      BY RefAtFacts DEF IInv, TypeOK, Done
<1>2. idx - 1 \in 0..Len(run.prog) /\ idx \in 1..Len(run.prog) BY <1>1
<1>3. RefAt(idx - 1) \in RefState BY <1>2, RefAtFacts
<1>4. Item \in AndOr BY ItemType DEF IInv
<1>5. Size(Item) = Pipelines /\ \A k : CommandAt(Item, k) = PipelineAt(k)
      BY DEF Size, Pipelines, CommandAt, PipelineAt
<1> DEFINE P == RefPipelines(RefAt(idx - 1), idx, Item)
<1>6. \A k : Part(k) = P[k] BY DEF Part
<1>7. RefList(RefAt(idx - 1), idx, Item) = RefErrexit(P[Size(Item)], Item) BY DEF RefList
<1>8. /\ P[0] = RefAt(idx - 1)
      /\ \A k \in 0..Size(Item) : P[k] \in RefState
      /\ \A k \in 1..Size(Item) :
             P[k] = IF Applies(P[k - 1], Item, k)
                    THEN RefCommand(P[k - 1], CommandAt(Item, k), <<idx, k>>) ELSE P[k - 1]
      BY <1>1, <1>3, <1>4, RefPipelinesFacts
<1> HIDE DEF P
<1> QED BY <1>2, <1>3, <1>5, <1>6, <1>7, <1>8

(* A machine that has not exited agrees with a reference that has not.        *)
LEMMA AgreeFacts ==
    ASSUME NEW s, NEW r \in RefState, Agree(s, r)
    PROVE  /\ r.exited <=> s.exit # NoExit
           /\ \A t : Same(s, t) => Agree(t, r)
           /\ \A t, c, at : Does(s, t, c) /\ s.exit = NoExit => Agree(t, RefCommand(r, c, at))
<1>1. r.exited <=> s.exit # NoExit BY DEF Agree, RefState, NoExit
<1>2. \A t : Same(s, t) => Agree(t, r) BY DEF Same, Agree
<1>3. ASSUME NEW t, NEW c, NEW at, Does(s, t, c), s.exit = NoExit
      PROVE  Agree(t, RefCommand(r, c, at))
      BY <1>3 DEF Does, Agree, RefCommand, RefState
<1> QED BY <1>1, <1>2, <1>3

(* Both take the same pipelines.                                              *)
LEMMA TakenApplies ==
    ASSUME NEW r, Agree(m, r), ~r.exited, NEW k
    PROVE  Taken(k) <=> Applies(r, Item, k)
BY DEF Taken, Applies, Agree

(* Where a step leaves the script and its start alone, the reference stays.   *)
LEMMA RefKept ==
    ASSUME run' = run, start' = start
    PROVE  /\ \A i : RefAt(i)' = RefAt(i)
           /\ idx' = idx => \A k : Part(k)' = Part(k)
           /\ idx' = idx => Item' = Item /\ Pipelines' = Pipelines /\ Done' = Done
                            /\ Streams' = Streams
BY DEF RefAt, Part, Item, Pipelines, Done, Streams

(* A step between two lists that changes nothing the reference sees.          *)
LEMMA BetweenStep ==
    ASSUME IInv, idx <= Len(run.prog) + 1, AtList, Same(m, m'),
           UNCHANGED <<run, idx, start, ran, stream>>,
           phase' \in {"idle", "begin", "signals", "steps", "end"},
           phase' \in {"idle", "begin", "signals"} \/ stream' = "running" => m.exit = NoExit
    PROVE  InStep'
<1>1. \A i : RefAt(i)' = RefAt(i) BY RefKept
<1>2. idx - 1 \in 0..Len(run.prog) BY RefAtFacts DEF IInv, TypeOK
<1>3. RefAt(idx - 1) \in RefState BY <1>2, RefAtFacts
<1>4. Agree(m', RefAt(idx - 1)) BY <1>3, AgreeFacts DEF AtList
<1>5. AtList' BY <1>1, <1>4 DEF AtList
<1>6. m'.exit = m.exit BY DEF Same
<1> QED BY <1>5, <1>6 DEF InStep

-----------------------------------------------------------------------------
(* Every step of a poll carries the limits on.                                *)

(* One IR instruction, of a command or a jump.                                *)
LEMMA VmStepEffect ==
    ASSUME IInv, VmStep
    PROVE  /\ Carries(m, m')
           /\ Clean(m') => CanStep(m, PollLimit)
           /\ CanStep(m, PollLimit) /\ pc % 2 = 0 => Does(m, m', PipelineAt((pc \div 2) + 1))
           /\ CanStep(m, PollLimit) /\ pc % 2 # 0 => Same(m, m')
           /\ pc \in Nat /\ (pc \div 2) + 1 \in 1..Pipelines
<1> DEFINE k == (pc \div 2) + 1
           b == BeginStep(m, PollLimit)
           v == VmBuiltin(b, PipelineAt(k))
<1>1. /\ ~Done /\ pc \in Nat /\ pc < 2 * Pipelines /\ m \in Machine /\ PollLimit \in Nat
      BY LimitType DEF VmStep, IInv, PhaseInv, TypeOK
<1>2. Pipelines \in Nat \ {0} BY <1>1, ItemType DEF IInv
<1>3. k \in 1..Pipelines BY <1>1, <1>2
<1>4. PipelineAt(k) \in VmCommand BY <1>3 DEF VmStep, IInv, PhaseInv, InVmSubset
<1>5. /\ b \in Machine /\ Carries(m, b) /\ Same(m, b)
      /\ Clean(b) => CanStep(m, PollLimit)
      BY <1>1, BeginStepKeeps, BeginStepEffect DEF Keeps
<1>6. /\ ~CanStep(m, PollLimit) => m' = b
      /\ CanStep(m, PollLimit) /\ pc % 2 = 0 => m' = v
      /\ CanStep(m, PollLimit) /\ pc % 2 # 0 => m' = b
      BY DEF VmStep
<1> HIDE DEF b, k
<1>7. Carries(b, v) /\ Does(b, v, PipelineAt(k)) BY <1>4, <1>5, VmBuiltinEffect
<1>8. Carries(m, v) BY <1>5, <1>7, CarriesTrans
<1>9. Does(m, v, PipelineAt(k)) BY <1>5, <1>7 DEF Does, Same
<1> HIDE DEF v
<1>10. Carries(m, m') BY <1>5, <1>6, <1>8
<1>11. Clean(m') => CanStep(m, PollLimit) BY <1>5, <1>6
<1> QED BY <1>1, <1>3, <1>5, <1>6, <1>9, <1>10, <1>11 DEF k

(* Output of the streaming pipeline.                                          *)
LEMMA StreamEffect ==
    ASSUME NEW s \in Machine, NEW n, NEW t, t = StreamWrites(s, n)
    PROVE  t \in Machine /\ Carries(s, t) /\ Same(s, t)
<1>1. Keeps(s, TrackedOutput(s)) BY TrackedOutputKeeps
<1>2. Carries(s, TrackedOutput(s)) /\ Same(s, TrackedOutput(s)) BY OutputEffect
<1>3. Carries(s, s) /\ Same(s, s) BY DEF Carries, Same
<1> QED BY <1>1, <1>2, <1>3 DEF StreamWrites, Keeps

(* All of them.                                                               *)
LEMMA PollCarries ==
    ASSUME IInv, Place, Poll
    PROVE  Carries(m, m')
<1>1. m \in Machine /\ PollLimit \in Nat /\ StepBudget \in Nat BY LimitType DEF IInv, TypeOK
<1>2. CASE PollRun
  <2>1. m'.exhausted = m.exhausted /\ m'.bstop = m.bstop /\ m'.xtrap = m.xtrap
        BY <1>1, <1>2 DEF PollRun, Machine
  <2> QED BY <2>1 DEF Carries, Clean
<1>3. CASE DrainSignal
  <2>1. Head(sigs) \in Signals BY <1>3 DEF DrainSignal, IInv, TypeOK
  <2> QED BY <1>1, <1>3, <2>1, DeliverEffect DEF DrainSignal
<1>4. CASE SignalsDrained \/ StartStream \/ StartVm \/ StartChain \/ RunYields
  <2>1. m' = m BY <1>4 DEF SignalsDrained, StartStream, StartVm, StartChain, RunYields
  <2> QED BY <2>1 DEF Carries
<1>5. CASE LoopExit
  <2>1. m' = m \/ (m'.exhausted /\ m'.xtrap = m.xtrap) BY <1>1, <1>5 DEF LoopExit, Machine
  <2> QED BY <2>1 DEF Carries, Clean
<1>6. CASE StreamWaits \/ StreamEnds
  <2>1. PICK n \in 0..1 :
            m' = StreamWrites(m, n) \/ \E v : m' = [StreamWrites(m, n) EXCEPT !.last = v]
        BY <1>6 DEF StreamWaits, StreamEnds
  <2> DEFINE w == StreamWrites(m, n)
  <2>2. w \in Machine /\ Carries(m, w) BY <1>1, StreamEffect
  <2> HIDE DEF w
  <2>3. \A v : Carries(w, [w EXCEPT !.last = v]) BY <2>2, FieldEffect
  <2>4. \A v : Carries(m, [w EXCEPT !.last = v]) BY <2>2, <2>3, CarriesTrans
  <2> QED BY <2>1, <2>2, <2>4 DEF w
<1>7. CASE StreamDeadline
  <2> DEFINE w == TrackedOutput(m)
  <2>1. w \in Machine /\ Carries(m, w) BY <1>1, TrackedOutputKeeps, OutputEffect DEF Keeps
  <2>2. m' \in {w, [w EXCEPT !.last = 124]} BY <1>7 DEF StreamDeadline
  <2> HIDE DEF w
  <2>3. Carries(w, [w EXCEPT !.last = 124]) BY <2>1, FieldEffect
  <2> QED BY <2>1, <2>2, <2>3, CarriesTrans
<1>8. CASE VmStep BY <1>8, VmStepEffect
<1>9. CASE ChainStep
  <2>1. ~Done /\ pc \in 1..Pipelines BY <1>9 DEF ChainStep, IInv, PhaseInv
  <2>2. PipelineAt(pc) \in Command BY <2>1, ItemType DEF IInv
  <2>3. Carries(m, ChainBuiltin(m, PipelineAt(pc), ~run.drain, PollLimit))
        BY <1>1, <2>2, ChainBuiltinEffect
  <2> QED BY <1>9, <2>3 DEF ChainStep, Carries
<1>10. CASE PostAndOr
  <2>1. Carries(m, m) /\ Carries(m, Errexit(m)) BY <1>1, FieldEffect DEF Carries
  <2> QED BY <1>10, <2>1 DEF PostAndOr
<1>11. CASE RunEnds
  <2> DEFINE s == EnsureStopReason(m)
             x == RunExitTrap(s, ~Stopped(s), StepBudget)
  <2>1. s \in Machine BY <1>1, StopKeeps DEF Keeps
  <2>2. s.exhausted = m.exhausted /\ s.bstop = m.bstop /\ s.xtrap = m.xtrap
        BY <1>1 DEF EnsureStopReason, Machine
  <2>3. Carries(m, s) BY <2>2 DEF Carries, Clean
  <2> HIDE DEF s
  <2>4. Carries(s, x) BY <1>1, <2>1, <2>2, ExitTrapEffect DEF Place
  <2>5. m' = x BY <1>11 DEF RunEnds, s
  <2> QED BY <2>3, <2>4, <2>5, CarriesTrans
<1> QED BY <1>2, <1>3, <1>4, <1>5, <1>6, <1>7, <1>8, <1>9, <1>10, <1>11 DEF Poll

(* The EXIT trap as the host's commands leave it.                             *)
LEMMA HostTrap ==
    ASSUME IInv, m.xtrap \in {"none", "echo"}, Host
    PROVE  m'.xtrap \in {"none", "echo"}
<1>1. m \in Machine /\ StepBudget \in Nat BY LimitType DEF IInv, TypeOK
<1>2. CASE HostInit BY <1>1, <1>2 DEF HostInit, FreshMachine
<1>3. CASE ParseError BY <1>1, <1>3 DEF ParseError, Machine
<1>4. CASE Cancel BY <1>1, <1>4 DEF Cancel, Machine
<1>5. ASSUME NEW p \in Programs, NEW drain \in BOOLEAN, StartRun(p, drain)
      PROVE  m'.xtrap = m.xtrap
  <2> DEFINE r == ExecReset(m)
  <2>1. r.xtrap = m.xtrap BY <1>1 DEF ExecReset, Machine
  <2>2. r \in Machine BY <1>1, StopKeeps DEF Keeps
  <2> HIDE DEF r
  <2>3. Started(m).xtrap = r.xtrap BY <2>2 DEF Started, Machine, r
  <2> QED BY <1>5, <2>1, <2>3 DEF StartRun
<1>6. ASSUME NEW sig \in Signals, SignalActive(sig)
      PROVE  m' = m
      BY <1>6 DEF SignalActive
<1>7. ASSUME NEW sig \in Signals, SignalIdle(sig)
      PROVE  m'.xtrap \in {"none", "echo"}
  <2> DEFINE s == DeliverSignal(m, sig, StepBudget)
             x == RunExitTrap(s, FALSE, StepBudget)
  <2>1. s \in Machine /\ s.xtrap \in {m.xtrap, "echo"}
        BY <1>1, DeliverKeeps, DeliverEffect DEF Keeps, Carries
  <2>2. m' \in {s, ExecReset(x)} BY <1>7 DEF SignalIdle
  <2> HIDE DEF s
  <2>3. x \in Machine /\ x.xtrap \in {s.xtrap, "echo"}
        BY <1>1, <1>7, <2>1, ExitTrapKeeps, ExitTrapEffect DEF Keeps, Carries
  <2> HIDE DEF x
  <2>4. ExecReset(x).xtrap = x.xtrap BY <2>3 DEF ExecReset, Machine
  <2> QED BY <1>7, <2>1, <2>2, <2>3, <2>4
<1> QED BY <1>2, <1>3, <1>4, <1>5, <1>6, <1>7 DEF Host

-----------------------------------------------------------------------------
(* Every step keeps machine and reference together.                           *)

(* The script of a run is one the host may submit.                            *)
LEMMA ScriptStraight ==
    ASSUME IInv, ~Done, AllStraight
    PROVE  /\ PipelineAt(1) = Item.first
           /\ \A k \in 1..Pipelines :
                  /\ PipelineAt(k) \in External => Pipelines = 1
                  /\ PipelineAt(k) = "exit" => k = Pipelines
<1>1. run.prog \in Programs \cup {<<>>} /\ idx \in 1..Len(run.prog)
      BY PartFacts DEF IInv, TypeOK
<1>2. run.prog # <<>> BY <1>1
<1>3. Straight(Item) BY <1>1, <1>2 DEF AllStraight, Item
<1>4. Size(Item) = Pipelines /\ \A k : CommandAt(Item, k) = PipelineAt(k)
      BY DEF Size, Pipelines, CommandAt, PipelineAt
<1> QED BY <1>3, <1>4 DEF Straight, PipelineAt

(* The position stays in the script or just after it.                         *)
LEMMA PlaceStep ==
    ASSUME IInv, Place, [Next]_vars
    PROVE  Place'
<1>1. m'.xtrap \in {"none", "echo"}
  <2>1. CASE Host BY <2>1, HostTrap DEF Place
  <2>2. CASE Poll BY <2>2, PollCarries DEF Carries, Place
  <2>3. CASE UNCHANGED vars BY <2>3 DEF vars, Place
  <2> QED BY <2>1, <2>2, <2>3 DEF Next
<1>2. run'.on => idx' <= Len(run'.prog) + 1
  <2>1. ASSUME NEW p \in Programs, NEW drain \in BOOLEAN, StartRun(p, drain)
        PROVE  idx' <= Len(run'.prog) + 1
    <3>1. p \in Seq(AndOr) BY ConstantsAssumption DEF ConstantsAssumption
    <3>2. Len(p) \in Nat BY <3>1
    <3> QED BY <2>1, <3>2 DEF StartRun
  <2>2. CASE PostAndOr
    <3>1. ~Done BY <2>2 DEF PostAndOr, IInv, PhaseInv
    <3>2. idx \in 1..Len(run.prog) /\ run.prog \in Seq(AndOr) BY <3>1, PartFacts, RefAtFacts
    <3> QED BY <2>2, <3>2 DEF PostAndOr
  <2>3. CASE UNCHANGED <<run, idx>> BY <2>3 DEF Place
  <2>4. \/ ~run'.on \/ PostAndOr \/ UNCHANGED <<run, idx>>
        \/ \E p \in Programs, drain \in BOOLEAN : StartRun(p, drain)
    <3>1. CASE RunEnds
      <4>1. run' = [run EXCEPT !.on = FALSE] /\ "on" \in DOMAIN run
            BY <3>1 DEF RunEnds, IInv, TypeOK
      <4> QED BY <4>1
    <3>2. CASE Host
      <4>1. CASE HostInit BY <4>1 DEF HostInit, NoRun
      <4>2. CASE ParseError \/ Cancel BY <4>2 DEF ParseError, Cancel
      <4>3. CASE \E sig \in Signals : SignalActive(sig) \/ SignalIdle(sig)
            BY <4>3 DEF SignalActive, SignalIdle
      <4> QED BY <3>2, <4>1, <4>2, <4>3 DEF Host
    <3>3. CASE Poll /\ ~RunEnds /\ ~PostAndOr
          BY <3>3 DEF Poll, PollRun, DrainSignal, SignalsDrained, LoopExit, StartStream, StartVm,
                      StartChain, StreamWaits, StreamEnds, StreamDeadline, VmStep, ChainStep,
                      RunYields
    <3>4. CASE UNCHANGED vars BY <3>4 DEF vars
    <3> QED BY <3>1, <3>2, <3>3, <3>4 DEF Next
  <2> QED BY <2>1, <2>2, <2>3, <2>4
<1>3. phase' = "chain" => ~Streams'
  <2>1. CASE StartChain \/ ChainStep \/ UNCHANGED vars
    <3>1. UNCHANGED <<run, idx>> /\ (phase' = "chain" => ~Streams)
          BY <2>1 DEF StartChain, ChainStep, vars, Place
    <3> QED BY <3>1 DEF Streams, Item
  <2>2. phase' # "chain" \/ StartChain \/ ChainStep \/ UNCHANGED vars
        BY DEF Next, Host, Poll, HostInit, ParseError, Cancel, StartRun, SignalActive, SignalIdle,
             PollRun, DrainSignal, SignalsDrained, LoopExit, StartStream, StartVm,
             StreamWaits, StreamEnds, StreamDeadline, VmStep, PostAndOr, RunEnds, RunYields
  <2> QED BY <2>1, <2>2
<1> QED BY <1>1, <1>2, <1>3 DEF Place

(* The host's commands: a run starts where the reference does, and nothing    *)
(* else touches a run, but a cancel, which ends the comparison.               *)
LEMMA HostFollow ==
    ASSUME IInv, Place, Follow, Host
    PROVE  Follow'
<1>1. CASE HostInit BY <1>1 DEF HostInit, NoRun, Follow
<1>2. CASE ParseError BY <1>2 DEF ParseError, Follow
<1>3. CASE Cancel BY <1>3 DEF Cancel, Follow
<1>4. ASSUME NEW p \in Programs, NEW drain \in BOOLEAN, StartRun(p, drain)
      PROVE  InStep'
  <2> DEFINE s == Started(m)
             r == ExecReset(m)
  <2>1. r \in Machine /\ m \in Machine BY StopKeeps DEF Keeps, IInv, TypeOK
  <2>2. r.exit = NoExit BY <2>1 DEF ExecReset, Machine
  <2> HIDE DEF r
  <2>3. s.exit = NoExit BY <2>1, <2>2 DEF Started, Machine, r
  <2>4. /\ m' = s /\ start' = s /\ idx' = 1 /\ ran' = <<>> /\ stream' = "none"
        /\ phase' \in {"begin", "idle"}
        BY <1>4 DEF StartRun
  <2> HIDE DEF s
  <2>5. IInv' BY <1>4, StartRunStep
  <2>6. RefAt(0)' = RefStart(start')
    <3>1. IInv' => (RefAt(0) = RefStart(start))' BY RefAtFacts, PTL
    <3> QED BY <2>5, <3>1
  <2>7. AtList'
    <3>1. (idx - 1)' = 0 BY <2>4
    <3>2. RefAt(idx - 1)' = RefStart(s) BY <2>4, <2>6, <3>1 DEF RefAt
    <3>3. Agree(s, RefStart(s)) BY <2>3 DEF Agree, RefStart
    <3>4. RefStart(s).ran = <<>> BY DEF RefStart
    <3> QED BY <2>4, <3>2, <3>3, <3>4 DEF AtList
  <2> QED BY <2>3, <2>4, <2>7 DEF InStep
<1>5. ASSUME NEW sig \in Signals, SignalActive(sig)
      PROVE  Follow'
  <2>1. m' = m /\ run' = run /\ calm' = calm /\ phase = "idle" /\ phase' = phase
        /\ UNCHANGED <<idx, start, ran, stream>> /\ run.on
        BY <1>5 DEF SignalActive, ghosts
  <2> SUFFICES ASSUME calm, Clean(m) PROVE InStep' BY <2>1 DEF Follow
  <2>2. InStep BY <2>1 DEF Follow
  <2>3. AtList /\ m.exit = NoExit BY <2>1, <2>2 DEF InStep, Between
  <2>4. idx <= Len(run.prog) + 1 BY <2>1 DEF Place
  <2>5. Same(m, m') BY <2>1 DEF Same
  <2> QED BY <2>1, <2>3, <2>4, <2>5, BetweenStep
<1>6. ASSUME NEW sig \in Signals, SignalIdle(sig)
      PROVE  Follow'
      BY <1>6 DEF SignalIdle, Follow
<1> QED BY <1>1, <1>2, <1>3, <1>4, <1>5, <1>6 DEF Host, Follow

(* The steps of a poll between two lists.                                     *)
LEMMA LoopFollow ==
    ASSUME IInv, Place, Follow, Clean(m), Clean(m'), run.on, calm, calm',
           PollRun \/ DrainSignal \/ SignalsDrained \/ LoopExit \/ StreamWaits \/ RunYields
    PROVE  InStep'
<1>1. m \in Machine /\ PollLimit \in Nat /\ idx <= Len(run.prog) + 1
      BY LimitType DEF IInv, TypeOK, Place
<1>2. InStep BY DEF Follow
<1>3. ASSUME phase \in {"idle", "begin", "signals", "steps", "end"} PROVE AtList
      BY <1>2, <1>3 DEF InStep, Between
<1>4. CASE PollRun
  <2>1. UNCHANGED <<run, idx, start, ran, stream>> /\ phase' = "signals"
        /\ phase \in {"idle", "begin"}
        BY <1>4 DEF PollRun, ghosts
  <2>2. Same(m, m') BY <1>1, <1>4 DEF PollRun, Machine, Same
  <2>3. m.exit = NoExit BY <1>2, <2>1 DEF InStep
  <2> QED BY <1>1, <1>3, <2>1, <2>2, <2>3, BetweenStep
<1>5. CASE DrainSignal
  <2>1. Head(sigs) \in Signals BY <1>5 DEF DrainSignal, IInv, TypeOK
  <2>2. m.exit = NoExit BY <1>2, <1>5 DEF InStep, DrainSignal
  <2>3. ~Stopped(m') BY <1>5 DEF DrainSignal
  <2>4. Same(m, m') BY <1>1, <1>5, <2>1, <2>2, <2>3, DeliverEffect DEF DrainSignal
  <2>5. UNCHANGED <<run, idx, start, ran, stream>> /\ phase = "signals"
        /\ phase' \in {"signals", "steps"}
        BY <1>5 DEF DrainSignal
  <2> QED BY <1>1, <1>3, <2>2, <2>4, <2>5, BetweenStep
<1>6. CASE SignalsDrained
  <2>1. UNCHANGED <<run, idx, start, ran, stream>> /\ phase = "signals" /\ phase' = "steps"
        /\ m' = m
        BY <1>6 DEF SignalsDrained, ghosts
  <2>2. Same(m, m') BY <2>1 DEF Same
  <2>3. m.exit = NoExit BY <1>2, <2>1 DEF InStep
  <2> QED BY <1>1, <1>3, <2>1, <2>2, <2>3, BetweenStep
<1>7. CASE LoopExit
  <2>1. UNCHANGED <<run, idx, start, ran, stream>> /\ phase = "steps" /\ phase' = "end"
        BY <1>7 DEF LoopExit, ghosts
  <2>2. m' = m BY <1>1, <1>7 DEF LoopExit, Machine, Clean
  <2>3. Same(m, m') BY <2>2 DEF Same
  <2>4. stream = "running" => m.exit = NoExit BY <1>2 DEF InStep
  <2> QED BY <1>1, <1>3, <2>1, <2>3, <2>4, BetweenStep
<1>8. CASE StreamWaits
  <2>1. UNCHANGED <<run, idx, start, ran, stream>> /\ phase = "steps" /\ phase' = "end"
        BY <1>8 DEF StreamWaits
  <2>2. Same(m, m') BY <1>1, <1>8, StreamEffect DEF StreamWaits
  <2>3. m.exit = NoExit BY <1>8 DEF StreamWaits, Halting, Over, Stopped
  <2> QED BY <1>1, <1>3, <2>1, <2>2, <2>3, BetweenStep
<1>9. CASE RunYields
  <2>1. UNCHANGED <<run, idx, start, ran, stream>> /\ phase = "end"
        /\ phase' \in {"begin", "idle"} /\ m' = m
        BY <1>9 DEF RunYields, ghosts
  <2>2. Same(m, m') BY <2>1 DEF Same
  <2>3. m.exit = NoExit BY <1>9 DEF RunYields, Over, Stopped
  <2> QED BY <1>1, <1>3, <2>1, <2>2, <2>3, BetweenStep
<1> QED BY <1>4, <1>5, <1>6, <1>7, <1>8, <1>9

(* A list begins, on one of the three paths.                                  *)
LEMMA BeginFollow ==
    ASSUME IInv, Place, Follow, Clean(m), run.on, calm,
           StartStream \/ StartVm \/ StartChain
    PROVE  InStep'
<1>1. phase = "steps" /\ m' = m /\ ~Done /\ m.exit = NoExit /\ stream = "none"
      /\ UNCHANGED <<run, idx, start>>
      BY DEF StartStream, StartVm, StartChain, Halting, Over, Stopped, ghosts
<1>2. AtList BY <1>1 DEF Follow, InStep, Between
<1>3. Agree(m, RefAt(idx - 1)) /\ ran = RefAt(idx - 1).ran BY <1>1, <1>2 DEF AtList
<1>4. RefAt(idx - 1) \in RefState /\ Part(0) = RefAt(idx - 1) BY <1>1, PartFacts
<1>5. ~RefAt(idx - 1).exited BY <1>1, <1>3, <1>4, AgreeFacts
<1>6. /\ \A i : RefAt(i)' = RefAt(i) /\ \A k : Part(k)' = Part(k)
      BY <1>1, RefKept
<1>7. CASE StartStream
  <2>1. phase' = "steps" /\ stream' = "running" /\ ran' = Append(ran, <<idx, 1>>)
        BY <1>7 DEF StartStream
  <2>2. AtList' BY <1>1, <1>3, <1>6, <2>1 DEF AtList
  <2> QED BY <1>1, <2>1, <2>2 DEF InStep
<1>8. CASE StartVm \/ StartChain
  <2>1. AtPart(0)'
    <3>1. ran' = ran BY <1>8 DEF StartVm, StartChain, ghosts
    <3> QED BY <1>1, <1>3, <1>4, <1>5, <1>6, <3>1 DEF AtPart
  <2>2. stream' = "none" /\ ((phase' = "vm" /\ pc' = 0) \/ (phase' = "chain" /\ pc' = 1))
        BY <1>1, <1>8 DEF StartVm, StartChain
  <2>3. CASE phase' = "vm"
    <3>1. pc' % 2 = 0 /\ pc' \div 2 = 0 BY <2>2, <2>3
    <3>2. Taken(1)' BY DEF Taken
    <3> QED BY <1>1, <2>1, <2>2, <2>3, <3>1, <3>2 DEF InStep, Between
  <2>4. CASE phase' = "chain"
    <3>1. pc' - 1 = 0 BY <2>2, <2>4
    <3> QED BY <1>1, <2>1, <2>2, <2>4, <3>1 DEF InStep, Between
  <2> QED BY <2>2, <2>3, <2>4
<1> QED BY <1>7, <1>8

(* The streaming pipeline ends: it was its list.                              *)
LEMMA StreamFollow ==
    ASSUME IInv, Place, Follow, AllStraight, Clean(m), Clean(m'), run.on, calm, StreamEnds
    PROVE  InStep'
<1>1. phase = "steps" /\ stream = "running" /\ ~Done /\ m.exit = NoExit
      BY DEF StreamEnds, Halting, Over, Stopped
<1>2. AtList BY <1>1 DEF Follow, InStep, Between
<1>3. Agree(m, RefAt(idx - 1)) /\ ran = Append(RefAt(idx - 1).ran, <<idx, 1>>)
      BY <1>1, <1>2 DEF AtList
<1>4. RefAt(idx - 1) \in RefState /\ Part(0) = RefAt(idx - 1) BY <1>1, PartFacts
<1>5. ~RefAt(idx - 1).exited BY <1>1, <1>3, <1>4, AgreeFacts
<1>6. Item.first \in External BY <1>1 DEF IInv, PipelineOwned
<1>7. Pipelines \in Nat \ {0} BY <1>1, ItemType DEF IInv
<1>8. Pipelines = 1 /\ PipelineAt(1) = Item.first
      BY <1>1, <1>6, <1>7, ScriptStraight
<1>9. Part(1) = RefCommand(Part(0), Item.first, <<idx, 1>>)
  <2>1. Applies(Part(0), Item, 1) BY <1>4, <1>5 DEF Applies
  <2>2. Part(1) = IF Applies(Part(0), Item, 1)
                  THEN RefCommand(Part(0), PipelineAt(1), <<idx, 1>>) ELSE Part(0)
        BY <1>1, <1>8, PartFacts
  <2> QED BY <1>8, <2>1, <2>2
<1>10. Does(m, m', Item.first)
  <2>1. PICK n \in 0..1 :
            m' = IF StreamWrites(m, n).exhausted THEN StreamWrites(m, n)
                 ELSE [StreamWrites(m, n) EXCEPT !.last = IF Item.first = "ext0" THEN 0 ELSE 1]
        BY DEF StreamEnds
  <2> DEFINE w == StreamWrites(m, n)
             v == IF Item.first = "ext0" THEN 0 ELSE 1
  <2>2. m \in Machine BY DEF IInv, TypeOK
  <2>3. w \in Machine /\ Same(m, w) BY <2>2, StreamEffect
  <2>4. ~w.exhausted BY <2>1 DEF Clean
  <2>5. m' = [w EXCEPT !.last = v] BY <2>1, <2>4
  <2> HIDE DEF w, v
  <2>6. m'.last = v /\ m'.errexit = w.errexit /\ m'.exit = w.exit
        BY <2>3, <2>5, FieldEffect
  <2>7. Item.first \in {"ext0", "ext1"} BY <1>6 DEF External
  <2>8. (m.errexit \/ Item.first = "set_e") = m.errexit BY <2>2, <2>7 DEF Machine
  <2> QED BY <2>3, <2>6, <2>7, <2>8 DEF Does, Same, v
<1>11. Agree(m', Part(1)) BY <1>1, <1>3, <1>4, <1>9, <1>10, AgreeFacts
<1>12. ran = Part(1).ran BY <1>3, <1>4, <1>9 DEF RefCommand
<1>13. UNCHANGED <<run, idx, start, ran>> /\ phase' = "post" /\ stream' = "none"
      BY DEF StreamEnds
<1>14. AtPart(1)'
  <2>1. /\ \A i : RefAt(i)' = RefAt(i) /\ \A k : Part(k)' = Part(k)
        BY <1>13, RefKept
  <2> QED BY <1>5, <1>11, <1>12, <1>13, <2>1 DEF AtPart
<1>15. Pipelines' = 1 BY <1>8, <1>13, RefKept
<1> QED BY <1>13, <1>14, <1>15 DEF InStep, Between

(* One instruction of the virtual machine.                                    *)
LEMMA VmFollow ==
    ASSUME IInv, Place, Follow, Clean(m), Clean(m'), run.on, calm, VmStep
    PROVE  InStep'
<1>1. PICK k : k = (pc \div 2) + 1 OBVIOUS
<1>2. phase = "vm" /\ ~Done /\ stream = "none" /\ Pipelines \in Nat \ {0}
      BY ItemType DEF VmStep, IInv, PhaseInv
<1>3. /\ CanStep(m, PollLimit) /\ pc \in Nat /\ k \in 1..Pipelines
      /\ pc % 2 = 0 => Does(m, m', PipelineAt(k))
      /\ pc % 2 # 0 => Same(m, m')
      BY <1>1, VmStepEffect
<1>4. /\ m.exit = NoExit
      /\ IF pc % 2 = 0 THEN AtPart(pc \div 2) /\ Taken(k) ELSE AtPart(k)
      BY <1>1, <1>2 DEF Follow, InStep
<1>5. UNCHANGED <<run, idx, start, stream>> BY DEF VmStep
<1>6. /\ \A i : RefAt(i)' = RefAt(i) /\ \A j : Part(j)' = Part(j)
      /\ Pipelines' = Pipelines /\ Item' = Item
      BY <1>5, RefKept
<1>7. /\ \A j \in 0..Pipelines : Part(j) \in RefState
      /\ \A j \in 1..Pipelines :
             Part(j) = IF Applies(Part(j - 1), Item, j)
                       THEN RefCommand(Part(j - 1), PipelineAt(j), <<idx, j>>) ELSE Part(j - 1)
      BY <1>2, PartFacts
<1>8. CASE pc % 2 = 0
  <2>1. k - 1 = pc \div 2 /\ k - 1 \in 0..Pipelines BY <1>1, <1>2, <1>3
  <2>2. /\ m' = VmBuiltin(BeginStep(m, PollLimit), PipelineAt(k)) /\ pc' = pc + 1
        /\ phase' = "vm" /\ ran' = Append(ran, <<idx, k>>)
        BY <1>1, <1>2, <1>3, <1>8 DEF VmStep
  <2>3. pc' % 2 # 0 /\ (pc' \div 2) + 1 = k BY <1>1, <1>3, <1>8, <2>2
  <2>4. PipelineAt(k) # "exit"
    <3>1. PipelineAt(k) \in VmCommand BY <1>2, <1>3 DEF IInv, PhaseInv, InVmSubset
    <3> QED BY <3>1 DEF VmCommand
  <2>5. AtPart(k - 1) /\ Taken(k) BY <1>4, <1>8, <2>1
  <2>6. /\ ~RefAt(idx - 1).exited /\ Agree(m, Part(k - 1)) /\ ran = Part(k - 1).ran
        /\ Part(k - 1) \in RefState
        BY <1>7, <2>1, <2>5 DEF AtPart
  <2>7. ~Part(k - 1).exited BY <1>4, <2>6, AgreeFacts
  <2>8. Applies(Part(k - 1), Item, k) BY <2>5, <2>6, <2>7, TakenApplies
  <2>9. Part(k) = RefCommand(Part(k - 1), PipelineAt(k), <<idx, k>>) BY <1>3, <1>7, <2>8
  <2>10. Agree(m', Part(k)) BY <1>3, <1>4, <1>8, <2>6, <2>9, AgreeFacts
  <2>11. ran' = Part(k).ran BY <2>2, <2>6, <2>9 DEF RefCommand
  <2>12. AtPart(k)' BY <1>5, <1>6, <2>6, <2>10, <2>11 DEF AtPart
  <2>13. m'.exit = NoExit BY <1>3, <1>4, <1>8, <2>4 DEF Does
  <2> QED BY <1>2, <1>5, <2>2, <2>3, <2>12, <2>13 DEF InStep, Between
<1>9. CASE pc % 2 # 0
  <2>1. AtPart(k) /\ Same(m, m') BY <1>3, <1>4, <1>9
  <2>2. ran' = ran /\ phase' = (IF k = Pipelines THEN "post" ELSE "vm")
        /\ pc' = IF k < Pipelines /\ Taken(k + 1) THEN pc + 1 ELSE pc + 2
        BY <1>1, <1>2, <1>3, <1>9 DEF VmStep
  <2>3. pc = 2 * k - 1 BY <1>1, <1>3, <1>9
  <2>4. /\ ~RefAt(idx - 1).exited /\ Agree(m, Part(k)) /\ ran = Part(k).ran
        /\ Part(k) \in RefState
        BY <1>3, <1>7, <2>1 DEF AtPart
  <2>5. Agree(m', Part(k)) BY <2>1, <2>4, AgreeFacts
  <2>6. AtPart(k)' BY <1>5, <1>6, <2>2, <2>4, <2>5 DEF AtPart
  <2>7. m'.exit = NoExit BY <1>4, <2>1 DEF Same
  <2>8. CASE k = Pipelines
    <3>1. AtPart(Pipelines)' BY <1>6, <2>6, <2>8
    <3> QED BY <1>2, <1>5, <2>2, <2>8, <3>1 DEF InStep, Between
  <2>9. CASE k < Pipelines /\ Taken(k + 1)
    <3>1. pc' = 2 * k /\ pc' % 2 = 0 /\ pc' \div 2 = k BY <1>3, <2>2, <2>3, <2>9
    <3>2. Taken(k + 1)' BY <1>6, <2>1, <2>9 DEF Taken, Same
    <3>3. phase' = "vm" BY <1>3, <2>2, <2>9
    <3> QED BY <1>2, <1>5, <2>6, <2>7, <3>1, <3>2, <3>3 DEF InStep, Between
  <2>10. CASE k < Pipelines /\ ~Taken(k + 1)
    <3>1. pc' = 2 * k + 1 /\ pc' % 2 # 0 /\ (pc' \div 2) + 1 = k + 1
          BY <1>3, <2>2, <2>3, <2>10
    <3>2. k + 1 \in 1..Pipelines /\ (k + 1) - 1 = k BY <1>2, <1>3, <2>10
    <3>3. ~Part(k).exited BY <1>4, <2>4, AgreeFacts
    <3>4. ~Applies(Part(k), Item, k + 1) BY <2>4, <2>10, <3>3, TakenApplies
    <3>5. Part(k + 1) = Part(k) BY <1>7, <3>2, <3>4
    <3>6. AtPart(k + 1)' BY <1>5, <1>6, <2>2, <2>4, <2>5, <3>5 DEF AtPart
    <3>7. phase' = "vm" BY <1>3, <2>2, <2>10
    <3> QED BY <1>2, <1>5, <2>7, <3>1, <3>6, <3>7 DEF InStep, Between
  <2> QED BY <1>2, <1>3, <2>8, <2>9, <2>10
<1> QED BY <1>8, <1>9

(* One pipeline of the chain.                                                 *)
LEMMA ChainFollow ==
    ASSUME IInv, Place, Follow, AllStraight, Clean(m), Clean(m'), run.on, calm, ChainStep
    PROVE  InStep'
<1>1. /\ phase = "chain" /\ ~Done /\ stream = "none" /\ Pipelines \in Nat \ {0}
      /\ pc \in 1..Pipelines /\ PipelineAt(pc) \in Command
      /\ m \in Machine /\ PollLimit \in Nat
      BY ItemType, LimitType DEF ChainStep, IInv, PhaseInv, TypeOK
<1>2. AtPart(pc - 1) /\ m.exit = NoExit BY <1>1 DEF Follow, InStep
<1>3. UNCHANGED <<run, idx, start, stream>> /\ pc' = pc + 1
      /\ phase' = IF pc = Pipelines THEN "post" ELSE "chain"
      BY <1>1 DEF ChainStep
<1>4. /\ \A i : RefAt(i)' = RefAt(i) /\ \A j : Part(j)' = Part(j)
      /\ Pipelines' = Pipelines
      BY <1>3, RefKept
<1>5. /\ Part(pc - 1) \in RefState
      /\ Part(pc) = IF Applies(Part(pc - 1), Item, pc)
                    THEN RefCommand(Part(pc - 1), PipelineAt(pc), <<idx, pc>>) ELSE Part(pc - 1)
      BY <1>1, PartFacts
<1>6. ~RefAt(idx - 1).exited /\ Agree(m, Part(pc - 1)) /\ ran = Part(pc - 1).ran
      BY <1>2 DEF AtPart
<1>7. ~Part(pc - 1).exited BY <1>2, <1>5, <1>6, AgreeFacts
<1>8. Taken(pc) <=> Applies(Part(pc - 1), Item, pc) BY <1>6, <1>7, TakenApplies
<1>9. ~(PipelineAt(pc) \in External /\ ~run.drain)
  <2>1. PipelineAt(pc) \in External => Pipelines = 1 /\ PipelineAt(1) = Item.first
        BY <1>1, ScriptStraight
  <2>2. PipelineAt(pc) \in External => pc = 1 BY <1>1, <2>1
  <2>3. ~Streams BY <1>1 DEF Place
  <2> QED BY <2>1, <2>2, <2>3 DEF Streams
<1>10. Taken(pc) => Does(m, m', PipelineAt(pc))
  <2> SUFFICES ASSUME Taken(pc) PROVE Does(m, m', PipelineAt(pc)) OBVIOUS
  <2>1. m' = ChainBuiltin(m, PipelineAt(pc), ~run.drain, PollLimit) BY DEF ChainStep
  <2> QED BY <1>1, <1>2, <1>9, <2>1, ChainBuiltinEffect
<1>11. Agree(m', Part(pc)) /\ ran' = Part(pc).ran
  <2>1. CASE Taken(pc)
    <3>1. Part(pc) = RefCommand(Part(pc - 1), PipelineAt(pc), <<idx, pc>>) BY <1>5, <1>8, <2>1
    <3>2. Agree(m', Part(pc)) BY <1>2, <1>5, <1>6, <1>10, <2>1, <3>1, AgreeFacts
    <3>3. ran' = Append(ran, <<idx, pc>>) BY <2>1 DEF ChainStep
    <3> QED BY <1>6, <3>1, <3>2, <3>3 DEF RefCommand
  <2>2. CASE ~Taken(pc)
    <3>1. Part(pc) = Part(pc - 1) BY <1>5, <1>8, <2>2
    <3>2. m' = m /\ ran' = ran BY <2>2 DEF ChainStep
    <3> QED BY <1>6, <3>1, <3>2
  <2> QED BY <2>1, <2>2
<1>12. CASE pc = Pipelines
  <2>1. AtPart(Pipelines)'
    <3>1. Part(Pipelines)' = Part(pc) BY <1>3, <1>4, <1>12 DEF Part
    <3> QED BY <1>3, <1>4, <1>6, <1>11, <3>1 DEF AtPart
  <2> QED BY <1>1, <1>3, <1>12, <2>1 DEF InStep, Between
<1>13. CASE pc # Pipelines
  <2>1. phase' = "chain" /\ pc' - 1 = pc BY <1>1, <1>3, <1>13
  <2>2. AtPart(pc - 1)'
    <3>1. Part(pc - 1)' = Part(pc) BY <1>3, <1>4, <2>1 DEF Part
    <3> QED BY <1>3, <1>4, <1>6, <1>11, <3>1 DEF AtPart
  <2>3. PipelineAt(pc) # "exit" BY <1>1, <1>13, ScriptStraight
  <2>4. m'.exit = NoExit
    <3>1. CASE Taken(pc) BY <1>2, <1>10, <2>3, <3>1 DEF Does
    <3>2. CASE ~Taken(pc) BY <1>2, <3>2 DEF ChainStep
    <3> QED BY <3>1, <3>2
  <2> QED BY <1>1, <1>3, <2>1, <2>2, <2>4 DEF InStep, Between
<1> QED BY <1>12, <1>13

(* A list is over.                                                            *)
LEMMA PostFollow ==
    ASSUME IInv, Place, Follow, Clean(m), run.on, calm, PostAndOr
    PROVE  InStep'
<1>1. /\ phase = "post" /\ ~Done /\ stream = "none" /\ Pipelines \in Nat \ {0}
      /\ m \in Machine /\ idx \in Nat \ {0}
      BY ItemType DEF PostAndOr, IInv, PhaseInv, TypeOK
<1> DEFINE p == Part(Pipelines)
           q == RefErrexit(p, Item)
<1>2. ~RefAt(idx - 1).exited /\ Agree(m, p) /\ ran = p.ran
      BY <1>1 DEF Follow, InStep, AtPart
<1>3. p \in RefState /\ Size(Item) = Pipelines /\ idx \in 1..Len(run.prog)
      /\ RefList(RefAt(idx - 1), idx, Item) = q
      BY <1>1, PartFacts
<1>4. RefAt(idx) = q
  <2>1. RefAt(idx) = IF RefAt(idx - 1).exited THEN RefAt(idx - 1)
                     ELSE RefList(RefAt(idx - 1), idx, run.prog[idx])
        BY <1>3, RefAtFacts
  <2> QED BY <1>2, <1>3, <2>1 DEF Item
<1> HIDE DEF p
<1>5. q.ran = p.ran /\ q.last = p.last /\ q.errexit = p.errexit
      /\ q.exited = IF Pipelines = 1 /\ p.errexit /\ p.last # 0 THEN TRUE ELSE p.exited
      BY <1>3 DEF RefErrexit, RefState
<1>6. Agree(m', q)
  <2>1. m' = IF Pipelines = 1 THEN Errexit(m) ELSE m BY DEF PostAndOr
  <2>2. m'.last = m.last /\ m'.errexit = m.errexit
        BY <1>1, <2>1, FieldEffect
  <2>3. CASE Pipelines = 1 /\ m.errexit /\ m.last # 0
    <3>1. m'.exit = IF m.exit = NoExit THEN m.last ELSE m.exit
          BY <1>1, <2>1, <2>3 DEF Errexit, Machine
    <3> QED BY <1>2, <1>3, <1>5, <2>2, <2>3, <3>1 DEF Agree, RefState, NoExit
  <2>4. CASE ~(Pipelines = 1 /\ m.errexit /\ m.last # 0)
    <3>1. m' = m BY <2>1, <2>4 DEF Errexit
    <3> QED BY <1>2, <1>5, <2>4, <3>1 DEF Agree
  <2> QED BY <2>3, <2>4
<1> HIDE DEF q
<1>7. /\ run' = run /\ start' = start /\ idx' = idx + 1 /\ phase' = "steps"
      /\ stream' = "none" /\ ran' = ran
      BY <1>1 DEF PostAndOr, ghosts
<1>8. RefAt(idx - 1)' = q
  <2>1. idx' - 1 = idx BY <1>1, <1>7
  <2> QED BY <1>4, <1>7, <2>1 DEF RefAt
<1>9. AtList' BY <1>2, <1>5, <1>6, <1>7, <1>8 DEF AtList
<1> QED BY <1>7, <1>9 DEF InStep

(* All of them: the machine is where the reference is.                        *)
LEMMA FollowStep ==
    ASSUME IInv, Place, Follow, AllStraight, [Next]_vars
    PROVE  Follow'
<1>1. CASE Host BY <1>1, HostFollow
<1>2. CASE Poll
  <2> SUFFICES ASSUME run'.on, calm', Clean(m') PROVE InStep' BY DEF Follow
  <2>1. Clean(m) BY <1>2, PollCarries DEF Carries
  <2>2. calm /\ run.on /\ ~RunEnds /\ ~StreamDeadline
    <3>1. ~RunEnds
      <4> SUFFICES ASSUME RunEnds PROVE FALSE OBVIOUS
      <4>1. run' = [run EXCEPT !.on = FALSE] /\ "on" \in DOMAIN run
            BY DEF RunEnds, IInv, TypeOK
      <4> QED BY <4>1
    <3>2. ~StreamDeadline BY DEF StreamDeadline
    <3> QED BY <1>2, <3>1, <3>2
            DEF Poll, PollRun, DrainSignal, SignalsDrained, LoopExit, StartStream, StartVm,
                StartChain, StreamWaits, StreamEnds, VmStep, ChainStep, PostAndOr, RunYields,
                ghosts
  <2> QED BY <1>2, <2>1, <2>2, LoopFollow, BeginFollow, StreamFollow, VmFollow, ChainFollow,
             PostFollow DEF Poll
<1>3. CASE UNCHANGED vars
  <2>1. /\ m' = m /\ run' = run /\ calm' = calm /\ phase' = phase /\ idx' = idx /\ pc' = pc
        /\ stream' = stream /\ ran' = ran /\ start' = start
        BY <1>3 DEF vars, ghosts
  <2>2. InStep' <=> InStep
        BY <2>1 DEF InStep, Between, AtList, AtPart, RefAt, Part, Item, Pipelines, Taken
  <2> QED BY <2>1, <2>2 DEF Follow
<1> QED BY <1>1, <1>2, <1>3 DEF Next

(* The invariant holds in every reachable state.                              *)
LEMMA ResumeInvHolds ==
    ASSUME AllStraight
    PROVE  Spec => [](IInv /\ ResumeInv)
<1>1. Init => ResumeInv
      BY DEF Init, FreshMachine, NoRun, ResumeInv, Place, Follow
<1>2. IInv /\ ResumeInv /\ [Next]_vars => ResumeInv'
      BY PlaceStep, FollowStep DEF ResumeInv
<1> QED BY <1>1, <1>2, InitIInv, NextIInv, PTL DEF Spec

-----------------------------------------------------------------------------
(* The theorem.                                                               *)

(* However a script is cut into polls, and whatever trapped or ignored        *)
(* signals arrive in between, a run runs the commands an uninterrupted shell  *)
(* would, in the same order, and ends with its status, unless a limit refused *)
(* it something: for every set of straight scripts and every budget.          *)
THEOREM RunsResume ==
    ASSUME AllStraight
    PROVE  Spec => ResumeEquivalence
<1>1. ASSUME IInv, ResumeInv, Next, phase = "end", phase' = "idle", ~run'.on, calm,
             ~m'.exhausted, m.bstop = "none"
      PROVE  ran = RefRun(run.prog, start).ran /\ code' = RefRun(run.prog, start).last
  <2>1. RunEnds
    <3>1. CASE Host
          BY <1>1, <3>1
             DEF Host, HostInit, ParseError, Cancel, StartRun, SignalActive, SignalIdle
    <3>2. CASE Poll
      <4>1. run.on BY <1>1 DEF IInv, PhaseInv
      <4> QED BY <1>1, <3>2, <4>1
             DEF Poll, PollRun, DrainSignal, SignalsDrained, LoopExit, StartStream, StartVm,
                 StartChain, StreamWaits, StreamEnds, StreamDeadline, VmStep, ChainStep,
                 PostAndOr, RunYields
    <3> QED BY <1>1, <3>1, <3>2 DEF Next
  <2>2. m \in Machine /\ run.on /\ StepBudget \in Nat
    BY <1>1, LimitType DEF IInv, TypeOK, PhaseInv
  <2>3. ~m.exhausted
    <3> DEFINE s == EnsureStopReason(m)
               x == RunExitTrap(s, ~Stopped(s), StepBudget)
    <3>1. s \in Machine /\ s.exhausted = m.exhausted
          BY <2>2, StopKeeps DEF Keeps, EnsureStopReason, Machine
    <3>2. m' = x BY <2>1 DEF RunEnds
    <3> HIDE DEF s
    <3>3. Honours(s, x) BY <3>1, Limits, ExitTrapHonours
    <3> QED BY <1>1, <3>1, <3>2, <3>3 DEF Honours
  <2>4. InStep BY <1>1, <2>2, <2>3 DEF ResumeInv, Follow, Clean
  <2>5. AtList BY <1>1, <2>4 DEF InStep, Between
  <2>6. Done \/ m.exit # NoExit BY <2>1, <2>3 DEF RunEnds, Over, Stopped
  <2>7. stream = "none"
    <3>1. stream = "running" => m.exit = NoExit BY <2>4 DEF InStep
    <3>2. stream = "running" => ~Done BY <1>1 DEF IInv, PipelineOwned
    <3> QED BY <1>1, <2>6, <3>1, <3>2 DEF IInv, TypeOK
  <2> DEFINE r == RefAt(idx - 1)
  <2>8. Agree(m, r) /\ ran = r.ran BY <2>5, <2>7 DEF AtList
  <2>9. /\ idx \in Nat \ {0} /\ idx <= Len(run.prog) + 1 /\ Len(run.prog) \in Nat
        BY <1>1, <2>2, RefAtFacts DEF IInv, TypeOK, ResumeInv, Place
  <2>10. r \in RefState BY <1>1, <2>9, RefAtFacts
  <2>11. r = RefRun(run.prog, start)
    <3>1. CASE Done
      <4>1. idx - 1 = Len(run.prog) BY <2>9, <3>1 DEF Done
      <4> QED BY <4>1 DEF RefAt, RefRun
    <3>2. CASE m.exit # NoExit
      <4>1. r.exited BY <2>8, <2>10, <3>2, AgreeFacts
      <4> QED BY <1>1, <2>9, <4>1, RefAtFacts
    <3> QED BY <2>6, <3>1, <3>2
  <2>12. code' = IF m.exit # NoExit THEN m.exit ELSE m.last
    <3> DEFINE x == RunExitTrap(m, ~Stopped(m), StepBudget)
    <3>1. EnsureStopReason(m) = m BY <2>3 DEF EnsureStopReason
    <3>2. m' = x /\ code' = CurrentRunExitStatus(x) BY <2>1, <3>1 DEF RunEnds
    <3>3. ~x.exhausted BY <1>1, <3>2
    <3>4. m.xtrap \in {"none", "echo"} BY <1>1 DEF ResumeInv, Place
    <3> QED BY <2>2, <3>2, <3>3, <3>4, ExitTrapEffect
  <2>13. code' = r.last BY <2>8, <2>10, <2>12 DEF Agree, RefState, NoExit
  <2> HIDE DEF r
  <2> QED BY <2>8, <2>11, <2>13
<1>2. IInv /\ ResumeInv /\ [Next]_vars =>
      [phase = "end" /\ phase' = "idle" /\ ~run'.on /\ calm /\ ~m'.exhausted
           /\ m.bstop = "none" =>
           LET r == RefRun(run.prog, start) IN ran = r.ran /\ code' = r.last]_vars
      BY <1>1
<1> QED BY <1>2, ResumeInvHolds, PTL DEF Spec, ResumeEquivalence
=============================================================================
