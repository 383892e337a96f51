----------------------------- MODULE ControlFlow ------------------------------
(* Compound commands, functions, subshells and traps of the interpreter in    *)
(* crates/wasmsh-runtime/src/lib.rs (the path of execute_pipeline_chain; the  *)
(* IR path of simple lists is in ProgressiveRun).  The interpreter unwinds by *)
(* flags: break_depth, loop_continue, return_requested, exit_requested and    *)
(* resource_exhausted are set by one command and consumed by the construct    *)
(* they are meant for, which every construct in between has to let through.   *)
(*                                                                            *)
(* A command is a record with a field k; a body is a sequence of and-or       *)
(* lists [first, rest], a pipeline [neg, cmd].  Values are positive numbers   *)
(* and 0 means unset; a trap's value is an index into Handlers.               *)
EXTENDS Integers, Sequences, FiniteSets

CONSTANTS
    Name,            \* variables, the shell option "e" and the trap names included
    Fn,              \* names of functions and aliases
    Handlers,        \* a sequence of bodies: what a trap's value stands for
    StepLimit,       \* ExecutionLimits::step_limit, 0 for none
    RecursionLimit   \* ExecutionLimits::recursion_limit

Traps == {"ERR", "EXIT", "DEBUG", "RETURN"}
None  == -1

ASSUME ControlFlowConstants ==
    /\ Traps \cup {"e"} \subseteq Name
    /\ StepLimit \in Nat /\ RecursionLimit \in Nat

RECURSIVE Body(_, _), Command(_, _), Iterate(_, _, _), ForEach(_, _, _, _), Items(_, _, _, _),
          Chain(_, _), Pipeline(_, _), PostAndOr(_, _), Complete(_, _), Input(_, _),
          Trap(_, _, _), RunExitTrap(_, _), Elifs(_, _, _), DebugTrap(_), ReturnTrap(_),
          Replies(_, _, _)

-----------------------------------------------------------------------------
(* Shell state.                                                               *)

EmptyScope == [n \in Name |-> 0]

FreshShell ==
    [status |-> 0, scopes |-> <<EmptyScope>>, fstack |-> 0, cwd |-> 1, out |-> <<>>,
     funs |-> [f \in Fn |-> <<>>], aliases |-> [f \in Fn |-> <<>>],
     brk |-> 0, cont |-> FALSE, ret |-> None, exit |-> None, supp |-> FALSE, locals |-> <<>>,
     nested |-> 0, trapping |-> 0, exhausted |-> FALSE, steps |-> 0, depth |-> 0, late |-> FALSE]

(* ShellEnv::get: the innermost scope that has the name.                      *)
Owner(s, n) ==
    LET has == {i \in 1..Len(s.scopes) : s.scopes[i][n] # 0}
    IN  IF has = {} THEN 0 ELSE CHOOSE i \in has : \A j \in has : j <= i
Get(s, n) == IF Owner(s, n) = 0 THEN 0 ELSE s.scopes[Owner(s, n)][n]

(* ShellEnv::set and remove work on the innermost scope; an array element is  *)
(* set where the array is (get_mut).                                          *)
SetVar(s, n, v)     == [s EXCEPT !.scopes[Len(s.scopes)][n] = v]
UnsetVar(s, n)      == [s EXCEPT !.scopes[Len(s.scopes)][n] = 0]
SetElement(s, n, v) ==
    LET i == IF Owner(s, n) = 0 THEN Len(s.scopes) ELSE Owner(s, n)
    IN  [s EXCEPT !.scopes[i][n] = v]
PushScope(s) == [s EXCEPT !.scopes = Append(@, EmptyScope)]
PopScope(s)  == [s EXCEPT !.scopes = IF Len(@) > 1 THEN SubSeq(@, 1, Len(@) - 1) ELSE @]

-----------------------------------------------------------------------------
(* The flags and the budget.                                                  *)

ShouldStop(s) ==
    s.brk > 0 \/ s.cont \/ s.ret # None \/ s.exit # None \/ s.exhausted

(* check_resource_limits: the state after it; it asks to stop when exhausted. *)
CheckLimits(s) ==
    IF s.exhausted THEN s
    ELSE IF StepLimit > 0 /\ s.steps >= StepLimit THEN [s EXCEPT !.exhausted = TRUE]
    ELSE [s EXCEPT !.steps = @ + 1]

(* Mutant of LoopControl: break n forgets the outer loops.                    *)
LoopControlOne(s) ==
    IF s.brk > 0 THEN [stop |-> TRUE, s |-> [s EXCEPT !.brk = 0]]
    ELSE [stop |-> s.ret # None \/ s.exit # None, s |-> [s EXCEPT !.cont = FALSE]]

(* handle_loop_control: does the loop end, and the state after the question.  *)
LoopControl(s) ==
    IF s.brk > 0 THEN [stop |-> TRUE, s |-> [s EXCEPT !.brk = @ - 1]]
    ELSE [stop |-> s.ret # None \/ s.exit # None, s |-> [s EXCEPT !.cont = FALSE]]

(* The frame counters, charged before the limit is looked at; the refused     *)
(* frame is not given back (mark_recursion_exhaustion).                       *)
Enter(s)    == [s EXCEPT !.depth = @ + 1]
Leave(s)    == [s EXCEPT !.depth = IF @ > 0 THEN @ - 1 ELSE 0]
Refused(s)  == RecursionLimit > 0 /\ s.depth + 1 > RecursionLimit
Overflow(s) == [Enter(s) EXCEPT !.status = 128]

-----------------------------------------------------------------------------
(* Traps.                                                                     *)

TrapArmed(s, t) == s.trapping = 0 /\ Get(s, t) # 0

(* run_trap_and_merge: the handler's status is dropped unless it stopped the  *)
(* script.                                                                    *)
Trap(t, status, s) ==
    IF ~TrapArmed(s, t) THEN s
    ELSE LET in  == [s EXCEPT !.trapping = @ + 1, !.status = status]
             out == [Input(Handlers[Get(s, t)], in) EXCEPT !.trapping = @ - 1]
         IN  IF ~out.exhausted /\ out.exit = s.exit THEN [out EXCEPT !.status = s.status] ELSE out

(* DEBUG and RETURN are not inherited by nested shells without set -T, which  *)
(* no program here uses.                                                      *)
DebugTrap(s) ==
    IF s.trapping > 0 \/ s.exhausted \/ s.nested > 0 THEN s ELSE Trap("DEBUG", s.status, s)
ReturnTrap(s) ==
    IF s.trapping > 0 \/ s.exhausted \/ s.nested > 0 THEN s ELSE Trap("RETURN", s.status, s)

Alone(ao) == ao.rest = <<>> /\ ~ao.first.neg
ErrTrapDue(ao, s) ==
    /\ ~s.supp /\ s.nested = 0 /\ Alone(ao)
    /\ s.status # 0 /\ s.exit = None /\ s.trapping = 0
ErrexitDue(ao, s) ==
    ~s.supp /\ Alone(ao) /\ Get(s, "e") = 1 /\ s.status # 0 /\ s.exit = None

PostAndOr(ao, s) ==
    LET t == IF ErrTrapDue(ao, s) THEN Trap("ERR", s.status, s) ELSE s
    IN  IF ErrexitDue(ao, t) THEN [t EXCEPT !.exit = t.status] ELSE t

(* run_exit_trap_if_needed, where the script did not simply run off its end.  *)
RunExitTrap(normally, s) ==
    IF ~TrapArmed(s, "EXIT") \/ normally THEN s
    ELSE LET code == IF s.exit # None THEN s.exit ELSE s.status
             in   == [s EXCEPT !.trapping = @ + 1, !.exit = None, !.status = code]
             out  == [Input(Handlers[Get(s, "EXIT")], in) EXCEPT !.trapping = @ - 1]
             end  == IF out.exit = None THEN code ELSE out.exit
         IN  [out EXCEPT !.exit = end, !.status = end]

-----------------------------------------------------------------------------
(* Lists.                                                                     *)

Body(b, s) ==
    IF b = <<>> \/ ShouldStop(s) THEN s
    ELSE LET t == CheckLimits(s)
         IN  IF t.exhausted THEN t ELSE Body(Tail(b), Complete(Head(b), t))

Complete(ao, s) ==
    IF ShouldStop(s) THEN s
    ELSE LET t == Chain(ao, s) IN IF t.exit # None THEN t ELSE PostAndOr(ao, t)

Pipeline(p, s) ==
    LET t == Command(p.cmd, s)
    IN  IF p.neg THEN [t EXCEPT !.status = IF @ = 0 THEN 1 ELSE 0] ELSE t

(* execute_pipeline_chain: only the status decides, no flag is looked at.     *)
Chain(ao, s) ==
    LET f[i \in 0..Len(ao.rest)] ==
            IF i = 0 THEN Pipeline(ao.first, s)
            ELSE IF (ao.rest[i].op = "and") = (f[i - 1].status = 0)
            THEN Pipeline(ao.rest[i].pipe, f[i - 1]) ELSE f[i - 1]
    IN  f[Len(ao.rest)]

(* execute_input_inner: eval, source, trap handlers, the bodies of nested     *)
(* shells.                                                                    *)
Input(b, s) ==
    LET run[i \in 0..Len(b)] ==
            IF i = 0 THEN Enter(s)
            ELSE IF run[i - 1].exit # None THEN run[i - 1] ELSE Complete(b[i], run[i - 1])
    IN  IF Refused(s) THEN Overflow(s) ELSE Leave(run[Len(b)])

-----------------------------------------------------------------------------
(* Compound commands.                                                         *)

(* A condition runs with errexit suppressed.                                  *)
Condition(b, s) == [Body(b, [s EXCEPT !.supp = TRUE]) EXCEPT !.supp = s.supp]

Elifs(c, i, s) ==
    IF i > Len(c.elifs) THEN IF c.orelse = <<>> THEN [s EXCEPT !.status = 0] ELSE Body(c.orelse, s)
    ELSE LET t == Condition(c.elifs[i].cond, s)
         IN  IF t.status = 0 THEN Body(c.elifs[i].body, t) ELSE Elifs(c, i + 1, t)
If(c, s) ==
    LET t == Condition(c.cond, s)
    IN  IF t.status = 0 THEN Body(c.body, t) ELSE Elifs(c, 1, t)

(* while, until and the arithmetic for: last is None until the body has run.  *)
LoopEnd(last, s) == [s EXCEPT !.status = IF last = None THEN 0 ELSE last]
Goes(c, s) ==
    CASE c.k = "while" -> s.status = 0
      [] c.k = "until" -> s.status # 0
      [] c.k = "arith_for" -> Get(s, c.x) <= c.n
Test(c, s) == IF c.k = "arith_for" THEN s ELSE Condition(c.cond, s)
Step(c, s) == IF c.k = "arith_for" THEN SetVar(s, c.x, Get(s, c.x) + 1) ELSE s
Iterate(c, last, s) ==
    LET lim  == CheckLimits(s)
        t    == Test(c, lim)
        b    == Body(c.body, t)
        done == LoopControl(b)
    IN  IF lim.exhausted THEN LoopEnd(last, lim)
        ELSE IF ~Goes(c, t) THEN LoopEnd(last, t)
        ELSE IF done.stop THEN LoopEnd(b.status, done.s)
        ELSE Iterate(c, b.status, Step(c, done.s))
Loop(c, s) == Iterate(c, None, IF c.k = "arith_for" THEN SetVar(s, c.x, 1) ELSE s)

(* select: one iteration per line of the input; a reply that is no menu       *)
(* number leaves the variable empty.  The loop itself is not charged.         *)
Replies(c, lines, s) ==
    IF lines = <<>> THEN s
    ELSE LET pick == IF Head(lines) \in 1..Len(c.words) THEN c.words[Head(lines)] ELSE 0
             done == LoopControl(Body(c.body, SetVar(s, c.x, pick)))
         IN  IF done.stop THEN done.s ELSE Replies(c, Tail(lines), done.s)

(* The for loop looks at break, continue and exit, not at return: a pending   *)
(* return lets it go through its remaining words with empty bodies.           *)
ForEach(c, words, last, s) ==
    IF words = <<>> THEN LoopEnd(last, s)
    ELSE LET lim == CheckLimits(s)
             t   == Body(c.body, SetVar(lim, c.x, Head(words)))
         IN  IF lim.exhausted THEN LoopEnd(last, lim)
             ELSE IF t.brk > 0 THEN LoopEnd(t.status, [t EXCEPT !.brk = @ - 1])
             ELSE IF t.cont THEN ForEach(c, Tail(words), t.status, [t EXCEPT !.cont = FALSE])
             ELSE IF t.exit # None THEN LoopEnd(t.status, t)
             ELSE ForEach(c, Tail(words), t.status, t)

(* case: an item is [match, body, end]; end is Break, Fallthrough (;&) or     *)
(* ContinueTesting (;;&).                                                     *)
Items(c, i, fall, s) ==
    IF i > Len(c.items) THEN s
    ELSE LET it == c.items[i]
         IN  IF ~(fall \/ it.match) THEN Items(c, i + 1, FALSE, s)
             ELSE IF it.end = "break" THEN Body(it.body, s)
             ELSE Items(c, i + 1, it.end = "fall", Body(it.body, s))

(* Mutant of RestoreLocals: the frame's locals stay.                          *)
ForgetLocals(from, s) == s

(* call_shell_function: a frame of locals, cleaned up however the body ended. *)
RestoreLocals(from, s) ==
    LET undo[i \in 0..(Len(s.locals) - from)] ==
            IF i = 0 THEN s
            ELSE LET l == s.locals[Len(s.locals) - i + 1]
                 IN  SetVar(undo[i - 1], l.x, l.old)
    IN  [undo[Len(s.locals) - from] EXCEPT !.locals = SubSeq(@, 1, from)]
Call(body, s) ==
    LET in  == [Enter(s) EXCEPT !.fstack = @ + 1, !.nested = @ + 1]
        out == ReturnTrap(Command([k |-> "group", body |-> body], in))
        end == RestoreLocals(Len(s.locals), [out EXCEPT !.nested = @ - 1, !.ret = None])
    IN  IF Refused(s) THEN Overflow(s) ELSE Leave([end EXCEPT !.fstack = @ - 1])

(* ( ... ): a scope of its own; exit ends it; its EXIT trap is its own;       *)
(* functions and aliases come back.                                           *)
Subshell(c, s) ==
    LET in    == PushScope(UnsetVar([s EXCEPT !.exit = None], "EXIT"))
        out   == Body(c.body, in)
        code  == IF out.exit # None THEN out.exit ELSE out.status
        trap  == RunExitTrap(FALSE, [out EXCEPT !.exit = None, !.status = code])
        after == PopScope([trap EXCEPT !.exit = None, !.status = code,
                                       !.funs = s.funs, !.aliases = s.aliases])
    IN  [SetVar(after, "EXIT", Get(s, "EXIT")) EXCEPT !.exit = s.exit]

(* execute_isolated_input_events_full: $( ... ), sh -c and sh file.  State,   *)
(* options and flags come back as they were; what was spent stays spent.  A   *)
(* new process starts without options.                                        *)
Isolated(b, fresh, s) ==
    LET in  == [(IF fresh THEN UnsetVar(s, "e") ELSE s) EXCEPT !.nested = @ + 1]
        out == RunExitTrap(FALSE, Input(b, in))
    IN  [s EXCEPT !.status = out.status, !.exhausted = @ \/ out.exhausted, !.out = out.out,
                  !.steps = out.steps, !.depth = out.depth, !.late = out.late]

(* call_shebang_script: ./script runs in the shell itself; only the flags     *)
(* come back, the options stay reset and assignments stay.                    *)
Script(b, s) ==
    LET out  == Input(b, [UnsetVar(s, "e") EXCEPT !.nested = @ + 1])
        code == IF out.exit # None THEN out.exit ELSE out.status
    IN  [out EXCEPT !.status = code, !.brk = s.brk, !.cont = s.cont, !.ret = s.ret, !.exit = s.exit,
                    !.supp = s.supp, !.locals = s.locals, !.exhausted = s.exhausted,
                    !.nested = s.nested, !.trapping = s.trapping]

(* xargs and find -exec: the command is run once per item, in this shell; the *)
(* status is the last failure.                                                *)
EachItem(b, n, s) ==
    LET run[i \in 0..n] ==
            IF i = 0 THEN [s |-> s, bad |-> 0]
            ELSE LET t == Input(b, run[i - 1].s)
                 IN  [s |-> t, bad |-> IF t.status # 0 THEN t.status ELSE run[i - 1].bad]
    IN  [run[n].s EXCEPT !.status = run[n].bad]

-----------------------------------------------------------------------------
(* Simple commands.                                                           *)

(* resolve_command: the commands of the runtime come before functions; a name *)
(* that is nothing else is an external, 127 when there is none.               *)
Resolve(c, s) ==
    IF s.funs[c.f] # <<>> /\ ~c.plain THEN Call(s.funs[c.f], s) ELSE [s EXCEPT !.status = 127]

Simple(c, s) ==
    CASE c.k = "status"   -> [s EXCEPT !.status = c.v]
      [] c.k = "echo"     -> [s EXCEPT !.out = Append(@, c.v), !.status = 0]
      [] c.k = "show"     -> [s EXCEPT !.out = Append(@, Get(s, c.x)), !.status = 0]
      [] c.k = "cd"       -> [s EXCEPT !.cwd = c.v, !.status = 0]
      [] c.k = "unset"    -> [UnsetVar(s, c.x) EXCEPT !.status = 0]
      [] c.k = "set_e"    -> [SetVar(s, "e", 1) EXCEPT !.status = 0]
      [] c.k = "trap"     -> [SetVar(s, c.t, c.v) EXCEPT !.status = 0]
      [] c.k = "alias"    -> [s EXCEPT !.aliases[c.f] = c.body, !.status = 0]
      [] c.k = "local"    -> [SetVar([s EXCEPT !.locals = Append(@, [x |-> c.x, old |-> Get(s, c.x)])],
                                     c.x, c.v) EXCEPT !.status = 0]
      [] c.k = "break"    -> [s EXCEPT !.brk = c.n, !.status = 0]
      [] c.k = "continue" -> [s EXCEPT !.cont = TRUE, !.status = 0]
      [] c.k = "return"   -> IF s.fstack = 0 THEN [s EXCEPT !.status = 1]
                             ELSE [s EXCEPT !.ret = c.v, !.status = c.v]
      [] c.k = "exit"     -> [s EXCEPT !.exit = c.v, !.status = c.v]
      [] c.k = "eval"     -> Input(c.body, s)
      [] c.k = "source"   -> [ReturnTrap(Input(c.body, [s EXCEPT !.nested = @ + 1]))
                                  EXCEPT !.nested = s.nested]
      [] c.k = "call"     -> Resolve(c, s)
      [] c.k = "child"    -> Isolated(c.body, TRUE, s)
      [] c.k = "script"   -> Script(c.body, s)
      [] c.k = "each"     -> EachItem(c.body, c.n, s)

(* execute_exec and execute_argv_command: a fatal expansion error asks to     *)
(* exit; an alias is run as input of its own; late notes a command that       *)
(* starts although one before it is unwinding.                                *)
Exec(c, s) ==
    LET noted == [s EXCEPT !.late = @ \/ ShouldStop(s)]
        lim   == CheckLimits(noted)
    IN  IF c.k = "fatal" THEN [noted EXCEPT !.status = 1, !.exit = 1]
        ELSE IF c.k = "call" /\ s.aliases[c.f] # <<>> THEN Input(s.aliases[c.f], noted)
        ELSE IF lim.exhausted THEN lim ELSE Simple(c, lim)

(* V=1 cmd: set, run, restore what was there, unless the command is export or *)
(* readonly of that name.                                                     *)
Prefixed(c, s) ==
    LET t == Exec(c.cmd, SetVar(s, c.x, c.v))
    IN  IF c.promoted THEN t ELSE SetVar(t, c.x, Get(s, c.x))

(* An assignment reports the status of the last substitution in it; the value *)
(* is what the substitution printed last.                                     *)
Assign(c, s) == [SetVar(s, c.x, c.v) EXCEPT !.status = 0]
Substitute(c, s) ==
    LET t == Isolated(c.body, FALSE, s)
    IN  SetVar([t EXCEPT !.out = s.out], c.x,
               IF Len(t.out) > Len(s.out) THEN t.out[Len(t.out)] ELSE 0)

(* execute_command_body.                                                      *)
Command(c, s) ==
    LET t == DebugTrap(s)
    IN  CASE c.k = "assign"   -> Assign(c, t)
          [] c.k = "element"  -> [SetElement(t, c.x, c.v) EXCEPT !.status = 0]
          [] c.k = "subst"    -> Substitute(c, t)
          [] c.k = "prefixed" -> Prefixed(c, t)
          [] c.k = "define"   -> [t EXCEPT !.funs[c.f] = c.body, !.status = 0]
          [] c.k = "if"       -> If(c, t)
          [] c.k \in {"while", "until", "arith_for"} -> Loop(c, t)
          [] c.k = "for"      -> ForEach(c, c.words, None, t)
          [] c.k = "select"   -> Replies(c, c.lines, t)
          [] c.k = "case"     -> Items(c, 1, FALSE, t)
          [] c.k = "group"    -> Body(c.body, t)
          [] c.k = "subshell" -> Subshell(c, t)
          [] c.k = "test"     -> [t EXCEPT !.status = IF Get(t, c.x) <= c.n THEN 0 ELSE 1]
          [] OTHER            -> Exec(c, t)

-----------------------------------------------------------------------------
(* A run of the session: ExecState::reset, the lists one by one, the EXIT     *)
(* trap if the script installed it or stopped.                                *)
Reset(s) ==
    [s EXCEPT !.brk = 0, !.cont = FALSE, !.ret = None, !.exit = None, !.supp = FALSE,
              !.exhausted = FALSE, !.nested = 0, !.trapping = 0, !.steps = 0, !.depth = 0,
              !.late = FALSE, !.out = <<>>]

RunScript(b, s) ==
    LET start == Reset(s)
        top[i \in 0..Len(b)] ==
            IF i = 0 THEN start
            ELSE IF top[i - 1].exit # None \/ top[i - 1].exhausted THEN top[i - 1]
            ELSE PostAndOr(b[i], Chain(b[i], top[i - 1]))
        end == top[Len(b)]
        normally == end.exit = None /\ ~end.exhausted /\ Get(end, "EXIT") = Get(start, "EXIT")
    IN  RunExitTrap(normally, end)

=============================================================================
