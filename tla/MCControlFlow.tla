---------------------------- MODULE MCControlFlow -----------------------------
(* Programs for ControlFlow, a second interpreter that unwinds by signals     *)
(* instead of flags, and the properties that compare the two.                 *)
EXTENDS ControlFlow, SequencesExt

-----------------------------------------------------------------------------
(* The grammar.                                                               *)

L(c)       == [first |-> [neg |-> FALSE, cmd |-> c], rest |-> <<>>]
Not(c)     == [first |-> [neg |-> TRUE, cmd |-> c], rest |-> <<>>]
Or(c, d)   == [first |-> [neg |-> FALSE, cmd |-> c],
               rest  |-> <<[op |-> "or", pipe |-> [neg |-> FALSE, cmd |-> d]]>>]
And(c, d)  == [first |-> [neg |-> FALSE, cmd |-> c],
               rest  |-> <<[op |-> "and", pipe |-> [neg |-> FALSE, cmd |-> d]]>>]
Echo(v)    == [k |-> "echo", v |-> v]
Show(x)    == [k |-> "show", x |-> x]
Status(v)  == [k |-> "status", v |-> v]
Set(x, v)  == [k |-> "assign", x |-> x, v |-> v]
Local(v)   == [k |-> "local", x |-> "x", v |-> v]
Le(x, n)   == [k |-> "test", x |-> x, n |-> n]
Break(n)   == [k |-> "break", n |-> n]
Continue   == [k |-> "continue"]
Return(v)  == [k |-> "return", v |-> v]
Exit(v)    == [k |-> "exit", v |-> v]
Fatal      == [k |-> "fatal"]
In(k, b)   == [k |-> k, body |-> b]
CallTo(f)  == [k |-> "call", f |-> f, plain |-> FALSE]
Def(f, b)  == [k |-> "define", f |-> f, body |-> b]
Trapping(t, i) == [k |-> "trap", t |-> t, v |-> i]
IfElse(c, b, d) == [k |-> "if", cond |-> <<L(c)>>, body |-> b, elifs |-> <<>>, orelse |-> d]

MCName     == {"x", "y", "e"} \cup Traps
MCHandlers == << <<L(Echo(7))>>, <<L(Exit(5)), L(Echo(8))>> >>

(* What ends a body early, by where it may stand.                             *)
LoopExits   == {Break(1), Break(2), Continue, Exit(4), Fatal}
(* A statement wrapped into the constructs an unwinding has to pass.          *)
Wraps(e) ==
    { IfElse(Status(0), <<L(e), L(Echo(2))>>, <<>>),
      [k |-> "if", cond |-> <<L(Status(1))>>, body |-> <<L(Echo(2))>>,
       elifs |-> << [cond |-> <<L(Le("y", 1))>>, body |-> <<L(e), L(Echo(3))>>] >>,
       orelse |-> <<L(Show("y"))>>],
      [k |-> "case", items |-> << [match |-> FALSE, body |-> <<L(Echo(2))>>, end |-> "break"],
                                  [match |-> TRUE, body |-> <<L(Set("x", 2))>>, end |-> "fall"],
                                  [match |-> FALSE, body |-> <<L(e), L(Echo(3))>>, end |-> "retest"],
                                  [match |-> TRUE, body |-> <<L(Echo(5))>>, end |-> "break"] >>],
      In("group", <<L(Status(1)), L(e), L(Echo(2))>>),
      In("eval", <<L(e), L(Echo(2))>>) }

Loops(b) ==
    { [k |-> "while", cond |-> <<L(Le("y", 1))>>, body |-> <<L(Set("y", 2))>> \o b],
      [k |-> "until", cond |-> <<Not(Le("y", 0))>>, body |-> <<L(Set("y", 1))>> \o b],
      [k |-> "arith_for", x |-> "y", n |-> 2, body |-> b],
      [k |-> "select", x |-> "y", words |-> <<1, 2>>, lines |-> <<2, 9, 1>>, body |-> b] }
Fors(b) == { [k |-> "for", x |-> "y", words |-> <<1, 2>>, body |-> b] }
Twice(b) == { [k |-> "for", x |-> "x", words |-> <<1, 2>>, body |-> <<L(l), L(Show("y"))>>]
                : l \in Loops(b) \cup Fors(b) }
           \cup { [k |-> "arith_for", x |-> "x", n |-> 2, body |-> <<L(l), L(Echo(6))>>]
                : l \in Loops(b) \cup Fors(b) }

(* Where a loop stands.                                                       *)
Frames(c) ==
    { <<L(c), L(Show("x"))>>,
      <<L(In("subshell", <<L(Set("x", 3)), L(c), L(Show("x"))>>)), L(Show("x"))>>,
      <<L(Def("f", <<L(Local(3)), L(c), L(Status(3))>>)), L(CallTo("f")), L(Show("x"))>>,
      <<L([k |-> "subst", x |-> "x", body |-> <<L(c), L(Show("y"))>>]), L(Show("x"))>> }
LoopPrograms ==
    UNION { Frames(c) : c \in UNION { Twice(<<L(w)>>) : w \in UNION { Wraps(e) : e \in LoopExits } } }

(* Functions: return through loops and frames, locals, redefinition, nesting. *)
FunctionBodies ==
    UNION { { <<L(Local(4)), L(w), L(Echo(4))>> : w \in Wraps(Return(2)) \cup {In("eval", <<L(Return(3))>>)} },
            { <<L(Local(4)), L(l), L(Echo(4))>> : l \in Loops(<<L(IfElse(Le("y", 1), <<L(Return(2))>>, <<>>)), L(Echo(3))>>) } }
FunctionPrograms ==
    UNION { { <<L(Set("x", 1)), L(Def("f", b)), And(CallTo("f"), Echo(1)), L(Show("x"))>>,
              <<L(Def("f", b)), L(Def("g", <<L(Set("x", 2)), L(CallTo("f")), L(Local(3)), L(CallTo("f")), L(Show("x"))>>)),
                Or(CallTo("g"), Echo(1)), L(Show("x"))>>,
              <<L(Def("f", b)), L([k |-> "prefixed", x |-> "x", v |-> 9, cmd |-> CallTo("f"), promoted |-> FALSE]), L(Show("x"))>>,
              <<L(Def("f", b)), L(In("subshell", <<L(Def("f", <<L(Echo(1))>>)), L(CallTo("f")), L(Set("x", 7))>>)),
                L(CallTo("f")), L(Show("x"))>>,
              <<L(In("child", <<L(Def("f", b)), L(CallTo("f")), L(Show("x"))>>)), L(CallTo("f"))>> }
            : b \in FunctionBodies }

(* errexit and traps.                                                         *)
Failures == {Status(1), In("subshell", <<L(Status(1)), L(Echo(2))>>), CallTo("f"), Fatal,
             In("child", <<L(Status(3))>>), In("group", <<L(Echo(2)), L(Status(1))>>),
             [k |-> "subst", x |-> "x", body |-> <<L(Echo(3)), L(Exit(6))>>]}
TrapPrograms ==
    { <<L(p), L(Def("f", <<L(Status(2))>>)), L(q), L(In(w, <<L(f), L(Echo(4))>>)), L(IfElse(f, <<L(Echo(5))>>, <<L(Echo(6))>>))>>
        : p \in {[k |-> "set_e"], Status(0)}, f \in Failures, w \in {"group", "subshell", "eval", "source"},
          q \in {Status(0), Trapping("EXIT", 1), Trapping("EXIT", 2), Trapping("ERR", 1), Trapping("DEBUG", 1)} }

(* The first run leaves a session behind: options, handlers, functions,       *)
(* variables, or a budget that ran out in the middle of a function.           *)
FirstPrograms ==
    { <<L([k |-> "set_e"]), L(Def("f", <<L(Status(2))>>))>>,
      <<L(Trapping("EXIT", 2)), L(Trapping("ERR", 1)), L(Set("x", 2)), L(Status(3))>>,
      <<L(Trapping("DEBUG", 1)), L(Def("f", <<L(Local(5)), L(Exit(4))>>)), L(In("subshell", <<L(CallTo("f"))>>)), L(CallTo("f"))>>,
      <<L(Def("g", <<L(Local(5)), L([k |-> "while", cond |-> <<L(Status(0))>>, body |-> <<L(Echo(1))>>])>>)),
        L(In("subshell", <<L(In("source", <<L(CallTo("g"))>>))>>)), L(Echo(2))>> }
MCPrograms == <<FirstPrograms, LoopPrograms \cup FunctionPrograms \cup TrapPrograms>>

-----------------------------------------------------------------------------
(* The reference: commands return a signal, frames hold the locals, a nested  *)
(* shell works on a copy.  A state is [st, env, out, funs, steps...]: env is  *)
(* a stack of partial functions, the globals first.                           *)

RECURSIVE RBody(_, _, _), RCmd(_, _, _), RLoop(_, _, _, _), RItems(_, _, _, _, _),
          RIf(_, _, _, _)

Go(s)        == [s |-> s, sig |-> <<"next">>]
Raise(s, g)  == [s |-> s, sig |-> g]
Then(r, F(_)) == IF r.sig[1] = "next" THEN F(r.s) ELSE r
St(s, v)     == [s EXCEPT !.st = v]

Holder(s, x) == LET has == {i \in 1..Len(s.env) : x \in DOMAIN s.env[i]}
                IN  IF has = {} THEN 1 ELSE CHOOSE i \in has : \A j \in has : j <= i
Val(s, x)    == IF x \in DOMAIN s.env[Holder(s, x)] THEN s.env[Holder(s, x)][x] ELSE 0
Put(s, i, x, v) == [s EXCEPT !.env[i] = [n \in DOMAIN @ \cup {x} |-> IF n = x THEN v ELSE @[n]]]
Write(s, x, v) == Put(s, Holder(s, x), x, v)
EmptyFrame   == [n \in {} |-> 0]

(* A handler runs outside of everything and leaves the status alone.          *)
Handle(x, t, s) ==
    IF x.trap \/ Val(s, t) = 0 THEN Go(s)
    ELSE LET r == RBody([x EXCEPT !.trap = TRUE], MCHandlers[Val(s, t)], s)
         IN  IF r.sig[1] = "exit" THEN r ELSE Go(St(r.s, s.st))

(* The end of a shell: its EXIT handler has the last word only if it exits.   *)
AtExit(x, r) ==
    IF x.trap \/ Val(r.s, "EXIT") = 0 THEN r.s
    ELSE LET h == RBody([x EXCEPT !.trap = TRUE, !.supp = FALSE], MCHandlers[Val(r.s, "EXIT")], r.s)
         IN  IF h.sig[1] = "exit" THEN h.s ELSE St(h.s, r.s.st)

RPipe(x, p, s) ==
    LET r == RCmd(x, p.cmd, s)
    IN  IF p.neg /\ r.sig[1] = "next" THEN Go(St(r.s, IF r.s.st = 0 THEN 1 ELSE 0)) ELSE r
RList(x, ao, s) ==
    LET r == RPipe(x, ao.first, s)
        a == FoldLeft(LAMBDA acc, e :
                 IF acc.sig[1] = "next" /\ ((e.op = "and") = (acc.s.st = 0))
                 THEN RPipe(x, e.pipe, acc.s) ELSE acc, r, ao.rest)
        bad(s2) == ~x.supp /\ s2.st # 0 /\ ao.rest = <<>> /\ ~ao.first.neg
    IN  Then(a, LAMBDA s2 : IF ~bad(s2) THEN Go(s2)
                            ELSE Then(IF x.nested THEN Go(s2) ELSE Handle(x, "ERR", s2),
                                      LAMBDA s3 : IF Val(s3, "e") = 1 THEN Raise(s3, <<"exit">>) ELSE Go(s3)))
RBody(x, b, s) ==
    IF b = <<>> THEN Go(s) ELSE Then(RList(x, Head(b), s), LAMBDA t : RBody(x, Tail(b), t))

Cond(x, b, s) == RBody([x EXCEPT !.supp = TRUE], b, s)

RIf(x, arms, orelse, s) ==
    IF arms = <<>> THEN (IF orelse = <<>> THEN Go(St(s, 0)) ELSE RBody(x, orelse, s))
    ELSE Then(Cond(x, Head(arms).cond, s),
              LAMBDA t : IF t.st = 0 THEN RBody(x, Head(arms).body, t) ELSE RIf(x, Tail(arms), orelse, t))

(* The steps of a loop are numbered; one that outlasts every budget is left.  *)
Fuel == StepLimit + 1
Enters(x, c, i, s) ==
    CASE c.k = "for"       -> [go |-> i <= Len(c.words), s |-> IF i <= Len(c.words) THEN Write(s, c.x, c.words[i]) ELSE s]
      [] c.k = "select"    -> [go |-> i <= Len(c.lines),
                               s  |-> IF i > Len(c.lines) THEN s
                                      ELSE Write(s, c.x, IF c.lines[i] \in 1..Len(c.words) THEN c.words[c.lines[i]] ELSE 0)]
      [] c.k = "arith_for" -> LET t == IF i = 1 THEN Write(s, c.x, 1) ELSE Write(s, c.x, Val(s, c.x) + 1)
                              IN  [go |-> Val(t, c.x) <= c.n, s |-> t]
      [] OTHER             -> LET r == Cond(x, c.cond, s)
                              IN  [go |-> (c.k = "while") = (r.s.st = 0), s |-> r.s]
RLoop(x, c, i, s) ==
    LET e == Enters(x, c, i, s)
        r == RBody(x, c.body, e.s)
    IN  IF i > Fuel THEN Raise(s, <<"exit">>)
        ELSE IF ~e.go THEN Go(St(e.s, IF i = 1 THEN (IF c.k = "select" THEN s.st ELSE 0) ELSE s.st))
        ELSE IF r.sig[1] = "break" THEN (IF r.sig[2] = 1 THEN Go(r.s) ELSE Raise(r.s, <<"break", r.sig[2] - 1>>))
        ELSE IF r.sig[1] \in {"next", "continue"} THEN RLoop(x, c, i + 1, r.s)
        ELSE r

RItems(x, c, i, fall, s) ==
    IF i > Len(c.items) THEN Go(s)
    ELSE IF ~fall /\ ~c.items[i].match THEN RItems(x, c, i + 1, FALSE, s)
    ELSE Then(RBody(x, c.items[i].body, s),
              LAMBDA t : IF c.items[i].end = "break" THEN Go(t)
                         ELSE RItems(x, c, i + 1, c.items[i].end = "fall", t))

(* A nested shell leaves its output and its status.                           *)
Nested(x, r, s) == Go([s EXCEPT !.st = r.st, !.out = r.out])

RCmd(x, c, s0) ==
    LET d == IF x.nested \/ c.k = "prefixed" THEN Go(s0) ELSE Handle(x, "DEBUG", s0)
        s == d.s
        child == [x EXCEPT !.nested = TRUE]
    IN  CASE c.k = "status" -> Go(St(s, c.v))
          [] c.k = "echo"   -> Go(St([s EXCEPT !.out = Append(@, c.v)], 0))
          [] c.k = "show"   -> Go(St([s EXCEPT !.out = Append(@, Val(s, c.x))], 0))
          [] c.k = "assign" -> Go(St(Write(s, c.x, c.v), 0))
          [] c.k = "test"   -> Go(St(s, IF Val(s, c.x) <= c.n THEN 0 ELSE 1))
          [] c.k = "set_e"  -> Go(St(Write(s, "e", 1), 0))
          [] c.k = "trap"   -> Go(St(Write(s, c.t, c.v), 0))
          [] c.k = "local"  -> Go(St(Put(s, Len(s.env), c.x, c.v), 0))
          [] c.k = "define" -> Go(St([s EXCEPT !.funs[c.f] = c.body], 0))
          [] c.k = "break"  -> Raise(St(s, 0), <<"break", c.n>>)
          [] c.k = "continue" -> Raise(St(s, 0), <<"continue">>)
          [] c.k = "return" -> Raise(St(s, c.v), <<"return">>)
          [] c.k \in {"exit", "fatal"} -> Raise(St(s, IF c.k = "exit" THEN c.v ELSE 1), <<"exit">>)
          [] c.k = "if" -> RIf(x, <<[cond |-> c.cond, body |-> c.body]>> \o c.elifs, c.orelse, s)
          [] c.k \in {"while", "until", "arith_for", "for", "select"} -> RLoop(x, c, 1, s)
          [] c.k = "case"   -> RItems(x, c, 1, FALSE, s)
          [] c.k \in {"group", "eval"} -> RBody(x, c.body, s)
          [] c.k = "source" -> RBody(child, c.body, s)
          [] c.k = "subshell" -> Nested(x, AtExit(x, RBody(x, c.body, Write(s, "EXIT", 0))), s)
          [] c.k = "child"  -> Nested(x, AtExit(child, RBody([child EXCEPT !.supp = FALSE], c.body, Write(s, "e", 0))), s)
          [] c.k = "subst"  -> LET r == AtExit(child, RBody(child, c.body, s))
                               IN  Go(Write(St(s, r.st), c.x,
                                            IF Len(r.out) > Len(s.out) THEN r.out[Len(r.out)] ELSE 0))
          [] c.k = "prefixed" ->
                LET r == RCmd(x, c.cmd, [s EXCEPT !.env = Append(@, (c.x :> c.v))])
                IN  [r EXCEPT !.s.env = Front(@)]
          [] c.k = "call" ->
                IF s.funs[c.f] = <<>> THEN Go(St(s, 127))
                ELSE LET r == RBody(child, s.funs[c.f], [s EXCEPT !.env = Append(@, EmptyFrame)])
                         t == [r EXCEPT !.s.env = Front(@)]
                     IN  IF r.sig[1] = "return" THEN Go(t.s) ELSE t

(* A run, from the globals of the session.                                    *)
RScript(b, from) ==
    LET start == [st |-> from.status, env |-> <<from.scopes[1]>>, out |-> <<>>, funs |-> from.funs]
        x     == [supp |-> FALSE, nested |-> FALSE, trap |-> FALSE]
        r     == RBody(x, b, start)
    IN  IF r.sig[1] = "next" /\ Val(r.s, "EXIT") = Val(start, "EXIT") THEN r.s ELSE AtExit(x, r)

-----------------------------------------------------------------------------
(* The session: one run after the other in one shell.                         *)

CONSTANTS
    Programs,            \* for each run of the session, the scripts it may be given
    Interpreter(_, _),   \* RunScript, the interpreter of the code
    Reference(_, _)      \* RScript, the one it is compared with

VARIABLES
    shell,   \* the shell between two runs
    last,    \* the script that ran last, and the shell it started from
    count    \* runs so far

vars == <<shell, last, count>>

Init ==
    /\ shell = FreshShell
    /\ last  = [prog |-> <<>>, from |-> FreshShell]
    /\ count = 0

Run(p) ==
    /\ shell' = Interpreter(p, shell)
    /\ last'  = [prog |-> p, from |-> shell]
    /\ count' = count + 1

Next == count < Len(Programs) /\ \E p \in Programs[count + 1] : Run(p)

Spec == Init /\ [][Next]_vars

(* The reference gives a child no EXIT handler of its parent; the programs    *)
(* that would notice are left out, and so are the runs in which a command of  *)
(* an && or || list started after one that was unwinding, and                 *)
(* functions under set -e, whose return is itself taken for a failure.        *)
RECURSIVE Forks(_)
Forks(b) ==
    \E i \in DOMAIN b :
        LET c == b[i].first.cmd
        IN  c.k \in {"child", "subst"} \/ ("body" \in DOMAIN c /\ Forks(c.body))
            \/ (c.k = "if" /\ Forks(c.cond))
Comparable ==
    /\ ~shell.late
    /\ Get(last.from, "e") = 1 => last.prog \notin FunctionPrograms
    /\ ~Forks(last.prog) \/ (Get(last.from, "EXIT") = 0 /\ Get(shell, "EXIT") = 0)

(* The flag-driven interpreter and the signal-driven reference agree on the   *)
(* output, the status, every variable and every function of a run, whatever   *)
(* breaks, continues, returns, exits, fails or is trapped in whatever nesting *)
(* of constructs; a run stopped by its step budget printed a prefix of what   *)
(* the whole run prints.                                                      *)
Agrees ==
    (count > 0 /\ Comparable) =>
        LET r == Reference(last.prog, last.from)
        IN  IF shell.exhausted THEN IsPrefix(shell.out, r.out)
            ELSE /\ shell.out = r.out /\ shell.status = r.st /\ shell.funs = r.funs
                 /\ \A n \in Name : Get(shell, n) = Val(r, n)

(* However a run ended (budget, exit from the middle of functions, subshells  *)
(* and loops), the next one starts from a shell with one scope, no function   *)
(* frame, no saved local, no pending frame count and no trap in progress.     *)
Unwound ==
    /\ Len(shell.scopes) = 1 /\ shell.fstack = 0 /\ shell.locals = <<>>
    /\ shell.depth = 0 /\ shell.nested = 0 /\ shell.trapping = 0 /\ ~shell.supp

=============================================================================
