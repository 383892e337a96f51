----------------------------- MODULE Redirections -----------------------------
(* Descriptors, redirections, output captures and process substitution of     *)
(* crates/wasmsh-runtime (fd_table.rs and the io half of lib.rs).             *)
(*                                                                            *)
(* A shell is a record: fs; out and err, what the host sees; io, the current  *)
(* descriptor table (set is FALSE when there is none); caps, the capture      *)
(* stack; sinks, the open write sinks; subs and ins, the scopes of >( ) and   *)
(* <( ); rem, the variable _STDIN_REMAINING (<< >> when unset); st, the last  *)
(* status.                                                                    *)
(*                                                                            *)
(* A command is [k, ...]: "write" bytes to a descriptor, "cat" its input,     *)
(* "readline", "save" bytes to the path of a >( ), "group" of commands,       *)
(* "capture" ($( ) whose text is printed), "bare" redirections.  A            *)
(* redirection is [op, fd, to]; to.k tells a path from <( ), >( ) and the     *)
(* descriptor or text that needs no opening.                                  *)
EXTENDS FileUtils

Out        == [k |-> "out"]
Err        == [k |-> "err"]
ToFile(i)  == [k |-> "file", i |-> i]
ToSub(p)   == [k |-> "sub", p |-> p]
Closed     == [k |-> "closed"]
Inherit    == [k |-> "inherit"]
Bytes(d)   == [k |-> "bytes", d |-> d]
FromFile(p)== [k |-> "path", p |-> p]

NoIo  == [set |-> FALSE, in |-> Inherit, out |-> Out, err |-> Err]
Shell(fs, noclobber, live) ==
    [fs |-> fs, out |-> << >>, err |-> << >>, io |-> NoIo, caps |-> << >>, sinks |-> << >>,
     subs |-> << >>, ins |-> << >>, ids |-> 0, rem |-> << >>, st |-> 0, noclobber |-> noclobber, live |-> live]

(* A message is one byte of the model.                                        *)
Message == <<"msg">>

-----------------------------------------------------------------------------
(* FdTable: three descriptors; whatever is not 0 or 2 counts as 1.            *)

(* Mutant of DupOutput: the descriptors become names of one another, so a     *)
(* later redirection of the first is followed by the second.                  *)
DupOutputLate(io, fd, of) == IF of = 2 THEN [io EXCEPT !.out = Err] ELSE [io EXCEPT !.err = Out]

OpenOutput(io, fd, t) == IF fd = 2 THEN [io EXCEPT !.err = t] ELSE [io EXCEPT !.out = t]
DupOutput(io, fd, of) == OpenOutput(io, fd, IF of = 2 THEN io.err ELSE io.out)
DupInput(io, fd, of)  == IF fd # 0 \/ of = 0 THEN io ELSE [io EXCEPT !.in = Closed]
CloseFd(io, fd) ==
    IF fd = 0 THEN [io EXCEPT !.in = Closed] ELSE OpenOutput(io, fd, Closed)

-----------------------------------------------------------------------------
(* Output.                                                                    *)

Visible(s, d, out) == IF out THEN [s EXCEPT !.out = @ \o d] ELSE [s EXCEPT !.err = @ \o d]

(* The innermost sink of that path, as a pair of indices; << >> if none.      *)
SubAt(s, p) ==
    LET hits == {h \in (1..Len(s.subs)) \X (1..10) :
                    h[2] <= Len(s.subs[h[1]]) /\ s.subs[h[1]][h[2]].path = p}
    IN  IF hits = {} THEN << >> ELSE CHOOSE h \in hits : \A g \in hits : g[1] <= h[1]

(* The text of a stream that is inherited: the innermost capture of it, or    *)
(* what the host will see.                                                    *)
Capturing(s, out) == {i \in 1..Len(s.caps) : IF out THEN s.caps[i].o ELSE s.caps[i].e}
Innermost(s, out) == CHOOSE i \in Capturing(s, out) : \A j \in Capturing(s, out) : j <= i
Written(s, out) ==
    IF Capturing(s, out) = {} THEN (IF out THEN s.out ELSE s.err)
    ELSE LET c == s.caps[Innermost(s, out)] IN IF out THEN c.out ELSE c.err
Rewrite(s, out, d) ==
    IF Capturing(s, out) = {} THEN (IF out THEN [s EXCEPT !.out = d] ELSE [s EXCEPT !.err = d])
    ELSE IF out THEN [s EXCEPT !.caps[Innermost(s, out)].out = d]
    ELSE [s EXCEPT !.caps[Innermost(s, out)].err = d]

(* route_output: a descriptor that was redirected wins over the captures;     *)
(* what is inherited goes to the innermost capture of that stream.            *)
Route(s, d, out) ==
    LET t    == IF ~s.io.set THEN (IF out THEN Out ELSE Err) ELSE IF out THEN s.io.out ELSE s.io.err
        w    == SinkWrite(s.fs, s.sinks[t.i], d)
        at   == SubAt(s, t.p)
        o    == t.k = "out"
    IN  CASE t.k = "closed" -> s
          [] t.k = "file" ->
                IF w.err = "ok" THEN [s EXCEPT !.fs = w.fs, !.sinks[t.i] = w.sink]
                ELSE Visible(s, Message, FALSE)
          [] t.k = "sub" ->
                IF at = << >> THEN Visible(s, Message, FALSE)
                ELSE [s EXCEPT !.subs[at[1]][at[2]].data = @ \o d]
          [] OTHER -> Rewrite(s, o, Written(s, o) \o d)

Complain(s) == [Route(s, Message, FALSE) EXCEPT !.st = 1]

-----------------------------------------------------------------------------
(* Input: whoever takes standard input leaves Inherit behind.                 *)

TakeInput(s) ==
    LET t == s.io.in
        r == ReadBytes(s.fs, t.p)
        n == [s EXCEPT !.io.in = Inherit]
        took(u, d) == [s |-> u, ok |-> TRUE, given |-> TRUE, d |-> d]
    IN  CASE ~s.io.set \/ t.k \in {"inherit", "closed"} -> [took(n, << >>) EXCEPT !.given = FALSE]
          [] t.k = "bytes" -> took(n, t.d)
          [] OTHER -> IF r.err = "ok" THEN took([n EXCEPT !.fs = r.fs], r.data)
                      ELSE [took(Complain([n EXCEPT !.fs = r.fs]), << >>) EXCEPT !.ok = FALSE]

(* read takes one byte (a line) of its input, or of what the last read left   *)
(* when it is given none, and keeps the rest in the variable and as the input *)
(* of the scope, making a descriptor table where there was none.              *)
ReadLine(t) ==
    LET d    == IF t.given \/ t.s.rem = << >> THEN t.d ELSE t.s.rem[1]
        rem  == IF d # << >> THEN <<Tail(d)>> ELSE IF t.given THEN <<<< >>>> ELSE t.s.rem
        kept == IF rem = << >> THEN t.s
                ELSE [t.s EXCEPT !.rem = rem, !.io.set = TRUE, !.io.in = Bytes(rem[1])]
    IN  IF d = << >> THEN [kept EXCEPT !.st = 1] ELSE [Route(kept, <<Head(d)>>, TRUE) EXCEPT !.st = 0]

-----------------------------------------------------------------------------
(* Process substitution.  The path is a fresh name below /tmp.                *)

SubPath(n) == <<"tmp", ToString(n)>>

(* <( ): live, a reader is installed and its output produced when it is read; *)
(* otherwise the text is stored first, and a failure to store is not noticed. *)
SubstIn(s, text) ==
    LET p == SubPath(s.ids)
        i == InstallReader(s.fs, p, text)
        f == IF s.live /\ i.err = "ok" THEN i.fs ELSE WriteBytes(IF s.live THEN i.fs ELSE s.fs, p, text).fs
    IN  [s EXCEPT !.fs = f, !.ids = @ + 1, !.ins[Len(s.ins)] = Append(@, p)]
SubstOut(s) ==
    [s EXCEPT !.ids = @ + 1, !.subs[Len(s.subs)] = Append(@, [path |-> SubPath(s.ids), data |-> << >>])]

(* flush_process_subst_out, the consumer being one that copies: what was      *)
(* written to the path as a file stands in when nothing came by redirection;  *)
(* the status of the command is kept.                                         *)
FlushOut(s, sub) ==
    LET r == ReadBytes(s.fs, sub.path)
        f == IF r.err = "ok" THEN RemoveFile(r.fs, sub.path).fs ELSE r.fs
        d == IF sub.data = << >> \/ s.live THEN sub.data \o r.data ELSE sub.data
    IN  [Route([s EXCEPT !.fs = f], d, TRUE) EXCEPT !.st = s.st]

(* Mutant of FlushScopes: the paths of <( ) stay.                             *)
FlushScopesOut(s) == FoldLeft(FlushOut, [s EXCEPT !.subs = Front(@), !.ins = Front(@)], Last(s.subs))

FlushScopes(s) ==
    LET outs == FoldLeft(FlushOut, [s EXCEPT !.subs = Front(@), !.ins = Front(@)], Last(s.subs))
    IN  FoldLeft(LAMBDA a, p : [a EXCEPT !.fs = RemoveFile(@, p).fs], outs, Last(s.ins))

-----------------------------------------------------------------------------
(* Redirections, left to right on a copy of the table: [s, io, ok].           *)

(* &> and &>> name no descriptor: both outputs share one sink.                *)
Both == 12
Attach(io, fd, t) == IF fd = Both THEN OpenOutput(OpenOutput(io, 1, t), 2, t) ELSE OpenOutput(io, fd, t)

OpenWrite(s, p, append, clear) ==
    LET at == SubAt(s, p)
        w  == OpenWriteSink(s.fs, p, append)
        id == Len(s.sinks) + 1
        wiped == IF clear /\ ~s.live THEN [s EXCEPT !.subs[at[1]][at[2]].data = << >>] ELSE s
    IN  IF at # << >> THEN [s |-> wiped, t |-> ToSub(p), ok |-> TRUE]
        ELSE IF w.err = "ok" THEN [s |-> [s EXCEPT !.fs = w.fs, !.sinks = Append(@, w.sink)], t |-> ToFile(id), ok |-> TRUE]
        ELSE [s |-> Complain([s EXCEPT !.fs = w.fs]), t |-> Closed, ok |-> FALSE]

Substituted(s, r) ==
    CASE r.op \in {"in", "out", "clobber", "append"} /\ r.to.k = "subin"  -> SubstIn(s, r.to.text)
      [] r.op \in {"in", "out", "clobber", "append"} /\ r.to.k = "subout" -> SubstOut(s)
      [] OTHER -> s

Redirect(a, r) ==
    LET s == Substituted(a.s, r)
        p == IF r.to.k = "path" THEN At(r.to.p) ELSE SubPath(a.s.ids)
        w == OpenWrite(s, p, r.op = "append", r.op # "append")
    IN  IF ~a.ok THEN a
        ELSE CASE r.op = "here"  -> [a EXCEPT !.io.in = Bytes(r.to.text)]
               [] r.op = "dup"   -> [a EXCEPT !.io = DupOutput(@, r.fd, r.to.n)]
               [] r.op = "dupin" -> [a EXCEPT !.io = DupInput(@, r.fd, r.to.n)]
               [] r.op = "close" -> [a EXCEPT !.io = CloseFd(@, r.fd)]
               [] r.op = "in" ->
                     IF Stat(s.fs, p) = "file" THEN [a EXCEPT !.s = s, !.io.in = FromFile(p)]
                     ELSE [a EXCEPT !.s = Complain(s), !.ok = FALSE]
               [] r.op = "out" /\ s.noclobber /\ Exists(s.fs, p) -> [a EXCEPT !.s = Complain(s), !.ok = FALSE]
               [] OTHER ->
                     IF w.ok THEN [a EXCEPT !.s = w.s, !.io = Attach(@, r.fd, w.t)]
                     ELSE [a EXCEPT !.s = w.s, !.ok = FALSE]

PrepareIo(s, redirs) ==
    FoldLeft(Redirect, [s |-> s, io |-> [s.io EXCEPT !.set = TRUE], ok |-> TRUE], redirs)

(* with_exec_io_scope: outputs are restored, the input the command left is    *)
(* handed to the enclosing table if there is one.                             *)
Restored(saved, s) ==
    [s EXCEPT !.io = IF saved.set THEN [saved EXCEPT !.in = s.io.in] ELSE saved]

(* The redirections of a command in the subset of the virtual machine: > and  *)
(* >> of standard output to a path.                                           *)
VmRedirect(a, r) ==
    LET p == At(r.to.p)
        w == OpenWriteSink(a.s.fs, p, r.op = "append")
    IN  CASE ~a.ok -> a
          [] r.op = "out" /\ a.s.noclobber /\ Exists(a.s.fs, p) -> [a EXCEPT !.s = Complain(@), !.ok = FALSE]
          [] w.err # "ok" -> [a EXCEPT !.s = Complain([@ EXCEPT !.fs = w.fs]), !.ok = FALSE]
          [] OTHER -> [a EXCEPT !.s.fs = w.fs, !.s.sinks = Append(@, w.sink),
                                !.io = OpenOutput(@, 1, ToFile(Len(a.s.sinks) + 1))]
VmPrepareIo(s, redirs) ==
    FoldLeft(VmRedirect, [s |-> s, io |-> [s.io EXCEPT !.set = TRUE], ok |-> TRUE], redirs)

(* apply_redirections, for a command that is nothing but redirections: what   *)
(* was written already is moved, the standard output of this command (from    *)
(* where the stream stood) or all of the pending standard error.  Only a      *)
(* refusal to overwrite ends it: [s, from, ok].                               *)
Move(s, out, from) ==
    LET d == Written(s, out)
    IN  [s |-> Rewrite(s, out, SubSeq(d, 1, from)), d |-> SubSeq(d, from + 1, Len(d))]
Moved(s, fd, from) ==
    LET o == Move(s, TRUE, from)
        e == Move(IF fd = Both THEN o.s ELSE s, FALSE, 0)
    IN  CASE fd = Both -> [s |-> e.s, d |-> o.d \o e.d]
          [] fd = 2    -> e
          [] OTHER     -> o
WriteToFile(s, p, d, mode) ==
    LET o == Open(s.fs, p, mode)
        w == WriteFile(o.fs, o.h, d)
        u == [s EXCEPT !.fs = Close(w.fs, o.h)]
    IN  IF o.err # "ok" THEN Route([s EXCEPT !.fs = o.fs], Message, FALSE)
        ELSE IF w.err # "ok" THEN Route(u, Message, FALSE)
        ELSE u
BareOne(a, r) ==
    LET s   == Substituted(a.s, r)
        p   == IF r.to.k = "path" THEN At(r.to.p) ELSE SubPath(a.s.ids)
        m   == Moved(s, r.fd, a.from)
        at  == SubAt(s, p)
        old == IF r.op = "append" \/ s.live THEN s.subs[at[1]][at[2]].data ELSE << >>
    IN  CASE ~a.ok -> a
          [] r.op = "close" /\ r.fd # 0 -> [a EXCEPT !.s = m.s]
          [] r.op = "dup" /\ {r.fd, r.to.n} = {1, 2} -> [a EXCEPT !.s = Route(m.s, m.d, r.fd = 2)]
          [] r.op \notin {"out", "clobber", "append"} -> [a EXCEPT !.s = s]
          [] r.op = "out" /\ s.noclobber /\ Exists(s.fs, p) -> [a EXCEPT !.s = Complain(s), !.ok = FALSE]
          [] at # << >> -> [a EXCEPT !.s = [m.s EXCEPT !.subs[at[1]][at[2]].data = old \o m.d]]
          [] OTHER -> [a EXCEPT !.s = WriteToFile(m.s, p, m.d, IF r.op = "append" THEN "append" ELSE "write")]
Bare(s, redirs) ==
    [FoldLeft(BareOne, [s |-> s, from |-> Len(Written(s, TRUE)), ok |-> TRUE], redirs).s EXCEPT !.st = 0]

-----------------------------------------------------------------------------
(* Commands.                                                                  *)

RECURSIVE Perform(_, _), Body(_, _)
Body(s, cs) == IF cs = << >> THEN s ELSE Body(Perform(s, Head(cs)), Tail(cs))

(* $( ): a table, captures and scopes of its own; both streams are captured,  *)
(* standard error is then passed on and the text is the result.               *)
Capture(s, body) ==
    LET in == Body([s EXCEPT !.io = NoIo, !.subs = << >>, !.ins = << >>,
                             !.caps = Append(@, [o |-> TRUE, e |-> TRUE, out |-> << >>, err |-> << >>])], body)
        cap == Last(in.caps)
        back == [in EXCEPT !.io = s.io, !.rem = s.rem, !.subs = s.subs, !.ins = s.ins, !.caps = Front(@)]
    IN  Route(Route(back, cap.err, FALSE), cap.out, TRUE)

(* A builtin or a utility has taken its input before it starts, so what it    *)
(* does not read is gone.                                                     *)
Served(t, c) ==
    CASE ~t.ok          -> t.s
      [] c.k = "write"    -> [Route(t.s, c.d, c.fd = 1) EXCEPT !.st = 0]
      [] c.k = "cat"      -> [Route(t.s, t.d, TRUE) EXCEPT !.st = 0]
      [] c.k = "readline" -> ReadLine(t)
      [] c.k = "save"     -> LET w == WriteBytes(t.s.fs, SubPath(t.s.ids), c.d)
                             IN  [SubstOut(t.s) EXCEPT !.fs = w.fs, !.st = IF w.err = "ok" THEN 0 ELSE 1]

(* The virtual machine runs a builtin with plain output redirections: its     *)
(* input is taken before they are opened, and no scope is pushed.             *)
InVm(c) ==
    /\ c.k \in {"write", "readline"}
    /\ \A r \in Range(c.redirs) : r.op \in {"out", "append"} /\ r.fd = 1 /\ r.to.k = "path"
PerformVm(s, c) ==
    LET t   == TakeInput(s)
        pre == VmPrepareIo(t.s, c.redirs)
    IN  IF ~t.ok \/ c.redirs = << >> THEN Served(t, c)
        ELSE IF ~pre.ok THEN pre.s
        ELSE Restored(t.s.io, Served([t EXCEPT !.s = [pre.s EXCEPT !.io = pre.io]], c))

(* execute_command: the scopes of this command's substitutions are flushed    *)
(* however it ends.                                                           *)
Perform(s0, c) ==
    LET s   == [s0 EXCEPT !.subs = Append(@, << >>), !.ins = Append(@, << >>)]
        pre == PrepareIo(s, c.redirs)
        run(t) == CASE c.k = "group"    -> Body(t, c.body)
                    [] c.k = "capture"  -> Capture(t, c.body)
                    [] OTHER            -> Served(TakeInput(t), c)
    IN  IF InVm(c) THEN PerformVm(s0, c)
        ELSE FlushScopes(IF c.k = "bare" THEN Bare(s, c.redirs)
                         ELSE IF c.redirs = << >> THEN run(s)
                         ELSE IF ~pre.ok THEN pre.s
                         ELSE Restored(s.io, run([pre.s EXCEPT !.io = pre.io])))

=============================================================================
