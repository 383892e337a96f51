---------------------------- MODULE MCRedirections ----------------------------
(* Redirected commands run one after the other, next to a reference that has  *)
(* no descriptor tables, captures or scopes to keep in order: there every     *)
(* command is given the places its three descriptors stand for, an input is   *)
(* a shared position in a text, and nothing has to be restored.               *)
EXTENDS Redirections

CONSTANTS
    MaxCommands,    \* commands per session
    x, y, zero,     \* bytes, as model values
    Tree,               \* the file system sessions start on
    Interpreter(_, _),  \* Perform
    Reference(_, _, _)  \* Ref

VARIABLES sh, ref, done

vars == <<sh, ref, done>>

NoNames == << >>

-----------------------------------------------------------------------------
(* The reference: files, what the host saw, texts being read, texts of >( ).  *)

Host(n)  == [k |-> "host", n |-> n]
InFile(p)== [k |-> "file", p |-> p]
InBuf(n) == [k |-> "buf", n |-> n]
Nowhere  == [k |-> "none"]
Top      == [in |-> 0, out |-> Host(1), err |-> Host(2)]

Put(g, place, d) ==
    CASE place.k = "host" -> IF place.n = 1 THEN [g EXCEPT !.out = @ \o d] ELSE [g EXCEPT !.err = @ \o d]
      [] place.k = "file" -> [g EXCEPT !.files[place.p] = @ \o d]
      [] place.k = "buf"  -> [g EXCEPT !.bufs[place.n] = @ \o d]
      [] OTHER -> g
RestOf(g, n) ==
    IF n = 0 THEN << >>
    ELSE LET t == g.ins[n]
             d == IF t.k = "text" THEN t.d ELSE g.files[t.p]
         IN  SubSeq(d, t.off + 1, Len(d))
Advance(g, n, by) == IF n = 0 THEN g ELSE [g EXCEPT !.ins[n].off = @ + by]

Refuse(a) == [a EXCEPT !.ok = FALSE, !.g = [Put(@, a.outer.err, Message) EXCEPT !.st = 1]]
Set(env, fd, place) ==
    CASE fd = Both -> [env EXCEPT !.out = place, !.err = place]
      [] fd = 2 -> [env EXCEPT !.err = place]
      [] OTHER -> [env EXCEPT !.out = place]
RefOpen(a, r) ==
    LET p == r.to.p.to
        text(t) == [a EXCEPT !.g.ins = Append(@, t), !.env.in = Len(a.g.ins) + 1]
        opened  == [a EXCEPT !.g.files = (p :> (IF r.op = "append" /\ p \in DOMAIN @ THEN @[p] ELSE << >>)) @@ @,
                             !.env = Set(@, r.fd, InFile(p))]
    IN  CASE ~a.ok -> a
          [] r.op = "here"  -> text([k |-> "text", d |-> r.to.text, off |-> 0])
          [] r.op = "dup"   -> [a EXCEPT !.env = Set(@, r.fd, IF r.to.n = 2 THEN @.err ELSE @.out)]
          [] r.op = "close" /\ r.fd = 0 -> [a EXCEPT !.env.in = 0]
          [] r.op = "close" -> [a EXCEPT !.env = Set(@, r.fd, Nowhere)]
          [] r.to.k = "subin"  -> text([k |-> "text", d |-> r.to.text, off |-> 0])
          [] r.to.k = "subout" -> [a EXCEPT !.g.bufs = Append(@, << >>),
                                            !.env = Set(@, r.fd, InBuf(Len(a.g.bufs) + 1))]
          [] r.op = "in" -> IF p \in DOMAIN a.g.files THEN text([k |-> "file", p |-> p, off |-> 0]) ELSE Refuse(a)
          [] p = <<"d">> -> Refuse(a)
          [] r.op = "out" /\ a.g.noclobber /\ p \in DOMAIN a.g.files -> Refuse(a)
          [] OTHER -> opened

RECURSIVE Ref(_, _, _), RefBody(_, _, _)
RefBody(g, env, cs) == IF cs = << >> THEN g ELSE RefBody(Ref(g, env, Head(cs)), env, Tail(cs))
Ref(g0, env, c) ==
    LET a    == FoldLeft(RefOpen, [g |-> g0, env |-> env, outer |-> env, ok |-> TRUE], c.redirs)
        g    == a.g
        rest == RestOf(g, a.env.in)
        buf  == Len(g.bufs) + 1
        cap  == RefBody([g EXCEPT !.bufs = Append(@, << >>)], [in |-> 0, out |-> InBuf(buf), err |-> a.env.err], c.body)
        ran  == CASE c.k = "write" -> [Put(g, IF c.fd = 1 THEN a.env.out ELSE a.env.err, c.d) EXCEPT !.st = 0]
                  [] c.k = "cat"   -> [Advance(Put(g, a.env.out, rest), a.env.in, Len(rest)) EXCEPT !.st = 0]
                  [] c.k = "readline" ->
                        IF rest = << >> THEN [g EXCEPT !.st = 1]
                        ELSE [Advance(Put(g, a.env.out, <<Head(rest)>>), a.env.in, 1) EXCEPT !.st = 0]
                  [] c.k = "save"  -> [g EXCEPT !.bufs = Append(@, c.d), !.st = 0]
                  [] c.k = "group" -> RefBody(g, a.env, c.body)
                  [] c.k = "capture" -> Put(cap, a.env.out, cap.bufs[buf])
                  [] c.k = "bare" -> [g EXCEPT !.st = 0]
        told == IF a.ok \/ c.k = "bare" THEN ran ELSE g
        mine == (Len(g0.bufs) + 1)..Len(told.bufs)
        over == IF c.k = "capture" THEN mine \ {buf} ELSE mine
        res  == FoldLeft(LAMBDA h, n : Put(h, env.out, h.bufs[n]), told, SetToSortSeq(over, <))
    IN  [res EXCEPT !.bufs = SubSeq(@, 1, Len(g0.bufs)), !.ins = SubSeq(@, 1, Len(g0.ins))]

-----------------------------------------------------------------------------
(* The commands of a session, over a file f that may exist, a file g that     *)
(* does and a directory d.                                                    *)

P(n)         == [k |-> "path", p |-> [abs |-> TRUE, to |-> <<n>>]]
R(op, fd, t) == [op |-> op, fd |-> fd, to |-> t]
N(n)         == [k |-> "fd", n |-> n]
Text(t)      == [k |-> "text", text |-> t]
ToFiles == {R("out", 1, P("f")), R("append", 1, P("f")), R("clobber", 1, P("f")), R("out", 2, P("f")),
            R("append", Both, P("f")), R("out", 1, P("d"))}
ToOther == {R("dup", 1, N(2)), R("dup", 2, N(1)), R("close", 1, N(0)), R("out", 1, [k |-> "subout"]), R("out", 2, [k |-> "subout"])}
Inputs  == {R("in", 0, P("g")), R("in", 0, P("f")), R("here", 0, Text(<<x, y>>)), R("close", 0, N(0)),
            R("in", 0, [k |-> "subin", text |-> <<y, x, x>>])}
Redirs  == ToFiles \cup ToOther \cup Inputs
Pairs   == {q \in Redirs \X Redirs : ~(q[1] \in ToFiles /\ q[2] \in ToFiles)}
Lists   == {<< >>} \cup {<<r>> : r \in Redirs} \cup Pairs

K(k, rs) == [k |-> k, redirs |-> rs, fd |-> 1, d |-> <<x>>, body |-> << >>]
Atom(rs) == {K("write", rs), [K("write", rs) EXCEPT !.fd = 2, !.d = <<y>>], K("cat", rs), K("readline", rs), K("save", rs)}
Simple   == UNION {Atom(rs) : rs \in Lists}
Inner    == UNION {Atom(rs) : rs \in {<< >>} \cup {<<r>> : r \in ToOther}}
Block2(k, rs, c, d) == [K(k, rs) EXCEPT !.body = <<c, d>>]
NoInput(c) == c.k \notin {"cat", "readline"}
(* Whoever starts takes the input of its scope and drops what it does not     *)
(* read (lib.rs:8211, 10148), so `{ echo; cat; } < g` copies nothing: left    *)
(* out of the sessions.                                                       *)
InputLost(b) == b.redirs[1] \in Inputs /\ NoInput(b.body[1]) /\ ~NoInput(b.body[2])
Groups   == {b \in {Block2("group", <<r>>, c, d) : r \in Redirs, c \in Inner, d \in Atom(<< >>)} : ~InputLost(b)}
Captures == {Block2("capture", <<r>>, c, d) : r \in Redirs, c \in {c \in Inner : NoInput(c)}, d \in {K("write", << >>)}}
(* Redirections alone.  Those that move the standard error of earlier         *)
(* commands (2> and 2>&1) and those that go on after a path that cannot be    *)
(* opened are left out.                                                       *)
BareAny  == {R("out", 1, P("g")), R("append", 1, P("g")), R("dup", 1, N(2)), R("close", 1, N(0)), R("in", 0, P("g")),
             R("out", 1, [k |-> "subout"]), R("append", 1, [k |-> "subout"])}
BareLast == {R("out", 1, P("f")), R("append", 1, P("f")), R("clobber", 1, P("f")), R("out", 1, P("d"))}
Bares    == {K("bare", <<r>>) : r \in BareLast} \cup {K("bare", q) : q \in BareAny \X BareLast}
Typed    == Simple \cup Groups \cup Captures \cup Bares
(* What may have happened before: files written, refused or not.              *)
Before   == {K("bare", <<r>>) : r \in BareLast} \cup UNION {Atom(<<r>>) : r \in ToFiles}

Start == WriteBytes(CreateDir(EmptyFs, <<"d">>).fs, <<"g">>, <<x, y>>).fs
Init ==
    /\ \E noclobber, live \in BOOLEAN :
        /\ sh = Shell(Tree, noclobber, live)
        /\ ref = [files |-> (<<"g">> :> <<x, y>>), out |-> << >>, err |-> << >>, ins |-> << >>, bufs |-> << >>,
                  st |-> 0, noclobber |-> noclobber]
    /\ done = 0
(* The counters of fresh names and handles are started over: nothing refers   *)
(* to the old ones.                                                           *)
Run(c) == sh' = [Interpreter(sh, c) EXCEPT !.ids = 0, !.sinks = << >>, !.fs.next = 1] /\ ref' = Reference(ref, Top, c)
Next ==
    /\ done < MaxCommands /\ done' = done + 1
    /\ \E c \in IF done + 1 = MaxCommands THEN Typed ELSE Before : Run(c)
Spec == Init /\ [][Next]_vars

-----------------------------------------------------------------------------
Regular == {p \in DOMAIN sh.fs.nodes : Len(p) = 1 /\ sh.fs.nodes[p].t = "file"}

(* Every byte ends where its descriptor leads, in the order it was written,   *)
(* and the status is the command's own: whatever is redirected, duplicated,   *)
(* closed, substituted or captured around it, and whether a redirection of    *)
(* the command is refused half way.                                           *)
Routed ==
    /\ sh.out = ref.out /\ sh.err = ref.err /\ sh.st = ref.st
    /\ Regular = DOMAIN ref.files
    /\ \A p \in Regular : sh.fs.nodes[p].data = ref.files[p]

(* A command leaves no substitution path, reader, open handle, capture, scope *)
(* or descriptor table behind, however it ended.                              *)
NoLeftovers ==
    /\ \A p \in DOMAIN sh.fs.nodes : Len(p) < 2
    /\ sh.fs.readers = << >> /\ sh.fs.handles = << >>
    /\ sh.caps = << >> /\ sh.subs = << >> /\ sh.ins = << >> /\ sh.io = NoIo

=============================================================================
