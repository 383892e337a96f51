------------------------------- MODULE MCFiles --------------------------------
(* Sessions on a small memory file system: utilities one after the other,     *)
(* with write sinks and installed readers of running processes between them,  *)
(* and redirected commands run from every state they can leave.               *)
EXTENDS Redirections

CONSTANTS
    MaxCommands,    \* commands per session
    Plain,          \* bytes to write
    x, zero,        \* model values
    Trees,          \* the file systems sessions start on
    Utilities(_, _),      \* a command applied to a file system
    Reader(_, _),         \* ReadBytes
    Installer(_, _, _),   \* InstallReader
    SinkOpener(_, _, _),  \* OpenWriteSink
    Walks(_),             \* what the walks of a file system show
    Archived(_),          \* a directory packed, and unpacked elsewhere
    Reached(_, _)         \* where a command may change something

VARIABLES fs, sink, last, left

TempNames == <<"t", "u">>
TwoBytes  == <<x, zero>>

vars == <<fs, sink, last, left>>

-----------------------------------------------------------------------------
(* What a session types.                                                      *)

Abs(p)  == [abs |-> TRUE, to |-> p]
Rel(p)  == [abs |-> FALSE, to |-> p]
A       == Abs(<<"a">>)
AB      == Abs(<<"a", "b">>)
B       == Abs(<<"b">>)
L       == Rel(<<"l">>)
LB      == Rel(<<"l", "b">>)
AAB     == Rel(<<"a", "..", "a", "a", "b">>)
None    == << >>
AnyName == [names |-> {"a", "b", "l", "z", "tmp", "t", "u", "s"}, type |-> "any", empty |-> FALSE, neg |-> FALSE, max |-> -1, min |-> 0]

C(u, o, a) == [u |-> u, opts |-> o, args |-> a]
Commands ==
    { C("mkdir", {}, <<A>>), C("mkdir", {"p"}, <<AAB>>), C("mkdir", {}, <<AB, B>>),
      C("touch", {}, <<AB>>), C("touch", {"ac"}, <<B, LB>>), C("touch", {"c"}, <<LB>>),
      C("rm", {}, <<A, L>>), C("rm", {"r"}, <<A>>), C("rm", {"r", "f"}, <<L, B>>), C("rm", {}, None),
      C("mv", {}, <<B, A>>), C("mv", {}, <<AB, L>>), C("mv", {"n"}, <<L, B>>),
      C("cp", {}, <<B, L, A>>), C("cp", {"r"}, <<A, B>>), C("cp", {"f"}, <<AB, B>>), C("cp", {"s"}, <<A, L>>),
      C("ln", {"s"}, <<A, L>>), C("ln", {"s"}, <<Rel(<<"b">>), L>>), C("ln", {"s", "f"}, <<Rel(<<"l">>), L>>),
      C("ln", {}, <<B, AB>>),
      C("chmod", {"R"}, <<A>>), C("chmod", {}, <<L, B>>),
      C("mktemp", {}, <<A>>), C("mktemp", {"d"}, <<Abs(<<"tmp">>)>>),
      C("delete", {}, <<A>>), C("delete", {"d"}, <<Abs(Root)>>), C("delete", {"e"}, <<Abs(Root)>>),
      C("gzip", {}, <<B>>), C("gzip", {"d"}, <<Abs(<<"z">>)>>),
      C("tar", {"c"}, <<Abs(Root), B>>), C("tar", {"x"}, <<A>>),
      C("tar", {"c", "z"}, <<A, Rel(<<"b">>), Rel(<<"..", "b">>)>>), C("tar", {"c", "z"}, <<Abs(Root), B, Rel(<<"a">>)>>),
      C("tar", {"c", "z", "e"}, <<Abs(Root), Rel(<<"a">>), L>>),
      C("tar", {"x", "z"}, <<A>>), C("tar", {"x", "z"}, <<Abs(Root)>>),
      C("unzip", {}, <<A>>), C("unzip", {"o"}, <<L>>) }

Members == << [name |-> <<"b">>, dir |-> FALSE, data |-> <<Zero>>],
              [name |-> <<"..", "..", "b">>, dir |-> FALSE, data |-> <<Zero, Zero>>],
              [name |-> <<"a">>, dir |-> TRUE, data |-> << >>] >>

(* tar -f /z -C args[1], with --exclude=b under "e".                          *)
Archive     == <<"z">>
Excludes(c) == IF "e" \in c.opts THEN {Rel(<<"b">>)} ELSE {}

FilterOf(opts) == [AnyName EXCEPT !.type = IF "d" \in opts THEN "d" ELSE "any", !.empty = "e" \in opts]
Apply(f, c) ==
    LET at == At(c.args[1])
    IN
    CASE c.u = "mkdir"  -> Mkdir(f, c.opts, c.args)
      [] c.u = "touch"  -> Touch(f, c.opts, c.args)
      [] c.u = "rm"     -> Rm(f, c.opts, c.args)
      [] c.u = "mv"     -> Mv(f, c.opts, c.args)
      [] c.u = "cp"     -> Cp(f, c.opts, c.args)
      [] c.u = "ln"     -> Ln(f, c.opts, c.args)
      [] c.u = "chmod"  -> Chmod(f, c.opts, {"r"}, c.args)
      [] c.u = "mktemp" -> Mktemp(f, c.opts, at)
      [] c.u = "delete" -> Exit(FindDelete(f, at, FilterOf(c.opts)), 0)
      [] c.u = "gzip"   -> GzipFile(f, c.opts, c.args[1], IF "d" \in c.opts THEN <<"b">> ELSE <<"z">>)
      [] c.u = "tar"    -> IF "c" \in c.opts THEN TarCreate(f, Archive, at, Tail(c.args), Excludes(c), "z" \in c.opts)
                           ELSE TarExtract(f, Archive, at, "z" \in c.opts)
      [] c.u = "unzip"  -> Unzip(f, Members, at, c.opts)

(* What find, tree, ls -R and du show of a file system.                      *)
WalksOf(f) ==
    LET found(filter) == FindWalk(f, Root, filter, 0)
        regular == SelectSeq(found([AnyName EXCEPT !.type = "f"]), LAMBDA p : Stat(f, p) = "file")
    IN  [find  |-> ToSet(found(AnyName)),
         ls    |-> ToSet(LsDir(f, Root, TRUE)),
         upto  |-> [m \in 1..3 |-> found([AnyName EXCEPT !.max = m])],
         tree  |-> [m \in 1..3 |-> TreeWalk(f, Root, [max |-> m, hide |-> {}, dirs |-> FALSE], 0)],
         bytes |-> FoldLeft(LAMBDA n, p : n + Len(f.nodes[Resolve(f, p).p].data), 0, regular),
         du    |-> DuWalk(f, Root).size]

(* /a packed, and unpacked into an empty file system: its entries by kind and *)
(* contents before and after.                                                 *)
ArchiveOf(f) ==
    LET p    == <<"a">>
        t    == TarAdd(f, p, Rel(p), IsDir(f, p), {})
        u    == TarEntries(EmptyFs, t.data \o Zeros(2 * Block), 0, <<"to">>)
        show(g, q) == IF Stat(g, q) = "file" THEN File(g.nodes[Resolve(g, q).p].data) ELSE [t |-> Stat(g, q)]
        in   == {p} \cup ToSet(FindWalk(f, p, AnyName, 0))
        out  == {Tail(q) : q \in {q \in DOMAIN u.fs.nodes : Len(q) > 1}}
        done == Exists(f, p) /\ t.err = "ok" /\ u.st = 0
    IN  [put   |-> IF done THEN [q \in in |-> show(f, q)] ELSE << >>,
         taken |-> IF done THEN [q \in out |-> show(u.fs, <<"to">> \o q)] ELSE << >>]

-----------------------------------------------------------------------------
NoSink == [path |-> Root, append |-> TRUE]
Idle   == [c |-> C("none", {}, None), st |-> 0]

(* Sessions start on an empty file system, or on one where files hold data    *)
(* and a link leads to a directory, to a file or to itself.                   *)
Stored(f, p, d) == WriteBytes(f, p, d).fs
Tree  == Stored(Stored(CreateDir(EmptyFs, <<"a">>).fs, <<"a", "b">>, Plain), <<"b">>, <<Zero>>)
Starts == {EmptyFs} \cup {Symlink(Tree, l.abs, l.to, <<"l">>).fs : l \in {A, B, L}}

Init == fs \in Trees /\ sink = NoSink /\ last = Idle /\ left = MaxCommands

Utility ==
    \E c \in Commands :
        /\ LET r == Utilities(fs, c) IN fs' = r.fs /\ last' = [c |-> c, st |-> r.st]
        /\ UNCHANGED sink

(* A redirection opened by a process that is still running.                   *)
OpenSink ==
    /\ sink = NoSink
    /\ \E p \in {B, LB}, append \in BOOLEAN :
        LET r == SinkOpener(fs, At(p), append)
        IN  fs' = r.fs /\ sink' = (IF r.err = "ok" THEN r.sink ELSE sink)
    /\ last' = Idle
WriteSink ==
    /\ sink # NoSink
    /\ LET r == SinkWrite(fs, sink, Plain) IN fs' = r.fs /\ sink' = r.sink
    /\ last' = Idle
DropSink == sink # NoSink /\ sink' = NoSink /\ last' = Idle /\ UNCHANGED fs

(* <( ) of a running command.                                                 *)
Install ==
    /\ fs' = Installer(fs, <<"tmp", "s">>, Plain).fs
    /\ last' = Idle /\ UNCHANGED sink
ReadInstalled ==
    /\ fs.readers # << >>
    /\ fs' = Reader(fs, <<"tmp", "s">>).fs
    /\ last' = Idle /\ UNCHANGED sink

Next ==
    /\ left > 0 /\ left' = left - 1
    /\ Utility \/ OpenSink \/ WriteSink \/ DropSink \/ Install \/ ReadInstalled

Spec == Init /\ [][Next]_vars

-----------------------------------------------------------------------------
Files == {p \in DOMAIN fs.nodes : fs.nodes[p].t = "file"}
Used  == MapThenSumSet(LAMBDA p : Len(fs.nodes[p].data), Files)

(* No sequence of writes, removals, failed copies and live sinks takes the    *)
(* file system over its three limits, what is stored never exceeds what is    *)
(* accounted for, and every utility closes the handles it opened, on its      *)
(* error paths too.                                                           *)
QuotaSafe ==
    /\ Used <= fs.total /\ fs.total <= MaxTotalBytes
    /\ \A p \in Files : Len(fs.nodes[p].data) <= MaxFileSize
    /\ Cardinality(DOMAIN fs.nodes) <= MaxInodes
    /\ fs.handles = << >>

(* Where the members of the archive are to go.                                *)
Destinations(c, f) ==
    LET d == ReadBytes(f, Archive).data
        m == IF "z" \notin c.opts THEN d ELSE IF IsGzip(d) THEN d[1].gz ELSE << >>
    IN  {Joined(At(c.args[1]), m[i].name) : i \in {i \in DOMAIN m : IsHeader(m[i])}}

(* Where a command may change something: at or below its operands, and what   *)
(* they lead to unless it removes them; unzip below its destination, tar at   *)
(* the places the archive's members name.                                     *)
Reach(c, f) ==
    LET ops  == {At(c.args[i]) : i \in DOMAIN c.args}
        into == IF c.u \in {"cp", "mv"} THEN {Into(f, c.args[i], Last(c.args)) : i \in DOMAIN c.args} ELSE {}
        all  == ops \cup into
        deep == IF c.u = "unzip" THEN {q \in DOMAIN f.nodes : \E p \in ops : Under(q, p)} ELSE {}
        named == CASE c.u = "tar" -> IF "c" \in c.opts THEN {Archive} ELSE Destinations(c, f)
                   [] c.u = "gzip" -> {<<"z">>, <<"b">>}
                   [] c.u = "mktemp" -> {<<"tmp">>}
                   [] OTHER -> {}
    IN  IF c.u \in {"rm", "mkdir", "delete", "chmod"} THEN ops
        ELSE IF c.u = "tar" THEN named \cup {Resolve(f, p).p : p \in named}
        ELSE all \cup named \cup {Resolve(f, p).p : p \in all \cup deep \cup named}

(* A utility changes nothing outside the operands it was given: removals do   *)
(* not go through links, unzip stays below its destination, tar packs into    *)
(* its archive only and unpacks where the members name, a copy leaves the     *)
(* rest of the tree alone; only missing parents are added above.              *)
Confined ==
    [][last'.c.u # "none" =>
        \A p \in DOMAIN fs.nodes \cup DOMAIN fs'.nodes :
            (p \in DOMAIN fs.nodes /\ p \in DOMAIN fs'.nodes /\ fs.nodes[p] = fs'.nodes[p])
                \/ \E q \in Reached(last'.c, fs) :
                    p = q \/ Under(p, q) \/ (Under(q, p) /\ ~Has(fs, p) /\ fs'.nodes[p] = Dir)]_vars

(* A move or a compression that reports failure has not lost its source.      *)
SourceKept ==
    [][(last'.c.u \in {"mv", "gzip"} /\ last'.st # 0) =>
        LET p == At(last'.c.args[1])
        IN  Kind(fs, p) = "file" => Kind(fs', p) = "file" /\ fs'.nodes[p] = fs.nodes[p]]_vars

(* rm -r that reports success, and find -delete below a directory without     *)
(* links, leave nothing behind.                                               *)
Emptied ==
    [][LET c == last'.c
           p == At(c.args[1])
           nolinks == \A q \in DOMAIN fs.nodes : Under(q, p) => fs.nodes[q].t # "link" /\ Kind(fs, Parent(q)) = "dir"
       IN  /\ (c.u = "rm" /\ c.opts = {"r"} /\ last'.st = 0) => \A q \in DOMAIN fs'.nodes : q # p /\ ~Under(q, p)
           /\ (c.u = "delete" /\ c.opts = {} /\ Kind(fs, p) = "dir" /\ nolinks) => \A q \in DOMAIN fs'.nodes : ~Under(q, p)]_vars

(* find, tree and ls -R show the same entries, to any depth, and du counts    *)
(* the bytes of the files find shows.                                         *)
WalksAgree ==
    LET w == Walks(fs)
    IN  w.find = w.ls /\ w.upto = w.tree /\ w.bytes = w.du

(* A tree that was archived and unpacked elsewhere is the tree that was       *)
(* archived, links replaced by what they led to.                              *)
ArchiveFaithful == LET a == Archived(fs) IN a.put = a.taken

(* Archiving and walking agree with the tree.                                 *)
TreesFaithful == WalksAgree /\ ArchiveFaithful

(* What a command reports is what it did: one that fails has not lost its     *)
(* source, one that removes and succeeds has left nothing.                    *)
ReportsTrue == SourceKept /\ Emptied

=============================================================================
