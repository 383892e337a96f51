------------------------------ MODULE MemoryFs --------------------------------
(* The in-memory file system of crates/wasmsh-fs/src/memfs.rs.  A file system *)
(* is a record; an operation of the Vfs trait is an operator from a file      *)
(* system and arguments to [fs, err, ...], err = "ok" on success.             *)
(*                                                                            *)
(* A path is a sequence of names; a normalized path holds neither "." nor     *)
(* "..".  nodes is a function on the existing paths (the HashMap), so a node  *)
(* need not have a parent unless the code sees to it.  Contents are sequences *)
(* and only their length counts against the limits.                           *)
EXTENDS Integers, Sequences, FiniteSets, SequencesExt, TLC

CONSTANTS
    MaxFileSize,    \* MAX_FILE_SIZE
    MaxTotalBytes,  \* MAX_TOTAL_BYTES
    MaxInodes,      \* MAX_INODES
    MaxHops         \* MAX_SYMLINK_DEPTH

ASSUME MemoryFsConstants ==
    /\ MaxFileSize \in Nat /\ MaxTotalBytes \in Nat
    /\ MaxInodes \in Nat \ {0} /\ MaxHops \in Nat \ {0}

Dir        == [t |-> "dir"]
File(d)    == [t |-> "file", data |-> d]
Link(a, p) == [t |-> "link", abs |-> a, to |-> p]
Root       == << >>

(* modes: bits for the owner, of the paths whose mode was changed.            *)
DefaultMode == {"r", "w"}

EmptyFs == [nodes |-> (Root :> Dir), modes |-> << >>, readers |-> << >>,
            handles |-> << >>, next |-> 1, total |-> 0]

Parent(p)    == SubSeq(p, 1, Len(p) - 1)
Ancestors(p)  == {SubSeq(p, 1, i) : i \in 1..(Len(p) - 1)}
Under(p, q)  == Len(p) > Len(q) /\ SubSeq(p, 1, Len(q)) = q
Drop(f, k)   == [x \in DOMAIN f \ {k} |-> f[x]]
Has(fs, p)   == p \in DOMAIN fs.nodes
Kind(fs, p)  == IF Has(fs, p) THEN fs.nodes[p].t ELSE "none"
Size(n)      == IF n.t = "file" THEN Len(n.data) ELSE 0
Minus(a, b)  == IF a > b THEN a - b ELSE 0

Fail(fs, e)  == [fs |-> fs, err |-> e]
Done(fs)     == [fs |-> fs, err |-> "ok"]

(* normalize_path: "." goes, ".." takes back one name and stops at the root.  *)
Normalize(p) ==
    FoldLeft(LAMBDA q, n : CASE n = "." -> q [] n = ".." -> IF q = << >> THEN q ELSE Parent(q) [] OTHER -> Append(q, n), << >>, p)

(* resolve_normalized: only the last name of the path is followed.            *)
Hop(fs, q) ==
    IF Kind(fs, q) # "link" THEN q
    ELSE LET n == fs.nodes[q] IN Normalize(IF n.abs THEN n.to ELSE Parent(q) \o n.to)
Resolve(fs, p) ==
    LET end == FoldLeft(LAMBDA q, i : Hop(fs, q), p, [i \in 1..(MaxHops - 1) |-> i])
    IN  IF Kind(fs, end) # "link" THEN [p |-> end, err |-> "ok"] ELSE [p |-> p, err |-> "loop"]

ModeOf(fs, p) == IF p \in DOMAIN fs.modes THEN fs.modes[p] ELSE DefaultMode

-----------------------------------------------------------------------------
(* Inserting.                                                                 *)

(* ensure_parents and the inode check of the new entry itself: missing        *)
(* ancestors become directories, an ancestor of another kind is accepted.     *)
(* The ancestors created before the limit is met stay.                        *)
EnsureParents(fs, p) ==
    LET missing == {q \in Ancestors(p) : ~Has(fs, q)}
        room    == Minus(MaxInodes, Cardinality(DOMAIN fs.nodes))
        made    == {q \in missing : Cardinality({r \in missing : Len(r) <= Len(q)}) <= room}
        with    == [fs EXCEPT !.nodes = [q \in DOMAIN @ \cup made |-> IF q \in made THEN Dir ELSE @[q]]]
    IN  IF made = missing THEN Done(with) ELSE Fail(with, "inodes")

HasRoom(fs) == Cardinality(DOMAIN fs.nodes) < MaxInodes
Insert(fs, p, n) ==
    [fs EXCEPT !.nodes = (p :> n) @@ @,
               !.total = Minus(@, IF Has(fs, p) /\ n.t = "file" THEN Size(fs.nodes[p]) ELSE 0)]
CreateNode(fs, p, n) ==
    LET e == EnsureParents(fs, p)
    IN  IF e.err # "ok" THEN e
        ELSE IF ~HasRoom(e.fs) THEN Fail(e.fs, "inodes") ELSE Done(Insert(e.fs, p, n))

-----------------------------------------------------------------------------
(* Handles: what is opened is a path, or a reader that was installed there.   *)

NewHandle(fs, h) ==
    [fs |-> [fs EXCEPT !.handles = (fs.next :> h) @@ @, !.next = @ + 1], err |-> "ok", h |-> fs.next]

Open(fs, path, o) ==
    LET r == Resolve(fs, Normalize(path))
        p == r.p
        k == Kind(fs, p)
        denied == (o = "read" /\ "r" \notin ModeOf(fs, p)) \/ (o # "read" /\ "w" \notin ModeOf(fs, p))
        made   == CreateNode(fs, p, File(<< >>))
    IN  IF r.err # "ok" THEN Fail(fs, r.err)
        ELSE IF o = "read" /\ p \in DOMAIN fs.readers
        THEN NewHandle([fs EXCEPT !.readers = Drop(@, p), !.nodes = Drop(@, p)],
                       [o |-> o, path |-> << >>, data |-> fs.readers[p], virtual |-> TRUE])
        ELSE IF k = "dir" THEN Fail(fs, "is_dir")
        ELSE IF k = "file" /\ denied THEN Fail(fs, "denied")
        ELSE IF k = "none" /\ o = "read" THEN Fail(fs, "not_found")
        ELSE IF k = "none" /\ made.err # "ok" THEN made
        ELSE NewHandle(IF k = "none" THEN made.fs
                       ELSE IF o = "write" THEN Insert(fs, p, File(<< >>)) ELSE fs,
                       [o |-> o, path |-> p, data |-> << >>, virtual |-> FALSE])

Close(fs, h) == [fs EXCEPT !.handles = Drop(@, h)]

(* read_file and stream_file; data when err is "ok".  A stream of a path      *)
(* keeps the contents it was opened on.                                       *)
ReadFile(fs, h) ==
    IF h \notin DOMAIN fs.handles THEN [err |-> "bad_handle", data |-> << >>]
    ELSE LET f == fs.handles[h]
         IN  IF f.o # "read" THEN [err |-> "denied", data |-> << >>]
             ELSE IF f.virtual THEN [err |-> "ok", data |-> f.data]
             ELSE IF Kind(fs, f.path) = "file" THEN [err |-> "ok", data |-> fs.nodes[f.path].data]
             ELSE [err |-> "not_found", data |-> << >>]

(* Mutant of WriteChunk: the new bytes are added, the old ones stay counted.  *)
WriteChunkTwice(fs, p, append, d) ==
    LET old == fs.nodes[p].data
        new == IF append THEN old \o d ELSE d
    IN  IF Kind(fs, p) # "file" THEN Fail(fs, "not_found")
        ELSE IF Len(new) > MaxFileSize THEN Fail(fs, "file_size")
        ELSE IF Minus(fs.total, Len(old)) + Len(new) > MaxTotalBytes THEN Fail(fs, "quota")
        ELSE Done([fs EXCEPT !.nodes[p] = File(new), !.total = Minus(@, Len(old))])

(* write_chunk: the quota is checked on the total the write would leave.      *)
WriteChunk(fs, p, append, d) ==
    LET old == fs.nodes[p].data
        new == IF append THEN old \o d ELSE d
        projected == Minus(fs.total, Len(old)) + Len(new)
    IN  IF Kind(fs, p) # "file" THEN Fail(fs, "not_found")
        ELSE IF Len(new) > MaxFileSize THEN Fail(fs, "file_size")
        ELSE IF projected > MaxTotalBytes THEN Fail(fs, "quota")
        ELSE Done([fs EXCEPT !.nodes[p] = File(new), !.total = projected])

WriteFile(fs, h, d) ==
    IF h \notin DOMAIN fs.handles THEN Fail(fs, "bad_handle")
    ELSE LET f == fs.handles[h]
         IN  IF f.o = "read" THEN Fail(fs, "denied") ELSE WriteChunk(fs, f.path, f.o = "append", d)

(* open_write_sink: a sink is [path, append]; its first write replaces, the   *)
(* later ones append.  An installed reader is dropped; modes are not asked.   *)
OpenWriteSink(fs, path, append) ==
    LET r    == Resolve(fs, Normalize(path))
        bare == [fs EXCEPT !.readers = Drop(@, r.p)]
        made == CreateNode(bare, r.p, File(<< >>))
        base == IF Has(fs, r.p) THEN Done(bare) ELSE made
        sink == [path |-> r.p, append |-> append]
    IN  IF r.err # "ok" THEN Fail(fs, r.err)
        ELSE IF Kind(fs, r.p) = "dir" THEN Fail(bare, "is_dir")
        ELSE IF base.err # "ok" THEN base
        ELSE [fs |-> IF append THEN base.fs ELSE Insert(base.fs, r.p, File(<< >>)),
              err |-> "ok", sink |-> sink]
SinkWrite(fs, s, d) ==
    LET w == WriteChunk(fs, s.path, s.append, d)
    IN  [fs |-> w.fs, err |-> w.err, sink |-> [s EXCEPT !.append = @ \/ w.err = "ok"]]

(* install_stream_reader: the path becomes an empty file whose next reader    *)
(* gets the stream.                                                           *)
InstallReader(fs, path, d) ==
    LET p == Normalize(path)
        e == EnsureParents(fs, p)
    IN  IF Kind(fs, p) = "dir" THEN Fail(fs, "is_dir")
        ELSE IF e.err # "ok" THEN e
        ELSE IF ~Has(fs, p) /\ ~HasRoom(e.fs) THEN Fail(e.fs, "inodes")
        ELSE Done([Insert(e.fs, p, File(<< >>)) EXCEPT !.readers = (p :> d) @@ @])

-----------------------------------------------------------------------------
(* Paths.                                                                     *)

Stat(fs, path) ==
    LET r == Resolve(fs, Normalize(path))
    IN  IF r.err # "ok" THEN r.err
        ELSE IF Kind(fs, r.p) \in {"file", "dir"} THEN Kind(fs, r.p) ELSE "not_found"
IsDir(fs, path)  == Stat(fs, path) = "dir"
Exists(fs, path) == Stat(fs, path) \in {"file", "dir"}
Lstat(fs, path)  == Kind(fs, Normalize(path))

(* symlink asks every ancestor to be a directory, as nothing else does.       *)
Symlink(fs, abs, to, path) ==
    LET p    == Normalize(path)
        bad  == {q \in Ancestors(p) : Kind(fs, q) \in {"file", "link"}}
        e    == EnsureParents(fs, p)
        stop == CHOOSE q \in bad : \A r \in bad : Len(q) <= Len(r)
    IN  IF Has(fs, p) THEN Fail(fs, "exists")
        ELSE IF bad # {} THEN Fail(EnsureParents(fs, stop).fs, "not_dir")
        ELSE IF e.err # "ok" THEN e
        ELSE IF ~HasRoom(e.fs) THEN Fail(e.fs, "inodes") ELSE Done(Insert(e.fs, p, Link(abs, to)))

(* read_dir: the direct children of what the path resolves to; an entry that  *)
(* is a link counts as what it leads to.                                      *)
ReadDir(fs, path) ==
    LET r == Resolve(fs, Normalize(path))
    IN  IF r.err # "ok" \/ Kind(fs, r.p) # "dir" THEN [err |-> "not_dir", names |-> {}]
        ELSE [err |-> "ok", names |-> {q[Len(q)] : q \in {q \in DOMAIN fs.nodes : q # Root /\ Parent(q) = r.p}}]
EntryIsDir(fs, path, n) ==
    LET q == Append(Resolve(fs, Normalize(path)).p, n)
    IN  LET t == Resolve(fs, q) IN t.err = "ok" /\ Kind(fs, t.p) = "dir"

CreateDir(fs, path) ==
    LET p == Normalize(path) IN IF Has(fs, p) THEN Fail(fs, "exists") ELSE CreateNode(fs, p, Dir)

(* remove_file takes a final link as a link.                                  *)
RemoveFile(fs, path) ==
    LET p == Normalize(path)
        r == Resolve(fs, p)
        forget(f, q) == [f EXCEPT !.nodes = Drop(@, q), !.modes = Drop(@, q)]
    IN  IF Kind(fs, p) = "link" THEN Done(forget(fs, p))
        ELSE IF Kind(fs, r.p) = "dir" THEN Fail(fs, "is_dir")
        ELSE IF Kind(fs, r.p) # "file" THEN Fail(fs, "not_found")
        ELSE Done([forget(fs, r.p) EXCEPT !.readers = Drop(@, r.p),
                                          !.total = Minus(@, Size(fs.nodes[r.p]))])
RemoveDir(fs, path) ==
    LET p == Normalize(path)
    IN  IF Kind(fs, p) = "none" THEN Fail(fs, "not_found")
        ELSE IF Kind(fs, p) # "dir" THEN Fail(fs, "not_dir")
        ELSE IF \E q \in DOMAIN fs.nodes : Under(q, p) THEN Fail(fs, "not_empty")
        ELSE Done([fs EXCEPT !.nodes = Drop(@, p), !.modes = Drop(@, p)])

(* set_mode does not follow a final link.                                     *)
SetMode(fs, path, m) ==
    LET p == Normalize(path)
    IN  IF ~Has(fs, p) THEN Fail(fs, "not_found") ELSE Done([fs EXCEPT !.modes = (p :> m) @@ @])

=============================================================================
