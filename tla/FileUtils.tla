------------------------------ MODULE FileUtils -------------------------------
(* The utilities that change the file tree or walk it: mkdir, rm, touch, mv,  *)
(* cp, ln, chmod, mktemp, find, ls, tree, du, df, gzip, tar and unzip of      *)
(* crates/wasmsh-utils.  A utility is an operator from a file system, the     *)
(* parsed options (a set of letters) and operands to [fs, st], st the exit    *)
(* status; a walk returns what it prints.                                     *)
EXTENDS MemoryFs, SequencesExt, FiniteSetsExt

CONSTANTS
    Cwd,        \* the working directory, a path
    Block,      \* TAR_BLOCK_SIZE
    Byte, Zero, \* the bytes of plain files, and the zero byte among them
    Temps       \* the names mktemp draws, in order (ten of them at most)

(* An operand or a link target: a path and whether it starts at the root.     *)
Joined(base, o) == Normalize(IF o.abs THEN o.to ELSE base \o o.to)
At(o)          == Joined(Cwd, o)
Child(p, n)    == Append(p, n)
LastName(o)    == o.to[Len(o.to)]
Status(r)      == [fs |-> r.fs, st |-> IF r.err = "ok" THEN 0 ELSE 1]
Exit(fs, s)    == [fs |-> fs, st |-> s]
Listed(names)  == FoldSet(LAMBDA n, s : Append(s, n), << >>, names)
Named(fs, p)   == LET r == ReadDir(fs, p) IN Listed(r.names)

(* Every operand is tried; the status tells of any failure.                   *)
Each(fs, args, F(_, _)) ==
    FoldLeft(LAMBDA acc, a : LET r == F(acc.fs, a) IN [r EXCEPT !.st = IF acc.st # 0 THEN acc.st ELSE @],
             Exit(fs, 0), args)
(* The first failure ends it.                                                 *)
Until(fs, args, F(_, _)) ==
    FoldLeft(LAMBDA acc, a : IF acc.err = "ok" THEN F(acc.fs, a) ELSE acc, Done(fs), args)

-----------------------------------------------------------------------------
(* Shared helpers: whole-file reads and writes, always closing the handle.    *)

ReadBytes(fs, p) ==
    LET o == Open(fs, p, "read")
        d == ReadFile(o.fs, o.h)
    IN  IF o.err # "ok" THEN [fs |-> o.fs, err |-> o.err, data |-> << >>]
        ELSE [fs |-> Close(o.fs, o.h), err |-> d.err, data |-> d.data]
WriteBytes(fs, p, data) ==
    LET o == Open(fs, p, "write")
        w == WriteFile(o.fs, o.h, data)
    IN  IF o.err # "ok" THEN o ELSE [fs |-> Close(w.fs, o.h), err |-> w.err]
CopyContents(fs, src, dst) ==
    LET d == ReadBytes(fs, src)
    IN  IF d.err # "ok" THEN Fail(d.fs, d.err) ELSE WriteBytes(d.fs, dst, d.data)

-----------------------------------------------------------------------------
(* mkdir, touch, mktemp.                                                      *)

MkdirParents(fs, p) ==
    Until(fs, [i \in 1..Len(p) |-> SubSeq(p, 1, i)],
          LAMBDA f, q : IF Exists(f, q) THEN Done(f) ELSE CreateDir(f, q))
Mkdir(fs, opts, args) ==
    Each(fs, args, LAMBDA f, a :
         Status(IF "p" \in opts THEN MkdirParents(f, At(a)) ELSE CreateDir(f, At(a))))

(* -c on its own is read as a time flag and does nothing; only inside a       *)
(* cluster ("ac") does it keep touch from creating.                           *)
Touch(fs, opts, args) ==
    IF args = << >> THEN Exit(fs, 1)
    ELSE Each(fs, args, LAMBDA f, a :
              IF "ac" \in opts /\ ~Exists(f, At(a)) THEN Exit(f, 0)
              ELSE LET o == Open(f, At(a), "append")
                   IN  IF o.err # "ok" THEN Exit(o.fs, 1) ELSE Exit(Close(o.fs, o.h), 0))

Mktemp(fs, opts, dir) ==
    LET base == IF Exists(fs, <<"tmp">>) THEN fs ELSE CreateDir(fs, <<"tmp">>).fs
        free == SelectSeq(Temps, LAMBDA n : ~Exists(base, Child(dir, n)))
        path == Child(dir, free[1])
    IN  IF free = << >> THEN Exit(base, 1)
        ELSE Status(IF "d" \in opts THEN CreateDir(base, path) ELSE WriteBytes(base, path, << >>))

-----------------------------------------------------------------------------
(* rm.                                                                        *)

RECURSIVE RmRecursive(_, _)
RmRecursive(fs, p) ==
    LET kids == Until(fs, Named(fs, p), LAMBDA f, n :
                      CASE Stat(f, Child(p, n)) = "dir"  -> RmRecursive(f, Child(p, n))
                        [] Stat(f, Child(p, n)) = "file" -> RemoveFile(f, Child(p, n))
                        [] OTHER -> Done(f))
    IN  IF kids.err # "ok" THEN kids ELSE RemoveDir(kids.fs, p)

(* Mutant of Rm: asks stat, so a link counts as what it leads to.             *)
RmThrough(fs, opts, args) ==
    Each(fs, args, LAMBDA f, a :
         LET p == Resolve(f, At(a)).p
         IN  IF Stat(f, p) = "dir" /\ "r" \in opts THEN Status(RmRecursive(f, p))
             ELSE Status(RemoveFile(f, p)))

Rm(fs, opts, args) ==
    IF "?" \in opts \/ (args = << >> /\ "f" \notin opts) THEN Exit(fs, 1)
    ELSE Each(fs, args, LAMBDA f, a :
              LET kind == Lstat(f, At(a))
                  r    == IF kind = "none" THEN Fail(f, "not_found") ELSE RemoveFile(f, At(a))
              IN  IF kind = "dir"
                  THEN IF "r" \notin opts THEN Exit(f, 1) ELSE Status(RmRecursive(f, At(a)))
                  ELSE IF "f" \in opts THEN Exit(r.fs, 0) ELSE Status(r))

-----------------------------------------------------------------------------
(* mv, cp, ln: a move is a copy and a removal, a hard link is a copy.         *)

Into(fs, src, dst) == IF IsDir(fs, At(dst)) THEN Child(At(dst), LastName(src)) ELSE At(dst)

(* Mutant of Mv: the source goes whether or not the copy was made.            *)
MvAnyway(fs, opts, args) ==
    LET c == CopyContents(fs, At(args[1]), Into(fs, args[1], args[2]))
    IN  Exit(RemoveFile(c.fs, At(args[1])).fs, IF c.err = "ok" THEN 0 ELSE 1)

Mv(fs, opts, args) ==
    IF Len(args) < 2 THEN Exit(fs, 1)
    ELSE LET src == At(args[1])
             dst == Into(fs, args[1], args[2])
             c   == CopyContents(fs, src, dst)
         IN  IF "n" \in opts /\ Exists(fs, dst) THEN Exit(fs, 0)
             ELSE IF c.err # "ok" THEN Exit(c.fs, 1) ELSE Status(RemoveFile(c.fs, src))

RECURSIVE CpRecursive(_, _, _)
CpRecursive(fs, src, dst) ==
    LET made == CreateDir(fs, dst)
        dir  == ReadDir(made.fs, src)
    IN  IF made.err # "ok" THEN made
        ELSE IF dir.err # "ok" THEN Fail(made.fs, dir.err)
        ELSE Until(made.fs, Listed(dir.names), LAMBDA f, n :
                   IF EntryIsDir(made.fs, src, n) THEN CpRecursive(f, Child(src, n), Child(dst, n))
                   ELSE CopyContents(f, Child(src, n), Child(dst, n)))

Cp(fs, opts, args) ==
    IF Len(args) < 2 THEN Exit(fs, 1)
    ELSE Each(fs, Front(args), LAMBDA f, a :
              LET src == At(a)
                  dst == Into(f, a, Last(args))
                  f2  == IF "f" \in opts /\ Exists(f, dst) THEN RemoveFile(f, dst).fs ELSE f
              IN  IF "n" \in opts /\ Exists(f, dst) THEN Exit(f, 0)
                  ELSE IF "s" \in opts THEN Status(Symlink(f2, a.abs, a.to, dst))
                  ELSE IF ~IsDir(f, src) THEN Status(CopyContents(f2, src, dst))
                  ELSE IF "r" \in opts THEN Status(CpRecursive(f2, src, dst)) ELSE Exit(f2, 1))

Ln(fs, opts, args) ==
    IF Len(args) < 2 THEN Exit(fs, 1)
    ELSE LET dst == At(args[2])
             f   == IF "f" \in opts THEN RemoveFile(fs, dst).fs ELSE fs
         IN  Status(IF "s" \in opts THEN Symlink(f, args[1].abs, args[1].to, dst)
                    ELSE CopyContents(f, At(args[1]), dst))

(* chmod: the mode is asked of the target, and set on the path itself.        *)
RECURSIVE ChmodOne(_, _, _, _)
ChmodOne(fs, p, mode, deep) ==
    LET s == SetMode(fs, p, mode)
    IN  IF ~Exists(fs, p) \/ s.err # "ok" THEN Exit(fs, 1)
        ELSE IF deep /\ IsDir(fs, p)
        THEN Each(s.fs, Named(s.fs, p), LAMBDA f, n : ChmodOne(f, Child(p, n), mode, TRUE))
        ELSE Exit(s.fs, 0)
Chmod(fs, opts, mode, args) ==
    IF args = << >> \/ "?" \in mode THEN Exit(fs, 1)
    ELSE Each(fs, args, LAMBDA f, a : ChmodOne(f, At(a), mode, "R" \in opts))

-----------------------------------------------------------------------------
(* The walks.  A filter of find: [names, type, empty, neg, max, min], names   *)
(* the file names the patterns accept, max = -1 for none.                     *)

Matches(fs, f, dirp, n) ==
    LET p   == Child(dirp, n)
        dir == EntryIsDir(fs, dirp, n)
        hit == /\ n \in f.names
               /\ f.type = "f" => ~dir
               /\ f.type = "d" => dir
               /\ f.empty => IF dir THEN ReadDir(fs, p) = [err |-> "ok", names |-> {}]
                             ELSE Stat(fs, p) # "file" \/ fs.nodes[Resolve(fs, p).p].data = << >>
    IN  IF f.neg THEN ~hit ELSE hit

(* walk_find prints the entries of a directory at its depth + 1, so a limit   *)
(* of 0 still shows the first level.                                          *)
RECURSIVE FindWalk(_, _, _, _)
FindWalk(fs, p, f, depth) ==
    IF f.max >= 0 /\ depth > f.max THEN << >>
    ELSE LET ns == Named(fs, p)
         IN  FlattenSeq([i \in 1..Len(ns) |->
                 (IF depth + 1 >= f.min /\ Matches(fs, f, p, ns[i]) THEN <<Child(p, ns[i])>> ELSE << >>)
                     \o (IF EntryIsDir(fs, p, ns[i]) /\ (f.max < 0 \/ depth + 1 < f.max)
                         THEN FindWalk(fs, Child(p, ns[i]), f, depth + 1) ELSE << >>)])

(* find -delete: the matches of the finished walk, last first, errors ignored.*)
FindDelete(fs, p, f) ==
    FoldLeft(LAMBDA g, q : IF IsDir(fs, q) THEN RemoveDir(g, q).fs ELSE RemoveFile(g, q).fs,
             fs, Reverse(FindWalk(fs, p, f, 0)))

(* tree, as text and as JSON: [max, hide, dirs], hide the names not shown.    *)
RECURSIVE TreeWalk(_, _, _, _)
TreeWalk(fs, p, o, depth) ==
    IF o.max >= 0 /\ depth >= o.max THEN << >>
    ELSE LET ns == SelectSeq(Named(fs, p), LAMBDA n :
                       n \notin o.hide /\ (o.dirs => EntryIsDir(fs, p, n)))
         IN  FlattenSeq([i \in 1..Len(ns) |->
                 <<Child(p, ns[i])>> \o (IF EntryIsDir(fs, p, ns[i])
                     THEN TreeWalk(fs, Child(p, ns[i]), o, depth + 1) ELSE << >>)])

(* ls -R: a directory's entries, then each of its directories.                *)
RECURSIVE LsDir(_, _, _)
LsDir(fs, p, recursive) ==
    LET ns == Named(fs, p)
        ds == SelectSeq(ns, LAMBDA n : EntryIsDir(fs, p, n))
    IN  [i \in 1..Len(ns) |-> Child(p, ns[i])]
            \o (IF recursive THEN FlattenSeq([i \in 1..Len(ds) |-> LsDir(fs, Child(p, ds[i]), TRUE)])
                ELSE << >>)

(* du and df: the bytes of the files below a directory, a link to a file      *)
(* counted as that file.  du reports a directory it cannot read as an error.  *)
RECURSIVE DuWalk(_, _)
DuWalk(fs, p) ==
    LET r == ReadDir(fs, p)
        kid(n) == IF EntryIsDir(fs, p, n) THEN DuWalk(fs, Child(p, n))
                  ELSE LET q == Resolve(fs, Child(p, n)).p
                       IN  IF Kind(fs, q) = "file" THEN [size |-> Len(fs.nodes[q].data), err |-> FALSE]
                           ELSE [size |-> 0, err |-> TRUE]
    IN  IF r.err # "ok" THEN [size |-> 0, err |-> TRUE]
        ELSE [size |-> MapThenSumSet(LAMBDA n : kid(n).size, r.names),
              err  |-> \E n \in r.names : kid(n).err]

-----------------------------------------------------------------------------
(* Archives.  Compression is one element that holds the data; a tar header    *)
(* fills a block and names the member, the way the operand was written.       *)

Zeros(n)     == [i \in 1..n |-> Zero]
Gzip(data)   == <<[gz |-> data]>>
IsGzip(data) == Len(data) = 1 /\ data[1] \notin Byte /\ "gz" \in DOMAIN data[1]
IsHeader(x)  == x \notin Byte /\ "name" \in DOMAIN x
Header(name, size, dir) == <<[name |-> name, size |-> size, dir |-> dir]>> \o Zeros(Block - 1)
(* Mutant of Padded: a whole block of padding after contents that fill theirs.*)
PaddedAlways(data) == data \o Zeros(Block - (Len(data) % Block))

Padded(data) == data \o Zeros((Block - (Len(data) % Block)) % Block)

(* gzip and gunzip: the result is written before the original is removed.     *)
GzipFile(fs, opts, o, outs) ==
    LET p == At(o)
        d == ReadBytes(fs, p)
        w == WriteBytes(d.fs, outs, IF "d" \in opts THEN d.data[1].gz ELSE Gzip(d.data))
    IN  IF d.err # "ok" \/ ("d" \in opts /\ ~IsGzip(d.data)) THEN Exit(d.fs, 1)
        ELSE IF "c" \in opts THEN Exit(d.fs, 0)
        ELSE IF w.err # "ok" THEN Exit(w.fs, 1)
        ELSE Exit(IF "k" \in opts THEN w.fs ELSE RemoveFile(w.fs, p).fs, 0)

(* --exclude: a pattern with a slash is meant for the whole name, another for *)
(* its last part.                                                             *)
TarExcluded(name, excludes) ==
    \E e \in excludes : IF e.abs \/ Len(e.to) > 1 THEN name = e ELSE LastName(name) = LastName(e)

(* tar_add_file and tar_add_dir: [err, data]; the first failure ends it.      *)
RECURSIVE TarAdd(_, _, _, _, _)
TarAdd(fs, p, name, isDir, excludes) ==
    LET d    == ReadBytes(fs, p)
        r    == ReadDir(fs, p)
        kid(n) == [name EXCEPT !.to = Child(@, n)]
        ns   == SelectSeq(Listed(r.names), LAMBDA n : ~TarExcluded(kid(n), excludes))
        kids == [i \in DOMAIN ns |-> TarAdd(fs, Child(p, ns[i]), kid(ns[i]), EntryIsDir(fs, p, ns[i]), excludes)]
    IN  IF ~isDir
        THEN [err |-> d.err, data |-> Header(name, Len(d.data), FALSE) \o Padded(d.data)]
        ELSE IF r.err # "ok" THEN [err |-> r.err, data |-> << >>]
        ELSE [err  |-> IF \E i \in DOMAIN kids : kids[i].err # "ok" THEN "io" ELSE "ok",
              data |-> Header(name, 0, TRUE) \o FlattenSeq([i \in DOMAIN kids |-> kids[i].data])]

(* The operands are found below base, the directory -C names.                 *)
TarCreate(fs, archive, base, args, excludes, zipped) ==
    LET named == SelectSeq(args, LAMBDA o : ~TarExcluded(o, excludes))
        packed == [i \in DOMAIN named |->
                     LET p == Joined(base, named[i]) IN TarAdd(fs, p, named[i], IsDir(fs, p), excludes)]
        d == FlattenSeq([i \in DOMAIN packed |-> packed[i].data]) \o Zeros(2 * Block)
    IN  IF \E i \in DOMAIN named : ~Exists(fs, Joined(base, named[i])) \/ packed[i].err # "ok" THEN Exit(fs, 1)
        ELSE Status(WriteBytes(fs, archive, IF zipped THEN Gzip(d) ELSE d))

(* tar_extract_entry from position pos: a member goes where its name leads,   *)
(* from base or from the root; a directory that cannot be made is only        *)
(* reported.                                                                  *)
RECURSIVE TarEntries(_, _, _, _)
TarEntries(fs, data, pos, base) ==
    IF pos + Block > Len(data) \/ data[pos + 1] = Zero THEN Exit(fs, 0)
    ELSE IF ~IsHeader(data[pos + 1]) THEN Exit(fs, 1)
    ELSE LET h    == data[pos + 1]
             full == Joined(base, h.name)
             par  == IF Exists(fs, Parent(full)) THEN fs ELSE CreateDir(fs, Parent(full)).fs
             at   == pos + Block
             end  == IF at + h.size > Len(data) THEN Len(data) ELSE at + h.size
             w    == WriteBytes(par, full, SubSeq(data, at + 1, end))
         IN  IF h.dir THEN TarEntries(CreateDir(fs, full).fs, data, at, base)
             ELSE IF w.err # "ok" THEN Exit(w.fs, 1)
             ELSE TarEntries(w.fs, data, at + ((h.size + Block - 1) \div Block) * Block, base)
TarExtract(fs, archive, base, zipped) ==
    LET d == ReadBytes(fs, archive)
    IN  IF d.err # "ok" \/ (zipped /\ ~IsGzip(d.data)) THEN Exit(d.fs, 1)
        ELSE TarEntries(d.fs, IF zipped THEN d.data[1].gz ELSE d.data, 0, base)

(* unzip: member names lose their ".." and must stay below the destination.   *)
Unzip(fs, members, base, opts) ==
    Each(CreateDir(fs, base).fs, members, LAMBDA f, m :
         LET full == Normalize(base \o SelectSeq(m.name, LAMBDA n : n # ".."))
             par  == IF Exists(f, Parent(full)) THEN f ELSE CreateDir(f, Parent(full)).fs
         IN  IF full # base /\ ~Under(full, base) THEN Exit(f, 0)
             ELSE IF m.dir THEN Exit(CreateDir(f, full).fs, 0)
             ELSE IF "o" \notin opts /\ Exists(par, full) THEN Exit(par, 0)
             ELSE Status(WriteBytes(par, full, m.data)))

=============================================================================
