------------------------------ MODULE TextUtils ------------------------------
(* The text utilities of wasmsh-utils (text_ops.rs): head, tail, wc, grep,    *)
(* sed, sort, uniq, cut, tr, tee, paste, rev, bat and column, each a function *)
(* of its arguments, its standard input and the files to what it prints, what *)
(* it leaves in the files and its status.                                     *)
(*                                                                            *)
(* A text is a sequence of bytes, each a string of its own; a printed number  *)
(* is one such byte, and the padding of numbers, the rules of bat and the     *)
(* wording of messages are left out.  "hi" "lo" are the two bytes of one      *)
(* character.  An argument is a record of an option letter and its value ("n" *)
(* and 2 for -n 2); an operand has the letter "".  Bundled letters are        *)
(* arguments of their own.  Patterns are literal.                             *)
EXTENDS Integers, Sequences, FiniteSets, SequencesExt, TLC

Bad     == 0 - 1                    \* a value that is not a number, or none given
NL      == "\n"
Blanks  == {" ", "\t"}
White   == Blanks \cup {NL}
Ascii   == {"a", "b", "A", "B", "1", "2"}      \* is_ascii_alphanumeric
Letters == Ascii \cup {"e"}                    \* is_alphanumeric
Order   == <<"\t", NL, " ", ",", "-", "1", "2", "A", "B", "a", "b", "e", "repl">>
Code(c) == CHOOSE i \in 1..Len(Order) : Order[i] = c
Lower(l) == [i \in 1..Len(l) |-> CASE l[i] = "A" -> "a" [] l[i] = "B" -> "b" [] OTHER -> l[i]]

Take(s, n) == SubSeq(s, 1, IF n < Len(s) THEN n ELSE Len(s))
Drop(s, n) == SubSeq(s, n + 1, Len(s))
Num(v, d)  == IF v = Bad THEN d ELSE v
Join(parts, sep) == FoldLeft(LAMBDA o, i : o \o (IF i = 1 THEN << >> ELSE sep) \o parts[i], << >>, [i \in 1..Len(parts) |-> i])
Ix(s)      == [i \in 1..Len(s) |-> i]
At(s, is)  == [j \in 1..Len(is) |-> s[is[j]]]
SplitOn(l, c) ==
    LET r == FoldLeft(LAMBDA a, x : IF x = c THEN [done |-> Append(a.done, a.cur), cur |-> << >>]
                                    ELSE [a EXCEPT !.cur = Append(@, x)],
                      [done |-> << >>, cur |-> << >>], l)
    IN  Append(r.done, r.cur)

-----------------------------------------------------------------------------
(* Reading: UTF-8 with a pending lead byte, and lines.                        *)

Decode(bytes) ==
    FoldLeft(LAMBDA a, c :
        CASE a.lead /\ c = "lo"  -> [out |-> Append(a.out, "e"), lead |-> FALSE]
          [] OTHER ->
             LET out == IF a.lead THEN Append(a.out, "repl") ELSE a.out
             IN  CASE c = "hi" -> [out |-> out, lead |-> TRUE]
                   [] c = "lo" -> [out |-> Append(out, "repl"), lead |-> FALSE]
                   [] OTHER    -> [out |-> Append(out, c), lead |-> FALSE],
        [out |-> << >>, lead |-> FALSE], bytes)
Lossy(bytes)  == LET d == Decode(bytes) IN IF d.lead THEN Append(d.out, "repl") ELSE d.out
Encode(chars) == FoldLeft(LAMBDA o, c : IF c = "e" THEN o \o <<"hi", "lo">> ELSE Append(o, c), << >>, chars)

RawLines(t) == LET p == SplitOn(t, NL) IN IF p[Len(p)] = << >> THEN Front(p) ELSE p
Lines(t)    == LET r == RawLines(t) IN [i \in 1..Len(r) |-> Lossy(r[i])]
Line(l)     == Append(Encode(l), NL)
Unlines(ls) == FoldLeft(LAMBDA o, l : o \o Line(l), << >>, ls)
Ended(t)    == IF t # << >> /\ t[Len(t)] # NL THEN Append(t, NL) ELSE t

-----------------------------------------------------------------------------
(* Arguments and operands.                                                    *)

(* Options up to the first operand or --; operands from there on.             *)
Options(argv)  == LET i == SelectInSeq(argv, LAMBDA a : a.o \in {"", "--"}) IN IF i = 0 THEN argv ELSE Take(argv, i - 1)
Operands(argv) == LET o == SelectSeq(argv, LAMBDA a : a.o = "") IN [i \in 1..Len(o) |-> o[i].v]
Given(argv)    == {argv[i].o : i \in 1..Len(argv)}
Has(argv, o)   == \E i \in 1..Len(argv) : argv[i].o = o
ValueOf(argv, o, d) == LET s == SelectSeq(argv, LAMBDA a : a.o = o) IN IF s = << >> THEN d ELSE s[Len(s)].v

Result(out, st, files) == [out |-> out, st |-> st, files |-> files]

(* Each operand in turn; a missing one is an error, the others are still      *)
(* read.  Several operands have headers, unless -q.                           *)
EachFile(argv, files, F(_)) ==
    LET names  == Operands(argv)
        header == (Len(names) > 1 /\ ~Has(Options(argv), "q")) \/ Has(Options(argv), "v")
    IN  FoldLeft(LAMBDA r, i :
            LET head == IF header THEN (IF i > 1 THEN <<NL>> ELSE << >>) \o <<names[i], NL>> ELSE << >>
            IN  IF names[i] \in DOMAIN files
                THEN [r EXCEPT !.out = @ \o head \o F(files[names[i]])]
                ELSE [r EXCEPT !.out = @ \o head, !.st = 1],
            Result(<< >>, 0, files), Ix(names))
(* The first operand, or the standard input.                                  *)
Input(argv, in, files) ==
    CASE Operands(argv) = << >> -> [ok |-> TRUE, t |-> in]
      [] Operands(argv)[1] \in DOMAIN files -> [ok |-> TRUE, t |-> files[Operands(argv)[1]]]
      [] OTHER -> [ok |-> FALSE, t |-> << >>]
ByLines(argv, in, files, F(_)) ==
    LET i == Input(argv, in, files)
    IN  IF i.ok THEN Result(F(Lines(i.t)), 0, files) ELSE Result(<< >>, 1, files)

-----------------------------------------------------------------------------
(* head, tail, wc.                                                            *)

HeadArgs(argv) ==
    FoldLeft(LAMBDA m, a :
        CASE a.o = "c"   -> [bytes |-> TRUE, n |-> Num(a.v, 0)]
          [] a.o = "n"   -> [bytes |-> FALSE, n |-> Num(a.v, 10)]
          [] a.o = "num" -> [bytes |-> FALSE, n |-> a.v]
          [] OTHER       -> m,
        [bytes |-> FALSE, n |-> 10], Options(argv))
HeadEmit(m, t) ==
    LET ends == SelectSeq(Ix(t), LAMBDA i : t[i] = NL)
    IN  CASE m.bytes \/ m.n = 0 -> Take(t, m.n)
          [] OTHER -> Take(t, IF Len(ends) >= m.n THEN ends[m.n] ELSE Len(t))
Head2(argv, in, files) ==
    IF Operands(argv) = << >> THEN Result(HeadEmit(HeadArgs(argv), in), 0, files)
    ELSE EachFile(argv, files, LAMBDA t : HeadEmit(HeadArgs(argv), t))

TailArgs(argv) ==
    FoldLeft(LAMBDA m, a :
        CASE a.o = "c"    -> [k |-> "bytes", n |-> Num(a.v, 0)]
          [] a.o = "n"    -> [k |-> "lines", n |-> Num(a.v, 10)]
          [] a.o = "n+"   -> [k |-> "from", n |-> Num(a.v, 1)]
          [] a.o = "num"  -> [k |-> "lines", n |-> a.v]
          [] OTHER        -> m,
        [k |-> "lines", n |-> 10], Options(argv))
LastOf(s, n) == IF n < Len(s) THEN Drop(s, Len(s) - n) ELSE s
RawUnlines(ls) == FoldLeft(LAMBDA o, l : o \o l \o <<NL>>, << >>, ls)
TailEmit(m, t) ==
    CASE m.k = "bytes" -> LastOf(t, m.n)
      [] m.k = "from"  -> RawUnlines(Drop(RawLines(t), IF m.n = 0 THEN 0 ELSE m.n - 1))
      [] OTHER         -> RawUnlines(LastOf(RawLines(t), m.n))
Tail2(argv, in, files) ==
    IF Operands(argv) = << >> THEN Result(TailEmit(TailArgs(argv), in), 0, files)
    ELSE EachFile(argv, files, LAMBDA t : TailEmit(TailArgs(argv), t))

Columns == <<"l", "w", "c", "L">>
WcFlags(argv) ==
    LET given == SelectSeq(Columns, LAMBDA c : Has(argv, c)) IN IF given = << >> THEN <<"l", "w", "c">> ELSE given
WcStats(t) ==
    [c \in {"l", "w", "c", "L"} |->
        CASE c = "l" -> Cardinality({i \in 1..Len(t) : t[i] = NL})
          [] c = "w" -> Cardinality({i \in 1..Len(t) : t[i] \notin White /\ (i = 1 \/ t[i - 1] \in White)})
          [] c = "c" -> Len(t)
          [] c = "L" -> LET ls == RawLines(t) IN Max({0} \cup {Len(ls[i]) : i \in 1..Len(ls)})]
WcRow(cols, s, name) == [i \in 1..Len(cols) |-> ToString(s[cols[i]])] \o name \o <<NL>>
Wc(argv, in, files) ==
    LET cols  == WcFlags(argv)
        found == SelectSeq(Operands(argv), LAMBDA n : n \in DOMAIN files)
        total == [c \in {"l", "w", "c", "L"} |->
                    IF c = "L" THEN 0 ELSE FoldLeft(LAMBDA s, n : s + WcStats(files[n])[c], 0, found)]
        rows  == FoldLeft(LAMBDA o, n : o \o WcRow(cols, WcStats(files[n]), <<n>>), << >>, found)
    IN  IF Operands(argv) = << >> THEN Result(WcRow(cols, WcStats(in), << >>), 0, files)
        ELSE Result(rows \o (IF Len(Operands(argv)) > 1 THEN WcRow(cols, total, <<"total">>) ELSE << >>),
                    IF Len(found) = Len(Operands(argv)) THEN 0 ELSE 1, files)

-----------------------------------------------------------------------------
(* grep                                                                       *)

(* Leftmost occurrences of p in l that do not overlap, as start positions.    *)
Occurs(l, p, i) == i + Len(p) - 1 <= Len(l) /\ SubSeq(l, i, i + Len(p) - 1) = p
Found(l, p) ==
    FoldLeft(LAMBDA a, i : IF i >= a.next /\ Occurs(l, p, i) THEN [next |-> i + Len(p), at |-> Append(a.at, i)] ELSE a,
             [next |-> 1, at |-> << >>], Ix(l)).at
(* A boundary is asked of the bytes beside a match, a word of characters.     *)
Bounded(l, i, j) == (i = 1 \/ l[i - 1] \notin Ascii) /\ (j = Len(l) \/ l[j + 1] \notin Ascii)
Words(l) == ToSet(FoldLeft(LAMBDA ws, c : IF c \in Letters THEN Append(Front(ws), Append(ws[Len(ws)], c)) ELSE Append(ws, << >>),
                           << << >> >>, l))

GrepArgs(argv) ==
    LET given(os) == SelectSeq(argv, LAMBDA a : a.o \in os)
        context(os) == IF given(os) = << >> THEN 0 ELSE Num(Last(given(os)).v, 0)
        pats == given({"e"})
        ops  == Operands(argv)
    IN  [flags  |-> Given(argv) \ {"", "e"},
         name   |-> IF given({"h", "H"}) = << >> THEN "" ELSE Last(given({"h", "H"})).o,
         after  |-> context({"A", "C"}), before |-> context({"B", "C"}), max |-> ValueOf(argv, "m", Bad),
         pats   |-> IF pats = << >> THEN Take(ops, 1) ELSE [i \in 1..Len(pats) |-> pats[i].v],
         files  |-> IF pats = << >> THEN Drop(ops, 1) ELSE ops]
GrepMatch(f, line, pat) ==
    LET l == IF "i" \in f THEN Lower(line) ELSE line
        p == IF "i" \in f THEN Lower(pat) ELSE pat
        s == Found(l, p)
    IN  CASE "w" \in f /\ "F" \in f -> p \in Words(l)
          [] "w" \in f -> \E k \in 1..Len(s) : Bounded(l, s[k], s[k] + Len(p) - 1)
          [] OTHER -> s # << >>
GrepFind(f, line, pat) ==
    LET l  == IF "i" \in f THEN Lower(line) ELSE line
        p  == IF "i" \in f THEN Lower(pat) ELSE pat
        ok == SelectSeq(Found(l, p), LAMBDA i : "w" \notin f \/ Bounded(l, i, i + Len(p) - 1))
    IN  IF ok = << >> THEN << >> ELSE <<SubSeq(line, ok[1], ok[1] + Len(p) - 1)>>
GrepMatches(g, line) == (\E i \in 1..Len(g.pats) : GrepMatch(g.flags, line, g.pats[i])) # ("v" \in g.flags)
GrepEmit(g, name, line, n) ==
    LET prefix == name \o (IF "n" \in g.flags THEN <<ToString(n), ":">> ELSE << >>)
        hits   == FlattenSeq([i \in 1..Len(g.pats) |-> GrepFind(g.flags, line, g.pats[i])])
    IN  IF "o" \in g.flags THEN FoldLeft(LAMBDA o, h : o \o prefix \o Line(h), << >>, hits) ELSE prefix \o Line(line)
GrepStop(g, count) == g.max # Bad /\ count >= g.max
GrepState == [out |-> << >>, count |-> 0, after |-> 0, sep |-> FALSE, before |-> << >>, n |-> 0, stop |-> FALSE]
GrepLine(g, name, s0, line) ==
    LET s     == [s0 EXCEPT !.n = @ + 1]
        quiet == g.flags \cap {"q", "l", "c"} # {}
        hit   == [s EXCEPT !.count = @ + 1, !.stop = GrepStop(g, s.count + 1)]
        lead  == IF s.before = << >> THEN << >>
                 ELSE (IF s.sep THEN <<"--", NL>> ELSE << >>)
                      \o FoldLeft(LAMBDA o, b : o \o GrepEmit(g, name, b.line, b.n), << >>, s.before)
    IN  CASE s0.stop -> s0
          [] GrepMatches(g, line) /\ quiet -> hit
          [] GrepMatches(g, line) -> [hit EXCEPT !.out = @ \o lead \o GrepEmit(g, name, line, s.n),
                                                 !.before = << >>, !.after = g.after, !.sep = TRUE]
          [] s.after > 0 /\ "c" \notin g.flags -> [s EXCEPT !.out = @ \o GrepEmit(g, name, line, s.n), !.after = @ - 1]
          [] g.before > 0 -> [s EXCEPT !.before = LastOf(Append(@, [n |-> s.n, line |-> line]), g.before)]
          [] OTHER -> s
GrepReader(g, name, t) ==
    LET s == FoldLeft(LAMBDA a, l : GrepLine(g, name, a, l), GrepState, Lines(t))
    IN  IF "c" \in g.flags /\ "q" \notin g.flags THEN [s EXCEPT !.out = @ \o name \o <<ToString(s.count), NL>>] ELSE s
Grep(argv, in, files) ==
    LET g    == GrepArgs(argv)
        s    == GrepReader(g, << >>, in)
        show == IF g.name = "" THEN Len(g.files) > 1 ELSE g.name = "H"
        one(r, n) == LET q == GrepReader(g, IF show THEN <<n, ":">> ELSE << >>, files[n])
                     IN  [r EXCEPT !.out = @ \o q.out \o (IF q.count > 0 /\ "l" \in g.flags THEN <<n, NL>> ELSE << >>),
                                   !.st  = IF q.count > 0 THEN 0 ELSE @]
    IN  CASE g.pats = << >>  -> Result(<< >>, 2, files)
          [] g.files = << >> -> Result(s.out, IF s.count > 0 THEN 0 ELSE 1, files)
          [] OTHER -> FoldLeft(LAMBDA r, n : IF n \in DOMAIN files THEN one(r, n) ELSE r, Result(<< >>, 1, files), g.files)

-----------------------------------------------------------------------------
(* sed.  A script is a sequence of parts, each a sequence of address tokens   *)
(* and one command; "?" is a command that does not parse and is left out.     *)

RECURSIVE SedAddr(_)
SedAddr(ts) ==
    LET one == IF ts # << >> /\ ts[1].k \in {"line", "last", "re"} THEN ts[1] ELSE [k |-> "none"]
        two == SedAddr(Drop(ts, 2))
    IN  CASE one.k = "none" -> [addr |-> one, rest |-> ts]
          [] Len(ts) > 1 /\ ts[2].k = "," -> [addr |-> [k |-> "range", from |-> one, to |-> two.addr], rest |-> two.rest]
          [] OTHER -> [addr |-> one, rest |-> Drop(ts, 1)]
SedScript(parts) ==
    LET parsed == [i \in 1..Len(parts) |-> SedAddr(parts[i])]
        kept   == SelectSeq(parsed, LAMBDA p : p.rest # << >> /\ p.rest[1].k # "?")
    IN  [i \in 1..Len(kept) |-> [addr |-> kept[i].addr, cmd |-> kept[i].rest[1]]]
SedOne(a, n, last, line) ==
    CASE a.k = "line" -> n = a.n [] a.k = "last" -> last [] a.k = "re" -> Found(line, a.p) # << >> [] OTHER -> TRUE
(* Whether the instruction applies, and whether its range is open after it.   *)
SedMatches(a, n, last, line, open) ==
    CASE a.k # "range" -> [yes |-> SedOne(a, n, last, line), open |-> FALSE]
      [] open -> [yes |-> TRUE, open |-> ~SedOne(a.to, n, last, line)]
      [] OTHER -> LET y == SedOne(a.from, n, last, line) IN [yes |-> y, open |-> y]
Replaced(l, p, by, all) ==
    LET at   == Found(l, p)
        used == IF all THEN at ELSE Take(at, 1)
        new  == FoldLeft(LAMBDA o, c : IF c = "&" THEN o \o p ELSE Append(o, c), << >>, by)
        r    == FoldLeft(LAMBDA a, i : [out |-> a.out \o SubSeq(l, a.from, i - 1) \o new, from |-> i + Len(p)],
                         [out |-> << >>, from |-> 1], used)
    IN  r.out \o SubSeq(l, r.from, Len(l))
Mapped(from, to, c) ==
    LET i == SelectInSeq(from, LAMBDA x : x = c)
    IN  IF i = 0 \/ to = << >> THEN c ELSE to[IF i > Len(to) THEN Len(to) ELSE i]
SedApply(quiet, s, c) ==
    CASE c.k = "s" -> [s EXCEPT !.line = Replaced(@, c.p, c.by, c.all)]
      [] c.k = "y" -> [s EXCEPT !.line = [i \in 1..Len(@) |-> Mapped(c.from, c.to, @[i])]]
      [] c.k = "p" -> [s EXCEPT !.out = @ \o Line(s.line), !.printed = TRUE]
      [] c.k = "i" -> [s EXCEPT !.out = @ \o Line(c.t)]
      [] c.k = "a" -> [s EXCEPT !.out = @ \o (IF quiet \/ s.printed THEN << >> ELSE Line(s.line)) \o Line(c.t),
                                !.printed = @ \/ ~quiet]
      [] c.k = "c" -> [s EXCEPT !.out = @ \o Line(c.t), !.deleted = TRUE, !.end = TRUE]
      [] c.k = "d" -> [s EXCEPT !.deleted = TRUE, !.end = TRUE]
      [] c.k = "q" -> [s EXCEPT !.quit = TRUE, !.end = TRUE]
SedInstructions(script, quiet, s0, n, last) ==
    FoldLeft(LAMBDA s, i :
        IF s.end THEN s
        ELSE LET m == SedMatches(script[i].addr, n, last, s.line, s.open[i])
                 o == [s EXCEPT !.open[i] = m.open]
             IN  IF m.yes THEN SedApply(quiet, o, script[i].cmd) ELSE o,
        s0, Ix(script))
SedLine(open, out, line) ==
    [open |-> open, out |-> out, line |-> line, printed |-> FALSE, deleted |-> FALSE, quit |-> FALSE, end |-> FALSE]
SedReader(script, quiet, t) ==
    LET ls  == Lines(t)
        one(s, i) ==
            LET r == SedInstructions(script, quiet, SedLine(s.open, s.out, ls[i]), i, i = Len(ls))
            IN  IF s.quit THEN s
                ELSE [r EXCEPT !.out = IF r.deleted \/ quiet \/ r.printed THEN @ ELSE @ \o Line(r.line)]
    IN  FoldLeft(one, SedLine([i \in 1..Len(script) |-> FALSE], << >>, << >>), Ix(ls)).out
(* -e scripts, or the first operand; after -- only operands.                  *)
SedArgs(argv) ==
    FoldLeft(LAMBDA s, a :
        CASE s.rest      -> [s EXCEPT !.files = Append(@, a.v)]
          [] a.o = "n"   -> [s EXCEPT !.quiet = TRUE]
          [] a.o = "i"   -> [s EXCEPT !.inplace = TRUE, !.suffix = a.v]
          [] a.o = "e"   -> [s EXCEPT !.script = @ \o a.v, !.given = TRUE]
          [] a.o = "--"  -> [s EXCEPT !.rest = TRUE]
          [] a.o = "" /\ ~s.given -> [s EXCEPT !.script = a.v, !.given = TRUE]
          [] a.o = ""    -> [s EXCEPT !.files = Append(@, a.v)]
          [] OTHER       -> s,
        [quiet |-> FALSE, inplace |-> FALSE, suffix |-> "", script |-> << >>, given |-> FALSE, files |-> << >>, rest |-> FALSE],
        argv)
(* In place: the backup first, then the whole result over the file.  The      *)
(* first operand that cannot be read ends the command.                        *)
SedInPlace(s, script, files) ==
    FoldLeft(LAMBDA r, n :
        LET kept == IF s.suffix = "" \/ n \notin DOMAIN r.files THEN r.files ELSE ((n \o s.suffix) :> r.files[n]) @@ r.files
        IN  CASE r.st # 0 -> r
              [] n \notin DOMAIN r.files -> [r EXCEPT !.st = 1]
              [] OTHER -> [r EXCEPT !.files = [kept EXCEPT ![n] = SedReader(script, s.quiet, r.files[n])]],
        Result(<< >>, 0, files), s.files)
Sed(argv, in, files) ==
    LET s      == SedArgs(argv)
        script == SedScript(s.script)
        each(r, n) == CASE r.st # 0 -> r
                        [] n \notin DOMAIN files -> [r EXCEPT !.st = 1]
                        [] OTHER -> [r EXCEPT !.out = @ \o SedReader(script, s.quiet, files[n])]
    IN  CASE ~s.given -> Result(<< >>, 1, files)
          [] s.inplace /\ s.files # << >> -> SedInPlace(s, script, files)
          [] s.files = << >> -> Result(SedReader(script, s.quiet, in), 0, files)
          [] OTHER -> FoldLeft(each, Result(<< >>, 0, files), s.files)

-----------------------------------------------------------------------------
(* sort                                                                       *)

Spans(l, sep) ==
    LET cut(i)  == IF sep = Bad THEN l[i] \in White ELSE l[i] = Order[sep]
        from(i) == IF sep = Bad THEN ~cut(i) /\ (i = 1 \/ cut(i - 1)) ELSE i = 1 \/ cut(i - 1)
        starts  == SelectSeq([i \in 1..(Len(l) + (IF sep = Bad THEN 0 ELSE 1)) |-> i], from)
        end(i)  == LET later == {j \in i..Len(l) : cut(j)} IN IF later = {} THEN Len(l) ELSE Min(later) - 1
    IN  [k \in 1..Len(starts) |-> <<starts[k], end(starts[k])>>]
SortArgs(argv) ==
    [flags |-> Given(argv) \ {"", "--"}, key |-> ValueOf(argv, "k", [from |-> Bad, to |-> Bad]),
     sep |-> ValueOf(argv, "t", Bad), into |-> ValueOf(argv, "o", "")]
SortKey(f, l) ==
    LET sp == Spans(l, f.sep)
    IN  CASE f.key.from \in {Bad, 0} -> l
          [] f.key.from > Len(sp) -> << >>
          [] OTHER -> SubSeq(l, sp[f.key.from][1],
                             IF f.key.to >= f.key.from /\ f.key.to <= Len(sp) THEN sp[f.key.to][2] ELSE Len(l))
TrimStart(l) == LET i == SelectInSeq(l, LAMBDA c : c \notin White) IN IF i = 0 THEN << >> ELSE Drop(l, i - 1)
LeadingNumber(l) ==
    LET t == TrimStart(l)
        s == IF t # << >> /\ t[1] = "-" THEN Tail(t) ELSE t
        d == Take(s, LET i == SelectInSeq(s, LAMBDA c : c \notin {"1", "2"}) IN IF i = 0 THEN Len(s) ELSE i - 1)
        n == FoldLeft(LAMBDA v, c : 10 * v + (IF c = "1" THEN 1 ELSE 2), 0, d)
    IN  IF s # t THEN 0 - n ELSE n
Compare(a, b) ==
    LET d == {i \in 1..Len(a) : i <= Len(b) /\ a[i] # b[i]}
        i == IF d = {} THEN 0 ELSE Min(d)
    IN  IF d = {} THEN Len(a) - Len(b) ELSE Code(a[i]) - Code(b[i])
SortCompare(f, a, b) ==
    LET k(l)  == IF "b" \in f.flags THEN TrimStart(SortKey(f, l)) ELSE SortKey(f, l)
        keys  == CASE f.flags \cap {"n", "h"} # {} -> LeadingNumber(k(a)) - LeadingNumber(k(b))
                   [] "f" \in f.flags -> Compare(Lower(k(a)), Lower(k(b)))
                   [] OTHER -> Compare(k(a), k(b))
        order == IF keys # 0 \/ "s" \in f.flags THEN keys ELSE Compare(a, b)
    IN  IF "r" \in f.flags THEN 0 - order ELSE order
Dedup(ls, Same(_, _)) == FoldLeft(LAMBDA o, l : IF o # << >> /\ Same(Last(o), l) THEN o ELSE Append(o, l), << >>, ls)
SortLinesUnstable(f, ls) ==   \* mutant: equal lines change places
    At(ls, SetToSortSeq(1..Len(ls), LAMBDA i, j : LET c == SortCompare(f, ls[i], ls[j]) IN c < 0 \/ (c = 0 /\ i > j)))
SortLines(f, ls) ==
    LET order == SetToSortSeq(1..Len(ls), LAMBDA i, j : LET c == SortCompare(f, ls[i], ls[j]) IN c < 0 \/ (c = 0 /\ i < j))
        fold(l) == IF "f" \in f.flags THEN Lower(l) ELSE l
    IN  IF "u" \in f.flags THEN Dedup(At(ls, order), LAMBDA a, b : fold(a) = fold(b)) ELSE At(ls, order)
(* -c: the first pair out of order; -r is already part of the comparison.     *)
SortDisorder(f, ls) ==
    \E i \in 1..(Len(ls) - 1) :
        LET c == SortCompare(f, ls[i], ls[i + 1]) IN IF "r" \in f.flags THEN c < 0 ELSE c > 0
Sort(argv, in, files) ==
    LET f == SortArgs(argv)
        i == Input(argv, in, files)
        sorted == Unlines(SortLines(f, Lines(i.t)))
    IN  CASE ~i.ok -> Result(<< >>, 1, files)
          [] "c" \in f.flags -> Result(<< >>, IF SortDisorder(f, Lines(i.t)) THEN 1 ELSE 0, files)
          [] f.into # "" -> Result(<< >>, 0, (f.into :> sorted) @@ files)
          [] OTHER -> Result(sorted, 0, files)

-----------------------------------------------------------------------------
(* uniq, cut, tr                                                              *)

UniqArgs(argv) ==
    [flags |-> Given(argv), fields |-> Num(ValueOf(argv, "f", Bad), 0),
     chars |-> Num(ValueOf(argv, "s", Bad), 0), width |-> ValueOf(argv, "w", Bad)]
SkipField(l) ==
    LET t == TrimStart(l)
        i == SelectInSeq(t, LAMBDA c : c \in White)
    IN  IF i = 0 THEN << >> ELSE Drop(t, i - 1)
UniqKey(f, line) ==
    LET s == Drop(FoldLeft(LAMBDA l, i : SkipField(l), line, [i \in 1..f.fields |-> i]), f.chars)
        w == IF f.width = Bad THEN s ELSE Take(s, f.width)
    IN  IF "i" \in f.flags THEN Lower(w) ELSE w
UniqEmit(f, line, n) ==
    CASE "d" \in f.flags /\ n < 2 -> << >>
      [] "u" \in f.flags /\ n > 1 -> << >>
      [] "c" \in f.flags -> <<ToString(n), " ">> \o Line(line)
      [] OTHER -> Line(line)
UniqText(f, ls) ==
    LET r == FoldLeft(LAMBDA s, l :
                IF s.n > 0 /\ UniqKey(f, s.prev) = UniqKey(f, l) THEN [s EXCEPT !.n = @ + 1]
                ELSE [out |-> s.out \o (IF s.n > 0 THEN UniqEmit(f, s.prev, s.n) ELSE << >>), prev |-> l, n |-> 1],
                [out |-> << >>, prev |-> << >>, n |-> 0], ls)
    IN  r.out \o (IF r.n > 0 THEN UniqEmit(f, r.prev, r.n) ELSE << >>)
Uniq(argv, in, files) == ByLines(argv, in, files, LAMBDA ls : UniqText(UniqArgs(argv), ls))

InRanges(rs, i) == \E k \in 1..Len(rs) : i >= Num(rs[k].from, 1) /\ (rs[k].to = Bad \/ i <= rs[k].to)
CutArgs(argv) ==
    LET modes == SelectSeq(argv, LAMBDA a : a.o \in {"f", "c", "b"})
        delim == ValueOf(argv, "d", "\t")
    IN  [mode |-> IF modes = << >> THEN "" ELSE Last(modes).o, ranges |-> IF modes = << >> THEN << >> ELSE Last(modes).v,
         delim |-> delim, other |-> Has(argv, "complement"), only |-> Has(argv, "s"),
         join |-> ValueOf(argv, "output-delimiter", <<delim>>)]
CutLine(c, l) ==
    LET pick(s) == At(s, SelectSeq(Ix(s), LAMBDA i : InRanges(c.ranges, i) # c.other))
    IN  CASE c.mode = "f" /\ c.only /\ c.delim \notin ToSet(l) -> << >>
          [] c.mode = "f" -> Line(Join(pick(SplitOn(l, c.delim)), c.join))
          [] OTHER -> Line(pick(l))
Cut(argv, in, files) ==
    IF CutArgs(argv).mode = "" THEN Result(<< >>, 1, files)
    ELSE ByLines(argv, in, files, LAMBDA ls : FoldLeft(LAMBDA o, l : o \o CutLine(CutArgs(argv), l), << >>, ls))

(* A set is a sequence of characters, ranges and classes; a range that does   *)
(* not ascend stands for its two ends and the dash.                           *)
TrItem(i) ==
    CASE i.k = "class" -> CASE i.c = "upper" -> <<"A", "B">> [] i.c = "lower" -> <<"a", "b">> [] i.c = "digit" -> <<"1", "2">>
                            [] i.c = "space" -> <<" ", "\t", NL>> [] i.c = "blank" -> <<" ", "\t">> [] OTHER -> << >>
      [] i.k = "range" -> IF Code(i.c) < Code(i.to) THEN SubSeq(Order, Code(i.c), Code(i.to)) ELSE <<i.c, "-", i.to>>
      [] OTHER -> <<i.c>>
TrSet(spec) == FlattenSeq([i \in 1..Len(spec) |-> TrItem(spec[i])])
TrArgs(argv) == [flags |-> Given(argv), sets |-> Operands(argv)]
(* lone: there is no second set, so -s looks at the first.                     *)
TrChar(f, from, to, lone, s, c) ==
    LET hit   == (c \in ToSet(from)) # ("C" \in f)
        set   == IF "C" \in f THEN SelectSeq(Order, LAMBDA x : x \notin ToSet(from) \cup {"e", "repl"}) ELSE from
        other == Mapped(set, to, c)
        emit(x) == [out |-> s.out \o Encode(<<x>>), prev |-> x]
        again(x, among) == x \in ToSet(among) /\ s.prev = x
    IN  CASE "d" \in f /\ hit -> s
          [] "d" \in f -> IF "s" \in f /\ again(c, to) THEN s ELSE emit(c)
          [] "s" \in f /\ lone -> IF again(c, from) THEN s ELSE emit(c)
          [] OTHER -> IF "s" \in f /\ again(other, to) THEN s ELSE emit(other)
Tr(argv, in, files) ==
    LET t    == TrArgs(argv)
        to   == IF Len(t.sets) < 2 \/ ("d" \in t.flags /\ "s" \notin t.flags) THEN << >> ELSE TrSet(t.sets[2])
        char(s, c) == TrChar(t.flags, TrSet(t.sets[1]), to, Len(t.sets) < 2, s, c)
    IN  IF t.sets = << >> \/ (Len(t.sets) < 2 /\ t.flags \cap {"d", "s"} = {}) THEN Result(<< >>, 1, files)
        ELSE Result(FoldLeft(char, [out |-> << >>, prev |-> ""], Lossy(in)).out, 0, files)

-----------------------------------------------------------------------------
(* tee, paste, rev, bat, column                                               *)

(* Every file is opened, truncated without -a, before anything is read; a     *)
(* file that cannot be opened leaves the others to be written.                *)
Tee(argv, in, files, closed) ==
    LET append == argv # << >> /\ argv[1].o = "a"
        names  == SelectSeq(Operands(argv), LAMBDA n : n \notin closed)
        kept(n) == IF append /\ n \in DOMAIN files THEN files[n] ELSE << >>
    IN  Result(in, IF Len(names) = Len(Operands(argv)) THEN 0 ELSE 1,
               [n \in ToSet(names) |-> kept(n) \o in] @@ files)

PasteArgs(argv) == [serial |-> Has(argv, "s"), delim |-> ValueOf(argv, "d", <<"\t">>)]
PasteSerial(p, ls) == Append(Encode(Join(ls, p.delim)), NL)
PasteMerge(p, sources) ==
    LET rows == Max({0} \cup {Len(sources[i]) : i \in 1..Len(sources)})
        cell(i, r) == IF r <= Len(sources[i]) THEN sources[i][r] ELSE << >>
    IN  Unlines([r \in 1..rows |-> Join([i \in 1..Len(sources) |-> cell(i, r)], p.delim)])
(* The first "-" takes the standard input; another one finds it empty.        *)
Paste(argv, in, files) ==
    LET p     == PasteArgs(argv)
        names == Operands(argv)
        text(i) == CASE names[i] # "-" -> files[names[i]]
                     [] \E j \in 1..(i - 1) : names[j] = "-" -> << >>
                     [] OTHER -> in
        sources == [i \in 1..Len(names) |-> Lines(text(i))]
    IN  CASE names = << >> -> Result(Ended(in), 0, files)
          [] \E i \in 1..Len(names) : names[i] \notin DOMAIN files \cup {"-"} -> Result(<< >>, 1, files)
          [] p.serial -> Result(FlattenSeq([i \in 1..Len(names) |-> PasteSerial(p, sources[i])]), 0, files)
          [] OTHER -> Result(PasteMerge(p, sources), 0, files)

Rev(argv, in, files) == ByLines(argv, in, files, LAMBDA ls : Unlines([i \in 1..Len(ls) |-> Reverse(ls[i])]))

BatArgs(argv) ==
    FoldLeft(LAMBDA b, a :
        CASE a.o = "n" -> [b EXCEPT !.numbers = TRUE]
          [] a.o = "p" -> [b EXCEPT !.numbers = FALSE, !.header = FALSE]
          [] a.o = "A" -> [b EXCEPT !.all = TRUE]
          [] a.o = "r" -> [b EXCEPT !.range = a.v]
          [] a.o = "style" -> [b EXCEPT !.numbers = a.v \notin {"plain", "header"}, !.header = a.v \notin {"plain", "numbers"}]
          [] OTHER -> b,
        [numbers |-> TRUE, header |-> TRUE, all |-> FALSE, range |-> [from |-> Bad, to |-> Bad]], Options(argv))
Visible(l) == FlattenSeq([i \in 1..Len(l) |-> IF l[i] = "\t" THEN <<"\\", "t">> ELSE <<l[i]>>])
BatLine(b, n, l) ==
    (IF b.numbers THEN <<ToString(n), "|">> ELSE << >>) \o Line(IF b.all THEN Visible(l) ELSE l)
BatOutput(b, name, t) ==
    LET ls == Lines(t)
        in == SelectSeq(Ix(ls), LAMBDA i : InRanges(<<b.range>>, i))
        head == IF b.header THEN <<"top">> \o name \o <<"mid">> ELSE << >>
    IN  head \o FoldLeft(LAMBDA o, i : o \o BatLine(b, i, ls[i]), << >>, in) \o (IF b.header THEN <<"bot">> ELSE << >>)
Bat(argv, in, files) ==
    LET b == BatArgs(argv)
        each(r, n) == IF n \in DOMAIN files THEN [r EXCEPT !.out = @ \o BatOutput(b, <<n>>, files[n])] ELSE [r EXCEPT !.st = 1]
    IN  IF Operands(argv) = << >> THEN Result(BatOutput(b, << >>, in), 0, files)
        ELSE FoldLeft(each, Result(<< >>, 0, files), Operands(argv))

(* Without -t the text as it is; with it, rows of fields under each other.    *)
Column(argv, in, files) ==
    LET i      == Input(argv, in, files)
        delim  == ValueOf(argv, "s", "")
        fields(l) == SelectSeq(SplitOn(l, IF delim = "" THEN " " ELSE delim), LAMBDA f : delim # "" \/ f # << >>)
        lines  == SelectSeq(Lines(i.t), LAMBDA l : l # << >>)
        rows   == [r \in 1..Len(lines) |-> fields(lines[r])]
        width(j) == Max({Len(rows[r][j]) : r \in {r \in 1..Len(rows) : j <= Len(rows[r])}})
        cell(r, j) == IF j = Len(rows[r]) THEN rows[r][j] ELSE rows[r][j] \o [n \in 1..(width(j) + 2 - Len(rows[r][j])) |-> " "]
    IN  CASE ~i.ok -> Result(<< >>, 1, files)
          [] Has(argv, "t") -> Result(Unlines([r \in 1..Len(rows) |-> FlattenSeq([j \in 1..Len(rows[r]) |-> cell(r, j)])]), 0, files)
          [] OTHER -> Result(Encode(Lossy(Ended(i.t))), 0, files)

=============================================================================
