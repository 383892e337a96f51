--------------------------- MODULE StreamingFilters ---------------------------
(* The stages a pipeline runs as readers instead of buffered utilities        *)
(* (wasmsh-runtime: parse_streaming_* and the *StreamReader types).  Accept   *)
(* decides from the arguments whether a command streams and how; a reader is  *)
(* then pulled: what its input has is fed to it in chunks, complete lines are *)
(* taken one at a time, the end is announced, and its pending output is taken *)
(* in pieces before anything else is read.                                    *)
EXTENDS TextUtils

-----------------------------------------------------------------------------
(* Which commands stream.  No stands for None: the utility runs instead.      *)

No == [cmd |-> ""]
OnlyOptions(argv, known) == \A i \in 1..Len(argv) : argv[i].o \in known
Valued(argv, os) == \A i \in 1..Len(argv) : argv[i].o \in os => argv[i].v # Bad

AcceptCat(argv, first) ==
    CASE ~OnlyOptions(argv, {"", "--"}) -> No
      [] first -> IF Len(Operands(argv)) = 1 THEN [cmd |-> "file", name |-> Operands(argv)[1]] ELSE No
      [] OTHER -> [cmd |-> "cat"]
AcceptHead(argv) ==
    LET last == SelectSeq(argv, LAMBDA a : a.o \in {"c", "n", "num"})
    IN  IF ~OnlyOptions(argv, {"c", "n", "num", "--"}) \/ ~Valued(argv, {"c", "n"}) THEN No
        ELSE [cmd |-> "head", bytes |-> last # << >> /\ Last(last).o = "c", n |-> IF last = << >> THEN 10 ELSE Last(last).v]
AcceptTail(argv) ==
    LET last == SelectSeq(argv, LAMBDA a : a.o \in {"c", "n", "num"})
    IN  IF ~OnlyOptions(argv, {"c", "n", "num", "--"}) \/ ~Valued(argv, {"c", "n"}) THEN No
        ELSE [cmd |-> "tail", bytes |-> last # << >> /\ Last(last).o = "c", n |-> IF last = << >> THEN 10 ELSE Last(last).v]
AcceptBat(argv) ==
    IF ~OnlyOptions(argv, {"n", "p", "A", "r", "l", "style", "--"}) THEN No
    ELSE [cmd |-> "bat", b |-> BatArgs(SelectSeq(argv, LAMBDA a : a.o # "--"))]
StreamSedScript(parts) == SedScript(parts)
(* A script per -e, or one operand, which may come after --; a second operand *)
(* is a file.                                                                 *)
AcceptSed(argv) ==
    LET s == FoldLeft(LAMBDA a, x :
                CASE x.o = "n" /\ ~a.dash -> [a EXCEPT !.quiet = TRUE]
                  [] x.o = "--" /\ ~a.dash -> [a EXCEPT !.dash = TRUE]
                  [] x.o = "e" /\ ~a.dash -> [a EXCEPT !.script = @ \o x.v, !.given = TRUE]
                  [] x.o = "" \/ a.dash -> [a EXCEPT !.script = x.v, !.ok = @ /\ ~a.given, !.given = TRUE, !.dash = FALSE]
                  [] OTHER     -> [a EXCEPT !.ok = @ /\ x.o = "E"],
                [quiet |-> FALSE, script |-> << >>, given |-> FALSE, ok |-> TRUE, dash |-> FALSE], argv)
    IN  IF ~s.ok \/ StreamSedScript(s.script) = << >> THEN No
        ELSE [cmd |-> "sed", quiet |-> s.quiet, script |-> StreamSedScript(s.script)]
AcceptPaste(argv) ==
    IF ~OnlyOptions(argv, {"s", "d"}) THEN No ELSE [cmd |-> "paste", p |-> PasteArgs(argv)]
AcceptTee(argv) ==
    IF ~OnlyOptions(argv, {"a", "i", "--", ""}) THEN No
    ELSE [cmd |-> "tee", append |-> Has(argv, "a"), names |-> Operands(argv)]
AcceptColumn(argv) == IF Has(argv, "t") \/ Has(argv, "s") \/ Has(argv, "") THEN No ELSE [cmd |-> "column"]
AcceptRev(argv)    == IF OnlyOptions(argv, {"--"}) THEN [cmd |-> "rev"] ELSE No
AcceptGrep(argv) ==
    LET g == GrepArgs(argv)
    IN  IF \/ ~OnlyOptions(argv, {"i", "v", "c", "n", "l", "E", "F", "w", "o", "q", "h", "H", "z", "e", "A", "B", "C", "m", ""})
           \/ ~Valued(argv, {"A", "B", "C"}) \/ g.pats = << >> \/ g.files # << >>
        THEN No ELSE [cmd |-> "grep", g |-> g]
AcceptUniq(argv) ==
    IF ~OnlyOptions(argv, {"c", "d", "u", "i", "z", "f", "s", "w", "--"}) \/ ~Valued(argv, {"f", "s"}) THEN No
    ELSE [cmd |-> "uniq", f |-> UniqArgs(argv)]
AcceptCut(argv) ==
    IF ~OnlyOptions(argv, {"f", "c", "b", "d", "complement", "s", "z", "output-delimiter", "--"}) \/ CutArgs(argv).mode = "" THEN No
    ELSE [cmd |-> "cut", c |-> CutArgs(argv)]
StreamTrSet(spec) == TrSet(spec)
AcceptTr(argv) ==
    LET t == TrArgs(argv)
    IN  IF \/ ~OnlyOptions(argv, {"d", "s", "C", "t", ""}) \/ t.sets = << >>
           \/ (Len(t.sets) < 2 /\ t.flags \cap {"d", "s"} = {})
        THEN No
        ELSE [cmd |-> "tr", f |-> t.flags, from |-> StreamTrSet(t.sets[1]),
              to |-> IF Len(t.sets) < 2 \/ ("d" \in t.flags /\ "s" \notin t.flags) THEN << >> ELSE StreamTrSet(t.sets[2])]
AcceptWc(argv) == IF OnlyOptions(argv, {"l", "w", "c", "L", "--"}) THEN [cmd |-> "wc", cols |-> WcFlags(argv)] ELSE No

Accept(name, argv, first) ==
    CASE name = "cat" -> AcceptCat(argv, first)
      [] first -> No
      [] name = "head" -> AcceptHead(argv) [] name = "tail" -> AcceptTail(argv) [] name = "bat" -> AcceptBat(argv)
      [] name = "sed" -> AcceptSed(argv) [] name = "paste" -> AcceptPaste(argv) [] name = "tee" -> AcceptTee(argv)
      [] name = "column" -> AcceptColumn(argv) [] name = "rev" -> AcceptRev(argv) [] name = "grep" -> AcceptGrep(argv)
      [] name = "uniq" -> AcceptUniq(argv) [] name = "cut" -> AcceptCut(argv) [] name = "tr" -> AcceptTr(argv)
      [] name = "wc" -> AcceptWc(argv) [] OTHER -> No

-----------------------------------------------------------------------------
(* The readers.  One record serves them all: pend is input not yet taken, out *)
(* is output not yet delivered, mem is what the reader remembers.             *)

Blank == [prev |-> << >>, n |-> 0, held |-> FALSE]
Memory(c) ==
    CASE c.cmd = "grep" -> GrepState
      [] c.cmd = "sed"  -> [cur |-> << >>, some |-> FALSE, n |-> 1, open |-> [i \in 1..Len(c.script) |-> FALSE]]
      [] c.cmd = "uniq" -> Blank
      [] c.cmd = "head" -> [left |-> c.n]
      [] c.cmd = "tail" -> [ring |-> << >>, cur |-> << >>]
      [] c.cmd = "wc"   -> [l |-> 0, w |-> 0, c |-> 0, L |-> 0, cur |-> 0, word |-> FALSE]
      [] c.cmd = "tr"   -> [prev |-> ""]
      [] c.cmd = "bat"  -> [n |-> 0]
      [] OTHER          -> [ended |-> TRUE, first |-> TRUE]
Reader(c) ==
    [c |-> c, pend |-> << >>, fin |-> FALSE, st |-> 0, mem |-> Memory(c),
     out |-> IF c.cmd = "bat" /\ c.b.header THEN <<"top", "mid">> ELSE << >>]
ByLine(r) == r.c.cmd \in {"grep", "uniq", "cut", "sed", "rev", "bat"} \/ (r.c.cmd = "paste" /\ r.c.p.serial)

Say(r, o) == [r EXCEPT !.out = @ \o o]
Stop(r)   == [r EXCEPT !.fin = TRUE]

(* How much the reader asks for: head no more than it may print, and byte by  *)
(* byte when it counts lines.                                                 *)
Wants(r, n) == IF r.c.cmd = "head" THEN (IF r.c.bytes THEN n <= r.mem.left ELSE n = 1) ELSE TRUE
(* head that may print nothing ends before it reads.                          *)
Settled(r) == IF r.c.cmd = "head" /\ r.mem.left = 0 THEN Stop(r) ELSE r

HeadChunk(r, d) ==
    LET out  == HeadEmit([bytes |-> r.c.bytes, n |-> r.mem.left], d)
        used == IF r.c.bytes THEN Len(out) ELSE Cardinality({i \in 1..Len(out) : out[i] = NL})
    IN  Say([r EXCEPT !.mem.left = @ - used, !.fin = r.mem.left = used], out)
Ring(r, x) == IF r.c.n = 0 THEN r ELSE [r EXCEPT !.mem.ring = LastOf(Append(@, x), r.c.n)]
TailByte(r, b) ==
    CASE r.c.bytes -> Ring(r, b)
      [] b = NL    -> [Ring(r, r.mem.cur) EXCEPT !.mem.cur = << >>]
      [] OTHER     -> [r EXCEPT !.mem.cur = Append(@, b)]
TailEnd(r) ==
    LET s == IF r.c.bytes \/ r.mem.cur = << >> THEN r ELSE Ring(r, r.mem.cur)
    IN  Say(Stop(s), IF r.c.bytes THEN s.mem.ring ELSE RawUnlines(s.mem.ring))
WcByte(r, b) ==
    LET m == r.mem
        longest == IF m.cur > m.L THEN m.cur ELSE m.L
    IN  [r EXCEPT !.mem = [l |-> IF b = NL THEN m.l + 1 ELSE m.l, w |-> IF b \notin White /\ ~m.word THEN m.w + 1 ELSE m.w,
                           c |-> m.c + 1, L |-> IF b = NL THEN longest ELSE m.L, cur |-> IF b = NL THEN 0 ELSE m.cur + 1,
                           word |-> b \notin White]]
WcEnd(r) ==
    LET m == [r.mem EXCEPT !.L = IF r.mem.cur > @ THEN r.mem.cur ELSE @] IN Say(Stop(r), WcRow(r.c.cols, m, << >>))
(* A second set that is empty counts as none.                                 *)
StreamTrChar(f, from, to, s, c) == TrChar(f, from, to, to = << >>, s, c)
TrFeed(r, chars) ==
    LET s == FoldLeft(LAMBDA a, c : StreamTrChar(r.c.f, r.c.from, r.c.to, a, c), [out |-> r.out, prev |-> r.mem.prev], chars)
    IN  [r EXCEPT !.out = s.out, !.mem.prev = s.prev]
TrChunkAlone(r, d) == TrFeed(r, Lossy(d))   \* mutant: a chunk is decoded by itself
(* A lead byte at the end of a chunk waits for the next one.                  *)
TrChunk(r, d) ==
    LET u == Decode(r.pend \o d) IN [TrFeed(r, u.out) EXCEPT !.pend = IF u.lead THEN <<"hi">> ELSE << >>]
TrEnd(r) == Stop([TrFeed(r, Lossy(r.pend)) EXCEPT !.pend = << >>])
PasteChunk(r, d) == Say([r EXCEPT !.mem.ended = Last(d) = NL], d)
PasteEnd(r)      == Say(Stop(r), IF r.mem.ended THEN << >> ELSE <<NL>>)
ColumnChunk(r, d) == Say([r EXCEPT !.mem.ended = Last(d) = NL], d)
ColumnEnd(r)      == Say(Stop(r), IF r.mem.ended THEN << >> ELSE <<NL>>)
PasteLine(r, l) ==
    Say([r EXCEPT !.mem.first = FALSE], (IF r.mem.first THEN << >> ELSE r.c.p.delim) \o Encode(l))

(* Unlike grep's own matcher, -w asks for a whole word also without -F, and   *)
(* -o looks at the first occurrence only.                                     *)
StreamGrepMatch(f, line, pat) ==
    LET l == IF "i" \in f THEN Lower(line) ELSE line
        p == IF "i" \in f THEN Lower(pat) ELSE pat
    IN  IF "w" \in f THEN p \in Words(l) ELSE Found(l, p) # << >>
StreamGrepFind(f, line, pat) ==
    LET l == IF "i" \in f THEN Lower(line) ELSE line
        p == IF "i" \in f THEN Lower(pat) ELSE pat
        at == Take(Found(l, p), 1)
    IN  IF at = << >> \/ ("w" \in f /\ ~Bounded(l, at[1], at[1] + Len(p) - 1)) THEN << >>
        ELSE <<SubSeq(line, at[1], at[1] + Len(p) - 1)>>
StreamGrepMatches(g, line) ==
    (\E i \in 1..Len(g.pats) : StreamGrepMatch(g.flags, line, g.pats[i])) # ("v" \in g.flags)
GrepEmitOne(g, line, n) ==
    LET prefix == (IF g.name = "H" THEN <<"(standard input)", ":">> ELSE << >>)
                  \o (IF "n" \in g.flags THEN <<ToString(n), ":">> ELSE << >>)
        hits   == FlattenSeq([i \in 1..Len(g.pats) |-> StreamGrepFind(g.flags, line, g.pats[i])])
    IN  IF "o" \in g.flags THEN FoldLeft(LAMBDA o, h : o \o prefix \o Line(h), << >>, hits) ELSE prefix \o Line(line)
GrepSummary(r) ==
    IF "c" \in r.c.g.flags /\ "q" \notin r.c.g.flags
    THEN Say(r, (IF r.c.g.name = "H" THEN <<"(standard input)", ":">> ELSE << >>) \o <<ToString(r.mem.count), NL>>) ELSE r
OnMatch(r, l) ==
    LET g    == r.c.g
        m    == r.mem
        lead == FoldLeft(LAMBDA o, b : o \o GrepEmitOne(g, b.line, b.n), << >>, m.before)
        hit  == [r EXCEPT !.st = 0, !.mem.count = @ + 1]
        said == Say([hit EXCEPT !.mem.after = g.after, !.mem.sep = TRUE, !.mem.before = << >>],
                    (IF m.before # << >> /\ m.sep THEN <<"--", NL>> ELSE << >>) \o lead \o GrepEmitOne(g, l, m.n))
        next == IF g.flags \cap {"q", "l", "c"} # {} THEN hit ELSE said
    IN  CASE ~GrepStop(g, hit.mem.count) -> next
          [] g.flags \cap {"q", "l"} # {} -> Stop(next)
          [] OTHER -> Stop(GrepSummary(next))
OnNonmatch(r, l) ==
    LET g == r.c.g
        m == r.mem
    IN  CASE m.after > 0 /\ "c" \notin g.flags -> Say([r EXCEPT !.mem.after = @ - 1], GrepEmitOne(g, l, m.n))
          [] g.before > 0 -> [r EXCEPT !.mem.before = LastOf(Append(@, [n |-> m.n, line |-> l]), g.before)]
          [] OTHER -> r
GrepPump(r, l) ==
    LET s == [r EXCEPT !.mem.n = @ + 1] IN IF StreamGrepMatches(r.c.g, l) THEN OnMatch(s, l) ELSE OnNonmatch(s, l)
GrepEnd(r) == Stop([GrepSummary(r) EXCEPT !.st = IF r.mem.count = 0 THEN 1 ELSE @])

(* The key, the emitted line, cut's selection and tr's characters are the     *)
(* utilities' functions written a second time.                                *)
StreamUniqKey(f, line)     == UniqKey(f, line)
StreamUniqEmit(f, line, n) == UniqEmit(f, line, n)
UniqFlush(r) == IF r.mem.held THEN [Say(r, StreamUniqEmit(r.c.f, r.mem.prev, r.mem.n)) EXCEPT !.mem.held = FALSE] ELSE r
UniqPump(r, l) ==
    IF r.mem.held /\ StreamUniqKey(r.c.f, r.mem.prev) = StreamUniqKey(r.c.f, l) THEN [r EXCEPT !.mem.n = @ + 1]
    ELSE [UniqFlush(r) EXCEPT !.mem = [prev |-> l, n |-> 1, held |-> TRUE]]
StreamCut(c, l) == CutLine(c, l)
CutPump(r, l) == Say(r, StreamCut(r.c.c, l))
RevPump(r, l) == Say(r, Line(Reverse(l)))
BatPump(r, l) ==
    LET s == [r EXCEPT !.mem.n = @ + 1]
    IN  IF InRanges(<<r.c.b.range>>, s.mem.n) THEN Say(s, BatLine(r.c.b, s.mem.n, l)) ELSE s
BatEnd(r) == Say(Stop(r), IF r.c.b.header THEN <<"bot">> ELSE << >>)

(* The anchors of a pattern are taken off and enforced around the match: with *)
(* ^ every search starts at the head of the line, wherever it is asked to.    *)
StreamFind(l, c, from) ==
    LET hits == {i \in (IF c.bol THEN 1 ELSE from)..Len(l) :
                    Occurs(l, c.p, i) /\ (c.bol => i = 1) /\ (c.eol => i + Len(c.p) - 1 = Len(l))}
    IN  IF hits = {} THEN 0 ELSE Min(hits)
(* A match behind the cursor is a slice that ends before it starts: a panic.  *)
(* An empty pattern inserts once, at the start or, with $ alone, at the end.  *)
StreamReplaced(l, c) ==
    LET new == FoldLeft(LAMBDA o, x : IF x = "&" THEN o \o c.p ELSE Append(o, x), << >>, c.by)
        step(a, k) ==
            LET i == StreamFind(l, c, a.at)
            IN  CASE a.done -> a
                  [] i = 0  -> [a EXCEPT !.done = TRUE]
                  [] i < a.at -> [a EXCEPT !.done = TRUE, !.panic = TRUE]
                  [] OTHER -> [a EXCEPT !.out = @ \o SubSeq(l, a.at, i - 1) \o new, !.at = i + Len(c.p), !.done = ~c.all]
        r   == FoldLeft(step, [out |-> << >>, at |-> 1, done |-> FALSE, panic |-> FALSE], Append(Ix(l), 0))
    IN  CASE c.p # << >> -> IF r.panic THEN <<"panic">> ELSE r.out \o SubSeq(l, r.at, Len(l))
          [] c.bol /\ c.eol -> IF l = << >> THEN c.by ELSE l
          [] c.eol -> l \o c.by
          [] OTHER -> c.by \o l
StreamSedMatches(a, n, last, line, open) == SedMatches(a, n, last, line, open)
StreamSedApply(quiet, s, c) == IF c.k = "s" THEN [s EXCEPT !.line = StreamReplaced(@, c)] ELSE SedApply(quiet, s, c)
StreamSedInstructions(script, quiet, s0, n, last) ==
    FoldLeft(LAMBDA s, i :
        IF s.end THEN s
        ELSE LET m == StreamSedMatches(script[i].addr, n, last, s.line, s.open[i])
                 o == [s EXCEPT !.open[i] = m.open]
             IN  IF m.yes THEN StreamSedApply(quiet, o, script[i].cmd) ELSE o,
        s0, Ix(script))
(* sed works on a line only when it knows whether another one follows.        *)
SedRun(r, last) ==
    LET m == r.mem
        s == StreamSedInstructions(r.c.script, r.c.quiet, SedLine(m.open, r.out, m.cur), m.n, last)
        o == IF s.deleted \/ r.c.quiet \/ s.printed THEN s.out ELSE s.out \o Line(s.line)
    IN  [r EXCEPT !.out = o, !.mem.open = s.open, !.mem.n = @ + 1, !.mem.some = FALSE, !.fin = s.quit]
SedPump(r, l) ==
    LET s == IF r.mem.some THEN SedRun(r, FALSE) ELSE r IN [s EXCEPT !.mem.cur = l, !.mem.some = TRUE]
SedEnd(r) == Stop(IF r.mem.some THEN SedRun(r, TRUE) ELSE r)

-----------------------------------------------------------------------------
(* What a pull does next.                                                     *)

OnChunk(r, d) ==
    CASE ByLine(r) -> [r EXCEPT !.pend = @ \o d]
      [] r.c.cmd = "head" -> HeadChunk(r, d)
      [] r.c.cmd = "tail" -> FoldLeft(TailByte, r, d)
      [] r.c.cmd = "wc"   -> FoldLeft(WcByte, r, d)
      [] r.c.cmd = "tr"   -> TrChunk(r, d)
      [] r.c.cmd = "paste" -> PasteChunk(r, d)
      [] r.c.cmd = "column" -> ColumnChunk(r, d)
      [] OTHER -> Say(r, d)
OnLine(r, l) ==
    CASE r.c.cmd = "grep" -> GrepPump(r, l) [] r.c.cmd = "uniq" -> UniqPump(r, l) [] r.c.cmd = "cut" -> CutPump(r, l)
      [] r.c.cmd = "sed" -> SedPump(r, l) [] r.c.cmd = "rev" -> RevPump(r, l) [] r.c.cmd = "bat" -> BatPump(r, l)
      [] OTHER -> PasteLine(r, l)
OnEnd(r) ==
    LET cmd == r.c.cmd
    IN  CASE cmd = "grep" -> GrepEnd(r) [] cmd = "uniq" -> Stop(UniqFlush(r)) [] cmd = "sed" -> SedEnd(r)
          [] cmd = "bat" -> BatEnd(r) [] cmd = "tail" -> TailEnd(r) [] cmd = "wc" -> WcEnd(r)
          [] cmd = "tr" -> TrEnd(r) [] cmd = "column" -> ColumnEnd(r)
          [] cmd = "paste" -> IF r.c.p.serial THEN Say(Stop(r), <<NL>>) ELSE PasteEnd(r)
          [] OTHER -> Stop(r)
HasLine(r) == ByLine(r) /\ NL \in ToSet(r.pend)
(* streaming_read_next_line: the first complete line, or at the end what is   *)
(* left without a newline.                                                    *)
NextLine(r) ==
    LET i == SelectInSeq(r.pend, LAMBDA c : c = NL)
    IN  IF i = 0 THEN OnLine([r EXCEPT !.pend = << >>], Lossy(r.pend))
        ELSE OnLine([r EXCEPT !.pend = Drop(@, i)], Lossy(Take(r.pend, i - 1)))

=============================================================================
