-------------------------------- MODULE Parser --------------------------------
(* The recursive-descent parser (wasmsh-parse).                               *)
(*                                                                            *)
(* The parser's state is a record: the source, the lexer's position, the      *)
(* current token, the tokens peeked at, the here-documents whose body is      *)
(* still to come, the nesting depth, whether it is still going, and the value *)
(* of the rule that ran last.  A rule maps a state to a state and leaves a    *)
(* failed one alone.  A tree is a tuple that starts with its kind and, when   *)
(* it can be redirected, ends with its redirections; a word is its parts; a   *)
(* redirection is <<fd, op, target, body>>.  Spans are left out.              *)
EXTENDS Lexer

CONSTANT MAX_NESTING_DEPTH      \* commands inside commands

TerminatorWords == {<<w>> : w \in {"then", "elif", "else", "fi", "do", "done", "esac", "}"}}
HereOps      == {"<<", "<<-"}
BothStreams  == 99               \* the descriptor of &> and &>>
NoFd         == -1
RedirOps     == {"<", ">", ">>", ">|", "<<", "<<-", "<<<", "<>"}
BothOps      == {"&>", "&>>"}
Redirectable == {"simple", "subshell", "group", "if", "while", "until", "for", "arithfor", "case", "select"}

New(s) == LET t == NextToken(s, 1)
          IN  [s |-> s, pos |-> t.to, cur |-> t, peeked |-> << >>, hd |-> << >>, depth |-> 0, ok |-> t.k # "error", v |-> << >>]
Fail(p)    == [p EXCEPT !.ok = FALSE]
With(p, v) == IF p.ok THEN [p EXCEPT !.v = v] ELSE p
Lexed(p)   == LET t == NextToken(p.s, p.pos) IN [p EXCEPT !.pos = t.to, !.cur = t, !.ok = t.k # "error"]
Advance(p) ==
    CASE ~p.ok -> p
      [] p.peeked # << >> -> [p EXCEPT !.cur = Head(p.peeked), !.peeked = Tail(p.peeked)]
      [] OTHER -> Lexed(p)
(* Looking n tokens ahead lexes them; an error leaves the lexer where it      *)
(* stopped and is for the caller to notice.                                   *)
RECURSIVE Look(_, _)
Look(p, n) ==
    LET t == NextToken(p.s, p.pos)
    IN  CASE ~p.ok \/ Len(p.peeked) > n -> p
          [] t.k = "error" -> [p EXCEPT !.pos = t.to]
          [] OTHER -> Look([p EXCEPT !.pos = t.to, !.peeked = Append(@, t)], n)
Ahead(p, n) == IF Len(p.peeked) > n THEN p.peeked[n + 1].k ELSE "error"
MustSee(p, n) == LET q == Look(p, n) IN IF Ahead(q, n) = "error" THEN Fail(q) ELSE q

AtKind(p, k)   == p.ok /\ p.cur.k = k
AtWord(p)      == AtKind(p, "word")
AtWordEq(p, w) == AtWord(p) /\ p.cur.t = <<w>>
Expect(p, w)   == IF AtWordEq(p, w) THEN Advance(p) ELSE Fail(p)
ExpectKind(p, k) == IF AtKind(p, k) THEN Advance(p) ELSE Fail(p)
Optional(p, k) == IF AtKind(p, k) THEN Advance(p) ELSE p
Flag(p, w)     == IF AtWordEq(p, w) THEN With(Advance(p), TRUE) ELSE With(p, FALSE)
AtRedirection(p) == p.ok /\ p.cur.k \in RedirOps \cup BothOps
AtCommandStart(p) ==
    \/ AtKind(p, "(") \/ AtKind(p, "[[")
    \/ AtWord(p) /\ p.cur.t \notin TerminatorWords
    \/ AtRedirection(p)
RECURSIVE SkipNewlines(_)
SkipNewlines(p) == IF AtKind(p, NL) THEN SkipNewlines(Advance(p)) ELSE p
(* Which of ; ;; ;& ;;& the parser is at.                                     *)
Semis(p) ==
    LET a == Look(p, 0)
        b == IF Ahead(a, 0) = ";" THEN Look(a, 1) ELSE Look(a, 0)
    IN  CASE ~AtKind(p, ";") -> With(p, "none")
          [] Ahead(b, 0) = ";" /\ Ahead(b, 1) = "&" -> With(b, ";;&")
          [] Ahead(b, 0) = ";" -> With(b, ";;")
          [] Ahead(b, 0) = "&" -> With(b, ";&")
          [] OTHER -> With(b, ";")
(* A digit with a redirection right after it in the tokens, blank or no.      *)
FdPrefix(p) ==
    LET q == Look(p, 0)
    IN  IF AtWord(p) /\ Len(p.cur.t) = 1 /\ p.cur.t[1] \in Digits THEN With(q, Ahead(q, 0) \in RedirOps) ELSE With(p, FALSE)

-----------------------------------------------------------------------------
(* Words, assignments, redirections.                                          *)

Blank(a)  == a \in {" ", "\t", NL}
Trim(t)   == LET k == {i \in 1..Len(t) : ~Blank(t[i])}
             IN  IF k = {} THEN << >> ELSE SubSeq(t, CHOOSE i \in k : \A j \in k : i <= j, CHOOSE i \in k : \A j \in k : i >= j)
ParseWord(p) == With(Advance(p), ParseWordParts(p.cur.t))
(* NAME=, NAME+=, NAME[...]= and NAME[...]+=.                                 *)
IsAssignment(t) ==
    LET eq   == SelectInSeq(t, LAMBDA a : a = "=")
        lhs  == SubSeq(t, 1, eq - 1)
        name == IF lhs # << >> /\ Last(lhs) = "+" THEN Front(lhs) ELSE lhs
        br   == SelectInSeq(name, LAMBDA a : a = "[")
        base == IF br = 0 THEN name ELSE SubSeq(name, 1, br - 1)
    IN  /\ eq > 1 /\ name # << >>
        /\ br # 0 => Last(name) = "]"
        /\ base # << >> /\ IsName(base[1]) /\ \A i \in 1..Len(base) : IsName(base[i]) \/ base[i] \in Digits
(* The words of ( ... ), up to whatever is not one.                           *)
RECURSIVE Elements(_, _)
Elements(p, acc) ==
    CASE AtKind(p, NL) -> Elements(Advance(p), acc)
      [] AtWord(p) -> Elements(Advance(p), acc \o (IF acc = << >> THEN << >> ELSE <<" ">>) \o p.cur.t)
      [] OTHER -> With(Optional(p, ")"), <<"(">> \o acc \o <<")">>)
CompoundAssignWord(p) == LET e == Elements(Advance(Advance(p)), << >>) IN With(e, <<Lit(p.cur.t \o e.v)>>)
ParseAssignment(p) ==
    LET t  == p.cur.t
        eq == SelectInSeq(t, LAMBDA a : a = "=")
        a  == Advance(p)
        e  == Elements(Advance(a), << >>)
        Assigned(q, w) == With(q, <<SubSeq(t, 1, eq - 1), w>>)
    IN  CASE eq < Len(t) -> Assigned(a, ParseWordParts(SubSeq(t, eq + 1, Len(t))))
          [] AtKind(a, "(") -> Assigned(e, <<Lit(e.v)>>)
          [] OTHER -> Assigned(a, << >>)
(* < ( ... ) and > ( ... ) with a blank between, which the lexer left alone.  *)
RECURSIVE ToParen(_, _)
ToParen(p, depth) ==
    CASE AtKind(p, ")") /\ depth = 1 -> p
      [] AtKind(p, "eof") -> Fail(p)
      [] ~p.ok -> p
      [] OTHER -> ToParen(Advance(p), CASE p.cur.k = "(" -> depth + 1 [] p.cur.k = ")" -> depth - 1 [] OTHER -> depth)
ProcessSubstWord(p) ==
    LET from == Advance(Advance(p))
        to   == ToParen(from, 1)
        t    == Trim(SubSeq(p.s, from.cur.at, to.cur.at - 1))
    IN  With(Advance(to), <<IF p.cur.k = "<" THEN ProcIn(t) ELSE ProcOut(t)>>)

HereDelimiter(w) ==
    FoldLeft(LAMBDA acc, x : acc \o (CASE x.k \in {"lit", "sq"} -> x.t
                                       [] x.k = "dq" -> FoldLeft(LAMBDA a, y : IF y.k = "lit" THEN a \o y.t ELSE a, << >>, x.parts)
                                       [] OTHER -> << >>), << >>, w)
HereQuoted(text, w) == (\E i \in 1..Len(w) : w[i].k # "lit") \/ (\E i \in 1..Len(text) : text[i] \in {"'", "\""})
ParseRedirection(p, fd) ==
    LET op   == p.cur.k
        a    == Advance(p)
        dup  == AtKind(a, "&") /\ op \in {">", "<"}
        at   == IF dup THEN Advance(a) ELSE a
        w    == ParseWord(at)
        here == [delim |-> HereDelimiter(w.v), strip |-> op = "<<-", expand |-> ~HereQuoted(at.cur.t, w.v)]
        fd2  == IF fd = NoFd /\ op \in BothOps THEN BothStreams ELSE fd
        done == With(w, <<fd2, CASE dup -> IF op = ">" THEN ">&" ELSE "<&" [] OTHER -> op, w.v, << >>>>)
    IN  CASE ~AtWord(at) -> Fail(at)
          [] op \in HereOps -> [done EXCEPT !.hd = Append(@, here)]
          [] OTHER -> done
ParseFdRedirection(p) == LET d == p.cur.t[1] IN ParseRedirection(Advance(p), IF d = "1" THEN 1 ELSE 2)
RECURSIVE TrailingRedirections(_, _)
TrailingRedirections(p, acc) ==
    LET f == FdPrefix(p)
        r == IF f.v THEN ParseFdRedirection(f) ELSE ParseRedirection(f, NoFd)
    IN  IF p.ok /\ (AtRedirection(p) \/ f.v) THEN TrailingRedirections(r, Append(acc, r.v)) ELSE With(f, acc)
Redirected(p, tree) == LET r == TrailingRedirections(p, << >>) IN With(r, Append(tree, r.v))

RECURSIVE SimpleParts(_, _, _, _)
SimpleParts(p, assigns, words, redirs) ==
    LET f    == FdPrefix(p)
        l    == IF f.ok /\ f.cur.k \in {"<", ">"} THEN Look(f, 0) ELSE f
        fr   == ParseFdRedirection(f)
        ps   == ProcessSubstWord(l)
        r    == ParseRedirection(l, NoFd)
        a    == ParseAssignment(l)
        eq   == IF l.cur.t # << >> /\ Last(l.cur.t) = "=" THEN Look(l, 0) ELSE l
        w    == IF eq.cur.t # << >> /\ Last(eq.cur.t) = "=" /\ Ahead(eq, 0) = "(" THEN CompoundAssignWord(eq) ELSE ParseWord(eq)
    IN  CASE ~p.ok -> p
          [] f.v -> SimpleParts(fr, assigns, words, Append(redirs, fr.v))
          [] f.cur.k \in {"<", ">"} /\ Ahead(l, 0) = "(" -> SimpleParts(ps, assigns, Append(words, ps.v), redirs)
          [] AtRedirection(l) -> SimpleParts(r, assigns, words, Append(redirs, r.v))
          [] AtWord(l) /\ words = << >> /\ IsAssignment(l.cur.t) -> SimpleParts(a, Append(assigns, a.v), words, redirs)
          [] AtWord(l) -> SimpleParts(w, assigns, Append(words, w.v), redirs)
          [] assigns = << >> /\ words = << >> /\ redirs = << >> -> Fail(l)
          [] OTHER -> With(l, <<"simple", assigns, words, redirs>>)
ParseSimple(p) == SimpleParts(p, << >>, << >>, << >>)

-----------------------------------------------------------------------------
(* Here-documents: the bodies follow the line that ends a complete command.   *)

LineEnd(s, from) == LET j == Seek(s, from, {NL}) IN IF j = 0 THEN Len(s) + 1 ELSE j
StripTabs(t) ==
    FoldLeft(LAMBDA acc, c : IF c = "\t" /\ (acc = << >> \/ Last(acc) = NL) THEN acc ELSE Append(acc, c), << >>, t)
RECURSIVE DelimiterLine(_, _, _)
DelimiterLine(s, here, from) ==
    LET to   == LineEnd(s, from)
        line == SubSeq(s, from, to - 1)
    IN  CASE (IF here.strip THEN StripTabs(line) ELSE line) = here.delim -> from
          [] to > Len(s) -> 0
          [] OTHER -> DelimiterLine(s, here, to + 1)
RECURSIVE HereBodies(_, _, _, _)
HereBodies(s, hds, from, acc) ==
    LET here == Head(hds)
        to   == DelimiterLine(s, here, from)
        raw  == SubSeq(s, from, to - 1)
        next == LineEnd(s, to) + 1
    IN  CASE hds = << >> -> [bodies |-> acc, at |-> from]
          [] to = 0 -> [bodies |-> acc, at |-> 0]
          [] OTHER -> HereBodies(s, Tail(hds), IF next > Len(s) THEN Len(s) + 1 ELSE next,
                                 Append(acc, <<IF here.strip THEN StripTabs(raw) ELSE raw, here.expand>>))
(* Bodies are handed out in order, to the commands of the list themselves and *)
(* not to those inside them.                                                  *)
Thread(seq, bodies, Fill(_, _)) ==
    FoldLeft(LAMBDA acc, x : LET r == Fill(x, acc[2]) IN <<Append(acc[1], r[1]), r[2]>>, <<<< >>, bodies>>, seq)
FillRedir(r, bs) ==
    IF r[2] \in HereOps /\ r[4] = << >> /\ bs # << >> THEN <<[r EXCEPT ![4] = Head(bs)], Tail(bs)>> ELSE <<r, bs>>
(* Mutant: only a simple command is given bodies.                             *)
FillSimple(c, bs) ==
    LET r == Thread(Last(c), bs, FillRedir)
    IN  IF c[1] = "simple" THEN <<Append(Front(c), r[1]), r[2]>> ELSE <<c, bs>>
FillCmd(c, bs) ==
    LET r == Thread(Last(c), bs, FillRedir)
    IN  IF c[1] \in Redirectable THEN <<Append(Front(c), r[1]), r[2]>> ELSE <<c, bs>>
FillPipeline(pl, bs) == LET r == Thread(pl[2], bs, FillCmd) IN <<[pl EXCEPT ![2] = r[1]], r[2]>>
FillAndOr(ao, bs) == LET r == Thread(ao[1], bs, FillPipeline) IN <<[ao EXCEPT ![1] = r[1]], r[2]>>
ResolveHeredocs(p, list) ==
    LET b == HereBodies(p.s, p.hd, p.cur.to, << >>)
        q == Lexed([p EXCEPT !.hd = << >>, !.peeked = << >>, !.pos = b.at])
    IN  IF b.at = 0 THEN Fail(p) ELSE With(q, Thread(list, b.bodies, FillAndOr)[1])

-----------------------------------------------------------------------------
(* The grammar.                                                               *)

RECURSIVE Command(_)
RECURSIVE PipelineRest(_, _, _)
PipelineRest(p, cmds, errs) ==
    LET c == Command(SkipNewlines(Advance(p)))
    IN  IF p.ok /\ p.cur.k \in {"|", "|&"} THEN PipelineRest(c, Append(cmds, c.v), Append(errs, p.cur.k = "|&"))
        ELSE With(p, <<cmds, errs>>)
ParsePipeline(p) ==
    LET t == Flag(p, "time")
        x == IF t.v THEN Flag(t, "-p") ELSE With(t, FALSE)
        n == Flag(x, "!")
        c == Command(n)
        r == PipelineRest(c, <<c.v>>, << >>)
    IN  With(r, <<<<t.v, x.v, n.v>>, r.v[1], r.v[2]>>)
RECURSIVE AndOrRest(_, _, _)
AndOrRest(p, pls, ops) ==
    LET c == ParsePipeline(SkipNewlines(Advance(p)))
    IN  IF p.ok /\ p.cur.k \in {"&&", "||"} THEN AndOrRest(c, Append(pls, c.v), Append(ops, p.cur.k))
        ELSE With(p, <<pls, ops>>)
ParseAndOr(p) == LET c == ParsePipeline(p) IN AndOrRest(c, <<c.v>>, << >>)
RECURSIVE ListRest(_, _)
ListRest(p, acc) ==
    LET k == Semis(p)
        a == Advance(k)
        n == IF a.hd = << >> THEN SkipNewlines(a) ELSE a
        c == ParseAndOr(n)
    IN  CASE ~p.ok -> p
          [] k.v = ";" /\ AtCommandStart(n) -> ListRest(c, Append(acc, c.v))
          [] k.v = ";" -> ListRest(n, acc)
          [] OTHER -> With(k, acc)
CompleteCommand(p) ==
    LET f == ParseAndOr(p)
        l == ListRest(f, <<f.v>>)
    IN  IF l.ok /\ l.hd # << >> /\ AtKind(l, NL) THEN ResolveHeredocs(l, l.v) ELSE l
RECURSIVE Commands(_, _)
Commands(p, acc) ==
    LET c == CompleteCommand(p)
    IN  IF AtCommandStart(p) THEN Commands(SkipNewlines(c), Append(acc, c.v)) ELSE With(p, acc)
CompoundList(p) == Commands(SkipNewlines(p), << >>)
Program(s) == LET p == CompoundList(New(s)) IN IF AtKind(p, "eof") THEN p ELSE Fail(p)

ParseSubshell(p) == LET b == CompoundList(Advance(p)) IN Redirected(ExpectKind(b, ")"), <<"subshell", b.v>>)
ParseGroup(p)    == LET b == CompoundList(Advance(p)) IN Redirected(Expect(b, "}"), <<"group", b.v>>)
RECURSIVE Elifs(_, _)
Elifs(p, acc) ==
    LET c == CompoundList(Advance(p))
        b == CompoundList(Expect(c, "then"))
    IN  IF AtWordEq(p, "elif") THEN Elifs(b, Append(acc, <<c.v, b.v>>)) ELSE With(p, acc)
ParseIf(p) ==
    LET c == CompoundList(Advance(p))
        t == CompoundList(Expect(c, "then"))
        x == Elifs(t, << >>)
        e == CompoundList(Advance(x))
        o == IF AtWordEq(x, "else") THEN With(e, <<e.v>>) ELSE With(x, << >>)
    IN  Redirected(Expect(o, "fi"), <<"if", c.v, t.v, x.v, o.v>>)
DoBody(p) == LET b == CompoundList(Expect(p, "do")) IN With(Expect(b, "done"), b.v)
ParseLoop(p, kind) ==
    LET c == CompoundList(Advance(p))
        b == DoBody(c)
    IN  Redirected(b, <<kind, c.v, b.v>>)
RECURSIVE LoopWords(_, _)
LoopWords(p, acc) ==
    LET w == ParseWord(p) IN IF AtWord(p) /\ p.cur.t \notin TerminatorWords THEN LoopWords(w, Append(acc, w.v)) ELSE With(p, acc)
(* for NAME and select NAME, with or without "in".                            *)
ParseFor(p, kind) ==
    LET n == Advance(p)
        i == Advance(n)
        w == LoopWords(Advance(i), << >>)
        c == IF AtWordEq(i, "in") THEN With(Optional(w, ";"), <<w.v>>) ELSE With(Optional(i, ";"), << >>)
        b == DoBody(SkipNewlines(c))
    IN  IF AtWord(n) THEN Redirected(b, <<kind, n.cur.t, c.v, b.v>>) ELSE Fail(n)
ParseSelect(p) == ParseFor(p, "select")
(* An expression is raw text up to a )) that no ( inside it claims.           *)
RECURSIVE ArithStop(_, _, _)
ArithStop(s, i, depth) ==
    CASE i > Len(s) -> 0
      [] s[i] = "(" -> ArithStop(s, i + 1, depth + 1)
      [] s[i] = ")" /\ depth > 0 -> ArithStop(s, i + 1, depth - 1)
      [] s[i] = ")" -> IF At(s, i + 1) = ")" THEN i ELSE 0
      [] OTHER -> ArithStop(s, i + 1, depth)
CollectArith(p) ==
    LET to == ArithStop(p.s, p.cur.at, 0)
    IN  CASE ~p.ok -> p
          [] to = 0 -> Fail(p)
          [] OTHER -> With(Lexed([p EXCEPT !.pos = to + 2, !.peeked = << >>]), Trim(SubSeq(p.s, p.cur.at, to - 1)))
ParseArith(p) == LET x == CollectArith(Advance(Advance(p))) IN With(x, <<"arith", x.v>>)
DoubleParen(p) == AtKind(p, "(") /\ Ahead(p, 0) = "(" /\ p.peeked[1].at = p.cur.to
ParseArithFor(p) ==
    LET x  == CollectArith(Advance(Advance(p)))
        c1 == SelectInSeq(x.v, LAMBDA a : a = ";")
        c2 == IF c1 = 0 THEN 0 ELSE SelectInSubSeq(x.v, c1 + 1, Len(x.v), LAMBDA a : a = ";")
        Piece(from, to) == Trim(SubSeq(x.v, from, to))
        e1 == IF c1 = 0 THEN Len(x.v) + 1 ELSE c1
        e2 == IF c2 = 0 THEN Len(x.v) + 1 ELSE c2
        b  == DoBody(SkipNewlines(Optional(x, ";")))
    IN  Redirected(b, <<"arithfor", <<Piece(1, e1 - 1), Piece(e1 + 1, e2 - 1), Piece(e2 + 1, Len(x.v))>>, b.v>>)
RECURSIVE Patterns(_, _)
Patterns(p, acc) ==
    LET w == ParseWord(p) IN IF AtKind(w, "|") THEN Patterns(Advance(w), Append(acc, w.v)) ELSE With(w, Append(acc, w.v))
RECURSIVE CaseItems(_, _)
CaseItems(p, acc) ==
    LET ps == Patterns(Optional(p, "("), << >>)
        b  == CompoundList(ExpectKind(ps, ")"))
        k  == Semis(b)
        t  == CASE ~k.ok -> k [] k.v = ";;&" -> Advance(Advance(Advance(k))) [] k.v \in {";;", ";&"} -> Advance(Advance(k)) [] OTHER -> k
    IN  CASE ~p.ok \/ AtWordEq(p, "esac") \/ AtKind(p, "eof") -> With(p, acc)
          [] ~k.ok -> k
          [] OTHER -> CaseItems(SkipNewlines(t), Append(acc, <<ps.v, b.v, IF k.v \in {"none", ";"} THEN ";;" ELSE k.v>>))
ParseCase(p) ==
    LET a == Advance(p)
        w == ParseWord(a)
        i == CaseItems(SkipNewlines(Expect(SkipNewlines(w), "in")), << >>)
    IN  IF AtWord(a) THEN Redirected(Expect(i, "esac"), <<"case", w.v, i.v>>) ELSE Fail(a)
RECURSIVE BracketWords(_, _)
BracketWords(p, acc) ==
    LET w == ParseWord(p)
    IN  CASE ~p.ok -> p
          [] AtKind(p, "]]") -> With(Advance(p), acc)
          [] AtKind(p, "eof") -> Fail(p)
          [] AtWord(p) -> BracketWords(w, Append(acc, w.v))
          [] OTHER -> BracketWords(Advance(p), Append(acc, <<Lit(p.cur.t)>>))
ParseDoubleBracket(p) == LET b == BracketWords(Advance(p), << >>) IN With(b, <<"dbracket", b.v>>)
FunctionBody(p, name) == LET b == Command(SkipNewlines(p)) IN With(b, <<"function", name, b.v>>)
ParseFunctionPosix(p) == FunctionBody(Advance(Advance(Advance(p))), p.cur.t)
ParseFunctionBash(p) ==
    LET n == Advance(p)
        a == Advance(n)
    IN  IF AtWord(n) THEN FunctionBody(IF AtKind(a, "(") THEN ExpectKind(Advance(a), ")") ELSE a, n.cur.t) ELSE Fail(n)

KeywordCommand(p) ==
    LET q == MustSee(p, 0)
        r == IF Ahead(q, 0) = "(" THEN MustSee(q, 1) ELSE q
    IN  CASE AtWordEq(p, "{") -> ParseGroup(p)
          [] AtWordEq(p, "if") -> ParseIf(p)
          [] AtWordEq(p, "while") -> ParseLoop(p, "while")
          [] AtWordEq(p, "until") -> ParseLoop(p, "until")
          [] AtWordEq(p, "for") -> LET n == Advance(p)
                                       l == Look(n, 0)
                                   IN  IF AtKind(n, "(") /\ DoubleParen(l) THEN ParseArithFor(l) ELSE ParseFor(p, "for")
          [] AtWordEq(p, "case") -> ParseCase(p)
          [] AtWordEq(p, "select") -> ParseSelect(p)
          [] AtWordEq(p, "function") -> ParseFunctionBash(p)
          [] Ahead(r, 0) = "(" /\ Ahead(r, 1) = ")" -> ParseFunctionPosix(r)
          [] OTHER -> ParseSimple(r)
CommandInner(p) ==
    LET l == Look(p, 0)
    IN  CASE AtKind(p, "(") -> IF DoubleParen(l) THEN ParseArith(l) ELSE ParseSubshell(l)
          [] AtKind(p, "[[") -> ParseDoubleBracket(p)
          [] AtWord(p) -> KeywordCommand(p)
          [] OTHER -> ParseSimple(p)
EnterNesting(p) == IF p.ok /\ p.depth < MAX_NESTING_DEPTH THEN [p EXCEPT !.depth = @ + 1] ELSE Fail(p)
ExitNesting(p)  == [p EXCEPT !.depth = @ - 1]
Command(p) == LET e == EnterNesting(p) IN IF e.ok THEN ExitNesting(CommandInner(e)) ELSE e

=============================================================================
