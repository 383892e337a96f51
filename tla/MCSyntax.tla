------------------------------- MODULE MCSyntax -------------------------------
(* Programs are built as trees, one construct at a time, written out as       *)
(* source text, and read back.  Words are built the same way.                 *)
EXTENDS Lowering

CONSTANTS
    MaxSteps,       \* constructs put around or after the first command
    MaxParts,       \* steps in the building of a word
    Writer(_, _),   \* Written: the source text of a program
    Reader(_),      \* Program: the program a text is parsed into
    Scanner(_),     \* FirstToken, of the lexer
    Splitter(_),    \* WordParts, of the word parser
    Lowerer(_)      \* Lowered: the program after lowering

VARIABLES prog,         \* the program as a tree
          oneLine,      \* whether it is written with ; where a newline would do
          steps, word
vars == <<prog, oneLine, steps, word>>

-----------------------------------------------------------------------------
(* Trees.                                                                     *)

W(a)        == <<Lit(<<a>>)>>
Simple(as, ws, rs) == <<"simple", as, ws, rs>>
Run(a)      == Simple(<< >>, <<W(a)>>, << >>)
Plain       == <<FALSE, FALSE, FALSE>>
Only(c)     == << << << <<Plain, <<c>>, << >>>> >>, << >>>> >>        \* a complete command that is one command
Redir(fd, op, w) == <<fd, op, W(w), << >>>>
Here(op, q) == <<NoFd, op, IF q THEN <<SQ(<<"E">>)>> ELSE W("E"), <<<<"x", " ", "y", NL>>, ~q>>>>
FirstCommands == <<Run("a"), Simple(<<<<<<"v">>, W("w")>>>>, << >>, << >>), Simple(<<<<<<"v">>, << >>>>>>, <<W("a"), <<DQ(<<Param(<<"v">>)>>)>>>>, << >>),
                   Simple(<< >>, << >>, <<Redir(2, ">", "f")>>), Simple(<<<<<<"v">>, <<Lit(<<"(", "a", " ", "b", ")">>)>>>>>>, << >>, << >>),
                   <<"arith", <<"v", "+", "1">>>>, <<"dbracket", <<W("a"), <<Lit(<<"&", "&">>)>>, W("b")>>>>>>

(* The last command of the last pipeline.                                     *)
LastCC(p)   == Last(p)
LastAO(p)   == Last(Last(p))
LastPl(p)   == Last(LastAO(p)[1])
LastCmd(p)  == Last(LastPl(p)[2])
ReplaceLast(s, x) == Append(Front(s), x)
WithAO(p, ao) == ReplaceLast(p, ReplaceLast(Last(p), ao))
WithPl(p, pl) == WithAO(p, [LastAO(p) EXCEPT ![1] = ReplaceLast(@, pl)])
WithCmd(p, c) == WithPl(p, [LastPl(p) EXCEPT ![2] = ReplaceLast(@, c)])

-----------------------------------------------------------------------------
(* Writing a tree out.  A complete command with here-documents ends its line, *)
(* and their bodies follow.                                                   *)

RECURSIVE TextOfPart(_)
Join(s, sep) == FoldLeft(LAMBDA acc, x : IF acc = << >> THEN x ELSE acc \o sep \o x, << >>, s)
TextOfPart(x) ==
    CASE x.k = "lit" -> x.t
      [] x.k = "sq" -> <<"'">> \o x.t \o <<"'">>
      [] x.k = "dq" -> <<"\"">> \o FlattenSeq(Each(x.parts, TextOfPart)) \o <<"\"">>
      [] x.k = "param" -> <<"$", "{">> \o x.t \o <<"}">>
      [] x.k = "cmd" -> <<"$", "(">> \o x.t \o <<")">>
      [] x.k = "arith" -> <<"$", "(", "(">> \o x.t \o <<")", ")">>
      [] x.k = "procin" -> <<"<", "(">> \o x.t \o <<")">>
TextOfWord(w) == FlattenSeq(Each(w, TextOfPart))
Blanks == <<" ">>
TextOfRedir(r) ==
    (CASE r[1] = 1 -> <<"1">> [] r[1] = 2 -> <<"2">> [] OTHER -> << >>) \o
    (IF r[2] = ">&" THEN <<">", "&">> ELSE Spelled[r[2]]) \o TextOfWord(r[3])
TextOfRedirs(rs) == FlattenSeq(Each(rs, LAMBDA r : Blanks \o TextOfRedir(r)))
BodiesOf(c) == IF c[1] \in Redirectable
               THEN FlattenSeq(Each(Last(c), LAMBDA r : IF r[2] \in HereOps THEN r[4][1] \o (IF r[2] = "<<-" THEN <<"\t">> ELSE << >>) \o <<"E", NL>> ELSE << >>)) ELSE << >>
BodiesOfCC(cc) == FlattenSeq(Each(cc, LAMBDA ao : FlattenSeq(Each(ao[1], LAMBDA pl : FlattenSeq(Each(pl[2], BodiesOf))))))

(* Between two stages the line may be continued, with and without a CR.       *)
Continued(ol) == IF ol THEN <<" ">> ELSE <<"\\", CR, NL, "\t", "\\", NL>>
RECURSIVE TextOfCmd(_, _)
TextOfPl(pl, ol) ==
    (IF pl[1][1] THEN <<"time", " ">> ELSE << >>) \o (IF pl[1][2] THEN <<"-p", " ">> ELSE << >>) \o (IF pl[1][3] THEN <<"!", " ">> ELSE << >>) \o
    FoldLeft(LAMBDA acc, i : IF i = 1 THEN TextOfCmd(pl[2][1], ol)
                             ELSE acc \o (IF pl[3][i - 1] THEN <<" ", "|", "&">> ELSE <<" ", "|">>) \o Continued(ol) \o TextOfCmd(pl[2][i], ol),
             << >>, [i \in 1..Len(pl[2]) |-> i])
TextOfAO(ao, ol) ==
    FoldLeft(LAMBDA acc, i : IF i = 1 THEN TextOfPl(ao[1][1], ol)
                             ELSE acc \o <<" ">> \o Spelled[ao[2][i - 1]] \o (IF ol THEN <<" ">> ELSE <<NL>>) \o TextOfPl(ao[1][i], ol),
             << >>, [i \in 1..Len(ao[1]) |-> i])
TextOfCC(cc, ol) ==
    Join(Each(cc, LAMBDA ao : TextOfAO(ao, ol)), <<";">>)
End(cc, ol) == IF ol THEN <<";", " ">> ELSE <<NL>> \o BodiesOfCC(cc)
(* Complete commands are on lines of their own; the last one may end with ;   *)
TextOfBody(b, ol) ==
    FlattenSeq([i \in 1..Len(b) |-> TextOfCC(b[i], ol) \o (IF i < Len(b) THEN <<NL>> \o BodiesOfCC(b[i]) ELSE End(b[i], ol))])
Kw(k) == <<k, " ">>
TextOfCmd(c, ol) ==
    CASE c[1] = "simple" ->
           Join(Each(c[2], LAMBDA a : a[1] \o <<"=">> \o TextOfWord(a[2])) \o Each(c[3], TextOfWord) \o Each(c[4], TextOfRedir), Blanks)
      [] c[1] = "arith" -> <<"(", "(", " ">> \o c[2] \o <<" ", ")", ")">>
      [] c[1] = "dbracket" -> Kw("[[") \o Join(Each(c[2], TextOfWord), Blanks) \o <<" ", "]]">>
      [] c[1] = "subshell" -> <<"(", " ">> \o TextOfBody(c[2], ol) \o <<")">> \o TextOfRedirs(c[3])
      [] c[1] = "group" -> Kw("{") \o TextOfBody(c[2], ol) \o <<"}">> \o TextOfRedirs(c[3])
      [] c[1] = "if" -> Kw("if") \o TextOfBody(c[2], ol) \o Kw("then") \o TextOfBody(c[3], ol) \o
                        FlattenSeq(Each(c[4], LAMBDA e : Kw("elif") \o TextOfBody(e[1], ol) \o Kw("then") \o TextOfBody(e[2], ol))) \o
                        FlattenSeq(Each(c[5], LAMBDA e : Kw("else") \o TextOfBody(e, ol))) \o <<"fi">> \o TextOfRedirs(c[6])
      [] c[1] \in {"while", "until"} -> Kw(c[1]) \o TextOfBody(c[2], ol) \o Kw("do") \o TextOfBody(c[3], ol) \o <<"done">> \o TextOfRedirs(c[4])
      [] c[1] \in {"for", "select"} -> Kw(c[1]) \o c[2] \o FlattenSeq(Each(c[3], LAMBDA ws : <<" ", "in">> \o FlattenSeq(Each(ws, LAMBDA w : Blanks \o TextOfWord(w))))) \o
                        (IF ol THEN <<";", " ">> ELSE <<NL>>) \o Kw("do") \o TextOfBody(c[4], ol) \o <<"done">> \o TextOfRedirs(c[5])
      [] c[1] = "arithfor" -> Kw("for") \o <<"(", "(">> \o Join(c[2], <<";">>) \o <<")", ")", ";">> \o Kw("do") \o TextOfBody(c[3], ol) \o <<"done">> \o TextOfRedirs(c[4])
      [] c[1] = "case" -> Kw("case") \o TextOfWord(c[2]) \o <<" ", "in", " ">> \o
                        FlattenSeq(Each(c[3], LAMBDA it : Join(Each(it[1], TextOfWord), <<"|">>) \o <<")">> \o
                            (IF ol /\ Len(it[2]) = 1 THEN TextOfCC(it[2][1], ol) ELSE TextOfBody(it[2], FALSE)) \o
                            (CASE it[3] = ";;" -> <<";", ";">> [] it[3] = ";&" -> <<";", "&">> [] OTHER -> <<";", ";", "&">>) \o <<NL>>)) \o
                        <<"esac">> \o TextOfRedirs(c[4])
      [] c[1] = "function" -> IF ol THEN c[2] \o <<"(", ")", " ">> \o TextOfCmd(c[3], ol) ELSE Kw("function") \o c[2] \o <<NL>> \o TextOfCmd(c[3], ol)
Written(p, ol) == LET text == TextOfBody(p, ol) IN text

(* The other algorithms the properties compare.                               *)
FirstToken(t) == LET token == NextToken(t, 1) IN token
WordParts(t)  == LET parts == ParseWordParts(t) IN parts
Lowered(p)    == LET body == LowerBody(p) IN body

-----------------------------------------------------------------------------
(* Building.                                                                  *)

Init == /\ \E i \in 1..Len(FirstCommands) : prog = <<Only(FirstCommands[i])>>
        /\ oneLine \in BOOLEAN /\ steps = (IF prog = <<Only(Run("a"))>> THEN 0 ELSE 1) /\ word = << >>
Put(p) == steps < MaxSteps /\ word = << >> /\ prog' = p /\ steps' = steps + 1 /\ UNCHANGED <<oneLine, word>>
B == <<Only(Run("b"))>>
Block   == \E k \in {"group", "subshell"} : Put(<<Only(<<k, prog, << >>>>)>>)
Branch  == \E t \in {<<prog, B, << >>, << >>>>, <<B, prog, << >>, <<B>>>>, <<B, B, <<<<prog, B>>>>, << >>>>, <<B, B, << >>, <<prog>>>>} :
               Put(<<Only(<<"if">> \o t \o <<<< >>>>)>>)
Loop    == \E k \in {"while", "until"} : Put(<<Only(<<k, B, prog, << >>>>)>>) \/ Put(<<Only(<<k, prog, B, << >>>>)>>)
Over    == \E k \in {"for", "select"} : \E ws \in {<< >>, <<<<W("a"), W("if")>>>>} : Put(<<Only(<<k, <<"v">>, ws, prog, << >>>>)>>)
OverArith == Put(<<Only(<<"arithfor", <<<<"v">>, <<"(", "v", ")">>, << >>>>, prog, << >>>>)>>)
Choice  == \E t \in {";;", ";&", ";;&"} : Put(<<Only(<<"case", W("a"), <<<<<<W("a"), W("*")>>, prog, t>>, <<<<W("b")>>, B, ";;">>>>, << >>>>)>>)
Define  == \E k \in {"group", "subshell"} : Put(<<Only(<<"function", <<"f">>, <<k, prog, << >>>>>>)>>)
Pipe    == \E e \in BOOLEAN : Put(WithPl(prog, <<LastPl(prog)[1], Append(LastPl(prog)[2], Run("c")), Append(LastPl(prog)[3], e)>>))
Chain   == \E op \in {"&&", "||"} : Put(WithAO(prog, <<Append(LastAO(prog)[1], Only(Run("c"))[1][1][1]), Append(LastAO(prog)[2], op)>>))
Then    == Put(ReplaceLast(prog, Append(Last(prog), Only(Run("d"))[1])))
Line    == Put(Append(prog, Only(Run("d"))))
Mark    == \E m \in {<<TRUE, FALSE, FALSE>>, <<TRUE, TRUE, TRUE>>, <<FALSE, FALSE, TRUE>>} :
               LastPl(prog)[1] = Plain /\ Put(WithPl(prog, [LastPl(prog) EXCEPT ![1] = m]))
MayRedirect == LastCmd(prog)[1] \in Redirectable
Redirect == \E r \in {Redir(NoFd, ">", "f"), Redir(2, ">>", "f"), Redir(NoFd, "<", "f"), Redir(BothStreams, "&>", "f"), Redir(2, ">&", "1"), Redir(NoFd, "<<<", "f")} :
               MayRedirect /\ Put(WithCmd(prog, ReplaceLast(LastCmd(prog), Append(Last(LastCmd(prog)), r))))
Document == \E op \in HereOps : \E q \in BOOLEAN :
               MayRedirect /\ ~oneLine /\ Put(WithCmd(prog, ReplaceLast(LastCmd(prog), Append(Last(LastCmd(prog)), Here(op, q)))))

(* Words: pieces one after another, and pieces around what there is.          *)
Piece == {Lit(<<"a">>), SQ(<<"a", " ">>), SQ(<<"\"">>), SQ(<<")">>), DQ(<<Lit(<<"'", "#">>)>>), DQ(<<Param(<<"a">>)>>), Param(<<"a", ":", "-", "b">>), Cmd(<<"a", " ", "b">>),
          Arith(<<"(", "a", ")", "+", "1">>), ProcIn(<<"a">>)}
Grow(w) == Len(prog) = 1 /\ steps < MaxParts /\ prog = <<Only(Run("a"))>> /\ word' = w /\ steps' = steps + 1 /\ UNCHANGED <<prog, oneLine>>
AppendPiece == \E x \in Piece : (word # << >> => ~(Last(word).k = "lit" /\ x.k = "lit") /\ "procin" \notin {word[1].k, x.k}) /\ Grow(Append(word, x))
Enclose == /\ word # << >> /\ word[1].k # "procin"
           /\ \/ Grow(<<Cmd(TextOfWord(word))>>)
              \/ \A i \in 1..Len(word) : word[i].k \notin {"sq", "dq"} /\ Grow(<<DQ(word)>>)
              \/ Grow(<<ProcIn(TextOfWord(word))>>)
Next == Block \/ Branch \/ Loop \/ Over \/ OverArith \/ Choice \/ Define \/ Pipe \/ Chain \/ Then \/ Line \/ Mark \/ Redirect
        \/ Document \/ AppendPiece \/ Enclose
Spec == Init /\ [][Next]_vars

-----------------------------------------------------------------------------
(* How many commands are inside one another.                                  *)
RECURSIVE Depth(_)
Most(ns) == FoldLeft(LAMBDA m, n : IF n > m THEN n ELSE m, 0, ns)
DepthOfBody(b) == Most(Each(b, LAMBDA cc : Most(Each(cc, LAMBDA ao : Most(Each(ao[1], LAMBDA pl : Most(Each(pl[2], Depth))))))))
Inside(c) ==
    CASE c[1] \in {"subshell", "group"} -> <<c[2]>>
      [] c[1] = "if" -> <<c[2], c[3]>> \o FlattenSeq(c[4]) \o c[5]
      [] c[1] \in {"while", "until"} -> <<c[2], c[3]>>
      [] c[1] \in {"for", "select"} -> <<c[4]>>
      [] c[1] = "arithfor" -> <<c[3]>>
      [] c[1] = "case" -> Each(c[3], LAMBDA it : it[2])
      [] OTHER -> << >>
Depth(c) == 1 + IF c[1] = "function" THEN Depth(c[3]) ELSE Most(Each(Inside(c), DepthOfBody))

(* parse reads back exactly the program that was written, here-documents      *)
(* attached to the commands they belong to, and leaves no nesting and no      *)
(* here-document behind; a program with more commands inside one another than *)
(* MAX_NESTING_DEPTH is refused, and only such a program.                     *)
RoundTrip ==
    LET p == Reader(Writer(prog, oneLine))
    IN  IF DepthOfBody(prog) <= MAX_NESTING_DEPTH THEN p.ok /\ p.v = prog /\ p.depth = 0 /\ p.hd = << >> ELSE ~p.ok

(* How many $( a text holds.                                                  *)
Opened(t) == Cardinality({i \in 1..Len(t) : t[i] = "$" /\ At(t, i + 1) = "("})

(* The lexer and the word parser scan a word with scanners of their own: the  *)
(* first takes the whole word for one token, the second finds the parts it    *)
(* was written from.                                                          *)
ScannersAgree ==
    LET t == TextOfWord(word)
        k == Scanner(t)
    IN  word # << >> => IF k.k = "error" THEN Opened(t) > MAX_LEX_DEPTH
                        ELSE k.k = "word" /\ k.t = t /\ Splitter(t) = word

(* Running the instructions of a lowered and-or list runs the same commands   *)
(* as evaluating && and || from the left, and ends with the same status.      *)
LeftToRight(ao, st) ==      \* st[i]: the status pipeline i would have
    FoldLeft(LAMBDA acc, i : IF i = 1 \/ (ao[2][i - 1] = "&&") = (acc.status = 0)
                             THEN [status |-> st[i], ran |-> Append(acc.ran, i)] ELSE acc,
             [status |-> 0, ran |-> << >>], [i \in 1..Len(ao[1]) |-> i])
ShortCircuit ==
    \A k \in 1..Len(Last(prog)) :
        LET ao   == LowerAndOr(Last(prog)[k])
            code == LowerSupported(ao)
            jump == {i \in 1..Len(code) : code[i][1] \in {"ifFailure", "ifSuccess"}}
            Of(pc) == 1 + Cardinality({j \in jump : j < pc})      \* the pipeline an instruction is of
        IN  Supported(ao) =>
              \A st \in [1..Len(ao[1]) -> {0, 1}] : \A before \in {0, 1} :
                LET r == RunCode(code, [pc \in 1..Len(code) |-> st[Of(pc)]], 1, before, << >>)
                    l == LeftToRight(ao, st)
                IN  r.status = l.status /\ Each(r.trace, Of) = l.ran

(* Lowering leaves no command out: the commands that hold no others, in the   *)
(* order of the source, are each lowered, whatever holds them.                *)
RECURSIVE Leaves(_)
LeavesOfBody(b) == FlattenSeq(Each(b, LAMBDA cc : FlattenSeq(Each(cc, LAMBDA ao : FlattenSeq(Each(ao[1], LAMBDA pl : FlattenSeq(Each(pl[2], Leaves))))))))
Leaves(c) ==
    CASE c[1] = "function" -> Leaves(c[3])
      [] Inside(c) = << >> -> <<c>>
      [] OTHER -> FlattenSeq(Each(Inside(c), LeavesOfBody))
AllLowered ==
    LET before == LeavesOfBody(prog)
        after  == LeavesOfBody(Lowerer(prog))
    IN  Len(after) = Len(before) /\ \A i \in 1..Len(after) : after[i][1] # "simple" /\ after[i] = LowerCommand(before[i])

(* What lowering makes of a program runs its commands, all of them.           *)
LoweredFaithfully == ShortCircuit /\ AllLowered

=============================================================================
