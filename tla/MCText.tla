-------------------------------- MODULE MCText --------------------------------
(* Every command of Commands over every text of Texts.  A command that can    *)
(* stream is pulled by a stage that takes its output in pieces, while its     *)
(* input arrives in chunks of any size; the others run as the utility.        *)
EXTENDS StreamingFilters

CONSTANTS
    MaxPiece,               \* the most bytes one read of the consumer takes
    Stager(_),              \* Stage: how a command streams, if it does
    NextLineOf(_),          \* NextLine
    EndOf(_),               \* OnEnd
    Command(_, _, _, _),    \* RunUtility
    Comparer(_, _, _),      \* SortCompare
    Sorter(_, _)            \* SortLines

VARIABLES cmd, text, r, fed, got, ran
vars == <<cmd, text, r, fed, got, ran>>

-----------------------------------------------------------------------------
O(o)    == [o |-> o, v |-> ""]              \* an option
V(o, v) == [o |-> o, v |-> v]               \* an option with its value
F(n)    == [o |-> "", v |-> n]              \* a file operand
P(p)    == [o |-> "", v |-> p]              \* a pattern, script or set operand
a  == <<"a">>
S(p, by, all) == [k |-> "s", p |-> p, by |-> by, all |-> all, bol |-> FALSE, eol |-> FALSE]
Ln(n)  == [k |-> "line", n |-> n]
Lst    == [k |-> "last"]
Re(p)  == [k |-> "re", p |-> p]
Comma  == [k |-> ","]
D      == [k |-> "d"]
Pr     == [k |-> "p"]
Q      == [k |-> "q"]
Tx(k)  == [k |-> k, t |-> <<"B">>]
Y      == [k |-> "y", from |-> <<"a", "b">>, to |-> <<"b", "a">>]
Key(f, t) == [from |-> f, to |-> t]
Rg(f, t)  == [from |-> f, to |-> t]
Ch(c)  == [k |-> "ch", c |-> c]
Rn(c, t) == [k |-> "range", c |-> c, to |-> t]
Cl(c)  == [k |-> "class", c |-> c]

Args ==
    [head |-> << <<>>, <<V("n", 1)>>, <<V("n", 2)>>, <<V("n", 0)>>, <<V("c", 2)>>, <<V("num", 1)>>, <<V("n", Bad)>>, <<V("n", 1), F("f"), F("g"), F("x")>> >>,
     tail |-> << <<V("n", 1)>>, <<V("n", 2)>>, <<V("n", 0)>>, <<V("c", 3)>>, <<V("n+", 2)>>, <<O("q"), F("f"), F("g")>> >>,
     wc   |-> << <<>>, <<O("l")>>, <<O("w"), O("L")>>, <<F("f"), F("x"), F("g")>> >>,
     grep |-> << <<P(a)>>, <<O("v"), P(a)>>, <<O("c"), P(a)>>, <<O("i"), O("n"), P(a)>>, <<O("w"), P(a)>>, <<O("o"), P(a)>>,
               <<V("A", 1), P(a)>>, <<V("B", 1), P(a)>>, <<V("C", 1), O("n"), P(a)>>, <<V("m", 1), P(a)>>, <<V("m", 1), O("c"), P(a)>>,
               <<O("q"), P(a)>>, <<O("l"), P(a)>>, <<O("F"), O("w"), P(a)>>, <<V("e", a), V("e", <<"b">>)>>, <<P(a), F("f"), F("g"), F("x")>>,
               <<V("A", 1), V("B", 1), O("v"), P(a)>>, <<V("A", 1), V("m", 2), P(a)>>, <<O("l"), P(a), F("f"), F("g")>>, <<>> >>,
     sed  |-> << <<P(<< <<S(a, <<"b">>, FALSE)>> >>)>>, <<P(<< <<S(a, <<"b", "&">>, TRUE)>> >>)>>, <<O("n"), P(<< <<Re(a), Pr>> >>)>>,
               <<P(<< <<Ln(1), Comma, Re(a), D>> >>)>>, <<P(<< <<Lst, D>> >>)>>, <<P(<< <<Ln(2), Q>> >>)>>, <<P(<< <<Ln(1), Tx("a")>> >>)>>,
               <<P(<< <<Ln(1), Tx("i")>>, <<Lst, Tx("c")>> >>)>>, <<V("e", << <<Y>> >>), V("e", << <<Ln(2), Comma, Lst, Tx("c")>> >>)>>,
               <<O("n"), P(<< <<Ln(1), Comma, Ln(1), Pr>> >>)>>, <<P(<< <<[k |-> "?"]>> >>)>>,
               <<V("i", ""), P(<< <<S(a, <<"b">>, TRUE)>> >>), F("f"), F("g")>>, <<V("i", ".bak"), P(<< <<Ln(1), D>> >>), F("f")>>,
               <<V("i", ".bak"), P(<< <<Y>> >>), F("x"), F("f")>>, <<P(<< <<Lst, D>> >>), F("f"), F("g")>>,
               <<V("e", << <<Lst, D>> >>), O("--")>>, <<>> >>,
     uniq |-> << <<>>, <<O("c")>>, <<O("d")>>, <<O("u")>>, <<O("i")>>, <<V("f", 1)>>, <<V("s", 1)>>, <<V("w", 1)>>, <<F("f")>>, <<F("x")>> >>,
     cut  |-> << <<V("f", <<Rg(1, 1)>>), V("d", " ")>>, <<V("f", <<Rg(2, Bad)>>), V("d", " "), O("s")>>, <<V("c", <<Rg(1, 2)>>)>>,
               <<V("f", <<Rg(1, 1)>>), V("d", " "), O("complement")>>, <<V("c", <<Rg(Bad, 1), Rg(3, 3)>>), O("complement")>>,
               <<V("f", <<Rg(1, 2)>>), V("d", " "), V("output-delimiter", <<",">>)>>, <<>> >>,
     tr   |-> << <<P(<<Rn("a", "b")>>), P(<<Rn("A", "B")>>)>>, <<O("d"), P(<<Ch("a")>>)>>, <<O("s"), P(<<Cl("lower")>>)>>,
               <<O("C"), P(<<Cl("lower"), Ch(NL)>>), P(<<Ch("-")>>)>>, <<O("d"), O("s"), P(<<Ch(" ")>>), P(<<Ch("b")>>)>>,
               <<O("s"), P(<<Ch("a"), Ch("b")>>), P(<<Ch("B")>>)>>, <<O("d"), O("C"), P(<<Ch("e"), Ch(NL)>>)>>, <<P(<<Ch("a")>>)>> >>,
     tee  |-> << <<F("f"), F("y")>>, <<O("a"), F("g"), F("f")>> >>,
     paste |-> << <<>>, <<V("d", <<",">>), F("f"), F("-"), F("g")>>, <<O("s"), F("f"), F("g")>>, <<F("x")>> >>,
     rev  |-> << <<>>, <<F("f")>> >>,
     bat  |-> << <<>>, <<O("p")>>, <<V("style", "numbers"), V("r", Rg(2, Bad))>>, <<O("A"), V("style", "header")>>, <<F("f"), F("x")>> >>,
     column |-> << <<>>, <<O("t")>>, <<O("t"), V("s", ",")>> >>,
     sort |-> << <<>>, <<O("r")>>, <<O("u")>>, <<O("f"), O("u")>>, <<O("n")>>, <<O("f")>>, <<V("k", Key(2, 2))>>, <<V("k", Key(2, Bad)), O("s")>>,
               <<O("s"), O("f")>>, <<O("b"), V("k", Key(1, 1))>>, <<V("k", Key(1, 1)), V("t", 3), O("n"), O("s")>>,
               <<O("n"), O("s"), O("r")>>, <<V("o", "f"), F("f")>>, <<O("c"), F("f")>>, <<O("c")>>, <<F("x")>> >>,
     cat  |-> << <<>> >>]
Chosen == UNION {{[name |-> n, i |-> i] : i \in 1..Len(Args[n])} : n \in DOMAIN Args}
Argv(c) == Args[c.name][c.i]

(* Lines that repeat, differ only in case or in a later field, have two-byte  *)
(* characters or half of one, are empty, or lack the last newline.            *)
Texts ==
    {<< >>, <<"a", NL, "b", NL, "a">>, <<"a", NL, "a", NL, "A", NL, "b", NL>>, <<"b", NL, NL, "a", "b", NL>>,
     <<"hi", "lo", "a", NL, "hi", "lo", "b">>, <<"hi", NL, "a", "hi">>,
     <<"b", " ", "a", NL, "a", " ", "b", NL, "b", " ", "a", NL>>, <<"2", " ", "a", NL, "1", "2", NL, "2", " ", "B", NL>>,
     <<"b", "a", NL, "b", NL, "b", NL, "a", NL, "b", NL>>, <<"a", "a", " ", "a", "b", "b", NL>>}
Files == ("f" :> <<"b", NL, "a", " ", "a", NL, "a", NL>>) @@ ("g" :> <<"a">>)

(* What the command of this name prints when it runs as the utility.          *)
RunUtility(name, argv, in, files) ==
    LET same == Result(in, 0, files)
    IN  CASE name = "head" -> Head2(argv, in, files) [] name = "tail" -> Tail2(argv, in, files) [] name = "wc" -> Wc(argv, in, files)
          [] name = "grep" -> Grep(argv, in, files) [] name = "sed" -> Sed(argv, in, files) [] name = "sort" -> Sort(argv, in, files)
          [] name = "uniq" -> Uniq(argv, in, files) [] name = "cut" -> Cut(argv, in, files) [] name = "tr" -> Tr(argv, in, files)
          [] name = "tee" -> Tee(argv, in, files, {}) [] name = "paste" -> Paste(argv, in, files) [] name = "rev" -> Rev(argv, in, files)
          [] name = "bat" -> Bat(argv, in, files) [] name = "column" -> Column(argv, in, files)
          [] OTHER -> same
Utility(c, in, files) == Command(c.name, Argv(c), in, files)

Stage(c) == LET argv == Argv(c) IN Accept(c.name, argv, FALSE)
Idle     == [c |-> [cmd |-> ""], out |-> << >>, fin |-> TRUE, st |-> 0, pend |-> << >>]

(* Where the code's stage and utility are known to differ: column alone       *)
(* replaces what is not UTF-8, and to grep -w a letter of two bytes is no     *)
(* letter, to its stage it is one.                                            *)
Differs(c, t) ==
    \/ c.name = "column" /\ Encode(Lossy(t)) # t
    \/ c.name = "grep" /\ Has(Argv(c), "w") /\ ~Has(Argv(c), "F") /\ "e" \in ToSet(Lossy(t))

Init ==
    /\ cmd \in Chosen
    /\ text \in Texts
    /\ ~Differs(cmd, text)
    /\ r = IF Stager(cmd) = No THEN Idle ELSE Settled(Reader(Stager(cmd)))
    /\ fed = 0
    /\ got = << >>
    /\ ran = FALSE

(* The utility, in one step.                                                  *)
Run ==
    /\ Stager(cmd) = No /\ ~ran
    /\ got' = Utility(cmd, text, Files).out
    /\ ran' = TRUE
    /\ UNCHANGED <<cmd, text, r, fed>>
(* A read of the input, when nothing can be done without it.                  *)
Arrive ==
    /\ r.out = << >> /\ ~r.fin /\ ~HasLine(r)
    /\ \E n \in 1..(Len(text) - fed) :
          /\ Wants(r, n)
          /\ r' = OnChunk(r, SubSeq(text, fed + 1, fed + n))
          /\ fed' = fed + n
    /\ UNCHANGED <<cmd, text, got, ran>>
PullLine ==
    /\ r.out = << >> /\ ~r.fin
    /\ HasLine(r) \/ (fed = Len(text) /\ ByLine(r) /\ r.pend # << >>)
    /\ r' = NextLineOf(r)
    /\ UNCHANGED <<cmd, text, fed, got, ran>>
End ==
    /\ r.out = << >> /\ ~r.fin /\ fed = Len(text)
    /\ ~(ByLine(r) /\ r.pend # << >>)
    /\ r' = EndOf(r)
    /\ UNCHANGED <<cmd, text, fed, got, ran>>
Deliver ==
    /\ \E n \in 1..Len(r.out) :
          /\ n = MaxPiece \/ (n < MaxPiece /\ n = Len(r.out))
          /\ got' = got \o Take(r.out, n)
          /\ r' = [r EXCEPT !.out = Drop(@, n)]
    /\ UNCHANGED <<cmd, text, fed, ran>>

Finished == IF Stager(cmd) = No THEN ran ELSE r.fin /\ r.out = << >>
Done     == Finished /\ UNCHANGED vars

(* Every step but Done uses up input or output, so a command that never stops *)
(* short of Finished, which TLC checks as deadlock, finishes.                 *)
Next == Run \/ Arrive \/ PullLine \/ End \/ Deliver \/ Done
Spec == Init /\ [][Next]_vars

-----------------------------------------------------------------------------

(* What head took of its input is what it printed or is about to.             *)
TakesNoMore == r.c.cmd = "head" => Take(text, fed) = got \o r.out

(* A stage that streams prints, however its input is cut into chunks and its  *)
(* output into pieces, what the utility of the same name would print from the *)
(* whole input, in order and nothing else, and grep ends with its status      *)
(* (the *StreamReader types against text_ops.rs).  head takes no byte of its  *)
(* input that it does not print, so what comes after is left for the next     *)
(* reader (HeadStreamReader::read).                                           *)
Streamed ==
    LET u == Utility(cmd, text, Files)
    IN  /\ IsPrefix(got \o r.out, u.out)
        /\ Finished => got = u.out /\ (cmd.name = "grep" /\ Stager(cmd) # No => r.st = u.st)
        /\ TakesNoMore

With(argv, o) == IF Has(argv, o) THEN SelectSeq(argv, LAMBDA x : x.o # o) ELSE <<O(o)>> \o argv
LinesOf(argv) == Lines(Command(cmd.name, argv, text, Files).out)
Count(s, x) == Cardinality({i \in 1..Len(s) : s[i] = x})
Splits(all, p, q) == \A x \in ToSet(all \o p \o q) : Count(all, x) = Count(p, x) + Count(q, x)
(* grep and grep -v divide the lines between them, uniq -d and uniq -u what   *)
(* uniq prints, and cut and cut --complement the characters of every line.    *)
Partitions ==
    LET argv == Argv(cmd)
        plain(os) == argv # << >> /\ OnlyOptions(argv, os)
    IN  /\ (cmd.name = "grep" /\ plain({"", "i", "w", "F", "e", "v"}) /\ GrepArgs(argv).files = << >>) =>
               Splits(Lines(text), LinesOf(argv), LinesOf(With(argv, "v")))
        /\ (cmd.name = "uniq" /\ OnlyOptions(argv, {"i", "f", "s", "w"})) =>
               Splits(LinesOf(argv), LinesOf(With(argv, "d")), LinesOf(With(argv, "u")))
        /\ (cmd.name = "cut" /\ Has(argv, "c")) =>
               Splits(FlattenSeq(Lines(text)), FlattenSeq(LinesOf(argv)), FlattenSeq(LinesOf(With(argv, "complement"))))

(* sort prints the input's lines (with -u one of each run), in the order of   *)
(* its options, lines that compare equal in the order they came in; -o may    *)
(* name the input; and without -r -c accepts exactly what sort leaves as is.  *)
Sorted ==
    (cmd.name = "sort" /\ ran) =>
        LET f   == SortArgs(Argv(cmd))
            in  == Input(Argv(cmd), text, Files)
            ls  == Lines(in.t)
            u   == Utility(cmd, text, Files)
            out == Lines(IF f.into = "" THEN u.out ELSE u.files[f.into])
            same(x, y) == Comparer(f, x, y) = 0
        IN  CASE ~in.ok -> u.st = 1
              [] "c" \in f.flags -> (u.st = 0) = (Sorter(f, ls) = ls)
              [] OTHER -> /\ \A i \in 1..(Len(out) - 1) : Comparer(f, out[i], out[i + 1]) <= 0
                          /\ IF "u" \in f.flags THEN ToSet(out) \subseteq ToSet(ls) /\ IsInjective(out)
                             ELSE \A x \in ToSet(ls) \cup ToSet(out) :
                                    SelectSeq(out, LAMBDA y : same(x, y)) = SelectSeq(ls, LAMBDA y : same(x, y))

(* sed -i leaves in each file what sed would have printed from it and, with a *)
(* suffix, the old text beside it; it stops at the first file it cannot read. *)
InPlace ==
    (cmd.name = "sed" /\ SedArgs(Argv(cmd)).inplace) =>
        LET s  == SedArgs(Argv(cmd))
            u  == Utility(cmd, text, Files)
            printed(n) == Command("sed", <<Argv(cmd)[2], F(n)>>, text, Files)
        IN  \A i \in 1..Len(s.files) :
              \/ \E j \in 1..i : s.files[j] \notin DOMAIN Files /\ u.st = 1 /\ (s.files[i] \in DOMAIN Files => u.files[s.files[i]] = Files[s.files[i]])
              \/ /\ u.files[s.files[i]] = printed(s.files[i]).out
                 /\ s.suffix # "" => u.files[s.files[i] \o s.suffix] = Files[s.files[i]]

(* The utilities that rearrange or divide their input neither lose nor make   *)
(* up a line of it.                                                           *)
LinesKept == Partitions /\ Sorted /\ InPlace

=============================================================================
