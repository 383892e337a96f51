----------------------------- MODULE MCExpansion ------------------------------
(* Patterns, conditions, expressions, parameters, braces and words are built  *)
(* as trees, written out as the text the shell reads, and expanded; what a    *)
(* tree means is said here, without the text.  The commands that change       *)
(* variables are run in every order on the side.                              *)
EXTENDS Expansion, Builtins

CONSTANTS
    MaxSize,        \* steps in the building of one tree
    MaxOps,         \* commands that change variables
    Shell(_, _),    \* ShellDoes: what the code makes of its arguments
    Means(_, _)     \* TreeMeans: what a tree means

VARIABLES kind,         \* what is being built
          tree, size,
          st            \* the shell's variables
vars == <<kind, tree, size, st>>

Kinds == {"glob", "regex", "cond", "arith", "param", "brace", "word", "path", "opts", "input", "format", "vars"}
RECURSIVE Texts(_, _)
Texts(cs, n) == IF n = 0 THEN {<< >>} ELSE Texts(cs, n - 1) \cup {Append(t, c) : t \in Texts(cs, n - 1), c \in cs}
Join(ts, sep) == FlattenSeq([i \in 1..Len(ts) |-> IF i = 1 THEN ts[i] ELSE sep \o ts[i]])
Lengths(t)   == 0..Len(t)

MCFiles   == [p \in {<<"a">>, <<"d">>} |-> [dir |-> p = <<"d">>, size |-> IF p = <<"a">> THEN 1 ELSE 0]]
MCListing == [d \in {<< >>, <<"d", "/">>, <<"d", "/", "c", "/">>} |->
    CASE d = << >> -> {<<"a">>, <<"a", "b">>, <<"*">>, <<".", "a">>, <<"d">>} [] d = <<"d", "/">> -> {<<"b">>, <<"a", "*">>, <<"c">>} [] OTHER -> {<<"a">>, <<"b">>}]

-----------------------------------------------------------------------------
(* Globs: a sequence of items.                                                *)

GlobItems == {<<"one", "a">>, <<"one", "b">>, <<"any">>, <<"star">>, <<"range", FALSE, "a", "b">>, <<"range", TRUE, "b", "b">>,
              <<"set", FALSE, <<"]", "a">>>>, <<"set", TRUE, <<"b", "*">>>>, <<"quoted", "*">>,
              <<"ext", "@", <<<<"a">>, <<"b", "a">>>>>>, <<"ext", "?", <<<<"a", "b">>>>>>, <<"ext", "*", <<<<"a">>, <<"b", "b">>>>>>,
              <<"ext", "+", <<<<"a", "b">>, <<"b">>>>>>, <<"ext", "!", <<<<"a">>, <<"a", "b">>>>>>}
Not(neg) == IF neg THEN <<"!">> ELSE << >>
TextOfItem(x) ==
    CASE x[1] = "one" -> <<x[2]>> [] x[1] = "any" -> <<"?">> [] x[1] = "star" -> <<"*">> [] x[1] = "quoted" -> <<"\\", x[2]>>
      [] x[1] = "range" -> <<"[">> \o Not(x[2]) \o <<x[3], "-", x[4], "]">>
      [] x[1] = "set" -> <<"[">> \o Not(x[2]) \o x[3] \o <<"]">>
      [] x[1] = "ext" -> <<x[2], "(">> \o Join(x[3], <<"|">>) \o <<")">>
TextOfGlob(g) == FlattenSeq([i \in 1..Len(g) |-> TextOfItem(g[i])])
Kinded(g, ks) == \E i \in 1..Len(g) : g[i][1] \in ks
(* A !(...) stands between ordinary characters here.                          *)
Negative(g)   == \E i \in 1..Len(g) : g[i][1] = "ext" /\ g[i][2] = "!"
GlobAllowed(g) == Negative(g) => ~Kinded(g, {"any", "star", "range", "set", "quoted"}) /\ Cardinality({i \in 1..Len(g) : g[i][1] = "ext"}) = 1
RECURSIVE Repeated(_, _, _)
(* Whether t is lo or more of the texts ws, one after another.                *)
Repeated(t, ws, lo) == (t = << >> /\ lo <= 0) \/ \E i \in 1..Len(ws) : IsPrefix(ws[i], t) /\ Repeated(From(t, Len(ws[i]) + 1), ws, lo - 1)
ItemMatches(x, t) ==
    CASE x[1] \in {"one", "quoted"} -> t = <<x[2]>>
      [] x[1] = "any" -> Len(t) = 1
      [] x[1] = "star" -> TRUE
      [] x[1] = "range" -> Len(t) = 1 /\ (x[2] # (t[1] \in {c \in CharSet : Between(x[3], c, x[4])}))
      [] x[1] = "set" -> Len(t) = 1 /\ (x[2] # (t[1] \in ToSet(x[3])))
      [] x[1] = "ext" -> CASE x[2] = "@" -> t \in ToSet(x[3]) [] x[2] = "!" -> t \notin ToSet(x[3])
                           [] x[2] = "?" -> t = << >> \/ t \in ToSet(x[3])
                           [] x[2] = "*" -> Repeated(t, x[3], 0) [] x[2] = "+" -> Repeated(t, x[3], 1)
RECURSIVE Matches(_, _)
Matches(g, t) == IF g = << >> THEN t = << >> ELSE \E k \in Lengths(t) : ItemMatches(g[1], UpTo(t, k)) /\ Matches(Tail(g), From(t, k + 1))

(* The glob matcher of ${v#pattern}, the one of pathnames and [[ ]], and the  *)
(* extended one accept the same texts: those the pattern's items can be laid  *)
(* over, whatever the * before them took at first.                            *)
GlobsAgree ==
    kind = "glob" => LET p == TextOfGlob(tree)
                     IN  \A t \in Texts({"a", "b"}, 3) \cup {<<"*">>, <<"]">>, <<"a", "*">>, <<"]", "b">>} :
                            /\ Shell("extglob", <<p, t>>) = Means("glob", <<tree, t>>)
                            /\ ~Kinded(tree, {"ext", "quoted"}) => Shell("strip", <<p, t>>) = Means("glob", <<tree, t>>)
                            /\ ~Kinded(tree, {"ext"}) => Shell("glob", <<p, t>>) = Means("glob", <<tree, t>>)

-----------------------------------------------------------------------------
(* Regular expressions: an element is a set of characters or a group of       *)
(* texts, and how often it may occur.                                         *)

RxItems == {<<"set", <<"a">>, {"a"}, "">>, <<"set", <<"a">>, {"a"}, "*">>, <<"set", <<"b">>, {"b"}, "?">>, <<"set", <<"b">>, {"b"}, "+">>,
            <<"set", <<".">>, CharSet, "*">>, <<"set", <<"[", "a", "-", "b", "]">>, {"a", "b"}, "">>, <<"set", <<"[", "^", "a", "]">>, CharSet \ {"a"}, "">>,
            <<"group", <<<<"a">>, <<"b", "a">>>>, {}, "">>, <<"group", <<<<"a", "b">>>>, {}, "*">>, <<"group", <<<<"a", "b">>, <<"b">>>>, {}, "+">>,
            <<"group", <<<<"b">>>>, {}, "?">>}
TextOfRx(x) == (IF x[1] = "group" THEN <<"(">> \o Join(x[2], <<"|">>) \o <<")">> ELSE x[2]) \o (IF x[4] = "" THEN << >> ELSE <<x[4]>>)
RxTree(a, b, is) == [start |-> a, end |-> b, items |-> is]
TextOfRegex(r) == (IF r.start THEN <<"^">> ELSE << >>) \o FlattenSeq([i \in 1..Len(r.items) |-> TextOfRx(r.items[i])]) \o (IF r.end THEN <<"$">> ELSE << >>)
RxMatches(x, t) ==
    LET ws == IF x[1] = "group" THEN x[2] ELSE SetToSeq({<<c>> : c \in x[3] \cap ToSet(t)})
    IN  CASE x[4] = "" -> t \in ToSet(ws) [] x[4] = "?" -> t = << >> \/ t \in ToSet(ws)
          [] x[4] = "*" -> Repeated(t, ws, 0) [] x[4] = "+" -> Repeated(t, ws, 1)
RECURSIVE Laid(_, _)
(* All the ways to lay the elements over a beginning of t: what each takes.   *)
Laid(is, t) ==
    IF is = << >> THEN {<< >>}
    ELSE UNION {{<<UpTo(t, k)>> \o w : w \in Laid(Tail(is), From(t, k + 1))} : k \in {j \in Lengths(t) : RxMatches(is[1], UpTo(t, j))}}
WaysFrom(r, t, s) == {w \in Laid(r.items, From(t, s)) : r.end => s + Len(FlattenSeq(w)) = Len(t) + 1}
Groups(r, w)  == LET gs == SelectSeq([i \in 1..Len(w) |-> i], LAMBDA i : r.items[i][1] = "group") IN [i \in 1..Len(gs) |-> w[gs[i]]]
(* What BASH_REMATCH may hold: the matches at the first place there is one.   *)
Ways(r, t) ==
    LET ss == {s \in 1..IF r.start THEN 1 ELSE Len(t) + 1 : WaysFrom(r, t, s) # {}}
    IN  IF ss = {} THEN {} ELSE {<<FlattenSeq(w)>> \o Groups(r, w) : w \in WaysFrom(r, t, Min(ss))}

(* [[ t =~ p ]] holds exactly when the expression can be laid over a part of  *)
(* t; BASH_REMATCH then holds such a part, the first there is, and what each  *)
(* group took of it.                                                          *)
RegexFaithful ==
    kind = "regex" =>
        \A t \in Texts({"a", "b"}, 3) :
            LET ways == Means("regex", <<tree, t>>)
            IN  Shell("regex", <<t, TextOfRegex(tree)>>) \in IF ways = {} THEN {<< >>} ELSE ways

-----------------------------------------------------------------------------
(* [[ ... ]].                                                                 *)

CondAtoms == {<<"bin", <<"a", "b">>, "==", <<"a", "*">>, TRUE>>, <<"bin", <<"a">>, "!=", <<"a">>, FALSE>>, <<"bin", <<"9">>, "<", <<"1", "0">>, FALSE>>,
              <<"bin", <<"9">>, "-lt", <<"1", "0">>, TRUE>>, <<"bin", <<" ", "2">>, "-eq", <<"2">>, TRUE>>, <<"file", "-d", <<"d">>, TRUE>>, <<"file", "-s", <<"d">>, FALSE>>,
              <<"empty", "-z", << >>, TRUE>>, <<"empty", "-n", << >>, FALSE>>, <<"word", <<"a">>, TRUE>>, <<"word", << >>, FALSE>>,
              <<"nocase", <<"A", "b">>, "==", <<"a", "?">>>>, <<"nocase", <<"a">>, "==", <<"[", "A", "]">>>>}
Beside == {<<"bin", <<"9">>, "-lt", <<"1", "0">>, TRUE>>, <<"bin", <<"a">>, "!=", <<"a">>, FALSE>>, <<"file", "-d", <<"d">>, TRUE>>, <<"empty", "-n", << >>, FALSE>>, <<"word", <<"a">>, TRUE>>}
Rx(t)  == <<"rx", <<"a", "b">>, "=~", t, t = <<"a", "(", "b", ")">>>>
TextOfAtom(x) == CASE x[1] \in {"bin", "rx", "nocase"} -> <<x[2], Tok(x[3]), x[4]>> [] x[1] \in {"file", "empty"} -> <<Tok(x[2]), x[3]>> [] OTHER -> <<x[2]>>
RECURSIVE TextOfCond(_, _), CondValue(_, _), CondMatch(_, _)
Parens(b, ts) == IF b THEN <<Tok("(")>> \o ts \o <<Tok(")")>> ELSE ts
(* Written with parentheses only where || is under && or !, or && under !.    *)
TextOfCond(x, level) ==
    CASE x[1] = "or" -> Parens(level > 1, TextOfCond(x[2], 1) \o <<Tok("||")>> \o TextOfCond(x[3], 1))
      [] x[1] = "and" -> Parens(level > 2, TextOfCond(x[2], 2) \o <<Tok("&&")>> \o TextOfCond(x[3], 2))
      [] x[1] = "not" -> <<Tok("!")>> \o TextOfCond(x[2], 3)
      [] OTHER -> TextOfAtom(x)
(* With nocasematch or without.                                               *)
CondValue(x, nc) ==
    CASE x[1] = "or" -> CondValue(x[2], nc) \/ CondValue(x[3], nc) [] x[1] = "and" -> CondValue(x[2], nc) /\ CondValue(x[3], nc)
      [] x[1] = "not" -> ~CondValue(x[2], nc) [] x[1] = "nocase" -> nc [] OTHER -> Last(x)
(* What the last =~ of the condition leaves in BASH_REMATCH.                  *)
CondMatch(x, m) ==
    CASE x[1] \in {"or", "and"} -> CondMatch(x[3], CondMatch(x[2], m)) [] x[1] = "not" -> CondMatch(x[2], m)
      [] x[1] = "rx" -> IF Last(x) THEN <<<<"a", "b">>, <<"b">>>> ELSE << >>
      [] OTHER -> m
RECURSIVE HasRx(_)
HasRx(x) == CASE x[1] \in {"or", "and"} -> HasRx(x[2]) \/ HasRx(x[3]) [] x[1] = "not" -> HasRx(x[2]) [] OTHER -> x[1] = "rx"
(* The value of the left side settles the condition and the right one has a   *)
(* =~, which the code tries all the same.                                     *)
RECURSIVE SettledBefore(_, _)
SettledBefore(x, nc) ==
    CASE x[1] \in {"or", "and"} -> \/ SettledBefore(x[2], nc) \/ SettledBefore(x[3], nc)
                                  \/ (CondValue(x[2], nc) = (x[1] = "or") /\ HasRx(x[3]))
      [] x[1] = "not" -> SettledBefore(x[2], nc) [] OTHER -> FALSE
(* A regular expression runs up to the next && or ||, over a ) too.           *)
InParens(x, level) == (level > 1 /\ x[1] = "or") \/ (level > 2 /\ x[1] = "and")
RECURSIVE CondAllowed(_, _)
CondAllowed(x, level) ==
    /\ InParens(x, level) => ~HasRx(x)
    /\ CASE x[1] = "or" -> CondAllowed(x[2], 1) /\ CondAllowed(x[3], 1) [] x[1] = "and" -> CondAllowed(x[2], 2) /\ CondAllowed(x[3], 2)
         [] x[1] = "not" -> CondAllowed(x[2], 3) [] OTHER -> TRUE

(* A condition has the value its tree has, with ! before && before ||, it is  *)
(* read to its last word, and BASH_REMATCH is what the last =~ found, when    *)
(* none stands where the condition is settled already.                        *)
ConditionsFaithful ==
    kind = "cond" => \A nc \in BOOLEAN :
                        LET ts == TextOfCond(tree, 1)
                            r  == Shell("[[", <<ts, <<<<"x">>>>, nc>>)
                        IN  /\ r.b = CondValue(tree, nc) /\ r.i = Len(ts) + 1
                            /\ SettledBefore(tree, nc) \/ r.m = CondMatch(tree, <<<<"x">>>>)

(* test gives a negated condition without && and || the same value, when its  *)
(* operator is not one that only [[ ]] has or that matches a pattern there.   *)
RECURSIVE Innermost(_)
Innermost(x) == IF x[1] = "not" THEN Innermost(x[2]) ELSE x
InTestToo(x) == x[1] \in {"file", "empty", "word"} \/ (x[1] = "bin" /\ x[3] # "<" /\ "*" \notin ToSet(x[4]))
TestFaithful ==
    (kind = "cond" /\ InTestToo(Innermost(tree))) => (Shell("test", <<TextOfCond(tree, 1)>>) = 0) = CondValue(tree, FALSE)

(* The four matchers and the conditions built on them.                        *)
PatternsFaithful == GlobsAgree /\ RegexFaithful /\ ConditionsFaithful /\ TestFaithful

-----------------------------------------------------------------------------
(* Arithmetic.                                                                *)

BinOps  == {"+", "-", "*", "/", "%", "**", "<<", ">>", "<", "==", "&", "|", "^", "&&", "||"}
Precedence == [o \in BinOps \cup {"=", "?", ","} |->
    CASE o = "," -> 0 [] o = "=" -> 1 [] o = "?" -> 2 [] o = "||" -> 3 [] o = "&&" -> 4 [] o = "|" -> 5 [] o = "^" -> 6 [] o = "&" -> 7 [] o = "==" -> 8
      [] o = "<" -> 9 [] o \in {"<<", ">>"} -> 10 [] o \in {"+", "-"} -> 11 [] o \in {"*", "/", "%"} -> 12 [] o = "**" -> 13]
ArithAtoms == {<<"num", 3>>, <<"num", 0>>, <<"var", <<"a">>>>, <<"post", <<"a">>>>}
Spelling(o) == LET k == SelectInSeq(ArithOps, LAMBDA x : x[1] = o) IN IF k = 0 THEN <<o>> ELSE ArithOps[k][2]
Spaced(o)   == <<" ">> \o Spelling(o) \o <<" ">>
RECURSIVE TextOfExpr(_, _)
Wrapped(b, t) == IF b THEN <<"(">> \o t \o <<")">> ELSE t
(* Written with parentheses only where the precedence asks for them.          *)
TextOfExpr(x, level) ==
    CASE x[1] = "num" -> IntText(x[2]) [] x[1] = "var" -> x[2] [] x[1] = "post" -> x[2] \o <<"+", "+">>
      [] x[1] = "neg" -> Wrapped(level > 14, <<"-", " ">> \o TextOfExpr(x[2], 14)) [] x[1] = "lnot" -> Wrapped(level > 14, <<"!", " ">> \o TextOfExpr(x[2], 14))
      [] x[1] = "bin" -> LET k == Precedence[x[2]] IN Wrapped(level > k, TextOfExpr(x[3], IF x[2] = "**" THEN k + 1 ELSE k) \o Spaced(x[2]) \o TextOfExpr(x[4], IF x[2] = "**" THEN k ELSE k + 1))
      [] x[1] = "cond" -> Wrapped(level > 2, TextOfExpr(x[2], 3) \o Spaced("?") \o TextOfExpr(x[3], 1) \o Spaced(":") \o TextOfExpr(x[4], 1))
      [] x[1] = "set" -> Wrapped(level > 1, x[2] \o Spaced(x[3]) \o TextOfExpr(x[4], 1))
      [] x[1] = "comma" -> Wrapped(level > 0, TextOfExpr(x[2], 0) \o Spaced(",") \o TextOfExpr(x[3], 1))
(* A value, the value of a (the only variable) after it, and whether a        *)
(* division by zero was met.                                                  *)
Ev(v, a, bad) == [v |-> v, a |-> a, bad |-> bad]
RECURSIVE Meaning(_, _), Nested(_), Pure(_)
Exact(o, x, y) ==       \* on the integers, wrapped once
    CASE o = "+" -> x + y [] o = "-" -> x - y [] o = "*" -> x * y
      [] o = "/" -> (IF x * y < 0 THEN -1 ELSE 1) * Max({n \in 0..Full : n * Abs(y) <= Abs(x)})
      [] o = "%" -> (IF x < 0 THEN -1 ELSE 1) * (Abs(x) - Abs(y) * Max({n \in 0..Full : n * Abs(y) <= Abs(x)}))
      [] o = "**" -> IF y < 0 THEN 0 ELSE FoldLeft(LAMBDA acc, i : Wrap(acc * x), 1, [i \in 1..y |-> i])
      [] o = "<<" -> x * 2 ^ (y % Bits) [] o = ">>" -> (x - (x % 2 ^ (y % Bits))) \div 2 ^ (y % Bits)
      [] o = "<" -> Truth(x < y) [] o = "==" -> Truth(x = y) [] o = "&&" -> Truth(x # 0 /\ y # 0) [] o = "||" -> Truth(x # 0 \/ y # 0)
      [] o = "&" -> CHOOSE z \in 0..Full - 1 : \A k \in 0..Bits - 1 : Bit(z, k) = Min({Bit(x, k), Bit(y, k)})
      [] o = "|" -> CHOOSE z \in 0..Full - 1 : \A k \in 0..Bits - 1 : Bit(z, k) = Max({Bit(x, k), Bit(y, k)})
      [] o = "^" -> CHOOSE z \in 0..Full - 1 : \A k \in 0..Bits - 1 : Bit(z, k) = Abs(Bit(x, k) - Bit(y, k))
Meaning(x, a) ==
    CASE x[1] = "num" -> Ev(x[2], a, FALSE) [] x[1] = "var" -> Ev(a, a, FALSE) [] x[1] = "post" -> Ev(a, Wrap(a + 1), FALSE)
      [] x[1] = "neg" -> LET r == Meaning(x[2], a) IN [r EXCEPT !.v = Wrap(-@)]
      [] x[1] = "lnot" -> LET r == Meaning(x[2], a) IN [r EXCEPT !.v = Truth(@ = 0)]
      [] x[1] = "bin" -> LET l == Meaning(x[3], a)
                             r == Meaning(x[4], l.a)
                             zero == x[2] \in {"/", "%"} /\ r.v = 0
                         IN  Ev(IF zero THEN 0 ELSE Wrap(Exact(x[2], l.v, r.v)), r.a, l.bad \/ r.bad \/ zero)
      [] x[1] = "cond" -> LET c == Meaning(x[2], a)
                              r == Meaning(IF c.v # 0 THEN x[3] ELSE x[4], c.a) IN [r EXCEPT !.bad = @ \/ c.bad]
      [] x[1] = "set" -> LET r == Meaning(x[4], a)
                             v == IF x[3] = "=" THEN r.v ELSE Wrap(Exact(AssignOps[x[3]], r.a, r.v)) IN Ev(v, v, r.bad)
      [] x[1] = "comma" -> LET l == Meaning(x[2], a)
                               r == Meaning(x[3], l.a) IN [r EXCEPT !.bad = @ \/ l.bad]
(* How many constructs are inside one another.                                *)
Nested(x) == CASE x[1] \in {"num", "var", "post"} -> 1 [] x[1] \in {"neg", "lnot"} -> 1 + Nested(x[2])
               [] x[1] \in {"bin", "set"} -> 1 + Max({Nested(x[i]) : i \in (IF x[1] = "bin" THEN {3, 4} ELSE {4})})
               [] OTHER -> 1 + Max({Nested(x[i]) : i \in 2..Len(x)})
(* Operands that && || and ?: may skip are evaluated all the same.            *)
Pure(x)   == CASE x[1] \in {"num", "var"} -> TRUE [] x[1] \in {"neg", "lnot"} -> Pure(x[2])
               [] x[1] = "bin" -> x[2] \notin {"/", "%"} /\ Pure(x[3]) /\ Pure(x[4]) [] x[1] = "cond" -> Pure(x[2]) /\ Pure(x[3]) /\ Pure(x[4]) [] OTHER -> FALSE
Around(x, y) ==         \* the expressions that x becomes with y beside it
    {<<"bin", o, x, y>> : o \in {o \in BinOps : o \in {"&&", "||"} => Pure(y)}} \cup {<<"bin", o, y, x>> : o \in {o \in BinOps : o \in {"&&", "||"} => Pure(x)}}
    \cup {<<"comma", x, y>>} \cup (IF Pure(y) THEN {<<"cond", x, y, <<"num", 1>>>>} ELSE {}) \cup (IF Pure(x) THEN {<<"cond", y, x, <<"num", 1>>>>} ELSE {})

(* $(( )) gives the value, and leaves the variables, that the expression's    *)
(* tree has with the usual precedence and integers that wrap around; an error *)
(* is recorded only for a division by zero or for nesting beyond the limit.   *)
ArithmeticFaithful ==
    kind = "arith" =>
        LET r == Shell("arith", <<Means("expr", <<tree>>), Shell("set", <<st, <<"a">>, IntText(2 - Half)>>)>>)
            m == Means("arith", <<tree, 2 - Half>>)
        IN  IF ~r.st.arith THEN r.v = m.v /\ get_var(r.st, <<"a">>) = <<IntText(m.a)>> /\ ~m.bad
            ELSE m.bad \/ 3 * (Nested(tree) + 1) > MAX_ARITH_DEPTH

-----------------------------------------------------------------------------
(* Parameters.  v is "ab" or "aab", c is empty, d is unset.                   *)

Vars0 == set_var(set_var(Fresh(<< >>), <<"v">>, <<"a", "a", "b">>), <<"c">>, << >>)
RECURSIVE TextOfParam(_)
TextOfParam(x) ==
    CASE x[1] = "text" -> x[2]
      [] x[1] = "op" -> <<"$", "{">> \o x[2] \o x[3] \o TextOfParam(x[4]) \o <<"}">>
      [] x[1] = "len" -> <<"$", "{", "#">> \o x[2] \o <<"}">>
      [] x[1] = "sub" -> <<"$", "{">> \o x[2] \o <<":", " ">> \o IntText(x[3]) \o <<":">> \o IntText(x[4]) \o <<"}">>
      [] x[1] = "rep" -> <<"$", "{">> \o x[2] \o <<"/">> \o (IF x[3] THEN <<"/">> ELSE << >>) \o x[4] \o <<"/", "x", "}">>
      [] x[1] = "strip" -> <<"$", "{">> \o x[2] \o x[3] \o TextOfGlob(x[4]) \o <<"}">>
Assigns == {<<"-">>, <<":", "-">>, <<"=">>, <<":", "=">>}
Simple  == {<<"text", <<"b">>>>, <<"len", <<"v">>>>, <<"len", <<"d">>>>}
           \cup {<<"sub", n, o, k>> : n \in {<<"v">>, <<"c">>, <<"d">>}, o \in -4..4, k \in -3..4}
           \cup {<<"rep", <<"v">>, all, p>> : all \in BOOLEAN, p \in {<<"a">>, <<"a", "b">>, <<"b", "a">>, <<"?">>}}
           \cup {<<"strip", n, o, g>> : n \in {<<"v">>, <<"c">>, <<"d">>}, o \in {<<"#">>, <<"#", "#">>, <<"%">>, <<"%", "%">>},
                                        g \in {<<<<"star">>>>, <<<<"one", "a">>>>, <<<<"star">>, <<"one", "a">>>>, <<<<"any">>, <<"star">>>>, <<<<"one", "b">>>>}}
Value(s, n) == get_var(s, n)
LongOrShort(S, long) == IF long THEN Max(S) ELSE Min(S)
RECURSIVE Replaced(_, _, _)
(* The occurrences of p in t, from the left, that do not overlap.             *)
Replaced(t, p, all) ==
    IF t = << >> THEN << >>
    ELSE IF Len(p) <= Len(t) /\ \A i \in 1..Len(p) : p[i] \in {"?", t[i]} THEN <<"x">> \o (IF all THEN Replaced(From(t, Len(p) + 1), p, all) ELSE From(t, Len(p) + 1))
    ELSE <<t[1]>> \o Replaced(Tail(t), p, all)
Stripped(t, o, g) ==
    LET long == Len(o) = 2
        pre  == {k \in Lengths(t) : Matches(g, UpTo(t, k))}
        suf  == {k \in Lengths(t) : Matches(g, From(t, Len(t) - k + 1))}
    IN  IF o[1] = "#" THEN IF pre = {} THEN t ELSE From(t, LongOrShort(pre, long) + 1)
        ELSE IF suf = {} THEN t ELSE UpTo(t, Len(t) - LongOrShort(suf, long))
(* The characters from o (from the end if negative) on: k of them, or up to   *)
(* the k-th from the end.                                                     *)
Cut(t, o, k) ==
    LET from == IF o < 0 THEN Len(t) + o ELSE o
        to   == IF k < 0 THEN Len(t) + k ELSE from + k
        is   == SelectSeq([i \in 1..Len(t) |-> i], LAMBDA i : from >= 0 /\ from < i /\ i <= to)
    IN  [i \in 1..Len(is) |-> t[is[i]]]
RECURSIVE ParamMeaning(_, _)
ParamMeaning(x, s) ==
    CASE x[1] = "text" -> Done(x[2], s)
      [] x[1] = "len" -> Done(IntText(Len(OrEmpty(Value(s, x[2])))), s)
      [] x[1] = "sub" -> Done(Cut(OrEmpty(Value(s, x[2])), x[3], x[4]), s)
      [] x[1] = "rep" -> Done(Replaced(OrEmpty(Value(s, x[2])), x[4], x[3]), s)
      [] x[1] = "strip" -> Done(Stripped(OrEmpty(Value(s, x[2])), x[3], x[4]), s)
      [] x[1] = "op" -> LET has == Value(s, x[2]) # << >> /\ (x[3][1] = ":" => Value(s, x[2]) # <<<< >>>>)
                            w   == ParamMeaning(x[4], s)
                        IN  IF has THEN Done(OrEmpty(Value(s, x[2])), s)
                            ELSE IF Last(x[3]) = "=" THEN Done(w[1], set_var(w[2], x[2], w[1])) ELSE w
(* Whatever stands before the first colon is taken for the name of a          *)
(* substring: none is nested in ${v-...} or ${v=...} here.                    *)
RECURSIVE BareColon(_)
BareColon(x) == x[1] = "sub" \/ (x[1] = "op" /\ Len(x[3]) = 1 /\ BareColon(x[4]))
RECURSIVE ParamDepth(_)
ParamDepth(x) == IF x[1] = "op" THEN 1 + ParamDepth(x[4]) ELSE IF x[1] = "text" THEN 0 ELSE 1

(* An expansion nested in the word of another gives what its parts give, is   *)
(* only made (and only assigns) when its word is needed, and what is removed, *)
(* cut or replaced is the longest, the shortest or the first as the operator  *)
(* says.  (Beyond the depth limit the word is left as it was written.)        *)
ParametersFaithful ==
    kind = "param" /\ tree[1] # "text" =>
        (2 * ParamDepth(tree) - 1 <= MAX_EXPAND_DEPTH => Shell("param", <<TextOfParam(tree), st>>) = Means("param", <<tree, st>>))

-----------------------------------------------------------------------------
(* Braces: a sequence of texts, lists of words, and ranges.                   *)

BracePieces == {<<"t", <<"a">>>>, <<"alts", <<<<<<"t", <<"b">>>>>>, << >>>>>>, <<"alts", <<<<<<"t", <<"b">>>>>>, <<<<"t", <<"c">>>>>>, <<<<"t", <<"d">>>>>>>>>>,
                <<"range", <<"1">>, <<"3">>, << >>, <<<<"1">>, <<"2">>, <<"3">>>>>>, <<"range", <<"1">>, <<"-", "1">>, << >>, <<<<"1">>, <<"0">>, <<"-", "1">>>>>>,
                <<"range", <<"0", "8">>, <<"1", "2">>, <<"3">>, <<<<"0", "8">>, <<"1", "1">>>>>>, <<"range", <<"5">>, <<"0">>, <<"-", "3">>, <<<<"5">>, <<"2">>>>>>}
RECURSIVE TextOfBraces(_), Products(_)
TextOfBraces(w) ==
    FlattenSeq([i \in 1..Len(w) |->
        CASE w[i][1] = "t" -> w[i][2]
          [] w[i][1] = "alts" -> <<"{">> \o Join([k \in 1..Len(w[i][2]) |-> TextOfBraces(w[i][2][k])], <<",">>) \o <<"}">>
          [] w[i][1] = "range" -> <<"{">> \o w[i][2] \o <<".", ".">> \o w[i][3] \o (IF w[i][4] = << >> THEN << >> ELSE <<".", ".">> \o w[i][4]) \o <<"}">>])
Products(w) ==
    IF w = << >> THEN <<<< >>>>
    ELSE LET here == CASE w[1][1] = "t" -> <<w[1][2]>> [] w[1][1] = "range" -> w[1][5] [] OTHER -> FlattenSeq([k \in 1..Len(w[1][2]) |-> Products(w[1][2][k])])
             rest == Products(Tail(w))
         IN  FlattenSeq([i \in 1..Len(here) |-> [j \in 1..Len(rest) |-> here[i] \o rest[j]]])

(* Braces yield every combination once, the first brace varying slowest, and  *)
(* at the limit the first MAX_BRACE_ITEMS of them.                            *)
BracesFaithful ==
    kind = "brace" => LET all == Means("brace", <<tree>>) IN Shell("brace", <<TextOfBraces(tree)>>) = UpTo(all, Min({Len(all), MAX_BRACE_ITEMS}))

-----------------------------------------------------------------------------
(* Words of a command.                                                        *)

All     == <<"param", <<"@">>>>
AllOfA  == <<"param", <<"a", "[", "@", "]">>>>
WordParts == {<<"lit", <<"a">>>>, <<"lit", <<"*">>>>, <<"lit", <<"d", "/">>>>, <<"sq", <<"*">>>>, <<"sq", << >>>>, <<"param", <<"v">>>>, <<"param", <<"b">>>>, <<"dq", <<<<"param", <<"v">>>>>>>>,
              All, AllOfA, <<"dq", <<All>>>>, <<"dq", <<<<"lit", <<"b">>>>, AllOfA, <<"lit", <<"b">>>>>>>>}
Opts == [dotglob |-> FALSE, nullglob |-> FALSE, extglob |-> FALSE, noglob |-> FALSE, globstar |-> FALSE]
Positional == {<< >>, <<<< >>>>, <<<<"a">>, <<"*">>>>}
WordVars(pos) == assign_indexed_array(set_var(set_var(Fresh(pos), <<"v">>, <<"*">>), <<"b">>, <<"a", " ", "b">>), <<"a">>, <<<<"a", "*">>, <<"b">>>>)
(* A field is a sequence of <<character, whether it is quoted>>.              *)
Mark(t, q) == [i \in 1..Len(t) |-> <<t[i], q>>]
RECURSIVE Pieces(_, _, _, _)
(* What each part contributes: a sequence of fields, of which the first joins *)
(* what stands before the part and the last what follows.  In a list, what is *)
(* not quoted is split at blanks.                                             *)
Pieces(w, s, q, list) ==
    LET put(ts) == [k \in 1..Len(ts) |-> Mark(ts[k], q)]
        cut(ts) == put(IF list /\ ~q THEN FlattenSeq([k \in 1..Len(ts) |-> SelectSeq(SplitBlanks(ts[k]), LAMBDA p : p # << >>)]) ELSE ts)
    IN  FlattenSeq([i \in 1..Len(w) |->
            CASE w[i][1] = "lit" -> <<put(<<w[i][2]>>)>>
              [] w[i][1] = "sq" -> <<<<Mark(w[i][2], TRUE)>>>>
              [] w[i][1] = "dq" -> Pieces(w[i][2], s, TRUE, list)
              [] w[i] = All -> <<cut(s.pos)>>
              [] w[i] = AllOfA -> <<cut(get_array_values(s, <<"a">>))>>
              [] OTHER -> <<cut(get_var(s, w[i][2]))>>])
Joined(ps) == FoldLeft(LAMBDA acc, p : IF p = << >> THEN acc ELSE Front(acc) \o <<Last(acc) \o p[1]>> \o Tail(p), <<<< >>>>, ps)
Chars1(f)  == [i \in 1..Len(f) |-> f[i][1]]
GlobOf(f)  == [i \in 1..Len(f) |-> IF f[i] = <<"*", FALSE>> THEN <<"star">> ELSE <<"one", f[i][1]>>]
Hidden(n)  == n[1] = "."
PathsOf(f) ==
    LET ds == {d \in DOMAIN MCListing : IsPrefix(d, Chars1(f)) /\ ~Holds(From(Chars1(f), Len(d) + 1), {"/"}) /\ \A i \in 1..Len(d) : f[i][1] = d[i]}
        ns == UNION {{d \o n : n \in {m \in MCListing[d] : Matches(GlobOf(From(f, Len(d) + 1)), m) /\ ~Hidden(m)}} : d \in ds}
    IN  IF <<"*", FALSE>> \notin ToSet(f) \/ ns = {} THEN <<Chars1(f)>> ELSE SortTexts(ns)

NoText(ps) == \A i \in 1..Len(ps) : ps[i] \in {<< >>, <<<< >>>>}
QuotedPart(w) == \E i \in 1..Len(w) : w[i][1] \in {"sq", "dq"}
Paths(fs)  == FlattenSeq([i \in 1..Len(fs) |-> PathsOf(fs[i])])
(* The words of a command: "$@" and "${a[@]}" give one argument per element,  *)
(* joined at the ends with what is beside them and none for no element; an    *)
(* unquoted * is replaced by the names it matches, in order; a quoted one     *)
(* matches only itself, next to an unquoted one too.  At the limit the first  *)
(* arguments are kept.                                                        *)
Arguments(w, s) ==
    LET ps  == Pieces(w, s, FALSE, FALSE)
        all == IF NoText(ps) /\ (\E i \in 1..Len(ps) : ps[i] = << >>) THEN << >> ELSE Paths(Joined(ps))
    IN  UpTo(all, Min({Len(all), MAX_GLOB_RESULTS}))
(* Without quotes a value with blanks would be split and an empty one dropped;*)
(* the code keeps both whole, and such words are left out.                    *)
ToSplit(w, s) ==
    \E i \in 1..Len(w) : /\ w[i][1] = "param"
                         /\ \E k \in 1..Len(Pieces(<<w[i]>>, s, FALSE, FALSE)[1]) :
                               LET t == Chars1(Pieces(<<w[i]>>, s, FALSE, FALSE)[1][k]) IN t = << >> \/ Holds(t, {" "})
ArgumentsRight == ToSplit(tree, st) \/ Shell("argv", <<tree, st>>) = Means("argv", <<tree, st>>)
(* The list of a for loop splits what is not quoted.  Left out are quoted     *)
(* stars, which the code does not protect there, and a word that is only "$@" *)
(* for no element, which it makes an empty field.                             *)
ListFields(w, s) == LET ps == Pieces(w, s, FALSE, TRUE) IN Joined(ps)
QuotedStar(fs)   == \E i \in 1..Len(fs) : <<"*", TRUE>> \in ToSet(fs[i])
NoElement(w, s, fs) == s.pos = << >> /\ <<"dq", <<All>>>> \in ToSet(w) /\ fs = <<<< >>>>
ListRight ==
    LET fs == Means("list", <<tree, st>>)
    IN  \/ QuotedStar(fs) \/ NoElement(tree, st, fs)
        \/ Shell("for", <<tree, st>>) = IF fs = <<<< >>>> /\ ~QuotedPart(tree) THEN << >> ELSE Means("paths", <<fs>>)
RECURSIVE Below(_), Segments(_, _)
(* The paths of the tree as sequences of names.                               *)
Below(d) == UNION {{<<n>>} \cup (IF d \o n \o <<"/">> \in DOMAIN MCListing THEN {<<n>> \o p : p \in Below(d \o n \o <<"/">>)} ELSE {}) : n \in {m \in MCListing[d] : ~Hidden(m)}}
Segments(g, p) ==
    IF g = << >> THEN p = << >>
    ELSE IF g[1] = <<"*", "*">> THEN Len(g) > 1 /\ \E k \in Lengths(p) : Segments(Tail(g), From(p, k + 1))
    ELSE p # << >> /\ Matches([i \in 1..Len(g[1]) |-> IF g[1][i] = "*" THEN <<"star">> ELSE <<"one", g[1][i]>>], p[1]) /\ Segments(Tail(g), Tail(p))
Deep(g) == SortTexts({Join(p, <<"/">>) : p \in {x \in Below(<< >>) : Segments(g, x)}})
(* ** finds the paths below in which it stands for any number of directories. *)
PathsRight ==
    LET t  == Join(tree, <<"/">>)
        ms == Means("globstar", <<tree>>)
    IN  <<"*", "*">> \in ToSet(tree) => Shell("globstar", <<t>>) = IF ms = << >> THEN <<t>> ELSE ms
WordsFaithful == (kind = "word" /\ tree # << >> => ArgumentsRight /\ ListRight) /\ (kind = "path" /\ tree # << >> => PathsRight)

(* What ${...}, $((...)), {...}, quotes and globs make of the words of a      *)
(* command.                                                                   *)
ExpansionsFaithful == ParametersFaithful /\ BracesFaithful /\ WordsFaithful /\ ArithmeticFaithful

-----------------------------------------------------------------------------
(* Builtins.                                                                  *)

(* Options: <<letter, what OPTARG is>> for each option of the words, taken    *)
(* whole one after the other, and the place of the first operand.             *)
Specs == {<<"a", "b", ":">>, <<":", "a", "b", ":">>}
OptionWords == {<<"-", "a">>, <<"-", "b">>, <<"-", "a", "b">>, <<"-", "b", "a">>, <<"-", "x", "a">>, <<"-", "-">>, <<"-">>, <<"c">>, << >>}
Complaint(spec, mark, c) == IF spec[1] = ":" THEN <<<<mark>>, <<<<c>>>>>> ELSE <<<<"?">>, << >>>>
RECURSIVE Cluster(_, _, _, _), Options(_, _, _)
Cluster(spec, ls, ws, i) ==
    CASE ls = << >> -> Options(spec, ws, i)
      [] ls # << >> /\ ls[1] = "a" -> <<<<<<"a">>, << >>>>>> \o Cluster(spec, Tail(ls), ws, i)
      [] ls # << >> /\ ls[1] = "x" -> <<Complaint(spec, "?", "x")>> \o Cluster(spec, Tail(ls), ws, i)
      [] ls # << >> /\ ls[1] = "b" /\ Len(ls) > 1 -> <<<<<<"b">>, <<Tail(ls)>>>>>> \o Options(spec, ws, i)
      [] ls = <<"b">> /\ i <= Len(ws) -> <<<<<<"b">>, <<ws[i]>>>>>> \o Options(spec, ws, i + 1)
      [] OTHER -> <<Complaint(spec, ":", "b")>> \o Options(spec, ws, i)
Options(spec, ws, i) ==
    IF i > Len(ws) \/ ws[i] \in {<< >>, <<"-">>, <<"c">>} THEN <<i>>
    ELSE IF ws[i] = <<"-", "-">> THEN <<i + 1>>
    ELSE Cluster(spec, Tail(ws[i]), ws, i + 1)
(* However the options are bundled and their arguments attached, successive   *)
(* calls of getopts give them one by one, in order, and stop at the first     *)
(* operand; after OPTIND=1, at the end or past the first word, they do so     *)
(* again.                                                                     *)
OptionsFaithful ==
    kind = "opts" =>
        LET ref == Means("opts", <<tree.spec, tree.words>>)
        IN  /\ IsPrefix(tree.got, Front(ref))
            /\ tree.over => tree.got = Front(ref) /\ Shell("get", <<st, OPTIND>>) = <<IntText(Last(ref))>>

(* Input.  What one read has to take of a text, and whether the delimiter     *)
(* comes next.                                                                *)
Inputs == Texts({"a", " ", "\n", ":"}, 3) \cup {<<"a", "\\", "a", "\n", "\\", "a">>, <<"a", " ", "b", " ", ":", "c">>, <<"a", "\n", "b", " ", "\n">>}
X == <<"x">>
Y == <<"y">>
Reads == {<<<<"-", "r">>, X, Y>>, <<X, Y>>, <<<<"-", "r">>, <<"-", "n">>, <<"2">>, X>>, <<<<"-", "r">>, <<"-", "N">>, <<"2">>, X>>,
          <<<<"-", "a">>, X>>, <<<<"-", "d">>, <<":">>, <<"-", "r">>, X>>}
Wanted(argv) == Shell("readopts", <<argv>>)
Takes(o, t) ==
    LET d == Min({Len(t) + 1} \cup {i \in 1..Len(t) : t[i] = o.delimiter})
    IN  IF o.exact # << >> THEN Min({o.exact[1], Len(t)}) ELSE IF o.nchars # << >> THEN Min({o.nchars[1], d - 1}) ELSE d - 1
Delimited(o, t) == o.exact = << >> /\ Takes(o, t) < Len(t) /\ t[Takes(o, t) + 1] = o.delimiter
Complete(o, t)  == Delimited(o, t) \/ (o.exact \o o.nchars # << >> /\ Takes(o, t) = (o.exact \o o.nchars)[1])
(* A text is blanks, x, a separator, y and blanks.                            *)
Only(t, cs) == ToSet(t) \subseteq cs
(* Blanks stand before what the last of n variables is to get: the code keeps *)
(* them, and such records are left out.                                       *)
BlankBeforeLast(t, n, b, s) ==
    IF n = 1 THEN t # << >> /\ t[1] \in b /\ ~Only(t, b)
    ELSE \E i \in 1..Len(t) - 1 : t[i] \in s \ b /\ t[i + 1] \in b
TwoFields(t, x, y, b, s) ==
    \E i \in Lengths(t), j \in Lengths(t), k \in Lengths(t) :
        LET sep == SubSeq(t, j + 1, k)
        IN  /\ i <= j /\ j <= k /\ x = SubSeq(t, i + 1, j) /\ IsPrefix(y, From(t, k + 1))
            /\ Only(UpTo(t, i), b) /\ (i < Len(t) => t[i + 1] \notin b)
            /\ ToSet(x) \cap s = {} /\ (j < Len(t) => t[j + 1] \in s)
            /\ IF Only(sep, b) THEN k < Len(t) => t[k + 1] \notin s ELSE Only(Front(sep), b) /\ Last(sep) \in s \ b
            /\ Only(From(t, k + 1 + Len(y)), b) /\ (y # << >> => Last(y) \notin b)
Fields(t, vs, s) ==
    IF s = {} THEN vs = <<t>>
    ELSE /\ FlattenSeq(vs) = SelectSeq(t, LAMBDA c : c \notin s) /\ << >> \notin ToSet(vs)
         /\ Len(vs) = Cardinality({i \in 1..Len(t) : t[i] \notin s /\ (i = 1 \/ t[i - 1] \in s)})
(* Successive reads of one input take one record each, from where the last    *)
(* one stopped, whatever other builtins run in between, and put its fields    *)
(* into the variables; status 0 says that the record was complete.            *)
RecordsFaithful ==
    (kind = "input" /\ tree.code # -1) =>
        LET o == Wanted(tree.argv)
            s == ToSet(tree.ifs)
            b == s \ {":"}
            line == IF o.raw THEN tree.line ELSE SelectSeq(tree.line, LAMBDA c : c # "\\")
            x == Shell("get", <<st, X>>)[1]
        IN  /\ Shell("pending", <<st, tree.in>>) = IF tree.in = << >> /\ tree.rest = << >> THEN << >> ELSE <<tree.rest>>
            /\ (tree.code = 0) = tree.complete
            /\ tree.some => CASE o.array # << >> -> Fields(line, Shell("elements", <<st, X>>), s)
                              [] BlankBeforeLast(line, Len(o.names), b, s) -> TRUE
                              [] Len(o.names) = 2 -> TwoFields(line, x, Shell("get", <<st, Y>>)[1], b, s)
                              [] OTHER -> IsPrefix(x, line) /\ Only(From(line, Len(x) + 1), b) /\ (x # << >> => Last(x) \notin b)

(* Formats: a conversion is <<"conv", letter, left, zeros, width, precision>>.*)
FormatItems == {<<"lit", <<"a">>>>, <<"pct">>, <<"nl">>, <<"conv", "s", FALSE, FALSE, 0, << >>>>, <<"conv", "s", TRUE, FALSE, 3, << >>>>,
                <<"conv", "s", FALSE, FALSE, 3, <<1>>>>, <<"conv", "d", FALSE, TRUE, 2, << >>>>, <<"conv", "b", FALSE, FALSE, 0, << >>>>, <<"conv", "c", TRUE, FALSE, 2, << >>>>}
FormatArgs  == {<<"a", "b">>, << >>, <<"7">>, <<"a", "\\", "n", "'">>}
TextOfFormat(x) ==
    CASE x[1] = "lit" -> x[2] [] x[1] = "pct" -> <<"%", "%">> [] x[1] = "nl" -> <<"\\", "n">>
      [] OTHER -> <<"%">> \o (IF x[3] THEN <<"-">> ELSE << >>) \o (IF x[4] THEN <<"0">> ELSE << >>) \o (IF x[5] = 0 THEN << >> ELSE IntText(x[5]))
                  \o (IF x[6] = << >> THEN << >> ELSE <<".">> \o IntText(x[6][1])) \o <<x[2]>>
Shown(x, a) ==
    CASE x[2] = "d" -> IF a = <<"7">> THEN a ELSE <<"0">>
      [] x[2] = "c" -> UpTo(a, Min({1, Len(a)}))
      [] x[2] = "b" -> IF Len(a) = 4 THEN <<"a", "\n", "'">> ELSE a
      [] OTHER -> IF x[6] = << >> THEN a ELSE UpTo(a, Min({x[6][1], Len(a)}))
Fill(x, a) == [i \in 1..Max({0, x[5] - Len(a)}) |-> IF x[4] THEN "0" ELSE " "]
Convs(fs)  == {i \in 1..Len(fs) : fs[i][1] = "conv"}
(* What the i-th item shows in the r-th round.                                *)
ItemShows(fs, args, r, i) ==
    LET n == (r - 1) * Cardinality(Convs(fs)) + Cardinality(Convs(UpTo(fs, i)))
        a == Shown(fs[i], IF n <= Len(args) THEN args[n] ELSE << >>)
    IN  CASE fs[i][1] = "lit" -> fs[i][2] [] fs[i][1] = "pct" -> <<"%">> [] fs[i][1] = "nl" -> <<"\n">>
          [] OTHER -> IF fs[i][3] THEN a \o Fill(fs[i], a) ELSE Fill(fs[i], a) \o a
Rounds(fs, args) == LET k == Cardinality(Convs(fs)) IN IF k = 0 \/ args = << >> THEN 1 ELSE (Len(args) + k - 1) \div k
AllShown(fs, args) == FlattenSeq([r \in 1..Rounds(fs, args) |-> FlattenSeq([i \in 1..Len(fs) |-> ItemShows(fs, args, r, i)])])
(* printf goes through its format once for every argument it can hold, each   *)
(* argument is shown once, in order, and missing ones are empty or 0.         *)
FormatsFaithful ==
    (kind = "format" /\ tree.items # << >>) =>
        LET f == FlattenSeq([i \in 1..Len(tree.items) |-> TextOfFormat(tree.items[i])])
        IN  Shell("printf", <<<<f>> \o tree.args>>) = <<Means("format", <<tree.items, tree.args>>)>>

(* What the builtins that take words, input and arguments piece by piece make *)
(* of them (builtin_getopts, builtin_read, builtin_printf).                   *)
BuiltinsFaithful == OptionsFaithful /\ RecordsFaithful /\ FormatsFaithful

-----------------------------------------------------------------------------
(* What is compared.                                                          *)

(* A command that changes variables.                                          *)
Command(c, s, x) ==
    CASE c = "assign"   -> execute_assignment(s, x[1], x[2], x[3], x[4])
      [] c = "readonly" -> builtin_readonly(s, x[1], x[2]).st
      [] c = "unset"    -> builtin_unset(s, x[1], x[2]).st
      [] c = "declare"  -> declare_one_name(s, x[1], x[2], x[3])
      [] c = "export"   -> builtin_export(s, x[1], x[2], x[3]).st
      [] c = "read"     -> builtin_read(s, x[1], x[2]).st
      [] c = "arith"    -> eval_arithmetic(x[1], s).st
      [] c = "param"    -> expand_parameter(x[1], s, 1)[2]
      [] c = "push"     -> push_scope(s)
      [] c = "pop"      -> pop_scope(s)
ShellDoes(what, x) ==
    LET first == x[1]
    IN  CASE what = "command"  -> Command(first, x[2], x[3])
          [] what = "extglob"  -> glob_match_ext(first, x[2], FALSE, TRUE)
          [] what = "strip"    -> simple_glob_match(first, x[2])
          [] what = "glob"     -> glob_match_inner(first, x[2])
          [] what = "regex"    -> regex_match_with_captures(first, x[2])
          [] what = "[["       -> eval_double_bracket(first, x[2], x[3])
          [] what = "test"     -> builtin_test(first, FALSE)
          [] what = "arith"    -> eval_arithmetic(first, x[2])
          [] what = "set"      -> set_var(first, x[2], x[3])
          [] what = "get"      -> get_var(first, x[2])
          [] what = "elements" -> get_array_values(first, x[2])
          [] what = "pending"  -> read_input(first, x[2])
          [] what = "param"    -> expand_parameter(SubSeq(first, 3, Len(first) - 1), x[2], 1)
          [] what = "brace"    -> expand_braces(first)
          [] what = "argv"     -> execute_exec_argv(first, x[2], Opts)[1]
          [] what = "for"      -> expand_for_words(first, x[2], Opts)[1]
          [] what = "globstar" -> expand_glob_arg(first, [Opts EXCEPT !.globstar = TRUE])
          [] what = "getopts"  -> builtin_getopts(first, x[2])
          [] what = "readopts" -> parse_read_opts(first, ReadDefaults)
          [] what = "read"     -> builtin_read(first, x[2], x[3])
          [] what = "remainder" -> install_read_remainder(first)
          [] what = "printf"   -> builtin_printf(first)
TreeMeans(what, x) ==
    LET tr == x[1]
    IN  CASE what = "glob"   -> Matches(tr, x[2])
          [] what = "regex"  -> Ways(tr, x[2])
          [] what = "expr"   -> TextOfExpr(tr, 0)
          [] what = "arith"  -> Meaning(tr, x[2])
          [] what = "param"  -> ParamMeaning(tr, x[2])
          [] what = "brace"  -> Products(tr)
          [] what = "argv"   -> Arguments(tr, x[2])
          [] what = "list"   -> ListFields(tr, x[2])
          [] what = "paths"  -> Paths(tr)
          [] what = "globstar" -> Deep(tr)
          [] what = "opts"   -> Options(tr, x[2], 1)
          [] what = "format" -> AllShown(tr, x[2])

-----------------------------------------------------------------------------
(* Building.                                                                  *)

Init == /\ kind \in Kinds /\ size = 0
        /\ \/ kind \in {"glob", "brace", "path"} /\ tree = << >> /\ st = Vars0
           \/ kind = "word" /\ tree = << >> /\ st \in {WordVars(pos) : pos \in Positional}
           \/ kind = "regex" /\ tree \in {RxTree(a, b, << >>) : a \in BOOLEAN, b \in BOOLEAN} /\ st = Vars0
           \/ kind = "cond" /\ tree \in CondAtoms \cup {Rx(<<"a", "(", "b", ")">>), Rx(<<"x">>)} /\ st = Vars0
           \/ kind = "arith" /\ tree \in ArithAtoms /\ st = Vars0
           \/ kind = "param" /\ tree \in Simple /\ st = Vars0
           \/ kind = "opts" /\ tree \in {[spec |-> s, words |-> << >>, got |-> << >>, over |-> FALSE, rounds |-> 2] : s \in Specs} /\ st = Fresh(<< >>)
           \/ kind = "input" /\ \E i \in {<<" ", "\n">>, <<" ", ":">>, << >>} :
                /\ st = set_var(Fresh(<< >>), <<"IFS">>, i)
                /\ tree \in {[ifs |-> i, argv |-> a, in |-> <<t>>, line |-> << >>, rest |-> t, code |-> -1, complete |-> FALSE, some |-> FALSE] : a \in Reads, t \in Inputs}
           \/ kind = "format" /\ tree = [items |-> << >>, args |-> << >>] /\ st = Vars0
           \/ kind = "vars" /\ tree = << >> /\ st = Fresh(<< >>)
Grow(t) == size < MaxSize /\ tree' = t /\ size' = size + 1 /\ UNCHANGED <<kind, st>>
GrowGlob  == kind = "glob" /\ \E x \in GlobItems : GlobAllowed(Append(tree, x)) /\ Grow(Append(tree, x))
GrowRegex == kind = "regex" /\ \E x \in RxItems : Grow([tree EXCEPT !.items = Append(@, x)])
GrowCond  == kind = "cond" /\ \E t \in {<<"not", tree>>} \cup {<<o, tree, x>> : o \in {"and", "or"}, x \in Beside} \cup {<<o, x, tree>> : o \in {"and", "or"}, x \in Beside} :
                CondAllowed(t, 1) /\ Grow(t)
GrowArith == kind = "arith" /\ size < 2 /\ \E t \in UNION {Around(tree, y) : y \in ArithAtoms} \cup {<<"neg", tree>>, <<"lnot", tree>>} \cup {<<"set", <<"a">>, o, tree>> : o \in {"=", "-=", "<<="}} : Grow(t)
GrowParam == kind = "param" /\ \E n \in {<<"v">>, <<"c">>, <<"d">>} : \E o \in Assigns : (BareColon(tree) => Len(o) = 2 /\ tree[3] \in {-1, 1}) /\ Grow(<<"op", n, o, tree>>)
GrowBrace == kind = "brace" /\ \/ \E x \in BracePieces : Grow(Append(tree, x))
                               \/ tree # << >> /\ Grow(<<<<"alts", <<tree, <<<<"t", <<"x">>>>>>>>>>>>)
GrowPath  == kind = "path" /\ \E x \in {<<"*", "*">>, <<"*">>, <<"a">>, <<"d">>, <<"b", "*">>} : Grow(Append(tree, x))
GrowWord  == kind = "word" /\ \E x \in WordParts : Grow(Append(tree, x))

GrowFormat == kind = "format" /\ \/ Len(tree.items) < 2 /\ tree.args = << >> /\ \E x \in FormatItems : Grow([tree EXCEPT !.items = Append(@, x)])
                                 \/ tree.items # << >> /\ \E a \in FormatArgs : Grow([tree EXCEPT !.args = Append(@, a)])
GrowOptions == kind = "opts" /\ tree.got = << >> /\ ~tree.over /\ tree.rounds = 2 /\ \E w \in OptionWords : Grow([tree EXCEPT !.words = Append(@, w)])
(* One call of getopts, and a new round.                                      *)
GetOption ==
    /\ kind = "opts" /\ ~tree.over
    /\ LET r == Shell("getopts", <<st, <<tree.spec, <<"o">>>> \o tree.words>>)
       IN  /\ st' = r.st
           /\ tree' = IF r.code = 1 THEN [tree EXCEPT !.over = TRUE]
                      ELSE [tree EXCEPT !.got = Append(@, <<Shell("get", <<r.st, <<"o">>>>)[1], Shell("get", <<r.st, OPTARG>>)>>)]
    /\ tree.words # << >> /\ UNCHANGED <<kind, size>>
(* OPTIND is 1 yet and options of the first word were given: getopts cannot   *)
(* tell that it is set to 1 again, and goes on; a rewind there is left out.   *)
InFirstCluster == tree.got # << >> /\ Shell("get", <<st, OPTIND>>) \in {<< >>, <<<<"1">>>>}
Rewind ==
    /\ kind = "opts" /\ tree.rounds > 1 /\ ~InFirstCluster
    /\ st' = Shell("set", <<st, OPTIND, <<"1">>>>) /\ tree' = [tree EXCEPT !.got = << >>, !.over = FALSE, !.rounds = @ - 1]
    /\ UNCHANGED <<kind, size>>
(* The delimiter comes right behind the last character -n takes: the code     *)
(* drops it, and such a read is left out.                                     *)
DelimiterBehind(o, t) == o.nchars # << >> /\ Delimited(o, t) /\ Takes(o, t) = o.nchars[1]
(* One read, and a builtin between two of them that takes the input away.     *)
ReadRecord ==
    /\ kind = "input" /\ size < MaxSize
    /\ LET o == Wanted(tree.argv)
           t == tree.rest
           n == Takes(o, t)
           r == Shell("read", <<st, tree.in, tree.argv>>)
           s == tree.in # << >> \/ t # << >>
       IN  /\ ~DelimiterBehind(o, t)
           /\ st' = r.st
           /\ tree' = [tree EXCEPT !.in = Shell("remainder", <<r.st>>), !.line = UpTo(t, n), !.rest = From(t, n + (IF Delimited(o, t) THEN 2 ELSE 1)),
                                   !.code = r.code, !.complete = s /\ Complete(o, t), !.some = s]
    /\ size' = size + 1 /\ UNCHANGED kind
OtherBuiltin == kind = "input" /\ tree.code # -1 /\ tree.in # << >> /\ tree' = [tree EXCEPT !.in = << >>, !.some = FALSE] /\ UNCHANGED <<kind, size, st>>

(* The commands that change variables.                                        *)
Does(c, x) == kind = "vars" /\ size < MaxOps /\ st' = Shell("command", <<c, st, x>>) /\ size' = size + 1 /\ UNCHANGED <<kind, tree>>
Names      == {<<"a">>, <<"r">>}
AsWord(t)  == <<<<"lit", t>>>>
Assign     == \E n \in Names, add \in BOOLEAN, t \in {<<"1">>, <<"r">>, <<"(", "a", " ", "b", ")">>, <<"(", "[", "b", "]", "=", "1", ")">>} :
                  Does("assign", <<n, << >>, add, AsWord(t)>>)
AssignElement == \E n \in Names, i \in {<<"0">>, <<"2">>} : Does("assign", <<n, i, FALSE, AsWord(<<"x">>)>>)
MarkReadonly == \E n \in Names, t \in {<< >>, <<<<"9">>>>} : Does("readonly", <<n, t>>)
UnsetVar   == \E n \in Names : Does("unset", <<n, << >>>>)
UnsetElement == \E n \in Names, i \in {<<"0">>, <<"1">>} : Does("unset", <<n, <<i>>>>)
Declare    == \E n \in Names, fs \in {{"x"}, {"i"}, {"r"}, {"a"}, {"A", "r"}}, t \in {<< >>, <<<<"1", "+", "1">>>>} : Does("declare", <<n, fs, t>>)
Refer      == Does("declare", <<<<"a">>, {"n"}, <<<<"r">>>>>>)
Export     == \E n \in Names, t \in {<< >>, <<<<"b">>>>}, c \in BOOLEAN : Does("export", <<c, n, t>>)
ReadInto   == \E n \in Names : Does("read", <<<<<<"b">>>>, <<<<"-", "a">>, n>>>>)
Enter      == Len(st.scopes) < 2 /\ Does("push", << >>)
Leave      == Does("pop", << >>)
Compute    == \E n \in Names : Does("arith", <<n \o <<"+", "=", "1">>>>)
Default    == \E n \in Names : Does("param", <<n \o <<":", "=", "b">>>>)
Next == GrowGlob \/ GrowRegex \/ GrowCond \/ GrowArith \/ GrowParam \/ GrowBrace \/ GrowPath \/ GrowWord
        \/ GrowFormat \/ GrowOptions \/ GetOption \/ Rewind \/ ReadRecord \/ OtherBuiltin \/ Export \/ ReadInto
        \/ Assign \/ MarkReadonly \/ UnsetVar \/ AssignElement \/ UnsetElement \/ Declare \/ Refer \/ Enter \/ Leave \/ Compute \/ Default
Spec == Init /\ [][Next]_vars

(* The two commands that do change a readonly variable: readonly itself gives *)
(* it a new value or makes an array a scalar, and declare -n replaces it.     *)
Remarks(n) == \E t \in {<< >>, <<<<"9">>>>} : st' = Shell("command", <<"readonly", st, <<n, t>>>>)
Refers(n)  == st' = Shell("command", <<"declare", st, <<n, {"n"}, <<<<"r">>>>>>>>)

(* A variable that is readonly keeps its value and stays readonly, whichever  *)
(* command but these two tries to change it, through a reference too, until   *)
(* the scope it was made in ends; readonly changes the value and not the mark.*)
ReadonlyKept ==
    [][\A n \in Names : (Readonly(st, n) /\ Len(st'.scopes) >= Len(st.scopes) /\ ~Refers(n)) =>
           Readonly(st', n) /\ (Get(st', n).v = Get(st, n).v \/ Remarks(n))]_vars

=============================================================================
