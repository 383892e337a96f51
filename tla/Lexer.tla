-------------------------------- MODULE Lexer --------------------------------
(* The lexer (wasmsh-lex) and the word parser (wasmsh-parse, word_parser.rs). *)
(*                                                                            *)
(* A source is a sequence of atoms: a character that means something to the   *)
(* lexer stands for itself, any other atom for a run of ordinary characters   *)
(* (a name, a keyword, a digit).  "hi" and "lo" are the two bytes of one      *)
(* character that is not ASCII.  A scanner returns the position after what it *)
(* consumed; an error is the negated position at which the lexer stays, since *)
(* the parser may ignore the error and go on lexing from there.               *)
EXTENDS Integers, Sequences, SequencesExt, FiniteSets, TLC

CONSTANT MAX_LEX_DEPTH     \* nesting of $( $(( that one word may have

NL     == "\n"
CR     == "\r"
BQ     == "backquote"
Digits == {"1", "2"}
Marks  == {" ", "\t", NL, CR, ";", "&", "|", "<", ">", "(", ")", "'", "\"", "\\", "$", BQ, "{", "}", "#", "=", "?", "*", "+",
           "@", "!", "-", "[", "]", "[[", "]]", ":", "hi", "lo"}
IsName(a)    == a \notin Marks \cup Digits
Special      == {"?", "!", "#", "$", "@", "*", "-"} \cup Digits
WordBreaks   == {" ", "\t", NL, ";", "&", "|", "<", ">", "(", ")"}
Stuck(s, i)  == IF i < 0 THEN i ELSE -(Len(s) + 1)      \* an error met inside, or an end that is missing
At(s, i)     == IF i \in 1..Len(s) THEN s[i] ELSE ""
Rest(s, i)   == SubSeq(s, i, Len(s))
(* The first position from i on that holds one of cs, or 0.                   *)
Seek(s, i, cs) == SelectInSubSeq(s, i, Len(s), LAMBDA c : c \in cs)
(* The first position from i on that holds none of cs.                        *)
Past(s, i, In(_)) == LET j == SelectInSubSeq(s, i, Len(s), LAMBDA c : ~In(c)) IN IF j = 0 THEN Len(s) + 1 ELSE j

-----------------------------------------------------------------------------
(* Scanning inside a word.  lvl is the nesting of substitutions.              *)

SingleQuoted(s, i) == LET j == Seek(s, i + 1, {"'"}) IN IF j = 0 THEN Stuck(s, 0) ELSE j + 1
Backslash(s, i)    == IF i < Len(s) THEN i + 2 ELSE i + 1
RECURSIVE Backtick(_, _)
Backtick(s, i) ==
    CASE At(s, i) = ""   -> Stuck(s, i)
      [] s[i] = BQ      -> i + 1
      [] s[i] = "\\"     -> Backtick(s, Backslash(s, i))
      [] OTHER           -> Backtick(s, i + 1)
Identifier(s, i) == Past(s, i, LAMBDA c : IsName(c) \/ c \in Digits)

RECURSIVE DoubleQuoted(_, _, _), Dollar(_, _, _), CommandSubst(_, _, _, _), Arithmetic(_, _, _, _, _), BraceParam(_, _, _, _)
Quoted(s, i, lvl) ==
    CASE s[i] = "'" -> SingleQuoted(s, i) [] s[i] = "\"" -> DoubleQuoted(s, i + 1, lvl) [] s[i] = "\\" -> Backslash(s, i)
DoubleQuoted(s, i, lvl) ==
    CASE At(s, i) = "" -> Stuck(s, i)
      [] s[i] = "\"" -> i + 1
      [] s[i] = "\\" -> DoubleQuoted(s, Backslash(s, i), lvl)
      [] s[i] = "$"  -> DoubleQuoted(s, Dollar(s, i, lvl), lvl)
      [] s[i] = BQ  -> DoubleQuoted(s, Backtick(s, i + 1), lvl)
      [] OTHER       -> DoubleQuoted(s, i + 1, lvl)
DollarParen(s, i, lvl) ==
    CASE lvl >= MAX_LEX_DEPTH -> -(i + 1)
      [] At(s, i + 1) = "("   -> Arithmetic(s, i + 2, 0, 1, lvl + 1)
      [] OTHER                -> CommandSubst(s, i + 1, 1, lvl + 1)
Dollar(s, i, lvl) ==
    LET c == At(s, i + 1)
    IN  CASE c = ""  -> i + 1
          [] c = "'" -> SingleQuoted(s, i + 1)
          [] c = "(" -> DollarParen(s, i + 1, lvl)
          [] c = "{" -> BraceParam(s, i + 2, 1, lvl)
          [] IsName(c) -> Identifier(s, i + 1)
          [] c \in Special -> i + 2
          [] OTHER -> i + 1
CommandSubst(s, i, depth, lvl) ==
    CASE At(s, i) = "" -> Stuck(s, i)
      [] s[i] = "(" -> CommandSubst(s, i + 1, depth + 1, lvl)
      [] s[i] = ")" -> IF depth = 1 THEN i + 1 ELSE CommandSubst(s, i + 1, depth - 1, lvl)
      [] s[i] \in {"'", "\"", "\\"} -> CommandSubst(s, Quoted(s, i, lvl), depth, lvl)
      [] s[i] = "$" -> CommandSubst(s, Dollar(s, i, lvl), depth, lvl)
      [] OTHER -> CommandSubst(s, i + 1, depth, lvl)
(* A stray ) that closes nothing is part of the expression.                   *)
Arithmetic(s, i, parens, double, lvl) ==
    CASE At(s, i) = "" -> Stuck(s, i)
      [] s[i] = "(" /\ At(s, i + 1) = "(" -> Arithmetic(s, i + 2, parens, double + 1, lvl)
      [] s[i] = "(" -> Arithmetic(s, i + 1, parens + 1, double, lvl)
      [] s[i] = ")" /\ parens > 0 -> Arithmetic(s, i + 1, parens - 1, double, lvl)
      [] s[i] = ")" /\ At(s, i + 1) = ")" -> IF double = 1 THEN i + 2 ELSE Arithmetic(s, i + 2, parens, double - 1, lvl)
      [] s[i] \in {"'", "\"", "\\"} -> Arithmetic(s, Quoted(s, i, lvl), parens, double, lvl)
      [] s[i] = "$" -> Arithmetic(s, Dollar(s, i, lvl), parens, double, lvl)
      [] OTHER -> Arithmetic(s, i + 1, parens, double, lvl)
BraceParam(s, i, depth, lvl) ==
    CASE At(s, i) = "" -> Stuck(s, i)
      [] s[i] = "{" -> BraceParam(s, i + 1, depth + 1, lvl)
      [] s[i] = "}" -> IF depth = 1 THEN i + 1 ELSE BraceParam(s, i + 1, depth - 1, lvl)
      [] s[i] \in {"'", "\"", "\\"} -> BraceParam(s, Quoted(s, i, lvl), depth, lvl)
      [] OTHER -> BraceParam(s, i + 1, depth, lvl)
RECURSIVE Extglob(_, _, _)
Extglob(s, i, depth) ==
    CASE At(s, i) = "" -> Stuck(s, i)
      [] s[i] = "("  -> Extglob(s, i + 1, depth + 1)
      [] s[i] = ")"  -> IF depth = 1 THEN i + 1 ELSE Extglob(s, i + 1, depth - 1)
      [] s[i] = "\\" -> Extglob(s, Backslash(s, i), depth)
      [] OTHER       -> Extglob(s, i + 1, depth)
ProcessSubst(s, i) == CommandSubst(s, i, 1, 0)

RECURSIVE ReadWord(_, _)
WordPart(s, i) ==
    CASE s[i] \in {"'", "\"", "\\"} -> Quoted(s, i, 0)
      [] s[i] = BQ -> Backtick(s, i + 1)
      [] s[i] = "$" /\ At(s, i + 1) = "\"" -> DoubleQuoted(s, i + 2, 0)
      [] s[i] = "$" -> Dollar(s, i, 0)
      [] s[i] \in {"?", "*", "+", "@", "!"} /\ At(s, i + 1) = "(" -> Extglob(s, i + 2, 1)
      [] OTHER -> i + 1
ReadWord(s, i) ==
    IF At(s, i) = "" \/ s[i] \in WordBreaks THEN i ELSE ReadWord(s, WordPart(s, i))

-----------------------------------------------------------------------------
(* Tokens.  A word that is exactly [[ or ]] has a kind of its own.            *)

RECURSIVE SkipBlanks(_, _)
SkipBlanks(s, i) ==
    CASE At(s, i) \in {" ", "\t"} -> SkipBlanks(s, i + 1)
      [] At(s, i) = "\\" /\ At(s, i + 1) = NL -> SkipBlanks(s, i + 2)
      [] At(s, i) = "\\" /\ At(s, i + 1) = CR /\ At(s, i + 2) = NL -> SkipBlanks(s, i + 3)
      [] OTHER -> i
Operators == <<"&>>", "&&", "&>", "||", "|&", ">>", ">|", "<<<", "<<-", "<<", "<>", "&", "|", ">", "<", ";", "(", ")", NL>>
Spelled == [o \in ToSet(Operators) |->
    CASE o = "&>>" -> <<"&", ">", ">">> [] o = "&&" -> <<"&", "&">> [] o = "&>" -> <<"&", ">">> [] o = "||" -> <<"|", "|">>
      [] o = "|&" -> <<"|", "&">> [] o = ">>" -> <<">", ">">> [] o = ">|" -> <<">", "|">> [] o = "<<<" -> <<"<", "<", "<">>
      [] o = "<<-" -> <<"<", "<", "-">> [] o = "<<" -> <<"<", "<">> [] o = "<>" -> <<"<", ">">> [] OTHER -> <<o>>]
(* The longest operator that is spelled from i on.                            *)
OperatorAt(s, i) ==
    LET k == SelectInSeq(Operators, LAMBDA o : IsPrefix(Spelled[o], Rest(s, i))) IN IF k = 0 THEN "" ELSE Operators[k]
Error(at) == [k |-> "error", t |-> << >>, at |-> -at, to |-> -at]
Token(s, k, from, to) == [k |-> k, t |-> SubSeq(s, from, to - 1), at |-> from, to |-> to]
MakeWord(s, from, to) ==
    LET t == SubSeq(s, from, to - 1) IN Token(s, IF t \in {<<"[[">>, <<"]]">>} THEN t[1] ELSE "word", from, to)
NextToken(s, from) ==
    LET i  == SkipBlanks(s, from)
        nl == Seek(s, i, {NL})
        j  == IF At(s, i) # "#" THEN i ELSE IF nl = 0 THEN Len(s) + 1 ELSE nl      \* past a comment
        op == OperatorAt(s, j)
        w  == CASE At(s, j) \in {"<", ">"} /\ At(s, j + 1) = "(" -> ProcessSubst(s, j + 2)
                [] OTHER -> ReadWord(s, j)
    IN  CASE At(s, j) = "" -> Token(s, "eof", j, j)
          [] At(s, j) \in {"<", ">"} /\ At(s, j + 1) = "(" -> IF w < 0 THEN Error(w) ELSE Token(s, "word", j, w)
          [] op # "" -> Token(s, op, j, j + Len(Spelled[op]))
          [] w < 0 -> Error(w)
          [] OTHER -> MakeWord(s, j, w)

-----------------------------------------------------------------------------
(* The word parser reads the text of a word token a second time, with         *)
(* scanners of its own.  A part is [k, t]; a double-quoted one has parts.     *)

Lit(t)    == [k |-> "lit", t |-> t]
SQ(t)     == [k |-> "sq", t |-> t]
DQ(ps)    == [k |-> "dq", parts |-> ps]
Param(t)  == [k |-> "param", t |-> t]
Cmd(t)    == [k |-> "cmd", t |-> t]
Arith(t)  == [k |-> "arith", t |-> t]
ProcIn(t) == [k |-> "procin", t |-> t]
ProcOut(t) == [k |-> "procout", t |-> t]

(* A byte pushed as a character: what is not ASCII comes out as two others.   *)
AsChar(b) == CASE b = "hi" -> "A~" [] b = "lo" -> "(c)" [] OTHER -> b

RECURSIVE SkipDouble(_, _), CmdEnd(_, _, _), ArithEnd(_, _, _), BraceEnd(_, _, _), BacktickPart(_, _, _), AnsiC(_, _, _)
SkipSingle(s, i) == LET j == Seek(s, i + 1, {"'"}) IN IF j = 0 THEN Len(s) + 1 ELSE j + 1
SkipDouble(s, i) ==
    CASE i > Len(s) -> Len(s) + 1 [] s[i] = "\"" -> i + 1 [] s[i] = "\\" -> SkipDouble(s, i + 2) [] OTHER -> SkipDouble(s, i + 1)
(* Mutant: quotes inside a substitution are not skipped.                      *)
CmdEndUnquoted(s, i, depth) ==
    CASE i > Len(s) -> Len(s) + 1
      [] s[i] = "(" -> CmdEnd(s, i + 1, depth + 1)
      [] s[i] = ")" -> IF depth = 1 THEN i ELSE CmdEnd(s, i + 1, depth - 1)
      [] OTHER -> CmdEnd(s, i + 1, depth)
(* Each End is the position of what closes, or the end of the word.           *)
CmdEnd(s, i, depth) ==
    CASE i > Len(s) -> Len(s) + 1
      [] s[i] = "(" -> CmdEnd(s, i + 1, depth + 1)
      [] s[i] = ")" -> IF depth = 1 THEN i ELSE CmdEnd(s, i + 1, depth - 1)
      [] s[i] = "'" -> CmdEnd(s, SkipSingle(s, i), depth)
      [] s[i] = "\"" -> CmdEnd(s, SkipDouble(s, i + 1), depth)
      [] OTHER -> CmdEnd(s, i + 1, depth)
ArithEnd(s, i, depth) ==
    CASE i > Len(s) -> Len(s) + 1
      [] s[i] = "(" /\ At(s, i + 1) = "(" -> ArithEnd(s, i + 2, depth + 1)
      [] s[i] = ")" /\ At(s, i + 1) = ")" -> IF depth = 1 THEN i ELSE ArithEnd(s, i + 2, depth - 1)
      [] OTHER -> ArithEnd(s, i + 1, depth)
BraceEnd(s, i, depth) ==
    CASE i > Len(s) -> Len(s) + 1
      [] s[i] = "{" -> BraceEnd(s, i + 1, depth + 1)
      [] s[i] = "}" -> IF depth = 1 THEN i ELSE BraceEnd(s, i + 1, depth - 1)
      [] s[i] = "\\" -> BraceEnd(s, i + 2, depth)
      [] OTHER -> BraceEnd(s, i + 1, depth)
BacktickPart(s, i, inner) ==
    CASE i > Len(s) \/ At(s, i) = BQ -> [part |-> Cmd(inner), at |-> i + 1]
      [] s[i] = "\\" /\ At(s, i + 1) \in {BQ, "$", "\\"} -> BacktickPart(s, i + 2, Append(inner, s[i + 1]))
      [] OTHER -> BacktickPart(s, i + 1, Append(inner, AsChar(s[i])))
(* Of the escapes, the quote and the newline; the others are like them.       *)
AnsiC(s, i, out) ==
    CASE i > Len(s) \/ At(s, i) = "'" -> [part |-> Lit(out), at |-> i + 1]
      [] s[i] = "\\" /\ At(s, i + 1) = "n" -> AnsiC(s, i + 2, Append(out, NL))
      [] s[i] = "\\" /\ At(s, i + 1) \in {"\\", "'", "\""} -> AnsiC(s, i + 2, Append(out, s[i + 1]))
      [] OTHER -> AnsiC(s, i + 1, Append(out, AsChar(s[i])))
(* After a $: a part and where it ends, or none for a $ that stands alone.    *)
ParseDollar(s, i) ==
    LET c  == At(s, i)
        to == CASE c = "(" /\ At(s, i + 1) = "(" -> ArithEnd(s, i + 2, 1)
                [] c = "(" -> CmdEnd(s, i + 1, 1)
                [] c = "{" -> BraceEnd(s, i + 1, 1)
                [] OTHER -> Past(s, i, LAMBDA x : IsName(x) \/ x \in Digits)
    IN  CASE c = ""  -> [at |-> 0]
          [] c = "(" /\ At(s, i + 1) = "(" -> [part |-> Arith(SubSeq(s, i + 2, to - 1)), at |-> to + 2]
          [] c = "(" -> [part |-> Cmd(SubSeq(s, i + 1, to - 1)), at |-> to + 1]
          [] c = "{" -> [part |-> Param(SubSeq(s, i + 1, to - 1)), at |-> to + 1]
          [] IsName(c) -> [part |-> Param(SubSeq(s, i, to - 1)), at |-> to]
          [] c \in Special -> [part |-> Param(<<c>>), at |-> i + 1]
          [] OTHER -> [at |-> 0]

Flush(ps, lit) == IF lit = << >> THEN ps ELSE Append(ps, Lit(lit))
RECURSIVE ParseDouble(_, _, _, _), ParseParts(_, _, _, _)
ParseDouble(s, i, lit, ps) ==
    LET d == ParseDollar(s, i + 1)
        b == BacktickPart(s, i + 1, << >>)
        c == At(s, i + 1)
    IN  CASE i > Len(s) \/ At(s, i) = "\"" -> [part |-> DQ(Flush(ps, lit)), at |-> i + 1]
          [] s[i] = "\\" -> ParseDouble(s, i + 2, CASE c \in {"", NL} -> lit
                                                    [] c \in {"$", BQ, "\"", "\\"} -> Append(lit, c)
                                                    [] OTHER -> lit \o <<"\\", AsChar(c)>>, ps)
          [] s[i] = "$" /\ d.at = 0 -> ParseDouble(s, i + 1, <<"$">>, Flush(ps, lit))
          [] s[i] = "$" -> ParseDouble(s, d.at, << >>, Append(Flush(ps, lit), d.part))
          [] s[i] = BQ -> ParseDouble(s, b.at, << >>, Append(Flush(ps, lit), b.part))
          [] OTHER -> ParseDouble(s, i + 1, Append(lit, AsChar(s[i])), ps)
ParseParts(s, i, lit, ps) ==
    LET one == CASE At(s, i) = "'" -> [part |-> SQ(SubSeq(s, i + 1, SkipSingle(s, i) - 2)), at |-> SkipSingle(s, i)]
                 [] At(s, i) = "\"" -> ParseDouble(s, i + 1, << >>, << >>)
                 [] At(s, i) = "$" /\ At(s, i + 1) = "'" -> AnsiC(s, i + 2, << >>)
                 [] At(s, i) = "$" /\ At(s, i + 1) = "\"" -> ParseDouble(s, i + 2, << >>, << >>)
                 [] At(s, i) = "$" -> ParseDollar(s, i + 1)
                 [] At(s, i) = BQ -> BacktickPart(s, i + 1, << >>)
                 [] At(s, i) \in {"<", ">"} /\ At(s, i + 1) = "(" ->
                        LET to == CmdEnd(s, i + 2, 1)
                            t  == SubSeq(s, i + 2, to - 1)
                        IN  [part |-> IF s[i] = "<" THEN ProcIn(t) ELSE ProcOut(t), at |-> to + 1]
                 [] OTHER -> [at |-> 0]
    IN  CASE i > Len(s) -> Flush(ps, lit)
          [] s[i] = "\\" -> ParseParts(s, i + 2, IF At(s, i + 1) \in {"", NL} THEN lit ELSE Append(lit, AsChar(s[i + 1])), ps)
          [] one.at # 0 -> ParseParts(s, one.at, << >>, Append(Flush(ps, lit), one.part))
          [] s[i] = "$" -> ParseParts(s, i + 1, <<"$">>, Flush(ps, lit))
          [] OTHER -> ParseParts(s, i + 1, Append(lit, AsChar(s[i])), ps)
ParseWordParts(t) == ParseParts(t, 1, << >>, << >>)

=============================================================================
