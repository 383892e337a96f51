------------------------------ MODULE Arithmetic ------------------------------
(* The arithmetic of $(( )), (( )) and let (wasmsh-expand): integers that     *)
(* wrap around and a recursive-descent evaluator, which computes while it     *)
(* parses.  Every operand is evaluated, the ones that && || and ?: do not     *)
(* need too.                                                                  *)
EXTENDS ShellState

CONSTANTS Bits,              \* width of an integer, 64 in the code (a power of two)
          MAX_ARITH_DEPTH    \* nested assignments, powers and unary operators

ASSUME ArithmeticAssumption == Bits \in Nat \ {0} /\ MAX_ARITH_DEPTH \in Nat

Full    == 2 ^ Bits
Half    == 2 ^ (Bits - 1)
Wrap(x) == ((x + Half) % Full) - Half
Truth(b) == IF b THEN 1 ELSE 0
Abs(x)  == IF x < 0 THEN -x ELSE x
Quotient(a, b) == Wrap(IF (a < 0) = (b < 0) THEN Abs(a) \div Abs(b) ELSE -(Abs(a) \div Abs(b)))
Rest(a, b)     == IF a < 0 THEN -(Abs(a) % Abs(b)) ELSE Abs(a) % Abs(b)
Bit(x, k)      == (x \div 2 ^ k) % 2
BitsWhere(P(_, _), a, b) == Wrap(MapThenSumSet(LAMBDA k : IF P(Bit(a, k), Bit(b, k)) THEN 2 ^ k ELSE 0, 0..Bits - 1))
RECURSIVE PowLoop(_, _, _)
PowLoop(r, b, e) == IF e = 0 THEN r ELSE PowLoop(IF e % 2 = 1 THEN Wrap(r * b) ELSE r, Wrap(b * b), e \div 2)
wrapping_pow(b, e) == IF e < 0 THEN 0 ELSE PowLoop(1, b, e)
(* A division by zero is 0 here; the caller records the error.                *)
Apply(o, a, b) ==
    CASE o = "+" -> Wrap(a + b) [] o = "-" -> Wrap(a - b) [] o = "*" -> Wrap(a * b)
      [] o = "/" -> IF b = 0 THEN 0 ELSE Quotient(a, b)
      [] o = "%" -> IF b = 0 THEN 0 ELSE Rest(a, b)
      [] o = "**" -> wrapping_pow(a, b)
      [] o = "<<" -> Wrap(a * 2 ^ (b % Bits)) [] o = ">>" -> a \div 2 ^ (b % Bits)
      [] o = "<" -> Truth(a < b) [] o = ">" -> Truth(a > b) [] o = "<=" -> Truth(a <= b) [] o = ">=" -> Truth(a >= b)
      [] o = "==" -> Truth(a = b) [] o = "!=" -> Truth(a # b)
      [] o = "&" -> BitsWhere(LAMBDA x, y : x = 1 /\ y = 1, a, b) [] o = "|" -> BitsWhere(LAMBDA x, y : x = 1 \/ y = 1, a, b)
      [] o = "^" -> BitsWhere(LAMBDA x, y : x # y, a, b)
      [] o = "&&" -> Truth(a # 0 /\ b # 0) [] o = "||" -> Truth(a # 0 \/ b # 0)

-----------------------------------------------------------------------------
(* Tokens: <<"num", n>>, <<"id", name>> and <<"op", operator>>.               *)

Num(n) == <<"num", n>>
Id(n)  == <<"id", n>>
Op(o)  == <<"op", o>>
(* The operators by their characters, the longer ones first.                  *)
ArithOps == <<<<"<<=", <<"<", "<", "=">>>>, <<">>=", <<">", ">", "=">>>>, <<"++", <<"+", "+">>>>, <<"+=", <<"+", "=">>>>, <<"--", <<"-", "-">>>>,
    <<"-=", <<"-", "=">>>>, <<"**", <<"*", "*">>>>, <<"*=", <<"*", "=">>>>, <<"/=", <<"/", "=">>>>, <<"%=", <<"%", "=">>>>, <<"<<", <<"<", "<">>>>,
    <<"<=", <<"<", "=">>>>, <<">>", <<">", ">">>>>, <<">=", <<">", "=">>>>, <<"==", <<"=", "=">>>>, <<"!=", <<"!", "=">>>>, <<"&&", <<"&", "&">>>>,
    <<"&=", <<"&", "=">>>>, <<"||", <<"|", "|">>>>, <<"|=", <<"|", "=">>>>, <<"^=", <<"^", "=">>>>>>
SingleOps == {"+", "-", "*", "/", "%", "<", ">", "=", "!", "&", "|", "^", "~", "?", ":", ",", "(", ")"}
(* The operator at i and its length; any other character is skipped.          *)
arith_tokenize_operator(t, i) ==
    LET k == SelectInSeq(ArithOps, LAMBDA o : SubSeq(t, i, IF i + Len(o[2]) - 1 > Len(t) THEN Len(t) ELSE i + Len(o[2]) - 1) = o[2])
    IN  IF k # 0 THEN <<<<Op(ArithOps[k][1])>>, i + Len(ArithOps[k][2])>>
        ELSE IF t[i] \in SingleOps THEN <<<<Op(t[i])>>, i + 1>> ELSE <<<< >>, i + 1>>
NameChar(c)  == c \in DOMAIN Digit \/ c \in {"a", "b", "c", "d", "r", "v", "w", "x", "A", "B", "C", "Q", "U", "L"}
HexDigit     == [c \in DOMAIN Digit \cup {"a", "b", "c", "d"} |-> IF c \in DOMAIN Digit THEN Digit[c] ELSE 10 + Rank[c] - Rank["a"]]
(* A number with a digit outside its radix, or too large, reads as 0.         *)
Radix(ds, r) ==
    LET n == FoldLeft(LAMBDA acc, c : r * acc + HexDigit[c], 0, ds)
    IN  IF ds = << >> \/ (\E i \in 1..Len(ds) : ds[i] \notin DOMAIN HexDigit) THEN 0
        ELSE IF (\E i \in 1..Len(ds) : HexDigit[ds[i]] >= r) \/ n >= Half THEN 0 ELSE n
Run(t, i, In(_)) == LET j == SelectInSubSeq(t, i, Len(t), LAMBDA c : ~In(c)) IN IF j = 0 THEN Len(t) + 1 ELSE j
IsDigit(c) == c \in DOMAIN Digit
arith_tokenize_number(t, i) ==
    LET prefixed == t[i] = "0" /\ i < Len(t)
        hex == Run(t, i + 2, LAMBDA c : c \in DOMAIN HexDigit)
        bin == Run(t, i + 2, LAMBDA c : c \in {"0", "1"})
        dec == Run(t, i, IsDigit)
        val == Run(t, dec + 1, NameChar)
        base == Unsigned(SubSeq(t, i, dec - 1))
    IN  CASE prefixed /\ t[i + 1] = "x" -> <<Num(Radix(SubSeq(t, i + 2, hex - 1), 16)), hex>>
          [] prefixed /\ t[i + 1] = "b" -> <<Num(Radix(SubSeq(t, i + 2, bin - 1), 2)), bin>>
          [] prefixed /\ IsDigit(t[i + 1]) -> <<Num(Radix(SubSeq(t, i + 1, dec - 1), 8)), dec>>
          [] OTHER -> IF At(t, dec) = "#" /\ base \in 2..64 THEN <<Num(Radix(SubSeq(t, dec + 1, val - 1), base)), val>>
                      ELSE <<Num(Radix(SubSeq(t, i, dec - 1), 10)), dec>>

-----------------------------------------------------------------------------
(* The evaluator.  p holds the tokens, the position, the shell's state, the   *)
(* depth and the value of what was read last.                                 *)

TokenAt(p) == IF p.i <= Len(p.ts) THEN p.ts[p.i] ELSE <<"end", 0>>
Next1(p)   == [p EXCEPT !.i = @ + 1]
IsOp(p, os) == TokenAt(p)[1] = "op" /\ TokenAt(p)[2] \in os
Is(p, v)   == [p EXCEPT !.v = v]
arith_error(p) == [p EXCEPT !.st.arith = TRUE, !.v = 0]
(* A text that is no integer, or one that does not fit, counts as 0.          *)
IntOf(t) == LET k == ParseInt(t) IN IF k # << >> /\ k[1] \in -Half..Half - 1 THEN k[1] ELSE 0
var_get(p, n)  == LET t == get_var(p.st, n) IN IF t = << >> THEN 0 ELSE IntOf(t[1])
var_set(p, n, v) == [p EXCEPT !.st = set_var(@, n, IntText(v)), !.v = v]
AssignOps == [o \in {"=", "+=", "-=", "*=", "/=", "%=", "<<=", ">>=", "&=", "^=", "|="} |->
    CASE o = "+=" -> "+" [] o = "-=" -> "-" [] o = "*=" -> "*" [] o = "/=" -> "/" [] o = "%=" -> "%" [] o = "<<=" -> "<<" [] o = ">>=" -> ">>"
      [] o = "&=" -> "&" [] o = "^=" -> "^" [] o = "|=" -> "|" [] OTHER -> "="]
(* The left-associative operators, from the loosest to the tightest.          *)
Levels == <<{"||"}, {"&&"}, {"|"}, {"^"}, {"&"}, {"==", "!="}, {"<", ">", "<=", ">="}, {"<<", ">>"}, {"+", "-"}, {"*", "/", "%"}>>

RECURSIVE parse_expr(_), parse_assign(_), parse_exponentiation(_), parse_unary(_), parse_level(_, _), LevelRest(_, _), CommaRest(_)
parse_primary(p) ==
    LET t == TokenAt(p)
        n == Next1(p)
        r == parse_expr(n)
    IN  CASE t[1] = "num" -> Is(n, t[2])
          [] t[1] = "id" -> IF ~IsOp(n, {"++", "--"}) THEN Is(n, var_get(p, t[2]))
                            ELSE Is(var_set(Next1(n), t[2], Apply(IF IsOp(n, {"++"}) THEN "+" ELSE "-", var_get(p, t[2]), 1)), var_get(p, t[2]))
          [] t = Op("(") -> IF IsOp(r, {")"}) THEN Next1(r) ELSE r
          [] OTHER -> Is(IF p.i <= Len(p.ts) THEN n ELSE p, 0)
parse_pre_incdec(p, o) ==
    LET n == Next1(p) IN IF TokenAt(n)[1] = "id" THEN var_set(Next1(n), TokenAt(n)[2], Apply(o, var_get(n, TokenAt(n)[2]), 1)) ELSE Is(n, 0)
parse_unary_inner(p) ==
    LET r == parse_unary(Next1(p))
    IN  CASE IsOp(p, {"!"}) -> Is(r, Truth(r.v = 0))
          [] IsOp(p, {"~"}) -> Is(r, Wrap(-r.v - 1))
          [] IsOp(p, {"+"}) -> r
          [] IsOp(p, {"-"}) -> Is(r, Wrap(-r.v))
          [] IsOp(p, {"++"}) -> parse_pre_incdec(p, "+")
          [] IsOp(p, {"--"}) -> parse_pre_incdec(p, "-")
          [] OTHER -> parse_primary(p)
AtLimit(p) == p.depth >= MAX_ARITH_DEPTH
Deeper(p)  == [p EXCEPT !.depth = @ + 1]
Back(p)    == [p EXCEPT !.depth = @ - 1]
parse_unary(p) == IF AtLimit(p) THEN arith_error(p) ELSE Back(parse_unary_inner(Deeper(p)))
parse_exponentiation(p) ==
    IF AtLimit(p) THEN arith_error(p)
    ELSE LET b == parse_unary(Deeper(p))
             e == parse_exponentiation(Next1(b))
         IN  Back(IF IsOp(b, {"**"}) THEN Is(e, Apply("**", b.v, e.v)) ELSE b)
LevelRest(l, p) ==
    IF ~IsOp(p, Levels[l]) THEN p
    ELSE LET o == TokenAt(p)[2]
             r == parse_level(l + 1, Next1(p))
         IN  LevelRest(l, IF o \in {"/", "%"} /\ r.v = 0 THEN arith_error(r) ELSE Is(r, Apply(o, p.v, r.v)))
parse_level(l, p) == IF l > Len(Levels) THEN parse_exponentiation(p) ELSE LevelRest(l, parse_level(l + 1, p))
parse_ternary(p) ==
    LET c == parse_level(1, p)
        a == parse_assign(Next1(c))
        b == parse_assign(IF IsOp(a, {":"}) THEN Next1(a) ELSE a)
    IN  IF IsOp(c, {"?"}) THEN Is(b, IF c.v # 0 THEN a.v ELSE b.v) ELSE c
(* A compound assignment reads the variable after its right-hand side, and    *)
(* dividing by zero there is no error.                                        *)
try_compound_assign(p, n) ==
    LET o == AssignOps[TokenAt(p)[2]]
        r == parse_assign(Next1(p))
    IN  var_set(r, n, IF o = "=" THEN r.v ELSE Apply(o, var_get(r, n), r.v))
parse_assign(p) ==
    IF AtLimit(p) THEN arith_error(p)
    ELSE Back(IF TokenAt(p)[1] = "id" /\ IsOp(Next1(p), DOMAIN AssignOps) THEN try_compound_assign(Next1(Deeper(p)), TokenAt(p)[2])
              ELSE parse_ternary(Deeper(p)))
CommaRest(p) == IF IsOp(p, {","}) THEN CommaRest(parse_assign(Next1(p))) ELSE p
parse_expr(p) == CommaRest(parse_assign(p))
Evaluate(ts, st) == parse_expr([ts |-> ts, i |-> 1, st |-> st, depth |-> 0, v |-> 0])

=============================================================================
