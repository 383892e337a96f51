------------------------------ MODULE Expansion -------------------------------
(* Word expansion (wasmsh-expand) and what the runtime makes of its result:   *)
(* parameters, fields, braces and pathnames.  An expansion takes the shell's  *)
(* state and gives a text and a state: ${v:=w} and $((v++)) assign.           *)
EXTENDS Arithmetic

CONSTANTS MAX_EXPAND_DEPTH,   \* nested ${...:-${...}}
          MAX_BRACE_ITEMS,    \* words one word may become
          MAX_GLOB_RESULTS,   \* arguments a command may have
          Listing             \* the directories: the prefix a word names one with -> the set of names in it

Done(t, st) == <<t, st>>          \* an expansion that applied; << >> is one that did not
Find(t, c)  == SelectInSeq(t, LAMBDA x : x = c)      \* the first place, or 0
SplitAt(t, k) == <<UpTo(t, k - 1), From(t, k + 1)>>
is_valid_identifier(t) == t # << >> /\ \A i \in 1..Len(t) : NameChar(t[i])
Upper == [c \in CharSet |-> CASE c = "a" -> "A" [] c = "b" -> "B" [] c = "c" -> "C" [] OTHER -> c]
Mapped(t, f) == [i \in 1..Len(t) |-> f[t[i]]]
First(t, f)  == IF t = << >> THEN t ELSE <<f[t[1]]>> \o Tail(t)
OrEmpty(o)   == IF o = << >> THEN << >> ELSE o[1]

-----------------------------------------------------------------------------
(* Arrays: ${#a[@]} ${!a[@]} ${a[@]:1:2} ${a[@]} ${a[i]}.                     *)

AllSuffix(t) == Len(t) > 3 /\ From(t, Len(t) - 2) \in {<<"[", "@", "]">>, <<"[", "*", "]">>}
Base(t)      == UpTo(t, Len(t) - 3)
(* <<base, index, the rest>> of base[index]rest, or << >>.                    *)
Subscript(t) ==
    LET o == Find(t, "[")
        c == IF o = 0 THEN 0 ELSE SelectInSubSeq(t, o, Len(t), LAMBDA x : x = "]")
    IN  IF c = 0 THEN << >> ELSE <<UpTo(t, o - 1), SubSeq(t, o + 1, c - 1), From(t, c + 1)>>
Clamp(lo, x, hi) == IF x < lo THEN lo ELSE IF x > hi THEN hi ELSE x
IntOrElse(t, d)  == LET k == ParseInt(Trim(t)) IN IF k = << >> THEN d ELSE k[1]
apply_array_slice(vs, spec) ==
    LET k    == Find(spec, ":")
        o    == IntOrElse(IF k = 0 THEN spec ELSE UpTo(spec, k - 1), 0)
        off  == Max({0, IF o < 0 THEN o + Len(vs) ELSE o})
        n    == IntOrElse(IF k = 0 THEN << >> ELSE From(spec, k + 1), Len(vs))
        from == Min({off, Len(vs)})
        to   == IF k = 0 THEN Len(vs) ELSE IF n < 0 THEN Max({Len(vs) + n, off}) ELSE Min({off + n, Len(vs)})
    IN  SubSeq(vs, from + 1, Max({from, Min({to, Len(vs)})}))
(* The elements an expansion yields as fields of their own, or << >>.         *)
array_multi_expansion(t, st) ==
    LET s    == Subscript(t)
        keys == At(s[1], 1) = "!"
        base == IF keys THEN Tail(s[1]) ELSE s[1]
        all  == IF keys THEN get_array_keys(st, base) ELSE get_array_values(st, base)
    IN  IF t = <<"@">> THEN <<st.pos>>
        ELSE IF s = << >> THEN << >>
        ELSE IF s[2] # <<"@">> \/ base = << >> \/ At(base, 1) = "#" THEN << >>
        ELSE <<IF At(s[3], 1) = ":" THEN apply_array_slice(all, Tail(s[3])) ELSE all>>

RECURSIVE expand_operand(_, _, _), expand_parameter(_, _, _), eval_arithmetic(_, _)
try_expand_array_subscript(t, st) ==
    LET s == Subscript(t)
        i == expand_operand(s[2], st, 0)
    IN  CASE At(t, 1) = "#" /\ AllSuffix(Tail(t)) -> Done(IntText(get_array_length(st, Base(Tail(t)))), st)
          [] At(t, 1) = "!" /\ AllSuffix(Tail(t)) -> Done(JoinTexts(get_array_keys(st, Base(Tail(t)))), st)
          [] At(t, 1) \notin {"#", "!"} /\ AllSuffix(t) -> Done(JoinTexts(get_array_values(st, Base(t))), st)
          [] OTHER -> IF s = << >> THEN << >>
                      ELSE IF ~is_valid_identifier(s[1]) \/ s[2] = << >> THEN << >>
                      ELSE IF s[2] \in {<<"@">>, <<"*">>} /\ At(s[3], 1) = ":" THEN Done(JoinTexts(apply_array_slice(get_array_values(st, s[1]), Tail(s[3]))), st)
                      ELSE Done(OrEmpty(get_array_element(i[2], s[1], i[1])), i[2])

-----------------------------------------------------------------------------
(* The other forms, in the order they are tried.                              *)

try_expand_string_length(t, st) ==
    IF At(t, 1) # "#" \/ Len(t) = 1 THEN << >>
    ELSE Done(IntText(IF Tail(t) \in {<<"@">>, <<"*">>} THEN Len(st.pos) ELSE Len(OrEmpty(get_var(st, Tail(t))))), st)
try_expand_indirect_or_prefix(t, st) ==
    LET rest == Tail(t)
        to   == get_var(st, rest)
    IN  IF At(t, 1) # "!" THEN << >>
        ELSE IF Len(rest) > 1 /\ Last(rest) \in {"*", "@"} /\ is_valid_identifier(Front(rest)) THEN Done(JoinTexts(var_names_with_prefix(st, Front(rest))), st)
        ELSE IF ~is_valid_identifier(rest) THEN << >>
        ELSE Done(IF to = << >> THEN << >> ELSE OrEmpty(get_var(st, to[1])), st)
try_case_modification(t, st) ==
    LET k == Run(t, 1, NameChar)
        v == get_var(st, UpTo(t, k - 1))
        m == From(t, k)
    IN  IF k = 1 \/ k > Len(t) \/ At(t, k) \notin {"^", ","} \/ v = << >> THEN << >>
        ELSE Done(CASE At(m, 1) = "^" -> IF At(m, 2) = "^" THEN Mapped(v[1], Upper) ELSE First(v[1], Upper)
                    [] OTHER -> IF At(m, 2) = "," THEN Mapped(v[1], Lower) ELSE First(v[1], Lower), st)
Quoted(t) == <<"'">> \o FlattenSeq([i \in 1..Len(t) |-> IF t[i] = "'" THEN <<"'", "\\", "'", "'">> ELSE <<t[i]>>]) \o <<"'">>
try_transform_operator(t, st) ==
    LET n == UpTo(t, Len(t) - 2)
        v == OrEmpty(get_var(st, n))
    IN  IF Len(t) < 3 THEN << >>
        ELSE IF t[Len(t) - 1] # "@" \/ Last(t) \notin {"Q", "U", "L"} \/ ~is_valid_identifier(n) THEN << >>
        ELSE Done(CASE Last(t) = "Q" -> Quoted(v) [] Last(t) = "U" -> Mapped(v, Upper) [] OTHER -> Mapped(v, Lower), st)

(* Where the pattern matches: the ends from i on, and the starts of suffixes. *)
EndsFrom(v, i, p) == {e \in i..Len(v) + 1 : simple_glob_match(p, SubSeq(v, i, e - 1))}
StartsOf(v, p)    == {s \in 1..Len(v) + 1 : simple_glob_match(p, From(v, s))}
strip_prefix_glob(v, p, greedy) ==
    LET es == EndsFrom(v, 1, p) IN IF es = {} THEN v ELSE From(v, IF greedy THEN Max(es) ELSE Min(es))
strip_suffix_glob(v, p, greedy) ==
    LET ss == StartsOf(v, p) IN IF ss = {} THEN v ELSE UpTo(v, (IF greedy THEN Min(ss) ELSE Max(ss)) - 1)
is_glob_pattern(p) == Holds(p, {"*", "?", "["})
(* A pattern with no wildcard is searched for as it is; an empty one is found *)
(* everywhere.  The shortest match counts.                                    *)
PlainEnds(v, i, p) == IF i + Len(p) <= Len(v) + 1 /\ SubSeq(v, i, i + Len(p) - 1) = p THEN {i + Len(p)} ELSE {}
MatchEnds(v, i, p) == IF is_glob_pattern(p) THEN EndsFrom(v, i, p) ELSE PlainEnds(v, i, p)
glob_replace_first(v, p, r) ==
    LET ss == {s \in 1..Len(v) + 1 : MatchEnds(v, s, p) # {}}
    IN  IF ss = {} THEN v ELSE UpTo(v, Min(ss) - 1) \o r \o From(v, Min(MatchEnds(v, Min(ss), p)))
RECURSIVE ReplaceFrom(_, _, _, _)
ReplaceFrom(v, i, p, r) ==
    LET es == MatchEnds(v, i, p)
        e  == Min(es)
    IN  IF i > Len(v) + 1 THEN << >>
        ELSE IF es = {} THEN SubSeq(v, i, Min({i, Len(v)})) \o ReplaceFrom(v, i + 1, p, r)
        ELSE IF e > i THEN r \o ReplaceFrom(v, e, p, r)
        ELSE r \o (IF is_glob_pattern(p) THEN << >> ELSE SubSeq(v, i, Min({i, Len(v)}))) \o ReplaceFrom(v, i + 1, p, r)
glob_replace_all(v, p, r) == ReplaceFrom(v, 1, p, r)
try_expand_substitution(t, st) ==
    LET k    == Find(t, "/")
        n    == UpTo(t, k - 1)
        all  == At(t, k + 1) = "/"
        rest == From(t, IF all THEN k + 2 ELSE k + 1)
        anc  == At(rest, 1)
        body == IF anc \in {"#", "%"} THEN Tail(rest) ELSE rest
        sep  == Find(body, "/")
        p    == IF sep = 0 THEN body ELSE UpTo(body, sep - 1)
        r    == IF sep = 0 THEN << >> ELSE From(body, sep + 1)
        v    == OrEmpty(get_var(st, n))
    IN  IF k = 0 THEN << >>
        ELSE IF ~is_valid_identifier(n) THEN << >>
        ELSE Done(IF get_var(st, n) = << >> THEN << >>
                  ELSE CASE anc = "#" -> IF EndsFrom(v, 1, p) = {} THEN v ELSE r \o From(v, Max(EndsFrom(v, 1, p)))
                         [] anc = "%" -> IF StartsOf(v, p) = {} THEN v ELSE UpTo(v, Min(StartsOf(v, p)) - 1) \o r
                         [] OTHER -> IF all THEN glob_replace_all(v, p, r) ELSE glob_replace_first(v, p, r), st)

(* ${v:offset:length}.  Whatever stands before the first colon is the name.   *)
try_expand_substring(t, st) ==
    LET k    == Find(t, ":")
        rest == From(t, k + 1)
        trim == From(rest, Run(rest, 1, LAMBDA c : c = " "))
        num  == At(trim, 1) \in DOMAIN Digit \/ (trim # rest /\ At(trim, 1) = "-")
        v    == get_var(st, UpTo(t, k - 1))
        len  == Len(v[1])
        sep  == Find(trim, ":")
        off  == IntOrElse(IF sep = 0 THEN trim ELSE UpTo(trim, sep - 1), 0)
        from == IF off < 0 THEN len + off ELSE Min({off, len})
        n    == IntOrElse(From(trim, sep + 1), len - from)
        to   == IF sep = 0 THEN len ELSE IF n < 0 THEN Max({len + n, from}) ELSE Min({from + n, len})
    IN  IF k = 0 \/ At(rest, 1) \in {"-", "=", "+", "?"} \/ ~num THEN << >>
        ELSE Done(IF v = << >> THEN << >> ELSE IF from < 0 THEN << >> ELSE SubSeq(v[1], from + 1, to), st)

find_param_operator(t) ==
    LET hit(i) == \/ t[i] = ":" /\ At(t, i + 1) \in {"-", "=", "+", "?"}
                  \/ i > 1 /\ t[i] \in {"-", "=", "+", "?"} /\ \A j \in 1..i - 1 : NameChar(t[j])
                  \/ i > 1 /\ t[i] \in {"#", "%"}
        is == {i \in 1..Len(t) : hit(i) /\ ~(i = 1 /\ t[1] \in {"#", "!"})}
    IN  IF is = {} THEN 0 ELSE Min(is)
param_has_value(v, nonEmpty) == v # << >> /\ (nonEmpty => v[1] # << >>)
expand_param_op(n, o, arg, st, depth) ==
    LET v   == get_var(st, n)
        has == param_has_value(v, o[1] = ":")
        k   == o[Len(o)]
        w   == expand_operand(arg, st, depth + 1)
    IN  CASE k = "-" /\ ~has -> w
          [] k = "=" /\ ~has -> Done(w[1], set_var(w[2], n, w[1]))
          [] o = <<":", "?">> /\ ~has -> Done(<< >>, [st EXCEPT !.shell = "fatal"])
          [] k = "+" -> Done(IF has THEN arg ELSE << >>, st)
          [] k = "#" /\ v # << >> -> Done(strip_prefix_glob(v[1], w[1], Len(o) = 2), w[2])
          [] k = "%" /\ v # << >> -> Done(strip_suffix_glob(v[1], w[1], Len(o) = 2), w[2])
          [] OTHER -> Done(OrEmpty(v), st)
SpecialNames == {<<"?">>, <<"#">>, <<"0">>, <<"@">>, <<"*">>, <<"-">>, <<"$">>, <<"!">>}
PlainParameter(t, st) ==
    LET v == get_var(st, t)
    IN  IF v # << >> THEN Done(v[1], st)
        ELSE IF st.nounset /\ t \notin SpecialNames /\ ParseInt(t) = << >> THEN Done(<< >>, [st EXCEPT !.unbound = t]) ELSE Done(<< >>, st)
WithOperator(t, st, depth) ==
    LET i   == find_param_operator(t)
        len == IF t[i] = ":" \/ At(t, i + 1) = t[i] THEN 2 ELSE 1
    IN  IF i = 0 THEN << >> ELSE expand_param_op(UpTo(t, i - 1), SubSeq(t, i, i + len - 1), From(t, i + len), st, depth)
expand_parameter(t, st, depth) ==
    LET a == try_expand_array_subscript(t, st)     b == try_expand_string_length(t, st)   c == try_expand_indirect_or_prefix(t, st)
        d == try_case_modification(t, st)          e == try_transform_operator(t, st)     f == try_expand_substitution(t, st)
        g == try_expand_substring(t, st)           h == WithOperator(t, st, depth)
    IN  IF a # << >> THEN a ELSE IF b # << >> THEN b ELSE IF c # << >> THEN c ELSE IF d # << >> THEN d ELSE IF e # << >> THEN e
        ELSE IF f # << >> THEN f ELSE IF g # << >> THEN g ELSE IF h # << >> THEN h ELSE PlainParameter(t, st)

-----------------------------------------------------------------------------
(* An operand is expanded again, as far as the depth allows; so is the body   *)
(* of a here-document.                                                        *)

RECURSIVE ClosingBrace(_, _, _), ClosingParens(_, _, _)
ClosingBrace(t, i, depth) ==
    CASE i > Len(t) -> i
      [] At(t, i) = "}" -> IF depth = 1 THEN i ELSE ClosingBrace(t, i + 1, depth - 1)
      [] OTHER -> ClosingBrace(t, i + 1, IF t[i] = "{" THEN depth + 1 ELSE depth)
ClosingParens(t, i, depth) ==
    CASE i > Len(t) -> 0
      [] At(t, i) = ")" -> IF depth > 1 THEN ClosingParens(t, i + 1, depth - 1) ELSE IF At(t, i + 1) = ")" THEN i ELSE 0
      [] OTHER -> ClosingParens(t, i + 1, IF t[i] = "(" THEN depth + 1 ELSE depth)
(* The piece of the operand at i: what it expands to and where it ends.       *)
expand_dollar_in_operand(t, i, st, depth) ==
    LET close  == ClosingBrace(t, i + 2, 1)
        inner  == SubSeq(t, i + 2, close - 1)
        parens == ClosingParens(t, i + 2, 0)
        var    == Run(t, i + 1, NameChar)
    IN  CASE At(t, i + 1) = "{" -> <<IF depth + 1 > MAX_EXPAND_DEPTH THEN Done(inner, st) ELSE expand_parameter(inner, st, depth + 1), close + 1>>
          [] At(t, i + 1) = "(" /\ At(t, i + 2) = "(" ->
                IF parens = 0 THEN <<Done(<<"$">>, st), i + 1>>
                ELSE LET r == eval_arithmetic(SubSeq(t, i + 3, parens - 1), st) IN <<Done(IntText(r.v), r.st), parens + 2>>
          [] At(t, i + 1) # "" /\ NameChar(At(t, i + 1)) /\ ~IsDigit(At(t, i + 1)) -> <<Done(OrEmpty(get_var(st, SubSeq(t, i + 1, var - 1))), st), var>>
          [] OTHER -> <<Done(<<"$">>, st), i + 1>>
RECURSIVE OperandFrom(_, _, _, _)
OperandFrom(t, i, st, depth) ==
    IF i > Len(t) THEN Done(<< >>, st)
    ELSE LET piece == IF t[i] = "$" THEN expand_dollar_in_operand(t, i, st, depth) ELSE <<Done(<<t[i]>>, st), i + 1>>
             rest  == OperandFrom(t, piece[2], piece[1][2], depth)
         IN  Done(piece[1][1] \o rest[1], rest[2])
expand_operand(t, st, depth) == IF depth > MAX_EXPAND_DEPTH \/ ~Holds(t, {"$"}) THEN Done(t, st) ELSE OperandFrom(t, 1, st, depth)

(* The tokens of an expression.  $name is the variable; any other parameter   *)
(* is replaced by its value, and being unset is no error.                     *)
arith_tokenize_dollar(t, i, st) ==
    LET close == ClosingBrace(t, i + 2, 1)
        digits == Run(t, i + 1, IsDigit)
        n     == CASE At(t, i + 1) = "{" -> SubSeq(t, i + 2, close - 1) [] IsDigit(At(t, i + 1)) -> SubSeq(t, i + 1, digits - 1) [] OTHER -> <<At(t, i + 1)>>
        r     == expand_parameter(n, st, 0)
        next  == CASE At(t, i + 1) = "{" -> Min({close + 1, Len(t) + 1}) [] IsDigit(At(t, i + 1)) -> digits [] OTHER -> i + 2
    IN  IF i = Len(t) THEN <<<<Num(0)>>, i + 1, st>>
        ELSE IF NameChar(t[i + 1]) /\ ~IsDigit(t[i + 1]) THEN <<<< >>, i + 1, st>>
        ELSE <<<<Num(IntOf(Trim(r[1])))>>, next, [r[2] EXCEPT !.unbound = << >>]>>
RECURSIVE arith_tokenize(_, _, _)
arith_tokenize(t, i, st) ==
    IF i > Len(t) THEN Done(<< >>, st)
    ELSE LET name == Run(t, i, NameChar)
             one  == CASE t[i] = " " -> <<<< >>, i + 1, st>>
                       [] t[i] = "$" -> arith_tokenize_dollar(t, i, st)
                       [] IsDigit(t[i]) -> LET r == arith_tokenize_number(t, i) IN <<<<r[1]>>, r[2], st>>
                       [] NameChar(t[i]) /\ ~IsDigit(t[i]) -> <<<<Id(SubSeq(t, i, name - 1))>>, name, st>>
                       [] OTHER -> LET r == arith_tokenize_operator(t, i) IN <<r[1], r[2], st>>
             rest == arith_tokenize(t, one[2], one[3])
         IN  Done(one[1] \o rest[1], rest[2])
eval_arithmetic(t, st) ==
    LET r == arith_tokenize(Trim(t), 1, st) IN IF r[1] = << >> THEN [v |-> 0, st |-> r[2]] ELSE Evaluate(r[1], r[2])

-----------------------------------------------------------------------------
(* Braces.                                                                    *)

RECURSIVE BraceEnd(_, _, _)
BraceEnd(w, i, depth) ==
    CASE i > Len(w) -> 0
      [] i > 1 /\ At(w, i - 1) = "\\" -> BraceEnd(w, i + 1, depth)
      [] At(w, i) = "{" -> BraceEnd(w, i + 1, depth + 1)
      [] At(w, i) = "}" /\ depth > 0 -> IF depth = 1 THEN i ELSE BraceEnd(w, i + 1, depth - 1)
      [] OTHER -> BraceEnd(w, i + 1, depth)
(* The first { that is not quoted and the } that closes it.                   *)
find_brace_pair(w) ==
    LET s == {i \in 1..Len(w) : w[i] = "{" /\ (i > 1 => w[i - 1] # "\\")}
        e == BraceEnd(w, 1, 0)
    IN  IF e = 0 THEN << >> ELSE <<Min(s), e>>
RECURSIVE SplitCommas(_, _, _, _)
SplitCommas(t, i, depth, cur) ==
    CASE i > Len(t) -> <<cur>>
      [] At(t, i) = "," /\ depth = 0 -> <<cur>> \o SplitCommas(t, i + 1, depth, << >>)
      [] OTHER -> SplitCommas(t, i + 1, CASE t[i] = "{" -> depth + 1 [] t[i] = "}" -> Max({0, depth - 1}) [] OTHER -> depth, Append(cur, t[i]))
split_brace_items(t) == SplitCommas(t, 1, 0, << >>)
RECURSIVE SplitDots(_, _)
SplitDots(t, n) ==
    LET is == {i \in 1..Len(t) - 1 : t[i] = "." /\ t[i + 1] = "."}
    IN  IF n = 1 \/ is = {} THEN <<t>> ELSE <<UpTo(t, Min(is) - 1)>> \o SplitDots(From(t, Min(is) + 2), n - 1)
Pad(t, width)    == [i \in 1..Max({0, width - Len(t)}) |-> "0"] \o t
generate_range(a, b, step, width, pad) ==
    LET n == IF step > 0 THEN IF b < a THEN 0 ELSE (b - a) \div step + 1 ELSE IF a < b THEN 0 ELSE (a - b) \div (-step) + 1
        cur(i) == a + (i - 1) * step
    IN  [i \in 1..Min({n, MAX_BRACE_ITEMS}) |-> IF pad THEN Pad(IntText(cur(i)), width) ELSE IntText(cur(i))]
LeadingZero(t) == Len(t) > 1 /\ t[1] = "0"
try_brace_range(t) ==
    LET ps   == SplitDots(t, 3)
        a    == ParseInt(ps[1])
        b    == ParseInt(ps[2])
        by   == IF Len(ps) = 3 THEN ParseInt(ps[3]) ELSE <<IF a[1] <= b[1] THEN 1 ELSE -1>>
    IN  IF Len(ps) < 2 THEN << >>
        ELSE IF a = << >> \/ b = << >> THEN << >>
        ELSE IF by \in {<< >>, <<0>>} THEN << >>
        ELSE generate_range(a[1], b[1], by[1], Max({Len(ps[1]), Len(ps[2])}), LeadingZero(ps[1]) \/ LeadingZero(ps[2]))
RECURSIVE expand_braces(_), brace_combine(_, _, _, _)
brace_combine(pre, items, suf, acc) ==
    IF items = << >> \/ Len(acc) >= MAX_BRACE_ITEMS THEN UpTo(acc, Min({Len(acc), MAX_BRACE_ITEMS}))
    ELSE brace_combine(pre, Tail(items), suf, acc \o expand_braces(pre \o Head(items) \o suf))
expand_braces(w) ==
    LET pr    == find_brace_pair(w)
        inner == SubSeq(w, pr[1] + 1, pr[2] - 1)
        range == try_brace_range(inner)
        items == IF range # << >> THEN range ELSE split_brace_items(inner)
    IN  IF pr = << >> THEN <<w>>
        ELSE IF range = << >> /\ Len(items) < 2 THEN <<w>>
        ELSE brace_combine(UpTo(w, pr[1] - 1), items, From(w, pr[2] + 1), << >>)

-----------------------------------------------------------------------------
(* Fields.  A word is a sequence of parts: <<"lit", t>>, <<"sq", t>>,         *)
(* <<"param", t>>, <<"arith", t>> and <<"dq", parts>>.  A field is its text   *)
(* and, for each character, whether quotes protect it.                        *)

Field(t, m) == [t |-> t, m |-> m]
Marked(t, q) == Field(t, [i \in 1..Len(t) |-> q])
Glue(f, g)  == Field(f.t \o g.t, f.m \o g.m)
Empty       == Field(<< >>, << >>)
is_multi_field_parameter_name(t) ==
    t = <<"@">> \/ \E i \in 1..Len(t) - 2 : /\ SubSeq(t, i, i + 2) = <<"[", "@", "]">> /\ At(t, i + 3) \in {"", ":"}
                                            /\ \A j \in 1..i - 1 : SubSeq(t, j, j + 2) # <<"[", "@", "]">>
RECURSIVE word_has_multi_field_parameter(_)
word_has_multi_field_parameter(w) ==
    \E i \in 1..Len(w) : CASE w[i][1] = "param" -> is_multi_field_parameter_name(w[i][2]) [] w[i][1] = "dq" -> word_has_multi_field_parameter(w[i][2]) [] OTHER -> FALSE
(* The atoms of a word: <<fields, whether they came from $@ or an array>>.    *)
RECURSIVE collect_multi_atoms(_, _, _, _)
collect_multi_atoms(w, st, q, multi) ==
    IF w = << >> THEN Done(<< >>, st)
    ELSE LET k  == Head(w)[1]
             x  == Head(w)[2]
             es == IF k = "param" /\ multi THEN array_multi_expansion(x, st) ELSE << >>
             v  == CASE k = "param" -> expand_parameter(x, st, 1)
                     [] k = "arith" -> LET r == eval_arithmetic(x, st) IN Done(IntText(r.v), r.st)
                     [] OTHER -> Done(x, st)
             one == CASE k = "dq" -> collect_multi_atoms(x, st, TRUE, multi)
                      [] es # << >> -> Done(<<[fields |-> [i \in 1..Len(es[1]) |-> Marked(es[1][i], q)], multi |-> TRUE]>>, st)
                      [] OTHER -> Done(<<[fields |-> <<Marked(v[1], q \/ k = "sq")>>, multi |-> FALSE]>>, v[2])
             rest == collect_multi_atoms(Tail(w), one[2], q, multi)
         IN  Done(one[1] \o rest[1], rest[2])
(* The first element joins what stands before it, what follows joins the last.*)
expand_word_multi(atoms) ==
    LET all == FoldLeft(LAMBDA acc, a : IF a.fields = << >> THEN acc ELSE Front(acc) \o <<Glue(Last(acc), Head(a.fields))>> \o Tail(a.fields), <<Empty>>, atoms)
        text == \E i \in 1..Len(atoms) : IF atoms[i].multi THEN atoms[i].fields # << >> ELSE atoms[i].fields[1].t # << >>
    IN  IF ~text /\ all = <<Empty>> THEN << >> ELSE all
Tilde(f, st) ==
    LET home == get_var(st, <<"H">>)
    IN  IF At(f.t, 1) = "~" /\ At(f.t, 2) \in {"", "/"} /\ home # << >> THEN Marked(home[1] \o Tail(f.t), FALSE) ELSE f
expand_words_argv(w, st) ==
    LET multi == word_has_multi_field_parameter(w)
        atoms == collect_multi_atoms(w, st, FALSE, multi)
        one   == FoldLeft(LAMBDA acc, a : Glue(acc, a.fields[1]), Empty, atoms[1])
    IN  IF multi /\ \E i \in 1..Len(atoms[1]) : atoms[1][i].multi THEN Done(expand_word_multi(atoms[1]), atoms[2])
        ELSE Done(<<Tilde(one, atoms[2])>>, atoms[2])

(* Pathnames.  Only the part after the last slash is a pattern; quoted        *)
(* metacharacters are escaped before it is matched.                           *)
(* Mutant: quoted metacharacters are not escaped.                             *)
unescaped_metachars(f) == f.t
escape_masked_metachars(f) ==
    FlattenSeq([i \in 1..Len(f.t) |-> IF f.m[i] /\ f.t[i] \in {"*", "?", "[", "\\"} THEN <<"\\", f.t[i]>> ELSE <<f.t[i]>>])
read_glob_matches(dir, p, opts) ==
    LET ns == IF dir \in DOMAIN Listing THEN {n \in Listing[dir] : glob_match_ext(p, n, opts.dotglob, opts.extglob)} ELSE {}
        ts == SortTexts({dir \o n : n \in ns})
    IN  ts
finalize_glob_matches(t, ms, opts) == IF ms # << >> THEN ms ELSE IF opts.nullglob THEN << >> ELSE <<t>>
Slash(t)  == SelectLastInSeq(t, LAMBDA c : c = "/")
ActiveGlob(f) == \E i \in 1..Len(f.t) : ~f.m[i] /\ f.t[i] \in {"*", "?", "["}
Part(f, a, b) == Field(SubSeq(f.t, a, b), SubSeq(f.m, a, b))
expand_masked_glob_arg(f, opts) ==
    LET k == Slash(f.t)
    IN  IF ~ActiveGlob(f) \/ ActiveGlob(Part(f, 1, k)) THEN <<f.t>>
        ELSE finalize_glob_matches(f.t, read_glob_matches(UpTo(f.t, k), escape_masked_metachars(Part(f, k + 1, Len(f.t))), opts), opts)
(* ** walks the directories below; it stands for none of them, too, but not   *)
(* at the end of the pattern.                                                 *)
RECURSIVE SplitSlashes(_), globstar_walk(_, _, _)
SplitSlashes(t) == LET k == Find(t, "/") IN IF k = 0 THEN <<t>> ELSE <<UpTo(t, k - 1)>> \o SplitSlashes(From(t, k + 1))
globstar_walk(dir, segs, opts) ==
    LET names  == IF dir \in DOMAIN Listing THEN Listing[dir] ELSE {}
        below(n) == dir \o n \o <<"/">>
        hits   == {n \in names : glob_match_ext(segs[1], n, opts.dotglob, opts.extglob)}
    IN  IF segs[1] = <<"*", "*">> THEN (IF Len(segs) > 1 THEN globstar_walk(dir, Tail(segs), opts) ELSE {})
                                       \cup UNION {globstar_walk(below(n), segs, opts) : n \in {m \in names : (At(m, 1) = "." => opts.dotglob) /\ below(m) \in DOMAIN Listing}}
        ELSE IF Len(segs) = 1 THEN {dir \o n : n \in hits}
        ELSE UNION {globstar_walk(below(n), Tail(segs), opts) : n \in {m \in hits : below(m) \in DOMAIN Listing}}
expand_globstar_arg(t, opts) == finalize_glob_matches(t, SortTexts(globstar_walk(<< >>, SplitSlashes(t), opts)), opts)
HasClass(t) == Holds(t, {"["}) /\ Holds(t, {"]"})
expand_glob_arg(t, opts) ==
    LET k == Slash(t)
    IN  IF ~(Holds(t, {"*", "?"}) \/ HasClass(t) \/ (opts.extglob /\ has_extglob_pattern(t))) THEN <<t>>
        ELSE IF opts.globstar /\ (\E i \in 1..Len(t) - 1 : t[i] = "*" /\ t[i + 1] = "*") THEN expand_globstar_arg(t, opts)
        ELSE finalize_glob_matches(t, IF Holds(UpTo(t, k), {"*", "?", "["}) THEN << >> ELSE read_glob_matches(UpTo(t, k), From(t, k + 1), opts), opts)
(* The arguments one word of a command becomes.                               *)
Braced(f) == LET ws == expand_braces(f.t) IN [i \in 1..Len(ws) |-> Marked(ws[i], FALSE)]
Fielded(f) == IF \E i \in 1..Len(f.m) : f.m[i] THEN <<f>> ELSE Braced(f)
Globbed(f, opts) ==
    CASE opts.noglob -> <<f.t>>
      [] ~opts.noglob /\ (\E i \in 1..Len(f.m) : f.m[i]) -> expand_masked_glob_arg(f, opts)
      [] OTHER -> expand_glob_arg(f.t, opts)
expand_globs_tagged(fs, opts) ==
    LET args == FlattenSeq([i \in 1..Len(fs) |-> Globbed(fs[i], opts)]) IN UpTo(args, Min({Len(args), MAX_GLOB_RESULTS}))
execute_exec_argv(w, st, opts) ==
    LET r == expand_words_argv(w, st) IN Done(expand_globs_tagged(FlattenSeq([i \in 1..Len(r[1]) |-> Fielded(r[1][i])]), opts), r[2])

-----------------------------------------------------------------------------
(* The list of a for loop splits what is not quoted at blanks; a command's    *)
(* words are not split.                                                       *)

expand_word(w, st) ==
    LET atoms == collect_multi_atoms(w, st, FALSE, FALSE)
    IN  Done(Tilde(FoldLeft(LAMBDA acc, a : Glue(acc, a.fields[1]), Empty, atoms[1]), atoms[2]).t, atoms[2])
RECURSIVE SplitBlanks(_)
SplitBlanks(t) == LET k == Find(t, " ") IN IF k = 0 THEN <<t>> ELSE <<UpTo(t, k - 1)>> \o SplitBlanks(From(t, k + 1))
(* acc: the fields that are complete and the one being collected.             *)
split_unquoted(t, acc) ==
    LET ps == SelectSeq(SplitBlanks(t), LAMBDA p : p # << >>)
    IN  FoldLeft(LAMBDA a, i : IF i = 1 \/ a.cur = << >> THEN [a EXCEPT !.cur = @ \o ps[i]] ELSE [a EXCEPT !.out = Append(@, a.cur), !.cur = ps[i]],
                 acc, [i \in 1..Len(ps) |-> i])
PutElements(es, acc) ==
    FoldLeft(LAMBDA a, i : IF i = 1 THEN [a EXCEPT !.cur = @ \o es[1]] ELSE [a EXCEPT !.out = Append(@, a.cur), !.cur = es[i]], acc, [i \in 1..Len(es) |-> i])
RECURSIVE split_for_parts(_, _, _)
split_for_parts(w, q, acc) ==
    IF w = << >> THEN acc
    ELSE LET k  == Head(w)[1]
             x  == Head(w)[2]
             es == IF k = "param" /\ q THEN array_multi_expansion(x, acc.st) ELSE << >>
             v  == expand_word(<<Head(w)>>, acc.st)
             b  == [acc EXCEPT !.st = v[2]]
             one == CASE k \in {"lit", "sq"} -> [acc EXCEPT !.cur = @ \o x, !.quoted = @ \/ k = "sq"]
                      [] k = "dq" -> split_for_parts(x, TRUE, [acc EXCEPT !.quoted = TRUE])
                      [] OTHER -> IF es # << >> THEN PutElements(es[1], acc) ELSE IF q THEN [b EXCEPT !.cur = @ \o v[1]] ELSE split_unquoted(v[1], b)
         IN  split_for_parts(Tail(w), q, one)
split_for_word(w, st) ==
    LET r == split_for_parts(w, FALSE, [cur |-> << >>, out |-> << >>, quoted |-> FALSE, st |-> st])
    IN  Done(IF r.cur # << >> \/ r.quoted THEN Append(r.out, r.cur) ELSE r.out, r.st)
expand_for_words(w, st, opts) ==
    LET r  == split_for_word(w, st)
        fs == FlattenSeq([i \in 1..Len(r[1]) |-> expand_braces(r[1][i])])
    IN  Done(FlattenSeq([i \in 1..Len(fs) |-> IF opts.noglob THEN <<fs[i]>> ELSE expand_glob_arg(fs[i], opts)]), r[2])

-----------------------------------------------------------------------------
(* Assignments.  A value in parentheses is an array, whatever it came from.   *)

parse_array_elements(t) ==
    LET step(a, c) ==
            CASE a.esc -> [a EXCEPT !.esc = FALSE, !.cur = Append(@, c)]
              [] ~a.esc /\ c = "\\" /\ a.q # "'" -> [a EXCEPT !.esc = TRUE]
              [] ~a.esc /\ c \in {"'", "\""} /\ a.q \in {"", c} -> [a EXCEPT !.q = IF @ = c THEN "" ELSE c]
              [] ~a.esc /\ c = " " /\ a.q = "" -> [a EXCEPT !.out = IF a.cur = << >> THEN @ ELSE Append(@, a.cur), !.cur = << >>]
              [] OTHER -> [a EXCEPT !.cur = Append(@, c)]
        r == FoldLeft(step, [out |-> << >>, cur |-> << >>, q |-> "", esc |-> FALSE], t)
    IN  IF r.cur = << >> THEN r.out ELSE Append(r.out, r.cur)
RECURSIVE parse_assoc_pairs(_)
parse_assoc_pairs(t) ==
    LET s == Run(t, 1, LAMBDA c : c = " ")
        k == Run(t, s + 1, LAMBDA c : c # "]")
        v == IF At(t, k + 1) = "=" THEN k + 2 ELSE k + 1
        q == At(t, v)
        e == IF q \in {"'", "\""} THEN Run(t, v + 1, LAMBDA c : c # q) ELSE Run(t, v, LAMBDA c : c # " ")
    IN  IF s > Len(t) THEN << >>
        ELSE IF t[s] # "[" THEN parse_assoc_pairs(From(t, Run(t, s, LAMBDA c : c # " ")))
        ELSE <<<<SubSeq(t, s + 1, k - 1), SubSeq(t, IF q \in {"'", "\""} THEN v + 1 ELSE v, e - 1)>>>>
             \o parse_assoc_pairs(From(t, IF q \in {"'", "\""} THEN e + 1 ELSE e))
HasPair(t) == \E i \in 1..Len(t) - 1 : t[i] = "]" /\ t[i + 1] = "="
assign_compound_array(st, n, t, add) ==
    LET es == parse_array_elements(t)
    IN  IF add THEN append_array(st, n, es)
        ELSE IF es # << >> /\ HasPair(t) /\ Holds(t, {"["}) THEN assign_assoc_array(st, n, parse_assoc_pairs(t)) ELSE assign_indexed_array(st, n, es)
InParentheses(t) == Len(t) > 1 /\ t[1] = "(" /\ Last(t) = ")"
Inner(t) == SubSeq(t, 2, Len(t) - 1)
Computed(t, st) == LET r == eval_arithmetic(t, st) IN Done(IntText(r.v), r.st)
resolve_scalar_assignment_value(st, n, t, add) ==
    LET old == OrEmpty(get_var(st, n))
    IN  IF Attr(st, n).integer THEN Computed(IF add THEN old \o <<"+">> \o t ELSE t, st) ELSE Done(IF add THEN old \o t ELSE t, st)
(* name=w, name+=w and name[i]=w; w is a word.  A readonly name fails.        *)
execute_assignment(st, n, idx, add, w) ==
    LET v == expand_word(w, st)
        t == Trim(v[1])
        r == resolve_scalar_assignment_value(v[2], n, v[1], add)
    IN  IF idx # << >> THEN set_array_element(v[2], n, idx, v[1])
        ELSE IF Readonly(st, n) THEN [st EXCEPT !.status = 1]
        ELSE IF InParentheses(t) THEN assign_compound_array(v[2], n, Inner(t), add)
        ELSE set_var(r[2], n, r[1])
(* declare [-aAirxn] name[=t]: a name without a value is set to nothing.      *)
declare_one_name(st, n, flags, t) ==
    LET a == IF "A" \in flags THEN init_assoc_array(st, n) ELSE IF "a" \in flags THEN init_indexed_array(st, n) ELSE st
        v == IF "i" \in flags THEN Computed(Trim(t[1]), a) ELSE Done(Trim(t[1]), a)
        b == CASE t = << >> -> IF flags \cap {"a", "A"} = {} /\ get_var(a, n) = << >> THEN set_var(a, n, << >>) ELSE a
               [] t # << >> -> IF ~InParentheses(Trim(t[1])) THEN set_var(v[2], n, v[1])
                               ELSE IF "A" \in flags \/ HasPair(t[1]) THEN assign_assoc_array(a, n, parse_assoc_pairs(Inner(Trim(t[1]))))
                               ELSE assign_indexed_array(a, n, parse_array_elements(Inner(Trim(t[1]))))
        c == FoldSet(LAMBDA f, s : declare_apply_attributes(s, n, f), b, flags \ {"a", "A", "n"})
    IN  IF "n" \in flags THEN declare_apply_nameref(c, n, as_scalar(Attr(c, n).v)) ELSE c

=============================================================================
