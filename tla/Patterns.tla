------------------------------- MODULE Patterns -------------------------------
(* Pattern matching: the glob matcher of parameter expansion (wasmsh-expand), *)
(* the glob, extended glob and regular expression matchers of the runtime     *)
(* (pattern.rs), and the [[ ... ]] evaluator built on them (dbl_bracket.rs).  *)
(* A text is a sequence of characters; the matchers work on the text of the   *)
(* pattern, as the code does, and positions start at 1.                       *)
EXTENDS Integers, Sequences, SequencesExt, FiniteSets, FiniteSetsExt

CONSTANTS MaxReps,   \* how often *(...) and +(...) are unrolled, 20 in the code
          Files      \* the files a [[ ]] test may name: path -> [dir, size]

(* The characters, in the order of their codes.                               *)
Chars == <<" ", "!", "\"", "#", "$", "%", "&", "'", "(", ")", "*", "+", ",", "-", ".", "/", "0", "1", "2", "3", "4", "5", "6", "7", "8", "9",
           ":", "<", "=", ">", "?", "@", "A", "B", "C", "Q", "U", "L", "[", "\\", "]", "^", "a", "b", "c", "d", "r", "v", "w", "x", "{", "|", "}", "~">>
CharSet == ToSet(Chars)
Rank    == [c \in CharSet |-> CHOOSE i \in 1..Len(Chars) : Chars[i] = c]
Lower   == [c \in CharSet |-> CASE c = "A" -> "a" [] c = "B" -> "b" [] c = "C" -> "c" [] OTHER -> c]
Between(lo, c, hi) == Rank[lo] <= Rank[c] /\ Rank[c] <= Rank[hi]
At(s, i)    == IF i \in 1..Len(s) THEN s[i] ELSE ""
From(s, i)  == SubSeq(s, i, Len(s))
UpTo(s, i)  == SubSeq(s, 1, i)
Holds(s, cs) == \E i \in 1..Len(s) : s[i] \in cs
FirstOf(rs) == LET k == SelectInSeq(rs, LAMBDA r : r # << >>) IN IF k = 0 THEN << >> ELSE rs[k]

-----------------------------------------------------------------------------
(* Globs.  Both matchers keep the last * and let it take one character more   *)
(* whenever the rest does not match.  They read bracket classes differently:  *)
(* in the expander a - before the ] is a member and a class that is not       *)
(* closed is an ordinary [; in the runtime the last character of the pattern  *)
(* closes it, and a backslash quotes the next character.                      *)

RECURSIVE ClassItems(_, _, _, _, _, _)
(* A ] that comes first is a member.                                          *)
ClassItems(d, p, i, first, hit, c) ==
    CASE At(p, i) = "" -> <<i, hit, FALSE>>
      [] At(p, i) = "]" /\ ~first -> <<i + 1, hit, TRUE>>
      [] (At(p, i) = "]" => first) /\ At(p, i) # "" /\ At(p, i + 1) = "-" /\ At(p, i + 2) # "" /\ (d = "expand" => "]" \notin {p[i], p[i + 2]}) ->
            ClassItems(d, p, i + 3, FALSE, hit \/ Between(p[i], c, p[i + 2]), c)
      [] OTHER -> ClassItems(d, p, i + 1, FALSE, hit \/ p[i] = c, c)
Negated(p, i) == At(p, i) \in {"!", "^"}
(* Results: where the pattern goes on after matching c, or 0.                 *)
bracket_class_matches(p, i, c) ==
    LET neg == Negated(p, i + 1)
        r   == ClassItems("expand", p, IF neg THEN i + 2 ELSE i + 1, TRUE, FALSE, c)
    IN  IF r[3] THEN IF r[2] # neg THEN r[1] ELSE 0 ELSE IF c = "[" THEN i + 1 ELSE 0
match_single(p, i, c) ==
    CASE At(p, i) = "" -> 0
      [] p[i] = "?" -> i + 1
      [] p[i] = "[" -> bracket_class_matches(p, i, c)
      [] OTHER -> IF p[i] = c THEN i + 1 ELSE 0
glob_match_char_class(p, i, c) ==
    LET neg == Negated(p, i)
        r   == ClassItems("runtime", p, IF neg THEN i + 1 ELSE i, TRUE, FALSE, c)
    IN  IF r[2] # neg THEN r[1] ELSE 0
glob_step(p, i, c) ==
    CASE At(p, i) = "" -> 0
      [] p[i] = "?" -> i + 1
      [] p[i] = "[" -> glob_match_char_class(p, i + 1, c)
      [] p[i] = "\\" /\ i < Len(p) -> IF p[i + 1] = c THEN i + 2 ELSE 0
      [] OTHER -> IF p[i] = c THEN i + 1 ELSE 0
Step(d, p, i, c) == IF d = "expand" THEN match_single(p, i, c) ELSE glob_step(p, i, c)
AllStars(p, i) == \A k \in i..Len(p) : p[k] = "*"

RECURSIVE GlobLoop(_, _, _, _, _, _, _)
(* pi and ni are where the pattern and the name stand; the last star is at sp *)
(* (0: none yet) and has taken the name up to sn.                             *)
GlobLoop(d, p, n, pi, ni, sp, sn) ==
    IF ni > Len(n) THEN AllStars(p, pi)
    ELSE IF At(p, pi) = "*" THEN GlobLoop(d, p, n, pi + 1, ni, pi, ni)
    ELSE LET next == Step(d, p, pi, n[ni])
         IN  IF next # 0 THEN GlobLoop(d, p, n, next, ni + 1, sp, sn)
             ELSE sp # 0 /\ GlobLoop(d, p, n, sp + 1, sn + 1, sp, sn + 1)
simple_glob_match(p, t) == GlobLoop("expand", p, t, 1, 1, 0, 0)
glob_match_inner(p, n)  == GlobLoop("runtime", p, n, 1, 1, 0, 0)

-----------------------------------------------------------------------------
(* Extended globs: the first operator is replaced by what it may stand for.   *)

ExtOps == {"?", "*", "+", "@", "!"}
RECURSIVE MatchingParen(_, _, _, _)
(* The ) that closes the group whose contents start at i, or 0.               *)
MatchingParen(p, i, depth, escapes) ==
    CASE i > Len(p) -> 0
      [] escapes /\ p[i] = "\\" -> MatchingParen(p, i + 2, depth, escapes)
      [] p[i] = "(" -> MatchingParen(p, i + 1, depth + 1, escapes)
      [] p[i] = ")" -> IF depth = 1 THEN i ELSE MatchingParen(p, i + 1, depth - 1, escapes)
      [] OTHER -> MatchingParen(p, i + 1, depth, escapes)
RECURSIVE SplitBars(_, _, _, _, _)
SplitBars(p, i, depth, cur, escapes) ==
    CASE i > Len(p) -> <<cur>>
      [] escapes /\ p[i] = "\\" /\ i < Len(p) -> SplitBars(p, i + 2, depth, cur \o SubSeq(p, i, i + 1), escapes)
      [] p[i] = "|" /\ depth = 0 -> <<cur>> \o SplitBars(p, i + 1, depth, << >>, escapes)
      [] OTHER -> SplitBars(p, i + 1, CASE p[i] = "(" -> depth + 1 [] p[i] = ")" -> depth - 1 [] OTHER -> depth, Append(cur, p[i]), escapes)
split_alternatives(p) == SplitBars(p, 1, 0, << >>, FALSE)
has_extglob_pattern(p) == \E i \in 1..Len(p) - 1 : p[i] \in ExtOps /\ p[i + 1] = "("
find_extglob_operator(p) ==
    LET is == {i \in 1..Len(p) - 1 : p[i] \in ExtOps /\ p[i + 1] = "(" /\ MatchingParen(p, i + 2, 1, FALSE) # 0}
    IN  IF is = {} THEN 0 ELSE Min(is)

RECURSIVE extglob_match(_, _), extglob_star(_, _, _, _, _)
extglob_star(pre, alts, suf, n, depth) ==
    /\ depth <= MaxReps
    /\ \/ extglob_match(pre \o suf, n)
       \/ \E k \in 1..Len(alts) : alts[k] # << >> /\ extglob_star(pre \o alts[k], alts, suf, n, depth + 1)
extglob_plus(pre, alts, suf, n) == \E k \in 1..Len(alts) : extglob_star(pre \o alts[k], alts, suf, n, 1)
AnyAlt(pre, alts, suf, n) == \E k \in 1..Len(alts) : extglob_match(pre \o alts[k] \o suf, n)
extglob_match(p, n) ==
    LET i     == find_extglob_operator(p)
        close == MatchingParen(p, i + 2, 1, FALSE)
        alts  == split_alternatives(SubSeq(p, i + 2, close - 1))
        pre   == UpTo(p, i - 1)
        suf   == From(p, close + 1)
    IN  CASE i = 0 -> glob_match_inner(p, n)
          [] i # 0 /\ p[i] = "@" -> AnyAlt(pre, alts, suf, n)
          [] i # 0 /\ p[i] = "?" -> extglob_match(pre \o suf, n) \/ AnyAlt(pre, alts, suf, n)
          [] i # 0 /\ p[i] = "*" -> extglob_star(pre, alts, suf, n, 0)
          [] i # 0 /\ p[i] = "+" -> extglob_plus(pre, alts, suf, n)
          [] i # 0 /\ p[i] = "!" -> ~AnyAlt(pre, alts, suf, n) /\ glob_match_inner(pre \o <<"*">> \o suf, n)
(* A name that starts with a dot needs a pattern that does.                   *)
glob_match_ext(p, n, dotglob, extglob) ==
    /\ At(n, 1) = "." => At(p, 1) = "." \/ dotglob
    /\ IF extglob /\ has_extglob_pattern(p) THEN extglob_match(p, n) ELSE glob_match_inner(p, n)

-----------------------------------------------------------------------------
(* Regular expressions.  An element is its length in the pattern and the      *)
(* characters it matches; a match is << >> or where it ended and what its     *)
(* groups captured.                                                           *)

RECURSIVE RxClassItems(_, _)
RxClassItems(p, i) ==
    CASE At(p, i) \in {"", "]"} -> <<i, {}>>
      [] At(p, i) \notin {"", "]"} /\ At(p, i + 1) = "-" /\ i + 2 <= Len(p) ->
            LET r == RxClassItems(p, i + 3) IN <<r[1], r[2] \cup {c \in CharSet : Between(p[i], c, p[i + 2])}>>
      [] OTHER -> LET r == RxClassItems(p, i + 1) IN <<r[1], r[2] \cup {p[i]}>>
parse_regex_char_class(p) ==
    LET neg == Negated(p, 2)
        r   == RxClassItems(p, IF neg THEN 3 ELSE 2)
    IN  <<IF r[1] <= Len(p) THEN r[1] ELSE r[1] - 1, IF neg THEN CharSet \ r[2] ELSE r[2]>>
parse_regex_elem(p) ==
    CASE p[1] = "." -> <<1, CharSet>>
      [] p[1] = "[" -> parse_regex_char_class(p)
      [] p[1] = "\\" /\ Len(p) > 1 -> <<2, {p[2]}>>
      [] OTHER -> <<1, {p[1]}>>
Quantifiers == {"*", "+", "?"}
(* The lengths an element may take of t from i on, in the order tried.        *)
Counts(t, i, set, q) ==
    LET run == SelectInSubSeq(t, i, Len(t), LAMBDA c : c \notin set)
        n   == IF run = 0 THEN Len(t) + 1 - i ELSE run - i
        lo  == IF q = "*" \/ q = "?" THEN 0 ELSE 1
        hi  == IF q \in {"*", "+"} THEN n ELSE IF n > 0 THEN 1 ELSE 0
    IN  [k \in 1..IF hi < lo THEN 0 ELSE hi - lo + 1 |-> hi + 1 - k]
Alternatives(p, close) == SplitBars(SubSeq(p, 2, close - 1), 1, 0, << >>, TRUE)

RECURSIVE regex_try_match_inner(_, _, _)
(* Inside a group: <<end>> or << >>.  A quantifier after an inner group is    *)
(* not looked at.                                                             *)
regex_try_match_inner(t, i, p) ==
    IF p = << >> THEN <<i>>
    ELSE IF p[1] = "(" THEN
        LET close == MatchingParen(p, 2, 1, TRUE)
            alts  == Alternatives(p, close)
        IN  IF close = 0 THEN << >>
            ELSE FirstOf([k \in 1..Len(alts) |->
                     LET r == regex_try_match_inner(t, i, alts[k]) IN IF r = << >> THEN r ELSE regex_try_match_inner(t, r[1], From(p, close + 1))])
    ELSE LET e  == parse_regex_elem(p)
             q  == At(p, e[1] + 1)
             cs == Counts(t, i, e[2], q)
         IN  FirstOf([k \in 1..Len(cs) |-> regex_try_match_inner(t, i + cs[k], From(p, IF q \in Quantifiers THEN e[1] + 2 ELSE e[1] + 1))])

RECURSIVE regex_match_group_repeated(_, _, _, _, _)
regex_match_group_repeated(t, s, e, alts, min) ==
    IF s >= e THEN s = e /\ min = 0
    ELSE \E k \in 1..Len(alts) :
             LET r == regex_try_match_inner(t, s, alts[k])
             IN  /\ r # << >> /\ r[1] > s /\ r[1] <= e
                 /\ (r[1] = e /\ min <= 1) \/ regex_match_group_repeated(t, r[1], e, alts, IF min = 0 THEN 0 ELSE min - 1)

RECURSIVE regex_match_capturing(_, _, _, _)
(* The rest of the pattern after a group that took the text from s to e.      *)
AfterGroup(t, s, e, after, end) ==
    LET r == regex_match_capturing(t, e, after, end) IN IF r = << >> THEN r ELSE <<r[1], <<SubSeq(t, s, e - 1)>> \o r[2]>>
OneAlternative(t, i, alts, after, end) ==
    FirstOf([k \in 1..Len(alts) |-> LET r == regex_try_match_inner(t, i, alts[k]) IN IF r = << >> THEN r ELSE AfterGroup(t, i, r[1], after, end)])
Repeats(t, i, alts, after, end, min) ==
    FirstOf([k \in 1..Len(t) + 2 - i |->
        LET e == Len(t) + 2 - k IN IF regex_match_group_repeated(t, i, e, alts, min) THEN AfterGroup(t, i, e, after, end) ELSE << >>])
regex_match_group(t, i, p, end) ==
    LET close == MatchingParen(p, 2, 1, TRUE)
        q     == At(p, close + 1)
        alts  == Alternatives(p, close)
        after == From(p, IF q \in Quantifiers THEN close + 2 ELSE close + 1)
        one   == OneAlternative(t, i, alts, after, end)
    IN  CASE close = 0 -> << >>
          [] close # 0 /\ q = "+" -> Repeats(t, i, alts, after, end, 1)
          [] close # 0 /\ q = "*" -> Repeats(t, i, alts, after, end, 0)
          [] close # 0 /\ q = "?" -> IF one # << >> THEN one ELSE AfterGroup(t, i, i, after, end)
          [] OTHER -> one
regex_match_elem(t, i, p, end) ==
    LET e  == parse_regex_elem(p)
        q  == At(p, e[1] + 1)
        cs == Counts(t, i, e[2], q)
    IN  FirstOf([k \in 1..Len(cs) |-> regex_match_capturing(t, i + cs[k], From(p, IF q \in Quantifiers THEN e[1] + 2 ELSE e[1] + 1), end)])
regex_match_capturing(t, i, p, end) ==
    IF p = << >> THEN IF end /\ i <= Len(t) THEN << >> ELSE <<i, << >>>>
    ELSE IF p[1] = "(" THEN regex_match_group(t, i, p, end) ELSE regex_match_elem(t, i, p, end)

has_regex_metachar(p) == Holds(p, {".", "+", "*", "?", "[", "(", "|"})
literal_match_range(t, p, start, end) ==
    LET at == {s \in 1..Len(t) + 1 : s + Len(p) <= Len(t) + 1 /\ SubSeq(t, s, s + Len(p) - 1) = p
                                     /\ (start => s = 1) /\ (end => s + Len(p) = Len(t) + 1)}
    IN  IF at = {} THEN << >> ELSE <<p>>
(* What [[ t =~ p ]] captures, the whole match first, or << >>.               *)
regex_match_with_captures(t, p) ==
    LET start == At(p, 1) = "^"
        end   == p # << >> /\ Last(p) = "$" /\ ~(Len(p) > 1 /\ p[Len(p) - 1] = "\\")
        core  == SubSeq(p, IF start THEN 2 ELSE 1, IF end THEN Len(p) - 1 ELSE Len(p))
    IN  IF ~has_regex_metachar(core) THEN literal_match_range(t, core, start, end)
        ELSE FirstOf([s \in 1..IF start THEN 1 ELSE Len(t) + 1 |->
                 LET r == regex_match_capturing(t, s, core, end) IN IF r = << >> THEN r ELSE <<SubSeq(t, s, r[1] - 1)>> \o r[2]])

-----------------------------------------------------------------------------
(* [[ ... ]].  A token is a text; one that stands for an operator is a single *)
(* symbol.  Evaluation carries the value so far, the position, what           *)
(* BASH_REMATCH holds and whether nocasematch is set.                         *)

Tok(o)     == <<o>>
BinaryOps  == {"==", "!=", "=~", "=", "<", ">", "-eq", "-ne", "-lt", "-le", "-gt", "-ge", "-ef", "-nt", "-ot"}
FileFlags  == {"-f", "-d", "-e", "-s", "-r", "-w", "-x", "-L", "-h", "-p", "-S", "-t", "-N", "-O", "-G"}
TokAt(ts, i) == IF i \in 1..Len(ts) THEN ts[i] ELSE Tok("none")
IsOneOf(t, os) == \E o \in os : t = Tok(o)
Digit      == [c \in {"0", "1", "2", "3", "4", "5", "6", "7", "8", "9"} |-> Rank[c] - Rank["0"]]
Unsigned(t) == FoldLeft(LAMBDA acc, c : 10 * acc + Digit[c], 0, t)
(* <<n>> when the text is a decimal number, << >> otherwise.                  *)
ParseInt(t) ==
    LET ds == IF At(t, 1) \in {"-", "+"} THEN Tail(t) ELSE t
    IN  IF ds = << >> \/ \E i \in 1..Len(ds) : ds[i] \notin DOMAIN Digit THEN << >>
        ELSE <<IF t[1] = "-" THEN -Unsigned(ds) ELSE Unsigned(ds)>>
Trim(t) ==
    LET is == {i \in 1..Len(t) : t[i] # " "} IN IF is = {} THEN << >> ELSE SubSeq(t, Min(is), Max(is))
IntOr0(t)  == LET n == ParseInt(Trim(t)) IN IF n = << >> THEN 0 ELSE n[1]
RECURSIVE TextBefore(_, _)
TextBefore(s, t) ==
    CASE t = << >> -> FALSE [] s = << >> -> t # << >>
      [] OTHER -> IF s[1] = t[1] THEN TextBefore(Tail(s), Tail(t)) ELSE Rank[s[1]] < Rank[t[1]]
eval_int_cmp(a, o, b) ==
    CASE o = "-eq" -> a = b [] o = "-ne" -> a # b [] o = "-lt" -> a < b [] o = "-le" -> a <= b [] o = "-gt" -> a > b [] o = "-ge" -> a >= b
eval_file_test(flag, path) ==
    CASE flag = "-t" -> path = <<"0">>
      [] OTHER -> /\ path \in DOMAIN Files
                  /\ CASE flag = "-f" -> ~Files[path].dir [] flag = "-d" -> Files[path].dir
                       [] flag \in {"-s", "-N"} -> Files[path].size > 0
                       [] OTHER -> flag \in {"-e", "-r", "-w", "-x", "-O", "-G"}
ToLower(t) == [i \in 1..Len(t) |-> Lower[t[i]]]
glob_cmp(l, r, nocase) == IF nocase THEN glob_match_inner(ToLower(r), ToLower(l)) ELSE glob_match_inner(r, l)
(* An operator over two texts and what it leaves in BASH_REMATCH.             *)
eval_binary_op(l, o, r, m, nocase) ==
    LET caps == regex_match_with_captures(l, r)
    IN  CASE o \in {"==", "="} -> <<glob_cmp(l, r, nocase), m>>
          [] o = "!=" -> <<~glob_cmp(l, r, nocase), m>>
          [] o = "=~" -> <<caps # << >>, caps>>
          [] o = "<" -> <<TextBefore(l, r), m>>
          [] o = ">" -> <<TextBefore(r, l), m>>
          [] o = "-ef" -> <<l = r, m>>
          [] o = "-nt" -> <<eval_file_test("-e", l) /\ ~eval_file_test("-e", r), m>>
          [] o = "-ot" -> <<~eval_file_test("-e", l) /\ eval_file_test("-e", r), m>>
          [] OTHER -> <<eval_int_cmp(IntOr0(l), o, IntOr0(r)), m>>

RECURSIVE dbl_bracket_eval_or(_, _), dbl_bracket_eval_and(_, _), dbl_bracket_eval_not(_, _), OrRest(_, _), AndRest(_, _)
Skip(e, n) == [e EXCEPT !.i = @ + n]
OrRest(ts, e) ==
    IF TokAt(ts, e.i) # Tok("||") THEN e
    ELSE LET r == dbl_bracket_eval_and(ts, Skip(e, 1)) IN OrRest(ts, [r EXCEPT !.b = e.b \/ @])
(* Mutant: && takes all that follows, || included, for its right operand.     *)
AndRestLoose(ts, e) ==
    IF TokAt(ts, e.i) # Tok("&&") THEN e
    ELSE LET r == dbl_bracket_eval_or(ts, Skip(e, 1)) IN [r EXCEPT !.b = e.b /\ @]
AndRest(ts, e) ==
    IF TokAt(ts, e.i) # Tok("&&") THEN e
    ELSE LET r == dbl_bracket_eval_not(ts, Skip(e, 1)) IN AndRest(ts, [r EXCEPT !.b = e.b /\ @])
dbl_bracket_eval_or(ts, e)  == OrRest(ts, dbl_bracket_eval_and(ts, e))
dbl_bracket_eval_and(ts, e) == AndRest(ts, dbl_bracket_eval_not(ts, e))
dbl_bracket_take_truthy_token(ts, e) == [Skip(e, 1) EXCEPT !.b = ts[e.i] # << >>]
dbl_bracket_try_group(ts, e) ==
    LET r == dbl_bracket_eval_or(ts, Skip(e, 1)) IN IF TokAt(ts, r.i) = Tok(")") THEN Skip(r, 1) ELSE r
dbl_bracket_try_unary(ts, e) ==
    LET arg == ts[e.i + 1] IN [Skip(e, 2) EXCEPT !.b = CASE ts[e.i] = Tok("-z") -> arg = << >> [] ts[e.i] = Tok("-n") -> arg # << >>
                                                         [] OTHER -> eval_file_test(ts[e.i][1], arg)]
dbl_bracket_collect_rhs(ts, i, o) ==
    LET stop == SelectInSubSeq(ts, i, Len(ts), LAMBDA t : IsOneOf(t, {"&&", "||"}))
        j    == IF stop = 0 THEN Len(ts) ELSE stop - 1
    IN  IF i > Len(ts) THEN <<i, << >>>> ELSE IF o = "=~" THEN <<j + 1, FlattenSeq(SubSeq(ts, i, j))>> ELSE <<i + 1, ts[i]>>
dbl_bracket_try_binary(ts, e) ==
    LET rhs == dbl_bracket_collect_rhs(ts, e.i + 2, ts[e.i + 1][1])
        r   == eval_binary_op(ts[e.i], ts[e.i + 1][1], rhs[2], e.m, e.nocase)
    IN  [e EXCEPT !.b = r[1], !.i = rhs[1], !.m = r[2]]
(* A file test is one only when the word after next is no binary operator.    *)
dbl_bracket_eval_primary(ts, e) ==
    LET more == e.i < Len(ts)
        op   == IsOneOf(TokAt(ts, e.i + 1), BinaryOps)
        flag == IsOneOf(TokAt(ts, e.i), {"-z", "-n"}) \/ (IsOneOf(TokAt(ts, e.i), FileFlags) /\ ~IsOneOf(TokAt(ts, e.i + 2), BinaryOps))
    IN  IF e.i > Len(ts) THEN [e EXCEPT !.b = FALSE]
        ELSE IF TokAt(ts, e.i) = Tok("(") THEN dbl_bracket_try_group(ts, e)
        ELSE IF more /\ flag THEN dbl_bracket_try_unary(ts, e)
        ELSE IF more /\ op THEN dbl_bracket_try_binary(ts, e)
        ELSE dbl_bracket_take_truthy_token(ts, e)
dbl_bracket_eval_not(ts, e) ==
    IF TokAt(ts, e.i) = Tok("!") THEN LET r == dbl_bracket_eval_not(ts, Skip(e, 1)) IN [r EXCEPT !.b = ~@] ELSE dbl_bracket_eval_primary(ts, e)
eval_double_bracket(ts, m, nocase) == dbl_bracket_eval_or(ts, [b |-> FALSE, i |-> 1, m |-> m, nocase |-> nocase])

=============================================================================
