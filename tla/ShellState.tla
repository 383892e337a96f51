------------------------------ MODULE ShellState ------------------------------
(* The variables of the shell (wasmsh-state) and the assignments the runtime  *)
(* makes to them.  A state is a record: scopes (a sequence of functions from  *)
(* names to variables, the innermost last), the positional parameters, the    *)
(* last status, whether set -a and set -u are on, and the three errors an     *)
(* expansion may leave behind for the next command to report (the code keeps  *)
(* them in variables with reserved names).  A name is a text.                 *)
EXTENDS Patterns

Scalar(t)  == <<"scalar", t>>
Indexed(m) == <<"indexed", m>>      \* <<index, text>> pairs in the order they were added
Assoc(m)   == <<"assoc", m>>
Var(v)     == [v |-> v, exported |-> FALSE, readonly |-> FALSE, integer |-> FALSE, nameref |-> FALSE]
NoVars     == [n \in {} |-> << >>]
Fresh(pos) == [scopes |-> <<NoVars>>, pos |-> pos, status |-> 0, allexport |-> FALSE, nounset |-> FALSE,
               unbound |-> << >>, arith |-> FALSE, shell |-> "none"]

JoinTexts(ts) == FlattenSeq([i \in 1..Len(ts) |-> IF i = 1 THEN ts[i] ELSE <<" ">> \o ts[i]])
Values(m)  == [i \in 1..Len(m) |-> m[i][2]]
as_scalar(v) == IF v[1] = "scalar" THEN v[2] ELSE JoinTexts(Values(v[2]))

(* The innermost scope that has the name, or 0.                               *)
ScopeOf(st, n)  == SelectLastInSeq(st.scopes, LAMBDA s : n \in DOMAIN s)
Has(st, n)      == ScopeOf(st, n) # 0
Get(st, n)      == st.scopes[ScopeOf(st, n)][n]
PutAt(st, k, n, var) == [st EXCEPT !.scopes[k] = [x \in DOMAIN @ \cup {n} |-> IF x = n THEN var ELSE @[x]]]
Put(st, n, var) == PutAt(st, Len(st.scopes), n, var)
Drop(st, n)     == [st EXCEPT !.scopes[Len(st.scopes)] = [x \in DOMAIN @ \ {n} |-> @[x]]]
push_scope(st)  == [st EXCEPT !.scopes = Append(@, NoVars)]
pop_scope(st)   == IF Len(st.scopes) > 1 THEN [st EXCEPT !.scopes = Front(@)] ELSE st
Readonly(st, n) == Has(st, n) /\ Get(st, n).readonly
Attr(st, n)     == IF Has(st, n) THEN Get(st, n) ELSE Var(Scalar(<< >>))

-----------------------------------------------------------------------------
(* Reading.  << >> when there is no value, <<text>> otherwise.                *)

DigitChar == [d \in 0..9 |-> Chars[Rank["0"] + d]]
RECURSIVE IntText(_)
IntText(n) == IF n < 0 THEN <<"-">> \o IntText(-n) ELSE IF n < 10 THEN <<DigitChar[n]>> ELSE IntText(n \div 10) \o <<DigitChar[n % 10]>>
get_env_var(st, n) ==
    IF ~Has(st, n) THEN << >>
    ELSE LET var == Get(st, n)
             to  == as_scalar(var.v)
         IN  IF var.nameref /\ to \notin {<< >>, n} THEN IF Has(st, to) THEN <<as_scalar(Get(st, to).v)>> ELSE << >>
             ELSE <<to>>
get_var(st, n) ==
    CASE n = <<"?">> -> <<IntText(st.status)>>
      [] n = <<"#">> -> <<IntText(Len(st.pos))>>
      [] n \in {<<"@">>, <<"*">>} -> <<JoinTexts(st.pos)>>
      [] n = <<"0">> -> <<<<"w">>>>
      [] OTHER -> LET k == ParseInt(n)
                  IN  IF k # << >> /\ k[1] > 0 THEN IF k[1] <= Len(st.pos) THEN <<st.pos[k[1]]>> ELSE << >>
                      ELSE get_env_var(st, n)
RECURSIVE SortTexts(_)
SortTexts(S) == IF S = {} THEN << >> ELSE LET t == CHOOSE x \in S : \A y \in S : y = x \/ TextBefore(x, y) IN <<t>> \o SortTexts(S \ {t})
var_names_with_prefix(st, p) == SortTexts({n \in UNION {DOMAIN st.scopes[k] : k \in 1..Len(st.scopes)} : IsPrefix(p, n)})

(* Arrays.  A scalar reads as an array of one element, unless it is empty.    *)
Pairs(st, n) ==
    IF ~Has(st, n) THEN << >>
    ELSE LET v == Get(st, n).v
         IN  IF v[1] # "scalar" THEN v[2] ELSE IF v[2] = << >> THEN << >> ELSE <<<<0, v[2]>>>>
get_array_values(st, n) == Values(Pairs(st, n))
get_array_length(st, n) == Len(Pairs(st, n))
get_array_keys(st, n)   ==
    LET ps == Pairs(st, n) IN IF ps # << >> /\ Get(st, n).v[1] = "assoc" THEN [i \in 1..Len(ps) |-> ps[i][1]] ELSE [i \in 1..Len(ps) |-> IntText(ps[i][1])]
Element(m, key) == LET k == SelectInSeq(m, LAMBDA p : p[1] = key) IN IF k = 0 THEN << >> ELSE <<m[k][2]>>
Index(t) == LET k == ParseInt(t) IN IF k # << >> /\ k[1] >= 0 THEN k ELSE << >>
get_array_element(st, n, t) ==
    IF ~Has(st, n) THEN << >>
    ELSE LET v == Get(st, n).v
         IN  CASE v[1] = "scalar" -> IF t = <<"0">> THEN <<v[2]>> ELSE << >>
               [] v[1] = "indexed" -> IF Index(t) = << >> THEN << >> ELSE Element(v[2], Index(t)[1])
               [] OTHER -> Element(v[2], t)

-----------------------------------------------------------------------------
(* Writing.                                                                   *)

(* Names set -a does not export: SHOPT_ and whatever starts with _ (here one  *)
(* symbol of the name).                                                       *)
Internal(n) == n # << >> /\ n[1] \in {"SHOPT_", "_", "_STDIN_REMAINING"}
RECURSIVE set_var(_, _, _)
set_var(st, n, t) ==
    LET var == Attr(st, n)
        to  == as_scalar(var.v)
    IN  IF Has(st, n) /\ var.nameref /\ to \notin {<< >>, n} THEN set_var(st, to, t)
        ELSE IF var.readonly THEN st
        ELSE Put(st, n, [var EXCEPT !.v = Scalar(t), !.exported = @ \/ (st.allexport /\ ~Internal(n))])
set_readonly(st, n, t) == Put(st, n, [Attr(st, n) EXCEPT !.v = Scalar(t), !.readonly = TRUE])
unset_var(st, n) == IF Readonly(st, n) THEN st ELSE Drop(st, n)
Insert(m, key, t) == LET k == SelectInSeq(m, LAMBDA p : p[1] = key) IN IF k = 0 THEN Append(m, <<key, t>>) ELSE [m EXCEPT ![k] = <<key, t>>]
InsertIdx(m, idx, t) == IF Index(idx) = << >> THEN m ELSE Insert(m, Index(idx)[1], t)
(* Mutant: an element is written without asking whether it may be.            *)
set_element_unchecked(st, n, idx, t) ==
    LET v == Attr(st, n).v
        w == IF v[1] = "assoc" THEN Assoc(Insert(v[2], idx, t)) ELSE Indexed(InsertIdx(IF v[1] = "indexed" THEN v[2] ELSE << >>, idx, t))
    IN  IF Has(st, n) THEN PutAt(st, ScopeOf(st, n), n, [Get(st, n) EXCEPT !.v = w]) ELSE Put(st, n, Var(w))
(* An element is written in whichever scope has the array.                    *)
set_array_element(st, n, idx, t) ==
    LET v == Get(st, n).v
        w == CASE v[1] = "indexed" -> Indexed(InsertIdx(v[2], idx, t)) [] v[1] = "assoc" -> Assoc(Insert(v[2], idx, t))
               [] OTHER -> Indexed(InsertIdx(<< >>, idx, t))
    IN  IF Readonly(st, n) THEN st
        ELSE IF Has(st, n) THEN PutAt(st, ScopeOf(st, n), n, [Get(st, n) EXCEPT !.v = w])
        ELSE Put(st, n, Var(Indexed(InsertIdx(<< >>, idx, t))))
NextIndex(m) == IF m = << >> THEN 0 ELSE Max({m[i][1] : i \in 1..Len(m)}) + 1
AppendAll(m, ts) == FoldLeft(LAMBDA acc, t : Append(acc, <<NextIndex(acc), t>>), m, ts)
append_array(st, n, ts) ==
    LET v == Get(st, n).v
        w == CASE v[1] = "indexed" -> Indexed(AppendAll(v[2], ts)) [] v[1] = "assoc" -> v
               [] OTHER -> Indexed(AppendAll(Pairs(st, n), ts))
    IN  IF Readonly(st, n) THEN st
        ELSE IF Has(st, n) THEN PutAt(st, ScopeOf(st, n), n, [Get(st, n) EXCEPT !.v = w])
        ELSE Put(st, n, Var(Indexed(AppendAll(<< >>, ts))))
unset_array_element(st, n, idx) ==
    IF Readonly(st, n) \/ ~Has(st, n) THEN st
    ELSE LET v == Get(st, n).v
             w == CASE v[1] = "scalar" -> IF idx = <<"0">> THEN Scalar(<< >>) ELSE v
                    [] v[1] = "indexed" -> Indexed(SelectSeq(v[2], LAMBDA p : <<p[1]>> # Index(idx)))
                    [] OTHER -> Assoc(SelectSeq(v[2], LAMBDA p : p[1] # idx))
         IN  PutAt(st, ScopeOf(st, n), n, [Get(st, n) EXCEPT !.v = w])
Emptied(st, n, v) == IF Readonly(st, n) THEN st ELSE Put(st, n, [Var(v) EXCEPT !.exported = Attr(st, n).exported])
init_indexed_array(st, n) == Emptied(st, n, Indexed(<< >>))
init_assoc_array(st, n)   == Emptied(st, n, Assoc(<< >>))
(* name=(a b), name=([k]=a), name+=(a b) and name[i]=a.                       *)
assign_indexed_array(st, n, ts) ==
    FoldLeft(LAMBDA s, i : set_array_element(s, n, IntText(i - 1), ts[i]), init_indexed_array(st, n), [i \in 1..Len(ts) |-> i])
assign_assoc_array(st, n, ps) == FoldLeft(LAMBDA s, p : set_array_element(s, n, p[1], p[2]), init_assoc_array(st, n), ps)
Attribute == [f \in {"x", "r", "i"} |-> CASE f = "x" -> "exported" [] f = "r" -> "readonly" [] OTHER -> "integer"]
declare_apply_attributes(st, n, flag) == IF Has(st, n) THEN PutAt(st, ScopeOf(st, n), n, [Get(st, n) EXCEPT ![Attribute[flag]] = TRUE]) ELSE st
declare_apply_nameref(st, n, to) == Put(st, n, [Var(Scalar(to)) EXCEPT !.nameref = TRUE])

=============================================================================
