------------------------------- MODULE Builtins -------------------------------
(* Builtins that read words or input and change variables (wasmsh-builtins):  *)
(* getopts, read, printf, test, export, readonly and unset.  A builtin maps a *)
(* state and its arguments to a record of the new state and the exit status.  *)
(* An argument is a text; names longer than a letter are one character.       *)
EXTENDS ShellState

OPTIND == <<"OPTIND">>
OPTARG == <<"OPTARG">>
GETOPTS_OPTIND == <<"_GETOPTS_OPTIND">>
GETOPTS_OFFSET == <<"_GETOPTS_OFFSET">>
STDIN_REMAINING == <<"_STDIN_REMAINING">>

Exits(st, code) == [st |-> st, code |-> code]
AfterFirst(s, n)   == SubSeq(s, n + 1, Len(s))
(* A variable as an unsigned number, or else the default.                     *)
NumberIn(st, n, default) ==
    LET t == get_var(st, n)
        k == IF t = << >> THEN << >> ELSE Index(t[1])
    IN  IF k = << >> THEN default ELSE k[1]

-----------------------------------------------------------------------------
(* getopts.  The place inside a cluster of options (-ab) is kept in two       *)
(* variables and holds only while OPTIND is what getopts left it at.          *)

RECURSIVE NextOption(_, _, _)
NextOption(args, ind, off) ==
    CASE ind > Len(args) -> [found |-> FALSE, ind |-> ind]
      [] off <= 1 /\ args[ind] = <<"-", "-">> -> [found |-> FALSE, ind |-> ind + 1]
      [] off <= 1 /\ (args[ind] = <<"-">> \/ ~IsPrefix(<<"-">>, args[ind])) -> [found |-> FALSE, ind |-> ind]
      [] off >= Len(args[ind]) -> NextOption(args, ind + 1, 1)
      [] OTHER -> [found |-> TRUE, ind |-> ind, off |-> off]
clear_getopts_state(st) == unset_var(unset_var(st, GETOPTS_OPTIND), GETOPTS_OFFSET)
StandsAt(st, ind, off) ==
    set_var(set_var(set_var(st, OPTIND, IntText(ind)), GETOPTS_OPTIND, IntText(ind)), GETOPTS_OFFSET, IntText(off))
(* Past the letter at off: inside the same argument, or at the next one.      *)
PastLetter(st, arg, ind, off) == IF off + 1 >= Len(arg) THEN StandsAt(st, ind + 1, 1) ELSE StandsAt(st, ind, off + 1)
(* The option at a place: unknown, with its argument attached, in the next    *)
(* word or missing, or without one.                                           *)
TakeOption(st, spec, name, args, ind, off) ==
    LET arg    == args[ind]
        c      == arg[off + 1]
        k      == SelectInSeq(spec, LAMBDA x : x = c)
        rest   == AfterFirst(arg, off + 1)
        silent == IsPrefix(<<":">>, spec)
        Complain(mark) == IF silent THEN set_var(set_var(st, OPTARG, <<c>>), name, mark)
                          ELSE set_var(unset_var(st, OPTARG), name, <<"?">>)
    IN  CASE k = 0 -> PastLetter(Complain(<<"?">>), arg, ind, off)
          [] k # 0 /\ k < Len(spec) /\ spec[k + 1] = ":" ->
                 CASE rest # << >>     -> StandsAt(set_var(set_var(st, OPTARG, rest), name, <<c>>), ind + 1, 1)
                   [] rest = << >> /\ ind < Len(args) -> StandsAt(set_var(set_var(st, OPTARG, args[ind + 1]), name, <<c>>), ind + 2, 1)
                   [] OTHER -> StandsAt(Complain(<<":">>), ind + 1, 1)
          [] OTHER -> PastLetter(unset_var(set_var(st, name, <<c>>), OPTARG), arg, ind, off)
(* Mutant of ResumeAt: the place inside the cluster is kept whatever OPTIND.  *)
ResumeAnyway(st, ind) == NumberIn(st, GETOPTS_OFFSET, 1)
ResumeAt(st, ind) == IF NumberIn(st, GETOPTS_OPTIND, 0) = ind THEN NumberIn(st, GETOPTS_OFFSET, 1) ELSE 1
builtin_getopts(st, argv) ==
    LET args == IF Len(argv) > 2 THEN AfterFirst(argv, 2) ELSE st.pos
        ind  == Max({1, NumberIn(st, OPTIND, 1)})
        at   == NextOption(args, ind, ResumeAt(st, ind))
    IN  IF Len(argv) < 2 THEN Exits(st, 2)
        ELSE IF ~at.found THEN Exits(clear_getopts_state(set_var(st, OPTIND, IntText(at.ind))), 1)
        ELSE Exits(TakeOption(st, argv[1], argv[2], args, at.ind, at.off), 0)

-----------------------------------------------------------------------------
(* read.  It takes all of its input, uses one record, and leaves the rest in  *)
(* a variable, from which the runtime makes the input of the next command.    *)
(* An input is << >> when there is none (any builtin takes it), else <<text>>.*)

ReadDefaults == [raw |-> FALSE, delimiter |-> "\n", nchars |-> << >>, exact |-> << >>, array |-> << >>, fd |-> << >>, names |-> << >>]
RECURSIVE parse_read_opts(_, _)
parse_read_opts(args, o) ==
    LET Is1(c) == args[1] = <<"-", c>>
        value  == IF Len(args) > 1 THEN <<args[2]>> ELSE << >>
        number == IF value = << >> THEN << >> ELSE Index(value[1])
        rest   == AfterFirst(args, Min({2, Len(args)}))
    IN  IF args = << >> THEN o
        ELSE CASE Is1("r") -> parse_read_opts(Tail(args), [o EXCEPT !.raw = TRUE])
               [] Is1("s") \/ Is1("e") -> parse_read_opts(Tail(args), o)
               [] Is1("d") -> parse_read_opts(rest, IF value = << >> THEN o ELSE [o EXCEPT !.delimiter = IF value[1] = << >> THEN "\n" ELSE value[1][1]])
               [] Is1("n") -> parse_read_opts(rest, [o EXCEPT !.nchars = number])
               [] Is1("N") -> parse_read_opts(rest, [o EXCEPT !.exact = number])
               [] Is1("a") -> parse_read_opts(rest, [o EXCEPT !.array = value])
               [] Is1("u") -> parse_read_opts(rest, [o EXCEPT !.fd = number])
               [] Is1("p") \/ Is1("i") \/ Is1("t") -> parse_read_opts(rest, o)
               [] OTHER -> [o EXCEPT !.names = args]
read_var_names(o) == IF o.array # << >> \/ o.names = << >> THEN <<<<"REPLY">>>> ELSE o.names
Record(t, k, skip, found) == [line |-> UpTo(t, k), rest |-> AfterFirst(t, k + skip), found |-> found]
read_split_nchars(t, n, delimiter, d) ==
    LET k == Min({n, Len(t), d - 1})
    IN  Record(t, k, IF k < Len(t) /\ t[k + 1] = delimiter THEN 1 ELSE 0, (d <= Len(t) /\ d - 1 < n) \/ k >= n)
read_split_input(t, o) ==
    LET at == SelectInSeq(t, LAMBDA c : c = o.delimiter)
        d  == IF at = 0 THEN Len(t) + 1 ELSE at
    IN  CASE o.exact # << >> -> Record(t, Min({o.exact[1], Len(t)}), 0, Len(t) >= o.exact[1])
          [] o.exact = << >> /\ o.nchars # << >> -> read_split_nchars(t, o.nchars[1], o.delimiter, d)
          [] OTHER -> Record(t, d - 1, 1, at # 0)
RECURSIVE unescape_read_line(_)
unescape_read_line(t) ==
    CASE t = << >> -> << >>
      [] t # << >> /\ t[1] = "\\" /\ Len(t) > 1 -> <<t[2]>> \o unescape_read_line(AfterFirst(t, 2))
      [] OTHER -> <<t[1]>> \o unescape_read_line(Tail(t))

IfsOf(st) == LET t == get_var(st, <<"IFS">>) IN IF t = << >> THEN <<" ", "\t", "\n">> ELSE t[1]
IfsBlank(ifs) == {" ", "\t", "\n"} \cap ToSet(ifs)
(* How many of the first characters are in a set.                             *)
RunOf(t, cs) == LET k == SelectInSeq(t, LAMBDA c : c \notin cs) IN IF k = 0 THEN Len(t) ELSE k - 1
take_read_field(t, ifs) ==
    LET a == AfterFirst(t, RunOf(t, IfsBlank(ifs)))
        n == RunOf(a, {a[i] : i \in 1..Len(a)} \ ToSet(ifs))
        b == AfterFirst(a, n)
        c == AfterFirst(b, RunOf(b, IfsBlank(ifs)))
    IN  IF ifs = << >> THEN <<t, << >>>>
        ELSE <<UpTo(a, n), IF c # << >> /\ c[1] \in ToSet(ifs) THEN Tail(c) ELSE c>>
TrimEnd(t, cs) == LET k == SelectLastInSeq(t, LAMBDA c : c \notin cs) IN UpTo(t, k)
(* One field for every variable but the last, which gets what is left.        *)
read_assign_vars(st, line, names) ==
    LET ifs == IfsOf(st)
        r == FoldLeft(LAMBDA acc, n : LET f == take_read_field(acc.rest, ifs) IN [st |-> set_var(acc.st, n, f[1]), rest |-> f[2]],
                      [st |-> st, rest |-> line], Front(names))
    IN  set_var(r.st, Last(names), TrimEnd(r.rest, IfsBlank(ifs)))
RECURSIVE ifs_split_fields(_, _)
ifs_split_fields(t, ifs) ==
    LET a == AfterFirst(t, RunOf(t, ToSet(ifs)))
        n == RunOf(a, {a[i] : i \in 1..Len(a)} \ ToSet(ifs))
    IN  IF ifs = << >> THEN <<t>> ELSE IF a = << >> THEN << >> ELSE <<UpTo(a, n)>> \o ifs_split_fields(AfterFirst(a, n), ifs)
read_into_array(st, line, name) == assign_indexed_array(st, name, ifs_split_fields(line, IfsOf(st)))
(* The input the record is taken from: none when it was used up before.       *)
read_input(st, in) ==
    IF in # << >> THEN in
    ELSE LET rem == get_var(st, STDIN_REMAINING) IN IF rem \in {<< >>, <<<< >>>>} THEN << >> ELSE rem
builtin_read(st, in, argv) ==
    LET o   == parse_read_opts(argv, ReadDefaults)
        src == read_input(st, in)
        rec == read_split_input(src[1], o)
        line == IF o.raw THEN rec.line ELSE unescape_read_line(rec.line)
        kept == set_var(st, STDIN_REMAINING, rec.rest)
    IN  IF o.fd \notin {<< >>, <<0>>} \/ src = << >> THEN Exits(st, 1)
        ELSE Exits(IF o.array # << >> THEN read_into_array(kept, line, o.array[1]) ELSE read_assign_vars(kept, line, read_var_names(o)),
                   IF rec.found THEN 0 ELSE 1)
(* The input of the next command: what read left, whatever it was given.      *)
install_read_remainder(st) == get_var(st, STDIN_REMAINING)

-----------------------------------------------------------------------------
(* printf: the format is gone through again while it uses up arguments.       *)
(* \ooo, \xhh, %x, %o and %f are left out.                                    *)

Escapes == [c \in {"n", "t", "\\"} |-> CASE c = "n" -> "\n" [] c = "t" -> "\t" [] OTHER -> "\\"]
RECURSIVE process_printf_backslash_escapes(_)
process_printf_backslash_escapes(t) ==
    CASE t = << >> -> << >>
      [] t # << >> /\ t[1] = "\\" /\ Len(t) > 1 ->
             (IF t[2] \in DOMAIN Escapes THEN <<Escapes[t[2]]>> ELSE <<"\\", t[2]>>) \o process_printf_backslash_escapes(AfterFirst(t, 2))
      [] OTHER -> <<t[1]>> \o process_printf_backslash_escapes(Tail(t))
Harmless(c) == c \notin {" ", "!", "\"", "#", "$", "%", "&", "'", "(", ")", "*", "+", ",", "<", "=", ">", "?", "@", "[", "\\", "]", "^", "{", "|", "}", "~", "\n", "\t"}
shell_quote(t) ==
    LET Quoted(c) == CASE c = "'" -> <<"\\", "'">> [] c = "\\" -> <<"\\", "\\">> [] c = "\n" -> <<"\\", "n">> [] c = "\t" -> <<"\\", "t">> [] OTHER -> <<c>>
    IN  IF t = << >> THEN <<"'", "'">>
        ELSE IF \A i \in 1..Len(t) : Harmless(t[i]) THEN t
        ELSE <<"$", "'">> \o FlattenSeq([i \in 1..Len(t) |-> Quoted(t[i])]) \o <<"'">>
(* A conversion: the text it gives, and whether it uses the argument.         *)
printf_convert(c, arg, precision) ==
    LET n == ParseInt(arg)
    IN  CASE c = "s" -> IF precision = << >> THEN arg ELSE UpTo(arg, Min({precision[1], Len(arg)}))
          [] c = "d" -> IntText(IF n = << >> THEN 0 ELSE n[1])
          [] c = "c" -> UpTo(arg, Min({1, Len(arg)}))
          [] c = "b" -> process_printf_backslash_escapes(arg)
          [] c = "q" -> shell_quote(arg)
          [] OTHER -> <<"%", c>>
UsesArgument(c) == c \in {"s", "d", "c", "b", "q"}
Padding(c, n) == [i \in 1..n |-> c]
printf_apply_width(t, width, left, zero) ==
    LET n == Max({0, width - Len(t)})
    IN  IF left THEN t \o Padding(" ", n) ELSE Padding(IF zero THEN "0" ELSE " ", n) \o t
(* Flags: - to the left, 0 with zeros unless a - came before.                 *)
RECURSIVE printf_parse_flags(_, _, _)
printf_parse_flags(f, left, zero) ==
    CASE f # << >> /\ f[1] = "-" -> printf_parse_flags(Tail(f), TRUE, zero)
      [] f # << >> /\ f[1] = "0" /\ ~left -> printf_parse_flags(Tail(f), left, TRUE)
      [] OTHER -> [rest |-> f, left |-> left, zero |-> zero]
printf_parse_digits(f) == LET k == RunOf(f, DOMAIN Digit) IN <<Unsigned(UpTo(f, k)), AfterFirst(f, k)>>
(* One specification, f what follows its %: the text, the rest of the format  *)
(* and whether an argument was used.                                          *)
printf_format_spec(f, arg) ==
    LET fl == printf_parse_flags(f, FALSE, FALSE)
        w  == printf_parse_digits(fl.rest)
        dot == w[2] # << >> /\ w[2][1] = "."
        p  == IF dot THEN printf_parse_digits(Tail(w[2])) ELSE <<0, w[2]>>
        c  == p[2][1]
    IN  IF p[2] = << >> THEN [out |-> <<"%">>, rest |-> << >>, used |-> 0]
        ELSE [out  |-> printf_apply_width(printf_convert(c, arg, IF dot THEN <<p[1]>> ELSE << >>), w[1], fl.left, fl.zero /\ ~fl.left),
              rest |-> Tail(p[2]), used |-> IF UsesArgument(c) THEN 1 ELSE 0]
RECURSIVE printf_format_once(_, _, _)
printf_format_once(f, args, out) ==
    LET arg  == IF args = << >> THEN << >> ELSE args[1]
        spec == printf_format_spec(Tail(f), arg)
    IN  CASE f = << >> -> [out |-> out, args |-> args]
          [] Len(f) > 1 /\ f[1] = "%" /\ f[2] = "%" -> printf_format_once(AfterFirst(f, 2), args, Append(out, "%"))
          [] Len(f) > 1 /\ f[1] = "%" /\ f[2] # "%" -> printf_format_once(spec.rest, AfterFirst(args, Min({spec.used, Len(args)})), out \o spec.out)
          [] Len(f) > 1 /\ f[1] = "\\" /\ f[2] \in DOMAIN Escapes -> printf_format_once(AfterFirst(f, 2), args, Append(out, Escapes[f[2]]))
          [] OTHER -> printf_format_once(Tail(f), args, Append(out, f[1]))
RECURSIVE FormatAll(_, _, _)
FormatAll(f, args, out) ==
    LET r == printf_format_once(f, args, out)
    IN  IF r.args = args \/ r.args = << >> THEN r.out ELSE FormatAll(f, r.args, r.out)
(* <<what is printed>>, or << >> for a usage error.                           *)
builtin_printf(argv) ==
    LET a == IF argv # << >> /\ argv[1] = <<"-", "-">> THEN Tail(argv) ELSE argv
    IN  IF a = << >> THEN << >> ELSE <<FormatAll(a[1], Tail(a), << >>)>>

-----------------------------------------------------------------------------
(* test and [: a leading ! any number of times, then by the number of words.  *)

test_unary(o, t, reads) ==
    CASE o = Tok("-n") -> t # << >>
      [] o \in {Tok("-z"), Tok("!")} -> t = << >>
      [] o = Tok("-t") -> t = <<"0">> /\ reads
      [] OTHER -> IsOneOf(o, FileFlags \ {"-t"}) /\ eval_file_test(o[1], t)
test_binary(l, o, r) ==
    CASE o = Tok("!=") -> l # r
      [] IsOneOf(o, {"=", "==", "-ef"}) -> l = r
      [] o = Tok("-nt") -> l # << >> /\ r = << >>
      [] o = Tok("-ot") -> l = << >> /\ r # << >>
      [] IsOneOf(o, {"-eq", "-ne", "-lt", "-gt", "-le", "-ge"}) -> eval_int_cmp(IntOr0(l), o[1], IntOr0(r))
      [] OTHER -> FALSE
RECURSIVE test_check(_, _)
test_check(ws, reads) ==
    CASE ws # << >> /\ ws[1] = Tok("!") -> ~test_check(Tail(ws), reads)
      [] Len(ws) = 1 /\ ws[1] # Tok("!") -> ws[1] # << >>
      [] Len(ws) = 2 /\ ws[1] # Tok("!") -> test_unary(ws[1], ws[2], reads)
      [] Len(ws) = 3 /\ ws[1] # Tok("!") -> test_binary(ws[1], ws[2], ws[3])
      [] OTHER -> FALSE
builtin_test(ws, reads) == IF ws # << >> /\ test_check(ws, reads) THEN 0 ELSE 1

-----------------------------------------------------------------------------
(* export, readonly and unset of one name.  A value is << >> or <<text>>.     *)

export_with_value(st, n, t) == IF Readonly(st, n) THEN st ELSE Put(st, n, [Var(Scalar(t)) EXCEPT !.exported = TRUE])
export_name_only(st, n)     == Put(st, n, [Attr(st, n) EXCEPT !.exported = TRUE])
export_clear(st, n) == IF Has(st, n) THEN Exits(PutAt(st, ScopeOf(st, n), n, [Get(st, n) EXCEPT !.exported = FALSE]), 0) ELSE Exits(st, 1)
builtin_export(st, clear, n, value) ==
    CASE clear -> export_clear(st, n)
      [] ~clear /\ value # << >> -> Exits(export_with_value(st, n, value[1]), 0)
      [] OTHER -> Exits(export_name_only(st, n), 0)
builtin_readonly(st, n, value) ==
    LET t == IF value # << >> THEN value ELSE get_var(st, n) IN Exits(set_readonly(st, n, IF t = << >> THEN << >> ELSE t[1]), 0)
(* name or name[index]; a name that may not be unset is reported.             *)
builtin_unset(st, n, idx) ==
    IF idx # << >> THEN Exits(unset_array_element(st, n, idx[1]), 0)
    ELSE Exits(unset_var(st, n), IF Readonly(st, n) THEN 1 ELSE 0)

=============================================================================
