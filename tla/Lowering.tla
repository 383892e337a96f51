------------------------------- MODULE Lowering -------------------------------
(* From the syntax tree to the high-level form the runtime interprets         *)
(* (wasmsh-hir), and from an and-or list of that form to the instructions of  *)
(* the virtual machine (wasmsh-ir).  Trees are those of Parser.               *)
EXTENDS Parser

(* A simple command is one of three: with words, with only assignments, with  *)
(* only redirections.                                                         *)
LowerSimple(c) ==
    CASE c[3] # << >> -> <<"exec", c[3], c[2], c[4]>>
      [] c[2] # << >> -> <<"assign", c[2], c[4]>>
      [] OTHER -> <<"redirectonly", c[4]>>
Each(s, F(_)) == [i \in 1..Len(s) |-> F(s[i])]
RECURSIVE LowerCommand(_)
LowerPipeline(pl) == [pl EXCEPT ![2] = Each(@, LowerCommand)]
LowerAndOr(ao)    == [ao EXCEPT ![1] = Each(@, LowerPipeline)]
LowerCC(cc)       == Each(cc, LowerAndOr)
LowerBody(b)      == Each(b, LowerCC)
LowerElif(e)      == <<LowerBody(e[1]), LowerBody(e[2])>>
LowerCommand(c) ==
    CASE c[1] = "simple" -> LowerSimple(c)
      [] c[1] \in {"subshell", "group"} -> [c EXCEPT ![2] = LowerBody(@)]
      [] c[1] = "if" -> [c EXCEPT ![2] = LowerBody(@), ![3] = LowerBody(@), ![5] = Each(@, LowerBody),
                                  ![4] = Each(@, LowerElif)]
      [] c[1] \in {"while", "until"} -> [c EXCEPT ![2] = LowerBody(@), ![3] = LowerBody(@)]
      [] c[1] \in {"for", "select"} -> [c EXCEPT ![4] = LowerBody(@)]
      [] c[1] = "arithfor" -> [c EXCEPT ![3] = LowerBody(@)]
      [] c[1] = "function" -> [c EXCEPT ![3] = LowerCommand(@)]
      [] c[1] = "case" -> [c EXCEPT ![3] = Each(@, LAMBDA it : <<it[1], LowerBody(it[2]), it[3]>>)]
      [] OTHER -> c

-----------------------------------------------------------------------------
(* Instructions.  An and-or list is lowered when each of its pipelines is one *)
(* command that assigns, or that has a literal name and no prefix.            *)

RECURSIVE LiteralPart(_)
LiteralPart(x) == x.k \in {"lit", "sq"} \/ (x.k = "dq" /\ \A i \in 1..Len(x.parts) : LiteralPart(x.parts[i]))
LiteralWord(w) == \A i \in 1..Len(w) : LiteralPart(w[i])
SupportedCommand(c) ==
    \/ c[1] = "assign" /\ c[3] = << >>
    \/ c[1] = "exec" /\ c[3] = << >> /\ LiteralWord(c[2][1])
SupportedPipeline(pl) == ~pl[1][3] /\ Len(pl[2]) = 1 /\ SupportedCommand(pl[2][1])
Instructions(c) ==
    IF c[1] = "assign" THEN Each(c[2], LAMBDA a : <<"assign", a>>) ELSE <<<<"builtin", c>>>>
Supported(ao) == \A i \in 1..Len(ao[1]) : SupportedPipeline(ao[1][i])
(* Mutant: past the next jump as well.                                        *)
JumpPast(code, body) == Len(code) + 1 + Len(body) + 2
(* The jump over a pipeline goes to the instruction after its last one, where *)
(* the next jump stands if there is one.                                      *)
JumpTarget(code, body) == Len(code) + 1 + Len(body) + 1
LowerSupported(ao) ==
    Append(FoldLeft(LAMBDA code, i :
        LET body == Instructions(ao[1][i][2][1])
            jump == IF ao[2][i - 1] = "&&" THEN "ifFailure" ELSE "ifSuccess"
        IN  IF i = 1 THEN body ELSE code \o <<<<jump, JumpTarget(code, body)>>>> \o body,
      << >>, [i \in 1..Len(ao[1]) |-> i]), <<"returnLast">>)

(* The machine's loop over the instructions: what each command's status is,   *)
(* outcome[pc] says; the trace is the commands that ran.                      *)
RECURSIVE RunCode(_, _, _, _, _)
RunCode(code, outcome, pc, status, trace) ==
    CASE pc > Len(code) \/ code[pc][1] = "returnLast" -> [status |-> status, trace |-> trace]
      [] code[pc][1] = "ifFailure" -> RunCode(code, outcome, IF status # 0 THEN code[pc][2] ELSE pc + 1, status, trace)
      [] code[pc][1] = "ifSuccess" -> RunCode(code, outcome, IF status = 0 THEN code[pc][2] ELSE pc + 1, status, trace)
      [] OTHER -> RunCode(code, outcome, pc + 1, outcome[pc], Append(trace, pc))

=============================================================================
