---------------------------- MODULE ShellReference ----------------------------
(* The reference a run of ProgressiveRun is compared with: a shell that runs  *)
(* a script in one go.  A state is the status, the errexit setting, whether   *)
(* the shell has exited and the commands it ran.                              *)
EXTENDS ProgressiveRun

RefState == [last : Nat, errexit : BOOLEAN, exited : BOOLEAN, ran : Seq(Nat \X Nat)]

RefStart(s) == [last |-> s.last, errexit |-> s.errexit, exited |-> FALSE, ran |-> <<>>]

RefCommand(s, c, at) ==
    [last    |-> IF c = "exit" THEN 7 ELSE IF c \in {"false", "ext1"} THEN 1 ELSE 0,
     errexit |-> s.errexit \/ c = "set_e",
     exited  |-> c = "exit",
     ran     |-> Append(s.ran, at)]

(* The pipelines of a list, as far as the k-th.                               *)
Size(item)       == Len(item.rest) + 1
CommandAt(item, k) == IF k = 1 THEN item.first ELSE item.rest[k - 1].cmd
Applies(s, item, k) ==
    ~s.exited /\ (k = 1 \/ (item.rest[k - 1].op = "and") = (s.last = 0))

RefPipelines(s0, i, item) ==
    LET F[k \in 0..Size(item)] ==
            IF k = 0 THEN s0
            ELSE LET s == F[k - 1]
                 IN  IF Applies(s, item, k) THEN RefCommand(s, CommandAt(item, k), <<i, k>>) ELSE s
    IN  F

(* A list, and the errexit of one that is a single pipeline.                  *)
RefErrexit(s, item) ==
    IF Size(item) = 1 /\ s.errexit /\ s.last # 0 THEN [s EXCEPT !.exited = TRUE] ELSE s
RefList(s0, i, item) == RefErrexit(RefPipelines(s0, i, item)[Size(item)], item)

(* The lists of a script, as far as the i-th.                                 *)
RefLists(prog, s0) ==
    LET F[i \in 0..Len(prog)] ==
            IF i = 0 THEN s0
            ELSE LET s == F[i - 1] IN IF s.exited THEN s ELSE RefList(s, i, prog[i])
    IN  F

RefRun(prog, s) == RefLists(prog, RefStart(s))[Len(prog)]

(* The scripts a run is meant to agree on.  An external command is a list of  *)
(* its own: the rest of a list that begins with one is dropped when it        *)
(* streams, and one that follows another pipeline is rejected                 *)
(* (execute_and_or).  `exit` ends its list: nothing between two pipelines     *)
(* looks at the request.                                                      *)
Straight(item) ==
    \A k \in 1..Size(item) :
        /\ CommandAt(item, k) \in External => Size(item) = 1
        /\ CommandAt(item, k) = "exit" => k = Size(item)
AllStraight == \A p \in Programs : \A i \in 1..Len(p) : Straight(p[i])

(* However a script is cut into polls, with whatever trapped or ignored       *)
(* signals arrive between them, it runs exactly the commands, in the order,   *)
(* and reports the exit status that one uninterrupted evaluation would,       *)
(* unless a limit refused it something before its end.                        *)
ResumeEquivalence ==
    [][phase = "end" /\ phase' = "idle" /\ ~run'.on /\ calm /\ ~m'.exhausted
           /\ m.bstop = "none" =>
           LET r == RefRun(run.prog, start) IN ran = r.ran /\ code' = r.last]_vars

=============================================================================
