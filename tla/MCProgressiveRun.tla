-------------------------- MODULE MCProgressiveRun ---------------------------
(* Instances of ProgressiveRun for TLC.                                       *)
EXTENDS ShellReference

One(c)        == [first |-> c, rest |-> <<>>]
Two(c, op, d) == [first |-> c, rest |-> <<[op |-> op, cmd |-> d]>>]
Three(c, o, d, p, e) ==
    [first |-> c, rest |-> <<[op |-> o, cmd |-> d], [op |-> p, cmd |-> e]>>]

(* Scripts that exercise both execution paths, errexit, traps and exit.       *)
CoreScripts ==
    { << One("set_e"), Two("false", "and", "true"), One("false"), One("echo") >>,
      << One("trap_echo"), Three("false", "or", "echo", "and", "true"), One("true") >>,
      << One("trap_exit"), Two("call", "and", "echo"), One("trap_EXIT"), One("false") >>,
      << One("trap_ignore"), Two("true", "or", "exit"), One("exit"), One("echo") >>,
      << One("trap_reset"), One("ext1"), Two("false", "or", "call") >> }

ASSUME CoreStraight == \A p \in CoreScripts : \A i \in 1..Len(p) : Straight(p[i])

(* Scripts that run into the step, output and recursion limits.               *)
LimitScripts ==
    { << One("echo"), Two("loop", "and", "echo"), One("true") >>,
      << Two("echo", "and", "echo"), One("recurse"), Two("call", "or", "ext0"), One("echo") >>,
      << Three("call", "and", "call", "and", "true"), One("echo") >>,
      << One("ext0"), Two("true", "and", "recurse"), One("exit") >> }

AllScripts == CoreScripts \cup LimitScripts

(* A list whose first pipeline is a streaming external.                       *)
StreamScripts == { << Two("ext0", "and", "echo"), One("true") >> }

=============================================================================
