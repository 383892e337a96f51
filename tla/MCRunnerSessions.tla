--------------------------- MODULE MCRunnerSessions ---------------------------
(* An instance of RunnerSessions for TLC: two requests with everything that   *)
(* may go wrong, and three, so that two queue for the slot, with files that   *)
(* are refused.                                                               *)
EXTENDS RunnerSessions

CONSTANTS j1, j2, j3

MCJobs  == {j1, j2, j3}
MCLoads == { [jobs |-> {j1, j2}, faults |-> Fault],
             [jobs |-> {j1, j2, j3}, faults |-> {"files"}] }

=============================================================================
