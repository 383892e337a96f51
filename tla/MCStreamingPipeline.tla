------------------------- MODULE MCStreamingPipeline --------------------------
(* Instances of StreamingPipeline for TLC.                                    *)
EXTENDS StreamingPipeline

Three == <<1, 2, 3>>

(* Built-in pipelines: every stage kind in every position it can have, with   *)
(* readers and staging files that fail and a step budget that may refuse any  *)
(* pass; and some under the small limits.                                     *)
BuiltinScenarios ==
    { [kinds |-> <<"read", k, l>>, faults |-> {"io", "steps"}] :
          k, l \in {"read", "head", "tee", "buffered"} }
        \cup { [kinds |-> p, faults |-> {"io", "limits", "budget"}] :
                  p \in { <<"read", "bounded", "read">>, <<"buffered", "tee", "read">> } }

(* Pipelines with external processes and what their host may do to them.      *)
ExternalScenarios ==
    { [kinds |-> c[1], faults |-> c[2]] :
        c \in { << <<"read", "external", "buffered">>, {"block"}>>,
                << <<"read", "external", "external">>, {"block"}>>,
                << <<"external", "head">>, {"block", "spawn"}>>,
                << <<"read", "external", "head">>, {"exit"}>>,
                << <<"external", "external">>, {"stderr", "limits"}>>,
                << <<"external", "read">>, {"exit", "stderr", "limits"}>>,
                << <<"read", "external">>, {"error", "spawn"}>>,
                << <<"read", "tee", "external">>, {"exit", "spawn"}>>,
                << <<"buffered", "external">>, {"block", "error"}>>,
                << <<"read", "external", "read">>, {"flood", "io"}>>,
                << <<"read", "external">>, {"over", "exit"}>>,
                << <<"external", "buffered">>, {"flood"}>>,
                << <<"read", "external">>, {"limits", "budget", "stderr"}>> } }

AllScenarios == BuiltinScenarios \cup ExternalScenarios

=============================================================================
