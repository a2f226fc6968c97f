---------------------------- MODULE MCPipelineV2 ----------------------------
(* Instances of PipelineV2 for TLC.                                         *)
EXTENDS PipelineV2

Normal == [op |-> "create", tier |-> "standard", plan |-> 2, reviewed |-> TRUE,
           required |-> FALSE, production |-> TRUE, deferred |-> FALSE]
Create ==
    {Normal,
     [Normal EXCEPT !.tier = "safe", !.reviewed = FALSE, !.production = FALSE],
     [Normal EXCEPT !.tier = "showcase", !.plan = 3],
     [Normal EXCEPT !.tier = "showcase", !.production = FALSE, !.deferred = TRUE],
     [Normal EXCEPT !.plan = 3, !.required = TRUE]}
Iterate ==
    {[q EXCEPT !.op = "iterate"] : q \in {Normal, [Normal EXCEPT !.deferred = TRUE]}}
Both == Create \cup Iterate
=============================================================================
