----------------------------- MODULE MCService -----------------------------
(* Service with three requests for two models on a gate of one slot or two:*)
(* one buffered request that may fail over, one that is pinned to its      *)
(* model, and one stream.  A threshold of one and a recovery timeout of    *)
(* one tick take every breaker through all its states.                     *)
EXTENDS Service, TLC

CONSTANTS r1, r2, r3, small, large

MCTasks == {r1, r2, r3}
MCModels == {small, large}
MCPlan == [r \in MCTasks |-> <<small, large>>]
MCStreams == {r3}
MCPinned == {r2}
MCCapacities == {1, 2}
=============================================================================
