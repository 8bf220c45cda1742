--------------------------- MODULE MCRedisLedger ---------------------------
(* RedisLedger with two replicas, one that fails closed and one that fails *)
(* open with its clock a tick ahead, and two requests of one user, one on  *)
(* each.  A cost of one or two against a limit of two lets two requests    *)
(* compete for the last unit; a window of three ticks outlasts the spread  *)
(* of the clocks.                                                          *)
EXTENDS RedisLedger, TLC

CONSTANTS r1, r2, u1, p1, p2

MCRequests == {r1, r2}
MCUsers == {u1}
MCOwner == (r1 :> u1) @@ (r2 :> u1)
MCReplicas == {p1, p2}
MCHome == (r1 :> p1) @@ (r2 :> p2)
MCAhead == (p1 :> 0) @@ (p2 :> 1)
MCFailClosed == {p1}
MCCosts == {1, 2}
MCLimits == {2}
=============================================================================
