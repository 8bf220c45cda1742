------------------------------ MODULE MCQuotas ------------------------------
(* Quotas with three requests of one user, who share nothing with others.  *)
(* Costs of one and two against limits of two and three make two holds     *)
(* reach and pass the limit; a window of two ticks lets a hold expire      *)
(* while its request is open.  A burst of one request and a third, and a   *)
(* refill of a third per tick, make the next call wait for two refills and *)
(* may refuse one in between; one of the two replicas is a tick ahead, and *)
(* a call takes up to two.  The requests differ in nothing, hence the      *)
(* symmetry.                                                               *)
EXTENDS Quotas, TLC

CONSTANTS r1, r2, r3, user, p, q

MCRequests == {r1, r2, r3}
MCUsers == {user}
MCOwner == [r \in MCRequests |-> user]
MCCosts == {1, 2}
MCLimits == {2, 3}
MCReplicas == {p, q}
MCAhead == (p :> 0) @@ (q :> 1)
MCSymmetry == Permutations(MCRequests)
=============================================================================
