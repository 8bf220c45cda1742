---------------------------- MODULE MCAutoscaler ----------------------------
(* Autoscaler with up to nine replicas of two fifths of a request each     *)
(* under four tasks: the target is 1.2 / 3, which is 0.4 less a rounding   *)
(* error, so that five times that is a little less than 2.  (The smallest  *)
(* load whose quotient is rounded up is 6.)  Loads of 1 to 4 want 3, 5, 8  *)
(* and 10 replicas; 1, 3, 5, 8 and 9 have capacities 1, 1, 1, 3 and 3.     *)
EXTENDS Autoscaler

CONSTANTS t1, t2, t3, t4

MCTasks == {t1, t2, t3, t4}
MCCapacities == {CapacityFor(n) : n \in MinReplicas..MaxReplicas}
MCInitialCapacity == CapacityFor(MinReplicas)
MCRoundedUp == {6}
MCRoundedDown == {5}
=============================================================================
