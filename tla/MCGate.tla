------------------------------- MODULE MCGate -------------------------------
(* Gate with four tasks: one more than the largest capacity, so that tasks *)
(* hold slots, queue, are woken and arrive at the same time.  The argument *)
(* 0 is the one resize() has to correct.                                   *)
EXTENDS Gate

CONSTANTS t1, t2, t3, t4

MCTasks == {t1, t2, t3, t4}
MCCapacities == {0, 1, 2, 3}
=============================================================================
