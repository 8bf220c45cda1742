----------------------------- MODULE MCProvider -----------------------------
(* Provider with three callers: a probe, and two calls from before the     *)
(* breaker opened whose results arrive while it is OPEN or HALF_OPEN.  The *)
(* threshold of two needs two faults in a row; the recovery timeout of two *)
(* ticks leaves room for a late fault half-way through.  Two attempts per  *)
(* call: one that is repeated and one that is the last.                    *)
EXTENDS Provider

CONSTANTS c1, c2, c3

MCCallers == {c1, c2, c3}
=============================================================================
