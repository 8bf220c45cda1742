------------------------------- MODULE Billing -------------------------------
(***************************************************************************)
(* What the ledger promises about one request (app/service.py:15-16):      *)
(* "every exit refunds or charges exactly once".  A bill starts empty, may *)
(* be held against the user's budget, and a held bill is charged or        *)
(* refunded, once and for good.                                            *)
(***************************************************************************)
CONSTANT Requests

VARIABLE bill

Init == bill = [r \in Requests |-> "none"]

Move(r, from, to) == bill[r] = from /\ bill' = [bill EXCEPT ![r] = to]

Hold(r) == Move(r, "none", "held")
Charge(r) == Move(r, "held", "charged")
Refund(r) == Move(r, "held", "refunded")

Next == \E r \in Requests : Hold(r) \/ Charge(r) \/ Refund(r)

Spec == Init /\ [][Next]_bill
=============================================================================
