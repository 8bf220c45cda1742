------------------------------- MODULE Ledger -------------------------------
(***************************************************************************)
(* The in-memory ledger (app/cost/memory.py): spend per user over a        *)
(* rolling window.  A request first holds its projected cost; settle()     *)
(* replaces the hold with the actual cost, stamped anew, and release()     *)
(* drops it.  The lock is held only across code that does not suspend, so  *)
(* each operation is one step; time passes between them, and a hold may    *)
(* fall out of the window while its request still runs.                    *)
(*                                                                         *)
(* Timestamps are kept as ages.  Expired entries are pruned lazily by the  *)
(* code but never counted, since every sum prunes first: here they go when *)
(* they expire.                                                            *)
(***************************************************************************)
EXTENDS Accounts, Integers, FiniteSets, Sequences, FiniteSetsExt

CONSTANTS
    Window,    \* window_seconds, in ticks
    Costs,     \* projected and actual costs
    Limits     \* the limits requests come with

ASSUME LedgerAssumption ==
    /\ IsFiniteSet(Requests)
    /\ Window \in Nat
    /\ Costs \subseteq Nat
    /\ Limits \subseteq Nat /\ IsFiniteSet(Limits) /\ Limits # {}

VARIABLES
    spend,         \* _spend: per request its entry, Gone if it has none
    reservation,   \* Reservation: "none", "open" or "closed"
    records,       \* _records: per request the costs in its usage records
    surplus        \* history: what settling added beyond the hold it replaced

vars == <<spend, reservation, records, surplus>>

Gone == [amount |-> 0, age |-> Window + 1]
Entries == [amount : Costs, age : 0..Window] \cup {Gone}

Fresh(cost) == [amount |-> cost, age |-> 0]

Of(u) == {r \in Requests : Owner[r] = u}

(* spent(): the entries that count, summed.                                *)
Spent(u) == SumFunctionOnSet([r \in Requests |-> spend[r].amount], Of(u))

-----------------------------------------------------------------------------
Init ==
    /\ spend = [r \in Requests |-> Gone]
    /\ reservation = [r \in Requests |-> "none"]
    /\ records = [r \in Requests |-> <<>>]
    /\ surplus = [r \in Requests |-> 0]

(* Wrong on purpose: admits while the limit is not yet exceeded.           *)
NotYetOver(u, cost, limit) == Spent(u) <= limit

(* Landing exactly on the limit is allowed.                                *)
Fits(u, cost, limit) == Spent(u) + cost <= limit

Reserve(r, cost, limit) ==
    /\ reservation[r] = "none"
    /\ Fits(Owner[r], cost, limit)
    /\ spend' = [spend EXCEPT ![r] = Fresh(cost)]
    /\ reservation' = [reservation EXCEPT ![r] = "open"]
    /\ UNCHANGED <<records, surplus>>

(* Wrong on purpose: the usage record shows the projected cost.            *)
SettleRecordsHold(r, cost) ==
    /\ reservation[r] = "open"
    /\ spend' = [spend EXCEPT ![r] = Fresh(cost)]
    /\ surplus' = [surplus EXCEPT ![r] = cost - spend[r].amount]
    /\ records' = [records EXCEPT ![r] = Append(@, spend[r].amount)]
    /\ reservation' = [reservation EXCEPT ![r] = "closed"]

(* Wrong on purpose: settles a reservation that was released before.       *)
SettleClosed(r, cost) ==
    /\ reservation[r] # "none"
    /\ spend' = [spend EXCEPT ![r] = Fresh(cost)]
    /\ surplus' = [surplus EXCEPT ![r] = cost - spend[r].amount]
    /\ records' = [records EXCEPT ![r] = Append(@, cost)]
    /\ reservation' = [reservation EXCEPT ![r] = "closed"]

(* Drops the hold, if the window still has it, and appends the charge.     *)
Settle(r, cost) ==
    /\ reservation[r] = "open"
    /\ spend' = [spend EXCEPT ![r] = Fresh(cost)]
    /\ surplus' = [surplus EXCEPT ![r] = cost - spend[r].amount]
    /\ records' = [records EXCEPT ![r] = Append(@, cost)]
    /\ reservation' = [reservation EXCEPT ![r] = "closed"]

(* Wrong on purpose: releases what was already settled.                    *)
ReleaseClosed(r) ==
    /\ reservation[r] # "none"
    /\ spend' = [spend EXCEPT ![r] = Gone]
    /\ reservation' = [reservation EXCEPT ![r] = "closed"]
    /\ UNCHANGED <<records, surplus>>

Release(r) ==
    /\ reservation[r] = "open"
    /\ spend' = [spend EXCEPT ![r] = Gone]
    /\ reservation' = [reservation EXCEPT ![r] = "closed"]
    /\ UNCHANGED <<records, surplus>>

(* An entry counts up to the age of the window and is gone after it.       *)
Aged(e) == IF e.age >= Window THEN Gone ELSE [e EXCEPT !.age = @ + 1]

Tick ==
    /\ spend' = [r \in Requests |-> Aged(spend[r])]
    /\ UNCHANGED <<reservation, records, surplus>>

Next ==
    \/ \E r \in Requests :
          \/ \E cost \in Costs, limit \in Limits : Reserve(r, cost, limit)
          \/ \E cost \in Costs : Settle(r, cost)
          \/ Release(r)
    \/ Tick

Spec == Init /\ [][Next]_vars

-----------------------------------------------------------------------------
TypeOK ==
    /\ spend \in [Requests -> Entries]
    /\ reservation \in [Requests -> {"none", "open", "closed"}]
    /\ records \in [Requests -> {<<>>} \cup {<<cost>> : cost \in Costs}]
    /\ surplus \in [Requests -> Int]

Over == [r \in Requests |->
            IF spend[r] # Gone /\ surplus[r] > 0 THEN surplus[r] ELSE 0]

Overrun(u) == SumFunctionOnSet(Over, Of(u))

(* A user's rolling spend never exceeds the largest limit of their         *)
(* requests by more than what completed requests cost beyond the hold they *)
(* replaced (memory.py:41-53): concurrent holds, expiry and re-stamping    *)
(* on settlement open no other way over the limit.                         *)
BudgetHeld == \A u \in Users : Spent(u) <= Max(Limits) + Overrun(u)

(* The usage records and the budget agree: a reservation that is closed    *)
(* with a record has exactly one, and as long as its charge counts it      *)
(* counts with the cost on record (memory.py:71-87).                       *)
LedgersAgree ==
    \A r \in Requests :
        /\ records[r] # <<>> => reservation[r] = "closed"
        /\ (records[r] # <<>> /\ spend[r] # Gone) =>
               records[r] = <<spend[r].amount>>

(* A charge counts against the budget for the whole window after it was    *)
(* made, whatever is called on its reservation later (memory.py:31-33,     *)
(* 71-72, 90-91).                                                          *)
ChargeCountsForWindow ==
    [][\A r \in Requests :
          /\ (records[r] = <<>> /\ records'[r] # <<>>) => spend'[r].age = 0
          /\ (records[r] # <<>> /\ spend[r].age < Window) =>
                 /\ spend'[r].amount = spend[r].amount
                 /\ spend'[r].age \in {spend[r].age, spend[r].age + 1}]_vars

(* The ledger bills as Billing promises: each request is charged or        *)
(* refunded at most once, and only after it was held.                      *)
B == INSTANCE Billing WITH
    bill <- [r \in Requests |->
                IF reservation[r] = "none" THEN "none"
                ELSE IF records[r] # <<>> THEN "charged"
                ELSE IF reservation[r] = "open" THEN "held" ELSE "refunded"]

BillsOnce == B!Spec
=============================================================================
