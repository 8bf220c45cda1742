------------------------------- MODULE Quotas -------------------------------
(***************************************************************************)
(* The two limits on a user, one after the other as handle() consults them *)
(* (service.py:356-369): the rate limiter, and the ledger for a request    *)
(* that it let pass.  build_rate_limiter() gives a service whose ledger is *)
(* in memory a limiter in memory, and one whose ledger is in Redis the     *)
(* shared one (factory.py:65-79); with the latter the ledger's part is     *)
(* RedisLedger and not modelled again here.                                *)
(***************************************************************************)
EXTENDS Ledger, RateLimiter

quotaVars == <<vars, limiterVars>>

QuotasInit == Init /\ LimiterInit

(* The rate limiter is asked before anything is held.                      *)
CheckRate == Calls /\ UNCHANGED vars

(* What the limiter let pass reserves, and later settles or releases.      *)
Bill(r) ==
    /\ backend = "memory"
    /\ check[r] = "passed"
    /\ \/ \E cost \in Costs, limit \in Limits : Reserve(r, cost, limit)
       \/ \E cost \in Costs : Settle(r, cost)
       \/ Release(r)
    /\ UNCHANGED limiterVars

(* One clock for both.                                                     *)
Elapse == Tick /\ LimiterTick

QuotasNext == CheckRate \/ Elapse \/ \E r \in Requests : Bill(r)

QuotasSpec == QuotasInit /\ [][QuotasNext]_quotaVars

=============================================================================
