------------------------------- MODULE Router -------------------------------
(***************************************************************************)
(* Routing (app/router.py, with the projection of app/tokens.py): which    *)
(* model serves a request, and which ones stand in as backends fail        *)
(* (service.py:269-285, 326-341).  route() is a pure function; a behaviour *)
(* is one request and its failovers, over every small catalog.             *)
(*                                                                         *)
(* Models are their positions in the catalog.  Prices, budgets and costs   *)
(* are whole numbers; the tier of a request is Complexity's.               *)
(***************************************************************************)
EXTENDS Complexity, FiniteSets

CONSTANTS
    Size,             \* the number of models in the catalog
    Offers,           \* the ModelSpecs a catalog is made of
    Tasks,            \* task_types of requests, as tiers, or NoTask
    Ceilings,         \* max_output_tokens of requests, NotGiven among them
    DefaultCeiling,   \* default_max_output_tokens
    Budgets

Models == 1..Size
NotGiven == 0         \* no max_output_tokens, no force_model
Unknown == Size + 1   \* a force_model that is not in the catalog

ASSUME RouterAssumption ==
    /\ Size \in Nat
    /\ Offers \subseteq [tier : Tiers, inPrice : Nat, outPrice : Nat, context : Nat]
    /\ Tasks \subseteq Tiers \cup {NoTask}
    /\ Ceilings \subseteq Nat /\ DefaultCeiling \in Nat
    /\ Budgets \subseteq Nat

VARIABLES
    catalog,    \* settings.catalog
    request,    \* what route() is told of the request
    excluded,   \* the models that failed it
    decision    \* the last answer of route(): a model, or an exception

vars == <<catalog, request, excluded, decision>>

Requests == [prompt : Prompts, task : Tasks, ceiling : Ceilings, budget : Budgets,
             force : Models \cup {NotGiven, Unknown}]

Raise(error) == [model |-> NotGiven, downgraded |-> FALSE, error |-> error]
Decide(m, down) == [model |-> m, downgraded |-> down, error |-> "none"]

-----------------------------------------------------------------------------
(* Python's round() of n / 4: to the nearest integer, ties to even.        *)
RoundQuarters(n) ==
    LET q == n \div 4
        r == n % 4
    IN  IF r > 2 \/ (r = 2 /\ q % 2 = 1) THEN q + 1 ELSE q

(* estimate_output_tokens(): three quarters of the ceiling, at least one.  *)
Projected(r) ==
    LET n == RoundQuarters(3 * (IF r.ceiling > 0 THEN r.ceiling ELSE DefaultCeiling))
    IN  IF n > 1 THEN n ELSE 1

TierOf(r) == Tier(r.prompt, r.ceiling, r.task)

Cost(m, r) ==
    r.prompt.tokens * catalog[m].inPrice + Projected(r) * catalog[m].outPrice

InContext(m, r) == r.prompt.tokens + Projected(r) <= catalog[m].context

(* Models are ranked by the price of a nominal call, not of this one.      *)
Rank(m) == catalog[m].inPrice + catalog[m].outPrice

(* sorted() is stable: equal ranks stay in catalog order.                  *)
Before(m, n) == Rank(m) < Rank(n) \/ (Rank(m) = Rank(n) /\ m < n)
Cheapest(S) == CHOOSE m \in S : \A n \in S \ {m} : Before(m, n)

(* Wrong on purpose: failed models stay in the catalog.                    *)
ExcludesNobody(failed) == Models

(* The catalog without the models that failed.                             *)
Available(failed) == Models \ failed

(* The models whose tier can handle the request.                           *)
Capable(r, failed) == {m \in Available(failed) : catalog[m].tier >= TierOf(r)}

(* Wrong on purpose: a downgrade is not checked against the context.       *)
CheaperAnyContext(r, failed, primary) ==
    {m \in Available(failed) : Rank(m) < Rank(primary) /\ Cost(m, r) <= r.budget}

(* Wrong on purpose: a lower rank is taken for a lower cost.               *)
CheaperByRank(r, failed, primary) ==
    {m \in Available(failed) : Rank(m) < Rank(primary) /\ InContext(m, r)}

(* The models a request may be switched down to.                           *)
Cheaper(r, failed, primary) ==
    {m \in Available(failed) :
        Rank(m) < Rank(primary) /\ InContext(m, r) /\ Cost(m, r) <= r.budget}

RouteForced(r, failed) ==
    IF r.force \notin Available(failed) THEN Raise("ValueError")
    ELSE IF ~InContext(r.force, r) THEN Raise("ContextTooLarge")
    ELSE IF Cost(r.force, r) > r.budget THEN Raise("BudgetExceeded")
    ELSE Decide(r.force, FALSE)

RouteFreely(r, failed) ==
    LET primary == Cheapest(Capable(r, failed))
        cheaper == Cheaper(r, failed, primary)
    IN  IF Capable(r, failed) = {} THEN Raise("ValueError")
        ELSE IF ~InContext(primary, r) THEN Raise("ContextTooLarge")
        ELSE IF Cost(primary, r) <= r.budget THEN Decide(primary, FALSE)
        ELSE IF cheaper # {} THEN Decide(Cheapest(cheaper), TRUE)
        ELSE Raise("BudgetExceeded")

Route(r, failed) ==
    IF Available(failed) = {} THEN Raise("NoModelAvailable")
    ELSE IF r.force # NotGiven THEN RouteForced(r, failed)
    ELSE RouteFreely(r, failed)

-----------------------------------------------------------------------------
Init ==
    /\ catalog \in [Models -> Offers]
    /\ request \in Requests
    /\ excluded = {}
    /\ decision = Route(request, {})

(* The chosen model's backend fails, and the model is not pinned.          *)
FailOver ==
    /\ decision.error = "none"
    /\ request.force = NotGiven
    /\ excluded' = excluded \cup {decision.model}
    /\ decision' = Route(request, excluded')
    /\ UNCHANGED <<catalog, request>>

Next == FailOver

Spec == Init /\ [][Next]_vars

-----------------------------------------------------------------------------
(* "The fallback still respects the complexity tier, the per-request       *)
(* budget, and the context window" (service.py:274-276): so does every     *)
(* model chosen, the first or a stand-in; only a downgrade or a pin may    *)
(* give up the tier, and a pin is never given up.  What is reserved always *)
(* leaves room for an answer (tokens.py:47-48).                            *)
RespectsLimits ==
    decision.error = "none" =>
        /\ decision.model \notin excluded
        /\ Projected(request) > 0
        /\ InContext(decision.model, request)
        /\ Cost(decision.model, request) <= request.budget
        /\ \/ catalog[decision.model].tier >= TierOf(request)
           \/ decision.downgraded
           \/ request.force = decision.model
        /\ request.force \in {NotGiven, decision.model}

(* "Anything with reasoning keywords [...] lands at least MODERATE"        *)
(* (complexity.py:159-160), whatever simple words stand beside them: such  *)
(* a prompt is never sent to a model of the lowest tier, at first or in    *)
(* place of one that failed, unless its task type, its pin or its budget   *)
(* says so.                                                                *)
ReasoningIsNotSimple ==
    /\ decision.error = "none"
    /\ request.prompt.reasoning > 0
    /\ request.task = NoTask /\ request.force = NotGiven
    /\ ~decision.downgraded
    => catalog[decision.model].tier > Simple

(* A downgrade pays (router.py:155-182): though models are ranked by a     *)
(* nominal call, the one switched down to costs this very request less     *)
(* than the best-ranked capable model, which it could not afford.          *)
DowngradeSaves ==
    decision.downgraded =>
        \E m \in Capable(request, excluded) :
            /\ \A n \in Capable(request, excluded) \ {m} : Before(m, n)
            /\ Cost(m, request) > request.budget
            /\ Cost(decision.model, request) < Cost(m, request)

(* Failover climbs (service.py:329-341): from a model to a dearer one, or  *)
(* from the capable ones to a downgrade, and never back.  So no model is   *)
(* tried twice, and the models offered to a request form a sequence fixed  *)
(* in advance, as Service assumes of Plan.                                 *)
FailoverClimbs ==
    [][decision'.error = "none" =>
          \/ decision'.downgraded /\ ~decision.downgraded
          \/ /\ decision'.downgraded = decision.downgraded
             /\ Before(decision.model, decision'.model)]_vars
=============================================================================
