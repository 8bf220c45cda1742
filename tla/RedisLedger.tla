----------------------------- MODULE RedisLedger -----------------------------
(***************************************************************************)
(* The distributed ledger (app/cost/redis_ledger.py): replicas of the      *)
(* service keep one budget per user in Redis.  Each operation is one Lua   *)
(* script, which Redis runs in one piece; a replica reaches it through     *)
(* _eval(), which may take three calls (SCRIPT LOAD, EVALSHA, EVAL).  Any  *)
(* call may fail, before the script ran or after it; Redis may restart,    *)
(* keeping its data and losing its script cache; a replica may crash; and  *)
(* the replicas' clocks, which stamp and prune the entries, disagree.      *)
(*                                                                         *)
(* Requests are buffered ones (app/service.py:345-423): a request's own    *)
(* task settles or releases it.  Timestamps are kept as ages, up to the    *)
(* age at which every replica prunes the entry, and a call to Redis takes  *)
(* less than a tick of the clock.                                          *)
(***************************************************************************)
EXTENDS Integers, FiniteSets, FiniteSetsExt

CONSTANTS
    Requests,
    Users,
    Owner,        \* Owner[r]: the user who pays for request r
    Replicas,
    Home,         \* Home[r]: the replica that serves request r
    Ahead,        \* Ahead[p]: how far the clock of replica p is ahead
    FailClosed,   \* the replicas with fail_closed
    Window,       \* window_seconds, in ticks
    Costs,        \* projected and actual costs
    Limits        \* the limits requests come with

ASSUME RedisLedgerAssumption ==
    /\ IsFiniteSet(Requests)
    /\ Owner \in [Requests -> Users]
    /\ Home \in [Requests -> Replicas]
    /\ IsFiniteSet(Replicas) /\ FailClosed \subseteq Replicas
    /\ Ahead \in [Replicas -> Nat]
    /\ Window \in Nat
    /\ Costs \subseteq Nat
    /\ Limits \subseteq Nat /\ IsFiniteSet(Limits) /\ Limits # {}

VARIABLES
    zset,      \* in Redis, per request: its member of the user's ZSET, or Gone
    scripts,   \* in Redis: the script cache
    sha,       \* per replica: the scripts whose SHA it has cached
    stage,     \* per request: where it is
    at,        \* per request: the call of _eval() it awaits
    closed,    \* per request: reservation.closed
    bill,      \* history, per request: what its scripts did, as in Billing
    surplus,   \* history, per request: what settling added beyond the hold
    faulted    \* history, per request: one of its calls failed, or its
               \* replica crashed under it

redisVars == <<zset, bill, surplus>>
vars == <<zset, scripts, sha, stage, at, closed, bill, surplus, faulted>>

(* The script a request is running, by stage.                              *)
Script == [reserving |-> "reserve", settling |-> "settle", releasing |-> "release"]
Calling == DOMAIN Script
Running == Calling \cup {"held", "cleaning"}
Ended == {"denied", "unavailable", "answered", "failed", "crashed"}

Spread == IF Replicas = {} THEN 0
          ELSE Max({Ahead[p] : p \in Replicas}) - Min({Ahead[p] : p \in Replicas})

Gone == [amount |-> 0, age |-> Window + Spread]

(* An entry scored by the clock of the replica that writes it.             *)
Fresh(r, cost) == [amount |-> cost, age |-> -Ahead[Home[r]]]

(* ZREMRANGEBYSCORE by a replica's clock: the edge of the window goes too. *)
Pruned(r) ==
    [q \in Requests |->
        IF Owner[q] = Owner[r] /\ zset[q].age + Ahead[Home[r]] >= Window
        THEN Gone ELSE zset[q]]

Of(u) == {q \in Requests : Owner[q] = u}

Sum(entries, u) ==
    SumFunctionOnSet([q \in Requests |-> entries[q].amount], Of(u))

Init ==
    /\ zset = [r \in Requests |-> Gone]
    /\ scripts = {}
    /\ sha = [p \in Replicas |-> {}]
    /\ stage = [r \in Requests |-> "new"]
    /\ at = [r \in Requests |-> "idle"]
    /\ closed = [r \in Requests |-> FALSE]
    /\ bill = [r \in Requests |-> "none"]
    /\ surplus = [r \in Requests |-> 0]
    /\ faulted = [r \in Requests |-> FALSE]

-----------------------------------------------------------------------------
(***************************************************************************)
(* The scripts, as Redis runs them for request r.                          *)
(***************************************************************************)

(* Wrong on purpose: sums without the hold it is about to take.            *)
RoomLeft(r, cost, limit) == Sum(Pruned(r), Owner[r]) < limit

Fits(r, cost, limit) == Sum(Pruned(r), Owner[r]) + cost <= limit

ReserveGrants(r) ==
    \E cost \in Costs, limit \in Limits :
        /\ Fits(r, cost, limit)
        /\ zset' = [Pruned(r) EXCEPT ![r] = Fresh(r, cost)]
        /\ bill' = [bill EXCEPT ![r] = "held"]
        /\ UNCHANGED surplus

ReserveDenies(r) ==
    /\ \E cost \in Costs, limit \in Limits : ~Fits(r, cost, limit)
    /\ zset' = Pruned(r)
    /\ UNCHANGED <<bill, surplus>>

(* Wrong on purpose: the charge keeps the time stamp of the hold.          *)
SettleUnstamped(r) ==
    \E cost \in Costs :
        /\ zset' = [zset EXCEPT ![r].amount = cost]
        /\ bill' = [bill EXCEPT ![r] = "charged"]
        /\ surplus' = [surplus EXCEPT ![r] = cost - zset[r].amount]

(* Drops the hold, if it is still there, and adds the charge.              *)
SettleRuns(r) ==
    \E cost \in Costs :
        /\ zset' = [zset EXCEPT ![r] = Fresh(r, cost)]
        /\ bill' = [bill EXCEPT ![r] = "charged"]
        /\ surplus' = [surplus EXCEPT ![r] = cost - zset[r].amount]

ReleaseRuns(r) ==
    /\ zset' = [zset EXCEPT ![r] = Gone]
    /\ bill' = [bill EXCEPT ![r] = IF @ = "none" THEN @ ELSE "refunded"]
    /\ UNCHANGED surplus

-----------------------------------------------------------------------------
(***************************************************************************)
(* The calls of a request's task.                                          *)
(***************************************************************************)

(* The operation starts: its first call depends on the cached SHA.         *)
Start(r, from, to) ==
    /\ stage[r] = from
    /\ stage' = [stage EXCEPT ![r] = to]
    /\ at' = [at EXCEPT ![r] =
                 IF Script[to] \in sha[Home[r]] THEN "evalsha" ELSE "load"]
    /\ UNCHANGED <<redisVars, scripts, sha, closed, faulted>>

Reserve(r) == Start(r, "new", "reserving")
Settle(r) == Start(r, "held", "settling")
Release(r) == Start(r, "held", "releasing")

(* SCRIPT LOAD returns.                                                    *)
Load(r) ==
    /\ at[r] = "load"
    /\ scripts' = scripts \cup {Script[stage[r]]}
    /\ sha' = [sha EXCEPT ![Home[r]] = @ \cup {Script[stage[r]]}]
    /\ at' = [at EXCEPT ![r] = "evalsha"]
    /\ UNCHANGED <<redisVars, stage, closed, faulted>>

(* The call that runs the script reaches Redis.                            *)
Reached(r) ==
    \/ at[r] = "evalsha" /\ Script[stage[r]] \in scripts /\ UNCHANGED scripts
    \/ at[r] = "eval" /\ scripts' = scripts \cup {Script[stage[r]]}

Returns(r, to) ==
    /\ stage' = [stage EXCEPT ![r] = to]
    /\ at' = [at EXCEPT ![r] = "idle"]

(* The script ran and its reply arrived.                                   *)
Replied(r) ==
    /\ Reached(r)
    /\ \/ /\ stage[r] = "reserving"
          /\ \/ ReserveGrants(r) /\ Returns(r, "held")
             \/ ReserveDenies(r) /\ Returns(r, "denied")
          /\ UNCHANGED closed
       \/ /\ stage[r] = "settling"
          /\ SettleRuns(r) /\ Returns(r, "answered")
          /\ closed' = [closed EXCEPT ![r] = TRUE]
       \/ /\ stage[r] = "releasing"
          /\ ReleaseRuns(r) /\ Returns(r, "failed")
          /\ closed' = [closed EXCEPT ![r] = TRUE]
    /\ UNCHANGED <<sha, faulted>>

(* What becomes of a request whose operation raised: a replica that fails  *)
(* closed passes the exception on, another one carries on.                 *)
AfterError(r) ==
    CASE stage[r] = "reserving" ->
            IF Home[r] \in FailClosed THEN "unavailable" ELSE "held"
      [] stage[r] = "settling" ->
            IF Home[r] \in FailClosed THEN "cleaning" ELSE "answered"
      [] stage[r] = "releasing" -> "failed"

(* Wrong on purpose: a settlement that raised leaves the reservation open. *)
RaisesOpen(r) ==
    /\ Returns(r, AfterError(r))
    /\ UNCHANGED closed

(* Settling and releasing close the reservation whether or not they raise. *)
Raises(r) ==
    /\ Returns(r, AfterError(r))
    /\ closed' = [closed EXCEPT ![r] = stage[r] # "reserving"]

(* The connection fails, before the script ran or after it.                *)
Fault(r) ==
    /\ at[r] # "idle"
    /\ \/ UNCHANGED <<redisVars, scripts>>
       \/ /\ Reached(r)
          /\ \/ stage[r] = "reserving" /\ (ReserveGrants(r) \/ ReserveDenies(r))
             \/ stage[r] = "settling" /\ SettleRuns(r)
             \/ stage[r] = "releasing" /\ ReleaseRuns(r)
    /\ Raises(r)
    /\ faulted' = [faulted EXCEPT ![r] = TRUE]
    /\ UNCHANGED sha

(* Wrong on purpose: EVALSHA's NOSCRIPT error is an error like any other.  *)
NoScriptRaises(r) ==
    /\ at[r] = "evalsha"
    /\ Script[stage[r]] \notin scripts
    /\ Raises(r)
    /\ UNCHANGED <<redisVars, scripts, sha, faulted>>

(* Wrong on purpose: a NOSCRIPT error is taken for an answer.              *)
NoScriptReturns(r) ==
    /\ at[r] = "evalsha"
    /\ Script[stage[r]] \notin scripts
    /\ Returns(r, CASE stage[r] = "reserving" -> "held"
                    [] stage[r] = "settling" -> "answered"
                    [] stage[r] = "releasing" -> "failed")
    /\ closed' = [closed EXCEPT ![r] = stage[r] # "reserving"]
    /\ UNCHANGED <<redisVars, scripts, sha, faulted>>

(* EVALSHA finds the script cache flushed: forget the SHA and use EVAL.    *)
NoScript(r) ==
    /\ at[r] = "evalsha"
    /\ Script[stage[r]] \notin scripts
    /\ sha' = [sha EXCEPT ![Home[r]] = @ \ {Script[stage[r]]}]
    /\ at' = [at EXCEPT ![r] = "eval"]
    /\ UNCHANGED <<redisVars, scripts, stage, closed, faulted>>

(* handle() releases after a settlement that raised, but release() does    *)
(* nothing on a closed reservation.                                        *)
CleanUp(r) ==
    IF closed[r]
    THEN /\ stage[r] = "cleaning"
         /\ stage' = [stage EXCEPT ![r] = "failed"]
         /\ UNCHANGED <<redisVars, scripts, sha, at, closed, faulted>>
    ELSE Start(r, "cleaning", "releasing")

-----------------------------------------------------------------------------
(* Redis restarts: the data is persistent, the script cache is not.        *)
Restart ==
    /\ scripts # {}
    /\ scripts' = {}
    /\ UNCHANGED <<redisVars, sha, stage, at, closed, faulted>>

(* A replica crashes under its requests, and starts again.                 *)
Crash(p) ==
    LET lost == {r \in Requests : Home[r] = p /\ stage[r] \in Running}
    IN  /\ lost # {}
        /\ stage' = [r \in Requests |-> IF r \in lost THEN "crashed" ELSE stage[r]]
        /\ at' = [r \in Requests |-> IF r \in lost THEN "idle" ELSE at[r]]
        /\ faulted' = [r \in Requests |-> faulted[r] \/ r \in lost]
        /\ sha' = [sha EXCEPT ![p] = {}]
        /\ UNCHANGED <<redisVars, scripts, closed>>

Tick ==
    /\ \A r \in Requests : at[r] = "idle"
    /\ zset' = [r \in Requests |->
                   IF zset[r].age >= Window + Spread THEN zset[r]
                   ELSE [zset[r] EXCEPT !.age = @ + 1]]
    /\ UNCHANGED <<scripts, sha, stage, at, closed, bill, surplus, faulted>>

Next ==
    \/ \E r \in Requests :
          \/ Reserve(r) \/ Settle(r) \/ Release(r) \/ Load(r) \/ Replied(r)
          \/ NoScript(r) \/ Fault(r) \/ CleanUp(r)
    \/ \E p \in Replicas : Crash(p)
    \/ Restart
    \/ Tick

Spec == Init /\ [][Next]_vars

-----------------------------------------------------------------------------
Present(r) == zset[r].amount > 0

TypeOK ==
    /\ zset \in [Requests -> [amount : Costs \cup {0}, age : Int]]
    /\ at \in [Requests -> {"idle", "load", "evalsha", "eval"}]
    /\ \A r \in Requests :
          /\ zset[r].age \in -Ahead[Home[r]]..(Window + Spread)
          /\ at[r] = "idle" <=> stage[r] \notin Calling
    /\ scripts \subseteq {"reserve", "settle", "release"}
    /\ sha \in [Replicas -> SUBSET {"reserve", "settle", "release"}]
    /\ stage \in [Requests -> {"new"} \cup Running \cup Ended]
    /\ closed \in [Requests -> BOOLEAN]
    /\ bill \in [Requests -> {"none", "held", "charged", "refunded"}]
    /\ surplus \in [Requests -> Int]
    /\ faulted \in [Requests -> BOOLEAN]

Over == [r \in Requests |-> IF Present(r) /\ surplus[r] > 0 THEN surplus[r] ELSE 0]

Overrun(u) == SumFunctionOnSet(Over, Of(u))

(* "The budget is global across the fleet" (redis_ledger.py:3-11): what    *)
(* counts against a user, whichever replicas put it there, never exceeds   *)
(* the largest limit by more than completed requests cost beyond their     *)
(* holds, though calls fail, replicas crash and clocks disagree.           *)
BudgetHeld == \A u \in Users : Sum(zset, u) <= Max(Limits) + Overrun(u)

(* A hold outlives its request only if one of the request's own calls      *)
(* failed or its replica crashed: no flush of the script cache and no      *)
(* other request leaves one behind (redis_ledger.py:164-180, 260-274).     *)
HoldsAreOwned ==
    /\ TypeOK
    /\ \A r \in Requests : bill[r] = "held" => stage[r] \in Running \/ faulted[r]

(* A restart of Redis is invisible: a request is turned away as            *)
(* unmeterable, or loses its answer, only after a call of its own failed   *)
(* (redis_ledger.py:167-168, 176-179).                                     *)
RestartInvisible ==
    \A r \in Requests : stage[r] \in {"unavailable", "cleaning"} => faulted[r]

(* An entry counts until its own release, or until the window, less the    *)
(* disagreement of the clocks, is over since it was last written; a charge *)
(* is written anew (redis_ledger.py:53, 85-97).                            *)
EntriesLastWindow ==
    [][\A r \in Requests :
          /\ (Present(r) /\ zset'[r] = Gone) =>
                 \/ bill'[r] = "refunded" /\ bill[r] = "held"
                 \/ zset[r].age + Ahead[Home[r]] >= Window - Spread
          /\ (bill[r] # "charged" /\ bill'[r] = "charged") =>
                 zset'[r].age = -Ahead[Home[r]]]_vars

(* A replica that fails closed bills as Billing promises: each request is  *)
(* charged or refunded at most once, and only after it was held, whatever  *)
(* fails on the way (redis_ledger.py:241-246).                             *)
Metered == {r \in Requests : Home[r] \in FailClosed}

Bill == INSTANCE Billing WITH
    Requests <- Metered, bill <- [r \in Metered |-> bill[r]]

BillsOnce == Bill!Spec

(* "Never fail a completed request because bookkeeping failed"             *)
(* (redis_ledger.py:239-240): a request that is being settled is answered, *)
(* unless its replica crashes.                                             *)
CompletedIsAnswered ==
    [][\A r \in Requests :
          stage[r] = "settling" =>
              stage'[r] \in {"settling", "answered", "crashed"}]_vars
=============================================================================
