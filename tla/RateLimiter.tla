----------------------------- MODULE RateLimiter -----------------------------
(***************************************************************************)
(* The rate limiter (app/ratelimit.py): a token bucket per user, refilled  *)
(* when it is next looked at.  In "memory" a check is one uninterrupted    *)
(* step of one process.  In "redis" the replicas share the buckets: a      *)
(* replica reads its own clock, then calls a script, which runs some time  *)
(* later, atomically, with that reading; a call that fails lets the        *)
(* request through, whether or not its script ran.                         *)
(*                                                                         *)
(* Tokens are counted in fractions of a request (one costs Cost of them),  *)
(* and time in ticks of a clock that no replica need agree with.  A time   *)
(* stamp is kept as its age on that clock, negative when it lies in the    *)
(* future, and counted up to MaxAge, where every bucket has filled up.     *)
(*                                                                         *)
(* A key lives in Redis for twice the time its bucket takes to fill, if    *)
(* the rate is at least 0.001 tokens a second: a key that expires was a    *)
(* full bucket, and none expires here.                                     *)
(***************************************************************************)
EXTENDS Accounts, Integers

CONSTANTS
    Burst,      \* capacity
    Rate,       \* refill_per_second
    Cost,       \* cost of one request
    Replicas,
    Ahead,      \* Ahead[p]: how far the clock of replica p is ahead
    Lead,       \* the most that any clock is ahead
    MaxDelay    \* bound: the ticks a call to Redis takes at most

ASSUME LimiterAssumption ==
    /\ Burst \in Nat /\ Rate \in Nat \ {0} /\ Cost \in Nat
    /\ Lead \in Nat /\ MaxDelay \in Nat
    /\ Ahead \in [Replicas -> 0..Lead]

VARIABLES
    backend,   \* "memory" or "redis", as factory.py wires it
    bucket,    \* per user: the tokens left and the age of the time stamp
    check,     \* per request: "new", "sent" to Redis, "passed" or "denied"
    lead,      \* per request on its way: how far its reading of the clock is
               \* ahead of the time now (negative when it is old)
    level,     \* history: per user, the tokens granted, draining at Rate
    regained   \* history: per user, the tokens for time refilled twice

limiterVars == <<backend, bucket, check, lead, level, regained>>

MaxAge == Burst + Lead + MaxDelay

NotNegative(n) == IF n > 0 THEN n ELSE 0
AtMost(limit, n) == IF n > limit THEN limit ELSE n

LimiterInit ==
    /\ backend \in {"memory", "redis"}
    /\ bucket = [u \in Users |-> [tokens |-> Burst, age |-> 0]]
    /\ check = [r \in Requests |-> "new"]
    /\ lead = [r \in Requests |-> 0]
    /\ level = [u \in Users |-> 0]
    /\ regained = [u \in Users |-> 0]

(* Wrong on purpose: no cap on what an idle user saves up.                 *)
AvailableUncapped(b, ahead) == b.tokens + Rate * NotNegative(b.age + ahead)

(* The tokens in bucket b for a reading `ahead` of now: _current(), and    *)
(* the first half of the script.                                           *)
Available(b, ahead) == AtMost(Burst, b.tokens + Rate * NotNegative(b.age + ahead))

(* Wrong on purpose: a refused call sets the stamp but loses the refill.   *)
RefillOnGrantOnly(b, ahead) ==
    [tokens |-> IF Available(b, ahead) >= Cost THEN Available(b, ahead) - Cost
                ELSE b.tokens,
     age |-> -ahead]

(* The bucket after a call: refilled, stamped with the reading, and less   *)
(* by the cost if that much was there.                                     *)
Consumed(b, ahead) ==
    [tokens |-> IF Available(b, ahead) >= Cost THEN Available(b, ahead) - Cost
                ELSE Available(b, ahead),
     age |-> -ahead]

(* What a reading refills once more: the time by which it is older than    *)
(* now, or than the stamp it replaces when that is later than now.         *)
Regained(b, ahead) == Rate * NotNegative((IF b.age < 0 THEN -b.age ELSE 0) - ahead)

(* The bucket of r's user is refilled and asked for a token; reached says  *)
(* whether the answer gets to the caller, who else lets r pass.            *)
Consume(r, ahead, reached) ==
    LET u == Owner[r]
        granted == Available(bucket[u], ahead) >= Cost
    IN  /\ bucket' = [bucket EXCEPT ![u] = Consumed(@, ahead)]
        /\ check' = [check EXCEPT ![r] =
                        IF granted \/ ~reached THEN "passed" ELSE "denied"]
        /\ level' = [level EXCEPT ![u] = IF granted THEN @ + Cost ELSE @]
        /\ regained' = [regained EXCEPT ![u] = @ + Regained(bucket[u], ahead)]

(* TokenBucketLimiter.check()                                              *)
CheckLocally(r) ==
    /\ backend = "memory"
    /\ check[r] = "new"
    /\ Consume(r, 0, TRUE)
    /\ UNCHANGED <<backend, lead>>

(* RedisRateLimiter.check() reads the clock and awaits _eval().            *)
Send(r, p) ==
    /\ backend = "redis"
    /\ check[r] = "new"
    /\ check' = [check EXCEPT ![r] = "sent"]
    /\ lead' = [lead EXCEPT ![r] = Ahead[p]]
    /\ UNCHANGED <<backend, bucket, level, regained>>

(* The script runs, by EVALSHA or, when Redis has forgotten it, by EVAL;   *)
(* its reply may be lost.                                                  *)
Run(r) ==
    /\ check[r] = "sent"
    /\ \E reached \in BOOLEAN : Consume(r, lead[r], reached)
    /\ lead' = [lead EXCEPT ![r] = 0]
    /\ UNCHANGED backend

(* The call fails before the script ran: the request passes unmetered.     *)
FailOpen(r) ==
    /\ check[r] = "sent"
    /\ check' = [check EXCEPT ![r] = "passed"]
    /\ lead' = [lead EXCEPT ![r] = 0]
    /\ UNCHANGED <<backend, bucket, level, regained>>

(* TokenBucketLimiter.reset(): the user starts afresh, and so do the       *)
(* histories.                                                              *)
Reset(u) ==
    /\ backend = "memory"
    /\ bucket' = [bucket EXCEPT ![u] = [tokens |-> Burst, age |-> 0]]
    /\ level' = [level EXCEPT ![u] = 0]
    /\ UNCHANGED <<backend, check, lead, regained>>

LimiterTick ==
    /\ \A r \in Requests : check[r] = "sent" => lead[r] > -MaxDelay
    /\ bucket' = [u \in Users |-> [bucket[u] EXCEPT !.age = AtMost(MaxAge, @ + 1)]]
    /\ lead' = [r \in Requests |-> IF check[r] = "sent" THEN lead[r] - 1 ELSE 0]
    /\ level' = [u \in Users |-> NotNegative(level[u] - Rate)]
    /\ UNCHANGED <<backend, check, regained>>

Calls ==
    \/ \E r \in Requests :
           \/ CheckLocally(r) \/ Run(r) \/ FailOpen(r)
           \/ \E p \in Replicas : Send(r, p)
    \/ \E u \in Users : Reset(u)

LimiterNext == Calls \/ LimiterTick

LimiterSpec == LimiterInit /\ [][LimiterNext]_limiterVars

-----------------------------------------------------------------------------
LimiterTypeOK ==
    /\ backend \in {"memory", "redis"}
    /\ bucket \in [Users -> [tokens : 0..Burst, age : (-Lead)..MaxAge]]
    /\ check \in [Requests -> {"new", "sent", "passed", "denied"}]
    /\ lead \in [Requests -> (-MaxDelay)..Lead]
    /\ level \in [Users -> Nat]
    /\ regained \in [Users -> Nat]

(* How far clocks and delays may put the limit off.                        *)
Slack == IF backend = "memory" THEN 0 ELSE Rate * Lead

(* The limiter grants at most a burst and the refill of the time that      *)
(* passed (ratelimit.py:50-71); the shared one as much again as its        *)
(* fastest clock is ahead and as time is refilled twice, because a late or *)
(* slow reading set the time stamp back (ratelimit.py:99-109).             *)
GrantsBounded ==
    \A u \in Users :
        /\ level[u] <= Burst + Slack + regained[u]
        /\ backend = "memory" => regained[u] = 0

(* A request is turned away only if its user has spent the burst: none is  *)
(* lost to the rounding of refills or to calls that were refused           *)
(* (ratelimit.py:57-71), and the shared limiter is off by no more than its *)
(* clocks and its calls are late.                                          *)
DeniedOnlyWhenSpent ==
    [][\A r \in Requests : (check[r] # "denied" /\ check'[r] = "denied") =>
           level[Owner[r]] + Cost + (IF backend = "memory" THEN 0
                                     ELSE Rate * (Lead + MaxDelay)) > Burst]_limiterVars
=============================================================================
