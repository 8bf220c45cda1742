---------------------------- MODULE QuotasProofs ----------------------------
(***************************************************************************)
(* The two limits on a user, for every set of users, requests and          *)
(* replicas: the rate limiter, for every burst, rate and cost, and clocks  *)
(* ahead by any bound; the ledger, for every window, cost and limit; and   *)
(* the two of them one after the other.                                    *)
(*                                                                         *)
(* GrantsBounded is not inductive: a user who has been granted a lot must  *)
(* also be known to have few tokens left.  The invariant adds to what was  *)
(* granted what the bucket would hold now (Pot).  Time adds at most Rate   *)
(* to the second and takes Rate off the first; a grant moves its cost from *)
(* the one to the other; a script with a reading of the clock changes Pot  *)
(* by no more than what it refills twice.                                  *)
(*                                                                         *)
(* BudgetHeld is not either: the sum of what counts, less what settling    *)
(* added (Granted), is what a reservation bounds and no other step raises. *)
(***************************************************************************)
EXTENDS Quotas, Sums

-----------------------------------------------------------------------------
(***************************************************************************)
(* The rate limiter.                                                       *)
(***************************************************************************)
(* What bucket b holds now: its tokens and their refill, less the refill   *)
(* it was given in advance if its stamp lies in the future.                *)
Pot(b) == IF b.age < 0 THEN b.tokens + Rate * b.age ELSE Available(b, 0)

Buckets == [tokens : 0..Burst, age : (-Lead)..MaxAge]

(* A memory limiter works with the time now.                               *)
LocalClock ==
    backend = "memory" =>
        /\ \A u \in Users : regained[u] = 0 /\ bucket[u].age >= 0
        /\ \A r \in Requests : check[r] # "sent"

PotBounded == \A u \in Users : level[u] + Pot(bucket[u]) <= Burst + regained[u]

LimiterInv == LimiterTypeOK /\ LocalClock /\ PotBounded

-----------------------------------------------------------------------------
(* The arithmetic: what more time is worth.                                *)
LEMMA RateTimes ==
    ASSUME NEW m \in Int, NEW n \in Int
    PROVE  /\ Rate * m \in Int
           /\ Rate * (m + n) = Rate * m + Rate * n
           /\ Rate * (m - n) = Rate * m - Rate * n
           /\ Rate * (-m) = -(Rate * m)
           /\ m <= n => Rate * m <= Rate * n
           /\ m >= 0 => Rate * m >= m
           /\ Rate * 0 = 0 /\ Rate * 1 = Rate
<1>1. Rate \in Nat /\ Rate >= 1
    BY LimiterAssumption
<1>2. /\ Rate * m \in Int
      /\ Rate * (m + n) = Rate * m + Rate * n
      /\ Rate * (m - n) = Rate * m - Rate * n
      /\ Rate * (-m) = -(Rate * m)
      /\ Rate * 0 = 0 /\ Rate * 1 = Rate
    BY <1>1
<1>3. ASSUME m <= n PROVE Rate * m <= Rate * n
    <2>1. Rate * (n - m) >= 0
        BY <1>1, <1>3
    <2>2. Rate * (n - m) = Rate * n - Rate * m
        BY <1>1
    <2> QED BY <1>1, <2>1, <2>2
<1>4. ASSUME m >= 0 PROVE Rate * m >= m
    <2>1. (Rate - 1) * m >= 0
        BY <1>1, <1>4
    <2>2. (Rate - 1) * m = Rate * m - m
        BY <1>1
    <2> QED BY <1>1, <2>1, <2>2
<1> QED BY <1>2, <1>3, <1>4

(* Reading a bucket gives at most a burst (ratelimit.py:50-55).            *)
LEMMA AvailableIs ==
    ASSUME NEW b \in Buckets, NEW a \in Int
    PROVE  /\ Available(b, a) \in 0..Burst
           /\ Available(b, a) >= b.tokens
           /\ b.age + a < 0 => Available(b, a) = b.tokens
           /\ b.age + a >= 0 =>
                  /\ Available(b, a) <= b.tokens + Rate * (b.age + a)
                  /\ \/ Available(b, a) = Burst
                     \/ Available(b, a) = b.tokens + Rate * (b.age + a)
<1>1. b.tokens \in 0..Burst /\ b.age \in Int /\ Burst \in Nat /\ Rate \in Nat
    BY LimiterAssumption DEF Buckets, MaxAge
<1>2. ASSUME NEW n \in Int, n >= 0 PROVE Rate * n \in Int /\ Rate * n >= 0
    BY <1>1, <1>2
<1>3. CASE b.age + a < 0
    <2>1. NotNegative(b.age + a) = 0 /\ Rate * 0 = 0
        BY <1>1, <1>3 DEF NotNegative
    <2> QED BY <1>1, <1>3, <2>1 DEF Available, AtMost
<1>4. CASE b.age + a >= 0
    <2>1. NotNegative(b.age + a) = b.age + a
        BY <1>1, <1>4 DEF NotNegative
    <2>2. Rate * (b.age + a) \in Int /\ Rate * (b.age + a) >= 0
        BY <1>1, <1>2, <1>4
    <2> QED BY <1>1, <1>4, <2>1, <2>2 DEF Available, AtMost
<1> QED BY <1>1, <1>3, <1>4

(* A call leaves a bucket (ratelimit.py:57-71, 86-112).                    *)
LEMMA ConsumedIs ==
    ASSUME NEW b \in Buckets, NEW a \in (-MaxDelay)..Lead
    PROVE  /\ Consumed(b, a) \in Buckets
           /\ Consumed(b, a).age = -a
           /\ Consumed(b, a).tokens =
                  IF Available(b, a) >= Cost THEN Available(b, a) - Cost
                  ELSE Available(b, a)
<1>1. Available(b, a) \in 0..Burst /\ Cost \in Nat /\ Burst \in Nat
      /\ Lead \in Nat /\ MaxDelay \in Nat /\ a \in Int
    BY AvailableIs, LimiterAssumption
<1>2. -a \in (-Lead)..MaxAge
    BY <1>1 DEF MaxAge
<1> QED BY <1>1, <1>2 DEF Consumed, Buckets

(* What is refilled once more.                                             *)
LEMMA RegainedIs ==
    ASSUME NEW b \in Buckets, NEW a \in Int
    PROVE  LET late == (IF b.age < 0 THEN -b.age ELSE 0) - a
           IN  Regained(b, a) = (IF late > 0 THEN Rate * late ELSE 0)
               /\ Regained(b, a) \in Nat
<1> DEFINE late == (IF b.age < 0 THEN -b.age ELSE 0) - a
<1>1. late \in Int /\ Rate \in Nat
    BY LimiterAssumption DEF Buckets, MaxAge
<1>2. Rate * 0 = 0 /\ (late > 0 => Rate * late \in Nat)
    BY <1>1
<1> QED BY <1>1, <1>2 DEF Regained, NotNegative

(* What a bucket holds now is at most a burst, and at least nothing less   *)
(* what the fastest clock got in advance.                                  *)
LEMMA PotRange ==
    ASSUME NEW b \in Buckets
    PROVE  /\ Pot(b) \in Int /\ Pot(b) <= Burst
           /\ b.age >= 0 => Pot(b) >= 0
           /\ Pot(b) >= -(Rate * Lead)
<1>1. /\ b.tokens \in 0..Burst /\ b.age \in Int /\ b.age >= -Lead
      /\ Lead \in Nat /\ Burst \in Nat
    BY LimiterAssumption DEF Buckets, MaxAge
<1>2. Rate * Lead \in Int /\ Rate * Lead >= 0
    BY <1>1, RateTimes
<1>3. CASE b.age < 0
    <2>1. Rate * b.age \in Int /\ Rate * b.age <= Rate * 0 /\ Rate * 0 = 0
        <3>1. b.age <= 0 /\ 0 \in Int
            BY <1>1, <1>3
        <3> QED BY <1>1, <3>1, RateTimes
    <2>2. Rate * (-Lead) <= Rate * b.age /\ Rate * (-Lead) = -(Rate * Lead)
        <3>1. -Lead \in Int /\ -Lead <= b.age /\ Lead \in Int
            BY <1>1
        <3> QED BY <1>1, <3>1, RateTimes
    <2> QED BY <1>1, <1>2, <1>3, <2>1, <2>2 DEF Pot
<1>4. CASE b.age >= 0
    <2>1. Available(b, 0) \in 0..Burst
        BY AvailableIs
    <2> QED BY <1>1, <1>2, <1>4, <2>1 DEF Pot
<1> QED BY <1>1, <1>3, <1>4

(* A call takes what it grants out of what the bucket holds now, but for   *)
(* what it refills twice (ratelimit.py:57-71, 99-109).                     *)
LEMMA PotConsumed ==
    ASSUME NEW b \in Buckets, NEW a \in (-MaxDelay)..Lead
    PROVE  Pot(Consumed(b, a)) + (IF Available(b, a) >= Cost THEN Cost ELSE 0)
               <= Pot(b) + Regained(b, a)
<1> DEFINE c == Consumed(b, a)
           got == IF Available(b, a) >= Cost THEN Cost ELSE 0
           A == Available(b, a)
           ra == Rate * a
           rb == Rate * b.age
<1>1. /\ a \in Int /\ b.age \in Int /\ b.tokens \in 0..Burst /\ Burst \in Nat
      /\ Cost \in Nat
    BY LimiterAssumption DEF Buckets, MaxAge
<1>2. c \in Buckets /\ c.age = -a /\ c.tokens = A - got /\ A \in 0..Burst /\ got \in Nat
    BY <1>1, ConsumedIs, AvailableIs
<1>3. /\ ra \in Int /\ rb \in Int
      /\ Rate * (b.age + a) = rb + ra
      /\ Rate * (-a) = -ra
      /\ Rate * (-b.age - a) = -rb - ra
      /\ Rate * (0 - a) = -ra
      /\ (a >= 0 => ra >= 0) /\ (a <= 0 => ra <= 0)
      /\ (b.age >= 0 => rb >= 0)
    <2>1. /\ -b.age \in Int /\ 0 \in Int /\ -b.age - a = -(b.age + a) /\ 0 - a = -a
          /\ b.age + a \in Int
        BY <1>1
    <2>2. /\ ra \in Int /\ rb \in Int /\ Rate * (b.age + a) = rb + ra
          /\ Rate * (-a) = -ra /\ Rate * 0 = 0
        BY <1>1, RateTimes
    <2>3. Rate * (-(b.age + a)) = -(Rate * (b.age + a))
        BY <2>1, RateTimes
    <2>4. Rate * (-b.age - a) = -rb - ra /\ Rate * (0 - a) = -ra
        BY <2>1, <2>2, <2>3
    <2>5. (a >= 0 => Rate * 0 <= ra) /\ (b.age >= 0 => Rate * 0 <= rb)
        BY <1>1, <2>1, RateTimes
    <2>6. a <= 0 => ra <= Rate * 0
        BY <1>1, <2>1, RateTimes
    <2> QED BY <2>2, <2>4, <2>5, <2>6
<1>4. /\ A >= b.tokens
      /\ b.age + a < 0 => A = b.tokens
      /\ b.age + a >= 0 => A <= b.tokens + (rb + ra)
    BY <1>1, <1>3, AvailableIs
<1>5. b.age >= 0 => /\ Pot(b) >= b.tokens
                    /\ Pot(b) = Burst \/ Pot(b) = b.tokens + rb
    <2>1. b.age + 0 = b.age
        BY <1>1
    <2> QED BY <1>1, <2>1, AvailableIs DEF Pot
<1>6. b.age < 0 => Pot(b) = b.tokens + rb
    BY <1>1 DEF Pot
<1>7. Pot(b) \in Int /\ Pot(c) \in Int /\ Regained(b, a) \in Nat
    BY <1>1, <1>2, PotRange, RegainedIs
<1>8. Pot(c) <= (A - got) - ra
    <2>1. CASE a > 0
        BY <1>1, <1>2, <1>3, <2>1 DEF Pot
    <2>2. CASE a <= 0
        <3>1. Pot(c) = Available(c, 0)
            BY <1>1, <1>2, <2>2 DEF Pot
        <3>2. c.age + 0 = -a /\ c.age + 0 >= 0
            BY <1>1, <1>2, <2>2
        <3>3. Available(c, 0) <= c.tokens + Rate * (-a)
            BY <1>2, <3>2, AvailableIs
        <3> QED BY <1>1, <1>2, <1>3, <3>1, <3>3
    <2> QED BY <1>1, <2>1, <2>2
<1>9. A - ra <= Pot(b) + Regained(b, a)
    <2>1. CASE b.age < 0 /\ b.age + a < 0
        <3>1. Regained(b, a) = -rb - ra
            BY <1>1, <1>3, <2>1, RegainedIs
        <3> QED BY <1>1, <1>2, <1>3, <1>4, <1>6, <2>1, <3>1
    <2>2. CASE b.age < 0 /\ b.age + a >= 0
        BY <1>1, <1>2, <1>3, <1>4, <1>6, <1>7, <2>2
    <2>3. CASE b.age >= 0 /\ a >= 0
        BY <1>1, <1>2, <1>3, <1>4, <1>5, <1>7, <2>3
    <2>4. CASE b.age >= 0 /\ a < 0
        <3>1. Regained(b, a) = -ra
            BY <1>1, <1>3, <2>4, RegainedIs
        <3>2. A <= Pot(b)
            BY <1>1, <1>2, <1>3, <1>4, <1>5, <2>4
        <3> QED BY <1>1, <1>2, <1>3, <1>7, <3>1, <3>2
    <2> QED BY <1>1, <2>1, <2>2, <2>3, <2>4
<1> QED BY <1>1, <1>2, <1>3, <1>7, <1>8, <1>9

(* A tick refills a bucket by Rate at most.                                *)
LEMMA PotOlder ==
    ASSUME NEW b \in Buckets
    PROVE  LET d == [b EXCEPT !.age = AtMost(MaxAge, @ + 1)]
           IN  /\ d \in Buckets
               /\ b.age >= 0 => d.age >= 0
               /\ Pot(d) <= Pot(b) + Rate
<1> DEFINE d == [b EXCEPT !.age = AtMost(MaxAge, @ + 1)]
<1>1. /\ b.tokens \in 0..Burst /\ b.age \in (-Lead)..MaxAge /\ MaxAge \in Nat
      /\ Lead \in Nat /\ Burst \in Nat /\ Rate \in Nat
    BY LimiterAssumption DEF Buckets, MaxAge
<1>2. /\ d \in Buckets /\ d.tokens = b.tokens /\ d.age \in Int
      /\ d.age = b.age + 1 \/ (d.age = b.age /\ b.age >= 0)
    BY <1>1 DEF Buckets, AtMost
<1>3. CASE d.age = b.age /\ b.age >= 0
    <2>1. d = b
        BY <1>1, <1>2, <1>3 DEF Buckets
    <2> QED BY <1>1, <1>2, <1>3, <2>1, PotRange
<1>4. CASE d.age = b.age + 1
    <2>1. /\ Rate * b.age \in Int /\ Rate * (b.age + 1) = Rate * b.age + Rate
          /\ Rate * 0 = 0
        BY <1>1, RateTimes
    <2>2. b.age + 0 = b.age /\ d.age + 0 = b.age + 1
        BY <1>1, <1>4
    <2>3. CASE b.age < -1
        BY <1>1, <1>2, <1>4, <2>1, <2>3 DEF Pot
    <2>4. CASE b.age = -1
        <3>1. Available(d, 0) <= b.tokens + Rate * 0
            <4>1. d.age + 0 >= 0 /\ d.age + 0 = 0 /\ 0 \in Int
                BY <2>2, <2>4
            <4>2. Available(d, 0) <= d.tokens + Rate * (d.age + 0)
                BY <1>2, <4>1, AvailableIs
            <4> QED BY <1>2, <4>1, <4>2
        <3>2. Available(d, 0) \in Int
            BY <1>2, AvailableIs
        <3>3. Rate * b.age + Rate = 0
            BY <2>1, <2>4
        <3> QED BY <1>1, <1>2, <1>4, <2>1, <2>4, <3>1, <3>2, <3>3 DEF Pot
    <2>5. CASE b.age >= 0
        <3>1. /\ Available(d, 0) <= b.tokens + (Rate * b.age + Rate)
              /\ Available(d, 0) \in 0..Burst
            <4>1. d.age + 0 >= 0 /\ 0 \in Int
                BY <1>1, <2>2, <2>5
            <4>2. /\ Available(d, 0) <= d.tokens + Rate * (d.age + 0)
                  /\ Available(d, 0) \in 0..Burst
                BY <1>2, <4>1, AvailableIs
            <4> QED BY <1>2, <2>1, <2>2, <4>2
        <3>2. /\ Available(b, 0) \in 0..Burst
              /\ Available(b, 0) = Burst \/ Available(b, 0) = b.tokens + Rate * b.age
            BY <1>1, <2>2, <2>5, AvailableIs
        <3> QED BY <1>1, <1>2, <1>4, <2>1, <2>5, <3>1, <3>2 DEF Pot
    <2> QED BY <1>1, <1>2, <2>3, <2>4, <2>5
<1> QED BY <1>2, <1>3, <1>4

-----------------------------------------------------------------------------
(* Every bucket starts full (ratelimit.py:51, 96-97).                      *)
LEMMA LimiterInitial == ASSUME LimiterInit PROVE LimiterInv
<1> DEFINE full == [tokens |-> Burst, age |-> 0]
<1>1. full \in Buckets /\ Burst \in Nat
    BY LimiterAssumption DEF Buckets, MaxAge
<1>2. Pot(full) <= Burst /\ Pot(full) \in Int
    BY <1>1, PotRange
<1>3. LimiterTypeOK
    BY <1>1, LimiterAssumption DEF LimiterInit, LimiterTypeOK, Buckets
<1>4. LocalClock
    BY <1>1 DEF LimiterInit, LocalClock
<1>5. PotBounded
    BY <1>1, <1>2 DEF LimiterInit, PotBounded
<1> QED BY <1>3, <1>4, <1>5 DEF LimiterInv

(* The step of a call that reaches its bucket.                             *)
LEMMA ConsumeStep ==
    ASSUME LimiterInv, NEW r \in Requests, NEW a \in (-MaxDelay)..Lead,
           NEW reached \in BOOLEAN, Consume(r, a, reached), UNCHANGED backend,
           lead' \in [Requests -> (-MaxDelay)..Lead],
           backend = "memory" => a = 0
    PROVE  LimiterInv'
<1> DEFINE u == Owner[r]
           b == bucket[u]
           got == IF Available(b, a) >= Cost THEN Cost ELSE 0
<1> USE DEF LimiterInv
<1>1. /\ u \in Users /\ b \in Buckets /\ Cost \in Nat /\ a \in Int
      /\ level[u] \in Nat /\ regained[u] \in Nat /\ Burst \in Nat
    BY LimiterAssumption, AccountsAssumption DEF LimiterTypeOK, Buckets
<1>2. /\ bucket' = [bucket EXCEPT ![u] = Consumed(b, a)]
      /\ level' = [level EXCEPT ![u] = level[u] + got]
      /\ regained' = [regained EXCEPT ![u] = regained[u] + Regained(b, a)]
      /\ check' = [check EXCEPT ![r] = check'[r]]
      /\ check'[r] \in {"passed", "denied"}
    <2>1. level' = [level EXCEPT ![u] = IF Available(b, a) >= Cost THEN level[u] + Cost
                                        ELSE level[u]]
        BY DEF Consume
    <2>2. level' = [level EXCEPT ![u] = level[u] + got]
        <3>1. (IF Available(b, a) >= Cost THEN level[u] + Cost ELSE level[u])
                  = level[u] + got
            BY <1>1
        <3> QED BY <2>1, <3>1
    <2> QED BY <1>1, <2>2 DEF Consume, LimiterTypeOK
<1>3. /\ Consumed(b, a) \in Buckets /\ Consumed(b, a).age = -a
      /\ Regained(b, a) \in Nat
    BY <1>1, ConsumedIs, RegainedIs
<1>4. LimiterTypeOK'
    BY <1>1, <1>2, <1>3 DEF LimiterTypeOK, Buckets
<1>5. LocalClock'
    <2> SUFFICES ASSUME backend = "memory" PROVE LocalClock'
        BY DEF LocalClock
    <2>1. a = 0 /\ b.age >= 0 /\ regained[u] = 0
        BY <1>1 DEF LocalClock
    <2>2. Regained(b, a) = 0
        <3>1. (IF b.age < 0 THEN -b.age ELSE 0) - a = 0
            <4>1. ~(b.age < 0)
                BY <1>1, <2>1, LimiterAssumption DEF Buckets, MaxAge
            <4> QED BY <2>1, <4>1
        <3> QED BY <1>1, <3>1, RegainedIs
    <2> QED BY <1>1, <1>2, <1>3, <2>1, <2>2 DEF LocalClock, LimiterTypeOK
<1>6. PotBounded'
    <2>1. ASSUME NEW v \in Users \ {u}
          PROVE  level'[v] + Pot(bucket'[v]) <= Burst + regained'[v]
        <3>1. level'[v] = level[v] /\ bucket'[v] = bucket[v] /\ regained'[v] = regained[v]
            BY <1>2 DEF LimiterTypeOK
        <3> QED BY <3>1 DEF PotBounded
    <2>2. level'[u] + Pot(bucket'[u]) <= Burst + regained'[u]
        <3>1. /\ level'[u] = level[u] + got /\ bucket'[u] = Consumed(b, a)
              /\ regained'[u] = regained[u] + Regained(b, a)
            BY <1>1, <1>2 DEF LimiterTypeOK
        <3>2. Pot(Consumed(b, a)) + got <= Pot(b) + Regained(b, a)
            BY <1>1, PotConsumed
        <3>3. Pot(Consumed(b, a)) \in Int /\ Pot(b) \in Int /\ got \in Nat
            BY <1>1, <1>3, PotRange
        <3>4. level[u] + Pot(b) <= Burst + regained[u]
            BY <1>1 DEF PotBounded
        <3> QED BY <1>1, <1>3, <3>1, <3>2, <3>3, <3>4
    <2>3. \A v \in Users : level'[v] + Pot(bucket'[v]) <= Burst + regained'[v]
        BY <2>1, <2>2
    <2>4. \A v \in Users : Pot(bucket[v])' = Pot(bucket'[v])
        BY DEF Pot, Available, AtMost, NotNegative
    <2> QED BY <2>3, <2>4 DEF PotBounded
<1> QED BY <1>4, <1>5, <1>6

(* Time refills the buckets and lets what was granted drain.               *)
LEMMA TickStep == ASSUME LimiterInv, LimiterTick PROVE LimiterInv'
<1> USE DEF LimiterInv
<1> DEFINE older(u) == [bucket[u] EXCEPT !.age = AtMost(MaxAge, @ + 1)]
<1>1. ASSUME NEW u \in Users
      PROVE  /\ bucket[u] \in Buckets /\ bucket'[u] = older(u) /\ older(u) \in Buckets
             /\ bucket[u].age >= 0 => older(u).age >= 0
             /\ Pot(older(u)) <= Pot(bucket[u]) + Rate
             /\ level'[u] = NotNegative(level[u] - Rate) /\ level'[u] \in Nat
    <2>1. bucket[u] \in Buckets /\ level[u] \in Nat /\ Rate \in Nat
        BY LimiterAssumption DEF LimiterTypeOK, Buckets
    <2>2. bucket'[u] = older(u) /\ level'[u] = NotNegative(level[u] - Rate)
        BY DEF LimiterTick
    <2>3. NotNegative(level[u] - Rate) \in Nat
        BY <2>1 DEF NotNegative
    <2>4. /\ older(u) \in Buckets
          /\ bucket[u].age >= 0 => older(u).age >= 0
          /\ Pot(older(u)) <= Pot(bucket[u]) + Rate
        BY <2>1, PotOlder
    <2> QED BY <2>1, <2>2, <2>3, <2>4
<1>2. LimiterTypeOK'
    <2>1. bucket' \in [Users -> Buckets] /\ level' \in [Users -> Nat]
        BY <1>1 DEF LimiterTick
    <2>2. lead' \in [Requests -> (-MaxDelay)..Lead]
        BY LimiterAssumption DEF LimiterTick, LimiterTypeOK
    <2> QED BY <2>1, <2>2 DEF LimiterTick, LimiterTypeOK, Buckets
<1>3. LocalClock'
    BY <1>1 DEF LimiterTick, LocalClock
<1>4. PotBounded'
    <2>1. ASSUME NEW u \in Users
          PROVE  level'[u] + Pot(bucket'[u]) <= Burst + regained'[u]
        <3>1. /\ level[u] \in Nat /\ Rate \in Nat /\ Burst \in Nat
              /\ regained[u] \in Nat /\ regained'[u] = regained[u]
            BY LimiterAssumption DEF LimiterTypeOK, LimiterTick
        <3>2. /\ Pot(bucket[u]) \in Int /\ Pot(older(u)) \in Int
              /\ Pot(older(u)) <= Burst
            BY <1>1, PotRange
        <3>3. level[u] + Pot(bucket[u]) <= Burst + regained[u]
            BY DEF PotBounded
        <3> QED BY <1>1, <3>1, <3>2, <3>3 DEF NotNegative
    <2>2. \A v \in Users : Pot(bucket[v])' = Pot(bucket'[v])
        BY DEF Pot, Available, AtMost, NotNegative
    <2> QED BY <2>1, <2>2 DEF PotBounded
<1> QED BY <1>2, <1>3, <1>4

(* reset() starts a bucket afresh (ratelimit.py:76-77).                    *)
LEMMA ResetStep == ASSUME LimiterInv, NEW u \in Users, Reset(u) PROVE LimiterInv'
<1> USE DEF LimiterInv
<1> DEFINE full == [tokens |-> Burst, age |-> 0]
<1>1. full \in Buckets /\ Burst \in Nat
    BY LimiterAssumption DEF Buckets, MaxAge
<1>2. LimiterTypeOK'
    BY <1>1 DEF Reset, LimiterTypeOK, Buckets
<1>3. LocalClock'
    BY <1>1 DEF Reset, LimiterTypeOK, LocalClock
<1>4. PotBounded'
    <2>1. Pot(full) \in Int /\ Pot(full) <= Burst
        BY <1>1, PotRange
    <2>2. /\ level'[u] = 0 /\ bucket'[u] = full /\ regained'[u] \in Nat
          /\ \A v \in Users \ {u} : level'[v] = level[v] /\ bucket'[v] = bucket[v]
          /\ regained' = regained
        BY DEF Reset, LimiterTypeOK
    <2>3. \A v \in Users : level'[v] + Pot(bucket'[v]) <= Burst + regained'[v]
        BY <1>1, <2>1, <2>2 DEF PotBounded
    <2>4. \A v \in Users : Pot(bucket[v])' = Pot(bucket'[v])
        BY DEF Pot, Available, AtMost, NotNegative
    <2> QED BY <2>3, <2>4 DEF PotBounded
<1> QED BY <1>2, <1>3, <1>4

(* Every step of the limiter keeps the invariant.                          *)
LEMMA LimiterStep ==
    ASSUME LimiterInv, [LimiterNext]_limiterVars PROVE LimiterInv'
<1>1. /\ lead \in [Requests -> (-MaxDelay)..Lead] /\ Lead \in Nat /\ MaxDelay \in Nat
      /\ Ahead \in [Replicas -> 0..Lead] /\ backend \in {"memory", "redis"}
    BY LimiterAssumption DEF LimiterInv, LimiterTypeOK
<1>2. ASSUME NEW r \in Requests, CheckLocally(r) PROVE LimiterInv'
    <2>1. 0 \in (-MaxDelay)..Lead
        BY <1>1
    <2> QED BY <1>1, <1>2, <2>1, ConsumeStep DEF CheckLocally
<1>3. ASSUME NEW r \in Requests, Run(r) PROVE LimiterInv'
    <2>1. PICK reached \in BOOLEAN : Consume(r, lead[r], reached)
        BY <1>3 DEF Run
    <2>2. lead[r] \in (-MaxDelay)..Lead /\ lead' \in [Requests -> (-MaxDelay)..Lead]
        BY <1>1, <1>3 DEF Run
    <2>3. backend # "memory"
        BY <1>3 DEF Run, LimiterInv, LocalClock
    <2> QED BY <1>3, <2>1, <2>2, <2>3, ConsumeStep DEF Run
<1>4. ASSUME NEW r \in Requests, FailOpen(r) PROVE LimiterInv'
    <2>1. lead' \in [Requests -> (-MaxDelay)..Lead]
        BY <1>1, <1>4 DEF FailOpen
    <2> QED BY <1>4, <2>1
        DEF FailOpen, LimiterInv, LimiterTypeOK, LocalClock, PotBounded, Pot, Available,
            AtMost, NotNegative
<1>5. ASSUME NEW r \in Requests, NEW p \in Replicas, Send(r, p) PROVE LimiterInv'
    <2>1. lead' \in [Requests -> (-MaxDelay)..Lead]
        BY <1>1, <1>5 DEF Send
    <2> QED BY <1>5, <2>1
        DEF Send, LimiterInv, LimiterTypeOK, LocalClock, PotBounded, Pot, Available,
            AtMost, NotNegative
<1>6. ASSUME LimiterTick PROVE LimiterInv'
    BY <1>6, TickStep
<1>7. ASSUME NEW u \in Users, Reset(u) PROVE LimiterInv'
    BY <1>7, ResetStep
<1>8. CASE UNCHANGED limiterVars
    BY <1>8 DEF limiterVars, LimiterInv, LimiterTypeOK, LocalClock, PotBounded, Pot, Available,
                AtMost, NotNegative
<1> QED BY <1>2, <1>3, <1>4, <1>5, <1>6, <1>7, <1>8 DEF LimiterNext, Calls

(* The tokens granted and those left are never more than a burst and what  *)
(* was refilled twice.                                                     *)
THEOREM LimiterInvariant == LimiterSpec => []LimiterInv
<1>1. LimiterInit => LimiterInv
    BY LimiterInitial
<1>2. LimiterInv /\ [LimiterNext]_limiterVars => LimiterInv'
    BY LimiterStep
<1> QED BY <1>1, <1>2, PTL DEF LimiterSpec

(* The limiter grants at most a burst and the refill of the time that      *)
(* passed, the shared one as much more as clocks and delays put it off     *)
(* (ratelimit.py:50-71, 99-109): what a bucket holds now is nothing less   *)
(* but the refill the fastest clock got in advance.                        *)
THEOREM LimiterGrantsBounded == LimiterSpec => []GrantsBounded
<1>1. LimiterInv => GrantsBounded
    <2> SUFFICES ASSUME LimiterInv, NEW u \in Users
                 PROVE  /\ level[u] <= Burst + Slack + regained[u]
                        /\ backend = "memory" => regained[u] = 0
        BY DEF GrantsBounded
    <2>1. /\ bucket[u] \in Buckets /\ level[u] \in Nat /\ regained[u] \in Nat
          /\ Burst \in Nat /\ backend \in {"memory", "redis"}
        BY LimiterAssumption DEF LimiterInv, LimiterTypeOK, Buckets
    <2>2. level[u] + Pot(bucket[u]) <= Burst + regained[u]
        BY DEF LimiterInv, PotBounded
    <2>3. Rate * Lead \in Int
        BY LimiterAssumption
    <2>4. /\ Pot(bucket[u]) \in Int /\ Pot(bucket[u]) >= -(Rate * Lead)
          /\ bucket[u].age >= 0 => Pot(bucket[u]) >= 0
        BY <2>1, PotRange
    <2>5. CASE backend = "memory"
        <3>1. bucket[u].age >= 0 /\ regained[u] = 0
            BY <2>5 DEF LimiterInv, LocalClock
        <3> QED BY <2>1, <2>2, <2>4, <2>5, <3>1 DEF Slack
    <2>6. CASE backend = "redis"
        BY <2>1, <2>2, <2>3, <2>4, <2>6 DEF Slack
    <2> QED BY <2>1, <2>5, <2>6
<1> QED BY LimiterInvariant, <1>1, PTL

-----------------------------------------------------------------------------
(***************************************************************************)
(* The other side: what was not granted is in the bucket, as the replica   *)
(* whose clock is furthest ahead would read it.                            *)
(***************************************************************************)
Horizon == IF backend = "memory" THEN 0 ELSE Lead

NothingLost == \A u \in Users : level[u] + Available(bucket[u], Horizon) >= Burst

(* A later reading gives more, at most by the refill of the time between.  *)
LEMMA AvailableLater ==
    ASSUME NEW b \in Buckets, NEW a \in Int, NEW h \in Int, a <= h
    PROVE  /\ Available(b, a) <= Available(b, h)
           /\ Available(b, h) <= Available(b, a) + Rate * (h - a)
<1> DEFINE n == b.age + a
           m == b.age + h
<1>1. /\ n \in Int /\ m \in Int /\ m >= n /\ h - a = m - n /\ h - a \in Int
      /\ b.tokens \in 0..Burst /\ Burst \in Nat
    BY LimiterAssumption DEF Buckets, MaxAge
<1>2. /\ Available(b, a) \in 0..Burst /\ Available(b, h) \in 0..Burst
      /\ Available(b, a) >= b.tokens
      /\ n < 0 => Available(b, a) = b.tokens
      /\ n >= 0 => Available(b, a) = Burst \/ Available(b, a) = b.tokens + Rate * n
      /\ n >= 0 => Available(b, a) <= b.tokens + Rate * n
    BY AvailableIs
<1>3. /\ Available(b, h) >= b.tokens
      /\ m < 0 => Available(b, h) = b.tokens
      /\ m >= 0 => Available(b, h) = Burst \/ Available(b, h) = b.tokens + Rate * m
      /\ m >= 0 => Available(b, h) <= b.tokens + Rate * m
    BY AvailableIs
<1>4. /\ Rate * n \in Int /\ Rate * m \in Int
      /\ Rate * (m - n) = Rate * m - Rate * n /\ Rate * n <= Rate * m
    BY <1>1, RateTimes
<1>5. n < 0 => Rate * n <= 0
    <2>1. 0 \in Int /\ (n < 0 => n <= 0)
        BY <1>1
    <2> HIDE DEF n
    <2> QED BY <1>1, <2>1, RateTimes
<1>6. Rate * (h - a) = Rate * m - Rate * n
    BY <1>1, <1>4
<1> HIDE DEF n, m
<1> QED BY <1>1, <1>2, <1>3, <1>4, <1>5, <1>6

(* A call takes out of a bucket what it grants (ratelimit.py:57-71).      *)
LEMMA AvailableConsumed ==
    ASSUME NEW b \in Buckets, NEW a \in (-MaxDelay)..Lead,
           NEW h \in 0..Lead, a <= h, b.age + h >= 0
    PROVE  Available(Consumed(b, a), h) + (IF Available(b, a) >= Cost THEN Cost ELSE 0)
               >= Available(b, h)
<1> DEFINE c == Consumed(b, a)
           got == IF Available(b, a) >= Cost THEN Cost ELSE 0
<1>1. /\ a \in Int /\ h \in Int /\ Cost \in Nat /\ Lead \in Nat /\ Burst \in Nat
      /\ h - a \in Int /\ h - a >= 0
    BY LimiterAssumption
<1>2. c \in Buckets /\ c.age = -a /\ c.tokens = Available(b, a) - got
    <2>1. Available(b, a) \in 0..Burst
        BY <1>1, AvailableIs
    <2> QED BY <1>1, <2>1, ConsumedIs
<1>3. c.age + h = h - a
    BY <1>1, <1>2
<1>4. /\ Available(c, h) \in 0..Burst
      /\ Available(c, h) = Burst \/ Available(c, h) = c.tokens + Rate * (h - a)
    BY <1>1, <1>2, <1>3, AvailableIs
<1>5. Available(b, h) <= Available(b, a) + Rate * (h - a)
    BY <1>1, AvailableLater
<1>6. /\ Available(b, h) \in 0..Burst /\ Available(b, a) \in 0..Burst
      /\ Rate * (h - a) \in Int /\ got \in Nat
    BY <1>1, AvailableIs, RateTimes
<1> HIDE DEF c, got
<1>7. Available(c, h) + got >= Available(b, h)
    BY <1>1, <1>2, <1>4, <1>5, <1>6
<1> QED BY <1>7 DEF c, got

(* A tick refills a bucket by Rate, or fills it.                           *)
LEMMA AvailableOlder ==
    ASSUME NEW b \in Buckets, NEW h \in 0..Lead, b.age + h >= 0
    PROVE  LET d == [b EXCEPT !.age = AtMost(MaxAge, @ + 1)]
           IN  \/ Available(d, h) = Burst
               \/ Available(d, h) >= Available(b, h) + Rate
<1> DEFINE d == [b EXCEPT !.age = AtMost(MaxAge, @ + 1)]
<1>1. /\ b.tokens \in 0..Burst /\ b.age \in (-Lead)..MaxAge /\ MaxAge \in Nat
      /\ Lead \in Nat /\ Burst \in Nat /\ Rate \in Nat /\ h \in Nat
      /\ MaxAge >= Burst
    BY LimiterAssumption DEF Buckets, MaxAge
<1>2. /\ d \in Buckets /\ d.tokens = b.tokens /\ d.age \in Int
      /\ d.age = b.age + 1 \/ d.age = MaxAge
    BY <1>1 DEF Buckets, AtMost
<1>3. CASE d.age = MaxAge
    <2>1. d.age + h \in Int /\ d.age + h >= Burst
        BY <1>1, <1>3
    <2>2. Rate * (d.age + h) >= Burst /\ Rate * (d.age + h) \in Int
        BY <1>1, <2>1, RateTimes
    <2>3. /\ Available(d, h) \in 0..Burst
          /\ Available(d, h) = Burst \/ Available(d, h) = b.tokens + Rate * (d.age + h)
        <3>1. h \in Int /\ d.age + h >= 0
            BY <1>1, <2>1
        <3> HIDE DEF d
        <3> QED BY <1>2, <3>1, AvailableIs
    <2> QED BY <1>1, <2>2, <2>3
<1>4. CASE d.age = b.age + 1
    <2>1. /\ b.age + h \in Int /\ d.age + h = (b.age + h) + 1 /\ d.age + h >= 0
          /\ h \in Int /\ 1 \in Int
        BY <1>1, <1>4
    <2>2. Rate * (d.age + h) = Rate * (b.age + h) + Rate /\ Rate * (b.age + h) \in Int
        <3>1. /\ Rate * ((b.age + h) + 1) = Rate * (b.age + h) + Rate * 1
              /\ Rate * 1 = Rate /\ Rate * (b.age + h) \in Int
            BY <2>1, RateTimes
        <3> QED BY <2>1, <3>1
    <2>3. Available(b, h) <= b.tokens + Rate * (b.age + h) /\ Available(b, h) \in Int
        BY <2>1, AvailableIs
    <2>4. Available(d, h) = Burst \/ Available(d, h) = b.tokens + Rate * (d.age + h)
        BY <1>2, <2>1, AvailableIs
    <2> QED BY <1>1, <2>2, <2>3, <2>4
<1> QED BY <1>2, <1>3, <1>4

(* Every step leaves in a bucket what was not granted.                     *)
LEMMA NothingLostStep ==
    ASSUME LimiterInv, NothingLost, [LimiterNext]_limiterVars PROVE NothingLost'
<1>1. /\ Horizon \in 0..Lead /\ Burst \in Nat /\ Rate \in Nat /\ Cost \in Nat
      /\ Lead \in Nat /\ MaxDelay \in Nat
    BY LimiterAssumption DEF Horizon
<1>2. ASSUME NEW u \in Users
      PROVE  /\ bucket[u] \in Buckets /\ level[u] \in Nat /\ bucket[u].age + Horizon >= 0
             /\ Available(bucket[u], Horizon) \in 0..Burst
    <2>1. bucket[u] \in Buckets /\ level[u] \in Nat
        BY DEF LimiterInv, LimiterTypeOK, Buckets
    <2>2. bucket[u].age + Horizon >= 0
        BY <1>1, <2>1 DEF LimiterInv, LocalClock, Horizon, Buckets, MaxAge
    <2> QED BY <1>1, <2>1, <2>2, AvailableIs
<1>3. ASSUME UNCHANGED backend,
             \A u \in Users : level'[u] + Available(bucket'[u], Horizon) >= Burst
      PROVE  NothingLost'
    BY <1>3 DEF NothingLost, Horizon, Available, AtMost, NotNegative
<1>4. ASSUME NEW r \in Requests, NEW a \in (-MaxDelay)..Lead, NEW reached \in BOOLEAN,
             Consume(r, a, reached), UNCHANGED backend, a <= Horizon
      PROVE  NothingLost'
    <2> DEFINE o == Owner[r]
               got == IF Available(bucket[o], a) >= Cost THEN Cost ELSE 0
    <2>1. o \in Users
        BY AccountsAssumption
    <2>2. /\ bucket'[o] = Consumed(bucket[o], a) /\ level'[o] = level[o] + got
          /\ \A v \in Users \ {o} : bucket'[v] = bucket[v] /\ level'[v] = level[v]
        BY <1>1, <1>2, <1>4, <2>1 DEF Consume, LimiterInv, LimiterTypeOK
    <2>3. Available(bucket'[o], Horizon) + got >= Available(bucket[o], Horizon)
        BY <1>1, <1>2, <1>4, <2>1, <2>2, AvailableConsumed
    <2>4. Available(bucket'[o], Horizon) \in Int
        <3>1. Consumed(bucket[o], a) \in Buckets
            BY <1>2, <2>1, ConsumedIs
        <3> QED BY <1>1, <2>2, <3>1, AvailableIs
    <2>5. level'[o] + Available(bucket'[o], Horizon) >= Burst
        BY <1>1, <1>2, <2>1, <2>2, <2>3, <2>4 DEF NothingLost
    <2>6. \A v \in Users : level'[v] + Available(bucket'[v], Horizon) >= Burst
        BY <2>2, <2>5 DEF NothingLost
    <2> QED BY <1>3, <1>4, <2>6
<1>5. ASSUME NEW r \in Requests, CheckLocally(r) PROVE NothingLost'
    <2>1. 0 \in (-MaxDelay)..Lead /\ 0 <= Horizon
        BY <1>1
    <2> QED BY <1>4, <1>5, <2>1 DEF CheckLocally
<1>6. ASSUME NEW r \in Requests, Run(r) PROVE NothingLost'
    <2>1. PICK reached \in BOOLEAN : Consume(r, lead[r], reached)
        BY <1>6 DEF Run
    <2>2. lead[r] \in (-MaxDelay)..Lead /\ lead[r] <= Horizon
        BY <1>1, <1>6 DEF Run, LimiterInv, LimiterTypeOK, LocalClock, Horizon
    <2> QED BY <1>4, <1>6, <2>1, <2>2 DEF Run
<1>7. ASSUME UNCHANGED <<backend, bucket, level>> PROVE NothingLost'
    BY <1>3, <1>7 DEF NothingLost
<1>8. ASSUME LimiterTick PROVE NothingLost'
    <2>1. ASSUME NEW u \in Users
          PROVE  level'[u] + Available(bucket'[u], Horizon) >= Burst
        <3> DEFINE d == [bucket[u] EXCEPT !.age = AtMost(MaxAge, @ + 1)]
        <3>1. bucket'[u] = d /\ level'[u] = NotNegative(level[u] - Rate)
            BY <1>8 DEF LimiterTick
        <3>2. \/ Available(d, Horizon) = Burst
              \/ Available(d, Horizon) >= Available(bucket[u], Horizon) + Rate
            BY <1>1, <1>2, AvailableOlder
        <3>3. Available(d, Horizon) \in 0..Burst
            BY <1>1, <1>2, PotOlder, AvailableIs
        <3>4. level[u] + Available(bucket[u], Horizon) >= Burst
            BY DEF NothingLost
        <3> HIDE DEF d
        <3> QED BY <1>1, <1>2, <3>1, <3>2, <3>3, <3>4 DEF NotNegative
    <2> QED BY <1>3, <1>8, <2>1 DEF LimiterTick
<1>9. ASSUME NEW r \in Requests, FailOpen(r) PROVE NothingLost'
    BY <1>7, <1>9 DEF FailOpen
<1>10. ASSUME NEW r \in Requests, NEW p \in Replicas, Send(r, p) PROVE NothingLost'
    BY <1>7, <1>10 DEF Send
<1>11. ASSUME NEW u \in Users, Reset(u) PROVE NothingLost'
    <2> DEFINE full == [tokens |-> Burst, age |-> 0]
    <2>1. full \in Buckets
        BY <1>1 DEF Buckets, MaxAge
    <2>2. Available(full, Horizon) >= Burst /\ Available(full, Horizon) \in 0..Burst
        BY <1>1, <2>1, AvailableIs
    <2>3. /\ bucket'[u] = full /\ level'[u] = 0
          /\ \A v \in Users \ {u} : bucket'[v] = bucket[v] /\ level'[v] = level[v]
        BY <1>11 DEF Reset, LimiterInv, LimiterTypeOK
    <2> HIDE DEF full
    <2>4. \A v \in Users : level'[v] + Available(bucket'[v], Horizon) >= Burst
        BY <1>1, <2>2, <2>3 DEF NothingLost
    <2> QED BY <1>3, <1>11, <2>4 DEF Reset
<1>12. CASE UNCHANGED limiterVars
    BY <1>7, <1>12 DEF limiterVars
<1> QED BY <1>5, <1>6, <1>8, <1>9, <1>10, <1>11, <1>12 DEF LimiterNext, Calls

(* A request is turned away only if its user has spent the burst, but for  *)
(* what clocks and delays put the limit off (ratelimit.py:57-71, 99-109).  *)
THEOREM LimiterDeniesOnlyWhenSpent ==
    LimiterSpec => DeniedOnlyWhenSpent
<1> DEFINE Both == LimiterInv /\ NothingLost
           late == IF backend = "memory" THEN 0 ELSE Rate * (Lead + MaxDelay)
           Fair == \A r \in Requests : (check[r] # "denied" /\ check'[r] = "denied") =>
                       level[Owner[r]] + Cost + late > Burst
<1>1. LimiterInit => Both
    <2> SUFFICES ASSUME LimiterInit PROVE NothingLost
        BY LimiterInitial
    <2> DEFINE full == [tokens |-> Burst, age |-> 0]
    <2>1. full \in Buckets /\ Burst \in Nat /\ Horizon \in Int
        BY LimiterAssumption DEF Buckets, MaxAge, Horizon
    <2>2. Available(full, Horizon) >= Burst /\ Available(full, Horizon) \in 0..Burst
        BY <2>1, AvailableIs
    <2> QED BY <2>1, <2>2 DEF LimiterInit, NothingLost
<1>2. Both /\ [LimiterNext]_limiterVars => Both'
    BY LimiterStep, NothingLostStep
<1>3. Both /\ [LimiterNext]_limiterVars => [Fair]_limiterVars
    <2> SUFFICES ASSUME Both, LimiterNext, NEW r \in Requests,
                        check[r] # "denied", check'[r] = "denied"
                 PROVE  level[Owner[r]] + Cost + late > Burst
        OBVIOUS
    <2> DEFINE o == Owner[r]
    <2>1. /\ o \in Users /\ bucket[o] \in Buckets /\ level[o] \in Nat /\ Horizon \in 0..Lead
          /\ Burst \in Nat /\ Cost \in Nat /\ Lead \in Nat /\ MaxDelay \in Nat
          /\ lead[r] \in (-MaxDelay)..Lead
        BY LimiterAssumption, AccountsAssumption DEF LimiterInv, LimiterTypeOK, Buckets, Horizon
    <2>2. PICK a \in (-MaxDelay)..Lead :
              /\ Available(bucket[o], a) < Cost /\ a <= Horizon
              /\ backend = "memory" => a = 0
        <3>1. ASSUME NEW x \in Requests, CheckLocally(x)
              PROVE  x = r /\ ~(Available(bucket[o], 0) >= Cost) /\ backend = "memory"
            BY <3>1 DEF CheckLocally, Consume, LimiterInv, LimiterTypeOK
        <3>2. ASSUME NEW x \in Requests, Run(x)
              PROVE  x = r /\ ~(Available(bucket[o], lead[r]) >= Cost) /\ backend = "redis"
            BY <3>2 DEF Run, Consume, LimiterInv, LimiterTypeOK, LocalClock
        <3>3. ASSUME NEW x \in Requests, FailOpen(x) PROVE FALSE
            BY <3>3 DEF FailOpen, LimiterInv, LimiterTypeOK
        <3>4. ASSUME NEW x \in Requests, NEW p \in Replicas, Send(x, p) PROVE FALSE
            BY <3>4 DEF Send, LimiterInv, LimiterTypeOK
        <3>5. ~LimiterTick /\ \A v \in Users : ~Reset(v)
            BY DEF LimiterTick, Reset
        <3>6. \A a \in (-MaxDelay)..Lead : a \in Int /\ Available(bucket[o], a) \in Int
            BY <2>1, AvailableIs
        <3>7. 0 \in (-MaxDelay)..Lead /\ 0 <= Horizon
            BY <2>1
        <3>8. backend = "redis" => lead[r] <= Horizon
            BY <2>1 DEF Horizon
        <3> QED BY <2>1, <3>1, <3>2, <3>3, <3>4, <3>5, <3>6, <3>7, <3>8 DEF LimiterNext, Calls
    <2>3. /\ a \in Int /\ Horizon \in Int /\ Horizon - a \in Int /\ Lead + MaxDelay \in Int
          /\ Horizon - a <= Lead + MaxDelay
        BY <2>1, <2>2
    <2>4. /\ Available(bucket[o], Horizon) <= Available(bucket[o], a) + Rate * (Horizon - a)
          /\ Available(bucket[o], Horizon) \in Int /\ Available(bucket[o], a) \in Int
        BY <2>1, <2>2, <2>3, AvailableLater, AvailableIs
    <2>5. /\ Rate * (Horizon - a) \in Int /\ Rate * (Lead + MaxDelay) \in Int
          /\ Rate * (Horizon - a) <= Rate * (Lead + MaxDelay) /\ Rate * 0 = 0
        BY <2>3, RateTimes
    <2>6. level[o] + Available(bucket[o], Horizon) >= Burst
        BY <2>1 DEF NothingLost
    <2>7. Rate * (Horizon - a) <= late /\ late \in Int
        <3>1. backend = "memory" => Horizon - a = 0
            <4>1. backend = "memory" => a = 0
                BY <2>2
            <4>2. backend = "memory" => Horizon = 0
                BY DEF Horizon
            <4> HIDE DEF Both, Fair, late
            <4> QED BY <4>1, <4>2
        <3> QED BY <2>5, <3>1
    <2> HIDE DEF late, o
    <2>8. level[o] + Cost + late > Burst
        BY <2>1, <2>2, <2>4, <2>5, <2>6, <2>7
    <2> QED BY <2>8 DEF o
<1>4. LimiterSpec => [][Fair]_limiterVars
    <2> HIDE DEF Both, Fair
    <2> QED BY <1>1, <1>2, <1>3, PTL DEF LimiterSpec
<1> QED BY <1>4 DEF DeniedOnlyWhenSpent

-----------------------------------------------------------------------------
(***************************************************************************)
(* The ledger.                                                             *)
(***************************************************************************)

(* What a reservation's state says of its entry, its record and what was   *)
(* added to it.                                                            *)
Tracked(r) ==
    /\ reservation[r] = "none" => spend[r] = Gone
    /\ reservation[r] # "closed" => records[r] = <<>> /\ surplus[r] = 0
    /\ surplus[r] <= spend[r].amount \/ spend[r] = Gone
    /\ (records[r] # <<>> /\ spend[r] # Gone) => records[r] = <<spend[r].amount>>

(* What counts, less what settling added.                                  *)
Excess == [r \in Requests |-> spend[r].amount - Over[r]]

Granted(u) == SumFunctionOnSet(Excess, Of(u))

LedgerInv ==
    /\ TypeOK
    /\ \A r \in Requests : Tracked(r)
    /\ \A u \in Users : Granted(u) <= Max(Limits)

LEMMA EntryIs ==
    /\ Gone \in Entries /\ Gone.amount = 0
    /\ \A cost \in Costs : /\ Fresh(cost) \in Entries /\ Fresh(cost) # Gone
                           /\ Fresh(cost).amount = cost /\ Fresh(cost).age = 0
                           /\ cost \in Nat
    /\ \A e \in Entries : /\ e.amount \in Nat /\ e.age \in Nat
                          /\ e # Gone => /\ e.amount \in Costs /\ e.age \in 0..Window
<1>1. Window \in Nat /\ Costs \subseteq Nat
  BY LedgerAssumption
<1>2. Gone \in Entries /\ Gone.amount = 0
  BY DEF Gone, Entries
<1>3. ASSUME NEW cost \in Costs
      PROVE  /\ Fresh(cost) \in Entries /\ Fresh(cost) # Gone
             /\ Fresh(cost).amount = cost /\ Fresh(cost).age = 0
             /\ cost \in Nat
  <2>1. Fresh(cost).amount = cost /\ Fresh(cost).age = 0 /\ Gone.age = Window + 1
    BY DEF Fresh, Gone
  <2>2. Fresh(cost) \in [amount : Costs, age : 0..Window]
    BY <1>1 DEF Fresh
  <2> QED BY <1>1, <2>1, <2>2 DEF Entries
<1>4. ASSUME NEW e \in Entries
      PROVE  /\ e.amount \in Nat /\ e.age \in Nat
             /\ e # Gone => /\ e.amount \in Costs /\ e.age \in 0..Window
  <2>1. e \in [amount : Costs, age : 0..Window] \/ e = Gone
    BY DEF Entries
  <2>2. CASE e \in [amount : Costs, age : 0..Window]
    <3>1. PICK cost \in Costs, n \in 0..Window : cost = e.amount /\ n = e.age
      BY <2>2
    <3>2. cost \in Nat /\ n \in Nat
      BY <1>1
    <3> QED BY <3>1, <3>2
  <2>3. CASE e = Gone
    <3>1. Gone.amount = 0 /\ Gone.age = Window + 1
      BY DEF Gone
    <3> QED BY <1>1, <2>3, <3>1
  <2> QED BY <2>1, <2>2, <2>3
<1> QED BY <1>2, <1>3, <1>4

LEMMA OfIsFinite == \A u : IsFiniteSet(Of(u)) /\ Of(u) \subseteq Requests
  BY FS_Subset, LedgerAssumption DEF Of

LEMMA LargestLimit ==
    /\ Max(Limits) \in Nat
    /\ \A limit \in Limits : limit <= Max(Limits) /\ limit \in Nat
<1>1. Limits \subseteq Int /\ Limits \subseteq Nat /\ IsFiniteSet(Limits) /\ Limits # {}
  BY LedgerAssumption
<1> QED BY ONLY <1>1, MaxOfFinite

LEMMA ExcessIs ==
    ASSUME TypeOK, NEW r \in Requests, Tracked(r)
    PROVE  /\ spend[r].amount \in Nat /\ Over[r] \in Nat /\ Excess[r] \in Nat
           /\ spend[r].amount = Excess[r] + Over[r]
           /\ reservation[r] # "closed" => Excess[r] = spend[r].amount
<1>1. spend[r] \in Entries /\ surplus[r] \in Int
  BY DEF TypeOK
<1>2. spend[r].amount \in Nat /\ Gone.amount = 0
  BY <1>1, EntryIs
<1>3. Over[r] = IF spend[r] # Gone /\ surplus[r] > 0 THEN surplus[r] ELSE 0
  BY DEF Over
<1>4. Excess[r] = spend[r].amount - Over[r]
  BY DEF Excess
<1> QED BY <1>1, <1>2, <1>3, <1>4 DEF Tracked

LEMMA ExcessIsNat ==
    \A q \in Requests : TypeOK /\ Tracked(q) =>
        /\ Excess[q] \in Nat /\ spend[q].amount \in Nat
        /\ Excess[q] <= spend[q].amount
<1> SUFFICES ASSUME NEW q \in Requests, TypeOK, Tracked(q)
             PROVE  /\ Excess[q] \in Nat /\ spend[q].amount \in Nat
                    /\ Excess[q] <= spend[q].amount
  OBVIOUS
<1> QED BY ExcessIs

LEMMA ExcessIsAfter ==
    \A q \in Requests : TypeOK' /\ Tracked(q)' =>
        /\ Excess'[q] \in Nat /\ spend'[q].amount \in Nat
        /\ Excess'[q] <= spend'[q].amount
<1>1. (\A q \in Requests : TypeOK /\ Tracked(q) =>
          /\ Excess[q] \in Nat /\ spend[q].amount \in Nat
          /\ Excess[q] <= spend[q].amount)'
  BY ExcessIsNat, PTL
<1> QED BY <1>1

(* A step that may change the entry of r only: what it must show of it.    *)
LEMMA OneEntryChanges ==
    ASSUME LedgerInv, TypeOK', NEW r \in Requests, Tracked(r)',
           \A q \in Requests \ {r} : UNCHANGED <<spend[q], reservation[q], records[q],
                                                 surplus[q]>>,
           \/ Excess'[r] <= Excess[r]
           \/ Granted(Owner[r]) + (spend'[r].amount - Excess[r]) <= Max(Limits)
              /\ Excess'[r] <= spend'[r].amount
    PROVE  LedgerInv'
<1>1. ASSUME NEW q \in Requests PROVE Tracked(q)'
  BY <1>1 DEF LedgerInv, Tracked, Gone
<1>2. \A q \in Requests \ {r} : Excess'[q] = Excess[q] /\ Excess[q] \in Nat
  <2>1. \A q \in Requests : Excess[q] \in Nat
    BY ExcessIs DEF LedgerInv
  <2> QED BY <2>1 DEF Excess, Over, Gone
<1>3. ASSUME NEW u \in Users PROVE Granted(u)' <= Max(Limits)
  <2> DEFINE f == Excess
             g == Excess'
             S == Of(u)
  <2>1. Granted(u) = SumFunctionOnSet(f, S) /\ Granted(u)' = SumFunctionOnSet(g, S)
    BY DEF Granted, Of
  <2>2. IsFiniteSet(S) /\ S \subseteq Requests
    BY OfIsFinite
  <2>3. /\ f[r] \in Int /\ g[r] \in Int /\ spend'[r].amount \in Int
        /\ \A x \in S : f[x] \in Int /\ g[x] \in Int
        /\ \A x \in S \ {r} : g[x] = f[x]
    <3>1. Excess[r] \in Nat
      BY ExcessIs DEF LedgerInv
    <3>2. Excess'[r] \in Nat /\ spend'[r].amount \in Nat
      BY ExcessIsAfter
    <3> QED BY <1>2, <2>2, <3>1, <3>2
  <2>4. Granted(u) <= Max(Limits) /\ Max(Limits) \in Nat
    BY LargestLimit DEF LedgerInv
  <2>5. r \in S <=> u = Owner[r]
    BY DEF Of
  <2>6. \/ g[r] <= f[r]
        \/ Granted(Owner[r]) + (spend'[r].amount - f[r]) <= Max(Limits)
           /\ g[r] <= spend'[r].amount
    OBVIOUS
  <2> HIDE DEF f, g, S
  <2>7. SumFunctionOnSet(f, S) \in Int /\ SumFunctionOnSet(g, S) \in Int
    BY <2>2, <2>3, SumIsInt
  <2>8. CASE r \in S
    <3>1. SumFunctionOnSet(g, S) = SumFunctionOnSet(f, S) + (g[r] - f[r])
      BY <2>2, <2>3, <2>8, SumOfChange
    <3> QED BY <2>1, <2>3, <2>4, <2>5, <2>6, <2>7, <2>8, <3>1
  <2>9. CASE r \notin S
    <3>1. SumFunctionOnSet(f, S) = SumFunctionOnSet(g, S)
      BY <2>2, <2>3, <2>9, SumOfSame
    <3> QED BY <2>1, <2>4, <3>1
  <2> QED BY <2>8, <2>9
<1> QED BY <1>1, <1>3 DEF LedgerInv

LEMMA LedgerInitial == Init => LedgerInv
<1> SUFFICES ASSUME Init PROVE LedgerInv
  OBVIOUS
<1>1. TypeOK /\ \A r \in Requests : Tracked(r)
  BY EntryIs DEF Init, TypeOK, Tracked
<1>2. ASSUME NEW u \in Users PROVE Granted(u) <= Max(Limits)
  <2>1. \A r \in Of(u) : Excess[r] = 0
    <3>1. \A r \in Requests : Excess[r] = spend[r].amount /\ spend[r] = Gone
      BY <1>1, ExcessIs DEF Init
    <3> QED BY <3>1, EntryIs, OfIsFinite
  <2>2. Granted(u) = 0
    BY <2>1, OfIsFinite, SumOfZeros DEF Granted
  <2> QED BY <2>2, LargestLimit
<1> QED BY <1>1, <1>2 DEF LedgerInv

LEMMA ReserveKeeps ==
    ASSUME LedgerInv, NEW r \in Requests, NEW cost \in Costs, NEW limit \in Limits,
           Reserve(r, cost, limit)
    PROVE  LedgerInv'
<1>1. /\ reservation[r] = "none" /\ Spent(Owner[r]) + cost <= limit
      /\ spend' = [spend EXCEPT ![r] = Fresh(cost)]
      /\ reservation' = [reservation EXCEPT ![r] = "open"]
      /\ UNCHANGED <<records, surplus>>
  BY DEF Reserve, Fits
<1>2. TypeOK /\ Tracked(r) /\ \A q \in Requests : Tracked(q)
  BY DEF LedgerInv
<1>3. /\ spend'[r] = Fresh(cost) /\ spend'[r].amount = cost /\ cost \in Nat
      /\ Fresh(cost) \in Entries /\ spend[r] = Gone /\ Gone.amount = 0
  BY <1>1, <1>2, EntryIs DEF TypeOK, Tracked
<1>4. TypeOK'
  BY <1>1, <1>2, <1>3 DEF TypeOK
<1>5. Tracked(r)'
  BY <1>1, <1>2, <1>3 DEF TypeOK, Tracked
<1>6. Excess'[r] <= spend'[r].amount
  BY <1>3, <1>4, <1>5, ExcessIsAfter
<1>7. Granted(Owner[r]) + (spend'[r].amount - Excess[r]) <= Max(Limits)
  <2> DEFINE f == Excess
             g == [q \in Requests |-> spend[q].amount]
             S == Of(Owner[r])
  <2>1. \A x \in S : f[x] \in Int /\ g[x] \in Int /\ f[x] <= g[x]
    BY <1>2, ExcessIs, OfIsFinite
  <2>2. IsFiniteSet(S)
    BY OfIsFinite
  <2>3. /\ Granted(Owner[r]) = SumFunctionOnSet(f, S)
        /\ Spent(Owner[r]) = SumFunctionOnSet(g, S)
    BY DEF Granted, Spent
  <2> HIDE DEF f, g, S
  <2>4. /\ SumFunctionOnSet(f, S) <= SumFunctionOnSet(g, S)
        /\ SumFunctionOnSet(f, S) \in Int /\ SumFunctionOnSet(g, S) \in Int
    BY <2>1, <2>2, SumMonotonic, SumIsInt
  <2>5. Excess[r] = 0
    BY <1>1, <1>2, <1>3, ExcessIs
  <2> QED BY <1>1, <1>3, <2>3, <2>4, <2>5, LargestLimit
<1> QED BY <1>1, <1>2, <1>4, <1>5, <1>6, <1>7, OneEntryChanges DEF TypeOK

LEMMA SettleKeeps ==
    ASSUME LedgerInv, NEW r \in Requests, NEW cost \in Costs, Settle(r, cost)
    PROVE  LedgerInv'
<1>1. /\ reservation[r] = "open"
      /\ spend' = [spend EXCEPT ![r] = Fresh(cost)]
      /\ surplus' = [surplus EXCEPT ![r] = cost - spend[r].amount]
      /\ records' = [records EXCEPT ![r] = Append(@, cost)]
      /\ reservation' = [reservation EXCEPT ![r] = "closed"]
  BY DEF Settle
<1>2. TypeOK /\ Tracked(r)
  BY DEF LedgerInv
<1>3. /\ spend'[r] = Fresh(cost) /\ spend'[r].amount = cost /\ cost \in Nat
      /\ Fresh(cost) \in Entries /\ spend[r].amount \in Nat /\ Fresh(cost) # Gone
  BY <1>1, <1>2, EntryIs DEF TypeOK
<1>4. records[r] = <<>> /\ surplus'[r] = cost - spend[r].amount
  BY <1>1, <1>2 DEF Tracked, TypeOK
<1>5. records'[r] = <<cost>>
  BY <1>1, <1>2, <1>4 DEF TypeOK
<1>6. TypeOK'
  <2>1. spend' \in [Requests -> Entries] /\ surplus' \in [Requests -> Int]
    BY <1>1, <1>2, <1>3 DEF TypeOK
  <2>2. reservation' \in [Requests -> {"none", "open", "closed"}]
    BY <1>1, <1>2 DEF TypeOK
  <2>3. records' \in [Requests -> {<<>>} \cup {<<c>> : c \in Costs}]
    <3>1. records' = [records EXCEPT ![r] = <<cost>>]
      BY <1>1, <1>2, <1>5 DEF TypeOK
    <3> QED BY <1>2, <3>1 DEF TypeOK
  <2> QED BY <2>1, <2>2, <2>3 DEF TypeOK
<1>7. Tracked(r)'
  BY <1>1, <1>2, <1>3, <1>4, <1>5 DEF TypeOK, Tracked
<1>8. Excess'[r] <= Excess[r]
  <2>1. Excess[r] = spend[r].amount
    BY <1>1, <1>2, ExcessIs
  <2>2. Over'[r] = IF spend'[r] # Gone /\ surplus'[r] > 0 THEN surplus'[r] ELSE 0
    BY DEF Over, Gone
  <2>3. Excess'[r] = spend'[r].amount - Over'[r]
    BY DEF Excess
  <2> QED BY <1>3, <1>4, <2>1, <2>2, <2>3
<1>9. \A q \in Requests \ {r} :
          UNCHANGED <<spend[q], reservation[q], records[q], surplus[q]>>
  BY <1>1, <1>2 DEF TypeOK
<1> QED BY <1>6, <1>7, <1>8, <1>9, OneEntryChanges

LEMMA ReleaseKeeps ==
    ASSUME LedgerInv, NEW r \in Requests, Release(r) PROVE LedgerInv'
<1>1. /\ reservation[r] = "open"
      /\ spend' = [spend EXCEPT ![r] = Gone]
      /\ reservation' = [reservation EXCEPT ![r] = "closed"]
      /\ UNCHANGED <<records, surplus>>
  BY DEF Release
<1>2. TypeOK /\ Tracked(r)
  BY DEF LedgerInv
<1>3. spend'[r] = Gone /\ Gone \in Entries /\ Gone.amount = 0 /\ Gone' = Gone
  BY <1>1, <1>2, EntryIs DEF TypeOK, Gone
<1>4. TypeOK' /\ Tracked(r)'
  BY <1>1, <1>2, <1>3 DEF TypeOK, Tracked
<1>5. Excess'[r] <= Excess[r]
  <2>1. Excess'[r] = 0
    BY <1>3 DEF Excess, Over
  <2> QED BY <1>2, <2>1, ExcessIs
<1> QED BY <1>1, <1>2, <1>4, <1>5, OneEntryChanges DEF TypeOK

LEMMA AgedIs ==
    \A e \in Entries : /\ Aged(e) \in Entries
                       /\ Aged(e) = Gone \/ Aged(e).amount = e.amount
                       /\ e.age < Window => Aged(e).amount = e.amount /\ Aged(e).age = e.age + 1
                       /\ e = Gone => Aged(e) = Gone
<1> SUFFICES ASSUME NEW e \in Entries
             PROVE  /\ Aged(e) \in Entries
                    /\ Aged(e) = Gone \/ Aged(e).amount = e.amount
                    /\ e.age < Window =>
                           Aged(e).amount = e.amount /\ Aged(e).age = e.age + 1
                    /\ e = Gone => Aged(e) = Gone
  OBVIOUS
<1>1. Window \in Nat
  BY LedgerAssumption
<1>2. CASE e.age >= Window
  BY <1>1, <1>2, EntryIs DEF Aged
<1>3. CASE ~ (e.age >= Window)
  <2>1. e \in [amount : Costs, age : 0..Window] /\ e # Gone
    BY <1>1, <1>3 DEF Entries, Gone
  <2>2. Aged(e) = [e EXCEPT !.age = e.age + 1]
    BY <1>3 DEF Aged
  <2>3. Aged(e).amount = e.amount /\ Aged(e).age = e.age + 1
    BY <2>1, <2>2
  <2>4. Aged(e) \in [amount : Costs, age : 0..Window]
    BY <1>1, <1>3, <2>1, <2>2
  <2> QED BY <2>1, <2>3, <2>4 DEF Entries
<1> QED BY <1>2, <1>3

LEMMA TickKeeps == ASSUME LedgerInv, Tick PROVE LedgerInv'
<1>1. /\ spend' = [r \in Requests |-> Aged(spend[r])]
      /\ UNCHANGED <<reservation, records, surplus>>
  BY DEF Tick
<1>2. TypeOK /\ \A r \in Requests : Tracked(r)
  BY DEF LedgerInv
<1>3. \A r \in Requests : /\ spend'[r] \in Entries
                          /\ spend'[r] = Gone \/ spend'[r].amount = spend[r].amount
                          /\ spend[r] = Gone => spend'[r] = Gone
  BY <1>1, <1>2, AgedIs DEF TypeOK
<1>4. TypeOK'
  BY <1>1, <1>2, <1>3 DEF TypeOK
<1>5. ASSUME NEW r \in Requests PROVE Tracked(r)'
  <2>1. Tracked(r) /\ Gone' = Gone
    BY <1>2 DEF Gone
  <2> QED BY <1>1, <1>3, <2>1 DEF Tracked
<1>6. ASSUME NEW u \in Users PROVE Granted(u)' <= Max(Limits)
  <2> DEFINE f == Excess'
             g == Excess
             S == Of(u)
  <2>1. ASSUME NEW x \in S PROVE f[x] \in Int /\ g[x] \in Int /\ f[x] <= g[x]
    <3>1. x \in Requests
      BY OfIsFinite
    <3>2. Excess[x] \in Nat /\ Over[x] \in Nat /\ spend[x].amount = Excess[x] + Over[x]
      BY <1>2, <3>1, ExcessIs
    <3>3. Excess'[x] \in Nat
      BY <1>4, <1>5, <3>1, ExcessIsAfter
    <3>4. /\ Over'[x] = IF spend'[x] # Gone /\ surplus[x] > 0 THEN surplus[x] ELSE 0
          /\ Over[x] = IF spend[x] # Gone /\ surplus[x] > 0 THEN surplus[x] ELSE 0
          /\ Excess'[x] = spend'[x].amount - Over'[x]
          /\ Excess[x] = spend[x].amount - Over[x]
      BY <1>1, <3>1 DEF Excess, Over, Gone
    <3>5. Excess'[x] <= Excess[x]
      <4>1. CASE spend'[x] = Gone
        <5>1. Excess'[x] = 0
          BY <3>4, <4>1, EntryIs
        <5> QED BY <3>2, <5>1
      <4>2. CASE spend'[x] # Gone
        <5>1. Excess'[x] = Excess[x]
          BY <1>3, <3>1, <3>4, <4>2
        <5> QED BY <3>2, <5>1
      <4> QED BY <4>1, <4>2
    <3> QED BY <3>2, <3>3, <3>5
  <2>2. IsFiniteSet(S)
    BY OfIsFinite
  <2>3. Granted(u) = SumFunctionOnSet(g, S) /\ Granted(u)' = SumFunctionOnSet(f, S)
    BY DEF Granted, Of
  <2> HIDE DEF f, g, S
  <2>4. /\ SumFunctionOnSet(f, S) <= SumFunctionOnSet(g, S)
        /\ SumFunctionOnSet(f, S) \in Int /\ SumFunctionOnSet(g, S) \in Int
    BY <2>1, <2>2, SumMonotonic, SumIsInt
  <2> QED BY <2>3, <2>4, LargestLimit DEF LedgerInv
<1> QED BY <1>4, <1>5, <1>6 DEF LedgerInv

LEMMA LedgerStep == LedgerInv /\ [Next]_vars => LedgerInv'
<1> SUFFICES ASSUME LedgerInv, [Next]_vars PROVE LedgerInv'
  OBVIOUS
<1>1. CASE UNCHANGED vars
  BY <1>1 DEF vars, LedgerInv, TypeOK, Tracked, Gone, Entries, Granted, Excess, Over, Of
<1> QED BY <1>1, ReserveKeeps, SettleKeeps, ReleaseKeeps, TickKeeps DEF Next

LEMMA LedgerInvariant == Spec => []LedgerInv
<1>1. LedgerInv /\ [Next]_vars => LedgerInv'
  BY LedgerStep
<1> QED BY <1>1, LedgerInitial, PTL DEF Spec

(* The usage records and the budget agree: a record is what counts, as     *)
(* long as it counts (memory.py:71-87).                                    *)
THEOREM LedgerLedgersAgree == Spec => []LedgersAgree
<1>1. LedgerInv => LedgersAgree
  BY DEF LedgerInv, LedgersAgree, Tracked
<1> QED BY <1>1, LedgerInvariant, PTL

(* No interleaving of holds, settlements, releases and expiry takes a user *)
(* over the largest limit by more than settling added (memory.py:41-53).   *)
THEOREM LedgerBudgetHeld == Spec => []BudgetHeld
<1>1. LedgerInv => BudgetHeld
  <2> SUFFICES ASSUME LedgerInv, NEW u \in Users
               PROVE  Spent(u) <= Max(Limits) + Overrun(u)
    BY DEF BudgetHeld
  <2> DEFINE f == Excess
             g == Over
             h == [q \in Requests |-> spend[q].amount]
             S == Of(u)
  <2>1. TypeOK /\ (\A q \in Requests : Tracked(q)) /\ Granted(u) <= Max(Limits)
    BY DEF LedgerInv
  <2>2. \A x \in S : f[x] \in Int /\ g[x] \in Int /\ h[x] = f[x] + g[x]
    BY <2>1, OfIsFinite, ExcessIs
  <2>3. IsFiniteSet(S)
    BY OfIsFinite
  <2>4. /\ Granted(u) = SumFunctionOnSet(f, S) /\ Overrun(u) = SumFunctionOnSet(g, S)
        /\ Spent(u) = SumFunctionOnSet(h, S)
    BY DEF Granted, Overrun, Spent
  <2> HIDE DEF f, g, h, S
  <2>5. SumFunctionOnSet(h, S) = SumFunctionOnSet(f, S) + SumFunctionOnSet(g, S)
    BY <2>2, <2>3, SumOfSum
  <2>6. SumFunctionOnSet(f, S) \in Int /\ SumFunctionOnSet(g, S) \in Int
    BY <2>2, <2>3, SumIsInt
  <2> QED BY <2>1, <2>4, <2>5, <2>6, LargestLimit
<1> QED BY <1>1, LedgerInvariant, PTL

(* What a step does to the entry, the record and the state of r: nothing,  *)
(* one of the three calls, or a tick of the clock.                         *)
LEMMA LedgerMoves ==
    ASSUME LedgerInv, Next, NEW r \in Requests
    PROVE  \/ UNCHANGED <<spend[r], reservation[r], records[r]>>
           \/ /\ reservation[r] = "none" /\ reservation'[r] = "open"
              /\ records'[r] = records[r]
           \/ /\ reservation[r] = "open" /\ reservation'[r] = "closed"
              /\ records[r] = <<>> /\ records'[r] # <<>> /\ spend'[r].age = 0
           \/ /\ reservation[r] = "open" /\ reservation'[r] = "closed"
              /\ records[r] = <<>> /\ records'[r] = <<>>
           \/ /\ UNCHANGED <<reservation[r], records[r]>>
              /\ spend'[r] = Aged(spend[r])
<1>1. TypeOK /\ Tracked(r)
  BY DEF LedgerInv
<1>2. ASSUME NEW q \in Requests, NEW cost \in Costs, NEW limit \in Limits,
             Reserve(q, cost, limit)
      PROVE  \/ UNCHANGED <<spend[r], reservation[r], records[r]>>
             \/ /\ reservation[r] = "none" /\ reservation'[r] = "open"
                /\ records'[r] = records[r]
  BY <1>1, <1>2 DEF Reserve, TypeOK
<1>3. ASSUME NEW q \in Requests, NEW cost \in Costs, Settle(q, cost)
      PROVE  \/ UNCHANGED <<spend[r], reservation[r], records[r]>>
             \/ /\ reservation[r] = "open" /\ reservation'[r] = "closed"
                /\ records[r] = <<>> /\ records'[r] # <<>> /\ spend'[r].age = 0
  <2>1. CASE q # r
    BY <1>1, <1>3, <2>1 DEF Settle, TypeOK
  <2>2. CASE q = r
    <3>1. records[r] = <<>> /\ reservation[r] = "open" /\ reservation'[r] = "closed"
      BY <1>1, <1>3, <2>2 DEF Settle, TypeOK, Tracked
    <3>2. records'[r] = <<cost>> /\ <<cost>> # <<>>
      BY <1>1, <1>3, <2>2, <3>1 DEF Settle, TypeOK
    <3>3. spend'[r] = Fresh(cost) /\ Fresh(cost).age = 0
      BY <1>1, <1>3, <2>2, EntryIs DEF Settle, TypeOK
    <3> QED BY <3>1, <3>2, <3>3
  <2> QED BY <2>1, <2>2
<1>4. ASSUME NEW q \in Requests, Release(q)
      PROVE  \/ UNCHANGED <<spend[r], reservation[r], records[r]>>
             \/ /\ reservation[r] = "open" /\ reservation'[r] = "closed"
                /\ records[r] = <<>> /\ records'[r] = <<>>
  BY <1>1, <1>4 DEF Release, TypeOK, Tracked
<1>5. ASSUME Tick
      PROVE  /\ UNCHANGED <<reservation[r], records[r]>>
             /\ spend'[r] = Aged(spend[r])
  BY <1>5 DEF Tick
<1> QED BY <1>2, <1>3, <1>4, <1>5 DEF Next

(* A charge is stamped when it is made and counts for the whole window,    *)
(* whatever is called on its reservation later (memory.py:31-33, 71-72,    *)
(* 90-91).                                                                 *)
THEOREM LedgerChargeCountsForWindow == Spec => ChargeCountsForWindow
<1> DEFINE Counts(r) ==
        /\ (records[r] = <<>> /\ records'[r] # <<>>) => spend'[r].age = 0
        /\ (records[r] # <<>> /\ spend[r].age < Window) =>
               /\ spend'[r].amount = spend[r].amount
               /\ spend'[r].age \in {spend[r].age, spend[r].age + 1}
<1>1. ASSUME LedgerInv, Next, NEW r \in Requests PROVE Counts(r)
  <2>1. spend[r] \in Entries /\ Tracked(r)
    BY <1>1 DEF LedgerInv, TypeOK
  <2>2. /\ (spend[r].age < Window) => /\ Aged(spend[r]).amount = spend[r].amount
                                      /\ Aged(spend[r]).age = spend[r].age + 1
        /\ reservation[r] # "closed" => records[r] = <<>>
    BY <2>1, AgedIs DEF Tracked
  <2> QED BY <1>1, <2>2, LedgerMoves
<1>2. LedgerInv /\ [Next]_vars => [\A r \in Requests : Counts(r)]_vars
  BY <1>1
<1> HIDE DEF Counts
<1>3. Spec => [][\A r \in Requests : Counts(r)]_vars
  BY <1>2, LedgerInvariant, PTL DEF Spec
<1> QED BY <1>3 DEF ChargeCountsForWindow, Counts

(* The ledger implements Billing: a request is charged or refunded at most *)
(* once and only after it was held (memory.py:55-97).                      *)
THEOREM LedgerBillsOnce == Spec => BillsOnce
<1> DEFINE b == [r \in Requests |->
                    IF reservation[r] = "none" THEN "none"
                    ELSE IF records[r] # <<>> THEN "charged"
                    ELSE IF reservation[r] = "open" THEN "held" ELSE "refunded"]
<1>1. Init => B!Init
  BY DEF Init, B!Init
<1>2. ASSUME LedgerInv, Next PROVE [B!Next]_b
  <2>1. CASE Tick
    BY <2>1 DEF Tick
  <2>2. ASSUME NEW r \in Requests,
               \/ \E cost \in Costs, limit \in Limits : Reserve(r, cost, limit)
               \/ \E cost \in Costs : Settle(r, cost)
               \/ Release(r)
        PROVE  [B!Next]_b
    <3>1. \A q \in Requests \ {r} : reservation'[q] = reservation[q] /\ records'[q] = records[q]
      BY <1>2, <2>2 DEF LedgerInv, TypeOK, Reserve, Settle, Release
    <3>2. Tracked(r)
      BY <1>2 DEF LedgerInv
    <3>3. \/ b'[r] = b[r]
          \/ b[r] = "none" /\ b'[r] = "held"
          \/ b[r] = "held" /\ b'[r] \in {"charged", "refunded"}
      BY <1>2, <3>2, LedgerMoves DEF Tracked
    <3>4. b' = [b EXCEPT ![r] = b'[r]]
      BY <3>1
    <3>5. b'[r] = b[r] => b' = b
      BY <3>1
    <3> HIDE DEF b
    <3>6. \/ b' = b
          \/ b[r] = "none" /\ b' = [b EXCEPT ![r] = "held"]
          \/ b[r] = "held" /\ b' = [b EXCEPT ![r] = "charged"]
          \/ b[r] = "held" /\ b' = [b EXCEPT ![r] = "refunded"]
      BY <3>3, <3>4, <3>5
    <3> QED BY <3>6 DEF b, B!Next, B!Hold, B!Charge, B!Refund, B!Move
  <2> QED BY <1>2, <2>1, <2>2 DEF Next
<1>3. UNCHANGED vars => UNCHANGED b
  BY DEF vars
<1>4. LedgerInv /\ [Next]_vars => [B!Next]_b
  BY <1>2, <1>3
<1> QED BY <1>1, <1>4, LedgerInvariant, PTL DEF Spec, BillsOnce, B!Spec

-----------------------------------------------------------------------------
(***************************************************************************)
(* The two one after the other: each works as it does alone, hence what is *)
(* proved of each holds of both.                                           *)
(***************************************************************************)

(* Consulting the limiter first leaves the ledger the steps it has alone   *)
(* (service.py:356-369).                                                   *)
THEOREM QuotasKeepLedger == QuotasSpec => Spec
<1>1. QuotasInit => Init
  BY DEF QuotasInit
<1>2. QuotasNext => [Next]_vars
  BY DEF QuotasNext, CheckRate, Bill, Elapse, Next
<1>3. UNCHANGED quotaVars => UNCHANGED vars
  BY DEF quotaVars
<1> QED BY <1>1, <1>2, <1>3, PTL DEF QuotasSpec, Spec

(* Nor does the ledger take a step of the limiter, or keep it from one     *)
(* (service.py:356-369).                                                   *)
THEOREM QuotasKeepLimiter == QuotasSpec => LimiterSpec
<1>1. QuotasInit => LimiterInit
  BY DEF QuotasInit
<1>2. QuotasNext => [LimiterNext]_limiterVars
  BY DEF QuotasNext, CheckRate, Bill, Elapse, LimiterNext
<1>3. UNCHANGED quotaVars => UNCHANGED limiterVars
  BY DEF quotaVars
<1> QED BY <1>1, <1>2, <1>3, PTL DEF QuotasSpec, LimiterSpec

(* Both limits on a user hold together: what the limiter grants and what   *)
(* counts against the budget (service.py:356-369).                         *)
THEOREM QuotasLimitUsers == QuotasSpec => [](GrantsBounded /\ BudgetHeld /\ LedgersAgree)
BY QuotasKeepLedger, QuotasKeepLimiter, LimiterGrantsBounded, LedgerBudgetHeld,
   LedgerLedgersAgree, PTL
=============================================================================
