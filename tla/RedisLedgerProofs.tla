-------------------------- MODULE RedisLedgerProofs --------------------------
(***************************************************************************)
(* What the distributed ledger promises for every number of replicas,      *)
(* users and requests, whatever calls fail, however the clocks disagree.   *)
(*                                                                         *)
(* The inductive invariant follows a request's reservation: what its stage *)
(* says of its bill, its entry and its history.  The budget is the sum of  *)
(* what counts, less what completed requests cost beyond their holds; a    *)
(* grant bounds that sum by its limit, and no other step raises a term.    *)
(***************************************************************************)
EXTENDS RedisLedger, Sums

(* Two replicas' clocks are never further apart than Spread.               *)
LEMMA SpreadBounds ==
    /\ Spread \in Nat
    /\ \A p, q \in Replicas : Ahead[p] - Ahead[q] <= Spread
<1> DEFINE S == {Ahead[p] : p \in Replicas}
<1>1. CASE Replicas = {}
  BY <1>1 DEF Spread
<1>2. CASE Replicas # {}
  <2>1. IsFiniteSet(S)
    <3>1. Ahead \in Surjection(Replicas, S)
      BY RedisLedgerAssumption DEF Surjection
    <3> QED BY <3>1, RedisLedgerAssumption, FS_Surjection
  <2>2. S \subseteq Int /\ S # {}
    BY <1>2, RedisLedgerAssumption
  <2>3. \A p \in Replicas : Ahead[p] \in S /\ Ahead[p] \in Nat
    BY RedisLedgerAssumption
  <2>4. Spread = Max(S) - Min(S)
    BY <1>2 DEF Spread
  <2> HIDE DEF S
  <2>5. /\ Max(S) \in S /\ \A x \in S : x <= Max(S)
        /\ Min(S) \in S /\ \A x \in S : Min(S) <= x
    BY <2>1, <2>2, MaxOfFinite, MinOfFinite
  <2>6. Max(S) \in Int /\ Min(S) \in Int /\ Min(S) <= Max(S)
    BY <2>2, <2>5
  <2>7. \A p, q \in Replicas : Ahead[p] <= Max(S) /\ Min(S) <= Ahead[q]
    BY <2>3, <2>5
  <2> QED BY <2>3, <2>4, <2>6, <2>7
<1> QED BY <1>1, <1>2

-----------------------------------------------------------------------------
(***************************************************************************)
(* The scripts.                                                            *)
(***************************************************************************)
Entries == [amount : Costs \cup {0}, age : Int]

LEMMA CallingIs ==
    /\ Calling = {"reserving", "settling", "releasing"}
    /\ \A s \in Calling : Script[s] \in {"reserve", "settle", "release"}
  BY DEF Calling, Script

(* The two entries a script may write.                                     *)
LEMMA EntryTypes ==
    /\ Gone \in Entries /\ Gone.amount = 0 /\ Gone.age = Window + Spread
    /\ \A r \in Requests, cost \in Costs :
          /\ Fresh(r, cost) \in Entries
          /\ Fresh(r, cost).amount = cost
          /\ Fresh(r, cost).age = -Ahead[Home[r]]
    /\ \A r \in Requests : /\ Ahead[Home[r]] \in Nat
                           /\ Window + Spread \in Nat
<1>1. Spread \in Nat /\ Window \in Nat
  BY SpreadBounds, RedisLedgerAssumption
<1>2. \A r \in Requests : Ahead[Home[r]] \in Nat
  BY RedisLedgerAssumption
<1> QED BY <1>1, <1>2 DEF Gone, Fresh, Entries

LEMMA AmountIsNat ==
    ASSUME NEW e \in Entries
    PROVE  e.amount \in Costs \cup {0} /\ e.amount \in Nat /\ e.age \in Int
<1>1. e.amount \in Costs \cup {0} /\ e.age \in Int
  BY DEF Entries
<1>2. Costs \cup {0} \subseteq Nat
  BY RedisLedgerAssumption
<1> QED BY <1>1, <1>2

(* What a step does to the entries of the requests in s: nothing, or it    *)
(* removes them.                                                           *)
OthersKept(s) == \A q \in s : zset'[q] = zset[q] \/ zset'[q] = Gone

LEMMA PrunedKeeps ==
    ASSUME zset \in [Requests -> Entries], NEW r \in Requests
    PROVE  /\ Pruned(r) \in [Requests -> Entries]
           /\ \A q \in Requests : Pruned(r)[q] = zset[q] \/ Pruned(r)[q] = Gone
  BY EntryTypes DEF Pruned

(* What each script leaves behind.                                         *)
LEMMA ScriptEffects ==
    ASSUME zset \in [Requests -> Entries], NEW r \in Requests
    PROVE  /\ ReserveGrants(r) =>
                 /\ zset' \in [Requests -> Entries] /\ OthersKept(Requests \ {r})
                 /\ \E cost \in Costs : zset'[r] = Fresh(r, cost)
                 /\ bill' = [bill EXCEPT ![r] = "held"] /\ surplus' = surplus
           /\ ReserveDenies(r) =>
                 /\ zset' \in [Requests -> Entries] /\ OthersKept(Requests)
                 /\ bill' = bill /\ surplus' = surplus
           /\ SettleRuns(r) => \E cost \in Costs :
                 /\ zset' = [zset EXCEPT ![r] = Fresh(r, cost)]
                 /\ zset' \in [Requests -> Entries]
                 /\ bill' = [bill EXCEPT ![r] = "charged"]
                 /\ surplus' = [surplus EXCEPT ![r] = cost - zset[r].amount]
           /\ ReleaseRuns(r) =>
                 /\ zset' = [zset EXCEPT ![r] = Gone]
                 /\ zset' \in [Requests -> Entries]
                 /\ bill' = [bill EXCEPT ![r] = IF @ = "none" THEN @ ELSE "refunded"]
                 /\ surplus' = surplus
<1>1. ReserveGrants(r) =>
          /\ zset' \in [Requests -> Entries] /\ OthersKept(Requests \ {r})
          /\ \E cost \in Costs : zset'[r] = Fresh(r, cost)
          /\ bill' = [bill EXCEPT ![r] = "held"] /\ surplus' = surplus
  <2> SUFFICES ASSUME ReserveGrants(r)
               PROVE  /\ zset' \in [Requests -> Entries]
                      /\ OthersKept(Requests \ {r})
                      /\ \E cost \in Costs : zset'[r] = Fresh(r, cost)
                      /\ bill' = [bill EXCEPT ![r] = "held"] /\ surplus' = surplus
    OBVIOUS
  <2>1. PICK cost \in Costs : zset' = [Pruned(r) EXCEPT ![r] = Fresh(r, cost)]
    BY DEF ReserveGrants
  <2>2. Fresh(r, cost) \in Entries
    BY EntryTypes
  <2> QED BY <2>1, <2>2, PrunedKeeps DEF ReserveGrants, OthersKept
<1>2. ReserveDenies(r) =>
          /\ zset' \in [Requests -> Entries] /\ OthersKept(Requests)
          /\ bill' = bill /\ surplus' = surplus
  BY PrunedKeeps DEF ReserveDenies, OthersKept
<1>3. ASSUME SettleRuns(r)
      PROVE  \E cost \in Costs :
                 /\ zset' = [zset EXCEPT ![r] = Fresh(r, cost)]
                 /\ zset' \in [Requests -> Entries]
                 /\ bill' = [bill EXCEPT ![r] = "charged"]
                 /\ surplus' = [surplus EXCEPT ![r] = cost - zset[r].amount]
  <2>1. PICK cost \in Costs :
            /\ zset' = [zset EXCEPT ![r] = Fresh(r, cost)]
            /\ bill' = [bill EXCEPT ![r] = "charged"]
            /\ surplus' = [surplus EXCEPT ![r] = cost - zset[r].amount]
    BY <1>3 DEF SettleRuns
  <2>2. zset' \in [Requests -> Entries]
    BY <2>1, EntryTypes
  <2> QED BY <2>1, <2>2
<1>4. ReleaseRuns(r) =>
          /\ zset' = [zset EXCEPT ![r] = Gone]
          /\ zset' \in [Requests -> Entries]
          /\ bill' = [bill EXCEPT ![r] = IF @ = "none" THEN @ ELSE "refunded"]
          /\ surplus' = surplus
  BY EntryTypes DEF ReleaseRuns
<1> QED BY <1>1, <1>2, <1>3, <1>4

(* Where a request goes whose operation raised.                            *)
LEMMA AfterErrorIs ==
    ASSUME NEW r \in Requests
    PROVE  /\ stage[r] = "reserving" =>
                 AfterError(r) = IF Home[r] \in FailClosed THEN "unavailable" ELSE "held"
           /\ stage[r] = "settling" =>
                 AfterError(r) = IF Home[r] \in FailClosed THEN "cleaning" ELSE "answered"
           /\ stage[r] = "releasing" => AfterError(r) = "failed"
  BY DEF AfterError

(* The script a request ran, if any: what a step may do to what Redis      *)
(* keeps for it.                                                           *)
Ran(r) ==
    \/ UNCHANGED redisVars
    \/ stage[r] = "reserving" /\ (ReserveGrants(r) \/ ReserveDenies(r))
    \/ stage[r] = "settling" /\ SettleRuns(r)
    \/ stage[r] = "releasing" /\ ReleaseRuns(r)

Acts(r) ==
    \/ Reserve(r) \/ Settle(r) \/ Release(r) \/ Load(r) \/ Replied(r)
    \/ NoScript(r) \/ Fault(r) \/ CleanUp(r)

LEMMA ActsRan == ASSUME NEW r \in Requests, Acts(r) PROVE Ran(r)
<1>1. CASE Reserve(r) \/ Settle(r) \/ Release(r) \/ Load(r) \/ NoScript(r) \/ CleanUp(r)
  BY <1>1 DEF Reserve, Settle, Release, Start, Load, NoScript, CleanUp, Ran, redisVars
<1>2. CASE Replied(r) \/ Fault(r)
  BY <1>2 DEF Replied, Fault, Ran, redisVars
<1> QED BY <1>1, <1>2 DEF Acts

-----------------------------------------------------------------------------
(***************************************************************************)
(* Type correctness.                                                       *)
(***************************************************************************)
LEMMA RedisTyped ==
    ASSUME TypeOK, NEW r \in Requests, Ran(r)
    PROVE  /\ zset' \in [Requests -> Entries]
           /\ \A q \in Requests : zset'[q].age \in -Ahead[Home[q]]..(Window + Spread)
           /\ bill' \in [Requests -> {"none", "held", "charged", "refunded"}]
           /\ surplus' \in [Requests -> Int]
<1>1. /\ zset \in [Requests -> Entries] /\ surplus \in [Requests -> Int]
      /\ bill \in [Requests -> {"none", "held", "charged", "refunded"}]
      /\ \A q \in Requests : zset[q].age \in -Ahead[Home[q]]..(Window + Spread)
  BY DEF TypeOK, Entries
<1>2. ASSUME OthersKept(Requests \ {r}),
             zset'[r] \in {zset[r], Gone} \/ \E cost \in Costs : zset'[r] = Fresh(r, cost)
      PROVE  \A q \in Requests : zset'[q].age \in -Ahead[Home[q]]..(Window + Spread)
  <2>1. \A q \in Requests : -Ahead[Home[q]] \in -Ahead[Home[q]]..(Window + Spread)
    BY EntryTypes
  <2>2. \A q \in Requests : Window + Spread \in -Ahead[Home[q]]..(Window + Spread)
    BY EntryTypes
  <2> QED BY <1>1, <1>2, <2>1, <2>2, EntryTypes DEF OthersKept
<1>3. CASE UNCHANGED redisVars
  BY <1>1, <1>3 DEF redisVars
<1>4. CASE ReserveGrants(r) \/ ReserveDenies(r)
  BY <1>1, <1>2, <1>4, ScriptEffects DEF OthersKept
<1>5. CASE SettleRuns(r)
  <2>1. PICK cost \in Costs : /\ zset' = [zset EXCEPT ![r] = Fresh(r, cost)]
                              /\ zset' \in [Requests -> Entries]
                              /\ bill' = [bill EXCEPT ![r] = "charged"]
                              /\ surplus' = [surplus EXCEPT ![r] = cost - zset[r].amount]
    BY <1>1, <1>5, ScriptEffects
  <2>2. cost - zset[r].amount \in Int
    BY <1>1, AmountIsNat, RedisLedgerAssumption
  <2> QED BY <1>1, <1>2, <2>1, <2>2 DEF OthersKept
<1>6. CASE ReleaseRuns(r)
  BY <1>1, <1>2, <1>6, ScriptEffects DEF OthersKept
<1> QED BY <1>3, <1>4, <1>5, <1>6 DEF Ran

(* A step of one request: the types of what it changes, and what it leaves *)
(* of the others.                                                          *)
LEMMA ActsTyped ==
    ASSUME TypeOK, NEW r \in Requests, Acts(r)
    PROVE  /\ TypeOK'
           /\ \A q \in Requests \ {r} : /\ stage'[q] = stage[q]
                                        /\ closed'[q] = closed[q]
                                        /\ faulted'[q] = faulted[q]
           /\ faulted[r] => faulted'[r]
<1>1. /\ stage \in [Requests -> {"new"} \cup Running \cup Ended]
      /\ at \in [Requests -> {"idle", "load", "evalsha", "eval"}]
      /\ \A q \in Requests : at[q] = "idle" <=> stage[q] \notin Calling
      /\ scripts \subseteq {"reserve", "settle", "release"}
      /\ sha \in [Replicas -> SUBSET {"reserve", "settle", "release"}]
      /\ closed \in [Requests -> BOOLEAN] /\ faulted \in [Requests -> BOOLEAN]
      /\ Home[r] \in Replicas
  BY RedisLedgerAssumption DEF TypeOK
<1> DEFINE Rest == /\ stage' \in [Requests -> {"new"} \cup Running \cup Ended]
                   /\ at' \in [Requests -> {"idle", "load", "evalsha", "eval"}]
                   /\ \A q \in Requests : at'[q] = "idle" <=> stage'[q] \notin Calling
                   /\ scripts' \subseteq {"reserve", "settle", "release"}
                   /\ sha' \in [Replicas -> SUBSET {"reserve", "settle", "release"}]
                   /\ closed' \in [Requests -> BOOLEAN]
                   /\ faulted' \in [Requests -> BOOLEAN]
                   /\ \A q \in Requests \ {r} : /\ stage'[q] = stage[q]
                                                /\ closed'[q] = closed[q]
                                                /\ faulted'[q] = faulted[q]
                   /\ faulted[r] => faulted'[r]
<1>2. Rest
  <2> USE CallingIs
  <2>1. CASE Reserve(r) \/ Settle(r) \/ Release(r) \/ CleanUp(r)
    <3>2. \/ \E from, to : to \in Calling /\ Start(r, from, to)
          \/ closed[r] /\ CleanUp(r)
      BY <2>1 DEF Reserve, Settle, Release, CleanUp
    <3>3. CASE \E from, to : to \in Calling /\ Start(r, from, to)
      BY <1>1, <3>3 DEF Start, Running
    <3>4. CASE closed[r] /\ CleanUp(r)
      BY <1>1, <3>4 DEF CleanUp, Ended
    <3> QED BY <3>2, <3>3, <3>4
  <2>2. CASE Load(r)
    <3>1. stage[r] \in Calling
      BY <1>1, <2>2 DEF Load
    <3> QED BY <1>1, <2>2, <3>1 DEF Load
  <2>3. CASE NoScript(r)
    <3>1. stage[r] \in Calling
      BY <1>1, <2>3 DEF NoScript
    <3> QED BY <1>1, <2>3, <3>1 DEF NoScript
  <2>4. CASE Replied(r)
    <3>1. stage[r] \in Calling /\ scripts' \subseteq {"reserve", "settle", "release"}
      BY <1>1, <2>4 DEF Replied, Reached
    <3>2. PICK to \in {"held", "denied", "answered", "failed"} : Returns(r, to)
      BY <2>4 DEF Replied
    <3>3. /\ closed' = closed \/ closed' = [closed EXCEPT ![r] = TRUE]
          /\ sha' = sha /\ faulted' = faulted
      BY <2>4 DEF Replied
    <3>4. /\ stage' \in [Requests -> {"new"} \cup Running \cup Ended]
          /\ at' \in [Requests -> {"idle", "load", "evalsha", "eval"}]
          /\ \A q \in Requests : at'[q] = "idle" <=> stage'[q] \notin Calling
          /\ \A q \in Requests \ {r} : stage'[q] = stage[q]
      BY <1>1, <3>2 DEF Returns, Running, Ended
    <3>5. /\ closed' \in [Requests -> BOOLEAN]
          /\ \A q \in Requests \ {r} : closed'[q] = closed[q]
      BY <1>1, <3>3
    <3> QED BY <1>1, <3>1, <3>3, <3>4, <3>5
  <2>5. CASE Fault(r)
    <3>1. stage[r] \in Calling
      BY <1>1, <2>5 DEF Fault
    <3>2. scripts' \subseteq {"reserve", "settle", "release"}
      BY <1>1, <2>5, <3>1 DEF Fault, Reached
    <3>3. AfterError(r) \in {"unavailable", "held", "cleaning", "answered", "failed"}
      BY <3>1, AfterErrorIs
    <3>4. PICK to \in {"unavailable", "held", "cleaning", "answered", "failed"} :
              Returns(r, to)
      BY <2>5, <3>3 DEF Fault, Raises
    <3>5. PICK c \in BOOLEAN : closed' = [closed EXCEPT ![r] = c]
      BY <2>5 DEF Fault, Raises
    <3>6. sha' = sha /\ faulted' = [faulted EXCEPT ![r] = TRUE]
      BY <2>5 DEF Fault
    <3>7. /\ stage' \in [Requests -> {"new"} \cup Running \cup Ended]
          /\ at' \in [Requests -> {"idle", "load", "evalsha", "eval"}]
          /\ \A q \in Requests : at'[q] = "idle" <=> stage'[q] \notin Calling
          /\ \A q \in Requests \ {r} : stage'[q] = stage[q]
      BY <1>1, <3>1, <3>4 DEF Returns, Running, Ended
    <3>8. /\ closed' \in [Requests -> BOOLEAN]
          /\ \A q \in Requests \ {r} : closed'[q] = closed[q]
      BY <1>1, <3>5
    <3>9. /\ faulted' \in [Requests -> BOOLEAN] /\ faulted'[r]
          /\ \A q \in Requests \ {r} : faulted'[q] = faulted[q]
      BY <1>1, <3>6
    <3> QED BY <1>1, <3>2, <3>6, <3>7, <3>8, <3>9
  <2> QED BY <2>1, <2>2, <2>3, <2>4, <2>5 DEF Acts
<1>3. TypeOK'
  BY <1>2, ActsRan, RedisTyped DEF TypeOK, Entries
<1> QED BY <1>2, <1>3

-----------------------------------------------------------------------------
(***************************************************************************)
(* The reservation of a request: what the stage of its task says of its    *)
(* bill, and its bill of its entry.                                        *)
(***************************************************************************)
Tracked(r) ==
    /\ stage[r] \in {"new", "reserving"} => bill[r] = "none"
    /\ stage[r] \in {"held", "settling", "releasing"} =>
          /\ bill[r] \in {"none", "held"}
          /\ Home[r] \in FailClosed => bill[r] = "held"
    /\ stage[r] = "cleaning" => closed[r] /\ faulted[r]
    /\ stage[r] = "unavailable" => faulted[r]
    /\ bill[r] = "held" => stage[r] \in Running \/ faulted[r]
    /\ bill[r] = "none" => zset[r] = Gone
    /\ bill[r] # "charged" => surplus[r] = 0
    /\ surplus[r] <= zset[r].amount \/ zset[r] = Gone

(* What counts against a user, less what settling added beyond the holds.  *)
Excess == [r \in Requests |-> zset[r].amount - Over[r]]

Granted(u) == SumFunctionOnSet(Excess, Of(u))

RedisInv ==
    /\ TypeOK
    /\ \A r \in Requests : Tracked(r)
    /\ \A u \in Users : Granted(u) <= Max(Limits)

(* The scripts keep the reservation of their own request ...               *)
LEMMA ScriptTracked ==
    ASSUME TypeOK, NEW r \in Requests, Tracked(r), Ran(r)
    PROVE  /\ \/ UNCHANGED <<zset[r], bill[r], surplus[r]>>
              \/ stage[r] = "reserving" /\ bill'[r] = "held"
              \/ stage[r] = "reserving" /\ bill'[r] = "none"
              \/ stage[r] = "settling" /\ bill'[r] = "charged"
              \/ stage[r] = "releasing" /\ bill'[r] = bill[r] /\ bill[r] = "none"
              \/ stage[r] = "releasing" /\ bill'[r] = "refunded"
           /\ bill'[r] = "none" => zset'[r] = Gone
           /\ bill'[r] # "charged" => surplus'[r] = 0
           /\ surplus'[r] <= zset'[r].amount \/ zset'[r] = Gone
<1>1. /\ zset \in [Requests -> Entries] /\ surplus \in [Requests -> Int]
      /\ bill \in [Requests -> {"none", "held", "charged", "refunded"}]
  BY DEF TypeOK, Entries
<1>2. CASE UNCHANGED redisVars
  BY <1>2 DEF redisVars, Tracked
<1>3. CASE stage[r] = "reserving" /\ ReserveGrants(r)
  <2>1. bill[r] = "none" /\ surplus[r] = 0
    BY <1>3 DEF Tracked
  <2>2. PICK cost \in Costs : zset'[r] = Fresh(r, cost)
    BY <1>1, <1>3, ScriptEffects
  <2>3. zset'[r].amount = cost /\ cost \in Nat
    BY <2>2, EntryTypes, RedisLedgerAssumption
  <2>4. bill'[r] = "held" /\ surplus'[r] = 0
    BY <1>1, <1>3, <2>1, ScriptEffects
  <2> QED BY <1>3, <2>3, <2>4
<1>4. CASE stage[r] = "reserving" /\ ReserveDenies(r)
  <2>1. bill[r] = "none" /\ surplus[r] = 0 /\ zset[r] = Gone
    BY <1>4 DEF Tracked
  <2> QED BY <1>1, <1>4, <2>1, ScriptEffects DEF OthersKept
<1>5. CASE stage[r] = "settling" /\ SettleRuns(r)
  <2>1. PICK cost \in Costs :
            /\ zset'[r] = Fresh(r, cost)
            /\ bill' = [bill EXCEPT ![r] = "charged"]
            /\ surplus'[r] = cost - zset[r].amount
    BY <1>1, <1>5, ScriptEffects
  <2>2. zset'[r].amount = cost /\ cost \in Nat
    BY <2>1, EntryTypes, RedisLedgerAssumption
  <2>3. zset[r].amount \in Nat
    BY <1>1, AmountIsNat
  <2> QED BY <1>1, <1>5, <2>1, <2>2, <2>3
<1>6. CASE stage[r] = "releasing" /\ ReleaseRuns(r)
  <2>1. bill[r] # "charged" /\ surplus[r] = 0
    BY <1>6 DEF Tracked
  <2>2. zset'[r] = Gone /\ surplus'[r] = 0
    BY <1>1, <1>6, <2>1, ScriptEffects
  <2>3. bill'[r] = IF bill[r] = "none" THEN "none" ELSE "refunded"
    BY <1>1, <1>6, ScriptEffects
  <2> QED BY <1>6, <2>1, <2>2, <2>3
<1> QED BY <1>2, <1>3, <1>4, <1>5, <1>6 DEF Ran

(* ... and of the others.                                                  *)
LEMMA RanOthers ==
    ASSUME TypeOK, NEW r \in Requests, Ran(r)
    PROVE  \A q \in Requests \ {r} :
              /\ zset'[q] = zset[q] \/ zset'[q] = Gone
              /\ bill'[q] = bill[q] /\ surplus'[q] = surplus[q]
<1>1. /\ zset \in [Requests -> Entries] /\ surplus \in [Requests -> Int]
      /\ bill \in [Requests -> {"none", "held", "charged", "refunded"}]
  BY DEF TypeOK, Entries
<1>2. CASE UNCHANGED redisVars
  BY <1>2 DEF redisVars
<1>3. CASE ReserveGrants(r) \/ ReserveDenies(r)
  BY <1>1, <1>3, ScriptEffects DEF OthersKept
<1>4. CASE SettleRuns(r)
  <2>1. PICK entry \in Entries, surp \in Int :
            /\ zset' = [zset EXCEPT ![r] = entry]
            /\ bill' = [bill EXCEPT ![r] = "charged"]
            /\ surplus' = [surplus EXCEPT ![r] = surp]
    <3>1. PICK cost \in Costs :
              /\ zset' = [zset EXCEPT ![r] = Fresh(r, cost)]
              /\ bill' = [bill EXCEPT ![r] = "charged"]
              /\ surplus' = [surplus EXCEPT ![r] = cost - zset[r].amount]
      BY <1>4 DEF SettleRuns
    <3>2. Fresh(r, cost) \in Entries /\ cost - zset[r].amount \in Int
      BY <1>1, AmountIsNat, EntryTypes, RedisLedgerAssumption
    <3> QED BY <3>1, <3>2
  <2> QED BY <1>1, <2>1
<1>5. CASE ReleaseRuns(r)
  BY <1>1, <1>5 DEF ReleaseRuns
<1> QED BY <1>2, <1>3, <1>4, <1>5 DEF Ran

(* What the step of a request's own task does to its reservation.          *)
LEMMA ActsTracked ==
    ASSUME TypeOK, NEW r \in Requests, Acts(r), \A q \in Requests : Tracked(q)
    PROVE  \A q \in Requests : Tracked(q)'
<1>1. Ran(r) /\ TypeOK' /\ Tracked(r)
  BY ActsRan, ActsTyped
<1>2. ASSUME NEW q \in Requests \ {r} PROVE Tracked(q)'
  <2>1. /\ zset'[q] = zset[q] \/ zset'[q] = Gone
        /\ bill'[q] = bill[q] /\ surplus'[q] = surplus[q]
    BY <1>1, RanOthers
  <2>2. stage'[q] = stage[q] /\ closed'[q] = closed[q] /\ faulted'[q] = faulted[q]
    BY ActsTyped
  <2>3. Tracked(q) /\ Gone' = Gone
    BY DEF Gone, Spread
  <2> QED BY <2>1, <2>2, <2>3 DEF Tracked
<1>3. Tracked(r)'
  <2>1. /\ stage \in [Requests -> {"new"} \cup Running \cup Ended]
        /\ closed \in [Requests -> BOOLEAN] /\ faulted \in [Requests -> BOOLEAN]
        /\ Gone' = Gone
    BY DEF TypeOK, Gone, Spread
  <2>2. /\ bill'[r] = "none" => zset'[r] = Gone
        /\ bill'[r] # "charged" => surplus'[r] = 0
        /\ surplus'[r] <= zset'[r].amount \/ zset'[r] = Gone
    BY <1>1, ScriptTracked
  <2> DEFINE Staged ==
                /\ stage'[r] \in {"new", "reserving"} => bill'[r] = "none"
                /\ stage'[r] \in {"held", "settling", "releasing"} =>
                      /\ bill'[r] \in {"none", "held"}
                      /\ Home[r] \in FailClosed => bill'[r] = "held"
                /\ stage'[r] = "cleaning" => closed'[r] /\ faulted'[r]
                /\ stage'[r] = "unavailable" => faulted'[r]
                /\ bill'[r] = "held" => stage'[r] \in Running \/ faulted'[r]
  <2>3. Staged
    <3>1. CASE Reserve(r) \/ Settle(r) \/ Release(r) \/ CleanUp(r)
      <4>1. bill' = bill /\ faulted' = faulted
        BY <3>1 DEF Reserve, Settle, Release, CleanUp, Start, redisVars
      <4>2. \/ stage[r] = "new" /\ stage'[r] = "reserving"
            \/ stage[r] = "held" /\ stage'[r] \in {"settling", "releasing"}
            \/ stage[r] = "cleaning" /\ stage'[r] = "failed"
        BY <1>1, <2>1, <3>1 DEF Reserve, Settle, Release, CleanUp, Start, Tracked
      <4> QED BY <1>1, <4>1, <4>2, CallingIs DEF Tracked, Running
    <3>2. CASE Load(r) \/ NoScript(r)
      <4>1. UNCHANGED <<bill, faulted, closed, stage>>
        BY <3>2 DEF Load, NoScript, redisVars
      <4> QED BY <1>1, <4>1 DEF Tracked
    <3>3. CASE Replied(r)
      <4>1. faulted' = faulted
        BY <3>3 DEF Replied
      <4>2. \/ stage[r] = "reserving" /\ stage'[r] = "held" /\ bill'[r] = "held"
            \/ stage[r] = "reserving" /\ stage'[r] = "denied" /\ bill'[r] = bill[r]
            \/ stage[r] = "settling" /\ stage'[r] = "answered" /\ bill'[r] = "charged"
            \/ /\ stage[r] = "releasing" /\ stage'[r] = "failed"
               /\ bill'[r] = IF bill[r] = "none" THEN "none" ELSE "refunded"
        BY <2>1, <3>3 DEF Replied, Returns, ReserveGrants, ReserveDenies, SettleRuns,
                          ReleaseRuns, TypeOK
      <4> QED BY <1>1, <4>1, <4>2, CallingIs DEF Tracked, Running
    <3>4. CASE Fault(r)
      <4>1. /\ stage'[r] = AfterError(r) /\ faulted'[r]
            /\ closed'[r] = (stage[r] # "reserving")
        BY <2>1, <3>4 DEF Fault, Raises, Returns
      <4>2. stage[r] \in {"reserving", "settling", "releasing"}
        BY <3>4, CallingIs DEF Fault, TypeOK
      <4>3. \/ bill'[r] = bill[r]
            \/ stage[r] = "reserving" /\ bill'[r] = "held"
            \/ stage[r] = "settling" /\ bill'[r] = "charged"
            \/ stage[r] = "releasing" /\ bill'[r] \in {"none", "refunded"}
        BY <1>1, ScriptTracked DEF Tracked
      <4>4. CASE stage[r] = "reserving"
        <5>1. stage'[r] = IF Home[r] \in FailClosed THEN "unavailable" ELSE "held"
          BY <4>1, <4>4, AfterErrorIs
        <5> QED BY <1>1, <4>1, <4>3, <4>4, <5>1 DEF Tracked
      <4>5. CASE stage[r] = "settling"
        <5>1. stage'[r] = IF Home[r] \in FailClosed THEN "cleaning" ELSE "answered"
          BY <4>1, <4>5, AfterErrorIs
        <5> QED BY <1>1, <4>1, <4>3, <4>5, <5>1 DEF Tracked
      <4>6. CASE stage[r] = "releasing"
        <5>1. stage'[r] = "failed"
          BY <4>1, <4>6, AfterErrorIs
        <5> QED BY <1>1, <4>1, <4>3, <4>6, <5>1 DEF Tracked
      <4> QED BY <4>2, <4>4, <4>5, <4>6
    <3> QED BY <3>1, <3>2, <3>3, <3>4 DEF Acts
  <2> HIDE DEF Staged
  <2> QED BY <2>1, <2>2, <2>3 DEF Tracked, Staged
<1> QED BY <1>2, <1>3

-----------------------------------------------------------------------------
(***************************************************************************)
(* The budget.                                                             *)
(***************************************************************************)
LEMMA OfIsFinite == \A u : IsFiniteSet(Of(u)) /\ Of(u) \subseteq Requests
  BY FS_Subset, RedisLedgerAssumption DEF Of

LEMMA LargestLimit ==
    /\ Max(Limits) \in Nat
    /\ \A limit \in Limits : limit <= Max(Limits) /\ limit \in Nat
<1>1. Limits \subseteq Int /\ Limits \subseteq Nat /\ IsFiniteSet(Limits) /\ Limits # {}
  BY RedisLedgerAssumption
<1> QED BY ONLY <1>1, MaxOfFinite

(* What counts beyond the hold is not negative and not more than counts.   *)
LEMMA ExcessBounds ==
    ASSUME TypeOK, \A r \in Requests : Tracked(r)
    PROVE  \A r \in Requests :
              /\ zset[r].amount \in Nat /\ Over[r] \in Nat
              /\ Excess[r] \in Nat /\ Excess[r] <= zset[r].amount
              /\ zset[r].amount = Excess[r] + Over[r]
              /\ Over[r] = IF zset[r].amount > 0 /\ surplus[r] > 0
                           THEN surplus[r] ELSE 0
              /\ bill[r] # "charged" => Excess[r] = zset[r].amount
<1> SUFFICES ASSUME NEW r \in Requests
             PROVE  /\ zset[r].amount \in Nat /\ Over[r] \in Nat
                    /\ Excess[r] \in Nat /\ Excess[r] <= zset[r].amount
                    /\ zset[r].amount = Excess[r] + Over[r]
                    /\ Over[r] = IF zset[r].amount > 0 /\ surplus[r] > 0
                                 THEN surplus[r] ELSE 0
                    /\ bill[r] # "charged" => Excess[r] = zset[r].amount
  OBVIOUS
<1>1. zset[r].amount \in Nat
  BY AmountIsNat DEF TypeOK, Entries
<1>2. surplus[r] \in Int
  BY DEF TypeOK
<1>3. /\ surplus[r] <= zset[r].amount \/ zset[r].amount = 0
      /\ bill[r] # "charged" => surplus[r] = 0
  BY EntryTypes DEF Tracked
<1>4. Over[r] = IF zset[r].amount > 0 /\ surplus[r] > 0 THEN surplus[r] ELSE 0
  BY DEF Over, Present
<1>5. Excess[r] = zset[r].amount - Over[r]
  BY DEF Excess
<1> QED BY <1>1, <1>2, <1>3, <1>4, <1>5

LEMMA ExcessIsNat ==
    TypeOK /\ (\A q \in Requests : Tracked(q)) =>
        \A q \in Requests : Excess[q] \in Nat /\ Excess[q] <= zset[q].amount
  BY ExcessBounds

LEMMA ExcessIsNatAfter ==
    (TypeOK /\ \A q \in Requests : Tracked(q))' =>
        (\A q \in Requests : Excess[q] \in Nat /\ Excess[q] <= zset[q].amount)'
  BY ExcessIsNat, PTL

LEMMA GrantedIsInt ==
    TypeOK /\ (\A q \in Requests : Tracked(q)) =>
        \A v \in Users : Granted(v) \in Int
<1>1. ASSUME TypeOK, \A q \in Requests : Tracked(q), NEW u \in Users
      PROVE  Granted(u) \in Int
  <2>1. \A q \in Of(u) : Excess[q] \in Int
    BY <1>1, ExcessBounds, OfIsFinite
  <2> QED BY <2>1, OfIsFinite, SumIsInt DEF Granted
<1> QED BY <1>1

LEMMA GrantedIsIntAfter ==
    (TypeOK /\ \A q \in Requests : Tracked(q))' =>
        (\A v \in Users : Granted(v) \in Int)'
  BY GrantedIsInt, PTL

(* A step that raises no request's excess keeps what is granted.           *)
LEMMA ExcessFalls ==
    ASSUME TypeOK, \A r \in Requests : Tracked(r),
           TypeOK', \A r \in Requests : Tracked(r)',
           NEW u, \A r \in Of(u) : Excess'[r] <= Excess[r]
    PROVE  Granted(u)' <= Granted(u)
<1>1. IsFiniteSet(Of(u)) /\ Of(u) \subseteq Requests
  BY OfIsFinite
<1>2. \A r \in Of(u) : Excess[r] \in Int
  BY <1>1, ExcessBounds
<1>3. \A r \in Requests : Excess'[r] \in Nat
  BY ExcessIsNatAfter
<1>4. SumFunctionOnSet(Excess', Of(u)) <= SumFunctionOnSet(Excess, Of(u))
  <2> DEFINE f == Excess'
             g == Excess
             S == Of(u)
  <2>1. \A x \in S : f[x] \in Int /\ g[x] \in Int /\ f[x] <= g[x]
    BY <1>1, <1>2, <1>3
  <2> HIDE DEF f, g, S
  <2>2. IsFiniteSet(S)
    BY <1>1 DEF S
  <2>3. SumFunctionOnSet(f, S) <= SumFunctionOnSet(g, S)
    BY <2>1, <2>2, SumMonotonic
  <2> QED BY <2>3 DEF f, g, S
<1>5. Granted(u)' = SumFunctionOnSet(Excess', Of(u))
  BY DEF Granted, Of
<1> QED BY <1>4, <1>5 DEF Granted

(* A script that is not a grant raises no excess.                          *)
LEMMA ScriptExcess ==
    ASSUME TypeOK, \A q \in Requests : Tracked(q),
           TypeOK', \A q \in Requests : Tracked(q)',
           NEW r \in Requests, Ran(r)
    PROVE  /\ \A q \in Requests \ {r} : Excess'[q] <= Excess[q]
           /\ (stage[r] = "reserving" /\ ReserveGrants(r)) \/ Excess'[r] <= Excess[r]
<1>1. \A q \in Requests :
          /\ Excess[q] \in Nat
          /\ Excess'[q] = zset'[q].amount - Over'[q]
          /\ Over'[q] = IF zset'[q].amount > 0 /\ surplus'[q] > 0
                        THEN surplus'[q] ELSE 0
          /\ Excess[q] = zset[q].amount - Over[q]
          /\ Over[q] = IF zset[q].amount > 0 /\ surplus[q] > 0
                       THEN surplus[q] ELSE 0
          /\ zset[q].amount \in Nat
          /\ bill[q] # "charged" => Excess[q] = zset[q].amount
  BY ExcessBounds DEF Excess, Over, Present
<1>2. ASSUME NEW q \in Requests, zset'[q] = Gone PROVE Excess'[q] <= Excess[q]
  BY <1>1, <1>2, EntryTypes
<1>3. ASSUME NEW q \in Requests, zset'[q] = zset[q], surplus'[q] = surplus[q]
      PROVE  Excess'[q] <= Excess[q]
  BY <1>1, <1>3
<1>4. \A q \in Requests \ {r} : Excess'[q] <= Excess[q]
  BY <1>2, <1>3, RanOthers
<1>5. zset \in [Requests -> Entries] /\ surplus \in [Requests -> Int]
  BY DEF TypeOK, Entries
<1>6. CASE UNCHANGED redisVars
  BY <1>3, <1>4, <1>6 DEF redisVars
<1>7. CASE stage[r] = "reserving" /\ (ReserveGrants(r) \/ ReserveDenies(r))
  <2>1. ReserveDenies(r) => /\ zset'[r] \in {zset[r], Gone}
                            /\ surplus'[r] = surplus[r]
    BY <1>5, ScriptEffects DEF OthersKept
  <2> QED BY <1>2, <1>3, <1>4, <1>7, <2>1
<1>8. CASE stage[r] = "settling" /\ SettleRuns(r)
  <2>1. PICK cost \in Costs : /\ zset'[r] = Fresh(r, cost)
                              /\ surplus'[r] = cost - zset[r].amount
    BY <1>5, <1>8, ScriptEffects
  <2>2. zset'[r].amount = cost /\ cost \in Nat
    BY <2>1, EntryTypes, RedisLedgerAssumption
  <2>3. bill[r] # "charged"
    BY <1>8 DEF Tracked
  <2>4. Excess'[r] <= Excess[r]
    BY <1>1, <2>1, <2>2, <2>3
  <2> QED BY <1>4, <2>4
<1>9. CASE stage[r] = "releasing" /\ ReleaseRuns(r)
  <2>1. zset'[r] = Gone
    BY <1>5, <1>9, ScriptEffects
  <2> QED BY <1>2, <1>4, <2>1
<1> QED BY <1>6, <1>7, <1>8, <1>9 DEF Ran

(* A grant leaves no more than its limit.                                  *)
LEMMA GrantFits ==
    ASSUME TypeOK, \A q \in Requests : Tracked(q),
           TypeOK', \A q \in Requests : Tracked(q)',
           NEW r \in Requests, ReserveGrants(r)
    PROVE  Granted(Owner[r])' <= Max(Limits)
<1> DEFINE u == Owner[r]
           S == Of(u)
           f == [q \in Requests |-> Pruned(r)[q].amount]
           g == [q \in Requests |-> zset'[q].amount]
<1>1. IsFiniteSet(S) /\ S \subseteq Requests /\ r \in S
  BY OfIsFinite DEF Of
<1>2. Pruned(r) \in [Requests -> Entries] /\ zset' \in [Requests -> Entries]
  BY PrunedKeeps DEF TypeOK, Entries
<1>3. PICK cost \in Costs, limit \in Limits :
          /\ Sum(Pruned(r), u) + cost <= limit
          /\ zset' = [Pruned(r) EXCEPT ![r] = Fresh(r, cost)]
  BY DEF ReserveGrants, Fits
<1>4. cost \in Nat /\ limit <= Max(Limits) /\ limit \in Nat /\ Max(Limits) \in Nat
  BY RedisLedgerAssumption, LargestLimit
<1>5. \A q \in Requests : f[q] \in Nat /\ g[q] \in Nat
  BY <1>2, AmountIsNat
<1>6. g[r] = cost /\ \A q \in Requests \ {r} : g[q] = f[q]
  BY <1>2, <1>3, EntryTypes
<1>7. Sum(Pruned(r), u) = SumFunctionOnSet(f, S)
  BY DEF Sum
<1>8. Granted(u)' = SumFunctionOnSet(Excess', S)
  BY DEF Granted, Of
<1>9. \A q \in Requests : Excess'[q] \in Nat /\ Excess'[q] <= g[q]
  BY ExcessIsNatAfter
<1> DEFINE e == Excess'
<1>10. \A q \in S : /\ f[q] \in Int /\ g[q] \in Int /\ e[q] \in Int /\ e[q] <= g[q]
                    /\ q # r => g[q] = f[q]
  BY <1>1, <1>5, <1>6, <1>9
<1>11. f[r] \in Nat
  BY <1>5
<1> HIDE DEF S, e, f, g, u
<1>12. SumFunctionOnSet(g, S) = SumFunctionOnSet(f, S) + (g[r] - f[r])
  BY <1>1, <1>10, SumOfChange
<1>13. SumFunctionOnSet(e, S) <= SumFunctionOnSet(g, S)
  BY <1>1, <1>10, SumMonotonic
<1>14. /\ SumFunctionOnSet(e, S) \in Int /\ SumFunctionOnSet(g, S) \in Int
       /\ SumFunctionOnSet(f, S) \in Int
  BY <1>1, <1>10, SumIsInt
<1>15. SumFunctionOnSet(e, S) <= Max(Limits)
  BY <1>3, <1>4, <1>6, <1>7, <1>11, <1>12, <1>13, <1>14
<1> QED BY <1>8, <1>15 DEF e, u

(* The step of a request's own task keeps every user's budget.             *)
LEMMA ActsGranted ==
    ASSUME RedisInv, TypeOK', \A q \in Requests : Tracked(q)',
           NEW r \in Requests, Acts(r), NEW u \in Users
    PROVE  Granted(u)' <= Max(Limits)
<1>1. /\ TypeOK /\ \A q \in Requests : Tracked(q)
      /\ Granted(u) <= Max(Limits) /\ Max(Limits) \in Nat
  BY LargestLimit DEF RedisInv
<1>2. Ran(r)
  BY ActsRan
<1>3. CASE u = Owner[r] /\ stage[r] = "reserving" /\ ReserveGrants(r)
  BY <1>1, <1>3, GrantFits
<1>4. CASE \A q \in Of(u) : Excess'[q] <= Excess[q]
  <2>1. Granted(u)' <= Granted(u)
    BY <1>1, <1>4, ExcessFalls
  <2>2. (\A v \in Users : Granted(v) \in Int)'
    BY GrantedIsIntAfter
  <2>3. Granted(u) \in Int /\ Granted(u)' \in Int
    BY <1>1, <2>2, GrantedIsInt
  <2> QED BY <1>1, <2>1, <2>3
<1>5. \/ u = Owner[r] /\ stage[r] = "reserving" /\ ReserveGrants(r)
      \/ \A q \in Of(u) : Excess'[q] <= Excess[q]
  BY <1>1, <1>2, ScriptExcess DEF Of
<1> QED BY <1>3, <1>4, <1>5

-----------------------------------------------------------------------------
(***************************************************************************)
(* The steps that are nobody's: crashes, restarts and time.                *)
(***************************************************************************)
LEMMA CrashTyped ==
    ASSUME TypeOK, \A q \in Requests : Tracked(q), NEW p \in Replicas, Crash(p)
    PROVE  TypeOK' /\ \A q \in Requests : Tracked(q)'
<1> DEFINE lost == {r \in Requests : Home[r] = p /\ stage[r] \in Running}
<1>1. /\ stage' = [r \in Requests |-> IF r \in lost THEN "crashed" ELSE stage[r]]
      /\ at' = [r \in Requests |-> IF r \in lost THEN "idle" ELSE at[r]]
      /\ faulted' = [r \in Requests |-> faulted[r] \/ r \in lost]
      /\ sha' = [sha EXCEPT ![p] = {}]
      /\ UNCHANGED <<zset, bill, surplus, scripts, closed>>
  BY DEF Crash, redisVars
<1> HIDE DEF lost
<1>2. /\ stage' \in [Requests -> {"new"} \cup Running \cup Ended]
      /\ at' \in [Requests -> {"idle", "load", "evalsha", "eval"}]
      /\ faulted' \in [Requests -> BOOLEAN]
      /\ sha' \in [Replicas -> SUBSET {"reserve", "settle", "release"}]
      /\ \A q \in Requests : at'[q] = "idle" <=> stage'[q] \notin Calling
  <2>1. stage' \in [Requests -> {"new"} \cup Running \cup Ended]
    BY <1>1 DEF TypeOK, Ended
  <2>2. at' \in [Requests -> {"idle", "load", "evalsha", "eval"}]
    BY <1>1 DEF TypeOK
  <2>3. faulted' \in [Requests -> BOOLEAN]
    BY <1>1
  <2>4. sha' \in [Replicas -> SUBSET {"reserve", "settle", "release"}]
    BY <1>1 DEF TypeOK
  <2>5. \A q \in Requests : at'[q] = "idle" <=> stage'[q] \notin Calling
    BY <1>1, CallingIs DEF TypeOK
  <2> QED BY <2>1, <2>2, <2>3, <2>4, <2>5
<1>3. TypeOK'
  BY <1>1, <1>2 DEF TypeOK
<1>4. ASSUME NEW q \in Requests PROVE Tracked(q)'
  <2>1. UNCHANGED <<zset[q], bill[q], surplus[q], closed[q], Gone>>
    BY <1>1 DEF Gone, Spread
  <2>2. Tracked(q) /\ stage[q] \in {"new"} \cup Running \cup Ended
    BY DEF TypeOK
  <2>3. CASE q \in lost
    <3>1. stage'[q] = "crashed" /\ faulted'[q]
      BY <1>1, <2>3
    <3> QED BY <2>1, <2>2, <3>1 DEF Tracked
  <2>4. CASE q \notin lost
    <3>1. stage'[q] = stage[q] /\ (faulted[q] => faulted'[q])
      BY <1>1, <2>4
    <3> QED BY <2>1, <2>2, <3>1 DEF Tracked
  <2> QED BY <2>3, <2>4
<1> QED BY <1>3, <1>4

(* A tick ages the entries that still count for somebody.                  *)
LEMMA TickAges ==
    ASSUME TypeOK, Tick
    PROVE  /\ zset' \in [Requests -> Entries]
           /\ \A q \in Requests :
                 /\ zset'[q].age \in -Ahead[Home[q]]..(Window + Spread)
                 /\ zset'[q].amount = zset[q].amount
                 /\ zset[q] = Gone => zset'[q] = Gone
<1>1. /\ zset \in [Requests -> Entries]
      /\ \A q \in Requests : zset[q].age \in -Ahead[Home[q]]..(Window + Spread)
  BY DEF TypeOK, Entries
<1>2. zset' = [r \in Requests |-> IF zset[r].age >= Window + Spread THEN zset[r]
                                  ELSE [zset[r] EXCEPT !.age = @ + 1]]
  BY DEF Tick
<1>3. ASSUME NEW q \in Requests
      PROVE  /\ zset'[q] \in Entries
             /\ zset'[q].age \in -Ahead[Home[q]]..(Window + Spread)
             /\ zset'[q].amount = zset[q].amount
             /\ zset[q] = Gone => zset'[q] = Gone
  <2>1. /\ zset[q] \in Entries /\ zset[q].age \in Int
        /\ zset[q].age \in -Ahead[Home[q]]..(Window + Spread)
    BY <1>1, AmountIsNat
  <2>2. CASE zset[q].age >= Window + Spread
    BY <1>2, <2>1, <2>2
  <2>3. CASE ~ (zset[q].age >= Window + Spread)
    <3>1. zset'[q] = [zset[q] EXCEPT !.age = zset[q].age + 1]
      BY <1>2, <2>3
    <3>2. /\ zset'[q] \in Entries /\ zset'[q].amount = zset[q].amount
          /\ zset'[q].age = zset[q].age + 1
      BY <2>1, <3>1 DEF Entries
    <3>3. Ahead[Home[q]] \in Nat /\ Window + Spread \in Nat
      BY EntryTypes
    <3>4. zset[q] # Gone
      BY <2>3, <3>3, EntryTypes
    <3> QED BY <2>1, <2>3, <3>2, <3>3, <3>4
  <2> QED BY <2>2, <2>3
<1>4. zset' \in [Requests -> Entries]
  BY <1>2, <1>3
<1> QED BY <1>3, <1>4

LEMMA TickTyped ==
    ASSUME TypeOK, \A q \in Requests : Tracked(q), Tick
    PROVE  TypeOK' /\ \A q \in Requests : Tracked(q)'
<1>1. UNCHANGED <<scripts, sha, stage, at, closed, bill, surplus, faulted>>
  BY DEF Tick
<1>2. TypeOK'
  BY <1>1, TickAges DEF TypeOK, Entries
<1>3. ASSUME NEW q \in Requests PROVE Tracked(q)'
  <2>1. /\ zset'[q].amount = zset[q].amount
        /\ zset[q] = Gone => zset'[q] = Gone
    BY TickAges
  <2>2. Tracked(q) /\ Gone' = Gone
    BY DEF Gone, Spread
  <2> QED BY <1>1, <2>1, <2>2 DEF Tracked
<1> QED BY <1>2, <1>3

-----------------------------------------------------------------------------
(***************************************************************************)
(* The inductive invariant.                                                *)
(***************************************************************************)
LEMMA RedisInit == Init => RedisInv
<1> SUFFICES ASSUME Init PROVE RedisInv
  OBVIOUS
<1>1. \A r \in Requests : zset[r] = Gone /\ Gone \in Entries /\ Gone.amount = 0
  BY EntryTypes DEF Init
<1>2. TypeOK
  <2>1. \A r \in Requests : zset[r].age \in -Ahead[Home[r]]..(Window + Spread)
    BY <1>1, EntryTypes
  <2>2. \A r \in Requests : at[r] = "idle" <=> stage[r] \notin Calling
    BY CallingIs DEF Init
  <2>3. zset \in [Requests -> Entries]
    BY <1>1 DEF Init
  <2> QED BY <2>1, <2>2, <2>3 DEF Init, TypeOK, Entries
<1>3. \A r \in Requests : Tracked(r)
  BY <1>1 DEF Init, Tracked
<1>4. ASSUME NEW u \in Users PROVE Granted(u) <= Max(Limits)
  <2>1. \A r \in Of(u) : Excess[r] = 0
    BY <1>1, <1>2, <1>3, ExcessBounds, OfIsFinite DEF Init
  <2>2. Granted(u) = 0
    BY <2>1, OfIsFinite, SumOfZeros DEF Granted
  <2> QED BY <2>2, LargestLimit
<1> QED BY <1>2, <1>3, <1>4 DEF RedisInv

LEMMA RedisStep == RedisInv /\ [Next]_vars => RedisInv'
<1> SUFFICES ASSUME RedisInv, [Next]_vars PROVE RedisInv'
  OBVIOUS
<1>1. TypeOK /\ \A q \in Requests : Tracked(q)
  BY DEF RedisInv
<1>2. ASSUME TypeOK', \A q \in Requests : Tracked(q)',
             \A q \in Requests : Excess'[q] <= Excess[q]
      PROVE  RedisInv'
  <2>1. ASSUME NEW u \in Users PROVE Granted(u)' <= Max(Limits)
    <3>1. Granted(u)' <= Granted(u)
      BY <1>1, <1>2, OfIsFinite, ExcessFalls
    <3>2. (\A v \in Users : Granted(v) \in Int)'
      BY <1>2, GrantedIsIntAfter
    <3>3. Granted(u) \in Int /\ Granted(u)' \in Int /\ Max(Limits) \in Int
      BY <1>1, <3>2, GrantedIsInt, LargestLimit
    <3>4. Granted(u) <= Max(Limits)
      BY DEF RedisInv
    <3> QED BY <3>1, <3>3, <3>4
  <2> QED BY <1>2, <2>1 DEF RedisInv
<1>3. ASSUME NEW r \in Requests, Acts(r) PROVE RedisInv'
  <2>1. TypeOK' /\ \A q \in Requests : Tracked(q)'
    BY <1>1, <1>3, ActsTyped, ActsTracked
  <2> QED BY <1>3, <2>1, ActsGranted DEF RedisInv
<1>4. ASSUME UNCHANGED <<zset, surplus>>
      PROVE  \A q \in Requests : Excess'[q] <= Excess[q]
  BY <1>1, <1>4, ExcessBounds DEF Excess, Over, Present
<1>5. ASSUME NEW p \in Replicas, Crash(p) PROVE RedisInv'
  BY <1>1, <1>2, <1>4, <1>5, CrashTyped DEF Crash, redisVars
<1>6. CASE Restart
  <2>1. UNCHANGED <<zset, bill, surplus, sha, stage, at, closed, faulted>> /\ scripts' = {}
    BY <1>6 DEF Restart, redisVars
  <2>2. TypeOK'
    BY <1>1, <2>1 DEF TypeOK
  <2>3. \A q \in Requests : Tracked(q)'
    BY <1>1, <2>1 DEF Tracked, Gone, Spread
  <2> QED BY <1>2, <1>4, <2>1, <2>2, <2>3
<1>7. CASE Tick
  <2>1. TypeOK' /\ \A q \in Requests : Tracked(q)'
    BY <1>1, <1>7, TickTyped
  <2>2. \A q \in Requests : Excess'[q] = Excess[q] /\ Excess[q] \in Nat
    <3>1. \A q \in Requests : zset'[q].amount = zset[q].amount
      BY <1>1, <1>7, TickAges
    <3>2. surplus' = surplus
      BY <1>7 DEF Tick
    <3> QED BY <1>1, <3>1, <3>2, ExcessBounds DEF Excess, Over, Present
  <2>3. \A q \in Requests : Excess'[q] <= Excess[q]
    BY <2>2
  <2> QED BY <1>2, <2>1, <2>3
<1>8. CASE UNCHANGED vars
  <2>1. UNCHANGED <<zset, scripts, sha, stage, at, closed, bill, surplus, faulted>>
    BY <1>8 DEF vars
  <2>2. TypeOK'
    BY <1>1, <2>1 DEF TypeOK
  <2>3. \A q \in Requests : Tracked(q)'
    BY <1>1, <2>1 DEF Tracked, Gone, Spread
  <2> QED BY <1>2, <1>4, <2>1, <2>2, <2>3
<1> QED BY <1>3, <1>5, <1>6, <1>7, <1>8 DEF Next, Acts

LEMMA RedisInvariant == Spec => []RedisInv
  BY RedisInit, RedisStep, PTL DEF Spec

-----------------------------------------------------------------------------
(***************************************************************************)
(* The theorems.                                                           *)
(***************************************************************************)

(* The types hold, and a hold that outlives its request had a failed call  *)
(* or a crashed replica under it (redis_ledger.py:164-180, 260-274).       *)
THEOREM RedisHoldsAreOwned == Spec => []HoldsAreOwned
<1>1. RedisInv => HoldsAreOwned
  BY DEF RedisInv, HoldsAreOwned, Tracked
<1> QED BY <1>1, RedisInvariant, PTL

(* Nobody is turned away as unmeterable, and no answer is lost, because    *)
(* Redis restarted (redis_ledger.py:167-168, 176-179).                     *)
THEOREM RedisRestartInvisible == Spec => []RestartInvisible
<1>1. RedisInv => RestartInvisible
  BY DEF RedisInv, RestartInvisible, Tracked
<1> QED BY <1>1, RedisInvariant, PTL

(* The budget is global across the fleet: whatever fails, what counts      *)
(* against a user exceeds the largest limit by no more than completed      *)
(* requests cost beyond their holds (redis_ledger.py:3-11).                *)
THEOREM RedisBudgetHeld == Spec => []BudgetHeld
<1>1. RedisInv => BudgetHeld
  <2> SUFFICES ASSUME RedisInv, NEW u \in Users
               PROVE  Sum(zset, u) <= Max(Limits) + Overrun(u)
    BY DEF BudgetHeld
  <2> DEFINE f == Excess
             g == Over
             h == [q \in Requests |-> zset[q].amount]
             S == Of(u)
  <2>1. TypeOK /\ (\A q \in Requests : Tracked(q)) /\ Granted(u) <= Max(Limits)
    BY DEF RedisInv
  <2>2. \A x \in S : f[x] \in Int /\ g[x] \in Int /\ h[x] = f[x] + g[x]
    BY <2>1, OfIsFinite, ExcessBounds
  <2>3. IsFiniteSet(S)
    BY OfIsFinite
  <2>4. /\ Granted(u) = SumFunctionOnSet(f, S) /\ Overrun(u) = SumFunctionOnSet(g, S)
        /\ Sum(zset, u) = SumFunctionOnSet(h, S)
    BY DEF Granted, Overrun, Sum
  <2> HIDE DEF f, g, h, S
  <2>5. SumFunctionOnSet(h, S) = SumFunctionOnSet(f, S) + SumFunctionOnSet(g, S)
    BY <2>2, <2>3, SumOfSum
  <2>6. SumFunctionOnSet(f, S) \in Int /\ SumFunctionOnSet(g, S) \in Int
    BY <2>2, <2>3, SumIsInt
  <2> QED BY <2>1, <2>4, <2>5, <2>6, LargestLimit
<1> QED BY <1>1, RedisInvariant, PTL

(* An entry goes when its request releases it or its window is over, and a *)
(* charge starts a window of its own.                                      *)
LastsWindow(q) ==
    /\ (Present(q) /\ zset'[q] = Gone) =>
           \/ bill'[q] = "refunded" /\ bill[q] = "held"
           \/ zset[q].age + Ahead[Home[q]] >= Window - Spread
    /\ (bill[q] # "charged" /\ bill'[q] = "charged") => zset'[q].age = -Ahead[Home[q]]

(* What a replica prunes has been there for the window, less the spread of *)
(* the clocks.                                                             *)
LEMMA PrunedIsOld ==
    ASSUME TypeOK, NEW r \in Requests, NEW q \in Requests, Present(q),
           Pruned(r)[q] = Gone
    PROVE  zset[q].age + Ahead[Home[q]] >= Window - Spread
<1>1. zset[q].amount > 0 /\ Gone.amount = 0
  BY EntryTypes DEF Present
<1>2. zset[q].age + Ahead[Home[r]] >= Window
  BY <1>1 DEF Pruned
<1>3. Ahead[Home[r]] - Ahead[Home[q]] <= Spread
  BY SpreadBounds, RedisLedgerAssumption
<1>4. /\ zset[q].age \in Int /\ Window \in Nat /\ Spread \in Nat
      /\ Ahead[Home[r]] \in Nat /\ Ahead[Home[q]] \in Nat
  BY AmountIsNat, EntryTypes, SpreadBounds, RedisLedgerAssumption DEF TypeOK, Entries
<1> QED BY <1>2, <1>3, <1>4

LEMMA RanLasts ==
    ASSUME TypeOK, \A q \in Requests : Tracked(q), NEW r \in Requests, Ran(r)
    PROVE  \A q \in Requests : LastsWindow(q)
<1>1. /\ zset \in [Requests -> Entries] /\ surplus \in [Requests -> Int]
      /\ bill \in [Requests -> {"none", "held", "charged", "refunded"}]
      /\ \A q \in Requests : zset[q].age \in -Ahead[Home[q]]..(Window + Spread)
  BY DEF TypeOK, Entries
<1>2. \A q \in Requests : Present(q) => zset[q] # Gone
  <2>1. Gone.amount = 0
    BY EntryTypes
  <2> QED BY <2>1 DEF Present
<1>3. ASSUME NEW q \in Requests, zset'[q] = zset[q], bill'[q] = bill[q]
      PROVE  LastsWindow(q)
  BY <1>2, <1>3 DEF LastsWindow
<1>4. CASE UNCHANGED redisVars
  BY <1>3, <1>4 DEF redisVars
<1>5. CASE stage[r] = "reserving" /\ ReserveGrants(r)
  <2>1. ~ Present(r) /\ bill'[r] = "held"
    <3>1. zset[r] = Gone
      BY <1>5 DEF Tracked
    <3> QED BY <1>1, <1>2, <1>5, <3>1, ScriptEffects
  <2>2. \A q \in Requests \ {r} : bill'[q] = bill[q] /\ zset'[q] = Pruned(r)[q]
    <3>1. bill' = [bill EXCEPT ![r] = "held"]
      BY <1>1, <1>5, ScriptEffects
    <3>2. PICK cost \in Costs : zset' = [Pruned(r) EXCEPT ![r] = Fresh(r, cost)]
      BY <1>5 DEF ReserveGrants
    <3>3. Pruned(r) \in [Requests -> Entries]
      BY <1>1, PrunedKeeps
    <3> QED BY <1>1, <3>1, <3>2, <3>3
  <2>3. \A q \in Requests \ {r} : LastsWindow(q)
    BY <2>2, PrunedIsOld DEF LastsWindow
  <2>4. LastsWindow(r)
    BY <2>1 DEF LastsWindow
  <2> QED BY <2>3, <2>4
<1>6. CASE ReserveDenies(r)
  <2>1. zset' = Pruned(r) /\ bill' = bill
    BY <1>6 DEF ReserveDenies
  <2> QED BY <2>1, PrunedIsOld DEF LastsWindow
<1>7. CASE SettleRuns(r)
  <2>1. PICK cost \in Costs : /\ zset' = [zset EXCEPT ![r] = Fresh(r, cost)]
                              /\ bill' = [bill EXCEPT ![r] = "charged"]
    BY <1>1, <1>7, ScriptEffects
  <2>2. zset'[r].age = -Ahead[Home[r]] /\ zset'[r] = Fresh(r, cost)
    BY <1>1, <2>1, EntryTypes
  <2>3. zset'[r] = Gone => zset[r].age + Ahead[Home[r]] >= Window - Spread
    <3>1. zset[r].age \in Int /\ zset[r].age >= -Ahead[Home[r]]
      BY <1>1, EntryTypes
    <3>2. zset'[r] = Gone => -Ahead[Home[r]] = Window + Spread
      BY <2>2, EntryTypes
    <3>3. Ahead[Home[r]] \in Nat /\ Window \in Nat /\ Spread \in Nat
      BY EntryTypes, SpreadBounds, RedisLedgerAssumption
    <3> QED BY <3>1, <3>2, <3>3
  <2>4. LastsWindow(r)
    BY <2>2, <2>3 DEF LastsWindow
  <2> QED BY <1>1, <1>3, <2>1, <2>4
<1>8. CASE stage[r] = "releasing" /\ ReleaseRuns(r)
  <2>1. /\ zset' = [zset EXCEPT ![r] = Gone]
        /\ bill' = [bill EXCEPT ![r] = IF @ = "none" THEN @ ELSE "refunded"]
    BY <1>8 DEF ReleaseRuns
  <2>2. bill[r] \in {"none", "held"} /\ (bill[r] = "none" => zset[r] = Gone)
    BY <1>8 DEF Tracked
  <2>3. LastsWindow(r)
    <3>1. bill'[r] = IF bill[r] = "none" THEN "none" ELSE "refunded"
      BY <1>1, <2>1
    <3> QED BY <1>2, <2>2, <3>1 DEF LastsWindow
  <2> QED BY <1>1, <1>3, <2>1, <2>3
<1> QED BY <1>4, <1>5, <1>6, <1>7, <1>8 DEF Ran

(* Redis drops an entry only when its request releases it, or when its     *)
(* window, less the disagreement of the clocks, is over; and a charge      *)
(* starts a window of its own (redis_ledger.py:53, 85-97).                 *)
THEOREM RedisEntriesLastWindow == Spec => EntriesLastWindow
<1> DEFINE Lasts == \A r \in Requests :
                /\ (Present(r) /\ zset'[r] = Gone) =>
                       \/ bill'[r] = "refunded" /\ bill[r] = "held"
                       \/ zset[r].age + Ahead[Home[r]] >= Window - Spread
                /\ (bill[r] # "charged" /\ bill'[r] = "charged") =>
                       zset'[r].age = -Ahead[Home[r]]
<1>1. ASSUME RedisInv, Next PROVE Lasts
  <2>1. TypeOK /\ \A q \in Requests : Tracked(q)
    BY <1>1 DEF RedisInv
  <2>2. CASE \E r \in Requests : Acts(r)
    <3>1. PICK r \in Requests : Ran(r)
      BY <2>2, ActsRan
    <3> QED BY <2>1, <3>1, RanLasts DEF LastsWindow
  <2>3. CASE (\E p \in Replicas : Crash(p)) \/ Restart
    <3>1. zset' = zset /\ bill' = bill
      BY <2>3 DEF Crash, Restart, redisVars
    <3>2. Gone.amount = 0
      BY EntryTypes
    <3> QED BY <3>1, <3>2 DEF Present
  <2>4. CASE Tick
    <3>1. bill' = bill
      BY <2>4 DEF Tick
    <3>2. \A r \in Requests : Present(r) => zset'[r] # Gone
      BY <2>1, <2>4, TickAges, EntryTypes DEF Present
    <3> QED BY <3>1, <3>2
  <2> QED BY <1>1, <2>2, <2>3, <2>4 DEF Next, Acts
<1>2. RedisInv /\ [Next]_vars => [Lasts]_vars
  BY <1>1
<1> QED BY <1>2, RedisInvariant, PTL DEF Spec, EntriesLastWindow

(* A replica that fails closed holds, charges and refunds its requests as  *)
(* Billing has it: each script moves the bill of its own request by one    *)
(* step of Billing, or leaves it (redis_ledger.py:241-246).                *)
THEOREM RedisBillsOnce == Spec => BillsOnce
<1> DEFINE b == [r \in Metered |-> bill[r]]
<1>1. Init => Bill!Init
  BY DEF Init, Bill!Init, Metered
<1>2. ASSUME RedisInv, Next PROVE [Bill!Next]_b
  <2>1. TypeOK /\ \A q \in Requests : Tracked(q)
    BY <1>2 DEF RedisInv
  <2>2. CASE bill' = bill
    BY <2>2
  <2>3. CASE \E r \in Requests : Acts(r)
    <3>1. PICK r \in Requests : Ran(r)
      BY <2>3, ActsRan
    <3>2. bill' \in [Requests -> {"none", "held", "charged", "refunded"}]
      BY <2>1, <3>1, RedisTyped
    <3>3. \A q \in Requests \ {r} : bill'[q] = bill[q]
      BY <2>1, <3>1, RanOthers
    <3>4. CASE r \in Metered
      <4>1. \/ bill'[r] = bill[r]
            \/ bill[r] = "none" /\ bill'[r] = "held"
            \/ bill[r] = "held" /\ bill'[r] \in {"charged", "refunded"}
        <5>1. /\ stage[r] = "reserving" => bill[r] = "none"
              /\ stage[r] \in {"settling", "releasing"} => bill[r] = "held"
          BY <2>1, <3>4 DEF Tracked, Metered
        <5> QED BY <2>1, <3>1, <5>1, ScriptTracked
      <4>2. \A v : b' = [b EXCEPT ![r] = v] <=> v = bill'[r]
        BY <3>3, <3>4 DEF Metered
      <4>3. b[r] = bill[r]
        BY <3>4
      <4>4. CASE bill'[r] = bill[r]
        <5>1. b' = b
          BY <3>3, <4>4 DEF Metered
        <5> QED BY <5>1
      <4> HIDE DEF b
      <4>5. CASE bill'[r] # bill[r]
        <5>1. \/ b[r] = "none" /\ b' = [b EXCEPT ![r] = "held"]
              \/ b[r] = "held" /\ b' = [b EXCEPT ![r] = "charged"]
              \/ b[r] = "held" /\ b' = [b EXCEPT ![r] = "refunded"]
          BY <4>1, <4>2, <4>3, <4>5
        <5> QED BY <3>4, <5>1
                DEF b, Bill!Next, Bill!Hold, Bill!Charge, Bill!Refund, Bill!Move
      <4> QED BY <4>4, <4>5
    <3>5. CASE r \notin Metered
      <4>1. b' = b
        BY <3>3, <3>5 DEF Metered
      <4> QED BY <4>1
    <3> QED BY <3>4, <3>5
  <2>4. CASE (\E p \in Replicas : Crash(p)) \/ Restart \/ Tick
    BY <2>2, <2>4 DEF Crash, Restart, Tick, redisVars
  <2> QED BY <1>2, <2>3, <2>4 DEF Next, Acts
<1>3. UNCHANGED vars => UNCHANGED b
  BY DEF vars
<1>4. RedisInv /\ [Next]_vars => [Bill!Next]_b
  BY <1>2, <1>3
<1> QED BY <1>1, <1>4, RedisInvariant, PTL DEF Spec, BillsOnce, Bill!Spec
=============================================================================
