-------------------------- MODULE AutoscalerProofs --------------------------
(***************************************************************************)
(* The autoscaler's loop around the gate, for any number of tasks, any     *)
(* range of replicas, any target, however its products and quotients       *)
(* round, and any cooldowns.                                               *)
(*                                                                         *)
(* The loop implements the gate's specification, so what GateProofs shows  *)
(* of the gate holds in it.  That scaling down leaves room for the load,   *)
(* but for one slot at the replica counts whose product rounds to below a  *)
(* whole number, rests on a quotient rounded up and a product rounded down.*)
(***************************************************************************)
EXTENDS Autoscaler, GateProofs

-----------------------------------------------------------------------------
(***************************************************************************)
(* The arithmetic.                                                         *)
(***************************************************************************)
LEMMA Division ==
    ASSUME NEW a \in Nat, NEW b \in Nat \ {0}
    PROVE  /\ a \div b \in Nat
           /\ b * (a \div b) <= a
           /\ a < b * (a \div b) + b
  OBVIOUS

LEMMA Products ==
    \A a, b \in Nat : a * b \in Nat
  OBVIOUS

(* A factor may be taken out of an inequality.                             *)
LEMMA Cancelled ==
    ASSUME NEW a \in Nat, NEW b \in Nat, NEW d \in Nat \ {0}, d * a < d * b + d
    PROVE  a <= b
<1>1. ASSUME a >= b + 1 PROVE FALSE
  <2>1. d * a >= d * (b + 1)
    BY <1>1
  <2>2. d * (b + 1) = d * b + d
    OBVIOUS
  <2> QED BY <2>1, <2>2
<1> QED BY <1>1

LEMMA NeededCovers ==
    ASSUME NEW load \in Nat
    PROVE  Needed(load) \in Nat /\ Needed(load) * TargetNum >= load * TargetDen
<1> DEFINE a == load * TargetDen + TargetNum - 1
           n == a \div TargetNum
<1>1. TargetNum \in Nat \ {0} /\ TargetDen \in Nat \ {0}
  BY AutoscalerAssumption
<1>2. load * TargetDen \in Nat
  BY <1>1, Products
<1>3. a \in Nat
  BY <1>1, <1>2
<1>4. n \in Nat /\ a < TargetNum * n + TargetNum
  <2> HIDE DEF a
  <2> QED BY <1>1, <1>3, Division
<1>5. TargetNum * n \in Nat /\ TargetNum * n = n * TargetNum
  <2> HIDE DEF n
  <2> QED BY <1>1, <1>4, Products
<1>6. n * TargetNum >= load * TargetDen
  <2> HIDE DEF n
  <2> DEFINE x == load * TargetDen
             y == TargetNum * n
  <2>1. a = x + TargetNum - 1 /\ x \in Nat /\ y \in Nat
    BY <1>2, <1>5
  <2>2. a < y + TargetNum
    BY <1>4
  <2>3. y = n * TargetNum
    BY <1>5
  <2> HIDE DEF a, x, y
  <2>4. y >= x
    BY <1>1, <2>1, <2>2
  <2> QED BY <2>3, <2>4 DEF x
<1>7. Needed(load) \in {n, n + 1}
  <2> HIDE DEF n
  <2> QED BY <1>4 DEF Needed, n, a
<1>8. ASSUME Needed(load) = n + 1 PROVE Needed(load) * TargetNum >= n * TargetNum
  <2> HIDE DEF n
  <2>1. (n + 1) * TargetNum = n * TargetNum + TargetNum
    BY <1>1, <1>4
  <2> QED BY <1>1, <1>4, <1>5, <1>8, <2>1
<1> HIDE DEF n, a
<1>9. n * TargetNum \in Nat /\ (n + 1) * TargetNum \in Nat
  BY <1>1, <1>4, Products
<1> QED BY <1>2, <1>4, <1>6, <1>7, <1>8, <1>9

(* Enough replicas have the capacity for the load they were chosen for,    *)
(* but for the slot that rounding may take.                                *)
LEMMA CapacityCovers ==
    ASSUME NEW load \in Nat, NEW n \in Nat, n >= Needed(load)
    PROVE  /\ CapacityFor(n) \in Nat \ {0} /\ Lost(n) \in {0, 1}
           /\ CapacityFor(n) + Lost(n) >= load
<1>1. TargetNum \in Nat \ {0} /\ TargetDen \in Nat \ {0}
  BY AutoscalerAssumption
<1>2. Needed(load) \in Nat /\ Needed(load) * TargetNum >= load * TargetDen
  BY NeededCovers
<1> DEFINE m == Needed(load)
           x == n * TargetNum
           y == load * TargetDen
           c == x \div TargetDen
<1>3. x \in Nat /\ y \in Nat /\ m * TargetNum \in Nat
  BY <1>1, <1>2, Products
<1>4. x >= m * TargetNum
  <2> HIDE DEF m
  <2> QED BY <1>1, <1>2 DEF m
<1>5. x >= y
  <2> HIDE DEF x, y
  <2> QED BY <1>2, <1>3, <1>4 DEF y
<1>6. c \in Nat /\ x < TargetDen * c + TargetDen
  <2> HIDE DEF x
  <2> QED BY <1>1, <1>3, Division
<1>7. TargetDen * load < TargetDen * c + TargetDen
  <2>1. y = TargetDen * load
    BY <1>1
  <2>2. TargetDen * c \in Nat
    <3> HIDE DEF c
    <3> QED BY <1>1, <1>6, Products
  <2> HIDE DEF c, x, y
  <2> QED BY <1>1, <1>3, <1>5, <1>6, <2>1, <2>2
<1>8. load <= c
  <2> HIDE DEF c
  <2> QED BY <1>1, <1>6, <1>7, Cancelled
<1>9. /\ CapacityFor(n) = IF 1 > c - Lost(n) THEN 1 ELSE c - Lost(n)
      /\ Lost(n) \in {0, 1}
  BY DEF CapacityFor, Greatest, Lost
<1> HIDE DEF c
<1> QED BY <1>6, <1>8, <1>9

LEMMA CapacityIsPositive == \A n \in Nat : CapacityFor(n) \in Nat \ {0}
<1> SUFFICES ASSUME NEW n \in Nat PROVE CapacityFor(n) \in Nat \ {0}
  OBVIOUS
<1> DEFINE c == (n * TargetNum) \div TargetDen
<1>1. TargetNum \in Nat \ {0} /\ TargetDen \in Nat \ {0}
  BY AutoscalerAssumption
<1>2. n * TargetNum \in Nat
  BY <1>1, Products
<1>3. c \in Nat
  BY <1>1, <1>2, Division
<1>4. /\ CapacityFor(n) = IF 1 > c - Lost(n) THEN 1 ELSE c - Lost(n)
      /\ Lost(n) \in {0, 1}
  BY DEF CapacityFor, Greatest, Lost
<1> HIDE DEF c
<1> QED BY <1>3, <1>4

-----------------------------------------------------------------------------
(***************************************************************************)
(* The decision.                                                           *)
(***************************************************************************)
Ceiling == Greatest(MinReplicas, MaxReplicas)

(* The target is in range, and short of the ceiling it covers the load.    *)
LEMMA RawDesiredIs ==
    ASSUME NEW load \in Nat
    PROVE  /\ RawDesired(load) \in MinReplicas..Ceiling
           /\ RawDesired(load) < Ceiling => RawDesired(load) >= Needed(load)
<1>1. MinReplicas \in Nat /\ MaxReplicas \in Nat /\ Needed(load) \in Nat
  BY AutoscalerAssumption, NeededCovers
<1> QED BY <1>1 DEF RawDesired, Ceiling, Greatest, Least

LEMMA LoadIsNat == GateInv => Load \in Nat
  BY DEF GateInv, TypeOK, Load

LEMMA DecidedIs ==
    ASSUME GateInv, CapacityFollowsReplicas
    PROVE  Decided = RawDesired(Load) \/ Decided = replicas
  BY DEF Decided

-----------------------------------------------------------------------------
(***************************************************************************)
(* The loop is a gate.                                                     *)
(***************************************************************************)
LoopInv == GateInv /\ CapacityFollowsReplicas

LEMMA TickResizes ==
    ASSUME LoopInv, Tick
    PROVE  /\ \E c \in Capacities : Resize(c)
           /\ replicas' = Decided /\ Decided # replicas
           /\ Decided = RawDesired(Load)
           /\ capacity' = CapacityFor(Decided)
           /\ active' = active /\ waiting' = waiting
           /\ upAge' \in {0, upAge} /\ downAge' \in {0, downAge}
<1>1. /\ Decided # replicas /\ replicas' = Decided /\ Resize(CapacityFor(Decided))
      /\ upAge' \in {0, upAge} /\ downAge' \in {0, downAge}
  BY DEF Tick, Apply
<1>2. Decided = RawDesired(Load)
  BY <1>1, DecidedIs DEF LoopInv
<1>3. Decided \in MinReplicas..Ceiling /\ Decided \in Nat
  <2>1. Load \in Nat
    BY LoadIsNat DEF LoopInv
  <2>2. MinReplicas \in Nat
    BY AutoscalerAssumption
  <2> QED BY <1>2, <2>1, <2>2, RawDesiredIs
<1>4. CapacityFor(Decided) \in Capacities /\ CapacityFor(Decided) \in Nat \ {0}
  BY <1>3, CapacityIsPositive, ResizesAssumption DEF Ceiling
<1>5. \E c \in Capacities : Resize(c)
  BY <1>1, <1>4
<1>6. capacity' = CapacityFor(Decided) /\ active' = active /\ waiting' = waiting
  BY <1>1, <1>4 DEF Resize, AtLeastOne
<1> QED BY <1>1, <1>2, <1>5, <1>6

LEMMA LoopStepIsGateStep == LoopInv /\ [LoopNext]_loopVars => [Next]_vars
<1> SUFFICES ASSUME LoopInv, [LoopNext]_loopVars PROVE [Next]_vars
  OBVIOUS
<1>1. CASE Requests
  BY <1>1 DEF Requests, Next
<1>2. CASE Tick
  BY <1>2, TickResizes DEF Next
<1>3. CASE Clock \/ UNCHANGED loopVars
  BY <1>3 DEF Clock, loopVars
<1> QED BY <1>1, <1>2, <1>3 DEF LoopNext

LEMMA LoopInitial == LoopInit => LoopInv
<1> SUFFICES ASSUME LoopInit PROVE LoopInv
  OBVIOUS
<1>1. MinReplicas \in MinReplicas..Greatest(MinReplicas, MaxReplicas)
  BY AutoscalerAssumption DEF Greatest
<1> QED BY <1>1, GateInvInit DEF LoopInit, LoopInv, CapacityFollowsReplicas

LEMMA LoopStep == LoopInv /\ [LoopNext]_loopVars => LoopInv'
<1> SUFFICES ASSUME LoopInv, [LoopNext]_loopVars PROVE LoopInv'
  OBVIOUS
<1>1. GateInv'
  BY LoopStepIsGateStep, GateInvStep DEF LoopInv
<1>2. CapacityFollowsReplicas'
  <2>1. /\ capacity = CapacityFor(replicas)
        /\ replicas \in MinReplicas..Ceiling
        /\ upAge \in 0..UpCooldown /\ downAge \in 0..DownCooldown
        /\ UpCooldown \in Nat /\ DownCooldown \in Nat
    BY AutoscalerAssumption DEF LoopInv, CapacityFollowsReplicas, Ceiling
  <2>2. CASE Requests
    <3>1. capacity' = capacity /\ UNCHANGED <<replicas, upAge, downAge>>
      BY <2>2 DEF Requests, scaleVars, AcquireFast, Park, Resume, Cancel, Unwind, Release, Free
    <3> QED BY <2>1, <3>1 DEF CapacityFollowsReplicas, Ceiling
  <2>3. CASE Tick
    <3>1. Load \in Nat
      BY LoadIsNat DEF LoopInv
    <3>2. /\ capacity' = CapacityFor(replicas') /\ replicas' = RawDesired(Load)
          /\ upAge' \in {0, upAge} /\ downAge' \in {0, downAge}
      BY <2>3, TickResizes
    <3>3. replicas' \in MinReplicas..Ceiling
      BY <3>1, <3>2, RawDesiredIs
    <3>4. upAge' \in 0..UpCooldown /\ downAge' \in 0..DownCooldown
      BY <2>1, <3>2
    <3> QED BY <3>2, <3>3, <3>4 DEF CapacityFollowsReplicas, Ceiling
  <2>4. CASE Clock
    <3>1. /\ capacity' = capacity /\ replicas' = replicas
          /\ upAge' = Least(upAge + 1, UpCooldown)
          /\ downAge' = Least(downAge + 1, DownCooldown)
      BY <2>4 DEF Clock, vars
    <3>2. upAge' \in 0..UpCooldown /\ downAge' \in 0..DownCooldown
      BY <2>1, <3>1 DEF Least
    <3> QED BY <2>1, <3>1, <3>2 DEF CapacityFollowsReplicas, Ceiling
  <2>5. CASE UNCHANGED loopVars
    BY <2>1, <2>5 DEF loopVars, vars, scaleVars, CapacityFollowsReplicas, Ceiling
  <2> QED BY <2>2, <2>3, <2>4, <2>5 DEF LoopNext
<1> QED BY <1>1, <1>2 DEF LoopInv

LEMMA LoopInvariant == LoopSpec => []LoopInv
  BY LoopInitial, LoopStep, PTL DEF LoopSpec

(* A tick only resizes the gate, to capacities it may have.                *)
LEMMA LoopImplementsGate == LoopSpec => Spec
<1>1. LoopInit => Init
  BY DEF LoopInit
<1> QED BY <1>1, LoopStepIsGateStep, LoopInvariant, PTL DEF LoopSpec, Spec

-----------------------------------------------------------------------------
(***************************************************************************)
(* The theorems.                                                           *)
(***************************************************************************)

(* The gate always has the capacity of the current replica count, which    *)
(* stays within its range (service.py:642-646).                            *)
THEOREM AutoscalerCapacityFollowsReplicas == LoopSpec => []CapacityFollowsReplicas
<1>1. LoopInv => CapacityFollowsReplicas
  BY DEF LoopInv
<1> QED BY <1>1, LoopInvariant, PTL

(* Scaling down takes at most the slot that a product rounded to below a   *)
(* whole number costs from requests that are there, and none at other      *)
(* replica counts: the replicas are rounded up and their capacity down,    *)
(* and neither the floor nor the ceiling comes between                     *)
(* (autoscaler.py:59-63, service.py:144-145).                              *)
THEOREM AutoscalerScaleDownFitsLoad == LoopSpec => ScaleDownFitsLoad
<1>1. ASSUME LoopInv, LoopNext, replicas' < replicas
      PROVE  active' + waiting' <= capacity' + Lost(replicas')
  <2>1. CASE Tick
    <3>1. Load \in Nat /\ MinReplicas \in Nat
      BY <1>1, LoadIsNat, AutoscalerAssumption DEF LoopInv
    <3>2. /\ replicas' = RawDesired(Load) /\ capacity' = CapacityFor(replicas')
          /\ active' + waiting' = Load
      BY <1>1, <2>1, TickResizes DEF Load
    <3>3. replicas \in MinReplicas..Ceiling
      BY <1>1 DEF LoopInv, CapacityFollowsReplicas, Ceiling
    <3>4. Ceiling \in Nat
      BY AutoscalerAssumption DEF Ceiling, Greatest
    <3>5. replicas' \in Nat /\ replicas' >= Needed(Load)
      BY <1>1, <3>1, <3>2, <3>3, <3>4, RawDesiredIs
    <3> QED BY <3>1, <3>2, <3>5, CapacityCovers
  <2>2. CASE Requests \/ Clock
    <3>1. replicas' = replicas /\ replicas \in Int
      BY <1>1, <2>2, AutoscalerAssumption
         DEF Requests, Clock, scaleVars, LoopInv, CapacityFollowsReplicas, Greatest
    <3> QED BY <1>1, <3>1
  <2> QED BY <1>1, <2>1, <2>2 DEF LoopNext
<1>2. LoopInv /\ [LoopNext]_loopVars =>
          [replicas' < replicas =>
               active' + waiting' <= capacity' + Lost(replicas')]_loopVars
  BY <1>1
<1> QED BY <1>2, LoopInvariant, PTL DEF LoopSpec, ScaleDownFitsLoad

(* So the gate's accounting, its wake-ups and its admissions are what they *)
(* are without the autoscaler, whatever it decides (gate.py:39-63).        *)
THEOREM AutoscalerGateAccounting == LoopSpec => []GateInv
  BY LoopImplementsGate, GateInvariant

(* A resize wakes enough of the queue, and no tick loses a wake-up, on a   *)
(* condition variable that passes a cancelled one on (gate.py:56-63).      *)
THEOREM AutoscalerNoLostWakeup == RenotifyOnCancel => (LoopSpec => []NoLostWakeup)
  BY LoopImplementsGate, GateNoLostWakeup

(* No request gets a slot beyond the capacity of the replicas there are    *)
(* (service.py:642-646, gate.py:41-46).                                    *)
THEOREM AutoscalerNeverOverAdmits == LoopSpec => NeverOverAdmits
  BY LoopImplementsGate, GateNeverOverAdmits
=============================================================================
