----------------------------- MODULE Autoscaler -----------------------------
(***************************************************************************)
(* The autoscaler (app/autoscaler.py) closed over the gate it resizes      *)
(* (service.py:637-655): each tick reads the load off the gate, decides on *)
(* a replica count and resizes the gate to match.  A tick does not suspend *)
(* between reading the load and resizing, so it is one step; requests      *)
(* enter, queue, time out and leave the gate between ticks.                *)
(*                                                                         *)
(* The two cooldown stamps are kept as ages, counted up to the cooldown.   *)
(* They start at 0.0 on a monotonic clock whose zero is arbitrary, so the  *)
(* initial ages are arbitrary too.                                         *)
(*                                                                         *)
(* The target is a float, and both its uses round.  TargetNum / TargetDen  *)
(* is the fraction it stands for, and what a rounding error does is given  *)
(* by two sets: a quotient or product of the fraction that is whole may    *)
(* come out just above it, or just below.  With any other the error does   *)
(* not reach a whole number, as long as the numbers are far below 2^50.    *)
(***************************************************************************)
EXTENDS Gate

CONSTANTS
    MinReplicas, MaxReplicas,
    TargetNum, TargetDen,     \* target_concurrency_per_replica, as a fraction
    RoundedUp,    \* the loads whose quotient load / target is whole in the
                  \* fraction, but comes out above that
    RoundedDown,  \* the replica counts whose product replicas * target is
                  \* whole in the fraction, but comes out below that
    UpCooldown, DownCooldown

ASSUME AutoscalerAssumption ==
    /\ MinReplicas \in Nat /\ MaxReplicas \in Nat
    /\ TargetNum \in Nat \ {0} /\ TargetDen \in Nat \ {0}
    /\ UpCooldown \in Nat /\ DownCooldown \in Nat
    /\ \A load \in RoundedUp : /\ load \in Nat \ {0}
                               /\ (load * TargetDen) % TargetNum = 0
    /\ \A n \in RoundedDown : /\ n \in Nat \ {0}
                              /\ (n * TargetNum) % TargetDen = 0

VARIABLES
    replicas,   \* _current
    upAge,      \* time since _last_scale_up
    downAge     \* time since _last_scale_down

scaleVars == <<replicas, upAge, downAge>>
loopVars == <<vars, scaleVars>>

-----------------------------------------------------------------------------
Least(a, b) == IF a < b THEN a ELSE b
Greatest(a, b) == IF a > b THEN a ELSE b

(* Wrong on purpose: the requests that wait do not count as load.          *)
InFlightOnly == active

(* LoadSample.total                                                        *)
Load == active + waiting

(* Wrong on purpose: rounds down.                                          *)
NeededRoundedDown(load) == (load * TargetDen) \div TargetNum

(* math.ceil(load / target)                                                *)
Needed(load) == (load * TargetDen + TargetNum - 1) \div TargetNum
                    + (IF load \in RoundedUp THEN 1 ELSE 0)

(* Wrong on purpose: no floor of MinReplicas.                              *)
DesiredWithoutFloor(load) == Least(Needed(load), MaxReplicas)

(* _raw_desired()                                                          *)
RawDesired(load) == Greatest(MinReplicas, Least(Needed(load), MaxReplicas))

(* The slot that rounding the product takes.                               *)
Lost(n) == IF n \in RoundedDown THEN 1 ELSE 0

(* _capacity_for(): int(replicas * target), and at least one               *)
CapacityFor(n) == Greatest(1, (n * TargetNum) \div TargetDen - Lost(n))

(* What the gate is resized to (service.py:646).                           *)
ASSUME ResizesAssumption ==
    \A n \in MinReplicas..Greatest(MinReplicas, MaxReplicas) :
        CapacityFor(n) \in Capacities

(* decide(): the raw target, unless the cooldown of its direction runs.    *)
Decided ==
    LET desired == RawDesired(Load)
        cooled == IF desired > replicas THEN upAge >= UpCooldown
                  ELSE downAge >= DownCooldown
    IN  IF cooled THEN desired ELSE replicas

LoopInit ==
    /\ Init
    /\ capacity = CapacityFor(MinReplicas)
    /\ replicas = MinReplicas
    /\ upAge \in 0..UpCooldown
    /\ downAge \in 0..DownCooldown

(* apply(): commit the decision and stamp the clock of its direction.      *)
Apply(desired) ==
    /\ replicas' = desired
    /\ upAge' = IF desired > replicas THEN 0 ELSE upAge
    /\ downAge' = IF desired < replicas THEN 0 ELSE downAge

(* Wrong on purpose: the gate follows the replicas up but not down.        *)
TickGrowsOnly ==
    /\ Decided # replicas
    /\ Apply(Decided)
    /\ IF Decided > replicas THEN Resize(CapacityFor(Decided))
       ELSE UNCHANGED vars

(* autoscale_tick(), when its decision changes anything.                   *)
Tick ==
    /\ Decided # replicas
    /\ Apply(Decided)
    /\ Resize(CapacityFor(Decided))

(* The monotonic clock advances.                                           *)
Clock ==
    /\ upAge' = Least(upAge + 1, UpCooldown)
    /\ downAge' = Least(downAge + 1, DownCooldown)
    /\ UNCHANGED <<vars, replicas>>

Requests ==
    /\ \E t \in Tasks : \/ AcquireFast(t) \/ Park(t) \/ Resume(t)
                        \/ Cancel(t) \/ Unwind(t) \/ Release(t)
    /\ UNCHANGED scaleVars

LoopNext == Requests \/ Tick \/ Clock

(* run_autoscaler() ticks for ever, and time passes.                       *)
LoopFairness == WF_loopVars(Tick) /\ WF_loopVars(Clock)

LoopSpec == LoopInit /\ [][LoopNext]_loopVars /\ LoopFairness

-----------------------------------------------------------------------------
(* The gate always has the capacity of the current replica count, and the  *)
(* count stays within the configured range (service.py:642-646).           *)
CapacityFollowsReplicas ==
    /\ capacity = CapacityFor(replicas)
    /\ replicas \in MinReplicas..Greatest(MinReplicas, MaxReplicas)
    /\ upAge \in 0..UpCooldown /\ downAge \in 0..DownCooldown

(* Scaling down leaves room for every request in flight or waiting, but    *)
(* for the slot that rounding the product takes (autoscaler.py:59-63       *)
(* against service.py:144-145: one rounds up, the other down).             *)
ScaleDownFitsLoad ==
    [][replicas' < replicas =>
           active' + waiting' <= capacity' + Lost(replicas')]_loopVars

(* Resized by the autoscaler, the gate still leaves no slot free in front  *)
(* of a queue, if the tasks that can run do and requests leave their slots *)
(* (gate.py:59-63, service.py:646).                                        *)
SlotsAreTaken == Fairness => FreeSlotIsTaken

(* A load beyond the capacity, by more than rounding the product takes,    *)
(* does not last while there are replicas to add: it goes away or the      *)
(* ceiling is reached (autoscaler.py:71-77).                               *)
Backlogged == active + waiting > capacity + Lost(replicas)

BacklogScalesUp ==
    (Backlogged /\ replicas < MaxReplicas)
        ~> (~Backlogged \/ replicas >= MaxReplicas)

(* An idle service returns to its floor (autoscaler.py:82-87).             *)
IdleScalesDown ==
    (active + waiting = 0 /\ replicas > MinReplicas)
        ~> (active + waiting > 0 \/ replicas = MinReplicas)

(* Cooldowns, rounding, floor and ceiling leave the loop neither below a   *)
(* load nor above an idle service for good (autoscaler.py:65-92).          *)
Converges == BacklogScalesUp /\ IdleScalesDown
=============================================================================
