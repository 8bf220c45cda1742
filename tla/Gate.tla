-------------------------------- MODULE Gate --------------------------------
(***************************************************************************)
(* CapacityGate (app/gate.py): a concurrency gate over an asyncio          *)
(* condition variable, whose capacity the autoscaler raises and lowers     *)
(* while requests hold slots and wait for them.                            *)
(*                                                                         *)
(* The condition's lock is held only across code that does not suspend, so *)
(* it is never contended and each action below is one uninterrupted run of *)
(* the event loop between two suspension points.  The only suspension is   *)
(* the wait itself: a task that is woken runs again LATER, and what other  *)
(* tasks do in between (enter by the fast path, resize, time out) is what  *)
(* this module is about.                                                   *)
(***************************************************************************)
EXTENDS Integers, FiniteSets

CONSTANTS
    Tasks,             \* the tasks that call acquire() and release()
    Capacities,        \* the arguments resize() is called with
    InitialCapacity,   \* the argument of the constructor
    RenotifyOnCancel   \* TRUE for the Condition of CPython 3.13 and later

ASSUME GateAssumption ==
    /\ IsFiniteSet(Tasks)
    /\ Capacities \subseteq Int
    /\ InitialCapacity \in Int
    /\ RenotifyOnCancel \in BOOLEAN

VARIABLES
    capacity,   \* _capacity
    active,     \* _active
    waiting,    \* _waiting, the queue depth the autoscaler reads
    slot,       \* where each task stands in acquire() / release()
    ahead       \* the condition's deque of waiters, as a relation: ahead[t]
                \* are the parked tasks whose futures come before t's

vars == <<capacity, active, waiting, slot, ahead>>

(***************************************************************************)
(* "out"         the task is not in the gate                               *)
(* "parked"      suspended on a future that nobody has resolved            *)
(* "notified"    its future is resolved, but the task has not run yet      *)
(* "cancelling"  a deadline or a cancellation hit it while it waited; the  *)
(*               CancelledError is raised when the task next runs          *)
(* "in"          acquire() returned: the task holds a slot                 *)
(***************************************************************************)
SlotStates == {"out", "parked", "notified", "cancelling", "in"}

At(s) == {t \in Tasks : slot[t] = s}
Parked == At("parked")
Notified == At("notified")
Cancelling == At("cancelling")
Holders == At("in")
Queued == Parked \cup Notified \cup Cancelling

AtLeastOne(c) == IF c > 1 THEN c ELSE 1

-----------------------------------------------------------------------------
(***************************************************************************)
(* asyncio.Condition, as gate.py uses it.                                  *)
(***************************************************************************)

(* What notify(n) may wake among the tasks p: the n longest-parked ones,   *)
(* or all of them when there are fewer.                                    *)
Wakeable(n, p) ==
    {w \in SUBSET p : /\ Cardinality(w) <= n
                      /\ w = p \/ Cardinality(w) = n
                      /\ \A t \in w : ahead[t] \cap p \subseteq w}

Woken(s, w) == [t \in Tasks |-> IF t \in w THEN "notified" ELSE s[t]]

(* A task that parks goes to the tail of the deque.                        *)
Requeue ==
    ahead' = [t \in Tasks |-> IF slot'[t] # "parked" THEN {}
                              ELSE IF t \in Parked THEN ahead[t] \cap Parked'
                              ELSE Parked]

-----------------------------------------------------------------------------
Init ==
    /\ capacity = AtLeastOne(InitialCapacity)
    /\ active = 0
    /\ waiting = 0
    /\ slot = [t \in Tasks |-> "out"]
    /\ ahead = [t \in Tasks |-> {}]

(* acquire() finds room and returns without suspending.                    *)
AcquireFast(t) ==
    /\ slot[t] = "out"
    /\ active < capacity
    /\ active' = active + 1
    /\ slot' = [slot EXCEPT ![t] = "in"]
    /\ UNCHANGED <<capacity, waiting, ahead>>

(* acquire() finds the gate full and suspends in wait_for().               *)
Park(t) ==
    /\ slot[t] = "out"
    /\ active >= capacity
    /\ waiting' = waiting + 1
    /\ slot' = [slot EXCEPT ![t] = "parked"]
    /\ Requeue
    /\ UNCHANGED <<capacity, active>>

(* Wrong on purpose: `if` instead of a predicate loop around the wait.     *)
TakesSlotUnchecked == TRUE

(* A woken task tests the predicate again before it takes a slot.          *)
MayTakeSlot == active < capacity

Resume(t) ==
    /\ slot[t] = "notified"
    /\ \/ /\ MayTakeSlot
          /\ active' = active + 1
          /\ waiting' = waiting - 1
          /\ slot' = [slot EXCEPT ![t] = "in"]
       \/ /\ ~MayTakeSlot
          /\ slot' = [slot EXCEPT ![t] = "parked"]
          /\ UNCHANGED <<active, waiting>>
    /\ Requeue
    /\ UNCHANGED capacity

(* Wrong on purpose: a deadline that fires just after acquire() succeeded  *)
(* abandons the slot.                                                      *)
CancelTooLate(t) ==
    /\ slot[t] \in {"parked", "notified", "in"}
    /\ slot' = [slot EXCEPT ![t] = "cancelling"]
    /\ waiting' = IF slot[t] = "in" THEN waiting + 1 ELSE waiting
    /\ Requeue
    /\ UNCHANGED <<capacity, active>>

(* The deadline of asyncio.wait_for, or a cancellation of the request,     *)
(* reaches a task that waits.  Being woken already does not protect it.    *)
Cancel(t) ==
    /\ slot[t] \in {"parked", "notified"}
    /\ slot' = [slot EXCEPT ![t] = "cancelling"]
    /\ Requeue
    /\ UNCHANGED <<capacity, active, waiting>>

(* The CancelledError leaves wait() and acquire()'s finally block runs.    *)
(* Before CPython 3.13 a wake-up the task had received is lost with it.    *)
Unwind(t) ==
    /\ slot[t] = "cancelling"
    /\ waiting' = waiting - 1
    /\ \E w \in Wakeable(IF RenotifyOnCancel THEN 1 ELSE 0, Parked) :
          slot' = Woken([slot EXCEPT ![t] = "out"], w)
    /\ Requeue
    /\ UNCHANGED <<capacity, active>>

(* Wrong on purpose: release() without notify().                           *)
ReleaseSilently(t) ==
    /\ slot[t] = "in"
    /\ active' = IF active > 0 THEN active - 1 ELSE 0
    /\ slot' = [slot EXCEPT ![t] = "out"]
    /\ UNCHANGED <<capacity, waiting, ahead>>

(* release(), whoever calls it: nothing in it looks at the caller.         *)
Free(t) ==
    /\ active' = IF active > 0 THEN active - 1 ELSE 0
    /\ \E w \in Wakeable(1, Parked) :
          slot' = Woken([slot EXCEPT ![t] = "out"], w)
    /\ Requeue
    /\ UNCHANGED <<capacity, waiting>>

(* As it is meant to be called: by a task that holds a slot.               *)
Release(t) == slot[t] = "in" /\ Free(t)

(* Wrong on purpose: notify() instead of notify(capacity).                 *)
WakesOneOnGrowth(c) == IF c > capacity THEN 1 ELSE 0

(* How many waiters resize() to c wakes: none unless the gate grew.        *)
WokenByResize(c) == IF c > capacity THEN c ELSE 0

Resize(c) ==
    /\ capacity' = AtLeastOne(c)
    /\ \E w \in Wakeable(WokenByResize(AtLeastOne(c)), Parked) :
          slot' = Woken(slot, w)
    /\ Requeue
    /\ UNCHANGED <<active, waiting>>

Next ==
    \/ \E t \in Tasks : \/ AcquireFast(t) \/ Park(t) \/ Resume(t)
                        \/ Cancel(t) \/ Unwind(t) \/ Release(t)
    \/ \E c \in Capacities : Resize(c)

(* The event loop runs every task that is ready to run, and a request does *)
(* not hold its slot forever.  Nothing forces a task to arrive, a deadline *)
(* to expire or the autoscaler to resize.                                  *)
Fairness == \A t \in Tasks : WF_vars(Resume(t) \/ Unwind(t)) /\ WF_vars(Release(t))

Spec == Init /\ [][Next]_vars
FairSpec == Spec /\ Fairness

-----------------------------------------------------------------------------
TypeOK ==
    /\ capacity \in Nat \ {0}
    /\ active \in Nat
    /\ waiting \in Nat
    /\ slot \in [Tasks -> SlotStates]
    /\ ahead \in [Tasks -> SUBSET Tasks]

(* active counts exactly the tasks that hold a slot: through timeouts,     *)
(* barging and resizes none is lost and none counted twice, so the floor   *)
(* at zero in release() never acts (gate.py:53).                           *)
SlotAccounting == active = Cardinality(Holders)

(* waiting, the autoscaler's queue depth, counts exactly the tasks that    *)
(* have queued and neither hold a slot nor left (gate.py:44-49).           *)
DepthAccounting == waiting = Cardinality(Queued)

(* Every slot and every place in the queue belongs to one task, through    *)
(* timeouts, barging and resizes (gate.py:39-63).                          *)
GateInv == TypeOK /\ SlotAccounting /\ DepthAccounting

(* No wake-up is lost: while a task is parked, at least as many tasks as   *)
(* there are free slots are on their way to take one or to pass the        *)
(* wake-up on (notify() in gate.py:54 and 63 against waiters that barge,   *)
(* time out and park again).                                               *)
NoLostWakeup ==
    Parked # {} =>
        Cardinality(Notified) + Cardinality(Cancelling) >= capacity - active

(* A queue means a full gate (gate.py:12-14): with no wake-up under way, a *)
(* task is parked only because it could not get a worker.                  *)
QueueMeansFull ==
    (Parked # {} /\ Notified = {} /\ Cancelling = {}) => active >= capacity

(* A slot is handed out only within the capacity of that moment, however   *)
(* long ago the wake-up was sent: only shrinking leaves the gate over      *)
(* capacity (gate.py:46).                                                  *)
NeverOverAdmits == [][active' > active => active' <= capacity']_vars

(* A free slot does not stay free while tasks are parked (gate.py:62).     *)
FreeSlotIsTaken ==
    (Parked # {} /\ active < capacity) ~> (Parked = {} \/ active >= capacity)
=============================================================================
