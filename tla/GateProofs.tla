----------------------------- MODULE GateProofs -----------------------------
(***************************************************************************)
(* What Gate promises for every finite set of tasks and every capacity.    *)
(*                                                                         *)
(* The inductive invariant is type correctness with the two accounting     *)
(* equations: active and waiting equal the sizes of two disjoint sets of   *)
(* tasks.  Without them nothing rules out the floor at zero in release()   *)
(* hiding a slot that was released twice.  No-lost-wakeup is inductive on  *)
(* top of it, for a condition variable that passes a wake-up on when the   *)
(* task it woke is cancelled.                                              *)
(***************************************************************************)
EXTENDS Gate, FiniteSetTheorems, TLAPS

(***************************************************************************)
(* The tasks in the states of interest, as finite sets.                    *)
(***************************************************************************)

(* Every set of tasks in one state is finite, and its size is a number.    *)
LEMMA SetsAreFinite ==
    /\ IsFiniteSet(Parked) /\ Cardinality(Parked) \in Nat
    /\ IsFiniteSet(Notified) /\ Cardinality(Notified) \in Nat
    /\ IsFiniteSet(Cancelling) /\ Cardinality(Cancelling) \in Nat
    /\ IsFiniteSet(Holders) /\ Cardinality(Holders) \in Nat
    /\ IsFiniteSet(Queued) /\ Cardinality(Queued) \in Nat
<1>1. \A S \in SUBSET Tasks : IsFiniteSet(S) /\ Cardinality(S) \in Nat
  BY GateAssumption, FS_Subset, FS_CardinalityType
<1>2. /\ Parked \in SUBSET Tasks /\ Notified \in SUBSET Tasks
      /\ Cancelling \in SUBSET Tasks /\ Holders \in SUBSET Tasks
      /\ Queued \in SUBSET Tasks
  BY DEF Parked, Notified, Cancelling, Holders, Queued, At
<1> QED BY <1>1, <1>2

(* A wake-up moves the tasks it picks, and only those, from Parked to      *)
(* Notified; it picks n of them or all.  It moves nobody in or out of the  *)
(* queue, and nobody in or out of a slot.                                  *)
LEMMA WakeEffect ==
    ASSUME NEW n \in Nat, NEW s \in [Tasks -> SlotStates],
           \A u \in Tasks : s[u] = "parked" <=> u \in Parked,
           NEW w \in Wakeable(n, Parked)
    PROVE  /\ w \subseteq Parked
           /\ IsFiniteSet(w) /\ Cardinality(w) \in Nat
           /\ w = Parked \/ Cardinality(w) = n
           /\ Woken(s, w) \in [Tasks -> SlotStates]
           /\ \A u \in Tasks : Woken(s, w)[u] =
                  IF u \in w THEN "notified" ELSE s[u]
<1>1. w \subseteq Parked /\ (w = Parked \/ Cardinality(w) = n)
  BY DEF Wakeable
<1>2. IsFiniteSet(w) /\ Cardinality(w) \in Nat
  BY <1>1, SetsAreFinite, FS_Subset, FS_CardinalityType
<1> QED BY <1>1, <1>2 DEF Woken, SlotStates

(* Whatever the step did to slot, the deque keeps its type.                *)
LEMMA RequeueType ==
    ASSUME ahead \in [Tasks -> SUBSET Tasks], Requeue
    PROVE  ahead' \in [Tasks -> SUBSET Tasks]
  BY DEF Requeue, Parked, At

-----------------------------------------------------------------------------
(***************************************************************************)
(* The inductive invariant.                                                *)
(***************************************************************************)
LEMMA GateInvInit == Init => GateInv
<1> SUFFICES ASSUME Init PROVE GateInv
  OBVIOUS
<1>1. Holders = {} /\ Queued = {}
  BY DEF Init, Holders, Queued, Parked, Notified, Cancelling, At
<1>2. SlotAccounting /\ DepthAccounting
  BY <1>1, FS_EmptySet DEF Init, SlotAccounting, DepthAccounting
<1>3. TypeOK
  BY GateAssumption DEF Init, TypeOK, AtLeastOne, SlotStates
<1> QED BY <1>2, <1>3 DEF GateInv

(* Counting a finite set that gains or loses one element.                  *)
LEMMA CountStep ==
    ASSUME NEW S, IsFiniteSet(S), NEW t
    PROVE  /\ t \notin S => Cardinality(S \cup {t}) = Cardinality(S) + 1
           /\ t \in S => /\ Cardinality(S \ {t}) = Cardinality(S) - 1
                         /\ Cardinality(S) > 0
           /\ Cardinality(S) \in Nat
<1>1. Cardinality(S) \in Nat
  BY FS_CardinalityType
<1>2. t \notin S => Cardinality(S \cup {t}) = Cardinality(S) + 1
  BY FS_AddElement
<1>3. t \in S => Cardinality(S \ {t}) = Cardinality(S) - 1
  BY FS_RemoveElement
<1>4. t \in S => Cardinality(S) # 0
  BY FS_EmptySet
<1> QED BY <1>1, <1>2, <1>3, <1>4

(* Every step keeps the types of the state and both accounts: a task that  *)
(* enters or leaves a set takes its count along.                           *)
LEMMA GateInvStep == GateInv /\ [Next]_vars => GateInv'
<1> SUFFICES ASSUME GateInv, [Next]_vars PROVE GateInv'
  OBVIOUS
<1> USE SetsAreFinite
<1>1. /\ TypeOK
      /\ active = Cardinality(Holders)
      /\ waiting = Cardinality(Queued)
  BY DEF GateInv, SlotAccounting, DepthAccounting
<1> SUFFICES TypeOK' /\ SlotAccounting' /\ DepthAccounting'
  BY DEF GateInv
<1>2. ASSUME NEW t \in Tasks, AcquireFast(t)
      PROVE  TypeOK' /\ SlotAccounting' /\ DepthAccounting'
  <2>1. TypeOK'
    BY <1>1, <1>2 DEF AcquireFast, TypeOK, SlotStates
  <2>2. t \notin Holders /\ Holders' = Holders \cup {t} /\ Queued' = Queued
    BY <1>1, <1>2 DEF AcquireFast, TypeOK, Holders, Queued, Parked, Notified,
                      Cancelling, At
  <2>3. active' = active + 1 /\ waiting' = waiting
    BY <1>2 DEF AcquireFast
  <2>4. Cardinality(Holders \cup {t}) = Cardinality(Holders) + 1
    BY <2>2, CountStep
  <2> QED BY <1>1, <2>1, <2>2, <2>3, <2>4 DEF SlotAccounting, DepthAccounting
<1>3. ASSUME NEW t \in Tasks, Park(t)
      PROVE  TypeOK' /\ SlotAccounting' /\ DepthAccounting'
  <2>1. TypeOK'
    BY <1>1, <1>3, RequeueType DEF Park, TypeOK, SlotStates
  <2>2. t \notin Queued /\ Queued' = Queued \cup {t} /\ Holders' = Holders
    BY <1>1, <1>3 DEF Park, TypeOK, Holders, Queued, Parked, Notified,
                      Cancelling, At
  <2>3. active' = active /\ waiting' = waiting + 1
    BY <1>3 DEF Park
  <2>4. Cardinality(Queued \cup {t}) = Cardinality(Queued) + 1
    BY <2>2, CountStep
  <2> QED BY <1>1, <2>1, <2>2, <2>3, <2>4 DEF SlotAccounting, DepthAccounting
<1>4. ASSUME NEW t \in Tasks, Resume(t)
      PROVE  TypeOK' /\ SlotAccounting' /\ DepthAccounting'
  <2>1. CASE MayTakeSlot
    <3>1. /\ active' = active + 1 /\ waiting' = waiting - 1
          /\ slot[t] = "notified" /\ slot' = [slot EXCEPT ![t] = "in"]
          /\ Requeue /\ capacity' = capacity
      BY <1>4, <2>1 DEF Resume
    <3>2. /\ t \notin Holders /\ Holders' = Holders \cup {t}
          /\ t \in Queued /\ Queued' = Queued \ {t}
      BY <1>1, <3>1 DEF TypeOK, Holders, Queued, Parked, Notified, Cancelling, At
    <3>3. SlotAccounting' /\ DepthAccounting' /\ waiting' \in Nat
      <4>1. Cardinality(Holders \cup {t}) = Cardinality(Holders) + 1
        BY <3>2, CountStep
      <4>2. /\ Cardinality(Queued \ {t}) = Cardinality(Queued) - 1
            /\ Cardinality(Queued) > 0 /\ Cardinality(Queued) \in Nat
        BY <3>2, CountStep
      <4> QED BY <1>1, <3>1, <3>2, <4>1, <4>2 DEF SlotAccounting, DepthAccounting
    <3>4. TypeOK'
      BY <1>1, <3>1, <3>3, RequeueType DEF TypeOK, SlotStates
    <3> QED BY <3>3, <3>4
  <2>2. CASE ~MayTakeSlot
    <3>1. /\ active' = active /\ waiting' = waiting
          /\ slot[t] = "notified" /\ slot' = [slot EXCEPT ![t] = "parked"]
          /\ Requeue /\ capacity' = capacity
      BY <1>4, <2>2 DEF Resume
    <3>2. Holders' = Holders /\ Queued' = Queued
      BY <1>1, <3>1 DEF TypeOK, Holders, Queued, Parked, Notified, Cancelling, At
    <3>3. TypeOK'
      BY <1>1, <3>1, RequeueType DEF TypeOK, SlotStates
    <3> QED BY <1>1, <3>1, <3>2, <3>3 DEF SlotAccounting, DepthAccounting
  <2> QED BY <2>1, <2>2
<1>5. ASSUME NEW t \in Tasks, Cancel(t)
      PROVE  TypeOK' /\ SlotAccounting' /\ DepthAccounting'
  <2>1. TypeOK'
    BY <1>1, <1>5, RequeueType DEF Cancel, TypeOK, SlotStates
  <2>2. Holders' = Holders /\ Queued' = Queued
    BY <1>1, <1>5 DEF Cancel, TypeOK, Holders, Queued, Parked, Notified,
                      Cancelling, At
  <2>3. active' = active /\ waiting' = waiting
    BY <1>5 DEF Cancel
  <2> QED BY <1>1, <2>1, <2>2, <2>3 DEF SlotAccounting, DepthAccounting
<1>6. ASSUME NEW t \in Tasks, Unwind(t)
      PROVE  TypeOK' /\ SlotAccounting' /\ DepthAccounting'
  <2> DEFINE s == [slot EXCEPT ![t] = "out"]
  <2> DEFINE n == IF RenotifyOnCancel THEN 1 ELSE 0
  <2>1. PICK w \in Wakeable(n, Parked) : slot' = Woken(s, w)
    BY <1>6 DEF Unwind
  <2>2. /\ slot[t] = "cancelling" /\ waiting' = waiting - 1 /\ active' = active
        /\ Requeue /\ capacity' = capacity
    BY <1>6 DEF Unwind
  <2>3. /\ s \in [Tasks -> SlotStates]
        /\ \A u \in Tasks : s[u] = "parked" <=> u \in Parked
        /\ n \in Nat
    BY <1>1, <2>2 DEF TypeOK, SlotStates, Parked, At
  <2>4. /\ w \subseteq Parked /\ slot' \in [Tasks -> SlotStates]
        /\ \A u \in Tasks : slot'[u] = IF u \in w THEN "notified" ELSE s[u]
    <3> HIDE DEF s, n
    <3> QED BY <2>1, <2>3, WakeEffect
  <2>5. Holders' = Holders /\ t \in Queued /\ Queued' = Queued \ {t}
    BY <1>1, <2>2, <2>4 DEF TypeOK, Holders, Queued, Parked, Notified, Cancelling, At
  <2>6. SlotAccounting' /\ DepthAccounting' /\ waiting' \in Nat
    <3>1. /\ Cardinality(Queued \ {t}) = Cardinality(Queued) - 1
          /\ Cardinality(Queued) > 0 /\ Cardinality(Queued) \in Nat
      BY <2>5, CountStep
    <3> QED BY <1>1, <2>2, <2>5, <3>1 DEF SlotAccounting, DepthAccounting
  <2>7. TypeOK'
    BY <1>1, <2>2, <2>4, <2>6, RequeueType DEF TypeOK
  <2> QED BY <2>6, <2>7
<1>7. ASSUME NEW t \in Tasks, Release(t)
      PROVE  TypeOK' /\ SlotAccounting' /\ DepthAccounting'
  <2> DEFINE s == [slot EXCEPT ![t] = "out"]
  <2>1. PICK w \in Wakeable(1, Parked) : slot' = Woken(s, w)
    BY <1>7 DEF Release, Free
  <2>2. /\ slot[t] = "in" /\ waiting' = waiting
        /\ active' = IF active > 0 THEN active - 1 ELSE 0
        /\ Requeue /\ capacity' = capacity
    BY <1>7 DEF Release, Free
  <2>3. /\ s \in [Tasks -> SlotStates]
        /\ \A u \in Tasks : s[u] = "parked" <=> u \in Parked
    BY <1>1, <2>2 DEF TypeOK, SlotStates, Parked, At
  <2>4. /\ w \subseteq Parked /\ slot' \in [Tasks -> SlotStates]
        /\ \A u \in Tasks : slot'[u] = IF u \in w THEN "notified" ELSE s[u]
    <3> HIDE DEF s
    <3> QED BY <2>1, <2>3, WakeEffect
  <2>5. t \in Holders /\ Holders' = Holders \ {t} /\ Queued' = Queued
    BY <1>1, <2>2, <2>4 DEF TypeOK, Holders, Queued, Parked, Notified, Cancelling, At
  <2>6. SlotAccounting' /\ DepthAccounting' /\ active' \in Nat
    <3>1. /\ Cardinality(Holders \ {t}) = Cardinality(Holders) - 1
          /\ Cardinality(Holders) > 0 /\ Cardinality(Holders) \in Nat
      BY <2>5, CountStep
    <3> QED BY <1>1, <2>2, <2>5, <3>1 DEF SlotAccounting, DepthAccounting
  <2>7. TypeOK'
    BY <1>1, <2>2, <2>4, <2>6, RequeueType DEF TypeOK
  <2> QED BY <2>6, <2>7
<1>8. ASSUME NEW c \in Capacities, Resize(c)
      PROVE  TypeOK' /\ SlotAccounting' /\ DepthAccounting'
  <2>1. AtLeastOne(c) \in Nat \ {0} /\ WokenByResize(AtLeastOne(c)) \in Nat
    BY GateAssumption DEF AtLeastOne, WokenByResize
  <2>2. PICK w \in Wakeable(WokenByResize(AtLeastOne(c)), Parked) :
            slot' = Woken(slot, w)
    BY <1>8 DEF Resize
  <2>3. /\ slot \in [Tasks -> SlotStates]
        /\ \A u \in Tasks : slot[u] = "parked" <=> u \in Parked
    BY <1>1 DEF TypeOK, Parked, At
  <2>4. /\ w \subseteq Parked /\ slot' \in [Tasks -> SlotStates]
        /\ \A u \in Tasks : slot'[u] = IF u \in w THEN "notified" ELSE slot[u]
    BY <2>1, <2>2, <2>3, WakeEffect
  <2>5. Holders' = Holders /\ Queued' = Queued
    BY <1>1, <2>4 DEF TypeOK, Holders, Queued, Parked, Notified, Cancelling, At
  <2>6. TypeOK'
    BY <1>1, <1>8, <2>1, <2>4, RequeueType DEF TypeOK, Resize
  <2> QED BY <1>1, <1>8, <2>5, <2>6 DEF Resize, SlotAccounting, DepthAccounting
<1>9. CASE UNCHANGED vars
  BY <1>1, <1>9 DEF vars, TypeOK, SlotAccounting, DepthAccounting, Holders,
                    Queued, Parked, Notified, Cancelling, At
<1> QED BY <1>2, <1>3, <1>4, <1>5, <1>6, <1>7, <1>8, <1>9 DEF Next

-----------------------------------------------------------------------------
(* Slots and queue are accounted for in every execution, for any number of *)
(* tasks and any resizes (gate.py:20-63).                                  *)
THEOREM GateInvariant == Spec => []GateInv
  BY GateInvInit, GateInvStep, PTL DEF Spec

(* The gate's state is well formed in every execution (gate.py:20-63).     *)
THEOREM GateTypeCorrect == Spec => []TypeOK
  BY GateInvariant, PTL DEF GateInv

(* active counts exactly the holders of slots and waiting exactly the      *)
(* queue, for any number of tasks and any resizes (gate.py:39-54).         *)
THEOREM GateAccounting == Spec => [](SlotAccounting /\ DepthAccounting)
  BY GateInvariant, PTL DEF GateInv

-----------------------------------------------------------------------------
(***************************************************************************)
(* No wake-up is lost, where the condition variable passes on the wake-up  *)
(* of a waiter that is cancelled.                                          *)
(***************************************************************************)

(* The sizes after a wake-up: the woken tasks are added to Notified, and   *)
(* if any task stays parked then all n wake-ups found a taker.             *)
LEMMA WakeCount ==
    ASSUME NEW n \in Nat, NEW w, w \subseteq Parked, IsFiniteSet(w),
           w = Parked \/ Cardinality(w) = n,
           NEW X, IsFiniteSet(X), X \cap w = {}
    PROVE  /\ Cardinality(X \cup w) = Cardinality(X) + Cardinality(w)
           /\ Cardinality(X) \in Nat /\ Cardinality(w) \in Nat
           /\ Parked \ w # {} => Cardinality(w) = n
<1>1. Cardinality(X \cup w) = Cardinality(X) + Cardinality(w) - Cardinality({})
  BY FS_Union
<1>2. Cardinality({}) = 0 /\ Cardinality(X) \in Nat /\ Cardinality(w) \in Nat
  BY FS_EmptySet, FS_CardinalityType
<1> QED BY <1>1, <1>2

LEMMA NoLostWakeupInit == Init => NoLostWakeup
  BY DEF Init, NoLostWakeup, Parked, At

(* Each step either empties Parked, or takes at most as many free slots    *)
(* away as wake-ups: a woken task that takes a slot uses its wake-up, one  *)
(* that finds the gate full needs none, a cancelled one passes it on.      *)
LEMMA NoLostWakeupStep ==
    ASSUME RenotifyOnCancel
    PROVE  GateInv /\ NoLostWakeup /\ [Next]_vars => NoLostWakeup'
<1> SUFFICES ASSUME GateInv, NoLostWakeup, [Next]_vars, Parked' # {}
             PROVE  Cardinality(Notified') + Cardinality(Cancelling')
                        >= capacity' - active'
  BY DEF NoLostWakeup
<1>1. TypeOK /\ capacity \in Nat /\ active \in Nat
  BY DEF GateInv, TypeOK
<1>2. /\ IsFiniteSet(Notified) /\ Cardinality(Notified) \in Nat
      /\ IsFiniteSet(Cancelling) /\ Cardinality(Cancelling) \in Nat
  BY SetsAreFinite
<1>3. Parked # {} =>
          Cardinality(Notified) + Cardinality(Cancelling) >= capacity - active
  BY DEF NoLostWakeup
<1>4. ASSUME NEW t \in Tasks, AcquireFast(t)
      PROVE  Cardinality(Notified') + Cardinality(Cancelling') >= capacity' - active'
  <2>1. Parked' = Parked /\ Notified' = Notified /\ Cancelling' = Cancelling
    BY <1>1, <1>4 DEF AcquireFast, TypeOK, Parked, Notified, Cancelling, At
  <2> QED BY <1>1, <1>2, <1>3, <1>4, <2>1 DEF AcquireFast
<1>5. ASSUME NEW t \in Tasks, Park(t)
      PROVE  Cardinality(Notified') + Cardinality(Cancelling') >= capacity' - active'
  <2>1. Notified' = Notified /\ Cancelling' = Cancelling
    BY <1>1, <1>5 DEF Park, TypeOK, Notified, Cancelling, At
  <2> QED BY <1>1, <1>2, <1>5, <2>1 DEF Park
<1>6. ASSUME NEW t \in Tasks, Resume(t)
      PROVE  Cardinality(Notified') + Cardinality(Cancelling') >= capacity' - active'
  <2>1. Notified' = Notified \ {t} /\ t \in Notified /\ Cancelling' = Cancelling
    BY <1>1, <1>6 DEF Resume, TypeOK, Notified, Cancelling, At
  <2>2. Cardinality(Notified \ {t}) = Cardinality(Notified) - 1
        /\ Cardinality(Notified) > 0
    BY <1>2, <2>1, CountStep
  <2>3. CASE MayTakeSlot
    <3>1. Parked' = Parked /\ active' = active + 1 /\ capacity' = capacity
      BY <1>1, <1>6, <2>3 DEF Resume, TypeOK, Parked, At
    <3> QED BY <1>1, <1>2, <1>3, <2>1, <2>2, <3>1
  <2>4. CASE ~MayTakeSlot
    <3>1. active' = active /\ capacity' = capacity /\ ~(active < capacity)
      BY <1>6, <2>4 DEF Resume, MayTakeSlot
    <3> QED BY <1>1, <1>2, <2>1, <2>2, <3>1
  <2> QED BY <2>3, <2>4
<1>7. ASSUME NEW t \in Tasks, Cancel(t)
      PROVE  Cardinality(Notified') + Cardinality(Cancelling') >= capacity' - active'
  <2>1. /\ Parked # {} /\ t \notin Cancelling
        /\ Cancelling' = Cancelling \cup {t} /\ Notified' = Notified \ {t}
    BY <1>1, <1>7 DEF Cancel, TypeOK, Parked, Notified, Cancelling, At
  <2>2. /\ Cardinality(Cancelling \cup {t}) = Cardinality(Cancelling) + 1
        /\ Cardinality(Notified \ {t}) >= Cardinality(Notified) - 1
        /\ Cardinality(Notified \ {t}) \in Nat
    <3>1. Cardinality(Cancelling \cup {t}) = Cardinality(Cancelling) + 1
      BY <1>2, <2>1, CountStep
    <3>2. CASE t \in Notified
      <4>1. /\ Cardinality(Notified \ {t}) = Cardinality(Notified) - 1
            /\ Cardinality(Notified) > 0
        BY <1>2, <3>2, CountStep
      <4> QED BY <1>2, <3>1, <4>1
    <3>3. CASE t \notin Notified
      <4>1. Notified \ {t} = Notified
        BY <3>3
      <4> QED BY <1>2, <3>1, <4>1
    <3> QED BY <3>2, <3>3
  <2> QED BY <1>1, <1>2, <1>3, <1>7, <2>1, <2>2 DEF Cancel
<1>8. ASSUME NEW t \in Tasks, Unwind(t)
      PROVE  Cardinality(Notified') + Cardinality(Cancelling') >= capacity' - active'
  <2> DEFINE s == [slot EXCEPT ![t] = "out"]
  <2>1. PICK w \in Wakeable(1, Parked) : slot' = Woken(s, w)
    BY <1>8 DEF Unwind
  <2>2. slot[t] = "cancelling" /\ active' = active /\ capacity' = capacity
    BY <1>8 DEF Unwind
  <2>3. /\ s \in [Tasks -> SlotStates]
        /\ \A u \in Tasks : s[u] = "parked" <=> u \in Parked
    BY <1>1, <2>2 DEF TypeOK, SlotStates, Parked, At
  <2>4. /\ w \subseteq Parked /\ IsFiniteSet(w)
        /\ w = Parked \/ Cardinality(w) = 1
        /\ \A u \in Tasks : slot'[u] = IF u \in w THEN "notified" ELSE s[u]
    <3> HIDE DEF s
    <3> QED BY <2>1, <2>3, WakeEffect
  <2>5. /\ Parked' = Parked \ w /\ Notified' = Notified \cup w /\ Notified \cap w = {}
        /\ Cancelling' = Cancelling \ {t} /\ t \in Cancelling
    BY <1>1, <2>2, <2>4 DEF TypeOK, Parked, Notified, Cancelling, At
  <2>6. Cardinality(Notified \cup w) = Cardinality(Notified) + 1 /\ Parked # {}
    BY <1>2, <2>4, <2>5, WakeCount
  <2>7. Cardinality(Cancelling \ {t}) = Cardinality(Cancelling) - 1
    BY <1>2, <2>5, CountStep
  <2> QED BY <1>1, <1>2, <1>3, <2>2, <2>5, <2>6, <2>7
<1>9. ASSUME NEW t \in Tasks, Release(t)
      PROVE  Cardinality(Notified') + Cardinality(Cancelling') >= capacity' - active'
  <2> DEFINE s == [slot EXCEPT ![t] = "out"]
  <2>1. PICK w \in Wakeable(1, Parked) : slot' = Woken(s, w)
    BY <1>9 DEF Release, Free
  <2>2. /\ slot[t] = "in" /\ capacity' = capacity
        /\ active' = IF active > 0 THEN active - 1 ELSE 0
    BY <1>9 DEF Release, Free
  <2>3. /\ s \in [Tasks -> SlotStates]
        /\ \A u \in Tasks : s[u] = "parked" <=> u \in Parked
    BY <1>1, <2>2 DEF TypeOK, SlotStates, Parked, At
  <2>4. /\ w \subseteq Parked /\ IsFiniteSet(w)
        /\ w = Parked \/ Cardinality(w) = 1
        /\ \A u \in Tasks : slot'[u] = IF u \in w THEN "notified" ELSE s[u]
    <3> HIDE DEF s
    <3> QED BY <2>1, <2>3, WakeEffect
  <2>5. /\ Parked' = Parked \ w /\ Notified' = Notified \cup w /\ Notified \cap w = {}
        /\ Cancelling' = Cancelling
    BY <1>1, <2>2, <2>4 DEF TypeOK, Parked, Notified, Cancelling, At
  <2>6. Cardinality(Notified \cup w) = Cardinality(Notified) + 1 /\ Parked # {}
    BY <1>2, <2>4, <2>5, WakeCount
  <2> QED BY <1>1, <1>2, <1>3, <2>2, <2>5, <2>6
<1>10. ASSUME NEW c \in Capacities, Resize(c)
       PROVE  Cardinality(Notified') + Cardinality(Cancelling') >= capacity' - active'
  <2> DEFINE k == AtLeastOne(c)
             n == WokenByResize(k)
  <2>1. /\ k \in Nat /\ n \in Nat
        /\ k > capacity => n = k
        /\ capacity' = k /\ active' = active
    BY <1>1, <1>10, GateAssumption DEF Resize, AtLeastOne, WokenByResize
  <2>2. PICK w \in Wakeable(n, Parked) : slot' = Woken(slot, w)
    BY <1>10 DEF Resize
  <2>3. /\ slot \in [Tasks -> SlotStates]
        /\ \A u \in Tasks : slot[u] = "parked" <=> u \in Parked
    BY <1>1 DEF TypeOK, Parked, At
  <2> HIDE DEF k, n
  <2>4. /\ w \subseteq Parked /\ IsFiniteSet(w)
        /\ w = Parked \/ Cardinality(w) = n
        /\ \A u \in Tasks : slot'[u] = IF u \in w THEN "notified" ELSE slot[u]
    BY <2>1, <2>2, <2>3, WakeEffect
  <2>5. /\ Parked' = Parked \ w /\ Notified' = Notified \cup w /\ Notified \cap w = {}
        /\ Cancelling' = Cancelling
    BY <1>1, <2>4 DEF TypeOK, Parked, Notified, Cancelling, At
  <2>6. Cardinality(Notified \cup w) = Cardinality(Notified) + n /\ Parked # {}
    BY <1>2, <2>1, <2>4, <2>5, WakeCount
  <2> QED BY <1>1, <1>2, <1>3, <2>1, <2>5, <2>6
<1>11. CASE UNCHANGED vars
  <2>1. Parked' = Parked /\ Notified' = Notified /\ Cancelling' = Cancelling
    BY <1>11 DEF vars, Parked, Notified, Cancelling, At
  <2> QED BY <1>1, <1>2, <1>3, <1>11, <2>1 DEF vars
<1> QED BY <1>4, <1>5, <1>6, <1>7, <1>8, <1>9, <1>10, <1>11 DEF Next

(* While a task is parked, enough tasks are on their way to fill every     *)
(* free slot (gate.py:46, 54, 63), on a condition variable that re-sends   *)
(* the wake-up of a cancelled waiter.                                      *)
THEOREM GateNoLostWakeup == RenotifyOnCancel => (Spec => []NoLostWakeup)
<1> SUFFICES ASSUME RenotifyOnCancel PROVE Spec => []NoLostWakeup
  OBVIOUS
<1>1. GateInv /\ NoLostWakeup /\ [Next]_vars => (GateInv /\ NoLostWakeup)'
  BY GateInvStep, NoLostWakeupStep
<1> QED BY <1>1, GateInvInit, NoLostWakeupInit, PTL DEF Spec

(* So a queue means a full gate (gate.py:12-14), on such a condition       *)
(* variable.                                                               *)
THEOREM GateQueueMeansFull == RenotifyOnCancel => (Spec => []QueueMeansFull)
<1> SUFFICES ASSUME RenotifyOnCancel PROVE Spec => []QueueMeansFull
  OBVIOUS
<1>1. TypeOK /\ NoLostWakeup => QueueMeansFull
  <2> SUFFICES ASSUME TypeOK, NoLostWakeup, Parked # {},
                      Notified = {}, Cancelling = {}
               PROVE  active >= capacity
    BY DEF QueueMeansFull
  <2>1. 0 + 0 >= capacity - active
    BY FS_EmptySet DEF NoLostWakeup
  <2> QED BY <2>1 DEF TypeOK
<1>2. Spec => []TypeOK
  BY GateTypeCorrect
<1>3. Spec => []NoLostWakeup
  BY GateNoLostWakeup
<1> QED BY <1>1, <1>2, <1>3, PTL

(* A slot is handed out only within the capacity of that moment, whenever  *)
(* the wake-up was sent (gate.py:41, 46).                                  *)
THEOREM GateNeverOverAdmits == Spec => NeverOverAdmits
<1>1. TypeOK /\ [Next]_vars => [active' > active => active' <= capacity']_vars
  <2> SUFFICES ASSUME TypeOK, Next, active' > active
               PROVE  active' <= capacity'
    OBVIOUS
  <2>1. active \in Nat /\ capacity \in Nat
    BY DEF TypeOK
  <2>2. CASE \E t \in Tasks : AcquireFast(t) \/ Resume(t)
    BY <2>1, <2>2 DEF AcquireFast, Resume, MayTakeSlot
  <2>3. CASE \E t \in Tasks : Park(t) \/ Cancel(t) \/ Unwind(t) \/ Release(t)
    BY <2>1, <2>3 DEF Park, Cancel, Unwind, Release, Free
  <2>4. CASE \E c \in Capacities : Resize(c)
    BY <2>1, <2>4 DEF Resize
  <2> QED BY <2>2, <2>3, <2>4 DEF Next
<1> QED BY <1>1, GateTypeCorrect, PTL DEF Spec, NeverOverAdmits
=============================================================================
