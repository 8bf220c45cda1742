---------------------------- MODULE ServiceProofs ----------------------------
(***************************************************************************)
(* What the inference service promises for every number of requests and    *)
(* models, every plan of failover, and stores that may fail.               *)
(*                                                                         *)
(* The inductive invariant ties three accounts to the stage of a request:  *)
(* the slot of the gate it holds, its bill in the ledger, and its part in  *)
(* the in-flight gauge.  None of them is inductive alone: the slot a       *)
(* finalizer frees is there only because the stage says so, and the gauge  *)
(* does not stop at its floor only because whoever counts out has counted  *)
(* in.  What the gate itself promises is taken from GateProofs.            *)
(***************************************************************************)
EXTENDS Service, FiniteSetTheorems, TLAPS

GP == INSTANCE GateProofs

-----------------------------------------------------------------------------
(***************************************************************************)
(* The gate inside the service.                                            *)
(***************************************************************************)

(* The definitions of both instances of Gate are the same.                 *)
LEMMA SameGate ==
    /\ gateVars = GP!vars
    /\ G!Init <=> GP!Init
    /\ G!Next <=> GP!Next
    /\ G!GateInv <=> GP!GateInv
<1>1. gateVars = GP!vars
  BY DEF gateVars, GP!vars
<1>2. G!Init <=> GP!Init
  BY DEF G!Init, GP!Init, G!AtLeastOne, GP!AtLeastOne
<1>3. \A S : G!Cardinality(S) = GP!Cardinality(S)
  BY DEF G!Cardinality, GP!Cardinality, G!IsFiniteSet, GP!IsFiniteSet
<1>4. \A n, p : G!Wakeable(n, p) = GP!Wakeable(n, p)
  BY <1>3 DEF G!Wakeable, GP!Wakeable
<1>5. \A s, w : G!Woken(s, w) = GP!Woken(s, w)
  BY DEF G!Woken, GP!Woken
<1>6. G!Parked = GP!Parked /\ G!Queued = GP!Queued /\ G!Holders = GP!Holders
  BY DEF G!Parked, GP!Parked, G!Queued, GP!Queued, G!Holders, GP!Holders, G!At,
         GP!At, G!Notified, GP!Notified, G!Cancelling, GP!Cancelling
<1>7. G!Requeue <=> GP!Requeue
  BY <1>6 DEF G!Requeue, GP!Requeue, G!Parked, GP!Parked, G!At, GP!At
<1>8. G!GateInv <=> GP!GateInv
  BY <1>3, <1>6 DEF G!GateInv, GP!GateInv, G!TypeOK, GP!TypeOK, G!SlotStates,
         GP!SlotStates, G!SlotAccounting, GP!SlotAccounting,
         G!DepthAccounting, GP!DepthAccounting
<1>9. \A t : /\ G!AcquireFast(t) <=> GP!AcquireFast(t)
             /\ G!Park(t) <=> GP!Park(t)
             /\ G!Resume(t) <=> GP!Resume(t)
             /\ G!Cancel(t) <=> GP!Cancel(t)
             /\ G!Unwind(t) <=> GP!Unwind(t)
             /\ G!Release(t) <=> GP!Release(t)
  BY <1>4, <1>5, <1>6, <1>7 DEF G!AcquireFast, GP!AcquireFast, G!Park, GP!Park,
         G!Resume, GP!Resume, G!MayTakeSlot, GP!MayTakeSlot, G!Cancel, GP!Cancel,
         G!Unwind, GP!Unwind, G!Release, GP!Release, G!Free, GP!Free
<1>10. \A c : G!Resize(c) <=> GP!Resize(c)
  BY <1>4, <1>5, <1>6, <1>7 DEF G!Resize, GP!Resize, G!AtLeastOne, GP!AtLeastOne,
         G!WokenByResize, GP!WokenByResize
<1>11. G!Next <=> GP!Next
  BY <1>9, <1>10 DEF G!Next, GP!Next
<1> QED BY <1>1, <1>2, <1>8, <1>11

(* What GateProofs proves of the gate holds of the gate of the service.    *)
LEMMA GateKeepsInv ==
    /\ G!Init => G!GateInv
    /\ G!GateInv /\ [G!Next]_gateVars => G!GateInv'
<1>1. GP!Init => GP!GateInv
  BY GP!GateInvInit, ServiceAssumption DEF GP!IsFiniteSet, IsFiniteSet
<1>2. GP!GateInv /\ [GP!Next]_(GP!vars) => GP!GateInv'
  BY GP!GateInvStep, ServiceAssumption DEF GP!IsFiniteSet, IsFiniteSet
<1>3. (G!GateInv <=> GP!GateInv)'
  BY SameGate, PTL
<1>4. (gateVars = GP!vars)'
  BY SameGate, PTL
<1> QED BY <1>1, <1>2, <1>3, <1>4, SameGate

(* What a step of the gate on behalf of request r does to the others: it   *)
(* wakes some of those that are parked.                                    *)
OthersStay(r) ==
    /\ slot' \in [Tasks -> G!SlotStates]
    /\ \A u \in Tasks \ {r} :
          slot'[u] = slot[u] \/ (slot[u] = "parked" /\ slot'[u] = "notified")

LEMMA GateEffects ==
    ASSUME slot \in [Tasks -> G!SlotStates], NEW r \in Tasks
    PROVE  /\ G!AcquireFast(r) => slot'[r] = "in" /\ OthersStay(r)
           /\ G!Park(r) => slot'[r] = "parked" /\ OthersStay(r)
           /\ G!Resume(r) => /\ slot[r] = "notified" /\ OthersStay(r)
                             /\ slot'[r] \in {"in", "parked"}
           /\ G!Cancel(r) => /\ slot[r] \in {"parked", "notified"}
                             /\ slot'[r] = "cancelling" /\ OthersStay(r)
           /\ G!Unwind(r) => /\ slot[r] = "cancelling"
                             /\ slot'[r] = "out" /\ OthersStay(r)
           /\ G!Release(r) => /\ slot[r] = "in"
                              /\ slot'[r] = "out" /\ OthersStay(r)
<1>1. ASSUME NEW n, NEW w \in G!Wakeable(n, G!Parked),
             slot' = G!Woken([slot EXCEPT ![r] = "out"], w),
             slot[r] \in {"cancelling", "in"}
      PROVE  slot'[r] = "out" /\ OthersStay(r)
  <2>1. w \subseteq G!Parked
    BY <1>1 DEF G!Wakeable
  <2>2. \A u \in w : u \in Tasks /\ slot[u] = "parked"
    BY <2>1 DEF G!Parked, G!At
  <2> QED BY <1>1, <2>2 DEF G!Woken, G!SlotStates, OthersStay
<1>2. /\ G!Unwind(r) => /\ slot[r] = "cancelling"
                        /\ slot'[r] = "out" /\ OthersStay(r)
      /\ G!Release(r) => /\ slot[r] = "in"
                         /\ slot'[r] = "out" /\ OthersStay(r)
  BY <1>1 DEF G!Unwind, G!Release, G!Free
<1>3. /\ G!AcquireFast(r) => slot'[r] = "in" /\ OthersStay(r)
      /\ G!Park(r) => slot'[r] = "parked" /\ OthersStay(r)
  BY DEF G!AcquireFast, G!Park, OthersStay, G!SlotStates
<1>4. G!Resume(r) => /\ slot[r] = "notified" /\ OthersStay(r)
                     /\ slot'[r] \in {"in", "parked"}
  BY DEF G!Resume, OthersStay, G!SlotStates
<1>5. G!Cancel(r) => /\ slot[r] \in {"parked", "notified"}
                     /\ slot'[r] = "cancelling" /\ OthersStay(r)
  BY DEF G!Cancel, OthersStay, G!SlotStates
<1> QED BY <1>2, <1>3, <1>4, <1>5

(* A resize only wakes.                                                    *)
LEMMA ResizeEffect ==
    ASSUME slot \in [Tasks -> G!SlotStates], NEW c, G!Resize(c)
    PROVE  /\ slot' \in [Tasks -> G!SlotStates]
           /\ \A u \in Tasks : \/ slot'[u] = slot[u]
                               \/ slot[u] = "parked" /\ slot'[u] = "notified"
<1>1. PICK w \in G!Wakeable(G!WokenByResize(G!AtLeastOne(c)), G!Parked) :
          slot' = G!Woken(slot, w)
  BY DEF G!Resize
<1>2. \A u \in w : slot[u] = "parked"
  BY <1>1 DEF G!Wakeable, G!Parked, G!At
<1> QED BY <1>1, <1>2 DEF G!Woken, G!SlotStates

-----------------------------------------------------------------------------
(***************************************************************************)
(* The state machines the service drives.                                  *)
(***************************************************************************)

(* Where a request may stand in the gate at each of its stages.            *)
SlotFits(r) ==
    /\ slot[r] = "in" <=> stage[r] \in Working
    /\ slot[r] = "cancelling" <=> stage[r] \in {"expired", "aborting"}
    /\ slot[r] \in {"parked", "notified"} => stage[r] = "admitting"

(* Who frees a slot holds it: its stage says so.                           *)
LEMMA FreesItsOwn ==
    ASSUME NEW r \in Tasks, SlotFits(r),
           \/ Store(r) \/ FailEnd(r) \/ CloseStream(r) \/ SettleFails(r)
           \/ RefundFails(r) \/ CancelWork(r)
    PROVE  G!Release(r)
<1>1. G!Free(r)
  BY DEF Store, FailEnd, CloseStream, SettleFails, RefundFails, CancelWork
<1>2. stage[r] \in {"storing", "failing", "closing", "losing", "settling", "calling"}
  BY DEF Store, FailEnd, CloseStream, SettleFails, RefundFails, CancelWork,
         Raises, Moves
<1>3. slot[r] = "in"
  BY <1>2 DEF SlotFits, Working, Generating, Finalizing
<1> QED BY <1>1, <1>3 DEF G!Release

(* Every step of the service is a step of the gate or leaves it alone, as  *)
(* long as the requests that free a slot hold one.                         *)
LEMMA StepsOfTheGate ==
    ASSUME \A u \in Tasks : SlotFits(u), [Next]_vars
    PROVE  [G!Next]_gateVars
<1>1. ASSUME NEW r \in Tasks, Step(r) \/ Deadline(r) \/ Upset(r)
      PROVE  [G!Next]_gateVars
  <2> USE <1>1 DEF G!Next
  <2>1. CASE Reject(r) \/ LookupHit(r) \/ LookupMiss(r) \/ Reserve(r)
             \/ ReserveRefused(r) \/ Shed(r) \/ Generated(r) \/ ServerFault(r)
             \/ OtherFault(r) \/ Settle(r)
    BY <2>1 DEF Reject, LookupHit, LookupMiss, Reserve, ReserveRefused, Shed,
                Generated, ServerFault, OtherFault, Settle
  <2>2. CASE StreamCompletes(r) \/ StreamFails(r) \/ StreamCloses(r)
             \/ BillStream(r) \/ Disconnect(r) \/ ReserveFails(r) \/ ShedFails(r)
             \/ BillStreamFails(r) \/ CancelOutside(r)
    BY <2>2 DEF StreamCompletes, StreamFails, StreamCloses, BillStream,
                Disconnect, ReserveFails, ShedFails, BillStreamFails, CancelOutside
  <2>3. CASE AdmitFast(r) \/ Queue(r) \/ Wake(r) \/ Unwound(r) \/ Deadline(r)
             \/ CancelWaiting(r)
    BY <2>3 DEF AdmitFast, Queue, Wake, Unwound, Deadline, CancelWaiting
  <2>4. CASE Store(r) \/ FailEnd(r) \/ CloseStream(r) \/ SettleFails(r)
             \/ RefundFails(r) \/ CancelWork(r)
    BY <2>4, FreesItsOwn
  <2> QED BY <1>1, <2>1, <2>2, <2>3, <2>4 DEF Step, Upset
<1>2. ASSUME NEW c \in Capacities, Resize(c)
      PROVE  [G!Next]_gateVars
  BY <1>2 DEF Resize, G!Next
<1>3. CASE (\E m \in Models : Evict(m)) \/ Tick \/ UNCHANGED vars
  BY <1>3 DEF Evict, Tick, vars
<1> QED BY <1>1, <1>2, <1>3 DEF Next

(* Every step of the service is a call of the ledger for one request, or   *)
(* leaves the bills alone.                                                 *)
Called == \E r \in Tasks : Hold(r) \/ Charge(r) \/ Refund(r)

LEMMA StepsOfTheBill == [Next]_vars => Called \/ UNCHANGED bill
<1>1. ASSUME NEW r \in Tasks, Step(r) \/ Deadline(r) \/ Upset(r)
      PROVE  Called \/ UNCHANGED bill
  <2> USE <1>1 DEF Called
  <2>1. CASE Reject(r) \/ LookupHit(r) \/ LookupMiss(r) \/ Reserve(r)
             \/ ReserveRefused(r) \/ Shed(r) \/ Generated(r) \/ ServerFault(r)
             \/ OtherFault(r) \/ Settle(r)
    BY <2>1 DEF Reject, LookupHit, LookupMiss, Reserve, ReserveRefused, Shed,
                Generated, ServerFault, OtherFault, Settle
  <2>2. CASE StreamCompletes(r) \/ StreamFails(r) \/ StreamCloses(r)
             \/ BillStream(r) \/ Disconnect(r) \/ ReserveFails(r) \/ ShedFails(r)
             \/ BillStreamFails(r) \/ CancelOutside(r)
    BY <2>2 DEF StreamCompletes, StreamFails, StreamCloses, BillStream, Disconnect,
                ReserveFails, ShedFails, BillStreamFails, CancelOutside, Raises
  <2>3. CASE AdmitFast(r) \/ Queue(r) \/ Wake(r) \/ Unwound(r) \/ Deadline(r)
             \/ CancelWaiting(r)
    BY <2>3 DEF AdmitFast, Queue, Wake, Unwound, Deadline, CancelWaiting
  <2>4. CASE Store(r) \/ FailEnd(r) \/ CloseStream(r) \/ SettleFails(r)
             \/ RefundFails(r) \/ CancelWork(r)
    BY <2>4 DEF Store, FailEnd, CloseStream, SettleFails, RefundFails, CancelWork,
                Raises
  <2> QED BY <1>1, <2>1, <2>2, <2>3, <2>4 DEF Step, Upset
<1>2. CASE (\E c \in Capacities : Resize(c)) \/ (\E m \in Models : Evict(m))
           \/ Tick \/ UNCHANGED vars
  BY <1>2 DEF Resize, Evict, Tick, vars
<1> QED BY <1>1, <1>2 DEF Next

-----------------------------------------------------------------------------
(***************************************************************************)
(* Breakers and failover.                                                  *)
(***************************************************************************)

(* The methods of a breaker return a breaker.                              *)
LEMMA BreakerTypes ==
    /\ Closed \in Breakers
    /\ \A b \in Breakers : /\ Allows(b) => AfterAllows(b) \in Breakers
                           /\ RecordSuccess(b) \in Breakers
                           /\ RecordFailure(b) \in Breakers
                           /\ Older(b) \in Breakers
<1> USE BreakerAssumption
<1>1. Closed \in Breakers
  BY DEF Closed, Breakers
<1>2. ASSUME NEW b \in Breakers
      PROVE  /\ AfterAllows(b) \in Breakers
             /\ RecordFailure(b) \in Breakers
             /\ Older(b) \in Breakers
  <2>1. AfterAllows(b) \in Breakers
    BY DEF AfterAllows, Breakers
  <2>2. Older(b) \in Breakers
    <3>1. CASE b.state = "OPEN" /\ b.age < Recovery
      <4>1. b.age + 1 \in 0..Recovery
        BY <3>1 DEF Breakers
      <4> QED BY <3>1, <4>1 DEF Older, Breakers
    <3> QED BY <3>1 DEF Older
  <2>3. RecordFailure(b) \in Breakers
    <3> DEFINE n == IF b.fails < Threshold THEN b.fails + 1 ELSE b.fails
               d == [b EXCEPT !.fails = n]
    <3>1. n \in 0..Threshold
      BY DEF Breakers
    <3>2. d \in Breakers
      BY <3>1 DEF Breakers
    <3>3. Trip(d) \in Breakers
      BY <3>2 DEF Trip, Breakers
    <3> QED BY <3>2, <3>3 DEF RecordFailure, Breakers
  <2> QED BY <2>1, <2>2, <2>3
<1> QED BY <1>1, <1>2 DEF RecordSuccess

(* The loop over the models ends in a call or in failure; the model it     *)
(* calls is one of the plan, and the first it looks at when the request    *)
(* may not fail over.                                                      *)
LEMMA TryEffect ==
    ASSUME TypeOK, NEW r \in Tasks, NEW i \in Nat \ {0},
           NEW b \in [Models -> Breakers], Try(r, i, b)
    PROVE  /\ breakers' \in [Models -> Breakers]
           /\ \/ /\ stage' = [stage EXCEPT ![r] = "failing"]
                 /\ attempt' = attempt
              \/ \E j \in DOMAIN Plan[r] :
                    /\ stage' = [stage EXCEPT ![r] = "calling"]
                    /\ attempt' = [attempt EXCEPT ![r] = j]
                    /\ j = i \/ CanFailOver(r)
<1> DEFINE callable == {j \in i..Len(Plan[r]) : /\ Allows(b[Plan[r][j]])
                                                /\ j = i \/ CanFailOver(r)}
<1>1. Plan[r] \in Seq(Models)
  BY ServiceAssumption
<1>2. CASE /\ stage' = [stage EXCEPT ![r] = "failing"]
           /\ breakers' = b /\ UNCHANGED attempt
  BY <1>2
<1>3. CASE \E j \in callable :
              /\ stage' = [stage EXCEPT ![r] = "calling"]
              /\ breakers' = [b EXCEPT ![Plan[r][j]] = AfterAllows(@)]
              /\ attempt' = [attempt EXCEPT ![r] = j]
  <2>1. PICK j \in callable :
              /\ stage' = [stage EXCEPT ![r] = "calling"]
              /\ breakers' = [b EXCEPT ![Plan[r][j]] = AfterAllows(@)]
              /\ attempt' = [attempt EXCEPT ![r] = j]
    BY <1>3
  <2>2. j \in DOMAIN Plan[r] /\ Plan[r][j] \in Models /\ Allows(b[Plan[r][j]])
    BY <1>1
  <2>3. AfterAllows(b[Plan[r][j]]) \in Breakers
    BY <2>2, BreakerTypes
  <2>4. j = i \/ CanFailOver(r)
    OBVIOUS
  <2> QED BY <2>1, <2>2, <2>3, <2>4
<1> QED BY <1>2, <1>3 DEF Try

(* What starting a request does, buffered or streamed.                     *)
LEMMA BeginEffect ==
    ASSUME TypeOK, NEW r \in Tasks, Begin(r)
    PROVE  /\ breakers' \in [Models -> Breakers]
           /\ inFlight' = inFlight + 1
           /\ \E s \in {"streaming", "failing", "calling"} :
                 stage' = [stage EXCEPT ![r] = s]
           /\ \/ attempt' = attempt
              \/ \E j \in DOMAIN Plan[r] : /\ attempt' = [attempt EXCEPT ![r] = j]
                                           /\ j = 1 \/ CanFailOver(r)
<1>1. breakers \in [Models -> Breakers]
  BY DEF TypeOK
<1>2. CASE Try(r, 1, breakers)
  <2>1. 1 \in Nat \ {0}
    OBVIOUS
  <2> QED BY <1>1, <1>2, <2>1, TryEffect DEF Begin
<1>3. CASE /\ stage' = [stage EXCEPT ![r] = "streaming"]
           /\ UNCHANGED <<breakers, attempt>>
  BY <1>1, <1>3 DEF Begin
<1> QED BY <1>2, <1>3 DEF Begin

(* What a fault of the provider does: the request calls a later model, or  *)
(* it fails.                                                               *)
LEMMA ServerFaultEffect ==
    ASSUME TypeOK, NEW r \in Tasks, ServerFault(r)
    PROVE  /\ breakers' \in [Models -> Breakers]
           /\ \E s \in {"failing", "calling"} : stage' = [stage EXCEPT ![r] = s]
           /\ \/ attempt' = attempt
              \/ \E j \in DOMAIN Plan[r] : /\ attempt' = [attempt EXCEPT ![r] = j]
                                           /\ CanFailOver(r)
<1> DEFINE b == [breakers EXCEPT ![Model(r)] = RecordFailure(@)]
<1>1. breakers \in [Models -> Breakers] /\ Model(r) \in Models
  BY ServiceAssumption DEF TypeOK, Model
<1>2. b \in [Models -> Breakers]
  BY <1>1, BreakerTypes
<1>3. attempt[r] + 1 \in Nat \ {0}
  BY DEF TypeOK
<1>4. CASE CanFailOver(r) /\ Try(r, attempt[r] + 1, b)
  <2> HIDE DEF b
  <2> QED BY <1>2, <1>3, <1>4, TryEffect
<1>5. CASE /\ stage' = [stage EXCEPT ![r] = "failing"]
           /\ breakers' = b /\ UNCHANGED attempt
  BY <1>2, <1>5
<1> QED BY <1>4, <1>5 DEF ServerFault

-----------------------------------------------------------------------------
(***************************************************************************)
(* A step of one request: the types of what it changes, and what it leaves *)
(* of the others.                                                          *)
(***************************************************************************)
Acts(r) == Step(r) \/ Deadline(r) \/ Upset(r)

LEMMA ActsTyped ==
    ASSUME TypeOK, NEW r \in Tasks, Acts(r)
    PROVE  /\ stage' \in [Tasks -> Stages]
           /\ breakers' \in [Models -> Breakers]
           /\ attempt' \in [Tasks -> Nat]
           /\ \A u \in Tasks : attempt'[u] \in DOMAIN Plan[u]
           /\ text' \in [Tasks -> Endings]
           /\ \A u \in Tasks \ {r} : /\ stage'[u] = stage[u]
                                     /\ attempt'[u] = attempt[u]
                                     /\ text'[u] = text[u]
<1> DEFINE Goal == /\ stage' \in [Tasks -> Stages]
                   /\ breakers' \in [Models -> Breakers]
                   /\ attempt' \in [Tasks -> Nat]
                   /\ \A u \in Tasks : attempt'[u] \in DOMAIN Plan[u]
                   /\ text' \in [Tasks -> Endings]
                   /\ \A u \in Tasks \ {r} : /\ stage'[u] = stage[u]
                                             /\ attempt'[u] = attempt[u]
                                             /\ text'[u] = text[u]
<1>1. /\ stage \in [Tasks -> Stages] /\ breakers \in [Models -> Breakers]
      /\ attempt \in [Tasks -> Nat] /\ text \in [Tasks -> Endings]
      /\ \A u \in Tasks : attempt[u] \in DOMAIN Plan[u]
  BY DEF TypeOK
<1>2. DOMAIN Plan[r] \subseteq Nat /\ Model(r) \in Models
  BY <1>1, ServiceAssumption DEF Model
<1>3. ASSUME NEW s \in Stages, stage' = [stage EXCEPT ![r] = s],
             breakers' \in [Models -> Breakers], text' = text,
             \/ attempt' = attempt
             \/ \E j \in DOMAIN Plan[r] : attempt' = [attempt EXCEPT ![r] = j]
      PROVE  Goal
  BY <1>1, <1>2, <1>3
<1>4. CASE Reject(r) \/ LookupHit(r) \/ LookupMiss(r) \/ Reserve(r)
           \/ ReserveRefused(r) \/ Shed(r) \/ OtherFault(r) \/ Settle(r) \/ Unwound(r)
           \/ Deadline(r) \/ CancelWaiting(r)
  BY <1>1, <1>4 DEF Reject, LookupHit, LookupMiss, Reserve, ReserveRefused, Shed,
              OtherFault, Settle, Unwound, Deadline, CancelWaiting, Moves,
              Stages, Waiting, Generating, Cancelled, Ended
<1>5. CASE StreamFails(r) \/ StreamCloses(r) \/ BillStream(r) \/ Disconnect(r)
           \/ ReserveFails(r) \/ ShedFails(r) \/ BillStreamFails(r) \/ CancelOutside(r)
  BY <1>1, <1>5 DEF StreamFails, StreamCloses, BillStream, Disconnect,
              ReserveFails, ShedFails, BillStreamFails, CancelOutside, Raises, Moves,
              Stages, Streaming, Finalizing, Faulted, Cancelled, Ended
<1>6. CASE Store(r) \/ FailEnd(r) \/ SettleFails(r) \/ RefundFails(r) \/ CancelWork(r)
  BY <1>1, <1>6 DEF Store, FailEnd, SettleFails, RefundFails, CancelWork, Raises,
              Moves, Stages, Faulted, Cancelled, Ended
<1>7. CASE CloseStream(r)
  BY <1>1, <1>7 DEF CloseStream, Moves, Stages, Faulted, Ended
<1>8. CASE StreamCompletes(r)
  BY <1>1, <1>8 DEF StreamCompletes, Moves, Stages, Streaming, Endings
<1>9. CASE Generated(r)
  <2>1. breakers' \in [Models -> Breakers]
    BY <1>1, <1>2, <1>9, BreakerTypes DEF Generated
  <2> QED BY <1>1, <1>9, <2>1 DEF Generated, Moves, Stages, Generating, Endings
<1>10. CASE ServerFault(r)
  <2>1. {"failing", "calling"} \subseteq Stages /\ text' = text
    BY <1>10 DEF ServerFault, Stages, Generating
  <2>2. PICK s \in {"failing", "calling"} : stage' = [stage EXCEPT ![r] = s]
    BY <1>10, ServerFaultEffect
  <2>3. /\ breakers' \in [Models -> Breakers]
        /\ \/ attempt' = attempt
           \/ \E j \in DOMAIN Plan[r] : attempt' = [attempt EXCEPT ![r] = j]
    BY <1>10, ServerFaultEffect
  <2> QED BY <1>1, <1>3, <2>1, <2>2, <2>3
<1>11. CASE Queue(r)
  BY <1>1, <1>11 DEF Queue
<1>12. CASE AdmitFast(r) \/ Wake(r)
  <2>1. CASE Begin(r)
    <3>1. {"streaming", "failing", "calling"} \subseteq Stages /\ text' = text
      BY <1>12 DEF AdmitFast, Wake, Stages, Generating, Streaming
    <3>2. PICK s \in {"streaming", "failing", "calling"} :
                stage' = [stage EXCEPT ![r] = s]
      BY <2>1, BeginEffect
    <3>3. /\ breakers' \in [Models -> Breakers]
          /\ \/ attempt' = attempt
             \/ \E j \in DOMAIN Plan[r] : attempt' = [attempt EXCEPT ![r] = j]
      BY <2>1, BeginEffect
    <3> QED BY <1>1, <1>3, <3>1, <3>2, <3>3
  <2>2. CASE ~Begin(r)
    BY <1>1, <1>12, <2>2 DEF AdmitFast, Wake
  <2> QED BY <2>1, <2>2
<1> QED BY <1>4, <1>5, <1>6, <1>7, <1>8, <1>9, <1>10, <1>11, <1>12
        DEF Acts, Step, Upset

-----------------------------------------------------------------------------
(***************************************************************************)
(* Slots.                                                                  *)
(***************************************************************************)

LEMMA SlotFitsStep ==
    ASSUME TypeOK, \A u \in Tasks : SlotFits(u), [Next]_vars
    PROVE  \A u \in Tasks : SlotFits(u)'
<1> USE DEF SlotFits
<1>1. slot \in [Tasks -> G!SlotStates] /\ stage \in [Tasks -> Stages]
  BY DEF TypeOK, G!TypeOK
<1>2. ASSUME NEW r \in Tasks, Acts(r)
      PROVE  \A u \in Tasks : SlotFits(u)'
  <2>1. \A u \in Tasks \ {r} : stage'[u] = stage[u]
    BY <1>2, ActsTyped
  <2>2. stage' \in [Tasks -> Stages]
    BY <1>2, ActsTyped
  <2>3. ASSUME OthersStay(r) \/ UNCHANGED slot, SlotFits(r)'
        PROVE  \A u \in Tasks : SlotFits(u)'
    BY <1>1, <2>1, <2>3 DEF OthersStay, Working, Generating, Streaming, Finalizing
  <2> USE DEF Working, Generating, Streaming, Finalizing
  <2>4. CASE Reject(r) \/ LookupHit(r) \/ LookupMiss(r) \/ Reserve(r)
             \/ ReserveRefused(r) \/ Shed(r) \/ Generated(r) \/ OtherFault(r)
             \/ Settle(r) \/ StreamCompletes(r) \/ StreamFails(r) \/ StreamCloses(r)
             \/ BillStream(r)
    <3>1. UNCHANGED slot
      BY <2>4 DEF Reject, LookupHit, LookupMiss, Reserve, ReserveRefused, Shed,
                  Generated, OtherFault, Settle, StreamCompletes, StreamFails,
                  StreamCloses, BillStream, gateVars
    <3>2. SlotFits(r)'
      BY <1>1, <2>4, <3>1
         DEF Reject, LookupHit, LookupMiss, Reserve, ReserveRefused, Shed, Generated,
             OtherFault, Settle, StreamCompletes, StreamFails, StreamCloses,
             BillStream, Moves
    <3> QED BY <2>3, <3>1, <3>2
  <2>5. CASE Disconnect(r) \/ ReserveFails(r) \/ ShedFails(r) \/ BillStreamFails(r)
             \/ CancelOutside(r)
    <3>1. UNCHANGED slot
      BY <2>5 DEF Disconnect, ReserveFails, ShedFails, BillStreamFails,
                  CancelOutside, gateVars
    <3>2. SlotFits(r)'
      BY <1>1, <2>5, <3>1 DEF Disconnect, ReserveFails, ShedFails, BillStreamFails,
                              CancelOutside, Raises, Moves
    <3> QED BY <2>3, <3>1, <3>2
  <2>6. CASE ServerFault(r)
    <3>1. UNCHANGED slot /\ stage[r] = "calling"
      BY <2>6 DEF ServerFault, gateVars
    <3>2. stage'[r] \in {"failing", "calling"}
      BY <1>1, <2>6, ServerFaultEffect
    <3> QED BY <1>1, <2>3, <3>1, <3>2
  <2>7. CASE Store(r) \/ FailEnd(r) \/ CloseStream(r) \/ SettleFails(r)
             \/ RefundFails(r) \/ CancelWork(r)
    <3>1. slot[r] = "in" /\ slot'[r] = "out" /\ OthersStay(r)
      BY <1>1, <2>7, FreesItsOwn, GateEffects
    <3>2. stage'[r] \in {"ok", "cut", "failed", "cancelled", "dropped", "unbilled",
                         "unrefunded"}
      BY <1>1, <2>7 DEF Store, FailEnd, CloseStream, SettleFails, RefundFails,
                        CancelWork, Raises, Moves
    <3> QED BY <2>3, <3>1, <3>2
  <2>8. CASE Queue(r)
    <3>1. slot'[r] = "parked" /\ OthersStay(r)
      BY <1>1, <2>8, GateEffects DEF Queue
    <3>2. stage'[r] = "admitting"
      BY <2>8 DEF Queue
    <3> QED BY <2>3, <3>1, <3>2
  <2>9. CASE AdmitFast(r) \/ Wake(r)
    <3>1. slot'[r] \in {"in", "parked"} /\ OthersStay(r) /\ stage[r] = "admitting"
      BY <1>1, <2>9, GateEffects DEF AdmitFast, Wake
    <3>2. slot'[r] = "in" => stage'[r] \in {"streaming", "failing", "calling"}
      <4>1. ASSUME slot'[r] = "in" PROVE Begin(r)
        BY <2>9, <4>1 DEF AdmitFast, Wake
      <4> QED BY <1>1, <4>1, BeginEffect
    <3>3. slot'[r] # "in" => stage'[r] = "admitting"
      <4>1. G!AcquireFast(r) => slot'[r] = "in"
        BY <1>1, GateEffects
      <4> QED BY <2>9, <4>1 DEF AdmitFast, Wake
    <3>4. SlotFits(r)'
      BY <3>1, <3>2, <3>3
    <3> QED BY <2>3, <3>1, <3>4
  <2>10. CASE Deadline(r) \/ CancelWaiting(r)
    <3>1. slot'[r] = "cancelling" /\ OthersStay(r)
      BY <1>1, <2>10, GateEffects DEF Deadline, CancelWaiting
    <3>2. stage'[r] \in {"expired", "aborting"}
      BY <1>1, <2>10 DEF Deadline, CancelWaiting, Moves
    <3> QED BY <2>3, <3>1, <3>2
  <2>11. CASE Unwound(r)
    <3>1. slot'[r] = "out" /\ OthersStay(r)
      BY <1>1, <2>11, GateEffects DEF Unwound
    <3>2. stage'[r] \in {"shedding", "cancelled"}
      BY <1>1, <2>11 DEF Unwound, Moves
    <3> QED BY <2>3, <3>1, <3>2
  <2> QED BY <1>2, <2>4, <2>5, <2>6, <2>7, <2>8, <2>9, <2>10, <2>11
          DEF Acts, Step, Upset
<1>3. ASSUME NEW c \in Capacities, Resize(c)
      PROVE  \A u \in Tasks : SlotFits(u)'
  <2>1. stage' = stage /\ G!Resize(c)
    BY <1>3 DEF Resize
  <2>2. \A u \in Tasks : \/ slot'[u] = slot[u]
                         \/ slot[u] = "parked" /\ slot'[u] = "notified"
    BY <1>1, <2>1, ResizeEffect
  <2> QED BY <1>1, <2>1, <2>2
<1>4. CASE (\E m \in Models : Evict(m)) \/ Tick \/ UNCHANGED vars
  BY <1>4 DEF Evict, Tick, vars, gateVars
<1> QED BY <1>2, <1>3, <1>4 DEF Next, Acts

-----------------------------------------------------------------------------
(***************************************************************************)
(* Bills.                                                                  *)
(***************************************************************************)
HoldingStages == {"shedding"} \cup Waiting \cup (Generating \ {"storing"})
                     \cup Streaming \cup {"billing"}

(* What the bill of a request may be at each of its stages.                *)
BillFits(r) ==
    /\ stage[r] \in {"new", "reserving", "cached", "rejected"} => bill[r] = "none"
    /\ stage[r] \in HoldingStages => bill[r] = "held"
    /\ stage[r] \in {"storing", "closing", "ok", "cut"} => bill[r] = "charged"
    /\ stage[r] \in {"failed", "shed"} => bill[r] = "refunded"
    /\ stage[r] \in {"losing", "unbilled"} => bill[r] \in {"held", "charged"}
    /\ stage[r] = "unrefunded" => bill[r] \in {"held", "refunded"}
    /\ stage[r] = "unavailable" => bill[r] # "charged"

LEMMA BillTyped ==
    ASSUME bill \in [Tasks -> {"none", "held", "charged", "refunded"}], [Next]_vars
    PROVE  bill' \in [Tasks -> {"none", "held", "charged", "refunded"}]
  BY StepsOfTheBill DEF Called, Hold, Charge, Refund, Close

LEMMA BillFitsStep ==
    ASSUME TypeOK, \A u \in Tasks : BillFits(u), [Next]_vars
    PROVE  \A u \in Tasks : BillFits(u)'
<1> USE DEF BillFits
<1>1. /\ bill \in [Tasks -> {"none", "held", "charged", "refunded"}]
      /\ stage \in [Tasks -> Stages]
  BY DEF TypeOK
<1>2. ASSUME NEW r \in Tasks, Acts(r)
      PROVE  \A u \in Tasks : BillFits(u)'
  <2>1. \A u \in Tasks \ {r} : stage'[u] = stage[u]
    BY <1>2, ActsTyped
  <2>2. ASSUME UNCHANGED bill \/ Hold(r) \/ Charge(r) \/ Refund(r),
               BillFits(r)'
        PROVE  \A u \in Tasks : BillFits(u)'
    BY <1>1, <2>1, <2>2 DEF Hold, Charge, Refund, Close
  <2> USE DEF HoldingStages, Waiting, Generating, Streaming
  <2>3. CASE Reject(r) \/ LookupHit(r) \/ LookupMiss(r) \/ ReserveRefused(r)
             \/ Generated(r) \/ OtherFault(r) \/ StreamCompletes(r)
             \/ StreamFails(r) \/ StreamCloses(r) \/ Disconnect(r)
    <3>1. UNCHANGED bill
      BY <2>3 DEF Reject, LookupHit, LookupMiss, ReserveRefused, Generated,
                  OtherFault, StreamCompletes, StreamFails, StreamCloses, Disconnect
    <3>2. BillFits(r)'
      BY <1>1, <2>3, <3>1
         DEF Reject, LookupHit, LookupMiss, ReserveRefused, Generated, OtherFault,
             StreamCompletes, StreamFails, StreamCloses, Disconnect, Moves
    <3> QED BY <2>2, <3>1, <3>2
  <2>4. CASE Deadline(r) \/ CancelWaiting(r) \/ Unwound(r) \/ Store(r)
             \/ CloseStream(r)
    <3>1. UNCHANGED bill
      BY <2>4 DEF Deadline, CancelWaiting, Unwound, Store, CloseStream
    <3>2. BillFits(r)'
      BY <1>1, <2>4, <3>1
         DEF Deadline, CancelWaiting, Unwound, Store, CloseStream, Moves
    <3> QED BY <2>2, <3>1, <3>2
  <2>5. CASE Reserve(r) \/ Settle(r) \/ BillStream(r) \/ Shed(r) \/ FailEnd(r)
    <3>1. Hold(r) \/ Charge(r) \/ Refund(r)
      BY <2>5 DEF Reserve, Settle, BillStream, Shed, FailEnd
    <3>2. BillFits(r)'
      BY <1>1, <2>5 DEF Reserve, Settle, BillStream, Shed, FailEnd, Moves,
                        Hold, Charge, Refund, Close
    <3> QED BY <2>2, <3>1, <3>2
  <2>6. CASE ReserveFails(r) \/ ShedFails(r) \/ BillStreamFails(r)
             \/ SettleFails(r) \/ RefundFails(r)
    <3>1. UNCHANGED bill \/ Hold(r) \/ Charge(r) \/ Refund(r)
      BY <2>6 DEF ReserveFails, ShedFails, BillStreamFails, SettleFails,
                  RefundFails, Raises
    <3>2. BillFits(r)'
      BY <1>1, <2>6 DEF ReserveFails, ShedFails, BillStreamFails, SettleFails,
                        RefundFails, Raises, Moves, Hold, Charge, Refund, Close
    <3> QED BY <2>2, <3>1, <3>2
  <2>7. CASE CancelWork(r) \/ CancelOutside(r)
    <3>1. UNCHANGED bill \/ Hold(r) \/ Charge(r) \/ Refund(r)
      BY <2>7 DEF CancelWork, CancelOutside, Raises
    <3>2. stage'[r] \in {"cancelled", "dropped"}
      BY <1>1, <2>7 DEF CancelWork, CancelOutside, Raises, Moves
    <3> QED BY <2>2, <3>1, <3>2
  <2>8. CASE ServerFault(r)
    <3>1. UNCHANGED bill /\ stage[r] = "calling"
      BY <2>8 DEF ServerFault
    <3>2. stage'[r] \in {"failing", "calling"}
      BY <1>1, <2>8, ServerFaultEffect
    <3> QED BY <1>1, <2>2, <3>1, <3>2
  <2>9. CASE Queue(r) \/ AdmitFast(r) \/ Wake(r)
    <3>1. UNCHANGED bill /\ stage[r] = "admitting"
      BY <2>9 DEF Queue, AdmitFast, Wake
    <3>2. stage'[r] \in {"admitting", "streaming", "failing", "calling"}
      BY <1>1, <2>9, BeginEffect DEF Queue, AdmitFast, Wake
    <3> QED BY <1>1, <2>2, <3>1, <3>2
  <2> QED BY <1>2, <2>3, <2>4, <2>5, <2>6, <2>7, <2>8, <2>9 DEF Acts, Step, Upset
<1>3. CASE (\E c \in Capacities : Resize(c)) \/ (\E m \in Models : Evict(m))
           \/ Tick \/ UNCHANGED vars
  BY <1>3 DEF Resize, Evict, Tick, vars
<1> QED BY <1>2, <1>3 DEF Next, Acts

-----------------------------------------------------------------------------
(***************************************************************************)
(* The gauge.                                                              *)
(***************************************************************************)
CountedStages == (Working \ {"storing"}) \cup {"dropped", "unrefunded"}
Counted == {r \in Tasks : stage[r] \in CountedStages}

LEMMA CountedIsFinite ==
    /\ IsFiniteSet(Counted) /\ Cardinality(Counted) \in Nat
    /\ IsFiniteSet(Tasks) /\ Cardinality(Tasks) \in Nat
    /\ Cardinality(Counted) <= Cardinality(Tasks)
<1>1. Counted \subseteq Tasks
  BY DEF Counted
<1> QED BY <1>1, ServiceAssumption, FS_Subset, FS_CardinalityType

(* A request enters or leaves the count, and the gauge follows; or neither *)
(* changes.                                                                *)
LEMMA GaugeFollows ==
    ASSUME stage \in [Tasks -> Stages], stage' \in [Tasks -> Stages],
           inFlight = Cardinality(Counted), NEW r \in Tasks,
           \A u \in Tasks \ {r} : stage'[u] = stage[u],
           \/ /\ inFlight' = inFlight
              /\ stage[r] \in CountedStages <=> stage'[r] \in CountedStages
           \/ /\ inFlight' = inFlight + 1
              /\ stage[r] \notin CountedStages /\ stage'[r] \in CountedStages
           \/ /\ Finished
              /\ stage[r] \in CountedStages /\ stage'[r] \notin CountedStages
    PROVE  inFlight' = Cardinality(Counted')
<1>1. CASE /\ inFlight' = inFlight
           /\ stage[r] \in CountedStages <=> stage'[r] \in CountedStages
  <2>1. Counted' = Counted
    BY <1>1 DEF Counted
  <2> QED BY <1>1, <2>1
<1>2. CASE /\ inFlight' = inFlight + 1
           /\ stage[r] \notin CountedStages /\ stage'[r] \in CountedStages
  <2>1. Counted' = Counted \cup {r} /\ r \notin Counted
    BY <1>2 DEF Counted
  <2> QED BY <1>2, <2>1, CountedIsFinite, FS_AddElement
<1>3. CASE /\ Finished
           /\ stage[r] \in CountedStages /\ stage'[r] \notin CountedStages
  <2>1. Counted' = Counted \ {r} /\ r \in Counted
    BY <1>3 DEF Counted
  <2>2. Cardinality(Counted) # 0
    BY <2>1, CountedIsFinite, FS_EmptySet
  <2>3. Cardinality(Counted \ {r}) = Cardinality(Counted) - 1
    BY <2>1, CountedIsFinite, FS_RemoveElement
  <2> QED BY <1>3, <2>1, <2>2, <2>3, CountedIsFinite DEF Finished
<1> QED BY <1>1, <1>2, <1>3

LEMMA GaugeStep ==
    ASSUME TypeOK, inFlight = Cardinality(Counted), [Next]_vars
    PROVE  inFlight' = Cardinality(Counted')
<1>1. stage \in [Tasks -> Stages]
  BY DEF TypeOK
<1>2. ASSUME NEW r \in Tasks, Acts(r)
      PROVE  inFlight' = Cardinality(Counted')
  <2>1. stage' \in [Tasks -> Stages] /\ \A u \in Tasks \ {r} : stage'[u] = stage[u]
    BY <1>2, ActsTyped
  <2> USE DEF CountedStages, Working, Generating, Streaming, Finalizing
  <2>2. CASE Reject(r) \/ LookupHit(r) \/ LookupMiss(r) \/ ReserveRefused(r)
             \/ Reserve(r) \/ Shed(r) \/ Deadline(r) \/ CancelWaiting(r)
             \/ Unwound(r) \/ Store(r)
    <3>1. /\ inFlight' = inFlight
          /\ stage[r] \notin CountedStages /\ stage'[r] \notin CountedStages
      BY <1>1, <2>2
         DEF Reject, LookupHit, LookupMiss, ReserveRefused, Reserve, Shed, Deadline,
             CancelWaiting, Unwound, Store, Moves
    <3> QED BY <1>1, <2>1, <3>1, GaugeFollows
  <2>3. CASE ReserveFails(r) \/ ShedFails(r) \/ CancelOutside(r)
    <3>1. /\ inFlight' = inFlight
          /\ stage[r] \notin CountedStages /\ stage'[r] \notin CountedStages
      BY <1>1, <2>3 DEF ReserveFails, ShedFails, CancelOutside, Raises, Moves
    <3> QED BY <1>1, <2>1, <3>1, GaugeFollows
  <2>4. CASE Generated(r) \/ OtherFault(r) \/ StreamCompletes(r) \/ StreamFails(r)
             \/ StreamCloses(r) \/ Disconnect(r) \/ BillStream(r)
    <3>1. /\ inFlight' = inFlight
          /\ stage[r] \in CountedStages /\ stage'[r] \in CountedStages
      BY <1>1, <2>4 DEF Generated, OtherFault, StreamCompletes, StreamFails,
                        StreamCloses, Disconnect, BillStream, Moves
    <3> QED BY <1>1, <2>1, <3>1, GaugeFollows
  <2>5. CASE RefundFails(r) \/ BillStreamFails(r)
    <3>1. /\ inFlight' = inFlight
          /\ stage[r] \in CountedStages /\ stage'[r] \in CountedStages
      BY <1>1, <2>5 DEF RefundFails, BillStreamFails, Raises, Moves
    <3> QED BY <1>1, <2>1, <3>1, GaugeFollows
  <2>6. CASE CancelWork(r)
    <3>1. /\ inFlight' = inFlight
          /\ stage[r] \in CountedStages <=> stage'[r] \in CountedStages
      BY <1>1, <2>6 DEF CancelWork, Raises, Moves
    <3> QED BY <1>1, <2>1, <3>1, GaugeFollows
  <2>7. CASE Settle(r) \/ FailEnd(r) \/ SettleFails(r) \/ CloseStream(r)
    <3>1. /\ Finished
          /\ stage[r] \in CountedStages /\ stage'[r] \notin CountedStages
      BY <1>1, <2>7 DEF Settle, FailEnd, SettleFails, CloseStream, Raises, Moves
    <3> QED BY <1>1, <2>1, <3>1, GaugeFollows
  <2>8. CASE ServerFault(r)
    <3>1. inFlight' = inFlight /\ stage[r] = "calling"
      BY <2>8 DEF ServerFault
    <3>2. stage'[r] \in {"failing", "calling"}
      BY <1>1, <2>8, ServerFaultEffect
    <3> QED BY <1>1, <2>1, <3>1, <3>2, GaugeFollows
  <2>9. CASE Queue(r) \/ AdmitFast(r) \/ Wake(r)
    <3>1. stage[r] = "admitting"
      BY <2>9 DEF Queue, AdmitFast, Wake
    <3>2. CASE Begin(r)
      <4>1. /\ inFlight' = inFlight + 1
            /\ stage'[r] \in {"streaming", "failing", "calling"}
        BY <1>1, <3>2, BeginEffect
      <4> QED BY <1>1, <2>1, <3>1, <4>1, GaugeFollows
    <3>3. CASE ~Begin(r)
      <4>1. inFlight' = inFlight /\ stage' = stage
        BY <2>9, <3>3 DEF Queue, AdmitFast, Wake
      <4> QED BY <1>1, <2>1, <4>1, GaugeFollows
    <3> QED BY <3>2, <3>3
  <2> QED BY <1>2, <2>2, <2>3, <2>4, <2>5, <2>6, <2>7, <2>8, <2>9
          DEF Acts, Step, Upset
<1>3. CASE (\E c \in Capacities : Resize(c)) \/ (\E m \in Models : Evict(m))
           \/ Tick \/ UNCHANGED vars
  BY <1>3 DEF Resize, Evict, Tick, vars, Counted
<1> QED BY <1>2, <1>3 DEF Next, Acts

-----------------------------------------------------------------------------
(***************************************************************************)
(* Answers.                                                                *)
(***************************************************************************)

(* What handle() settles and stores is a complete text.                    *)
BufferedFits(r) == stage[r] \in {"settling", "storing"} => text[r] = "complete"

LEMMA BufferedFitsStep ==
    ASSUME TypeOK, \A u \in Tasks : BufferedFits(u), [Next]_vars
    PROVE  \A u \in Tasks : BufferedFits(u)'
<1> USE DEF BufferedFits
<1>1. stage \in [Tasks -> Stages] /\ text \in [Tasks -> Endings]
  BY DEF TypeOK
<1>2. ASSUME NEW r \in Tasks, Acts(r)
      PROVE  \A u \in Tasks : BufferedFits(u)'
  <2>1. \A u \in Tasks \ {r} : stage'[u] = stage[u] /\ text'[u] = text[u]
    BY <1>2, ActsTyped
  <2>2. SUFFICES BufferedFits(r)'
    BY <2>1
  <2>3. CASE Generated(r)
    BY <1>1, <2>3 DEF Generated
  <2>4. CASE Settle(r)
    BY <1>1, <2>4 DEF Settle, Moves
  <2>5. CASE Reject(r) \/ LookupHit(r) \/ LookupMiss(r) \/ Reserve(r)
             \/ ReserveRefused(r) \/ Shed(r) \/ OtherFault(r) \/ Store(r)
             \/ FailEnd(r) \/ Deadline(r) \/ CancelWaiting(r) \/ Unwound(r)
    <3>1. stage'[r] \notin {"settling", "storing"}
      BY <1>1, <2>5
         DEF Reject, LookupHit, LookupMiss, Reserve, ReserveRefused, Shed, OtherFault,
             Store, FailEnd, Deadline, CancelWaiting, Unwound, Moves
    <3> QED BY <3>1
  <2>6. CASE StreamCompletes(r) \/ StreamFails(r) \/ StreamCloses(r)
             \/ BillStream(r) \/ Disconnect(r) \/ CloseStream(r)
    <3>1. stage'[r] \notin {"settling", "storing"}
      BY <1>1, <2>6 DEF StreamCompletes, StreamFails, StreamCloses, BillStream,
                        Disconnect, CloseStream, Moves
    <3> QED BY <3>1
  <2>7. CASE ReserveFails(r) \/ ShedFails(r) \/ BillStreamFails(r)
             \/ SettleFails(r) \/ RefundFails(r) \/ CancelWork(r) \/ CancelOutside(r)
    <3>1. stage'[r] \notin {"settling", "storing"}
      BY <1>1, <2>7 DEF ReserveFails, ShedFails, BillStreamFails, SettleFails,
                        RefundFails, CancelWork, CancelOutside, Raises, Moves
    <3> QED BY <3>1
  <2>8. CASE ServerFault(r)
    <3>1. stage'[r] \in {"failing", "calling"}
      BY <1>1, <2>8, ServerFaultEffect
    <3> QED BY <3>1
  <2>9. CASE Queue(r) \/ AdmitFast(r) \/ Wake(r)
    <3>1. stage[r] = "admitting"
      BY <2>9 DEF Queue, AdmitFast, Wake
    <3>2. stage'[r] \in {"admitting", "streaming", "failing", "calling"}
      BY <1>1, <2>9, <3>1, BeginEffect DEF Queue, AdmitFast, Wake
    <3> QED BY <3>2
  <2> QED BY <1>2, <2>3, <2>4, <2>5, <2>6, <2>7, <2>8, <2>9 DEF Acts, Step, Upset
<1>3. CASE (\E c \in Capacities : Resize(c)) \/ (\E m \in Models : Evict(m))
           \/ Tick \/ UNCHANGED vars
  BY <1>3 DEF Resize, Evict, Tick, vars
<1> QED BY <1>2, <1>3 DEF Next, Acts

(* A pinned request stays on the first model of its plan, and a cached     *)
(* text is its own model's, and of a call or stream that ended normally.   *)
KeptTexts == {Empty} \cup {Text(m, ends) : m \in Models,
                                          ends \in Endings \ {"partial"}}

AnswersFit ==
    /\ cache \in [Models -> KeptTexts]
    /\ \A m \in Models : cache[m] # Empty => /\ cache[m].by = {m}
                                             /\ cache[m].ends # "partial"
    /\ \A r \in Pinned : attempt[r] = 1

LEMMA AnswersFitStep ==
    ASSUME TypeOK, AnswersFit, \A u \in Tasks : BufferedFits(u), [Next]_vars
    PROVE  AnswersFit'
<1> USE DEF AnswersFit
<1>1. /\ stage \in [Tasks -> Stages]
      /\ attempt \in [Tasks -> Nat]
      /\ \A u \in Tasks : attempt[u] \in DOMAIN Plan[u]
      /\ text \in [Tasks -> Endings]
  BY DEF TypeOK
<1>2. Pinned \subseteq Tasks
  BY ServiceAssumption
<1>3. ASSUME NEW r \in Tasks, Acts(r)
      PROVE  AnswersFit'
  <2>1. Model(r) \in Models
    BY <1>1, ServiceAssumption DEF Model
  <2>2. CASE Store(r) \/ CloseStream(r) \/ CancelWork(r)
    <3>1. \/ cache' = cache
          \/ /\ cache' = [cache EXCEPT ![Model(r)] = Text(Model(r), text[r])]
             /\ text[r] # "partial"
      BY <2>2 DEF Store, CloseStream, CancelWork, Moves, BufferedFits
    <3>2. attempt' = attempt
      BY <2>2 DEF Store, CloseStream, CancelWork
    <3>3. CASE text[r] # "partial"
      <4>1. /\ Text(Model(r), text[r]) \in KeptTexts
            /\ Text(Model(r), text[r]).by = {Model(r)}
            /\ Text(Model(r), text[r]).ends = text[r]
        <5>1. text[r] \in Endings \ {"partial"}
          BY <1>1, <3>3
        <5>2. Text(Model(r), text[r]) \in KeptTexts
          BY <2>1, <5>1 DEF KeptTexts
        <5> QED BY <5>2 DEF Text
      <4> QED BY <2>1, <3>1, <3>2, <3>3, <4>1
    <3>4. CASE cache' = cache
      BY <3>2, <3>4
    <3> QED BY <3>1, <3>3, <3>4
  <2>3. CASE AdmitFast(r) \/ Wake(r)
    <3>1. cache' = cache
      BY <2>3 DEF AdmitFast, Wake
    <3>2. r \in Pinned => attempt'[r] = 1
      BY <1>1, <2>3, BeginEffect DEF AdmitFast, Wake, CanFailOver
    <3>3. \A u \in Tasks \ {r} : attempt'[u] = attempt[u]
      BY <1>3, ActsTyped
    <3> QED BY <1>2, <3>1, <3>2, <3>3
  <2>4. CASE ServerFault(r)
    <3>1. cache' = cache
      BY <2>4 DEF ServerFault
    <3>2. r \in Pinned => attempt' = attempt
      BY <2>4, ServerFaultEffect DEF CanFailOver
    <3>3. \A u \in Tasks \ {r} : attempt'[u] = attempt[u]
      BY <1>3, ActsTyped
    <3> QED BY <1>2, <3>1, <3>2, <3>3
  <2>5. CASE Reject(r) \/ LookupHit(r) \/ LookupMiss(r) \/ Reserve(r)
             \/ ReserveRefused(r) \/ Shed(r) \/ Generated(r) \/ OtherFault(r)
             \/ Settle(r) \/ FailEnd(r) \/ SettleFails(r) \/ RefundFails(r)
    <3>1. UNCHANGED <<cache, attempt>>
      BY <2>5 DEF Reject, LookupHit, LookupMiss, Reserve, ReserveRefused, Shed,
                  Generated, OtherFault, Settle, FailEnd, SettleFails, RefundFails
    <3> QED BY <3>1
  <2>6. CASE Queue(r) \/ Deadline(r) \/ CancelWaiting(r) \/ Unwound(r)
             \/ StreamCompletes(r) \/ StreamFails(r) \/ StreamCloses(r)
             \/ BillStream(r) \/ Disconnect(r)
    <3>1. UNCHANGED <<cache, attempt>>
      BY <2>6 DEF Queue, Deadline, CancelWaiting, Unwound, StreamCompletes,
                  StreamFails, StreamCloses, BillStream, Disconnect
    <3> QED BY <3>1
  <2>7. CASE ReserveFails(r) \/ ShedFails(r) \/ BillStreamFails(r)
             \/ CancelOutside(r)
    <3>1. UNCHANGED <<cache, attempt>>
      BY <2>7 DEF ReserveFails, ShedFails, BillStreamFails, CancelOutside
    <3> QED BY <3>1
  <2> QED BY <1>3, <2>2, <2>3, <2>4, <2>5, <2>6, <2>7 DEF Acts, Step, Upset
<1>4. ASSUME NEW m \in Models, Evict(m)
      PROVE  AnswersFit'
  <2>1. cache' = [cache EXCEPT ![m] = Empty] /\ attempt' = attempt
    BY <1>4 DEF Evict
  <2>2. Empty \in KeptTexts
    BY DEF KeptTexts
  <2> QED BY <2>1, <2>2
<1>5. CASE (\E c \in Capacities : Resize(c)) \/ Tick \/ UNCHANGED vars
  <2>1. UNCHANGED <<cache, attempt>>
    BY <1>5 DEF Resize, Tick, vars
  <2> QED BY <2>1
<1> QED BY <1>3, <1>4, <1>5 DEF Next, Acts

-----------------------------------------------------------------------------
(***************************************************************************)
(* The inductive invariant and what follows from it.                       *)
(***************************************************************************)
ServiceInv ==
    /\ TypeOK
    /\ G!GateInv
    /\ \A r \in Tasks : SlotFits(r) /\ BillFits(r)
    /\ inFlight = Cardinality(Counted)
    /\ \A r \in Tasks : BufferedFits(r)
    /\ AnswersFit

Texts == [by : SUBSET Models, ends : Endings \cup {"nowhere"}]

LEMMA ServiceInvInit == Init => ServiceInv
<1> SUFFICES ASSUME Init PROVE ServiceInv
  OBVIOUS
<1>1. G!GateInv
  BY GateKeepsInv DEF Init
<1>2. \A r \in Tasks : 1 \in DOMAIN Plan[r]
  BY ServiceAssumption
<1>3. Counted = {}
  BY DEF Init, Counted, CountedStages, Working, Generating, Streaming, Finalizing
<1>4. inFlight = Cardinality(Counted)
  BY <1>3, FS_EmptySet DEF Init
<1>5. \A r \in Tasks : SlotFits(r) /\ BillFits(r) /\ BufferedFits(r)
  BY DEF Init, G!Init, SlotFits, BillFits, BufferedFits, Working, Generating, Streaming,
         Finalizing, HoldingStages, Waiting
<1>6. AnswersFit
  BY ServiceAssumption DEF Init, AnswersFit, KeptTexts
<1>7. TypeOK
  <2>1. cache \in [Models -> Texts]
    BY DEF Init, Empty, Texts
  <2>2. breakers \in [Models -> Breakers]
    BY BreakerTypes DEF Init
  <2>3. inFlight \in 0..Cardinality(Tasks)
    BY CountedIsFinite DEF Init
  <2> QED BY <1>1, <1>2, <2>1, <2>2, <2>3
          DEF Init, TypeOK, G!GateInv, Stages, Endings, Texts
<1> QED BY <1>1, <1>4, <1>5, <1>6, <1>7 DEF ServiceInv

LEMMA ServiceInvStep == ServiceInv /\ [Next]_vars => ServiceInv'
<1> SUFFICES ASSUME ServiceInv, [Next]_vars PROVE ServiceInv'
  OBVIOUS
<1>1. TypeOK /\ AnswersFit /\ inFlight = Cardinality(Counted)
  BY DEF ServiceInv
<1>2. G!GateInv'
  BY StepsOfTheGate, GateKeepsInv DEF ServiceInv
<1>3. \A r \in Tasks : SlotFits(r)'
  BY <1>1, SlotFitsStep DEF ServiceInv
<1>4. \A r \in Tasks : BillFits(r)'
  BY <1>1, BillFitsStep DEF ServiceInv
<1>5. inFlight' = Cardinality(Counted')
  BY <1>1, GaugeStep
<1>6. AnswersFit'
  BY <1>1, AnswersFitStep DEF ServiceInv
<1>8. \A r \in Tasks : BufferedFits(r)'
  BY <1>1, BufferedFitsStep DEF ServiceInv
<1>7. TypeOK'
  <2>1. bill' \in [Tasks -> {"none", "held", "charged", "refunded"}]
    BY <1>1, BillTyped DEF TypeOK
  <2>2. inFlight' \in 0..Cardinality(Tasks)
    <3>1. (Cardinality(Counted) \in Nat /\ Cardinality(Counted) <= Cardinality(Tasks))'
      BY CountedIsFinite, PTL
    <3> QED BY <1>5, <3>1, CountedIsFinite
  <2>3. cache' \in [Models -> Texts]
    <3>1. KeptTexts \subseteq Texts
      <4>1. Empty \in Texts
        BY DEF Empty, Texts
      <4>2. ASSUME NEW m \in Models, NEW ends \in Endings
            PROVE  Text(m, ends) \in Texts
        <5>1. {m} \in SUBSET Models
          OBVIOUS
        <5> QED BY <5>1 DEF Text, Texts
      <4> QED BY <4>1, <4>2 DEF KeptTexts
    <3> QED BY <1>6, <3>1 DEF AnswersFit
  <2>4. /\ stage' \in [Tasks -> Stages]
        /\ breakers' \in [Models -> Breakers]
        /\ attempt' \in [Tasks -> Nat]
        /\ \A u \in Tasks : attempt'[u] \in DOMAIN Plan[u]
        /\ text' \in [Tasks -> Endings]
    <3>1. ASSUME NEW r \in Tasks, Acts(r)
          PROVE  /\ stage' \in [Tasks -> Stages]
                 /\ breakers' \in [Models -> Breakers]
                 /\ attempt' \in [Tasks -> Nat]
                 /\ \A u \in Tasks : attempt'[u] \in DOMAIN Plan[u]
                 /\ text' \in [Tasks -> Endings]
      BY <1>1, <3>1, ActsTyped
    <3>2. CASE Tick
      BY <1>1, <3>2, BreakerTypes DEF Tick, TypeOK
    <3>3. CASE (\E c \in Capacities : Resize(c)) \/ (\E m \in Models : Evict(m))
               \/ UNCHANGED vars
      BY <1>1, <3>3 DEF Resize, Evict, vars, TypeOK
    <3> QED BY <3>1, <3>2, <3>3 DEF Next, Acts
  <2> QED BY <1>2, <2>1, <2>2, <2>3, <2>4 DEF TypeOK, G!GateInv, Texts
<1> QED BY <1>2, <1>3, <1>4, <1>5, <1>6, <1>7, <1>8 DEF ServiceInv

LEMMA ServiceInvariant == Spec => []ServiceInv
  BY ServiceInvInit, ServiceInvStep, PTL DEF Spec

-----------------------------------------------------------------------------
(* A request holds a slot exactly while it works, and the gate counts no   *)
(* slot besides, whatever fails or is cancelled on the way                 *)
(* (service.py:372-423, 600-626).                                          *)
THEOREM ServiceSlotsOwned == Spec => []SlotsOwned
<1>1. ServiceInv => SlotsOwned
  <2> SUFFICES ASSUME ServiceInv PROVE SlotsOwned
    OBVIOUS
  <2>1. \A r \in Tasks : slot[r] = "in" <=> stage[r] \in Working
    BY DEF ServiceInv, SlotFits
  <2>2. G!Holders = {r \in Tasks : stage[r] \in Working}
    BY <2>1 DEF G!Holders, G!At
  <2>3. \A S : G!Cardinality(S) = Cardinality(S)
    BY DEF G!Cardinality, Cardinality, G!IsFiniteSet, IsFiniteSet
  <2> QED BY <2>1, <2>2, <2>3
          DEF ServiceInv, SlotsOwned, G!GateInv, G!SlotAccounting
<1> QED BY <1>1, ServiceInvariant, PTL

(* The gauge counts the requests started and not yet counted out, whichever*)
(* way they end (service.py:372, 392, 416-423, 620).                       *)
THEOREM ServiceGaugeTruthful == Spec => []GaugeTruthful
<1>1. ServiceInv => GaugeTruthful
  BY DEF ServiceInv, GaugeTruthful, Counted, CountedStages
<1> QED BY <1>1, ServiceInvariant, PTL

(* Every exit charges, refunds or owes as it should, for any number of     *)
(* requests that race (service.py:15-16).                                  *)
THEOREM ServiceExitsSettle == Spec => []ExitsSettle
<1>1. ServiceInv => ExitsSettle
  BY DEF ServiceInv, ExitsSettle, BillFits
<1> QED BY <1>1, ServiceInvariant, PTL

(* A cached text is its own model's and never that of a call or stream     *)
(* that raised or was abandoned, and a pinned request is served by its     *)
(* model (service.py:248-265, 299, 398-405, 490, 613-616).                 *)
THEOREM ServiceAnswersTruthful == Spec => []AnswersTruthful
<1>1. ServiceInv => AnswersTruthful
  BY DEF ServiceInv, AnswersTruthful, AnswersFit
<1> QED BY <1>1, ServiceInvariant, PTL

(* The service drives the gate as CapacityGate is meant to be driven: a    *)
(* request frees a slot only while it holds one, on every way out, so that *)
(* the service implements the gate's own specification and what is proved  *)
(* of the gate holds in it (service.py:207-219, 423, 622; gate.py:51-54    *)
(* does not look at its caller).                                           *)
THEOREM ServiceImplementsGate == Spec => G!Spec
<1>1. Init => G!Init
  BY DEF Init
<1>2. gateVars = G!vars /\ (gateVars = G!vars)'
  BY DEF gateVars, G!vars
<1>3. ServiceInv /\ [Next]_vars => [G!Next]_(G!vars)
  BY <1>2, StepsOfTheGate DEF ServiceInv
<1> QED BY <1>1, <1>3, ServiceInvariant, PTL DEF Spec, G!Spec
=============================================================================
