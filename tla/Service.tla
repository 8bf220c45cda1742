------------------------------- MODULE Service -------------------------------
(***************************************************************************)
(* InferenceService (app/service.py): the life of a request, buffered or   *)
(* streamed, through the ledger, the capacity gate, the circuit breakers,  *)
(* the providers and the response cache.                                   *)
(*                                                                         *)
(* A request is a task of the event loop.  Each action is what a task does *)
(* between two awaits that may suspend: the store calls are such awaits.   *)
(* With the stores in Redis they suspend, so that a task may be cancelled  *)
(* in one, and a call of the ledger, which fails closed, may raise, before *)
(* or after it took effect; in memory they do neither.  The gate is Gate,  *)
(* a breaker is a value of BreakerOps, and of the ledger the model keeps   *)
(* the state of each request's bill and the early returns that depend on   *)
(* it.  Nothing stops a request from freeing a slot it does not hold, or   *)
(* from closing a bill that is closed: that it does not, or that it does   *)
(* no harm, is for the properties to say.                                  *)
(*                                                                         *)
(* All requests carry one prompt and one output ceiling, so a cache key is *)
(* a model.  Routing is a pure function of the models excluded so far, and *)
(* failover excludes the models tried: the models route() returns, one     *)
(* call after the other, form a fixed sequence, Plan[r].                   *)
(***************************************************************************)
EXTENDS BreakerOps, Sequences, FiniteSets

CONSTANTS
    Tasks, Capacities, InitialCapacity, RenotifyOnCancel,   \* see Gate
    Models,
    Plan,               \* the models route() offers request r, in order
    Streams,            \* the requests made with handle_stream()
    Pinned,             \* the requests with force_model
    Fallback,           \* fallback_enabled
    AdmissionTimeout,   \* admission_timeout_s > 0
    Remote,             \* the ledger and the cache are in Redis
    TasksCancelled      \* the task of a request may be cancelled before it
                        \* has answered (a deadline of its caller, shutdown)

ASSUME ServiceAssumption ==
    /\ IsFiniteSet(Tasks)
    /\ Capacities \subseteq Int
    /\ InitialCapacity \in Int
    /\ RenotifyOnCancel \in BOOLEAN
    /\ Streams \subseteq Tasks
    /\ Pinned \subseteq Tasks
    /\ \A r \in Tasks :
          /\ Plan[r] \in Seq(Models) /\ Plan[r] # <<>>
          /\ \A i, j \in DOMAIN Plan[r] : Plan[r][i] = Plan[r][j] => i = j
    /\ {Fallback, AdmissionTimeout, Remote, TasksCancelled} \subseteq BOOLEAN

VARIABLES
    capacity, active, waiting, slot, ahead,   \* the gate
    bill,       \* what became of each request's reservation in the ledger
    breakers,   \* BreakerRegistry
    cache,      \* per key, whose text is stored under it, and how that ended
    inFlight,   \* metrics.in_flight
    stage,      \* where each request is
    attempt,    \* the index in Plan[r] of the model r calls or called
    text        \* how the text that r received ends: it is "partial" unless
                \* the provider's call or stream ended normally, which it
                \* does with a "complete" text, and in a stream that the
                \* provider closed early with a "truncated" one

gateVars == <<capacity, active, waiting, slot, ahead>>
vars == <<gateVars, bill, breakers, cache, inFlight, stage, attempt, text>>

G == INSTANCE Gate

(***************************************************************************)
(* The stages at which a request is suspended, and how it ends.            *)
(***************************************************************************)
Waiting == {"admitting", "expired", "aborting"}
Generating == {"calling", "settling", "storing", "failing"}
Streaming == {"streaming", "ending", "erroring", "abandoned"}
Finalizing == {"billing", "closing", "losing"}  \* a stream's detached task
Cancelled == {"cancelled", "dropped"}    \* outside, or inside, the span that
                                         \* the gauge counts
Faulted == {"unavailable", "unbilled", "unrefunded"}   \* by the ledger
Ended == {"ok", "cut", "failed", "shed", "cached", "rejected"}
             \cup Cancelled \cup Faulted
Stages == {"new", "reserving", "shedding"} \cup Waiting \cup Generating
              \cup Streaming \cup Finalizing \cup Ended

Endings == {"partial", "truncated", "complete"}
Empty == [by |-> {}, ends |-> "nowhere"]
Text(m, ends) == [by |-> {m}, ends |-> ends]

Model(r) == Plan[r][attempt[r]]
Moves(r, from, to) == stage[r] = from /\ stage' = [stage EXCEPT ![r] = to]

Init ==
    /\ G!Init
    /\ bill = [r \in Tasks |-> "none"]
    /\ breakers = [m \in Models |-> Closed]
    /\ cache = [m \in Models |-> Empty]
    /\ inFlight = 0
    /\ stage = [r \in Tasks |-> "new"]
    /\ attempt = [r \in Tasks |-> 1]
    /\ text = [r \in Tasks |-> "partial"]

-----------------------------------------------------------------------------
(***************************************************************************)
(* The ledger's calls, on a store that answers.  Both ways to close a      *)
(* reservation return at once when it is closed already.                   *)
(***************************************************************************)
Hold(r) == bill' = [bill EXCEPT ![r] = "held"]
Close(r, as) == bill' = [bill EXCEPT ![r] = IF @ = "held" THEN as ELSE @]
Charge(r) == Close(r, "charged")
Refund(r) == Close(r, "refunded")

-----------------------------------------------------------------------------
(***************************************************************************)
(* Rate limit, route, cache lookup, reservation.                           *)
(***************************************************************************)

(* The rate limiter or the router refuses the request.                     *)
Reject(r) ==
    /\ Moves(r, "new", "rejected")
    /\ UNCHANGED <<gateVars, bill, breakers, cache, inFlight, attempt, text>>

(* The cache answers: nothing is held, admitted or billed.                 *)
LookupHit(r) ==
    /\ cache[Plan[r][1]] # Empty
    /\ Moves(r, "new", "cached")
    /\ UNCHANGED <<gateVars, bill, breakers, cache, inFlight, attempt, text>>

LookupMiss(r) ==
    /\ cache[Plan[r][1]] = Empty
    /\ Moves(r, "new", "reserving")
    /\ UNCHANGED <<gateVars, bill, breakers, cache, inFlight, attempt, text>>

Reserve(r) ==
    /\ Moves(r, "reserving", "admitting")
    /\ Hold(r)
    /\ UNCHANGED <<gateVars, breakers, cache, inFlight, attempt, text>>

(* The user's budget is exhausted.                                         *)
ReserveRefused(r) ==
    /\ Moves(r, "reserving", "rejected")
    /\ UNCHANGED <<gateVars, bill, breakers, cache, inFlight, attempt, text>>

-----------------------------------------------------------------------------
(***************************************************************************)
(* The ledger's store fails: the call raises, whether it took effect or    *)
(* not.  No clean-up follows: there is no reservation yet, or the one      *)
(* there is was closed before the exception was raised, and release()      *)
(* returns at once on it.                                                  *)
(***************************************************************************)
Raises(r, from, to, effect) ==
    /\ Remote
    /\ Moves(r, from, to)
    /\ effect \/ UNCHANGED bill

ReserveFails(r) ==
    /\ Raises(r, "reserving", "unavailable", Hold(r))
    /\ UNCHANGED <<gateVars, breakers, cache, inFlight, attempt, text>>

(* The exception takes the place of AdmissionTimeoutError.                 *)
ShedFails(r) ==
    /\ Raises(r, "shedding", "unavailable", Refund(r))
    /\ UNCHANGED <<gateVars, breakers, cache, inFlight, attempt, text>>

-----------------------------------------------------------------------------
(***************************************************************************)
(* _generate_with_failover.                                                *)
(***************************************************************************)

CanFailOver(r) == Fallback /\ r \notin Pinned

(* The loop from the i-th model on, over breakers b: it calls the first    *)
(* model whose breaker lets it, and raises when there is none left to try. *)
(* It does not suspend before the call.                                    *)
Try(r, i, b) ==
    LET callable == {j \in i..Len(Plan[r]) : /\ Allows(b[Plan[r][j]])
                                             /\ j = i \/ CanFailOver(r)}
    IN  \/ /\ callable = {}
           /\ stage' = [stage EXCEPT ![r] = "failing"]
           /\ breakers' = b
           /\ UNCHANGED attempt
        \/ \E j \in callable :
              /\ \A k \in callable : j <= k
              /\ stage' = [stage EXCEPT ![r] = "calling"]
              /\ breakers' = [b EXCEPT ![Plan[r][j]] = AfterAllows(@)]
              /\ attempt' = [attempt EXCEPT ![r] = j]

(* request_started(), and on to the provider: a stream calls the provider  *)
(* directly, past breakers and failover.                                   *)
Begin(r) ==
    /\ inFlight' = inFlight + 1
    /\ \/ /\ r \in Streams
          /\ stage' = [stage EXCEPT ![r] = "streaming"]
          /\ UNCHANGED <<breakers, attempt>>
       \/ r \notin Streams /\ Try(r, 1, breakers)

Finished == inFlight' = IF inFlight > 0 THEN inFlight - 1 ELSE 0

-----------------------------------------------------------------------------
(***************************************************************************)
(* Admission.                                                              *)
(***************************************************************************)
AdmitFast(r) ==
    /\ stage[r] = "admitting"
    /\ G!AcquireFast(r)
    /\ Begin(r)
    /\ UNCHANGED <<bill, cache, text>>

Queue(r) ==
    /\ stage[r] = "admitting"
    /\ G!Park(r)
    /\ UNCHANGED <<bill, breakers, cache, inFlight, stage, attempt, text>>

Wake(r) ==
    /\ stage[r] = "admitting"
    /\ G!Resume(r)
    /\ \/ slot'[r] = "in" /\ Begin(r)
       \/ slot'[r] # "in" /\ UNCHANGED <<breakers, inFlight, stage, attempt>>
    /\ UNCHANGED <<bill, cache, text>>

(* wait_for's deadline, or the cancellation of the request's task.         *)
Deadline(r) ==
    /\ AdmissionTimeout
    /\ Moves(r, "admitting", "expired")
    /\ G!Cancel(r)
    /\ UNCHANGED <<bill, breakers, cache, inFlight, attempt, text>>

CancelWaiting(r) ==
    /\ TasksCancelled
    /\ Moves(r, "admitting", "aborting")
    /\ G!Cancel(r)
    /\ UNCHANGED <<bill, breakers, cache, inFlight, attempt, text>>

(* The waiter unwinds: a TimeoutError is handled, a CancelledError is not. *)
Unwound(r) ==
    /\ \/ Moves(r, "expired", "shedding")
       \/ Moves(r, "aborting", "cancelled")
    /\ G!Unwind(r)
    /\ UNCHANGED <<bill, breakers, cache, inFlight, attempt, text>>

(* Wrong on purpose: a shed request keeps its hold.                        *)
ShedWithoutRefund(r) ==
    /\ Moves(r, "shedding", "shed")
    /\ UNCHANGED <<gateVars, bill, breakers, cache, inFlight, attempt, text>>

(* The hold of a shed request is refunded.                                 *)
Shed(r) ==
    /\ Moves(r, "shedding", "shed")
    /\ Refund(r)
    /\ UNCHANGED <<gateVars, breakers, cache, inFlight, attempt, text>>

-----------------------------------------------------------------------------
(***************************************************************************)
(* handle(): the buffered path after admission.                            *)
(***************************************************************************)
Generated(r) ==
    /\ Moves(r, "calling", "settling")
    /\ breakers' = [breakers EXCEPT ![Model(r)] = RecordSuccess(@)]
    /\ text' = [text EXCEPT ![r] = "complete"]
    /\ UNCHANGED <<gateVars, bill, cache, inFlight, attempt>>

(* One of SERVER_FAULTS: recorded, and the next model tried at once.       *)
ServerFault(r) ==
    LET b == [breakers EXCEPT ![Model(r)] = RecordFailure(@)]
    IN  /\ stage[r] = "calling"
        /\ \/ CanFailOver(r) /\ Try(r, attempt[r] + 1, b)
           \/ /\ ~CanFailOver(r)
              /\ stage' = [stage EXCEPT ![r] = "failing"]
              /\ breakers' = b
              /\ UNCHANGED attempt
        /\ UNCHANGED <<gateVars, bill, cache, inFlight, text>>

(* Any other exception of the provider ends the request.                   *)
OtherFault(r) ==
    /\ Moves(r, "calling", "failing")
    /\ UNCHANGED <<gateVars, bill, breakers, cache, inFlight, attempt, text>>

Settle(r) ==
    /\ Moves(r, "settling", "storing")
    /\ Charge(r)
    /\ Finished
    /\ UNCHANGED <<gateVars, breakers, cache, attempt, text>>

(* Wrong on purpose: stores under the key the request was looked up with.  *)
StoreAsPrimary(r) ==
    /\ Moves(r, "storing", "ok")
    /\ cache' = [cache EXCEPT ![Plan[r][1]] = Text(Model(r), text[r])]
    /\ G!Free(r)
    /\ UNCHANGED <<bill, breakers, inFlight, attempt, text>>

(* Stored under the key of the model that served; then the slot is freed.  *)
Store(r) ==
    /\ Moves(r, "storing", "ok")
    /\ cache' = [cache EXCEPT ![Model(r)] = Text(Model(r), text[r])]
    /\ G!Free(r)
    /\ UNCHANGED <<bill, breakers, inFlight, attempt, text>>

(* except Exception: refund and count out; finally: free the slot.         *)
FailEnd(r) ==
    /\ Moves(r, "failing", "failed")
    /\ Refund(r)
    /\ Finished
    /\ G!Free(r)
    /\ UNCHANGED <<breakers, cache, attempt, text>>

(* settle() raises: the completed request fails like one whose generation  *)
(* did, except that its reservation is closed already.                     *)
SettleFails(r) ==
    /\ Raises(r, "settling", "unbilled", Charge(r))
    /\ Finished
    /\ G!Free(r)
    /\ UNCHANGED <<breakers, cache, attempt, text>>

(* Wrong on purpose: the slot is not freed in a finally block.             *)
RefundFailsInPlace(r) ==
    /\ Raises(r, "failing", "unrefunded", Refund(r))
    /\ UNCHANGED <<gateVars, breakers, cache, inFlight, attempt, text>>

(* release() raises inside the except block: what follows it there, the    *)
(* counting out, is skipped; the finally block is not.                     *)
RefundFails(r) ==
    /\ Raises(r, "failing", "unrefunded", Refund(r))
    /\ G!Free(r)
    /\ UNCHANGED <<breakers, cache, inFlight, attempt, text>>

(* A cancellation past admission: only the finally block runs.  A store    *)
(* call that it interrupts may have taken effect.                          *)
CancelWork(r) ==
    /\ TasksCancelled
    /\ \/ Moves(r, "calling", "dropped") /\ UNCHANGED <<bill, cache>>
       \/ /\ Raises(r, "settling", "dropped", Charge(r))
          /\ UNCHANGED cache
       \/ /\ Raises(r, "failing", "dropped", Refund(r))
          /\ UNCHANGED cache
       \/ /\ Remote /\ Moves(r, "storing", "cancelled")
          /\ cache' \in {cache, [cache EXCEPT ![Model(r)] = Text(Model(r), text[r])]}
          /\ UNCHANGED bill
    /\ G!Free(r)
    /\ UNCHANGED <<breakers, inFlight, attempt, text>>

(* A cancellation in a store call before admission, or after its deadline. *)
CancelOutside(r) ==
    /\ TasksCancelled
    /\ \/ Raises(r, "reserving", "cancelled", Hold(r))
       \/ Raises(r, "shedding", "cancelled", Refund(r))
    /\ UNCHANGED <<gateVars, breakers, cache, inFlight, attempt, text>>

-----------------------------------------------------------------------------
(***************************************************************************)
(* handle_stream() after admission, and its detached finalizer.            *)
(***************************************************************************)

(* The provider's stream ends; `completed` is set, "end" is yielded.  The  *)
(* stream ends in the same way when the provider's connection was closed   *)
(* before "[DONE]", or a frame of it was no text (see ProviderStream).      *)
StreamCompletes(r) ==
    /\ Moves(r, "streaming", "ending")
    /\ \E ends \in {"complete", "truncated"} : text' = [text EXCEPT ![r] = ends]
    /\ UNCHANGED <<gateVars, bill, breakers, cache, inFlight, attempt>>

(* The provider's stream raises; "error" is yielded.                       *)
StreamFails(r) ==
    /\ Moves(r, "streaming", "erroring")
    /\ UNCHANGED <<gateVars, bill, breakers, cache, inFlight, attempt, text>>

(* The client is gone while the service's generator awaits the provider,   *)
(* where it is interrupted, or while body() sends an event: body() ends    *)
(* without closing the generator, which stays suspended at its yield.      *)
Disconnect(r) ==
    /\ \/ Moves(r, "streaming", "billing")
       \/ \E s \in Streaming \ {"abandoned"} : Moves(r, s, "abandoned")
    /\ UNCHANGED <<gateVars, bill, breakers, cache, inFlight, attempt, text>>

(* Wrong on purpose: only a stream that ended normally is finalized.       *)
OnlyEndedCloses(r) ==
    /\ Moves(r, "ending", "billing")
    /\ UNCHANGED <<gateVars, bill, breakers, cache, inFlight, attempt, text>>

(* The last event is consumed, or an abandoned generator collected and so  *)
(* closed: finalize() runs and the rest happens in a task of its own.      *)
StreamCloses(r) ==
    /\ \E s \in {"ending", "erroring", "abandoned"} : Moves(r, s, "billing")
    /\ UNCHANGED <<gateVars, bill, breakers, cache, inFlight, attempt, text>>

BillStream(r) ==
    /\ Moves(r, "billing", "closing")
    /\ Charge(r)
    /\ UNCHANGED <<gateVars, breakers, cache, inFlight, attempt, text>>

(* Wrong on purpose: the finalizer ends with the exception of settle().    *)
BillFailsUncaught(r) ==
    /\ Raises(r, "billing", "unbilled", Charge(r))
    /\ UNCHANGED <<gateVars, breakers, cache, inFlight, attempt, text>>

(* settle() raises in the finalizer: logged, and the rest of it runs.      *)
BillStreamFails(r) ==
    /\ Raises(r, "billing", "losing", Charge(r))
    /\ UNCHANGED <<gateVars, breakers, cache, inFlight, attempt, text>>

(* Wrong on purpose: whatever was received is stored.                      *)
CloseStreamStoresAll(r) ==
    /\ \/ Moves(r, "closing", IF text[r] # "partial" THEN "ok" ELSE "cut")
       \/ Moves(r, "losing", "unbilled")
    /\ cache' = [cache EXCEPT ![Model(r)] = Text(Model(r), text[r])]
    /\ Finished
    /\ G!Free(r)
    /\ UNCHANGED <<bill, breakers, attempt, text>>

(* Only what was received of a stream that ended normally is stored.       *)
CloseStream(r) ==
    /\ \/ Moves(r, "closing", IF text[r] # "partial" THEN "ok" ELSE "cut")
       \/ Moves(r, "losing", "unbilled")
    /\ cache' = IF text[r] # "partial"
                THEN [cache EXCEPT ![Model(r)] = Text(Model(r), text[r])]
                ELSE cache
    /\ Finished
    /\ G!Free(r)
    /\ UNCHANGED <<bill, breakers, attempt, text>>

-----------------------------------------------------------------------------
(***************************************************************************)
(* The environment.                                                        *)
(***************************************************************************)

(* The autoscaler resizes the gate.                                        *)
Resize(c) ==
    /\ G!Resize(c)
    /\ UNCHANGED <<bill, breakers, cache, inFlight, stage, attempt, text>>

(* A cached entry expires or is displaced.                                 *)
Evict(m) ==
    /\ cache[m] # Empty
    /\ cache' = [cache EXCEPT ![m] = Empty]
    /\ UNCHANGED <<gateVars, bill, breakers, inFlight, stage, attempt, text>>

Tick ==
    /\ breakers' = [m \in Models |-> Older(breakers[m])]
    /\ UNCHANGED <<gateVars, bill, cache, inFlight, stage, attempt, text>>

(* What a request's task does when it runs, and what its awaits return.    *)
Step(r) ==
    \/ LookupHit(r) \/ LookupMiss(r) \/ Reserve(r) \/ ReserveRefused(r)
    \/ AdmitFast(r) \/ Queue(r) \/ Wake(r) \/ Unwound(r) \/ Shed(r)
    \/ Generated(r) \/ ServerFault(r) \/ OtherFault(r)
    \/ Settle(r) \/ Store(r) \/ FailEnd(r)
    \/ StreamCompletes(r) \/ StreamFails(r) \/ StreamCloses(r)
    \/ BillStream(r) \/ CloseStream(r)

(* What may go wrong: nothing makes it happen.                             *)
Upset(r) ==
    \/ Reject(r) \/ Disconnect(r)
    \/ ReserveFails(r) \/ ShedFails(r) \/ SettleFails(r) \/ RefundFails(r)
    \/ BillStreamFails(r)
    \/ CancelWaiting(r) \/ CancelWork(r) \/ CancelOutside(r)

Next ==
    \/ \E r \in Tasks : Step(r) \/ Deadline(r) \/ Upset(r)
    \/ \E c \in Capacities : Resize(c)
    \/ \E m \in Models : Evict(m)
    \/ Tick

(* Ready tasks run, provider calls end, streams are consumed or collected, *)
(* and deadlines expire.  Nothing forces a client to disconnect, a task to *)
(* be cancelled, a store to fail, or the autoscaler to act.                *)
Fairness == \A r \in Tasks : WF_vars(Step(r)) /\ WF_vars(Deadline(r))

Spec == Init /\ [][Next]_vars
FairSpec == Spec /\ Fairness

-----------------------------------------------------------------------------
TypeOK ==
    /\ G!TypeOK
    /\ bill \in [Tasks -> {"none", "held", "charged", "refunded"}]
    /\ breakers \in [Models -> Breakers]
    /\ cache \in [Models -> [by : SUBSET Models, ends : Endings \cup {"nowhere"}]]
    /\ inFlight \in 0..Cardinality(Tasks)
    /\ stage \in [Tasks -> Stages]
    /\ attempt \in [Tasks -> Nat]
    /\ \A r \in Tasks : attempt[r] \in DOMAIN Plan[r]
    /\ text \in [Tasks -> Endings]

Working == Generating \cup Streaming \cup Finalizing

(* A request holds a slot exactly while it works, and the gate counts no   *)
(* slot besides: every way out of handle(), and the finalizer a stream     *)
(* leaves behind, frees it exactly once, though the ledger fails or the    *)
(* task is cancelled on the way (service.py:372-423, 600-626).             *)
SlotsOwned ==
    /\ TypeOK
    /\ \A r \in Tasks : slot[r] = "in" <=> stage[r] \in Working
    /\ active = Cardinality({r \in Tasks : stage[r] \in Working})

(* The in_flight gauge counts the requests that were started and not yet   *)
(* counted out, whichever way they end; for good, those cancelled before   *)
(* that or whose refund failed (service.py:372, 392, 416-423, 620).        *)
GaugeTruthful ==
    inFlight = Cardinality({r \in Tasks :
        stage[r] \in (Working \ {"storing"}) \cup {"dropped", "unrefunded"}})

(* A request that completes or breaks off while it streams is charged, one *)
(* that is shed or fails is refunded, one that never reserved is neither   *)
(* (service.py:15-16); only the ledger's own faults and cancellations      *)
(* leave a hold, and none of them refunds what was generated or charges    *)
(* what was not.                                                           *)
ExitsSettle ==
    \A r \in Tasks :
        /\ stage[r] \in {"ok", "cut"} => bill[r] = "charged"
        /\ stage[r] \in {"failed", "shed"} => bill[r] = "refunded"
        /\ stage[r] \in {"cached", "rejected"} => bill[r] = "none"
        /\ stage[r] = "unbilled" => bill[r] \in {"held", "charged"}
        /\ stage[r] = "unrefunded" => bill[r] \in {"held", "refunded"}
        /\ stage[r] = "unavailable" => bill[r] # "charged"

(* "Every exit refunds or charges exactly once.  A shed request, a failed  *)
(* generation, and a client disconnect must each leave the ledger          *)
(* consistent" (service.py:15-16): a cancelled request holds no budget.    *)
CancelledSettles ==
    \A r \in Tasks : stage[r] \in Cancelled => bill[r] # "held"

(* Each cached text is one its own key's model made, whichever of several  *)
(* racing requests stored it and whether it failed over, and none is what  *)
(* was received of a call or a stream that raised, or that was abandoned   *)
(* or cancelled before it ended (service.py:248-265, 398-405, 490, 613-616;*)
(* a stream that ends normally and early is another matter, see            *)
(* TruncatedNotKept of ProviderStream).  And "a pinned model is never      *)
(* silently replaced" (service.py:299).                                    *)
AnswersTruthful ==
    /\ \A m \in Models :
          cache[m] # Empty => /\ cache[m].by = {m}
                              /\ cache[m].ends # "partial"
    /\ \A r \in Pinned : stage[r] \in Working \cup Ended => attempt[r] = 1

(* Every request that arrives is answered: nothing waits for a slot for    *)
(* ever, and no task waits on another (service.py:207-219, 302-341).       *)
EveryRequestEnds ==
    \A r \in Tasks : stage[r] # "new" ~> stage[r] \in Ended
=============================================================================
