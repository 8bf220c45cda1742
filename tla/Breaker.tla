------------------------------- MODULE Breaker -------------------------------
(***************************************************************************)
(* One circuit breaker and the requests that call its backend              *)
(* (app/breaker.py with app/service.py:302-341).  allows() and record_*()  *)
(* run without suspending, but the provider call between them suspends: a  *)
(* result is recorded in whatever state the breaker has reached by then.   *)
(***************************************************************************)
EXTENDS BreakerOps

CONSTANT Callers   \* requests that use the backend, again and again

VARIABLES
    breaker,   \* the CircuitBreaker
    call,      \* per caller: "idle", "calling", or "probing" when it was
               \* let through by a breaker that was not CLOSED
    quiet      \* history: the time since the last recorded fault, counted
               \* up to Recovery

vars == <<breaker, call, quiet>>

Init ==
    /\ breaker = Closed
    /\ call = [c \in Callers |-> "idle"]
    /\ quiet = Recovery

(* breaker.allows() returns True and provider.generate() is awaited.       *)
Admit(c) ==
    /\ call[c] = "idle"
    /\ Allows(breaker)
    /\ breaker' = AfterAllows(breaker)
    /\ call' = [call EXCEPT ![c] =
                   IF breaker.state = "CLOSED" THEN "calling" ELSE "probing"]
    /\ UNCHANGED quiet

(* provider.generate() returned.                                           *)
Succeed(c) ==
    /\ call[c] # "idle"
    /\ breaker' = RecordSuccess(breaker)
    /\ call' = [call EXCEPT ![c] = "idle"]
    /\ UNCHANGED quiet

(* provider.generate() raised one of SERVER_FAULTS.                        *)
Fail(c) ==
    /\ call[c] # "idle"
    /\ breaker' = RecordFailure(breaker)
    /\ call' = [call EXCEPT ![c] = "idle"]
    /\ quiet' = 0

(* provider.generate() raised another exception - a rejected prompt, a     *)
(* cancellation - and nothing is recorded.                                 *)
Abandon(c) ==
    /\ call[c] # "idle"
    /\ call' = [call EXCEPT ![c] = "idle"]
    /\ UNCHANGED <<breaker, quiet>>

Tick ==
    /\ breaker' = Older(breaker)
    /\ quiet' = IF quiet < Recovery THEN quiet + 1 ELSE quiet
    /\ UNCHANGED call

Next ==
    \/ \E c \in Callers : Admit(c) \/ Succeed(c) \/ Fail(c) \/ Abandon(c)
    \/ Tick

(* Time passes, requests keep coming, and every provider call ends (the    *)
(* provider has read and connect timeouts), in a way of its own choosing.  *)
Fairness ==
    /\ WF_vars(Tick)
    /\ \A c \in Callers : /\ WF_vars(Admit(c))
                          /\ WF_vars(Succeed(c) \/ Fail(c) \/ Abandon(c))

Spec == Init /\ [][Next]_vars
FairSpec == Spec /\ Fairness

-----------------------------------------------------------------------------
TypeOK ==
    /\ breaker \in Breakers
    /\ call \in [Callers -> {"idle", "calling", "probing"}]
    /\ quiet \in 0..Recovery

(* A backend is out of rotation exactly while Threshold faults have been   *)
(* recorded since the last success (breaker.py:100-113), in whatever order *)
(* the results of concurrent calls come in.                                *)
OutOnlyAfterThreshold == breaker.state = "CLOSED" <=> breaker.fails < Threshold

(* HALF_OPEN means that the trial has been given to a probe: the flag is   *)
(* set on entry and cleared on every exit (breaker.py:76-87, 103, 118).    *)
TrialIsTaken == breaker.state = "HALF_OPEN" <=> breaker.probe

(* The recovery timeout counts from the LAST fault: one that arrives late, *)
(* from a call made before the breaker opened, restarts it                 *)
(* (breaker.py:105-117).                                                   *)
OpenSinceLastFault == breaker.state = "OPEN" => breaker.age = quiet

(* What holds of the breaker in every state.                               *)
BreakerInv ==
    TypeOK /\ OutOnlyAfterThreshold /\ TrialIsTaken /\ OpenSinceLastFault

(* "In HALF_OPEN exactly one probe is admitted" (breaker.py:24): a call is *)
(* let through by a CLOSED breaker, or it is the one that turns OPEN into  *)
(* HALF_OPEN, a full recovery timeout after the last fault.                *)
OneProbePerTrial ==
    [][\A c \in Callers : (call[c] = "idle" /\ call'[c] # "idle") =>
           \/ breaker.state = "CLOSED"
           \/ /\ breaker.state = "OPEN" /\ breaker'.state = "HALF_OPEN"
              /\ quiet = Recovery]_vars

(* An OPEN breaker is eventually put to the test again (breaker.py:77).    *)
OpenIsRetried == breaker.state = "OPEN" ~> breaker.state # "OPEN"

(* "One bad prompt must not take a healthy backend out of rotation"        *)
(* (tests/test_resilience.py:344): a trial ends, in CLOSED or in OPEN.     *)
TrialEnds == breaker.state = "HALF_OPEN" ~> breaker.state # "HALF_OPEN"
=============================================================================
