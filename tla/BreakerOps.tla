----------------------------- MODULE BreakerOps -----------------------------
(***************************************************************************)
(* CircuitBreaker (app/breaker.py) as a value and the functions its        *)
(* methods compute.  The methods never suspend, so each is one step of     *)
(* whoever calls it; Breaker and Service are built from these operators.   *)
(*                                                                         *)
(* Two numbers are kept only as far as the code can tell them apart:       *)
(*   fails  consecutive_failures, counted up to Threshold;                 *)
(*   age    the time since opened_at while the breaker is OPEN, counted up *)
(*          to Recovery.                                                   *)
(***************************************************************************)
EXTENDS Integers

CONSTANTS
    Threshold,   \* failure_threshold
    Recovery     \* recovery_timeout_s, in ticks of the clock

ASSUME BreakerAssumption ==
    /\ Threshold \in Nat \ {0}
    /\ Recovery \in Nat

Breakers == [state : {"CLOSED", "OPEN", "HALF_OPEN"},
             fails : 0..Threshold, age : 0..Recovery, probe : BOOLEAN]

Closed == [state |-> "CLOSED", fails |-> 0, age |-> 0, probe |-> FALSE]

Due(b) == b.age >= Recovery

(* Wrong on purpose: lets calls through while the probe is out.            *)
AllowsInTrial(b) ==
    \/ b.state \in {"CLOSED", "HALF_OPEN"}
    \/ b.state = "OPEN" /\ Due(b)

(* The answer of allows() ...                                              *)
Allows(b) ==
    \/ b.state = "CLOSED"
    \/ b.state = "OPEN" /\ Due(b)
    \/ b.state = "HALF_OPEN" /\ ~b.probe

(* ... and what answering TRUE does to the breaker.                        *)
AfterAllows(b) ==
    IF b.state = "CLOSED" THEN b
    ELSE [b EXCEPT !.state = "HALF_OPEN", !.probe = TRUE]

(* Wrong on purpose: the failure count survives a success.                 *)
SuccessKeepsCount(b) ==
    [b EXCEPT !.state = "CLOSED", !.age = 0, !.probe = FALSE]

RecordSuccess(b) == Closed

Trip(b) == [state |-> "OPEN", fails |-> b.fails, age |-> 0, probe |-> FALSE]

RecordFailure(b) ==
    LET counted == [b EXCEPT !.fails = IF @ < Threshold THEN @ + 1 ELSE @]
    IN  IF b.state = "HALF_OPEN" \/ counted.fails >= Threshold
        THEN Trip(counted) ELSE counted

(* Wrong on purpose: the recovery timer of an OPEN breaker stands still.   *)
NeverOlder(b) == b

(* One tick of the monotonic clock.                                        *)
Older(b) ==
    IF b.state = "OPEN" /\ b.age < Recovery THEN [b EXCEPT !.age = @ + 1] ELSE b
=============================================================================
