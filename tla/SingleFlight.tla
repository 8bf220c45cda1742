---------------------------- MODULE SingleFlight ----------------------------
(***************************************************************************)
(* SingleFlight (app/cache.py:193-218): the first caller of a key starts   *)
(* the work as a task and awaits it, the callers that come while the key   *)
(* is in _inflight await the same task behind a shield.  Cancelling the    *)
(* first caller cancels the task, cancelling another only that caller.     *)
(*                                                                         *)
(* A caller that is woken, or cancelled, runs again later: until then the  *)
(* key stays in _inflight, and newcomers still join a flight that has      *)
(* landed or is about to be cancelled.                                     *)
(***************************************************************************)
CONSTANTS
    Callers,
    Key,      \* Key[c]: the key that caller c asks for
    None      \* no caller

ASSUME SingleFlightAssumption == None \notin Callers

VARIABLES
    inflight,   \* _inflight: per key, the caller that started the task there
    work,       \* per caller, the state of the task that it started
    flight,     \* per caller, the caller whose task it awaits
    call        \* per caller, where it stands in run()

Sought == {Key[c] : c \in Callers}

flightVars == <<inflight, work, flight, call>>

(***************************************************************************)
(* Work: "none", "running", "cancelling" (the CancelledError is on its     *)
(* way into the factory), or how it ended.  A call: "idle", "awaiting",    *)
(* "cancelled" (hit by a cancellation of its own, not run since), or how   *)
(* it returned.                                                            *)
(***************************************************************************)
Ends == {"value", "error", "stopped"}
Landed(c) == work[c] \in Ends
Returned == Ends \cup {"withdrawn"}

FlightInit ==
    /\ inflight = [k \in Sought |-> None]
    /\ work = [c \in Callers |-> "none"]
    /\ flight = [c \in Callers |-> None]
    /\ call = [c \in Callers |-> "idle"]

(* Nobody works on the key: c creates the task and awaits it.              *)
Start(c) ==
    /\ call[c] = "idle" /\ inflight[Key[c]] = None
    /\ inflight' = [inflight EXCEPT ![Key[c]] = c]
    /\ work' = [work EXCEPT ![c] = "running"]
    /\ flight' = [flight EXCEPT ![c] = c]
    /\ call' = [call EXCEPT ![c] = "awaiting"]

(* The key is in flight: c awaits that task too.                           *)
Join(c) ==
    /\ call[c] = "idle" /\ inflight[Key[c]] # None
    /\ flight' = [flight EXCEPT ![c] = inflight[Key[c]]]
    /\ call' = [call EXCEPT ![c] = "awaiting"]
    /\ UNCHANGED <<inflight, work>>

(* The task ends; it ends by the cancellation once that is on its way.     *)
Land(c) ==
    /\ \/ /\ work[c] = "running"
          /\ \E end \in {"value", "error"} : work' = [work EXCEPT ![c] = end]
       \/ /\ work[c] = "cancelling"
          /\ work' = [work EXCEPT ![c] = "stopped"]
    /\ UNCHANGED <<inflight, flight, call>>

(* Wrong on purpose: no shield between a follower and the task.            *)
CancelUnshielded(c) ==
    /\ call[c] = "awaiting"
    /\ call' = [call EXCEPT ![c] = "cancelled"]
    /\ work' = [work EXCEPT ![flight[c]] =
                   IF @ = "running" THEN "cancelling" ELSE @]
    /\ UNCHANGED <<inflight, flight>>

(* Somebody cancels c.  It awaits its own task unshielded.                 *)
Cancel(c) ==
    /\ call[c] = "awaiting"
    /\ call' = [call EXCEPT ![c] = "cancelled"]
    /\ work' = [work EXCEPT ![c] = IF flight[c] = c /\ @ = "running"
                                   THEN "cancelling" ELSE @]
    /\ UNCHANGED <<inflight, flight>>

(* Wrong on purpose: a failed flight is not taken out of _inflight.        *)
KeyAfterValue(c) ==
    inflight' = [inflight EXCEPT ![Key[c]] =
                    IF flight[c] = c /\ work[c] = "value" THEN None ELSE @]

(* The finally block of the caller that started the task.                  *)
KeyAfter(c) ==
    inflight' = [inflight EXCEPT ![Key[c]] = IF flight[c] = c THEN None ELSE @]

(* Wrong on purpose: the caller that started the task is cancelled without *)
(* waiting for the task to end.                                            *)
WithdrawAtOnce(c) ==
    /\ call[c] = "cancelled"
    /\ call' = [call EXCEPT ![c] = "withdrawn"]
    /\ KeyAfter(c)
    /\ UNCHANGED <<work, flight>>

(* A cancelled caller leaves; the one that started the task, when the task *)
(* has ended.                                                              *)
Withdraw(c) ==
    /\ call[c] = "cancelled"
    /\ flight[c] = c => Landed(c)
    /\ call' = [call EXCEPT ![c] = "withdrawn"]
    /\ KeyAfter(c)
    /\ UNCHANGED <<work, flight>>

(* The task has ended: whoever awaits it gets what it ended with.          *)
Return(c) ==
    /\ call[c] = "awaiting" /\ Landed(flight[c])
    /\ call' = [call EXCEPT ![c] = work[flight[c]]]
    /\ KeyAfter(c)
    /\ UNCHANGED <<work, flight>>

FlightNext == \E c \in Callers :
    Start(c) \/ Join(c) \/ Land(c) \/ Cancel(c) \/ Withdraw(c) \/ Return(c)

FlightSpec == FlightInit /\ [][FlightNext]_flightVars

(* The work ends some time, and a caller that can run does.                *)
FlightFairness == \A c \in Callers :
    WF_flightVars(Land(c)) /\ WF_flightVars(Withdraw(c) \/ Return(c))

-----------------------------------------------------------------------------
(* One execution for concurrent identical work (cache.py:194): no two      *)
(* tasks of one key run at the same time, through failures, cancellations  *)
(* and the gap between a task's end and the finally block.                 *)
OneFlightPerKey ==
    \A c, d \in Callers :
        (c # d /\ Key[c] = Key[d]
               /\ {work[c], work[d]} \subseteq {"running", "cancelling"}) => FALSE

(* "A follower giving up (client disconnect) does not cancel the shared    *)
(* work the other callers are still waiting on" (cache.py:196-198): work   *)
(* is stopped, and callers with it, only when the caller that started it   *)
(* was cancelled.                                                          *)
StoppedByStarter ==
    \A c \in Callers :
        work[c] \in {"cancelling", "stopped"} => call[c] \in {"cancelled", "withdrawn"}

(* Every caller returns, and its key is free again for a new flight: a     *)
(* failure or a cancellation leaves nobody behind (cache.py:214-218).      *)
FlightsLand ==
    /\ \A c \in Callers : call[c] = "awaiting" ~> call[c] \in Returned
    /\ \A c \in Callers : work[c] = "running" ~> inflight[Key[c]] # c
=============================================================================
