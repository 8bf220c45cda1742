------------------------------ MODULE Provider ------------------------------
(***************************************************************************)
(* VLLMProvider.generate() (app/providers/vllm.py:125-163) behind a        *)
(* circuit breaker: what Breaker takes as one call of the backend is a     *)
(* sequence of HTTP requests here, sent again after a backoff while they   *)
(* fail in a way that may pass.  The breaker hears of the last one only.   *)
(***************************************************************************)
EXTENDS Breaker

CONSTANT MaxRetries   \* max_retries

ASSUME ProviderAssumption == MaxRetries \in Nat \ {0}

VARIABLES
    net,       \* per caller: "none", "waiting" for a reply, or "backoff"
    tries,     \* per caller: the requests sent for its call
    failures   \* history: per caller, the replies of its call that were
               \* failures which may pass, counted up to MaxRetries + 1

netVars == <<net, tries, failures>>
providerVars == <<vars, netVars>>

ProviderInit ==
    /\ Init
    /\ net = [c \in Callers |-> "none"]
    /\ tries = [c \in Callers |-> 0]
    /\ failures = [c \in Callers |-> 0]

(* The breaker lets the call through and the first request is sent.        *)
Send(c) ==
    /\ Admit(c)
    /\ net' = [net EXCEPT ![c] = "waiting"]
    /\ tries' = [tries EXCEPT ![c] = 1]
    /\ failures' = [failures EXCEPT ![c] = 0]

HangUp(c) == net' = [net EXCEPT ![c] = "none"] /\ UNCHANGED <<tries, failures>>

(* A completion came back.                                                 *)
Answered(c) == net[c] = "waiting" /\ Succeed(c) /\ HangUp(c)

(* Wrong on purpose: the breaker is told of a prompt the server rejects.   *)
RejectedRecorded(c) == net[c] = "waiting" /\ Fail(c) /\ HangUp(c)

(* Another status of 400 and above, or a body without a completion.        *)
Rejected(c) == net[c] = "waiting" /\ Abandon(c) /\ HangUp(c)

Counted(c) ==
    failures' = [failures EXCEPT ![c] = IF @ <= MaxRetries THEN @ + 1 ELSE @]

(* A timeout, a broken connection or a status that may pass, and attempts  *)
(* are left.                                                               *)
Backoff(c) ==
    /\ net[c] = "waiting" /\ tries[c] < MaxRetries
    /\ net' = [net EXCEPT ![c] = "backoff"]
    /\ Counted(c)
    /\ UNCHANGED <<vars, tries>>

(* The same, on the last attempt.                                          *)
GiveUp(c) ==
    /\ net[c] = "waiting" /\ tries[c] >= MaxRetries
    /\ Fail(c)
    /\ net' = [net EXCEPT ![c] = "none"]
    /\ Counted(c)
    /\ UNCHANGED tries

(* Wrong on purpose: the attempts are not counted.                         *)
AgainUncounted(c) ==
    /\ net[c] = "backoff"
    /\ net' = [net EXCEPT ![c] = "waiting"]
    /\ UNCHANGED <<vars, tries, failures>>

(* The backoff is over.                                                    *)
Again(c) ==
    /\ net[c] = "backoff"
    /\ net' = [net EXCEPT ![c] = "waiting"]
    /\ tries' = [tries EXCEPT ![c] = @ + 1]
    /\ UNCHANGED <<vars, failures>>

(* The request is cancelled while it waits or sleeps.                      *)
Withdrawn(c) == net[c] # "none" /\ Abandon(c) /\ HangUp(c)

Replied(c) == Answered(c) \/ Rejected(c) \/ Backoff(c) \/ GiveUp(c)

ProviderTick == Tick /\ UNCHANGED netVars

ProviderNext ==
    \/ \E c \in Callers : Send(c) \/ Replied(c) \/ Again(c) \/ Withdrawn(c)
    \/ ProviderTick

(* Time passes, requests keep coming, a request is answered or runs into   *)
(* its timeout, and a backoff ends.                                        *)
ProviderFairness ==
    /\ WF_providerVars(ProviderTick)
    /\ \A c \in Callers : /\ WF_providerVars(Send(c))
                          /\ WF_providerVars(Replied(c) \/ Again(c))

ProviderSpec == ProviderInit /\ [][ProviderNext]_providerVars /\ ProviderFairness

-----------------------------------------------------------------------------
(* The provider is a backend as Breaker takes it to be, its fairness       *)
(* included: every call ends, since attempts are bounded (vllm.py:131).    *)
CallsEnd == FairSpec

(* The breaker hears of a fault only from a call that failed max_retries   *)
(* times, each time in a way that may pass (vllm.py:131-159,               *)
(* service.py:317-319); no request goes out more often than that.          *)
FaultsPersist ==
    [][\A c \in Callers :
          /\ failures'[c] <= MaxRetries
          /\ (call[c] # "idle" /\ call'[c] = "idle" /\ breaker'.fails > 0
                               /\ breaker' # breaker) => failures'[c] = MaxRetries]_providerVars
=============================================================================
