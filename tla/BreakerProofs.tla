---------------------------- MODULE BreakerProofs ----------------------------
(***************************************************************************)
(* What the circuit breaker promises for every threshold, every recovery   *)
(* timeout and any set of concurrent callers.                              *)
(*                                                                         *)
(* The inductive invariant joins the three facts the states rest on: the   *)
(* failure count says whether the backend is in rotation, the probe flag   *)
(* says whether a trial is on, and the age of an OPEN breaker is the time  *)
(* since the last fault.  The last one needs the first: a late fault that  *)
(* finds the breaker OPEN restarts the timer only because the count still  *)
(* stands at the threshold.                                                *)
(*                                                                         *)
(* The provider with its retries is a backend the breaker may have: its    *)
(* steps are steps of the breaker or leave it alone.                       *)
(***************************************************************************)
EXTENDS Provider, TLAPS

(***************************************************************************)
(* The methods of the breaker, one lemma each.                             *)
(***************************************************************************)

(* The facts about a breaker value that its methods preserve.              *)
Consistent(b) ==
    /\ b \in Breakers
    /\ b.state = "CLOSED" <=> b.fails < Threshold
    /\ b.state = "HALF_OPEN" <=> b.probe

LEMMA ClosedConsistent == Consistent(Closed) /\ Closed.state = "CLOSED"
  BY BreakerAssumption DEF Consistent, Closed, Breakers

(* Letting a call through keeps a breaker consistent and never opens it.   *)
LEMMA AfterAllowsConsistent ==
    ASSUME NEW b, Consistent(b), Allows(b)
    PROVE  /\ Consistent(AfterAllows(b))
           /\ AfterAllows(b).state = IF b.state = "CLOSED" THEN "CLOSED"
                                     ELSE "HALF_OPEN"
           /\ b.state = "OPEN" => b.age = Recovery
           /\ b.state \in {"CLOSED", "OPEN"}
<1>1. /\ b.fails \in 0..Threshold /\ b.age \in 0..Recovery
      /\ b.state \in {"CLOSED", "OPEN", "HALF_OPEN"} /\ b.probe \in BOOLEAN
  BY DEF Consistent, Breakers
<1>2. CASE b.state = "CLOSED"
  BY <1>2 DEF Consistent, AfterAllows
<1>3. CASE b.state = "OPEN"
  <2> DEFINE d == [b EXCEPT !.state = "HALF_OPEN", !.probe = TRUE]
  <2>1. AfterAllows(b) = d
    BY <1>3 DEF AfterAllows
  <2>2. /\ d \in Breakers /\ d.state = "HALF_OPEN" /\ d.probe = TRUE
        /\ d.fails = b.fails
    BY DEF Consistent, Breakers
  <2>3. b.age = Recovery
    BY <1>1, <1>3, BreakerAssumption DEF Allows, Due
  <2>4. ~(b.fails < Threshold)
    BY <1>3 DEF Consistent
  <2> QED BY <1>3, <2>1, <2>2, <2>3, <2>4 DEF Consistent
<1>4. CASE b.state = "HALF_OPEN"
  BY <1>4 DEF Consistent, Allows
<1> QED BY <1>1, <1>2, <1>3, <1>4

(* A fault opens the breaker or counts towards the threshold; a breaker    *)
(* that is OPEN afterwards has just (re)started its timer.                 *)
LEMMA RecordFailureConsistent ==
    ASSUME NEW b, Consistent(b)
    PROVE  /\ Consistent(RecordFailure(b))
           /\ RecordFailure(b).state = "OPEN" => RecordFailure(b).age = 0
<1> DEFINE n == IF b.fails < Threshold THEN b.fails + 1 ELSE b.fails
           d == [b EXCEPT !.fails = n]
<1>1. n \in 0..Threshold /\ b.fails \in 0..Threshold
  BY BreakerAssumption DEF Consistent, Breakers
<1>2. d \in Breakers /\ d.fails = n /\ d.state = b.state /\ d.probe = b.probe
  <2>1. b \in Breakers
    BY DEF Consistent
  <2> QED BY <1>1, <2>1 DEF Breakers
<1>3. RecordFailure(b) = IF b.state = "HALF_OPEN" \/ n >= Threshold
                         THEN Trip(d) ELSE d
  BY DEF RecordFailure, Consistent, Breakers
<1>4. CASE b.state = "HALF_OPEN" \/ n >= Threshold
  <2>1. n = Threshold
    BY <1>1, <1>4, BreakerAssumption DEF Consistent, Breakers
  <2>2. /\ Trip(d) \in Breakers /\ Trip(d).state = "OPEN" /\ Trip(d).age = 0
        /\ Trip(d).fails = n /\ Trip(d).probe = FALSE
    <3> HIDE DEF n, d
    <3> QED BY <1>1, <1>2, BreakerAssumption DEF Trip, Breakers
  <2> QED BY <1>3, <1>4, <2>1, <2>2, BreakerAssumption DEF Consistent
<1>5. CASE ~(b.state = "HALF_OPEN" \/ n >= Threshold)
  <2>1. n < Threshold /\ b.state = "CLOSED"
    BY <1>1, <1>5, BreakerAssumption DEF Consistent, Breakers
  <2> QED BY <1>2, <1>3, <1>5, <2>1 DEF Consistent
<1> QED BY <1>4, <1>5

(* A tick changes nothing but the age of an OPEN breaker.                  *)
LEMMA OlderConsistent ==
    ASSUME NEW b, Consistent(b)
    PROVE  /\ Consistent(Older(b)) /\ Older(b).state = b.state
           /\ b.state = "OPEN" =>
                 Older(b).age = IF b.age < Recovery THEN b.age + 1 ELSE b.age
  BY BreakerAssumption DEF Consistent, Breakers, Older

-----------------------------------------------------------------------------
LEMMA BreakerInvInit == Init => BreakerInv
  BY ClosedConsistent, BreakerAssumption
  DEF Init, BreakerInv, TypeOK, OutOnlyAfterThreshold, TrialIsTaken,
      OpenSinceLastFault, Consistent

(* The invariant, read as facts about the value of the breaker.            *)
LEMMA BreakerInvMeaning ==
    BreakerInv <=> /\ Consistent(breaker)
                   /\ call \in [Callers -> {"idle", "calling", "probing"}]
                   /\ quiet \in 0..Recovery
                   /\ breaker.state = "OPEN" => breaker.age = quiet
  BY DEF BreakerInv, TypeOK, OutOnlyAfterThreshold, TrialIsTaken,
         OpenSinceLastFault, Consistent

LEMMA BreakerInvStep == BreakerInv /\ [Next]_vars => BreakerInv'
<1> SUFFICES ASSUME BreakerInv, [Next]_vars
             PROVE  /\ Consistent(breaker')
                    /\ call' \in [Callers -> {"idle", "calling", "probing"}]
                    /\ quiet' \in 0..Recovery
                    /\ breaker'.state = "OPEN" => breaker'.age = quiet'
  BY DEF BreakerInv, TypeOK, OutOnlyAfterThreshold, TrialIsTaken,
         OpenSinceLastFault, Consistent
<1>1. /\ Consistent(breaker)
      /\ call \in [Callers -> {"idle", "calling", "probing"}]
      /\ quiet \in 0..Recovery
      /\ breaker.state = "OPEN" => breaker.age = quiet
  BY BreakerInvMeaning
<1>2. ASSUME NEW c \in Callers, Admit(c)
      PROVE  /\ Consistent(breaker')
             /\ call' \in [Callers -> {"idle", "calling", "probing"}]
             /\ quiet' \in 0..Recovery
             /\ breaker'.state # "OPEN"
  BY <1>1, <1>2, AfterAllowsConsistent DEF Admit
<1>3. ASSUME NEW c \in Callers, Succeed(c)
      PROVE  /\ Consistent(breaker')
             /\ call' \in [Callers -> {"idle", "calling", "probing"}]
             /\ quiet' \in 0..Recovery
             /\ breaker'.state # "OPEN"
  BY <1>1, <1>3, ClosedConsistent DEF Succeed, RecordSuccess
<1>4. ASSUME NEW c \in Callers, Fail(c)
      PROVE  /\ Consistent(breaker')
             /\ call' \in [Callers -> {"idle", "calling", "probing"}]
             /\ quiet' \in 0..Recovery
             /\ breaker'.state = "OPEN" => breaker'.age = quiet'
  BY <1>1, <1>4, RecordFailureConsistent, BreakerAssumption DEF Fail
<1>5. ASSUME NEW c \in Callers, Abandon(c)
      PROVE  /\ breaker' = breaker /\ quiet' = quiet
             /\ call' \in [Callers -> {"idle", "calling", "probing"}]
  BY <1>1, <1>5 DEF Abandon
<1>6. CASE Tick
  BY <1>1, <1>6, OlderConsistent, BreakerAssumption DEF Tick
<1>7. CASE UNCHANGED vars
  BY <1>1, <1>7 DEF vars
<1> QED BY <1>1, <1>2, <1>3, <1>4, <1>5, <1>6, <1>7 DEF Next

(* In every state the failure count, the probe flag and the timer of the   *)
(* breaker say what its state says (breaker.py:71-118), in whatever order  *)
(* the results of concurrent calls are recorded.                           *)
THEOREM BreakerInvariant == Spec => []BreakerInv
  BY BreakerInvInit, BreakerInvStep, PTL DEF Spec

-----------------------------------------------------------------------------
(* The breaker's state is well formed in every execution                   *)
(* (breaker.py:52-118).                                                    *)
THEOREM BreakerTypeCorrect == Spec => []TypeOK
  BY BreakerInvariant, PTL DEF BreakerInv

(* A backend is out of rotation exactly while a full threshold of faults   *)
(* has been recorded since its last success (breaker.py:100-113).          *)
THEOREM BreakerOutOnlyAfterThreshold == Spec => []OutOnlyAfterThreshold
  BY BreakerInvariant, PTL DEF BreakerInv

(* HALF_OPEN and the probe flag go together, so allows() never admits a    *)
(* second caller to a trial and its branch for an untaken trial            *)
(* (breaker.py:84-86) is never entered.                                    *)
THEOREM BreakerTrialIsTaken == Spec => []TrialIsTaken
  BY BreakerInvariant, PTL DEF BreakerInv

(* The timer of an OPEN breaker runs from the last recorded fault, however *)
(* late that fault came in (breaker.py:105-117).                           *)
THEOREM BreakerOpenSinceLastFault == Spec => []OpenSinceLastFault
  BY BreakerInvariant, PTL DEF BreakerInv

(* Out of rotation, one call is let through per trial, a full recovery     *)
(* timeout after the last fault (breaker.py:24, 76-87).                    *)
THEOREM BreakerOneProbePerTrial == Spec => OneProbePerTrial
<1> DEFINE Admitted(c) == call[c] = "idle" /\ call'[c] # "idle"
<1>1. BreakerInv /\ [Next]_vars =>
         [\A c \in Callers : Admitted(c) =>
             \/ breaker.state = "CLOSED"
             \/ /\ breaker.state = "OPEN" /\ breaker'.state = "HALF_OPEN"
                /\ quiet = Recovery]_vars
  <2> SUFFICES ASSUME BreakerInv, Next, NEW c \in Callers, Admitted(c),
                      breaker.state # "CLOSED"
               PROVE  /\ breaker.state = "OPEN" /\ breaker'.state = "HALF_OPEN"
                      /\ quiet = Recovery
    OBVIOUS
  <2>1. /\ Consistent(breaker)
        /\ call \in [Callers -> {"idle", "calling", "probing"}]
        /\ breaker.state = "OPEN" => breaker.age = quiet
    BY BreakerInvMeaning
  <2>2. PICK d \in Callers : Admit(d)
    BY <2>1 DEF Next, Succeed, Fail, Abandon, Tick
  <2> QED BY <2>1, <2>2, AfterAllowsConsistent DEF Admit
<1> QED BY <1>1, BreakerInvariant, PTL DEF Spec, OneProbePerTrial

-----------------------------------------------------------------------------
(***************************************************************************)
(* The provider behind the breaker.                                        *)
(***************************************************************************)

(* A caller has a request out or sleeps exactly during its call, and its   *)
(* failures are the requests before the one it waits for.                  *)
Attempted(c) ==
    /\ net[c] = "none" <=> call[c] = "idle"
    /\ net[c] = "none" => failures[c] <= MaxRetries
    /\ net[c] = "waiting" => failures[c] + 1 = tries[c]
    /\ net[c] = "backoff" => failures[c] = tries[c] /\ tries[c] < MaxRetries

ProviderInv ==
    /\ call \in [Callers -> {"idle", "calling", "probing"}]
    /\ net \in [Callers -> {"none", "waiting", "backoff"}]
    /\ tries \in [Callers -> 0..MaxRetries]
    /\ failures \in [Callers -> 0..MaxRetries]
    /\ \A c \in Callers : Attempted(c)

(* A step of c that leaves the calls of others alone, and how c stands     *)
(* after it.                                                               *)
LEMMA OneCallMoves ==
    ASSUME ProviderInv, NEW c \in Callers,
           NEW k \in {"idle", "calling", "probing"},
           NEW n \in {"none", "waiting", "backoff"},
           NEW t \in 0..MaxRetries, NEW f \in 0..MaxRetries,
           call' = [call EXCEPT ![c] = k], net' = [net EXCEPT ![c] = n],
           tries' = [tries EXCEPT ![c] = t], failures' = [failures EXCEPT ![c] = f],
           n = "none" <=> k = "idle",
           n = "waiting" => f + 1 = t,
           n = "backoff" => f = t /\ t < MaxRetries
    PROVE  ProviderInv'
<1>1. /\ call' \in [Callers -> {"idle", "calling", "probing"}]
      /\ net' \in [Callers -> {"none", "waiting", "backoff"}]
      /\ tries' \in [Callers -> 0..MaxRetries]
      /\ failures' \in [Callers -> 0..MaxRetries]
  BY DEF ProviderInv
<1>2. ASSUME NEW d \in Callers PROVE Attempted(d)'
  <2>1. CASE d = c
    <3>1. call'[d] = k /\ net'[d] = n /\ tries'[d] = t /\ failures'[d] = f
      BY <2>1 DEF ProviderInv
    <3> QED BY <3>1, ProviderAssumption DEF Attempted
  <2>2. CASE d # c
    <3>1. /\ call'[d] = call[d] /\ net'[d] = net[d] /\ tries'[d] = tries[d]
          /\ failures'[d] = failures[d]
      BY <2>2 DEF ProviderInv
    <3> QED BY <3>1 DEF ProviderInv, Attempted
  <2> QED BY <2>1, <2>2
<1> QED BY <1>1, <1>2 DEF ProviderInv

(* What each step of a caller does to its call and its requests, and what  *)
(* the breaker hears.                                                      *)
LEMMA ProviderMoves ==
    ASSUME ProviderInv, NEW c \in Callers,
           Send(c) \/ Replied(c) \/ Again(c) \/ Withdrawn(c)
    PROVE  /\ ProviderInv'
           /\ \A d \in Callers \ {c} : call'[d] = call[d]
           /\ (call[c] # "idle" /\ call'[c] = "idle") =>
                  \/ breaker' = breaker \/ breaker' = Closed
                  \/ failures'[c] = MaxRetries
<1> DEFINE Ends(f) == /\ call[c] # "idle" /\ call' = [call EXCEPT ![c] = "idle"]
                      /\ net' = [net EXCEPT ![c] = "none"]
                      /\ tries' = [tries EXCEPT ![c] = tries[c]]
                      /\ failures' = [failures EXCEPT ![c] = f]
<1>1. /\ MaxRetries \in Nat \ {0} /\ Attempted(c)
      /\ tries[c] \in 0..MaxRetries /\ failures[c] \in 0..MaxRetries
      /\ call[c] \in {"idle", "calling", "probing"}
      /\ net[c] \in {"none", "waiting", "backoff"}
  BY ProviderAssumption DEF ProviderInv
<1>2. ASSUME NEW f \in 0..MaxRetries, Ends(f)
      PROVE  ProviderInv' /\ \A d \in Callers \ {c} : call'[d] = call[d]
  BY <1>1, <1>2, OneCallMoves DEF ProviderInv
<1>3. ASSUME Answered(c) \/ Rejected(c) \/ Withdrawn(c)
      PROVE  Ends(failures[c]) /\ (breaker' = breaker \/ breaker' = Closed)
  BY <1>3 DEF Answered, Rejected, Withdrawn, HangUp, Succeed, Abandon, RecordSuccess,
              ProviderInv
<1>4. CASE Answered(c) \/ Rejected(c) \/ Withdrawn(c)
  BY <1>1, <1>2, <1>3, <1>4
<1>5. CASE GiveUp(c)
  <2>1. failures[c] + 1 = MaxRetries /\ failures[c] <= MaxRetries
    BY <1>1, <1>5 DEF GiveUp, Attempted
  <2>2. Ends(MaxRetries)
    BY <1>5, <2>1 DEF GiveUp, Fail, Counted, ProviderInv
  <2>3. failures'[c] = MaxRetries /\ MaxRetries \in 0..MaxRetries
    BY <1>1, <2>2 DEF ProviderInv
  <2> HIDE DEF Ends
  <2> QED BY <1>2, <2>2, <2>3
<1>6. CASE Send(c)
  <2>1. PICK k \in {"calling", "probing"} :
            call[c] = "idle" /\ call' = [call EXCEPT ![c] = k]
    BY <1>6 DEF Send, Admit
  <2>2. /\ net' = [net EXCEPT ![c] = "waiting"] /\ tries' = [tries EXCEPT ![c] = 1]
        /\ failures' = [failures EXCEPT ![c] = 0]
    BY <1>6 DEF Send
  <2>3. 1 \in 0..MaxRetries /\ 0 \in 0..MaxRetries /\ 0 + 1 = 1
    BY <1>1
  <2>4. ProviderInv'
    BY <2>1, <2>2, <2>3, OneCallMoves
  <2> QED BY <2>1, <2>4 DEF ProviderInv
<1>7. CASE Backoff(c)
  <2>1. /\ net[c] = "waiting" /\ tries[c] < MaxRetries /\ net' = [net EXCEPT ![c] = "backoff"]
        /\ call' = call /\ tries' = tries /\ breaker' = breaker
    BY <1>7 DEF Backoff, vars
  <2>2. failures[c] + 1 = tries[c] /\ call[c] # "idle"
    BY <1>1, <2>1 DEF Attempted
  <2>3. failures' = [failures EXCEPT ![c] = tries[c]]
    <3>1. failures[c] <= MaxRetries
      BY <1>1
    <3>2. failures' = [failures EXCEPT ![c] = failures[c] + 1]
      BY <1>7, <3>1 DEF Backoff, Counted
    <3> QED BY <2>2, <3>2
  <2>4. /\ call' = [call EXCEPT ![c] = call[c]] /\ tries' = [tries EXCEPT ![c] = tries[c]]
    BY <2>1 DEF ProviderInv
  <2>5. ProviderInv'
    BY <1>1, <2>1, <2>2, <2>3, <2>4, OneCallMoves
  <2> QED BY <2>1, <2>5
<1>8. CASE Again(c)
  <2>1. /\ net[c] = "backoff" /\ net' = [net EXCEPT ![c] = "waiting"]
        /\ tries' = [tries EXCEPT ![c] = tries[c] + 1]
        /\ call' = call /\ failures' = failures /\ breaker' = breaker
    BY <1>8 DEF Again, vars, ProviderInv
  <2>2. failures[c] = tries[c] /\ tries[c] < MaxRetries /\ call[c] # "idle"
    BY <1>1, <2>1 DEF Attempted
  <2>3. tries[c] + 1 \in 0..MaxRetries
    BY <1>1, <2>2
  <2>4. /\ call' = [call EXCEPT ![c] = call[c]]
        /\ failures' = [failures EXCEPT ![c] = failures[c]]
    BY <2>1 DEF ProviderInv
  <2>5. ProviderInv'
    BY <1>1, <2>1, <2>2, <2>3, <2>4, OneCallMoves
  <2> QED BY <2>1, <2>5
<1> QED BY <1>4, <1>5, <1>6, <1>7, <1>8 DEF Replied

LEMMA ProviderStep == ProviderInv /\ [ProviderNext]_providerVars => ProviderInv'
<1> SUFFICES ASSUME ProviderInv, [ProviderNext]_providerVars PROVE ProviderInv'
  OBVIOUS
<1>1. CASE UNCHANGED <<call, netVars>>
  BY <1>1 DEF netVars, ProviderInv, Attempted
<1>2. CASE ProviderTick \/ UNCHANGED providerVars
  BY <1>1, <1>2 DEF ProviderTick, Tick, providerVars, vars
<1> QED BY <1>2, ProviderMoves DEF ProviderNext

(* A call has a request out or sleeps between two, and has failed as often *)
(* as it was repeated (vllm.py:131-159).                                   *)
THEOREM ProviderInvariant == ProviderSpec => []ProviderInv
<1>1. ProviderInit => ProviderInv
  BY ProviderAssumption DEF ProviderInit, Init, ProviderInv, Attempted
<1> QED BY <1>1, ProviderStep, PTL DEF ProviderSpec

(* The breaker hears of a fault only from a call that failed as often as   *)
(* it may be repeated, however calls interleave (vllm.py:131-159,          *)
(* service.py:317-319).                                                    *)
THEOREM ProviderFaultsPersist == ProviderSpec => FaultsPersist
<1> DEFINE Persist ==
        \A c \in Callers :
            /\ failures'[c] <= MaxRetries
            /\ (call[c] # "idle" /\ call'[c] = "idle" /\ breaker'.fails > 0
                                 /\ breaker' # breaker) => failures'[c] = MaxRetries
<1>1. ASSUME ProviderInv, ProviderNext PROVE Persist
  <2> SUFFICES ASSUME NEW c \in Callers
               PROVE  /\ failures'[c] <= MaxRetries
                      /\ (call[c] # "idle" /\ call'[c] = "idle" /\ breaker'.fails > 0
                             /\ breaker' # breaker) => failures'[c] = MaxRetries
    OBVIOUS
  <2>1. failures'[c] \in 0..MaxRetries
    BY <1>1, ProviderStep DEF ProviderInv
  <2>2. Closed.fails = 0
    BY DEF Closed
  <2>3. CASE ProviderTick
    BY <2>1, <2>3, ProviderAssumption DEF ProviderTick, Tick
  <2>4. ASSUME NEW d \in Callers, Send(d) \/ Replied(d) \/ Again(d) \/ Withdrawn(d)
        PROVE  (call[c] # "idle" /\ call'[c] = "idle") =>
                   \/ breaker' = breaker \/ breaker' = Closed
                   \/ failures'[c] = MaxRetries
    BY <1>1, <2>4, ProviderMoves
  <2> QED BY <1>1, <2>1, <2>2, <2>3, <2>4, ProviderAssumption DEF ProviderNext
<1>2. ProviderInv /\ [ProviderNext]_providerVars => [Persist]_providerVars
  BY <1>1
<1> HIDE DEF Persist
<1>3. ProviderSpec => [][Persist]_providerVars
  BY <1>2, ProviderInvariant, PTL DEF ProviderSpec
<1> QED BY <1>3 DEF FaultsPersist, Persist

(* To the breaker, the provider is a backend as Breaker has it: its        *)
(* repetitions are stutters (vllm.py:131-159, service.py:302-341).         *)
THEOREM ProviderIsBackend == ProviderSpec => Spec
<1>1. ProviderInit => Init
  BY DEF ProviderInit
<1>2. ProviderNext => [Next]_vars
  BY DEF ProviderNext, Send, Replied, Answered, Rejected, Backoff, GiveUp, Again, Withdrawn,
         ProviderTick, Next
<1>3. UNCHANGED providerVars => UNCHANGED vars
  BY DEF providerVars
<1> QED BY <1>1, <1>2, <1>3, PTL DEF ProviderSpec, Spec

(* So behind a provider that repeats requests the breaker keeps its states *)
(* in order, and puts one probe at a time through (breaker.py:71-118).     *)
THEOREM ProviderKeepsBreaker == ProviderSpec => ([]BreakerInv) /\ OneProbePerTrial
  BY ProviderIsBackend, BreakerInvariant, BreakerOneProbePerTrial
=============================================================================
