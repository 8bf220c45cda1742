---------------------------- MODULE AnswersProofs ----------------------------
(***************************************************************************)
(* Proofs about where an answer comes from: the model that routing and     *)
(* failover choose, the stream of its provider, the cache, and the work    *)
(* that concurrent callers share.  For every finite catalog and set of     *)
(* keys, every set of callers, any prices and any bounds.                  *)
(***************************************************************************)
EXTENDS Router, Cache, SingleFlight, ProviderStream, Sums

-----------------------------------------------------------------------------
(***************************************************************************)
(* SingleFlight: the tasks in _inflight and the callers that await them.   *)
(***************************************************************************)
Active == {"awaiting", "cancelled"}
Running == {"running", "cancelling"}

FlightTypeOK ==
    /\ inflight \in [Sought -> Callers \cup {None}]
    /\ work \in [Callers -> {"none"} \cup Running \cup Ends]
    /\ flight \in [Callers -> Callers \cup {None}]
    /\ call \in [Callers -> {"idle"} \cup Active \cup Returned]

(* A caller that has not called has no task and awaits none, and one that  *)
(* awaits awaits somebody's task.                                          *)
CallersFly ==
    \A c \in Callers :
        /\ call[c] = "idle" => work[c] = "none" /\ flight[c] = None
        /\ call[c] \in Active => flight[c] \in Callers

(* A running task is the one in _inflight, and so is that of a caller that *)
(* awaits its own: the finally block of another cannot take it out.        *)
InflightHolds ==
    \A c \in Callers :
        (work[c] \in Running \/ (call[c] \in Active /\ flight[c] = c))
            => inflight[Key[c]] = c

(* What is in _inflight has a starter that still awaits it, and whose      *)
(* finally block will take it out.                                         *)
StarterAwaits ==
    \A k \in Sought, c \in Callers :
        inflight[k] = c => Key[c] = k /\ flight[c] = c /\ call[c] \in Active

FlightInv ==
    /\ FlightTypeOK
    /\ CallersFly
    /\ InflightHolds
    /\ StarterAwaits
    /\ StoppedByStarter

-----------------------------------------------------------------------------
(* Nothing is in flight before the first call (cache.py:200-201).          *)
LEMMA FlightInitial == FlightInit => FlightInv
BY SingleFlightAssumption
   DEF FlightInit, FlightInv, FlightTypeOK, CallersFly, InflightHolds, StarterAwaits,
       StoppedByStarter, Active, Running, Ends, Returned

(* Every stretch of run() keeps the invariant (cache.py:203-218).          *)
LEMMA FlightStep == FlightInv /\ [FlightNext]_flightVars => FlightInv'
<1> SUFFICES ASSUME FlightInv, [FlightNext]_flightVars PROVE FlightInv'
    OBVIOUS
<1> USE SingleFlightAssumption
    DEF FlightInv, FlightTypeOK, CallersFly, InflightHolds, StarterAwaits,
        StoppedByStarter, Active, Running, Ends, Returned, Sought
<1>1. ASSUME NEW c \in Callers, Start(c) PROVE FlightInv'
    BY <1>1 DEF Start
<1>2. ASSUME NEW c \in Callers, Join(c) PROVE FlightInv'
    BY <1>2 DEF Join
<1>3. ASSUME NEW c \in Callers, Land(c) PROVE FlightInv'
    BY <1>3 DEF Land
<1>4. ASSUME NEW c \in Callers, Cancel(c) PROVE FlightInv'
    BY <1>4 DEF Cancel
<1>5. ASSUME NEW c \in Callers, Withdraw(c) PROVE FlightInv'
    BY <1>5 DEF Withdraw, KeyAfter, Landed
<1>6. ASSUME NEW c \in Callers, Return(c) PROVE FlightInv'
    BY <1>6 DEF Return, KeyAfter, Landed
<1>7. CASE UNCHANGED flightVars
    BY <1>7 DEF flightVars
<1> QED BY <1>1, <1>2, <1>3, <1>4, <1>5, <1>6, <1>7 DEF FlightNext

(* _inflight, the tasks and their callers agree at all times               *)
(* (cache.py:203-218).                                                     *)
THEOREM FlightInvariant == FlightSpec => []FlightInv
BY FlightInitial, FlightStep, PTL DEF FlightSpec

(* No two tasks of one key run at the same time (cache.py:194): both would *)
(* be the one in _inflight.                                                *)
THEOREM FlightOnePerKey == FlightSpec => []OneFlightPerKey
<1>1. FlightInv => OneFlightPerKey
    BY DEF FlightInv, InflightHolds, OneFlightPerKey, Running
<1> QED BY FlightInvariant, <1>1, PTL

(* A follower that gives up does not stop the work (cache.py:196-198).     *)
THEOREM FlightStoppedByStarter == FlightSpec => []StoppedByStarter
<1>1. FlightInv => StoppedByStarter
    BY DEF FlightInv
<1> QED BY FlightInvariant, <1>1, PTL

-----------------------------------------------------------------------------
(***************************************************************************)
(* ProviderStream: what a caller has got of the current connection.        *)
(***************************************************************************)
StreamTypeOK ==
    /\ at \in [Streams -> {"idle", "connecting", "backoff", "flowing"} \cup Ended]
    /\ attempt \in [Streams -> Nat]
    /\ started \in [Streams -> BOOLEAN]
    /\ sent \in [Streams -> Nat]
    /\ got \in [Streams -> Seq(Nat)]
    /\ kept \in [Streams -> BOOLEAN]

(* The caller has only pieces of the current connection, because an        *)
(* attempt that may be repeated has yielded nothing.                       *)
OneConnection ==
    \A s \in Streams :
        /\ \A i \in DOMAIN got[s] : got[s][i] <= sent[s]
        /\ got[s] # <<>> => started[s] /\ at[s] \in {"flowing"} \cup Ended

(* The attempts that are left when another one may follow.                 *)
AttemptsLeft ==
    \A s \in Streams :
        /\ attempt[s] <= MaxRetries
        /\ at[s] \in {"idle", "backoff"} => attempt[s] < MaxRetries

StreamInv ==
    /\ StreamTypeOK
    /\ OneConnection
    /\ AttemptsLeft
    /\ NeverRepeats

(* Nothing is yielded before the first attempt (vllm.py:199-201).          *)
LEMMA StreamInitial == StreamInit => StreamInv
BY ProviderStreamAssumption
   DEF StreamInit, StreamInv, StreamTypeOK, OneConnection, AttemptsLeft, NeverRepeats

(* A piece later than all of an increasing sequence extends it.            *)
LEMMA AppendLater ==
    ASSUME NEW q \in Seq(Nat), NEW n \in Nat,
           \A i \in DOMAIN q : q[i] <= n,
           \A i, j \in DOMAIN q : i < j => q[i] < q[j]
    PROVE  LET p == Append(q, n + 1)
           IN  /\ p \in Seq(Nat)
               /\ \A i \in DOMAIN p : p[i] <= n + 1
               /\ \A i, j \in DOMAIN p : i < j => p[i] < p[j]
<1> DEFINE p == Append(q, n + 1)
<1>1. /\ p \in Seq(Nat)
      /\ Len(p) = Len(q) + 1 /\ DOMAIN p = 1..Len(q) + 1 /\ DOMAIN q = 1..Len(q)
      /\ \A i \in 1..Len(q) : p[i] = q[i] /\ q[i] \in Nat
      /\ p[Len(q) + 1] = n + 1
    OBVIOUS
<1>2. \A i \in DOMAIN p : p[i] <= n + 1
    BY <1>1
<1>3. ASSUME NEW i \in DOMAIN p, NEW j \in DOMAIN p, i < j PROVE p[i] < p[j]
    <2>1. CASE j \in DOMAIN q
        BY <1>1, <1>3, <2>1
    <2>2. CASE j = Len(q) + 1
        BY <1>1, <1>3, <2>2
    <2> QED BY <1>1, <2>1, <2>2
<1> QED BY <1>1, <1>2, <1>3

(* Every stretch of generate_stream() keeps the invariant.                 *)
LEMMA StreamStep == StreamInv /\ [StreamNext]_streamVars => StreamInv'
<1> SUFFICES ASSUME StreamInv, [StreamNext]_streamVars PROVE StreamInv'
    OBVIOUS
<1> USE ProviderStreamAssumption
    DEF StreamInv, StreamTypeOK, OneConnection, AttemptsLeft, NeverRepeats, Ended, Goes
<1>1. ASSUME NEW s \in Streams, Connect(s) PROVE StreamInv'
    BY <1>1 DEF Connect
<1>2. ASSUME NEW s \in Streams, Accepted(s) PROVE StreamInv'
    BY <1>2 DEF Accepted
<1>3. ASSUME NEW s \in Streams, Refused(s) PROVE StreamInv'
    BY <1>3 DEF Refused
<1>4. ASSUME NEW s \in Streams, Piece(s) PROVE StreamInv'
    <2>1. /\ sent' = [sent EXCEPT ![s] = @ + 1]
          /\ got' = [got EXCEPT ![s] = Append(@, sent[s] + 1)]
          /\ started' = [started EXCEPT ![s] = TRUE]
          /\ at[s] = "flowing" /\ UNCHANGED <<at, attempt, kept>>
        BY <1>4 DEF Piece
    <2>2. /\ got'[s] \in Seq(Nat)
          /\ \A i \in DOMAIN got'[s] : got'[s][i] <= sent'[s]
          /\ \A i, j \in DOMAIN got'[s] : i < j => got'[s][i] < got'[s][j]
        BY <2>1, AppendLater
    <2>3. \A t \in Streams \ {s} : got'[t] = got[t] /\ sent'[t] = sent[t]
                                   /\ started'[t] = started[t]
        BY <2>1
    <2>4. StreamTypeOK'
        BY <2>1, <2>2
    <2>5. OneConnection'
        BY <2>1, <2>2, <2>3
    <2>6. NeverRepeats'
        BY <2>2, <2>3
    <2> QED BY <2>1, <2>4, <2>5, <2>6
<1>5. ASSUME NEW s \in Streams, Garbled(s) PROVE StreamInv'
    BY <1>5 DEF Garbled
<1>6. ASSUME NEW s \in Streams, Notice(s) PROVE StreamInv'
    BY <1>6 DEF Notice
<1>7. ASSUME NEW s \in Streams, Broken(s) PROVE StreamInv'
    BY <1>7 DEF Broken, MayRestart
<1>8. ASSUME NEW s \in Streams, Completes(s) PROVE StreamInv'
    BY <1>8 DEF Completes
<1>9. ASSUME NEW s \in Streams, Close(s) PROVE StreamInv'
    BY <1>9 DEF Close
<1>10. CASE UNCHANGED streamVars
    BY <1>10 DEF streamVars
<1> QED BY <1>1, <1>2, <1>3, <1>4, <1>5, <1>6, <1>7, <1>8, <1>9, <1>10
        DEF StreamNext, Progress

(* What was yielded is of one connection, and connections are counted      *)
(* (vllm.py:201, 206, 253).                                                *)
THEOREM StreamInvariant == StreamSpec => []StreamInv
BY StreamInitial, StreamStep, PTL DEF StreamSpec

(* Delivered output is never repeated (vllm.py:195-197), over any number   *)
(* of attempts.                                                            *)
THEOREM StreamNeverRepeats == StreamSpec => []NeverRepeats
<1>1. StreamInv => NeverRepeats
    BY DEF StreamInv
<1> QED BY StreamInvariant, <1>1, PTL

-----------------------------------------------------------------------------
(***************************************************************************)
(* Cache: the order of its entries, and what was used since each.          *)
(***************************************************************************)
CacheTypeOK ==
    /\ cached \subseteq Keys
    /\ older \in [Keys -> SUBSET Keys]
    /\ served \subseteq Keys
    /\ age \in [Keys -> Nat]
    /\ life \in [Keys -> Ttls \cup {0}]
    /\ since \in [Keys -> SUBSET Keys]

(* o puts the keys c in a row.                                             *)
Ordered(c, o) ==
    /\ \A j \in c : o[j] \subseteq c \ {j}
    /\ \A i, j \in c : i = j \/ i \in o[j] \/ j \in o[i]
    /\ \A i, j, k \in c : i \in o[j] /\ j \in o[k] => i \in o[k]

(* What is left of an entry's life is what its ttl_s and its age leave.    *)
LifeLeft ==
    /\ left = [k \in Keys |-> IF age[k] < life[k] THEN life[k] - age[k] ELSE 0]

(* A key that comes after k in the order was used since k was.             *)
NewerWereUsed == \A j, k \in cached : k \in older[j] => j \in since[k]

CacheInv ==
    /\ CacheTypeOK
    /\ Ordered(cached, older)
    /\ LifeLeft
    /\ NewerWereUsed
    /\ ServedFresh
    /\ RecentlyUsedStays

(* Entries may leave an order, ...                                         *)
LEMMA RestOfOrder ==
    ASSUME NEW c, NEW o, Ordered(c, o), c \subseteq Keys, NEW d \in SUBSET c
    PROVE  Ordered(d, [j \in Keys |-> IF j \in d THEN o[j] \cap d ELSE {}])
  BY DEF Ordered

(* ... one may move to its end or join it there, ...                       *)
LEMMA TouchedIsOrder ==
    ASSUME CacheTypeOK, Ordered(cached, older), NEW k \in Keys
    PROVE  /\ Ordered(cached \cup {k}, Touched(k))
           /\ \A j \in Keys : Touched(k)[j] \subseteq Keys
  BY DEF Ordered, Touched, CacheTypeOK

(* ... and an order has a first element, whatever its length.              *)
LEMMA OrderHasFirst ==
    ASSUME NEW c, IsFiniteSet(c), c # {}, NEW o, Ordered(c, o)
    PROVE  \E j \in c : o[j] = {}
<1> DEFINE Befores == {b \in SUBSET c : \E j \in c : b = o[j]}
<1>1. Befores \subseteq SUBSET c /\ Befores # {}
  BY DEF Ordered
<1>2. PICK b \in Befores : \A d \in Befores : d \subseteq b => d = b
  <2> HIDE DEF Befores
  <2> QED BY <1>1, MinimalSubset
<1>3. PICK j \in c : b = o[j]
  OBVIOUS
<1>4. ASSUME NEW i \in o[j] PROVE FALSE
  <2>1. i \in c /\ o[i] \subseteq c /\ o[i] \subseteq o[j] /\ i \notin o[i]
    BY <1>3 DEF Ordered
  <2>2. o[i] \in Befores
    BY <2>1
  <2> QED BY <1>2, <1>3, <2>1, <2>2
<1> QED BY <1>3, <1>4

LEMMA LongestLife ==
    MaxTtl \in Nat /\ \A ttl \in Ttls : ttl \in Nat /\ ttl <= MaxTtl
<1>1. Ttls \subseteq Int /\ Ttls \subseteq Nat /\ IsFiniteSet(Ttls) /\ Ttls # {}
  BY CacheAssumption
<1> QED BY <1>1, MaxOfFinite DEF MaxTtl

LEMMA AgesAreNats ==
    ASSUME CacheTypeOK, NEW k \in Keys
    PROVE  age[k] \in Nat /\ life[k] \in Nat /\ life[k] <= MaxTtl
<1>1. age[k] \in Nat /\ life[k] \in Ttls \cup {0}
  BY DEF CacheTypeOK
<1> QED BY <1>1, LongestLife

LEMMA SubsetOfKeys ==
    \A S \in SUBSET Keys : IsFiniteSet(S) /\ Cardinality(S) \in Nat
  BY CacheAssumption, FS_Subset, FS_CardinalityType

LEMMA MoreKeys ==
    \A S, T \in SUBSET Keys : S \subseteq T => Cardinality(S) <= Cardinality(T)
<1> SUFFICES ASSUME NEW S \in SUBSET Keys, NEW T \in SUBSET Keys, S \subseteq T
             PROVE  Cardinality(S) <= Cardinality(T)
  OBVIOUS
<1> QED BY SubsetOfKeys, FS_Subset

LEMMA CacheInitial == CacheInit => CacheInv
<1> SUFFICES ASSUME CacheInit PROVE CacheInv
  OBVIOUS
<1>1. RecentlyUsedStays
  BY CacheAssumption, FS_EmptySet DEF CacheInit, RecentlyUsedStays
<1> QED BY <1>1 DEF CacheInit, CacheInv, CacheTypeOK, Ordered, LifeLeft, NewerWereUsed,
                    ServedFresh

LEMMA HitKeeps == ASSUME CacheInv, NEW k \in Keys, Hit(k) PROVE CacheInv'
<1>1. /\ k \in cached /\ left[k] # 0 /\ served' = {k}
      /\ cached' = cached
      /\ older' = [j \in Keys |-> IF j \in cached THEN Touched(k)[j] \cap cached ELSE {}]
      /\ since' = [j \in Keys |-> IF j = k THEN {} ELSE since[j] \cup {k}]
      /\ UNCHANGED <<left, age, life>>
  BY DEF Hit, Holds, Used, Expired
<1>2. CacheTypeOK /\ Ordered(cached, older) /\ LifeLeft /\ NewerWereUsed
  BY DEF CacheInv
<1>3. CacheTypeOK'
  BY <1>1, <1>2 DEF CacheTypeOK
<1>4. Ordered(cached, older)'
  <2>1. cached \cup {k} = cached /\ cached \subseteq Keys
    BY <1>1, <1>2 DEF CacheTypeOK
  <2>2. Ordered(cached, Touched(k))
    BY <1>2, <2>1, TouchedIsOrder
  <2> QED BY <1>1, <2>1, <2>2, RestOfOrder
<1>5. LifeLeft' /\ ServedFresh'
  BY <1>1, <1>2 DEF LifeLeft, ServedFresh
<1>6. NewerWereUsed'
  BY <1>1, <1>2 DEF NewerWereUsed, Touched, CacheTypeOK
<1>7. RecentlyUsedStays'
  <2>1. ASSUME NEW j \in Keys, j \notin cached, age[j] < life[j]
        PROVE  ~ (Cardinality(since'[j]) < MaxEntries)
    <3>1. since[j] \subseteq since'[j] /\ since'[j] \in SUBSET Keys /\ since[j] \in SUBSET Keys
      BY <1>1, <1>2, <1>3, <2>1 DEF CacheTypeOK
    <3>2. ~ (Cardinality(since[j]) < MaxEntries)
      BY <2>1 DEF CacheInv, RecentlyUsedStays
    <3> QED BY <3>1, <3>2, MoreKeys, SubsetOfKeys, CacheAssumption
  <2> QED BY <1>1, <2>1 DEF CacheInv, RecentlyUsedStays
<1> QED BY <1>3, <1>4, <1>5, <1>6, <1>7 DEF CacheInv

LEMMA MissKeeps == ASSUME CacheInv, NEW k \in Keys, Miss(k) PROVE CacheInv'
<1> DEFINE c == cached \ {k}
<1>1. /\ k \in cached => left[k] = 0
      /\ served' = {} /\ cached' = c
      /\ older' = [j \in Keys |-> IF j \in c THEN older[j] \cap c ELSE {}]
      /\ UNCHANGED <<left, age, life, since>>
  BY DEF Miss, Holds, Expired
<1>2. CacheTypeOK /\ Ordered(cached, older) /\ LifeLeft /\ NewerWereUsed
  BY DEF CacheInv
<1>3. CacheTypeOK'
  BY <1>1, <1>2 DEF CacheTypeOK
<1>4. Ordered(cached, older)'
  <2>1. c \in SUBSET cached /\ cached \subseteq Keys
    BY <1>2 DEF CacheTypeOK
  <2> HIDE DEF c
  <2> QED BY <1>1, <1>2, <2>1, RestOfOrder
<1>5. LifeLeft' /\ ServedFresh' /\ NewerWereUsed'
  BY <1>1, <1>2 DEF LifeLeft, ServedFresh, NewerWereUsed, CacheTypeOK
<1>6. RecentlyUsedStays'
  <2>1. Cardinality(c) <= MaxEntries
    <3>1. Cardinality(c) <= Cardinality(cached) /\ Cardinality(cached) <= MaxEntries
      BY <1>2, MoreKeys DEF CacheTypeOK, CacheInv, RecentlyUsedStays
    <3>2. Cardinality(c) \in Nat /\ Cardinality(cached) \in Nat
      BY <1>2, SubsetOfKeys DEF CacheTypeOK
    <3> QED BY <3>1, <3>2, CacheAssumption
  <2>2. k \in cached => ~ (age[k] < life[k])
    <3>1. age[k] \in Nat /\ life[k] \in Nat
      BY <1>2, AgesAreNats
    <3> QED BY <1>1, <1>2, <3>1 DEF LifeLeft
  <2> QED BY <1>1, <2>1, <2>2 DEF CacheInv, RecentlyUsedStays
<1> QED BY <1>3, <1>4, <1>5, <1>6 DEF CacheInv

(* What has to make room for a new key is the first of the order, if       *)
(* anything: all the others were used since it was.                        *)
LEMMA EvictedIsOldest ==
    ASSUME CacheInv, NEW k \in Keys, NEW e, e = Evicted(cached \cup {k}, Touched(k))
    PROVE  /\ e \subseteq cached \ {k}
           /\ Cardinality((cached \cup {k}) \ e) <= MaxEntries
           /\ \A j \in e : ~ (Cardinality(since[j] \cup {k}) < MaxEntries)
<1> DEFINE c == cached \cup {k}
           o == Touched(k)
<1>1. CacheTypeOK /\ Ordered(cached, older) /\ NewerWereUsed
  BY DEF CacheInv
<1>2. c \in SUBSET Keys /\ cached \in SUBSET Keys /\ c # {}
  BY <1>1 DEF CacheTypeOK
<1>3. Ordered(c, o)
  BY <1>1, TouchedIsOrder
<1>4. /\ IsFiniteSet(c) /\ Cardinality(c) \in Nat /\ Cardinality(cached) \in Nat
      /\ Cardinality(cached) <= MaxEntries /\ MaxEntries \in Nat \ {0}
  BY <1>2, SubsetOfKeys, CacheAssumption DEF CacheInv, RecentlyUsedStays
<1>5. CASE ~ (Cardinality(c) > MaxEntries)
  <2>1. e = {} /\ c \ e = c
    BY <1>5 DEF Evicted
  <2> QED BY <1>4, <1>5, <2>1
<1>6. CASE Cardinality(c) > MaxEntries
  <2>1. e = {j \in c : o[j] = {}} /\ k \notin cached
    <3>1. ASSUME k \in cached PROVE FALSE
      <4>1. c = cached
        BY <3>1
      <4> HIDE DEF c
      <4> QED BY <1>4, <1>6, <4>1
    <3>2. e = {j \in c : o[j] = {}}
      BY <1>6 DEF Evicted
    <3> QED BY <3>1, <3>2
  <2>2. /\ Cardinality(c) = Cardinality(cached) + 1 /\ Cardinality(cached) = MaxEntries
        /\ cached # {}
    <3>1. IsFiniteSet(cached)
      BY <1>2, SubsetOfKeys
    <3>2. Cardinality(c) = Cardinality(cached) + 1
      BY <2>1, <3>1, FS_AddElement
    <3>3. cached = {} => Cardinality(cached) = 0
      BY FS_EmptySet
    <3> HIDE DEF c
    <3> QED BY <1>4, <1>6, <3>2, <3>3
  <2>3. e \subseteq cached \ {k}
    <3>1. o[k] = cached
      BY <2>1 DEF Touched
    <3> QED BY <2>1, <2>2, <3>1
  <2>4. ASSUME NEW j \in e
        PROVE  /\ Cardinality(c \ {j}) = MaxEntries
               /\ c \ {j} \subseteq since[j] \cup {k}
    <3>1. j \in cached /\ j # k /\ o[j] = {}
      BY <2>1, <2>3
    <3>2. Cardinality(c \ {j}) = Cardinality(c) - 1
      BY <1>4, <3>1, FS_RemoveElement
    <3>3. ASSUME NEW i \in cached \ {j} PROVE i \in since[j]
      <4>1. i \in c /\ j \in c /\ i # j /\ i # k
        BY <2>1, <3>1
      <4>2. j \in o[i]
        BY <1>3, <3>1, <4>1 DEF Ordered
      <4>3. j \in older[i]
        BY <1>2, <4>1, <4>2 DEF Touched
      <4> QED BY <1>1, <3>1, <4>3 DEF NewerWereUsed
    <3> QED BY <2>2, <1>4, <3>2, <3>3
  <2>5. PICK j \in e : TRUE
    <3>1. \E i \in c : o[i] = {}
      <4> HIDE DEF c, o
      <4> QED BY <1>2, <1>3, <1>4, OrderHasFirst
    <3> QED BY <2>1, <3>1
  <2>6. Cardinality(c \ e) <= MaxEntries
    <3>1. c \ e \subseteq c \ {j} /\ c \ e \in SUBSET Keys /\ c \ {j} \in SUBSET Keys
      BY <1>2
    <3>2. Cardinality(c \ e) <= Cardinality(c \ {j})
      BY <3>1, MoreKeys
    <3> QED BY <2>4, <3>2
  <2>7. ASSUME NEW i \in e PROVE ~ (Cardinality(since[i] \cup {k}) < MaxEntries)
    <3>1. since[i] \cup {k} \in SUBSET Keys /\ c \ {i} \in SUBSET Keys
      BY <1>1, <1>2, <2>3 DEF CacheTypeOK
    <3>2. Cardinality(c \ {i}) = MaxEntries /\ c \ {i} \subseteq since[i] \cup {k}
      BY <2>4
    <3>3. MaxEntries <= Cardinality(since[i] \cup {k})
      BY <3>1, <3>2, MoreKeys
    <3>4. Cardinality(since[i] \cup {k}) \in Nat
      BY <3>1, SubsetOfKeys
    <3> QED BY <1>4, <3>3, <3>4
  <2> QED BY <2>3, <2>6, <2>7
<1> QED BY <1>5, <1>6

LEMMA SetKeeps ==
    ASSUME CacheInv, NEW k \in Keys, NEW ttl \in Ttls, Set(k, ttl) PROVE CacheInv'
<1> DEFINE e == Evicted(cached \cup {k}, Touched(k))
           c == (cached \cup {k}) \ e
<1>1. /\ ttl > 0 /\ served' = {} /\ cached' = c
      /\ older' = [j \in Keys |-> IF j \in c THEN Touched(k)[j] \cap c ELSE {}]
      /\ left' = [left EXCEPT ![k] = ttl]
      /\ age' = [age EXCEPT ![k] = 0]
      /\ life' = [life EXCEPT ![k] = ttl]
      /\ since' = [j \in Keys |-> IF j = k THEN {} ELSE since[j] \cup {k}]
  BY DEF Set, Holds, Used
<1>2. CacheTypeOK /\ Ordered(cached, older) /\ LifeLeft /\ NewerWereUsed
  BY DEF CacheInv
<1>3. /\ e \subseteq cached \ {k} /\ Cardinality(c) <= MaxEntries
      /\ \A j \in e : ~ (Cardinality(since[j] \cup {k}) < MaxEntries)
  BY EvictedIsOldest
<1>4. /\ c \in SUBSET Keys /\ k \in c /\ c \in SUBSET (cached \cup {k})
      /\ cached \cup {k} \subseteq Keys
  BY <1>2, <1>3 DEF CacheTypeOK
<1>5. \A j \in cached \ c : j \in e
  OBVIOUS
<1> HIDE DEF e, c
<1>6. CacheTypeOK'
  BY <1>1, <1>2, <1>4 DEF CacheTypeOK
<1>7. Ordered(cached, older)'
  <2>1. Ordered(cached \cup {k}, Touched(k))
    BY <1>2, TouchedIsOrder
  <2> QED BY <1>1, <1>4, <2>1, RestOfOrder
<1>8. LifeLeft' /\ ServedFresh'
  <2>1. ttl \in Nat /\ age \in [Keys -> Nat]
    BY <1>2, CacheAssumption DEF CacheTypeOK
  <2> QED BY <1>1, <1>2, <2>1 DEF LifeLeft, ServedFresh, CacheTypeOK
<1>9. NewerWereUsed'
  BY <1>1, <1>2, <1>4 DEF NewerWereUsed, Touched, CacheTypeOK
<1>10. RecentlyUsedStays'
  <2>1. ASSUME NEW j \in Keys, j \notin c, age[j] < life[j]
        PROVE  ~ (Cardinality(since'[j]) < MaxEntries)
    <3>1. since'[j] = since[j] \cup {k} /\ j # k
      BY <1>1, <1>4, <2>1
    <3>2. CASE j \in cached
      BY <1>3, <1>5, <2>1, <3>1, <3>2
    <3>3. CASE j \notin cached
      <4>1. since[j] \subseteq since'[j] /\ since'[j] \in SUBSET Keys /\ since[j] \in SUBSET Keys
        BY <1>2, <3>1 DEF CacheTypeOK
      <4>2. ~ (Cardinality(since[j]) < MaxEntries)
        BY <2>1, <3>3 DEF CacheInv, RecentlyUsedStays
      <4> QED BY <4>1, <4>2, MoreKeys, SubsetOfKeys, CacheAssumption
    <3> QED BY <3>2, <3>3
  <2>2. \A j \in Keys \ c : age'[j] = age[j] /\ life'[j] = life[j]
    BY <1>1, <1>2, <1>4 DEF CacheTypeOK
  <2> QED BY <1>1, <1>3, <2>1, <2>2 DEF RecentlyUsedStays
<1> QED BY <1>6, <1>7, <1>8, <1>9, <1>10 DEF CacheInv

LEMMA AgeKeeps == ASSUME CacheInv, Age PROVE CacheInv'
<1>1. /\ left' = [k \in Keys |-> IF left[k] > 0 THEN left[k] - 1 ELSE 0]
      /\ age' = [k \in Keys |-> IF age[k] < MaxTtl THEN age[k] + 1 ELSE MaxTtl]
      /\ served' = {}
      /\ UNCHANGED <<cached, older, life, since>>
  BY DEF Age, dataVars
<1>2. CacheTypeOK /\ Ordered(cached, older) /\ LifeLeft /\ NewerWereUsed
  BY DEF CacheInv
<1>3. ASSUME NEW k \in Keys
      PROVE  /\ age'[k] \in Nat
             /\ age'[k] < life[k] => age[k] < life[k]
             /\ left'[k] = IF age'[k] < life[k] THEN life[k] - age'[k] ELSE 0
  <2>1. /\ age[k] \in Nat /\ life[k] \in Nat /\ life[k] <= MaxTtl
        /\ left[k] = IF age[k] < life[k] THEN life[k] - age[k] ELSE 0
    BY <1>2, AgesAreNats DEF LifeLeft
  <2>2. /\ age'[k] = IF age[k] < MaxTtl THEN age[k] + 1 ELSE MaxTtl
        /\ left'[k] = IF left[k] > 0 THEN left[k] - 1 ELSE 0
    BY <1>1
  <2> QED BY <2>1, <2>2, LongestLife
<1>4. CacheTypeOK' /\ Ordered(cached, older)'
  <2>1. age' = [k \in Keys |-> age'[k]]
    BY <1>1
  <2>2. age' \in [Keys -> Nat]
    BY <1>3, <2>1
  <2> QED BY <1>1, <1>2, <2>2 DEF CacheTypeOK, Ordered
<1>5. LifeLeft'
  BY <1>1, <1>3 DEF LifeLeft
<1>6. NewerWereUsed' /\ ServedFresh'
  BY <1>1, <1>2 DEF NewerWereUsed, ServedFresh
<1>7. RecentlyUsedStays'
  BY <1>1, <1>3 DEF CacheInv, RecentlyUsedStays
<1> QED BY <1>4, <1>5, <1>6, <1>7 DEF CacheInv

LEMMA CacheStep == CacheInv /\ [CacheNext]_cacheVars => CacheInv'
<1> SUFFICES ASSUME CacheInv, [CacheNext]_cacheVars PROVE CacheInv'
  OBVIOUS
<1>1. CASE UNCHANGED cacheVars
  BY <1>1 DEF cacheVars, dataVars, CacheInv, CacheTypeOK, Ordered, LifeLeft,
              NewerWereUsed, ServedFresh, RecentlyUsedStays
<1> QED BY <1>1, HitKeeps, MissKeeps, SetKeeps, AgeKeeps DEF CacheNext

(* The cache's order is a row, and its entries' times add up               *)
(* (cache.py:81-121).                                                      *)
THEOREM CacheInvariant == CacheSpec => []CacheInv
  BY CacheInitial, CacheStep, PTL DEF CacheSpec

(* No answer is served once ttl_s has passed since it was stored           *)
(* (cache.py:102-106, 115).                                                *)
THEOREM CacheServedFresh == CacheSpec => []ServedFresh
<1>1. CacheInv => ServedFresh
  BY DEF CacheInv
<1> QED BY <1>1, CacheInvariant, PTL

(* The cache is bounded, and what lives in it goes only for MaxEntries     *)
(* others that were used since (cache.py:107, 115-118).                    *)
THEOREM CacheRecentlyUsedStays == CacheSpec => []RecentlyUsedStays
<1>1. CacheInv => RecentlyUsedStays
  BY DEF CacheInv
<1> QED BY <1>1, CacheInvariant, PTL

-----------------------------------------------------------------------------
(***************************************************************************)
(* Router: the models a request is offered.                                *)
(*                                                                         *)
(* Cheapest is a CHOOSE: it picks the first of the models by price because *)
(* a finite catalog has a first.  The invariant says of the last answer of *)
(* route() what it promises of its arguments (Right), in words that do not *)
(* choose; everything else follows from it.                                *)
(***************************************************************************)
(* m comes before all others of S.                                         *)
FirstOf(m, S) == m \in S /\ \A n \in S \ {m} : Before(m, n)

(* What route() promises of its answer d to r without the models failed.   *)
Right(d, r, failed) ==
    /\ d.downgraded \in BOOLEAN
    /\ d.error = "none" =>
           /\ d.model \in Available(failed)
           /\ InContext(d.model, r) /\ Cost(d.model, r) <= r.budget
           /\ r.force \in {NotGiven, d.model}
    /\ (d.error = "none" /\ r.force = NotGiven /\ ~d.downgraded) =>
           FirstOf(d.model, Capable(r, failed))
    /\ d.downgraded =>
           /\ d.error = "none" /\ r.force = NotGiven
           /\ \E p \in Capable(r, failed) :
                 /\ FirstOf(p, Capable(r, failed))
                 /\ Cost(p, r) > r.budget
                 /\ FirstOf(d.model, Cheaper(r, failed, p))

RouterInv ==
    /\ catalog \in [Models -> Offers]
    /\ request \in Requests
    /\ excluded \subseteq Models
    /\ Right(decision, request, excluded)

-----------------------------------------------------------------------------
(***************************************************************************)
(* The order of the catalog.                                               *)
(***************************************************************************)
LEMMA RankIsNat ==
    ASSUME catalog \in [Models -> Offers], NEW m \in Models PROVE Rank(m) \in Nat
<1>1. catalog[m] \in [tier : Tiers, inPrice : Nat, outPrice : Nat, context : Nat]
  BY RouterAssumption
<1> QED BY <1>1 DEF Rank

LEMMA ModelsFinite == Models \subseteq Int /\ \A S \in SUBSET Models : IsFiniteSet(S)
<1>1. Size \in Nat
  BY RouterAssumption
<1>2. IsFiniteSet(1..Size)
  BY <1>1, FS_Interval
<1>3. \A S \in SUBSET (1..Size) : IsFiniteSet(S)
  BY <1>2, FS_Subset
<1>4. 1..Size \subseteq Int
  BY <1>1
<1> QED BY <1>3, <1>4 DEF Models

(* Prices may be equal, positions are not: every set of models has one     *)
(* that comes before all others.                                           *)
LEMMA CheapestIsFirst ==
    ASSUME catalog \in [Models -> Offers], NEW S \in SUBSET Models, S # {}
    PROVE  FirstOf(Cheapest(S), S)
<1> DEFINE rank == [m \in S |-> Rank(m)]
           ranks == {rank[m] : m \in S}
           low == Min(ranks)
           lows == {m \in S : rank[m] = low}
           first == Min(lows)
<1>1. \A m \in S : rank[m] = Rank(m) /\ rank[m] \in Nat /\ m \in Int
  BY RankIsNat, ModelsFinite
<1>2. IsFiniteSet(S) /\ IsFiniteSet(lows)
  BY ModelsFinite, FS_Subset
<1>3. IsFiniteSet(ranks)
  <2>1. rank \in Surjection(S, ranks)
    BY DEF Surjection
  <2> HIDE DEF rank, ranks
  <2> QED BY <1>2, <2>1, FS_Surjection
<1>4. ranks \subseteq Int /\ ranks # {}
  BY <1>1
<1>5. low \in ranks /\ \A x \in ranks : low <= x
  <2> HIDE DEF ranks
  <2> QED BY <1>3, <1>4, MinOfFinite
<1>6. lows \subseteq Int /\ lows # {}
  <2> HIDE DEF low
  <2> QED BY <1>1, <1>5
<1>7. first \in lows /\ \A x \in lows : first <= x
  <2> HIDE DEF lows
  <2> QED BY <1>2, <1>6, MinOfFinite
<1>8. FirstOf(first, S)
  <2>1. first \in S /\ rank[first] = low
    BY <1>7
  <2>2. ASSUME NEW n \in S \ {first} PROVE Before(first, n)
    <3>1. rank[n] \in ranks
      OBVIOUS
    <3>2. low <= rank[n] /\ rank[n] = low => first <= n
      BY <1>5, <1>7, <3>1
    <3>3. Rank(first) = low /\ Rank(n) = rank[n] /\ first \in Int /\ n \in Int
          /\ Rank(first) \in Nat /\ Rank(n) \in Nat /\ n # first
      BY <1>1, <2>1
    <3> HIDE DEF low, first, rank
    <3>4. low <= rank[n]
      BY <1>5, <3>1
    <3> QED BY <3>2, <3>3, <3>4 DEF Before
  <2> QED BY <2>1, <2>2 DEF FirstOf
<1> HIDE DEF first
<1>9. first \in S /\ \A n \in S \ {first} : Before(first, n)
  BY <1>8 DEF FirstOf
<1> QED BY <1>9 DEF FirstOf, Cheapest

(* The order has no circles.                                               *)
LEMMA BeforeIsStrict ==
    ASSUME catalog \in [Models -> Offers], NEW m \in Models, NEW n \in Models,
           Before(m, n)
    PROVE  ~Before(n, m)
<1>1. Rank(m) \in Nat /\ Rank(n) \in Nat /\ m \in Int /\ n \in Int
  BY RankIsNat, ModelsFinite
<1> QED BY <1>1 DEF Before

-----------------------------------------------------------------------------
(***************************************************************************)
(* What route() answers.                                                   *)
(***************************************************************************)
LEMMA CostIsNat ==
    ASSUME catalog \in [Models -> Offers], NEW m \in Models, NEW r \in Requests
    PROVE  Cost(m, r) \in Nat /\ r.budget \in Nat
<1>1. /\ catalog[m].inPrice \in Nat /\ catalog[m].outPrice \in Nat
      /\ r.prompt.tokens \in Nat /\ r.ceiling \in Nat /\ r.budget \in Nat
      /\ DefaultCeiling \in Nat
  <2>1. catalog[m] \in [tier : Tiers, inPrice : Nat, outPrice : Nat, context : Nat]
    BY RouterAssumption
  <2>2. r.prompt \in [tokens : Nat, reasoning : Nat, simple : BOOLEAN, code : BOOLEAN]
    BY ComplexityAssumption DEF Requests
  <2>3. r.ceiling \in Nat /\ r.budget \in Nat /\ DefaultCeiling \in Nat
    BY RouterAssumption DEF Requests
  <2> QED BY <2>1, <2>2, <2>3
<1>2. Projected(r) \in Nat
  <2>1. \A n \in Nat : RoundQuarters(3 * n) \in Nat
    BY DEF RoundQuarters
  <2> QED BY <1>1, <2>1 DEF Projected
<1>3. \A x, y \in Nat : x * y \in Nat
  OBVIOUS
<1> QED BY <1>1, <1>2, <1>3 DEF Cost

LEMMA ErrorIsRight ==
    ASSUME NEW r, NEW failed, NEW e, e # "none" PROVE Right(Raise(e), r, failed)
  BY DEF Right, Raise

LEMMA ForcedIsRight ==
    ASSUME catalog \in [Models -> Offers], NEW r \in Requests,
           NEW failed \in SUBSET Models, r.force # NotGiven
    PROVE  Right(RouteForced(r, failed), r, failed)
<1>1. CASE r.force \notin Available(failed)
  BY <1>1, ErrorIsRight DEF RouteForced
<1>2. CASE r.force \in Available(failed) /\ ~InContext(r.force, r)
  BY <1>2, ErrorIsRight DEF RouteForced
<1>3. CASE /\ r.force \in Available(failed) /\ InContext(r.force, r)
           /\ Cost(r.force, r) > r.budget
  BY <1>3, ErrorIsRight DEF RouteForced
<1>4. CASE /\ r.force \in Available(failed) /\ InContext(r.force, r)
           /\ ~ (Cost(r.force, r) > r.budget)
  <2>1. Cost(r.force, r) <= r.budget
    BY <1>4, CostIsNat DEF Available
  <2>2. RouteForced(r, failed) = Decide(r.force, FALSE)
    BY <1>4 DEF RouteForced
  <2> QED BY <1>4, <2>1, <2>2 DEF Right, Decide
<1> QED BY <1>1, <1>2, <1>3, <1>4

LEMMA FreelyIsRight ==
    ASSUME catalog \in [Models -> Offers], NEW r \in Requests,
           NEW failed \in SUBSET Models, r.force = NotGiven
    PROVE  Right(RouteFreely(r, failed), r, failed)
<1> DEFINE capable == Capable(r, failed)
           primary == Cheapest(capable)
           cheaper == Cheaper(r, failed, primary)
           second == Cheapest(cheaper)
<1>1. CASE capable = {}
  BY <1>1, ErrorIsRight DEF RouteFreely
<1>2. CASE capable # {}
  <2>1. FirstOf(primary, capable)
    BY <1>2, CheapestIsFirst DEF Capable, Available
  <2>2. primary \in capable /\ primary \in Available(failed) /\ primary \in Models
    BY <2>1 DEF FirstOf, Capable, Available
  <2>3. CASE ~InContext(primary, r)
    BY <1>2, <2>3, ErrorIsRight DEF RouteFreely
  <2>4. CASE InContext(primary, r) /\ Cost(primary, r) <= r.budget
    <3>1. RouteFreely(r, failed) = Decide(primary, FALSE)
      BY <1>2, <2>4 DEF RouteFreely
    <3> HIDE DEF primary
    <3> QED BY <2>1, <2>2, <2>4, <3>1 DEF Right, Decide
  <2>5. CASE InContext(primary, r) /\ ~ (Cost(primary, r) <= r.budget) /\ cheaper # {}
    <3>1. RouteFreely(r, failed) = Decide(second, TRUE)
      BY <1>2, <2>5 DEF RouteFreely
    <3>2. FirstOf(second, cheaper)
      BY <2>5, CheapestIsFirst DEF Cheaper, Available
    <3>3. Cost(primary, r) > r.budget
      BY <2>2, <2>5, CostIsNat
    <3>4. /\ second \in Available(failed) /\ InContext(second, r)
          /\ Cost(second, r) <= r.budget
      BY <3>2 DEF FirstOf, Cheaper
    <3> HIDE DEF primary, second
    <3> QED BY <2>1, <2>2, <3>1, <3>2, <3>3, <3>4 DEF Right, Decide
  <2>6. CASE InContext(primary, r) /\ ~ (Cost(primary, r) <= r.budget) /\ cheaper = {}
    BY <1>2, <2>6, ErrorIsRight DEF RouteFreely
  <2> QED BY <2>3, <2>4, <2>5, <2>6
<1> QED BY <1>1, <1>2

LEMMA RouteIsRight ==
    ASSUME catalog \in [Models -> Offers], NEW r \in Requests,
           NEW failed \in SUBSET Models
    PROVE  Right(Route(r, failed), r, failed)
<1>1. CASE Available(failed) = {}
  BY <1>1, ErrorIsRight DEF Route
<1>2. CASE Available(failed) # {} /\ r.force # NotGiven
  BY <1>2, ForcedIsRight DEF Route
<1>3. CASE Available(failed) # {} /\ r.force = NotGiven
  BY <1>3, FreelyIsRight DEF Route
<1> QED BY <1>1, <1>2, <1>3

-----------------------------------------------------------------------------
LEMMA RouterInitial == Init => RouterInv
  BY RouteIsRight DEF Init, RouterInv

LEMMA FailOverAgain ==
    ASSUME RouterInv, FailOver
    PROVE  /\ RouterInv'
           /\ excluded' \in SUBSET Models
           /\ Right(decision', request, excluded')
<1>1. decision.model \in Models
  BY DEF RouterInv, FailOver, Right, Available
<1>2. excluded' \in SUBSET Models
  BY <1>1 DEF RouterInv, FailOver
<1>3. Right(decision', request, excluded')
  BY <1>2, RouteIsRight DEF RouterInv, FailOver
<1>4. Right(decision, request, excluded)'
  <2> DEFINE d == decision'
             f == excluded'
  <2>1. catalog' = catalog /\ request' = request
    BY DEF FailOver
  <2>2. /\ \A m, n : Before(m, n)' <=> Before(m, n)
        /\ \A m : /\ InContext(m, request)' <=> InContext(m, request)
                 /\ Cost(m, request)' = Cost(m, request)
    BY <2>1 DEF Before, Rank, InContext, Cost
  <2>3. /\ Available(excluded)' = Available(f)
        /\ Capable(request, excluded)' = Capable(request, f)
    BY <2>1 DEF Available, Capable
  <2>4. \A p : Cheaper(request, excluded, p)' = Cheaper(request, f, p)
    BY <2>1 DEF Available, Cheaper, Rank, InContext, Cost
  <2>5. \A m, S : FirstOf(m, S)' <=> FirstOf(m, S)
    BY <2>2 DEF FirstOf
  <2>6. Right(d, request, f)
    BY <1>3
  <2> HIDE DEF d, f
  <2> QED BY <2>1, <2>2, <2>3, <2>4, <2>5, <2>6 DEF Right, d, f
<1> QED BY <1>2, <1>3, <1>4 DEF RouterInv, FailOver

(* Whatever was routed so far, the last answer keeps to what route()       *)
(* promises, over any number of failovers (router.py:69-185).              *)
THEOREM RouterInvariant == Spec => []RouterInv
<1>1. RouterInv /\ [Next]_vars => RouterInv'
  <2> SUFFICES ASSUME RouterInv, [Next]_vars PROVE RouterInv'
    OBVIOUS
  <2>1. CASE UNCHANGED vars
    BY <2>1 DEF vars, RouterInv, Right, FirstOf, Before, Rank, Cheaper, Capable, Available,
                InContext, Cost
  <2> QED BY <2>1, FailOverAgain DEF Next
<1> QED BY <1>1, RouterInitial, PTL DEF Spec

(* Every model chosen, the first or a stand-in, fits the request, its      *)
(* budget and its tier, whatever the catalog (service.py:274-276).         *)
THEOREM RouterRespectsLimits == Spec => []RespectsLimits
<1>1. RouterInv => RespectsLimits
  <2> SUFFICES ASSUME RouterInv PROVE RespectsLimits
    OBVIOUS
  <2>1. Projected(request) > 0
    <3>1. \A n \in Nat : RoundQuarters(3 * n) \in Nat
      BY DEF RoundQuarters
    <3>2. request.ceiling \in Nat /\ DefaultCeiling \in Nat
      BY RouterAssumption DEF RouterInv, Requests
    <3> QED BY <3>1, <3>2 DEF Projected
  <2>2. Right(decision, request, excluded)
    BY DEF RouterInv
  <2> QED BY <2>1, <2>2 DEF RespectsLimits, Right, FirstOf, Capable, Available
<1> QED BY <1>1, RouterInvariant, PTL

(* One reasoning keyword outweighs all else that could pull a prompt into  *)
(* the lowest tier (complexity.py:126-160).                                *)
LEMMA ReasoningScores ==
    ASSUME NEW p \in Prompts, p.reasoning > 0, NEW ceiling \in Nat
    PROVE  Tier(p, ceiling, NoTask) > Simple
<1>1. /\ p.reasoning \in Nat /\ p.tokens \in Nat /\ Saturation \in Nat \ {0}
  BY ComplexityAssumption
<1> DEFINE k == Capped(p.reasoning, 3)
<1>2. k \in {1, 2, 3} /\ Capped(p.tokens, Saturation) \in Nat
      /\ Capped(ceiling, Saturation) \in Nat
  BY <1>1 DEF Capped
<1>3. 20 * Saturation * k \in Nat /\ 20 * Saturation * k >= 20 * Saturation
  <2> HIDE DEF k
  <2> QED BY <1>1, <1>2
<1> HIDE DEF k
<1>4. Blend(p, ceiling) >= 20 * Saturation /\ Blend(p, ceiling) \in Nat
  BY <1>1, <1>2, <1>3 DEF Blend, k
<1>5. Score(p, ceiling) \in Nat /\ 5 * Score(p, ceiling) >= One
  <2> DEFINE b == Blend(p, ceiling)
  <2>1. Score(p, ceiling) = Capped(IF b - 0 < 0 THEN 0 ELSE b - 0, One)
    BY <1>1 DEF Score
  <2> HIDE DEF b
  <2>2. b \in Nat /\ b >= 20 * Saturation
    BY <1>4 DEF b
  <2> QED BY <1>1, <2>1, <2>2 DEF Capped, One
<1> QED BY <1>5 DEF Tier, Simple, Moderate, Complex

(* A prompt with a reasoning keyword never goes to a model of the lowest   *)
(* tier on its own account (complexity.py:159-160).                        *)
THEOREM RouterReasoningIsNotSimple == Spec => []ReasoningIsNotSimple
<1>1. RouterInv => ReasoningIsNotSimple
  <2> SUFFICES ASSUME RouterInv, decision.error = "none", request.prompt.reasoning > 0,
                      request.task = NoTask, request.force = NotGiven, ~decision.downgraded
               PROVE  catalog[decision.model].tier > Simple
    BY DEF ReasoningIsNotSimple
  <2>1. decision.model \in Models /\ catalog[decision.model].tier >= TierOf(request)
    BY DEF RouterInv, Right, FirstOf, Capable, Available
  <2>2. request.prompt \in Prompts /\ request.ceiling \in Nat
    BY RouterAssumption DEF RouterInv, Requests
  <2>3. TierOf(request) > Simple /\ TierOf(request) \in Tiers
    BY <2>2, ReasoningScores DEF TierOf, Tier, Tiers
  <2>4. catalog[decision.model].tier \in Tiers
    BY <2>1, RouterAssumption DEF RouterInv
  <2> QED BY <2>1, <2>3, <2>4 DEF Tiers, Simple, Moderate, Complex
<1> QED BY <1>1, RouterInvariant, PTL

(* A downgrade is cheaper for the very request than the model it replaces, *)
(* though the catalog is ranked by another call (router.py:155-182).       *)
THEOREM RouterDowngradeSaves == Spec => []DowngradeSaves
<1>1. RouterInv => DowngradeSaves
  <2> SUFFICES ASSUME RouterInv, decision.downgraded
               PROVE  \E m \in Capable(request, excluded) :
                         /\ \A n \in Capable(request, excluded) \ {m} : Before(m, n)
                         /\ Cost(m, request) > request.budget
                         /\ Cost(decision.model, request) < Cost(m, request)
    BY DEF DowngradeSaves
  <2>1. PICK p \in Capable(request, excluded) :
            /\ FirstOf(p, Capable(request, excluded))
            /\ Cost(p, request) > request.budget
    BY DEF RouterInv, Right
  <2>2. /\ decision.model \in Models /\ p \in Models
        /\ Cost(decision.model, request) <= request.budget
    BY DEF RouterInv, Right, Available, Capable
  <2>3. /\ Cost(decision.model, request) \in Nat /\ Cost(p, request) \in Nat
        /\ request.budget \in Nat
    BY <2>2, CostIsNat DEF RouterInv
  <2>4. Cost(decision.model, request) < Cost(p, request)
    BY <2>1, <2>2, <2>3
  <2> QED BY <2>1, <2>4 DEF FirstOf
<1> QED BY <1>1, RouterInvariant, PTL

(* A failed model leaves a set of models without its first: the next first *)
(* comes after it.                                                         *)
LEMMA NextFirst ==
    ASSUME NEW S, NEW T, NEW m, NEW n, FirstOf(m, S), FirstOf(n, T), T \subseteq S, n # m
    PROVE  Before(m, n)
  BY DEF FirstOf

LEMMA OneFirst ==
    ASSUME catalog \in [Models -> Offers], NEW S \in SUBSET Models, NEW m, NEW n,
           FirstOf(m, S), FirstOf(n, S)
    PROVE  m = n
<1>1. SUFFICES ASSUME m # n PROVE FALSE
  OBVIOUS
<1>2. m \in Models /\ n \in Models /\ Before(m, n) /\ Before(n, m)
  BY <1>1 DEF FirstOf
<1> QED BY <1>2, BeforeIsStrict

(* Failover only climbs, on every catalog: so no model is tried twice and  *)
(* the models a request is offered are a sequence fixed in advance         *)
(* (service.py:329-341).                                                   *)
THEOREM RouterFailoverClimbs == Spec => FailoverClimbs
<1> DEFINE Climbs ==
        decision'.error = "none" =>
            \/ decision'.downgraded /\ ~decision.downgraded
            \/ /\ decision'.downgraded = decision.downgraded
               /\ Before(decision.model, decision'.model)
<1>1. ASSUME RouterInv, FailOver PROVE Climbs
  <2> SUFFICES ASSUME decision'.error = "none"
               PROVE  \/ decision'.downgraded /\ ~decision.downgraded
                      \/ /\ decision'.downgraded = decision.downgraded
                         /\ Before(decision.model, decision'.model)
    OBVIOUS
  <2> DEFINE m == decision.model
             n == decision'.model
             old == Capable(request, excluded)
             new == Capable(request, excluded')
  <2>1. /\ decision.error = "none" /\ request.force = NotGiven
        /\ excluded' = excluded \cup {m}
        /\ Right(decision, request, excluded)
        /\ Right(decision', request, excluded')
        /\ catalog \in [Models -> Offers]
    BY <1>1, FailOverAgain DEF FailOver, RouterInv
  <2>2. new = old \ {m} /\ new \subseteq Models /\ old \subseteq Models
    BY <2>1 DEF Capable, Available
  <2>3. n \in Available(excluded') /\ n # m
    BY <2>1 DEF Right, Available
  <2>4. decision.downgraded \in BOOLEAN /\ decision'.downgraded \in BOOLEAN
    BY <2>1 DEF Right
  <2>5. CASE ~decision.downgraded /\ ~decision'.downgraded
    <3>1. FirstOf(m, old) /\ FirstOf(n, new)
      BY <2>1, <2>5 DEF Right
    <3>2. Before(m, n)
      BY <2>2, <2>3, <3>1, NextFirst
    <3> QED BY <2>4, <2>5, <3>2
  <2>6. CASE decision.downgraded
    <3>1. PICK p \in old : /\ FirstOf(p, old) /\ Cost(p, request) > request.budget
                           /\ FirstOf(m, Cheaper(request, excluded, p))
      BY <2>1, <2>6 DEF Right
    <3>2. m \in Models /\ Rank(m) < Rank(p)
      BY <3>1 DEF FirstOf, Cheaper, Available
    <3>3. m \notin old
      <4>1. SUFFICES ASSUME m \in old PROVE FALSE
        OBVIOUS
      <4>2. m = p \/ Before(p, m)
        BY <3>1, <4>1 DEF FirstOf
      <4>3. Rank(m) \in Nat /\ Rank(p) \in Nat
        BY <2>1, <2>2, <3>2, RankIsNat
      <4> QED BY <3>2, <4>2, <4>3 DEF Before
    <3>4. new = old
      BY <2>2, <3>3
    <3>5. CASE ~decision'.downgraded
      <4>1. FirstOf(n, old) /\ Cost(n, request) <= request.budget
        BY <2>1, <3>4, <3>5 DEF Right
      <4>2. n = p
        BY <2>1, <2>2, <3>1, <4>1, OneFirst
      <4>3. Cost(p, request) \in Nat /\ request.budget \in Nat
        BY <1>1, <2>1, <2>2, CostIsNat DEF RouterInv
      <4> QED BY <3>1, <4>1, <4>2, <4>3
    <3>6. CASE decision'.downgraded
      <4>1. PICK q \in old : FirstOf(q, old) /\ FirstOf(n, Cheaper(request, excluded', q))
        BY <2>1, <3>4, <3>6 DEF Right
      <4>2. q = p
        BY <2>1, <2>2, <3>1, <4>1, OneFirst
      <4>3. Cheaper(request, excluded', p) \subseteq Cheaper(request, excluded, p)
        BY <2>1 DEF Cheaper, Available
      <4>4. Before(m, n)
        BY <2>3, <3>1, <4>1, <4>2, <4>3, NextFirst
      <4> QED BY <2>4, <2>6, <3>6, <4>4
    <3> QED BY <3>5, <3>6
  <2>7. CASE ~decision.downgraded /\ decision'.downgraded
    BY <2>7
  <2> QED BY <2>5, <2>6, <2>7
<1>2. RouterInv /\ [Next]_vars => [Climbs]_vars
  BY <1>1 DEF Next
<1> HIDE DEF Climbs
<1>3. Spec => [][Climbs]_vars
  BY <1>2, RouterInvariant, PTL DEF Spec
<1> QED BY <1>3 DEF FailoverClimbs, Climbs
=============================================================================
