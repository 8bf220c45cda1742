-------------------------------- MODULE Cache --------------------------------
(***************************************************************************)
(* InMemoryCache (app/cache.py:81-121): a bounded cache that drops the     *)
(* least recently used entry, and forgets an entry when its time is up.    *)
(* get() and set() hold a lock that is never contended and do not suspend, *)
(* so each is one step; requests call them in any order.                   *)
(*                                                                         *)
(* An expired entry stays until it is read, evicted or replaced.  What an  *)
(* entry holds is Service's subject: here it is only there or not.         *)
(***************************************************************************)
EXTENDS Integers, FiniteSets, FiniteSetsExt

CONSTANTS
    Keys,
    MaxEntries,   \* max_entries
    Ttls          \* the values of ttl_s that set() is called with

ASSUME CacheAssumption ==
    /\ IsFiniteSet(Keys)
    /\ MaxEntries \in Nat \ {0}
    /\ Ttls \subseteq Nat /\ IsFiniteSet(Ttls) /\ Ttls # {}

VARIABLES
    cached,    \* the keys of _data
    older,     \* the order of _data, least recently used first, as a
               \* relation: older[k] are the keys that come before k
    left,      \* per key in _data: the time until expires_at, counted down
               \* to 0
    served,    \* history: the keys that the last call, a get(), answered
    age,       \* history: per key, the time since its last set()
    life,      \* history: per key, the ttl of its last set(), 0 before it
    since      \* history: per key, the others used since its own last use

dataVars == <<cached, older>>
cacheVars == <<dataVars, left, served, age, life, since>>

MaxTtl == Max(Ttls)

CacheInit ==
    /\ cached = {}
    /\ older = [k \in Keys |-> {}]
    /\ left = [k \in Keys |-> 0]
    /\ served = {}
    /\ age = [k \in Keys |-> 0]
    /\ life = [k \in Keys |-> 0]
    /\ since = [k \in Keys |-> {}]

(* The order once k has moved to its end.                                  *)
Touched(k) == [j \in Keys |-> IF j = k THEN cached \ {k} ELSE older[j] \ {k}]

(* _data holds the keys c from now on, in the order o.                     *)
Holds(c, o) ==
    /\ cached' = c
    /\ older' = [j \in Keys |-> IF j \in c THEN o[j] \cap c ELSE {}]

Used(k) == since' = [j \in Keys |-> IF j = k THEN {} ELSE since[j] \cup {k}]

(* Wrong on purpose: the end of an entry's life is not looked at.          *)
NeverExpired(k) == FALSE

Expired(k) == left[k] = 0

(* Wrong on purpose: a hit leaves the order as it is.                      *)
HitUnmoved(k) ==
    /\ k \in cached /\ ~Expired(k)
    /\ served' = {k}
    /\ Used(k)
    /\ UNCHANGED <<dataVars, left, age, life>>

(* get(k) finds a live entry.                                              *)
Hit(k) ==
    /\ k \in cached /\ ~Expired(k)
    /\ Holds(cached, Touched(k))
    /\ served' = {k}
    /\ Used(k)
    /\ UNCHANGED <<left, age, life>>

(* get(k) finds none, or an expired one, which it deletes.                 *)
Miss(k) ==
    /\ k \in cached => Expired(k)
    /\ Holds(cached \ {k}, older)
    /\ served' = {}
    /\ UNCHANGED <<left, age, life, since>>

(* What popitem(last=False) takes out when there are too many keys.        *)
Evicted(c, o) == IF Cardinality(c) > MaxEntries THEN {j \in c : o[j] = {}} ELSE {}

(* set(k) with a positive ttl_s; with another it returns at once.          *)
Set(k, ttl) ==
    /\ ttl > 0
    /\ LET c == cached \cup {k}
       IN  Holds(c \ Evicted(c, Touched(k)), Touched(k))
    /\ left' = [left EXCEPT ![k] = ttl]
    /\ served' = {}
    /\ age' = [age EXCEPT ![k] = 0]
    /\ life' = [life EXCEPT ![k] = ttl]
    /\ Used(k)

Age ==
    /\ left' = [k \in Keys |-> IF left[k] > 0 THEN left[k] - 1 ELSE 0]
    /\ age' = [k \in Keys |-> IF age[k] < MaxTtl THEN age[k] + 1 ELSE MaxTtl]
    /\ served' = {}
    /\ UNCHANGED <<dataVars, life, since>>

CacheNext ==
    \/ \E k \in Keys : Hit(k) \/ Miss(k) \/ \E ttl \in Ttls : Set(k, ttl)
    \/ Age

CacheSpec == CacheInit /\ [][CacheNext]_cacheVars

-----------------------------------------------------------------------------
(* No answer is served once ttl_s has passed since it was stored, however  *)
(* often it was read meanwhile (cache.py:102-106, 115).                    *)
ServedFresh == \A k \in served : age[k] < life[k]

(* The cache is bounded, and the bound costs only entries that are not in  *)
(* use: one that has not expired is there unless MaxEntries others were    *)
(* used since it was (cache.py:107, 115-118).                              *)
RecentlyUsedStays ==
    /\ Cardinality(cached) <= MaxEntries
    /\ \A k \in Keys :
          (age[k] < life[k] /\ Cardinality(since[k]) < MaxEntries) => k \in cached
=============================================================================
