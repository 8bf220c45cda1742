------------------------------- MODULE MCAnswers ------------------------------
(* Cache with three keys and room for two, stored for one tick, for two or *)
(* not at all; and SingleFlight with three callers of one key: one that    *)
(* starts, one that joins, and one that comes in between; and a stream of  *)
(* two pieces with two attempts.  The three share no state, so each        *)
(* behaviour exercises one of them.                                        *)
EXTENDS Cache, SingleFlight, ProviderStream

CONSTANTS c1, c2, c3, k1, k2, k3, s1

VARIABLE part   \* which of the three moves

MCKeys == {k1, k2, k3}
MCTtls == {0, 1, 2}
MCCallers == {c1, c2, c3}
MCStreams == {s1}
MCKey == [c \in MCCallers |-> k1]

MCInit ==
    /\ part \in {"cache", "flight", "stream"}
    /\ CacheInit /\ FlightInit /\ StreamInit

MCCacheNext == part = "cache" /\ CacheNext /\ UNCHANGED <<part, flightVars, streamVars>>
MCFlightNext == part = "flight" /\ FlightNext /\ UNCHANGED <<part, cacheVars, streamVars>>
MCStreamNext == part = "stream" /\ StreamNext /\ UNCHANGED <<part, cacheVars, flightVars>>

MCNext == MCCacheNext \/ MCFlightNext \/ MCStreamNext

MCSpec ==
    /\ MCInit /\ [][MCNext]_<<part, cacheVars, flightVars, streamVars>>
    /\ FlightFairness /\ StreamFairness
=============================================================================
