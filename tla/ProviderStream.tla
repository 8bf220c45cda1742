--------------------------- MODULE ProviderStream ---------------------------
(***************************************************************************)
(* Streams from a vLLM server: VLLMProvider.generate_stream()              *)
(* (app/providers/vllm.py:189-274) as handle_stream() consumes it, up to   *)
(* what is kept of the answer (app/service.py:506-515, 612-617).  The      *)
(* server generates an answer of Pieces pieces, one frame each; frames     *)
(* arrive whole or garbled, in order, and the connection may fail or close *)
(* at any time.  A failure before the first good frame is retried.         *)
(***************************************************************************)
EXTENDS Integers, Sequences

CONSTANTS
    Streams,
    Pieces,      \* pieces in a whole answer
    MaxRetries   \* max_retries

ASSUME ProviderStreamAssumption == Pieces \in Nat /\ MaxRetries \in Nat \ {0}

VARIABLES
    at,        \* per stream: where generate_stream() stands
    attempt,   \* per stream: the connections made so far
    started,   \* per stream: started, in the current attempt
    sent,      \* per stream: pieces the server has sent on this connection
    got,       \* per stream: the pieces yielded to the caller, by number
    kept       \* per stream: whether the text went into the cache

streamVars == <<at, attempt, started, sent, got, kept>>

(***************************************************************************)
(* "idle"        not begun                                                 *)
(* "connecting"  the request is on its way                                 *)
(* "backoff"     asleep before the next attempt                            *)
(* "flowing"     reading frames                                            *)
(* "complete"    ended normally;  "failed" raised;  "closed" by the caller *)
(***************************************************************************)
Ended == {"complete", "failed", "closed"}

StreamInit ==
    /\ at = [s \in Streams |-> "idle"]
    /\ attempt = [s \in Streams |-> 0]
    /\ started = [s \in Streams |-> FALSE]
    /\ sent = [s \in Streams |-> 0]
    /\ got = [s \in Streams |-> <<>>]
    /\ kept = [s \in Streams |-> FALSE]

Goes(s, to) == at' = [at EXCEPT ![s] = to]

(* Wrong on purpose: the attempts are not counted.                         *)
ConnectUncounted(s) ==
    /\ at[s] \in {"idle", "backoff"}
    /\ Goes(s, "connecting")
    /\ started' = [started EXCEPT ![s] = FALSE]
    /\ sent' = [sent EXCEPT ![s] = 0]
    /\ UNCHANGED <<attempt, got, kept>>

(* The next attempt, after a backoff if it is not the first.               *)
Connect(s) ==
    /\ at[s] \in {"idle", "backoff"}
    /\ Goes(s, "connecting")
    /\ attempt' = [attempt EXCEPT ![s] = @ + 1]
    /\ started' = [started EXCEPT ![s] = FALSE]
    /\ sent' = [sent EXCEPT ![s] = 0]
    /\ UNCHANGED <<got, kept>>

(* A status below 400.                                                     *)
Accepted(s) ==
    /\ at[s] = "connecting"
    /\ Goes(s, "flowing")
    /\ UNCHANGED <<attempt, started, sent, got, kept>>

(* A status that retrying will not help.                                   *)
Refused(s) ==
    /\ at[s] = "connecting"
    /\ Goes(s, "failed")
    /\ UNCHANGED <<attempt, started, sent, got, kept>>

(* A frame with the next piece; the caller takes it.                       *)
Piece(s) ==
    /\ at[s] = "flowing" /\ sent[s] < Pieces
    /\ sent' = [sent EXCEPT ![s] = @ + 1]
    /\ got' = [got EXCEPT ![s] = Append(@, sent'[s])]
    /\ started' = [started EXCEPT ![s] = TRUE]
    /\ UNCHANGED <<at, attempt, kept>>

(* A frame that is not JSON: it is skipped, and its piece with it.         *)
Garbled(s) ==
    /\ at[s] = "flowing" /\ sent[s] < Pieces
    /\ sent' = [sent EXCEPT ![s] = @ + 1]
    /\ UNCHANGED <<at, attempt, started, got, kept>>

(* A frame without a piece: token counts, or the server's report of an     *)
(* error of its own.                                                       *)
Notice(s) ==
    /\ at[s] = "flowing" /\ ~started[s]
    /\ started' = [started EXCEPT ![s] = TRUE]
    /\ UNCHANGED <<at, attempt, sent, got, kept>>

(* Wrong on purpose: what was already yielded does not matter.             *)
AlwaysRestarts(s) == attempt[s] < MaxRetries

MayRestart(s) == ~started[s] /\ attempt[s] < MaxRetries

(* The transport fails, or the server answers with a status that may pass. *)
Broken(s) ==
    /\ at[s] \in {"connecting", "flowing"}
    /\ Goes(s, IF MayRestart(s) THEN "backoff" ELSE "failed")
    /\ UNCHANGED <<attempt, started, sent, got, kept>>

(* "[DONE]", or the end of the body, wherever the answer stands: the       *)
(* stream is complete and handle_stream() has its text cached.             *)
Completes(s) ==
    /\ at[s] = "flowing"
    /\ Goes(s, "complete")
    /\ kept' = [kept EXCEPT ![s] = TRUE]
    /\ UNCHANGED <<attempt, started, sent, got>>

(* The caller closes the generator, or is cancelled.                       *)
Close(s) ==
    /\ at[s] \in {"connecting", "backoff", "flowing"}
    /\ Goes(s, "closed")
    /\ UNCHANGED <<attempt, started, sent, got, kept>>

Progress(s) ==
    \/ at[s] = "backoff" /\ Connect(s)
    \/ Accepted(s) \/ Refused(s) \/ Piece(s) \/ Garbled(s) \/ Notice(s)
    \/ Broken(s) \/ Completes(s)

StreamNext == \E s \in Streams : Connect(s) \/ Progress(s) \/ Close(s)

(* A backoff ends, and a server that says nothing runs into a timeout.     *)
StreamFairness == \A s \in Streams : WF_streamVars(Progress(s))

StreamSpec == StreamInit /\ [][StreamNext]_streamVars /\ StreamFairness

-----------------------------------------------------------------------------
(* "Once bytes have been delivered to the caller we cannot transparently   *)
(* restart without duplicating output" (vllm.py:195-197): the pieces of an *)
(* answer are yielded in order and none twice, over all attempts.          *)
NeverRepeats ==
    \A s \in Streams : \A i, j \in DOMAIN got[s] : i < j => got[s][i] < got[s][j]

(* Every stream that is begun ends: attempts are bounded (vllm.py:201).    *)
StreamsEnd ==
    \A s \in Streams : at[s] = "connecting" ~> at[s] \in Ended

(* "A truncated stream must never be cached" (service.py:613-614).         *)
TruncatedNotKept ==
    \A s \in Streams : kept[s] => got[s] = [i \in 1..Pieces |-> i]
=============================================================================
