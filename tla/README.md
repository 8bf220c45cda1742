# A formal model of the LLM inference autoscaling service

TLA+ modules that model the concurrent core of the service under `app/`, TLC configurations that
check them on small instances, and TLAPS proofs of what holds for every instance. Paths such as
`gate.py:46` are relative to `app/` unless they start with another directory. `PROJECT.json` maps
every definition to the lines it models and lists runs, mutants, findings, hazards and theorems.

## The system

The service is one asyncio process (a *replica*), or several that share a Redis. A request passes,
in this order (`service.py:345-423` buffered, `service.py:427-545` streamed):

    rate limit -> route -> cache lookup -> reserve -> admit -> generate -> settle + store -> release slot

| component | state it keeps | operations | what makes it correct |
|---|---|---|---|
| capacity gate `gate.py` | capacity, active, waiting, the condition's waiters | `acquire`, `release`, `resize` | slots and queue depth are counted exactly; nobody is admitted over capacity; nobody waits in front of a free slot |
| circuit breaker `breaker.py` | state, consecutive failures, time of opening, probe mark; one per model | `allows`, `record_success`, `record_failure` | opens for enough faults only, tries one probe per trial, always gets out of a trial |
| ledger `cost/memory.py` | entries (time, amount, id) per user, usage records | `reserve`, `settle`, `release`, `spent` | budgets hold under concurrency; each request is charged or refunded once |
| Redis ledger `cost/redis_ledger.py` | a ZSET per user, script cache, cached SHAs | the same, each as one Lua script | the budget is global; lost calls, restarts and crashes neither double nor lose a charge |
| autoscaler `autoscaler.py` | replica count, two cooldown stamps | `decide`, `apply`, `step` | converges up and down, scales below the load by a rounding error at most |
| service `service.py` | the above, detached finalizers | `handle`, `handle_stream`, `autoscale_tick`, `run_autoscaler` | slot, gauge, bill and cache agree with how a request ended; every request ends |
| router `router.py`, `tokens.py`, `complexity.py` | none | `route` | cheapest capable model, within budget and context |
| cache `cache.py` | LRU with expiry, or Redis keys; single-flight futures | `get`, `set`, `run` | bounded; an answer is served only for the request that it answers |
| rate limiter `ratelimit.py` | a token bucket per user, in memory or in Redis | `check` | admits at most burst plus rate times elapsed time |
| metrics `metrics.py` | counters and the `in_flight` gauge | `request_started`, `request_finished`, ... | the gauge counts requests in flight |
| providers `providers/` | HTTP client | `generate`, `generate_stream` | retries only what may be retried |
| API, wiring `main.py`, `schemas.py`, `factory.py`, `config.py` | none after start-up | request handlers | exceptions become the right status codes |

**How they interact.** Everything in a replica shares one event loop, so code between two
suspending awaits is atomic, and the hard cases are what other tasks do *at* an await. The service
calls the ledger, gate, breakers, providers and cache; the autoscaler loop reads `active` and
`waiting` off the gate (`service.py:639-640`) and resizes it (`service.py:646`). A stream's end, error
or disconnect starts a detached task that bills, stores and frees the slot (`service.py:581-630`).
Replicas interact only through Redis.

**What is hard.** A woken waiter runs later than its wake-up, and a deadline or a resize may come in
between; provider results reach a breaker in whatever state it is by then; holds expire under running
requests; the settlement of a stream races with everything after it; a request can be cancelled at
any await; a call to Redis can fail before or after its script ran, and Redis or a replica can
restart between two calls. The `hazards` of `PROJECT.json` list these line by line.

## Modules

| module | models | built on |
|---|---|---|
| `Gate` | `CapacityGate` and its use of `asyncio.Condition` | |
| `Autoscaler` | the closed loop of autoscaler and gate | composes `Gate` |
| `BreakerOps` | `CircuitBreaker` as a value and its methods as functions | |
| `Breaker` | one breaker under concurrent calls (`service.py:302-341`) | `BreakerOps` |
| `Provider` | vLLM's buffered calls with their retries, behind a breaker | composes `Breaker`, and is shown to implement it |
| `ProviderStream` | vLLM's streams, up to what is cached of them | |
| `Billing` | abstract: a request is held, then charged or refunded, once | |
| `Accounts` | whose requests they are | |
| `Ledger` | the in-memory ledger | extends `Accounts`, refines `Billing` |
| `RedisLedger` | the distributed ledger with faults, crashes and clock skew | refines `Billing` |
| `RateLimiter` | the token bucket, in memory or shared through Redis | extends `Accounts` |
| `Quotas` | limiter and ledger, one after the other | composes `RateLimiter`, `Ledger` |
| `Cache`, `SingleFlight` | the LRU cache with expiry; shared flights of work | |
| `Service` | the life of a request | composes `Gate`, `BreakerOps` |
| `Complexity`, `Router` | the classifier; `route()` for one request, and its failovers | `Router` extends `Complexity` |
| `MC...` | instances for TLC | |
| `GateProofs`, `AutoscalerProofs`, `ServiceProofs` | theorems about the gate, the loop around it, the service over it | `GateProofs` |
| `BreakerProofs` | theorems about the breaker, and the provider behind it | |
| `QuotasProofs`, `RedisLedgerProofs` | theorems about limiter and ledger, and the distributed ledger | `Sums` |
| `AnswersProofs` | theorems about `SingleFlight`, `ProviderStream`, `Cache`, `Router` | `Sums` |
| `Sums` | lemmas on sums, maxima and minima over finite sets | |

Definitions headed *Wrong on purpose* are plausible bugs; each property is shown to notice one.

**Gate.** `slot[t]` says where task `t` stands: `out`, `parked` on an unresolved future, `notified`
(resolved, not yet run), `cancelling` (a `CancelledError` is on its way) or `in`. `AcquireFast`,
`Park`, `Resume`, `Unwind`, `Release` and `Resize` are the uninterrupted stretches of `acquire`,
`release` and `resize` (`Free` is `release()` whoever calls it, `Release` the call of a task that holds a slot);
`Cancel` is the deadline of `wait_for` or a cancellation. The condition's
lock is never held across a suspension, so it is not modelled. The deque of waiters is the relation
`ahead`, from which `Wakeable(n, p)` gives the `n` longest-parked tasks. `RenotifyOnCancel` selects
the library: from CPython 3.13 on a cancelled waiter passes its wake-up on, before it does not; the
repository runs on 3.10 to 3.12 (Dockerfile, CI).

**BreakerOps, Breaker.** `opened_at` is kept as the age of the opening, capped at the timeout, and
the failure count is capped at the threshold: no code tells larger values apart. A call is let
through (`Admit`), suspends, and ends with a success, a server fault, or without a record
(`Abandon`: any other exception, or a cancellation). The state of the breaker may have changed
meanwhile. `quiet` is history: the time since the last recorded fault.

**Provider.** A call that the breaker let through is a sequence of HTTP requests: `Backoff` when one
fails in a way that may pass and attempts are left, `GiveUp` on the last, `Rejected` for what retrying
does not help, `Withdrawn` for a cancellation in a request or in a backoff. `CallsEnd` is `Breaker`'s
`FairSpec`: with bounded attempts the provider is the backend that `Breaker` assumes, fairness included.

**ProviderStream.** A server sends an answer of `Pieces` pieces, one frame each. Frames may be garbled
(`_parse_sse_line` skips them) or carry no piece (`Notice`); the connection may fail (`Broken`) or be
closed (`Completes`, as `[DONE]` is); `started` decides whether an attempt may be repeated.

**RateLimiter, Quotas.** A bucket is its tokens and the age of its time stamp. A check in memory is one
step. In Redis `Send` reads the replica's clock, and `Run` is the script, later, with that reading, which
`lead` keeps relative to the time now; `Run` may lose its reply and `FailOpen` is a call that never ran:
both let the request pass. `Reset` starts a bucket afresh. Two histories state the promise: `level` is what was granted, draining at the
refill rate, and `regained` the refill for time that was counted twice because a late or slow reading set
the stamp back. In `Quotas` a request that passed goes on to the ledger, by the same clock.

**Cache, SingleFlight.** The `OrderedDict` is the set `cached` of its keys, and their order as a relation:
`older[k]` are the keys before `k`. An expired entry stays until something touches
it. `since[k]` is history: which other keys were used since `k` was. In `SingleFlight` a cancelled caller
has been hit by the cancellation but not run yet; the one that started the task runs again only when the
task has ended.

**Ledger, Billing.** Time stamps are ages; an entry that leaves the window disappears at once, which
no sum can tell from the code's lazy pruning. `settle` and `release` on a closed reservation return
early, so they are no steps. Costs are natural numbers, which makes the float tolerance of
`memory.py:49` exact. `surplus` is history: what a settlement added beyond the hold it replaced.

**RedisLedger.** A script is atomic; `_eval` is up to three awaited calls, and `at[r]` is the one a
request awaits. `Fault` is a call that raises, with its script not run or run (reply lost).
`Restart` empties the script cache and keeps the data (`docker-compose.yml:45` turns the append-only
file on). `Crash` drops all requests of a replica, and its cached SHAs. `Ahead[p]` is how far a
replica's clock is ahead, so an entry has age `-Ahead[p]` when `p` writes it, and `q` prunes it when
its age plus `Ahead[q]` reaches the window. Both failure policies are in one instance, one per
replica. A call takes less than a tick of the clock, and a member that could be pruned is kept until
the next reservation prunes it, as in the script.

**Autoscaler.** The target concurrency is a float, and both `ceil(load / target)` in `_raw_desired` and
`int(replicas * target)` in `_capacity_for` round. `TargetNum / TargetDen` is the fraction it stands for; a
rounding error matters only where the exact quotient or product is whole, and which of them come out on the
other side is given by two sets: the loads `RoundedUp`, which get a replica more, and the replica counts
`RoundedDown`, which lose a slot (`Lost`). At target 4.64, 116 requests want 25 replicas, whose capacity is
115. A tick that decides to change nothing is no step. Between ticks the gate takes any step. The cooldown stamps start at 0.0 on a clock with an arbitrary zero: the initial ages
are arbitrary.

**Service.** `stage[r]` is the await at which request `r` is suspended, or how it ended. With `Remote`
the stores are in Redis: a call of the ledger may raise, with or without effect (`ReserveFails`,
`ShedFails`, `SettleFails`, `RefundFails`, `BillStreamFails`, of a replica that fails closed), and a task
may be cancelled in any of them (`CancelWork`, `CancelOutside`); the store of the cache never raises.
`Try` is a whole run of the failover loop up to the next provider call: it skips models whose
breaker refuses, without suspending. `Plan[r]` is the sequence of models that `route()` yields as
failover excludes one after the other; that it is a sequence fixed in advance, without repetition, is
what `Router` checks as `FailoverClimbs`. A stream calls its provider directly. Its end, its error, or a
disconnect lead to the finalizer, `BillStream` and `CloseStream`; a disconnect that hits `body()`
(`main.py:217-228`) while it sends leaves the generator `abandoned` until it is collected. `text[r]` is how the text that `r` received ends:
`partial` as long as its call or stream has not ended normally, then `complete`, or `truncated` if the
provider's connection closed early, which the service cannot tell (`StreamCompletes`); what is cached is
marked with it. Of the ledger there is the state of each bill, and the early return of `settle` and
`release` on a closed reservation (`Close`). Neither they nor `release` of the gate (`Free` in `Gate`) has
a guard: a request could free a slot that it does not hold. All requests carry the same prompt, so a cache key is a model's name.

**Complexity, Router.** A prompt is what the score looks at: its tokens, the number of reasoning keywords,
whether there is a simple keyword, and code. Scores are exact multiples of 1/(100 * `Saturation`).
`Route(r, failed)` is `route()` with the models `failed` excluded; a behaviour is one request
over one catalog, whose chosen models fail one after the other (`FailOver`). Models are their positions
in the catalog, which decide ties as Python's stable sort does. Prices and budgets are whole numbers.
`Rank` is the price of the nominal call that orders the catalog, `Cost` that of the request at hand.

## Runs

| run | question | instance and bounds | result |
|---|---|---|---|
| `autoscaler` | is every slot and waiter accounted for and no wake-up lost (3.13 condition), and does the loop follow the load? | 4 tasks, 1 to 9 replicas of 1.2 / 3 requests, cooldowns 1 and 2; 12003 states | holds |
| `gate_lost_wakeup` | is a queue a sign of a full gate with the condition of 3.10 to 3.12? | 4 tasks, capacities 0 to 3 | **violated**, finding 1 |
| `provider` | does the breaker keep its contract when results come in late and in any order, and does it hear of persistent faults only? | 3 callers, threshold 2, timeout 2, 2 attempts; 9619 states | holds |
| `breaker_trial` | does every trial end? | 3 callers, threshold 2, timeout 2 | **violated**, finding 2 |
| `quotas` | are rate limit and budget neither exceeded nor eaten up, and is each request billed once? | 3 requests of 1 user, window 2, costs 1 and 2, limits 2 and 3; burst 4/3 of a request, refill 1/3 per tick, clocks 1 tick apart, calls up to 2; 141569 states (3 requests alike) | holds |
| `redis_ledger` | budget and billing across replicas, through faults | 2 replicas (one fails closed, one open, clocks one tick apart), 2 requests of one user, window 3; 829994 states | holds |
| `redis_ledger_answer` | is a completed request always answered? | the same | **violated**, finding 5 |
| `answers` | is no answer stale, evicted while in use, generated twice at once, stopped by a follower or repeated? | cache: 3 keys, room for 2, lives of 0 to 2; flights: 3 callers of a key; a stream of 2 pieces, 2 attempts; 7365 states | holds |
| `answers_truncated` | is a truncated stream kept out of the cache? | the same | **violated**, finding 6 |
| `service` | do slots, gauge, bills and cache agree with every way a request can end, and do all end? | 3 requests (one pinned, one a stream), 2 models, capacity 1 or 2, threshold 1, stores that fail; 352672 states | holds |
| `service_cancel` | does a cancelled request leave the ledger consistent? | the same, stores in memory | **violated**, finding 4 |
| `router` | does every model chosen fit the request, is reasoning not sent to the lowest tier, does a downgrade pay, and does failover only climb? | all catalogs of 3 models made of 4 offers, 1080 requests for each; 77541 states | holds |

**Why the bounds are enough.** Each instance has one actor more than the resource it competes for:
four tasks against at most three slots give holders, a queue, a woken waiter and a newcomer at once;
three callers are a probe and two stragglers from before the breaker opened, or a caller that starts a
flight, one that joins it and one that comes in between; two holds of one user
reach and pass each limit. The router's offers are two
whose order by price depends on the mix of tokens, one of the top tier, and one with a small context; its
prompts lie on both sides of every threshold. Two attempts are one that is repeated and one that is the last.
Windows and cooldowns are the smallest that leave a tick *inside* the
interval. With a target of 1.2 / 3, just below 2/5, loads of 1 to 4 want 3, 5, 8 and 10 replicas (the
ceiling is 9), with capacities 1, 1, 3 and 3: the quotient and the product both round, and five times the target is
below 2.
The bounds are the sets in the `MC` modules and the numbers in the configurations. The counters capped
in the model are the failure counts and ages, each at the value beyond which neither code nor
property distinguishes it; `MaxDelay` bounds how long a call to Redis takes. Requests are made once in
`Quotas`, `RedisLedger`, `SingleFlight`, `ProviderStream` and `Service`; tasks, callers and cache calls come
again and again in `Gate`, `Breaker`, `Provider`, `Autoscaler` and `Cache`. The parts of `answers` share no
state, so a behaviour exercises one of them.

**Fairness.** Weak fairness throughout. *Autoscaler*:
`run_autoscaler` ticks for ever and survives exceptions (`service.py:649-655`); requests owe nothing.
Only `SlotsAreTaken` assumes, in its statement, the gate's fairness: a task that is ready to run runs, and
a request releases its slot some time (providers have connect and read timeouts, `config.py:141-142`).
*Breaker*: time passes, requests keep coming, calls end, but nothing says how. *Provider*: the same, where
"calls end" is no longer assumed: a single HTTP request is answered or times out, and a backoff ends.
*ProviderStream*: a begun stream goes on, if only into a read timeout. *SingleFlight*: the shared work
ends, and a caller that can run does; nobody needs to be cancelled.
*Service*: each request's task makes progress and admission deadlines fire; clients never need to
disconnect, stores to fail, tasks to be cancelled, or the autoscaler to act, and a stream is consumed or
its abandoned generator collected (by CPython, when the last reference goes) some time. `Quotas`,
`RedisLedger`, `Cache` and `Router` have safety properties only. `Router`, `SingleFlight` and
`ProviderStream` may stop: every caller has returned, or no model is left. No other specification may
deadlock, and TLC checks that none does.

## Findings

1. **A wake-up can be lost** (`gate.py:46`, on CPython before 3.13). A waiter is notified, and its
   admission deadline cancels it before it runs; it leaves without taking the slot or passing the
   wake-up on. Another task stays parked in front of a free slot, and the autoscaler sees a queue that
   `gate.py:12-14` says means "could not get" a worker. That lasts until the next release or its own
   deadline. With `admission_timeout_s=0` (the opt-out of `tests/test_resilience.py:302`) there is no
   deadline: if a waiter is woken and its task then cancelled, and no other request comes, the next waiter
   stays parked for good. `EveryRequestEnds` is checked with deadlines.
2. **A trial can last for ever** (`breaker.py:84`, `service.py:317`). A probe that ends in an exception
   outside `SERVER_FAULTS`, or is cancelled, records nothing; the probe mark stays, and every later
   call is refused. `tests/test_resilience.py:344`: "One bad prompt must not take a healthy backend out
   of rotation."
3. **Scaling down needs no persistence** (`autoscaler.py:83`). The cooldown counts from the last
   scale-down, not from when the load became low, so one low sample suffices; `config.py:124` calls it the
   time "a scale-down decision must persist before we act". Read off the code, without a run.
4. **A cancelled request keeps its hold** (`service.py:216`, `service.py:416`). `CancelledError` passes
   both handlers, so the hold counts until it leaves the window, and the `in_flight` gauge leaks if the
   provider was being called. `service.py:15-16`: "Every exit refunds or charges exactly once."
   `GaugeTruthful` states the gauge as it is, with these requests in it, and with those whose refund
   failed: the exception of `release()` in the `except` block skips `request_finished` (`service.py:417`).
5. **A completed request can fail for its bookkeeping** (`cost/redis_ledger.py:245`). `settle` raises
   when it fails closed, and `handle` lets that fail the request; `cost/redis_ledger.py:239`: "Never fail
   a completed request because bookkeeping failed".
6. **A truncated stream is cached** (`providers/vllm.py:225`). The end of the body ends a stream normally
   whether or not `[DONE]` came, a frame that reports an error has no choices and is passed over, and a
   garbled one is skipped; the text is then stored and replayed. `service.py:613-614`: "A truncated stream
   must never be cached."
7. **Code alone does not make a prompt MODERATE** (`complexity.py:133`). It scores 0.15, and 0.2 are
   needed; `complexity.py:159-160` says "anything with reasoning keywords or code lands at least MODERATE".
   The half about reasoning keywords is true and checked (`ReasoningIsNotSimple`). Without a run.
8. **`ContextTooLargeError` comes too early** (`router.py:137`). Only the best-ranked capable model is
   checked; `router.py:37`: "the prompt exceeds every model's context window". Without a run.
9. **Scaling down can leave one slot too few** (`autoscaler.py:61`, `service.py:145`). Replicas and capacity are
   computed by a quotient and a product that round each on its own: at target 1.16 a load of 29 wants 25
   replicas, and 25 of them have capacity 28. The formulas of `docs/IMPLEMENTATION.md:217` and `:229` make the load
   fit. One request waits that need not, never more than one (`ScaleDownFitsLoad`), and a backlog of one at such
   a count does not scale up, which `Converges` allows for. Without a run.

## Proofs

Every safety property of a passing run is proved, for every number of tasks, requests, users, replicas, callers,
models and keys (finite where the code counts or sums over them) and every value of the thresholds, prices, times and
limits (of rates, all but zero). Nothing is assumed but what is named next to the constants: `GateAssumption`, `AutoscalerAssumption`,
`ResizesAssumption`, `BreakerAssumption`, `ProviderAssumption`, `LimiterAssumption`, `AccountsAssumption`,
`LedgerAssumption`, `RedisLedgerAssumption`, `SingleFlightAssumption`, `ProviderStreamAssumption`,
`CacheAssumption`, `ServiceAssumption`, `ComplexityAssumption` and `RouterAssumption`. They say which numbers are natural, or
positive, and which sets finite. Those that say more: `ResizesAssumption`, that the gate's
`Capacities` include the ones the loop computes; `AutoscalerAssumption`, that rounding affects only whole quotients and products; `LimiterAssumption`, that no clock is ahead by more than `Lead`;
`ServiceAssumption`, that a plan of failover repeats no model, which `RouterFailoverClimbs` proves of the plans
`route()` makes; `ComplexityAssumption`, that a reasoning keyword takes up a token.

**Gate.** The inductive invariant `GateInv` is `TypeOK /\ SlotAccounting /\ DepthAccounting`. The
equations are needed for the type: `active` and `waiting` stay natural numbers because they are sizes
of sets of tasks, and it is they that show that the floor in `release()` never acts. `WakeEffect` says
what a wake-up does to those sets; each action then moves one task between two of them, and
`CountStep` counts. On top of it `NoLostWakeup` is inductive if a cancelled waiter passes its wake-up
on (`RenotifyOnCancel`): every step that frees a slot or raises the capacity wakes at least as many
tasks, or all (`WakeCount`). From it follows `GateQueueMeansFull`, which TLC refutes for the older
library. `GateNeverOverAdmits` is an action property that needs only the types.

**Autoscaler.** A tick is a resize of the gate or leaves it alone (`TickResizes`), so the loop implements the gate's
specification (`LoopImplementsGate`), and what is proved of the gate is cited, not proved again. The invariant adds
`CapacityFollowsReplicas`. `ScaleDownFitsLoad` is arithmetic: the replicas are rounded up from the load and the
capacity down from the replicas, and a whole load survives both but for the slot that a product rounded to below a
whole number loses (`NeededCovers`, `CapacityCovers`). It holds for every target and for any two sets of loads and
counts that its rounding errors affect.

**Breaker, Provider.** `BreakerInv` is the conjunction of the four state properties, seen through the lemmas of
`BreakerProofs` as one predicate on a breaker value that each operator of `BreakerOps` preserves.
`BreakerOneProbePerTrial` uses it: `TrialIsTaken` keeps a HALF_OPEN breaker from letting calls in, and
`OpenSinceLastFault` turns an elapsed timer into a full timeout since the last fault. `ProviderInv` says that a caller
has a request out, or sleeps, exactly during its call, and that every request of it before the one that is out has
failed; hence `ProviderFaultsPersist`. Repetitions are stutters of `Breaker` (`ProviderIsBackend`).

**Rate limiter.** `GrantsBounded` is not inductive: who has been granted much must be known to have little left.
`LimiterInv` adds to `level` what the bucket holds now (`Pot`, less what it was refilled in advance if its stamp
lies in the future): time adds at most `Rate` to the one and takes it off the other, a grant moves its cost, and a
script changes `Pot` by no more than what it refills twice (`PotConsumed`, over the signs of the age and of the
reading). `DeniedOnlyWhenSpent` rests on the converse, `NothingLost`: what was not granted can be read off the
bucket by the fastest clock.

**Sums.** Budgets are sums over the requests of a user, and the community modules define a sum as a recursive
function that walks the set in an order `CHOOSE` fixes. The induction over finite subsets that this needs is done by a
minimal counterexample (`MinimalSubset`, from the library's well-foundedness of strict subsets): if the claim failed
for some subset it would fail for a least one. `SumOfAny` frees the sum from its order; `SumOfChange`,
`SumMonotonic` and `SumOfSum` are what the ledgers cite.

**Ledger.** `BudgetHeld` bounds a sum by a limit plus another sum, the surplus that settlements added. `Granted(u)` is
the difference, summed entry by entry. A reservation that is let through leaves it within its limit, and no other step
raises a term of it: a settlement adds to amount and surplus alike, and the end of a window removes both, which lowers
the difference only if an entry's surplus is never more than its amount. `Tracked` knows that; it of each request what its reservation and its record have to do
with its entry, and gives `LedgersAgree`. `LedgerBillsOnce` maps each step to one of `Billing`, or a stutter.

**Redis ledger.** The same sum, over entries that replicas with different clocks write and prune; `Spread` bounds
their differences. `Tracked` now goes by the stage of a request: what a call under way may
already have done, which stages are reached only by a fault (`HoldsAreOwned`, `RestartInvisible`), and that a replica
that fails closed holds what it thinks it holds, which is what `RedisBillsOnce` needs.
`RedisEntriesLastWindow` is an action property: who prunes judges an entry by a clock that is off by at most `Spread`.

**Quotas.** A step of the composition is one of the limiter, one of the ledger, or a tick of both: it implements
each, and the theorems about each hold in it (`QuotasLimitUsers`).

**Service.** `ServiceInv` ties a request's slot (`SlotFits`), its bill (`BillFits`) and its part in the gauge to its
stage. None is inductive alone: the slot that a finalizer frees is there only because the stage says so, and the
gauge is not stopped by its floor only because whoever counts out has counted in. `AnswersFit` says which texts are
in the cache, and `BufferedFits` that what `handle` stores is complete. Since `release` has no guard,
`ServiceImplementsGate` is a theorem about the service: on each of the six ways by which a request frees a slot it
holds one (`FreesItsOwn`, from `SlotFits`), so the step is `Release` of `Gate`, and the gate's own lemmas, taken from
`GateProofs` through an instance, apply. That settling or refunding twice changes nothing is the ledger's early
return, and is proved where the ledgers are (`LedgerBillsOnce`, `RedisBillsOnce`).

**Cache.** That evicting the least recently used key costs only keys out of use needs the order: `Ordered` (strict,
total), and `NewerWereUsed`: whatever comes after a key was used since that key was. The key evicted is before all others,
so `MaxEntries` keys were used since. `LifeLeft` relates the time left to the age for `ServedFresh`.

**SingleFlight.** Two tasks of one key would both be the one in `_inflight` (`InflightHolds`). That this outlives
the `finally` blocks needs `StarterAwaits`: what is in `_inflight` belongs to a caller that still awaits it, so nobody
else takes it out.

**ProviderStream.** An attempt may be repeated only if it yielded nothing, so whatever the caller has is of one
connection (`OneConnection`) and the next piece is later than all of it (`AppendLater`).

**Router.** `Cheapest` is a `CHOOSE`; on a finite catalog it is the first by price, ties by position. `Right` then says what the
last answer of `route()` promises of its request, without choosing: it fits, it is the first capable model, or a
cheaper one because the first is over budget. `FailoverClimbs` compares two such answers: with fewer models left
the first capable one comes later. `ReasoningIsNotSimple` needs the score of a reasoning prompt bounded from below
for every length and mix of signals.

The runs check `GateInv`, `NoLostWakeup` and `NeverOverAdmits` on the gate inside the autoscaler's loop,
and `BreakerInv` and `OneProbePerTrial` on the breaker under the provider, the one because the
loop's steps are steps of the gate, the other by the refinement `CallsEnd`. In `answers` a step is one of a part or leaves its variables alone, so the theorems hold there as they stand.

**Only model-checked.** Liveness: `SlotsAreTaken`, `OpenIsRetried`, `Converges`, `FlightsLand`, `StreamsEnd`,
`EveryRequestEnds`, and the fairness in `CallsEnd`. The proof system does not reason about fairness and `ENABLED`. The
five refutations are TLC's too.

## Not modelled

Of the HTTP layer: schemas, status codes and read-only endpoints; shutdown (`aclose`; `drain_settlements`
waits for tasks whose end `EveryRequestEnds` shows). Configuration, the search for keywords in a text and
the counting of tokens (no state, or text heuristics); usage records beyond their cost; counters other than
`in_flight`; request and response bodies of the provider. Of the Redis ledger: the lifetime total in its
hash (nothing reads it), the cap on local records, corrupt members, key expiry, and the reads `spent` and
`summary`. Of the limiter in Redis: that keys expire. A key lives for twice
the time that its bucket takes to fill, and at least a minute, if the rate is 0.001 per second or more
(`ratelimit.py:160`), so that only full buckets are lost; at a lower rate an idle user's bucket may start afresh
before it is full, and so it does at rate 0, which `LimiterAssumption` excludes. Of `RedisCache`: its serialisation; in `Service` it is a map whose entries may vanish, which is
how its expiry, its failures and its poisoned entries look. In `Service` costs do not differ by model: that
failover may serve a dearer model on the first one's hold shows in `Router`, where the request's own budget
still bounds it (`RespectsLimits`), and in the ledgers, where a charge beyond its hold is what `BudgetHeld`
allows for. That a call which timed out may still occupy the provider's server is outside the code.

## Plan

Modelled, in order of importance: `Gate`, `BreakerOps`/`Breaker`, `Billing`/`Ledger`, `Autoscaler`, `Service`,
`RedisLedger`, `Router`, then `RateLimiter`/`Quotas`, `Provider`, `ProviderStream`, `Cache`, `SingleFlight`,
`Complexity`, and the faults of the stores in `Service`.

Proved: every safety property of the runs, and every refinement but for its fairness.

Next: that `Service` over `Ledger` keeps the budget, where `Service` now keeps only the state of each bill; and that the plans of
`Service` are those of `Router`, which is now an assumption of the one and a theorem of the other.
