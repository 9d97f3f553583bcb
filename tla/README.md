# A verification project for go-patternx

go-patternx is a Go library of concurrency and resilience patterns. This
directory keeps TLA+ models of it beside the code: what each pattern does, step
by step, checked by TLC on small instances, and theorems checked by TLAPS for
every instance. File names such as `circuitbreaker.go:222` refer to `src/`.

Contents: [the system](#1-the-system), [the plan](#2-the-plan), [the modules and
the code](#3-the-modules-and-the-code), [the runs](#4-the-runs),
[fairness](#5-fairness), [the theorems](#6-the-theorems), [where code and
documentation disagree](#7-where-code-and-documentation-disagree), [what is not
modelled](#8-what-is-not-modelled).

## 1. The system

Every pattern is a component of its own: a struct with a constructor, methods
that any number of goroutines call at once, and in some cases goroutines it
starts itself. No component calls another one inside the library, with one
exception (the subscriptions of the publish/subscribe system have a small
circuit breaker of their own). They interact with the program through function
values (operations, tasks, handlers) and through three interfaces the program
implements: `LockClient` (Redlock), `BloomStore` and `PubSubStore`.

| component | state | operations | goroutines |
|---|---|---|---|
| circuit breaker, `circuitbreaker.go` | state, failures in a row, successes of the half-open episode, time of the last failure, health, totals | Execute, ExecuteWithContext, ExecuteWithTimeout, ForceOpen, ForceClose, Reset, reports | one per ExecuteWithContext; it outlives its caller when the context ends first |
| bulkhead, `bulkhead.go` | two buffered channels of tokens, counters, closed flag | Execute, ExecuteAsync, Close, ResetMetrics, reports | one per ExecuteAsync |
| worker pool, `pool.go`, `worker.go` | job, result and worker channels, the slice of workers, gauges, closed flag, WaitGroup | Submit, SubmitWithContext, SubmitBatch, GetResult, GetResultWithTimeout, ScaleUp, ScaleDown, Close, reports | workers, result processor, autoscaler, metrics and health loops |
| Redlock, `redlock.go` | per Lock: value, ttl, creation time, acquired flag; at the clients: a value with an expiry | Lock, LockWithRetry, TryLock, LockWithTimeout, Unlock, Extend, Close, reports | none |
| dead-letter queue, `deadletter.go` | map of operations, channel of operations, counters, closed flag | AddFailedOperation, RegisterHandler (handlers have ShouldRetry and Retry), ClearQueue, IsHealthy, Close, reports | workers |
| publish/subscribe, `pubsub.go` | topics, subscriptions, a message channel per topic, a breaker per subscription, metrics | CreateTopic, Subscribe, Publish, PublishBatch, Close | one per topic, one per delivery |
| Bloom filter, `bloom.go` | bit set, counters, a copy in a store | Add, AddBatch, Contains, ContainsBatch, Clear, Close | none |
| retry, `retry.go` | none across calls (a manager with statistics that only its reset changes) | Retry and its variants with context, result and statistics | none |
| errors, `errors.go` | none | | |

What is hard in each of them, and what makes it correct:

- **Circuit breaker.** The admission check is lock free, with up to three atomic
  loads; outcomes are recorded in two steps, the stamp of the last failure
  before the lock. Callers race each other, the timeout, the deadlines of
  contexts and the manual controls. Correct means: a closed circuit opens at the
  threshold, the half-open state always decides, an open circuit recovers, the
  totals add up, and all the interleaving amounts to a sequential three-state
  machine.
- **Bulkhead.** A call holds up to two tokens and gives them back on several
  paths; Close polls a counter and closes channels that calls may be sending to.
  Correct means: the limits hold, tokens are never lost or given back twice,
  nobody waits for ever, a graceful Close ends.
- **Worker pool.** Jobs, workers, two scalers and Close share channels, a mutex,
  atomic gauges and a WaitGroup; the autoscaler reads the gauges without a lock, one
  by one. Correct means: each accepted job is processed by one worker and its result
  delivered once, the gauges are off by no more than what is just being added, the
  number of workers stays within its limits, Close ends.
- **Redlock.** A lock is a majority of keys that expire on their own; clients
  fail, time out, and may apply a request after its caller stopped waiting; the
  owner computes how long it may believe in the lock. Correct means mutual
  exclusion, and no keys left behind.
- **Dead-letter queue.** Workers requeue into the channel they receive from, the
  map and the counters are updated in separate steps, the health check sends
  through the same channel. Correct means: one worker at a time per operation,
  exact counters, an operation is retried until it is resolved, Close ends.
- **Publish/subscribe.** Publishers race Close; one message object is delivered
  to all subscribers at once; each subscription has a breaker without a limit
  on its half-open state. Correct means: per topic a message is delivered to
  every matching subscriber or handed to its dead-letter handler.
- **Bloom filter.** The filter is in memory and in a store, several instances may
  share the store, saves fail, are applied late or stop halfway, processes crash.
  Correct means: no false negatives, not more items than the bits were sized for,
  a metric that tells when memory and store differ, and a restart that finds what
  was saved.
- **Retry.** A loop over attempts, delays and a context, around an operation that
  is often a call of another component. Correct means: at most MaxAttempts calls,
  no call after success or a permanent error, and a result and statistics that
  agree with what the operation did, panics included.

## 2. The plan

| step | modules | what they state | status |
|---|---|---|---|
| 1 | `CircuitBreaker`, `BreakerMachine`, `CircuitBreakerMetrics` | the breaker implements the sequential machine; recovery; totals (checked in step 9) | done |
| 2 | `CircuitBreakerProofs` | types, four invariants, refinement | done |
| 3 | `Bulkhead`, `Admission`, `BulkheadProofs` | the channels implement a room with a waiting line; shutdown | done |
| 4 | `WorkerPool`, `JobLine` | the life of a job, gauges, limits, delivery, shutdown | done |
| 5 | `Redlock`, `RedlockProofs` | mutual exclusion under named conditions | done |
| 6 | `DeadLetterQueue`, `Ledger` | one owner, counters, one end for each operation, shutdown | done |
| 7 | `PubSub` | one topic: bounded queue, concurrent deliveries, Close against publishers; what is published is handled | done |
| 8 | `Bloom`, `BloomProofs` | no false negatives, the capacity, what the metric of errors tells, what a restart finds | done |
| 9 | `Retry`, `RetriedBreaker`, `RetriedBreakerProofs` | attempts and outcomes; loops around one breaker: both tell the same story | done |
| 10 | `PubSubBreaker`: the breaker of a subscription with its atomics one by one (in `PubSub` the breakers answer either way at any time, which covers whatever the atomics do) | what races of outcomes leave of the three states | next |
| 11 | `PubSubProofs`, `WorkerPoolProofs`, `DeadLetterQueueProofs` | types and all invariants of the three; the pool implements the line of jobs, the queue keeps the ledger | done |
| 12 | in `RetriedBreakerProofs` and `RedlockProofs` | Accounting, BooksAgree; NothingLeft | done |

The order follows how much of a program rests on the component and how much of
its behaviour is interleaving.

## 3. The modules and the code

The models follow one scheme. A goroutine is an element of a constant set with a
program counter; one action is one step between two accesses to shared state (an
atomic load or addition, a channel operation, what a mutex protects). What holds
a mutex is one action, unless code that does not take the mutex can see its
middle. Where the code makes two atomic additions one after the other and no
decision reads the one between, they are one step, and the module's header says
so. Actions carry the names of the functions they model. An operator introduced
as "Faulty variant" or "Not the code" is a plausible bug of the operator below
it; no specification uses it, and it exists to show that a property can fail:
put in the place of the original it makes TLC report the property violated.
A variable marked "ghost" is not in the code; it remembers what a property is
relative to and no guard reads it.

**CircuitBreaker** (`circuitbreaker.go`). `state`, `failureCount`, `successCount`
and `healthy` are the fields of those names. `lastFailure` is an instant in the
code, of which the code asks one question: is it set, and if so, is it at least
`timeout` ago. So it is "never", "recent" or "old", and `Elapse` ages it. A caller
goes check, sawOpen or sawHalfOpen (`checkCircuitState`, one load each),
transition and clearing (`transitionToHalfOpen`; its two stores are two steps
because the lock-free check sees between them), running or trial, recordSuccess
or recordFailure, idle. `Stamp` is the store of lastFailure before the lock.
`ContextExpires` is `ctx.Done` winning the select of
`executeWithContextAndRecovery`. **BreakerMachine** is the promise: outcomes one at
a time. The refinement maps the half-open count to 0 while
`transitionToHalfOpen` has not cleared it yet. **CircuitBreakerMetrics** adds the
totals, what is counted of a call whose failure is not recorded yet, and the
number of abandoned operations; it has no next-state relation of its own, which
`RetriedBreaker` gives it.

**Bulkhead** (`bulkhead.go`). `semaphore` and `queue` count the tokens in the two
channels, `concurrent` is `CurrentConcurrentCalls`, `closer` is where Close is. A
caller tries the semaphore (`TryAcquire`), tries the queue (`Enqueue`), waits
(`AcquireQueued`, `WaitExpires`), takes its queue token back (`Dequeue`, `GiveUp`),
is counted (`Start`), runs, releases and is uncounted. A send on a channel Close
has closed panics in the caller (`SendOnClosed`). **Admission** is the promise: a
room for MaxConcurrentCalls with a line of MaxQueueSize. Of the counters only `CurrentConcurrentCalls` decides anything; the
others are not modelled.

**WorkerPool** (`pool.go`, `worker.go`). A job is the goroutine that submits it,
then an entry of the job channel, then what a worker holds, then a result. A
worker walks through its loop (`CheckStopped`, `TakeJob`, `SendResult`,
`ReturnWorker`), leaves it (`Quit`, `LeaveLoop`) and, after a panic,
is started again, with the second `wg.Done` the code makes. `slots` is the number of
entries in `workerPool`, the channel nobody receives from. The gauges are atomics
that anybody may read at any time, so no addition shares a step with a channel
operation, a change of the slice or another addition: `Mark` has the four of a
worker, `CountTotal`, `CountIdle`, `UncountTotal` and `UncountIdle` those of
ScaleUp and ScaleDown, which hold `mu` (`lock` says where the holder is, `count` how
many workers it has yet to add, or has removed) from `ScaleUp` or `ScaleDown` to
`Release`; `CountResult` follows the receive of `ProcessResult`. GetStats returns
the pool's own atomics, no copy: from `Tick` on, every comparison of autoScale is a
load of its own (`Load`), those for scaling down come after ScaleUp has returned, and
the call (`CallScale`) waits for `mu`. It checks the closed flag at the tick only.
Close sleeps 100 ms, which orders nothing, so `StopWorkers` needs only `mu`; a tick
that began before may call ScaleUp after the workers were stopped, after they were
waited for, or after the channels were closed, where its send panics
(`PushWorker`). Close waits for the workers or for 30 seconds (`"Force"`) and closes
the channels; `settled` is a ghost, the workers there were when the WaitGroup let it
go. **JobLine** is the promise: a job is
accepted if there is room, taken by one worker, who keeps it until there is room for
its result, and delivered to one reader; after Close a worker may lose it.

**Redlock** (`redlock.go`). One resource. An owner is one call of `Lock` and the lock
it returns. Clients are visited in the order of the slice. The servers behind
the clients are external: a key with a value and an expiry, set if absent (or
not: `Overwrites`), compare-and-delete, compare-and-expire. Time is in ticks,
any number of steps between two; instants appear as ages and remaining lives, so
that the state space is finite. `TTL - age - Drift` is the validity of
`tryAcquireLockWithTimeout`; the lease runs from the second reading of the clock,
as `created` does, and `Pause` bounds the ticks between the two readings. A call
may time out and be applied all the same, at once or later (`late`).

**DeadLetterQueue** (`deadletter.go`). An operation is the goroutine that adds it,
then an entry of `workerChan` or what a worker holds. `queue` is the set of IDs in
the map. Adding takes four steps, the end of an operation two, ClearQueue two,
IsHealthy three; Close waits for the workers or 5 seconds. `crashed` says whose panic
has ended the process: a worker's always does (`RequeuePanics`), that of a caller who
sends on the closed channel (`CallerPanics`, in AddFailedOperation and IsHealthy) does
unless the program recovers it. **Ledger** is the promise:
an operation is offered, accepted or turned away, and owed one end. In the
refinement it is offered from the addition to CurrentQueue to the send, owed while it is
in the channel, at a worker or lost to IsHealthy, and the counts are TotalSucceeded
and TotalDropped.

**PubSub** (`pubsub.go`). One topic. A message is also the Publish that carries it,
and a delivery is the goroutine for a message and a subscription. Publish goes
new, ready (`publishWithRetry`), send (it holds a token of `workerPool` and has
passed both closed checks), then sent, failed or panicked. The processor takes a
message with a copy of the subscriptions (`TakeMessage`), looks at them one by one in
any order (`StartDelivery`), waits for the deliveries or not (`DeliveriesDone`,
`StopWaiting`). A delivery is ready, running or with the dead-letter handler; the
delays of retries are not places, as nobody sees them. When the time of a handler is up
(`HandlerTimesOut`) its delivery fails, and the goroutine that called it goes on:
`abandoned` has the deliveries of such handlers until they return (`HandlerReturns`),
if they do. `retryCount` is the field of
the one message object all deliveries write to and the filter reads. The breakers
may answer open or closed at any time: a publisher with an open breaker fails, a
delivery with an open breaker is made all the same, so only its error tells
(`StartAgain`). Close takes one step per thing it closes.

**Bloom** (`bloom.go`). A filter is one instance of the process; `bits`, `itemCount`
and `closed` are its fields, and `storeErrors` says whether the metric of that name
is above zero. A caller is a goroutine that uses one filter. A call passes the
checks (`Call`), gets `mu` and changes the memory (`Add`, `AddBatch`, `Clear`, or
`AddBatchCancelled` when the context is done at one of the checks of the loop),
then talks to the store with `mu` held: up to MaxRetryAttempts saves
(`SaveSucceeds`, `SaveFails`, `SaveCancelled`) or one delete. Readers share `mu` and
change nothing; what they would answer is `Contains`. The hash functions appear as
an arbitrary assignment of bits to items. The store is external: one key, a value
in the format it was written in, requests that fail, that are applied although
the answer is an error, or that are applied later (`late`), and a ttl. `Restart`
is a crash at any point followed by NewBloomFilter, which loads (`Load`);
`Accepts` and `Deserialize` say what deserializeState makes of each format:
nothing of what serializeState writes, and of the array of Booleans of an older
version the count without the bits. `members` remembers what was put in, `writer`
which filter may expect to find its own state in the store.

**Retry** (`retry.go`). A loop is one call of RetryWithContext or one of its variants,
which make the same steps; `stats` and `lastError` are the fields of RetryStats, of
the latter only the concrete type, for the atomic.Value that keeps it panics when
it is given another one. Of the context the model keeps whether it has a deadline
and whether it is done; `Attempt` arms the deadline, which the next attempts
inherit. The operation is open: `Attempt` calls it, `Succeed` and `Fail` take its
answer. **RetriedBreaker** closes it: an attempt is a call of Execute or
ExecuteWithTimeout of one breaker that all loops share. `CallExecute` is a step
of both, the steps inside the breaker are those of `CircuitBreaker` with their
counting, and `Reject`, `ReturnNil` and `ReturnFailure` are the answer of the breaker
and the verdict of the loop in one. `answer` is what the breaker will return: for
a panic in Execute that is nil (`circuitbreaker.go:232`).

MC modules declare the model values; `RedlockProofs` and its siblings extend the
modules they are about and hold nothing but lemmas and theorems.

## 4. The runs

"States" are distinct states. Each run takes from seconds to a few minutes.

| run | instance | shows | states |
|---|---|---|---|
| `cb` | one Execute, two ExecuteWithContext, Threshold 2, HalfOpenMax 2, both controls | the breaker's invariants, refinement of BreakerMachine, three liveness properties | 40 139 |
| `bh` | three callers, one slot, queue of one, Close, its forced pass, ResetMetrics | the bulkhead's invariants, refinement of Admission, two liveness properties | 12 964 |
| `wp_core` | one job, 1 to 3 workers, 3 goroutines ever, queue of one, steps of two, all events | gauges, limits, channels closed last | 5 267 748 |
| `wp_live` | two jobs, 1 to 3 workers, 2 goroutines ever, queue of one, steps of one, scaling, Close | refinement of JobLine, QueuedJobs, delivery, end of Close | 219 928 |
| `wp_stall` | two jobs, one worker, nothing else | **violated**: every accepted job is processed | |
| `rl_core` | two owners, three clients, quorum 2, TTL 2, drift 1, pause 1, all faults, one late call at a time | mutual exclusion, keys kept | 1 552 463 |
| `rl_clean` | two owners, two clients, one retry, no faults | nothing left behind, Lock returns | 89 152 |
| `dlq` | two operations, two workers, channel of one, one retry, all events | the queue's invariants, refinement of Ledger, two liveness properties | 469 392 |
| `ps` | two messages, one for both of two subscriptions, one for that with MaxRetryCount 1; a queue of one, one retry, Close | handler calls, overlapping deliveries, handling of what is published, end of Close | 667 536 |
| `bl` | two callers of one filter, three items that share bits, batches of two and three, capacity 2, three attempts, one late request, all faults, a value of an older version | no false negatives, capacity, the metric of errors, calls return | 109 208 |
| `bl_restart` | one filter, one caller, crashes and no other fault | **violated**: a restart takes over what is in the store | |
| `rt` | RetryWithStats around ExecuteWithTimeout and Retry around Execute, two attempts each, Threshold 2, at most 4 requests between two resets, both controls, permanent errors, a context the program cancels | the totals, the outcomes of the loops, breaker and loops agree | 2 744 704 |

Why these bounds reach the cases that matter. `cb`: with two thresholds of 2 and
three callers, outcomes arrive in states they were not admitted in, two callers
meet in `transitionToHalfOpen`, and a success and a failure race in half-open;
a third context caller adds no new meeting of two. `bh`: one caller inside, one
waiting and one turned away is every role at once, and Close meets each of them.
`wp_core`: the races are of workers, scalers and Close, for which one job is enough:
it keeps a worker busy while ScaleDown removes two at once and ScaleUp adds two, one
after the other, and three goroutines let one be removed in the middle of its job
beside a serving one and a newcomer. The autoscaler's thresholds of 1 are met by the
one job and the one idle worker. `wp_live`: with two jobs a result finds the channel
of results full, a job is queued while another runs, and ScaleUp and ScaleDown
bring and take a second worker; the `workerPool` of three is full only
when both jobs are done and a worker was added, so the excuse in JobsComplete
serves only then. The theorems give what either run checks for all events, jobs and
steps.
`rl_core`: three clients with quorum two is the least in which two quorums
overlap in one client and one failure is masked; TTL 2 with drift 1 is the least
in which an owner can be late by a tick and must refuse. `dlq`: a channel of one
with two workers lets both workers requeue against each other and a new
operation. `ps`: the one retry lets a handler fail, be retried and time out in either
order, two messages for one subscription overlap, and the subscription without a
filter waits behind the other's handler that never returns. `bl`: with neighbouring items that share bits the third is found
without having been added, a batch of two starts at one below the capacity, one
of three exceeds it from the start, and one late request can be a save that comes
in after a Clear or after another save; a second filter on the key behaves like
late requests and restarts, and the theorems have any number. `rt`: a breaker with
threshold 2 and two loops of two attempts opens from failures of different
loops, rejects, and is probed by the second attempt of either; two attempts are
the least in which statistics hold errors of two types and a deadline outlives
an attempt. Where a bound is only there for TLC (MaxRequests, MaxCalls,
MaxCreated, MaxLate) it appears in a guard under that name.

CHECK_DEADLOCK is off where the modelled system really stops: bulkhead, pool and
queue after Close, filters after Close, locks after Unlock, loops at their end,
counters at their bound. `cb` never stops.

What the properties say, beyond the text above each:

- `Recovery` (`cb`) excuses a circuit that is open with no failure on record. It
  gets there by ForceOpen, which stamps nothing, or by a Reset that falls between
  the stamp of a failure and its recording; see section 7.
- `Accounting`, `CounterCoversRunning` and `GaugeExact` are stated relative to a ghost
  that remembers how many calls a reset found under way: the resets are not
  atomic with the calls they meet, and the property says that this is all that
  can ever go wrong with the counts.
- `HandlerCalls` (`ps`) allows twice the number of calls for an error that passes for
  the breaker's: `pubsub.go:720` runs the delivery again. `OneAtATime` is about
  deliveries, and excepts messages the processor stopped waiting for. It does not say
  that a handler has one message at a time: one that outlived its timeout runs on
  beside that of the next message; what it says of these is that they are not called
  again for the message they have. `Handled` excepts a filter with MaxRetryCount; section 7.
- `NoWorkerCrash` (`dlq`) is about the panics of workers. Callers of AddFailedOperation and
  IsHealthy may panic on the closed channel after any Close; section 7.
- `WorkerGauges` (`wp_core`) is what a lock-free reader of an open pool can count on: not
  that the gauges agree at each moment, but that they are off by the additions just
  owed and that nothing else accumulates. After Close the gauges are left as they are.
- `ChannelsClosedLast` (`wp_core`) speaks of the workers created before the WaitGroup let
  Close go. It needs nothing of the autoscaler: a worker that a late ScaleUp starts
  while Close waits is waited for as well; one that it starts later is excepted, and
  meets closed channels; section 7.
- `CloseStops` (`dlq`) stops where a panic has ended the process.
- `StoreErrorsTell` (`bl`) speaks of the filter whose request was applied last and
  which has changed its memory since only in ways it must save: a batch that is
  cancelled halfway (`bloom.go:300`) saves nothing and counts no error, which the
  ghost `writer` excuses.
- `BooksAgree` (`rt`) holds until the first Reset of the totals; after it a call that
  was under way has an outcome and no request, which is what `Accounting` counts.
- `ImplementsLedger` (`dlq`) is a safety property: an operation that IsHealthy took, or
  that is at a worker when the process ends, is owed an end for ever. That the others
  get theirs is `Resolves`.
- `BooksAgree` counts the answers that loops have booked as a set of pairs (a loop, the
  number of the answer), which is the sum of the statistics of all loops.
- No run lists a type invariant: those of all components are theorems (that of
  Retry is a part of `LoopInv`), and among what they bound are the attempts of a Publish, the retries of an operation, the length
  of each channel and the entries of `workerPool`.
- `GracefulClose` is an implication: if every function returns.
- `JobsComplete` and `CloseReturns` carry the one excuse the code needs, that
  `workerPool` is full. Without it they fail (`wp_stall`, and section 7).
- `KeyIsKept` speaks of owners that have not begun to release. With retries and
  releases that a server applies late it fails; `rl_core` has late calls and no
  retries, `rl_clean` retries and no late calls, and the theorem covers retries
  with late sets.

## 5. Fairness

Weak fairness on the steps of goroutines that the Go scheduler is bound to run;
nothing that depends on the program's own code is assumed, unless a property
says so.

- Breaker: the checks, the clearing of the count, the clock and the deadline of a
  context are weakly fair. What waits for `mu` is strongly fair: the mutex may be
  taken by others in between, and sync.Mutex hands itself to a waiter after one
  millisecond. `BusySpec` adds that context callers keep calling; Recovery and
  HalfOpenResolves are about a program that does, since the breaker has no timer.
  No operation need ever return.
- Bulkhead: steps of callers, the ticker of Close. Functions need not return.
- Pool: the loops of workers, processJob (every job has a timeout), the result
  processor while the pool is open, the loads and calls of an autoscaler's tick, the
  steps of ScaleUp and ScaleDown, Close. StopWorkers is strongly fair: a waiting reader of an RWMutex
  is let in when its writer leaves. Nobody need submit, fetch, scale or close.
- Redlock: every call of a client ends, at the latest with its context.
- Publish/subscribe: the processor, deliveries and Close run, and timers fire; publishers,
  handlers, dead-letter handlers and subscribers owe nothing. After Close the
  processor finds nil or ctx.Done ready; that it picks ctx.Done in the end is the
  random choice of Go's select.
- Bloom filter: the store answers each request, at the latest with its context, and
  who waits for `mu` is strongly fair, as sync.RWMutex starves no writer. Late
  requests need not arrive.
- Retry: nothing is assumed; an operation need not return.
- Dead-letter queue: workers and adders run, handlers return (their context has a
  timeout), Close gives up after its 5 seconds.

## 6. The theorems

TLAPS checks them for all values of the constants that satisfy the module's
`ConfigAssumption` (in `RetriedBreaker` also `PolicyAssumption` and
`AnswerAssumption`): any number of callers, owners, jobs, operations and messages,
any limits. A few theorems have a further hypothesis, which is an operator with a
name of its own; what it excludes is said below and happens in the code. The
argument is always the same: an invariant `IInv` (or one named for what it says)
holds initially and is kept by each step, and the property follows from it.

**CircuitBreakerProofs.** `ThresholdOpens`, `HalfOpenNeverExhausted` and
`HealthIsTruthful` (the flag is set exactly while the circuit is closed) are inductive only together with what
connects them: the half-open count is below its limit whenever it counts, that
is, unless somebody is between the two stores of `transitionToHalfOpen`, and then
the circuit is half-open and nobody else holds `mu`. `OpenAlwaysRecovers` (an open
circuit has a failure on record) and `ThreeStates` (the circuit never closes
without trials and never probes from closed) hold when no manual control is in
use, which is their hypothesis. `Refinement`: every step is a step of BreakerMachine
or changes nothing it sees.

**BulkheadProofs.** The invariant is `Tokens`: as many tokens in the semaphore as
callers that hold one, at least as many in the queue as callers queued. The
limits alone are not inductive; it is the correspondence of tokens and callers
that shows that a receive never blocks and never takes another caller's token.
`LimitHolds`, `QueueHolds` and `Refinement` rest on it, through Close, its forced
pass and ResetMetrics. `CounterExact` shows that the counter Close waits on is the
number of started calls, less those ResetMetrics made it forget. The lemmas on
`Move` say how one caller's step changes the size of any set of places.

**RedlockProofs.** `LockExcludes` and `KeysAreKept` assume `SafeConfig`: a majority
quorum, a client that sets only absent keys, no release applied after its caller
gave up, a pause that the drift allowance covers, and extensions by whole seconds
that are not shorter than the ttl. Each condition is needed; without it TLC finds
two owners. The invariant (`Sound`, for each owner) says that an acknowledged key
lives at least as long as the owner will believe: while it collects, TTL minus
its age; while it holds, its lease. Two owners with unexpired leases would each
own the keys of a quorum, and two quorums share a client. That retries are safe
with sets applied late is part of the theorem; it is not in a run.

**BloomProofs.** `IInv` is the type invariant with two groups. `Memory`: what is in
`members` has its bits, and the count is at least the number of members and at
most MaxItems; it needs that what an older version left fits (`LegacyFits`), since
a restart takes the count from there. The lemmas on `First` and `Fitting` say that n
items of a batch are at most n different ones and never more than there is room
for; `NothingForgotten` and `WithinCapacity` follow. `Copy`: StoreErrorsTell is not
inductive, for a step of a caller that does not hold `mu` might save something
else; with `OneWriter` (mu is exclusive) and `RightRequest` (who saves has something
to save, who deletes has an empty filter) it is, and gives `ErrorsTell`.

`NothingIsLeft` has its own invariant, `Clean`: whose key is on a client is at a
place where the loop of the Sets has passed that client and the loop of the
releases has not (`Owned`). Its hypothesis `Answering` is that no call of a client
times out; a release that is lost leaves a key, until it expires. Retries, failed
attempts, extensions that are not acknowledged and expiry are all in it.

**RetriedBreakerProofs.** `LoopsTell` rests on `LoopInv`, which ties the statistics of
a loop to its place and the number of the attempt: one attempt counted per number,
all but the one under way failed. `BreakerUnchanged` says that a behaviour of the
composition is one of `CircuitBreaker`, whatever the loops do, so that what
CircuitBreakerProofs shows of every breaker holds of a retried one. `TotalsAgree`
is about the breaker's totals: `Accounting` is inductive with the types and the
finiteness of the sets it counts (`FewCalls`), since each step moves one call and
each counter by what that call is worth, and Reset carries over what is under way.
`OneStory` needs all of this together (`BooksInv`): that a loop books an answer in
the step in which the breaker gives it, and that calls, answers and the places where
outcomes wait to be recorded are finitely many, although callers need not be.

**WorkerPoolProofs.** `IInv` has seven groups. `InCharge`: a running job is in the
hands of one worker, who has taken it and not sent its result (`JobHasOneWorker`).
`Refinement` rests on it: each step of a worker takes a job, yields the one it has or
moves on, and the last changes nothing that JobLine sees. `QueuedExact` counts the jobs
between Submit and the processor (`QueueGaugeExact`). `SliceOK`: who is in the
slice, that nobody is twice, and that who left it was told to stop. `SizeOK`: the
length of the slice with what ScaleUp has yet to add; `LimitsHold` needs both.
`Counters`: the WaitGroup counts the live goroutines until the channels close
(`WaitGroupExact`), and the gauges of an open pool are exact up to what is owed
(`WorkerGaugesExact`): each of the additions moves one gauge and, in the same step, one
worker between two sets of places or the holder of `mu` between two of its own, so
each gauge is shown to follow the size of one set and one debt. `Settled`: when
wg.Wait has ended, the WaitGroup was zero and so no goroutine was alive; and who has
left does not come back. `ChannelsLast` follows, and has no hypothesis about who
scales.

**DeadLetterQueueProofs.** `IInv`: the channel holds an operation once (`Once`), a
worker has one exactly while it is busy (`Busy`), and channel, hands and what
IsHealthy took are disjoint and hold only operations that were sent (`Apart`); so
`OwnerIsAlone`. `Counted` states GaugeExact with the finiteness of what is counted, for
Ops may be infinite, and `Graceful` that no worker is left when Close did not give
up, so that none can meet the closed channel, which gives `GracefulShutdown`; it
excludes no panic of a caller. Each step is shown to keep, offer, turn away, accept or end
one operation; `GaugeIsExact` and `Refinement` both read off these five cases: the
first that the counters follow, the second that they are the steps of Ledger.
`RetriedAreListed` assumes `DistinctIDs`: of two operations with one ID the end of
the first takes the second out of the map.

**PubSubProofs.** `IInv`: a message is at one place, once, and only after a Publish
that succeeded (`OncePublished`); the processor has one in its hands (`OneCurrent`);
no delivery begins before the loop has come to its subscription (`Untouched`), which
makes a delivery happen once; one that is not over is waited for or was given up
(`Awaited`), and one whose handler runs on after its timeout is with the dead-letter
handler or over (`GivenUp`), hence `OneAtATimeHolds`; and the calls of a handler follow the variable of
the loop and whether the delivery runs again (`CallCount`), hence
`HandlerCallsBounded`, in spite of the RetryCount that all deliveries of a message
write. Nothing needs to be finite.

**Only model-checked**: what needs fairness and ENABLED (CtxCallReturns, Recovery,
HalfOpenResolves, WaitEnds, GracefulClose, JobsComplete, CloseReturns of the pool and
of the topics, LockReturns, Resolves, CloseStops, Handled, CallsReturn). Every
invariant, step property and refinement of the passing runs is a theorem.

## 7. Where code and documentation disagree

Two are kept as runs that TLC must find violated:

- `wp_stall`: `worker.go:78` returns the worker to `workerPool`, and nothing ever
  receives from it. After MaxWorkers returns in total (initial and scaled-up
  workers count) every worker blocks there until Close, and accepted jobs stay in
  the queue. `tests/unit/workerpool_test.go:281`: "Check that all jobs are completed".
- `bl_restart`: `deserializeState` asserts that the bit set is an array (`bloom.go:788`);
  `serializeState` has written a []byte, which encoding/json makes a string. The
  state is rejected and the filter starts empty; the next save overwrites it.
  `bloom.go:125`: "Load existing state if store is provided".

The models show these too; to see one, check the formula named here on the
instance described:

- *Half-open limit.* `circuitbreaker.go:222` compares successes, so while none has
  been recorded any number of trial calls is admitted; `circuitbreaker.go:90` says
  "Max requests in half-open state".
  (`state = "HalfOpen" => Cardinality(At("trial")) <= HalfOpenMax`.)
- *Reset against a failure.* A Reset between the stamp (`circuitbreaker.go:317`) and
  the lock lets the failure open the circuit with no failure time, and the circuit
  stays open unless another call that was already running fails.
  (`OpenRecovers` with `Admin = {"Reset"}`.)
- *Channels closed under callers.* `bulkhead.go:310` takes "no call started" for "no call
  inside": calls that wait, or are between the closed check and their token, send on
  a closed channel; `bulkhead.go:311` says "All operations completed, safe to close
  channels". (`At({"panicked"}) = {}` with `Controls = {"Close"}`.)
- *Failure rate above one.* A queue timeout is added to TimeoutCalls and to
  RejectedCalls, and `bulkhead.go:433` adds both, against "0.0 to 1.0" at `bulkhead.go:39`.
- *Close of the pool hangs.* `pool.go:517` blocks on the full `workerPool` with `mu` held,
  and Close needs `mu` before its own timeout starts (`pool.go:583`).
  (`Closing ~> Closed` with scaling.)
- *The pool ends the process.* Nothing but 100 ms of sleep (`pool.go:579`) keeps a tick of
  the autoscaler that has passed its check of the closed flag (`pool.go:684`) from
  Close, and nothing keeps a ScaleUp of the program. After the workers were waited for
  it starts a worker whose send panics; `worker.go:42` restarts it and both loops call
  `wg.Done`; below zero the WaitGroup panics. After the channels were closed the send
  of ScaleUp itself panics (`pool.go:517`), in the goroutine of the autoscaler, where
  nothing recovers. `pool.go:569`: "gracefully shuts down the worker pool". (`Running` with
  `Events = {"Scale", "Close"}`, or `{"AutoScale", "Close"}`.)
- *Gauges between two additions.* What autoScale reads at `pool.go:691-712` may have a worker
  that is neither active nor idle, or a slice and a TotalWorkers that differ. It scales
  on that, within the limits, which ScaleUp and ScaleDown check under `mu`.
  (`gauges.active + gauges.idle = gauges.total` while the pool is open.)
- *Late release.* All attempts of a Lock use one value (`redlock.go:200`), so a release of
  a failed attempt that is applied late deletes the key of the next attempt.
  (`MutualExclusion` with `MaxRetries = 1` and `"LateRelease"`.)
- *Extend truncates.* `redlock.go:441` gives the servers `int(ttl.Seconds())`. Below a
  second that is 0, which deletes the key; otherwise it truncates. The lock keeps
  the whole ttl. `redlock.go:36`: "implements a distributed lock".
  (`MutualExclusion` with `ExtendTTL = 1` and `Second = 2`.)
- *Set that replaces.* `LockClient.Set` (`redlock.go:54`) says nothing of "if absent".
  (`MutualExclusion` with `Overwrites`.)
- *Minority quorum.* `redlock.go:656` accepts any quorum from 1.
- *Publish panics.* Between the check of `topic.closed` (`pubsub.go:573`) and the send Close
  may close the channel (`pubsub.go:900`): Publish panics in its caller;
  `pubsub.go:878`: "closes the pub/sub system gracefully".
  (`\A m \in Messages : call[m] # "panicked"`.)
- *Close leaves deliveries behind.* The WaitGroup counts processors only; Close returns,
  and logs "All goroutines completed" (`pubsub.go:923`), while deliveries run.
  (`closer = "closed" => \A m \in Messages : ~InProgress(m)`.)
- *Retries of others.* A subscription with MaxRetryCount 1 loses a message when the
  handler of another one has failed before the loop reaches it (`pubsub.go:663`).
  (`Handled` without its restriction on MaxRetryCount.)
- *Messages left in the queue.* What is in the queue at Close is dropped, though its
  Publish returned nil. (`Handled` without `closer # "open"`.)
- *ClearQueue.* It empties the map and leaves the channel (`deadletter.go:463`): cleared
  operations are retried. RetriedIsListed carries the excuse.
- *IsHealthy takes an operation.* `deadletter.go:484` receives the head of the channel,
  not the nil it sent. The operation there is lost. `deadletter.go:482`: "Remove the
  nil operation". (`ProbeTakesNil` with `"Probe"`.)
- *Close of the dead-letter queue.* A handler that outlives 5 seconds requeues into the
  closed channel (`deadletter.go:364`) and ends the process; NoWorkerCrash carries the
  excuse. And after every Close, one that waited too, an AddFailedOperation or IsHealthy
  that found the queue open panics when it sends (`deadletter.go:216`, `:481`), and nothing in
  the library recovers that; `deadletter.go:516` says "graceful shutdown".
  (`\A op \in Ops : stage[op] # "panicked"`, or `crashed = "no"` with `Events = {"Close"}`.)
- *Handlers that outlive their timeout.* `deliverWithRetry` stops waiting for a handler
  (`pubsub.go:807`) and cannot stop it. The delivery counts as over, the processor takes
  the next message, and the subscription's handler runs for both, though the processor
  stopped waiting for neither.
  (`d \in abandoned => \A m \in Messages : delivery[m, d[2]] # "running"`.)
- *An older state counts for nothing.* An array of Booleans reaches `bytesToBitset`,
  which looks for numbers: the count is loaded, the bits are not
  (`deserializeLegacyState` is never reached). (`RestartRestores` with
  `Previous <- MCPrevious` and a restart as the first step.)
- *A batch that does not fit.* AddBatch returns nil with the items dropped that came
  after the capacity was reached (`bloom.go:305`). (`AddBatch` in `Bloom`.)
- *A late save.* A save whose context ended may reach the store after a Clear and
  bring the items back. (`stored = Nothing` after `DeleteSucceeds`, with `"Late"`.)
- *A panic is a success.* Execute returns nil for a recovered panic
  (`circuitbreaker.go:232`) and Retry ends with success. (`swallowed = 0`.)
- *RetryWithStats panics.* `stats.LastError` is an atomic.Value; a second error of
  another concrete type, or the `errors.New("")` of a success, panics in Store
  (`retry.go:426`, `:443`, `:449`, `:471`).
  (`\A c \in Callers : at[c] # "panicked"`.)
- *An attempt that was not made.* `retry.go:420` counts before it looks at the context.
  (`at[c] = "cancelled" => stats[c].total = stats[c].ok + stats[c].failed`.)
- *One deadline for all attempts.* `retry.go:434` derives each deadline from the context
  of the attempt before, so that the first one bounds them all.
  (`at[c] = "delay" => ctx[c] # "done"` with `Cancellable = {}`.)

Read in the code, and outside the models: `result == 1` compares an interface with
an int (`redlock.go:444`), which an int64 never equals, so such a client never
acknowledges an Extend; the jitter is added after the delay was capped by MaxDelay
(`retry.go`, calculateDelay); the loop consults neither
RetryableError nor the policy's rate limit, and nothing counts against a budget, where
`README.md:165` says "Global retry budget management".

## 8. What is not modelled

- In the Bloom filter: the hash arithmetic and the floating-point sizing, which are out
  of TLC's reach (items have arbitrary bits, MaxItems is given); the averages and
  counters of the metrics except StoreErrors; filters without a store, whose memory
  does the same; the reading calls, which change only metrics.
- In Retry: the length of delays, and RetryManager, whose statistics no retry touches.
- In the breaker: lastStateChange and the reports. Reset's stores are made under
  `mu` and are one step here, although the lock-free additions to the totals may fall
  between two of them; the same holds for ResetMetrics of the bulkhead.
- In the publish/subscribe system: PublishBatch (a loop of publishMessage that stops at
  the first error), several topics, which share only the token channel of publishers,
  the state of the breakers, the store (a failed write is logged), the metrics, and
  dead-letter handlers that panic.
- In the bulkhead: the outcome counters, the average execution time, timestamps, the health status.
- In the pool: zero results that processJobResults may read from the closed channel
  before it looks at its context, each of which it counts (`pool.go:656`; QueueGauge
  says nothing of that time); the panic by which a WaitGroup may answer an Add that
  meets the end of a Wait; the health record, which monitorHealth, collectMetrics and Close
  overwrite in turn (`pool.go:737`), the job statistics and averages. A job's task may
  return, fail, panic or outlive its timeout; which of these is not told apart,
  because the worker does the same in each case.
- In Redlock: metrics, the closed flag (it only refuses new calls), the types of
  the answers of clients. Several resources do not interact.
- In the dead-letter queue: registration of handlers (they are arbitrary and there
  from the start), TotalFailed, TotalRetried, durations, backoff. `SameID` lets
  operations share an ID; the runs keep IDs distinct, since nothing says what a
  second operation with the same ID should mean, and with a shared one the end of
  one operation unlists the other.
- Validation of configurations and inputs, which rejects without changing state,
  and `errors.go`, which has constants only.
