# A verification project for HttpClient

This directory holds TLA+ models of the concurrent core of this repository: the
HTTP/1.1 connection pool and its window of shards, the HTTP/2 session and the groups of
sessions, the `asyncx` task runtime they are built on with its synchronisation primitives,
the choice between the two protocols, and the policy around a request. TLC model-checks
them on small instances; TLAPS proves, for every size, every safety property that TLC checks.
`PROJECT.json` lists components, runs, mutants, hazards, theorems, and for each definition the
lines it is translated from.

Paths below are relative to the repository. All of the code is C++20 coroutines on
standalone Asio.

## 1. The system

`HttpClient` (`src/http_client.cpp`) is the facade: it applies defaults, cookies,
redirects and retries to a request, decides which protocol to use for its origin, and
hands it to `AsioHttpClient` (HTTP/1.1, `src/asio_http_client.cpp`) or `H2Client`
(HTTP/2 over nghttp2, `src/h2_client.cpp`). All are coroutines over `asyncx`
(`include/asyncx/asyncx.hpp`), a library of tasks, combinators and synchronisation
primitives.

| Component | State it keeps | Operations | What makes it correct |
|---|---|---|---|
| H1 origin pool | `idle_*` stack, `active_*`, `connecting_*`, `reserved_idle_*`, `wait_*` queue of `Waiter` | `acquire_plain`, `acquire_tls`, `connect_probe_tls`, the exchange and its end, `wake_one*`, pool timeout, cancel, `preconnect`, `reset_connections`, eviction | never more connections than the cap; counters agree with what exists; a reservation is backed and used; nobody waits for nothing |
| H1 shards and origins | per shard: map of pools, LRU list, TTLs; `active_auto_shards_`, `global_inflight_` | `get_origin_pool`, `evict_idle_origins`, maintenance, growing and shrinking | only idle pools are evicted; the window of shards follows the load |
| H1 TLS actor (experimental) | job queue, lanes | `run_h1_actor_request` | each job is answered once |
| `asyncx::Task` | `TaskState`: `done`, result, `waiters`, `continuations`, all under a mutex | `await`, `add_completion`, `complete_task`, `cancel` | every await comes back, every continuation runs once |
| `asyncx` combinators | `GroupState`, `VectorGroupState`: `done_count`, `wake_once`, `cancel_once`, `first_error`, a timer | `gather` (four forms), `wait` (three modes), `as_completed`, `one_of`, `race`, `wait_for` | no lost wake-up, the promised exception, structured concurrency |
| `asyncx` bounded maps | `next`, `completed`, `stop`, `first_error` | `gather_limited`, `for_each_limited` | the window stays full, nothing starts after an error |
| `asyncx` primitives | flag, count, owner or buffer, and a list of timers | `Event`, `Semaphore`, `Lock`, `Queue`, `TaskGroup`, `shield`, `run_in_pool` | no lost wake-up, mutual exclusion, order of a queue |
| Protocol routing | `OriginGate` per origin on a strand, `origins_` (LRU), remembered route, per-thread URL cache | `request_auto`, `request_prefer_h1`, `request_prefer_h2`, `request_h2`, `enter`, `set_h1`, `set_h2`, `mark_h2_failed`, eviction | one detector, nobody sleeps on a gate nobody settles, failures honoured |
| Request policy | cookie jar, retry and redirect counters | `request_with_httpx_policy`, `CookieJar` | nothing is sent more often than it may be, the jar keeps its limits, every call ends |
| H2 session | `active_streams_`, `stream_waiters_`, streams by id, write queue, deadlines, `io_generation` | connect, slot acquisition, read loop, write loop, GOAWAY, shutdown, reset | concurrent streams within the peer's limit, every stream completed once |
| H2 session groups | sessions per origin, LRU, thread-local cache | routing, scaling, eviction | the counts are right, an evicted group serves nobody, scaling down takes no stream away |

**Interaction.** `HttpClient` awaits `AsioHttpClient::async_request` or
`H2Client::async_request`. A TLS detection goes through `probe_request` of the H1
client, which returns either a response or the connection on which ALPN chose h2. A
request enters a shard by `co_spawn` on the shard's `io_context`; from then on everything
that touches a pool runs on that shard's single thread. A gate is protected by its strand,
`origins_` by a mutex, a `TaskState` by a mutex. Wake-ups are almost everywhere a
`steady_timer` set to `time_point::max()` which somebody else cancels.

**What is hard here.** (a) The window between registering a timer and starting
`async_wait` on it, where a `cancel()` is lost; (b) what newcomers do between a wake-up
and the resumption it causes; (c) counters zeroed by a reset or an eviction under
coroutines that decrement them later; (d) timeouts and cancellations that leave list
entries behind; (e) `co_spawn` runs a new coroutine at once, so tasks are done and items end
before their caller waits for them; (f) three copies of the protocol of an origin, updated at
different moments. The `hazards` of `PROJECT.json` list them line by line, with a note where no
property covers one, most often because the code does what the hazard fears.

## 2. The modules

| Module | Models | Checked by |
|---|---|---|
| `H1Pool` | one `OriginPool` | `MCH1Pool` (symmetry), `H1PoolProofs` |
| `AutoShards` | the window of shards of the H1 client | `MCAutoShards`, `H1PoolProofs` |
| `AsyncTask` | `TaskState`, `await`, `complete_task`, `add_completion` on several threads | itself, `AsyncxProofs` |
| `AsyncGroup` | the combinators over tasks on one executor | itself, `AsyncGroupProofs` |
| `AsyncLimited` | the bounded maps | itself, `AsyncxProofs` |
| `AsyncSync` | `Queue`, `Semaphore`, `Lock`, `Event` | itself, `AsyncSyncProofs`; implements `Handoff` |
| `Handoff` | what a queue or a semaphore promises, with no list of waiters | as a property of `AsyncSync`, its steps in `AsyncSyncProofs` |
| `OriginGate` | protocol routing for one origin | itself, `MCOriginGate` (symmetry), `OriginGateProofs` |
| `RequestPolicy`, `CookieJar` | the loops of attempts and redirects, `submit`, the shared jar | `MCRequestPolicy`, `RequestPolicyProofs` |
| `H2Session` | one session of `H2Client` (`struct Impl`) | itself, `H2SessionProofs` |
| `H2Group` | the session groups of `H2Client` | `MCH2Group`, `H2GroupProofs` |
| `LruEviction` | the scan of an LRU list that both clients make | used by `H2Group` |

`H2Group` and `H2Session` are two views of the same sessions: the first has several, reduced
to what routing and eviction see of them, the second has one with everything that happens
on its strand. `AsyncSync` and `AsyncTask` divide a wait in the same way: the first has the
lists of waiters on one executor, the second a single wait with several threads.

A module takes its environment as constants: which coroutines may time out, be cancelled,
fail early; whether resets and evictions happen. A run chooses them in its `.cfg`.
Next to a definition stand its *mutants*, the same definition with a plausible
bug; they are not part of any specification, and each property is shown to fail when one
of them takes its definition's place.

### H1Pool

A shard is single-threaded, so an action is what one coroutine does from its resumption to
its next suspension. `pc[c]` says at which `co_await` coroutine `c` is: `"wait"` on its
`Waiter` timer, `"connect"` in resolve/connect/handshake, `"exchange"` in write/read.
The two copies of every field (`_plain`, `_tls`) are one variable, as a pool's key contains
the scheme; the two acquire functions, which test the same things in different words, are
both kept (`PlainMayConnect`, `TlsMustWait`) and proved to agree (`PlainAndTlsAgree`).

| Code | Action |
|---|---|
| `acquire_*`, entry and the loop after a wake-up | `Start`, `WaitWoken` through `Acquire` = `TakeIdle`, `OpenConnection` or `Enqueue` |
| `connect_probe_tls` | `ProbeStart`, `ProbeAcquire`, `ProbeConnectOk`, `ProbeFoundH2` |
| the timer of a `Waiter` | `TimerFires`, `WaitTimedOut`, `WaitCancelled` |
| a connect ends | `ConnectOk`, `ConnectFail` |
| an exchange ends | `ExchangeOk` (keep-alive or close), `ExchangeError`, `ProbeExchangeThrows` |
| `preconnect` workers | `WorkerStart`, `WorkerConnectOk`, `ConnectFail` |
| cancellation from outside | `CancelEmit`, `CancelOnShard` |
| `reset_connections`, eviction | `ResetConnections`, `Evict` |

A cancelled or timed-out waiter stays in the queue where the code leaves it there, and
`FirstLive` skips only those the code marks `cancelled`. `conn` records whether a
connection is still usable, since an idle connection may be found closed.

### AsyncTask

Each critical section under `state->mutex` is one action and everything after the unlock
another. `SameExecutor` awaiters share the thread of the task's coroutine (`Busy`,
`MayRun`); the others interleave with it freely. A `cancel()` on a timer that is not being
waited for does nothing; `missed` remembers whose timer was cancelled so early.

### AsyncGroup, AsyncLimited

The parent, the tasks and their `wait_task` coroutines all run on one executor. `group.wake`
is the parent's wait: `"idle"` (not waiting), `"pending"`, `"fired"` (its handler is queued).
The kinds differ in `Continuation` (vector forms, called inside `complete_task`), `Join`
(tuple forms, a coroutine per task) and in what the parent does when it wakes.

On the running executor `co_spawn` runs the new coroutine at once, up to its first suspension. A
task that is done when the combinator is called, and an awaitable of `gather(vector<awaitable>)`
that ends without suspending, therefore act on the group inside the call (`RegisterOne`), in the
order in which the caller goes through them (`Registering`). The history variables `ready` and
`first` remember which they were and which task failed first.

`AsyncLimited` has a step per turn of the loop of the caller (`ParentLaunches`). What it launches
runs inside the loop (`inline`): it may end there, and launch the next (`EndItem`), or suspend
(`Suspends`). Then the caller waits (`ParentWaits`). An item that ends launches the next one as the
code does, through a weak pointer that expires with the parent (`gather_limited`) or inside a
worker loop (`for_each_limited`). `spent` remembers that the map had failed or was over when its
caller came out of the loop.

### AsyncSync and Handoff

All four primitives wait alike: a timer that never expires, a weak pointer to it in a list,
and a loop that looks again after every wake-up. `task[t].at` is `"asleep"`, `"woken"` (its
handler is queued) or ended; `takers` and `givers` are the lists, which keep the entries of
tasks that have gone (`Alive` is `lock()` of the weak pointer, `FirstAlive` is
`cancel_one_waiter`). A cancelled task wakes up, looks once more, and throws only when it
would have to sleep again, since the error code of the wait is ignored.

| Code | Action |
|---|---|
| `put`, `get`, `try_put`, `try_get` | `Put`, `Get`, `TryPut`, `TryGet`, by `Call` and `Resume` |
| `acquire`, `try_acquire`, `release`, `LockGuard` | `Acquire`, `TryAcquire`, `ReleaseMany`, `Release` |
| `wait`, `set`, `clear` | `WaitEvent`, `SetEvent`, `ClearEvent` |
| cancellation of the task | `Cancel` |

`Handoff` knows a buffer, who wants from it and who offers to it. Its fairness is the
promise: as long as there is something in the buffer and someone wants it, someone is
served. `AsHandoff` maps a semaphore to a buffer of permits and a lock to a buffer of one.

### AutoShards

The variables are the atomics. A request is counted in (`CountIn`), loads the window
(`Load`), looks at the interval under the mutex unless the load is urgent (`Space`), and
exchanges in a loop (`Swap`); `preconnect` (`Warm`) does the same with a count of its own.
The maintenance loads the load (`Look`), decides under the mutex (`Consider`) and stores
(`Narrow`), whatever was exchanged meanwhile. `Wanted` is the table of levels
(32, 96, 128, 512 requests).

### RequestPolicy and CookieJar

A call is at the top of the inner loop, in `raw_request`, in its backoff, or ended. What it
asks for (`wish`) is what the code's decisions depend on: `await` or `submit`, the protocol
policy, whether it may be replayed, redirects, cookies, retries, its URL. `raw_request` may hand the
request to several transports, one after the failure of the other (`FirstLegs`, `NextLegs`,
`Resend`): `tries` counts the calls of `raw_request`, `sends` the transports of the present one. A probe
that finds HTTP/2 or nothing has not sent the request; it is counted, as one that finds HTTP/1.1
and fails has. The transport answers anything:
a status, a redirect, a broken connection, cookies. `CookieJar` has the jar as operators:
`Pruned`, `WithLines`, `DomainLimited`, `DomainsLimited` are its functions under the mutex, and
`Chosen` is what `remove_if` and `erase` leave; hosts and paths are sequences, so that `domain_match` and `path_match` are what they
are in the code, a suffix and a prefix.

### OriginGate

A request is a small state machine whose states are the `co_await`s of `raw_request` and of
the four routing functions. Gates are numbered, because a request may hold a gate that has
left the cache. The H1 and H2 clients are outside: an attempt succeeds or fails. `enter()`
runs on the strand and returns to the request; `Gap` says that the request runs on another
executor, so that something else may happen in between. Runs listed here have `Gap = FALSE`
(one executor, as in the repository's benchmarks and tests).

### H2Session

Everything runs on the session's strand, so again an action is what happens between two
suspensions. `link` is `connected_` and `connecting_`; `socket` and `session` say whether
`stream_` and `session_` are there, which the code keeps apart: `shutdown_now` closes the
first and not the second, `close_connection` both. `reader[g]` is the read loop that was
started with generation `g`: `"reading"`, `"cut"` (its socket was closed, it will see
`operation_aborted`) or `"eof"` (its read failed).

| Code | Action |
|---|---|
| `ensure_connected` | `StartConnected`, `StartWaits`, `StartConnects`, `Resolved`, `ConnectOk`, `ConnectFails`, `ConnectWaiterResumes` |
| `acquire_stream_slot`, `submit_stream` | `Admit` inside the steps that lead to it, `SlotWaiterResumes`, `PoolTimerFires`, `SlotTimeout` |
| the wait for the stream | `StreamWaiterResumes`; `Cancel` and `WaitCancelled` for the caller's cancellation |
| `on_frame`, `complete_stream`, `expire_streams` | `StreamEnds`, `Settings`, `Goaway`, `StreamExpires` |
| `read_loop` | `ReadEnds`, `ReaderResumes` |
| `request_shutdown`, `request_reset_if_idle` | `RequestShutdown` and `Shutdown`, `ResetIfIdle` |

A request ends in one of several ways that the properties tell apart: `"orphan"` (cancelled
after it was woken, its stream left open), `"abandoned"` (its waiter left in the queue) and
`"undefined"` (it used a null `session_` or a `stream_` that had been replaced; what follows
is not modelled). One assumption on timing is made, `Drained`: a connect takes several round
trips, so when it succeeds the handlers that were runnable before have run.

### H2Group

`groups` and `lru` are changed under `groups_mu_` in one step; on its way from `group_for`
to the strand of a session a request passes through `"grouped"`, `"decided"` and `"posted"`,
and anything may happen in between. `FromCache` may return a group that was evicted, as the
code does when `try_lock` fails. What is posted to a strand (`asks`: shutdown, reset,
preconnect) runs in any order with the requests posted there.

| Code | Action |
|---|---|
| `group_for`, `evict_session_groups_locked` | `Start` by `FromCache`, `FromMap`, `NewGroup` |
| `active_impl_count`, `choose_impl_index`, `prewarm_active_impls` | `Decide`, `Route` |
| `ensure_connected`, `acquire_stream_slot` on the strand | `Arrive`, `ConnectEnds`, `Proceed`, `TakeSlot`, `SlotWaitEnds`, `Answer` |
| a read error, and what is posted to a session | `Break`, `RunAsk` |
| `run_maintenance` | `RunMaintenance` |
| `preconnect`, `reset_connections`, `shutdown` | `PreconnectStart`, `PreconnectStore`, `ResetConnections`, `Shutdown` |
| the last `shared_ptr` to a group goes | `Destroy` |

`H2Group` has no list of slot waiters. A waiter may look again whenever a slot is free or its
session stops (`TakeSlot`), in any order, and may give up at any time (`SlotWaitEnds`), but need
not do either: only that a stopped session turns its waiters away is fair. So every order of the wake-ups
of `H2Session` is there, and so is a wake-up that never comes.

## 3. The runs

| Run | Instance | What it shows |
|---|---|---|
| `pool_disrupted` | 3 requests, a probe, a preconnect worker, cap 2, one connect at a time, TLS; a timeout, cancellations, resets and eviction | `ConnectionAccounting`, `ConnectionCap`, `ReservationsBacked`, `ConnectingNotOvercounted` survive every interleaving of them |
| `pool_live` | same coroutines, without the disruptions, weak fairness | connects are counted exactly, every reservation has an owner, nobody is stranded, everybody ends (unless a probe's exchange threw: it never returns its connection) |
| `shards` | 3 shards, 3 requests that come again and again, a `preconnect`, the maintenance | who widens never narrows; a stale store of the maintenance is made up for by the next request as long as the load is urgent |
| `group_all` | eleven combinators, three tasks, each running or done at the call, failing, cancelled from outside; the caller cancelled | the wake-up is lost exactly when `wake_once` was used up inside the call; tuple gather leaves nobody behind and race cancels the losers; each call returns or throws what it should, with the two cases in which it dereferences an empty optional; every call whose wake-up was not used up ends |
| `limited_all` | every total 0..5, every concurrency 0..3, items that end or fail inside the loop that launches them or later, the caller cancelled | the window is full and all is returned, nothing starts after the end, the call ends unless the map had failed or was over inside the call |
| `task_all` | two awaiters on the task's executor and two on others, one of each cancellable, two threads calling `add_completion` | every local await comes back, a remote one unless the task ended between its unlock and its `async_wait`; each continuation runs once |
| `sync_all` | four tasks, each of the four primitives, queues without limit, of one and of two, up to one permit, three calls from outside (a `set`, `clear`, `set` among them), any task cancelled | for each item, permit or free place there is a woken task as long as one sleeps; one holder of the lock; an event that stays set lets everyone go; `Handoff` is implemented |
| `gate_auto` | 4 automatic requests, waiter limit 2, fallback to H1, weak fairness but for the network | one detector at a time; a request is answered unless its own attempt, or that of the detector it waits for, does not end |
| `gate_mixed` | 3 requests of any of the five policies, all cancellable, two generations of the entry, `h2_failure_ttl = 0` | whoever sleeps is on the list of a detecting gate, and that gate has a detector unless that one was cancelled; the entry is not evicted meanwhile |
| `h2_session` | 2 requests (one with a pool timeout, one cancellable) and a callback request, limit 2, peer's limit 1 changed by SETTINGS of 0 or 2, GOAWAY, read errors, idle resets, shutdown, weak fairness | `active_streams_` never counts a slot nobody will return; streams are admitted within the limit until GOAWAY, a reset or a cancellation interferes; a null session is used only after GOAWAY, reset or shutdown; a reset or a failed connect does not stop the session; requests end, or stay held up by a connect that does not end or by a wake-up spent on a waiter that has gone |
| `h2_groups` | 2 requests; two origins with one session each and room for one group, or one origin with two sessions; one call of `preconnect`, `reset_connections` or `shutdown`; connections that break | the counts and the list are right; an evicted group serves nobody; scaling down takes no stream away; the limit gives way only to busy groups; a request ends unless its session holds it up in a connect or in the wait for a slot |
| `policy` | 2 calls with six kinds of wishes (all protocol policies, negative retries and bad URLs among them), one redirect, one retry, two hosts of which one is in the domain of the other, jar limits of 1 | a request is tried once for each hop of each attempt, and again only if it may be replayed, but each try may send it up to three times; the jar keeps its limits; calls end unless a transport keeps them |

Every property has a mutant: a definition of the model changed as a plausible bug would
change the code, under which TLC refutes the property with the same configuration.

**Bounds.** Three requests at a cap of two connections give every queue length the pool's
code distinguishes (none, one, more than one) together with a busy and an idle connection;
the fourth and fifth coroutines are of the other two kinds that open connections. Three
tasks are the first, the last and one between, and of three one can be done, one failed and one running. Totals to 5 with windows to 3 contain an empty
map, a window larger than the total, and two refills of a full window. Two gates are an
entry before and after an eviction; with more, only the number of gates nobody can reach
grows. `WaiterLimit` 1 or 2 with three or four requests makes the list overflow.
In `h2_session` a limit of one or two with three requests fills the slots and queues one
request or two, and four generations allow a reset besides a connect of each request.
In `sync_all` four tasks are two on each side of a queue, or a holder, a sleeper, a newcomer and
one cancelled; limits of 0, 1 and 2 are no limit, one that is always full or empty, and one that is
neither. In `h2_groups` two origins with room for one make every new group an eviction, and two
requests are enough for one to be on its way to what the other evicts; the cache of a thread has
one entry, so that it is overwritten. The levels of load (64, 128, 256 and 8; 32 to 512 in
`shards`) are scaled down to the number of requests. In `policy` the limits of the jar are 1, so
that every second cookie and every second domain has to go.

**Fairness.** Weak fairness of the steps of each coroutine: an `io_context` runs its handlers
in the order they are posted. In the HTTP/1.1 pool connects and exchanges have a timeout for each
stage, so each ends. An H2 stream has a total deadline, which starts with the stream
(`h2_client.cpp:894`). The connect of an H2 session has no timer on resolve, connect or handshake
(`523-577`), so nothing is assumed of it except that one whose socket was closed, or whose
coroutine was cancelled, comes back (`CutConnectFails`). Liveness properties that pass through such a connect say
so by `HeldUp` (`H2Session`, `H2Group`, `OriginGate`), or count a call that a transport keeps as one they say
nothing of (`RequestPolicy`). Tasks of a group and items of a map are assumed to end. In `sync_all` only the
resumption of a woken task is fair: nobody has to put, release or set. In `shards` the
maintenance and the steps of a request are fair, its arrival and its end are not. Nothing obliges
anybody to cancel, reset or evict, or a pool timeout to expire: `EveryoneFinishes` holds without one.

**Symmetry** is used only in runs without temporal properties, over requests that no constant
tells apart.

## 4. What is proved

Eight modules hold the proofs, `H1PoolProofs` and `AsyncxProofs` those of two components each. For
each component an inductive invariant is stated as a conjunction of named parts, shown to hold
initially and to be kept by every action, and the theorems follow from it. TLC checked what an
invariant says beyond the types on the instances of the runs before it was proved. The constants are as general as the assumption named in the module that declares them:
finite sets of any size, any limits. Where a theorem assumes more, it says so.

### `H1PoolProofs`

For any finite sets of requests, probes and workers and any limits (`CoroutinesAssumption`,
`LimitsAssumption`):

- `TypeCorrect`: `Spec => []TypeOK`; no counter goes below zero.
- `AccountingHolds`: `active` is the number of idle connections and of coroutines that own one.
- `CapHolds`: no more connections than `max(1, max_connections_per_origin)`.
- `ReservationsAreBacked`: at most one reservation per idle connection.
- `ConnectingIsNotOvercounted`: `connecting` never exceeds the connects in flight.
- `PlainAndTlsAgree`: the admission tests of the two acquire functions are the same.
- `ConnectsAreExact`: if nobody calls `reset_connections` (`~MayReset`), `connecting` is the
  number of connects in flight, and these are at most `max(1, max_connecting_per_origin)`.
- `CountersAreExact` and `NobodyIsStranded`: in a pool that is `Undisturbed` (no pool timeout, no
  cancellation, no reset, no eviction) every reservation has a woken waiter that will use it,
  and a queued waiter has somebody who will wake one.

The inductive invariant is `PoolInv`, `TypeOK` and `Counted`. The cap does not follow from
itself: a step that opens a connection tests `active`, so one has to know that `active` is
exact; it is exact only if `Evict` finds no coroutine that owns a connection and if
`ResetConnections` takes off exactly the idle ones; that no reservation outlives its
connection is what makes `TakeIdle` of a woken waiter sound. `Counted` is the conjunction of
these facts. `Invariance` has a step per action; the lemmas before it say what each kind of step
does to the cardinality of `Holding` and `Connecting`.

The two assumptions are not conveniences. `reset_connections` zeroes `connecting` under connects
that go on, and section 5 has what a pool timeout does to the reservations: without the
assumptions the properties are false. `Undisturbed` is the instance of `pool_live`, with failures of
connects, exchanges and probes left in. Its invariant `Calm` describes the queue: whoever is in it
waits, is there once and has not been woken (`InLine`), a timer is aborted only by a wake-up
(`Settled`), the reservations are as many as the woken waiters that have one, and if anybody is
queued, somebody holds a connection or has yet to resume (`Attended`).

### The window of shards, in `H1PoolProofs`

For any finite set of requests, any calls of `preconnect`, any number of
shards from two on and any table `Wanted` (`ShardAssumption`):

- `WindowStaysInRange`: `active_auto_shards_` stays in `1..N`, so that no shard is picked with a
  window of zero or outside the vector.
- `WideningIsMonotone`: `ShardSpec => WideningNeverNarrows`.

Its inductive invariant `ShardInv` needs more than the range: who is about to exchange wants more than
what it loaded (`Growing`), which makes a successful exchange a widening; that what it wants is a
number of shards (`ActorTypes`) depends on `global_inflight_` being the number of requests that
hold a guard (`InflightCounted`), as `Wanted` is a table for that many; and the value that the maintenance
will store is one it has read (`KeeperInRange`).

### Tasks, in `AsyncxProofs`

`CompletionReaches`: `TaskSpec => []CompletionReachesEveryone`, for any awaiters on the task's executor
and on others, and any threads that bring continuations. The invariant gives each continuation
one place at a time (in the list, in what `complete_task` has taken away, or run), and says that an
awaiter of the task's executor is never between its registration and its `async_wait` when the
list is taken (`LocalAwaiters`). That is exactly what does not hold for other executors, and the
theorem says that those left asleep are of them and were there when their timer was cancelled.

### Bounded maps, in `AsyncxProofs`

`WindowFull` (`WindowIsKeptFull`) and `NothingStarts` (`NothingStartsAfterTheEnd`), for any total and
any concurrency. The proof counts: the indices below `next` are those that were started
(`InOrder`), each of them runs or is in `completed` (`Counted`), and until something fails each worker
and each ended item has taken one index (`Refilled`). `SpentSleepsOn` (`SpentCallSleeps`, the safety
part of `CallEnds`): a caller whose wake-up was used up before it slept sleeps until it is
cancelled.

### `AsyncGroupProofs`

For any number of tasks and each of the eleven combinators, whichever tasks are done at the call, fail
or are cancelled (`GroupAssumption`):

- `WakeUpLostExactly` (`WakeUpLostExactlyWhenSpent`), `NoTaskIsLeftBehind` (`NobodyLeftBehind`) and
  `EachOutcomeIsRight` (`OutcomeIsRight`).

The theorems assume nothing about when coroutines start or which tasks are done: `Registering`, the
loop that registers the tasks, is shown to leave `wake_once` used up exactly in the cases of
`SpentAtTheCall`. From there the invariant goes two ways. If it was used up, nobody can cancel the
timer of a parent that is not cancelled, ever (`Forever`). If not, that nobody sleeps through the
end is not inductive either: whether a task that ends wakes the parent depends on `wake_once` and
`cancel_once`, which others may have set. The invariant says that `done_count` is the number of
ends seen (`Counts`), that a sleeping parent has used up neither flag and waits for something that
has not happened (`Asleep`), that continuations see the ends as they come (`Seen`), and for the races
that the first to end has asked all others to stop before the parent runs (`Winner`).
`FirstFailure` keeps `first_error` equal to the failure that came first, `Sleepers` says which of the
two tasks of `wait_for` cancels which, and `Defined` when its optional can be empty.

### `AsyncSyncProofs`

- `LockExclusive`: one holder of a `Lock`, and the lock is not lost.
- `SleepersCovered`: no wake-up of a `Queue`, a `Semaphore` or a `Lock` is lost.
- `StepsOfHandoff`: every step is a step of `Handoff` or a stutter, the safety half of the refinement
  that `sync_all` checks with its fairness.

`SleepersAreCovered` is not inductive: a cancelled task is awake with its entry still in the list,
and can use up the next wake-up. The invariant (`Enough`) counts only those awake that are out of the
list, and rests on what the lists are (`Good`): whoever sleeps is in one, a live timer once.

### `OriginGateProofs`

For any requests, policies, number of gates and limits (`GateAssumption`):

- `NeverEvicted` (`NeverEvictedWhileDetecting`), with no further assumption.
- `OwedAWake` (`WaitersAreOwedAWake`), for one executor (`~Gap`). With a gap between the answer of
  `enter()` and the wait, a wake-up can be lost (`http_client.cpp:1401`, section 5).
- `DetectorIsAlone` (`OneDetector`), when all requests are automatic, the origin keeps its entry
  (`MaxGates = 1`) and `h2_failure_ttl` is not 0 (`AutoOnly`), with a gap or without. A second entry, or
  a request that prefers a protocol, brings a second detector by the design of the code.

`Inv` says what the fields of a request mean at each place (`Places`), that a detecting gate blocks
its eviction (`Protected`), and that somebody owes it an end (`Owed`). For one detector the argument is
that an origin with one entry is detected once: the route is remembered before a retry can be
due, and then no request enters the gate (`NobodyRetries`, `RememberedFirst`).

### `RequestPolicyProofs`

For any calls, wishes and limits, and whatever the servers send (`PolicyAssumption`, `JarAssumption`):

- `Accounted` (`SendsAccounted`). The bound on the calls of `raw_request` is kept as a budget of the
  attempts that are over, the hops of this one and the place of the call (`Budgeted`); that on the
  sends of one call of it says which transport it is at after how many (`Legged`).
- `JarKeepsItsLimits` (`JarWithinLimits`). Each operation on the jar is shown to keep `JarFits`: what is
  selected of a sequence of cookies is a part of it (`Part`), a `Set-Cookie` line removes its namesake
  before it is added (`LineFits`), of one cookie too many there is an oldest one to remove
  (`OldestExists`, `DomainFits`), and `enforce_domain_count_locked` stops early only when no domain
  with cookies is left (`DomainsFit`). That there is an oldest one rests on the jar being finite
  (`CookiesFinite`), which is why finiteness is part of the invariant.

### `H2SessionProofs`

For any numbers of requests and callback requests and any limits (`SessionAssumption`), with
everything that the run `h2_session` lets happen:

- `SlotsAreGivenBack` (`NoSlotLeak`) and `SessionIsThere` (`SessionThereWhenUsed`).
- `AdmissionIsWithinTheLimit` (`AdmissionWithinLimit`) and `SessionStopsForAReason` (`StopsForAReason`), as
  action properties.

What the code keeps, it keeps only until something happens that it does not survive, and the
invariant says which: until GOAWAY closes the connection or the session stops (`Steady`), one
request at a time connects, and the read loop of the present generation has not been cut off
(`Loops`); until a reset as well (`Clean`), a session is there wherever one is used (`Ready`), and if
no cancelled request has left its stream behind, `active_streams_` is exactly the number of slots held
(`Counted`). Who holds a slot is the one that waits for its stream (`UsersGood`); that is always so,
and with it `NoSlotLeak`.

### `H2GroupProofs`

For any origins, requests, sessions per origin, threads and limits (`GroupAssumption`):

- `EvictedServeNobody` (`EvictedGroupsServeNobody`): a stream on an evicted group has a shutdown of its
  session ahead, whether the request found the group in a thread's cache or was on its way.
- `ScaleDownHarmless` (`ScaleDownHarmsNobody`).
- `BooksAreRight` (`GroupAccounting`): `inflight` and `active_impls` are right, and the list has exactly
  the keys of the map.
- `LimitGivesWayToWork` (`LimitExceededOnlyWhenBusy`).

The invariant says that every session of a group that left the map has stopped or has a shutdown
posted (`Doomed`), that a stopped one has no streams (`Live`), that what a request, the map or
`preconnect` refers to exists (`Known`), and that a reset that does not look whether the session is
idle comes from `reset_connections` only (`Asked`). That `choose_impl_index` returns a session in use,
from wherever it starts its round, is `ChoiceType`; that `active_impl_count` stays within the group is
`DecisionsType`.

The last two rest on `Listed`: the list names each key of the map once (`Lists`). `WithoutLists` and
`TouchedLists` say that `erase` and `splice` keep it so, and `RemovedAll` what the scan of
`evict_session_groups_locked` does: as long as there are too many keys it goes on and takes each idle
one, so if too many are left it has been through the whole list.

### Induction over data

A recursive function is written out in the model where its result is proved about (`Without`,
`Removed`, `Chosen`, `WithLines`, `Registering`). The proof first shows that such a function exists
(`KeepsExists`, `ScansExists`, `ChoosesExists`, `AddsExists`, `RegisteringIs`), then that no step of it is
the first to go wrong: `LeastNumber`, the existence of a least element, stands for the induction.

### Only model-checked

All liveness, which is outside the prover, and with it the fairness of `Handoff` (the whole of
`ImplementsHandoff`; its steps are proved) and `LoadKeepsTheWindow`. Every invariant and every action
property of the runs is proved.

## 5. Not modelled, and where the models stop

- Bytes: HTTP/1.1 parsing and formatting, TLS, DNS, nghttp2's framing. An exchange is its outcome.
- The proxy path of `run_pooled_request`, which opens its own connection and does not touch the pool.
- `HttpClient::preconnect` and the order of the LRU list of `origins_`.
- The map of pools of an H1 shard. `evict_idle_origins` and `touch_origin` run on the shard's one
  thread; their scan is `Removed` and `Touched` of `LruEviction`, with the limit and the periodic
  scan as parameters, and the eviction of one pool is `Evict` of `H1Pool`.
- `H1TlsActor`, an experimental path that is off by default.
- `TaskGroup` and `shield`, built from tasks and `gather`; `run_in_pool`, which waits as
  `Task::await` does (it dereferences an empty optional if it is cancelled before its function has
  run, `asyncx.hpp:1867`).
- The primitives of `AsyncSync` across executors: the window between registration and `async_wait`
  is that of `AsyncTask`.
- The headers and the body of a request and of its redirects, decompression.
- `OriginGate` takes the lookup of the route and `get_gate` as one step (no suspension lies
  between them, and other threads differ only in the order of two mutex sections). A line of the
  URL cache may always have been overwritten (a ring of 64 lines per thread).
- `AsyncGroup`, `AsyncLimited` and `AsyncSync` stay on one executor. A timer that `wake_once` protects
  but another thread cancels while its owner arms it is a data race of the library's user, or of
  `Task` in the case `AsyncTask` models.
- What a transport did with a request before it failed: the HTTP/1.1 client may or may not have
  written it. `sends` counts the times it may have gone out.
- curl baseline, request builder, benchmarks, tests, scripts and the Go tools.

**Disagreements with the documentation.** Where the code loses something, the property that is
checked says exactly when, so that the passing run shows both that it happens there and that it
happens nowhere else:

- *A combinator given something that is done already can sleep until its caller is cancelled.* What is done acts on the
  group inside the call, where `wake->cancel()` finds no wait and `wake_once` stays used up, and the
  parent waits without a look (`asyncx.hpp:763`, `1110`, `1123`). That hangs `gather` and
  `gather(return_exceptions)` with some but not all of their tasks done, `one_of`, `race` and
  `wait_for` with any task done, and the vector gathers with a task that has failed while another
  runs (`1199`), against README.md:303-308. `WakeUpLostExactlyWhenSpent`, `SpentAtTheCall`.
- *`gather(vector<awaitable>)` whose awaitables all end inside the call, one by an exception*,
  does not enter its loop, the only place that looks at `first_error`, and dereferences an empty
  optional (`asyncx.hpp:1257-1273`). `OutcomeIsRight`.
- *`gather_limited` and `for_each_limited` sleep in the same way* when an item fails inside the loop that
  launches the first ones, and `gather_limited` also when all items end there (`asyncx.hpp:1367-1374`,
  `1489-1492`). `for_each_limited` returns normally, and swallows the exception, when it was the
  last index that threw there. `CallEnds`, `WindowIsKeptFull`.
- *An awaiter on another executor can miss its wake-up* (`asyncx.hpp:517`): `complete_task` may cancel
  the timer between registration and `async_wait`, against README.md:324. `AwaitersComeBack`,
  `CompletionReachesEveryone`.
- *A request that may not be replayed can go out more than once* (`http_client.cpp:1106-1187`): the
  detection of `Auto` and the policies `PreferH1` and `PreferH2` try the next transport after any
  error, a connection that broke after the request was sent included. `SendsAccounted`.
- *The connect of an H2 session has no timeout* (`h2_client.cpp:523-577`): a peer that accepts the
  connection and does not answer the handshake holds up every request that waits for it. `HeldUp` in
  `EveryRequestEnds`, `RequestsEnd`, `EveryRequestAnswered`.

Two more can be seen with TLC by a change of the constants of a run; the passing runs keep to the
instances where they do not occur.

- *A pool timeout leaves its waiter in the list* (`asio_http_client.cpp:1403`): the next idle
  connection is reserved for a request that has gone, against the comment "Returned idle
  connections are reserved for the waiter we wake" (`:663`). `pool_live` with `Timed = {r2}` refutes
  `NoStrandedWaiter` and `CountersExact`.
- *A failure of H2 is ignored on a known origin* (`http_client.cpp:1199`): `mark_h2_failed` changes the
  gate, while `request_auto` reads the URL cache and the remembered route first, and both still say
  H2, against docs/configuration.md:13 (`h2_failure_ttl`). It takes two requests of `gate_auto`, the
  second of which starts after the first has failed.

Others, not covered by a run:

- `max_origins_per_shard` lets a shard have one pool more than the limit, as the new pool is not
  counted when the others are evicted.
- The window of shards is halved by a value that may be stale, and can drop by more than a step
  (`asio_http_client.cpp:1231`), against docs/configuration.md:75.
- `submit` with cookies or redirects and a URL that cannot be parsed never calls its handler
  (`http_client.cpp:1293`; the exception is in `CallsEnd`), and a negative `max_retries` returns an
  empty response without sending anything (`:869`; `SendsAccounted`).
- A session of a group that stopped after a read error is never replaced: requests routed to it fail
  until its group is evicted (`h2_client.cpp:1380`).
- A waiter woken without a reservation (`asio_http_client.cpp:1896`, `1932`) can be overtaken by
  a new request, against README.md:447.
- Tuple `gather` cancels the other tasks on an error and rethrows that of the lowest index
  (`asyncx.hpp:1120`, `1129`), against README.md:303.
- A `race` whose caller is cancelled cancels nobody, and its `wait_task` coroutines keep a reference
  to tasks in a frame that is gone (`asyncx.hpp:1699-1711`), against README.md:308.
- A failed detection leaves the gate at `H1Only`, so H2 is not tried again after `h2_failure_ttl`
  (`http_client.cpp:1118`), against docs/configuration.md:13.
- A gate waiter on another executor can lose its wake-up (`http_client.cpp:1401`).
- A cancelled detector leaves its gate `Detecting`: its waiters have no timeout and its entry
  cannot be evicted.
- `max_*_origins = 0` turns TTL eviction off as well.
- Cancelling the caller of `wait_for` makes `race` return with nothing set, and `wait_for`
  dereferences an empty optional (`asyncx.hpp:1734`), against README.md:321.

The properties of `H2Session` say where they stop holding. What TLC shows behind each exception:

- `stopping_` is never reset (`h2_client.cpp:1380`): after a read error the session refuses every
  request. Closing the connection because of GOAWAY (`764`) does not advance `io_generation_`, so
  the read loop takes its own aborted read for an error and stops the session as well
  (`StopsForAReason`).
- After GOAWAY a slot waiter that the close has woken goes on to `submit_stream` with a null
  `session_`, or with that of a connect under way. In the second case the slots of the old
  connection are given back into the new one's count, and with four requests more streams are open
  than the limit allows (`SessionThereWhenUsed`, `AdmissionWithinLimit`), against
  docs/configuration.md:58. A reset does the same with five requests: `idle()` does not see slot
  waiters that have been woken and have not run yet.
- A request cancelled after it was woken leaves its stream open and its entry in `state_waiters_`,
  so that the session is never idle again (`AdmissionWithinLimit`).
- A slot timeout, or a cancellation at the wrong moment, leaves a waiter in `stream_waiters_`; the
  next wake-up may go to it, and a request without `pool_ms` sleeps until another slot is released
  (`EveryRequestEnds`).
- A shutdown during `async_resolve` lets a second connect start and replace `stream_`.

## 6. What is left

1. `H1TlsActor` and its hand-over of jobs by a timer (`asio_http_client.cpp:993`).
2. `run_in_pool`, `TaskGroup`, `shield`; `HttpClient::preconnect`.
3. A shard's map of pools, which would compose `LruEviction` with several pools of `H1Pool`.
4. The write buffer of an H2 session and `reset_connections` on a busy one.
