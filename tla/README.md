# Verification of browser-headless

TLA+ models of the browser-headless service (`src/src/*.rs`), the TLC runs that
check them on small instances, and TLAPS proofs for every value of their
constants. `PROJECT.json` maps every definition to the lines it models and
lists runs, mutants, findings, hazards and theorems.

    tlc -workers 2 -config MCPool.cfg MCPool.tla             # a run
    tlapm PoolProofs.tla                                     # a proof

## 1. Inventory

browser-headless captures web pages with chromium. A capture arrives over HTTP
(`/summary`, `/summary/batch`, `POST /jobs`), over MCP, or through a Redis stream
read by workers; it takes a page slot of a pool of chromium processes, drives
one isolated browser context over CDP, and gives back a report.

| component | source | state it keeps | operations |
|---|---|---|---|
| browser pool | `pool.rs` | per instance: status, `in_flight`, `served`, permits, browser, disconnect receiver, notification; one recycle token | `launch`, `checkout`, `Checkout::drop`, `manage_instance` (`wait_for_trigger`, `drain`, `relaunch`) |
| local job store | `jobs.rs` | map of job records with TTL, count of active tasks, `idle` notification | `submit` (purge, cap, evict, insert, spawn), `run_job`, `get`, sweeper, `drain` |
| capture core | `capture.rs` | none of its own; orders pool, browser and webhook per request | profiles, clamps, SSRF check, admission timeout, checkout, total deadline, batch fan-out |
| browser capture | `browser/mod.rs` | one browser context and page per capture, the collect loop's gates, pending patterns and resources | context create and dispose, overrides, navigate, collect, waits, reads, teardown |
| report derivations | `browser/mod.rs` | accumulators inside the page (web vitals, frames, DOM mutations) | observer callbacks; roll-ups, resource summary, coverage, image audit, HAR |
| job queue (producer) | `queue.rs`, `redis_conn.rs` | marker keys `result:{id}`, the stream, one shared connection | `enqueue`, `get`, connection cache and `invalidate` |
| worker (consumer) | `worker.rs` | the group's pending entries, a semaphore of slots, in-flight tasks | `poll_new`, `reclaim`, `process_one`, `ack`, drain on shutdown |
| rate limiter | `rate_limit.rs` | token count and time of the last refill | `try_acquire` |
| SSRF guard | `ssrf.rs` | none | address classes, `check_url`, `raw_url_blocked` |
| HTTP and MCP front ends | `http.rs`, `mcp.rs`, `error.rs` | none of their own | authenticate, rate limit, call capture or a job backend |
| process modes | `main.rs`, `config.rs` | shutdown notification | serve, worker, all; drain on shutdown |
| markdown, security audit | `browser/markdown.rs`, `browser/security.rs` | none | pure text and header analysis |

How they interact: HTTP and MCP handlers, local job tasks and worker tasks all
call the capture core, which calls `BrowserPool::checkout` under an admission
timeout and holds the `Checkout` until the capture is over; the drop of the
`Checkout` notifies the instance's manager task, which drains and replaces the
browser. Local job tasks report to the map that `GET /jobs/{id}` polls; worker
tasks report to Redis. Shutdown stops the HTTP server and then waits, with a
deadline, for the job store or for the workers' tasks.

What is hard, and what must hold:

* **Pool.** Requests, managers and crashes interleave at every await. A page
  slot must not be lost on any way out (hand-over to a cancelled waiter, stale
  re-pick); `in_flight` must be what drain believes it is; replacements are
  serialised; a recycle that is due is not missed; everything taken out of
  service comes back, and no checkout hangs.
* **Job store.** Records expire under running tasks; eviction competes with
  submits; a task may finish after its record is gone; the drain's check and
  wait race the last task's notification. The map is bounded, jobs in flight
  are spared, records only advance, the drain is always woken.
* **Queue and worker.** Redis calls fail after they took effect, entries are
  delivered twice, workers crash between result, publish and ack. A job that
  was accepted gets a final result, a final result is not taken back.
* **Browser capture.** Events arrive in any order and the deadline may cut any
  await. The collect loop stops for the right reason and not much later, the
  list it hands on is what the events say in the order they were handled and is
  there for every stage that reads it, every capture ends, the context is disposed.
* **Report.** Figures computed in several places from the same list, or inside
  the page by callbacks that are read at any moment, agree with each other.
* **Service.** Batches, tool calls, jobs and worker captures share pages, a
  limiter and a gauge; clients leave; a signal ends it all. Batches are answered
  whole and in order, the gauge comes back, the limiter is exact, the process
  ends unless something outside it holds it.

`PROJECT.json` lists each of these at the line where it bites ("hazards").

## 2. Modules

| modules | what they model |
|---|---|
| `LeasePool`, `Pool`, `MCPool`, `PoolProofs` | the browser pool and what it promises |
| `JobStore`, `MCJobStore`, `JobStoreProofs` | the local job store and the drain of `serve` |
| `JobQueue`, `MCJobQueue`, `JobQueueProofs` | producer, Redis stream, read loops and tasks of the workers |
| `Collect`, `Capture`, `MCCapture`, `CaptureProofs`, `CollectProofs` | the page and the collect loop; a capture from end to end under its deadline |
| `RateLimiter`, `Service`, `MCService`, `ServiceProofs` | the token bucket; the process that composes front ends, captures, jobs, worker and shutdown |
| `Rollups`, `Vitals`, `ResourceSummary`, `Audits`, `Report`, `MCReport`, `RollupProofs`, `ReportProofs` | what is derived for the report, compared with itself |

`Capture` extends `Collect`: the loop's actions are steps of the capture, whose
deadline may drop them anywhere. `Service` extends `RateLimiter` and stands on
what the other models promise: the pool is a number of pages (`LeasePool`), a
capture ends (`Capture.CaptureEnds`), a drain ends (`JobStore.DrainEnds`). `Report`
extends `Vitals`, `ResourceSummary` and `Audits`, which share `Rollups` (counters per
key, sums, orders, truncation), and feeds them.

What would come next: the producer's connection cache (`queue.rs:357`), an
abstract `JobResults` (what polls of one id may answer, one after the other)
implemented by `JobStore` and, up to `FinalResultKept`, by `JobQueue`, and the
interception task of `apply_request_interception`.

## 3. The browser pool: `Pool`, `LeasePool`, `MCPool`, `PoolProofs`

### State and actions

| `Pool` | `pool.rs` |
|---|---|
| `status`, `in_flight`, `served`, `notified` | the fields of `Instance`; `notified` is the stored permit of `recycle_notify` |
| `available`, `waiters` | the instance's semaphore: free permits and its FIFO queue |
| `crashed` | the disconnect receiver is ready |
| `mpc` | await points of `manage_instance`: `watch` (`wait_for_trigger`), `acquire`, `tokenwait`, `drain`, `launch` or `overrun` (launching after a drain that timed out), `locked` (holding `inner.write()`), `swapped` |
| `token`, `tokenQueue` | the `recycle_token` semaphore |
| `pc`, `at`, `tries` | each request: `picked`, `queued` or `granted` (permit), `passed` (status check), `reading` (`in_flight` counted, at `inner.read()`), `leased`, then `uncounted` and `notify` inside `Checkout::drop` |
| `leaked` | a history variable: counts that no `Checkout` will give back |

One action stands for the code between two points where another task can run:
pick, acquire, status check, count-in, read, the two atomics of the drop, and
the manager's steps. Tasks run on several threads, so the plain atomics of
`checkout` and `drop` are separate steps; what follows an atomic without being
seen by others (the branch on its value, the release of the permit after
`fetch_add`) is in the same action.

Abstractions: the least-loaded pick is one step (the code reads each instance's
counter once, in order); a failed launch and its backoff change no state and
are the absence of `LaunchSucceeds`; `served` saturates at the threshold, where
nothing distinguishes larger values; the swap of the browser and
`served.store(0)` are one step, as is the release of the token and its
acquisition by the next in line; a crash of a browser that is already being
replaced is left out, since its receiver is never read. `MaxLeaks` bounds the
cancellations at `inner.read()`. Metrics and logs are left out, and
with them the gauge that `launch` overwrites at its end (`pool.rs:230`).

`LeasePool` is the promise: a set of lessees for each instance, at most `Pages`
of them, one slot per request, and at most one instance being replaced.

### Runs

| run | instance | shows |
|---|---|---|
| `pool` | 2 instances, 1 page, 2 requests, recycle at 1, fair | `TypeOK`, `PermitsConserved`, `OneReplacement`, `NoLostRecycle`, that the pool implements `LeasePool`, `ComesBack`, `CheckoutReturns` |
| `pool_single` | 1 instance (the default), recycle at 2 and by age, crashes, one leak, fair | `InFlightAccounted`, `RecycledAtThreshold`, `CrashRepaired` |
| `pool_zero_downtime` | 2 instances, no crashes | violates `CallersNeverObserveRecycle` |

Two instances are what the token is about; with one page and two requests a
request queues behind another, is handed its permit, finds the instance out of
service and re-picks, up to the last retry (`PickRetries` is 2 in the passing
runs; the refutations keep the 4 of the code). A threshold of 1 makes every drop
notify; the threshold of 2 of `pool_single` separates drops that notify from drops
that do not. Crashes, the age timer and leaked counts are left to `pool_single`:
with crashes the two-instance run has more than twice the states and its liveness
no longer ends in minutes. Its safety properties under crashes are theorems for
any number of instances (below). Requests are symmetric in `pool_zero_downtime`
only, since the other runs have temporal properties.

Fairness (`Fairness`): weak fairness of every manager, of every request that
has begun and of start-up, because tokio polls every task that is ready,
launches are retried for ever, and a capture ends at its total deadline. The
read of `inner` is strongly fair, since tokio's `RwLock` queues readers and
writers in one line. Re-picks after a stale permit are fair as part of the
running checkout. Arrivals, crashes, the age timer and cancellations are not
fair.

### Findings

* `CallersNeverObserveRecycle`: the documentation promises that with two
  instances "callers never observe a recycle"; managers take their instance out
  of service *before* they acquire the token, so both can be out together and a
  checkout is refused.

Also seen, with no run of their own (the formulae are in `Pool` and do not hold):
`InFlightAccurate` - `capture.rs:531-534` says that holding the checkout keeps
"the instance's in-flight / served counters" accurate, but a checkout cancelled
at `inner.read().await` has counted itself in (`pool.rs:284`) and is never
counted out, so later drains of that instance run into their deadline;
`InFlightAccounted`, with the leaks added, does hold. `DrainedHasNoHolders` -
`pool.rs:458-460` drops "the last `Arc<Browser>` ref" because after the drain
"there are no other holders", but a request may pass the status check
(`pool.rs:279`), the drain sees zero, and the request then takes the old
browser.

Further, `checkout` answers `Err(())` after four
stale picks even though an instance is active, while its comment says "only
when no instance is currently active"; drops of requests on a replaced browser
count towards the `served` of the new one.

### Theorems (`PoolProofs`)

From `PoolAssumption` (positive sizes, finite `Requests`), for every number of
instances, pages, requests and every threshold: `PoolTypeOK`, `PoolPermits`,
`PoolInFlight`, `PoolOneReplacement`, `PoolNoLostRecycle` and
`PoolImplementsLeases` (every step of the pool is a step of `LeasePool` or
leaves it unchanged).

None of the properties is inductive alone. `PoolInv` has three parts:
`RequestInv` adds to the permit and in-flight equations where each request
stands (`Placed`) and that a permit queue holds distinct requests waiting for
that instance (`Queues`), without which a hand-over could wake a request twice;
`ManagerInv` adds that an instance is in service exactly while its manager
watches, that whoever replaces holds the token, and that the token queue holds
distinct waiting managers; `RecycleInv` extends `NoLostRecycle` over the moment
between the swap and the return to service, where drops already count again.
Requests leave the managers' variables alone and the reverse, so each part is
preserved by one side trivially.

## 4. The local job store: `JobStore`, `MCJobStore`, `JobStoreProofs`

`status[j]` is the record of job `j` in the map ("none" when there is none),
`expired` the records whose TTL has passed and that no purge has removed yet,
`task[j]` the detached task (spawned, guarded by `ActiveGuard`, capturing,
closing, waking, ended), `active` and `notified` the drain's counter and wake-up,
`drain` the position of `serve_http` after the server has stopped. `submit` is one
action, since the code holds the write lock throughout: purge, cap check,
eviction, insert, spawn. `Purge` is the sweeper, and also what a refused submit
leaves behind. The guard's drop is two steps, as in the code: the last task counts
itself out (`CountOut`, `fetch_sub`) and wakes drainers later (`WakeDrainers`,
`notify_waiters`), with the drain and other tasks in between. `Evicts` takes the
oldest completed records, by the number of their submit (`created`), until the new
one fits. Time is abstracted: any record may expire at any moment, in any order,
which allows more than one TTL for all does. The capture is external and ends in a
result or an error; a panic is an error, as `run_job` makes it one.

| run | instance | shows |
|---|---|---|
| `jobs` | 3 submits, cap 2, fair | type, `MapBounded`, `ActiveCounted`, `NoLostIdle`, `EvictionSparesInFlight`, `RecordsOnlyAdvance`, `JobsTerminate`, `DrainEnds` |

Three submits against a cap of two are the least that fills the map, refuses,
evicts and purges under a running task. The system really stops after `Exit`,
so deadlock is not checked. Fairness: every task is polled to its end (a
capture by its deadline, a wait for a slot by the TTL) and the drain's own
steps; not submits, expiry, the shutdown request or the drain's deadline, so
`DrainEnds` shows that the wake-up works without the backstop.

Also seen, with no run of their own. `InFlightBounded`, which `JobStore` states
and which does not hold: `config.rs:248` documents the cap as one on "in-flight
(queued + running)" jobs, but it counts records, and the TTL removes records of
jobs that still run (`jobs.rs:114`, `jobs.rs:270`). A job that was accepted but
whose task has not been polled is not counted yet, so the drain, "until no local
job tasks are in flight" (`jobs.rs:282`), can return before it (`DrainIdle` with
a task spawned). A record that has expired, and that `GET` reports as 404,
becomes visible again when its task ends before a purge.

Theorems (`JobStoreProofs`), for every set of job ids and every cap:
`JobTypeOK`, `JobMapBounded`, `JobNoLostIdle`, `JobActiveCounted`, and the action properties
`JobEvictionSparesInFlight` and `JobRecordsOnlyAdvance`. `JobInv` ties each
record's status to where its task stands (`RecordsFollowTasks`): that is what
makes a late write to a finished record impossible. `NoLostIdle` allows for the
window between count and wake-up: a drain that waits for no one has been woken,
or a task that will wake it exists. `EvictionMakesRoom` is the
arithmetic of the loop: below the cap of in-flight jobs, evicting completed
records always frees a place.

## 5. The Redis job queue: `JobQueue`, `MCJobQueue`, `JobQueueProofs`

### State and actions

| `JobQueue` | code |
|---|---|
| `key` | `result:{id}`: absent, the `queued` marker, the `running` marker, a result (`StoredJobResult`, `JobResult`) |
| `stream`, `entry` | the entries in the stream and their ids, numbered in the order of their XADDs |
| `group`, `cursor`, `pel`, `stale` | the consumer group: that it exists, its last-delivered id, the owner of each pending entry, the pending entries idle beyond `visibility_ms` |
| `phase` | where `QueueClient::enqueue` stands for the job |
| `loop`, `want`, `writeConn` | a worker's `run`: where the read loop waits, its `want`, whether `write_conn` still works |
| `task`, `job`, `attempt` | each of a worker's slots: where its `process_one` stands, for which job, after how many retries |
| `written`, `trimmed`, `redelivered`, `expired` | history: results written, entries MAXLEN removed, jobs Redis may deliver again, keys whose TTL has passed |

Producer and workers share nothing but Redis, so the model is one module with a
section for each: Redis' commands are operators (`AddEntry`, `DeliverNew`,
`ClaimStale`, `Xack`), external as far as their meaning is not in `src/`, and
every action of a producer, a read loop or a task is one command with the code
up to the next one. A command that ends in an error may have been carried out
(its reply was lost) or not, and a failing pipeline in part; a client that goes
away drops `enqueue` after any of its awaits (`XaddFails` without `Cleanup`). A
read that the shutdown abandons may still deliver.

`want` is a snapshot taken before a read that may block for a minute.
`DeliverNew` delivers the first undelivered entries in id order, `ClaimStale`
the first stale ones, and forgets pending entries that have left the stream.
MAXLEN `~` trims the oldest entries at Redis' discretion, pending ones included,
but never below `MaxLen`.

`write_conn` is opened by `Start` and by nothing else. A failing command breaks
it or not; a broken one fails every later command of that worker. This is the
single-node connection; a cluster connection reconnects by itself, and is the
case in which `writeConn` stays TRUE.

Left out: payloads and results beyond being there, metrics and their sampler,
`group_start` other than its default `0` (with `$` a group created anew skips
what is in the stream, as configured), `delete_on_ack` other than its default,
consumer names (nothing reads a name, so two workers of one name differ in
nothing), the error path of serialising a result, which cannot fail. A poll
(`QueueClient::get`) only reads `key`.

### Runs

| run | instance | shows |
|---|---|---|
| `queue` | a client's job and a malformed one, 2 workers of one slot, MAXLEN 1, 2 disruptions | `TypeOK`, `NothingLost`, `AcceptedResolves`, `DisjointSlices`, `ResultsStay` |
| `queue_liveness` | 1 job, 1 worker of two slots, 1 retry, 2 disruptions, fair | `WantIsFree`, `Answered` |
| `queue_dead_connection` | 1 job, 1 worker, 1 disruption, fair | violates `FailedWriteRetried` |
| `queue_lost_result` | 1 job, 2 workers, 1 disruption | violates `FinalResultKept` |

`MaxDisruptions` bounds failed commands, crashes, shutdowns, panics and lost
groups together; expiry and staleness are not bounded. Two disruptions are what
it takes to lose a reply and then the process that got it, or to crash both
workers; two workers are the owner of an entry and the one that reclaims it; two
jobs and MAXLEN 1 make an XADD trim an entry that is pending. A job is enqueued
once, so the state space is finite without further bounds. Workers are
symmetric in `queue`, which has no liveness property.

Fairness: read loops and tasks are polled, a capture ends by its total deadline,
a process that has ended is started again (`Start` is part of the read loop's
fairness: the deployment's supervisor), and idle time passes. Enqueues, expiry
and disruptions are not fair. `Answered` asks besides that no `write_conn` stays
broken for ever; the finding is what happens without that condition.

### Findings

* `FailedWriteRetried`: a failed result write leaves the entry pending "so a
  later reclaim retries it", but if `write_conn` itself has broken, every later
  write and ack of this worker fails while it goes on claiming jobs, until the
  process ends. Only `read_conn` is ever opened again.
* `FinalResultKept`: the running marker of a redelivered entry may land after
  the result *and the ack* of the first worker; if its writer then dies, no
  entry is left that would make anybody write the result again. The comment says
  pollers "never lose the final result". `ResultsStay` is what does hold: only a
  second run of the job unseats a result.

Also seen, with no run of its own: entries are reclaimed only after a read that
came back empty, so under constant load a crashed worker's entries wait longer
than the "~1 window" of the README, for as long as the load lasts.

### Theorems (`JobQueueProofs`)

From `JobQueueAssumption` and `JobQueueNames`, for all finite sets of jobs, any
workers, capacity, retries, MAXLEN and number of disruptions: `QueueTypeOK`,
`QueueNothingLost`, `QueueDisjointSlices`, `QueueAcceptedResolves`,
`QueueWantIsFree` and the action property `QueueResultsStay`.

`QueueInv` strengthens the properties by what relates Redis to the tasks.
`Entries`: entry ids are bounded by the number of XADDs, so a new entry is fresh
for every cursor, and an entry outside the stream has a result, was trimmed or
is malformed. `Tasks`: a task acks only a job whose result is there, which is
why an ack, even of an entry that another worker owns by now, loses nothing.
`FirstRuns`: a job that Redis has handed out at most once is not both undelivered
and in a task, and its freshly spawned task has no result behind it; this makes
`DisjointSlices` inductive and gives `ResultsStay`. `KeysKnown` ties the key to
the history. `SpawnKeeps` is the crux: what the read loop spawns either leaves
the undelivered entries in that very step or is redelivered.

## 6. One capture: `Collect`, `Capture`, `MCCapture`, `CaptureProofs`, `CollectProofs`

### State and actions

| model | `browser/mod.rs`, `capture.rs` |
|---|---|
| `opts` | `CollectCaptures`, `wait_until_load`, the patterns of `wait_for_request`, the number of later waits; and which requests the page makes |
| `streams` | the queues of the event listeners; a stream that is not registered (`stream::pending()`) stays empty |
| `pending`, `load_at`, `idle_at`, `last_event_at`, `stop_at`, `deadline` | the locals the exit policy reads |
| `resources`, `sent_at`, `quick_aborts`, `failures`, `document`, `final_url`, `redirects` | what the loop collects |
| `wire`, `emitted` | the page: how far each request has got, how many further events it has sent |
| `heard`, `satisfied` | history: per request the events handled, in order; responses that took a pattern |
| `pc` | the await the capture stands at: `context`, `page`, `apply`, `goto`, `select` (in the loop), `finalize`, `waits`, `read`, and how it ended |
| `context`, `teardown` | the browser context, and the detached task that closes page and context |
| `stat` | how many resources the capture counts, lists, and how many each reader of the list (CORS, image sizing, HAR) has seen |

`select!` takes the head of any stream that has one, so a handler is one action:
the branch of `select!` up to the next turn of the loop, whose top (`LoopTop`) is
part of it. Streams keep their own order and none between them: a response may
be handled before its request. The lean loop is the same actions with `opts.lean`:
two streams, no list. The page sends what it likes within the protocol's order
of one request; `Backlog` bounds the events that are queued and `opts.reports` the
lifecycle and console events. Time is discrete and passes at any moment, in or
out of the loop.

A failing CDP command is `CommandFails` in every stage that sends one; the total
deadline (`CutOff`) drops the future wherever it is. The stages behind the loop
(cookies, screenshot, coverage, the reads of the format stage) are one step each:
they run in no other task's sight. `FreeResources` combines the four flags of
`mod.rs:6199`; the stages that read the list later (`Derived`) each ask for their
own flag, as `mod.rs:6471-6509` does, so a flag forgotten in one place is a
stage that sees nothing.

### Runs

| run | instance | shows |
|---|---|---|
| `capture` | a document, an API call and a blob URL; statuses 200, 302, 404; timeout 2, quiet grace 1, tail 2, buffer 1; backlog 2; six requests (the list with initiators and errors; HAR, networkIdle and the patterns p, q, q; image sizing with the blob; security scan; none of these; lean) | `TypeOK`, `PatternsAccounted`, `ReportFollowsEvents`, `ListKept`, `ExitIsEarned`, `TailBounded`, `CaptureEnds` |
| `capture_context` | the same | violates `ContextTornDown` |

The six requests switch every option on and off at least once, and each flag that
keeps the list is the only one in some request; a tail longer than the
quiet grace and a timeout no longer than the tail let each of the three bounds
of the exit policy be the one that ends the loop. A backlog of two is what
reorders two streams. Patterns that overlap and repeat are what
`PatternsAccounted` is about.

`ReportFollowsEvents` says exactly what the list and the failures are, given the
events of each request in the order the loop handled them (`heard`). Presence,
status and initiator do not depend on that order. Three things do, and the
property says how: a size is kept only by an entry that was there already
(`mod.rs:5387`), an abort is quick by the last send handled before it
(`mod.rs:5475`), and a failure has a URL when an entry was there. It is about
real URLs; what the code does with pseudo ones is below. `ListKept` says that
freeing the list early starves no reader and no caller.

Fairness: time passes, the timer of the total deadline fires, and the detached
teardown is polled (its commands are answered or fail, at the latest when the
browser is replaced). Nothing is owed by the page and no CDP command need ever
be answered, so `CaptureEnds` rests on the deadline alone.

Finding: `ContextTornDown`. The comment on the context says that it is torn down
at the end of `capture`; only the last lines of the function do it, so an early
return or the deadline leaves the context open.

Also seen, with no run of their own:

* with `initiators` off, a request that fails unanswered has no entry, so its
  failure is listed with an empty URL, and a quick abort is not recognised;
  the filter for pseudo URLs at `mod.rs:5461` looks at recorded entries, which
  hold none, so the failure of a `blob:` URL is listed too, without URL, against
  the comment at `mod.rs:5453-5455`;
* `loadingFinished` handled before request and response loses the size;
* `mod.rs:5309-5313` says 3xx documents are skipped for `document_timing`, but
  the test is `status < 400`; and a document of a frame overwrites URL, timing
  and security headers of the page; a content-only capture of a page that
  answers 4xx reports status 0;
* each wait starts the whole timeout anew (`mod.rs:6211-6216`), so the total
  deadline can pass although no wait timed out;
* the page slot is given back before the detached teardown has closed the page
  (`mod.rs:6532`), so more pages may be open than there are slots.

### Theorems (`CaptureProofs`, `CollectProofs`)

All for any page, patterns, options and timeouts, from `IdsAssumption`,
`TimeAssumption` and `OptionsAssumption` (the options have the types of the fields
they stand for; no request is called `none`).

`CaptureProofs`: `ExitHolds` (`ExitIsEarned`), `TailHolds` (`TailBounded`) and `ListHolds`
(`ListKept`). The first two rest on `Armed`: while the loop waits, `stop_at` is
what the policy says of the state as it is, and it was ahead when it was set.
`LoopTopArms` shows that the top of the loop restores it, `HandlersReachTop`
that every handler ends there. `ListHolds` needs that the number of resources
handed on is the one counted as long as the list is finite (`ListStaysFinite`,
`HandedKept`), and then goes through the four flags one by one.

`CollectProofs`, three invariants, each resting on the one before:

* `Typed` (`Queues`, `Clocks`, `Lists`, `Cleanup`) gives `CaptureTypeOK`. `TypeOK` says
  of the streams only that those nobody listens to are empty; the handlers read
  the events' fields, so the induction needs what each stream may carry (`Signal`),
  and that in turn what the page may send (`PageEmits`).
* `Reported` gives `ReportHolds` (`ReportFollowsEvents`). `Recorder(id)` keeps the entry
  of a request in step with what was heard of it, whatever came first: `sent_at`,
  which the quick-abort test reads, is set only once the request was heard.
  `FailsOnce` is why each failure is counted once although its stream is not
  ordered with the others: a failure is on its way in its stream *or* has been
  heard, never both, and the page fails a request only once.
* `Accounted` gives `PatternsHold` (`PatternsAccounted`). A response takes the first
  pending pattern it contains with `swap_remove`, so the order of the others
  changes: `SwapRemoveCounts` shows that every pattern but the taken one is
  pending as often as before, by a bijection of positions, and `FirstPositionIs`
  that there is a first one (the least element of a set of positions).

## 7. The process: `RateLimiter`, `Service`, `MCService`, `ServiceProofs`

### State and actions

| model | code |
|---|---|
| `tokens`, `last`, `clock` | `Bucket` and `Instant::now()`; `grants` is history |
| `phase`, `reply` | a client's request, and the status it was answered with |
| `stage`, `results` | per URL of a request: `waiting`, `resolving` (DNS), `queued` (for a page), `capturing`, `done`; the slots of `run_batch` |
| `in_flight` | the gauge that `InFlightGuard` keeps |
| `shutdown`, `server` | the watch flag; `serve_http` from accepting to the exit of `run_all` |
| `worker`, `worker_jobs`, `redis` | the worker's loop as far as the process sees it |

A handler runs without an await up to its capture, so arrival, authentication,
limiter and checks are one step with one outcome: `Refuse`, `TooMany`, `Reject`,
`Poll`, `Submit`, `Begin`, `CallTool` or `Open`. For REST the extractors refuse before
authentication, for MCP the middleware comes first; neither costs a token. An
item of a batch starts when a slot of `buffer_unordered` is free and ends at any
time. A client that leaves drops its handler with every item of it; a tool call
goes on in its session, which belongs to rmcp.

The route `stream` is the event stream a client may open on `/mcp` for what the
server sends on its own. It passes the middleware but no limiter (`Open`), has no
capture, and ends only with its client (`Disconnect`): nothing in `src/` tells it
of the signal. It stands for every connection the graceful close waits for
beyond the requests themselves; a keep-alive connection without a request in
flight is closed by the server library and holds nothing.

The limiter counts in units of which one tick refills `Rps`, so that the
arithmetic of the `f64` bucket is exact.

### Run

| run | instance | shows |
|---|---|---|
| `service` | 10 requests in 5 scenarios (a batch with a job, a tool call with a single capture, a batch of bad URLs with an empty one, refusals with a poll, an event stream with a single capture), 2 pages, 1 worker slot, 1 outage of Redis, 1 token that takes 2 ticks, 2 ticks | `TypeOK`, `LimiterExact`, `BatchComplete`, `GaugeBalanced`, `ShutdownEnds` |

A batch of three on two pages, with a job and the worker competing, is what
leaves an item waiting behind the batch's own concurrency and behind others'
pages. Two ticks with a token every two ticks give a grant, a refusal, a partial
refill and a full one.

Fairness: items that run end (their capture by its deadline, their wait for a
page by `BROWSER_HEADLESS_CHECKOUT_WAIT_MS`), the drains have deadlines, and the
steps of server and worker are taken. Nothing is owed by clients, signals or
Redis, which may stay away for good.

`ShutdownEnds` therefore does not say that a signal ends the process, which is
false of the code. It says that exactly two things keep it, and that otherwise it
exits with no accepted request cut off. `Held`: the graceful close has no deadline
(`main.rs:260-263`), so a stream that its client never closes keeps the server
closing, and the drain of local jobs behind it does not start. `Stranded`: in the
backoff, in `connect()` and in `ensure_group` the worker does not look at the flag
(`worker.rs:362-368`), so one that has lost Redis when the signal comes does not
drain until Redis is back, and `run_all` waits for it. Both are behaviours of the
run.

Also seen: a job that was accepted and has not counted itself in is cut by the
exit (see section 4); `rate_limit_rps` truncates a `u64` to `u32`.

### Theorems (`ServiceProofs`)

For every set of requests, any URLs, pages, worker slots, rates, bursts and
units, from `LimiterAssumption` and `ServiceAssumption`; the latter says of the
routes that a request of `/summary`, of `/jobs` or of a tool has exactly one URL
and a stream none.

`LimiterHolds`: `Spec => []LimiterExact`. `BucketInv` states the same at the last
visit instead of now, and for the unrefilled tokens; `LeftShifts` moves it to now,
and `ServiceTouchesBucket` shows that the service changes the bucket by `Acquire`
and `Denied` alone.

`ServiceTypeOK`, `ServiceGauge` (`GaugeBalanced`) and `ServiceBatchComplete`
(`BatchComplete`) follow from `ServiceInvariant`. None of them is inductive alone:

* `Counted` joins the gauge with the pages, and both with the fact that only
  finitely many captures are under way: `Requests` need not be finite. A step
  moves one item (`MovedCount`) or all of one request (`CapturesStay`,
  `DisconnectKeeps`), and a client that leaves takes out exactly the items that
  had counted themselves in.
* `Honest(r, k)` says of an item under way which checks it has passed, because the
  status it will end with depends on them: an item that holds a page has a URL
  that is neither blocked nor unresolved, unless private addresses are allowed.
* `Ordered(r)`: no item before its request, and a batch answers with 200 only when
  all of its items are done, whose slots are then filled. `Reject` and `TooMany`
  answer a batch too, but not with 200.

The proof found `BatchComplete` wrong as first stated. `Expected` promised 400 for
a name that does not resolve and 403 for a blocked one in every configuration;
with `BROWSER_HEADLESS_ALLOW_PRIVATE_IPS` the guard is skipped (`capture.rs:526`) and
such a URL ends as its capture does. TLC had not seen it, since the run has the
guard on; the case with the guard off is covered by the theorem alone.

## 8. The report: `Rollups`, `Vitals`, `ResourceSummary`, `Audits`, `Report`, `MCReport`, `RollupProofs`, `ReportProofs`

`Vitals` holds the observers that a capture installs in the page, one action per
callback, and the roll-ups of their accumulators. `ResourceSummary` and `Audits`
are operators: the pass over the resources with the lists it derives, coverage,
image audit, timings, cookie and CSP checks, profiles, clamps and flags, and the
queries of the MCP tools. What the code tests of its strings is data: a MIME type
is the set of markers looked for in it, a URL has a host, a base name and the
length of its longest hexadecimal run. Ratios are fractions, and times of a
request are microseconds: `build_document_timing` cuts each phase down to whole
milliseconds (`WholeMs`), where the HAR keeps its fraction; rounding in `f64` and
the bound of `u32` are left out. A group of entries is a set of indexes, so that
nothing depends on the order of a hash map; a sort by a total order is `InOrder`
(the k-th entry has k - 1 others before it), a stable sort of a list orders its
indexes (`Listed`), and a sort of what a hash map held is one of the orders that
respect it (`Ranked`). `Report` feeds them one input after the other, and since
the report may be taken at any length, its parts are compared in every state. The
inputs of different kinds do not meet, so a behaviour has one kind.

| run | instance | shows |
|---|---|---|
| `report` | up to 4 of 9 resources, up to 4 of 21 observer entries, up to 3 nested ranges over 4 offsets, 2 of 54 images, 2 cookies, 3 CSP directives, one timing, one query; caps and lists of 2 or 3 | `ReportAgrees`, `CoverageIsInnermost`, `VitalsAgree` |

Four resources are what fills a list of two or three, repeats a URL, makes a
chain, and one more than `MaxHops + 1` hops. Three ranges nest, touch and coincide.
The input ends, so deadlock is not checked. There is no liveness here.

`CoverageIsInnermost` compares the sweep with its reference definition: a byte is
used when the innermost range around it was run. `ReportAgrees` and `VitalsAgree`
compare figures that the code computes apart: headings that partition one list,
lists that share out a total, the audit and the ratio of one image, document
timing and HAR (the one is the other without fractions), a CSP finding and the
directives that give reason for it (in both directions). Its part `QueriesAgree`
compares what a query asks for with the capture it becomes: profile, flags and
ceilings are combined in three places, and a tool unpacks the result of a query it
wrote itself.

### Theorems (`RollupProofs`, `ReportProofs`)

`ReportAgrees`, `CoverageIsInnermost` and `VitalsAgree` are proved for every input
and every value of the caps, from these assumptions, which TLC evaluates on the
run: `CeilingsAssumption`, `CapsAssumption`, `ListsAssumption`, `NamesAssumption`
and `FramesAssumption` (caps, among them `TopMutated` of the mutation tables, and
timestamps are natural numbers; a list of largest resources has room for one),
`RankAssumption` and the rest of `NamesAssumption` (names compare as different
when they are), and what each kind of input is when it arrives:
`EntriesAssumption` (observers), `ResourcesAssumption`, `ImagesAssumption`,
`RangesAssumption` (offsets into a script are natural numbers), `JarAssumption`,
`TimingsAssumption` and `QueriesAssumption`.

`RollupProofs` has what the library lacks for this: sums over finite sets
(`SumAdd`, `SumDisjoint`, `SumRenamed`, `SumGroups`: summing row by row is summing
group by group), what `Plus` adds to a table, that a total preorder has a ranking and
a strict order is the one `InOrder` gives (`OrderIs`), and that the first entries of a
ranking weigh at most what all of them weigh, and all of it when nothing is cut off
(`SumRanked`). Inductions over sets and over lengths are stated over a set `P`
instead of a predicate (`SetInduction`, `UpToInduction`), which the provers can
instantiate; what a recursive function of the model computes (`Summary`, `Walk`) follows
by induction over its domain. Its last part follows a sweep over points to its end;
what it needs of the code is the order of the points alone.

* `VitalsHold`: `Spec => []VitalsAgree`. The inductive invariant is `Bounded` (the lists
  keep to their caps, and long tasks are left out only once their list is full:
  `ListsStayCapped`), `Accounted` (the scalars cover the entries that were kept),
  `MutationsCounted` (tables and scalars count the same records) and `FrameInv`.
  `FramesAgree` bounds the window by a product, so its step needs the signs of the
  counters and that all are zero before the first frame (`Counting`, `FramesHold`).
  The roll-ups follow from the sums: `GroupSums`, `SharesAddUp`, `TopsBlock`.
* `ReportIsConsistent`: `Spec => []ReportAgrees`, from `Given` (inputs are only
  appended, and are those that were to be considered) and the facts about one list:
  * `EverySummaryAgrees`: the loop over the resources counts under every heading what
    a set of indexes weighs; `SummaryCounts` is the invariant over the prefixes of the
    list (`TypesCounted`, `PaidCounted`, `HostsCounted`, `LargestFound`), one lemma for
    the turn of each part. From it follow `HeadingsHold`, `CompressionHolds`,
    `ThirdPartiesHold`, `FindingsHold` and `RepeatsHold`. `ChainsHold` is an invariant
    of its own (`Walked`): the walk has seen only URLs in every closed set around its
    start, one per hop, and when it stops early what it saw is closed.
  * `EveryGalleryAgrees`: images are compared by fractions; `FractionsChain` is the
    transitivity that makes the sort an order.
  * `EveryJarAgrees`, `EveryPolicyAgrees` (a source or a missing directive is a finding
    if and only if the directives say so), `EveryTimingAgrees` (for every request
    Chrome has measured; `WholeMsIs` is the truncation).
* `CoverageHolds`: `Spec => []CoverageIsInnermost`, for any list of nested ranges,
  those that coincide, touch or are empty included; `AlwaysNested` is the
  invariant that a range only arrives when it nests with those that came,
  `EveryScriptCovered` the fact about one list. A fold takes the points first to
  last (`FoldRuns`), so the sweep has states. After each of them the stack holds
  one range per open one, outermost first, and every open range that ends later is
  on it (`OnStack`). A closing point pops what is on top, which may stand for
  another range than its own (two that coincide), but once every closing of an
  offset is done the stack has exactly what is still open (`StackSettles`). Its
  top is then the innermost range around the bytes up to the next point
  (`TopIsInnermost`), so the bytes used so far are those whose innermost range was
  run (`SweepSteps`, `SweepEnds`). `PointsSwept` shows that the sorted points of
  nested ranges make such a sweep: closings before openings at one offset, longer
  ranges opened first.
* `QueriesHold`: `Spec => []QueriesAgree`, for any ceilings, set of flags and queries.
  `EveryQueryResolved` and `EveryToolServed` are the facts about one query; `ResolvedIs`
  says what `apply_profile` and `apply_clamps` leave of each field, and `ResolvedTwice`
  that resolving a query again changes nothing.

Also seen, with no run of their own:

* `wasted_bytes` counts a copy twice when its URL repeats and another URL has its
  name and size: two URLs of one base name, each loaded with sizes 2 and 1,
  give 5 wasted bytes out of 6, of which 4 can be recovered, while
  `mod.rs:4117-4120` calls it conservative;
* `max_initiator_chain_depth` is documented as 0 when the parser initiated every
  resource (`mod.rs:3940-3947`), but such an initiator carries the document's
  URL, so a flat page reports 1; and the cap of 100 hops (`mod.rs:1901`) lets a
  depth of 101 through. `ChainsMeasured` states what the code does, one over the
  cap and counted from the document;
* ranges that overlap without nesting would be over-counted, where
  `mod.rs:6764-6765` prefers to under-count; V8's ranges nest;
* the element of the largest paint may be older than its time, when the last
  candidate's element is gone; ties in rankings made from hash maps come in any
  order, but for the mutation tables, whose ties go by name; a blank CSP header
  counts as present (`security.rs:186`) and has no findings; an empty
  `Content-Encoding` counts as compressed and as `none` in the breakdown.

## 9. Only model-checked

Liveness (`ComesBack`, `CheckoutReturns`, `RecycledAtThreshold`, `CrashRepaired`,
`JobsTerminate`, `DrainEnds`, `Answered`, `CaptureEnds`, `ShutdownEnds`) is checked
by TLC alone: proofs of fairness-based properties are outside what the installed
provers do. Every safety and action property of the pool, the job store, the job
queue, the capture, the service and the report that a passing run checks is a
theorem. `LimiterExact` and the report are checked on bounded inputs and proved for all.

## 10. Not modelled

* the producer's cached connection and its invalidation (`queue.rs`): in
  `JobQueue` every command may fail on its own;
* the gauge that `launch` overwrites (`pool.rs:230`), all other metrics, logs;
* the interception task (`apply_request_interception`), the flags chromium is
  launched with, the JavaScript injected for single reads (metadata, fonts,
  render-blocking, images, security scan), HSTS and header checklists, CORS
  issues;
* the address classes of the SSRF guard: the verdict is an input of `Service`;
* markdown and all other text, CDP itself, TLS and HTTP parsing, rmcp, axum.
