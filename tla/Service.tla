------------------------------- MODULE Service -------------------------------
(***************************************************************************)
(* The serving process in mode `all` (src/src/main.rs, http.rs, mcp.rs,    *)
(* capture.rs): requests come in over REST and MCP, pass authentication    *)
(* and the rate limiter, and become captures that share the pages of one   *)
(* pool with each other, with detached local jobs and with the queue       *)
(* worker; clients leave when they like; a signal shuts everything down.   *)
(*                                                                         *)
(* The pool is what LeasePool promises of it, the local store what         *)
(* JobStore does, the worker what JobQueue does: here only what they hold  *)
(* of the process counts.  A handler runs without an await up to the       *)
(* capture, so what it does before is one step.                            *)
(***************************************************************************)
EXTENDS RateLimiter, FiniteSets

CONSTANTS
  Requests,       \* the requests clients may send
  Scenarios,      \* the sets of requests to consider together
  Shape,          \* Shape[r]: route, parsed, authentic, urls, script
  Outcomes,       \* the statuses a capture that got its page may end with
  Pages,          \* pool.capacity()
  WorkerSlots,    \* worker concurrency
  MaxBatch,       \* BROWSER_HEADLESS_MAX_BATCH_URLS
  AllowPrivate,   \* BROWSER_HEADLESS_ALLOW_PRIVATE_IPS
  DisableScript,  \* BROWSER_HEADLESS_DISABLE_SCRIPT
  MaxTime,        \* bound: ticks of the clock
  MaxOutages      \* bound: times Redis goes away

(* "mcp" is a tool call, "stream" the event stream a client opens for what  *)
(* the server sends on its own (GET /mcp).                                 *)
Routes == {"summary", "batch", "jobs", "poll", "mcp", "stream"}
UrlKinds == {"good", "empty", "malformed", "unresolved", "blocked"}

ASSUME ServiceAssumption ==
  /\ \A r \in Requests : /\ Shape[r].route \in Routes
                         /\ Shape[r].urls \in Seq(UrlKinds)
                         /\ Shape[r].route \in {"summary", "jobs", "mcp"} =>
                              Len(Shape[r].urls) = 1
                         /\ Shape[r].route = "stream" => Shape[r].urls = << >>
                         /\ {Shape[r].parsed, Shape[r].authentic,
                             Shape[r].script} \subseteq BOOLEAN
  /\ Scenarios \subseteq SUBSET Requests
  /\ {Pages, MaxBatch} \subseteq Nat \ {0}
  /\ {MaxTime, MaxOutages, WorkerSlots} \subseteq Nat

VARIABLES
  phase,       \* per request: unsent, running, answered or gone (client left)
  reply,       \* per request: the status it was answered with
  stage,       \* per request and URL: where its capture stands
  results,     \* per request: BatchItems, by index
  in_flight,   \* the gauge browser_headless_requests_in_flight
  shutdown,    \* the watch flag
  server,      \* up, closing (no longer accepting), draining, stopped, exited
  worker,      \* polling, lost (reconnecting), draining, done
  worker_jobs, \* captures of the worker
  redis, outages

requestVars == <<phase, reply, stage, results, in_flight>>
workerVars == <<worker, worker_jobs, redis, outages>>
vars == <<limiterVars, requestVars, shutdown, server, workerVars>>

Urls(r) == Shape[r].urls
Index(r) == 1 .. Len(Urls(r))
Alive == server # "exited"

Live == {"resolving", "queued", "capturing"}
Items == UNION {{<<r, k>> : k \in Index(r)} : r \in Requests}
At(stages) == {i \in Items : stage[i[1]][i[2]] \in stages}
LiveOf(r) == {k \in Index(r) : stage[r][k] \in Live}

Init ==
  /\ LimiterInit
  /\ \E scenario \in Scenarios :
       phase = [r \in Requests |-> IF r \in scenario THEN "unsent" ELSE "gone"]
  /\ reply = [r \in Requests |-> 0]
  /\ stage = [r \in Requests |-> [k \in Index(r) |-> "none"]]
  /\ results = [r \in Requests |-> << >>]
  /\ in_flight = 0
  /\ shutdown = FALSE /\ server = "up"
  /\ worker = "polling" /\ worker_jobs = 0
  /\ redis = "up" /\ outages = 0

-----------------------------------------------------------------------------
(* A request arrives.                                                      *)

(* Extraction and authentication: for REST the extractors run first, for   *)
(* MCP the middleware does.  Neither costs a token.                        *)
Refusal(r) ==
  LET s == Shape[r]
  IN  IF s.route \in {"mcp", "stream"}
        THEN IF ~s.authentic THEN 401 ELSE IF ~s.parsed THEN 400 ELSE 0
        ELSE IF ~s.parsed THEN 400 ELSE IF ~s.authentic THEN 401 ELSE 0

(* What a handler refuses after the rate limiter, before any capture. *)
Unacceptable(r) ==
  \/ Shape[r].route = "batch" /\ Len(Urls(r)) \notin 1 .. MaxBatch
  \/ Shape[r].route \in {"summary", "jobs"} /\ Urls(r)[1] = "empty"

Arrives(r) == server = "up" /\ phase[r] = "unsent"

Answer(r, status) ==
  /\ phase' = [phase EXCEPT ![r] = "answered"]
  /\ reply' = [reply EXCEPT ![r] = status]

NoCapture == UNCHANGED <<stage, results, in_flight>>

Refuse(r) ==
  /\ Arrives(r) /\ Refusal(r) # 0
  /\ Answer(r, Refusal(r))
  /\ NoCapture /\ UNCHANGED limiterVars

TooMany(r) ==
  /\ Arrives(r) /\ Refusal(r) = 0 /\ Shape[r].route # "stream"
  /\ Denied
  /\ Answer(r, 429)
  /\ NoCapture

Granted(r) == Arrives(r) /\ Refusal(r) = 0 /\ Acquire

Reject(r) ==
  /\ Unacceptable(r)
  /\ Granted(r)
  /\ Answer(r, 400)
  /\ NoCapture

Poll(r) ==
  /\ Shape[r].route = "poll"
  /\ Granted(r)
  /\ \E status \in {200, 404} : Answer(r, status)
  /\ NoCapture

(* The local store takes the job and spawns its task, or is full. *)
Submit(r) ==
  /\ Shape[r].route = "jobs" /\ ~Unacceptable(r)
  /\ Granted(r)
  /\ \/ /\ stage' = [stage EXCEPT ![r] = [k \in Index(r) |-> "waiting"]]
        /\ Answer(r, 200)
     \/ Answer(r, 503) /\ UNCHANGED stage
  /\ UNCHANGED <<results, in_flight>>

Started(r) ==
  /\ phase' = [phase EXCEPT ![r] = "running"]
  /\ stage' = [stage EXCEPT ![r] = [k \in Index(r) |-> "waiting"]]
  /\ UNCHANGED <<reply, results, in_flight>>

Begin(r) ==
  /\ Shape[r].route \in {"summary", "batch"} /\ ~Unacceptable(r)
  /\ Granted(r)
  /\ Started(r)

(* A tool asks the limiter itself; what it is refused, there or by its     *)
(* capture, is a status inside the tool's result.                          *)
CallTool(r) ==
  /\ Shape[r].route = "mcp"
  /\ Granted(r)
  /\ Started(r)

(* The transport opens a stream without asking the limiter.                *)
Open(r) ==
  /\ Shape[r].route = "stream"
  /\ Arrives(r) /\ Refusal(r) = 0
  /\ Started(r)
  /\ UNCHANGED limiterVars

Arrival == \E r \in Requests : \/ Refuse(r) \/ TooMany(r) \/ Reject(r) \/ Poll(r)
                               \/ Submit(r) \/ Begin(r) \/ CallTool(r) \/ Open(r)

-----------------------------------------------------------------------------
(* One capture (capture_one), an item of its request.                      *)

Move(r, k, to) == stage' = [stage EXCEPT ![r][k] = to]

MutConclude(r, k, status) ==    \* mutant: pushes in the order of completion
  /\ Move(r, k, "done")
  /\ results' = [results EXCEPT ![r] =
                   Append(@, [url |-> Urls(r)[k], status |-> status])]

(* slots[idx] = Some(item) *)
Conclude(r, k, status) ==
  /\ Move(r, k, "done")
  /\ results' = [results EXCEPT ![r] =
                   [i \in DOMAIN @ \cup {k} |->
                      IF i = k THEN [url |-> Urls(r)[k], status |-> status] ELSE @[i]]]

End(r, k, status) ==    \* InFlightGuard is dropped with the future
  /\ Conclude(r, k, status)
  /\ in_flight' = in_flight - 1

(* What is refused before the first await. *)
Screened(r, k) ==
  IF DisableScript /\ Shape[r].script THEN 403
  ELSE IF Urls(r)[k] \in {"empty", "malformed"} THEN 400
  ELSE 0

(* buffer_unordered starts the items in their order. *)
Concurrency(r) == IF Pages < Len(Urls(r)) THEN Pages ELSE Len(Urls(r))

MayStart(r, k) ==
  /\ stage[r][k] = "waiting"
  /\ \A j \in 1 .. k - 1 : stage[r][j] # "waiting"
  /\ Cardinality(LiveOf(r)) < Concurrency(r)

StartItem(r, k) ==
  /\ MayStart(r, k)
  /\ IF Screened(r, k) # 0
       THEN Conclude(r, k, Screened(r, k)) /\ UNCHANGED in_flight
       ELSE /\ Move(r, k, IF AllowPrivate THEN "queued" ELSE "resolving")
            /\ in_flight' = in_flight + 1
            /\ UNCHANGED results

(* check_ssrf, after the name has been resolved *)
Resolve(r, k) ==
  /\ stage[r][k] = "resolving"
  /\ CASE Urls(r)[k] = "blocked"    -> End(r, k, 403)
       [] Urls(r)[k] = "unresolved" -> End(r, k, 400)
       [] OTHER -> Move(r, k, "queued") /\ UNCHANGED <<results, in_flight>>

Taken == Cardinality(At({"capturing"})) + worker_jobs

MutCheckOut(r, k) ==    \* mutant: the worker's captures are not counted
  /\ stage[r][k] = "queued" /\ Cardinality(At({"capturing"})) < Pages
  /\ Move(r, k, "capturing")
  /\ UNCHANGED <<results, in_flight>>

CheckOut(r, k) ==
  /\ stage[r][k] = "queued" /\ Taken < Pages
  /\ Move(r, k, "capturing")
  /\ UNCHANGED <<results, in_flight>>

(* No page in time, or no instance in service. *)
Shed(r, k) == stage[r][k] = "queued" /\ End(r, k, 503)

EndCapture(r, k) ==
  /\ stage[r][k] = "capturing"
  /\ \E status \in Outcomes : End(r, k, status)

ItemStep == \E r \in Requests : \E k \in Index(r) :
              /\ \/ StartItem(r, k) \/ Resolve(r, k) \/ CheckOut(r, k)
                 \/ Shed(r, k) \/ EndCapture(r, k)
              /\ UNCHANGED <<phase, reply>>

(* A batch is answered with 200 and its items, anything else with the      *)
(* status of its one capture.  The service never ends a stream: nothing    *)
(* tells it of the signal.                                                 *)
Respond(r) ==
  /\ phase[r] = "running" /\ Shape[r].route # "stream"
  /\ \A k \in Index(r) : stage[r][k] = "done"
  /\ Answer(r, IF Shape[r].route = "batch" THEN 200 ELSE results[r][1].status)
  /\ NoCapture

MutDisconnect(r) ==    \* mutant: the gauge is decremented at the end only
  /\ phase[r] = "running"
  /\ phase' = [phase EXCEPT ![r] = "gone"]
  /\ stage' = [stage EXCEPT ![r] = [k \in Index(r) |-> "dropped"]]
  /\ UNCHANGED <<reply, results, in_flight>>

(* The client leaves, or closes its stream: the handler's future is        *)
(* dropped, with every item of it; a tool call goes on in its MCP session. *)
Disconnect(r) ==
  /\ phase[r] = "running"
  /\ phase' = [phase EXCEPT ![r] = "gone"]
  /\ IF Shape[r].route = "mcp"
       THEN UNCHANGED <<stage, in_flight>>
       ELSE /\ stage' = [stage EXCEPT ![r] = [k \in Index(r) |-> "dropped"]]
            /\ in_flight' = in_flight - Cardinality(LiveOf(r))
  /\ UNCHANGED <<reply, results>>

-----------------------------------------------------------------------------
(* The queue worker, as far as it shares the process.                      *)

WorkerTakes ==
  /\ worker = "polling" /\ redis = "up"
  /\ worker_jobs < WorkerSlots /\ Taken < Pages
  /\ worker_jobs' = worker_jobs + 1 /\ in_flight' = in_flight + 1
  /\ UNCHANGED <<worker, redis, outages>>

WorkerEnds ==
  /\ worker_jobs > 0
  /\ worker_jobs' = worker_jobs - 1 /\ in_flight' = in_flight - 1
  /\ UNCHANGED <<worker, redis, outages>>

(* The read fails; the backoff and connect() do not look at the flag. *)
LoseRedis ==
  /\ worker = "polling" /\ redis = "down" /\ worker' = "lost"
  /\ UNCHANGED <<worker_jobs, redis, outages, in_flight>>
Reconnect ==
  /\ worker = "lost" /\ redis = "up" /\ worker' = "polling"
  /\ UNCHANGED <<worker_jobs, redis, outages, in_flight>>

(* Both selects of the loop look at the flag first. *)
StopPolling ==
  /\ worker = "polling" /\ shutdown /\ worker' = "draining"
  /\ UNCHANGED <<worker_jobs, redis, outages, in_flight>>

(* All permits are back, or drain_ms has passed. *)
WorkerDrained ==
  /\ worker = "draining" /\ worker' = "done"
  /\ UNCHANGED <<worker_jobs, redis, outages, in_flight>>

RedisGoes ==
  /\ redis = "up" /\ outages < MaxOutages
  /\ redis' = "down" /\ outages' = outages + 1
  /\ UNCHANGED <<worker, worker_jobs, in_flight>>
RedisReturns ==
  /\ redis = "down" /\ redis' = "up"
  /\ UNCHANGED <<worker, worker_jobs, outages, in_flight>>

WorkerStep == \/ WorkerTakes \/ WorkerEnds \/ LoseRedis \/ RedisGoes

-----------------------------------------------------------------------------
(* Shutdown.                                                               *)

Signal == ~shutdown /\ shutdown' = TRUE /\ UNCHANGED server

Stops(from, to) == server = from /\ server' = to /\ UNCHANGED shutdown

(* axum no longer accepts; it returns when no request is left and no       *)
(* stream is open, however long that takes.                                *)
ServeCloses == shutdown /\ Stops("up", "closing")
MutServeReturns == Stops("closing", "draining")    \* mutant: does not wait
ServeReturns == /\ \A r \in Requests : phase[r] # "running"
                /\ Stops("closing", "draining")

(* store.drain: no task has counted itself in, or jobs_drain_ms has passed. *)
JobsDrained == Stops("draining", "stopped")

(* run_all awaits the worker; the runtime drops what still runs. *)
Exit == worker = "done" /\ Stops("stopped", "exited")

ShutdownStep == ServeCloses \/ ServeReturns \/ JobsDrained \/ Exit

-----------------------------------------------------------------------------
RequestsRun == /\ Alive
               /\ ItemStep \/ \E r \in Requests : Respond(r)
               /\ UNCHANGED <<limiterVars, shutdown, server, workerVars>>

WorkerStops == /\ Alive
               /\ Reconnect \/ StopPolling \/ WorkerDrained
               /\ UNCHANGED <<limiterVars, phase, reply, stage, results,
                              shutdown, server>>

Back == Alive /\ RedisReturns
          /\ UNCHANGED <<limiterVars, phase, reply, stage, results, shutdown, server>>

Down == ShutdownStep /\ UNCHANGED <<limiterVars, requestVars, workerVars>>

Done == server = "exited" /\ UNCHANGED vars

Next ==
  \/ Arrival /\ UNCHANGED <<shutdown, server, workerVars>>
  \/ RequestsRun \/ WorkerStops \/ Back \/ Down \/ Done
  \/ /\ Alive
     /\ \/ /\ \E r \in Requests : Disconnect(r)
           /\ UNCHANGED <<limiterVars, shutdown, server, workerVars>>
        \/ /\ WorkerStep
           /\ UNCHANGED <<limiterVars, phase, reply, stage, results, shutdown, server>>
        \/ Signal /\ UNCHANGED <<limiterVars, requestVars, workerVars>>
        \/ /\ clock < MaxTime /\ TimePasses
           /\ UNCHANGED <<requestVars, shutdown, server, workerVars>>

(* Captures are bounded by their deadline and the wait for a page by       *)
(* BROWSER_HEADLESS_CHECKOUT_WAIT_MS; the drains have deadlines.  Nothing  *)
(* is owed by clients, by signals or by Redis.                             *)
Fairness == WF_vars(RequestsRun) /\ WF_vars(WorkerStops) /\ WF_vars(Down)

Spec == Init /\ [][Next]_vars
FairSpec == Spec /\ Fairness

-----------------------------------------------------------------------------
(* Every variable keeps its type, and pages are never oversubscribed,      *)
(* whoever takes them: requests, jobs and the worker.                      *)
TypeOK ==
  /\ clock \in 0 .. MaxTime /\ last \in 0 .. clock
  /\ tokens \in 0 .. Capacity
  /\ \A r \in Requests :
       /\ phase[r] \in {"unsent", "running", "answered", "gone"}
       /\ reply[r] \in {0, 200, 400, 401, 403, 404, 429, 503} \cup Outcomes
       /\ \A k \in Index(r) :
            stage[r][k] \in Live \cup {"none", "waiting", "done", "dropped"}
       /\ DOMAIN results[r] \subseteq Index(r)
  /\ shutdown \in BOOLEAN
  /\ server \in {"up", "closing", "draining", "stopped", "exited"}
  /\ worker \in {"polling", "lost", "draining", "done"}
  /\ redis \in {"up", "down"} /\ outages \in 0 .. MaxOutages
  /\ worker_jobs \in 0 .. WorkerSlots
  /\ Taken <= Pages

(* The statuses that a URL of each kind may come back with.  A name is     *)
(* resolved, and a private address refused, only without AllowPrivate.     *)
Expected(r, k) ==
  IF DisableScript /\ Shape[r].script THEN {403}
  ELSE CASE Urls(r)[k] \in {"empty", "malformed"} -> {400}
         [] Urls(r)[k] = "blocked" /\ ~AllowPrivate -> {403}
         [] Urls(r)[k] = "unresolved" /\ ~AllowPrivate -> {400}
         [] OTHER -> Outcomes \cup {503}

(* A batch is answered whole and in order: however its captures overlap,   *)
(* every slot holds its own URL's outcome, no failed URL fails another,    *)
(* and it never has more captures under way than there are pages.          *)
BatchComplete ==
  \A r \in Requests :
    /\ Cardinality(LiveOf(r)) <= Concurrency(r)
    /\ phase[r] = "answered" /\ reply[r] = 200 /\ Shape[r].route = "batch" =>
         /\ DOMAIN results[r] = Index(r)
         /\ \A k \in Index(r) : /\ results[r][k].url = Urls(r)[k]
                                /\ results[r][k].status \in Expected(r, k)

(* The gauge counts the captures under way, of every origin, also after    *)
(* clients have left in the middle of theirs.                              *)
GaugeBalanced == in_flight = Cardinality(At(Live)) + worker_jobs

(* A signal ends the process, and cuts no request that it had accepted:    *)
(* those are answered first, or given up by their clients.  Two things     *)
(* hold it for ever, and nothing else does: an event stream that its       *)
(* client never closes (main.rs:260-263 waits without a deadline), and a   *)
(* worker that was waiting for Redis when the signal came, while Redis     *)
(* stays away (worker.rs:362-368 does not look at the flag).               *)
Held == server = "closing" /\ \E r \in Requests : Shape[r].route = "stream"
                                                 /\ phase[r] = "running"
Stranded == server = "stopped" /\ worker = "lost" /\ redis = "down"

ShutdownEnds ==
  <>shutdown => \/ <>(server = "exited" /\ \A r \in Requests : phase[r] # "running")
                \/ <>[]Held
                \/ <>[]Stranded
=============================================================================
