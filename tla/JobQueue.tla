------------------------------ MODULE JobQueue ------------------------------
(***************************************************************************)
(* The Redis job queue: the producer of src/src/queue.rs, which answers    *)
(* POST /jobs, and the worker processes of src/src/worker.rs, which meet   *)
(* only in Redis: a stream with one consumer group, and a key per job.     *)
(*                                                                         *)
(* A worker is its read loop and one task per slot. A command whose reply  *)
(* is an error may or may not have been carried out by Redis. Every        *)
(* payload is one job; results differ only in being there.                 *)
(***************************************************************************)
EXTENDS Integers, FiniteSets

CONSTANTS
  Jobs,          \* job ids; each enqueue mints a fresh one
  Malformed,     \* jobs pushed by other producers that do not parse
  Workers,       \* worker processes
  Capacity,      \* ctx.pool.capacity()
  MaxRetries,    \* job_max_retries
  MaxLen,        \* XADD MAXLEN ~, 0 = unlimited
  MaxDisruptions \* bound: failed commands, crashes, shutdowns, lost groups

ASSUME JobQueueAssumption ==
  /\ IsFiniteSet(Jobs)
  /\ Malformed \subseteq Jobs
  /\ Capacity \in Nat \ {0}
  /\ MaxRetries \in Nat
  /\ MaxLen \in Nat
  /\ MaxDisruptions \in Nat

Slots == Workers \X (1 .. Capacity)
Nobody == "nobody"
NoJob == "nojob"

ASSUME JobQueueNames == Nobody \notin Workers /\ NoJob \notin Jobs

VARIABLES
  \* Redis
  key,        \* what result:{id} holds
  stream,     \* the entries of the stream
  entry,      \* the entry id of a job, 0 before its XADD
  group,      \* the consumer group exists
  cursor,     \* its last-delivered-id
  pel,        \* its pending entries: the consumer that owns the entry
  stale,      \* pending entries idle for longer than visibility_ms
  \* the producer
  phase,      \* where the enqueue of the job stands
  \* the workers
  loop,       \* where the read loop stands
  want,       \* entries it asks for: the slots free when it reserved one
  writeConn,  \* write_conn is usable
  task,       \* where the task in the slot stands in process_one
  job,        \* the job it processes
  attempt,    \* retries it has used up
  \* history
  written,    \* jobs a result was written for
  trimmed,    \* jobs whose entry MAXLEN removed
  redelivered,\* jobs Redis may hand out a second time
  expired,    \* jobs whose key the TTL removed
  disruptions

redisVars == <<key, stream, entry, group, cursor, pel, stale, trimmed,
               redelivered, expired>>
workerVars == <<loop, want, writeConn, task, job, attempt>>
vars == <<redisVars, phase, workerVars, written, disruptions>>

Keys == {"absent", "queued", "running", "result"}
Phases == {"idle", "marked", "cleanup", "accepted", "refused", "foreign"}
Loops == {"down", "reserve", "reading", "reclaim", "reconnect", "draining"}
TaskPc == {"free", "spawned", "capture", "write", "ack"}

Init ==
  /\ key = [j \in Jobs |-> "absent"]
  /\ stream = {}
  /\ entry = [j \in Jobs |-> 0]
  /\ group = TRUE
  /\ cursor = 0
  /\ pel = [j \in Jobs |-> Nobody]
  /\ stale = {}
  /\ phase = [j \in Jobs |-> "idle"]
  /\ loop = [w \in Workers |-> "down"]
  /\ want = [w \in Workers |-> 0]
  /\ writeConn = [w \in Workers |-> TRUE]
  /\ task = [s \in Slots |-> "free"]
  /\ job = [s \in Slots |-> NoJob]
  /\ attempt = [s \in Slots |-> 0]
  /\ written = {}
  /\ trimmed = {}
  /\ redelivered = {}
  /\ expired = {}
  /\ disruptions = 0

Disruption ==
  /\ disruptions < MaxDisruptions
  /\ disruptions' = disruptions + 1

-----------------------------------------------------------------------------
(* Redis *)

Added == {j \in Jobs : entry[j] > 0}
Fresh == {j \in stream : entry[j] > cursor}
Pending == {j \in Jobs : pel[j] # Nobody}

(* The first entries of S, n of them or all. *)
IsFirst(E, S, n) ==
  /\ E \subseteq S
  /\ \A e \in E, k \in S \ E : entry[e] < entry[k]
  /\ Cardinality(E) = IF n <= Cardinality(S) THEN n ELSE Cardinality(S)

(* XADD: MAXLEN ~ removes oldest entries at its own discretion, delivered  *)
(* or not, but leaves at least MaxLen.                                     *)
AddEntry(j) ==
  /\ entry' = [entry EXCEPT ![j] = Cardinality(Added) + 1]
  /\ \E T \in SUBSET stream :
       /\ \A t \in T, k \in stream \ T : entry[t] < entry[k]
       /\ T # {} => MaxLen > 0 /\ Cardinality(stream \ T) + 1 >= MaxLen
       /\ stream' = (stream \ T) \cup {j}
       /\ trimmed' = trimmed \cup T

(* XREADGROUP and XAUTOCLAIM make w the owner of E and restart its idle    *)
(* time.                                                                   *)
Assign(E, w) ==
  /\ pel' = [j \in Jobs |-> IF j \in E THEN w ELSE pel[j]]
  /\ stale' = stale \ E

MutDeliverNew(E, w, n) ==    \* mutant: the cursor stays
  /\ IsFirst(E, Fresh, n)
  /\ Assign(E, w)
  /\ UNCHANGED cursor

(* XREADGROUP > hands up to n undelivered entries to w. *)
DeliverNew(E, w, n) ==
  /\ IsFirst(E, Fresh, n)
  /\ Assign(E, w)
  /\ \E last \in E : (\A e \in E : entry[e] <= entry[last]) /\ cursor' = entry[last]

MutClaimStale(E, w, n) ==    \* mutant: no minimum idle time
  /\ IsFirst(E, Pending \cap stream, n)
  /\ Assign(E, w)

(* XAUTOCLAIM hands up to n stale entries to w and forgets pending ones    *)
(* that are no longer in the stream.                                       *)
ClaimStale(E, w, n) ==
  /\ IsFirst(E, stale \cap stream, n)
  /\ pel' = [j \in Jobs |-> IF j \in E THEN w
                            ELSE IF j \in stream THEN pel[j] ELSE Nobody]
  /\ stale' = (stale \cap stream) \ E

(* The idle time of a pending entry passes visibility_ms, whether its      *)
(* consumer is dead or slow.                                               *)
GoStale(j) ==
  /\ j \in Pending \ stale
  /\ stale' = stale \cup {j}
  /\ redelivered' = redelivered \cup {j}
  /\ UNCHANGED <<key, stream, entry, group, cursor, pel, trimmed, expired,
                 phase, workerVars, written, disruptions>>

(* The TTL of result:{id} passes. *)
KeyExpires(j) ==
  /\ key[j] # "absent"
  /\ key' = [key EXCEPT ![j] = "absent"]
  /\ expired' = expired \cup {j}
  /\ UNCHANGED <<stream, entry, group, cursor, pel, stale, trimmed, redelivered,
                 phase, workerVars, written, disruptions>>

(* The group is destroyed under the workers; the stream survives. *)
GroupLost ==
  /\ Disruption
  /\ group
  /\ group' = FALSE
  /\ cursor' = 0
  /\ pel' = [j \in Jobs |-> Nobody]
  /\ stale' = {}
  /\ redelivered' = redelivered \cup stream
  /\ UNCHANGED <<key, stream, entry, trimmed, expired, phase, workerVars, written>>

(* XGROUP CREATE ... 0 MKSTREAM; BUSYGROUP is fine. *)
EnsureGroup == group' = TRUE

-----------------------------------------------------------------------------
(* The producer: QueueClient::enqueue. A client that goes away drops the   *)
(* handler at any of its awaits.                                           *)

Advance(j, from, to) ==
  /\ phase[j] = from
  /\ phase' = [phase EXCEPT ![j] = to]
  /\ UNCHANGED <<workerVars, written, disruptions>>

KeepEntries == UNCHANGED <<stream, entry, trimmed>>
KeepDelivery == UNCHANGED <<group, cursor, pel, stale, redelivered, expired>>

MutSetMarker(j) ==    \* mutant: goes on to XADD without a marker
  /\ j \notin Malformed
  /\ Advance(j, "idle", "marked")
  /\ UNCHANGED redisVars

(* SET NX of the queued marker; a v4 id is always new. *)
SetMarker(j) ==
  /\ j \notin Malformed
  /\ Advance(j, "idle", "marked")
  /\ key[j] = "absent"
  /\ key' = [key EXCEPT ![j] = "queued"]
  /\ KeepEntries /\ KeepDelivery

SetMarkerFails(j) ==
  /\ j \notin Malformed
  /\ Advance(j, "idle", "refused")
  /\ key' \in {key, [key EXCEPT ![j] = "queued"]}
  /\ KeepEntries /\ KeepDelivery

Xadd(j) ==
  /\ Advance(j, "marked", "accepted")
  /\ AddEntry(j)
  /\ UNCHANGED key /\ KeepDelivery

(* The error is answered with a 503 after the marker has been deleted; a   *)
(* client that has gone leaves the marker behind.                          *)
XaddFails(j) ==
  /\ \E to \in {"cleanup", "refused"} : Advance(j, "marked", to)
  /\ AddEntry(j) \/ KeepEntries
  /\ UNCHANGED key /\ KeepDelivery

(* DEL of the marker, best effort. *)
Cleanup(j) ==
  /\ Advance(j, "cleanup", "refused")
  /\ key' \in {key, [key EXCEPT ![j] = "absent"]}
  /\ KeepEntries /\ KeepDelivery

(* Another producer pushes a payload that does not parse. *)
ForeignAdd(j) ==
  /\ j \in Malformed
  /\ Advance(j, "idle", "foreign")
  /\ AddEntry(j)
  /\ UNCHANGED key /\ KeepDelivery

-----------------------------------------------------------------------------
(* A worker's read loop: worker::run *)

SlotsOf(w) == {s \in Slots : s[1] = w}
Free(w) == {s \in SlotsOf(w) : task[s] = "free"}

LoopMoves(w, from, to) ==
  /\ loop[w] = from
  /\ loop' = [loop EXCEPT ![w] = to]

KeepTasks == UNCHANGED <<writeConn, task, job, attempt>>
KeepRedis == UNCHANGED redisVars
KeepHistory == UNCHANGED <<phase, written>>

(* One detached task an entry, each with a slot of its own. *)
Spawn(E, w) ==
  \E slot \in [E -> Free(w)] :
    LET taken == {slot[e] : e \in E} IN
    /\ \A d, e \in E : slot[d] = slot[e] => d = e
    /\ job' = [s \in Slots |-> IF s \in taken THEN CHOOSE e \in E : slot[e] = s
                              ELSE job[s]]
    /\ task' = [s \in Slots |-> IF s \in taken THEN "spawned" ELSE task[s]]

(* The process starts, creates the group if it is missing and connects.    *)
Start(w) ==
  /\ LoopMoves(w, "down", "reserve")
  /\ writeConn' = [writeConn EXCEPT ![w] = TRUE]
  /\ EnsureGroup
  /\ UNCHANGED <<key, stream, entry, cursor, pel, stale, trimmed, redelivered,
                 expired, want, task, job, attempt, disruptions>>
  /\ KeepHistory

MutReserve(w) ==    \* mutant: counts the reserved slot twice
  /\ Free(w) # {}
  /\ LoopMoves(w, "reserve", "reading")
  /\ want' = [want EXCEPT ![w] = Cardinality(Free(w)) + 1]
  /\ KeepTasks /\ KeepRedis /\ KeepHistory /\ UNCHANGED disruptions

Reserve(w) ==
  /\ Free(w) # {}
  /\ LoopMoves(w, "reserve", "reading")
  /\ want' = [want EXCEPT ![w] = Cardinality(Free(w))]
  /\ KeepTasks /\ KeepRedis /\ KeepHistory /\ UNCHANGED disruptions

(* poll_new returns entries and each gets a task. *)
ReadNew(w) ==
  /\ LoopMoves(w, "reading", "reserve")
  /\ group
  /\ \E E \in SUBSET Fresh : DeliverNew(E, w, want[w]) /\ Spawn(E, w)
  /\ UNCHANGED <<key, stream, entry, group, trimmed, redelivered,
                 expired, want, writeConn, attempt, disruptions>>
  /\ KeepHistory

MutReadEmpty(w) ==    \* mutant: blocks again without a reclaim pass
  /\ LoopMoves(w, "reading", "reserve")
  /\ group
  /\ Fresh = {}
  /\ KeepTasks /\ KeepRedis /\ KeepHistory /\ UNCHANGED <<want, disruptions>>

(* The block time passes without a new entry. *)
ReadEmpty(w) ==
  /\ LoopMoves(w, "reading", "reclaim")
  /\ group
  /\ Fresh = {}
  /\ KeepTasks /\ KeepRedis /\ KeepHistory /\ UNCHANGED <<want, disruptions>>

(* NOGROUP: the group is created anew. *)
ReadNoGroup(w) ==
  /\ LoopMoves(w, "reading", "reserve")
  /\ ~group
  /\ EnsureGroup
  /\ UNCHANGED <<key, stream, entry, cursor, pel, stale, trimmed, redelivered,
                 expired, want, disruptions>>
  /\ KeepTasks /\ KeepHistory

(* Redis may have delivered entries to a read that nobody waits for. *)
UndeliveredRead(w) ==
  \/ UNCHANGED <<cursor, pel, stale>>
  \/ group /\ \E E \in SUBSET Fresh : DeliverNew(E, w, want[w])

ReadFails(w) ==
  /\ Disruption
  /\ LoopMoves(w, "reading", "reconnect")
  /\ UndeliveredRead(w)
  /\ UNCHANGED <<key, stream, entry, group, trimmed, redelivered, expired,
                 want>>
  /\ KeepTasks /\ KeepHistory

(* After the backoff read_conn, and only read_conn, is opened again.       *)
Reconnect(w) ==
  /\ LoopMoves(w, "reconnect", "reserve")
  /\ KeepTasks /\ KeepRedis /\ KeepHistory /\ UNCHANGED <<want, disruptions>>

Reclaim(w) ==
  /\ LoopMoves(w, "reclaim", "reserve")
  /\ IF group
     THEN \E E \in SUBSET Pending : ClaimStale(E, w, want[w]) /\ Spawn(E, w)
     ELSE UNCHANGED <<pel, stale, task, job>>
  /\ UNCHANGED <<key, stream, entry, group, cursor, trimmed, redelivered,
                 expired, want, writeConn, attempt, disruptions>>
  /\ KeepHistory

(* XAUTOCLAIM fails, or only its reply is lost. *)
ReclaimFails(w) ==
  /\ Disruption
  /\ LoopMoves(w, "reclaim", "reserve")
  /\ \/ UNCHANGED <<pel, stale>>
     \/ group /\ \E E \in SUBSET Pending : ClaimStale(E, w, want[w])
  /\ UNCHANGED <<key, stream, entry, group, cursor, trimmed, redelivered, expired,
                 want>>
  /\ KeepTasks /\ KeepHistory

(* SIGTERM, seen where the loop waits for a slot or for entries.           *)
Shutdown(w) ==
  /\ Disruption
  /\ \/ LoopMoves(w, "reserve", "draining") /\ UNCHANGED <<cursor, pel, stale>>
     \/ LoopMoves(w, "reading", "draining") /\ UndeliveredRead(w)
  /\ UNCHANGED <<key, stream, entry, group, trimmed, redelivered, expired,
                 want>>
  /\ KeepTasks /\ KeepHistory

Drained(w) ==
  /\ Free(w) = SlotsOf(w)
  /\ LoopMoves(w, "draining", "down")
  /\ KeepTasks /\ KeepRedis /\ KeepHistory /\ UNCHANGED <<want, disruptions>>

(* The process ends with its tasks: drain_ms is over, or it crashes.       *)
ProcessEnds(w) ==
  /\ loop' = [loop EXCEPT ![w] = "down"]
  /\ task' = [s \in Slots |-> IF s[1] = w THEN "free" ELSE task[s]]
  /\ job' = [s \in Slots |-> IF s[1] = w THEN NoJob ELSE job[s]]
  /\ attempt' = [s \in Slots |-> IF s[1] = w THEN 0 ELSE attempt[s]]
  /\ UNCHANGED <<want, writeConn>>
  /\ KeepRedis /\ KeepHistory

DrainTimesOut(w) ==
  /\ loop[w] = "draining"
  /\ Free(w) # SlotsOf(w)
  /\ ProcessEnds(w)
  /\ UNCHANGED disruptions

Crash(w) == Disruption /\ loop[w] # "down" /\ ProcessEnds(w)

-----------------------------------------------------------------------------
(* A task: process_one for the entry in slot s *)

TaskMoves(s, from, to) ==
  /\ task[s] = from
  /\ task' = [task EXCEPT ![s] = to]
  /\ UNCHANGED job

(* The task ends and its permit is free again. *)
Leave(s, from) ==
  /\ task[s] = from
  /\ task' = [task EXCEPT ![s] = "free"]
  /\ job' = [job EXCEPT ![s] = NoJob]
  /\ attempt' = [attempt EXCEPT ![s] = 0]

KeepLoops == UNCHANGED <<loop, want, phase>>

Put(j, value) == key' = [key EXCEPT ![j] = value]

(* A command on write_conn goes through and says so. *)
Succeeds(s) == writeConn[s[1]] /\ UNCHANGED <<writeConn, disruptions>>

(* It ends in an error. Nothing ever replaces write_conn, so once it is    *)
(* broken every later command fails, too.                                  *)
Fails(s) ==
  \/ ~writeConn[s[1]] /\ UNCHANGED <<writeConn, disruptions>>
  \/ /\ writeConn[s[1]]
     /\ Disruption
     /\ writeConn' \in {writeConn, [writeConn EXCEPT ![s[1]] = FALSE]}

MayApply(s) == writeConn[s[1]]

Drop(s) ==
  /\ job[s] \in Malformed
  /\ TaskMoves(s, "spawned", "ack")
  /\ KeepRedis /\ KeepLoops
  /\ UNCHANGED <<writeConn, attempt, written, disruptions>>

(* The running marker, best effort. *)
MarkRunning(s) ==
  /\ job[s] \notin Malformed
  /\ TaskMoves(s, "spawned", "capture")
  /\ \/ Succeeds(s) /\ Put(job[s], "running")
     \/ Fails(s) /\ (UNCHANGED key \/ (MayApply(s) /\ Put(job[s], "running")))
  /\ KeepEntries /\ KeepDelivery /\ KeepLoops
  /\ UNCHANGED <<attempt, written>>

MutRetry(s) ==    \* mutant: one retry too many
  /\ task[s] = "capture"
  /\ attempt[s] <= MaxRetries
  /\ attempt' = [attempt EXCEPT ![s] = @ + 1]
  /\ KeepRedis /\ KeepLoops
  /\ UNCHANGED <<task, job, writeConn, written, disruptions>>

(* A transient failure is tried again after a pause. *)
Retry(s) ==
  /\ task[s] = "capture"
  /\ attempt[s] < MaxRetries
  /\ attempt' = [attempt EXCEPT ![s] = @ + 1]
  /\ KeepRedis /\ KeepLoops
  /\ UNCHANGED <<task, job, writeConn, written, disruptions>>

(* A capture, an error, or a transient failure with no retry left: each is *)
(* a result.                                                               *)
CaptureEnds(s) ==
  /\ TaskMoves(s, "capture", "write")
  /\ KeepRedis /\ KeepLoops
  /\ UNCHANGED <<attempt, writeConn, written, disruptions>>

(* A panic in the capture ends the task alone; the entry stays pending.     *)
Panics(s) ==
  /\ Disruption
  /\ Leave(s, "capture")
  /\ KeepRedis /\ KeepLoops
  /\ UNCHANGED <<writeConn, written>>

(* SETEX and PUBLISH in one pipeline. *)
WriteResult(s) ==
  /\ TaskMoves(s, "write", "ack")
  /\ Succeeds(s)
  /\ Put(job[s], "result")
  /\ written' = written \cup {job[s]}
  /\ KeepEntries /\ KeepDelivery /\ KeepLoops
  /\ UNCHANGED attempt

MutWriteFails(s) ==    \* mutant: acks although the result may not be there
  /\ TaskMoves(s, "write", "ack")
  /\ Fails(s)
  /\ KeepRedis /\ KeepLoops
  /\ UNCHANGED <<attempt, written>>

(* The entry stays pending. *)
WriteFails(s) ==
  /\ Leave(s, "write")
  /\ Fails(s)
  /\ \/ UNCHANGED <<key, written>>
     \/ /\ MayApply(s)
        /\ Put(job[s], "result")
        /\ written' = written \cup {job[s]}
  /\ KeepEntries /\ KeepDelivery /\ KeepLoops

(* XACK takes the entry off the pending list, whoever owns it by now.      *)
Xack(j) ==
  /\ pel' = [pel EXCEPT ![j] = Nobody]
  /\ stale' = stale \ {j}

Ack(s) ==
  /\ Leave(s, "ack")
  /\ Succeeds(s)
  /\ Xack(job[s])
  /\ stream' = stream \ {job[s]}
  /\ UNCHANGED <<key, entry, group, cursor, trimmed, redelivered, expired,
                 written>>
  /\ KeepLoops

(* The pipeline of XACK and XDEL is carried out, in part or not at all.    *)
AckFails(s) ==
  /\ Leave(s, "ack")
  /\ Fails(s)
  /\ \/ UNCHANGED <<pel, stale, stream>>
     \/ /\ MayApply(s)
        /\ Xack(job[s])
        /\ stream' \in {stream, stream \ {job[s]}}
  /\ UNCHANGED <<key, entry, group, cursor, trimmed, redelivered, expired,
                 written>>
  /\ KeepLoops

-----------------------------------------------------------------------------
EnqueueStep(j) ==
  SetMarker(j) \/ SetMarkerFails(j) \/ Xadd(j) \/ XaddFails(j) \/ Cleanup(j) \/ ForeignAdd(j)

LoopStep(w) ==
  \/ Start(w) \/ Reserve(w)
  \/ ReadNew(w) \/ ReadEmpty(w) \/ ReadNoGroup(w) \/ ReadFails(w) \/ Reconnect(w)
  \/ Reclaim(w) \/ ReclaimFails(w)
  \/ Drained(w) \/ DrainTimesOut(w)

TaskStep(s) ==
  \/ Drop(s) \/ MarkRunning(s) \/ Retry(s) \/ CaptureEnds(s) \/ Panics(s)
  \/ WriteResult(s) \/ WriteFails(s) \/ Ack(s) \/ AckFails(s)

Next ==
  \/ \E j \in Jobs : EnqueueStep(j) \/ GoStale(j) \/ KeyExpires(j)
  \/ GroupLost
  \/ \E w \in Workers : LoopStep(w) \/ Shutdown(w) \/ Crash(w)
  \/ \E s \in Slots : TaskStep(s)

Spec == Init /\ [][Next]_vars

(* The runtime polls the loop and the tasks; a capture ends by its total   *)
(* deadline; a supervisor starts a process that has ended; idle time       *)
(* passes. Enqueues and disruptions come from outside.                     *)
Fairness ==
  /\ \A w \in Workers : WF_vars(LoopStep(w))
  /\ \A s \in Slots : WF_vars(TaskStep(s))
  /\ \A j \in Jobs : WF_vars(GoStale(j))

FairSpec == Spec /\ Fairness

-----------------------------------------------------------------------------
(* Properties *)

TypeOK ==
  /\ key \in [Jobs -> Keys]
  /\ stream \subseteq Added
  /\ entry \in [Jobs -> Nat]
  /\ group \in BOOLEAN
  /\ cursor \in Nat
  /\ pel \in [Jobs -> Workers \cup {Nobody}]
  /\ stale \subseteq Pending
  /\ phase \in [Jobs -> Phases]
  /\ loop \in [Workers -> Loops]
  /\ want \in [Workers -> Nat]
  /\ writeConn \in [Workers -> BOOLEAN]
  /\ task \in [Slots -> TaskPc]
  /\ job \in [Slots -> Jobs \cup {NoJob}]
  /\ attempt \in [Slots -> 0 .. MaxRetries]
  /\ written \subseteq Added
  /\ trimmed \subseteq Added
  /\ redelivered \subseteq Added
  /\ expired \subseteq Jobs
  /\ disruptions \in 0 .. MaxDisruptions

(* worker.rs:9-11, at-least-once: an entry that was added is not yet       *)
(* delivered, pending, or its job has a result. Nothing else takes it out  *)
(* of Redis but MAXLEN, whichever process dies or reply is lost, and       *)
(* whoever acks.                                                           *)
NothingLost ==
  \A j \in Added \ (Malformed \cup trimmed) :
    j \in Fresh \/ j \in Pending \/ j \in written

(* queue.rs: the marker lands before the client gets the id, so until its  *)
(* TTL an id that was given out never polls as 404.                        *)
AcceptedResolves ==
  \A j \in Jobs : phase[j] = "accepted" => key[j] # "absent" \/ j \in expired

(* The result of a job whose id was given out is unseated by its TTL or by *)
(* a second run of the job, never by an enqueue or a first run.            *)
ResultsStay ==
  [][\A j \in Jobs : phase[j] = "accepted" /\ key[j] = "result" /\ key'[j] # "result"
       => \/ key'[j] = "absent" /\ j \in expired'
          \/ key'[j] = "running" /\ j \in redelivered]_vars

(* README "the consumer group hands each worker a disjoint slice": two     *)
(* tasks work on the same job only after its entry went stale or the group *)
(* was lost.                                                               *)
DisjointSlices ==
  \A s, t \in Slots :
    s # t /\ job[s] = job[t] /\ job[s] # NoJob => job[s] \in redelivered

(* worker.rs: the loop never asks for entries it cannot run at once, though *)
(* it computes "want" before it waits for them.                            *)
WantIsFree ==
  \A w \in Workers :
    loop[w] \in {"reading", "reclaim"} => want[w] <= Cardinality(Free(w))

(* A job the client was told about gets its result, whatever fails on the  *)
(* way, as long as no worker is left with a broken write_conn.             *)
Answered ==
  []<>(\A w \in Workers : writeConn[w])
    => \A j \in Jobs : phase[j] = "accepted" ~> j \in written \cup trimmed

(* worker.rs:513: "A failed Redis write leaves the entry pending so a      *)
(* later reclaim retries it".                                              *)
(* Refuted: the later reclaim may run into the same broken write_conn, for *)
(* ever.                                                                   *)
FailedWriteRetried ==
  \A j \in Jobs : phase[j] = "accepted" ~> j \in written \cup trimmed

(* worker.rs:540: pollers "never lose the final result" to the running     *)
(* marker of a redelivered entry.                                          *)
(* Refuted: the marker's writer may die after the first worker's ack.      *)
FinalResultKept ==
  \A j \in written :
    key[j] = "running" => j \in Pending \/ j \in Fresh \/ \E s \in Slots : job[s] = j
=============================================================================
