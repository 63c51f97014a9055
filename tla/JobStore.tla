------------------------------ MODULE JobStore ------------------------------
(***************************************************************************)
(* The in-process async job store of src/src/jobs.rs: submit with its      *)
(* purge, cap check, eviction and insert; the detached task that runs the  *)
(* capture; the sweeper; what a poll of GET /jobs/{id} sees; and the       *)
(* drain that serve_http waits for before the process exits.               *)
(*                                                                         *)
(* The capture is external: it ends in a result or in an error (a panic is *)
(* caught and becomes an error). Time is abstracted to the set of records  *)
(* whose expires has passed.                                               *)
(***************************************************************************)
EXTENDS Naturals, FiniteSets

CONSTANTS
  Jobs,     \* job ids; each submit mints a fresh one
  MaxJobs   \* config::max_async_jobs()

ASSUME JobStoreAssumption ==
  /\ IsFiniteSet(Jobs)
  /\ MaxJobs \in Nat \ {0}

VARIABLES
  status,   \* status[j]: the record of j, "none" when the map holds no such key
  born,     \* JobRecord.created as the number of the submit, 0 before it
  submits,  \* submits accepted so far
  expired,  \* records in the map whose expires has passed
  task,     \* where the detached task of j stands
  active,   \* JobStore.active
  drain,    \* where the shutdown drain stands
  notified  \* idle.notify_waiters has reached the drain's Notified future

vars == <<status, born, submits, expired, task, active, drain, notified>>

InFlight == {"queued", "running"}
Terminal == {"done", "error"}
Statuses == {"none"} \cup InFlight \cup Terminal
TaskPc == {"none", "spawned", "guarded", "capturing", "closing", "waking", "ended"}
DrainPc == {"serving", "check", "register", "recheck", "wait", "idle",
            "timedout", "exited"}

Init ==
  /\ status = [j \in Jobs |-> "none"]
  /\ born = [j \in Jobs |-> 0]
  /\ submits = 0
  /\ expired = {}
  /\ task = [j \in Jobs |-> "none"]
  /\ active = 0
  /\ drain = "serving"
  /\ notified = FALSE

Stored == {j \in Jobs : status[j] # "none"}
Kept == Stored \ expired
Busy == {j \in Kept : status[j] \in InFlight}
Completed == {j \in Kept : status[j] \in Terminal}

-----------------------------------------------------------------------------
(* submit, under one write lock *)

MutAtCap == Cardinality(Busy) > MaxJobs    \* mutant: off by one
AtCap == Cardinality(Busy) >= MaxJobs

(* The while loop: remove the oldest completed records until the map is    *)
(* below the cap or no completed record is left.                           *)
Excess == IF Cardinality(Kept) < MaxJobs THEN 0 ELSE Cardinality(Kept) - MaxJobs + 1
MutEvicts(E) == Cardinality(E) = Excess    \* mutant: evicts records of any status

Evicts(E) ==
  /\ E \subseteq Completed
  /\ \A e \in E, k \in Completed \ E : born[e] < born[k]
  /\ Cardinality(E) = IF Excess <= Cardinality(Completed)
                      THEN Excess ELSE Cardinality(Completed)

Submit(j) ==
  /\ drain = "serving"
  /\ task[j] = "none"
  /\ ~AtCap
  /\ \E E \in SUBSET Kept :
       /\ Evicts(E)
       /\ status' = [k \in Jobs |-> IF k = j THEN "queued"
                                    ELSE IF k \in expired \cup E THEN "none"
                                    ELSE status[k]]
  /\ expired' = {}
  /\ submits' = submits + 1
  /\ born' = [born EXCEPT ![j] = submits + 1]
  /\ task' = [task EXCEPT ![j] = "spawned"]
  /\ UNCHANGED <<active, drain, notified>>

(* The sweeper's purge, which a submit refused with 503 has done as well.  *)
Purge ==
  /\ expired # {}
  /\ drain # "exited"
  /\ status' = [k \in Jobs |-> IF k \in expired THEN "none" ELSE status[k]]
  /\ expired' = {}
  /\ UNCHANGED <<born, submits, task, active, drain, notified>>

(* The TTL of a record passes, whatever its status. *)
Expire(j) ==
  /\ drain # "exited"
  /\ j \in Kept
  /\ expired' = expired \cup {j}
  /\ UNCHANGED <<status, born, submits, task, active, drain, notified>>

-----------------------------------------------------------------------------
(* The detached task *)

Alive(j, at) == drain # "exited" /\ task[j] = at

MutEnterTask(j) ==    \* mutant: the guard counts nothing in
  /\ Alive(j, "spawned")
  /\ task' = [task EXCEPT ![j] = "guarded"]
  /\ UNCHANGED <<status, born, submits, expired, active, drain, notified>>

(* The first poll of the task counts it in. *)
EnterTask(j) ==
  /\ Alive(j, "spawned")
  /\ task' = [task EXCEPT ![j] = "guarded"]
  /\ active' = active + 1
  /\ UNCHANGED <<status, born, submits, expired, drain, notified>>

MutMarkRunning(j) ==    \* mutant: writes the record back though it was purged
  /\ Alive(j, "guarded")
  /\ task' = [task EXCEPT ![j] = "capturing"]
  /\ status' = [status EXCEPT ![j] = "running"]
  /\ UNCHANGED <<born, submits, expired, active, drain, notified>>

MarkRunning(j) ==
  /\ Alive(j, "guarded")
  /\ task' = [task EXCEPT ![j] = "capturing"]
  /\ status' = IF j \in Stored THEN [status EXCEPT ![j] = "running"] ELSE status
  /\ UNCHANGED <<born, submits, expired, active, drain, notified>>

MutFinish(j) ==    \* mutant: a panicking capture leaves the record as it is
  /\ Alive(j, "capturing")
  /\ task' = [task EXCEPT ![j] = "closing"]
  /\ \/ \E s \in Terminal :
          /\ status' = IF j \in Stored THEN [status EXCEPT ![j] = s] ELSE status
          /\ expired' = expired \ {j}
     \/ UNCHANGED <<status, expired>>
  /\ UNCHANGED <<born, submits, active, drain, notified>>

(* The result is written and the TTL restarts, if the record is still in   *)
(* the map; else the result is dropped.                                    *)
Finish(j) ==
  /\ Alive(j, "capturing")
  /\ task' = [task EXCEPT ![j] = "closing"]
  /\ \E s \in Terminal :
       status' = IF j \in Stored THEN [status EXCEPT ![j] = s] ELSE status
  /\ expired' = expired \ {j}
  /\ UNCHANGED <<born, submits, active, drain, notified>>

(* ActiveGuard::drop counts the task out; the task that was the last one   *)
(* goes on to wake the drainers, which may move in between, as may tasks.  *)
CountOut(j) ==
  /\ Alive(j, "closing")
  /\ task' = [task EXCEPT ![j] = IF active = 1 THEN "waking" ELSE "ended"]
  /\ active' = active - 1
  /\ UNCHANGED <<status, born, submits, expired, drain, notified>>

MutWakeDrainers(j) ==    \* mutant: nobody is woken
  /\ Alive(j, "waking")
  /\ task' = [task EXCEPT ![j] = "ended"]
  /\ UNCHANGED <<status, born, submits, expired, active, drain, notified>>

(* idle.notify_waiters reaches a Notified future that exists by then,      *)
(* polled or not, and leaves no permit for a later one.                    *)
WakeDrainers(j) ==
  /\ Alive(j, "waking")
  /\ task' = [task EXCEPT ![j] = "ended"]
  /\ notified' = (notified \/ drain \in {"recheck", "wait"})
  /\ UNCHANGED <<status, born, submits, expired, active, drain>>

-----------------------------------------------------------------------------
(* drain, after the HTTP server has stopped *)

DrainMoves(from, to) == drain = from /\ drain' = to
KeepJobs == UNCHANGED <<status, born, submits, expired, task, active>>

StopServing  == DrainMoves("serving", "check") /\ KeepJobs /\ UNCHANGED notified
DrainIdle    == active = 0 /\ DrainMoves("check", "idle") /\ KeepJobs /\ UNCHANGED notified
DrainBusy    == active > 0 /\ DrainMoves("check", "register") /\ KeepJobs /\ UNCHANGED notified

DrainRegister == DrainMoves("register", "recheck") /\ KeepJobs /\ notified' = FALSE

MutDrainRecheck ==    \* mutant: waits without looking again
  DrainMoves("recheck", "wait") /\ KeepJobs /\ notified' = FALSE
DrainRecheck ==
  DrainMoves("recheck", IF active = 0 THEN "idle" ELSE "wait") /\ KeepJobs /\ UNCHANGED notified

DrainWoken    == notified /\ DrainMoves("wait", "check") /\ KeepJobs /\ notified' = FALSE
DrainTimesOut == ~notified /\ DrainMoves("wait", "timedout") /\ KeepJobs /\ UNCHANGED notified

(* main returns and the runtime cancels every task that is left. *)
Exit ==
  /\ drain \in {"idle", "timedout"}
  /\ drain' = "exited"
  /\ KeepJobs
  /\ UNCHANGED notified

-----------------------------------------------------------------------------
TaskStep(j) == EnterTask(j) \/ MarkRunning(j) \/ Finish(j) \/ CountOut(j) \/ WakeDrainers(j)
DrainStep == DrainIdle \/ DrainBusy \/ DrainRegister \/ DrainRecheck \/ DrainWoken \/ Exit

Next ==
  \/ \E j \in Jobs : Submit(j) \/ Expire(j) \/ TaskStep(j)
  \/ Purge
  \/ StopServing \/ DrainStep \/ DrainTimesOut

Spec == Init /\ [][Next]_vars

(* The runtime polls every task; the capture ends by its total deadline,   *)
(* its wait for a slot by the TTL. Submits, the TTL and the shutdown come  *)
(* from outside, and the drain's deadline is not needed for its progress.  *)
Fairness ==
  /\ \A j \in Jobs : WF_vars(TaskStep(j))
  /\ WF_vars(DrainStep)

FairSpec == Spec /\ Fairness

-----------------------------------------------------------------------------
(* Properties *)

Running == {j \in Jobs : task[j] \in {"guarded", "capturing", "closing"}}
InFlightTasks == {j \in Jobs : task[j] \in {"spawned", "guarded", "capturing"}}

TypeOK ==
  /\ status \in [Jobs -> Statuses]
  /\ born \in [Jobs -> Nat]
  /\ submits \in Nat
  /\ expired \subseteq Stored
  /\ task \in [Jobs -> TaskPc]
  /\ active \in Nat
  /\ drain \in DrainPc
  /\ notified \in BOOLEAN

(* Memory stays bounded: the map never holds more than MaxJobs records.    *)
(* The loop may stop without room only when no completed record is left,   *)
(* and then the cap check has already refused the submit.                  *)
MapBounded == Cardinality(Stored) <= MaxJobs

(* active counts exactly the tasks between ActiveGuard::new and its drop.  *)
ActiveCounted == active = Cardinality(Running)

(* Only the TTL removes the record of a job in flight: eviction never      *)
(* does, so a job that is polled within its TTL is not forgotten.          *)
EvictionSparesInFlight ==
  [][\A j \in Jobs : status[j] \in InFlight /\ status'[j] = "none" => j \in expired]_vars

(* A record never comes back once it is gone, and a terminal record never  *)
(* changes: the task of a purged job drops its result.                     *)
RecordsOnlyAdvance ==
  [][\A j \in Jobs :
       /\ task[j] # "none" /\ status[j] = "none" => status'[j] = "none"
       /\ status[j] \in Terminal => status'[j] \in {status[j], "none"}]_vars

(* The drain is not left waiting: whenever it waits and nothing is active, *)
(* the wake-up has reached it, or the task that counted itself out last is *)
(* still about to send it, whatever came between check and await.          *)
NoLostIdle ==
  drain = "wait" /\ active = 0 => notified \/ \E j \in Jobs : task[j] = "waking"

(* A job in flight reaches a terminal record or loses its record to the    *)
(* TTL, also when its capture panics, unless the process exits.            *)
JobsTerminate ==
  \A j \in Jobs :
    status[j] \in InFlight ~> status[j] \in Terminal \cup {"none"} \/ drain = "exited"

(* A drain ends once the jobs do: its deadline is only a backstop.         *)
DrainEnds == drain = "check" ~> drain = "exited"

(* config.rs:248: "Max IN-FLIGHT (queued + running) in-process async jobs".*)
(* Refuted: a record that expires frees its place while its task goes on.  *)
InFlightBounded == Cardinality(InFlightTasks) <= MaxJobs
=============================================================================
