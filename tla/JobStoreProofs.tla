--------------------------- MODULE JobStoreProofs ---------------------------
(***************************************************************************)
(* Theorems about JobStore for every set of job ids and every cap, checked *)
(* by TLAPS. The inductive invariant relates the map (a record exists only *)
(* for a submitted job), the count of active tasks, the cap, and the       *)
(* wake-up of the drain.                                                   *)
(***************************************************************************)
EXTENDS JobStore, FiniteSetTheorems, TLAPS

Types ==
  /\ status \in [Jobs -> Statuses]
  /\ born \in [Jobs -> Nat]
  /\ submits \in Nat
  /\ expired \in SUBSET Jobs
  /\ task \in [Jobs -> TaskPc]
  /\ active \in Nat
  /\ drain \in DrainPc
  /\ notified \in BOOLEAN

(* A job that was never submitted has no record; a record that has reached *)
(* its end is never written again, because its task is past that.          *)
RecordsFollowTasks ==
  \A j \in Jobs :
    /\ task[j] = "none" => status[j] = "none"
    /\ status[j] = "queued" => task[j] \in {"spawned", "guarded"}
    /\ status[j] = "running" => task[j] = "capturing"
    /\ status[j] \in Terminal => task[j] \in {"closing", "waking", "ended"}

ExpiredStored == expired \subseteq Stored

JobInv ==
  /\ Types
  /\ RecordsFollowTasks
  /\ ExpiredStored
  /\ MapBounded
  /\ ActiveCounted
  /\ NoLostIdle

-----------------------------------------------------------------------------
(* Sets of jobs are finite, and how they are counted.                      *)
LEMMA JobSets ==
  ASSUME NEW S \in SUBSET Jobs
  PROVE  /\ IsFiniteSet(S)
         /\ Cardinality(S) \in Nat
         /\ \A T \in SUBSET S : Cardinality(T) <= Cardinality(S)
         /\ \A T \in SUBSET S : Cardinality(S \ T) = Cardinality(S) - Cardinality(T)
         /\ \A j \in S : Cardinality(S \ {j}) = Cardinality(S) - 1
         /\ \A j \in Jobs \ S : Cardinality(S \cup {j}) = Cardinality(S) + 1
<1>1. IsFiniteSet(S)
  BY FS_Subset, JobStoreAssumption DEF JobStoreAssumption
<1>2. /\ Cardinality(S) \in Nat
      /\ \A j \in S : Cardinality(S \ {j}) = Cardinality(S) - 1
      /\ \A j \in Jobs \ S : Cardinality(S \cup {j}) = Cardinality(S) + 1
  BY <1>1, FS_CardinalityType, FS_RemoveElement, FS_AddElement
<1>3. ASSUME NEW T \in SUBSET S
      PROVE  Cardinality(T) <= Cardinality(S)
             /\ Cardinality(S \ T) = Cardinality(S) - Cardinality(T)
  <2>1. IsFiniteSet(T) /\ Cardinality(T) <= Cardinality(S) /\ Cardinality(T) \in Nat
    BY <1>1, FS_Subset, FS_CardinalityType
  <2>2. IsFiniteSet(S \ T) /\ Cardinality(S \ T) = Cardinality(S) - Cardinality(S \cap T)
    BY <1>1, FS_Difference
  <2>3. S \cap T = T
    OBVIOUS
  <2> QED
    BY <2>1, <2>2, <2>3
<1> QED
  BY <1>1, <1>2, <1>3

(* The invariant holds at the start.                                       *)
LEMMA JobInit == Init => JobInv
<1> SUFFICES ASSUME Init PROVE JobInv
  OBVIOUS
<1>1. Types
  BY DEF Init, Types, Statuses, TaskPc, DrainPc
<1>2. Stored = {} /\ Running = {}
  BY DEF Init, Stored, Running
<1>3. MapBounded /\ ActiveCounted
  BY <1>2, FS_EmptySet, JobStoreAssumption
  DEF Init, MapBounded, ActiveCounted, JobStoreAssumption
<1>4. RecordsFollowTasks /\ ExpiredStored /\ NoLostIdle
  BY DEF Init, RecordsFollowTasks, ExpiredStored, NoLostIdle, InFlight, Terminal
<1> QED
  BY <1>1, <1>3, <1>4 DEF JobInv

(* Eviction makes room: once submit has refused at the cap and evicted     *)
(* what it must, one more record fits.                                     *)
LEMMA EvictionMakesRoom ==
  ASSUME Types, ~AtCap, NEW E \in SUBSET Kept, Evicts(E)
  PROVE  Cardinality(Kept \ E) + 1 <= MaxJobs
<1>1. /\ Kept \in SUBSET Jobs /\ Completed \in SUBSET Kept /\ Busy \in SUBSET Jobs
      /\ Busy = Kept \ Completed
  BY DEF Kept, Stored, Completed, Busy, Types, Statuses, InFlight, Terminal
<1>2. /\ Cardinality(Kept) \in Nat /\ Cardinality(Completed) \in Nat
      /\ Cardinality(Busy) \in Nat
      /\ Cardinality(Kept \ E) = Cardinality(Kept) - Cardinality(E)
      /\ Cardinality(Busy) = Cardinality(Kept) - Cardinality(Completed)
  BY <1>1, JobSets
<1>3. Cardinality(Busy) < MaxJobs /\ MaxJobs \in Nat
  BY <1>2, JobStoreAssumption DEF AtCap, JobStoreAssumption
<1>4. CASE Cardinality(Kept) < MaxJobs
  <2>1. Cardinality(E) = 0
    BY <1>2, <1>4 DEF Evicts, Excess
  <2> QED
    BY <1>2, <1>3, <1>4, <2>1
<1>5. CASE Cardinality(Kept) >= MaxJobs
  <2>1. Cardinality(E) = IF Cardinality(Kept) - MaxJobs + 1 <= Cardinality(Completed)
                         THEN Cardinality(Kept) - MaxJobs + 1
                         ELSE Cardinality(Completed)
    BY <1>2, <1>3, <1>5 DEF Evicts, Excess
  <2> QED
    BY <1>2, <1>3, <2>1
<1> QED
  BY <1>2, <1>3, <1>4, <1>5

(* A submit purges, evicts and inserts without exceeding the cap.          *)
LEMMA SubmitKeeps ==
  ASSUME JobInv, NEW j \in Jobs, Submit(j)
  PROVE  JobInv'
<1> USE DEF JobInv
<1>1. PICK E \in SUBSET Kept :
        /\ Evicts(E)
        /\ status' = [k \in Jobs |-> IF k = j THEN "queued"
                                     ELSE IF k \in expired \cup E THEN "none"
                                     ELSE status[k]]
  BY DEF Submit
<1>2. /\ expired' = {} /\ submits' = submits + 1
      /\ born' = [born EXCEPT ![j] = submits + 1]
      /\ task' = [task EXCEPT ![j] = "spawned"]
      /\ task[j] = "none" /\ ~AtCap /\ drain = "serving"
      /\ UNCHANGED <<active, drain, notified>>
  BY DEF Submit
<1>3. Types'
  BY <1>1, <1>2 DEF Types, Statuses, InFlight, Terminal, TaskPc
<1>4. RecordsFollowTasks'
  BY <1>1, <1>2 DEF RecordsFollowTasks, Types, Statuses, InFlight, Terminal
<1>5. ExpiredStored' /\ NoLostIdle'
  BY <1>2 DEF ExpiredStored, NoLostIdle
<1>6. MapBounded'
  <2>1. Stored' = (Kept \ E) \cup {j} /\ j \notin Kept
    BY <1>1, <1>2 DEF Stored, Kept, RecordsFollowTasks, Types
  <2>2. Kept \ E \in SUBSET Jobs
    BY DEF Kept, Stored
  <2>3. Cardinality(Stored') = Cardinality(Kept \ E) + 1
    BY <2>1, <2>2, JobSets
  <2> QED
    BY <1>1, <1>2, <2>3, EvictionMakesRoom DEF MapBounded
<1>7. ActiveCounted'
  <2>1. Running' = Running
    BY <1>2 DEF Running, Types
  <2> QED
    BY <1>2, <2>1 DEF ActiveCounted
<1> QED
  BY <1>3, <1>4, <1>5, <1>6, <1>7

(* The sweeper's purge keeps the invariant.                                *)
LEMMA PurgeKeeps ==
  ASSUME JobInv, Purge
  PROVE  JobInv'
<1> USE DEF JobInv
<1>1. Types'
  BY DEF Purge, Types, Statuses
<1>2. RecordsFollowTasks' /\ ExpiredStored' /\ NoLostIdle'
  BY DEF Purge, RecordsFollowTasks, ExpiredStored, NoLostIdle, Types, Statuses, InFlight, Terminal
<1>3. MapBounded'
  <2>1. Stored' \in SUBSET Stored /\ Stored \in SUBSET Jobs
    BY DEF Purge, Stored
  <2>2. Cardinality(Stored') <= Cardinality(Stored) /\ Cardinality(Stored) \in Nat
        /\ Cardinality(Stored') \in Nat
    <3>1. Stored' \in SUBSET Jobs
      BY <2>1
    <3> QED
      BY <2>1, <3>1, JobSets
  <2> QED
    BY <2>2, JobStoreAssumption DEF MapBounded, JobStoreAssumption
<1>4. ActiveCounted'
  BY DEF Purge, ActiveCounted, Running
<1> QED
  BY <1>1, <1>2, <1>3, <1>4

(* The steps of one job's task.                                            *)
LEMMA TaskStepKeeps ==
  ASSUME JobInv, NEW j \in Jobs, TaskStep(j) \/ Expire(j)
  PROVE  JobInv'
<1> USE DEF JobInv
<1>1. Running \in SUBSET Jobs
  BY DEF Running
<1>2. CASE EnterTask(j)
  <2>1. Types' /\ RecordsFollowTasks' /\ ExpiredStored' /\ NoLostIdle'
    BY <1>2 DEF EnterTask, Alive, Types, TaskPc, RecordsFollowTasks, ExpiredStored,
                Stored, NoLostIdle
  <2>2. Stored' = Stored
    BY <1>2 DEF EnterTask, Stored
  <2>3. Running' = Running \cup {j} /\ j \notin Running
    BY <1>2 DEF EnterTask, Alive, Running, Types
  <2>4. ActiveCounted'
    BY <1>1, <1>2, <2>3, JobSets DEF EnterTask, ActiveCounted
  <2> QED
    BY <2>1, <2>2, <2>4 DEF MapBounded
<1>3. CASE MarkRunning(j) \/ Finish(j)
  <2>1. Types'
    BY <1>3 DEF MarkRunning, Finish, Types, Statuses, InFlight, Terminal, TaskPc
  <2>2. Stored' = Stored
    BY <1>3 DEF MarkRunning, Finish, Stored, Types, Terminal
  <2>3. RecordsFollowTasks'
    BY <1>3 DEF MarkRunning, Finish, Alive, RecordsFollowTasks, Stored, Types, Terminal
  <2>4. ExpiredStored'
    BY <1>3, <2>2 DEF MarkRunning, Finish, ExpiredStored
  <2>5. Running' = Running
    BY <1>3 DEF MarkRunning, Finish, Alive, Running, Types
  <2>6. NoLostIdle' /\ ActiveCounted'
    <3>1. \A k \in Jobs : task[k] = "waking" => task'[k] = "waking"
      BY <1>3 DEF MarkRunning, Finish, Alive, Types
    <3> QED
      BY <1>3, <2>5, <3>1 DEF MarkRunning, Finish, NoLostIdle, ActiveCounted
  <2> QED
    BY <2>1, <2>2, <2>3, <2>4, <2>6 DEF MapBounded
<1>4. CASE CountOut(j)
  <2>1. Running' = Running \ {j} /\ j \in Running
    BY <1>4 DEF CountOut, Alive, Running, Types
  <2>2. active \in Nat \ {0} /\ active' = active - 1
    BY <1>1, <1>4, <2>1, JobSets DEF CountOut, ActiveCounted, Types
  <2>3. Types'
    BY <1>4, <2>2 DEF CountOut, Types, TaskPc
  <2>4. RecordsFollowTasks' /\ ExpiredStored'
    BY <1>4 DEF CountOut, Alive, Types, RecordsFollowTasks, ExpiredStored, Stored
  <2>5. ActiveCounted'
    BY <1>1, <2>1, <2>2, JobSets DEF ActiveCounted
  <2>6. MapBounded'
    <3>1. Stored' = Stored
      BY <1>4 DEF CountOut, Stored
    <3> QED
      BY <3>1 DEF MapBounded
  <2>7. NoLostIdle'
    <3> SUFFICES ASSUME active' = 0 PROVE task'[j] = "waking"
      BY DEF NoLostIdle
    <3>1. active = 1
      BY <2>2
    <3> QED
      BY <1>4, <3>1 DEF CountOut, Types
  <2> QED
    BY <2>3, <2>4, <2>5, <2>6, <2>7
<1>5. CASE WakeDrainers(j)
  <2>1. Stored' = Stored /\ Running' = Running
    BY <1>5 DEF WakeDrainers, Alive, Stored, Running, Types
  <2>2. Types'
    <3>1. notified' \in BOOLEAN
      BY <1>5 DEF WakeDrainers, Types
    <3> QED
      BY <1>5, <3>1 DEF WakeDrainers, Types, TaskPc
  <2>3. RecordsFollowTasks' /\ ExpiredStored'
    BY <1>5 DEF WakeDrainers, Alive, Types, RecordsFollowTasks, ExpiredStored, Stored
  <2>4. ActiveCounted' /\ MapBounded'
    BY <1>5, <2>1 DEF WakeDrainers, ActiveCounted, MapBounded
  <2>5. NoLostIdle'
    BY <1>5 DEF WakeDrainers, NoLostIdle
  <2> QED
    BY <2>2, <2>3, <2>4, <2>5
<1>6. CASE Expire(j)
  <2>1. Stored' = Stored /\ Running' = Running
    BY <1>6 DEF Expire, Stored, Running
  <2>2. Types' /\ RecordsFollowTasks' /\ NoLostIdle'
    BY <1>6 DEF Expire, Types, RecordsFollowTasks, NoLostIdle
  <2>3. ExpiredStored'
    BY <1>6, <2>1 DEF Expire, ExpiredStored, Kept
  <2>4. ActiveCounted' /\ MapBounded'
    BY <1>6, <2>1 DEF Expire, ActiveCounted, MapBounded
  <2> QED
    BY <2>2, <2>3, <2>4
<1> QED
  BY <1>2, <1>3, <1>4, <1>5, <1>6 DEF TaskStep

(* The steps of the drain keep the invariant.                              *)
LEMMA DrainStepKeeps ==
  ASSUME JobInv, StopServing \/ DrainStep \/ DrainTimesOut
  PROVE  JobInv'
<1> USE DEF JobInv
<1>1. UNCHANGED <<status, born, submits, expired, task, active>>
  BY DEF StopServing, DrainStep, DrainIdle, DrainBusy, DrainRegister, DrainRecheck,
         DrainWoken, Exit, DrainTimesOut, KeepJobs
<1>2. drain' \in DrainPc /\ (drain' = "wait" => active > 0 \/ (drain = "wait" /\ notified' = notified))
  BY DEF StopServing, DrainStep, DrainIdle, DrainBusy, DrainRegister, DrainRecheck,
         DrainWoken, Exit, DrainTimesOut, DrainMoves, DrainPc, Types
<1>3. notified' \in BOOLEAN
  BY DEF StopServing, DrainStep, DrainIdle, DrainBusy, DrainRegister, DrainRecheck,
         DrainWoken, Exit, DrainTimesOut, Types
<1>4. Types' /\ RecordsFollowTasks' /\ ExpiredStored'
  BY <1>1, <1>2, <1>3 DEF Types, RecordsFollowTasks, ExpiredStored, Stored
<1>5. MapBounded' /\ ActiveCounted'
  <2>1. Stored' = Stored /\ Running' = Running
    BY <1>1 DEF Stored, Running
  <2> QED
    BY <1>1, <2>1 DEF MapBounded, ActiveCounted
<1>6. NoLostIdle'
  BY <1>1, <1>2 DEF NoLostIdle
<1> QED
  BY <1>4, <1>5, <1>6

(* Every step keeps the invariant.                                         *)
LEMMA JobInvInductive == JobInv /\ [Next]_vars => JobInv'
<1> SUFFICES ASSUME JobInv, [Next]_vars PROVE JobInv'
  OBVIOUS
<1>1. CASE UNCHANGED vars
  <2>1. Stored' = Stored /\ Running' = Running
    BY <1>1 DEF vars, Stored, Running
  <2> QED
    BY <1>1, <2>1 DEF vars, JobInv, Types, RecordsFollowTasks, ExpiredStored, MapBounded,
                      ActiveCounted, NoLostIdle
<1> QED
  BY <1>1, SubmitKeeps, PurgeKeeps, TaskStepKeeps, DrainStepKeeps DEF Next

-----------------------------------------------------------------------------
(* The theorems *)

(* What holds of the job store (jobs.rs) between any two steps: records    *)
(* follow tasks, the cap, the active count and the drain's wake-up.        *)
THEOREM JobInvariant == Spec => []JobInv
  BY JobInit, JobInvInductive, PTL DEF Spec

(* The map is type correct; active, a usize, never goes below zero.        *)
THEOREM JobTypeOK == Spec => []TypeOK
<1>1. JobInv => TypeOK
  BY DEF JobInv, Types, ExpiredStored, TypeOK
<1> QED
  BY <1>1, JobInvariant, PTL

(* submit never lets the map grow past max_async_jobs.                     *)
THEOREM JobMapBounded == Spec => []MapBounded
<1>1. JobInv => MapBounded
  BY DEF JobInv
<1> QED
  BY <1>1, JobInvariant, PTL

(* active counts the tasks that have counted themselves in and not out.    *)
THEOREM JobActiveCounted == Spec => []ActiveCounted
<1>1. JobInv => ActiveCounted
  BY DEF JobInv
<1> QED
  BY <1>1, JobInvariant, PTL

(* A drain that waits while no task is active has been woken, or is about  *)
(* to be by the task that counted itself out last.                         *)
THEOREM JobNoLostIdle == Spec => []NoLostIdle
<1>1. JobInv => NoLostIdle
  BY DEF JobInv
<1> QED
  BY <1>1, JobInvariant, PTL

(* Eviction in submit never removes the record of a queued or running job. *)
THEOREM JobEvictionSparesInFlight == Spec => EvictionSparesInFlight
<1> DEFINE A == \A j \in Jobs :
                  status[j] \in InFlight /\ status'[j] = "none" => j \in expired
<1>1. JobInv /\ [Next]_vars => [A]_vars
  <2> SUFFICES ASSUME JobInv, Next, NEW j \in Jobs,
                      status[j] \in InFlight, status'[j] = "none"
               PROVE  j \in expired
    OBVIOUS
  <2> USE DEF JobInv
  <2>1. ASSUME NEW k \in Jobs, Submit(k)
        PROVE  j \in expired
    BY <2>1 DEF Submit, Evicts, Completed, InFlight, Terminal
  <2>2. CASE Purge
    BY <2>2 DEF Purge, InFlight
  <2>3. ASSUME NEW k \in Jobs, TaskStep(k) \/ Expire(k)
        PROVE  FALSE
    BY <2>3 DEF TaskStep, EnterTask, MarkRunning, Finish, CountOut, WakeDrainers, Expire, Types,
                Terminal, InFlight
  <2>4. CASE StopServing \/ DrainStep \/ DrainTimesOut
    BY <2>4 DEF StopServing, DrainStep, DrainIdle, DrainBusy, DrainRegister, DrainRecheck,
                DrainWoken, Exit, DrainTimesOut, KeepJobs, InFlight
  <2> QED
    BY <2>1, <2>2, <2>3, <2>4 DEF Next
<1> QED
  BY <1>1, JobInvariant, PTL DEF Spec, EvictionSparesInFlight

(* A record that is gone stays gone, and a terminal one never changes,     *)
(* whatever late tasks do.                                                 *)
THEOREM JobRecordsOnlyAdvance == Spec => RecordsOnlyAdvance
<1> DEFINE A == \A j \in Jobs :
                  /\ task[j] # "none" /\ status[j] = "none" => status'[j] = "none"
                  /\ status[j] \in Terminal => status'[j] \in {status[j], "none"}
<1>1. JobInv /\ [Next]_vars => [A]_vars
  <2> SUFFICES ASSUME JobInv, Next, NEW j \in Jobs
               PROVE  /\ task[j] # "none" /\ status[j] = "none" => status'[j] = "none"
                      /\ status[j] \in Terminal => status'[j] \in {status[j], "none"}
    OBVIOUS
  <2> USE DEF JobInv
  <2>1. ASSUME NEW k \in Jobs, Submit(k)
        PROVE  A
    BY <2>1 DEF Submit, RecordsFollowTasks, Types, Terminal
  <2>2. CASE Purge
    BY <2>2 DEF Purge
  <2>3. ASSUME NEW k \in Jobs, MarkRunning(k) \/ Finish(k)
        PROVE  A
    BY <2>3 DEF MarkRunning, Finish, Alive, Stored, RecordsFollowTasks, Types, Terminal
  <2>4. UNCHANGED status => A
    OBVIOUS
  <2>5. CASE StopServing \/ DrainStep \/ DrainTimesOut
    BY <2>4, <2>5 DEF StopServing, DrainStep, DrainIdle, DrainBusy, DrainRegister,
                DrainRecheck, DrainWoken, Exit, DrainTimesOut, KeepJobs
  <2>6. ASSUME NEW k \in Jobs, EnterTask(k) \/ CountOut(k) \/ WakeDrainers(k) \/ Expire(k)
        PROVE  A
    BY <2>4, <2>6 DEF EnterTask, CountOut, WakeDrainers, Expire
  <2> QED
    BY <2>1, <2>2, <2>3, <2>5, <2>6 DEF Next, TaskStep
<1> QED
  BY <1>1, JobInvariant, PTL DEF Spec, RecordsOnlyAdvance
=============================================================================
