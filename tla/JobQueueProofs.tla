--------------------------- MODULE JobQueueProofs ---------------------------
(***************************************************************************)
(* Proofs about JobQueue. The invariant has three parts: what Redis holds, *)
(* what the tasks work on, and what the two say about a job that Redis     *)
(* hands out for the first time. From it follow that nothing added is      *)
(* lost, that a job is worked on by one task at a time unless its entry    *)
(* was handed out again, that an id given to a client resolves, and that a *)
(* result is unseated only by its TTL or by a second run.                  *)
(***************************************************************************)
EXTENDS JobQueue, FiniteSetTheorems, TLAPS

(* Where the entry of a job is, and what can have removed it. *)
Entries ==
  /\ \A j \in Jobs : phase[j] \in {"idle", "marked"} => entry[j] = 0
  /\ cursor <= Cardinality(Added)
  /\ Pending \subseteq Added
  /\ \A j \in Jobs : entry[j] <= Cardinality(Added)
  /\ \A j \in Added \ stream : j \in written \/ j \in trimmed \/ j \in Malformed

(* A task has a job exactly while it is not free, and its entry was added; *)
(* it acks a job only when the result is there or the payload is malformed. *)
Tasks ==
  /\ \A s \in Slots : task[s] = "free" <=> job[s] = NoJob
  /\ \A s \in Slots : job[s] # NoJob => job[s] \in Added
  /\ \A s \in Slots : task[s] = "ack" => job[s] \in written \/ job[s] \in Malformed

(* A job Redis has handed out at most once: undelivered it has no task and *)
(* no result, and a task that has just been spawned is its first.          *)
FirstRuns ==
  /\ stale \subseteq redelivered
  /\ \A s \in Slots : job[s] # NoJob /\ job[s] \notin redelivered => job[s] \notin Fresh
  /\ \A j \in Fresh \ redelivered : j \notin written
  /\ \A s \in Slots :
       task[s] = "spawned" /\ job[s] \notin redelivered => job[s] \notin written

(* A result in Redis was written, and an id given out has its marker. *)
KeysKnown ==
  /\ \A j \in Jobs : key[j] = "result" => j \in written
  /\ \A j \in Jobs : phase[j] \in {"marked", "accepted"}
       => key[j] # "absent" \/ j \in expired

QueueInv ==
  /\ TypeOK /\ Entries /\ Tasks /\ FirstRuns /\ KeysKnown
  /\ NothingLost /\ DisjointSlices

-----------------------------------------------------------------------------
(* The steps of a worker or a producer that touch nothing the invariant is  *)
(* about but the phase and the key of an enqueue, or nothing at all.        *)
deliveryVars == <<stream, entry, cursor, pel, stale, trimmed, redelivered, written>>

(* Leaving all of it alone keeps every part but the types and the keys.     *)
LEMMA QuietKeeps ==
  ASSUME QueueInv, UNCHANGED deliveryVars, UNCHANGED <<task, job>>,
         \A j \in Jobs : phase'[j] \in {"idle", "marked"} => phase[j] \in {"idle", "marked"}
  PROVE  Entries' /\ Tasks' /\ FirstRuns' /\ NothingLost' /\ DisjointSlices'
<1>1. Added' = Added /\ Fresh' = Fresh /\ Pending' = Pending
  BY DEF deliveryVars, Added, Fresh, Pending
<1>2. Entries'
  BY <1>1 DEF QueueInv, Entries, deliveryVars
<1>3. Tasks'
  BY <1>1 DEF QueueInv, Tasks, deliveryVars
<1>4. FirstRuns'
  BY <1>1 DEF QueueInv, FirstRuns, deliveryVars
<1>5. NothingLost'
  BY <1>1 DEF QueueInv, NothingLost, deliveryVars
<1>6. DisjointSlices'
  BY DEF QueueInv, DisjointSlices, deliveryVars
<1> QED
  BY <1>2, <1>3, <1>4, <1>5, <1>6

(* Added grows by one with an entry, and no other entry moves.              *)
LEMMA AddedGrows ==
  ASSUME QueueInv, NEW j \in Jobs, entry[j] = 0, AddEntry(j)
  PROVE  /\ Added' = Added \cup {j} /\ j \notin Added
         /\ Cardinality(Added) \in Nat
         /\ Cardinality(Added') = Cardinality(Added) + 1
         /\ entry' \in [Jobs -> Nat]
         /\ entry'[j] = Cardinality(Added) + 1
         /\ \A k \in Jobs \ {j} : entry'[k] = entry[k]
<1>1. IsFiniteSet(Added) /\ Cardinality(Added) \in Nat
  BY JobQueueAssumption, FS_Subset, FS_CardinalityType DEF Added, JobQueueAssumption
<1>2. /\ entry' \in [Jobs -> Nat]
      /\ entry'[j] = Cardinality(Added) + 1
      /\ \A k \in Jobs \ {j} : entry'[k] = entry[k]
  BY <1>1 DEF QueueInv, TypeOK, AddEntry
<1>3. Added' = Added \cup {j} /\ j \notin Added
  BY <1>1, <1>2 DEF Added
<1> QED
  BY <1>1, <1>2, <1>3, FS_AddElement

(* XADD keeps the delivery parts: the new entry is fresh.                   *)
LEMMA AddEntryKeeps ==
  ASSUME QueueInv, NEW j \in Jobs, entry[j] = 0, AddEntry(j),
         UNCHANGED <<cursor, pel, stale, redelivered, written, task, job>>,
         phase'[j] \notin {"idle", "marked"},
         \A k \in Jobs \ {j} : phase'[k] = phase[k]
  PROVE  Entries' /\ Tasks' /\ FirstRuns' /\ NothingLost' /\ DisjointSlices'
<1> USE DEF QueueInv
<1>1. PICK T \in SUBSET stream :
        stream' = (stream \ T) \cup {j} /\ trimmed' = trimmed \cup T
  BY DEF AddEntry
<1>2. /\ Added' = Added \cup {j} /\ j \notin Added
      /\ Cardinality(Added) \in Nat
      /\ Cardinality(Added') = Cardinality(Added) + 1
      /\ entry' \in [Jobs -> Nat]
      /\ entry'[j] = Cardinality(Added) + 1
      /\ \A k \in Jobs \ {j} : entry'[k] = entry[k]
  BY AddedGrows
<1>3. cursor \in Nat /\ entry \in [Jobs -> Nat] /\ stream \subseteq Added /\ Added \subseteq Jobs
  BY DEF TypeOK, Added
<1>4. Fresh' = (Fresh \ T) \cup {j}
  BY <1>1, <1>2, <1>3 DEF Fresh, Entries
<1>5. Pending' = Pending
  BY DEF Pending
<1>6. Entries'
  <2>1. cursor' <= Cardinality(Added')
    BY <1>2, <1>3 DEF Entries
  <2>2. \A k \in Jobs : entry'[k] <= Cardinality(Added')
    BY <1>2, <1>3 DEF Entries
  <2>3. \A k \in Jobs : phase'[k] \in {"idle", "marked"} => entry'[k] = 0
    BY <1>2 DEF Entries
  <2>4. \A k \in Added' \ stream' : k \in written' \/ k \in trimmed' \/ k \in Malformed
    BY <1>1, <1>2 DEF Entries
  <2>5. Pending' \subseteq Added'
    BY <1>2, <1>5 DEF Entries
  <2> QED
    BY <2>1, <2>2, <2>3, <2>4, <2>5 DEF Entries
<1>7. Tasks'
  BY <1>2 DEF Tasks
<1>8. FirstRuns'
  <2>1. \A s \in Slots : job[s] # j
    BY <1>2, JobQueueNames DEF Tasks, JobQueueNames
  <2>2. j \notin written
    BY <1>2 DEF TypeOK
  <2> QED
    BY <1>4, <2>1, <2>2 DEF FirstRuns
<1>9. NothingLost'
  BY <1>1, <1>2, <1>4, <1>5 DEF NothingLost
<1>10. DisjointSlices'
  BY DEF DisjointSlices
<1> QED
  BY <1>6, <1>7, <1>8, <1>9, <1>10

-----------------------------------------------------------------------------
(* Delivery *)

(* XREADGROUP moves what it delivers from undelivered to pending.           *)
LEMMA DeliverKeeps ==
  ASSUME QueueInv, NEW w \in Workers, NEW n \in Nat, NEW E \in SUBSET Fresh,
         DeliverNew(E, w, n),
         UNCHANGED <<stream, entry, trimmed, redelivered, written>>
  PROVE  /\ Added' = Added /\ cursor' \in Nat /\ cursor' <= Cardinality(Added)
         /\ Fresh' = Fresh \ E
         /\ pel' \in [Jobs -> Workers \cup {Nobody}]
         /\ stale' \subseteq stale /\ stale' \subseteq Pending'
         /\ Pending' \subseteq Added /\ NothingLost'
<1> USE DEF QueueInv
<1>1. PICK last \in E :
        (\A e \in E : entry[e] <= entry[last]) /\ cursor' = entry[last]
  BY DEF DeliverNew
<1>2. /\ entry \in [Jobs -> Nat] /\ stream \subseteq Added /\ Added \subseteq Jobs
      /\ cursor \in Nat /\ pel \in [Jobs -> Workers \cup {Nobody}]
      /\ stale \subseteq Pending
  BY DEF TypeOK, Added
<1>3. E \subseteq stream /\ E \subseteq Jobs /\ \A e \in E : entry[e] > cursor
  BY <1>2 DEF Fresh
<1>4. Added' = Added /\ cursor' \in Nat /\ cursor' <= Cardinality(Added)
  BY <1>1, <1>2, <1>3 DEF Added, Entries
<1>5. Fresh' = Fresh \ E
  <2>1. \A e \in E, k \in Fresh \ E : entry[e] < entry[k]
    BY DEF DeliverNew, IsFirst
  <2>2. \A k \in Fresh \ E : k \in Fresh'
    BY <1>1, <2>1 DEF Fresh
  <2>3. \A k \in Fresh' : k \in Fresh
    <3> SUFFICES ASSUME NEW k \in stream, entry[k] > cursor'
                 PROVE  entry[k] > cursor
      BY DEF Fresh
    <3>1. cursor' > cursor /\ entry[k] \in Nat
      BY <1>1, <1>2, <1>3
    <3> QED
      BY <1>2, <1>4, <3>1
  <2>4. \A e \in E : e \notin Fresh'
    <3> SUFFICES ASSUME NEW e \in E PROVE ~(entry[e] > cursor')
      BY DEF Fresh
    <3>1. entry[e] \in Nat /\ entry[e] <= cursor'
      BY <1>1, <1>2, <1>3
    <3> QED
      BY <1>4, <3>1
  <2> QED
    BY <2>2, <2>3, <2>4
<1>6. /\ pel' = [j \in Jobs |-> IF j \in E THEN w ELSE pel[j]]
      /\ stale' = stale \ E
  BY DEF DeliverNew, Assign
<1>7. pel' \in [Jobs -> Workers \cup {Nobody}]
  BY <1>2, <1>6
<1>8. Pending' = Pending \cup E
  <2> w # Nobody
    BY JobQueueNames DEF JobQueueNames
  <2> QED
    BY <1>3, <1>6 DEF Pending
<1>9. NothingLost'
  BY <1>4, <1>5, <1>8 DEF NothingLost
<1>10. Pending' \subseteq Added
  BY <1>2, <1>3, <1>8 DEF Entries
<1> QED
  BY <1>10, <1>2, <1>4, <1>5, <1>6, <1>7, <1>8, <1>9

(* XAUTOCLAIM drops a pending entry only when it has left the stream.       *)
LEMMA ClaimKeeps ==
  ASSUME QueueInv, NEW w \in Workers, NEW n \in Nat, NEW E \in SUBSET Pending,
         ClaimStale(E, w, n),
         UNCHANGED <<stream, entry, trimmed, redelivered, written, cursor>>
  PROVE  /\ Added' = Added /\ Fresh' = Fresh
         /\ E \subseteq redelivered
         /\ pel' \in [Jobs -> Workers \cup {Nobody}]
         /\ stale' \subseteq stale /\ stale' \subseteq Pending'
         /\ Pending' \subseteq Added /\ NothingLost'
<1> USE DEF QueueInv
<1>1. /\ pel \in [Jobs -> Workers \cup {Nobody}] /\ stream \subseteq Jobs
      /\ stale \subseteq Pending /\ stale \subseteq redelivered
  BY DEF TypeOK, Added, FirstRuns
<1>2. /\ E \subseteq stale \cap stream
      /\ pel' = [j \in Jobs |-> IF j \in E THEN w
                                ELSE IF j \in stream THEN pel[j] ELSE Nobody]
      /\ stale' = (stale \cap stream) \ E
  BY DEF ClaimStale, IsFirst
<1>3. Added' = Added /\ Fresh' = Fresh
  BY DEF Added, Fresh
<1>4. pel' \in [Jobs -> Workers \cup {Nobody}]
  BY <1>1, <1>2
<1>5. Pending' = Pending \cap stream
  <2> w # Nobody
    BY JobQueueNames DEF JobQueueNames
  <2> QED
    BY <1>1, <1>2 DEF Pending
<1>6. NothingLost'
  BY <1>3, <1>5 DEF NothingLost, Entries
<1>7. Pending' \subseteq Added
  BY <1>5 DEF Entries
<1> QED
  BY <1>1, <1>2, <1>3, <1>4, <1>5, <1>6, <1>7

(* A slot that Spawn fills was free and gets a job of its own.              *)
LEMMA SpawnShape ==
  ASSUME QueueInv, NEW w \in Workers, NEW E, Spawn(E, w)
  PROVE  /\ \A s \in Slots :
              \/ job'[s] = job[s] /\ task'[s] = task[s]
              \/ job'[s] \in E /\ task'[s] = "spawned" /\ task[s] = "free"
         /\ \A s, t \in Slots :
              /\ job'[s] # job[s] /\ job'[t] # job[t] /\ job'[s] = job'[t] => s = t
         /\ DOMAIN job' = Slots /\ DOMAIN task' = Slots
<1>1. PICK slot \in [E -> Free(w)] :
        LET taken == {slot[e] : e \in E} IN
        /\ job' = [s \in Slots |-> IF s \in taken THEN CHOOSE e \in E : slot[e] = s
                                   ELSE job[s]]
        /\ task' = [s \in Slots |-> IF s \in taken THEN "spawned" ELSE task[s]]
  BY DEF Spawn
<1> DEFINE taken == {slot[e] : e \in E}
<1>2. \A s \in taken : s \in Slots /\ task[s] = "free"
  BY <1>1 DEF Free, SlotsOf
<1>3. \A s \in taken : job'[s] \in E /\ slot[job'[s]] = s /\ task'[s] = "spawned"
  BY <1>1, <1>2
<1>4. \A s \in Slots \ taken : job'[s] = job[s] /\ task'[s] = task[s]
  BY <1>1
<1>5. DOMAIN job' = Slots /\ DOMAIN task' = Slots
  BY <1>1
<1> HIDE DEF taken
<1> QED
  BY <1>2, <1>3, <1>4, <1>5

(* Spawning keeps the tasks apart: what it starts was handed out before, or *)
(* leaves the undelivered entries with this very step.                      *)
LEMMA SpawnKeeps ==
  ASSUME QueueInv, NEW w \in Workers, NEW E \in SUBSET Added, Spawn(E, w),
         UNCHANGED <<redelivered, written, entry>>,
         Fresh' \subseteq Fresh, stale' \subseteq stale,
         \A e \in E : e \in redelivered \/ e \in Fresh \ Fresh'
  PROVE  /\ task' \in [Slots -> TaskPc] /\ job' \in [Slots -> Jobs \cup {NoJob}]
         /\ Tasks' /\ FirstRuns' /\ DisjointSlices'
<1> USE DEF QueueInv
<1>1. /\ \A s \in Slots :
           \/ job'[s] = job[s] /\ task'[s] = task[s]
           \/ job'[s] \in E /\ task'[s] = "spawned" /\ task[s] = "free"
      /\ \A s, t \in Slots :
           /\ job'[s] # job[s] /\ job'[t] # job[t] /\ job'[s] = job'[t] => s = t
  BY SpawnShape
<1>2. /\ task \in [Slots -> TaskPc] /\ job \in [Slots -> Jobs \cup {NoJob}]
      /\ E \subseteq Jobs /\ NoJob \notin E
  BY JobQueueNames DEF TypeOK, Added, JobQueueNames
<1>3. /\ task' \in [Slots -> TaskPc]
      /\ job' \in [Slots -> Jobs \cup {NoJob}]
  <2>1. \E slot \in [E -> Free(w)] :
          LET taken == {slot[e] : e \in E} IN
          /\ job' = [s \in Slots |-> IF s \in taken THEN CHOOSE e \in E : slot[e] = s
                                     ELSE job[s]]
          /\ task' = [s \in Slots |-> IF s \in taken THEN "spawned" ELSE task[s]]
    BY DEF Spawn
  <2>2. /\ job' = [s \in Slots |-> job'[s]]
        /\ task' = [s \in Slots |-> task'[s]]
    BY <2>1
  <2>3. \A s \in Slots : job'[s] \in Jobs \cup {NoJob} /\ task'[s] \in TaskPc
    BY <1>1, <1>2 DEF TaskPc
  <2> QED
    BY <2>2, <2>3
<1>4. Added' = Added
  BY DEF Added
<1>5. Tasks'
  BY <1>1, <1>2, <1>4 DEF Tasks
<1>6. ASSUME NEW e \in E, e \notin redelivered
      PROVE  e \in Fresh /\ e \notin Fresh' /\ e \notin written
  BY <1>6 DEF FirstRuns
<1>7. FirstRuns'
  <2>1. stale' \subseteq redelivered'
    BY DEF FirstRuns
  <2>2. \A s \in Slots : job'[s] # NoJob /\ job'[s] \notin redelivered' => job'[s] \notin Fresh'
    BY <1>1, <1>6 DEF FirstRuns
  <2>3. \A j \in Fresh' \ redelivered' : j \notin written'
    BY DEF FirstRuns
  <2>4. \A s \in Slots :
          task'[s] = "spawned" /\ job'[s] \notin redelivered' => job'[s] \notin written'
    BY <1>1, <1>6 DEF FirstRuns
  <2> QED
    BY <2>1, <2>2, <2>3, <2>4 DEF FirstRuns
<1>8. DisjointSlices'
  <2> SUFFICES ASSUME NEW s \in Slots, NEW t \in Slots, s # t,
                      job'[s] = job'[t], job'[s] # NoJob, job'[s] \notin redelivered
               PROVE  FALSE
    BY DEF DisjointSlices
  <2>1. CASE job'[s] = job[s] /\ job'[t] = job[t]
    BY <2>1 DEF DisjointSlices
  <2>2. CASE job'[s] # job[s] /\ job'[t] # job[t]
    BY <1>1, <2>2
  <2>3. CASE job'[s] # job[s] /\ job'[t] = job[t]
    <3>1. job'[s] \in E
      BY <1>1, <2>3
    <3> QED
      BY <1>6, <2>3, <3>1 DEF FirstRuns
  <2>4. CASE job'[s] = job[s] /\ job'[t] # job[t]
    <3>1. job'[t] \in E
      BY <1>1, <2>4
    <3> QED
      BY <1>6, <2>4, <3>1 DEF FirstRuns
  <2> QED
    BY <2>1, <2>2, <2>3, <2>4
<1> QED
  BY <1>3, <1>5, <1>7, <1>8
-----------------------------------------------------------------------------
(* Type correctness, one group of actions after the other.                  *)

(* The steps of a submit keep the types.                                   *)
LEMMA EnqueueTypes ==
  ASSUME QueueInv, NEW j \in Jobs, EnqueueStep(j)
  PROVE  TypeOK'
<1> USE DEF QueueInv
<1>1. /\ key' \in [Jobs -> Keys] /\ phase' \in [Jobs -> Phases]
      /\ UNCHANGED <<workerVars, written, disruptions>>
      /\ KeepDelivery
  BY DEF EnqueueStep, SetMarker, SetMarkerFails, Xadd, XaddFails, Cleanup, ForeignAdd,
         Advance, TypeOK, Keys, Phases, redisVars, KeepDelivery
<1>2. Pending' = Pending
  BY <1>1 DEF Pending, KeepDelivery
<1>3. CASE AddEntry(j) /\ entry[j] = 0
  <2>1. /\ Added' = Added \cup {j}
        /\ entry' \in [Jobs -> Nat]
    BY <1>3, AddedGrows
  <2>2. stream' \subseteq stream \cup {j} /\ trimmed' \subseteq trimmed \cup stream
    BY <1>3 DEF AddEntry
  <2> QED
    BY <1>1, <1>2, <2>1, <2>2 DEF TypeOK, workerVars, KeepDelivery
<1>4. CASE KeepEntries
  <2>1. Added' = Added
    BY <1>4 DEF Added, KeepEntries
  <2> QED
    BY <1>1, <1>2, <1>4, <2>1 DEF TypeOK, workerVars, KeepDelivery, KeepEntries
<1>5. phase[j] \in {"idle", "marked"} => entry[j] = 0
  BY DEF Entries
<1>6. (AddEntry(j) /\ entry[j] = 0) \/ KeepEntries
  BY <1>5
  DEF EnqueueStep, SetMarker, SetMarkerFails, Xadd, XaddFails, Cleanup, ForeignAdd, Advance
<1> QED
  BY <1>3, <1>4, <1>6

(* The slots of a worker are finitely many.                                *)
LEMMA SlotsFinite ==
  ASSUME NEW w \in Workers
  PROVE  \A S \in SUBSET SlotsOf(w) : IsFiniteSet(S) /\ Cardinality(S) \in Nat
<1>1. IsFiniteSet(1 .. Capacity)
  BY FS_Interval, JobQueueAssumption DEF JobQueueAssumption
<1>2. IsFiniteSet({w} \X (1 .. Capacity))
  BY <1>1, FS_Singleton, FS_Product
<1>3. SlotsOf(w) \subseteq {w} \X (1 .. Capacity)
  BY DEF SlotsOf, Slots
<1> QED
  BY <1>2, <1>3, FS_Subset, FS_CardinalityType

(* So are those that are free.                                             *)
LEMMA FreeFinite ==
  ASSUME NEW w \in Workers
  PROVE  /\ IsFiniteSet(Free(w)) /\ Cardinality(Free(w)) \in Nat
         /\ IsFiniteSet(Free(w)') /\ Cardinality(Free(w)') \in Nat
<1>1. Free(w) \in SUBSET SlotsOf(w) /\ Free(w)' \in SUBSET SlotsOf(w)
  BY DEF Free, SlotsOf
<1> QED
  BY <1>1, SlotsFinite

(* Whatever a worker does leaves the entries' numbers and the producer      *)
(* alone; types are a matter of each part on its own.                       *)
LEMMA LoopTypes ==
  ASSUME QueueInv, NEW w \in Workers, LoopStep(w) \/ Shutdown(w) \/ Crash(w)
  PROVE  /\ loop' \in [Workers -> Loops] /\ want' \in [Workers -> Nat]
         /\ writeConn' \in [Workers -> BOOLEAN]
         /\ attempt' \in [Slots -> 0 .. MaxRetries]
         /\ group' \in BOOLEAN
         /\ disruptions' \in 0 .. MaxDisruptions
         /\ UNCHANGED <<key, stream, entry, trimmed, redelivered, expired, phase, written>>
<1> USE DEF QueueInv
<1>1. Cardinality(Free(w)) \in Nat
  BY FreeFinite
<1>2. CASE Start(w) \/ ReadNoGroup(w)
  BY <1>2 DEF Start, ReadNoGroup, EnsureGroup, LoopMoves, KeepTasks, KeepHistory, TypeOK, Loops
<1>3. CASE Reserve(w) \/ ReadEmpty(w) \/ Reconnect(w) \/ Drained(w)
  BY <1>1, <1>3
  DEF Reserve, ReadEmpty, Reconnect, Drained, LoopMoves, KeepTasks, KeepRedis, redisVars,
      KeepHistory, TypeOK, Loops
<1>4. CASE ReadNew(w) \/ Reclaim(w)
  BY <1>4 DEF ReadNew, Reclaim, LoopMoves, KeepHistory, TypeOK, Loops
<1>5. CASE ReadFails(w) \/ ReclaimFails(w) \/ Shutdown(w)
  <2>1. disruptions' \in 0 .. MaxDisruptions
    BY <1>5, JobQueueAssumption
    DEF ReadFails, ReclaimFails, Shutdown, Disruption, TypeOK, JobQueueAssumption
  <2> QED
    BY <1>5, <2>1
    DEF ReadFails, ReclaimFails, Shutdown, LoopMoves, KeepTasks, KeepHistory, TypeOK, Loops
<1>6. CASE DrainTimesOut(w) \/ Crash(w)
  <2>1. disruptions' \in 0 .. MaxDisruptions
    BY <1>6, JobQueueAssumption
    DEF DrainTimesOut, Crash, Disruption, TypeOK, JobQueueAssumption
  <2>2. attempt' \in [Slots -> 0 .. MaxRetries]
    BY <1>6, JobQueueAssumption DEF DrainTimesOut, Crash, ProcessEnds, TypeOK, JobQueueAssumption
  <2> QED
    BY <1>6, <2>1, <2>2
    DEF DrainTimesOut, Crash, ProcessEnds, KeepRedis, redisVars, KeepHistory, TypeOK, Loops
<1> QED
  BY <1>2, <1>3, <1>4, <1>5, <1>6 DEF LoopStep

(* A read whose reply is lost delivers without tasks; the jobs in question  *)
(* are pending and nothing else has changed.                                *)
LEMMA LostReplyKeeps ==
  ASSUME QueueInv,
         UNCHANGED <<stream, entry, trimmed, redelivered, written, phase, task, job>>,
         Added' = Added, Fresh' \subseteq Fresh, cursor' <= Cardinality(Added),
         stale' \subseteq stale, Pending' \subseteq Added, NothingLost'
  PROVE  Entries' /\ Tasks' /\ FirstRuns' /\ DisjointSlices'
<1> USE DEF QueueInv
<1>1. Entries'
  BY DEF Entries
<1>2. Tasks'
  BY DEF Tasks
<1>3. FirstRuns'
  BY DEF FirstRuns
<1>4. DisjointSlices'
  BY DEF DisjointSlices
<1> QED
  BY <1>1, <1>2, <1>3, <1>4

(* The steps of the read loop keep the invariant.                          *)
LEMMA LoopKeeps ==
  ASSUME QueueInv, NEW w \in Workers, LoopStep(w) \/ Shutdown(w) \/ Crash(w)
  PROVE  QueueInv'
<1> USE DEF QueueInv
<1>1. /\ loop' \in [Workers -> Loops] /\ want' \in [Workers -> Nat]
      /\ writeConn' \in [Workers -> BOOLEAN]
      /\ attempt' \in [Slots -> 0 .. MaxRetries]
      /\ group' \in BOOLEAN
      /\ disruptions' \in 0 .. MaxDisruptions
      /\ UNCHANGED <<key, stream, entry, trimmed, redelivered, expired, phase, written>>
  BY LoopTypes
<1>2. /\ Added' = Added /\ want[w] \in Nat /\ KeysKnown'
      /\ cursor \in Nat /\ cursor <= Cardinality(Added)
      /\ Fresh \subseteq Added /\ Pending \subseteq Jobs
  BY <1>1 DEF Added, TypeOK, KeysKnown, Entries, Fresh, Pending
<1> DEFINE Kept == /\ task' \in [Slots -> TaskPc]
                   /\ job' \in [Slots -> Jobs \cup {NoJob}]
                   /\ cursor' \in Nat
                   /\ pel' \in [Jobs -> Workers \cup {Nobody}]
                   /\ stale' \subseteq Pending'
                   /\ Entries' /\ Tasks' /\ FirstRuns' /\ NothingLost' /\ DisjointSlices'
<1>3. ASSUME UNCHANGED <<cursor, pel, stale, task, job>> PROVE Kept
  <2>1. Pending' = Pending
    BY <1>3 DEF Pending
  <2>2. Entries' /\ Tasks' /\ FirstRuns' /\ NothingLost' /\ DisjointSlices'
    BY <1>1, <1>3, QuietKeeps DEF deliveryVars
  <2> QED
    BY <1>3, <2>1, <2>2 DEF TypeOK
<1>4. ASSUME NEW E \in SUBSET Fresh, DeliverNew(E, w, want[w])
      PROVE  /\ cursor' \in Nat /\ cursor' <= Cardinality(Added)
             /\ Fresh' = Fresh \ E
             /\ pel' \in [Jobs -> Workers \cup {Nobody}]
             /\ stale' \subseteq stale /\ stale' \subseteq Pending'
             /\ Pending' \subseteq Added /\ NothingLost'
  BY <1>1, <1>2, <1>4, DeliverKeeps
<1>5. ASSUME NEW E \in SUBSET Pending, ClaimStale(E, w, want[w]), UNCHANGED cursor
      PROVE  /\ Fresh' = Fresh
             /\ E \subseteq redelivered
             /\ pel' \in [Jobs -> Workers \cup {Nobody}]
             /\ stale' \subseteq stale /\ stale' \subseteq Pending'
             /\ Pending' \subseteq Added /\ NothingLost'
  BY <1>1, <1>2, <1>5, ClaimKeeps
<1>6. ASSUME ReadNew(w) PROVE Kept
  <2>1. PICK E \in SUBSET Fresh : DeliverNew(E, w, want[w]) /\ Spawn(E, w)
    BY <1>6 DEF ReadNew
  <2>2. /\ cursor' \in Nat /\ cursor' <= Cardinality(Added)
        /\ Fresh' = Fresh \ E
        /\ pel' \in [Jobs -> Workers \cup {Nobody}]
        /\ stale' \subseteq stale /\ stale' \subseteq Pending'
        /\ Pending' \subseteq Added /\ NothingLost'
    BY <1>4, <2>1
  <2>3. E \in SUBSET Added /\ \A e \in E : e \in Fresh \ Fresh'
    BY <1>2, <2>2
  <2>4. /\ task' \in [Slots -> TaskPc] /\ job' \in [Slots -> Jobs \cup {NoJob}]
        /\ Tasks' /\ FirstRuns' /\ DisjointSlices'
    BY <1>1, <2>1, <2>2, <2>3, SpawnKeeps
  <2>5. Entries'
    BY <1>1, <1>2, <2>2 DEF Entries
  <2> QED
    BY <2>2, <2>4, <2>5
<1>7. ASSUME Reclaim(w), group PROVE Kept
  <2>1. PICK E \in SUBSET Pending : ClaimStale(E, w, want[w]) /\ Spawn(E, w)
    BY <1>7 DEF Reclaim
  <2>2. UNCHANGED cursor
    BY <1>7 DEF Reclaim
  <2>3. /\ Fresh' = Fresh /\ E \subseteq redelivered
        /\ pel' \in [Jobs -> Workers \cup {Nobody}]
        /\ stale' \subseteq stale /\ stale' \subseteq Pending'
        /\ Pending' \subseteq Added /\ NothingLost'
    BY <1>5, <2>1, <2>2
  <2>4. E \in SUBSET Added /\ \A e \in E : e \in redelivered
    BY <2>3 DEF TypeOK
  <2>5. /\ task' \in [Slots -> TaskPc] /\ job' \in [Slots -> Jobs \cup {NoJob}]
        /\ Tasks' /\ FirstRuns' /\ DisjointSlices'
    BY <1>1, <2>1, <2>3, <2>4, SpawnKeeps
  <2>6. Entries' /\ cursor' \in Nat
    BY <1>1, <1>2, <2>2, <2>3 DEF Entries
  <2> QED
    BY <2>3, <2>5, <2>6
<1>8. ASSUME UNCHANGED <<task, job>>, \E E \in SUBSET Fresh : DeliverNew(E, w, want[w])
      PROVE  Kept
  <2>1. Entries' /\ Tasks' /\ FirstRuns' /\ DisjointSlices'
    BY <1>1, <1>2, <1>4, <1>8, LostReplyKeeps
  <2> QED
    BY <1>4, <1>8, <2>1 DEF TypeOK
<1>9. ASSUME UNCHANGED <<task, job, cursor>>, \E E \in SUBSET Pending : ClaimStale(E, w, want[w])
      PROVE  Kept
  <2>1. Entries' /\ Tasks' /\ FirstRuns' /\ DisjointSlices'
    BY <1>1, <1>2, <1>5, <1>9, LostReplyKeeps
  <2> QED
    BY <1>2, <1>5, <1>9, <2>1 DEF TypeOK
<1>10. ASSUME ProcessEnds(w) PROVE Kept
  <2>1. \A s \in Slots :
          (job'[s] = job[s] /\ task'[s] = task[s]) \/ (job'[s] = NoJob /\ task'[s] = "free")
    <3> SUFFICES ASSUME NEW s \in Slots
                 PROVE  \/ job'[s] = job[s] /\ task'[s] = task[s]
                        \/ job'[s] = NoJob /\ task'[s] = "free"
      OBVIOUS
    <3>1. /\ task' = [t \in Slots |-> IF t[1] = w THEN "free" ELSE task[t]]
          /\ job' = [t \in Slots |-> IF t[1] = w THEN NoJob ELSE job[t]]
      BY <1>10 DEF ProcessEnds
    <3>2. /\ task'[s] = IF s[1] = w THEN "free" ELSE task[s]
          /\ job'[s] = IF s[1] = w THEN NoJob ELSE job[s]
      BY <3>1
    <3> QED
      BY <3>2
  <2>2. task' \in [Slots -> TaskPc]
    BY <1>10 DEF ProcessEnds, TypeOK, TaskPc
  <2>3. job' \in [Slots -> Jobs \cup {NoJob}]
    BY <1>10 DEF ProcessEnds, TypeOK
  <2>4. UNCHANGED deliveryVars /\ UNCHANGED pel /\ Fresh' = Fresh /\ Pending' = Pending
    BY <1>1, <1>10 DEF ProcessEnds, KeepRedis, redisVars, deliveryVars, Fresh, Pending
  <2>5. Entries' /\ NothingLost'
    BY <1>1, <1>2, <2>4 DEF Entries, NothingLost, deliveryVars
  <2>6. Tasks'
    BY <1>1, <1>2, <2>1 DEF Tasks
  <2>7. FirstRuns'
    BY <1>1, <2>1, <2>4 DEF FirstRuns, deliveryVars
  <2>8. DisjointSlices'
    BY <1>1, <2>1 DEF DisjointSlices
  <2> QED
    BY <2>4, <2>5, <2>6, <2>7, <2>8, <2>2, <2>3 DEF TypeOK, deliveryVars
<1>11. Kept
  <2>1. CASE Start(w) \/ Reserve(w) \/ ReadEmpty(w) \/ ReadNoGroup(w) \/ Reconnect(w) \/ Drained(w)
    BY <1>3, <2>1
    DEF Start, Reserve, ReadEmpty, ReadNoGroup, Reconnect, Drained, KeepTasks, KeepRedis, redisVars
  <2>2. CASE ReadNew(w)
    BY <1>6, <2>2
  <2>3. CASE Reclaim(w)
    <3>1. CASE group
      BY <1>7, <2>3, <3>1
    <3>2. CASE ~group
      BY <1>3, <2>3, <3>2 DEF Reclaim
    <3> QED
      BY <3>1, <3>2
  <2>4. CASE ReadFails(w) \/ Shutdown(w)
    BY <1>3, <1>8, <2>4 DEF ReadFails, Shutdown, UndeliveredRead, KeepTasks
  <2>5. CASE ReclaimFails(w)
    BY <1>3, <1>9, <2>5 DEF ReclaimFails, KeepTasks
  <2>6. CASE DrainTimesOut(w) \/ Crash(w)
    BY <1>10, <2>6 DEF DrainTimesOut, Crash
  <2> QED
    BY <2>1, <2>2, <2>3, <2>4, <2>5, <2>6 DEF LoopStep
<1>12. TypeOK'
  BY <1>1, <1>2, <1>11 DEF TypeOK
<1> QED
  BY <1>2, <1>11, <1>12

-----------------------------------------------------------------------------
(* The producer *)

(* The steps of a submit keep the invariant.                               *)
LEMMA EnqueueKeeps ==
  ASSUME QueueInv, NEW j \in Jobs, EnqueueStep(j)
  PROVE  QueueInv'
<1> USE DEF QueueInv
<1>1. TypeOK'
  BY EnqueueTypes
<1>2. /\ \E from, to \in Phases : phase[j] = from /\ phase' = [phase EXCEPT ![j] = to]
      /\ UNCHANGED <<workerVars, written>> /\ KeepDelivery
  BY DEF EnqueueStep, SetMarker, SetMarkerFails, Xadd, XaddFails, Cleanup, ForeignAdd,
         Advance, Phases, redisVars, KeepDelivery
<1>3. /\ UNCHANGED <<cursor, pel, stale, redelivered, written, task, job, expired>>
      /\ \A k \in Jobs \ {j} : phase'[k] = phase[k]
  BY <1>2 DEF workerVars, KeepDelivery
<1>4. KeysKnown'
  <2>1. SetMarker(j) \/ SetMarkerFails(j) \/ Cleanup(j) \/ key' = key
    BY DEF EnqueueStep, Xadd, XaddFails, ForeignAdd
  <2>2. CASE SetMarker(j)
    BY <1>3, <2>2 DEF SetMarker, Advance, KeysKnown, TypeOK
  <2>3. CASE SetMarkerFails(j)
    BY <1>3, <2>3 DEF SetMarkerFails, Advance, KeysKnown, TypeOK
  <2>4. CASE Cleanup(j)
    BY <1>3, <2>4 DEF Cleanup, Advance, KeysKnown, TypeOK
  <2>5. CASE key' = key
    <3>1. phase'[j] \in {"marked", "accepted"} =>
            phase[j] \in {"marked", "accepted"} \/ SetMarker(j)
      BY DEF EnqueueStep, SetMarkerFails, Xadd, XaddFails, Cleanup, ForeignAdd, Advance, TypeOK
    <3> QED
      BY <1>3, <2>2, <2>5, <3>1 DEF KeysKnown
  <2> QED
    BY <2>1, <2>2, <2>3, <2>4, <2>5
<1>5. CASE AddEntry(j) /\ entry[j] = 0 /\ phase'[j] \notin {"idle", "marked"}
  BY <1>1, <1>3, <1>4, <1>5, AddEntryKeeps
<1>6. CASE KeepEntries /\ (phase'[j] \in {"idle", "marked"} => phase[j] \in {"idle", "marked"})
  BY <1>1, <1>3, <1>4, <1>6, QuietKeeps DEF deliveryVars, KeepEntries
<1>7. \/ KeepEntries /\ (phase'[j] \in {"idle", "marked"} => phase[j] \in {"idle", "marked"})
      \/ AddEntry(j) /\ entry[j] = 0 /\ phase'[j] \notin {"idle", "marked"}
  <2>1. phase[j] \in {"idle", "marked"} => entry[j] = 0
    BY DEF Entries
  <2>2. phase \in [Jobs -> Phases]
    BY DEF TypeOK
  <2> QED
    BY <2>1, <2>2
    DEF EnqueueStep, SetMarker, SetMarkerFails, Xadd, XaddFails, Cleanup, ForeignAdd, Advance
<1> QED
  BY <1>5, <1>6, <1>7

-----------------------------------------------------------------------------
(* What comes from outside *)

(* An entry that has become old enough to be claimed is deliverable again. *)
LEMMA GoStaleKeeps ==
  ASSUME QueueInv, NEW j \in Jobs, GoStale(j)
  PROVE  QueueInv'
<1> USE DEF QueueInv
<1>1. /\ j \in Pending \ stale /\ stale' = stale \cup {j}
      /\ redelivered' = redelivered \cup {j}
      /\ UNCHANGED <<key, stream, entry, group, cursor, pel, trimmed, expired,
                     phase, loop, want, writeConn, task, job, attempt, written, disruptions>>
  BY DEF GoStale, workerVars
<1>2. Added' = Added /\ Fresh' = Fresh /\ Pending' = Pending
  BY <1>1 DEF Added, Fresh, Pending
<1>3. j \in Added
  BY <1>1 DEF Entries
<1>4. TypeOK'
  BY <1>1, <1>2, <1>3 DEF TypeOK
<1>5. Entries'
  BY <1>1, <1>2 DEF Entries
<1>6. Tasks'
  BY <1>1, <1>2 DEF Tasks
<1>7. FirstRuns'
  BY <1>1, <1>2 DEF FirstRuns
<1>8. KeysKnown' /\ NothingLost' /\ DisjointSlices'
  BY <1>1, <1>2 DEF KeysKnown, NothingLost, DisjointSlices
<1> QED
  BY <1>4, <1>5, <1>6, <1>7, <1>8

(* The end of a TTL removes the key and is in the history.                 *)
LEMMA KeyExpiresKeeps ==
  ASSUME QueueInv, NEW j \in Jobs, KeyExpires(j)
  PROVE  QueueInv'
<1> USE DEF QueueInv
<1>1. /\ UNCHANGED deliveryVars /\ UNCHANGED <<task, job, phase>>
      /\ UNCHANGED <<group, loop, want, writeConn, attempt, disruptions>>
      /\ key' = [key EXCEPT ![j] = "absent"] /\ expired' = expired \cup {j}
  BY DEF KeyExpires, workerVars, deliveryVars
<1>2. Entries' /\ Tasks' /\ FirstRuns' /\ NothingLost' /\ DisjointSlices'
  BY <1>1, QuietKeeps
<1>3. Added' = Added /\ Pending' = Pending
  BY <1>1 DEF Added, Pending, deliveryVars
<1>4. TypeOK'
  BY <1>1, <1>3 DEF TypeOK, deliveryVars, Keys
<1>5. KeysKnown'
  BY <1>1 DEF KeysKnown, TypeOK, deliveryVars
<1> QED
  BY <1>2, <1>4, <1>5

(* A group created anew starts at 0: every entry is undelivered again, and  *)
(* every one that was delivered may run again.                              *)
LEMMA GroupLostKeeps ==
  ASSUME QueueInv, GroupLost
  PROVE  QueueInv'
<1> USE DEF QueueInv
<1>1. /\ group' = FALSE /\ cursor' = 0 /\ pel' = [j \in Jobs |-> Nobody] /\ stale' = {}
      /\ redelivered' = redelivered \cup stream
      /\ UNCHANGED <<key, stream, entry, trimmed, expired, phase, loop, want, writeConn,
                     task, job, attempt, written>>
  BY DEF GroupLost, workerVars
<1>2. Added' = Added /\ Pending' = {} /\ Fresh' = stream /\ Cardinality(Added) \in Nat
  <2>1. Added' = Added /\ Pending' = {}
    BY <1>1 DEF Added, Pending
  <2>2. Fresh' = stream
    BY <1>1 DEF Fresh, TypeOK, Added
  <2>3. Cardinality(Added) \in Nat
    BY JobQueueAssumption, FS_Subset, FS_CardinalityType DEF Added, JobQueueAssumption
  <2> QED
    BY <2>1, <2>2, <2>3
<1>3. TypeOK'
  <2>1. disruptions' \in 0 .. MaxDisruptions
    BY JobQueueAssumption DEF GroupLost, Disruption, TypeOK, JobQueueAssumption
  <2> QED
    BY <1>1, <1>2, <2>1 DEF TypeOK
<1>4. Entries'
  BY <1>1, <1>2 DEF Entries
<1>5. Tasks'
  BY <1>1, <1>2 DEF Tasks
<1>6. FirstRuns'
  BY <1>1, <1>2 DEF FirstRuns
<1>7. KeysKnown' /\ DisjointSlices'
  BY <1>1 DEF KeysKnown, DisjointSlices
<1>8. NothingLost'
  BY <1>1, <1>2 DEF NothingLost, Entries
<1> QED
  BY <1>3, <1>4, <1>5, <1>6, <1>7, <1>8

-----------------------------------------------------------------------------
(* The tasks *)

(* A step of a task starts no task and moves no other; it writes a result   *)
(* for its own job only, and removes its entry only from the ack.           *)
LEMMA TaskShape ==
  ASSUME QueueInv, NEW s \in Slots, TaskStep(s)
  PROVE  /\ task[s] # "free" /\ job[s] \in Added
         /\ task' \in [Slots -> TaskPc] /\ job' \in [Slots -> Jobs \cup {NoJob}]
         /\ \A t \in Slots \ {s} : job'[t] = job[t] /\ task'[t] = task[t]
         /\ \/ job'[s] = NoJob /\ task'[s] = "free"
            \/ job'[s] = job[s] /\ task'[s] \in {"capture", "write", "ack"}
         /\ written' = written \/ written' = written \cup {job[s]}
         /\ task'[s] = "ack" /\ task[s] # "ack" => job[s] \in written' \/ job[s] \in Malformed
         /\ UNCHANGED <<entry, group, cursor, trimmed, redelivered, expired, phase, loop, want>>
<1> USE DEF QueueInv
<1>1. task[s] # "free"
  BY DEF TaskStep, Drop, MarkRunning, Retry, CaptureEnds, Panics, WriteResult, WriteFails, Ack,
         AckFails, TaskMoves, Leave
<1>2. job[s] \in Added
  BY <1>1 DEF Tasks
<1>3. /\ UNCHANGED <<entry, group, cursor, trimmed, redelivered, expired, phase, loop, want>>
      /\ written' = written \/ written' = written \cup {job[s]}
  BY DEF TaskStep, Drop, MarkRunning, Retry, CaptureEnds, Panics, WriteResult, WriteFails, Ack,
         AckFails, KeepRedis, redisVars, KeepLoops, KeepEntries, KeepDelivery
<1>4. \/ /\ job' = job
         /\ \E to \in {"capture", "write", "ack"} : task' = [task EXCEPT ![s] = to]
      \/ /\ job' = [job EXCEPT ![s] = NoJob]
         /\ task' = [task EXCEPT ![s] = "free"]
  <2>1. CASE Retry(s)
    BY <2>1 DEF Retry, TypeOK
  <2>2. CASE Drop(s) \/ MarkRunning(s) \/ CaptureEnds(s) \/ WriteResult(s)
    BY <2>2 DEF Drop, MarkRunning, CaptureEnds, WriteResult, TaskMoves
  <2>3. CASE Panics(s) \/ WriteFails(s) \/ Ack(s) \/ AckFails(s)
    BY <2>3 DEF Panics, WriteFails, Ack, AckFails, Leave
  <2> QED
    BY <2>1, <2>2, <2>3 DEF TaskStep
<1>5. task' \in [Slots -> TaskPc]
  BY <1>4 DEF TypeOK, TaskPc
<1>6. job' \in [Slots -> Jobs \cup {NoJob}]
  BY <1>4 DEF TypeOK
<1>7. /\ \A t \in Slots \ {s} : job'[t] = job[t] /\ task'[t] = task[t]
      /\ \/ job'[s] = NoJob /\ task'[s] = "free"
         \/ job'[s] = job[s] /\ task'[s] \in {"capture", "write", "ack"}
  BY <1>4 DEF TypeOK
<1>8. task'[s] = "ack" /\ task[s] # "ack" => job[s] \in written' \/ job[s] \in Malformed
  BY DEF TaskStep, Drop, MarkRunning, Retry, CaptureEnds, Panics, WriteResult, WriteFails, Ack,
         AckFails, TaskMoves, Leave, TypeOK
<1> QED
  BY <1>1, <1>2, <1>3, <1>5, <1>6, <1>7, <1>8

(* Where the entries go: nowhere, or off the stream and the pending list    *)
(* once the job has its result or is malformed.                             *)
LEMMA TaskEntries ==
  ASSUME QueueInv, NEW s \in Slots, TaskStep(s)
  PROVE  \/ UNCHANGED <<stream, pel, stale>>
         \/ /\ task[s] = "ack"
            /\ pel' = [pel EXCEPT ![job[s]] = Nobody]
            /\ stale' = stale \ {job[s]}
            /\ stream' \in {stream, stream \ {job[s]}}
BY DEF TaskStep, Drop, MarkRunning, Retry, CaptureEnds, Panics, WriteResult, WriteFails, Ack,
       AckFails, KeepRedis, redisVars, KeepEntries, KeepDelivery, Leave, Xack

(* The key of its own job, which becomes running or the result it has        *)
(* written.                                                                  *)
LEMMA TaskKeys ==
  ASSUME QueueInv, NEW s \in Slots, TaskStep(s)
  PROVE  \/ key' = key
         \/ key' = [key EXCEPT ![job[s]] = "running"]
         \/ key' = [key EXCEPT ![job[s]] = "result"] /\ job[s] \in written'
BY DEF TaskStep, Drop, MarkRunning, Retry, CaptureEnds, Panics, WriteResult, WriteFails, Ack,
       AckFails, KeepRedis, redisVars, Put

(* The steps of a task keep attempts, connections and disruptions in       *)
(* range.                                                                  *)
LEMMA TaskCounters ==
  ASSUME QueueInv, NEW s \in Slots, TaskStep(s)
  PROVE  /\ attempt' \in [Slots -> 0 .. MaxRetries]
         /\ writeConn' \in [Workers -> BOOLEAN]
         /\ disruptions' \in 0 .. MaxDisruptions
<1> USE DEF QueueInv
<1>1. s[1] \in Workers
  BY DEF Slots
<1>2. attempt' \in [Slots -> 0 .. MaxRetries]
  <2>1. CASE Retry(s)
    BY <2>1, JobQueueAssumption DEF Retry, TypeOK, JobQueueAssumption
  <2>2. CASE Drop(s) \/ MarkRunning(s) \/ CaptureEnds(s) \/ WriteResult(s)
    BY <2>2 DEF Drop, MarkRunning, CaptureEnds, WriteResult, TypeOK
  <2>3. CASE Panics(s) \/ WriteFails(s) \/ Ack(s) \/ AckFails(s)
    BY <2>3, JobQueueAssumption DEF Panics, WriteFails, Ack, AckFails, Leave, TypeOK, JobQueueAssumption
  <2> QED
    BY <2>1, <2>2, <2>3 DEF TaskStep
<1>3. UNCHANGED <<writeConn, disruptions>> \/ Fails(s) \/ Panics(s)
  BY DEF TaskStep, Drop, MarkRunning, Retry, CaptureEnds, Panics, WriteResult, WriteFails, Ack,
         AckFails, Succeeds
<1>4. writeConn' \in [Workers -> BOOLEAN]
  BY <1>1, <1>3 DEF Fails, Panics, TypeOK
<1>5. disruptions' \in 0 .. MaxDisruptions
  BY <1>3, JobQueueAssumption DEF Fails, Panics, Disruption, TypeOK, JobQueueAssumption
<1> QED
  BY <1>2, <1>4, <1>5

(* The steps of a task keep the invariant.                                 *)
LEMMA TaskKeeps ==
  ASSUME QueueInv, NEW s \in Slots, TaskStep(s)
  PROVE  QueueInv'
<1> USE DEF QueueInv
<1>1. /\ task[s] # "free" /\ job[s] \in Added
      /\ task' \in [Slots -> TaskPc] /\ job' \in [Slots -> Jobs \cup {NoJob}]
      /\ \A t \in Slots \ {s} : job'[t] = job[t] /\ task'[t] = task[t]
      /\ \/ job'[s] = NoJob /\ task'[s] = "free"
         \/ job'[s] = job[s] /\ task'[s] \in {"capture", "write", "ack"}
      /\ written' = written \/ written' = written \cup {job[s]}
      /\ task'[s] = "ack" /\ task[s] # "ack" => job[s] \in written' \/ job[s] \in Malformed
      /\ UNCHANGED <<entry, group, cursor, trimmed, redelivered, expired, phase, loop, want>>
  BY TaskShape
<1>2. \/ UNCHANGED <<stream, pel, stale>>
      \/ /\ job[s] \in written \/ job[s] \in Malformed
         /\ pel' = [pel EXCEPT ![job[s]] = Nobody]
         /\ stale' = stale \ {job[s]}
         /\ stream' \in {stream, stream \ {job[s]}}
  BY TaskEntries DEF Tasks
<1>3. \/ key' = key
      \/ key' = [key EXCEPT ![job[s]] = "running"]
      \/ key' = [key EXCEPT ![job[s]] = "result"] /\ job[s] \in written'
  BY TaskKeys
<1>4. job[s] \in Jobs /\ job[s] # NoJob /\ Added' = Added
  BY <1>1, JobQueueNames DEF Added, JobQueueNames
<1>5. /\ pel' \in [Jobs -> Workers \cup {Nobody}]
      /\ Pending \ {job[s]} \subseteq Pending' /\ Pending' \subseteq Pending
      /\ stale' \subseteq stale /\ stale' \subseteq Pending'
      /\ stream \ {job[s]} \subseteq stream' /\ stream' \subseteq stream
  BY <1>2, <1>4 DEF TypeOK, Pending
<1>6. Fresh \ {job[s]} \subseteq Fresh' /\ Fresh' \subseteq Fresh
  BY <1>1, <1>5 DEF Fresh
<1>7. \/ Pending' = Pending /\ Fresh' = Fresh /\ stream' = stream
      \/ job[s] \in written' \/ job[s] \in Malformed
  BY <1>1, <1>2 DEF Pending, Fresh
<1>8. TypeOK'
  <2>1. /\ attempt' \in [Slots -> 0 .. MaxRetries]
        /\ writeConn' \in [Workers -> BOOLEAN]
        /\ disruptions' \in 0 .. MaxDisruptions
    BY TaskCounters
  <2>2. key' \in [Jobs -> Keys]
    BY <1>3, <1>4 DEF TypeOK, Keys
  <2>3. written' \subseteq Added'
    BY <1>1, <1>4 DEF TypeOK
  <2> QED
    BY <1>1, <1>4, <1>5, <2>1, <2>2, <2>3 DEF TypeOK
<1>9. Entries'
  BY <1>1, <1>4, <1>5, <1>7 DEF Entries
<1>10. Tasks'
  <2>1. \A t \in Slots : task'[t] = "free" <=> job'[t] = NoJob
    BY <1>1, <1>4 DEF Tasks
  <2>2. \A t \in Slots : job'[t] # NoJob => job'[t] \in Added'
    BY <1>1, <1>4 DEF Tasks
  <2>3. \A t \in Slots : task'[t] = "ack" => job'[t] \in written' \/ job'[t] \in Malformed
    BY <1>1 DEF Tasks
  <2> QED
    BY <2>1, <2>2, <2>3 DEF Tasks
<1>11. FirstRuns'
  <2>1. stale' \subseteq redelivered'
    BY <1>1, <1>5 DEF FirstRuns
  <2>2. \A t \in Slots : job'[t] # NoJob /\ job'[t] \notin redelivered' => job'[t] \notin Fresh'
    BY <1>1, <1>6 DEF FirstRuns
  <2>3. \A j \in Fresh' \ redelivered' : j \notin written'
    BY <1>1, <1>4, <1>6 DEF FirstRuns
  <2>4. \A t \in Slots :
          task'[t] = "spawned" /\ job'[t] \notin redelivered' => job'[t] \notin written'
    <3> SUFFICES ASSUME NEW t \in Slots, task'[t] = "spawned", job'[t] \notin redelivered
                 PROVE  job'[t] \notin written'
      BY <1>1
    <3>1. t # s /\ task[t] = "spawned" /\ job'[t] = job[t] /\ job[t] # NoJob
      BY <1>1 DEF Tasks
    <3>2. job[t] # job[s]
      BY <1>4, <3>1 DEF DisjointSlices
    <3> QED
      BY <1>1, <3>1, <3>2 DEF FirstRuns
  <2> QED
    BY <2>1, <2>2, <2>3, <2>4 DEF FirstRuns
<1>12. KeysKnown'
  BY <1>1, <1>3, <1>4 DEF KeysKnown, TypeOK
<1>13. NothingLost'
  BY <1>1, <1>4, <1>5, <1>6, <1>7 DEF NothingLost
<1>14. DisjointSlices'
  BY <1>1 DEF DisjointSlices
<1> QED
  BY <1>8, <1>9, <1>10, <1>11, <1>12, <1>13, <1>14

-----------------------------------------------------------------------------
(* The theorems *)

(* The invariant holds at the start.                                       *)
LEMMA InitKeeps == Init => QueueInv
<1> SUFFICES ASSUME Init PROVE QueueInv
  OBVIOUS
<1>1. Added = {} /\ Fresh = {} /\ Pending = {} /\ Cardinality(Added) = 0
  <2>1. Added = {} /\ Fresh = {} /\ Pending = {}
    BY DEF Init, Added, Fresh, Pending
  <2> QED
    BY <2>1, FS_EmptySet
<1>2. TypeOK
  BY <1>1, JobQueueAssumption
  DEF Init, TypeOK, JobQueueAssumption, Keys, Phases, Loops, TaskPc
<1>3. Entries /\ Tasks
  BY <1>1, JobQueueNames DEF Init, Entries, Tasks, JobQueueNames
<1>4. FirstRuns /\ KeysKnown /\ NothingLost /\ DisjointSlices
  BY <1>1 DEF Init, FirstRuns, KeysKnown, NothingLost, DisjointSlices
<1> QED
  BY <1>2, <1>3, <1>4 DEF QueueInv

(* Every step keeps the invariant.                                         *)
LEMMA NextKeeps == QueueInv /\ [Next]_vars => QueueInv'
<1> SUFFICES ASSUME QueueInv, [Next]_vars PROVE QueueInv'
  OBVIOUS
<1>1. ASSUME NEW j \in Jobs, EnqueueStep(j) PROVE QueueInv'
  BY <1>1, EnqueueKeeps
<1>2. ASSUME NEW j \in Jobs, GoStale(j) PROVE QueueInv'
  BY <1>2, GoStaleKeeps
<1>3. ASSUME NEW j \in Jobs, KeyExpires(j) PROVE QueueInv'
  BY <1>3, KeyExpiresKeeps
<1>4. CASE GroupLost
  BY <1>4, GroupLostKeeps
<1>5. ASSUME NEW w \in Workers, LoopStep(w) \/ Shutdown(w) \/ Crash(w) PROVE QueueInv'
  BY <1>5, LoopKeeps
<1>6. ASSUME NEW s \in Slots, TaskStep(s) PROVE QueueInv'
  BY <1>6, TaskKeeps
<1>7. CASE UNCHANGED vars
  <2>1. UNCHANGED deliveryVars /\ UNCHANGED <<task, job, phase, key, expired>>
    BY <1>7 DEF vars, redisVars, workerVars, deliveryVars
  <2>2. Entries' /\ Tasks' /\ FirstRuns' /\ NothingLost' /\ DisjointSlices'
    BY <2>1, QuietKeeps
  <2>3. TypeOK'
    BY <1>7 DEF QueueInv, TypeOK, Added, Pending, vars, redisVars, workerVars
  <2>4. KeysKnown'
    BY <2>1 DEF QueueInv, KeysKnown, deliveryVars
  <2> QED
    BY <2>2, <2>3, <2>4 DEF QueueInv
<1> QED
  BY <1>1, <1>2, <1>3, <1>4, <1>5, <1>6, <1>7 DEF Next

(* The invariant from which the theorems below follow. *)
THEOREM QueueInvariant == Spec => []QueueInv
BY InitKeeps, NextKeeps, PTL DEF Spec

(* Type correctness of the queue's state, whatever fails on the way. *)
THEOREM QueueTypeOK == Spec => []TypeOK
<1>1. QueueInv => TypeOK
  BY DEF QueueInv
<1> QED
  BY <1>1, QueueInvariant, PTL

(* At-least-once: an added entry is undelivered, pending or has a result,   *)
(* or MAXLEN removed it, through every crash, lost reply and lost group.    *)
THEOREM QueueNothingLost == Spec => []NothingLost
<1>1. QueueInv => NothingLost
  BY DEF QueueInv
<1> QED
  BY <1>1, QueueInvariant, PTL

(* Two tasks, of one worker or of two, hold the same job only if its entry  *)
(* could be handed out twice.                                               *)
THEOREM QueueDisjointSlices == Spec => []DisjointSlices
<1>1. QueueInv => DisjointSlices
  BY DEF QueueInv
<1> QED
  BY <1>1, QueueInvariant, PTL

(* An id that a client was given never polls as unknown before its TTL. *)
THEOREM QueueAcceptedResolves == Spec => []AcceptedResolves
<1>1. QueueInv => AcceptedResolves
  BY DEF QueueInv, KeysKnown, AcceptedResolves
<1> QED
  BY <1>1, QueueInvariant, PTL

(* What a step may do to the result of a job whose id was given out.        *)
ResultStep ==
  \A j \in Jobs : phase[j] = "accepted" /\ key[j] = "result" /\ key'[j] # "result"
    => \/ key'[j] = "absent" /\ j \in expired'
       \/ key'[j] = "running" /\ j \in redelivered

(* No step unseats a result but by its TTL or a second run.                *)
LEMMA ResultStepHolds == QueueInv /\ [Next]_vars => ResultStep
<1> SUFFICES ASSUME QueueInv, [Next]_vars, NEW j \in Jobs,
                    phase[j] = "accepted", key[j] = "result", key'[j] # "result"
             PROVE  \/ key'[j] = "absent" /\ j \in expired'
                    \/ key'[j] = "running" /\ j \in redelivered
  BY DEF ResultStep
<1> USE DEF QueueInv
<1>1. key \in [Jobs -> Keys] /\ j \in written
  BY DEF TypeOK, KeysKnown
<1>2. ASSUME NEW k \in Jobs, EnqueueStep(k) PROVE FALSE
  <2>1. phase[k] # "accepted"
    BY <1>2 DEF EnqueueStep, SetMarker, SetMarkerFails, Xadd, XaddFails, Cleanup, ForeignAdd,
                Advance
  <2>2. key'[j] = key[j]
    BY <1>1, <1>2, <2>1
    DEF EnqueueStep, SetMarker, SetMarkerFails, Xadd, XaddFails, Cleanup, ForeignAdd
  <2> QED
    BY <2>2
<1>3. ASSUME NEW k \in Jobs, GoStale(k) PROVE FALSE
  BY <1>3 DEF GoStale
<1>4. ASSUME NEW k \in Jobs, KeyExpires(k) PROVE key'[j] = "absent" /\ j \in expired'
  BY <1>1, <1>4 DEF KeyExpires
<1>5. CASE GroupLost
  BY <1>5 DEF GroupLost
<1>6. ASSUME NEW w \in Workers, LoopStep(w) \/ Shutdown(w) \/ Crash(w) PROVE FALSE
  BY <1>6, LoopTypes
<1>7. ASSUME NEW s \in Slots, TaskStep(s)
      PROVE  key'[j] = "running" /\ j \in redelivered
  <2>1. MarkRunning(s) \/ UNCHANGED key \/ key' = [key EXCEPT ![job[s]] = "result"]
    BY <1>7 DEF TaskStep, Drop, Retry, CaptureEnds, Panics, WriteResult, WriteFails, Ack, AckFails,
                KeepRedis, redisVars, Put
  <2>2. MarkRunning(s) /\ key' = [key EXCEPT ![job[s]] = "running"] /\ job[s] = j
    BY <1>1, <2>1 DEF MarkRunning, Put
  <2>3. task[s] = "spawned"
    BY <2>2 DEF MarkRunning, TaskMoves
  <2> QED
    BY <1>1, <2>2, <2>3 DEF FirstRuns
<1>8. CASE UNCHANGED vars
  BY <1>8 DEF vars, redisVars
<1> QED
  BY <1>2, <1>3, <1>4, <1>5, <1>6, <1>7, <1>8 DEF Next

(* The result of a job is unseated only by its TTL or by a second run. *)
THEOREM QueueResultsStay == Spec => ResultsStay
<1>1. QueueInv /\ [Next]_vars => [ResultStep]_vars
  BY ResultStepHolds
<1>2. Spec => [][ResultStep]_vars
  BY <1>1, QueueInvariant, PTL DEF Spec
<1>3. [][ResultStep]_vars => ResultsStay
  BY PTL DEF ResultStep, ResultsStay
<1> QED
  BY <1>2, <1>3

-----------------------------------------------------------------------------
(* What the loop asks for *)

(* Only the loop's own spawning takes slots of a worker, and with it the    *)
(* loop leaves the read; everything else can only free slots.               *)
LEMMA FreeGrows ==
  ASSUME QueueInv, Next, NEW w \in Workers, loop'[w] \in {"reading", "reclaim"}
  PROVE  /\ Free(w) \subseteq Free(w)'
         /\ \/ loop[w] \in {"reading", "reclaim"} /\ want'[w] = want[w]
            \/ want'[w] = Cardinality(Free(w))
<1> USE DEF QueueInv
<1>1. /\ loop \in [Workers -> Loops] /\ want \in [Workers -> Nat]
      /\ task \in [Slots -> TaskPc]
  BY DEF TypeOK
<1>2. ASSUME NEW s \in Slots, TaskStep(s)
      PROVE  /\ \A t \in SlotsOf(w) : task[t] = "free" => task'[t] = "free"
             /\ loop'[w] = loop[w] /\ want'[w] = want[w]
  BY <1>2, TaskShape DEF SlotsOf
<1>3. ASSUME NEW v \in Workers, v # w, LoopStep(v) \/ Shutdown(v) \/ Crash(v)
      PROVE  /\ \A t \in SlotsOf(w) : task[t] = "free" => task'[t] = "free"
             /\ loop'[w] = loop[w] /\ want'[w] = want[w]
  <2>1. loop'[w] = loop[w] /\ want'[w] = want[w]
    BY <1>1, <1>3
    DEF LoopStep, Start, Reserve, ReadNew, ReadEmpty, ReadNoGroup, ReadFails, Reconnect,
        Reclaim, ReclaimFails, Drained, DrainTimesOut, Shutdown, Crash, ProcessEnds, LoopMoves
  <2>2. task' = task \/ (\E E : Spawn(E, v)) \/ ProcessEnds(v)
    BY <1>3
    DEF LoopStep, Start, Reserve, ReadNew, ReadEmpty, ReadNoGroup, ReadFails, Reconnect,
        Reclaim, ReclaimFails, Drained, DrainTimesOut, Shutdown, Crash, KeepTasks
  <2>3. ASSUME NEW E, Spawn(E, v)
        PROVE  \A t \in SlotsOf(w) : task'[t] = task[t]
    <3>1. PICK taken \in SUBSET Free(v) :
            task' = [s \in Slots |-> IF s \in taken THEN "spawned" ELSE task[s]]
      <4>1. PICK slot \in [E -> Free(v)] :
              task' = [s \in Slots |-> IF s \in {slot[e] : e \in E} THEN "spawned" ELSE task[s]]
        BY <2>3 DEF Spawn
      <4>2. {slot[e] : e \in E} \in SUBSET Free(v)
        OBVIOUS
      <4> QED
        BY <4>1, <4>2
    <3>2. \A t \in SlotsOf(w) : t \in Slots /\ t \notin taken
      BY <1>3 DEF Free, SlotsOf
    <3> QED
      BY <3>1, <3>2
  <2>4. ASSUME ProcessEnds(v)
        PROVE  \A t \in SlotsOf(w) : task'[t] = task[t]
    BY <1>3, <2>4 DEF ProcessEnds, SlotsOf
  <2> QED
    BY <2>1, <2>2, <2>3, <2>4
<1>4. ASSUME LoopStep(w) \/ Shutdown(w) \/ Crash(w)
      PROVE  /\ task' = task
             /\ \/ loop[w] \in {"reading", "reclaim"} /\ want'[w] = want[w]
                \/ want'[w] = Cardinality(Free(w))
  <2>1. Reserve(w) \/ ReadEmpty(w)
    BY <1>1, <1>4
    DEF LoopStep, Start, ReadNew, ReadNoGroup, ReadFails, Reconnect,
        Reclaim, ReclaimFails, Drained, DrainTimesOut, Shutdown, Crash, ProcessEnds, LoopMoves
  <2> QED
    BY <1>1, <2>1 DEF Reserve, ReadEmpty, LoopMoves, KeepTasks
<1>5. CASE UNCHANGED <<loop, want, task>>
  BY <1>5 DEF Free, SlotsOf
<1>6. CASE \E s \in Slots : TaskStep(s)
  BY <1>2, <1>6 DEF Free, SlotsOf
<1>7. CASE \E v \in Workers : LoopStep(v) \/ Shutdown(v) \/ Crash(v)
  BY <1>3, <1>4, <1>7 DEF Free, SlotsOf
<1>8. CASE \/ GroupLost
           \/ \E j \in Jobs : EnqueueStep(j) \/ GoStale(j) \/ KeyExpires(j)
  BY <1>5, <1>8
  DEF GroupLost, GoStale, KeyExpires, EnqueueStep, SetMarker, SetMarkerFails, Xadd,
      XaddFails, Cleanup, ForeignAdd, Advance, workerVars
<1> QED
  BY <1>6, <1>7, <1>8 DEF Next

(* The loop never waits for more entries than it has slots for when they    *)
(* come.                                                                    *)
THEOREM QueueWantIsFree == Spec => []WantIsFree
<1>1. Init => WantIsFree
  BY DEF Init, WantIsFree
<1>2. QueueInv /\ WantIsFree /\ [Next]_vars => WantIsFree'
  <2> SUFFICES ASSUME QueueInv, WantIsFree, [Next]_vars,
                      NEW w \in Workers, loop'[w] \in {"reading", "reclaim"}
               PROVE  want'[w] <= Cardinality(Free(w)')
    BY DEF WantIsFree, Free, SlotsOf
  <2>1. CASE UNCHANGED vars
    BY <2>1 DEF vars, workerVars, WantIsFree, Free, SlotsOf
  <2>2. CASE Next
    <3>1. /\ Free(w) \subseteq Free(w)'
          /\ \/ loop[w] \in {"reading", "reclaim"} /\ want'[w] = want[w]
             \/ want'[w] = Cardinality(Free(w))
      BY <2>2, FreeGrows
    <3>2. want'[w] <= Cardinality(Free(w)) /\ Cardinality(Free(w)) \in Nat
      BY <3>1, FreeFinite DEF WantIsFree
    <3>3. IsFiniteSet(Free(w)') /\ Cardinality(Free(w)') \in Nat
      BY FreeFinite
    <3>4. Cardinality(Free(w)) <= Cardinality(Free(w)')
      BY <3>1, <3>3, FS_Subset
    <3>5. want'[w] \in Nat
      BY <2>2, <3>1, <3>2 DEF QueueInv, TypeOK
    <3> QED
      BY <3>2, <3>3, <3>4, <3>5
  <2> QED
    BY <2>1, <2>2
<1> QED
  BY <1>1, <1>2, QueueInvariant, PTL DEF Spec
=============================================================================
