---------------------------- MODULE CaptureProofs ----------------------------
(***************************************************************************)
(* The exit policy of the collect loop, for every page, timeout and grace: *)
(* it never leaves early, and no page can hold it past its tail.           *)
(***************************************************************************)
EXTENDS Capture, FiniteSetTheorems, TLAPS

Numbers ==
  /\ now \in Nat /\ deadline \in Nat /\ last_event_at \in Nat
  /\ stop_at \in Int /\ load_at \in Int /\ idle_at \in Int

(* While the loop waits, the alarm is set to what the policy says of the   *)
(* state it is in, and the alarm was still ahead when it was set.          *)
Armed ==
  pc = "select" =>
    /\ stop_at = CollectStopAt(deadline, GateAt, pending # << >>, last_event_at)
    /\ last_event_at < stop_at

(* What it means for the policy's moment to have come, or not yet. *)
LEMMA StopMoment ==
  ASSUME NEW end \in Int, NEW gate \in Int, NEW waiting \in BOOLEAN,
         NEW event \in Int, NEW t \in Int
  PROVE  /\ CollectStopAt(end, gate, waiting, event) \in Int
         /\ t >= CollectStopAt(end, gate, waiting, event) =>
              \/ t >= end
              \/ /\ gate # Never /\ ~waiting
                 /\ \/ t >= gate + PostIdleGrace
                    \/ t >= Later(event, gate) + QuietGrace
         /\ t < CollectStopAt(end, gate, waiting, event) =>
              /\ t < end
              /\ gate # Never /\ ~waiting => t < gate + PostIdleGrace
  <1>1. PostIdleGrace \in Nat /\ QuietGrace \in Nat
    BY TimeAssumption DEF TimeAssumption
  <1>2. CASE gate # Never /\ ~waiting
    BY <1>1, <1>2 DEF CollectStopAt, Min3, Earlier, Later, Never
  <1>3. CASE ~(gate # Never /\ ~waiting)
    BY <1>3 DEF CollectStopAt
  <1> QED  BY <1>2, <1>3

(* The top of the loop sets the alarm, or leaves because it has come.      *)
LEMMA LoopTopArms ==
  ASSUME LoopTop, now \in Nat, deadline' \in Nat, load_at' \in Int, idle_at' \in Int,
         UNCHANGED <<opts, now>>
  PROVE  /\ last_event_at' \in Nat /\ stop_at' \in Int /\ Armed'
         /\ pc' = "finalize" =>
              \/ now >= deadline'
              \/ /\ GateAt' # Never /\ pending' = << >>
                 /\ \/ now >= GateAt' + PostIdleGrace
                    \/ now >= Later(last_event_at', GateAt') + QuietGrace
  <1> DEFINE waiting == pending' # << >>
  <1>1. GateAt' = Gate(load_at', idle_at') /\ GateAt' \in Int /\ last_event_at' = now
    BY DEF GateAt, Gate, LoopTop
  <1>2. stop_at' = CollectStopAt(deadline', GateAt', waiting, now)
    BY <1>1 DEF LoopTop
  <1>3. /\ stop_at' \in Int
        /\ now >= stop_at' =>
              \/ now >= deadline'
              \/ /\ GateAt' # Never /\ ~waiting
                 /\ \/ now >= GateAt' + PostIdleGrace
                    \/ now >= Later(now, GateAt') + QuietGrace
    <2>1. waiting \in BOOLEAN  OBVIOUS
    <2> HIDE DEF waiting
    <2> QED  BY <1>1, <1>2, <2>1, StopMoment
  <1>4. pc' = IF stop_at' <= now THEN "finalize" ELSE "select"
    BY DEF LoopTop
  <1>5. pc' = "select" => now < stop_at'
    BY <1>3, <1>4
  <1>6. pc' = "finalize" => now >= stop_at'
    BY <1>3, <1>4
  <1>7. Armed'
    <2>1. CollectStopAt(deadline, GateAt, pending # << >>, last_event_at)'
            = CollectStopAt(deadline', GateAt', waiting, now)
      BY <1>1 DEF CollectStopAt
    <2> QED  BY <1>1, <1>2, <1>5, <2>1 DEF Armed
  <1> QED  BY <1>1, <1>3, <1>6, <1>7

(* Every handler ends at the top of the loop. *)
LEMMA HandlersReachTop ==
  ASSUME Numbers, HandleEvent
  PROVE  /\ LoopTop /\ pc = "select" /\ deadline' = deadline
         /\ load_at' \in Int /\ idle_at' \in Int
  <1>1. ASSUME HandleLifecycle
        PROVE  load_at' \in Int /\ idle_at' \in Int /\ deadline' = deadline
    BY <1>1 DEF HandleLifecycle, First, Numbers
  <1>2. ASSUME \/ HandleNote \/ HandlePseudoResponse \/ HandleResponse
               \/ HandleFinished \/ HandleRequest \/ HandleFailed
        PROVE  deadline' = deadline /\ load_at' = load_at /\ idle_at' = idle_at
    BY <1>2 DEF HandleNote, HandlePseudoResponse, HandleResponse, HandleFinished,
                HandleRequest, HandleFailed, gateVars
  <1>3. LoopTop /\ pc = "select"
    BY DEF HandleEvent, HandleLifecycle, HandleNote, HandlePseudoResponse,
           HandleResponse, HandleFinished, HandleRequest, HandleFailed, Take
  <1> QED  BY <1>1, <1>2, <1>3 DEF HandleEvent, Numbers

(* A step that neither waits in the loop nor lets it wait. *)
LEMMA OutsideLoop ==
  ASSUME Numbers, pc' # "select", now' \in Nat, deadline' \in Nat,
         DropLocals \/ UNCHANGED localVars
  PROVE  Numbers' /\ Armed'
  <1>1. CASE DropLocals
    BY <1>1 DEF DropLocals, Numbers, Armed, Never
  <1>2. CASE UNCHANGED localVars
    BY <1>2 DEF localVars, loopVars, exitVars, gateVars, Numbers, Armed
  <1> QED  BY <1>1, <1>2

(* A step away from the loop: the waits, the reads, the teardown, an early *)
(* return or the deadline.                                                 *)
Away == /\ now' \in Nat /\ deadline' \in Nat
        /\ pc' # "select" /\ (pc' = "finalize" => pc = "finalize")
        /\ DropLocals \/ UNCHANGED localVars

(* A step that leaves the loop and its alarm as they are. *)
Aside == /\ UNCHANGED <<opts, pc, deadline, exitVars, gateVars, pending>>
         /\ now' \in Nat

(* What a step may do, as far as the exit policy is concerned. *)
LEMMA StepsOf ==
  ASSUME Numbers, [Next]_vars
  PROVE  \/ (HandleEvent \/ Navigated \/ SleepFires) /\ UNCHANGED <<opts, now>>
         \/ Away \/ Aside
  <1>1. CASE UNCHANGED vars
    BY <1>1 DEF vars, localVars, loopVars, Aside, Numbers
  <1>2. CASE Stage
    <2>0. now' = now /\ now \in Nat /\ deadline \in Nat /\ now + Timeout \in Nat
          /\ UNCHANGED <<opts, now>>
      BY <1>2, TimeAssumption DEF Stage, Numbers, TimeAssumption
    <2>1. CASE CreateContext \/ NewPage \/ Apply \/ WaitTimesOut \/ WaitsDone \/ Format
      BY <2>0, <2>1 DEF CreateContext, NewPage, Apply, WaitTimesOut, WaitsDone,
                        Format, GoTo, Away
    <2>2. CASE FinalizeCollect
      BY <2>0, <2>2 DEF FinalizeCollect, GoTo, Away
    <2>3. CASE WaitMatches
      BY <2>0, <2>3 DEF WaitMatches, Away
    <2>4. CASE CommandFails
      BY <2>0, <2>4 DEF CommandFails, GoTo, Away
    <2> QED  BY <1>2, <2>0, <2>1, <2>2, <2>3, <2>4 DEF Stage
  <1>3. CASE Cut
    BY <1>3 DEF Cut, CutOff, Away, Numbers
  <1>4. CASE Teardown
    BY <1>4 DEF Teardown, ClosePage, DisposeContext, localVars, loopVars, Aside, Numbers
  <1>5. CASE Tick
    BY <1>5 DEF Tick, localVars, loopVars, Aside, Numbers
  <1>6. CASE Stopped
    BY <1>6, <1>1 DEF Stopped
  <1>7. CASE CollectStep
    <2>1. CASE UpstreamFailure
      BY <1>7, <2>1 DEF CollectStep, UpstreamFailure, Away, Numbers
    <2> QED  BY <1>7, <2>1 DEF CollectStep
  <1>8. CASE PageStep /\ UNCHANGED <<opts, now, pc, deadline, captureVars>>
    BY <1>8 DEF PageStep, Aside, Numbers
  <1> QED  BY <1>1, <1>2, <1>3, <1>4, <1>5, <1>6, <1>7, <1>8 DEF Next

(* Navigated starts the first turn of the loop. *)
LEMMA NavigatedArms ==
  ASSUME Numbers, Navigated
  PROVE  /\ LoopTop /\ pc = "goto" /\ deadline' \in Nat
         /\ load_at' \in Int /\ idle_at' \in Int
  BY TimeAssumption DEF Navigated, Numbers, gateVars, TimeAssumption

(* Every step of the capture keeps the clocks numbers and the timer armed. *)
LEMMA Inductive ==
  ASSUME Numbers, Armed, [Next]_vars
  PROVE  Numbers' /\ Armed'
  <1>1. CASE (HandleEvent \/ Navigated) /\ UNCHANGED <<opts, now>>
    <2>1. /\ LoopTop /\ deadline' \in Nat /\ load_at' \in Int /\ idle_at' \in Int
      BY <1>1, HandlersReachTop, NavigatedArms DEF Numbers
    <2>2. now \in Nat /\ now' = now  BY <1>1 DEF Numbers
    <2> QED  BY <1>1, <2>1, <2>2, LoopTopArms DEF Numbers
  <1>2. CASE SleepFires /\ UNCHANGED <<opts, now>>
    BY <1>2 DEF SleepFires, loopVars, exitVars, gateVars, Numbers, Armed
  <1>3. CASE Away
    BY <1>3, OutsideLoop DEF Away
  <1>4. CASE Aside
    BY <1>4 DEF Aside, exitVars, gateVars, Numbers, Armed, GateAt, Gate, CollectStopAt
  <1> QED  BY <1>1, <1>2, <1>3, <1>4, StepsOf

(* So they are in every state.                                             *)
LEMMA AlwaysArmed == Spec => [](Numbers /\ Armed)
  <1>1. Init => Numbers /\ Armed
    BY DEF Init, LocalsAtStart, Numbers, Armed, Never
  <1>2. (Numbers /\ Armed) /\ [Next]_vars => (Numbers /\ Armed)'
    BY Inductive
  <1> QED  BY <1>1, <1>2, PTL DEF Spec

-----------------------------------------------------------------------------
(* No page can hold the loop: once an event has been handled at or after   *)
(* the end of the tail or of the timeout, the loop handles no other.       *)
THEOREM TailHolds == Spec => TailBounded
  <1>1. Numbers /\ Armed =>
          [HandleEvent => /\ last_event_at < deadline
                          /\ GateAt # Never /\ pending = << >> =>
                               last_event_at < GateAt + PostIdleGrace]_vars
    <2> SUFFICES ASSUME Numbers, Armed, HandleEvent
                 PROVE  /\ last_event_at < deadline
                        /\ GateAt # Never /\ pending = << >> =>
                             last_event_at < GateAt + PostIdleGrace
      OBVIOUS
    <2> DEFINE waiting == pending # << >>
    <2>1. pc = "select"  BY HandlersReachTop
    <2>2. last_event_at < CollectStopAt(deadline, GateAt, waiting, last_event_at)
      BY <2>1 DEF Armed
    <2>3. /\ deadline \in Int /\ GateAt \in Int /\ last_event_at \in Int
          /\ waiting \in BOOLEAN
      BY DEF Numbers, GateAt, Gate
    <2> HIDE DEF waiting
    <2>4. last_event_at < deadline /\ (GateAt # Never /\ ~waiting =>
                                        last_event_at < GateAt + PostIdleGrace)
      BY <2>2, <2>3, StopMoment
    <2> QED  BY <2>4 DEF waiting
  <1> QED  BY <1>1, AlwaysArmed, PTL DEF TailBounded

(* The loop never leaves early: at the timeout, or after the gate, with    *)
(* every pattern taken and the page quiet or its tail used up.             *)
THEOREM ExitHolds == Spec => ExitIsEarned
  <1> DEFINE Earned == \/ now >= deadline'
                       \/ /\ GateAt' # Never /\ pending' = << >>
                          /\ \/ now >= GateAt' + PostIdleGrace
                             \/ now >= Later(last_event_at', GateAt') + QuietGrace
  <1>1. (Numbers /\ Armed) /\ [Next]_vars =>
          [pc' = "finalize" /\ pc # pc' => Earned]_vars
    <2> SUFFICES ASSUME Numbers, Armed, [Next]_vars, pc' = "finalize", pc # pc'
                 PROVE  Earned
      OBVIOUS
    <2>1. CASE (HandleEvent \/ Navigated) /\ UNCHANGED <<opts, now>>
      <3>1. /\ LoopTop /\ deadline' \in Nat /\ load_at' \in Int /\ idle_at' \in Int
        BY <2>1, HandlersReachTop, NavigatedArms DEF Numbers
      <3>2. now \in Nat  BY DEF Numbers
      <3> QED  BY <2>1, <3>1, <3>2, LoopTopArms
    <2>2. CASE SleepFires /\ UNCHANGED <<opts, now>>
      <3> DEFINE waiting == pending # << >>
      <3>1. /\ now >= CollectStopAt(deadline, GateAt, waiting, last_event_at)
            /\ GateAt \in Int /\ deadline \in Int /\ last_event_at \in Int
            /\ now \in Int /\ waiting \in BOOLEAN
        BY <2>2 DEF SleepFires, Armed, Numbers, GateAt, Gate
      <3>2. /\ GateAt' = GateAt /\ pending' = pending /\ deadline' = deadline
            /\ last_event_at' = last_event_at
        BY <2>2 DEF SleepFires, loopVars, exitVars, gateVars, GateAt, Gate
      <3> HIDE DEF waiting
      <3>3. \/ now >= deadline
            \/ /\ GateAt # Never /\ ~waiting
               /\ \/ now >= GateAt + PostIdleGrace
                  \/ now >= Later(last_event_at, GateAt) + QuietGrace
        BY <3>1, StopMoment
      <3> QED  BY <3>2, <3>3 DEF waiting
    <2>3. ~Away  BY DEF Away
    <2>4. ~Aside  BY DEF Aside
    <2> QED  BY <2>1, <2>2, <2>3, <2>4, StepsOf
  <1> QED  BY <1>1, AlwaysArmed, PTL DEF ExitIsEarned, Spec
-----------------------------------------------------------------------------
(* The list that is handed on.                                             *)

(* What the collect stage left of the list depends on whether it freed it. *)
Counts ==
  /\ DOMAIN stat = {"count", "failed", "listed", "seen"}
  /\ stat.count \in Nat
  /\ pc \in {"waits", "read"} /\ ~opts.lean =>
       stat.listed = IF FreeResources THEN 0 ELSE stat.count

Handed == IsFiniteSet(DOMAIN resources) /\ Counts

(* Recording an entry adds at most one.                                    *)
LEMMA RecordIsFinite ==
  ASSUME IsFiniteSet(DOMAIN resources), NEW id, NEW entry,
         resources' = Record(id, entry)
  PROVE  IsFiniteSet(DOMAIN resources')
  <1>1. DOMAIN resources' = DOMAIN resources \cup {id}
    BY DEF Record
  <1> QED  BY <1>1, FS_AddElement

(* The list only grows by single entries, or goes with the locals. *)
LEMMA ListStaysFinite ==
  ASSUME IsFiniteSet(DOMAIN resources), [Next]_vars
  PROVE  IsFiniteSet(DOMAIN resources')
  <1>1. ASSUME DropLocals PROVE IsFiniteSet(DOMAIN resources')
    <2>1. DOMAIN resources' = {}  BY <1>1 DEF DropLocals
    <2> QED  BY <2>1, FS_EmptySet
  <1>2. ASSUME UNCHANGED resources PROVE IsFiniteSet(DOMAIN resources')
    BY <1>2
  <1>3. CASE HandleResponse
    <2>1. PICK id, entry : resources' = resources \/ resources' = Record(id, entry)
      BY <1>3 DEF HandleResponse
    <2> QED  BY <1>2, <2>1, RecordIsFinite
  <1>4. CASE HandleFinished
    <2>1. DOMAIN resources' = DOMAIN resources  BY <1>4 DEF HandleFinished
    <2> QED  BY <2>1
  <1>5. CASE HandleRequest
    <2>1. PICK id, entry : resources' = resources \/ resources' = Record(id, entry)
      BY <1>5 DEF HandleRequest
    <2> QED  BY <1>2, <2>1, RecordIsFinite
  <1>6. CASE HandleLifecycle \/ HandleNote \/ HandlePseudoResponse \/ HandleFailed \/ SleepFires
    BY <1>2, <1>6 DEF HandleLifecycle, HandleNote, HandlePseudoResponse, HandleFailed,
                      SleepFires, loopVars
  <1>7. CASE CollectStep
    BY <1>1, <1>3, <1>4, <1>5, <1>6, <1>7 DEF CollectStep, HandleEvent, UpstreamFailure
  <1>8. CASE Stage
    BY <1>1, <1>2, <1>8
    DEF Stage, CreateContext, NewPage, Apply, Navigated, FinalizeCollect, WaitMatches,
        WaitTimesOut, WaitsDone, Format, CommandFails, localVars, loopVars
  <1>9. CASE Cut \/ Teardown \/ Tick \/ Stopped \/ PageStep \/ UNCHANGED vars
    BY <1>1, <1>2, <1>9 DEF Cut, CutOff, Teardown, ClosePage, DisposeContext, Tick,
                            Stopped, PageStep, vars, localVars, loopVars
  <1> QED  BY <1>7, <1>8, <1>9 DEF Next

(* What is counted of a finite list is a number.                           *)
LEMMA CountIsNatural ==
  ASSUME IsFiniteSet(DOMAIN resources)
  PROVE  Cardinality(Retained) \in Nat
  <1>1. Retained \subseteq DOMAIN resources  BY DEF Retained
  <1> QED  BY <1>1, FS_Subset, FS_CardinalityType

(* The counts stay true as long as they are left alone. *)
LEMMA CountsLeftAlone ==
  ASSUME Counts, ListKept, UNCHANGED <<opts, stat>>,
         \/ pc' \notin {"waits", "read", "returned"} \/ pc' = pc
         \/ pc = "waits" /\ pc' = "read",
         pc = "returned" => pc' = pc
  PROVE  Counts' /\ ListKept'
  <1>1. /\ stat' = stat /\ opts' = opts /\ FreeResources' = FreeResources
        /\ \A r \in Readers : Wanted(r)' = Wanted(r)
    BY DEF FreeResources, Wanted
  <1>2. Counts'  BY <1>1 DEF Counts
  <1>3. ListKept'  BY <1>1 DEF ListKept
  <1> QED  BY <1>2, <1>3

(* What was handed on stays the number that was counted.                   *)
LEMMA HandedKept ==
  ASSUME Handed, ListKept, [Next]_vars
  PROVE  Handed' /\ ListKept'
  <1>0. IsFiniteSet(DOMAIN resources')
    BY ListStaysFinite DEF Handed
  <1> SUFFICES Counts' /\ ListKept'
    BY <1>0 DEF Handed
  <1>c. Counts  BY DEF Handed
  <1>2. CASE FinalizeCollect /\ UNCHANGED <<opts, now>>
    <2>1. PICK c : c \in Nat /\ c = Cardinality(Retained)
      BY CountIsNatural DEF Handed
    <2>2. pc' = "waits" /\ pc = "finalize" /\ opts' = opts
      BY <1>2 DEF FinalizeCollect, GoTo
    <2>3. CASE opts.lean
      <3>1. stat' = NoStat
        BY <1>2, <2>3 DEF FinalizeCollect
      <3>2. DOMAIN NoStat = {"count", "failed", "listed", "seen"} /\ NoStat.count = 0
        BY DEF NoStat
      <3> QED  BY <2>2, <2>3, <3>1, <3>2 DEF ListKept, Counts
    <2>4. CASE ~opts.lean
      <3>1. PICK f : stat' = [stat EXCEPT !.count = c, !.failed = f,
                                          !.listed = IF FreeResources THEN 0 ELSE c]
        BY <1>2, <2>1, <2>4 DEF FinalizeCollect
      <3>2. /\ DOMAIN stat' = {"count", "failed", "listed", "seen"}
            /\ stat'.count = c
            /\ stat'.listed = IF FreeResources THEN 0 ELSE c
        BY <1>c, <3>1 DEF Counts
      <3>3. FreeResources' = FreeResources  BY <2>2 DEF FreeResources
      <3> QED  BY <2>1, <2>2, <3>2, <3>3 DEF ListKept, Counts
    <2> QED  BY <2>3, <2>4
  <1>3. CASE Format /\ UNCHANGED <<opts, now>>
    <2>1. pc = "read" /\ pc' = "returned" /\ opts' = opts  BY <1>3 DEF Format, GoTo
    <2>2. stat' = Derived  BY <1>3 DEF Format
    <2>3. /\ DOMAIN stat' = {"count", "failed", "listed", "seen"}
          /\ stat'.count = stat.count
          /\ stat'.listed = IF opts.resources THEN stat.listed ELSE 0
          /\ \A r \in Readers : stat'.seen[r] = IF Wanted(r) THEN stat.listed ELSE 0
      BY <1>c, <2>2 DEF Counts, Derived
    <2>4. Counts'
      BY <1>c, <2>1, <2>3 DEF Counts
    <2>5. ListKept'
      <3>1. CASE opts.lean  BY <2>1, <3>1 DEF ListKept
      <3>2. CASE ~opts.lean
        <4>1. stat.listed = IF FreeResources THEN 0 ELSE stat.count
          BY <1>c, <2>1, <3>2 DEF Counts
        <4>2. opts.resources => stat.listed = stat.count
          BY <4>1 DEF FreeResources
        <4>3. \A r \in Readers : Wanted(r) => stat.listed = stat.count
          <5>1. ASSUME Wanted("cors")   PROVE ~FreeResources  BY <5>1 DEF Wanted, FreeResources
          <5>2. ASSUME Wanted("images") PROVE ~FreeResources  BY <5>2 DEF Wanted, FreeResources
          <5>3. ASSUME Wanted("har")    PROVE ~FreeResources  BY <5>3 DEF Wanted, FreeResources
          <5> QED  BY <4>1, <5>1, <5>2, <5>3 DEF Readers
        <4>4. \A r \in Readers : Wanted(r)' = Wanted(r)  BY <2>1 DEF Wanted
        <4> QED  BY <2>1, <2>3, <4>2, <4>3, <4>4 DEF ListKept
      <3> QED  BY <3>1, <3>2
    <2> QED  BY <2>4, <2>5
  <1>4. CASE Stage
    <2>1. UNCHANGED <<opts, now>>  BY <1>4 DEF Stage
    <2>2. CASE \/ CreateContext \/ NewPage \/ Apply \/ WaitTimesOut \/ WaitsDone \/ CommandFails
      BY <1>c, CountsLeftAlone, <2>1, <2>2 DEF CreateContext, NewPage, Apply, WaitTimesOut, WaitsDone,
                              CommandFails, GoTo, captureVars
    <2>3. CASE Navigated \/ WaitMatches
      BY <1>c, CountsLeftAlone, <2>1, <2>3 DEF Navigated, WaitMatches, captureVars, LoopTop
    <2> QED  BY <1>2, <1>3, <1>4, <2>1, <2>2, <2>3 DEF Stage
  <1>5. CASE CollectStep /\ UNCHANGED captureVars
    <2>1. /\ UNCHANGED <<opts, stat>> /\ pc = "select"
          /\ pc' \in {"select", "finalize", "failed"}
      BY <1>5 DEF CollectStep, HandleEvent, HandleLifecycle, HandleNote,
         HandlePseudoResponse, HandleResponse, HandleFinished, HandleRequest,
         HandleFailed, Take, LoopTop, UpstreamFailure, SleepFires, captureVars
    <2> QED  BY <1>c, CountsLeftAlone, <2>1
  <1>6. CASE Cut
    BY <1>c, CountsLeftAlone, <1>6 DEF Cut, CutOff, captureVars, Running
  <1>7. CASE \/ Teardown \/ Tick \/ Stopped \/ UNCHANGED vars
             \/ PageStep /\ UNCHANGED <<opts, now, pc, deadline, captureVars>>
    BY <1>c, <1>7, CountsLeftAlone DEF Teardown, ClosePage, DisposeContext, Tick, Stopped, vars, captureVars
  <1> QED  BY <1>4, <1>5, <1>6, <1>7 DEF Next

(* Freeing the list early starves nobody: whichever of the flags a request *)
(* sets, each stage it asked for saw every resource that was counted.      *)
THEOREM ListHolds == Spec => []ListKept
  <1>1. Init => Handed /\ ListKept
    <2> SUFFICES ASSUME Init PROVE Handed /\ ListKept  OBVIOUS
    <2>1. pc = "context" /\ resources = << >> /\ stat = NoStat
      BY DEF Init, LocalsAtStart
    <2>2. /\ DOMAIN resources = {} /\ stat.count = 0
          /\ DOMAIN stat = {"count", "failed", "listed", "seen"}
      BY <2>1 DEF NoStat
    <2> QED  BY <2>1, <2>2, FS_EmptySet DEF Handed, Counts, ListKept
  <1>2. (Handed /\ ListKept) /\ [Next]_vars => (Handed /\ ListKept)'
    BY HandedKept
  <1> QED  BY <1>1, <1>2, PTL DEF Spec
=============================================================================
